------------------------------ MODULE ConnParser ------------------------------
(***************************************************************************)
(* One client connection as the kqueue thread reads it: the client branch  *)
(* of setup_server's loop (networking/transport/tcp.cpp:153-167),          *)
(* recv_nb_til_limit, the ClientState buffer and parse_ready_client.       *)
(*                                                                         *)
(* The peer sends a stream of frames.  A byte is its offset in that        *)
(* stream, so the buffer shows which bytes it holds; a header is the       *)
(* number of the frame that starts there.  A wakeup reads the socket once  *)
(* and then calls parse_message several times, one step each.              *)
(***************************************************************************)
EXTENDS Integers, Sequences

CONSTANTS StateSize,    \* STATE_SIZE: bytes of a connection's buffer
          ReadBudget,   \* READ_BYTE_BUDGET: bytes read per wakeup
          MsgLimit,     \* MSG_LIMIT_PER_CONN: parse_message calls per wakeup
          HeaderSize,   \* sizeof(OrderMsgHeader)
          WireSize,     \* sizeof of the Wire struct, per known message type
          Streams       \* the streams a peer may send: sequences of frames
                        \* [type, len, start], where len is the header's
                        \* payload_len and start the offset of its first byte

KnownTypes == DOMAIN WireSize

\* The offset behind frame k of stream s.
EndIn(s, k) == s[k].start + HeaderSize + s[k].len

ASSUME ParserAssumption ==
    /\ StateSize \in Nat \ {0} /\ ReadBudget \in Nat \ {0}
    /\ MsgLimit \in Nat \ {0} /\ HeaderSize \in Nat \ {0}
    /\ \A t \in KnownTypes : WireSize[t] \in Nat /\ HeaderSize + WireSize[t] <= StateSize
    /\ \A s \in Streams : Len(s) \in Nat /\ DOMAIN s = 1..Len(s)
    \* a peer that follows the protocol announces the size of what it sends
    /\ \A s \in Streams : \A k \in DOMAIN s :
           s[k].len \in Nat /\ (s[k].type \in KnownTypes => s[k].len = WireSize[s[k].type])
    \* its frames lie one behind the other, without a gap
    /\ \A s \in Streams : \A k \in DOMAIN s :
           /\ s[k].start \in Nat
           /\ k = 1 => s[k].start = 0
           /\ \A j \in 1..(k - 1) : EndIn(s, j) <= s[k].start
           /\ k > 1 => s[k].start = EndIn(s, k - 1)

VARIABLES stream,       \* what this peer sends
          sent,         \* how many bytes of it are in the socket or beyond
          ending,       \* how the peer has ended its side: "no", "fin", "reset"
          received,     \* how many bytes recv has returned
          buf, read_pos, write_pos, parse_state, pending_header,
          msg_parsed,   \* the counter of parse_ready_client
          pc,           \* "kevent", "parse", or "closed"
          delivered     \* the frames pushed to the MessageSink

peerVars == <<stream, sent, ending>>
vars == <<peerVars, received, buf, read_pos, write_pos, parse_state,
          pending_header, msg_parsed, pc, delivered>>

Positions == 0..(StateSize - 1)
Empty == -1   \* content of a byte of buf never written

StreamLength == IF Len(stream) = 0 THEN 0 ELSE EndIn(stream, Len(stream))

\* The offset of frame k; of the end of the stream, for the frame after the last.
Start(k) == IF k \in DOMAIN stream THEN stream[k].start ELSE StreamLength

\* The frame whose header is the bytes from offset o on; 0 if none starts there.
FrameAt(o) ==
    IF \E k \in DOMAIN stream : stream[k].start = o
    THEN CHOOSE k \in DOMAIN stream : stream[k].start = o
    ELSE 0

IsKnown(k) == k # 0 /\ stream[k].type \in KnownTypes

\* what parse_message reads after a header: the Wire struct of a known type,
\* whatever payload_len says, and payload_len bytes of an unknown one
PayloadSize(k) ==
    IF k = 0 THEN 0
    ELSE IF IsKnown(k) THEN WireSize[stream[k].type] ELSE stream[k].len

TypeOK ==
    /\ stream \in Streams
    /\ sent \in 0..StreamLength /\ received \in 0..sent
    /\ ending \in {"no", "fin", "reset"}
    /\ buf \in [Positions -> 0..(StreamLength - 1) \union {Empty}]
    /\ read_pos \in 0..StateSize /\ write_pos \in read_pos..StateSize
    /\ parse_state \in {"ReadingHeader", "ReadingPayload"}
    /\ pending_header \in 0..Len(stream)
    /\ msg_parsed \in 0..(MsgLimit - 1)
    /\ pc \in {"kevent", "parse", "closed"}
    /\ delivered \in Seq(DOMAIN stream)

Init ==
    /\ stream \in Streams
    /\ sent = 0 /\ ending = "no" /\ received = 0
    /\ buf = [i \in Positions |-> Empty]
    /\ read_pos = 0 /\ write_pos = 0
    /\ parse_state = "ReadingHeader" /\ pending_header = 0
    /\ msg_parsed = 0
    /\ pc = "kevent"
    /\ delivered = <<>>

-----------------------------------------------------------------------------
(***************************************************************************)
(* The peer and the network: any number of bytes at a time, and an end.    *)
(***************************************************************************)
PeerSends(n) ==
    /\ ending = "no"
    /\ sent + n <= StreamLength
    /\ sent' = sent + n
    /\ UNCHANGED <<stream, ending, received, buf, read_pos, write_pos, parse_state,
                   pending_header, msg_parsed, pc, delivered>>

PeerEnds(how) ==
    /\ ending = "no"
    /\ ending' = how
    /\ UNCHANGED <<stream, sent, received, buf, read_pos, write_pos, parse_state,
                   pending_header, msg_parsed, pc, delivered>>

-----------------------------------------------------------------------------
(***************************************************************************)
(* ClientState (networking/client_state.cpp).                              *)
(***************************************************************************)
Available == write_pos - read_pos

\* Seeded faults: cursors moved without the bytes; a full buffer left alone;
\* the room counted from the start of the buffer.
CompactedWithoutMove ==
    IF read_pos = write_pos THEN [buf |-> buf, read |-> 0, write |-> 0]
    ELSE IF write_pos = StateSize THEN [buf |-> buf, read |-> 0, write |-> Available]
    ELSE [buf |-> buf, read |-> read_pos, write |-> write_pos]
NeverCompacted ==
    IF read_pos = write_pos THEN [buf |-> buf, read |-> 0, write |-> 0]
    ELSE [buf |-> buf, read |-> read_pos, write |-> write_pos]
WholeBuffer(write) == StateSize

\* pre_check: the buffer and the cursors after it
PreChecked ==
    IF read_pos = write_pos THEN [buf |-> buf, read |-> 0, write |-> 0]
    ELSE IF write_pos = StateSize
    THEN [buf |-> [i \in Positions |->
                      IF i < Available THEN buf[read_pos + i] ELSE buf[i]],
          read |-> 0, write |-> Available]
    ELSE [buf |-> buf, read |-> read_pos, write |-> write_pos]

\* write_limit
WriteLimit(write) == StateSize - write

MinOf(a, b) == IF a <= b THEN a ELSE b

(***************************************************************************)
(* The wakeup.  The socket is readable as long as bytes or the end of the  *)
(* stream are left in it (kevent without EV_CLEAR is level-triggered).     *)
(***************************************************************************)
Readable == received < sent \/ ending # "no"

Budget == MinOf(WriteLimit(PreChecked.write), ReadBudget)

\* recv_nb_til_limit goes on until the budget is used up, the socket is empty
\* or the stream ends.  It does not look at the socket with a budget of 0.
SeesEnd ==
    /\ Budget > 0
    /\ \/ ending = "reset"
       \/ ending = "fin" /\ sent - received < Budget

WakeupReads ==
    /\ pc = "kevent"
    /\ Readable
    /\ ~SeesEnd
    /\ LET got == MinOf(Budget, sent - received)
           w == PreChecked.write
       IN  /\ buf' = [i \in Positions |->
                          IF i \in w..(w + got - 1) THEN received + (i - w)
                          ELSE PreChecked.buf[i]]
           /\ read_pos' = PreChecked.read
           /\ write_pos' = w + got
           /\ received' = received + got
    /\ msg_parsed' = 0
    /\ pc' = "parse"
    /\ UNCHANGED <<peerVars, parse_state, pending_header, delivered>>

\* recv_nb_til_limit returns -1 or -2: the fd is closed and its ClientState
\* erased, with whatever this call or earlier ones had read
WakeupCloses ==
    /\ pc = "kevent"
    /\ Readable
    /\ SeesEnd
    /\ pc' = "closed"
    /\ UNCHANGED <<peerVars, received, buf, read_pos, write_pos, parse_state,
                   pending_header, msg_parsed, delivered>>

(***************************************************************************)
(* parse_message, called in a loop by parse_ready_client.                  *)
(***************************************************************************)
HaveHeader == parse_state = "ReadingPayload" \/ Available >= HeaderSize
Header == IF parse_state = "ReadingHeader" THEN FrameAt(buf[read_pos]) ELSE pending_header
PayloadPos == IF parse_state = "ReadingHeader" THEN read_pos + HeaderSize ELSE read_pos
HavePayload == write_pos - PayloadPos >= PayloadSize(Header)

ParseNoHeader ==
    /\ pc = "parse"
    /\ ~HaveHeader
    /\ pc' = "kevent"
    /\ msg_parsed' = 0
    /\ UNCHANGED <<peerVars, received, buf, read_pos, write_pos, parse_state,
                   pending_header, delivered>>

\* Seeded fault: that the header has been read is forgotten.
ParseNoPayloadForgets ==
    /\ pc = "parse"
    /\ HaveHeader
    /\ ~HavePayload
    /\ pending_header' = Header
    /\ read_pos' = PayloadPos
    /\ pc' = "kevent"
    /\ msg_parsed' = 0
    /\ UNCHANGED <<peerVars, received, buf, write_pos, parse_state, delivered>>

\* the header is kept, and the next call resumes with the payload
ParseNoPayload ==
    /\ pc = "parse"
    /\ HaveHeader
    /\ ~HavePayload
    /\ parse_state' = "ReadingPayload"
    /\ pending_header' = Header
    /\ read_pos' = PayloadPos
    /\ pc' = "kevent"
    /\ msg_parsed' = 0
    /\ UNCHANGED <<peerVars, received, buf, write_pos, delivered>>

\* Seeded fault: after an unknown type the parser does not resynchronise.
ParseCompleteNoResync ==
    /\ pc = "parse"
    /\ HaveHeader
    /\ HavePayload
    /\ parse_state' = IF IsKnown(Header) THEN "ReadingHeader" ELSE "ReadingPayload"
    /\ pending_header' = Header
    /\ read_pos' = PayloadPos + PayloadSize(Header)
    /\ delivered' = IF IsKnown(Header) THEN Append(delivered, Header) ELSE delivered
    /\ msg_parsed' = (msg_parsed + 1) % MsgLimit
    /\ pc' = IF msg_parsed + 1 = MsgLimit THEN "kevent" ELSE "parse"
    /\ UNCHANGED <<peerVars, received, buf, write_pos>>

\* a message is pushed to the sink, or an unknown payload is skipped; either
\* counts towards the limit
ParseComplete ==
    /\ pc = "parse"
    /\ HaveHeader
    /\ HavePayload
    /\ parse_state' = "ReadingHeader"
    /\ pending_header' = Header
    /\ read_pos' = PayloadPos + PayloadSize(Header)
    /\ delivered' = IF IsKnown(Header) THEN Append(delivered, Header) ELSE delivered
    /\ msg_parsed' = (msg_parsed + 1) % MsgLimit
    /\ pc' = IF msg_parsed + 1 = MsgLimit THEN "kevent" ELSE "parse"
    /\ UNCHANGED <<peerVars, received, buf, write_pos>>

Server == WakeupReads \/ WakeupCloses \/ ParseNoHeader \/ ParseNoPayload \/ ParseComplete

Next ==
    \/ \E n \in 1..StreamLength : PeerSends(n)
    \/ \E how \in {"fin", "reset"} : PeerEnds(how)
    \/ Server

Spec == Init /\ [][Next]_vars

\* The kqueue thread keeps looking at its sockets; the peer owes nothing.
FairSpec == Spec /\ WF_vars(Server)

-----------------------------------------------------------------------------
(***************************************************************************)
(* Properties.                                                             *)
(***************************************************************************)
\* How much of the stream parse_message has taken out of the buffer.
Consumed == received - Available

\* The bytes between the cursors are the bytes received and not consumed, in
\* order: across resets, memmoves and reads at any position of the buffer.
BufferHoldsStream ==
    pc # "closed" =>
        \A i \in 0..(Available - 1) : buf[read_pos + i] = Consumed + i

\* The known frames before frame k have been delivered, each once and in order.
DeliveredBefore(k) ==
    /\ {delivered[i] : i \in DOMAIN delivered} = {j \in 1..(k - 1) : IsKnown(j)}
    /\ \A i, j \in DOMAIN delivered : i < j => delivered[i] < delivered[j]

\* The parser is at a frame boundary, or past the header it remembers, and
\* has delivered exactly the known messages before it, each once and in
\* order, however the stream was cut into reads.
Framing ==
    \E k \in 1..(Len(stream) + 1) :
        /\ DeliveredBefore(k)
        /\ \/ parse_state = "ReadingHeader" /\ Consumed = Start(k)
           \/ /\ parse_state = "ReadingPayload" /\ k <= Len(stream)
              /\ pending_header = k /\ Consumed = Start(k) + HeaderSize

\* The socket is drained: a buffer filled up with frames that wait for their
\* turn, or with the beginning of one, always makes room in the end.
AllBytesRead == received < sent ~> (received = sent \/ ending # "no")

\* An unrecognised message does not stop the connection: its payload is
\* drained and the parser resynchronises (README.md:91).
UnknownIsDrained ==
    (parse_state = "ReadingPayload" /\ ~IsKnown(pending_header) /\ sent = StreamLength)
        ~> (parse_state = "ReadingHeader" \/ ending # "no")

\* A connection its peer has ended is closed in the end.
EndedIsClosed == ending # "no" ~> pc = "closed"

\* A message that lies complete in the buffer reaches the sink ("Completed
\* messages are pushed to MessageSink", README.md:70), unless the peer ends.
CompleteIsDelivered ==
    \A s \in Streams : \A k \in DOMAIN s :
        (stream = s /\ IsKnown(k) /\ received >= Start(k + 1))
            ~> (k \in {delivered[i] : i \in DOMAIN delivered} \/ ending # "no")

\* A peer that closes in an orderly way has its complete messages handled.
EndLosesNothing ==
    (pc = "closed" /\ ending = "fin") =>
        \A k \in DOMAIN stream :
            (IsKnown(k) /\ sent >= Start(k + 1)) =>
                k \in {delivered[i] : i \in DOMAIN delivered}
=============================================================================
