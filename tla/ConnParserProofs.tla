--------------------------- MODULE ConnParserProofs ---------------------------
(***************************************************************************)
(* Proofs about ConnParser: whatever stream a peer sends and however the   *)
(* network cuts it into reads, the buffer holds the bytes received and not *)
(* consumed, and the messages delivered are the known ones, in order.      *)
(***************************************************************************)
EXTENDS ConnParser, TLAPS

-----------------------------------------------------------------------------
(***************************************************************************)
(* The stream.                                                             *)
(***************************************************************************)
\* The constants are numbers.
LEMMA Sizes ==
  /\ StateSize \in Nat \ {0} /\ ReadBudget \in Nat \ {0}
  /\ MsgLimit \in Nat \ {0} /\ HeaderSize \in Nat \ {0}
BY ParserAssumption

\* The frames of a stream lie one behind the other, and end where it ends.
LEMMA StreamIs ==
  ASSUME stream \in Streams
  PROVE  /\ Len(stream) \in Nat /\ DOMAIN stream = 1..Len(stream) /\ StreamLength \in Nat
         /\ Start(1) = 0 /\ Start(Len(stream) + 1) = StreamLength
         /\ \A k \in DOMAIN stream : /\ Start(k) \in Nat
                                     /\ Start(k) < StreamLength
                                     /\ stream[k].len \in Nat
                                     /\ Start(k + 1) = Start(k) + HeaderSize + stream[k].len
<1>1. Len(stream) \in Nat /\ DOMAIN stream = 1..Len(stream)
  BY ParserAssumption
<1>2. \A k \in DOMAIN stream :
        /\ stream[k].len \in Nat /\ stream[k].start \in Nat
        /\ k = 1 => stream[k].start = 0
        /\ \A j \in 1..(k - 1) : EndIn(stream, j) <= stream[k].start
        /\ k > 1 => stream[k].start = EndIn(stream, k - 1)
  BY ParserAssumption
<1>3. \A k \in DOMAIN stream : EndIn(stream, k) \in Nat /\ stream[k].start < EndIn(stream, k)
  BY <1>2, Sizes DEF EndIn
<1>4. StreamLength \in Nat
  BY <1>1, <1>3 DEF StreamLength
<1>5. ASSUME NEW k \in DOMAIN stream PROVE stream[k].start < StreamLength
  <2>1. k \in 1..Len(stream) /\ Len(stream) \in DOMAIN stream
    BY <1>1, <1>5
  <2>2. CASE k = Len(stream)
    BY <1>1, <1>3, <2>1, <2>2 DEF StreamLength
  <2>3. CASE k < Len(stream)
    <3>1. k \in 1..(Len(stream) - 1)
      BY <1>1, <2>1, <2>3
    <3>2. EndIn(stream, k) <= stream[Len(stream)].start
      BY <1>2, <2>1, <3>1
    <3>3. StreamLength = EndIn(stream, Len(stream))
      BY <1>1, <2>1 DEF StreamLength
    <3> QED
      BY <1>2, <1>3, <1>5, <2>1, <3>2, <3>3
  <2> QED
    BY <1>1, <2>1, <2>2, <2>3
<1>6. ASSUME NEW k \in DOMAIN stream PROVE Start(k + 1) = EndIn(stream, k)
  <2>1. CASE k = Len(stream)
    BY <1>1, <2>1, <1>6 DEF Start, StreamLength
  <2>2. CASE k < Len(stream)
    <3>1. k + 1 \in DOMAIN stream /\ k + 1 > 1 /\ k = (k + 1) - 1
      BY <1>1, <2>2, <1>6
    <3> QED
      BY <1>2, <3>1 DEF Start
  <2> QED
    BY <1>1, <1>6, <2>1, <2>2
<1>7. Start(1) = 0
  BY <1>1, <1>2 DEF Start, StreamLength
<1>8. Start(Len(stream) + 1) = StreamLength
  BY <1>1 DEF Start
<1> QED
  BY <1>1, <1>2, <1>4, <1>5, <1>6, <1>7, <1>8 DEF Start, EndIn

\* The header at the start of a frame is its own.
LEMMA HeaderAtStart ==
  ASSUME stream \in Streams, NEW k \in DOMAIN stream
  PROVE  FrameAt(Start(k)) = k
<1>1. Len(stream) \in Nat /\ DOMAIN stream = 1..Len(stream)
  BY StreamIs
<1>2. ASSUME NEW j \in DOMAIN stream, stream[j].start = stream[k].start PROVE j = k
  <2>1. \A i \in DOMAIN stream : /\ stream[i].start \in Nat /\ EndIn(stream, i) \in Nat
                             /\ stream[i].start < EndIn(stream, i)
    BY ParserAssumption, Sizes DEF EndIn
  <2>2. \A m \in DOMAIN stream : \A i \in 1..(m - 1) : EndIn(stream, i) <= stream[m].start
    BY ParserAssumption
  <2>3. CASE j < k
    <3>1. EndIn(stream, j) <= stream[k].start
      BY <1>1, <2>2, <2>3
    <3> QED
      BY <1>2, <2>1, <3>1
  <2>4. CASE k < j
    <3>1. EndIn(stream, k) <= stream[j].start
      BY <1>1, <2>2, <2>4
    <3> QED
      BY <1>2, <2>1, <3>1
  <2> QED
    BY <1>1, <2>3, <2>4
<1> QED
  BY <1>2 DEF FrameAt, Start

\* The size that is read of a frame's payload is its size.
LEMMA PayloadIs ==
  ASSUME stream \in Streams, NEW k \in DOMAIN stream
  PROVE  PayloadSize(k) = stream[k].len
<1>1. k # 0
  BY StreamIs
<1>2. stream[k].type \in KnownTypes => stream[k].len = WireSize[stream[k].type]
  BY ParserAssumption
<1> QED
  BY <1>1, <1>2 DEF PayloadSize, IsKnown

-----------------------------------------------------------------------------
(***************************************************************************)
(* The inductive invariant: the three parts need each other.  A header is  *)
(* read out of the buffer, and the types of what parse_message stores rest *)
(* on its being the one that Framing says.                                 *)
(***************************************************************************)
IInv == TypeOK /\ BufferHoldsStream /\ Framing

\* The types that arithmetic needs.
LEMMA Numbers ==
  ASSUME TypeOK
  PROVE  /\ read_pos \in Nat /\ write_pos \in Nat /\ read_pos <= write_pos
         /\ StateSize \in Nat /\ write_pos <= StateSize /\ Available = write_pos - read_pos
         /\ Available \in Nat /\ sent \in Nat /\ received \in Nat /\ received <= sent
         /\ sent <= StreamLength /\ StreamLength \in Nat /\ Consumed = received - Available
BY StreamIs, Sizes DEF TypeOK, Available, Consumed

\* pre_check moves the bytes that are left and nothing else.
LEMMA PreCheckKeeps ==
  ASSUME TypeOK, BufferHoldsStream, pc # "closed"
  PROVE  /\ PreChecked.read \in Nat /\ PreChecked.write \in Nat
         /\ PreChecked.write = PreChecked.read + Available
         /\ PreChecked.write <= StateSize
         /\ PreChecked.buf \in [Positions -> 0..(StreamLength - 1) \union {Empty}]
         /\ \A i \in 0..(Available - 1) : PreChecked.buf[PreChecked.read + i] = Consumed + i
<1>0. /\ buf \in [Positions -> 0..(StreamLength - 1) \union {Empty}]
      /\ \A i \in 0..(Available - 1) : buf[read_pos + i] = Consumed + i
  BY DEF TypeOK, BufferHoldsStream
<1>1. CASE read_pos = write_pos
  <2>1. PreChecked = [buf |-> buf, read |-> 0, write |-> 0]
    BY <1>1 DEF PreChecked
  <2>2. Available = 0 /\ 0 <= StateSize /\ 0 = 0 + Available
    BY <1>1, Numbers, Sizes
  <2>3. 0..(Available - 1) = {}
    BY <2>2
  <2> QED
    BY <1>0, <2>1, <2>2, <2>3
<1>2. CASE read_pos # write_pos /\ write_pos = StateSize
  <2> DEFINE moved == [i \in Positions |->
                         IF i < Available THEN buf[read_pos + i] ELSE buf[i]]
  <2>1. PreChecked = [buf |-> moved, read |-> 0, write |-> Available]
    BY <1>2 DEF PreChecked
  <2>2. \A i \in 0..(Available - 1) : i \in Positions /\ read_pos + i \in Positions
    BY <1>2, Numbers, Sizes DEF Positions
  <2>3. moved \in [Positions -> 0..(StreamLength - 1) \union {Empty}]
    <3>1. \A i \in Positions : i < Available => i \in 0..(Available - 1)
      BY Numbers DEF Positions
    <3> QED
      BY <1>0, <2>2, <3>1
  <2>4. \A i \in 0..(Available - 1) : moved[i] = Consumed + i
    BY <1>0, <2>2, Numbers
  <2> HIDE DEF moved
  <2>5. PreChecked.buf = moved /\ PreChecked.read = 0 /\ PreChecked.write = Available
    BY <2>1
  <2>6. \A i \in 0..(Available - 1) : 0 + i = i
    BY Numbers
  <2>7. Available \in Nat /\ Available = 0 + Available /\ Available <= StateSize
    BY Numbers
  <2> QED
    BY <2>3, <2>4, <2>5, <2>6, <2>7
<1>3. CASE read_pos # write_pos /\ write_pos # StateSize
  <2>1. PreChecked = [buf |-> buf, read |-> read_pos, write |-> write_pos]
    BY <1>3 DEF PreChecked
  <2> QED
    BY <1>0, <2>1, Numbers
<1> QED
  BY <1>1, <1>2, <1>3

\* What parse_message has as its header is that of the frame it has come to.
LEMMA HeaderIsNext ==
  ASSUME IInv, pc = "parse", HaveHeader
  PROVE  \E k \in DOMAIN stream :
           /\ DeliveredBefore(k) /\ Header = k
           /\ PayloadPos \in read_pos..write_pos
           /\ received - (write_pos - PayloadPos) = Start(k) + HeaderSize
<1>1. stream \in Streams /\ parse_state \in {"ReadingHeader", "ReadingPayload"}
  BY DEF IInv, TypeOK
<1>2. PICK k \in 1..(Len(stream) + 1) :
        /\ DeliveredBefore(k)
        /\ \/ parse_state = "ReadingHeader" /\ Consumed = Start(k)
           \/ /\ parse_state = "ReadingPayload" /\ k <= Len(stream)
              /\ pending_header = k /\ Consumed = Start(k) + HeaderSize
  BY DEF IInv, Framing
<1>3. CASE parse_state = "ReadingHeader"
  <2>1. Available >= HeaderSize /\ Consumed = Start(k)
    BY <1>2, <1>3 DEF HaveHeader
  <2>2. buf[read_pos] = Start(k)
    <3>1. 0 \in 0..(Available - 1) /\ read_pos + 0 = read_pos /\ Consumed + 0 = Consumed
      BY <2>1, Numbers, Sizes DEF IInv
    <3>2. buf[read_pos + 0] = Consumed + 0
      BY <3>1 DEF IInv, BufferHoldsStream
    <3> QED
      BY <2>1, <3>1, <3>2
  <2>3. k \in DOMAIN stream
    <3>1. Start(k) < StreamLength
      BY <2>1, Numbers, Sizes DEF IInv
    <3>2. k # Len(stream) + 1
      BY <1>1, <3>1, StreamIs
    <3> QED
      BY <1>1, <1>2, <3>2, StreamIs
  <2>4. Header = k
    BY <1>1, <1>3, <2>2, <2>3, HeaderAtStart DEF Header
  <2>5. PayloadPos = read_pos + HeaderSize
    BY <1>3 DEF PayloadPos
  <2>6. PayloadPos \in read_pos..write_pos
    BY <2>1, <2>5, Numbers, Sizes DEF IInv
  <2>7. received - (write_pos - PayloadPos) = Start(k) + HeaderSize
    BY <1>1, <2>1, <2>3, <2>5, Numbers, Sizes, StreamIs DEF IInv
  <2> QED
    BY <1>2, <2>3, <2>4, <2>6, <2>7
<1>4. CASE parse_state = "ReadingPayload"
  <2>1. k \in DOMAIN stream /\ Header = k /\ Consumed = Start(k) + HeaderSize
    BY <1>1, <1>2, <1>4, StreamIs DEF Header
  <2>2. PayloadPos = read_pos
    BY <1>4 DEF PayloadPos
  <2> QED
    BY <1>2, <2>1, <2>2, Numbers DEF IInv
<1> QED
  BY <1>1, <1>3, <1>4

-----------------------------------------------------------------------------
(***************************************************************************)
(* The steps.                                                              *)
(***************************************************************************)
LEMMA InitInv == Init => IInv
<1> SUFFICES ASSUME Init PROVE IInv
  OBVIOUS
<1>1. stream \in Streams /\ Len(stream) \in Nat /\ StreamLength \in Nat /\ Start(1) = 0
  BY StreamIs DEF Init
<1>2. TypeOK
  BY <1>1, Sizes DEF Init, TypeOK
<1>3. Available = 0 /\ Consumed = 0
  BY DEF Init, Available, Consumed
<1>4. BufferHoldsStream
  BY <1>3 DEF BufferHoldsStream
<1>5. DeliveredBefore(1)
  BY DEF Init, DeliveredBefore
<1>6. Framing
  BY <1>1, <1>3, <1>5 DEF Init, Framing
<1> QED
  BY <1>2, <1>4, <1>6 DEF IInv

\* A step that touches neither the buffer nor the parser.
LEMMA Outside ==
  ASSUME IInv, UNCHANGED <<stream, received, buf, read_pos, write_pos, parse_state,
                           pending_header, delivered>>,
         pc = "closed" => pc' = "closed", TypeOK'
  PROVE  IInv'
<1>1. Framing'
  <2>1. UNCHANGED <<Consumed, Len(stream)>> /\ \A k : UNCHANGED <<DeliveredBefore(k), Start(k)>>
    BY DEF Consumed, Available, DeliveredBefore, IsKnown, Start, StreamLength
  <2> QED
    BY <2>1 DEF IInv, Framing
<1>2. BufferHoldsStream'
  BY DEF IInv, BufferHoldsStream, Consumed, Available
<1> QED
  BY <1>1, <1>2 DEF IInv

\* What the peer does disturbs nothing.
LEMMA PeerStep ==
  ASSUME IInv,
         \/ \E n \in 1..StreamLength : PeerSends(n)
         \/ \E how \in {"fin", "reset"} : PeerEnds(how)
  PROVE  IInv'
<1>1. StreamLength' = StreamLength /\ pc' = pc
  BY DEF PeerSends, PeerEnds, StreamLength
<1>2. TypeOK'
  <2>1. StreamLength \in Nat
    BY Numbers DEF IInv
  <2> QED
    BY <1>1, <2>1 DEF IInv, TypeOK, PeerSends, PeerEnds
<1> QED
  BY <1>1, <1>2, Outside DEF PeerSends, PeerEnds

\* The end of the connection.
LEMMA CloseStep == ASSUME IInv, WakeupCloses PROVE IInv'
<1>1. StreamLength' = StreamLength
  BY DEF WakeupCloses, peerVars, StreamLength
<1>2. TypeOK'
  BY <1>1 DEF IInv, TypeOK, WakeupCloses, peerVars
<1> QED
  BY <1>2, Outside DEF WakeupCloses, peerVars

\* The header is not complete: nothing is taken.
LEMMA NoHeaderStep == ASSUME IInv, ParseNoHeader PROVE IInv'
<1>1. StreamLength' = StreamLength
  BY DEF ParseNoHeader, peerVars, StreamLength
<1>2. TypeOK'
  BY <1>1, Sizes DEF IInv, TypeOK, ParseNoHeader, peerVars
<1> QED
  BY <1>2, Outside DEF ParseNoHeader, peerVars

\* The bytes of a read go behind those that wait, and say where they come from.
LEMMA ReadStep == ASSUME IInv, WakeupReads PROVE IInv'
<1>0. TypeOK /\ BufferHoldsStream /\ pc # "closed"
  BY DEF IInv, WakeupReads
<1>1. PICK w \in Nat, r \in Nat, b \in [Positions -> 0..(StreamLength - 1) \union {Empty}] :
        /\ w = PreChecked.write /\ r = PreChecked.read /\ b = PreChecked.buf
        /\ w = r + Available /\ w <= StateSize
        /\ \A i \in 0..(Available - 1) : b[r + i] = Consumed + i
  BY <1>0, PreCheckKeeps
<1>2. PICK got \in Nat : got = MinOf(Budget, sent - received)
  BY <1>0, <1>1, Numbers, Sizes DEF Budget, WriteLimit, MinOf
<1>3. w + got <= StateSize /\ received + got <= sent
  <2>1. got <= StateSize - w
    <3>1. Budget <= StateSize - w /\ Budget \in Int
      BY <1>0, <1>1, Numbers, Sizes DEF Budget, WriteLimit, MinOf
    <3> QED
      BY <1>0, <1>1, <1>2, <3>1, Numbers DEF MinOf
  <2>2. got <= sent - received
    <3>1. Budget \in Int
      BY <1>0, <1>1, Numbers, Sizes DEF Budget, WriteLimit, MinOf
    <3> QED
      BY <1>0, <1>2, <3>1, Numbers DEF MinOf
  <2> QED
    BY <1>0, <1>1, <1>2, <2>1, <2>2, Numbers
<1>4. /\ buf' = [i \in Positions |-> IF i \in w..(w + got - 1) THEN received + (i - w) ELSE b[i]]
      /\ read_pos' = r /\ write_pos' = w + got /\ received' = received + got
      /\ msg_parsed' = 0 /\ pc' = "parse"
      /\ UNCHANGED <<stream, sent, ending, parse_state, pending_header, delivered>>
  BY <1>1, <1>2 DEF WakeupReads, peerVars
<1>5. StreamLength' = StreamLength
  BY <1>4 DEF StreamLength
<1>6. Available' = Available + got /\ Consumed' = Consumed
  BY <1>0, <1>1, <1>2, <1>4, Numbers DEF Available, Consumed
<1>7. TypeOK'
  <2>1. buf' \in [Positions -> 0..(StreamLength - 1) \union {Empty}]
    <3>1. \A i \in w..(w + got - 1) : received + (i - w) \in 0..(StreamLength - 1)
      BY <1>0, <1>1, <1>2, <1>3, Numbers
    <3> QED
      BY <1>1, <1>4, <3>1
  <2>2. read_pos' \in 0..StateSize /\ write_pos' \in read_pos'..StateSize
    BY <1>0, <1>1, <1>2, <1>3, <1>4, Numbers, Sizes
  <2>3. received' \in 0..sent
    BY <1>0, <1>2, <1>3, <1>4, Numbers
  <2> QED
    BY <1>0, <1>4, <1>5, <2>1, <2>2, <2>3, Sizes DEF TypeOK
<1>8. BufferHoldsStream'
  <2>0. PICK a \in Nat : /\ a = Available /\ w = r + a /\ Consumed = received - a
                         /\ r \in Nat /\ got \in Nat /\ StateSize \in Nat /\ w + got <= StateSize
    BY <1>0, <1>1, <1>3, Numbers
  <2>1. ASSUME NEW i \in 0..(a + got - 1) PROVE buf'[r + i] = Consumed + i
    <3>1. r + i \in Positions
      BY <2>0, <2>1 DEF Positions
    <3>2. CASE i < Available
      <4>1. i \in 0..(Available - 1) /\ r + i \notin w..(w + got - 1)
        BY <2>0, <2>1, <3>2
      <4> QED
        BY <1>1, <1>4, <3>1, <4>1
    <3>3. CASE ~(i < Available)
      <4>1. r + i \in w..(w + got - 1) /\ received + (r + i - w) = Consumed + i
        BY <1>0, <2>0, <2>1, <3>3, Numbers
      <4> QED
        BY <1>4, <3>1, <4>1
    <3> QED
      BY <3>2, <3>3
  <2> QED
    BY <1>4, <1>6, <2>0, <2>1 DEF BufferHoldsStream
<1>9. Framing'
  <2>1. \A k : UNCHANGED <<DeliveredBefore(k), Start(k)>>
    BY <1>4, <1>5 DEF DeliveredBefore, IsKnown, Start
  <2> QED
    BY <1>4, <1>6, <2>1 DEF IInv, Framing
<1> QED
  BY <1>7, <1>8, <1>9 DEF IInv

\* What is taken out of the front of the buffer leaves the rest where it was.
LEMMA Take ==
  ASSUME IInv, NEW p \in read_pos..write_pos, pc = "parse", pc' # "closed",
         read_pos' = p, UNCHANGED <<buf, write_pos, received>>
  PROVE  Consumed' = received - (write_pos - p) /\ BufferHoldsStream'
<1>1. Available' = write_pos - p /\ Consumed' = received - (write_pos - p)
  BY DEF Available, Consumed
<1>2. ASSUME NEW i \in 0..(write_pos - p - 1) PROVE buf[p + i] = received - (write_pos - p) + i
  <2>1. p - read_pos + i \in 0..(Available - 1) /\ read_pos + (p - read_pos + i) = p + i
    BY <1>2, Numbers DEF IInv
  <2>2. buf[read_pos + (p - read_pos + i)] = Consumed + (p - read_pos + i)
    BY <2>1 DEF IInv, BufferHoldsStream
  <2>3. Consumed + (p - read_pos + i) = received - (write_pos - p) + i
    BY <1>2, Numbers DEF IInv
  <2> QED
    BY <2>1, <2>2, <2>3
<1> QED
  BY <1>1, <1>2 DEF BufferHoldsStream

\* The header is taken and kept.
LEMMA NoPayloadStep == ASSUME IInv, ParseNoPayload PROVE IInv'
<1>0. TypeOK /\ stream \in Streams
  BY DEF IInv, TypeOK
<1>1. PICK k \in DOMAIN stream :
        /\ DeliveredBefore(k) /\ Header = k
        /\ PayloadPos \in read_pos..write_pos
        /\ received - (write_pos - PayloadPos) = Start(k) + HeaderSize
  BY HeaderIsNext DEF ParseNoPayload
<1>2. PICK p \in read_pos..write_pos : p = PayloadPos
  BY <1>1
<1>3. /\ parse_state' = "ReadingPayload" /\ pending_header' = k /\ read_pos' = p
      /\ pc = "parse" /\ pc' = "kevent" /\ msg_parsed' = 0
      /\ UNCHANGED <<stream, sent, ending, received, buf, write_pos, delivered>>
  BY <1>1, <1>2 DEF ParseNoPayload, peerVars
<1>4. StreamLength' = StreamLength
  BY <1>3 DEF StreamLength
<1>5. k \in 0..Len(stream) /\ k \in 1..(Len(stream) + 1) /\ k <= Len(stream)
  BY <1>0, StreamIs
<1>6. TypeOK'
  <2>1. read_pos' \in 0..StateSize /\ write_pos' \in read_pos'..StateSize
    BY <1>0, <1>2, <1>3, Numbers
  <2> QED
    BY <1>0, <1>3, <1>4, <1>5, <2>1, Sizes DEF TypeOK
<1>7. Consumed' = Start(k) + HeaderSize /\ BufferHoldsStream'
  BY <1>1, <1>2, <1>3, Take
<1>8. Framing'
  <2>1. UNCHANGED <<DeliveredBefore(k), Start(k)>>
    BY <1>3, <1>4 DEF DeliveredBefore, IsKnown, Start
  <2> QED
    BY <1>1, <1>3, <1>5, <1>7, <2>1 DEF Framing
<1> QED
  BY <1>6, <1>7, <1>8 DEF IInv

\* Delivering frame k, or skipping it if it is unknown, leaves all before k + 1.
LEMMA DeliveredNext ==
  ASSUME stream \in Streams, delivered \in Seq(DOMAIN stream), NEW k \in DOMAIN stream,
         DeliveredBefore(k), UNCHANGED stream,
         delivered' = IF IsKnown(k) THEN Append(delivered, k) ELSE delivered
  PROVE  DeliveredBefore(k + 1)'
<1>0. k \in Nat /\ DOMAIN stream \subseteq Nat
  BY StreamIs
<1>1. \A j : IsKnown(j)' = IsKnown(j)
  BY DEF IsKnown
<1>2. CASE ~IsKnown(k)
  <2>1. {j \in 1..k : IsKnown(j)} = {j \in 1..(k - 1) : IsKnown(j)}
    BY <1>0, <1>2
  <2>2. delivered' = delivered /\ (k + 1) - 1 = k
    BY <1>0, <1>2
  <2> QED
    BY <1>1, <2>1, <2>2 DEF DeliveredBefore
<1>3. CASE IsKnown(k)
  <2> DEFINE n == Len(delivered) + 1
  <2>1. /\ delivered' = Append(delivered, k) /\ DOMAIN delivered' = 1..n
        /\ DOMAIN delivered = 1..(n - 1) /\ n \in Nat /\ delivered'[n] = k
        /\ \A i \in DOMAIN delivered : delivered'[i] = delivered[i]
    BY <1>3
  <2> HIDE DEF n
  <2>2. \A i \in DOMAIN delivered : delivered[i] \in 1..(k - 1)
    BY DEF DeliveredBefore
  <2>3. {delivered'[i] : i \in DOMAIN delivered'}
          = {delivered[i] : i \in DOMAIN delivered} \union {k}
    <3>1. DOMAIN delivered' = DOMAIN delivered \union {n}
      BY <2>1
    <3> QED
      BY <2>1, <3>1
  <2>4. {j \in 1..k : IsKnown(j)} = {j \in 1..(k - 1) : IsKnown(j)} \union {k}
    BY <1>0, <1>3
  <2>5. ASSUME NEW i \in DOMAIN delivered', NEW j \in DOMAIN delivered', i < j
        PROVE  delivered'[i] < delivered'[j]
    <3>1. i \in DOMAIN delivered
      BY <2>1, <2>5
    <3>2. CASE j = n
      BY <1>0, <2>1, <2>2, <3>1, <3>2
    <3>3. CASE j # n
      <4>1. j \in DOMAIN delivered
        BY <2>1, <3>3
      <4> QED
        BY <2>1, <2>5, <3>1, <4>1 DEF DeliveredBefore
    <3> QED
      BY <3>2, <3>3
  <2>6. (k + 1) - 1 = k
    BY <1>0
  <2> QED
    BY <1>1, <2>3, <2>4, <2>5, <2>6 DEF DeliveredBefore
<1> QED
  BY <1>2, <1>3

\* The frame is taken.
LEMMA CompleteStep == ASSUME IInv, ParseComplete PROVE IInv'
<1>0. TypeOK /\ stream \in Streams
  BY DEF IInv, TypeOK
<1>1. PICK k \in DOMAIN stream :
        /\ DeliveredBefore(k) /\ Header = k
        /\ PayloadPos \in read_pos..write_pos
        /\ received - (write_pos - PayloadPos) = Start(k) + HeaderSize
  BY HeaderIsNext DEF ParseComplete
<1>2. PICK p \in Nat : p = PayloadPos + stream[k].len
  <2>1. PayloadPos \in Nat
    BY <1>0, <1>1, Numbers
  <2>2. stream[k].len \in Nat
    BY <1>0, StreamIs
  <2> QED
    BY <2>1, <2>2
<1>3. PayloadSize(k) = stream[k].len /\ stream[k].len \in Nat
  BY <1>0, StreamIs, PayloadIs
<1>4. /\ parse_state' = "ReadingHeader" /\ pending_header' = k /\ read_pos' = p
      /\ delivered' = IF IsKnown(k) THEN Append(delivered, k) ELSE delivered
      /\ msg_parsed' = (msg_parsed + 1) % MsgLimit
      /\ pc = "parse" /\ pc' \in {"kevent", "parse"}
      /\ UNCHANGED <<stream, sent, ending, received, buf, write_pos>>
  BY <1>1, <1>2, <1>3 DEF ParseComplete, peerVars
<1>5. p \in read_pos..write_pos
  <2>1. write_pos - PayloadPos >= stream[k].len
    BY <1>1, <1>3 DEF ParseComplete, HavePayload
  <2> QED
    BY <1>0, <1>1, <1>2, <1>3, <2>1, Numbers
<1>6. StreamLength' = StreamLength
  BY <1>4 DEF StreamLength
<1>7. k \in 0..Len(stream) /\ k + 1 \in 1..(Len(stream) + 1)
  BY <1>0, StreamIs
<1>8. TypeOK'
  <2>1. read_pos' \in 0..StateSize /\ write_pos' \in read_pos'..StateSize
    BY <1>0, <1>4, <1>5, Numbers
  <2>2. delivered' \in Seq(DOMAIN stream)
    <3>1. delivered \in Seq(DOMAIN stream)
      BY <1>0 DEF TypeOK
    <3>2. Append(delivered, k) \in Seq(DOMAIN stream)
      BY <3>1
    <3> QED
      BY <1>4, <3>1, <3>2
  <2>3. msg_parsed' \in 0..(MsgLimit - 1)
    BY <1>0, <1>4, Sizes DEF TypeOK
  <2> QED
    BY <1>0, <1>4, <1>6, <1>7, <2>1, <2>2, <2>3 DEF TypeOK
<1>9. Consumed' = received - (write_pos - p) /\ BufferHoldsStream'
  BY <1>4, <1>5, Take
<1>10. Consumed' = Start(k + 1)
  <2>1. Start(k + 1) = Start(k) + HeaderSize + stream[k].len /\ Start(k) \in Nat
    BY <1>0, StreamIs
  <2> QED
    BY <1>0, <1>1, <1>2, <1>3, <1>9, <2>1, Numbers, Sizes
<1>11. Framing'
  <2>1. UNCHANGED Start(k + 1)
    BY <1>4, <1>6 DEF Start
  <2>2. DeliveredBefore(k + 1)'
    BY <1>0, <1>1, <1>4, DeliveredNext DEF TypeOK
  <2> QED
    BY <1>4, <1>7, <1>10, <2>1, <2>2 DEF Framing
<1> QED
  BY <1>8, <1>9, <1>11 DEF IInv

\* Every step keeps the invariant.
LEMMA Step == IInv /\ [Next]_vars => IInv'
<1> SUFFICES ASSUME IInv, [Next]_vars PROVE IInv'
  OBVIOUS
<1>1. CASE UNCHANGED vars
  <2>1. StreamLength' = StreamLength
    BY <1>1 DEF vars, peerVars, StreamLength
  <2>2. TypeOK'
    BY <1>1, <2>1 DEF vars, peerVars, IInv, TypeOK
  <2> QED
    BY <1>1, <2>2, Outside DEF vars, peerVars
<1>2. CASE Next
  BY <1>2, PeerStep, ReadStep, CloseStep, NoHeaderStep, NoPayloadStep, CompleteStep DEF Next, Server
<1> QED
  BY <1>1, <1>2

\* The invariant holds throughout.
LEMMA Invariant == Spec => []IInv
BY InitInv, Step, PTL DEF Spec

-----------------------------------------------------------------------------
(***************************************************************************)
(* The theorems.                                                           *)
(***************************************************************************)
\* The cursors stay within the buffer and the counter below the limit, the
\* header in hand is one of the stream's, and nothing but frames of the stream
\* is pushed (ClientState's positions, parse_message).
THEOREM TypeCorrect == Spec => []TypeOK
BY Invariant, PTL DEF IInv

\* For any sizes and any stream, the bytes between the cursors are those
\* received and not consumed, in order (pre_check and recv_nb_til_limit).
THEOREM BufferCorrect == Spec => []BufferHoldsStream
BY Invariant, PTL DEF IInv

\* For any sizes, any stream and any way it is cut into reads, parse_message is
\* at a frame boundary or past the header it remembers, and has pushed exactly
\* the known messages before it, once and in order.
THEOREM FramingCorrect == Spec => []Framing
BY Invariant, PTL DEF IInv
=============================================================================
