-------------------------------- MODULE Client --------------------------------
(***************************************************************************)
(* The client process (client/client.cpp): the main thread, which reads    *)
(* orders from stdin (read_message) and sends them (run_sender), the       *)
(* receiving thread (run_parser) and the printing thread (consume_events), *)
(* with the ring between them and the flag running.                        *)
(*                                                                         *)
(* The server and the kernel are the environment: whole frames arrive, and *)
(* the connection may end (FIN) or be reset at any moment.  The ring is a  *)
(* bounded queue (Fifo).  What the user types is an entry: the values of   *)
(* the prompt, of which the first `good` are numbers.                      *)
(***************************************************************************)
EXTENDS Wire

CONSTANTS Streams,    \* the sequences of events the server may send
          Sessions,   \* the sequences of entries the user may type
          Junk,       \* what a field holds that was not read (0 and its limit among them)
          SinkSize    \* items the ring holds (RING_BUFFER_SIZE - 1)

\* The order in which the prompt asks for the fields
Prompt ==
    [AddOrder    |-> <<"client_order_id", "price", "quantity", "side", "tif">>,
     ModifyOrder |-> <<"order_id", "new_price", "new_quantity">>,
     CancelOrder |-> <<"order_id">>]

EntryOf(k) == [kind : {k}, values : [DOMAIN Prompt[k] -> Int], good : 0..Len(Prompt[k])]
Entry == EntryOf("AddOrder") \union EntryOf("ModifyOrder") \union EntryOf("CancelOrder")

ASSUME ClientAssumption ==
    /\ \A stream \in Streams : stream \in Seq(Event)
    /\ \A session \in Sessions : session \in Seq(Entry)
    /\ Junk \subseteq Int /\ SinkSize \in Nat \ {0}

VARIABLES
  server,     \* "open", "closed" (FIN received), "reset" (RST received)
  inbound,    \* the fields that have arrived and have not been received
  alive,      \* FALSE once SIGPIPE has killed the process
  running,
  mpc, message,             \* main thread
  rpc, header, sink,        \* receiving thread
  cpc,                      \* printing thread
  \* histories
  sent, received, printed,  \* events: sent by the server, received, how many printed
  entries, posted           \* entries typed, messages the server gets

mainVars == <<mpc, message, entries, posted>>
vars == <<server, inbound, alive, running, mainVars, rpc, header, sink, cpc,
          sent, received, printed>>

MessageOf(k) == [kind : {k}, data : [FieldsOf(OrderLayout[k]) -> Int]]
Message == MessageOf("AddOrder") \union MessageOf("ModifyOrder") \union MessageOf("CancelOrder")
NoMessage == [kind |-> "CancelOrder", data |-> [order_id |-> 0]]
NoHeader == [type |-> 0, payload_len |-> 0]

Init ==
    /\ server = "open" /\ inbound = <<>>
    /\ alive = TRUE /\ running = TRUE
    /\ mpc = "read" /\ message = NoMessage
    /\ rpc = "loop" /\ header = NoHeader /\ sink = <<>>
    /\ cpc = "loop"
    /\ sent = <<>> /\ received = <<>> /\ printed = 0
    /\ entries = <<>> /\ posted = <<>>

-----------------------------------------------------------------------------
(***************************************************************************)
(* The server and the network.                                             *)
(***************************************************************************)
\* The elements that may follow those so far in one of the sequences
Continuations(sequences, soFar) ==
    { s[Len(soFar) + 1] : s \in { t \in sequences : Len(soFar) < Len(t) /\ IsPrefix(soFar, t) } }

ServerSends(ev) ==
    /\ server = "open"
    /\ sent' = Append(sent, ev)
    /\ inbound' = inbound \o SerialiseEvent(ev)
    /\ UNCHANGED server

ServerCloses ==
    /\ server = "open"
    /\ server' = "closed"
    /\ UNCHANGED <<inbound, sent>>

\* What has arrived before an RST may be lost with it
ServerResets ==
    /\ server = "open"
    /\ server' = "reset"
    /\ inbound' \in {inbound, <<>>}
    /\ UNCHANGED sent

Server ==
    /\ (\E ev \in Continuations(Streams, sent) : ServerSends(ev)) \/ ServerCloses \/ ServerResets
    /\ UNCHANGED <<alive, running, mainVars, rpc, header, sink, cpc, received, printed>>

-----------------------------------------------------------------------------
(***************************************************************************)
(* Main thread.                                                            *)
(***************************************************************************)
\* Seeded fault: the fields are read in the order of the struct
ReadInStructOrder(entry, junk) ==
    [kind |-> entry.kind,
     data |-> [f \in FieldsOf(OrderLayout[entry.kind]) |->
        IF f = "order_type" THEN 0
        ELSE LET i == IF entry.kind = "AddOrder"
                      THEN Position(f, OrderLayout[entry.kind]) - 1
                      ELSE Position(f, Prompt[entry.kind])
             IN  IF i <= entry.good THEN entry.values[i] ELSE junk[i]]]

\* After the first word that is not a number, operator>> stores 0 (or the
\* limit, if the number is too large) and no later field is assigned.
Read(entry, junk) ==
    [kind |-> entry.kind,
     data |-> [f \in FieldsOf(OrderLayout[entry.kind]) |->
        IF f = "order_type" THEN 0   \* Limit
        ELSE LET i == Position(f, Prompt[entry.kind])
             IN  IF i <= entry.good THEN entry.values[i] ELSE junk[i]]]

ReadMessage(entry) ==
    /\ mpc = "read"
    /\ \E junk \in [(entry.good + 1)..Len(Prompt[entry.kind]) -> Junk] :
          message' = Read(entry, junk)
    /\ entries' = Append(entries, entry)
    /\ mpc' = "send"
    /\ UNCHANGED <<server, alive, running, posted>>

\* A send after the server's FIN is answered with an RST; one after an RST
\* fails, and raises SIGPIPE unless the pending error is reported first.
SendMessage ==
    /\ mpc = "send"
    /\ \/ /\ server = "open"
          /\ posted' = Append(posted, DeserialiseOrder(message.kind, SerialiseOrder(message)))
          /\ UNCHANGED <<server, alive>>
       \/ /\ server = "closed"
          /\ server' \in {"closed", "reset"}
          /\ UNCHANGED <<alive, posted>>
       \/ /\ server = "reset"
          /\ alive' \in BOOLEAN
          /\ UNCHANGED <<server, posted>>
    /\ mpc' = "read"
    /\ UNCHANGED <<message, entries, running>>

Quit ==
    /\ mpc = "read"
    /\ running' = FALSE
    /\ mpc' = "joinReceiver"
    /\ UNCHANGED <<server, alive, message, entries, posted>>

JoinReceiver ==
    /\ mpc = "joinReceiver" /\ rpc = "done"
    /\ mpc' = "joinPrinter"
    /\ UNCHANGED <<server, alive, running, message, entries, posted>>

JoinPrinter ==
    /\ mpc = "joinPrinter" /\ cpc = "done"
    /\ mpc' = "ended"
    /\ UNCHANGED <<server, alive, running, message, entries, posted>>

MainSteps == SendMessage \/ JoinReceiver \/ JoinPrinter
Main ==
    /\ alive
    /\ (\E entry \in Continuations(Sessions, entries) : ReadMessage(entry)) \/ Quit \/ MainSteps
    /\ UNCHANGED <<inbound, rpc, header, sink, cpc, sent, received, printed>>

-----------------------------------------------------------------------------
(***************************************************************************)
(* Receiving thread: run_parser, recv_all, recv_payload.                   *)
(***************************************************************************)
PayloadSize(kind) == Len(EventLayout[kind])
KindOf(type) == CHOOSE k \in EventKinds : EventTag[k] = type
Known(type) == \E k \in EventKinds : EventTag[k] = type

\* Seeded fault: the thread receives until the connection ends
RecvLoopIgnoresRunning ==
    /\ rpc = "loop"
    /\ rpc' = "header"
    /\ UNCHANGED <<running, inbound, header, sink, received>>

RecvLoop ==
    /\ rpc = "loop"
    /\ rpc' = IF running THEN "header" ELSE "done"
    /\ UNCHANGED <<running, inbound, header, sink, received>>

\* The payload of an unknown type is not skipped
RecvHeader ==
    /\ rpc = "header" /\ Len(inbound) >= HeaderSize
    /\ header' = [type |-> inbound[1], payload_len |-> inbound[2]]
    /\ inbound' = SubSeq(inbound, HeaderSize + 1, Len(inbound))
    /\ rpc' = IF Known(header'.type) THEN "payload" ELSE "loop"
    /\ UNCHANGED <<running, sink, received>>

\* Seeded fault: the end of the connection is treated like an error of recv
RecvEndKeepsRunning ==
    /\ rpc = "header" /\ Len(inbound) < HeaderSize /\ server # "open"
    /\ rpc' = "done"
    /\ UNCHANGED <<running, inbound, header, sink, received>>

\* recv returns 0
RecvEnd ==
    /\ rpc = "header" /\ Len(inbound) < HeaderSize /\ server # "open"
    /\ running' = FALSE
    /\ rpc' = "done"
    /\ UNCHANGED <<inbound, header, sink, received>>

\* recv returns -1: running stays as it is
RecvFails ==
    /\ rpc = "header" /\ Len(inbound) < HeaderSize /\ server = "reset"
    /\ rpc' = "done"
    /\ UNCHANGED <<running, inbound, header, sink, received>>

\* Seeded fault: the ring overwrites instead of refusing
PushedOver(queue, ev) == Append(queue, ev)
\* push, whose result is ignored: a full ring drops the event
Pushed(queue, ev) == IF Len(queue) < SinkSize THEN Append(queue, ev) ELSE queue

RecvPayload ==
    /\ rpc = "payload"
    /\ LET kind == KindOf(header.type)
           size == PayloadSize(kind)
           ev == DeserialiseEvent(kind, SubSeq(inbound, 1, size))
       IN  /\ Len(inbound) >= size
           /\ inbound' = SubSeq(inbound, size + 1, Len(inbound))
           /\ received' = Append(received, ev)
           /\ sink' = Pushed(sink, ev)
    /\ rpc' = "loop"
    /\ UNCHANGED <<running, header>>

PayloadFails ==
    /\ rpc = "payload" /\ server # "open"
    /\ Len(inbound) < PayloadSize(KindOf(header.type))
    /\ inbound' = <<>>
    /\ rpc' = "loop"
    /\ UNCHANGED <<running, header, sink, received>>

Receiver ==
    /\ alive
    /\ RecvLoop \/ RecvHeader \/ RecvEnd \/ RecvFails \/ RecvPayload \/ PayloadFails
    /\ UNCHANGED <<server, alive, mainVars, cpc, sent, printed>>

-----------------------------------------------------------------------------
(***************************************************************************)
(* Printing thread: consume_events.  In both wait modes a pop that finds   *)
(* nothing repeats the test.                                               *)
(***************************************************************************)
\* Seeded fault: a sink with one event in it is taken for empty
ConsumeAllButLast ==
    /\ cpc = "loop" /\ Len(sink) > 1
    /\ sink' = Tail(sink)
    /\ printed' = printed + 1
    /\ UNCHANGED cpc

Consume ==
    /\ cpc = "loop" /\ sink # <<>>
    /\ sink' = Tail(sink)
    /\ printed' = printed + 1
    /\ UNCHANGED cpc

\* Seeded fault: the thread ends as soon as running is false
ConsumerEndsAtOnce ==
    /\ cpc = "loop" /\ ~running
    /\ cpc' = "done"
    /\ UNCHANGED <<sink, printed>>

ConsumerEnds ==
    /\ cpc = "loop" /\ ~running /\ sink = <<>>
    /\ cpc' = "done"
    /\ UNCHANGED <<sink, printed>>

Consumer ==
    /\ alive
    /\ Consume \/ ConsumerEnds
    /\ UNCHANGED <<server, inbound, alive, running, mainVars, rpc, header, sent, received>>

Next == Server \/ Main \/ Receiver \/ Consumer
Spec == Init /\ [][Next]_vars

MainProgress ==
    /\ alive
    /\ MainSteps
    /\ UNCHANGED <<inbound, rpc, header, sink, cpc, sent, received, printed>>

\* The threads go on; the server owes nothing, and the user types what he likes
FairSpec ==
    Spec /\ WF_vars(MainProgress) /\ WF_vars(Receiver) /\ WF_vars(Consumer)

-----------------------------------------------------------------------------
(***************************************************************************)
(* Properties.                                                             *)
(***************************************************************************)
TypeOK ==
    /\ server \in {"open", "closed", "reset"} /\ inbound \in Seq(Int)
    /\ alive \in BOOLEAN /\ running \in BOOLEAN
    /\ mpc \in {"read", "send", "joinReceiver", "joinPrinter", "ended"}
    /\ message \in Message
    /\ rpc \in {"loop", "header", "payload", "done"}
    /\ header \in [type : Int, payload_len : Int]
    /\ cpc \in {"loop", "done"}
    /\ sink \in Seq(Event) /\ Len(sink) <= SinkSize
    /\ sent \in Seq(Event) /\ received \in Seq(Event) /\ printed \in Nat
    /\ entries \in Seq(Entry) /\ posted \in Seq(Message)

Quitting == mpc \in {"joinReceiver", "joinPrinter", "ended"}

\* The client understands the server: header after header, with the payload
\* size of each type, the events received are those sent, with every field,
\* in order and without a gap, until the connection ends (event_parser.cpp:45,
\* protocol.h:91-287).
ReceivedIsSent == IsPrefix(received, sent)

\* The server understands the client: its i-th message is the i-th entry, with
\* every number typed before the first word that is none in the field it was
\* typed for, and none lost while the connection is open.  Enum values beyond a
\* byte are wrapped by the wire and left out (input_handler.cpp:24, protocol.h:329).
Agrees(msg, entry) ==
    /\ msg.kind = entry.kind
    /\ \A i \in 1..entry.good :
          LET f == Prompt[entry.kind][i]
          IN  f \notin ByteFields \/ entry.values[i] \in 0..255 => msg.data[f] = entry.values[i]
PostedIsTyped ==
    /\ Len(posted) <= Len(entries)
    /\ server = "open" => Len(posted) = Len(entries) - (IF mpc = "send" THEN 1 ELSE 0)
    /\ \A i \in 1..Len(posted) : Agrees(posted[i], entries[i])

\* An event in the ring is printed before the printing thread ends, except for
\* one that the receiving thread was receiving when the user quit
\* (event_consumer.cpp:8 against client.cpp:40, event_parser.cpp:38).
LeftBehind == cpc = "done" => Len(sink) <= (IF Quitting THEN 1 ELSE 0)

\* Unless the user quits, every event put in the ring is printed.
AcceptedIsPrinted ==
    \A n \in UNION { DOMAIN stream : stream \in Streams } :
        printed + Len(sink) >= n ~> (printed >= n \/ Quitting \/ ~alive)

\* The quit command ends the process, provided that the receiving thread's
\* blocking recv returns: an event arrives or the connection ends
\* (client.cpp:42, event_parser.cpp:30).
QuitEnds ==
    Quitting /\ (server # "open" \/ inbound # <<>>) ~> (mpc = "ended" \/ ~alive)

\* When the server closes the connection, both threads end (and print what has
\* arrived), although the main thread goes on prompting (event_parser.cpp:36).
ServerEndSeen ==
    server = "closed" ~> ((rpc = "done" /\ cpc = "done") \/ server = "reset" \/ ~alive)

-----------------------------------------------------------------------------
(***************************************************************************)
(* Not true of the code.                                                   *)
(***************************************************************************)
\* Quit ends the process whatever the server does (README.md:273: "-1 -> Quit").
QuitEndsAlone == Quitting ~> (mpc = "ended" \/ ~alive)

\* Input that is not a number is not sent (README.md:75: "reprompts on
\* invalid/unknown input"; input_handler.h:5: "Returns nullopt on -1 (quit) or bad input").
BadInputIsNotSent == \A i \in 1..Len(posted) : entries[i].good = Len(Prompt[entries[i].kind])

\* A reset of the connection ends both threads, as its end does: after an error
\* of recv the flag stays set and the printing thread goes on (event_parser.cpp:31).
ServerResetSeen ==
    server = "reset" ~> ((rpc = "done" /\ cpc = "done") \/ ~alive)

\* A session that ends by itself has printed all it received: on a full ring
\* an event is dropped without a word (event_parser.cpp:48).
AllPrinted == mpc = "read" /\ cpc = "done" => printed = Len(received)
===============================================================================
