----------------------------- MODULE ClientProofs -----------------------------
(***************************************************************************)
(* Proofs about Wire and Client: a frame is read back as what it was made  *)
(* of, the types of the client's state, what a session may leave behind.   *)
(***************************************************************************)
EXTENDS Client, SequenceTheorems, TLAPS

-----------------------------------------------------------------------------
(***************************************************************************)
(* The frames.                                                             *)
(***************************************************************************)
\* No field occurs twice in a struct.
IsLayout(layout) ==
    /\ Len(layout) \in Nat /\ DOMAIN layout = 1..Len(layout)
    /\ \A i, j \in DOMAIN layout : layout[i] = layout[j] => i = j

\* The kinds of event, written out.
LEMMA EventKindsAre ==
    EventKinds = {"OrderRested", "OrderFilled", "OrderExpired", "OrderRejected", "OrderCanceled",
                  "CancelRejected", "OrderModified", "ModifyRejected", "TradeExecuted", "BookUpdate"}
  BY DEF EventKinds, EventTag

\* Every kind of event has a proper, non-empty layout and an integer tag.
LEMMA EventLayouts ==
    ASSUME NEW k \in EventKinds
    PROVE  IsLayout(EventLayout[k]) /\ Len(EventLayout[k]) > 0 /\ EventTag[k] \in Int
<1>1. CASE k = "OrderRested"
  BY <1>1 DEF IsLayout, EventLayout, EventTag
<1>2. CASE k = "OrderFilled"
  BY <1>2 DEF IsLayout, EventLayout, EventTag
<1>3. CASE k = "OrderExpired"
  BY <1>3 DEF IsLayout, EventLayout, EventTag
<1>4. CASE k = "OrderRejected"
  BY <1>4 DEF IsLayout, EventLayout, EventTag
<1>5. CASE k = "OrderCanceled"
  BY <1>5 DEF IsLayout, EventLayout, EventTag
<1>6. CASE k = "CancelRejected"
  BY <1>6 DEF IsLayout, EventLayout, EventTag
<1>7. CASE k = "OrderModified"
  BY <1>7 DEF IsLayout, EventLayout, EventTag
<1>8. CASE k = "ModifyRejected"
  BY <1>8 DEF IsLayout, EventLayout, EventTag
<1>9. CASE k = "TradeExecuted"
  BY <1>9 DEF IsLayout, EventLayout, EventTag
<1>10. CASE k = "BookUpdate"
  BY <1>10 DEF IsLayout, EventLayout, EventTag
<1> QED
  BY <1>1, <1>2, <1>3, <1>4, <1>5, <1>6, <1>7, <1>8, <1>9, <1>10, EventKindsAre

\* An event is an event of some kind.
LEMMA EventCases ==
    \A ev : ev \in Event <=> \E k \in EventKinds : ev \in EventOf(k)
  BY EventKindsAre DEF Event

\* A field is found where it is.
LEMMA Positions ==
    ASSUME NEW layout, IsLayout(layout)
    PROVE  /\ DOMAIN layout = 1..Len(layout) /\ Len(layout) \in Nat
           /\ \A i \in DOMAIN layout : Position(layout[i], layout) = i
           /\ \A f \in FieldsOf(layout) :
                 Position(f, layout) \in DOMAIN layout /\ layout[Position(f, layout)] = f
<1>1. DOMAIN layout = 1..Len(layout) /\ Len(layout) \in Nat
  BY DEF IsLayout
<1>2. ASSUME NEW f \in FieldsOf(layout)
      PROVE  Position(f, layout) \in DOMAIN layout /\ layout[Position(f, layout)] = f
  BY DEF FieldsOf, Position
<1>3. ASSUME NEW i \in DOMAIN layout PROVE Position(layout[i], layout) = i
  BY DEF IsLayout, Position
<1> QED
  BY <1>1, <1>2, <1>3

\* The elements of a concatenation.
LEMMA Concat ==
    ASSUME NEW a \in Seq(Int), NEW b \in Seq(Int)
    PROVE  /\ a \o b \in Seq(Int) /\ Len(a \o b) = Len(a) + Len(b)
           /\ \A i \in 1..Len(a) : (a \o b)[i] = a[i]
           /\ \A i \in 1..Len(b) : (a \o b)[Len(a) + i] = b[i]
  OBVIOUS

\* The units of an event's frame.
LEMMA SerialisedEvent ==
    ASSUME NEW ev \in Event
    PROVE  LET layout == EventLayout[ev.kind]
               units == SerialiseEvent(ev)
           IN  /\ units \in Seq(Int)
               /\ Len(units) = HeaderSize + Len(layout)
               /\ units[1] = EventTag[ev.kind]
               /\ \A i \in DOMAIN layout :
                     units[HeaderSize + i] = ToWire(layout[i], ev.data[layout[i]])
<1> DEFINE layout == EventLayout[ev.kind]
           body == [i \in DOMAIN layout |-> ToWire(layout[i], ev.data[layout[i]])]
           head == <<EventTag[ev.kind], Len(layout)>>
<1>1. ev.kind \in EventKinds /\ ev \in EventOf(ev.kind)
  BY EventCases DEF EventOf
<1>2. IsLayout(layout) /\ EventTag[ev.kind] \in Int
  BY <1>1, EventLayouts
<1>3. ASSUME NEW i \in DOMAIN layout PROVE ev.data[layout[i]] \in Int
  BY <1>1 DEF EventOf, FieldsOf
<1>4. body \in [1..Len(layout) -> Int]
  BY <1>2, <1>3 DEF IsLayout, ToWire
<1>5. body \in Seq(Int) /\ Len(body) = Len(layout)
  BY <1>2, <1>4 DEF IsLayout
<1>6. head \in Seq(Int) /\ Len(head) = 2 /\ head[1] = EventTag[ev.kind]
  BY <1>2 DEF IsLayout
<1>7. SerialiseEvent(ev) = head \o body
  BY DEF SerialiseEvent
<1>7a. \A i \in DOMAIN layout : body[i] = ToWire(layout[i], ev.data[layout[i]])
  OBVIOUS
<1> HIDE DEF head, body
<1>8. /\ head \o body \in Seq(Int) /\ Len(head \o body) = Len(head) + Len(body)
      /\ \A i \in 1..Len(head) : (head \o body)[i] = head[i]
      /\ \A i \in 1..Len(body) : (head \o body)[Len(head) + i] = body[i]
  BY <1>5, <1>6, Concat
<1>9. \A i \in DOMAIN layout : i \in 1..Len(body)
  BY <1>2, <1>5 DEF IsLayout
<1>11. (head \o body)[1] = head[1]
  BY <1>6, <1>8
<1> QED
  BY <1>5, <1>6, <1>7, <1>7a, <1>8, <1>9, <1>11 DEF HeaderSize

\* What is made of a payload of the right size is an event.
LEMMA DeserialisedEvent ==
    ASSUME NEW k \in EventKinds, NEW payload \in Seq(Int), Len(payload) = Len(EventLayout[k])
    PROVE  DeserialiseEvent(k, payload) \in Event
<1> DEFINE layout == EventLayout[k]
           data == [f \in FieldsOf(layout) |-> FromWire(f, payload[Position(f, layout)])]
<1>1. IsLayout(layout)
  BY EventLayouts
<1>2. ASSUME NEW f \in FieldsOf(layout) PROVE payload[Position(f, layout)] \in Int
  BY <1>1, Positions
<1>3. data \in [FieldsOf(layout) -> Int]
  BY <1>2 DEF FromWire, Buy, Sell
<1>4. ASSUME NEW f \in FieldsOf(layout), f \in SideFields PROVE data[f] \in {Buy, Sell}
  BY <1>4 DEF FromWire
<1>5. DeserialiseEvent(k, payload) = [kind |-> k, data |-> data]
  BY DEF DeserialiseEvent
<1> HIDE DEF data
<1>6. [kind |-> k, data |-> data] \in EventOf(k)
  BY <1>3, <1>4 DEF EventOf
<1> QED
  BY <1>5, <1>6, EventCases

\* An event is read back from its frame as it was, for all ten kinds and all
\* values: field for field, and both sides (protocol.h:91-287).
THEOREM EventRoundTrip ==
    ASSUME NEW ev \in Event, NEW payload \in Seq(Int),
           Len(payload) = Len(EventLayout[ev.kind]),
           \A i \in 1..Len(payload) : payload[i] = SerialiseEvent(ev)[HeaderSize + i]
    PROVE  DeserialiseEvent(ev.kind, payload) = ev
<1> DEFINE layout == EventLayout[ev.kind]
<1>1. /\ ev.kind \in EventKinds
      /\ ev \in [kind : {ev.kind}, data : [FieldsOf(layout) -> Int]]
      /\ \A f \in DOMAIN ev.data : f \in SideFields => ev.data[f] \in {Buy, Sell}
  BY EventCases DEF EventOf
<1>2. IsLayout(layout)
  BY <1>1, EventLayouts
<1>3. ASSUME NEW f \in FieldsOf(layout)
      PROVE  FromWire(f, payload[Position(f, layout)]) = ev.data[f]
  <2>1. payload[Position(f, layout)] = ToWire(f, ev.data[f])
    BY <1>2, Positions, SerialisedEvent
  <2>2. ev.data[f] \in Int /\ (f \in SideFields => ev.data[f] \in {Buy, Sell})
    BY <1>1
  <2> QED
    BY <2>1, <2>2 DEF FromWire, ToWire, Buy, Sell
<1>4. [f \in FieldsOf(layout) |-> FromWire(f, payload[Position(f, layout)])] = ev.data
  BY <1>1, <1>3
<1> QED
  BY <1>1, <1>4 DEF DeserialiseEvent

\* The receiving thread's switch finds the kind of every event.
LEMMA Kinds ==
    /\ \A k \in EventKinds : Known(EventTag[k]) /\ KindOf(EventTag[k]) = k
    /\ \A type : Known(type) => KindOf(type) \in EventKinds
<1>1. \A k, l \in EventKinds : EventTag[k] = EventTag[l] => k = l
  BY EventKindsAre DEF EventTag
<1> QED
  BY <1>1 DEF Known, KindOf

\* ... and likewise the structs of the orders and the prompts.
LEMMA OrderLayouts ==
    ASSUME NEW k \in OrderKinds
    PROVE  /\ IsLayout(OrderLayout[k]) /\ IsLayout(Prompt[k])
           /\ FieldsOf(Prompt[k]) = FieldsOf(OrderLayout[k]) \ {"order_type"}
           /\ "order_type" \notin FieldsOf(Prompt[k])
<1>1. CASE k = "AddOrder"
  <2>1. IsLayout(OrderLayout[k])
    BY <1>1 DEF IsLayout, OrderLayout
  <2>2. IsLayout(Prompt[k])
    BY <1>1 DEF IsLayout, Prompt
  <2>3. FieldsOf(Prompt[k]) = {"client_order_id", "price", "quantity", "side", "tif"}
    BY <1>1 DEF FieldsOf, Prompt
  <2>4. FieldsOf(OrderLayout[k])
          = {"order_type", "tif", "client_order_id", "price", "quantity", "side"}
    BY <1>1 DEF FieldsOf, OrderLayout
  <2> QED
    BY <2>1, <2>2, <2>3, <2>4
<1>2. CASE k = "CancelOrder"
  BY <1>2 DEF IsLayout, OrderLayout, Prompt, FieldsOf
<1>3. CASE k = "ModifyOrder"
  <2>1. IsLayout(OrderLayout[k]) /\ Prompt[k] = OrderLayout[k]
    BY <1>3 DEF IsLayout, OrderLayout, Prompt
  <2>2. FieldsOf(Prompt[k]) = {"order_id", "new_price", "new_quantity"}
    BY <1>3 DEF FieldsOf, Prompt
  <2> QED
    BY <2>1, <2>2
<1> QED
  BY <1>1, <1>2, <1>3 DEF OrderKinds, OrderLayout

\* A message, or an entry of the user, is one of some kind.
LEMMA OrderCases ==
    /\ \A msg : msg \in Message <=> \E k \in OrderKinds : msg \in MessageOf(k)
    /\ \A entry : entry \in Entry <=> \E k \in OrderKinds : entry \in EntryOf(k)
  BY DEF Message, Entry, OrderKinds, OrderLayout

\* What the server reads of a message: the enums wrapped to a byte, the rest as
\* it was (protocol.h:329-388).
LEMMA OrderRoundTrip ==
    ASSUME NEW msg \in Message
    PROVE  LET got == DeserialiseOrder(msg.kind, SerialiseOrder(msg))
           IN  /\ got \in Message /\ got.kind = msg.kind
               /\ \A f \in FieldsOf(OrderLayout[msg.kind]) :
                     got.data[f] = IF f \in ByteFields THEN msg.data[f] % 256 ELSE msg.data[f]
<1> DEFINE layout == OrderLayout[msg.kind]
           got == DeserialiseOrder(msg.kind, SerialiseOrder(msg))
           wire(f) == IF f \in ByteFields THEN msg.data[f] % 256 ELSE msg.data[f]
<1>1. /\ msg.kind \in OrderKinds
      /\ msg.data \in [FieldsOf(layout) -> Int]
  BY OrderCases DEF MessageOf
<1>2. IsLayout(layout)
  BY <1>1, OrderLayouts
<1>3. \A i \in DOMAIN layout : SerialiseOrder(msg)[i] = wire(layout[i])
  BY DEF SerialiseOrder
<1>4. ASSUME NEW f \in FieldsOf(layout)
      PROVE  SerialiseOrder(msg)[Position(f, layout)] = wire(f) /\ wire(f) \in Int
  BY <1>1, <1>2, <1>3, Positions
<1>5. /\ got.kind = msg.kind
      /\ got.data = [f \in FieldsOf(layout) |-> SerialiseOrder(msg)[Position(f, layout)]]
      /\ got = [kind |-> msg.kind, data |-> got.data]
  BY DEF DeserialiseOrder
<1>6. got.data \in [FieldsOf(layout) -> Int]
  BY <1>4, <1>5
<1>7. got \in MessageOf(msg.kind)
  BY <1>5, <1>6 DEF MessageOf
<1> QED
  BY <1>1, <1>4, <1>5, <1>7, OrderCases

\* What was typed before the first word that is no number is in its field.
LEMMA ReadEntry ==
    ASSUME NEW entry \in Entry,
           NEW junk \in [(entry.good + 1)..Len(Prompt[entry.kind]) -> Junk]
    PROVE  LET msg == Read(entry, junk)
           IN  /\ msg \in Message /\ msg.kind = entry.kind
               /\ \A i \in 1..entry.good :
                     /\ Prompt[entry.kind][i] \in FieldsOf(OrderLayout[entry.kind])
                     /\ msg.data[Prompt[entry.kind][i]] = entry.values[i]
<1> DEFINE k == entry.kind
           msg == Read(entry, junk)
           value(f) == IF f = "order_type" THEN 0
                       ELSE IF Position(f, Prompt[k]) <= entry.good
                            THEN entry.values[Position(f, Prompt[k])]
                            ELSE junk[Position(f, Prompt[k])]
<1>1. k \in OrderKinds /\ entry.values \in [DOMAIN Prompt[k] -> Int] /\ entry.good \in 0..Len(Prompt[k])
  BY OrderCases DEF EntryOf
<1>2. /\ IsLayout(Prompt[k])
      /\ FieldsOf(Prompt[k]) = FieldsOf(OrderLayout[k]) \ {"order_type"}
      /\ "order_type" \notin FieldsOf(Prompt[k])
  BY <1>1, OrderLayouts
<1>3. /\ msg.kind = k /\ msg = [kind |-> k, data |-> msg.data]
      /\ msg.data = [f \in FieldsOf(OrderLayout[k]) |-> value(f)]
  BY DEF Read
<1>4. ASSUME NEW f \in FieldsOf(OrderLayout[k]) PROVE value(f) \in Int
  <2>1. CASE f = "order_type"
    BY <2>1
  <2>2. CASE f # "order_type"
    <3>1. f \in FieldsOf(Prompt[k])
      BY <1>2, <2>2
    <3>2. Position(f, Prompt[k]) \in 1..Len(Prompt[k]) /\ DOMAIN Prompt[k] = 1..Len(Prompt[k])
      BY <1>2, <3>1, Positions
    <3>3. CASE Position(f, Prompt[k]) <= entry.good
      BY <1>1, <2>2, <3>2, <3>3
    <3>4. CASE ~(Position(f, Prompt[k]) <= entry.good)
      <4>1. Position(f, Prompt[k]) \in (entry.good + 1)..Len(Prompt[k])
        BY <1>1, <3>2, <3>4
      <4> QED
        BY <2>2, <3>4, <4>1, ClientAssumption DEF ClientAssumption
    <3> QED
      BY <3>3, <3>4
  <2> QED
    BY <2>1, <2>2
<1>5. msg.data \in [FieldsOf(OrderLayout[k]) -> Int]
  BY <1>3, <1>4
<1>6. msg \in MessageOf(k)
  BY <1>3, <1>5 DEF MessageOf
<1>7. ASSUME NEW i \in 1..entry.good
      PROVE  /\ Prompt[k][i] \in FieldsOf(OrderLayout[k])
             /\ msg.data[Prompt[k][i]] = entry.values[i]
  <2>1. i \in DOMAIN Prompt[k] /\ Position(Prompt[k][i], Prompt[k]) = i /\ i <= entry.good
    BY <1>1, <1>2, Positions
  <2>2. Prompt[k][i] \in FieldsOf(Prompt[k])
    BY <2>1 DEF FieldsOf
  <2> QED
    BY <1>2, <1>3, <2>1, <2>2
<1> QED
  BY <1>1, <1>3, <1>6, <1>7, OrderCases

\* What continues a sequence of S is in S.
LEMMA ContinuationType ==
    ASSUME NEW S, NEW sequences, \A s \in sequences : s \in Seq(S),
           NEW soFar \in Seq(S), NEW x \in Continuations(sequences, soFar)
    PROVE  x \in S
  BY DEF Continuations

-----------------------------------------------------------------------------
(***************************************************************************)
(* Types.                                                                  *)
(***************************************************************************)
TypeInv == TypeOK /\ (rpc = "payload" => Known(header.type))

\* The sending of an event keeps the types.
LEMMA ServerType == ASSUME TypeInv, Server PROVE TypeInv'
<1> USE DEF TypeInv, TypeOK
<1> UNCHANGED <<alive, running, mpc, message, entries, posted, rpc, header, sink, cpc, received, printed>>
  BY DEF Server, mainVars
<1>1. ASSUME NEW ev \in Continuations(Streams, sent), ServerSends(ev) PROVE TypeInv'
  <2>1. ev \in Event
    BY ContinuationType, ClientAssumption DEF ClientAssumption
  <2>2. SerialiseEvent(ev) \in Seq(Int)
    BY <2>1, SerialisedEvent
  <2>3. inbound' \in Seq(Int) /\ sent' \in Seq(Event) /\ server' = server
    BY <1>1, <2>1, <2>2 DEF ServerSends
  <2> QED
    BY <2>3
<1>2. CASE ServerCloses
  BY <1>2 DEF ServerCloses
<1>3. CASE ServerResets
  <2>1. <<>> \in Seq(Int) /\ (inbound' = inbound \/ inbound' = <<>>)
    BY <1>3 DEF ServerResets
  <2> QED
    BY <1>3, <2>1 DEF ServerResets
<1> QED
  BY <1>1, <1>2, <1>3 DEF Server

\* The main thread's steps keep the types.
LEMMA MainType == ASSUME TypeInv, Main PROVE TypeInv'
<1> USE DEF TypeInv, TypeOK
<1> UNCHANGED <<inbound, rpc, header, sink, cpc, sent, received, printed>>
  BY DEF Main
<1>1. ASSUME NEW entry \in Continuations(Sessions, entries), ReadMessage(entry) PROVE TypeInv'
  <2>1. entry \in Entry
    BY ContinuationType, ClientAssumption DEF ClientAssumption
  <2>2. message' \in Message
    BY <1>1, <2>1, ReadEntry DEF ReadMessage
  <2> QED
    BY <1>1, <2>1, <2>2 DEF ReadMessage
<1>2. CASE SendMessage
  <2>1. DeserialiseOrder(message.kind, SerialiseOrder(message)) \in Message
    BY OrderRoundTrip
  <2> DEFINE got == DeserialiseOrder(message.kind, SerialiseOrder(message))
  <2>2. posted' = posted \/ posted' = Append(posted, got)
    BY <1>2 DEF SendMessage
  <2>3. /\ server' \in {"open", "closed", "reset"} /\ alive' \in BOOLEAN
        /\ mpc' = "read" /\ UNCHANGED <<message, entries, running>>
    BY <1>2 DEF SendMessage
  <2> HIDE DEF got
  <2>4. posted' \in Seq(Message)
    <3>1. CASE posted' = posted
      BY <3>1
    <3>2. CASE posted' = Append(posted, got)
      BY <2>1, <3>2 DEF got
    <3> QED
      BY <2>2, <3>1, <3>2
  <2> QED
    BY <2>3, <2>4
<1>3. CASE Quit \/ JoinReceiver \/ JoinPrinter
  BY <1>3 DEF Quit, JoinReceiver, JoinPrinter
<1> QED
  BY <1>1, <1>2, <1>3 DEF Main, MainSteps

\* What recv of a payload leaves behind is of the right types.
LEMMA PayloadType ==
    ASSUME TypeInv, RecvPayload
    PROVE  /\ inbound' \in Seq(Int) /\ received' \in Seq(Event)
           /\ sink' \in Seq(Event) /\ Len(sink') <= SinkSize
<1> DEFINE kind == KindOf(header.type)
           size == PayloadSize(kind)
           ev == DeserialiseEvent(kind, SubSeq(inbound, 1, size))
<1> USE DEF TypeInv, TypeOK
<1>1. kind \in EventKinds
  BY Kinds DEF RecvPayload
<1>2. size \in Nat /\ size = Len(EventLayout[kind])
  BY <1>1, EventLayouts DEF PayloadSize, IsLayout
<1>3. SubSeq(inbound, 1, size) \in Seq(Int) /\ Len(SubSeq(inbound, 1, size)) = size
  BY <1>2 DEF RecvPayload
<1>4. ev \in Event
  BY <1>1, <1>2, <1>3, DeserialisedEvent
<1>5. /\ inbound' = SubSeq(inbound, size + 1, Len(inbound))
      /\ received' = Append(received, ev) /\ sink' = Pushed(sink, ev)
  BY DEF RecvPayload
<1> HIDE DEF ev, size
<1> QED
  BY <1>2, <1>4, <1>5, ClientAssumption DEF Pushed, ClientAssumption

\* The receiving thread's steps keep the types.
LEMMA ReceiverType == ASSUME TypeInv, Receiver PROVE TypeInv'
<1> USE DEF TypeInv, TypeOK
<1> UNCHANGED <<server, alive, mpc, message, entries, posted, cpc, sent, printed>>
  BY DEF Receiver, mainVars
<1>1. CASE RecvLoop
  BY <1>1 DEF RecvLoop
<1>2. CASE RecvHeader
  <2>1. inbound[1] \in Int /\ inbound[2] \in Int
    BY <1>2 DEF RecvHeader, HeaderSize
  <2>2. SubSeq(inbound, HeaderSize + 1, Len(inbound)) \in Seq(Int)
    BY DEF HeaderSize
  <2> QED
    BY <1>2, <2>1, <2>2 DEF RecvHeader
<1>3. CASE RecvEnd \/ RecvFails
  BY <1>3 DEF RecvEnd, RecvFails
<1>4. CASE RecvPayload
  BY <1>4, PayloadType DEF RecvPayload
<1>5. CASE PayloadFails
  BY <1>5 DEF PayloadFails
<1> QED
  BY <1>1, <1>2, <1>3, <1>4, <1>5 DEF Receiver

\* The consumer thread's steps keep the types.
LEMMA ConsumerType == ASSUME TypeInv, Consumer PROVE TypeInv'
<1> USE DEF TypeInv, TypeOK
<1>1. UNCHANGED <<server, inbound, alive, running, mpc, message, entries, posted, rpc, header,
                  sent, received>>
  BY DEF Consumer, mainVars
<1>2. CASE Consume
  <2>1. sink' \in Seq(Event) /\ Len(sink') <= Len(sink) /\ Len(sink') \in Nat
    BY <1>2 DEF Consume
  <2> QED
    BY <1>1, <1>2, <2>1, ClientAssumption DEF Consume, ClientAssumption
<1>3. CASE ConsumerEnds
  BY <1>1, <1>3 DEF ConsumerEnds
<1> QED
  BY <1>2, <1>3 DEF Consumer

\* The client starts well typed.
LEMMA InitType == Init => TypeInv
<1>1. NoMessage \in Message
  <2>1. FieldsOf(OrderLayout["CancelOrder"]) = {"order_id"}
    BY DEF FieldsOf, OrderLayout
  <2> QED
    BY <2>1 DEF NoMessage, Message, MessageOf
<1> QED
  BY <1>1, ClientAssumption DEF Init, TypeInv, TypeOK, NoHeader, ClientAssumption

\* Every step keeps the types.
LEMMA TypeStep == TypeInv /\ [Next]_vars => TypeInv'
  BY ServerType, MainType, ReceiverType, ConsumerType
     DEF Next, vars, mainVars, TypeInv, TypeOK

\* For all streams of events, all sessions and every ring size, the state keeps
\* its types; in particular the ring never exceeds its size, and whatever bytes
\* arrive are read as events.
THEOREM TypeCorrect == Spec => []TypeOK
<1>1. TypeInv => TypeOK
  BY DEF TypeInv
<1> QED
  BY <1>1, InitType, TypeStep, PTL DEF Spec

-----------------------------------------------------------------------------
(***************************************************************************)
(* The end of a session.                                                   *)
(***************************************************************************)
\* running is cleared by the quit command, or by the receiving thread as the
\* last thing it does: once the printing thread has ended, one more event at
\* most can enter the ring, and only if the user has quit.
EndInv ==
    /\ ~running => Quitting \/ rpc = "done"
    /\ cpc = "done" =>
         /\ ~running
         /\ Len(sink) + (IF rpc \in {"header", "payload"} THEN 1 ELSE 0)
              <= (IF Quitting THEN 1 ELSE 0)

\* The steps of the main thread keep what holds at the end.
LEMMA MainEnd == ASSUME TypeInv, EndInv, Main PROVE EndInv'
<1>1. UNCHANGED <<rpc, sink, cpc>>
  BY DEF Main
<1>2. ASSUME NEW entry, ReadMessage(entry) PROVE EndInv'
  BY <1>1, <1>2 DEF ReadMessage, EndInv, Quitting
<1>3. CASE SendMessage
  BY <1>1, <1>3 DEF SendMessage, EndInv, Quitting
<1>4. CASE Quit
  BY <1>1, <1>4 DEF Quit, EndInv, Quitting, TypeInv, TypeOK
<1>5. CASE JoinReceiver \/ JoinPrinter
  BY <1>1, <1>5 DEF JoinReceiver, JoinPrinter, EndInv, Quitting
<1> QED
  BY <1>2, <1>3, <1>4, <1>5 DEF Main, MainSteps

\* The steps of the receiving thread keep what holds at the end.
LEMMA ReceiverEnd == ASSUME TypeInv, EndInv, Receiver PROVE EndInv'
<1> UNCHANGED <<mpc, cpc>>
  BY DEF Receiver, mainVars
<1> USE DEF EndInv, Quitting
<1>1. Len(sink) \in Nat
  BY DEF TypeInv, TypeOK
<1>2. CASE RecvLoop
  BY <1>1, <1>2 DEF RecvLoop, TypeInv, TypeOK
<1>3. CASE RecvHeader
  BY <1>1, <1>3 DEF RecvHeader
<1>4. CASE RecvEnd \/ RecvFails \/ PayloadFails
  BY <1>1, <1>4 DEF RecvEnd, RecvFails, PayloadFails
<1>5. CASE RecvPayload
  <2>1. \E ev : sink' = Pushed(sink, ev)
    BY <1>5 DEF RecvPayload
  <2>2. Len(sink') \in Nat /\ Len(sink') <= Len(sink) + 1
    BY <2>1 DEF Pushed, TypeInv, TypeOK
  <2> QED
    BY <1>1, <1>5, <2>2 DEF RecvPayload
<1> QED
  BY <1>2, <1>3, <1>4, <1>5 DEF Receiver

\* The steps of the consumer thread keep what holds at the end.
LEMMA ConsumerEnd == ASSUME TypeInv, EndInv, Consumer PROVE EndInv'
<1> UNCHANGED <<mpc, rpc, running>>
  BY DEF Consumer, mainVars
<1>1. CASE Consume
  BY <1>1 DEF Consume, EndInv, Quitting
<1>2. CASE ConsumerEnds
  BY <1>2 DEF ConsumerEnds, EndInv, Quitting
<1> QED
  BY <1>1, <1>2 DEF Consumer

\* Whatever arrives and whenever the user quits: the printing thread leaves no
\* event behind, but for one received during the quit.
THEOREM NothingLeftBehind == Spec => []LeftBehind
<1>1. Init => TypeInv /\ EndInv
  BY InitType DEF Init, EndInv
<1>2. TypeInv /\ EndInv /\ [Next]_vars => (TypeInv /\ EndInv)'
  <2> SUFFICES ASSUME TypeInv, EndInv, [Next]_vars PROVE EndInv'
    BY TypeStep
  <2>1. CASE Server \/ UNCHANGED vars
    BY <2>1 DEF Server, vars, mainVars, EndInv, Quitting
  <2> QED
    BY <2>1, MainEnd, ReceiverEnd, ConsumerEnd DEF Next
<1>3. TypeInv /\ EndInv => LeftBehind
  BY DEF EndInv, LeftBehind, TypeInv, TypeOK
<1> QED
  BY <1>1, <1>2, <1>3, PTL DEF Spec

-----------------------------------------------------------------------------
(***************************************************************************)
(* From the user to the server.                                            *)
(***************************************************************************)
\* Every message posted agrees with its entry; the one in hand is that of the
\* last entry.
InHand ==
    /\ Len(entries) > 0
    /\ LET entry == entries[Len(entries)]
       IN  /\ message.kind = entry.kind
           /\ \A i \in 1..entry.good :
                 /\ Prompt[entry.kind][i] \in FieldsOf(OrderLayout[entry.kind])
                 /\ message.data[Prompt[entry.kind][i]] = entry.values[i]
PostInv == PostedIsTyped /\ (mpc = "send" => InHand)

\* An entry that is read becomes the message it describes.
LEMMA ReadPost ==
    ASSUME TypeInv, PostInv, NEW entry \in Continuations(Sessions, entries), ReadMessage(entry)
    PROVE  PostInv'
<1> USE DEF TypeInv, TypeOK
<1>1. entry \in Entry
  BY ContinuationType, ClientAssumption DEF ClientAssumption
<1>2. PICK junk \in [(entry.good + 1)..Len(Prompt[entry.kind]) -> Junk] :
        message' = Read(entry, junk)
  BY DEF ReadMessage
<1>3. /\ entries' = Append(entries, entry) /\ mpc = "read" /\ mpc' = "send"
      /\ posted' = posted /\ server' = server
  BY DEF ReadMessage
<1>4. /\ Len(entries') = Len(entries) + 1 /\ entries'[Len(entries) + 1] = entry
      /\ \A i \in 1..Len(entries) : entries'[i] = entries[i]
  BY <1>1, <1>3
<1>5. InHand'
  <2>1. Len(entries') > 0 /\ entries'[Len(entries')] = entry
    BY <1>4
  <2> HIDE DEF TypeInv, TypeOK
  <2>2. /\ message'.kind = entry.kind
        /\ \A i \in 1..entry.good :
              /\ Prompt[entry.kind][i] \in FieldsOf(OrderLayout[entry.kind])
              /\ message'.data[Prompt[entry.kind][i]] = entry.values[i]
    BY <1>1, <1>2, ReadEntry
  <2> QED
    BY <2>1, <2>2 DEF InHand
<1>6. PostedIsTyped'
  <2>1. /\ Len(posted) \in Nat /\ Len(entries) \in Nat /\ Len(posted) <= Len(entries)
        /\ server = "open" => Len(posted) = Len(entries)
        /\ \A i \in 1..Len(posted) : Agrees(posted[i], entries[i])
    BY <1>3 DEF PostInv, PostedIsTyped
  <2> HIDE DEF TypeInv, TypeOK
  <2>2. ASSUME NEW i \in 1..Len(posted) PROVE Agrees(posted'[i], entries'[i])
    <3>1. entries'[i] = entries[i] /\ posted'[i] = posted[i]
      BY <1>3, <1>4, <2>1
    <3> QED
      BY <2>1, <3>1
  <2>3. Len(posted') = Len(posted) /\ Len(entries') = Len(entries) + 1
    BY <1>3, <1>4
  <2> QED
    BY <1>3, <2>1, <2>2, <2>3 DEF PostedIsTyped
<1> QED
  BY <1>5, <1>6 DEF PostInv

\* A byte is not wrapped.
LEMMA ByteFits == ASSUME NEW v \in 0..255 PROVE v % 256 = v
<1>1. v \in Int /\ 0 <= v /\ v < 256
  OBVIOUS
<1> QED
  BY <1>1, SMT

\* A message that is sent is read as its entry says.
LEMMA SendPost == ASSUME TypeInv, PostInv, SendMessage PROVE PostInv'
<1> USE DEF TypeInv, TypeOK
<1> DEFINE got == DeserialiseOrder(message.kind, SerialiseOrder(message))
           last == entries[Len(entries)]
<1>1. mpc = "send" /\ mpc' = "read" /\ UNCHANGED <<message, entries>> /\ InHand
  BY DEF SendMessage, PostInv
<1>2. CASE server = "open"
  <2>1. posted' = Append(posted, got) /\ Len(posted) + 1 = Len(entries) /\ server' = server
    <3>1. Len(posted) = Len(entries) - 1 /\ Len(posted) \in Nat /\ Len(entries) \in Nat
      BY <1>1, <1>2 DEF PostInv, PostedIsTyped
    <3> HIDE DEF TypeInv, TypeOK
    <3> QED
      BY <1>1, <1>2, <3>1 DEF SendMessage
  <2>2. /\ got \in Message /\ got.kind = message.kind
        /\ \A f \in FieldsOf(OrderLayout[message.kind]) :
              got.data[f] = IF f \in ByteFields THEN message.data[f] % 256 ELSE message.data[f]
    BY OrderRoundTrip
  <2> HIDE DEF got
  <2>3. Agrees(got, last)
    <3>1. ASSUME NEW i \in 1..last.good,
                 Prompt[last.kind][i] \notin ByteFields \/ last.values[i] \in 0..255
          PROVE  got.data[Prompt[last.kind][i]] = last.values[i]
      <4>1. /\ Prompt[last.kind][i] \in FieldsOf(OrderLayout[message.kind])
            /\ message.data[Prompt[last.kind][i]] = last.values[i]
        BY <1>1 DEF InHand
      <4>2. PICK f : f = Prompt[last.kind][i]
        OBVIOUS
      <4>3. got.data[f] = IF f \in ByteFields THEN message.data[f] % 256 ELSE message.data[f]
        BY <2>2, <4>1, <4>2
      <4> HIDE DEF TypeInv, TypeOK, last
      <4>4. f \in ByteFields => message.data[f] % 256 = message.data[f]
        BY <3>1, <4>1, <4>2, ByteFits
      <4> QED
        BY <4>1, <4>2, <4>3, <4>4
    <3> QED
      BY <1>1, <2>2, <3>1 DEF Agrees, InHand
  <2>4. /\ Len(posted') = Len(entries) /\ posted'[Len(entries)] = got
        /\ \A i \in 1..Len(posted) : posted'[i] = posted[i]
    BY <2>1, <2>2
  <2>5. ASSUME NEW i \in 1..Len(posted') PROVE Agrees(posted'[i], entries'[i])
    <3>1. CASE i = Len(entries)
      BY <1>1, <2>3, <2>4, <3>1
    <3>2. CASE i # Len(entries)
      <4>1. i \in 1..Len(posted)
        BY <2>1, <2>4, <3>2
      <4> QED
        BY <1>1, <2>4, <4>1 DEF PostInv, PostedIsTyped
    <3> QED
      BY <3>1, <3>2
  <2> HIDE DEF last
  <2>6. Len(posted') = Len(entries')
    BY <1>1, <2>4
  <2>7. PostedIsTyped'
    BY <1>1, <2>5, <2>6 DEF PostedIsTyped
  <2> QED
    BY <1>1, <2>7 DEF PostInv
<1>3. CASE server # "open"
  <2>1. posted' = posted /\ server' # "open"
    BY <1>3 DEF SendMessage
  <2>2. PostedIsTyped'
    BY <1>1, <2>1 DEF PostInv, PostedIsTyped
  <2> QED
    BY <1>1, <2>2 DEF PostInv
<1> QED
  BY <1>2, <1>3

\* For all sessions: what the user typed, up to the first word that is no
\* number, reaches the server in its fields and in order, as long as the
\* connection is open.
THEOREM PostedCorrect == Spec => []PostedIsTyped
<1>1. Init => TypeInv /\ PostInv
  BY InitType DEF Init, PostInv, PostedIsTyped
<1>2. TypeInv /\ PostInv /\ [Next]_vars => (TypeInv /\ PostInv)'
  <2> SUFFICES ASSUME TypeInv, PostInv, [Next]_vars PROVE PostInv'
    BY TypeStep
  <2> DEFINE same == UNCHANGED <<message, entries, posted>>
  <2>1. ASSUME same, mpc' = mpc \/ (mpc' # "send" /\ mpc # "send"),
               server' = "open" => server = "open"
        PROVE  PostInv'
    BY <2>1 DEF PostInv, PostedIsTyped, Agrees, InHand
  <2>2. CASE Server
    BY <2>1, <2>2 DEF Server, ServerSends, ServerCloses, ServerResets, mainVars
  <2>3. CASE Main
    BY <2>1, <2>3, ReadPost, SendPost DEF Main, MainSteps, Quit, JoinReceiver, JoinPrinter
  <2>4. CASE Receiver \/ Consumer \/ UNCHANGED vars
    BY <2>1, <2>4 DEF Receiver, Consumer, vars, mainVars
  <2> QED
    BY <2>2, <2>3, <2>4 DEF Next
<1>3. PostInv => PostedIsTyped
  BY DEF PostInv
<1> QED
  BY <1>1, <1>2, <1>3, PTL DEF Spec

-----------------------------------------------------------------------------
(***************************************************************************)
(* From the server to the printing thread.                                 *)
(***************************************************************************)
Size(ev) == HeaderSize + Len(EventLayout[ev.kind])

\* The stream holds the frames of the events after the first n ones: m frames,
\* frame i behind position start[i], the first one without what has been read
\* of it already.
Framed(stream, events, n, m, start) ==
    /\ start \in [1..(m + 1) -> Int] /\ start[m + 1] = Len(stream)
    /\ \A i, k \in 1..(m + 1) : i <= k => start[i] <= start[k]
    /\ \A i \in 1..m :
          /\ start[i + 1] = start[i] + Size(events[n + i])
          /\ \A j \in 1..Size(events[n + i]) :
                start[i] + j >= 1 => stream[start[i] + j] = SerialiseEvent(events[n + i])[j]

\* A frame is longer than its header.
LEMMA Sizes ==
    ASSUME NEW ev \in Event
    PROVE  Size(ev) \in Nat /\ Size(ev) > HeaderSize /\ Len(SerialiseEvent(ev)) = Size(ev)
<1>1. ev.kind \in EventKinds
  BY EventCases DEF EventOf
<1>2. IsLayout(EventLayout[ev.kind]) /\ Len(EventLayout[ev.kind]) > 0
  BY <1>1, EventLayouts
<1> QED
  BY <1>2, SerialisedEvent DEF Size, HeaderSize, IsLayout

\* A frame is added at the end.
LEMMA FramedMore ==
    ASSUME NEW stream \in Seq(Int), NEW events \in Seq(Event), NEW ev \in Event,
           NEW n \in Nat, NEW m \in Nat, n + m = Len(events),
           NEW start, Framed(stream, events, n, m, start),
           NEW next \in [1..(m + 2) -> Int], next[m + 2] = Len(stream) + Size(ev),
           \A i \in 1..(m + 1) : next[i] = start[i]
    PROVE  Framed(stream \o SerialiseEvent(ev), Append(events, ev), n, m + 1, next)
<1> DEFINE frame == SerialiseEvent(ev)
           longer == stream \o frame
           more == Append(events, ev)
<1>1. frame \in Seq(Int) /\ Len(frame) = Size(ev) /\ Size(ev) \in Nat
  BY Sizes, SerialisedEvent
<1>2. /\ start \in [1..(m + 1) -> Int] /\ start[m + 1] = Len(stream)
      /\ \A i, k \in 1..(m + 1) : i <= k => start[i] <= start[k]
  BY DEF Framed
<1>3. /\ longer \in Seq(Int) /\ Len(longer) = Len(stream) + Size(ev)
      /\ \A p \in 1..Len(stream) : longer[p] = stream[p]
      /\ \A j \in 1..Size(ev) : longer[Len(stream) + j] = frame[j]
  <2> HIDE DEF frame
  <2>1. /\ longer \in Seq(Int) /\ Len(longer) = Len(stream) + Len(frame)
        /\ \A p \in 1..Len(stream) : longer[p] = stream[p]
        /\ \A j \in 1..Len(frame) : longer[Len(stream) + j] = frame[j]
    BY <1>1, Concat
  <2> QED
    BY <1>1, <2>1
<1>4. more[n + m + 1] = ev /\ \A i \in 1..m : more[n + i] = events[n + i]
  <2>1. more[Len(events) + 1] = ev /\ \A k \in 1..Len(events) : more[k] = events[k]
    OBVIOUS
  <2> HIDE DEF more
  <2>2. n + m + 1 = Len(events) + 1 /\ \A i \in 1..m : n + i \in 1..Len(events)
    OBVIOUS
  <2> QED
    BY <2>1, <2>2
<1>5. /\ next[m + 2] = Len(longer)
      /\ \A i \in 1..(m + 1) : next[i] = start[i]
  BY <1>3
<1> HIDE DEF frame, longer, more
<1>6. ASSUME NEW i \in 1..(m + 2), NEW k \in 1..(m + 2), i <= k PROVE next[i] <= next[k]
  <2>1. CASE k \in 1..(m + 1)
    <3>1. i \in 1..(m + 1)
      BY <1>6, <2>1
    <3>2. next[i] = start[i] /\ next[k] = start[k]
      BY <1>5, <2>1, <3>1
    <3>3. start[i] <= start[k]
      BY <1>2, <1>6, <2>1, <3>1
    <3> QED
      BY <3>2, <3>3
  <2>2. CASE k = m + 2 /\ i \in 1..(m + 1)
    <3>1. m + 1 \in 1..(m + 1) /\ i <= m + 1
      BY <2>2
    <3>2. start[i] <= start[m + 1] /\ start[i] \in Int
      BY <1>2, <2>2, <3>1
    <3>3. next[i] = start[i] /\ next[k] = Len(stream) + Size(ev)
      BY <1>3, <1>5, <2>2
    <3> QED
      BY <1>1, <1>2, <3>2, <3>3
  <2>3. CASE k = m + 2 /\ i = m + 2
    BY <1>5, <2>3
  <2> QED
    BY <2>1, <2>2, <2>3
<1>7. ASSUME NEW i \in 1..(m + 1)
      PROVE  /\ next[i + 1] = next[i] + Size(more[n + i])
             /\ \A j \in 1..Size(more[n + i]) :
                   next[i] + j >= 1 => longer[next[i] + j] = SerialiseEvent(more[n + i])[j]
  <2>1. CASE i = m + 1
    <3>1. more[n + i] = ev /\ next[i] = Len(stream) /\ next[i + 1] = Len(stream) + Size(ev)
      <4>1. n + i = n + m + 1 /\ i + 1 = m + 2 /\ m + 1 \in 1..(m + 1)
        BY <2>1
      <4> QED
        BY <1>2, <1>3, <1>4, <1>5, <2>1, <4>1
    <3> QED
      BY <1>3, <3>1 DEF frame
  <2>2. CASE i \in 1..m
    <3>1. start[i + 1] = start[i] + Size(events[n + i])
      BY <2>2 DEF Framed
    <3>2. ASSUME NEW j \in 1..Size(events[n + i]), start[i] + j >= 1
          PROVE  longer[start[i] + j] = SerialiseEvent(events[n + i])[j]
      <4>1. events[n + i] \in Event
        BY <2>2
      <4>2. Size(events[n + i]) \in Nat
        BY <4>1, Sizes
      <4>3. start[i] \in Int /\ start[i + 1] <= start[m + 1]
        BY <1>2, <2>2
      <4>4. start[i] + j \in 1..Len(stream)
        <5>1. start[i] + j \in Int /\ start[i] + j >= 1
          BY <3>2, <4>2, <4>3
        <5>2. start[i] + j <= start[i] + Size(events[n + i])
          BY <4>2, <4>3
        <5>3. start[i] + Size(events[n + i]) <= Len(stream)
          BY <1>2, <3>1, <4>3
        <5>4. start[i] + Size(events[n + i]) \in Int
          BY <4>2, <4>3
        <5> QED
          BY <5>1, <5>2, <5>3, <5>4
      <4>5. stream[start[i] + j] = SerialiseEvent(events[n + i])[j]
        BY <2>2, <3>2 DEF Framed
      <4> QED
        BY <1>3, <4>4, <4>5
    <3>3. more[n + i] = events[n + i] /\ next[i] = start[i] /\ next[i + 1] = start[i + 1]
      <4>1. i \in 1..(m + 1) /\ i + 1 \in 1..(m + 1)
        BY <2>2
      <4> QED
        BY <1>4, <1>5, <2>2, <4>1
    <3> QED
      BY <3>1, <3>2, <3>3
  <2> QED
    BY <2>1, <2>2
<1>8. Framed(longer, more, n, m + 1, next)
  BY <1>5, <1>6, <1>7 DEF Framed
<1> QED
  BY <1>8 DEF frame, longer, more

\* An index within what is left of a frame is within the stream.
LEMMA Inside ==
    ASSUME NEW length \in Nat, NEW j \in 1..length, NEW from \in Int, NEW whole \in Int,
           NEW size \in Int, from + length <= whole
    PROVE  (from - size) + j <= whole - size
<1>1. j \in Int /\ j <= length
  OBVIOUS
<1> QED
  BY <1>1

\* So much of the stream as the first frame begins with, or is, is received.
LEMMA FramedLess ==
    ASSUME NEW stream \in Seq(Int), NEW events \in Seq(Event),
           NEW n \in Nat, NEW m \in Nat, n + m <= Len(events),
           NEW start, Framed(stream, events, n, m, start),
           NEW size \in Nat, size <= Len(stream)
    PROVE  Framed(SubSeq(stream, size + 1, Len(stream)), events, n, m,
                  [i \in 1..(m + 1) |-> start[i] - size])
<1> DEFINE rest == SubSeq(stream, size + 1, Len(stream))
           next == [i \in 1..(m + 1) |-> start[i] - size]
<1>1. /\ Len(rest) = Len(stream) - size
      /\ \A p \in 1..Len(rest) : rest[p] = stream[p + size]
  <2>1. Len(rest) = Len(stream) - size
    BY SubSeqProperties
  <2>2. ASSUME NEW p \in 1..Len(rest) PROVE rest[p] = stream[p + size]
    <3>1. rest[p] = stream[(size + 1) + p - 1]
      <4>1. size + 1 \in 1..(Len(stream) + 1) /\ p \in 1..(Len(stream) - (size + 1) + 1)
        BY <2>1
      <4> QED
        BY <4>1, SubSeqProperties
    <3>2. (size + 1) + p - 1 = p + size
      OBVIOUS
    <3> QED
      BY <3>1, <3>2
  <2> QED
    BY <2>1, <2>2
<1>2. /\ start \in [1..(m + 1) -> Int] /\ start[m + 1] = Len(stream)
      /\ \A i, k \in 1..(m + 1) : i <= k => start[i] <= start[k]
  BY DEF Framed
<1>3. /\ next \in [1..(m + 1) -> Int]
      /\ \A i \in 1..(m + 1) : next[i] = start[i] - size
  BY <1>2
<1> HIDE DEF rest, next
<1>4. next[m + 1] = Len(rest)
  <2>1. m + 1 \in 1..(m + 1)
    OBVIOUS
  <2> QED
    BY <1>1, <1>2, <1>3, <2>1
<1>5. \A i, k \in 1..(m + 1) : i <= k => next[i] <= next[k]
  BY <1>2, <1>3
<1>6. ASSUME NEW i \in 1..m
      PROVE  /\ next[i + 1] = next[i] + Size(events[n + i])
             /\ \A j \in 1..Size(events[n + i]) :
                   next[i] + j >= 1 => rest[next[i] + j] = SerialiseEvent(events[n + i])[j]
  <2>1. /\ start[i] \in Int /\ start[i + 1] \in Int /\ start[i + 1] <= Len(stream)
        /\ next[i] = start[i] - size /\ next[i + 1] = start[i + 1] - size
    <3>1. /\ i \in 1..(m + 1) /\ i + 1 \in 1..(m + 1) /\ m + 1 \in 1..(m + 1)
          /\ i + 1 <= m + 1
      OBVIOUS
    <3>2. start[i] \in Int /\ start[i + 1] \in Int
      BY <1>2, <3>1
    <3>3. start[i + 1] <= Len(stream)
      BY <1>2, <3>1
    <3>4. next[i] = start[i] - size /\ next[i + 1] = start[i + 1] - size
      BY <1>3, <3>1
    <3> QED
      BY <3>2, <3>3, <3>4
  <2>2. start[i + 1] = start[i] + Size(events[n + i])
    BY DEF Framed
  <2>3. Size(events[n + i]) \in Nat
    <3>1. n + i \in 1..Len(events)
      OBVIOUS
    <3> QED
      BY <3>1, Sizes
  <2>4. ASSUME NEW j \in 1..Size(events[n + i]), next[i] + j >= 1
        PROVE  rest[next[i] + j] = SerialiseEvent(events[n + i])[j]
    <3>1. next[i] + j \in 1..Len(rest) /\ next[i] + j + size = start[i] + j /\ start[i] + j >= 1
      <4>1. next[i] + j <= Len(rest)
        <5>1. PICK length : length = Size(events[n + i])
          OBVIOUS
        <5>2. /\ length \in Nat /\ j \in 1..length /\ start[i] + length <= Len(stream)
              /\ start[i] \in Int /\ Len(stream) \in Int /\ size \in Int
          BY <2>1, <2>2, <2>3, <5>1
        <5>3. (start[i] - size) + j <= Len(stream) - size
          BY <5>2, Inside
        <5> QED
          BY <1>1, <2>1, <5>3
      <4>2. next[i] + j + size = start[i] + j /\ next[i] + j \in Int
        BY <2>1
      <4>3. start[i] + j >= 1 /\ 1 <= next[i] + j
        BY <2>1, <2>4, <4>2
      <4>4. Len(rest) \in Int
        BY <1>1
      <4> QED
        BY <4>1, <4>2, <4>3, <4>4
    <3>2. stream[start[i] + j] = SerialiseEvent(events[n + i])[j]
      BY <3>1 DEF Framed
    <3> QED
      BY <1>1, <3>1, <3>2
  <2>5. next[i + 1] = next[i] + Size(events[n + i])
    <3>1. PICK length : length = Size(events[n + i])
      OBVIOUS
    <3>2. length \in Int /\ start[i + 1] = start[i] + length
      BY <2>2, <2>3, <3>1
    <3>3. next[i + 1] = next[i] + length
      BY <2>1, <3>2
    <3> QED
      BY <3>1, <3>3
  <2> QED
    BY <2>4, <2>5
<1>7. Framed(rest, events, n, m, next)
  BY <1>3, <1>4, <1>5, <1>6 DEF Framed
<1> QED
  BY <1>7 DEF rest, next

\* The first frame has been read: one event less.
LEMMA FramedNext ==
    ASSUME NEW stream, NEW events, NEW n \in Nat, NEW m \in Nat, m > 0,
           NEW start, Framed(stream, events, n, m, start)
    PROVE  Framed(stream, events, n + 1, m - 1, [i \in 1..m |-> start[i + 1]])
<1> DEFINE next == [i \in 1..m |-> start[i + 1]]
<1>1. /\ start \in [1..(m + 1) -> Int] /\ start[m + 1] = Len(stream)
      /\ \A i, k \in 1..(m + 1) : i <= k => start[i] <= start[k]
  BY DEF Framed
<1>2. /\ next \in [1..m -> Int] /\ (m - 1) + 1 = m
      /\ \A i \in 1..m : next[i] = start[i + 1]
  BY <1>1
<1> HIDE DEF next
<1>3. next[m] = Len(stream) /\ \A i, k \in 1..m : i <= k => next[i] <= next[k]
  BY <1>1, <1>2
<1>4. ASSUME NEW i \in 1..(m - 1)
      PROVE  /\ next[i + 1] = next[i] + Size(events[n + 1 + i])
             /\ \A j \in 1..Size(events[n + 1 + i]) :
                   next[i] + j >= 1 => stream[next[i] + j] = SerialiseEvent(events[n + 1 + i])[j]
  <2>1. i + 1 \in 1..m /\ n + (i + 1) = n + 1 + i
    OBVIOUS
  <2>2. next[i] = start[i + 1] /\ next[i + 1] = start[(i + 1) + 1]
    BY <1>2, <2>1
  <2>3. /\ start[(i + 1) + 1] = start[i + 1] + Size(events[n + (i + 1)])
        /\ \A j \in 1..Size(events[n + (i + 1)]) : start[i + 1] + j >= 1 =>
              stream[start[i + 1] + j] = SerialiseEvent(events[n + (i + 1)])[j]
    BY <2>1 DEF Framed
  <2> QED
    BY <2>1, <2>2, <2>3
<1>5. Framed(stream, events, n + 1, m - 1, next)
  BY <1>2, <1>3, <1>4 DEF Framed
<1> QED
  BY <1>5 DEF next

\* The frames of events sent and not received are in the stream, unless a reset
\* has dropped them; a header in hand is that of the first one.
InStep(m, start) ==
    /\ Len(received) + m <= Len(sent)
    /\ server = "open" => Len(received) + m = Len(sent)
    /\ Framed(inbound, sent, Len(received), m, start)
    /\ start[1] = IF rpc = "payload" THEN -HeaderSize ELSE 0
    /\ rpc = "payload" => m > 0 /\ header.type = EventTag[sent[Len(received) + 1].kind]
Dropped == server = "reset" /\ inbound = <<>>
SoFar ==
    /\ Len(received) <= Len(sent)
    /\ \A i \in 1..Len(received) : received[i] = sent[i]
StreamInv == SoFar /\ (Dropped \/ \E m \in Nat : \E start : InStep(m, start))

\* An event sent is appended to the stream.
LEMMA ServerStream == ASSUME TypeInv, StreamInv, Server PROVE StreamInv'
<1> USE DEF TypeInv, TypeOK
<1> UNCHANGED <<rpc, header, received>>
  BY DEF Server
<1>1. ASSUME NEW ev \in Continuations(Streams, sent), ServerSends(ev) PROVE StreamInv'
  <2>1. /\ server = "open" /\ server' = "open"
        /\ sent' = Append(sent, ev) /\ inbound' = inbound \o SerialiseEvent(ev)
    BY <1>1 DEF ServerSends
  <2>2. PICK m \in Nat : \E start : InStep(m, start)
    BY <2>1 DEF StreamInv, Dropped
  <2>3. PICK start : InStep(m, start)
    BY <2>2
  <2>4. ev \in Event
    BY ContinuationType, ClientAssumption DEF ClientAssumption
  <2>4a. PICK next \in [1..(m + 2) -> Int] :
           /\ next[m + 2] = Len(inbound) + Size(ev)
           /\ \A i \in 1..(m + 1) : next[i] = start[i]
    <3> HIDE DEF TypeInv, TypeOK
    <3>1. PICK top : top = Len(inbound) + Size(ev)
      OBVIOUS
    <3>2. top \in Int
      <4>1. Len(inbound) \in Int
        BY DEF TypeInv, TypeOK
      <4> QED
        BY <2>4, <3>1, <4>1, Sizes
    <3>3. start \in [1..(m + 1) -> Int]
      BY <2>3 DEF InStep, Framed
    <3>4. PICK next : next = [i \in 1..(m + 2) |-> IF i <= m + 1 THEN start[i] ELSE top]
      OBVIOUS
    <3>5. ASSUME NEW i \in 1..(m + 2)
          PROVE  /\ i <= m + 1 => i \in 1..(m + 1) /\ next[i] = start[i] /\ start[i] \in Int
                 /\ ~(i <= m + 1) => next[i] = top
      BY <2>2, <3>3, <3>4
    <3>6. next \in [1..(m + 2) -> Int]
      BY <3>2, <3>4, <3>5
    <3>7. m + 2 \in 1..(m + 2) /\ ~(m + 2 <= m + 1)
      BY <2>2
    <3>8. \A i \in 1..(m + 1) : i \in 1..(m + 2) /\ i <= m + 1
      BY <2>2
    <3> QED
      BY <3>1, <3>5, <3>6, <3>7, <3>8
  <2>5. Framed(inbound', sent', Len(received'), m + 1, next)
    <3>1. /\ inbound \in Seq(Int) /\ sent \in Seq(Event) /\ Len(received) \in Nat
          /\ Len(received) + m = Len(sent) /\ Framed(inbound, sent, Len(received), m, start)
      BY <2>1, <2>3 DEF InStep
    <3> HIDE DEF TypeInv, TypeOK
    <3>2. PICK stream, events, n : stream = inbound /\ events = sent /\ n = Len(received)
      OBVIOUS
    <3>3. /\ stream \in Seq(Int) /\ events \in Seq(Event) /\ n \in Nat
          /\ n + m = Len(events) /\ Framed(stream, events, n, m, start)
          /\ next \in [1..(m + 2) -> Int] /\ next[m + 2] = Len(stream) + Size(ev)
          /\ \A i \in 1..(m + 1) : next[i] = start[i]
      BY <2>4a, <3>1, <3>2
    <3>4. Framed(stream \o SerialiseEvent(ev), Append(events, ev), n, m + 1, next)
      BY <2>2, <2>4, <3>3, FramedMore
    <3>5. /\ inbound' = stream \o SerialiseEvent(ev) /\ sent' = Append(events, ev)
          /\ Len(received') = n
      BY <2>1, <3>2
    <3> QED
      BY <3>4, <3>5
  <2>6. /\ Len(sent') = Len(sent) + 1 /\ next[1] = start[1]
        /\ \A i \in 1..Len(sent) : sent'[i] = sent[i]
    <3>1. 1 \in 1..(m + 1)
      BY <2>2
    <3> QED
      BY <2>1, <2>4, <2>4a, <3>1
  <2>7. InStep(m + 1, next)'
    <3>1. Len(received) \in Nat /\ Len(received') = Len(received) /\ Len(sent) \in Nat
      OBVIOUS
    <3>2. Len(received) + m = Len(sent)
      BY <2>1, <2>3 DEF InStep
    <3>3. start[1] = IF rpc = "payload" THEN -HeaderSize ELSE 0
      BY <2>3 DEF InStep
    <3>4. Len(received') + (m + 1) = Len(sent') /\ next[1] = start[1]
      <4> HIDE DEF TypeInv, TypeOK
      <4>1. Len(received) + (m + 1) = Len(sent) + 1
        BY <2>2, <3>1, <3>2
      <4> QED
        BY <2>6, <3>1, <4>1
    <3>5. ASSUME rpc' = "payload"
          PROVE  m + 1 > 0 /\ header'.type = EventTag[sent'[Len(received') + 1].kind]
      <4>1. m > 0 /\ header.type = EventTag[sent[Len(received) + 1].kind]
        BY <2>3, <3>5 DEF InStep
      <4>2. Len(received) + 1 \in 1..Len(sent)
        BY <3>1, <3>2, <4>1
      <4> QED
        BY <2>6, <4>1, <4>2
    <3>6. Framed(inbound', sent', Len(received'), m + 1, next)
      BY <2>5
    <3> QED
      BY <2>1, <3>3, <3>4, <3>5, <3>6 DEF InStep
  <2>8. SoFar'
    BY <2>6 DEF StreamInv, SoFar
  <2> QED
    BY <2>7, <2>8 DEF StreamInv
<1>2. CASE ServerCloses
  BY <1>2 DEF ServerCloses, StreamInv, SoFar, Dropped, InStep
<1>3. CASE ServerResets
  <2>1. SoFar' /\ sent' = sent /\ server' = "reset"
    BY <1>3 DEF ServerResets, StreamInv, SoFar
  <2>2. CASE inbound' = <<>>
    BY <2>1, <2>2 DEF StreamInv, Dropped
  <2>3. CASE inbound' = inbound
    <3>1. server = "open"
      BY <1>3 DEF ServerResets
    <3> QED
      BY <2>1, <2>3, <3>1 DEF StreamInv, Dropped, InStep
  <2> QED
    BY <1>3, <2>2, <2>3 DEF ServerResets
<1> QED
  BY <1>1, <1>2, <1>3 DEF Server

\* A header read is the front of the stream.
LEMMA HeaderStream == ASSUME TypeInv, StreamInv, RecvHeader, UNCHANGED <<server, sent>> PROVE StreamInv'
<1> USE DEF TypeInv, TypeOK
<1>1. /\ rpc = "header" /\ Len(inbound) >= HeaderSize /\ received' = received
      /\ header'.type = inbound[1]
      /\ inbound' = SubSeq(inbound, HeaderSize + 1, Len(inbound))
      /\ rpc' = IF Known(header'.type) THEN "payload" ELSE "loop"
  BY DEF RecvHeader
<1>2. PICK m \in Nat : \E start : InStep(m, start)
  BY <1>1 DEF StreamInv, Dropped, HeaderSize
<1>3. PICK start : InStep(m, start)
  BY <1>2
<1>4. /\ start[1] = 0 /\ Len(received) \in Nat
      /\ Framed(inbound, sent, Len(received), m, start)
      /\ Len(received) + m <= Len(sent) /\ (server = "open" => Len(received) + m = Len(sent))
  BY <1>1, <1>3 DEF InStep
<1>5. m > 0
  <2>1. CASE m = 0
    BY <1>1, <1>4, <2>1 DEF Framed, HeaderSize
  <2> QED
    BY <2>1
<1> DEFINE ev == sent[Len(received) + 1]
<1>6. ev \in Event
  <2>1. Len(received) + 1 \in 1..Len(sent)
    BY <1>4, <1>5
  <2> QED
    BY <2>1
<1>7. inbound[1] = EventTag[ev.kind] /\ Known(inbound[1])
  <2>1. 1 \in 1..m /\ 1 \in 1..Size(ev)
    BY <1>5, <1>6, Sizes DEF HeaderSize
  <2>2. inbound[start[1] + 1] = SerialiseEvent(ev)[1]
    <3>1. start[1] + 1 >= 1
      BY <1>4
    <3> QED
      BY <1>4, <2>1, <3>1 DEF Framed
  <2>3. SerialiseEvent(ev)[1] = EventTag[ev.kind] /\ ev.kind \in EventKinds
    BY <1>6, SerialisedEvent, EventCases DEF EventOf
  <2> QED
    BY <1>4, <2>2, <2>3, Kinds
<1> DEFINE next == [i \in 1..(m + 1) |-> start[i] - HeaderSize]
<1>8. Framed(inbound', sent, Len(received), m, next)
  BY <1>1, <1>4, FramedLess DEF HeaderSize
<1>9. next[1] = -HeaderSize
  BY <1>4 DEF HeaderSize
<1> HIDE DEF ev, next
<1>11. InStep(m, next)'
  BY <1>1, <1>4, <1>5, <1>7, <1>8, <1>9 DEF InStep, ev
<1>12. SoFar'
  BY <1>1 DEF StreamInv, SoFar
<1> QED
  BY <1>11, <1>12 DEF StreamInv

\* In step, a payload is in the stream as a whole.
LEMMA PayloadHere ==
    ASSUME TypeInv, SoFar, rpc = "payload", NEW m \in Nat, NEW start, InStep(m, start)
    PROVE  LET ev == sent[Len(received) + 1]
               size == Len(EventLayout[ev.kind])
           IN  /\ Len(received) + 1 \in 1..Len(sent) /\ ev \in Event /\ m > 0
               /\ KindOf(header.type) = ev.kind
               /\ size \in Nat /\ Size(ev) = HeaderSize + size
               /\ start[1] = -HeaderSize /\ start[2] = size /\ Len(inbound) >= size
               /\ \A i \in 1..size : inbound[i] = SerialiseEvent(ev)[HeaderSize + i]
<1> DEFINE n == Len(received)
           ev == sent[n + 1]
           size == Len(EventLayout[ev.kind])
<1>1. /\ n \in Nat /\ m > 0 /\ n + m <= Len(sent) /\ start[1] = -HeaderSize
      /\ header.type = EventTag[ev.kind]
      /\ Framed(inbound, sent, n, m, start)
  BY DEF InStep, TypeInv, TypeOK
<1>2. n + 1 \in 1..Len(sent) /\ ev \in Event
  BY <1>1 DEF TypeInv, TypeOK
<1>3. ev.kind \in EventKinds /\ size \in Nat /\ Size(ev) = HeaderSize + size
  BY <1>2, EventCases, EventLayouts DEF EventOf, Size, IsLayout
<1>4. KindOf(header.type) = ev.kind
  BY <1>1, <1>3, Kinds
<1>5. /\ start[1 + 1] = start[1] + Size(ev)
      /\ \A j \in 1..Size(ev) : start[1] + j >= 1 => inbound[start[1] + j] = SerialiseEvent(ev)[j]
  <2>1. 1 \in 1..m
    BY <1>1
  <2> QED
    BY <1>1, <2>1 DEF Framed
<1>6. start[2] = size
  BY <1>1, <1>3, <1>5 DEF HeaderSize
<1>7. Len(inbound) >= size
  <2>1. 2 \in 1..(m + 1) /\ m + 1 \in 1..(m + 1) /\ 2 <= m + 1
    BY <1>1
  <2>2. start[2] <= start[m + 1] /\ start[m + 1] = Len(inbound)
    BY <1>1, <2>1 DEF Framed
  <2> QED
    BY <1>6, <2>2
<1> HIDE DEF n, ev, size
<1>8. ASSUME NEW i \in 1..size PROVE inbound[i] = SerialiseEvent(ev)[HeaderSize + i]
  <2>1. HeaderSize + i \in 1..Size(ev) /\ start[1] + (HeaderSize + i) = i
    BY <1>1, <1>3 DEF HeaderSize
  <2> QED
    BY <1>5, <2>1
<1> QED
  BY <1>1, <1>2, <1>3, <1>4, <1>6, <1>7, <1>8 DEF n, ev, size

\* A payload read completes the event at the front of the stream.
LEMMA PayloadStream ==
    ASSUME TypeInv, StreamInv, RecvPayload, UNCHANGED <<server, sent>> PROVE StreamInv'
<1>1. Len(inbound) # 0
  <2>1. KindOf(header.type) \in EventKinds
    BY Kinds DEF RecvPayload, TypeInv
  <2>2. PayloadSize(KindOf(header.type)) > 0 /\ PayloadSize(KindOf(header.type)) \in Nat
    BY <2>1, EventLayouts DEF PayloadSize, IsLayout
  <2> QED
    BY <2>2 DEF RecvPayload
<1>2. PICK m \in Nat : \E start : InStep(m, start)
  BY <1>1 DEF StreamInv, Dropped
<1>3. PICK start : InStep(m, start)
  BY <1>2
<1>4. PICK ev, size, n : /\ n = Len(received) /\ ev = sent[n + 1]
                         /\ size = Len(EventLayout[ev.kind])
  OBVIOUS
<1>5. /\ n + 1 \in 1..Len(sent) /\ ev \in Event /\ m > 0 /\ KindOf(header.type) = ev.kind
      /\ size \in Nat /\ start[2] = size /\ Len(inbound) >= size
      /\ \A i \in 1..size : inbound[i] = SerialiseEvent(ev)[HeaderSize + i]
  BY <1>3, <1>4, PayloadHere DEF RecvPayload, StreamInv
<1>6. /\ received' = Append(received, DeserialiseEvent(ev.kind, SubSeq(inbound, 1, size)))
      /\ inbound' = SubSeq(inbound, size + 1, Len(inbound)) /\ rpc' = "loop"
  BY <1>4, <1>5 DEF RecvPayload, PayloadSize
<1>7. /\ inbound \in Seq(Int) /\ sent \in Seq(Event) /\ received \in Seq(Event) /\ n \in Nat
  BY <1>4 DEF TypeInv, TypeOK
<1>8. DeserialiseEvent(ev.kind, SubSeq(inbound, 1, size)) = ev
  <2>1. /\ SubSeq(inbound, 1, size) \in Seq(Int) /\ Len(SubSeq(inbound, 1, size)) = size
        /\ \A i \in 1..size : SubSeq(inbound, 1, size)[i] = inbound[i]
    BY <1>5, <1>7
  <2>2. PICK payload : payload = SubSeq(inbound, 1, size)
    OBVIOUS
  <2>3. /\ payload \in Seq(Int) /\ Len(payload) = Len(EventLayout[ev.kind])
        /\ \A i \in 1..Len(payload) : payload[i] = SerialiseEvent(ev)[HeaderSize + i]
    BY <1>4, <1>5, <2>1, <2>2
  <2> QED
    BY <1>5, <2>2, <2>3, EventRoundTrip
<1>9. /\ received' = Append(received, ev) /\ Len(received') = n + 1 /\ received'[n + 1] = ev
      /\ \A i \in 1..n : received'[i] = received[i]
  BY <1>4, <1>5, <1>6, <1>7, <1>8
<1>11. SoFar'
  BY <1>4, <1>5, <1>7, <1>9 DEF StreamInv, SoFar
<1>12. /\ n + m <= Len(sent) /\ (server = "open" => n + m = Len(sent))
       /\ Framed(inbound, sent, n, m, start)
  BY <1>3, <1>4 DEF InStep
<1> DEFINE shifted == [i \in 1..(m + 1) |-> start[i] - size]
           next == [i \in 1..m |-> shifted[i + 1]]
<1>13. Framed(inbound', sent, n, m, shifted)
  BY <1>5, <1>6, <1>7, <1>12, FramedLess
<1>14. Framed(inbound', sent, n + 1, m - 1, next)
  <2> HIDE DEF shifted
  <2>1. PICK rest, events : rest = inbound' /\ events = sent
    OBVIOUS
  <2>2. Framed(rest, events, n, m, shifted)
    BY <1>13, <2>1
  <2>3. Framed(rest, events, n + 1, m - 1, [i \in 1..m |-> shifted[i + 1]])
    BY <1>2, <1>5, <1>7, <2>2, FramedNext
  <2> QED
    BY <2>1, <2>3
<1>15. next[1] = 0
  <2>1. 2 \in 1..(m + 1) /\ 1 \in 1..m
    BY <1>5
  <2> QED
    BY <1>5, <2>1 DEF shifted
<1> HIDE DEF next
<1>16. InStep(m - 1, next)'
  <2>1. /\ (n + 1) + (m - 1) = n + m /\ Len(received') = n + 1
        /\ sent' = sent /\ server' = server /\ rpc' = "loop"
    BY <1>5, <1>6, <1>7, <1>9
  <2>2. Framed(inbound', sent', Len(received'), m - 1, next)
    BY <1>14, <2>1
  <2> QED
    BY <1>12, <1>15, <2>1, <2>2 DEF InStep
<1>17. m - 1 \in Nat
  BY <1>5
<1> QED
  BY <1>11, <1>16, <1>17 DEF StreamInv

\* The main thread does not touch the stream.
LEMMA MainStream == ASSUME TypeInv, StreamInv, Main PROVE StreamInv'
<1>1. UNCHANGED <<inbound, rpc, header, sent, received>>
  BY DEF Main
<1>2. /\ server' = "open" => server = "open"
      /\ server = "reset" => server' = "reset"
  BY DEF Main, MainSteps, ReadMessage, SendMessage, Quit, JoinReceiver, JoinPrinter
<1>3. SoFar'
  BY <1>1 DEF StreamInv, SoFar
<1>4. CASE Dropped
  BY <1>1, <1>2, <1>3, <1>4 DEF StreamInv, Dropped
<1>5. ASSUME NEW m \in Nat, NEW start, InStep(m, start) PROVE InStep(m, start)'
  BY <1>1, <1>2, <1>5 DEF InStep
<1> QED
  BY <1>3, <1>4, <1>5 DEF StreamInv

\* A payload that does not arrive as a whole has been dropped by a reset.
LEMMA FailStream ==
    ASSUME TypeInv, StreamInv, PayloadFails, UNCHANGED <<server, sent>> PROVE StreamInv'
<1>1. /\ rpc = "payload" /\ inbound' = <<>> /\ received' = received
      /\ Len(inbound) < PayloadSize(KindOf(header.type))
  BY DEF PayloadFails
<1>2. Dropped
  <2>1. ASSUME NEW m \in Nat, NEW start, InStep(m, start) PROVE FALSE
    <3>1. PICK ev : ev = sent[Len(received) + 1]
      OBVIOUS
    <3>2. /\ KindOf(header.type) = ev.kind /\ Len(inbound) >= Len(EventLayout[ev.kind])
          /\ Len(EventLayout[ev.kind]) \in Nat
      BY <1>1, <2>1, <3>1, PayloadHere DEF StreamInv
    <3>3. Len(inbound) \in Nat
      BY DEF TypeInv, TypeOK
    <3> QED
      BY <1>1, <3>2, <3>3 DEF PayloadSize
  <2> QED
    BY <2>1 DEF StreamInv
<1> QED
  BY <1>1, <1>2 DEF StreamInv, SoFar, Dropped

\* The receiving thread takes whole frames off the stream.
LEMMA ReceiverStream == ASSUME TypeInv, StreamInv, Receiver PROVE StreamInv'
<1>1. UNCHANGED <<server, sent>>
  BY DEF Receiver
<1>2. CASE RecvLoop \/ RecvEnd \/ RecvFails
  <2>1. /\ UNCHANGED <<inbound, received, header>>
        /\ rpc # "payload" /\ rpc' # "payload"
    BY <1>2 DEF RecvLoop, RecvEnd, RecvFails
  <2>2. ASSUME NEW m \in Nat, NEW start, InStep(m, start) PROVE InStep(m, start)'
    BY <1>1, <2>1, <2>2 DEF InStep
  <2>3. SoFar' /\ (Dropped => Dropped')
    BY <1>1, <2>1 DEF StreamInv, SoFar, Dropped
  <2> QED
    BY <2>2, <2>3 DEF StreamInv
<1> QED
  BY <1>1, <1>2, HeaderStream, PayloadStream, FailStream DEF Receiver

\* Nothing is in the stream at the start.
LEMMA InitStream == Init => StreamInv
<1> SUFFICES ASSUME Init PROVE StreamInv
  OBVIOUS
<1>1. /\ server = "open" /\ inbound = <<>> /\ rpc = "loop" /\ sent = <<>> /\ received = <<>>
  BY DEF Init
<1>2. PICK start : start = [i \in 1..1 |-> 0]
  OBVIOUS
<1>3. /\ start \in [1..(0 + 1) -> Int] /\ start[0 + 1] = 0 /\ start[1] = 0
      /\ \A i, k \in 1..(0 + 1) : start[i] <= start[k]
  BY <1>2
<1>4. Framed(inbound, sent, Len(received), 0, start)
  BY <1>1, <1>3 DEF Framed
<1>5. InStep(0, start)
  BY <1>1, <1>3, <1>4 DEF InStep
<1>6. 0 \in Nat /\ SoFar
  BY <1>1 DEF SoFar
<1> QED
  BY <1>5, <1>6 DEF StreamInv

\* For all streams of events, whatever the threads and the network do, the
\* events received are the events sent, every field of them, in order and
\* without a gap.
THEOREM ReceivedCorrect == Spec => []ReceivedIsSent
<1> DEFINE Inv == TypeInv /\ StreamInv
<1>1. Init => Inv
  BY InitType, InitStream
<1>2. Inv /\ [Next]_vars => Inv'
  <2> SUFFICES ASSUME Inv, [Next]_vars PROVE StreamInv'
    BY TypeStep
  <2>1. CASE Consumer \/ UNCHANGED vars
    <3>1. UNCHANGED <<server, inbound, rpc, header, sent, received>>
      BY <2>1 DEF Consumer, vars
    <3> QED
      BY <3>1 DEF StreamInv, SoFar, Dropped, InStep
  <2> QED
    BY <2>1, ServerStream, MainStream, ReceiverStream DEF Next
<1>3. Inv => ReceivedIsSent
  <2> SUFFICES ASSUME Inv PROVE ReceivedIsSent
    OBVIOUS
  <2>1. sent \in Seq(Event) /\ received \in Seq(Event)
    BY DEF TypeInv, TypeOK
  <2>2. SoFar
    BY DEF StreamInv
  <2>3. received = SubSeq(sent, 1, Len(received))
    BY <2>1, <2>2 DEF SoFar
  <2> QED
    BY <2>1, <2>2, <2>3 DEF ReceivedIsSent, IsPrefix, SoFar
<1> QED
  BY <1>1, <1>2, <1>3, PTL DEF Spec
===============================================================================
