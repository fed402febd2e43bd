----------------------------- MODULE ServerProofs -----------------------------
(***************************************************************************)
(* Proofs about Server: the mutex keeps the sender and the kqueue thread   *)
(* apart, the connection map follows the open descriptors, which client an *)
(* event reaches, what the broadcasts reach, and in which order a client   *)
(* gets what is about its own messages.                                    *)
(***************************************************************************)
EXTENDS Server, SequenceTheorems, TLAPS

Changing == {"inserting", "erasing", "clearing"}

\* The holder of the mutex is the thread within a critical section.
MutexInv ==
    /\ mutex = "sender" <=> spc = "broadcast"
    /\ mutex = "kqueue" <=> kpc \in Changing

\* Locking needs a free mutex, so it keeps the mutex with one thread.
LEMMA KqLockMutex == ASSUME MutexInv, KqLock, UNCHANGED spc PROVE MutexInv'
<1>1. CASE kpc = "insert"
  BY <1>1 DEF MutexInv, KqLock, Locked, Changing
<1>2. CASE kpc = "erase"
  BY <1>2 DEF MutexInv, KqLock, Locked, Changing
<1>3. CASE kpc = "clear"
  BY <1>3 DEF MutexInv, KqLock, Locked, Changing
<1> QED
  BY <1>1, <1>2, <1>3 DEF KqLock

\* Steps of the kqueue thread keep the mutex with one thread.
LEMMA KqueueMutex == ASSUME MutexInv, Kqueue PROVE MutexInv'
<1> UNCHANGED spc
  BY DEF Kqueue, senderVars
<1>1. CASE KqWait \/ KqAcceptFails
  BY <1>1 DEF MutexInv, KqWait, KqAcceptFails, Changing
<1>2. CASE KqPush
  BY <1>2 DEF MutexInv, KqPush, Changing
<1>3. CASE KqTest
  BY <1>3 DEF MutexInv, KqTest, Changing
<1>4. CASE KqLock
  BY <1>4, KqLockMutex
<1>5. CASE KqInsert \/ KqErase \/ KqClear
  BY <1>5 DEF MutexInv, KqInsert, KqErase, KqClear, Changing
<1>6. ASSUME NEW fd \in Fds, NEW c \in Clients, KqAccept(c, fd) PROVE MutexInv'
  BY <1>6 DEF MutexInv, KqAccept, Changing
<1>7. ASSUME NEW fd \in Fds, KqClose(fd) PROVE MutexInv'
  BY <1>7 DEF MutexInv, KqClose, Changing
<1>8. ASSUME NEW fd \in Fds, NEW k \in 0..MaxMessages, KqRead(fd, k) PROVE MutexInv'
  BY <1>8 DEF MutexInv, KqRead, Changing
<1> QED
  BY <1>1, <1>2, <1>3, <1>4, <1>5, <1>6, <1>7, <1>8 DEF Kqueue

\* Steps of the sender thread keep the mutex with one thread.
LEMMA SenderMutex == ASSUME MutexInv, Sender PROVE MutexInv'
<1> UNCHANGED kpc
  BY DEF Sender, kqueueVars
<1>1. CASE SenderPop
  BY <1>1 DEF MutexInv, SenderPop
<1>2. CASE SendPrivate \/ SenderStop
  BY <1>2 DEF MutexInv, SendPrivate, SenderStop
<1>3. CASE SenderLock \/ SenderUnlock
  BY <1>3 DEF MutexInv, SenderLock, SenderUnlock
<1>4. ASSUME NEW fd \in Fds, Broadcast(fd) PROVE MutexInv'
  BY <1>4 DEF MutexInv, Broadcast
<1> QED
  BY <1>1, <1>2, <1>3, <1>4 DEF Sender

\* In every reachable state the mutex belongs to the thread that is inside.
LEMMA MutexInvariant == Spec => []MutexInv
<1>1. Init => MutexInv
  BY DEF Init, MutexInv, Changing
<1>2. MutexInv /\ [Next]_vars => MutexInv'
  <2> SUFFICES ASSUME MutexInv, [Next]_vars PROVE MutexInv'
    OBVIOUS
  <2>1. CASE Outside \/ Stop \/ Engine
    BY <2>1 DEF Outside, Stop, Engine, MutexInv, kqueueVars, senderVars
  <2>2. CASE Kqueue
    BY <2>2, KqueueMutex
  <2>3. CASE Sender
    BY <2>3, SenderMutex
  <2>4. CASE UNCHANGED vars
    BY <2>4 DEF vars, MutexInv, kqueueVars, senderVars
  <2> QED
    BY <2>1, <2>2, <2>3, <2>4 DEF Next
<1> QED
  BY <1>1, <1>2, PTL DEF Spec

\* The kqueue thread changes fd_to_state only while the sender does not iterate
\* over it, with any number of clients and descriptors.
THEOREM MapIsGuarded == Spec => []NoMapRace
<1>1. MutexInv => NoMapRace
  BY DEF MutexInv, NoMapRace, Changing
<1> QED
  BY <1>1, MutexInvariant, PTL

-----------------------------------------------------------------------------
(***************************************************************************)
(* The connection map.  Beside the property itself the invariant says      *)
(* which descriptor is in the hands of the kqueue thread, and that nothing *)
(* is left to serve when the shutdown begins.                              *)
(***************************************************************************)
Accepting == {"insert", "inserting"}
Closing == {"erase", "erasing"}
Stopping == {"clear", "clearing", "done"}

HandInv ==
    /\ kpc \in {"serve", "wait", "parse"} \union Accepting \union Closing \union Stopping
    /\ kpc \in Accepting => kfd \in OpenFds
    /\ kpc \in Closing => kfd \in Fds \ OpenFds
    /\ kpc \notin Accepting \union Closing => kfd = Listen
    /\ kpc \in Stopping => batch = {}

MapInv == HandInv /\ ConnectionMapIsOpenFds

\* The listening descriptor, 0 in the model, is never a connection's.
LEMMA ListenIsNoFd == Listen \notin Fds
BY ServerAssumption DEF Listen

\* Steps of the kqueue thread keep the map and the open descriptors together.
LEMMA KqueueMap == ASSUME MapInv, Kqueue, fdTable \in [Fds -> Clients \union {Nobody}]
                   PROVE  MapInv'
<1> USE ListenIsNoFd DEF Accepting, Closing, Stopping
<1>1. CASE KqWait
  BY <1>1 DEF KqWait, network, MapInv, HandInv, ConnectionMapIsOpenFds, OpenFds, Ready
<1>2. CASE KqAcceptFails
  BY <1>2 DEF KqAcceptFails, network, MapInv, HandInv, ConnectionMapIsOpenFds, OpenFds
<1>3. CASE KqPush
  BY <1>3 DEF KqPush, network, MapInv, HandInv, ConnectionMapIsOpenFds, OpenFds
<1>4. CASE KqTest
  BY <1>4 DEF KqTest, network, MapInv, HandInv, ConnectionMapIsOpenFds, OpenFds
<1>5. CASE KqLock
  BY <1>5 DEF KqLock, Locked, network, MapInv, HandInv, ConnectionMapIsOpenFds, OpenFds
<1>6. CASE KqInsert
  BY <1>6 DEF KqInsert, network, MapInv, HandInv, ConnectionMapIsOpenFds, OpenFds
<1>7. CASE KqErase
  BY <1>7 DEF KqErase, network, MapInv, HandInv, ConnectionMapIsOpenFds, OpenFds
<1>8. CASE KqClear
  BY <1>8 DEF KqClear, network, MapInv, HandInv, ConnectionMapIsOpenFds, OpenFds
<1>9. ASSUME NEW fd \in Fds, NEW c \in Clients, KqAccept(c, fd) PROVE MapInv'
  <2>1. OpenFds' = OpenFds \union {fd}
    BY <1>9, ServerAssumption DEF KqAccept, OpenFds
  <2> QED
    BY <1>9, <2>1 DEF KqAccept, MapInv, HandInv, ConnectionMapIsOpenFds
<1>10. ASSUME NEW fd \in Fds, NEW k \in 0..MaxMessages, KqRead(fd, k) PROVE MapInv'
  BY <1>10 DEF KqRead, MapInv, HandInv, ConnectionMapIsOpenFds, OpenFds
<1>11. ASSUME NEW fd \in Fds, KqClose(fd) PROVE MapInv'
  <2>1. OpenFds' = OpenFds \ {fd}
    BY <1>11 DEF KqClose, OpenFds
  <2> QED
    BY <1>11, <2>1 DEF KqClose, MapInv, HandInv, ConnectionMapIsOpenFds
<1> QED
  BY <1>1, <1>2, <1>3, <1>4, <1>5, <1>6, <1>7, <1>8, <1>9, <1>10, <1>11 DEF Kqueue

\* Steps of the kqueue thread keep the type of the descriptor table.
LEMMA KqueueTable == ASSUME Kqueue, fdTable \in [Fds -> Clients \union {Nobody}]
                     PROVE  fdTable' \in [Fds -> Clients \union {Nobody}]
<1>1. CASE KqClear
  BY <1>1 DEF KqClear
<1>2. ASSUME NEW fd \in Fds, NEW c \in Clients, KqAccept(c, fd)
      PROVE  fdTable' \in [Fds -> Clients \union {Nobody}]
  BY <1>2 DEF KqAccept
<1>3. ASSUME NEW fd \in Fds, KqClose(fd) PROVE fdTable' \in [Fds -> Clients \union {Nobody}]
  BY <1>3 DEF KqClose
<1>4. CASE UNCHANGED fdTable
  BY <1>4
<1>5. \/ KqWait \/ KqAcceptFails \/ KqPush \/ KqTest \/ KqLock \/ KqInsert \/ KqErase
      \/ \E fd \in Fds, k \in 0..MaxMessages : KqRead(fd, k)
      => UNCHANGED fdTable
  BY DEF KqWait, KqAcceptFails, KqPush, KqTest, KqLock, KqInsert, KqErase, KqRead, network
<1> QED
  BY <1>1, <1>2, <1>3, <1>4, <1>5 DEF Kqueue

TableInv == fdTable \in [Fds -> Clients \union {Nobody}]

\* The table's type and the map's relation to it hold in every reachable state.
LEMMA MapInvariant == Spec => [](TableInv /\ MapInv)
<1>1. Init => TableInv /\ MapInv
  BY DEF Init, TableInv, MapInv, HandInv, ConnectionMapIsOpenFds, OpenFds, Accepting, Closing,
         Stopping
<1>2. TableInv /\ MapInv /\ [Next]_vars => (TableInv /\ MapInv)'
  <2> SUFFICES ASSUME TableInv, MapInv, [Next]_vars PROVE TableInv' /\ MapInv'
    OBVIOUS
  <2>1. CASE UNCHANGED <<fdTable, fd_to_state, kqueueVars>>
    BY <2>1 DEF kqueueVars, TableInv, MapInv, HandInv, ConnectionMapIsOpenFds, OpenFds
  <2>2. Outside \/ Stop \/ Engine \/ Sender \/ UNCHANGED vars
        => UNCHANGED <<fdTable, fd_to_state, kqueueVars>>
    BY DEF Outside, Connect, Send, Leave, Stop, Engine, Sender, vars, network
  <2>3. CASE Kqueue
    BY <2>3, KqueueMap, KqueueTable DEF TableInv
  <2> QED
    BY <2>1, <2>2, <2>3 DEF Next
<1> QED
  BY <1>1, <1>2, PTL DEF Spec

\* The map holds the open connections, but for the one in the hands of the
\* kqueue thread, and an fd that kevent has reported is found in it, whatever
\* numbers the kernel uses again.
THEOREM MapFollowsDescriptors == Spec => []ConnectionMapIsOpenFds
<1>1. MapInv => ConnectionMapIsOpenFds
  BY DEF MapInv
<1> QED
  BY <1>1, MapInvariant, PTL

-----------------------------------------------------------------------------
(***************************************************************************)
(* Types.  What is not evident is that the heads taken exist: a thread in  *)
(* the middle of a wakeup has something left to push, the engine in the    *)
(* middle of a message has one, and a broadcast a public event, in hand.   *)
(***************************************************************************)
Working == {"match", "filled"}

BusyInv ==
    /\ kpc = "parse" => parsing # <<>>
    /\ epc \in Working => taken \in Message /\ order \in Message
    /\ spc \in {"lock", "broadcast"} => event.frame \in PublicFrame
    /\ spc = "send" => event \in [fd : Fds, frame : PrivateFrame]

TypeInv == TypeOK /\ BusyInv

\* What the engine answers and publishes, and the cut frame, are frames.
LEMMA FrameTypes ==
  /\ \A m \in Message : Answer(m) \in PrivateFrame /\ Fill(m) \in PrivateFrame
  /\ \A k \in Nat : Public(k) \in PublicFrame
  /\ PrivateFrame \subseteq Frame /\ PublicFrame \subseteq Frame /\ Cut \in Frame
BY DEF Message, Answer, Fill, Public, Cut, Frame, PrivateFrame, PublicFrame

\* A routed private frame and a broadcast public frame are events.
LEMMA EventTypes ==
  /\ \A fd \in Fds, frame \in PrivateFrame : Routed(fd, frame) \in Event
  /\ \A frame \in PublicFrame : Routed(PUBLIC, frame) \in Event
  /\ \A e \in Event : /\ e.frame \in Frame
                      /\ e.fd = PUBLIC => e.frame \in PublicFrame
                      /\ e.fd # PUBLIC => e \in [fd : Fds, frame : PrivateFrame]
BY ServerAssumption, FrameTypes DEF Event, Routed, PUBLIC

\* The start of the process is well typed.
LEMMA TypeInit == Init => TypeInv
BY ServerAssumption DEF Init, TypeInv, TypeOK, BusyInv, Working, Listen

\* The two halves of the type invariant: clients and kernel, and the process.
NetworkTypes ==
    /\ peer \in [Clients -> {"new", "waiting", "open", "left", "closed"}]
    /\ fdTable \in [Fds -> Clients \union {Nobody}]
    /\ sent \in [Clients -> 0..MaxMessages]
    /\ requests \in [Clients -> Seq(1..MaxMessages)]
    /\ delivered \in [Clients -> Seq(PrivateFrame \union {Cut})]
    /\ heard \in [Clients -> Seq(Nat)] /\ missed \subseteq Clients

ProcessTypes ==
    /\ alive \in BOOLEAN /\ running \in BOOLEAN
    /\ fd_to_state \subseteq Fds /\ mutex \in {"free", "kqueue", "sender"}
    /\ msgSink \in Seq(Message) /\ Len(msgSink) <= SinkSize
    /\ eventSink \in Seq(Event) /\ Len(eventSink) <= SinkSize
    /\ kpc \in {"serve", "wait", "parse", "insert", "inserting", "erase", "erasing",
                "clear", "clearing", "done"}
    /\ batch \subseteq Fds \union {Listen} /\ kfd \in Fds \union {Listen}
    /\ parsing \in Seq(Message)
    /\ epc \in {"loop", "match", "filled", "done"} /\ pending \in Seq(Event)
    /\ taken \in Message \union {NoMessage} /\ order \in Message \union {NoMessage}
    /\ resting \subseteq Message /\ published \in Nat
    /\ spc \in {"loop", "send", "lock", "broadcast", "done"}
    /\ event \in Event \union {NoEvent} /\ targets \subseteq Fds
    /\ accepted \subseteq Message /\ refused \subseteq Message /\ lost \subseteq Frame
    /\ broadcasts \in Seq(Nat) /\ joined \in [Clients -> Nat]

\* Together the halves are the type invariant, in every state.
LEMMA TypeParts == TypeOK <=> NetworkTypes /\ ProcessTypes
BY DEF TypeOK, NetworkTypes, ProcessTypes

\* The same of the state after a step.
LEMMA TypePartsNext == NetworkTypes' /\ ProcessTypes' => TypeOK'
BY DEF TypeOK, NetworkTypes, ProcessTypes

\* A step that leaves the process alone keeps its types.
LEMMA ProcessTypesKept ==
  ASSUME ProcessTypes, UNCHANGED <<alive, running, fd_to_state, mutex, msgSink, eventSink>>,
         UNCHANGED <<kqueueVars, engineVars, senderVars, history>>
  PROVE  ProcessTypes'
BY DEF ProcessTypes, kqueueVars, engineVars, senderVars, history

\* Steps of the clients, and the stop.
LEMMA OutsideType == ASSUME TypeInv, Outside \/ Stop PROVE TypeInv'
<1> USE DEF kqueueVars, engineVars, senderVars, history
<1>0. ASSUME Outside, NetworkTypes' PROVE TypeInv'
  <2>1. UNCHANGED <<alive, running, fd_to_state, mutex, msgSink, eventSink>>
    BY <1>0 DEF Outside
  <2>2. UNCHANGED <<kqueueVars, engineVars, senderVars, history>>
    BY <1>0 DEF Outside
  <2>3. TypeOK'
    BY <1>0, <2>1, <2>2, TypeParts, TypePartsNext, ProcessTypesKept DEF TypeInv
  <2>4. BusyInv'
    BY <2>2 DEF TypeInv, BusyInv
  <2> QED
    BY <2>3, <2>4 DEF TypeInv
<1>1. ASSUME NEW c \in Clients, Connect(c) PROVE NetworkTypes'
  BY <1>1 DEF Connect, TypeInv, TypeOK, NetworkTypes
<1>2. ASSUME NEW c \in Clients, Send(c) PROVE NetworkTypes'
  <2>1. /\ sent[c] + 1 \in 0..MaxMessages /\ sent[c] + 1 \in 1..MaxMessages
    BY <1>2, ServerAssumption DEF Send, TypeInv, TypeOK
  <2>2. requests' \in [Clients -> Seq(1..MaxMessages)]
    BY <1>2, <2>1 DEF Send, TypeInv, TypeOK
  <2>3. sent' \in [Clients -> 0..MaxMessages]
    BY <1>2, <2>1 DEF Send, TypeInv, TypeOK
  <2>4. UNCHANGED <<peer, fdTable, delivered, heard, missed>>
    BY <1>2 DEF Send
  <2> QED
    BY <2>2, <2>3, <2>4 DEF TypeInv, TypeOK, NetworkTypes
<1>3. ASSUME NEW c \in Clients, Leave(c) PROVE NetworkTypes'
  BY <1>3 DEF Leave, TypeInv, TypeOK, NetworkTypes
<1>4. CASE Stop
  <2>1. running' \in BOOLEAN
    BY <1>4 DEF Stop
  <2>2. UNCHANGED <<network, alive, fd_to_state, mutex, msgSink, eventSink,
                    kqueueVars, engineVars, senderVars, history>>
    BY <1>4 DEF Stop
  <2> QED
    BY <2>1, <2>2 DEF TypeInv, TypeOK, BusyInv, network
<1> QED
  BY <1>0, <1>1, <1>2, <1>3, <1>4 DEF Outside

\* What is left of a sequence after its head is taken.
LEMMA HeadAndTail ==
  ASSUME NEW S, NEW s \in Seq(S), s # <<>>
  PROVE  /\ Head(s) \in S /\ Tail(s) \in Seq(S)
         /\ Len(s) > 1 => Tail(s) # <<>>
<1>1. /\ Head(s) \in S /\ Tail(s) \in Seq(S)
      /\ Len(Tail(s)) = Len(s) - 1
  BY HeadTailProperties
<1>2. Len(s) \in Nat /\ Len(<<>>) = 0
  BY LenProperties, EmptySeq
<1>3. ASSUME Len(s) > 1, Tail(s) = <<>> PROVE FALSE
  BY <1>1, <1>2, <1>3
<1> QED
  BY <1>1, <1>3

\* What a wakeup leaves of a sequence when it reads the first k.
LEMMA ReadSplit ==
  ASSUME NEW S, NEW s \in Seq(S), NEW k \in Nat, k <= Len(s)
  PROVE  /\ SubSeq(s, k + 1, Len(s)) \in Seq(S)
         /\ Len(SubSeq(s, k + 1, Len(s))) = Len(s) - k
         /\ \A i \in 1..Len(s) - k : SubSeq(s, k + 1, Len(s))[i] = s[k + i]
<1>1. Len(s) \in Nat
  BY LenProperties
<1>2. \A i \in k + 1..Len(s) : s[i] \in S
  BY <1>1, ElementOfSeq
<1>3. k + 1 \in Int /\ Len(s) \in Int
  BY <1>1
<1> DEFINE t == SubSeq(s, k + 1, Len(s))
<1>4. /\ t \in Seq(S)
      /\ Len(t) = IF k + 1 <= Len(s) THEN Len(s) - (k + 1) + 1 ELSE 0
      /\ \A i \in 1..Len(s) - (k + 1) + 1 : t[i] = s[k + 1 + i - 1]
  BY <1>2, <1>3, SubSeqProperties
<1>5. Len(t) = Len(s) - k
  BY <1>1, <1>4
<1>6. \A i \in 1..Len(s) - k : t[i] = s[k + i]
  BY <1>1, <1>4
<1> QED
  BY <1>4, <1>5, <1>6

\* Steps of the kqueue thread.
LEMMA KqueueType == ASSUME TypeInv, Kqueue, MapInv PROVE TypeInv'
<1>0. NetworkTypes /\ ProcessTypes
  BY TypeParts DEF TypeInv
<1> USE DEF TypeInv, TypeOK, BusyInv, Kqueue, engineVars, senderVars
<1>1. CASE KqWait
  <2>1. batch' \subseteq Fds \union {Listen}
    BY <1>1 DEF KqWait, Ready, OpenFds
  <2>2. /\ kpc = "wait" /\ kpc' = "serve"
        /\ UNCHANGED <<network, fd_to_state, mutex, msgSink, kfd, parsing,
                       accepted, refused, joined>>
    BY <1>1 DEF KqWait
  <2>3. BusyInv'
    BY <2>2
  <2> HIDE DEF TypeOK, TypeInv, BusyInv
  <2>4. NetworkTypes'
    BY <1>0, <2>2 DEF NetworkTypes, network
  <2>5. ProcessTypes'
    BY <1>0, <2>1, <2>2 DEF ProcessTypes
  <2> QED
    BY <2>3, <2>4, <2>5, TypePartsNext DEF TypeInv
<1>2. CASE KqAcceptFails
  BY <1>2 DEF KqAcceptFails, network
<1>3. CASE KqPush
  <2>0. parsing # <<>>
    BY <1>3 DEF KqPush
  <2>1. /\ Head(parsing) \in Message /\ Tail(parsing) \in Seq(Message)
        /\ Len(parsing) > 1 => Tail(parsing) # <<>>
    BY <2>0, HeadAndTail
  <2>2. /\ Append(msgSink, Head(parsing)) \in Seq(Message)
        /\ Len(Append(msgSink, Head(parsing))) = Len(msgSink) + 1
    BY <2>1, AppendProperties
  <2>3. msgSink' \in Seq(Message) /\ Len(msgSink') <= SinkSize
    <3>1. Len(msgSink) \in Nat /\ SinkSize \in Nat
      BY LenProperties, ServerAssumption
    <3>2. CASE Len(msgSink) < SinkSize
      <4>1. msgSink' = Append(msgSink, Head(parsing))
        BY <1>3, <3>2 DEF KqPush
      <4> QED
        BY <2>2, <3>1, <3>2, <4>1
    <3>3. CASE ~(Len(msgSink) < SinkSize)
      <4>1. msgSink' = msgSink
        BY <1>3, <3>3 DEF KqPush
      <4> QED
        BY <4>1
    <3> QED
      BY <3>2, <3>3
  <2>4. accepted' \subseteq Message /\ refused' \subseteq Message
    BY <1>3, <2>1 DEF KqPush
  <2>5. /\ parsing' = Tail(parsing)
        /\ kpc' = IF Len(parsing) > 1 THEN "parse" ELSE "serve"
        /\ UNCHANGED <<network, fd_to_state, mutex, batch, kfd, joined>>
    BY <1>3 DEF KqPush
  <2>6. TypeOK'
    BY <2>1, <2>3, <2>4, <2>5 DEF network
  <2>7. BusyInv'
    BY <2>1, <2>5 DEF network
  <2> QED
    BY <2>6, <2>7
<1>4. CASE KqTest
  BY <1>4 DEF KqTest, network
<1>5. CASE KqLock
  BY <1>5 DEF KqLock, Locked, network
<1>6. CASE KqInsert
  <2>1. kfd \in Fds
    BY <1>6 DEF KqInsert, MapInv, HandInv, Accepting, OpenFds
  <2>2. fd_to_state' \subseteq Fds /\ kfd' \in Fds \union {Listen}
    BY <1>6, <2>1 DEF KqInsert
  <2>3. Len(broadcasts) \in Nat
    OBVIOUS
  <2>4. joined' \in [Clients -> Nat]
    BY <1>6, <2>3 DEF KqInsert
  <2> QED
    BY <1>6, <2>2, <2>4 DEF KqInsert, network
<1>7. CASE KqErase
  BY <1>7 DEF KqErase, network, Listen
<1>8. CASE KqClear
  BY <1>8 DEF KqClear
<1>9. ASSUME NEW fd \in Fds, NEW c \in Clients, KqAccept(c, fd) PROVE TypeInv'
  <2>1. NetworkTypes'
    BY <1>9 DEF KqAccept, NetworkTypes
  <2>2. ProcessTypes'
    BY <1>9 DEF KqAccept, ProcessTypes, history
  <2>3. BusyInv'
    BY <1>9 DEF KqAccept
  <2> QED
    BY <2>1, <2>2, <2>3, TypePartsNext
<1>10. ASSUME NEW fd \in Fds, NEW k \in 0..MaxMessages, KqRead(fd, k) PROVE TypeInv'
  <2> DEFINE c == fdTable[fd]
  <2>1. c \in Clients
    BY <1>10 DEF KqRead, OpenFds
  <2>2. requests[c] \in Seq(1..MaxMessages)
    BY <2>1
  <2>3. \A n \in 1..MaxMessages : Stamp(fd, n) \in Message
    BY <2>1 DEF Stamp, Message
  <2>4. parsing' = [i \in 1..k |-> Stamp(fd, requests[c][i])] /\ k <= Len(requests[c])
    BY <1>10 DEF KqRead
  <2>5. parsing' \in Seq(Message) /\ Len(parsing') = k
    <3>1. \A i \in 1..k : Stamp(fd, requests[c][i]) \in Message
      <4>1. Len(requests[c]) \in Nat
        BY <2>2, LenProperties
      <4>2. \A i \in 1..k : i \in 1..Len(requests[c])
        BY <2>4, <4>1, ServerAssumption
      <4> QED
        BY <2>2, <2>3, <4>2, ElementOfSeq
    <3>2. k \in Nat
      BY ServerAssumption
    <3> HIDE DEF Stamp, c, TypeInv, TypeOK, BusyInv
    <3> QED
      BY <2>4, <3>1, <3>2
  <2>6. requests' \in [Clients -> Seq(1..MaxMessages)]
    <3>0. PICK S : S = 1..MaxMessages
      OBVIOUS
    <3>1. SubSeq(requests[c], k + 1, Len(requests[c])) \in Seq(1..MaxMessages)
      <4>1. k \in Nat /\ k <= Len(requests[c]) /\ requests[c] \in Seq(S)
        BY <2>2, <2>4, <3>0, ServerAssumption
      <4> HIDE DEF c, TypeInv, TypeOK, BusyInv
      <4> QED
        BY <3>0, <4>1, ReadSplit
    <3> QED
      BY <1>10, <2>1, <3>1 DEF KqRead
  <2>7. kpc' = "parse" => parsing' # <<>>
    <3>1. kpc' = "parse" => k # 0
      BY <1>10 DEF KqRead
    <3>2. Len(<<>>) = 0
      OBVIOUS
    <3> QED
      BY <2>5, <3>1, <3>2
  <2>8. NetworkTypes'
    <3>1. UNCHANGED <<peer, fdTable, sent, delivered, heard, missed>>
      BY <1>10 DEF KqRead
    <3> QED
      BY <2>6, <3>1 DEF NetworkTypes
  <2>9. /\ batch' = batch \ {fd} /\ kpc' \in {"serve", "parse"}
        /\ UNCHANGED <<fd_to_state, mutex, msgSink, kfd, accepted, refused, joined>>
    BY <1>10 DEF KqRead
  <2>10. UNCHANGED <<alive, running, eventSink, engineVars, senderVars, lost, broadcasts>>
    OBVIOUS
  <2>11. BusyInv'
    BY <2>7, <2>10
  <2> HIDE DEF TypeOK, TypeInv, BusyInv, Kqueue, c
  <2>12. ProcessTypes'
    BY <1>0, <2>5, <2>9, <2>10 DEF ProcessTypes
  <2> QED
    BY <2>8, <2>11, <2>12, TypePartsNext DEF TypeInv
<1>11. ASSUME NEW fd \in Fds, KqClose(fd) PROVE TypeInv'
  <2>1. fdTable[fd] \in Clients
    BY <1>11 DEF KqClose, OpenFds
  <2>2. NetworkTypes'
    BY <1>11, <2>1 DEF KqClose, NetworkTypes
  <2>3. /\ batch' = batch \ {fd} /\ kpc' = "erase" /\ kfd' = fd
        /\ UNCHANGED <<fd_to_state, mutex, msgSink, parsing, accepted, refused, joined>>
    BY <1>11 DEF KqClose
  <2>4. UNCHANGED <<alive, running, eventSink, engineVars, senderVars, lost, broadcasts>>
    OBVIOUS
  <2>5. BusyInv'
    BY <2>3, <2>4
  <2> HIDE DEF TypeOK, TypeInv, BusyInv, Kqueue
  <2>6. ProcessTypes'
    BY <1>0, <2>3, <2>4 DEF ProcessTypes
  <2> QED
    BY <2>2, <2>5, <2>6, TypePartsNext DEF TypeInv
<1> QED
  BY <1>1, <1>2, <1>3, <1>4, <1>5, <1>6, <1>7, <1>8, <1>9, <1>10, <1>11

\* What the engine makes of messages and of its numbering are events.
LEMMA EngineEvents ==
  ASSUME TypeInv
  PROVE  /\ published + 1 \in Nat /\ published + 2 \in Nat
         /\ Routed(PUBLIC, Public(published + 1)) \in Event
         /\ Routed(PUBLIC, Public(published + 2)) \in Event
         /\ \A m \in Message : /\ Routed(m.fd, Answer(m)) \in Event
                               /\ Routed(m.fd, Fill(m)) \in Event
<1>1. published + 1 \in Nat /\ published + 2 \in Nat
  BY DEF TypeInv, TypeOK
<1>2. Public(published + 1) \in PublicFrame /\ Public(published + 2) \in PublicFrame
  BY <1>1, FrameTypes
<1>3. \A m \in Message : /\ Routed(m.fd, Answer(m)) \in Event
                         /\ Routed(m.fd, Fill(m)) \in Event
  BY FrameTypes, EventTypes DEF Message
<1> QED
  BY <1>1, <1>2, <1>3, EventTypes

\* Steps of the engine thread.
LEMMA EngineType == ASSUME TypeInv, Engine PROVE TypeInv'
<1> USE DEF TypeInv, TypeOK, BusyInv, Engine, network, kqueueVars, senderVars
<1>0. /\ published + 1 \in Nat /\ published + 2 \in Nat
      /\ Routed(PUBLIC, Public(published + 1)) \in Event
      /\ Routed(PUBLIC, Public(published + 2)) \in Event
      /\ \A m \in Message : /\ Routed(m.fd, Answer(m)) \in Event
                            /\ Routed(m.fd, Fill(m)) \in Event
  BY EngineEvents
<1>1. CASE EnginePop
  <2>1. Head(msgSink) \in Message /\ Tail(msgSink) \in Seq(Message)
        /\ Len(Tail(msgSink)) <= SinkSize
    BY <1>1, ServerAssumption DEF EnginePop
  <2>2. taken' \in Message /\ order' \in Message
    BY <1>1, <2>1 DEF EnginePop
  <2>3. /\ pending' \in Seq(Event)
        /\ resting' \subseteq Message /\ published' \in Nat
    <3>1. PICK p \in Event : p = Routed(PUBLIC, Public(published + 1))
      BY <1>0
    <3>2. /\ pending' \in {<<>>, <<p>>}
          /\ resting' \subseteq resting /\ published' \in {published, published + 1}
      BY <1>1, <3>1 DEF EnginePop
    <3>3. <<>> \in Seq(Event) /\ <<p>> \in Seq(Event)
      OBVIOUS
    <3> QED
      BY <1>0, <3>2, <3>3
  <2> QED
    BY <1>1, <2>1, <2>2, <2>3 DEF EnginePop
<1>4. ASSUME NEW r \in resting, EngineTrade(r) PROVE TypeInv'
  <2>1. pending' \in Seq(Event) /\ published' \in Nat
    BY <1>0, <1>4 DEF EngineTrade
  <2> QED
    BY <1>4, <2>1 DEF EngineTrade, Working
<1>5. CASE EngineFinish
  <2>1. taken \in Message /\ order \in Message
    BY <1>5 DEF EngineFinish, Working
  <2>2. /\ pending' \in Seq(Event)
        /\ resting' \subseteq Message /\ published' \in Nat
    <3>1. PICK p \in Event, a \in Event : /\ p = Routed(PUBLIC, Public(published + 1))
                                          /\ a = Routed(taken.fd, Answer(taken))
      BY <1>0, <2>1
    <3>2. /\ pending' \in {<<a>>, <<p, a>>}
          /\ resting' \subseteq resting \union {order} /\ published' \in {published, published + 1}
      BY <1>5, <3>1 DEF EngineFinish
    <3>3. <<a>> \in Seq(Event) /\ <<p, a>> \in Seq(Event)
      OBVIOUS
    <3> QED
      BY <1>0, <2>1, <3>2, <3>3
  <2> QED
    BY <1>5, <2>2 DEF EngineFinish, Working
<1>2. CASE EnginePush
  <2>0. pending # <<>>
    BY <1>2 DEF EnginePush
  <2>1. Head(pending) \in Event /\ Tail(pending) \in Seq(Event)
    BY <2>0, HeadAndTail
  <2>2. /\ Append(eventSink, Head(pending)) \in Seq(Event)
        /\ Len(Append(eventSink, Head(pending))) = Len(eventSink) + 1
    BY <2>1, AppendProperties
  <2>3. eventSink' \in Seq(Event) /\ Len(eventSink') <= SinkSize
    <3>1. Len(eventSink) \in Nat /\ SinkSize \in Nat
      BY LenProperties, ServerAssumption
    <3>2. CASE Len(eventSink) < SinkSize
      <4>1. eventSink' = Append(eventSink, Head(pending))
        BY <1>2, <3>2 DEF EnginePush
      <4> QED
        BY <2>2, <3>1, <3>2, <4>1
    <3>3. CASE ~(Len(eventSink) < SinkSize)
      <4>1. eventSink' = eventSink
        BY <1>2, <3>3 DEF EnginePush
      <4> QED
        BY <4>1
    <3> QED
      BY <3>2, <3>3
  <2>4. Head(pending).frame \in Frame
    BY <2>1, EventTypes
  <2>5. lost' \subseteq Frame
    BY <1>2, <2>4 DEF EnginePush
  <2>6. /\ pending' = Tail(pending)
        /\ UNCHANGED <<msgSink, epc, taken, order, resting, published>>
    BY <1>2 DEF EnginePush
  <2> QED
    BY <2>1, <2>3, <2>5, <2>6
<1>3. CASE EngineStop
  BY <1>3 DEF EngineStop, Working
<1> QED
  BY <1>1, <1>2, <1>3, <1>4, <1>5

\* send_all changes what clients have received, and alive, by their types.
LEMMA SendType ==
  ASSUME TypeInv, NEW fd, NEW frame \in PrivateFrame \union PublicFrame, SendTo(fd, frame)
  PROVE  /\ delivered' \in [Clients -> Seq(PrivateFrame \union {Cut})]
         /\ heard' \in [Clients -> Seq(Nat)]
         /\ missed' \subseteq Clients /\ alive' \in BOOLEAN
<1> USE DEF TypeInv, TypeOK
<1> DEFINE Goal == /\ delivered' \in [Clients -> Seq(PrivateFrame \union {Cut})]
                   /\ heard' \in [Clients -> Seq(Nat)]
                   /\ missed' \subseteq Clients /\ alive' \in BOOLEAN
<1>1. CASE UNCHANGED <<alive, delivered, heard, missed>>
  BY <1>1
<1>2. CASE PeerGone
  BY <1>2 DEF PeerGone
<1>3. ASSUME fd \in OpenFds, Written(fdTable[fd], frame) PROVE Goal
  <2>1. fdTable[fd] \in Clients
    BY <1>3 DEF OpenFds
  <2>2. CASE frame.kind = "public"
    <3>1. frame.n \in Nat
      BY <2>2 DEF PrivateFrame, PublicFrame
    <3>2. Append(heard[fdTable[fd]], frame.n) \in Seq(Nat)
      BY <2>1, <3>1
    <3> QED
      BY <1>3, <2>1, <2>2, <3>2 DEF Written
  <2>3. CASE frame.kind # "public"
    <3>1. frame \in PrivateFrame
      BY <2>3 DEF PrivateFrame, PublicFrame
    <3>2. Append(delivered[fdTable[fd]], frame) \in Seq(PrivateFrame \union {Cut})
      BY <2>1, <3>1
    <3> QED
      BY <1>3, <2>1, <2>3, <3>2 DEF Written
  <2> QED
    BY <2>2, <2>3
<1>4. ASSUME fd \in OpenFds, GivenUp(fdTable[fd]) PROVE Goal
  <2>1. /\ fdTable[fd] \in Clients
        /\ Append(delivered[fdTable[fd]], Cut) \in Seq(PrivateFrame \union {Cut})
    BY <1>4, AppendProperties DEF OpenFds
  <2> QED
    BY <1>4, <2>1 DEF GivenUp
<1> QED
  BY <1>1, <1>2, <1>3, <1>4 DEF SendTo

\* Steps of the sender thread.
LEMMA SenderType == ASSUME TypeInv, Sender PROVE TypeInv'
<1> USE DEF TypeInv, TypeOK, BusyInv, Sender, kqueueVars, engineVars
<1>1. CASE SenderPop
  <2>1. /\ Head(eventSink) \in Event /\ Tail(eventSink) \in Seq(Event)
        /\ Len(Tail(eventSink)) <= SinkSize
    BY <1>1, ServerAssumption DEF SenderPop
  <2>2. /\ Head(eventSink).fd = PUBLIC => Head(eventSink).frame \in PublicFrame
        /\ Head(eventSink).fd # PUBLIC => Head(eventSink) \in [fd : Fds, frame : PrivateFrame]
    BY <2>1, EventTypes
  <2> QED
    BY <1>1, <2>1, <2>2 DEF SenderPop
<1>2. CASE SendPrivate
  <2>1. event.frame \in PrivateFrame
    BY <1>2 DEF SendPrivate
  <2>2. /\ delivered' \in [Clients -> Seq(PrivateFrame \union {Cut})]
        /\ heard' \in [Clients -> Seq(Nat)]
        /\ missed' \subseteq Clients /\ alive' \in BOOLEAN
    BY <1>2, <2>1, SendType DEF SendPrivate
  <2>3. /\ event' = NoEvent /\ spc' = "loop"
        /\ UNCHANGED <<mutex, eventSink, targets, broadcasts>>
    BY <1>2 DEF SendPrivate
  <2>4. NetworkTypes'
    BY <2>2 DEF NetworkTypes
  <2>5. ProcessTypes'
    BY <2>2, <2>3 DEF ProcessTypes
  <2>6. BusyInv'
    BY <2>3
  <2> QED
    BY <2>4, <2>5, <2>6, TypePartsNext
<1>3. CASE SenderLock
  BY <1>3 DEF SenderLock
<1>4. CASE SenderUnlock
  <2>1. event.frame.n \in Nat
    BY <1>4 DEF SenderUnlock, PublicFrame
  <2>2. broadcasts' \in Seq(Nat)
    BY <1>4, <2>1 DEF SenderUnlock
  <2> QED
    BY <1>4, <2>2 DEF SenderUnlock
<1>5. CASE SenderStop
  BY <1>5 DEF SenderStop
<1>6. ASSUME NEW fd \in Fds, Broadcast(fd) PROVE TypeInv'
  <2>1. event.frame \in PublicFrame
    BY <1>6 DEF Broadcast
  <2>2. /\ delivered' \in [Clients -> Seq(PrivateFrame \union {Cut})]
        /\ heard' \in [Clients -> Seq(Nat)]
        /\ missed' \subseteq Clients /\ alive' \in BOOLEAN
    BY <1>6, <2>1, SendType DEF Broadcast
  <2>3. /\ targets' \subseteq Fds
        /\ UNCHANGED <<mutex, eventSink, spc, event, broadcasts>>
    BY <1>6 DEF Broadcast
  <2>4. NetworkTypes'
    BY <2>2 DEF NetworkTypes
  <2>5. ProcessTypes'
    BY <2>2, <2>3 DEF ProcessTypes
  <2>6. BusyInv'
    BY <2>3
  <2> QED
    BY <2>4, <2>5, <2>6, TypePartsNext
<1> QED
  BY <1>1, <1>2, <1>3, <1>4, <1>5, <1>6

\* Types hold in every reachable state.
LEMMA TypeInvariant == Spec => []TypeInv
<1>1. TypeInv /\ MapInv /\ [Next]_vars => TypeInv'
  <2> SUFFICES ASSUME TypeInv, MapInv, [Next]_vars PROVE TypeInv'
    OBVIOUS
  <2>1. CASE UNCHANGED vars
    BY <2>1 DEF vars, network, kqueueVars, engineVars, senderVars, history, TypeInv, TypeOK, BusyInv
  <2> QED
    BY <2>1, OutsideType, KqueueType, EngineType, SenderType DEF Next
<1> QED
  BY <1>1, TypeInit, MapInvariant, PTL DEF Spec

\* The state of the server keeps its types, and no ring exceeds its size.
THEOREM TypeCorrect == Spec => []TypeOK
<1>1. TypeInv => TypeOK
  BY DEF TypeInv
<1> QED
  BY <1>1, TypeInvariant, PTL

-----------------------------------------------------------------------------
(***************************************************************************)
(* Connections: each open descriptor has a client of its own, which has    *)
(* been accepted and not yet closed.                                       *)
(***************************************************************************)
PeerInv == \A fd \in OpenFds : peer[fdTable[fd]] \in {"open", "left"}
OneFd == \A fd, other \in OpenFds : fdTable[fd] = fdTable[other] => fd = other
NetInv == PeerInv /\ OneFd

\* The steps of the kqueue thread that touch neither the table nor the clients.
KqInner == \/ KqWait \/ KqAcceptFails \/ KqPush \/ KqTest \/ KqLock \/ KqInsert \/ KqErase
           \/ \E fd \in Fds, k \in 0..MaxMessages : KqRead(fd, k)

\* What the rest of this module needs to know of the types and of the map.
Known == TypeInv /\ MapInv /\ MutexInv

\* A step of the kqueue thread is one of those or changes a connection.
LEMMA KqueueCases ==
  ASSUME Kqueue
  PROVE  KqInner \/ KqClear \/ \E fd \in Fds : KqClose(fd) \/ \E c \in Clients : KqAccept(c, fd)
BY DEF Kqueue, KqInner

\* Those steps keep what belongs to clients and kernel, but for what is read.
LEMMA InnerKeeps == ASSUME KqInner PROVE UNCHANGED <<peer, fdTable, delivered, heard, missed>>
BY DEF KqInner, KqWait, KqAcceptFails, KqPush, KqTest, KqLock, KqInsert, KqErase, KqRead, network

\* Only the clients and the kqueue thread change peer, and only the latter the table.
LEMMA OthersKeep ==
  ASSUME Stop \/ Engine \/ Sender \/ UNCHANGED vars PROVE UNCHANGED <<peer, fdTable>>
BY DEF Stop, Engine, Sender, vars, network

\* What a step of a client does to peer.
LEMMA OutsidePeer ==
  ASSUME TypeInv, Outside
  PROVE  /\ UNCHANGED fdTable
         /\ \A c \in Clients : \/ peer'[c] = peer[c]
                               \/ peer[c] = "new" /\ peer'[c] = "waiting"
                               \/ peer[c] = "open" /\ peer'[c] = "left"
BY DEF Outside, Connect, Send, Leave, TypeInv, TypeOK

\* At the shutdown the map holds every open descriptor, so all are closed.
LEMMA ClearCloses == ASSUME Known, KqClear PROVE OpenFds' = {}
<1>1. fd_to_state = OpenFds
  BY DEF KqClear, Known, MapInv, ConnectionMapIsOpenFds
<1>2. \A fd \in Fds : fd \in fd_to_state \/ fdTable[fd] = Nobody
  BY <1>1 DEF OpenFds
<1>3. fdTable' = [fd \in Fds |-> IF fd \in fd_to_state THEN Nobody ELSE fdTable[fd]]
  BY DEF KqClear
<1> QED
  BY <1>2, <1>3 DEF OpenFds

\* Connections keep descriptors of their own.
LEMMA NetStep == ASSUME Known, NetInv, [Next]_vars PROVE NetInv'
<1>0. /\ peer \in [Clients -> {"new", "waiting", "open", "left", "closed"}]
      /\ fdTable \in [Fds -> Clients \union {Nobody}]
  BY DEF Known, TypeInv, TypeOK
<1>1. CASE Outside
  <2>1. OpenFds' = OpenFds
    BY <1>1, OutsidePeer DEF OpenFds, Known
  <2>2. \A fd \in OpenFds : fdTable[fd] \in Clients
    BY <1>0 DEF OpenFds
  <2> QED
    BY <1>1, <2>1, <2>2, OutsidePeer DEF NetInv, PeerInv, OneFd, Known
<1>2. CASE UNCHANGED <<peer, fdTable>>
  BY <1>2 DEF NetInv, PeerInv, OneFd, OpenFds
<1>3. CASE KqClear
  BY <1>3, ClearCloses DEF NetInv, PeerInv, OneFd
<1>4. ASSUME NEW fd \in Fds, NEW c \in Clients, KqAccept(c, fd) PROVE NetInv'
  <2>1. /\ peer[c] = "waiting" /\ fd \notin OpenFds
        /\ fdTable' = [fdTable EXCEPT ![fd] = c]
        /\ peer' = [peer EXCEPT ![c] = "open"]
    BY <1>4 DEF KqAccept
  <2>2. OpenFds' = OpenFds \union {fd}
    BY <1>0, <2>1, ServerAssumption DEF OpenFds
  <2>3. \A other \in OpenFds : /\ fdTable[other] # c /\ other # fd
                               /\ fdTable[other] \in Clients
    BY <1>0, <2>1 DEF NetInv, PeerInv, OpenFds
  <2>4. fdTable'[fd] = c /\ peer'[c] = "open"
    BY <1>0, <2>1
  <2>5. \A other \in OpenFds : /\ fdTable'[other] = fdTable[other]
                               /\ peer'[fdTable[other]] = peer[fdTable[other]]
    BY <1>0, <2>1, <2>3 DEF OpenFds
  <2> QED
    BY <2>2, <2>3, <2>4, <2>5 DEF NetInv, PeerInv, OneFd
<1>5. ASSUME NEW fd \in Fds, KqClose(fd) PROVE NetInv'
  <2>1. /\ fd \in OpenFds
        /\ fdTable' = [fdTable EXCEPT ![fd] = Nobody]
        /\ peer' = [peer EXCEPT ![fdTable[fd]] = "closed"]
    BY <1>5 DEF KqClose
  <2>2. OpenFds' = OpenFds \ {fd}
    BY <1>0, <2>1 DEF OpenFds
  <2>3. \A other \in OpenFds \ {fd} : /\ fdTable[other] # fdTable[fd]
                                      /\ fdTable[other] \in Clients
    BY <1>0, <2>1 DEF NetInv, OneFd, OpenFds
  <2>4. \A other \in OpenFds \ {fd} : /\ fdTable'[other] = fdTable[other]
                                      /\ peer'[fdTable[other]] = peer[fdTable[other]]
    BY <1>0, <2>1, <2>3 DEF OpenFds
  <2> QED
    BY <2>2, <2>3, <2>4 DEF NetInv, PeerInv, OneFd
<1> QED
  BY <1>1, <1>2, <1>3, <1>4, <1>5, KqueueCases, InnerKeeps, OthersKeep DEF Next

\* Every reachable state has its types, map, mutex and connections in order.
LEMMA NetInvariant == Spec => [](Known /\ NetInv)
<1>1. Init => NetInv
  BY DEF Init, NetInv, PeerInv, OneFd, OpenFds
<1> QED
  BY <1>1, NetStep, TypeInvariant, MapInvariant, MutexInvariant, PTL DEF Spec, Known

-----------------------------------------------------------------------------
(***************************************************************************)
(* Routing.  A message, and an event made of it, stay aimed at the client  *)
(* they are about: the fd they carry is its connection, or it is gone for  *)
(* good.                                                                   *)
(***************************************************************************)
Aimed(fd, c) == fdTable[fd] = c \/ peer[c] = "closed"

RightMessages == { m \in Message : Aimed(m.fd, m.client) }
RightEvents == { e \in Event : e.fd # PUBLIC => Aimed(e.fd, e.frame.to) }
RightFrames(d) ==
    { f \in PrivateFrame \union {Cut} : Private(f) => f.to = d \/ peer[f.to] = "closed" }

RouteInv ==
    /\ parsing \in Seq(RightMessages) /\ msgSink \in Seq(RightMessages)
    /\ resting \subseteq RightMessages
    /\ epc \in Working => {taken, order} \subseteq RightMessages
    /\ pending \in Seq(RightEvents) /\ eventSink \in Seq(RightEvents)
    /\ spc = "send" => event \in RightEvents
    /\ \A d \in Clients : delivered[d] \in Seq(RightFrames(d))

\* A peer that is closed stays so, and what is aimed stays aimed: a descriptor
\* that is handed out was free, and one is freed only as its client is closed.
LEMMA AimedStable ==
  ASSUME Known, NetInv, [Next]_vars
  PROVE  /\ \A c \in Clients : peer[c] = "closed" => peer'[c] = "closed"
         /\ \A fd \in Fds, c \in Clients : Aimed(fd, c) => Aimed(fd, c)'
<1>0. /\ peer \in [Clients -> {"new", "waiting", "open", "left", "closed"}]
      /\ fdTable \in [Fds -> Clients \union {Nobody}]
  BY DEF Known, TypeInv, TypeOK
<1> DEFINE Stable == /\ \A c \in Clients : peer[c] = "closed" => peer'[c] = "closed"
                     /\ \A fd \in Fds, c \in Clients : Aimed(fd, c) => Aimed(fd, c)'
<1>1. CASE Outside
  BY <1>1, OutsidePeer DEF Aimed, Known
<1>2. CASE UNCHANGED <<peer, fdTable>>
  BY <1>2 DEF Aimed
<1>3. CASE KqClear
  <2>1. \A c \in Clients : peer[c] # "new" => peer'[c] = "closed"
    BY <1>3 DEF KqClear
  <2>2. \A fd \in Fds, c \in Clients : Aimed(fd, c) => peer[c] # "new"
    BY <1>0, ServerAssumption DEF NetInv, PeerInv, OpenFds, Aimed
  <2> QED
    BY <2>1, <2>2 DEF Aimed
<1>4. ASSUME NEW fd \in Fds, NEW c \in Clients, KqAccept(c, fd) PROVE Stable
  <2>1. /\ peer[c] = "waiting" /\ fd \notin OpenFds
        /\ fdTable' = [fdTable EXCEPT ![fd] = c]
        /\ peer' = [peer EXCEPT ![c] = "open"]
    BY <1>4 DEF KqAccept
  <2>2. fdTable[fd] = Nobody
    BY <2>1 DEF OpenFds
  <2> QED
    BY <1>0, <2>1, <2>2, ServerAssumption DEF Aimed
<1>5. ASSUME NEW fd \in Fds, KqClose(fd) PROVE Stable
  <2>1. /\ fdTable' = [fdTable EXCEPT ![fd] = Nobody]
        /\ peer' = [peer EXCEPT ![fdTable[fd]] = "closed"]
    BY <1>5 DEF KqClose
  <2> QED
    BY <1>0, <2>1 DEF Aimed
<1> QED
  BY <1>1, <1>2, <1>3, <1>4, <1>5, KqueueCases, InnerKeeps, OthersKeep DEF Next

\* A sequence over a set is one over a larger set.
LEMMA SeqGrows == ASSUME NEW S, NEW T, S \subseteq T, NEW s \in Seq(S) PROVE s \in Seq(T)
<1>1. s \in [1..Len(s) -> S] /\ Len(s) \in Nat
  BY LenProperties
<1>2. s \in [1..Len(s) -> T]
  BY <1>1
<1> QED
  BY <1>1, <1>2

\* So what the queues hold is still right after a step.
LEMMA RightGrows ==
  ASSUME Known, NetInv, [Next]_vars
  PROVE  /\ RightMessages \subseteq RightMessages'
         /\ RightEvents \subseteq RightEvents'
         /\ \A d \in Clients : RightFrames(d) \subseteq RightFrames(d)'
<1>1. RightMessages \subseteq RightMessages'
  BY AimedStable DEF RightMessages, Message
<1>2. \A e \in Event : e.fd # PUBLIC => e.fd \in Fds /\ e.frame.to \in Clients
  BY DEF Event, PrivateFrame
<1>3. RightEvents \subseteq RightEvents'
  BY <1>2, AimedStable DEF RightEvents
<1>4. \A f \in PrivateFrame \union {Cut} : Private(f) => f.to \in Clients
  BY DEF Private, PrivateFrame, Cut
<1>5. \A d \in Clients : RightFrames(d) \subseteq RightFrames(d)'
  BY <1>4, AimedStable DEF RightFrames
<1> QED
  BY <1>1, <1>3, <1>5

\* The queues of RouteInv, over the sets of the next state.
Carried(M, E) ==
    /\ parsing \in Seq(M) /\ msgSink \in Seq(M) /\ resting \subseteq M
    /\ epc \in Working => {taken, order} \subseteq M
    /\ pending \in Seq(E) /\ eventSink \in Seq(E)
    /\ spc = "send" => event \in E

\* A wakeup reads messages of the client at the other end of the descriptor,
\* and the kqueue thread moves them on as they are.
LEMMA KqueueCarried ==
  ASSUME NEW M, NEW E, Known, Kqueue, RightMessages \subseteq M, Carried(M, E)
  PROVE  Carried(M, E)'
<1>1. Carried(M, E)
  OBVIOUS
<1>2. UNCHANGED <<epc, taken, order, resting, pending, eventSink, spc, event>>
  BY DEF Kqueue, engineVars, senderVars
<1>3. CASE UNCHANGED <<parsing, msgSink>>
  BY <1>1, <1>2, <1>3 DEF Carried
<1>4. CASE KqPush
  <2>1. parsing # <<>>
    BY <1>4 DEF KqPush, Known, TypeInv, BusyInv
  <2>2. Head(parsing) \in M /\ Tail(parsing) \in Seq(M)
    BY <1>1, <2>1, HeadAndTail DEF Carried
  <2>3. Append(msgSink, Head(parsing)) \in Seq(M)
    BY <1>1, <2>2, AppendProperties DEF Carried
  <2>4. parsing' = Tail(parsing) /\ msgSink' \in {msgSink, Append(msgSink, Head(parsing))}
    BY <1>4 DEF KqPush
  <2> QED
    BY <1>1, <1>2, <2>2, <2>3, <2>4 DEF Carried
<1>5. ASSUME NEW fd \in Fds, NEW k \in 0..MaxMessages, KqRead(fd, k) PROVE Carried(M, E)'
  <2> DEFINE c == fdTable[fd]
  <2>1. c \in Clients /\ requests[c] \in Seq(1..MaxMessages)
    BY <1>5 DEF KqRead, OpenFds, Known, TypeInv, TypeOK
  <2>2. UNCHANGED <<fdTable, peer, msgSink>>
    BY <1>5 DEF KqRead
  <2>3. \A n \in 1..MaxMessages : Stamp(fd, n) \in M
    BY <2>1 DEF Stamp, Message, RightMessages, Aimed
  <2>4. parsing' = [i \in 1..k |-> Stamp(fd, requests[c][i])] /\ k <= Len(requests[c])
    BY <1>5, <2>1 DEF KqRead
  <2>5. k \in Nat /\ Len(requests[c]) \in Nat
    BY <2>1, LenProperties, ServerAssumption
  <2>6. \A i \in 1..k : Stamp(fd, requests[c][i]) \in M
    <3>1. \A i \in 1..k : i \in 1..Len(requests[c])
      BY <2>4, <2>5
    <3> QED
      BY <2>1, <2>3, <3>1, ElementOfSeq
  <2>7. parsing' \in Seq(M)
    <3> HIDE DEF c, Stamp
    <3> QED
      BY <2>4, <2>5, <2>6
  <2> QED
    BY <1>1, <1>2, <2>2, <2>7 DEF Carried
<1>6. ASSUME \/ KqWait \/ KqAcceptFails \/ KqTest \/ KqLock \/ KqInsert \/ KqErase \/ KqClear
             \/ \E fd \in Fds : KqClose(fd) \/ \E c \in Clients : KqAccept(c, fd)
      PROVE  UNCHANGED <<parsing, msgSink>>
  BY <1>6 DEF KqWait, KqAcceptFails, KqTest, KqLock, KqInsert, KqErase, KqClear, KqClose, KqAccept
<1> QED
  BY <1>3, <1>4, <1>5, <1>6 DEF Kqueue

\* The engine answers the messages it takes on the fds they carry.
LEMMA EngineCarried ==
  ASSUME NEW M, NEW E, Known, Engine, Carried(M, E),
         \A m \in M : Routed(m.fd, Answer(m)) \in E /\ Routed(m.fd, Fill(m)) \in E,
         \A k \in Nat : Routed(PUBLIC, Public(k)) \in E
  PROVE  Carried(M, E)'
<1>0. UNCHANGED <<parsing, spc, event>>
  BY DEF Engine, kqueueVars, senderVars
<1>6. /\ Routed(PUBLIC, Public(published + 1)) \in E
      /\ Routed(PUBLIC, Public(published + 2)) \in E
  BY EngineEvents DEF Known
<1>1. CASE EnginePop
  <2>1. PICK m \in M : m = Head(msgSink)
    BY <1>1, HeadAndTail DEF EnginePop, Carried
  <2>2. Tail(msgSink) \in Seq(M) /\ msgSink' = Tail(msgSink)
    BY <1>1, HeadAndTail DEF EnginePop, Carried
  <2>3. taken' = m /\ order' \in M /\ resting' \subseteq M
    BY <1>1, <2>1 DEF EnginePop, Carried
  <2>4. pending' \in Seq(E)
    <3>1. pending' = pending \/ pending' = <<Routed(PUBLIC, Public(published + 1))>>
      BY <1>1 DEF EnginePop
    <3>2. CASE pending' = <<Routed(PUBLIC, Public(published + 1))>>
      <4>1. PICK p \in E : p = Routed(PUBLIC, Public(published + 1))
        BY <1>6
      <4> QED
        BY <3>2, <4>1
    <3> QED
      BY <3>1, <3>2 DEF Carried
  <2>5. UNCHANGED eventSink
    BY <1>1 DEF EnginePop
  <2> QED
    BY <1>0, <2>2, <2>3, <2>4, <2>5 DEF Carried
<1>4. ASSUME NEW r \in resting, EngineTrade(r) PROVE Carried(M, E)'
  <2>1. PICK p \in E, q \in E : /\ p = Routed(PUBLIC, Public(published + 1))
                                /\ q = Routed(PUBLIC, Public(published + 2))
    BY <1>6
  <2>2. PICK f \in E : f = Routed(r.fd, Fill(r))
    BY DEF Carried
  <2>3. pending' = <<p, q, f>> /\ pending' \in Seq(E)
    <3>1. pending' = <<p, q, f>>
      BY <1>4, <2>1, <2>2 DEF EngineTrade
    <3> QED
      BY <3>1
  <2>4. /\ resting' \subseteq resting /\ epc \in Working
        /\ UNCHANGED <<msgSink, taken, order, eventSink>>
    BY <1>4 DEF EngineTrade, Working
  <2> QED
    BY <1>0, <2>3, <2>4 DEF Carried
<1>5. CASE EngineFinish
  <2>1. taken \in M /\ order \in M
    BY <1>5 DEF EngineFinish, Carried, Working
  <2>2. PICK p \in E, a \in E : /\ p = Routed(PUBLIC, Public(published + 1))
                                /\ a = Routed(taken.fd, Answer(taken))
    BY <1>6, <2>1
  <2>3. pending' \in Seq(E)
    <3>1. pending' = <<a>> \/ pending' = <<p, a>>
      BY <1>5, <2>2 DEF EngineFinish
    <3>2. <<a>> \in Seq(E) /\ <<p, a>> \in Seq(E)
      OBVIOUS
    <3> QED
      BY <3>1, <3>2
  <2>4. /\ resting' \subseteq M /\ epc' \notin Working
        /\ UNCHANGED <<msgSink, eventSink>>
    BY <1>5, <2>1 DEF EngineFinish, Working, Carried
  <2> QED
    BY <1>0, <2>3, <2>4 DEF Carried
<1>2. CASE EnginePush
  <2>1. pending # <<>>
    BY <1>2 DEF EnginePush
  <2>2. Head(pending) \in E /\ Tail(pending) \in Seq(E)
    BY <2>1, HeadAndTail DEF Carried
  <2>3. Append(eventSink, Head(pending)) \in Seq(E)
    BY <2>2, AppendProperties DEF Carried
  <2>4. /\ pending' = Tail(pending)
        /\ eventSink' \in {eventSink, Append(eventSink, Head(pending))}
        /\ UNCHANGED <<msgSink, epc, taken, order, resting>>
    BY <1>2 DEF EnginePush
  <2> QED
    BY <1>0, <2>2, <2>3, <2>4 DEF Carried
<1>3. CASE EngineStop
  BY <1>0, <1>3 DEF EngineStop, Carried, Working
<1> QED
  BY <1>1, <1>2, <1>3, <1>4, <1>5 DEF Engine

\* The sender takes the events as they are.
LEMMA SenderCarried == ASSUME NEW M, NEW E, Sender, Carried(M, E) PROVE Carried(M, E)'
<1>0. UNCHANGED <<parsing, msgSink, epc, taken, order, resting, pending>>
  BY DEF Sender, kqueueVars, engineVars
<1>1. CASE SenderPop
  <2>1. Head(eventSink) \in E /\ Tail(eventSink) \in Seq(E)
    BY <1>1, HeadAndTail DEF SenderPop, Carried
  <2> QED
    BY <1>0, <1>1, <2>1 DEF SenderPop, Carried
<1>2. SenderPop \/ (spc' # "send" /\ UNCHANGED eventSink)
  BY DEF Sender, SendPrivate, SenderLock, SenderUnlock, SenderStop, Broadcast
<1> QED
  BY <1>0, <1>1, <1>2 DEF Carried

\* A private event reaches the client at the other end of its fd: the one it is
\* about, or that one is gone.
LEMMA DeliveredRight ==
  ASSUME Known, NetInv, RouteInv, Sender, NEW d \in Clients
  PROVE  delivered'[d] \in Seq(RightFrames(d))
<1> DEFINE R == RightFrames(d)
<1>0. /\ delivered[d] \in Seq(R)
      /\ delivered \in [Clients -> Seq(PrivateFrame \union {Cut})]
      /\ fdTable \in [Fds -> Clients \union {Nobody}]
  BY DEF RouteInv, Known, TypeInv, TypeOK
<1>1. CASE UNCHANGED delivered
  BY <1>0, <1>1
<1>2. ASSUME NEW fd \in OpenFds, NEW frame, SendTo(fd, frame),
             frame.kind # "public" => frame \in PrivateFrame /\ Aimed(fd, frame.to)
      PROVE  delivered'[d] \in Seq(R)
  <2>1. Cut \in R
    BY DEF RightFrames, Private, Cut
  <2>2. CASE Written(fdTable[fd], frame) /\ fdTable[fd] = d /\ frame.kind # "public"
    <3>1. delivered'[d] = Append(delivered[d], frame)
      BY <1>0, <2>2 DEF Written
    <3>2. frame \in R
      BY <1>2, <2>2 DEF RightFrames, Aimed
    <3> QED
      BY <1>0, <3>1, <3>2, AppendProperties
  <2>3. CASE GivenUp(fdTable[fd]) /\ fdTable[fd] = d
    <3>1. delivered'[d] \in {delivered[d], Append(delivered[d], Cut)}
      BY <1>0, <2>3 DEF GivenUp
    <3>2. Append(delivered[d], Cut) \in Seq(R)
      BY <1>0, <2>1, AppendProperties
    <3> QED
      BY <1>0, <3>1, <3>2
  <2>4. \/ UNCHANGED delivered
        \/ Written(fdTable[fd], frame) /\ frame.kind # "public"
        \/ GivenUp(fdTable[fd])
    BY <1>2 DEF SendTo, PeerGone, Written
  <2>5. CASE fdTable[fd] # d
    <3>1. delivered'[d] = delivered[d]
      BY <1>0, <2>4, <2>5 DEF Written, GivenUp
    <3> QED
      BY <1>0, <3>1
  <2> QED
    BY <1>1, <2>2, <2>3, <2>4, <2>5
<1>3. CASE SendPrivate
  <2>1. event \in RightEvents /\ event \in [fd : Fds, frame : PrivateFrame]
    BY <1>3 DEF SendPrivate, RouteInv, Known, TypeInv, BusyInv
  <2>2. event.frame \in PrivateFrame /\ Aimed(event.fd, event.frame.to)
    BY <2>1, ServerAssumption DEF RightEvents, PUBLIC
  <2>3. CASE event.fd \in OpenFds
    BY <1>2, <1>3, <2>2, <2>3 DEF SendPrivate
  <2>4. CASE event.fd \notin OpenFds
    BY <1>1, <1>3, <2>4 DEF SendPrivate, SendTo
  <2> QED
    BY <2>3, <2>4
<1>4. ASSUME NEW fd \in Fds, Broadcast(fd) PROVE delivered'[d] \in Seq(R)
  <2>1. event.frame.kind = "public"
    BY <1>4 DEF Broadcast, Known, TypeInv, BusyInv, PublicFrame
  <2>2. CASE fd \in OpenFds
    BY <1>2, <1>4, <2>1, <2>2 DEF Broadcast
  <2>3. CASE fd \notin OpenFds
    BY <1>1, <1>4, <2>3 DEF Broadcast, SendTo
  <2> QED
    BY <2>2, <2>3
<1>5. SenderPop \/ SenderLock \/ SenderUnlock \/ SenderStop => UNCHANGED delivered
  BY DEF SenderPop, SenderLock, SenderUnlock, SenderStop
<1> QED
  BY <1>1, <1>3, <1>4, <1>5 DEF Sender

\* Every message, resting order and event in the process stays aimed, and every
\* frame that was misdirected stays excused.
LEMMA RouteStep == ASSUME Known, NetInv, RouteInv, [Next]_vars PROVE RouteInv'
<1> PICK M : M = RightMessages'
  OBVIOUS
<1> PICK E : E = RightEvents'
  OBVIOUS
<1>1. RightMessages \subseteq M /\ RightEvents \subseteq E
  BY RightGrows
<1>2. Carried(M, E)
  <2> HIDE DEF RightMessages, RightEvents
  <2>1. /\ parsing \in Seq(M) /\ msgSink \in Seq(M) /\ resting \subseteq M
        /\ epc \in Working => {taken, order} \subseteq M
    BY <1>1, SeqGrows DEF RouteInv
  <2>2. pending \in Seq(E) /\ eventSink \in Seq(E)
    BY <1>1, SeqGrows DEF RouteInv
  <2>3. spc = "send" => event \in E
    BY <1>1 DEF RouteInv
  <2> QED
    BY <2>1, <2>2, <2>3 DEF Carried
<1>3. Carried(M, E)'
  <2>1. CASE Outside \/ Stop \/ UNCHANGED vars
    BY <1>2, <2>1 DEF Outside, Stop, vars, kqueueVars, engineVars, senderVars, Carried
  <2>2. CASE Kqueue
    BY <1>1, <1>2, <2>2, KqueueCarried
  <2>3. CASE Engine
    <3>1. UNCHANGED <<peer, fdTable>>
      BY <2>3, OthersKeep
    <3>2. \A m \in M : /\ m \in Message /\ Routed(m.fd, Answer(m)) \in Event
                       /\ Routed(m.fd, Fill(m)) \in Event
      BY EventTypes, FrameTypes DEF RightMessages, Message
    <3>3. \A m \in M : Routed(m.fd, Answer(m)) \in E /\ Routed(m.fd, Fill(m)) \in E
      BY <3>2 DEF RightMessages, RightEvents, Routed, Answer, Fill
    <3>4. \A k \in Nat : Routed(PUBLIC, Public(k)) \in E
      BY EventTypes, FrameTypes DEF RightEvents, Routed
    <3> QED
      BY <1>2, <2>3, <3>3, <3>4, EngineCarried
  <2>4. CASE Sender
    BY <1>2, <2>4, SenderCarried
  <2> QED
    BY <2>1, <2>2, <2>3, <2>4 DEF Next
<1>4. ASSUME NEW d \in Clients PROVE delivered'[d] \in Seq(RightFrames(d)')
  <2>1. PICK R : R = RightFrames(d)'
    OBVIOUS
  <2>2. RightFrames(d) \subseteq R
    BY <2>1, RightGrows
  <2>3. delivered'[d] \in Seq(RightFrames(d))
    <3>1. CASE Sender
      BY <3>1, DeliveredRight
    <3>2. CASE UNCHANGED delivered
      BY <3>2 DEF RouteInv
    <3>3. Outside \/ Stop \/ Engine \/ KqInner \/ UNCHANGED vars => UNCHANGED delivered
      BY InnerKeeps DEF Outside, Connect, Send, Leave, Stop, Engine, vars, network
    <3>4. ASSUME KqClear \/ \E fd \in Fds : KqClose(fd) \/ \E c \in Clients : KqAccept(c, fd)
          PROVE  UNCHANGED delivered
      BY <3>4 DEF KqClear, KqClose, KqAccept
    <3> QED
      BY <3>1, <3>2, <3>3, <3>4, KqueueCases DEF Next
  <2> HIDE DEF RightFrames
  <2> QED
    BY <2>1, <2>2, <2>3, SeqGrows
<1>5. /\ parsing' \in Seq(M) /\ msgSink' \in Seq(M) /\ resting' \subseteq M
      /\ epc' \in Working => {taken', order'} \subseteq M
      /\ pending' \in Seq(E) /\ eventSink' \in Seq(E)
      /\ spc' = "send" => event' \in E
  BY <1>3 DEF Carried
<1> HIDE DEF RightMessages, RightEvents, RightFrames
<1> QED
  BY <1>4, <1>5 DEF RouteInv

\* In every reachable state all that is on its way is aimed at its client.
LEMMA RouteInvariant == Spec => []RouteInv
<1>1. Init => RouteInv
  BY EmptySeq DEF Init, RouteInv, Working
<1> QED
  BY <1>1, RouteStep, NetInvariant, PTL DEF Spec

\* A private event written to another client than the one it is about was
\* addressed to a connection that is closed, with any number of clients and
\* descriptors: while a connection is open its events go nowhere else.
THEOREM MisroutingNeedsClosing == Spec => []MisroutedOnlyAfterClosing
<1>1. RouteInv => MisroutedOnlyAfterClosing
  <2> SUFFICES ASSUME RouteInv, NEW d \in Clients, NEW i \in DOMAIN delivered[d]
               PROVE  LET frame == delivered[d][i]
                      IN  Private(frame) /\ frame.to # d => peer[frame.to] = "closed"
    BY DEF MisroutedOnlyAfterClosing
  <2>1. delivered[d] \in Seq(RightFrames(d))
    BY DEF RouteInv
  <2>2. delivered[d][i] \in RightFrames(d)
    <3> HIDE DEF RightFrames
    <3> QED
      BY <2>1
  <2> QED
    BY <2>2 DEF RightFrames
<1> QED
  BY <1>1, RouteInvariant, PTL

-----------------------------------------------------------------------------
(***************************************************************************)
(* What the broadcasts reach.  The invariant says, for the entries of the  *)
(* map, how far the sender has come in its loop, and of the clients that are*)
(* not in it yet that they have heard nothing.                             *)
(***************************************************************************)
\* The public events due to the client of a descriptor in the map.
Due(fd) ==
    IF spc = "broadcast" /\ fd \notin targets
    THEN Append(Since(fdTable[fd]), event.frame.n)
    ELSE Since(fdTable[fd])

CastInv ==
    /\ targets \subseteq fd_to_state
    /\ spc # "broadcast" => targets = {}
    /\ \A c \in Clients : joined[c] <= Len(broadcasts)
    /\ \A c \in Clients : peer[c] \in {"new", "waiting"} => heard[c] = <<>>
    /\ \A fd \in OpenFds \ fd_to_state : heard[fdTable[fd]] = <<>>
    /\ \A fd \in OpenFds \intersect fd_to_state :
         fdTable[fd] \notin missed /\ peer[fdTable[fd]] = "open" => heard[fdTable[fd]] = Due(fd)

\* The stretch of a sequence that is due grows at its end as the sequence does.
LEMMA SinceGrows ==
  ASSUME NEW s \in Seq(Nat), NEW n \in Nat, NEW j \in Nat, j <= Len(s)
  PROVE  SubSeq(Append(s, n), j + 1, Len(s) + 1) = Append(SubSeq(s, j + 1, Len(s)), n)
<1> DEFINE t == Append(s, n)
           old == SubSeq(s, j + 1, Len(s))
           new == SubSeq(t, j + 1, Len(s) + 1)
<1>1. /\ t \in Seq(Nat) /\ Len(t) = Len(s) + 1 /\ Len(s) \in Nat
      /\ \A i \in 1..Len(s) : t[i] = s[i]
      /\ t[Len(s) + 1] = n
  BY AppendProperties
<1>2. \A i \in (j + 1)..Len(s) : s[i] \in Nat
  BY ElementOfSeq
<1>3. /\ old \in Seq(Nat) /\ Len(old) = Len(s) - j
      /\ \A i \in 1..(Len(s) - j) : old[i] = s[j + i]
  <2> HIDE DEF t
  <2>1. PICK a \in Int, b \in Int : a = j + 1 /\ b = Len(s)
    BY <1>1
  <2>2. \A i \in a..b : s[i] \in Nat
    BY <1>2, <2>1
  <2>3. PICK part : part = SubSeq(s, a, b)
    OBVIOUS
  <2>4. /\ part \in Seq(Nat) /\ Len(part) = IF a <= b THEN b - a + 1 ELSE 0
        /\ \A i \in 1..(b - a + 1) : part[i] = s[a + i - 1]
    BY <2>2, <2>3, SubSeqProperties
  <2>5. part = old
    BY <2>1, <2>3
  <2> HIDE DEF old
  <2> QED
    BY <1>1, <2>1, <2>4, <2>5
<1>4. \A i \in (j + 1)..(Len(s) + 1) : t[i] \in Nat
  BY <1>1, ElementOfSeq
<1>5. /\ new \in Seq(Nat) /\ Len(new) = Len(s) - j + 1
      /\ \A i \in 1..(Len(s) - j + 1) : new[i] = t[j + i]
  <2> HIDE DEF t, old
  <2>1. PICK a \in Int, b \in Int : a = j + 1 /\ b = Len(s) + 1
    BY <1>1
  <2>2. \A i \in a..b : t[i] \in Nat
    BY <1>4, <2>1
  <2>3. PICK part : part = SubSeq(t, a, b)
    OBVIOUS
  <2>4. /\ part \in Seq(Nat) /\ Len(part) = IF a <= b THEN b - a + 1 ELSE 0
        /\ \A i \in 1..(b - a + 1) : part[i] = t[a + i - 1]
    BY <2>2, <2>3, SubSeqProperties
  <2>5. part = new
    BY <2>1, <2>3
  <2> HIDE DEF new
  <2> QED
    BY <1>1, <2>1, <2>4, <2>5
<1> HIDE DEF t, old, new
<1>6. /\ Append(old, n) \in Seq(Nat) /\ Len(Append(old, n)) = Len(s) - j + 1
      /\ \A i \in 1..(Len(s) - j) : Append(old, n)[i] = old[i]
      /\ Append(old, n)[Len(s) - j + 1] = n
  BY <1>3, AppendProperties
<1>7. ASSUME NEW i \in 1..Len(new) PROVE new[i] = Append(old, n)[i]
  <2>0. Len(new) = Len(s) - j + 1 /\ Len(s) \in Nat
    BY <1>1, <1>5
  <2>1. CASE i = Len(s) - j + 1
    <3>1. j + i = Len(s) + 1
      BY <2>0, <2>1
    <3>2. i \in 1..(Len(s) - j + 1)
      BY <2>0
    <3>3. new[i] = t[Len(s) + 1]
      BY <1>5, <3>1, <3>2
    <3>4. new[i] = n
      BY <1>1, <3>3
    <3>5. Append(old, n)[i] = n
      BY <2>0, <1>6, <2>1
    <3> QED
      BY <3>4, <3>5
  <2>2. CASE i # Len(s) - j + 1
    <3>1. i \in 1..(Len(s) - j) /\ j + i \in 1..Len(s)
      BY <2>0, <2>2
    <3> QED
      BY <1>1, <1>3, <1>5, <1>6, <3>1
  <2> QED
    BY <2>1, <2>2
<1>8. new = Append(old, n)
  BY <1>5, <1>6, <1>7, SeqEqual
<1> QED
  BY <1>8 DEF new, old, t

\* A client that has just entered the map has nothing due.
LEMMA NothingDue ==
  ASSUME NEW s \in Seq(Nat) PROVE SubSeq(s, Len(s) + 1, Len(s)) = <<>>
<1>1. Len(s) \in Nat
  BY LenProperties
<1> QED
  BY <1>1, SubSeqEmpty

\* The facts about types that this proof uses.
LEMMA CastTypes ==
  ASSUME Known
  PROVE  /\ peer \in [Clients -> {"new", "waiting", "open", "left", "closed"}]
         /\ fdTable \in [Fds -> Clients \union {Nobody}]
         /\ heard \in [Clients -> Seq(Nat)]
         /\ joined \in [Clients -> Nat] /\ broadcasts \in Seq(Nat)
         /\ \A fd \in OpenFds : fd \in Fds /\ fdTable[fd] \in Clients
BY DEF Known, TypeInv, TypeOK, OpenFds

\* Steps of the clients, the engine and those that stop the process.
LEMMA OutsideCast ==
  ASSUME Known, CastInv, Outside \/ Stop \/ Engine \/ UNCHANGED vars
  PROVE  CastInv'
<1>1. UNCHANGED <<fdTable, heard, missed, fd_to_state, spc, event, targets, broadcasts, joined>>
  BY DEF Outside, Connect, Send, Leave, Stop, Engine, vars, network, senderVars, history
<1>2. OpenFds' = OpenFds /\ \A fd \in OpenFds : Due(fd)' = Due(fd)
  BY <1>1 DEF OpenFds, Due, Since
<1>3. \A c \in Clients : \/ peer'[c] = peer[c]
                         \/ peer[c] = "new" /\ peer'[c] = "waiting"
                         \/ peer[c] = "open" /\ peer'[c] = "left"
  BY OutsidePeer, OthersKeep DEF Known
<1>4. \A fd \in OpenFds : fdTable[fd] \in Clients
  BY CastTypes
<1>5. \A c \in Clients : peer'[c] \in {"new", "waiting"} => peer[c] \in {"new", "waiting"}
  BY <1>3
<1>6. \A c \in Clients : peer'[c] = "open" => peer[c] = "open"
  BY <1>3
<1> QED
  BY <1>1, <1>2, <1>4, <1>5, <1>6 DEF CastInv

\* The steps of the kqueue thread that leave the connections and the map alone.
LEMMA QuietCast ==
  ASSUME CastInv, UNCHANGED <<peer, fdTable, heard, missed, fd_to_state, spc, event, targets,
                              broadcasts, joined>>
  PROVE  CastInv'
BY DEF CastInv, OpenFds, Due, Since

\* An accepted client is not in the map yet, and has heard nothing.
LEMMA AcceptCast ==
  ASSUME Known, NetInv, CastInv, Kqueue, NEW fd \in Fds, NEW c \in Clients, KqAccept(c, fd)
  PROVE  CastInv'
<1>1. /\ peer[c] = "waiting" /\ fd \notin OpenFds
      /\ fdTable' = [fdTable EXCEPT ![fd] = c]
      /\ peer' = [peer EXCEPT ![c] = "open"]
      /\ kpc = "serve"
      /\ UNCHANGED <<heard, missed, fd_to_state, spc, event, targets, broadcasts, joined>>
  BY DEF KqAccept, Kqueue, senderVars
<1>2. OpenFds' = OpenFds \union {fd} /\ fd \notin fd_to_state
  BY <1>1, CastTypes, ServerAssumption
  DEF OpenFds, Known, MapInv, ConnectionMapIsOpenFds
<1>3. \A other \in OpenFds : /\ fdTable[other] # c /\ fdTable'[other] = fdTable[other]
                             /\ peer'[fdTable[other]] = peer[fdTable[other]]
                             /\ Due(other)' = Due(other)
  BY <1>1, CastTypes DEF NetInv, PeerInv, OpenFds, Due, Since
<1>4. fdTable'[fd] = c /\ heard[c] = <<>>
  BY <1>1, CastTypes DEF CastInv
<1>5. \A d \in Clients : peer'[d] \in {"new", "waiting"} => peer[d] \in {"new", "waiting"}
  BY <1>1, CastTypes
<1> QED
  BY <1>1, <1>2, <1>3, <1>4, <1>5 DEF CastInv

\* The entry that is put into the map is due the events broadcast from then on;
\* the sender is not within a broadcast.
LEMMA InsertCast == ASSUME Known, NetInv, CastInv, Kqueue, KqInsert PROVE CastInv'
<1> PICK new : new = kfd
  OBVIOUS
<1>1. /\ kpc = "inserting"
      /\ fd_to_state' = fd_to_state \union {new}
      /\ joined' = [joined EXCEPT ![fdTable[new]] = Len(broadcasts)]
      /\ UNCHANGED <<peer, fdTable, heard, missed, spc, event, targets, broadcasts>>
  BY DEF KqInsert, Kqueue, network, senderVars
<1>2. spc # "broadcast"
  BY <1>1 DEF Known, MutexInv, Changing
<1>3. new \in OpenFds /\ fd_to_state = OpenFds \ {new}
  BY <1>1 DEF Known, MapInv, HandInv, Accepting, ConnectionMapIsOpenFds
<1>4. heard[fdTable[new]] = <<>>
  BY <1>3 DEF CastInv
<1>5. OpenFds' = OpenFds /\ fd_to_state' = OpenFds
  BY <1>1, <1>3 DEF OpenFds
<1>6. Due(new)' = <<>>
  <2>1. joined'[fdTable[new]] = Len(broadcasts)
    BY <1>1, <1>3, CastTypes
  <2>2. Since(fdTable[new])' = SubSeq(broadcasts, Len(broadcasts) + 1, Len(broadcasts))
    BY <1>1, <2>1 DEF Since
  <2>3. Due(new)' = Since(fdTable[new])'
    BY <1>1, <1>2 DEF Due, Since
  <2> QED
    BY <2>2, <2>3, NothingDue, CastTypes
<1>7. \A fd \in OpenFds \ {new} : Due(fd)' = Due(fd)
  <2>1. \A fd \in OpenFds \ {new} : joined'[fdTable[fd]] = joined[fdTable[fd]]
    BY <1>1, <1>3, CastTypes DEF NetInv, OneFd
  <2> SUFFICES ASSUME NEW fd \in OpenFds \ {new} PROVE Due(fd)' = Due(fd)
    OBVIOUS
  <2>2. joined'[fdTable'[fd]] = joined[fdTable[fd]]
    BY <1>1, <2>1
  <2>3. Since(fdTable[fd])' = Since(fdTable[fd])
    BY <1>1, <2>2 DEF Since
  <2>4. Due(fd)' = Since(fdTable[fd])' /\ Due(fd) = Since(fdTable[fd])
    BY <1>1, <1>2 DEF Due
  <2> QED
    BY <2>3, <2>4
<1>8. \A c \in Clients : joined'[c] <= Len(broadcasts)
  <2>1. Len(broadcasts) \in Nat
    BY CastTypes, LenProperties
  <2> QED
    BY <1>1, <1>3, <2>1, CastTypes DEF CastInv
<1> QED
  BY <1>1, <1>2, <1>3, <1>4, <1>5, <1>6, <1>7, <1>8 DEF CastInv

\* A connection that has ended is taken out of the map, or is about to be.
LEMMA LeaveCast ==
  ASSUME Known, NetInv, CastInv, Kqueue, NEW fd \in Fds, KqClose(fd)
  PROVE  CastInv'
<1>1. /\ fdTable' = [fdTable EXCEPT ![fd] = Nobody]
      /\ peer' = [peer EXCEPT ![fdTable[fd]] = "closed"]
      /\ fd \in OpenFds
      /\ UNCHANGED <<heard, missed, fd_to_state, spc, event, targets, broadcasts, joined>>
  BY DEF KqClose, Kqueue, senderVars
<1>2. OpenFds' = OpenFds \ {fd}
  BY <1>1, CastTypes DEF OpenFds
<1>3. \A other \in OpenFds \ {fd} : /\ fdTable'[other] = fdTable[other]
                                    /\ peer'[fdTable[other]] = peer[fdTable[other]]
                                    /\ Due(other)' = Due(other)
  BY <1>1, CastTypes DEF NetInv, OneFd, OpenFds, Due, Since
<1>4. \A c \in Clients : peer'[c] \in {"new", "waiting"} => peer[c] \in {"new", "waiting"}
  BY <1>1, CastTypes
<1> QED
  BY <1>1, <1>2, <1>3, <1>4 DEF CastInv

\* The entry that is taken out of the map is no open connection's.
LEMMA EraseCast == ASSUME Known, CastInv, Kqueue, KqErase PROVE CastInv'
<1>1. /\ kpc = "erasing"
      /\ fd_to_state' = fd_to_state \ {kfd}
      /\ UNCHANGED <<peer, fdTable, heard, missed, spc, event, targets, broadcasts, joined>>
  BY DEF KqErase, Kqueue, network, senderVars
<1>2. targets = {}
  BY <1>1 DEF Known, MutexInv, Changing, CastInv
<1>3. fd_to_state = OpenFds \union {kfd} /\ kfd \notin OpenFds
  BY <1>1 DEF Known, MapInv, HandInv, Closing, ConnectionMapIsOpenFds
<1>4. OpenFds' = OpenFds /\ \A fd \in OpenFds : Due(fd)' = Due(fd)
  BY <1>1 DEF OpenFds, Due, Since
<1> QED
  BY <1>1, <1>2, <1>3, <1>4 DEF CastInv

\* The shutdown closes all connections, outside of any broadcast.
LEMMA ClearCast == ASSUME Known, CastInv, Kqueue, KqClear PROVE CastInv'
<1>1. /\ kpc = "clearing" /\ fd_to_state' = {}
      /\ peer' = [c \in Clients |-> IF peer[c] = "new" THEN "new" ELSE "closed"]
      /\ UNCHANGED <<heard, missed, spc, event, targets, broadcasts, joined>>
  BY DEF KqClear, Kqueue, senderVars
<1>2. targets = {}
  BY <1>1 DEF Known, MutexInv, Changing, CastInv
<1>3. OpenFds' = {}
  BY ClearCloses
<1>4. \A c \in Clients : peer'[c] \in {"new", "waiting"} => peer[c] \in {"new", "waiting"}
  BY <1>1
<1> QED
  BY <1>1, <1>2, <1>3, <1>4 DEF CastInv

\* No step of the kqueue thread disturbs a broadcast.
LEMMA KqueueCast == ASSUME Known, NetInv, CastInv, Kqueue PROVE CastInv'
<1>1. CASE \/ KqWait \/ KqAcceptFails \/ KqPush \/ KqTest \/ KqLock
           \/ \E fd \in Fds, k \in 0..MaxMessages : KqRead(fd, k)
  <2>1. UNCHANGED <<peer, fdTable, heard, missed, fd_to_state, joined>>
    BY <1>1 DEF KqWait, KqAcceptFails, KqPush, KqTest, KqLock, KqRead, network
  <2>2. UNCHANGED <<spc, event, targets, broadcasts>>
    BY DEF Kqueue, senderVars
  <2> QED
    BY <2>1, <2>2, QuietCast
<1> QED
  BY <1>1, AcceptCast, InsertCast, LeaveCast, EraseCast, ClearCast DEF Kqueue

\* What send_all does to what the clients have heard: the frame reaches the one
\* client behind the descriptor, if any, or that client counts as missed.
LEMMA SendHeard ==
  ASSUME Known, NetInv, NEW fd \in Fds, NEW frame, SendTo(fd, frame)
  PROVE  /\ missed \subseteq missed'
         /\ \A c \in Clients : peer[c] # "open" => heard'[c] = heard[c]
         /\ \A other \in OpenFds \ {fd} : heard'[fdTable[other]] = heard[fdTable[other]]
         /\ fd \in OpenFds /\ peer[fdTable[fd]] = "open" /\ fdTable[fd] \notin missed'
              => heard'[fdTable[fd]] = IF frame.kind = "public"
                                       THEN Append(heard[fdTable[fd]], frame.n)
                                       ELSE heard[fdTable[fd]]
<1>1. CASE UNCHANGED <<heard, missed>> /\ ~(fd \in OpenFds /\ peer[fdTable[fd]] = "open")
  BY <1>1
<1>2. CASE fd \in OpenFds /\ peer[fdTable[fd]] = "open" /\ Written(fdTable[fd], frame)
  <2>1. \A other \in OpenFds \ {fd} : fdTable[other] # fdTable[fd] /\ fdTable[other] \in Clients
    BY <1>2, CastTypes DEF NetInv, OneFd
  <2>2. fdTable[fd] \in Clients
    BY <1>2, CastTypes
  <2>3. missed' = missed
    BY <1>2 DEF Written
  <2>4. heard' = IF frame.kind = "public"
                 THEN [heard EXCEPT ![fdTable[fd]] = Append(@, frame.n)] ELSE heard
    BY <1>2 DEF Written
  <2> QED
    BY <1>2, <2>1, <2>2, <2>3, <2>4, CastTypes
<1>3. CASE fd \in OpenFds /\ GivenUp(fdTable[fd])
  BY <1>3 DEF GivenUp
<1> QED
  BY <1>1, <1>2, <1>3 DEF SendTo, PeerGone

\* Each send of a broadcast is what is due to the client, once.
LEMMA BroadcastCast ==
  ASSUME Known, NetInv, CastInv, Sender, NEW fd \in Fds, Broadcast(fd)
  PROVE  CastInv'
<1>1. /\ spc = "broadcast" /\ fd \in targets /\ targets' = targets \ {fd}
      /\ SendTo(fd, event.frame)
      /\ UNCHANGED <<peer, fdTable, fd_to_state, spc, event, broadcasts, joined>>
  BY DEF Broadcast, Sender
<1>2. event.frame.kind = "public"
  BY <1>1 DEF Known, TypeInv, BusyInv, PublicFrame
<1>3. /\ missed \subseteq missed'
      /\ \A c \in Clients : peer[c] # "open" => heard'[c] = heard[c]
      /\ \A other \in OpenFds \ {fd} : heard'[fdTable[other]] = heard[fdTable[other]]
      /\ fd \in OpenFds /\ peer[fdTable[fd]] = "open" /\ fdTable[fd] \notin missed'
           => heard'[fdTable[fd]] = Append(heard[fdTable[fd]], event.frame.n)
  BY <1>1, <1>2, SendHeard
<1>4. OpenFds' = OpenFds
  BY <1>1 DEF OpenFds
<1>5. \A c \in Clients : peer[c] \in {"new", "waiting"} => heard'[c] = <<>>
  BY <1>3 DEF CastInv
<1>6. fd \in fd_to_state /\ \A other \in OpenFds \ fd_to_state : heard'[fdTable[other]] = <<>>
  BY <1>1, <1>3 DEF CastInv
<1>7. ASSUME NEW other \in OpenFds \intersect fd_to_state,
             fdTable[other] \notin missed', peer[fdTable[other]] = "open"
      PROVE  heard'[fdTable[other]] = Due(other)'
  <2>1. heard[fdTable[other]] = Due(other)
    BY <1>3, <1>7 DEF CastInv
  <2>2. CASE other # fd
    <3>1. Due(other)' = Due(other)
      BY <1>1, <2>2 DEF Due, Since
    <3> QED
      BY <1>3, <2>1, <2>2, <3>1
  <2>3. CASE other = fd
    <3>1. Due(fd) = Since(fdTable[fd])
      BY <1>1 DEF Due
    <3>2. Due(fd)' = Append(Since(fdTable[fd]), event.frame.n)
      BY <1>1 DEF Due, Since
    <3> QED
      BY <1>3, <1>7, <2>1, <2>3, <3>1, <3>2
  <2> QED
    BY <2>2, <2>3
<1> QED
  BY <1>1, <1>4, <1>5, <1>6, <1>7 DEF CastInv

\* The end of a broadcast: it counts as one, and everybody in the map has it.
LEMMA UnlockCast == ASSUME Known, CastInv, Sender, SenderUnlock PROVE CastInv'
<1>1. /\ spc = "broadcast" /\ targets = {} /\ targets' = targets /\ spc' = "loop"
      /\ broadcasts' = Append(broadcasts, event.frame.n)
      /\ UNCHANGED <<peer, fdTable, heard, missed, fd_to_state, joined>>
  BY DEF SenderUnlock, Sender
<1>2. event.frame.n \in Nat
  BY <1>1 DEF Known, TypeInv, BusyInv, PublicFrame
<1>3. /\ broadcasts \in Seq(Nat) /\ Len(broadcasts) \in Nat
      /\ Len(broadcasts') = Len(broadcasts) + 1
  BY <1>1, <1>2, CastTypes, AppendProperties, LenProperties
<1>4. OpenFds' = OpenFds
  BY <1>1 DEF OpenFds
<1>5. ASSUME NEW fd \in OpenFds PROVE Due(fd)' = Due(fd)
  <2>1. fdTable[fd] \in Clients /\ joined[fdTable[fd]] \in Nat
    BY CastTypes
  <2>2. joined[fdTable[fd]] <= Len(broadcasts)
    BY <2>1 DEF CastInv
  <2>3. SubSeq(Append(broadcasts, event.frame.n), joined[fdTable[fd]] + 1, Len(broadcasts) + 1)
          = Append(Since(fdTable[fd]), event.frame.n)
    BY <1>2, <1>3, <2>1, <2>2, SinceGrows DEF Since
  <2>4. Due(fd)' = SubSeq(broadcasts', joined[fdTable[fd]] + 1, Len(broadcasts'))
    BY <1>1 DEF Due, Since
  <2>5. Due(fd) = Append(Since(fdTable[fd]), event.frame.n)
    BY <1>1 DEF Due
  <2> QED
    BY <1>1, <1>3, <2>3, <2>4, <2>5
<1>6. \A c \in Clients : joined[c] <= Len(broadcasts')
  BY <1>3, CastTypes DEF CastInv
<1> QED
  BY <1>1, <1>4, <1>5, <1>6 DEF CastInv

\* Steps of the sender thread.
LEMMA SenderCast == ASSUME Known, NetInv, CastInv, Sender PROVE CastInv'
<1>0. UNCHANGED <<peer, fdTable, fd_to_state, joined>>
  BY DEF Sender
<1>1. CASE SenderPop \/ SenderStop
  <2>1. spc # "broadcast" /\ spc' # "broadcast"
    BY <1>1 DEF SenderPop, SenderStop
  <2>2. UNCHANGED <<heard, missed, targets, broadcasts>>
    BY <1>1 DEF SenderPop, SenderStop
  <2>3. OpenFds' = OpenFds /\ \A fd \in OpenFds : Due(fd)' = Due(fd)
    BY <1>0, <2>1, <2>2 DEF OpenFds, Due, Since
  <2> QED
    BY <1>0, <2>1, <2>2, <2>3 DEF CastInv
<1>2. CASE SenderLock
  <2>1. spc # "broadcast" /\ targets' = fd_to_state /\ spc' = "broadcast"
    BY <1>2 DEF SenderLock
  <2>2. UNCHANGED <<heard, missed, broadcasts>>
    BY <1>2 DEF SenderLock
  <2>3. OpenFds' = OpenFds /\ \A fd \in OpenFds \intersect fd_to_state : Due(fd)' = Due(fd)
    BY <1>0, <2>1, <2>2 DEF OpenFds, Due, Since
  <2> QED
    BY <1>0, <2>1, <2>2, <2>3 DEF CastInv
<1>3. CASE SendPrivate
  <2>1. /\ spc = "send" /\ spc' = "loop" /\ SendTo(event.fd, event.frame)
        /\ UNCHANGED <<targets, broadcasts>>
    BY <1>3 DEF SendPrivate
  <2>2. event.fd \in Fds /\ event.frame.kind # "public"
    BY <2>1 DEF Known, TypeInv, BusyInv, PrivateFrame
  <2>3. /\ missed \subseteq missed'
        /\ \A c \in Clients : peer[c] # "open" => heard'[c] = heard[c]
        /\ \A other \in OpenFds \ {event.fd} : heard'[fdTable[other]] = heard[fdTable[other]]
        /\ event.fd \in OpenFds /\ peer[fdTable[event.fd]] = "open"
             /\ fdTable[event.fd] \notin missed'
             => heard'[fdTable[event.fd]] = heard[fdTable[event.fd]]
    BY <2>1, <2>2, SendHeard
  <2>4. OpenFds' = OpenFds /\ \A fd \in OpenFds : Due(fd)' = Due(fd)
    BY <1>0, <2>1 DEF OpenFds, Due, Since
  <2>5. ASSUME NEW fd \in OpenFds, fdTable[fd] \notin missed', peer[fdTable[fd]] = "open"
        PROVE  heard'[fdTable[fd]] = heard[fdTable[fd]]
    BY <2>3, <2>5
  <2>6. \A fd \in OpenFds \ fd_to_state : heard'[fdTable[fd]] = <<>>
    <3>1. UNCHANGED heard
      BY <2>1, <2>2 DEF SendTo, PeerGone, Written, GivenUp
    <3> QED
      BY <3>1 DEF CastInv
  <2> QED
    BY <1>0, <2>1, <2>3, <2>4, <2>5, <2>6 DEF CastInv
<1> QED
  BY <1>1, <1>2, <1>3, BroadcastCast, UnlockCast DEF Sender

\* In every reachable state the broadcasts have come as far as they should.
LEMMA CastInvariant == Spec => []CastInv
<1>1. Init => CastInv
  BY EmptySeq DEF Init, CastInv, OpenFds
<1>2. Known /\ NetInv /\ CastInv /\ [Next]_vars => CastInv'
  BY OutsideCast, KqueueCast, SenderCast DEF Next
<1> QED
  BY <1>1, <1>2, NetInvariant, PTL DEF Spec

\* Between two broadcasts every connected client that keeps up has heard each
\* public event since it entered the map, once and in order, with any number of
\* clients, accepts and ends of connections.
THEOREM BroadcastsReach == Spec => []BroadcastsComplete
<1>1. Known /\ CastInv => BroadcastsComplete
  <2> SUFFICES ASSUME Known, CastInv, spc # "broadcast", NEW c \in Clients \ missed,
                      peer[c] = "open", NEW fd \in fd_to_state, fdTable[fd] = c
               PROVE  heard[c] = Since(c)
    BY DEF BroadcastsComplete, Connected
  <2>1. fd \in OpenFds
    BY ServerAssumption DEF Known, TypeInv, TypeOK, OpenFds
  <2> QED
    BY <2>1 DEF CastInv, Due
<1> QED
  BY <1>1, CastInvariant, NetInvariant, PTL

-----------------------------------------------------------------------------
(***************************************************************************)
(* The order of a client's private events.  The invariant follows a client's*)
(* messages from its socket to MessageSink, and their events from the engine*)
(* to the socket: what is ahead on that way is about earlier messages.     *)
(***************************************************************************)
\* The sequence s is in the order of the relation R, a set of pairs.
Ordered(s, R) == \A i, j \in DOMAIN s : i < j => <<s[i], s[j]>> \in R

NumberOrder == { p \in (1..MaxMessages) \X (1..MaxMessages) : p[1] < p[2] }
MessageOrder == { p \in Message \X Message : p[1].client = p[2].client => p[1].n < p[2].n }

\* An answer comes after what is about earlier messages only.
Before(f, g) == Private(f) /\ g.kind = "answer" /\ f.to = g.to => f.n < g.n
EventOrder == { p \in Event \X Event : Before(p[1].frame, p[2].frame) }
FrameOrder(c) ==
    { p \in (PrivateFrame \union {Cut}) \X (PrivateFrame \union {Cut}) :
        Concerns(p[1], c) => Before(p[1], p[2]) }

\* Every message of c that has not been read, parsed, taken by the engine yet
\* has a number above n.
PastUnread(c, n) == n <= sent[c] /\ \A k \in ToSet(requests[c]) : n < k
PastParsing(c, n) == PastUnread(c, n) /\ \A m \in ToSet(parsing) : m.client = c => n < m.n
Past(c, n) == PastParsing(c, n) /\ \A m \in ToSet(msgSink) : m.client = c => n < m.n

QueueInv ==
    /\ \A c \in Clients : /\ Ordered(requests[c], NumberOrder)
                          /\ \A k \in ToSet(requests[c]) : k <= sent[c]
    /\ Ordered(parsing, MessageOrder)
    /\ \A m \in ToSet(parsing) : PastUnread(m.client, m.n)
    /\ Ordered(msgSink, MessageOrder)
    /\ \A m \in ToSet(msgSink) : PastParsing(m.client, m.n)

\* What is past stays so.
PastStays == \A c \in Clients, n \in 1..MaxMessages : Past(c, n) => Past(c, n)'

-----------------------------------------------------------------------------
(***************************************************************************)
(* Sequences in order: taking the head, and adding at the end.             *)
(***************************************************************************)
\* The elements of a sequence.
LEMMA InSeq == ASSUME NEW S, NEW s \in Seq(S) PROVE ToSet(s) \subseteq S
BY DEF ToSet

\* What is at an index of a sequence.
LEMMA AtIndex ==
  ASSUME NEW S, NEW s \in Seq(S) PROVE \A i \in DOMAIN s : s[i] \in S /\ s[i] \in ToSet(s)
BY DEF ToSet

\* The empty sequence is in any order.
LEMMA EmptyOrdered == ASSUME NEW R PROVE ToSet(<<>>) = {} /\ Ordered(<<>>, R)
BY DEF ToSet, Ordered

\* The head comes before the rest, which is still in order.
LEMMA HeadOrder ==
  ASSUME NEW S, NEW R, NEW s \in Seq(S), s # <<>>, Ordered(s, R)
  PROVE  /\ Head(s) \in ToSet(s) /\ ToSet(Tail(s)) \subseteq ToSet(s)
         /\ Ordered(Tail(s), R)
         /\ \A y \in ToSet(Tail(s)) : <<Head(s), y>> \in R
<1> DEFINE t == Tail(s)
<1>1. /\ Head(s) = s[1] /\ t \in Seq(S) /\ Len(t) = Len(s) - 1
      /\ \A i \in 1..Len(t) : t[i] = s[i + 1]
  BY HeadTailProperties
<1>2. Len(s) \in Nat \ {0} /\ DOMAIN s = 1..Len(s) /\ DOMAIN t = 1..Len(t)
  BY <1>1, LenProperties, EmptySeq
<1> HIDE DEF t
<1>3. \A i \in DOMAIN t : t[i] = s[i + 1] /\ i + 1 \in DOMAIN s /\ 1 < i + 1
  BY <1>1, <1>2
<1>4. ToSet(t) \subseteq ToSet(s)
  BY <1>3 DEF ToSet
<1>5. 1 \in DOMAIN s
  BY <1>2
<1>6. \A y \in ToSet(t) : <<Head(s), y>> \in R
  BY <1>1, <1>3, <1>5 DEF ToSet, Ordered
<1>7. ASSUME NEW i \in DOMAIN t, NEW j \in DOMAIN t, i < j PROVE <<t[i], t[j]>> \in R
  <2>1. i + 1 < j + 1
    BY <1>2, <1>7
  <2> QED
    BY <1>3, <2>1 DEF Ordered
<1>8. Head(s) \in ToSet(s)
  BY <1>1, <1>5 DEF ToSet
<1>9. Ordered(t, R)
  BY <1>7 DEF Ordered
<1> QED
  BY <1>4, <1>6, <1>8, <1>9 DEF t

\* Order is kept by appending what comes after all there is.
LEMMA AppendOrder ==
  ASSUME NEW S, NEW R, NEW s \in Seq(S), NEW x \in S
  PROVE  /\ ToSet(Append(s, x)) = ToSet(s) \union {x}
         /\ Ordered(s, R) /\ (\A y \in ToSet(s) : <<y, x>> \in R) => Ordered(Append(s, x), R)
<1> DEFINE t == Append(s, x)
<1>1. /\ t \in Seq(S) /\ Len(t) = Len(s) + 1
      /\ \A i \in 1..Len(s) : t[i] = s[i]
      /\ t[Len(s) + 1] = x
  BY AppendProperties
<1>2. /\ Len(s) \in Nat /\ DOMAIN s = 1..Len(s)
      /\ DOMAIN t = 1..(Len(s) + 1)
  BY <1>1, LenProperties
<1> HIDE DEF t
<1>3. /\ \A i \in DOMAIN s : i \in DOMAIN t /\ t[i] = s[i]
      /\ \A i \in DOMAIN t : i \in DOMAIN s \/ i = Len(s) + 1
      /\ Len(s) + 1 \in DOMAIN t
  BY <1>1, <1>2
<1>4. ToSet(t) = ToSet(s) \union {x}
  <2>1. \A y \in ToSet(t) : y \in ToSet(s) \union {x}
    BY <1>1, <1>3 DEF ToSet
  <2>2. \A y \in ToSet(s) \union {x} : y \in ToSet(t)
    BY <1>1, <1>3 DEF ToSet
  <2> QED
    BY <2>1, <2>2
<1>5. ASSUME Ordered(s, R), \A y \in ToSet(s) : <<y, x>> \in R,
             NEW i \in DOMAIN t, NEW j \in DOMAIN t, i < j
      PROVE  <<t[i], t[j]>> \in R
  <2>1. i \in DOMAIN s /\ t[i] = s[i]
    BY <1>2, <1>3, <1>5
  <2>2. CASE j \in DOMAIN s
    BY <1>3, <1>5, <2>1, <2>2 DEF Ordered
  <2>3. CASE j = Len(s) + 1
    BY <1>1, <1>5, <2>1, <2>3 DEF ToSet
  <2> QED
    BY <1>3, <2>2, <2>3
<1>6. Ordered(s, R) /\ (\A y \in ToSet(s) : <<y, x>> \in R) => Ordered(t, R)
  BY <1>5 DEF Ordered
<1> QED
  BY <1>4, <1>6 DEF t

\* What a wakeup leaves of a sequence comes after what it has read.
LEMMA SplitOrder ==
  ASSUME NEW S, NEW s \in Seq(S), NEW R, NEW k \in Nat, k <= Len(s)
  PROVE  LET t == SubSeq(s, k + 1, Len(s))
         IN  /\ ToSet(s) = ToSet(t) \union { s[i] : i \in 1..k }
             /\ Ordered(s, R) =>
                  Ordered(t, R) /\ \A i \in 1..k, y \in ToSet(t) : <<s[i], y>> \in R
<1> DEFINE t == SubSeq(s, k + 1, Len(s))
<1>1. /\ Len(s) \in Nat /\ DOMAIN s = 1..Len(s)
      /\ Len(t) = Len(s) - k /\ DOMAIN t = 1..(Len(s) - k)
      /\ \A i \in 1..Len(s) - k : t[i] = s[k + i]
  BY ReadSplit, LenProperties
<1> HIDE DEF t
<1>2. /\ \A i \in DOMAIN t : k + i \in DOMAIN s /\ t[i] = s[k + i] /\ i \in Nat
      /\ \A i \in DOMAIN s : i \in 1..k \/ (i - k \in DOMAIN t /\ t[i - k] = s[i])
      /\ \A i \in 1..k : i \in DOMAIN s
  BY <1>1
<1>3. ToSet(s) = ToSet(t) \union { s[i] : i \in 1..k }
  <2>1. \A y \in ToSet(s) : y \in ToSet(t) \union { s[i] : i \in 1..k }
    BY <1>2 DEF ToSet
  <2>2. \A y \in ToSet(t) \union { s[i] : i \in 1..k } : y \in ToSet(s)
    BY <1>2 DEF ToSet
  <2> QED
    BY <2>1, <2>2
<1>4. ASSUME Ordered(s, R)
      PROVE  Ordered(t, R) /\ \A i \in 1..k, y \in ToSet(t) : <<s[i], y>> \in R
  <2>1. ASSUME NEW i \in DOMAIN t, NEW j \in DOMAIN t, i < j PROVE <<t[i], t[j]>> \in R
    <3>1. k + i < k + j /\ k + i \in DOMAIN s /\ k + j \in DOMAIN s
      BY <1>2, <2>1
    <3> QED
      BY <1>2, <1>4, <2>1, <3>1 DEF Ordered
  <2>2. ASSUME NEW i \in 1..k, NEW j \in DOMAIN t PROVE <<s[i], t[j]>> \in R
    <3>1. i < k + j /\ i \in DOMAIN s /\ k + j \in DOMAIN s
      BY <1>1, <1>2
    <3> QED
      BY <1>2, <1>4, <3>1 DEF Ordered
  <2> QED
    BY <2>1, <2>2 DEF Ordered, ToSet
<1> QED
  BY <1>3, <1>4 DEF t

\* The types this proof uses.
LEMMA OrderTypes ==
  ASSUME TypeInv
  PROVE  /\ requests \in [Clients -> Seq(1..MaxMessages)]
         /\ sent \in [Clients -> 0..MaxMessages]
         /\ parsing \in Seq(Message) /\ msgSink \in Seq(Message) /\ resting \subseteq Message
         /\ pending \in Seq(Event) /\ eventSink \in Seq(Event) /\ published \in Nat
         /\ delivered \in [Clients -> Seq(PrivateFrame \union {Cut})]
         /\ fdTable \in [Fds -> Clients \union {Nobody}]
         /\ ToSet(parsing) \subseteq Message /\ ToSet(msgSink) \subseteq Message
         /\ ToSet(pending) \subseteq Event /\ ToSet(eventSink) \subseteq Event
         /\ \A m \in Message : m.client \in Clients /\ m.n \in 1..MaxMessages /\ m.fd \in Fds
         /\ MaxMessages \in Nat
<1>1. /\ requests \in [Clients -> Seq(1..MaxMessages)]
      /\ sent \in [Clients -> 0..MaxMessages]
      /\ parsing \in Seq(Message) /\ msgSink \in Seq(Message) /\ resting \subseteq Message
      /\ pending \in Seq(Event) /\ eventSink \in Seq(Event) /\ published \in Nat
      /\ delivered \in [Clients -> Seq(PrivateFrame \union {Cut})]
      /\ fdTable \in [Fds -> Clients \union {Nobody}]
  BY DEF TypeInv, TypeOK
<1>2. \A m \in Message : m.client \in Clients /\ m.n \in 1..MaxMessages /\ m.fd \in Fds
  BY DEF Message
<1> QED
  BY <1>1, <1>2, InSeq, ServerAssumption

-----------------------------------------------------------------------------
(***************************************************************************)
(* The messages, from the socket to the engine.                            *)
(***************************************************************************)
UnreadStays == \A c \in Clients, n \in 1..MaxMessages : PastUnread(c, n) => PastUnread(c, n)'

\* Pairs in the order of the messages, and of their numbers.
LEMMA MessageOrderIs ==
  /\ \A m, o \in Message : <<m, o>> \in MessageOrder <=> (m.client = o.client => m.n < o.n)
  /\ \A k, n \in 1..MaxMessages : <<k, n>> \in NumberOrder <=> k < n
BY DEF MessageOrder, NumberOrder

\* A step that moves nothing on.
LEMMA StillQueue ==
  ASSUME TypeInv, QueueInv, UNCHANGED <<parsing, msgSink>>, UnreadStays,
         \A c \in Clients : /\ Ordered(requests'[c], NumberOrder)
                            /\ \A k \in ToSet(requests'[c]) : k <= sent'[c]
  PROVE  QueueInv' /\ PastStays
<1>1. \A c \in Clients, n \in 1..MaxMessages : PastParsing(c, n) => PastParsing(c, n)'
  BY DEF UnreadStays, PastParsing
<1>2. PastStays
  BY <1>1 DEF PastStays, Past
<1>3. \A m \in ToSet(parsing) : PastUnread(m.client, m.n)'
  BY OrderTypes DEF QueueInv, UnreadStays
<1>4. \A m \in ToSet(msgSink) : PastParsing(m.client, m.n)'
  BY <1>1, OrderTypes DEF QueueInv
<1>5. /\ \A m \in ToSet(parsing') : PastUnread(m.client, m.n)'
      /\ \A m \in ToSet(msgSink') : PastParsing(m.client, m.n)'
      /\ Ordered(parsing', MessageOrder) /\ Ordered(msgSink', MessageOrder)
  BY <1>3, <1>4 DEF QueueInv
<1> QED
  BY <1>2, <1>5 DEF QueueInv

\* A client numbers its messages upwards.
LEMMA SendQueue ==
  ASSUME TypeInv, QueueInv, UNCHANGED <<parsing, msgSink>>, NEW c \in Clients, Send(c)
  PROVE  QueueInv' /\ PastStays
<1> DEFINE n == sent[c] + 1
<1>1. /\ sent' = [sent EXCEPT ![c] = n] /\ sent[c] < MaxMessages
      /\ requests' = [requests EXCEPT ![c] = Append(requests[c], n)]
  BY DEF Send
<1>2. sent[c] \in Nat /\ n \in 1..MaxMessages
  BY <1>1, OrderTypes
<1> HIDE DEF n
<1>3. /\ requests'[c] = Append(requests[c], n) /\ sent'[c] = n
      /\ \A d \in Clients \ {c} : requests'[d] = requests[d] /\ sent'[d] = sent[d]
  BY <1>1, OrderTypes
<1>4. requests[c] \in Seq(1..MaxMessages) /\ ToSet(requests[c]) \subseteq 1..MaxMessages
  BY OrderTypes, InSeq
<1>5. \A k \in ToSet(requests[c]) : k <= sent[c] /\ k < n
  <2>1. \A k \in ToSet(requests[c]) : k <= sent[c]
    BY DEF QueueInv
  <2> QED
    BY <1>2, <1>4, <2>1 DEF n
<1>6. \A k \in ToSet(requests[c]) : <<k, n>> \in NumberOrder
  BY <1>2, <1>4, <1>5, MessageOrderIs
<1>7. /\ ToSet(requests'[c]) = ToSet(requests[c]) \union {n}
      /\ Ordered(requests'[c], NumberOrder)
  <2>1. Ordered(requests[c], NumberOrder)
    BY DEF QueueInv
  <2>0. PICK S : S = 1..MaxMessages
    OBVIOUS
  <2>2. PICK r \in Seq(S) : r = requests[c]
    BY <1>4, <2>0
  <2>3. Ordered(r, NumberOrder) /\ \A k \in ToSet(r) : <<k, n>> \in NumberOrder
    BY <1>6, <2>1, <2>2
  <2>4. n \in S
    BY <1>2, <2>0
  <2>5. ToSet(Append(r, n)) = ToSet(r) \union {n} /\ Ordered(Append(r, n), NumberOrder)
    BY <2>3, <2>4, AppendOrder
  <2> QED
    BY <1>3, <2>2, <2>5
<1>8. ASSUME NEW d \in Clients
      PROVE  /\ Ordered(requests'[d], NumberOrder)
             /\ \A k \in ToSet(requests'[d]) : k <= sent'[d]
  <2>1. CASE d = c
    <3>1. \A k \in ToSet(requests[c]) \union {n} : k <= n
      BY <1>2, <1>4, <1>5
    <3> QED
      BY <1>3, <1>7, <2>1, <3>1
  <2>2. CASE d # c
    BY <1>3, <2>2 DEF QueueInv
  <2> QED
    BY <2>1, <2>2
<1>9. ASSUME NEW d \in Clients, NEW k \in 1..MaxMessages, PastUnread(d, k)
      PROVE  PastUnread(d, k)'
  <2>1. CASE d = c
    <3>1. k < n /\ k <= n
      BY <1>2, <1>9, <2>1 DEF PastUnread, n
    <3>2. \A i \in ToSet(requests[c]) \union {n} : k < i
      BY <1>9, <2>1, <3>1 DEF PastUnread
    <3> QED
      BY <1>3, <1>7, <2>1, <3>1, <3>2 DEF PastUnread
  <2>2. CASE d # c
    BY <1>3, <1>9, <2>2 DEF PastUnread
  <2> QED
    BY <2>1, <2>2
<1> QED
  BY <1>8, <1>9, StillQueue DEF UnreadStays

\* What a client that has left had sent is thrown away.
LEMMA CloseQueue ==
  ASSUME TypeInv, QueueInv, NEW fd \in Fds, KqClose(fd)
  PROVE  QueueInv' /\ PastStays
<1>1. /\ requests' = [requests EXCEPT ![fdTable[fd]] = <<>>]
      /\ UNCHANGED <<sent, parsing, msgSink>>
  BY DEF KqClose
<1>2. \A c \in Clients : requests'[c] = requests[c] \/ requests'[c] = <<>>
  BY <1>1, OrderTypes
<1>3. \A c \in Clients : /\ Ordered(requests'[c], NumberOrder)
                         /\ ToSet(requests'[c]) \subseteq ToSet(requests[c])
  BY <1>2, EmptyOrdered DEF QueueInv
<1>4. \A c \in Clients : \A k \in ToSet(requests'[c]) : k <= sent'[c]
  BY <1>1, <1>3 DEF QueueInv
<1>5. UnreadStays
  BY <1>1, <1>3 DEF UnreadStays, PastUnread
<1> QED
  BY <1>1, <1>3, <1>4, <1>5, StillQueue

\* A wakeup takes the first of what a client has sent, in that order.
LEMMA ReadQueue ==
  ASSUME TypeInv, QueueInv, NEW fd \in Fds, NEW k \in 0..MaxMessages, KqRead(fd, k)
  PROVE  QueueInv' /\ PastStays
<1>0. fdTable[fd] \in Clients
  BY OrderTypes DEF KqRead, OpenFds
<1> PICK c \in Clients : c = fdTable[fd]
  BY <1>0
<1> PICK S : S = 1..MaxMessages
  OBVIOUS
<1> PICK old \in Seq(S) : old = requests[c]
  BY OrderTypes
<1> PICK rest : rest = SubSeq(old, k + 1, Len(old))
  OBVIOUS
<1>1. k \in Nat /\ k <= Len(old)
  BY OrderTypes DEF KqRead
<1>2. /\ requests' = [requests EXCEPT ![c] = rest]
      /\ parsing' = [i \in 1..k |-> Stamp(fd, old[i])]
      /\ UNCHANGED <<sent, msgSink>>
  BY DEF KqRead
<1>3. /\ ToSet(old) = ToSet(rest) \union { old[i] : i \in 1..k }
      /\ Ordered(old, NumberOrder) /\ Ordered(rest, NumberOrder)
      /\ \A i \in 1..k, y \in ToSet(rest) : <<old[i], y>> \in NumberOrder
  <2>1. Ordered(old, NumberOrder)
    BY DEF QueueInv
  <2> QED
    BY <1>1, <2>1, SplitOrder
<1>4. \A i \in 1..k : /\ old[i] \in 1..MaxMessages /\ old[i] \in ToSet(old)
                      /\ Stamp(fd, old[i]) \in Message
                      /\ Stamp(fd, old[i]).client = c /\ Stamp(fd, old[i]).n = old[i]
                      /\ i \in DOMAIN old
  <2>1. \A i \in 1..k : i \in DOMAIN old
    BY <1>1, LenProperties
  <2>2. \A i \in DOMAIN old : old[i] \in 1..MaxMessages /\ old[i] \in ToSet(old)
    BY AtIndex
  <2>3. \A n \in 1..MaxMessages : /\ Stamp(fd, n) \in Message
                                  /\ Stamp(fd, n).client = fdTable[fd] /\ Stamp(fd, n).n = n
    BY <1>0 DEF Stamp, Message
  <2> QED
    BY <2>1, <2>2, <2>3
<1>5. /\ ToSet(old) \subseteq 1..MaxMessages /\ ToSet(rest) \subseteq 1..MaxMessages
      /\ \A n \in ToSet(old) : n <= sent[c]
  BY <1>3, InSeq DEF QueueInv
<1>6. \A m \in ToSet(parsing') : /\ m \in Message /\ m.client = c
                                 /\ m.n \in ToSet(old) /\ m.n \in 1..MaxMessages
                                 /\ \A y \in ToSet(rest) : m.n < y
  <2>1. \A i \in 1..k, y \in ToSet(rest) : old[i] < y
    BY <1>3, <1>4, <1>5, MessageOrderIs
  <2> QED
    BY <1>2, <1>4, <2>1 DEF ToSet
<1>7. Ordered(parsing', MessageOrder)
  <2> SUFFICES ASSUME NEW i \in 1..k, NEW j \in 1..k, i < j
               PROVE  <<Stamp(fd, old[i]), Stamp(fd, old[j])>> \in MessageOrder
    BY <1>2 DEF Ordered
  <2>1. old[i] < old[j]
    BY <1>3, <1>4, MessageOrderIs DEF Ordered
  <2> QED
    BY <1>4, <2>1, MessageOrderIs
<1>8. /\ requests'[c] = rest
      /\ \A d \in Clients \ {c} : requests'[d] = requests[d]
  BY <1>2, OrderTypes
<1>9. \A d \in Clients : /\ Ordered(requests'[d], NumberOrder)
                         /\ ToSet(requests'[d]) \subseteq ToSet(requests[d])
                         /\ \A n \in ToSet(requests'[d]) : n <= sent'[d]
  BY <1>2, <1>3, <1>8 DEF QueueInv
<1>10. \A m \in ToSet(parsing') : PastUnread(m.client, m.n)'
  BY <1>2, <1>5, <1>6, <1>8 DEF PastUnread
<1>11. ASSUME NEW d \in Clients, NEW n \in 1..MaxMessages, PastUnread(d, n)
       PROVE  PastParsing(d, n)'
  <2>1. PastUnread(d, n)'
    BY <1>2, <1>9, <1>11 DEF PastUnread
  <2>2. \A m \in ToSet(parsing') : m.client = d => n < m.n
    BY <1>6, <1>11 DEF PastUnread
  <2> QED
    BY <2>1, <2>2 DEF PastParsing
<1>12. \A m \in ToSet(msgSink') : PastParsing(m.client, m.n)'
  BY <1>2, <1>11, OrderTypes DEF QueueInv, PastParsing
<1>13. PastStays
  BY <1>2, <1>11 DEF PastStays, Past, PastParsing
<1> QED
  BY <1>2, <1>7, <1>9, <1>10, <1>12, <1>13 DEF QueueInv

\* A parsed message goes behind those already in MessageSink, or is dropped.
LEMMA PushQueue == ASSUME TypeInv, QueueInv, KqPush PROVE QueueInv' /\ PastStays
<1> PICK h : h = Head(parsing)
  OBVIOUS
<1>1. parsing # <<>> /\ Ordered(parsing, MessageOrder)
  BY DEF KqPush, TypeInv, BusyInv, QueueInv
<1>2. /\ parsing' = Tail(parsing) /\ msgSink' \in {msgSink, Append(msgSink, h)}
      /\ UNCHANGED <<sent, requests>>
  BY DEF KqPush, network
<1>3. /\ h \in ToSet(parsing) /\ ToSet(Tail(parsing)) \subseteq ToSet(parsing)
      /\ Ordered(Tail(parsing), MessageOrder)
      /\ \A m \in ToSet(Tail(parsing)) : <<h, m>> \in MessageOrder
  BY <1>1, OrderTypes, HeadOrder
<1>4. h \in Message /\ h.client \in Clients /\ h.n \in 1..MaxMessages
  BY <1>3, OrderTypes
<1>5. ASSUME NEW c \in Clients, NEW n \in 1..MaxMessages, PastParsing(c, n)
      PROVE  PastParsing(c, n)'
  BY <1>2, <1>3, <1>5 DEF PastParsing, PastUnread
<1>6. PastParsing(h.client, h.n)'
  <2>1. PastUnread(h.client, h.n)'
    BY <1>2, <1>3 DEF QueueInv, PastUnread
  <2>2. \A m \in ToSet(Tail(parsing)) : h.client = m.client => h.n < m.n
    BY <1>3, <1>4, OrderTypes, MessageOrderIs
  <2> QED
    BY <1>2, <2>1, <2>2 DEF PastParsing
<1>7. /\ ToSet(Append(msgSink, h)) = ToSet(msgSink) \union {h}
      /\ Ordered(Append(msgSink, h), MessageOrder)
  <2>1. \A m \in ToSet(msgSink) : m.client = h.client => m.n < h.n
    BY <1>3, <1>4 DEF QueueInv, PastParsing
  <2>2. \A m \in ToSet(msgSink) : <<m, h>> \in MessageOrder
    BY <1>4, <2>1, OrderTypes, MessageOrderIs
  <2> QED
    BY <1>4, <2>2, OrderTypes, AppendOrder DEF QueueInv
<1>8. ToSet(msgSink') \subseteq ToSet(msgSink) \union {h} /\ Ordered(msgSink', MessageOrder)
  BY <1>2, <1>7 DEF QueueInv
<1>9. \A m \in ToSet(msgSink') : PastParsing(m.client, m.n)'
  BY <1>5, <1>6, <1>8, OrderTypes DEF QueueInv
<1>10. \A m \in ToSet(parsing') : PastUnread(m.client, m.n)'
  BY <1>2, <1>3 DEF QueueInv, PastUnread
<1>11. PastStays
  <2> SUFFICES ASSUME NEW c \in Clients, NEW n \in 1..MaxMessages, Past(c, n) PROVE Past(c, n)'
    BY DEF PastStays
  <2>1. h.client = c => n < h.n
    BY <1>3 DEF Past, PastParsing
  <2>2. \A m \in ToSet(msgSink') : m.client = c => n < m.n
    BY <1>8, <2>1 DEF Past
  <2> QED
    BY <1>5, <2>2 DEF Past
<1>12. \A c \in Clients : /\ Ordered(requests'[c], NumberOrder)
                          /\ \A k \in ToSet(requests'[c]) : k <= sent'[c]
  BY <1>2 DEF QueueInv
<1> QED
  BY <1>2, <1>3, <1>8, <1>9, <1>10, <1>11, <1>12 DEF QueueInv

\* The engine takes the oldest message: those left are later ones of its client.
LEMMA PopQueue ==
  ASSUME TypeInv, QueueInv, msgSink # <<>>, msgSink' = Tail(msgSink),
         NEW h, h = Head(msgSink), UNCHANGED <<sent, requests, parsing>>
  PROVE  /\ QueueInv' /\ PastStays
         /\ h \in Message /\ h \in ToSet(msgSink)
         /\ Past(h.client, h.n)'
<1>1. /\ h \in ToSet(msgSink) /\ ToSet(Tail(msgSink)) \subseteq ToSet(msgSink)
      /\ Ordered(Tail(msgSink), MessageOrder)
      /\ \A m \in ToSet(Tail(msgSink)) : <<h, m>> \in MessageOrder
  BY OrderTypes, HeadOrder DEF QueueInv
<1>2. \A c \in Clients, n \in 1..MaxMessages : PastParsing(c, n) => PastParsing(c, n)'
  BY DEF PastParsing, PastUnread
<1>3. PastStays
  BY <1>1, <1>2 DEF PastStays, Past
<1>4. /\ h \in Message /\ h.client \in Clients /\ h.n \in 1..MaxMessages
      /\ ToSet(msgSink) \subseteq Message
  BY <1>1, OrderTypes
<1>5. PastParsing(h.client, h.n)'
  BY <1>1, <1>2, <1>4 DEF QueueInv
<1>6. \A m \in ToSet(Tail(msgSink)) : h.client = m.client => h.n < m.n
  BY <1>1, <1>4, MessageOrderIs
<1>7. Past(h.client, h.n)'
  BY <1>5, <1>6 DEF Past
<1>8. \A m \in ToSet(msgSink') : PastParsing(m.client, m.n)'
  BY <1>1, <1>2, OrderTypes DEF QueueInv
<1>9. /\ \A c \in Clients : /\ Ordered(requests'[c], NumberOrder)
                            /\ \A k \in ToSet(requests'[c]) : k <= sent'[c]
      /\ \A m \in ToSet(parsing') : PastUnread(m.client, m.n)'
      /\ Ordered(parsing', MessageOrder)
  BY DEF QueueInv, PastUnread
<1>10. QueueInv'
  BY <1>1, <1>8, <1>9 DEF QueueInv
<1> QED
  BY <1>1, <1>3, <1>4, <1>7, <1>10

\* Steps of the kqueue thread.
LEMMA KqueueQueue == ASSUME TypeInv, QueueInv, Kqueue PROVE QueueInv' /\ PastStays
<1>1. CASE UNCHANGED <<sent, requests, parsing, msgSink>>
  <2>1. UnreadStays
    BY <1>1 DEF UnreadStays, PastUnread
  <2>2. \A c \in Clients : /\ Ordered(requests'[c], NumberOrder)
                           /\ \A k \in ToSet(requests'[c]) : k <= sent'[c]
    BY <1>1 DEF QueueInv
  <2> QED
    BY <1>1, <2>1, <2>2, StillQueue
<1>2. ASSUME \/ KqWait \/ KqAcceptFails \/ KqTest \/ KqLock \/ KqInsert \/ KqErase \/ KqClear
             \/ \E fd \in Fds : \E c \in Clients : KqAccept(c, fd)
      PROVE  UNCHANGED <<sent, requests, parsing, msgSink>>
  BY <1>2 DEF KqWait, KqAcceptFails, KqTest, KqLock, KqInsert, KqErase, KqClear, KqAccept, network
<1> QED
  BY <1>1, <1>2, ReadQueue, CloseQueue, PushQueue DEF Kqueue

\* Steps of everybody but the kqueue thread, the engine's pop apart.
LEMMA OtherQueue ==
  ASSUME TypeInv, QueueInv, Outside \/ Stop \/ Sender \/ UNCHANGED vars
  PROVE  QueueInv' /\ PastStays
<1>1. ASSUME UNCHANGED <<sent, requests, parsing, msgSink>> PROVE QueueInv' /\ PastStays
  <2>1. UnreadStays
    BY <1>1 DEF UnreadStays, PastUnread
  <2>2. \A c \in Clients : /\ Ordered(requests'[c], NumberOrder)
                           /\ \A k \in ToSet(requests'[c]) : k <= sent'[c]
    BY <1>1 DEF QueueInv
  <2> QED
    BY <1>1, <2>1, <2>2, StillQueue
<1>2. CASE Outside
  <2>1. UNCHANGED <<parsing, msgSink>>
    BY <1>2 DEF Outside, kqueueVars
  <2>2. PICK c \in Clients : Connect(c) \/ Send(c) \/ Leave(c)
    BY <1>2 DEF Outside
  <2>3. CASE Send(c)
    BY <2>1, <2>3, SendQueue
  <2>4. CASE Connect(c) \/ Leave(c)
    BY <1>1, <2>1, <2>4 DEF Connect, Leave
  <2> QED
    BY <2>2, <2>3, <2>4
<1>3. CASE Stop \/ Sender \/ UNCHANGED vars
  BY <1>1, <1>3 DEF Stop, Sender, vars, network, kqueueVars
<1> QED
  BY <1>2, <1>3

-----------------------------------------------------------------------------
(***************************************************************************)
(* The events, from the engine to the clients.                             *)
(***************************************************************************)
\* The message that f is about has been taken by the engine, and none that is
\* still to be taken is earlier.
Behind(f) == Private(f) => Past(f.to, f.n)

\* The answer the engine owes, once the message at work is done.
Announced == IF epc \in Working THEN {Answer(taken)} ELSE {}

\* No answer that is still to come or on its way comes too late for f.
Ahead(f) ==
    /\ Behind(f)
    /\ \A g \in ToSet(eventSink) \union ToSet(pending) : Before(f, g.frame)
    /\ \A a \in Announced : Before(f, a)

\* The orders the engine may report on meanwhile are earlier than its message.
WorkInv ==
    epc \in Working =>
        /\ Past(taken.client, taken.n) /\ Past(order.client, order.n)
        /\ \A r \in resting : Before(Fill(r), Answer(taken))

OrderInv ==
    /\ \A m \in resting : Past(m.client, m.n)
    /\ WorkInv
    /\ Ordered(pending, EventOrder) /\ Ordered(eventSink, EventOrder)
    /\ \A e \in ToSet(pending) : /\ Behind(e.frame)
                                 /\ \A a \in Announced : Before(e.frame, a)
    /\ \A e \in ToSet(eventSink) : /\ Behind(e.frame)
                                   /\ \A g \in ToSet(pending) : Before(e.frame, g.frame)
                                   /\ \A a \in Announced : Before(e.frame, a)
    /\ spc = "send" => Ahead(event.frame)
    /\ \A c \in Clients : /\ Ordered(delivered[c], FrameOrder(c))
                          /\ \A f \in ToSet(delivered[c]) :
                               Concerns(f, c) => /\ Ahead(f)
                                                 /\ spc = "send" => Before(f, event.frame)

\* What the frames of events and clients are.
LEMMA PrivateTypes ==
  /\ \A e \in Event : Private(e.frame) => e.frame \in PrivateFrame
  /\ \A f \in PrivateFrame \union {Cut} : Private(f) => f \in PrivateFrame
  /\ \A f \in PrivateFrame : f.to \in Clients /\ f.n \in 1..MaxMessages
  /\ \A d, e \in Event : <<d, e>> \in EventOrder <=> Before(d.frame, e.frame)
  /\ \A c \in Clients : \A f, g \in PrivateFrame \union {Cut} :
       <<f, g>> \in FrameOrder(c) <=> (Concerns(f, c) => Before(f, g))
<1>1. \A e \in Event : Private(e.frame) => e.frame \in PrivateFrame
  BY DEF Event, Private, PublicFrame
<1>2. \A f \in PrivateFrame \union {Cut} : Private(f) => f \in PrivateFrame
  BY DEF Private, Cut
<1>3. \A f \in PrivateFrame : f.to \in Clients /\ f.n \in 1..MaxMessages
  BY DEF PrivateFrame
<1>4. \A d, e \in Event : <<d, e>> \in EventOrder <=> Before(d.frame, e.frame)
  BY DEF EventOrder
<1>5. \A c \in Clients : \A f, g \in PrivateFrame \union {Cut} :
        <<f, g>> \in FrameOrder(c) <=> (Concerns(f, c) => Before(f, g))
  BY DEF FrameOrder
<1> QED
  BY <1>1, <1>2, <1>3, <1>4, <1>5

\* What is behind stays so.
LEMMA BehindStays ==
  ASSUME PastStays
  PROVE  /\ \A e \in Event : Behind(e.frame) => Behind(e.frame)'
         /\ \A f \in PrivateFrame \union {Cut} : Behind(f) => Behind(f)'
BY PrivateTypes DEF Behind, PastStays

\* The frames of events on their way, in hand and written.
LEMMA FramesAre ==
  ASSUME TypeInv
  PROVE  /\ spc = "send" => event \in Event /\ event.frame \in PrivateFrame
         /\ \A c \in Clients : ToSet(delivered[c]) \subseteq PrivateFrame \union {Cut}
<1>1. spc = "send" => event \in [fd : Fds, frame : PrivateFrame]
  BY DEF TypeInv, BusyInv
<1>2. \A c \in Clients : delivered[c] \in Seq(PrivateFrame \union {Cut})
  BY OrderTypes
<1> QED
  BY <1>1, <1>2, InSeq DEF Event

\* Steps that leave the events and the resting orders alone.
LEMMA QuietOrder ==
  ASSUME TypeInv, OrderInv, PastStays, Announced' = Announced, epc' \in Working => epc \in Working,
         UNCHANGED <<taken, order, resting, pending, eventSink, spc, event, delivered>>
  PROVE  OrderInv'
<1>1. /\ \A m \in resting : Past(m.client, m.n)'
      /\ epc \in Working => Past(taken.client, taken.n)' /\ Past(order.client, order.n)'
  BY OrderTypes DEF OrderInv, WorkInv, PastStays, TypeInv, BusyInv
<1>2. WorkInv'
  BY <1>1 DEF OrderInv, WorkInv
<1>3. /\ \A e \in ToSet(pending) : Behind(e.frame)'
      /\ \A e \in ToSet(eventSink) : Behind(e.frame)'
  BY OrderTypes, BehindStays DEF OrderInv
<1>4. ASSUME NEW f \in PrivateFrame \union {Cut}, Ahead(f) PROVE Ahead(f)'
  BY <1>4, BehindStays DEF Ahead
<1>5. ASSUME spc = "send" PROVE Ahead(event.frame)'
  <2>1. PICK f \in PrivateFrame : f = event.frame
    BY <1>5, FramesAre
  <2>2. Ahead(f)'
    BY <1>4, <1>5, <2>1 DEF OrderInv
  <2>3. event'.frame = f
    BY <2>1
  <2> QED
    BY <2>2, <2>3 DEF Ahead
<1>6. ASSUME NEW c \in Clients, NEW f \in ToSet(delivered[c]), Concerns(f, c) PROVE Ahead(f)'
  <2>1. Ahead(f)
    BY <1>6 DEF OrderInv
  <2>2. f \in PrivateFrame \union {Cut}
    BY FramesAre
  <2> QED
    BY <1>4, <2>1, <2>2
<1> QED
  BY <1>1, <1>2, <1>3, <1>5, <1>6 DEF OrderInv

\* The engine makes events: they and the answer it then owes may come after all
\* that is behind and not after an answer it owes already.
LEMMA EmitOrder ==
  ASSUME TypeInv, OrderInv, PastStays, WorkInv', UNCHANGED <<eventSink, spc, event, delivered>>,
         \A m \in resting' : Past(m.client, m.n)',
         Ordered(pending', EventOrder),
         \A e \in ToSet(pending') : /\ Behind(e.frame)'
                                    /\ \A a \in Announced' : Before(e.frame, a),
         \A f \in PrivateFrame \union {Cut} :
           Behind(f) /\ (\A a \in Announced : Before(f, a))
           => /\ \A g \in ToSet(pending') : Before(f, g.frame)
              /\ \A a \in Announced' : Before(f, a)
  PROVE  OrderInv'
<1>1. ASSUME NEW f \in PrivateFrame \union {Cut}, Ahead(f) PROVE Ahead(f)'
  <2>1. Behind(f)'
    BY <1>1, BehindStays DEF Ahead
  <2>2. \A g \in ToSet(eventSink) : Before(f, g.frame)
    BY <1>1 DEF Ahead
  <2>3. /\ \A g \in ToSet(pending') : Before(f, g.frame)
        /\ \A a \in Announced' : Before(f, a)
    BY <1>1 DEF Ahead
  <2> QED
    BY <2>1, <2>2, <2>3 DEF Ahead
<1>2. ASSUME NEW e \in ToSet(eventSink)
      PROVE  /\ Behind(e.frame)' /\ \A g \in ToSet(pending') : Before(e.frame, g.frame)
             /\ \A a \in Announced' : Before(e.frame, a)
  <2>1. e \in Event /\ Behind(e.frame) /\ \A a \in Announced : Before(e.frame, a)
    <3>1. e \in Event
      BY OrderTypes
    <3>2. Behind(e.frame) /\ \A a \in Announced : Before(e.frame, a)
      BY DEF OrderInv
    <3> QED
      BY <3>1, <3>2
  <2>2. CASE Private(e.frame)
    BY <2>1, <2>2, BehindStays, PrivateTypes
  <2>3. CASE ~Private(e.frame)
    BY <2>3 DEF Before, Behind
  <2> QED
    BY <2>2, <2>3
<1>3. ASSUME spc = "send" PROVE Ahead(event.frame)'
  <2>1. PICK f \in PrivateFrame : f = event.frame
    BY <1>3, FramesAre
  <2>2. Ahead(f)'
    BY <1>1, <1>3, <2>1 DEF OrderInv
  <2>3. event'.frame = f
    BY <2>1
  <2> QED
    BY <2>2, <2>3 DEF Ahead
<1>4. ASSUME NEW c \in Clients, NEW f \in ToSet(delivered[c]), Concerns(f, c) PROVE Ahead(f)'
  <2>1. Ahead(f)
    BY <1>4 DEF OrderInv
  <2>2. f \in PrivateFrame \union {Cut}
    BY FramesAre
  <2> QED
    BY <1>1, <2>1, <2>2
<1> QED
  BY <1>2, <1>3, <1>4 DEF OrderInv

\* What the engine makes of a message and of a resting order.
LEMMA MadeFrames ==
  /\ \A m : /\ Answer(m).kind = "answer" /\ Answer(m).to = m.client /\ Answer(m).n = m.n
            /\ Fill(m).kind = "fill" /\ Fill(m).to = m.client /\ Fill(m).n = m.n
            /\ Private(Answer(m)) /\ Private(Fill(m))
            /\ \A f : Before(f, Fill(m))
  /\ \A k : /\ Public(k).kind = "public" /\ ~Private(Public(k))
            /\ \A f : Before(f, Public(k)) /\ Before(Public(k), f)
  /\ \A fd, f : Routed(fd, f).frame = f
BY DEF Answer, Fill, Public, Private, Before, Routed

\* The engine takes a message: what it has made until then is about earlier ones.
LEMMA EnginePopOrder ==
  ASSUME TypeInv, QueueInv, OrderInv, Engine, EnginePop
  PROVE  QueueInv' /\ OrderInv'
<1>1. /\ msgSink # <<>> /\ msgSink' = Tail(msgSink) /\ pending = <<>>
      /\ UNCHANGED <<sent, requests, parsing, eventSink, spc, event, delivered>>
  BY DEF EnginePop, Engine, network, kqueueVars, senderVars
<1> PICK m : m = Head(msgSink)
  OBVIOUS
<1>2. /\ QueueInv' /\ PastStays /\ m \in Message /\ m \in ToSet(msgSink)
      /\ Past(m.client, m.n)'
  BY <1>1, PopQueue
<1> PICK p : p = Routed(PUBLIC, Public(published + 1))
  OBVIOUS
<1>3. /\ taken' = m /\ Announced' = {Answer(m)} /\ Announced = {}
      /\ order' = m \/ order' \in resting
      /\ resting' \subseteq resting /\ pending' \in {<<>>, <<p>>}
  BY <1>1 DEF EnginePop, Announced, Working
<1>4. \A r \in resting : /\ Past(r.client, r.n) /\ Past(r.client, r.n)' /\ r \in Message
                         /\ r.client = m.client => r.n < m.n
  BY <1>2, OrderTypes DEF OrderInv, PastStays, Past
<1>5. WorkInv'
  <2>1. \A r \in resting : Before(Fill(r), Answer(m))
    BY <1>4, MadeFrames DEF Before
  <2> QED
    BY <1>2, <1>3, <1>4, <2>1 DEF WorkInv
<1>6. /\ ToSet(pending') \subseteq {p} /\ Ordered(pending', EventOrder)
  BY <1>3 DEF ToSet, Ordered
<1>7. Behind(p.frame)' /\ \A f : Before(f, p.frame) /\ Before(p.frame, f)
  <2>1. p.frame = Public(published + 1)
    BY MadeFrames
  <2>2. ~Private(p.frame) /\ \A f : Before(f, p.frame) /\ Before(p.frame, f)
    BY <2>1, MadeFrames
  <2> QED
    BY <2>2 DEF Behind
<1>8. ASSUME NEW f \in PrivateFrame \union {Cut}, Behind(f) PROVE Before(f, Answer(m))
  <2>1. Private(f) /\ f.to = m.client => f.n < m.n
    BY <1>2, <1>8 DEF Behind, Past
  <2> QED
    BY <2>1, MadeFrames DEF Before
<1>9. OrderInv'
  BY <1>1, <1>2, <1>3, <1>4, <1>5, <1>6, <1>7, <1>8, EmitOrder
<1> QED
  BY <1>2, <1>9

\* The engine fills a resting order: its client is told before the answer.
LEMMA EngineTradeOrder ==
  ASSUME TypeInv, QueueInv, OrderInv, Engine, NEW r \in resting, EngineTrade(r)
  PROVE  QueueInv' /\ OrderInv'
<1>1. /\ UNCHANGED <<sent, requests, parsing, msgSink, eventSink, spc, event, delivered>>
      /\ UNCHANGED <<taken, order>> /\ resting' \subseteq resting
      /\ epc \in Working /\ epc' \in Working
  BY DEF EngineTrade, Engine, network, kqueueVars, senderVars, Working
<1> PICK p : p = Routed(PUBLIC, Public(published + 1))
  OBVIOUS
<1> PICK q : q = Routed(PUBLIC, Public(published + 2))
  OBVIOUS
<1> PICK b : b = Routed(r.fd, Fill(r))
  OBVIOUS
<1>2. pending' = <<p, q, b>> /\ Announced' = Announced /\ Announced = {Answer(taken)}
  BY <1>1 DEF EngineTrade, Announced
<1>3. QueueInv' /\ PastStays
  BY <1>1 DEF QueueInv, PastParsing, PastUnread, PastStays, Past
<1>4. /\ \A s \in resting : Past(s.client, s.n)'
      /\ Past(taken.client, taken.n)' /\ Past(order.client, order.n)'
  BY <1>1, <1>3, OrderTypes DEF OrderInv, WorkInv, PastStays, TypeInv, BusyInv
<1>5. WorkInv'
  BY <1>1, <1>4 DEF OrderInv, WorkInv
<1>6. p \in Event /\ q \in Event /\ b \in Event
  BY EngineEvents, OrderTypes
<1>7. /\ \A f : /\ Before(f, p.frame) /\ Before(f, q.frame) /\ Before(f, b.frame)
                /\ Before(p.frame, f) /\ Before(q.frame, f)
      /\ Behind(p.frame)' /\ Behind(q.frame)' /\ Behind(b.frame)'
      /\ Before(b.frame, Answer(taken))
  <2>1. /\ p.frame = Public(published + 1) /\ q.frame = Public(published + 2)
        /\ b.frame = Fill(r)
    BY MadeFrames
  <2>2. /\ \A f : /\ Before(f, p.frame) /\ Before(f, q.frame) /\ Before(f, b.frame)
                  /\ Before(p.frame, f) /\ Before(q.frame, f)
        /\ ~Private(p.frame) /\ ~Private(q.frame)
        /\ b.frame.to = r.client /\ b.frame.n = r.n
    BY <2>1, MadeFrames
  <2>3. Behind(p.frame)' /\ Behind(q.frame)' /\ Behind(b.frame)'
    BY <1>4, <2>2 DEF Behind
  <2>4. Before(b.frame, Answer(taken))
    BY <1>1, <2>1 DEF OrderInv, WorkInv
  <2> QED
    BY <2>2, <2>3, <2>4
<1>8. <<p, q>> \in EventOrder /\ <<p, b>> \in EventOrder /\ <<q, b>> \in EventOrder
  BY <1>6, <1>7, PrivateTypes
<1>9. ToSet(pending') = {p, q, b} /\ Ordered(pending', EventOrder)
  <2>1. ToSet(pending') = {p, q, b}
    BY <1>2 DEF ToSet
  <2>2. Ordered(pending', EventOrder)
    BY <1>2, <1>8 DEF Ordered
  <2> QED
    BY <2>1, <2>2
<1>10. OrderInv'
  BY <1>1, <1>2, <1>3, <1>4, <1>5, <1>7, <1>9, EmitOrder
<1> QED
  BY <1>3, <1>10

\* The answer comes last.
LEMMA EngineFinishOrder ==
  ASSUME TypeInv, QueueInv, OrderInv, Engine, EngineFinish
  PROVE  QueueInv' /\ OrderInv'
<1>1. /\ UNCHANGED <<sent, requests, parsing, msgSink, eventSink, spc, event, delivered>>
      /\ resting' \subseteq resting \union {order}
      /\ epc \in Working /\ epc' \notin Working
  BY DEF EngineFinish, Engine, network, kqueueVars, senderVars, Working
<1> PICK t \in Message, o \in Message : t = taken /\ o = order
  BY <1>1 DEF TypeInv, BusyInv
<1> PICK p : p = Routed(PUBLIC, Public(published + 1))
  OBVIOUS
<1> PICK a : a = Routed(t.fd, Answer(t))
  OBVIOUS
<1>2. pending' \in {<<a>>, <<p, a>>} /\ Announced' = {} /\ Announced = {Answer(t)}
  BY <1>1 DEF EngineFinish, Announced
<1>3. QueueInv' /\ PastStays
  BY <1>1 DEF QueueInv, PastParsing, PastUnread, PastStays, Past
<1>4. (\A s \in resting : Past(s.client, s.n)') /\ Past(t.client, t.n)' /\ Past(o.client, o.n)'
  <2>1. (\A s \in resting : Past(s.client, s.n)) /\ Past(t.client, t.n) /\ Past(o.client, o.n)
    BY <1>1 DEF OrderInv, WorkInv
  <2> QED
    BY <1>3, <2>1, OrderTypes DEF PastStays
<1>5. WorkInv'
  BY <1>1 DEF WorkInv
<1>6. p \in Event /\ a \in Event
  BY EngineEvents
<1>7. /\ \A f : Before(f, p.frame) /\ Before(p.frame, f)
      /\ Behind(p.frame)' /\ Behind(a.frame)' /\ a.frame = Answer(t)
  <2>1. p.frame = Public(published + 1) /\ a.frame = Answer(t)
    BY MadeFrames
  <2>2. /\ \A f : Before(f, p.frame) /\ Before(p.frame, f)
        /\ ~Private(p.frame) /\ a.frame.to = t.client /\ a.frame.n = t.n
    BY <2>1, MadeFrames
  <2> QED
    BY <1>4, <2>1, <2>2 DEF Behind
<1>8. ToSet(pending') \subseteq {p, a} /\ Ordered(pending', EventOrder)
  <2>1. <<p, a>> \in EventOrder
    BY <1>6, <1>7, PrivateTypes
  <2>2. CASE pending' = <<a>>
    BY <2>2 DEF ToSet, Ordered
  <2>3. CASE pending' = <<p, a>>
    BY <2>1, <2>3 DEF ToSet, Ordered
  <2> QED
    BY <1>2, <2>2, <2>3
<1>9. \A s \in resting' : Past(s.client, s.n)'
  BY <1>1, <1>4
<1>10. /\ \A e \in ToSet(pending') : Behind(e.frame)'
       /\ \A f : Before(f, a.frame) => \A g \in ToSet(pending') : Before(f, g.frame)
  BY <1>7, <1>8
<1>11. OrderInv'
  BY <1>1, <1>2, <1>3, <1>5, <1>7, <1>8, <1>9, <1>10, EmitOrder
<1> QED
  BY <1>3, <1>11

\* An event goes behind those already in EventSink, or is dropped.
LEMMA EnginePushOrder ==
  ASSUME TypeInv, QueueInv, OrderInv, Engine, EnginePush
  PROVE  QueueInv' /\ OrderInv'
<1>1. /\ pending # <<>> /\ pending' = Tail(pending)
      /\ eventSink' \in {eventSink, Append(eventSink, Head(pending))}
      /\ UNCHANGED <<sent, requests, parsing, msgSink, resting, spc, event, delivered>>
      /\ UNCHANGED <<epc, taken, order>>
  BY DEF EnginePush, Engine, network, kqueueVars, senderVars
<1> PICK h : h = Head(pending)
  OBVIOUS
<1>2. /\ h \in ToSet(pending) /\ ToSet(Tail(pending)) \subseteq ToSet(pending)
      /\ Ordered(Tail(pending), EventOrder)
      /\ \A e \in ToSet(Tail(pending)) : <<h, e>> \in EventOrder
  BY <1>1, OrderTypes, HeadOrder DEF OrderInv
<1>3. h \in Event /\ \A e \in ToSet(Tail(pending)) : Before(h.frame, e.frame)
  BY <1>2, OrderTypes, PrivateTypes
<1>4. /\ ToSet(Append(eventSink, h)) = ToSet(eventSink) \union {h}
      /\ Ordered(Append(eventSink, h), EventOrder)
  <2>1. \A e \in ToSet(eventSink) : Before(e.frame, h.frame) /\ e \in Event
    BY <1>2, OrderTypes DEF OrderInv
  <2>2. \A e \in ToSet(eventSink) : <<e, h>> \in EventOrder
    BY <1>3, <2>1, PrivateTypes
  <2> QED
    BY <1>3, <2>2, OrderTypes, AppendOrder DEF OrderInv
<1>5. ToSet(eventSink') \subseteq ToSet(eventSink) \union {h} /\ Ordered(eventSink', EventOrder)
  BY <1>1, <1>4 DEF OrderInv
<1>6. Announced' = Announced /\ \A c, n : Past(c, n)' = Past(c, n)
  BY <1>1 DEF Announced, Past, PastParsing, PastUnread
<1>7. WorkInv' /\ \A f : Behind(f)' = Behind(f)
  BY <1>1, <1>6 DEF Behind, OrderInv, WorkInv
<1>8. ASSUME NEW f, Ahead(f) PROVE Ahead(f)'
  BY <1>1, <1>2, <1>5, <1>6, <1>7, <1>8 DEF Ahead
<1>9. /\ \A e \in ToSet(pending') : /\ Behind(e.frame)'
                                    /\ \A a \in Announced' : Before(e.frame, a)
      /\ \A e \in ToSet(eventSink') : /\ Behind(e.frame)'
                                      /\ \A g \in ToSet(pending') : Before(e.frame, g.frame)
                                      /\ \A a \in Announced' : Before(e.frame, a)
  BY <1>1, <1>2, <1>3, <1>5, <1>6, <1>7 DEF OrderInv
<1>10. spc = "send" => Ahead(event.frame)'
  <2>1. PICK f : f = event.frame
    OBVIOUS
  <2>2. spc = "send" => Ahead(f)'
    BY <1>8, <2>1 DEF OrderInv
  <2>3. event'.frame = f
    BY <1>1, <2>1
  <2> QED
    BY <2>2, <2>3 DEF Ahead
<1>11. OrderInv'
  BY <1>1, <1>2, <1>5, <1>6, <1>7, <1>8, <1>9, <1>10 DEF OrderInv
<1>12. QueueInv'
  BY <1>1 DEF QueueInv, PastParsing, PastUnread
<1> QED
  BY <1>11, <1>12

\* Steps of the engine thread.
LEMMA EngineOrder == ASSUME TypeInv, QueueInv, OrderInv, Engine PROVE QueueInv' /\ OrderInv'
<1>1. CASE EngineStop
  <2>1. /\ UNCHANGED <<sent, requests, parsing, msgSink, taken, order, resting, pending, eventSink,
                       spc, event, delivered>>
        /\ epc \notin Working /\ epc' \notin Working
    BY <1>1 DEF EngineStop, Engine, network, kqueueVars, senderVars, Working
  <2>2. QueueInv' /\ PastStays
    BY <2>1 DEF QueueInv, PastParsing, PastUnread, PastStays, Past
  <2>3. Announced' = Announced
    BY <2>1 DEF Announced
  <2> QED
    BY <2>1, <2>2, <2>3, QuietOrder
<1> QED
  BY <1>1, EnginePopOrder, EngineTradeOrder, EngineFinishOrder, EnginePushOrder DEF Engine

\* A private or a cut frame goes behind those the client has.
LEMMA DeliveryOrder ==
  ASSUME TypeInv, OrderInv, NEW c \in Clients, NEW x \in PrivateFrame \union {Cut},
         \A f \in ToSet(delivered[c]) : Concerns(f, c) => Before(f, x)
  PROVE  /\ ToSet(Append(delivered[c], x)) = ToSet(delivered[c]) \union {x}
         /\ Ordered(Append(delivered[c], x), FrameOrder(c))
<1>1. PICK S : S = PrivateFrame \union {Cut}
  OBVIOUS
<1>2. PICK s \in Seq(S) : s = delivered[c]
  BY <1>1, OrderTypes
<1>3. \A f \in ToSet(s) : f \in PrivateFrame \union {Cut}
  BY <1>1, <1>2, InSeq
<1>4. \A f \in ToSet(s) : <<f, x>> \in FrameOrder(c)
  BY <1>2, <1>3, PrivateTypes
<1>5. Ordered(s, FrameOrder(c))
  BY <1>2 DEF OrderInv
<1>6. x \in S
  BY <1>1
<1> HIDE DEF FrameOrder
<1>7. /\ ToSet(Append(s, x)) = ToSet(s) \union {x}
      /\ Ordered(Append(s, x), FrameOrder(c))
  BY <1>4, <1>5, <1>6, AppendOrder
<1> QED
  BY <1>2, <1>7

\* Steps of the sender thread.
LEMMA SenderOrder == ASSUME TypeInv, OrderInv, Sender PROVE OrderInv'
<1>1. UNCHANGED <<sent, requests, parsing, msgSink, epc, taken, order, resting, pending>>
  BY DEF Sender, kqueueVars, engineVars
<1>2. \A c, n : Past(c, n)' = Past(c, n)
  BY <1>1 DEF Past, PastParsing, PastUnread
<1>3. /\ \A f : Behind(f)' = Behind(f)
      /\ Announced' = Announced /\ WorkInv'
  BY <1>1, <1>2 DEF Behind, Announced, OrderInv, WorkInv
<1>4. CASE SenderPop
  <2>1. /\ eventSink # <<>> /\ eventSink' = Tail(eventSink) /\ event' = Head(eventSink)
        /\ UNCHANGED delivered
    BY <1>4 DEF SenderPop
  <2>2. PICK h : h = Head(eventSink)
    OBVIOUS
  <2>3. /\ h \in ToSet(eventSink) /\ ToSet(Tail(eventSink)) \subseteq ToSet(eventSink)
        /\ Ordered(Tail(eventSink), EventOrder)
        /\ \A e \in ToSet(Tail(eventSink)) : <<h, e>> \in EventOrder
    BY <2>1, <2>2, OrderTypes, HeadOrder DEF OrderInv
  <2>4. h \in Event /\ \A e \in ToSet(Tail(eventSink)) : Before(h.frame, e.frame)
    BY <2>3, OrderTypes, PrivateTypes
  <2>5. ASSUME NEW f, Ahead(f) PROVE Ahead(f)' /\ Before(f, h.frame)
    BY <1>1, <1>3, <2>1, <2>3, <2>5 DEF Ahead
  <2>6. Ahead(event.frame)'
    <3>1. /\ Behind(h.frame)'
          /\ \A g \in ToSet(eventSink') \union ToSet(pending') : Before(h.frame, g.frame)
          /\ \A a \in Announced' : Before(h.frame, a)
      BY <1>1, <1>3, <2>1, <2>3, <2>4 DEF OrderInv
    <3> QED
      BY <2>1, <2>2, <3>1 DEF Ahead
  <2>7. \A e \in ToSet(eventSink') : /\ Behind(e.frame)'
                                     /\ \A g \in ToSet(pending') : Before(e.frame, g.frame)
                                     /\ \A a \in Announced' : Before(e.frame, a)
    BY <1>1, <1>3, <2>1, <2>3 DEF OrderInv
  <2>8. ASSUME NEW c \in Clients, NEW f \in ToSet(delivered[c]), Concerns(f, c)
        PROVE  Ahead(f)' /\ Before(f, event'.frame)
    BY <2>1, <2>2, <2>5, <2>8 DEF OrderInv
  <2> QED
    BY <1>1, <1>2, <1>3, <2>1, <2>3, <2>6, <2>7, <2>8 DEF OrderInv
<1>5. ASSUME UNCHANGED eventSink, spc' # "send",
             \A c \in Clients : /\ Ordered(delivered'[c], FrameOrder(c))
                                /\ \A f \in ToSet(delivered'[c]) : Concerns(f, c) => Ahead(f)
      PROVE  OrderInv'
  <2>1. \A f : Ahead(f) => Ahead(f)'
    BY <1>1, <1>3, <1>5 DEF Ahead
  <2> QED
    BY <1>1, <1>2, <1>3, <1>5, <2>1 DEF OrderInv
<1>6. CASE SenderLock \/ SenderUnlock \/ SenderStop
  <2>1. UNCHANGED <<eventSink, delivered>> /\ spc' # "send"
    BY <1>6 DEF SenderLock, SenderUnlock, SenderStop
  <2> QED
    BY <1>5, <2>1 DEF OrderInv
<1>7. ASSUME UNCHANGED eventSink, spc' # "send", NEW fd, NEW frame, SendTo(fd, frame),
             frame.kind # "public" =>
               /\ frame \in PrivateFrame /\ Ahead(frame)
               /\ \A c \in Clients : \A f \in ToSet(delivered[c]) :
                    Concerns(f, c) => Before(f, frame)
      PROVE  OrderInv'
  <2> SUFFICES ASSUME NEW c \in Clients
               PROVE  /\ Ordered(delivered'[c], FrameOrder(c))
                      /\ \A f \in ToSet(delivered'[c]) : Concerns(f, c) => Ahead(f)
    BY <1>5, <1>7
  <2>1. \/ delivered'[c] = delivered[c]
        \/ delivered'[c] = Append(delivered[c], Cut)
        \/ delivered'[c] = Append(delivered[c], frame) /\ frame.kind # "public"
    BY <1>7, OrderTypes DEF SendTo, PeerGone, Written, GivenUp
  <2>2. CASE delivered'[c] = delivered[c]
    BY <2>2 DEF OrderInv
  <2>3. CASE delivered'[c] = Append(delivered[c], Cut)
    <3>1. \A f : Before(f, Cut) /\ ~Concerns(Cut, c)
      BY DEF Before, Concerns, Private, Cut
    <3>2. /\ ToSet(delivered'[c]) = ToSet(delivered[c]) \union {Cut}
          /\ Ordered(delivered'[c], FrameOrder(c))
      BY <2>3, <3>1, DeliveryOrder
    <3> QED
      BY <3>1, <3>2 DEF OrderInv
  <2>4. CASE delivered'[c] = Append(delivered[c], frame) /\ frame.kind # "public"
    <3>1. /\ ToSet(delivered'[c]) = ToSet(delivered[c]) \union {frame}
          /\ Ordered(delivered'[c], FrameOrder(c))
      BY <1>7, <2>4, DeliveryOrder
    <3> QED
      BY <1>7, <2>4, <3>1 DEF OrderInv
  <2> QED
    BY <2>1, <2>2, <2>3, <2>4
<1>8. CASE SendPrivate
  <2>1. /\ spc = "send" /\ UNCHANGED eventSink /\ spc' # "send"
        /\ SendTo(event.fd, event.frame)
    BY <1>8 DEF SendPrivate
  <2>2. /\ event.frame \in PrivateFrame /\ Ahead(event.frame)
        /\ \A c \in Clients : \A f \in ToSet(delivered[c]) :
             Concerns(f, c) => Before(f, event.frame)
    BY <2>1, FramesAre DEF OrderInv
  <2> QED
    BY <1>7, <2>1, <2>2
<1>9. ASSUME NEW fd \in Fds, Broadcast(fd) PROVE OrderInv'
  <2>1. /\ spc = "broadcast" /\ UNCHANGED eventSink /\ spc' # "send"
        /\ SendTo(fd, event.frame)
    BY <1>9 DEF Broadcast
  <2>2. event.frame.kind = "public"
    BY <2>1 DEF TypeInv, BusyInv, PublicFrame
  <2> QED
    BY <1>7, <2>1, <2>2
<1> QED
  BY <1>4, <1>6, <1>8, <1>9 DEF Sender

\* In every reachable state messages and events are on their way in order.
LEMMA OrderInvariant == Spec => [](QueueInv /\ OrderInv)
<1>1. Init => QueueInv /\ OrderInv
  <2> SUFFICES ASSUME Init PROVE QueueInv /\ OrderInv
    OBVIOUS
  <2>1. /\ \A c \in Clients : requests[c] = <<>> /\ delivered[c] = <<>>
        /\ parsing = <<>> /\ msgSink = <<>> /\ pending = <<>> /\ eventSink = <<>>
        /\ resting = {} /\ spc = "loop" /\ epc = "loop"
    BY DEF Init
  <2> QED
    BY <2>1, EmptyOrdered DEF QueueInv, OrderInv, WorkInv, Working
<1>2. TypeInv /\ QueueInv /\ OrderInv /\ [Next]_vars => QueueInv' /\ OrderInv'
  <2> SUFFICES ASSUME TypeInv, QueueInv, OrderInv, [Next]_vars PROVE QueueInv' /\ OrderInv'
    OBVIOUS
  <2>1. CASE Outside \/ Stop \/ UNCHANGED vars
    <3>1. UNCHANGED <<epc, taken, order, resting, pending, eventSink, spc, event, delivered>>
      BY <2>1 DEF Outside, Connect, Send, Leave, Stop, vars, network, engineVars, senderVars
    <3>2. Announced' = Announced
      BY <3>1 DEF Announced
    <3> QED
      BY <2>1, <3>1, <3>2, OtherQueue, QuietOrder
  <2>2. CASE Kqueue
    <3>1. UNCHANGED <<epc, taken, order, resting, pending, eventSink, spc, event>>
      BY <2>2 DEF Kqueue, engineVars, senderVars
    <3>2. UNCHANGED delivered
      <4>1. ASSUME \/ KqWait \/ KqAcceptFails \/ KqPush \/ KqTest
                   \/ KqLock \/ KqInsert \/ KqErase \/ KqClear
            PROVE  UNCHANGED delivered
        BY <4>1 DEF KqWait, KqAcceptFails, KqPush, KqTest, KqLock, KqInsert, KqErase, KqClear,
                    network
      <4>2. ASSUME NEW fd \in Fds, NEW c \in Clients, KqAccept(c, fd) PROVE UNCHANGED delivered
        BY <4>2 DEF KqAccept
      <4>3. ASSUME NEW fd \in Fds, KqClose(fd) \/ \E k \in 0..MaxMessages : KqRead(fd, k)
            PROVE  UNCHANGED delivered
        BY <4>3 DEF KqRead, KqClose
      <4> QED
        BY <2>2, <4>1, <4>2, <4>3 DEF Kqueue
    <3>3. Announced' = Announced
      BY <3>1 DEF Announced
    <3> QED
      BY <2>2, <3>1, <3>2, <3>3, KqueueQueue, QuietOrder
  <2>3. CASE Engine
    BY <2>3, EngineOrder
  <2>4. CASE Sender
    BY <2>4, OtherQueue, SenderOrder
  <2> QED
    BY <2>1, <2>2, <2>3, <2>4 DEF Next
<1> QED
  BY <1>1, <1>2, TypeInvariant, PTL DEF Spec

\* Before a client gets the answer to a message it has heard of earlier ones
\* only, with any number of clients, messages and connections, and whatever is
\* dropped on the way.
THEOREM AnswersInOrder == Spec => []PrivateInOrder
<1>1. OrderInv => PrivateInOrder
  <2> SUFFICES ASSUME OrderInv, NEW c \in Clients,
                      NEW i \in DOMAIN delivered[c], NEW j \in DOMAIN delivered[c],
                      i < j, delivered[c][j].kind = "answer",
                      Concerns(delivered[c][i], c), Concerns(delivered[c][j], c)
               PROVE  delivered[c][i].n < delivered[c][j].n
    BY DEF PrivateInOrder
  <2>1. <<delivered[c][i], delivered[c][j]>> \in FrameOrder(c)
    BY DEF OrderInv, Ordered
  <2>2. Before(delivered[c][i], delivered[c][j])
    BY <2>1 DEF FrameOrder
  <2> QED
    BY <2>2 DEF Before, Concerns
<1> QED
  BY <1>1, OrderInvariant, PTL
==============================================================================
