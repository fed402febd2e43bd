-------------------------------- MODULE Server --------------------------------
(***************************************************************************)
(* The server process (server/multi_server_kqueue.cpp): the kqueue thread  *)
(* (setup_server), the engine thread (consume_messages) and the sender     *)
(* thread (run_sender), with the two rings between them, the connection    *)
(* map they share, and the kernel's table of descriptors.                  *)
(*                                                                         *)
(* The parts specified elsewhere appear as what they promise: a ring is a  *)
(* bounded queue (Fifo), a wakeup reads whole messages (ConnParser), and   *)
(* the engine turns a message into events (OrderBook), any resting order   *)
(* being one that a message may trade with, cancel or replace.  Frames and *)
(* messages carry the client they concern; the code knows only an fd.      *)
(***************************************************************************)
EXTENDS Integers, Sequences, SequencesExt, FiniteSetsExt

CONSTANTS Clients,      \* client processes, each of which connects once
          Nobody,       \* no client
          Fds,          \* descriptor numbers left for connections
          Senders,      \* the clients that send messages
          MaxMessages,  \* bound on the messages of one client
          SinkSize,     \* items a ring holds (RING_BUFFER_SIZE - 1)
          Leavers,      \* the clients that may close their connection
          SlowReaders,  \* the clients whose socket buffer may be full
          MayStop       \* whether somebody may set running to false

ASSUME ServerAssumption ==
    /\ Nobody \notin Clients
    /\ Fds \subseteq Nat \ {0}
    /\ MaxMessages \in Nat /\ SinkSize \in Nat \ {0}
    /\ Senders \subseteq Clients /\ Leavers \subseteq Clients /\ SlowReaders \subseteq Clients
    /\ MayStop \in BOOLEAN

VARIABLES
  \* clients and kernel
  peer,         \* "new", "waiting" to be accepted, "open", "left", "closed"
  fdTable,      \* the client at the other end of a descriptor, if it is open
  sent,         \* how many messages a client has sent
  requests,     \* those not yet read
  delivered,    \* the private and the cut frames written to a client's socket,
  heard,        \* and the public events
  missed,       \* clients to which a frame could not be written
  \* the process
  alive,        \* FALSE once SIGPIPE has killed it
  running, fd_to_state,
  mutex,        \* who holds state_mutex: "free", "kqueue", "sender"
  msgSink, eventSink,
  \* the three threads
  kpc, batch, kfd, parsing,
  epc, taken, order,   \* the message at work, and the one whose order is matched
  pending, resting, published,
  spc, event, targets,
  \* histories
  accepted,     \* messages pushed to msgSink
  refused,      \* messages msgSink had no room for
  lost,         \* frames eventSink had no room for
  broadcasts,   \* the public events that have been broadcast
  joined        \* per client, how many of them before it entered the map

network == <<peer, fdTable, sent, requests, delivered, heard, missed>>
kqueueVars == <<kpc, batch, kfd, parsing>>
engineVars == <<epc, taken, order, pending, resting, published>>
senderVars == <<spc, event, targets>>
history == <<accepted, refused, lost, broadcasts, joined>>
vars == <<network, alive, running, fd_to_state, mutex, msgSink, eventSink,
          kqueueVars, engineVars, senderVars, history>>

Listen == 0   \* the descriptor of the listening socket
Message == [client : Clients, n : 1..MaxMessages, fd : Fds]
NoMessage == [client |-> Nobody, n |-> 0, fd |-> Listen]
Answer(m) == [kind |-> "answer", to |-> m.client, n |-> m.n]
Fill(m) == [kind |-> "fill", to |-> m.client, n |-> m.n]
Public(k) == [kind |-> "public", n |-> k]
Cut == [kind |-> "cut"]   \* the part of a frame that send_all gave up on
PUBLIC == -1
Routed(fd, frame) == [fd |-> fd, frame |-> frame]

NoEvent == Routed(PUBLIC, Cut)
OpenFds == { fd \in Fds : fdTable[fd] # Nobody }

PrivateFrame == [kind : {"answer", "fill"}, to : Clients, n : 1..MaxMessages]
PublicFrame == [kind : {"public"}, n : Nat]
Frame == PrivateFrame \union PublicFrame \union {Cut}
Event == [fd : Fds, frame : PrivateFrame] \union [fd : {PUBLIC}, frame : PublicFrame]

TypeOK ==
    /\ peer \in [Clients -> {"new", "waiting", "open", "left", "closed"}]
    /\ fdTable \in [Fds -> Clients \union {Nobody}]
    /\ sent \in [Clients -> 0..MaxMessages]
    /\ requests \in [Clients -> Seq(1..MaxMessages)]
    /\ delivered \in [Clients -> Seq(PrivateFrame \union {Cut})]
    /\ heard \in [Clients -> Seq(Nat)] /\ missed \subseteq Clients
    /\ alive \in BOOLEAN /\ running \in BOOLEAN
    /\ fd_to_state \subseteq Fds /\ mutex \in {"free", "kqueue", "sender"}
    /\ msgSink \in Seq(Message) /\ Len(msgSink) <= SinkSize
    /\ eventSink \in Seq(Event) /\ Len(eventSink) <= SinkSize
    /\ kpc \in {"serve", "wait", "parse", "insert", "inserting", "erase", "erasing",
                "clear", "clearing", "done"}
    /\ batch \subseteq Fds \union {Listen} /\ kfd \in Fds \union {Listen}
    /\ parsing \in Seq(Message)
    /\ epc \in {"loop", "match", "filled", "done"} /\ pending \in Seq(Event)
    /\ taken \in Message \union {NoMessage} /\ order \in Message \union {NoMessage}
    /\ resting \subseteq Message /\ published \in Nat
    /\ spc \in {"loop", "send", "lock", "broadcast", "done"}
    /\ event \in Event \union {NoEvent} /\ targets \subseteq Fds
    /\ accepted \subseteq Message /\ refused \subseteq Message /\ lost \subseteq Frame
    /\ broadcasts \in Seq(Nat) /\ joined \in [Clients -> Nat]

Init ==
    /\ peer = [c \in Clients |-> "new"]
    /\ fdTable = [fd \in Fds |-> Nobody]
    /\ sent = [c \in Clients |-> 0]
    /\ requests = [c \in Clients |-> <<>>]
    /\ delivered = [c \in Clients |-> <<>>] /\ heard = [c \in Clients |-> <<>>]
    /\ missed = {}
    /\ alive = TRUE /\ running = TRUE
    /\ fd_to_state = {} /\ mutex = "free"
    /\ msgSink = <<>> /\ eventSink = <<>>
    /\ kpc = "serve" /\ batch = {} /\ kfd = Listen /\ parsing = <<>>
    /\ epc = "loop" /\ taken = NoMessage /\ order = NoMessage
    /\ pending = <<>> /\ resting = {} /\ published = 0
    /\ spc = "loop" /\ event = NoEvent /\ targets = {}
    /\ accepted = {} /\ refused = {} /\ lost = {}
    /\ broadcasts = <<>> /\ joined = [c \in Clients |-> 0]

-----------------------------------------------------------------------------
(***************************************************************************)
(* The clients, and whoever stops the server.                              *)
(***************************************************************************)
\* connect() succeeds as soon as the kernel has queued the connection
Connect(c) ==
    /\ peer[c] = "new"
    /\ kpc # "done"
    /\ peer' = [peer EXCEPT ![c] = "waiting"]
    /\ UNCHANGED <<fdTable, sent, requests, delivered, heard, missed>>

Send(c) ==
    /\ c \in Senders
    /\ peer[c] \in {"waiting", "open"}
    /\ sent[c] < MaxMessages
    /\ sent' = [sent EXCEPT ![c] = @ + 1]
    /\ requests' = [requests EXCEPT ![c] = Append(@, sent[c] + 1)]
    /\ UNCHANGED <<peer, fdTable, delivered, heard, missed>>

Leave(c) ==
    /\ c \in Leavers
    /\ peer[c] = "open"
    /\ peer' = [peer EXCEPT ![c] = "left"]
    /\ UNCHANGED <<fdTable, sent, requests, delivered, heard, missed>>

Outside ==
    /\ \E c \in Clients : Connect(c) \/ Send(c) \/ Leave(c)
    /\ UNCHANGED <<alive, running, fd_to_state, mutex, msgSink, eventSink,
                   kqueueVars, engineVars, senderVars, history>>

Stop ==
    /\ MayStop
    /\ running
    /\ running' = FALSE
    /\ UNCHANGED <<network, alive, fd_to_state, mutex, msgSink, eventSink,
                   kqueueVars, engineVars, senderVars, history>>

-----------------------------------------------------------------------------
(***************************************************************************)
(* The kqueue thread.  It alone changes fd_to_state, and takes the mutex   *)
(* for that; its own look-ups are without it.                              *)
(***************************************************************************)
Ready ==
    { fd \in fd_to_state \intersect OpenFds :
        peer[fdTable[fd]] = "left" \/ requests[fdTable[fd]] # <<>> }
    \union { l \in {Listen} : \E c \in Clients : peer[c] = "waiting" }

\* all events served, the loop tests running: on to the next call, or to the shutdown
KqTest ==
    /\ kpc = "serve"
    /\ batch = {}
    /\ kpc' = IF running THEN "wait" ELSE "clear"
    /\ UNCHANGED <<network, fd_to_state, mutex, msgSink, batch, kfd, parsing,
                   accepted, refused, joined>>

\* kevent() returns what is ready, nothing after 100 ms; running may have been
\* cleared in the meantime, and the batch is still served
KqWait ==
    /\ kpc = "wait"
    /\ batch' = Ready
    /\ kpc' = "serve"
    /\ UNCHANGED <<network, fd_to_state, mutex, msgSink, kfd, parsing,
                   accepted, refused, joined>>

\* accept(): the kernel hands out the lowest descriptor that is free
KqAccept(c, fd) ==
    /\ kpc = "serve"
    /\ Listen \in batch
    /\ peer[c] = "waiting"
    /\ fd \notin OpenFds
    /\ \A other \in Fds \ OpenFds : fd <= other
    /\ fdTable' = [fdTable EXCEPT ![fd] = c]
    /\ kfd' = fd
    /\ peer' = [peer EXCEPT ![c] = "open"]
    /\ batch' = batch \ {Listen}
    /\ kpc' = "insert"
    /\ UNCHANGED <<sent, requests, delivered, heard, missed, fd_to_state, mutex, msgSink,
                   parsing, accepted, refused, joined>>

\* accept() fails for want of a descriptor
KqAcceptFails ==
    /\ kpc = "serve"
    /\ Listen \in batch
    /\ OpenFds = Fds
    /\ batch' = batch \ {Listen}
    /\ UNCHANGED <<network, fd_to_state, mutex, msgSink, kpc, kfd, parsing,
                   accepted, refused, joined>>

\* Seeded fault: the messages are stamped with the fd of the last accept.
StampStale(fd, n) == [client |-> fdTable[fd], n |-> n, fd |-> Max(fd_to_state)]

\* stamp_message
Stamp(fd, n) == [client |-> fdTable[fd], n |-> n, fd |-> fd]

\* A wakeup parses the first k messages: recv() may return a part of what was
\* sent, and there is a limit on both.  The rest stays for the next.
KqRead(fd, k) ==
    /\ kpc = "serve"
    /\ fd \in batch \intersect OpenFds
    /\ peer[fdTable[fd]] \in {"open", "left"}
    /\ LET c == fdTable[fd]
       IN  /\ k <= Len(requests[c])
           /\ parsing' = [i \in 1..k |-> Stamp(fd, requests[c][i])]
           /\ requests' = [requests EXCEPT ![c] = SubSeq(@, k + 1, Len(@))]
           /\ kpc' = IF k = 0 THEN "serve" ELSE "parse"
    /\ batch' = batch \ {fd}
    /\ UNCHANGED <<peer, fdTable, sent, delivered, heard, missed, fd_to_state, mutex, msgSink, kfd,
                   accepted, refused, joined>>

\* Seeded fault: the messages of a wakeup are pushed last one first.
KqPushLastFirst ==
    /\ kpc = "parse"
    /\ parsing' = Front(parsing)
    /\ kpc' = IF Len(parsing) > 1 THEN "parse" ELSE "serve"
    /\ IF Len(msgSink) < SinkSize
       THEN /\ msgSink' = Append(msgSink, Last(parsing))
            /\ accepted' = accepted \union {Last(parsing)}
            /\ refused' = refused
       ELSE /\ refused' = refused \union {Last(parsing)}
            /\ UNCHANGED <<msgSink, accepted>>
    /\ UNCHANGED <<network, fd_to_state, mutex, batch, kfd, joined>>

\* sink.push(), whose result parse_message ignores
KqPush ==
    /\ kpc = "parse"
    /\ parsing' = Tail(parsing)
    /\ kpc' = IF Len(parsing) > 1 THEN "parse" ELSE "serve"
    /\ IF Len(msgSink) < SinkSize
       THEN /\ msgSink' = Append(msgSink, Head(parsing))
            /\ accepted' = accepted \union {Head(parsing)}
            /\ refused' = refused
       ELSE /\ refused' = refused \union {Head(parsing)}
            /\ UNCHANGED <<msgSink, accepted>>
    /\ UNCHANGED <<network, fd_to_state, mutex, batch, kfd, joined>>

\* recv() meets the end: the descriptor is closed, and from then on free, with
\* whatever the client had sent; the map entry stays until the lock is taken
KqClose(fd) ==
    /\ kpc = "serve"
    /\ fd \in batch \intersect OpenFds
    /\ peer[fdTable[fd]] = "left"
    /\ LET c == fdTable[fd]
       IN  /\ peer' = [peer EXCEPT ![c] = "closed"]
           /\ requests' = [requests EXCEPT ![c] = <<>>]
    /\ fdTable' = [fdTable EXCEPT ![fd] = Nobody]
    /\ batch' = batch \ {fd}
    /\ kfd' = fd
    /\ kpc' = "erase"
    /\ UNCHANGED <<sent, delivered, heard, missed, fd_to_state, mutex, msgSink, parsing,
                   accepted, refused, joined>>

Locked(pc) ==
    CASE pc = "insert" -> "inserting" [] pc = "erase" -> "erasing" [] pc = "clear" -> "clearing"

\* Seeded fault: the map is changed without the mutex.
KqLockForgotten ==
    /\ kpc \in {"insert", "erase", "clear"}
    /\ kpc' = Locked(kpc)
    /\ UNCHANGED <<network, fd_to_state, mutex, msgSink, batch, kfd, parsing,
                   accepted, refused, joined>>

\* the lock_guard of the three places that change the map
KqLock ==
    /\ kpc \in {"insert", "erase", "clear"}
    /\ mutex = "free"
    /\ mutex' = "kqueue"
    /\ kpc' = Locked(kpc)
    /\ UNCHANGED <<network, fd_to_state, msgSink, batch, kfd, parsing,
                   accepted, refused, joined>>

KqInsert ==
    /\ kpc = "inserting"
    /\ fd_to_state' = fd_to_state \union {kfd}
    /\ joined' = [joined EXCEPT ![fdTable[kfd]] = Len(broadcasts)]
    /\ mutex' = "free"
    /\ kpc' = "serve" /\ kfd' = Listen
    /\ UNCHANGED <<network, msgSink, batch, parsing, accepted, refused>>

\* Seeded fault: the entry of a closed connection stays in the map.
KqEraseForgotten ==
    /\ kpc = "erasing"
    /\ mutex' = "free"
    /\ kpc' = "serve" /\ kfd' = Listen
    /\ UNCHANGED <<network, fd_to_state, msgSink, batch, parsing,
                   accepted, refused, joined>>

KqErase ==
    /\ kpc = "erasing"
    /\ fd_to_state' = fd_to_state \ {kfd}
    /\ mutex' = "free"
    /\ kpc' = "serve" /\ kfd' = Listen
    /\ UNCHANGED <<network, msgSink, batch, parsing, accepted, refused, joined>>

\* Seeded fault: the shutdown keeps the mutex.
KqClearKeepsLock ==
    /\ kpc = "clearing"
    /\ fdTable' = [fd \in Fds |-> IF fd \in fd_to_state THEN Nobody ELSE fdTable[fd]]
    /\ peer' = [c \in Clients |-> IF peer[c] = "new" THEN "new" ELSE "closed"]
    /\ fd_to_state' = {}
    /\ kpc' = "done"
    /\ UNCHANGED <<sent, requests, delivered, heard, missed, mutex, msgSink, batch, kfd, parsing,
                   accepted, refused, joined>>

\* every connection is closed, and with the listening socket those still waiting
KqClear ==
    /\ kpc = "clearing"
    /\ fdTable' = [fd \in Fds |-> IF fd \in fd_to_state THEN Nobody ELSE fdTable[fd]]
    /\ peer' = [c \in Clients |-> IF peer[c] = "new" THEN "new" ELSE "closed"]
    /\ fd_to_state' = {}
    /\ mutex' = "free"
    /\ kpc' = "done"
    /\ UNCHANGED <<sent, requests, delivered, heard, missed, msgSink, batch, kfd, parsing,
                   accepted, refused, joined>>

Kqueue ==
    /\ alive
    /\ \/ KqTest \/ KqWait \/ KqAcceptFails \/ KqPush
       \/ KqLock \/ KqInsert \/ KqErase \/ KqClear
       \/ \E fd \in Fds : \/ \E c \in Clients : KqAccept(c, fd)
                         \/ \E k \in 0..MaxMessages : KqRead(fd, k)
                         \/ KqClose(fd)
    /\ UNCHANGED <<alive, running, eventSink, engineVars, senderVars, lost, broadcasts>>

-----------------------------------------------------------------------------
(***************************************************************************)
(* The engine thread: consume_messages, with what process() pushes.        *)
(***************************************************************************)
\* process(): next comes an order to match, the message's own or none, or the
\* one it replaces or cancels, which leaves the book.
EnginePop ==
    /\ epc = "loop"
    /\ pending = <<>>
    /\ msgSink # <<>>
    /\ msgSink' = Tail(msgSink)
    /\ taken' = Head(msgSink)
    /\ epc' = "match"
    /\ \/ /\ order' = taken'
          /\ UNCHANGED <<pending, resting, published>>
       \/ \E r \in resting :
            /\ order' = r
            /\ resting' = resting \ {r}
            /\ pending' = <<Routed(PUBLIC, Public(published + 1))>>
            /\ published' = published + 1
    /\ UNCHANGED <<eventSink, lost>>

\* execute_trade: the resting order is filled, or it is not and the other is
EngineTrade(r) ==
    /\ epc = "match"
    /\ pending = <<>>
    /\ pending' = <<Routed(PUBLIC, Public(published + 1)),
                    Routed(PUBLIC, Public(published + 2)), Routed(r.fd, Fill(r))>>
    /\ published' = published + 2
    /\ \/ resting' = resting \ {r} /\ UNCHANGED epc
       \/ epc' = "filled" /\ UNCHANGED resting
    /\ UNCHANGED <<msgSink, taken, order, eventSink, lost>>

\* What is left of the order comes to rest or is dropped; the answer goes to the
\* connection of the message, whosever order it was.
EngineFinish ==
    /\ epc \in {"match", "filled"}
    /\ pending = <<>>
    /\ \/ /\ pending' = <<Routed(taken.fd, Answer(taken))>>
          /\ UNCHANGED <<resting, published>>
       \/ /\ epc = "match"
          /\ pending' = <<Routed(PUBLIC, Public(published + 1)),
                          Routed(taken.fd, Answer(taken))>>
          /\ resting' = resting \union {order}
          /\ published' = published + 1
    /\ epc' = "loop"
    /\ taken' = NoMessage /\ order' = NoMessage
    /\ UNCHANGED <<msgSink, eventSink, lost>>

\* Seeded fault: events are pushed without the test for a full ring.
EnginePushUnchecked ==
    /\ pending # <<>>
    /\ pending' = Tail(pending)
    /\ eventSink' = Append(eventSink, Head(pending))
    /\ UNCHANGED <<msgSink, lost, epc, taken, order, resting, published>>

\* add_private_event, add_public_event: nobody looks at the result of push
EnginePush ==
    /\ pending # <<>>
    /\ pending' = Tail(pending)
    /\ IF Len(eventSink) < SinkSize
       THEN eventSink' = Append(eventSink, Head(pending)) /\ UNCHANGED lost
       ELSE lost' = lost \union {Head(pending).frame} /\ UNCHANGED eventSink
    /\ UNCHANGED <<msgSink, epc, taken, order, resting, published>>

EngineStop ==
    /\ epc = "loop"
    /\ pending = <<>>
    /\ ~running
    /\ msgSink = <<>>
    /\ epc' = "done"
    /\ UNCHANGED <<msgSink, eventSink, lost, taken, order, pending, resting, published>>

Engine ==
    /\ alive
    /\ EnginePop \/ EngineFinish \/ EnginePush \/ EngineStop \/ \E r \in resting : EngineTrade(r)
    /\ UNCHANGED <<network, alive, running, fd_to_state, mutex, kqueueVars, senderVars,
                   accepted, refused, broadcasts, joined>>

-----------------------------------------------------------------------------
(***************************************************************************)
(* The sender thread: run_sender.  The sockets are non-blocking; a send to *)
(* a peer that has left may raise SIGPIPE, which nothing in the program    *)
(* handles.                                                                *)
(***************************************************************************)
\* send() of the whole frame
Written(c, frame) ==
    /\ \/ /\ frame.kind = "public"
          /\ heard' = [heard EXCEPT ![c] = Append(@, frame.n)]
          /\ UNCHANGED delivered
       \/ /\ frame.kind # "public"
          /\ delivered' = [delivered EXCEPT ![c] = Append(@, frame)]
          /\ UNCHANGED heard
    /\ UNCHANGED <<alive, missed>>

\* EAGAIN, before or within the frame: send_all gives up
GivenUp(c) ==
    /\ c \in SlowReaders
    /\ missed' = missed \union {c}
    /\ \/ UNCHANGED delivered
       \/ delivered' = [delivered EXCEPT ![c] = Append(@, Cut)]
    /\ UNCHANGED <<alive, heard>>

\* ECONNRESET or EPIPE
PeerGone ==
    /\ alive' \in BOOLEAN
    /\ UNCHANGED <<delivered, heard, missed>>

\* send_all
SendTo(fd, frame) ==
    \/ /\ fd \notin OpenFds          \* EBADF
       /\ UNCHANGED <<alive, delivered, heard, missed>>
    \/ /\ fd \in OpenFds
       /\ peer[fdTable[fd]] = "left"
       /\ PeerGone
    \/ /\ fd \in OpenFds
       /\ peer[fdTable[fd]] = "open"
       /\ Written(fdTable[fd], frame) \/ GivenUp(fdTable[fd])

SenderPop ==
    /\ spc = "loop"
    /\ eventSink # <<>>
    /\ event' = Head(eventSink)
    /\ eventSink' = Tail(eventSink)
    /\ spc' = IF Head(eventSink).fd = PUBLIC THEN "lock" ELSE "send"
    /\ UNCHANGED <<alive, delivered, heard, missed, mutex, targets, broadcasts>>

\* send_event_private
SendPrivate ==
    /\ spc = "send"
    /\ SendTo(event.fd, event.frame)
    /\ event' = NoEvent
    /\ spc' = "loop"
    /\ UNCHANGED <<mutex, eventSink, targets, broadcasts>>

\* send_event_public: the lock_guard, and the loop over the map
SenderLock ==
    /\ spc = "lock"
    /\ mutex = "free"
    /\ mutex' = "sender"
    /\ targets' = fd_to_state
    /\ spc' = "broadcast"
    /\ UNCHANGED <<alive, delivered, heard, missed, eventSink, event, broadcasts>>

Broadcast(fd) ==
    /\ spc = "broadcast"
    /\ fd \in targets
    /\ SendTo(fd, event.frame)
    /\ targets' = targets \ {fd}
    /\ UNCHANGED <<mutex, eventSink, spc, event, broadcasts>>

\* Seeded fault: the mutex is not released after a broadcast.
SenderUnlockForgotten ==
    /\ spc = "broadcast"
    /\ targets = {}
    /\ broadcasts' = Append(broadcasts, event.frame.n)
    /\ event' = NoEvent
    /\ spc' = "loop"
    /\ UNCHANGED <<alive, delivered, heard, missed, mutex, eventSink, targets>>

SenderUnlock ==
    /\ spc = "broadcast"
    /\ targets = {}
    /\ mutex' = "free"
    /\ broadcasts' = Append(broadcasts, event.frame.n)
    /\ event' = NoEvent
    /\ spc' = "loop"
    /\ UNCHANGED <<alive, delivered, heard, missed, eventSink, targets>>

SenderStop ==
    /\ spc = "loop"
    /\ ~running
    /\ eventSink = <<>>
    /\ spc' = "done"
    /\ UNCHANGED <<alive, delivered, heard, missed, mutex, eventSink, event, targets, broadcasts>>

Sender ==
    /\ alive
    /\ \/ SenderPop \/ SendPrivate \/ SenderLock \/ SenderUnlock \/ SenderStop
       \/ \E fd \in Fds : Broadcast(fd)
    /\ UNCHANGED <<peer, fdTable, sent, requests, running, fd_to_state, msgSink,
                   kqueueVars, engineVars, accepted, refused, lost, joined>>

-----------------------------------------------------------------------------
Next == Outside \/ Stop \/ Kqueue \/ Engine \/ Sender

Spec == Init /\ [][Next]_vars

\* The operating system runs every thread; clients owe nothing.  The mutex is
\* never wanted infinitely often, so weak fairness is enough.
FairSpec == Spec /\ WF_vars(Kqueue) /\ WF_vars(Engine) /\ WF_vars(Sender)

-----------------------------------------------------------------------------
(***************************************************************************)
(* Properties.                                                             *)
(***************************************************************************)
\* The sender never iterates over fd_to_state while the kqueue thread inserts
\* into it, erases from it or clears it.
NoMapRace ==
    ~ (spc = "broadcast" /\ kpc \in {"inserting", "erasing", "clearing"})

\* fd_to_state holds the open connections, but for the one that is being
\* accepted or closed; so an fd that kevent reports is always found in it
\* (fd_to_state.at does not throw), also when numbers are used again.
ConnectionMapIsOpenFds ==
    /\ fd_to_state = CASE kpc \in {"insert", "inserting"} -> OpenFds \ {kfd}
                       [] kpc \in {"erase", "erasing"} -> OpenFds \union {kfd}
                       [] OTHER -> OpenFds
    /\ batch \ {Listen} \subseteq fd_to_state \ {kfd}

Private(frame) == frame.kind \in {"answer", "fill"}
Concerns(frame, c) == Private(frame) /\ frame.to = c

\* Before a client gets the answer to a message it has heard of earlier ones
\* only: answers come in the order of its messages, and an order is not
\* reported filled before it is reported resting, whatever is dropped between.
PrivateInOrder ==
    \A c \in Clients : \A i, j \in DOMAIN delivered[c] :
        /\ i < j /\ delivered[c][j].kind = "answer"
        /\ Concerns(delivered[c][i], c) /\ Concerns(delivered[c][j], c)
        => delivered[c][i].n < delivered[c][j].n

Connected(c) == peer[c] = "open" /\ \E fd \in fd_to_state : fdTable[fd] = c
Since(c) == SubSeq(broadcasts, joined[c] + 1, Len(broadcasts))

\* Between two broadcasts, every connected client has been sent each public
\* event broadcast since it entered the map, once and in order, however the
\* accepts and ends of other connections fall; slow readers are left out.
BroadcastsComplete ==
    spc # "broadcast" =>
        \A c \in Clients \ missed : Connected(c) => heard[c] = Since(c)

\* A private event written to another client than the one it is about was
\* addressed to a connection that is closed: as long as a connection is open,
\* its events go nowhere else.
MisroutedOnlyAfterClosing ==
    \A d \in Clients : \A i \in DOMAIN delivered[d] :
        LET frame == delivered[d][i]
        IN  Private(frame) /\ frame.to # d => peer[frame.to] = "closed"

\* Once running is false all three threads come to their end (unless SIGPIPE is
\* first): none is left waiting for the mutex or for a ring.
AllThreadsEnd ==
    ~running ~> (kpc = "done" /\ epc = "done" /\ spc = "done") \/ ~alive

Accepted(c, n) == \E m \in accepted : m.client = c /\ m.n = n
Told(c, n) == \E i \in DOMAIN delivered[c] :
    LET frame == delivered[c][i] IN frame.kind = "answer" /\ frame.to = c /\ frame.n = n
Excused(c, n) ==
    \/ peer[c] # "open" \/ c \in missed
    \/ \E frame \in lost : frame.kind = "answer" /\ frame.to = c /\ frame.n = n
    \/ ~alive \/ ~running

\* A message that has entered MessageSink is answered on the connection of the
\* client that sent it, unless EventSink had no room for the answer, the client
\* has left or does not read, or the process stops.
AcceptedIsAnswered ==
    \A c \in Clients : \A n \in 1..MaxMessages :
        Accepted(c, n) ~> Told(c, n) \/ Excused(c, n)

-----------------------------------------------------------------------------
(***************************************************************************)
(* The server as one mailbox (Exchange).                                   *)
(***************************************************************************)
Untagged(m) == [client |-> m.client, n |-> m.n]

\* the messages between a client and the engine
Inbox ==
    { m \in [client : Clients, n : 1..MaxMessages] :
        \/ m.n \in ToSet(requests[m.client])
        \/ m \in { Untagged(q) : q \in ToSet(parsing) \union ToSet(msgSink) } }

\* the events between the engine and the clients
InHand == IF spc \in {"send", "lock", "broadcast"} THEN <<event>> ELSE <<>>
Outgoing == InHand \o eventSink \o pending
Mail == [i \in DOMAIN Outgoing |-> Outgoing[i].frame]

AtEnd(fds) == { fdTable[fd] : fd \in fds \intersect OpenFds }

Ideal == INSTANCE Exchange WITH
             inbox <- Inbox, resting <- { Untagged(m) : m \in resting }, mail <- Mail,
             stage <- IF epc \in {"match", "filled"} THEN epc ELSE "idle",
             taken <- Untagged(taken), order <- Untagged(order),
             members <- AtEnd(fd_to_state), casting <- spc = "broadcast", due <- AtEnd(targets)

\* Whatever the order of the steps of its three threads, the server does what
\* one mailbox would: it processes messages one after the other, each client's
\* in order, and hands out every event, in the order they were made, to whom it
\* is for; only full rings, full sockets and closed connections lose any.
ExchangeSpec == Ideal!Spec

-----------------------------------------------------------------------------
(***************************************************************************)
(* What the documentation says and the code does not do (expected to be    *)
(* violated).                                                              *)
(***************************************************************************)
\* Private events reach the originating client only.
PrivateToOriginatorOnly ==
    \A d \in Clients : \A i \in DOMAIN delivered[d] :
        Private(delivered[d][i]) => delivered[d][i].to = d

\* Completed messages are pushed to MessageSink.
CompletedIsPushed == refused = {}

\* The public events are broadcast: none is left out of their numbering.
EveryPublicIsBroadcast == \A i \in DOMAIN broadcasts : broadcasts[i] = i

\* A broadcast reaches all connected clients, those that read slowly too.
BroadcastReachesAll ==
    spc # "broadcast" =>
        \A c \in Clients : Connected(c) => heard[c] = Since(c)

\* The sender outlives a failure to deliver to one client.
ServerSurvives == alive

\* The engine and the sender drain their rings before they end.
SinksDrained ==
    kpc = "done" /\ epc = "done" /\ spc = "done" => msgSink = <<>> /\ eventSink = <<>>
=============================================================================
