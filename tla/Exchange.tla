------------------------------- MODULE Exchange -------------------------------
(***************************************************************************)
(* What the server promises its clients, as one mailbox: messages go in,   *)
(* each client's in order; each is dropped or processed at one moment; the *)
(* events it makes go out in the order they were made, one after the       *)
(* other, to the client they concern or to everyone.  No threads, rings,   *)
(* descriptors, readiness or mutex.                                        *)
(***************************************************************************)
EXTENDS Integers, Sequences, SequencesExt, FiniteSets

CONSTANTS Clients, Nobody, Senders, MaxMessages, SinkSize, Leavers, SlowReaders   \* as in Server

VARIABLES peer,       \* "new", "waiting", "open", "left", "closed"
          sent,       \* how many messages a client has sent
          inbox,      \* the messages sent, and neither processed nor dropped
          resting,    \* those that became resting orders
          stage,      \* "idle", or "match" or "filled": what became of
          order,      \* the one whose order is matched
          taken,      \* because of this message
          published,  \* how many public events were made
          mail,       \* the events made and not yet dealt with
          members,    \* the clients broadcasts are for
          casting,    \* whether the first event is being broadcast
          due,        \* to whom it has still to go
          delivered,  \* the private and the cut frames a client was sent,
          heard,      \* and the public events
          missed,     \* clients to which a frame could not be written
          alive       \* FALSE once SIGPIPE has killed the server

clientVars == <<peer, sent, inbox>>
bookVars == <<resting, stage, order, taken, published>>
castVars == <<members, casting, due>>
received == <<delivered, heard, missed>>
vars == <<clientVars, bookVars, mail, castVars, received, alive>>

NoMessage == [client |-> Nobody, n |-> 0]
Answer(m) == [kind |-> "answer", to |-> m.client, n |-> m.n]
Fill(m) == [kind |-> "fill", to |-> m.client, n |-> m.n]
Public(k) == [kind |-> "public", n |-> k]
Cut == [kind |-> "cut"]

Init ==
    /\ peer = [c \in Clients |-> "new"]
    /\ sent = [c \in Clients |-> 0]
    /\ inbox = {} /\ mail = <<>>
    /\ resting = {} /\ stage = "idle" /\ order = NoMessage /\ taken = NoMessage /\ published = 0
    /\ members = {} /\ casting = FALSE /\ due = {}
    /\ delivered = [c \in Clients |-> <<>>] /\ heard = [c \in Clients |-> <<>>]
    /\ missed = {} /\ alive = TRUE

-----------------------------------------------------------------------------
\* The clients
Connect(c) ==
    /\ peer[c] = "new"
    /\ peer' = [peer EXCEPT ![c] = "waiting"]
    /\ UNCHANGED <<sent, inbox>>

Send(c) ==
    /\ c \in Senders
    /\ peer[c] \in {"waiting", "open"}
    /\ sent[c] < MaxMessages
    /\ sent' = [sent EXCEPT ![c] = @ + 1]
    /\ inbox' = inbox \union {[client |-> c, n |-> sent[c] + 1]}
    /\ UNCHANGED peer

Leave(c) ==
    /\ c \in Leavers
    /\ peer[c] = "open"
    /\ peer' = [peer EXCEPT ![c] = "left"]
    /\ UNCHANGED <<sent, inbox>>

Outside ==
    /\ \E c \in Clients : Connect(c) \/ Send(c) \/ Leave(c)
    /\ UNCHANGED <<bookVars, mail, castVars, received, alive>>

-----------------------------------------------------------------------------
\* Connections.  Nobody comes to be a member while an event is broadcast.
Accept(c) ==
    /\ peer[c] = "waiting"
    /\ peer' = [peer EXCEPT ![c] = "open"]
    /\ UNCHANGED <<sent, inbox, castVars>>

Admit(c) ==
    /\ peer[c] \in {"open", "left"}
    /\ c \notin members
    /\ ~casting
    /\ members' = members \union {c}
    /\ UNCHANGED <<clientVars, casting, due>>

\* What a client that has left sent and nobody has read is dropped.
Close(c) ==
    /\ peer[c] = "left"
    /\ peer' = [peer EXCEPT ![c] = "closed"]
    /\ inbox' \subseteq inbox
    /\ \A m \in inbox \ inbox' : m.client = c
    /\ members' = members \ {c}
    /\ due' = due \ {c}
    /\ UNCHANGED <<sent, casting>>

Shutdown ==
    /\ ~casting
    /\ peer' = [c \in Clients |-> IF peer[c] = "new" THEN "new" ELSE "closed"]
    /\ members' = {}
    /\ UNCHANGED <<sent, inbox, casting, due>>

Connections ==
    /\ Shutdown \/ \E c \in Clients : Accept(c) \/ Admit(c) \/ Close(c)
    /\ UNCHANGED <<bookVars, mail, received, alive>>

-----------------------------------------------------------------------------
\* A message is dropped only where there are as many others as there is room for,
Refuse(m) ==
    /\ m \in inbox
    /\ Cardinality(inbox) > SinkSize
    /\ inbox' = inbox \ {m}
    /\ UNCHANGED <<bookVars, mail>>

\* and so is an event: as many were made before it and not yet sent.
Lose(i) ==
    /\ i > SinkSize
    /\ mail' = RemoveAt(mail, i)
    /\ UNCHANGED <<inbox, bookVars>>

\* A client's messages are processed in its order, one after the other.  One has
\* its own order matched, or takes one out of the book to match that or none.
Take(m) ==
    /\ stage = "idle"
    /\ m \in inbox
    /\ \A other \in inbox : other.client = m.client => m.n <= other.n
    /\ inbox' = inbox \ {m}
    /\ taken' = m
    /\ stage' = "match"
    /\ \/ order' = m /\ UNCHANGED <<mail, resting, published>>
       \/ /\ order' \in resting
          /\ resting' = resting \ {order'}
          /\ mail' = Append(mail, Public(published + 1))
          /\ published' = published + 1

\* The client of a resting order is told of each trade before the other is.
Trade(r) ==
    /\ stage = "match"
    /\ mail' = mail \o <<Public(published + 1), Public(published + 2), Fill(r)>>
    /\ published' = published + 2
    /\ \/ resting' = resting \ {r} /\ UNCHANGED stage
       \/ stage' = "filled" /\ UNCHANGED resting
    /\ UNCHANGED <<inbox, order, taken>>

Finish ==
    /\ stage # "idle"
    /\ stage' = "idle"
    /\ \/ mail' = Append(mail, Answer(taken)) /\ UNCHANGED <<resting, published>>
       \/ /\ stage = "match"
          /\ mail' = mail \o <<Public(published + 1), Answer(taken)>>
          /\ resting' = resting \union {order}
          /\ published' = published + 1
    /\ order' = NoMessage /\ taken' = NoMessage
    /\ UNCHANGED inbox

Engine ==
    /\ \/ \E m \in inbox : Refuse(m) \/ Take(m)
       \/ \E i \in DOMAIN mail : Lose(i)
       \/ Finish \/ \E r \in resting : Trade(r)
    /\ UNCHANGED <<peer, sent, castVars, received, alive>>

-----------------------------------------------------------------------------
\* Somebody has left who is still being sent to.
Killed == alive' \in BOOLEAN /\ (~alive' => \E c \in Clients : peer[c] = "left")

\* A full socket: nothing of the frame is written, or a part of it.
GivenUp(c) ==
    /\ c \in SlowReaders
    /\ missed' = missed \union {c}
    /\ delivered' \in {delivered, [delivered EXCEPT ![c] = Append(@, Cut)]}
    /\ UNCHANGED <<heard, alive>>

\* A private event goes to the client it concerns, unless that one is gone.
\* Once its connection is closed, another may be sent it.
Deliver ==
    LET frame == Head(mail)
        gone  == peer[frame.to] \in {"left", "closed"}
    IN  /\ mail # <<>>
        /\ frame.kind \in {"answer", "fill"}
        /\ \/ \E c \in Clients :
                /\ peer[c] = "open"
                /\ c = frame.to \/ peer[frame.to] = "closed"
                /\ \/ /\ delivered' = [delivered EXCEPT ![c] = Append(@, frame)]
                      /\ UNCHANGED <<heard, missed, alive>>
                   \/ GivenUp(c)
           \/ gone /\ Killed /\ UNCHANGED received
        /\ mail' = Tail(mail)
        /\ UNCHANGED castVars

StartCast ==
    /\ mail # <<>>
    /\ Head(mail).kind = "public"
    /\ ~casting
    /\ casting' = TRUE
    /\ due' = members
    /\ UNCHANGED <<members, mail, received, alive>>

CastTo(c) ==
    /\ casting
    /\ c \in due
    /\ due' = due \ {c}
    /\ \/ /\ peer[c] = "open"
          /\ \/ /\ heard' = [heard EXCEPT ![c] = Append(@, Head(mail).n)]
                /\ UNCHANGED <<delivered, missed, alive>>
             \/ GivenUp(c)
       \/ peer[c] = "left" /\ Killed /\ UNCHANGED received
    /\ UNCHANGED <<members, casting, mail>>

\* Everyone who was a member has been sent the event, or has left.
EndCast ==
    /\ casting
    /\ due = {}
    /\ casting' = FALSE
    /\ mail' = Tail(mail)
    /\ UNCHANGED <<members, due, received, alive>>

Sender ==
    /\ Deliver \/ StartCast \/ EndCast \/ \E c \in Clients : CastTo(c)
    /\ UNCHANGED <<clientVars, bookVars>>

-----------------------------------------------------------------------------
Next == Outside \/ (alive /\ (Connections \/ Engine \/ Sender))

Spec == Init /\ [][Next]_vars
=============================================================================
