---------------------------- MODULE ExchangeProofs ----------------------------
(***************************************************************************)
(* Server implements Exchange: three threads, two rings, a connection map  *)
(* with its mutex and a table of descriptors are a way to keep one mailbox.*)
(***************************************************************************)
EXTENDS ServerProofs, FiniteSetTheorems

-----------------------------------------------------------------------------
(***************************************************************************)
(* The mailbox is the frames of three sequences, one behind the other.     *)
(***************************************************************************)
Frames(q) == [i \in DOMAIN q |-> q[i].frame]

\* A head and what follows it.
LEMMA ConsIs ==
  ASSUME NEW S, NEW x \in S, NEW s \in Seq(S)
  PROVE  /\ <<x>> \o s \in Seq(S) /\ <<x>> \o s # <<>>
         /\ Head(<<x>> \o s) = x /\ Tail(<<x>> \o s) = s
<1> DEFINE t == <<x>> \o s
<1>1. <<x>> \in Seq(S) /\ Len(<<x>>) = 1 /\ <<x>>[1] = x
  OBVIOUS
<1>2. /\ t \in Seq(S) /\ Len(t) = 1 + Len(s)
      /\ \A i \in 1..(1 + Len(s)) : t[i] = IF i <= 1 THEN <<x>>[i] ELSE s[i - 1]
  BY <1>1, ConcatProperties
<1>3. Len(s) \in Nat
  BY LenProperties
<1> HIDE DEF t
<1>4. t # <<>>
  BY <1>2, <1>3, EmptySeq
<1>5. /\ Head(t) = t[1] /\ Tail(t) \in Seq(S) /\ Len(Tail(t)) = Len(t) - 1
      /\ \A i \in 1..Len(Tail(t)) : Tail(t)[i] = t[i + 1]
  BY <1>2, <1>4, HeadTailProperties
<1>6. \A i \in 1..Len(s) : Tail(t)[i] = s[i]
  BY <1>2, <1>3, <1>5
<1>7. Tail(t) = s
  BY <1>2, <1>3, <1>5, <1>6, SeqEqual
<1> QED
  BY <1>1, <1>2, <1>3, <1>4, <1>5, <1>7 DEF t

\* A sequence is its head and its tail.
LEMMA HeadTailIs ==
  ASSUME NEW S, NEW s \in Seq(S), s # <<>>
  PROVE  /\ Head(s) \in S /\ Tail(s) \in Seq(S)
         /\ s = <<Head(s)>> \o Tail(s)
<1>1. /\ Head(s) \in S /\ Head(s) = s[1] /\ Tail(s) \in Seq(S) /\ Len(Tail(s)) = Len(s) - 1
      /\ \A i \in 1..Len(Tail(s)) : Tail(s)[i] = s[i + 1]
  BY HeadTailProperties
<1> DEFINE t == <<Head(s)>> \o Tail(s)
<1>2. <<Head(s)>> \in Seq(S) /\ Len(<<Head(s)>>) = 1 /\ <<Head(s)>>[1] = Head(s)
  BY <1>1
<1>3. /\ t \in Seq(S) /\ Len(t) = 1 + Len(Tail(s))
      /\ \A i \in 1..(1 + Len(Tail(s))) : t[i] = IF i <= 1 THEN <<Head(s)>>[i] ELSE Tail(s)[i - 1]
  BY <1>1, <1>2, ConcatProperties
<1>4. Len(s) \in Nat \ {0}
  BY EmptySeq
<1> HIDE DEF t
<1>5. Len(t) = Len(s) /\ \A i \in 1..Len(s) : t[i] = s[i]
  BY <1>1, <1>2, <1>3, <1>4
<1>6. t = s
  BY <1>3, <1>5, SeqEqual
<1> QED
  BY <1>1, <1>6 DEF t

\* An element added at the end of one sequence and taken from the next.
LEMMA MoveHead ==
  ASSUME NEW S, NEW a \in Seq(S), NEW b \in Seq(S), b # <<>>
  PROVE  Append(a, Head(b)) \o Tail(b) = a \o b
<1>1. Head(b) \in S /\ Tail(b) \in Seq(S) /\ b = <<Head(b)>> \o Tail(b)
  BY HeadTailIs
<1>2. PICK x \in S : x = Head(b)
  BY <1>1
<1>3. PICK t \in Seq(S) : t = Tail(b)
  BY <1>1
<1>4. <<x>> \in Seq(S) /\ Append(a, x) = a \o <<x>>
  OBVIOUS
<1>5. (a \o <<x>>) \o t = a \o (<<x>> \o t)
  BY <1>4, ConcatAssociative
<1> QED
  BY <1>1, <1>2, <1>3, <1>4, <1>5

\* The frames of sequences that are joined.
LEMMA FramesJoin ==
  ASSUME NEW S, NEW a \in Seq(S), NEW b \in Seq(S)
  PROVE  /\ Frames(a) \in Seq({ e.frame : e \in S }) /\ Len(Frames(a)) = Len(a)
         /\ \A i \in 1..Len(a) : Frames(a)[i] = a[i].frame
         /\ Frames(a \o b) = Frames(a) \o Frames(b)
<1> DEFINE F == { e.frame : e \in S }
<1>1. ASSUME NEW q \in Seq(S)
      PROVE  /\ Frames(q) \in Seq(F) /\ Len(Frames(q)) = Len(q)
             /\ \A i \in 1..Len(q) : Frames(q)[i] = q[i].frame
  <2>1. Len(q) \in Nat /\ DOMAIN q = 1..Len(q) /\ \A i \in 1..Len(q) : q[i] \in S
    BY LenProperties, ElementOfSeq
  <2>2. \A i \in 1..Len(q) : q[i].frame \in F
    BY <2>1
  <2> HIDE DEF F
  <2>3. Frames(q) \in [1..Len(q) -> F]
    BY <2>1, <2>2 DEF Frames
  <2> QED
    BY <2>1, <2>3 DEF Frames
<1>2. /\ a \o b \in Seq(S) /\ Len(a \o b) = Len(a) + Len(b)
      /\ \A i \in 1..(Len(a) + Len(b)) : (a \o b)[i] = IF i <= Len(a) THEN a[i] ELSE b[i - Len(a)]
  BY ConcatProperties
<1>3. PICK c \in Seq(S) : c = a \o b
  BY <1>2
<1> HIDE DEF F
<1>4. PICK f \in Seq(F) :
        f = Frames(a) /\ Len(f) = Len(a) /\ \A i \in 1..Len(a) : f[i] = a[i].frame
  BY <1>1
<1>5. PICK g \in Seq(F) :
        g = Frames(b) /\ Len(g) = Len(b) /\ \A i \in 1..Len(b) : g[i] = b[i].frame
  BY <1>1
<1>6. PICK h \in Seq(F) :
        h = Frames(c) /\ Len(h) = Len(c) /\ \A i \in 1..Len(c) : h[i] = c[i].frame
  BY <1>1
<1>7. /\ f \o g \in Seq(F) /\ Len(f \o g) = Len(f) + Len(g)
      /\ \A i \in 1..(Len(f) + Len(g)) : (f \o g)[i] = IF i <= Len(f) THEN f[i] ELSE g[i - Len(f)]
  BY ConcatProperties
<1>8. Len(a) \in Nat /\ Len(b) \in Nat
  BY LenProperties
<1>9. ASSUME NEW i \in 1..Len(c) PROVE (f \o g)[i] = h[i]
  <2>1. i \in 1..(Len(a) + Len(b)) /\ h[i] = c[i].frame
    BY <1>2, <1>3, <1>6
  <2>2. CASE i <= Len(a)
    <3>1. i \in 1..Len(a) /\ c[i] = a[i]
      BY <1>2, <1>3, <1>8, <2>1, <2>2
    <3> QED
      BY <1>4, <1>5, <1>7, <2>1, <2>2, <3>1
  <2>3. CASE ~(i <= Len(a))
    <3>1. i - Len(a) \in 1..Len(b) /\ c[i] = b[i - Len(a)]
      BY <1>2, <1>3, <1>8, <2>1, <2>3
    <3> QED
      BY <1>4, <1>5, <1>7, <2>1, <2>3, <3>1
  <2> QED
    BY <2>2, <2>3
<1>10. f \o g = h
  BY <1>2, <1>3, <1>4, <1>5, <1>6, <1>7, <1>9, SeqEqual
<1> QED
  BY <1>3, <1>4, <1>5, <1>6, <1>10 DEF F

\* The frame of one event.
LEMMA FrameOfOne == ASSUME NEW e PROVE Frames(<<e>>) = <<e.frame>>
<1>1. Frames(<<e>>) = [i \in DOMAIN <<e>> |-> <<e>>[i].frame]
  BY DEF Frames
<1>2. DOMAIN <<e>> = 1..1 /\ \A i \in 1..1 : <<e>>[i].frame = e.frame
  OBVIOUS
<1>3. [i \in 1..1 |-> <<e>>[i].frame] = <<e.frame>>
  OBVIOUS
<1> QED
  BY <1>1, <1>2, <1>3

\* The frame of the event in front, and those behind it.
LEMMA FramesHead ==
  ASSUME NEW S, NEW e \in S, NEW q \in Seq(S)
  PROVE  /\ Frames(<<e>> \o q) # <<>>
         /\ Head(Frames(<<e>> \o q)) = e.frame /\ Tail(Frames(<<e>> \o q)) = Frames(q)
<1> DEFINE F == { x.frame : x \in S }
<1>1. Frames(<<e>>) = <<e.frame>>
  BY FrameOfOne
<1>2. Frames(<<e>> \o q) = <<e.frame>> \o Frames(q) /\ Frames(q) \in Seq(F)
  <2>1. <<e>> \in Seq(S)
    OBVIOUS
  <2> QED
    BY <1>1, <2>1, FramesJoin
<1>3. e.frame \in F
  OBVIOUS
<1> HIDE DEF F
<1>4. PICK f \in Seq(F) : f = Frames(q)
  BY <1>2
<1> QED
  BY <1>2, <1>3, <1>4, ConsIs

\* What is left when an event in the middle is dropped.
LEMMA FramesWithout ==
  ASSUME NEW S, NEW a \in Seq(S), NEW b \in Seq(S), b # <<>>
  PROVE  /\ Len(a) + 1 \in DOMAIN Frames(a \o b)
         /\ Frames(a \o Tail(b)) = Ideal!RemoveAt(Frames(a \o b), Len(a) + 1)
<1> DEFINE F == { x.frame : x \in S }
<1>1. Head(b) \in S /\ Tail(b) \in Seq(S) /\ Len(Tail(b)) = Len(b) - 1
      /\ \A i \in 1..Len(Tail(b)) : Tail(b)[i] = b[i + 1]
  BY HeadTailProperties
<1>2. Len(a) \in Nat /\ Len(b) \in Nat \ {0}
  BY LenProperties, EmptySeq
<1>3. PICK f \in Seq(F) : f = Frames(a)
  BY FramesJoin
<1>4. PICK g \in Seq(F) : g = Frames(b)
  BY FramesJoin
<1>5. PICK h \in Seq(F) : h = Frames(Tail(b))
  BY <1>1, FramesJoin
<1>6. /\ Frames(a \o b) = f \o g /\ Frames(a \o Tail(b)) = f \o h
      /\ Len(f) = Len(a) /\ Len(g) = Len(b) /\ Len(h) = Len(b) - 1
  BY <1>1, <1>3, <1>4, <1>5, FramesJoin, Zenon
<1>7. \A i \in 1..Len(h) : h[i] = g[i + 1]
  <2>1. \A i \in 1..Len(b) : g[i] = b[i].frame
    BY <1>4, FramesJoin
  <2>2. \A i \in 1..Len(Tail(b)) : h[i] = Tail(b)[i].frame
    BY <1>1, <1>5, FramesJoin
  <2> QED
    BY <1>1, <1>2, <1>6, <2>1, <2>2
<1> HIDE DEF F
<1>8. PICK q \in Seq(F) : q = f \o g
  BY ConcatProperties
<1>9. /\ Len(q) = Len(f) + Len(g)
      /\ \A i \in 1..(Len(f) + Len(g)) : q[i] = IF i <= Len(f) THEN f[i] ELSE g[i - Len(f)]
  BY <1>8, ConcatProperties
<1>10. \A i \in 1..Len(q) : q[i] \in F
  BY ElementOfSeq
<1>11. PICK n \in Nat : n = Len(a)
  BY <1>2
<1>12. SubSeq(q, 1, n) = f
  <2>1. /\ SubSeq(q, 1, n) \in Seq(F) /\ Len(SubSeq(q, 1, n)) = n
        /\ \A i \in 1..n : SubSeq(q, 1, n)[i] = q[i]
    BY <1>2, <1>6, <1>9, <1>10, <1>11, SubSeqProperties
  <2> QED
    BY <1>2, <1>6, <1>9, <1>11, <2>1, SeqEqual
<1>13. SubSeq(q, n + 2, Len(q)) = h
  <2>1. PICK k \in Nat : k = Len(q)
    BY <1>2, <1>6, <1>9
  <2>2. /\ k = n + Len(h) + 1 /\ Len(h) \in Nat /\ \A i \in (n + 2)..k : q[i] \in F
    BY <1>2, <1>6, <1>9, <1>10, <1>11, <2>1
  <2>3. /\ SubSeq(q, n + 2, k) \in Seq(F) /\ Len(SubSeq(q, n + 2, k)) = Len(h)
        /\ \A i \in 1..Len(h) : SubSeq(q, n + 2, k)[i] = q[n + 2 + i - 1]
    BY <2>2, SubSeqProperties
  <2>4. \A i \in 1..Len(h) : q[n + 2 + i - 1] = h[i]
    <3> SUFFICES ASSUME NEW i \in 1..Len(h) PROVE q[n + 1 + i] = h[i]
      BY <1>11, <2>2
    <3>0. Len(f) = n /\ Len(f) + Len(g) = n + Len(h) + 1
      BY <1>2, <1>6, <1>11
    <3>1. PICK j \in 1..(Len(f) + Len(g)) : j = n + 1 + i /\ ~(j <= Len(f)) /\ j - Len(f) = i + 1
      <4>1. /\ n + 1 + i \in 1..(n + Len(h) + 1)
            /\ ~(n + 1 + i <= n) /\ (n + 1 + i) - n = i + 1
        BY <2>2
      <4> QED
        BY <3>0, <4>1
    <3>2. q[j] = g[j - Len(f)]
      BY <1>9, <3>1
    <3> QED
      BY <1>7, <3>1, <3>2
  <2> QED
    BY <2>1, <2>2, <2>3, <2>4, SeqEqual
<1>14. Ideal!RemoveAt(q, n + 1) = f \o h
  <2>1. (n + 1) - 1 = n /\ (n + 1) + 1 = n + 2
    OBVIOUS
  <2> QED
    BY <1>12, <1>13, <2>1, Zenon DEF Ideal!RemoveAt
<1>15. n + 1 \in DOMAIN q
  BY <1>2, <1>6, <1>9, <1>11, LenProperties
<1> QED
  BY <1>6, <1>8, <1>11, <1>14, <1>15

-----------------------------------------------------------------------------
(***************************************************************************)
(* What Exchange needs of Server beside the invariants so far: nothing is  *)
(* half parsed between two wakeups, and no message rests twice, nor does   *)
(* the one whose order is matched rest already.                            *)
(***************************************************************************)
MailInv ==
    /\ kpc # "parse" => parsing = <<>>
    /\ epc \in Working => \A r \in resting : Untagged(r) # Untagged(order)
    /\ \A r, s \in resting : Untagged(r) = Untagged(s) => r = s

\* The last element is taken.
LEMMA LastTaken ==
  ASSUME NEW S, NEW s \in Seq(S), s # <<>>, ~(Len(s) > 1)
  PROVE  Tail(s) = <<>>
<1>1. Tail(s) \in Seq(S) /\ Len(Tail(s)) = Len(s) - 1
  BY HeadTailProperties
<1>2. Len(s) \in Nat \ {0}
  BY EmptySeq
<1>3. Len(Tail(s)) = 0
  BY <1>1, <1>2
<1> QED
  BY <1>1, <1>3, EmptySeq

\* Steps of the kqueue thread.
LEMMA KqueueMail == ASSUME TypeInv, MailInv, Kqueue PROVE MailInv'
<1>1. UNCHANGED <<epc, order, resting>>
  BY DEF Kqueue, engineVars
<1>2. parsing \in Seq(Message) /\ requests \in [Clients -> Seq(1..MaxMessages)]
      /\ fdTable \in [Fds -> Clients \union {Nobody}]
  BY OrderTypes
<1>3. CASE UNCHANGED parsing /\ kpc # "parse"
  BY <1>1, <1>3 DEF MailInv
<1>4. ASSUME NEW fd \in Fds, NEW k \in 0..MaxMessages, KqRead(fd, k) PROVE MailInv'
  <2>1. fdTable[fd] \in Clients
    BY <1>2, <1>4 DEF KqRead, OpenFds
  <2>2. PICK q \in Seq(1..MaxMessages) : q = requests[fdTable[fd]]
    BY <1>2, <2>1
  <2>3. /\ parsing' = [i \in 1..k |-> Stamp(fd, q[i])]
        /\ kpc' = IF k = 0 THEN "serve" ELSE "parse"
    BY <1>4, <2>2 DEF KqRead
  <2>4. k = 0 => parsing' = <<>>
    BY <2>3
  <2> QED
    BY <1>1, <2>3, <2>4 DEF MailInv
<1>5. CASE KqPush
  <2>1. /\ parsing' = Tail(parsing) /\ parsing # <<>>
        /\ kpc' = IF Len(parsing) > 1 THEN "parse" ELSE "serve"
    BY <1>5 DEF KqPush, TypeInv, BusyInv
  <2>2. ~(Len(parsing) > 1) => parsing' = <<>>
    BY <1>2, <2>1, LastTaken
  <2> QED
    BY <1>1, <2>1, <2>2 DEF MailInv
<1>6. ASSUME \/ KqWait \/ KqAcceptFails \/ KqTest \/ KqLock \/ KqInsert \/ KqErase \/ KqClear
             \/ \E fd \in Fds : KqClose(fd) \/ \E c \in Clients : KqAccept(c, fd)
      PROVE  UNCHANGED parsing /\ kpc # "parse"
  BY <1>6 DEF KqWait, KqAcceptFails, KqTest, KqLock, KqInsert, KqErase, KqClear, KqAccept, KqClose
<1> QED
  BY <1>3, <1>4, <1>5, <1>6 DEF Kqueue

\* Steps of the engine.  A message is later than those of its client that rest.
LEMMA EngineMail == ASSUME TypeInv, QueueInv, OrderInv, MailInv, Engine PROVE MailInv'
<1>1. UNCHANGED <<kpc, parsing>>
  BY DEF Engine, kqueueVars
<1>2. /\ msgSink \in Seq(Message) /\ resting \subseteq Message
      /\ \A m \in Message : m.client \in Clients /\ m.n \in 1..MaxMessages
  BY OrderTypes
<1>3. CASE EnginePop
  <2>1. PICK m : m = Head(msgSink)
    OBVIOUS
  <2>2. /\ msgSink # <<>> /\ epc' = "match"
        /\ \/ order' = m /\ UNCHANGED resting
           \/ \E r \in resting : order' = r /\ resting' = resting \ {r}
    BY <1>3, <2>1 DEF EnginePop
  <2>3. CASE order' = m /\ UNCHANGED resting
    <3>1. m \in ToSet(msgSink) /\ m \in Message
      BY <1>2, <2>1, <2>2, HeadOrder, InSeq DEF QueueInv
    <3>2. \A r \in resting : r.client = m.client => r.n # m.n
      <4>1. \A r \in resting : r \in Message /\ (m.client = r.client => r.n < m.n)
        BY <1>2, <3>1 DEF OrderInv, Past
      <4> QED
        BY <1>2, <3>1, <4>1
    <3>3. \A r \in resting : Untagged(r) # Untagged(m)
      BY <3>2 DEF Untagged
    <3> QED
      BY <1>1, <2>3, <3>3 DEF MailInv
  <2>4. ASSUME NEW r \in resting, order' = r, resting' = resting \ {r} PROVE MailInv'
    BY <1>1, <2>4 DEF MailInv
  <2> QED
    BY <2>2, <2>3, <2>4
<1>4. ASSUME NEW r \in resting, EngineTrade(r) PROVE MailInv'
  <2>1. epc \in Working /\ UNCHANGED order /\ resting' \subseteq resting
    BY <1>4 DEF EngineTrade, Working
  <2> QED
    BY <1>1, <2>1 DEF MailInv
<1>5. CASE EngineFinish
  <2>1. /\ epc \in Working /\ epc' = "loop"
        /\ UNCHANGED resting \/ resting' = resting \union {order}
    BY <1>5 DEF EngineFinish, Working
  <2> QED
    BY <1>1, <2>1 DEF MailInv, Working
<1>6. CASE EnginePush
  BY <1>1, <1>6 DEF EnginePush, MailInv
<1>7. CASE EngineStop
  BY <1>1, <1>7 DEF EngineStop, MailInv, Working
<1> QED
  BY <1>3, <1>4, <1>5, <1>6, <1>7 DEF Engine

\* The invariant the refinement stands on.
ServerInv == Known /\ NetInv /\ RouteInv /\ CastInv /\ QueueInv /\ OrderInv /\ MailInv

\* It holds in every reachable state.
LEMMA ServerInvariant == Spec => []ServerInv
<1>1. Init => MailInv
  BY DEF Init, MailInv, Working
<1>2. TypeInv /\ QueueInv /\ OrderInv /\ MailInv /\ [Next]_vars => MailInv'
  <2> SUFFICES ASSUME TypeInv, QueueInv, OrderInv, MailInv, [Next]_vars PROVE MailInv'
    OBVIOUS
  <2>1. CASE Outside \/ Stop \/ Sender \/ UNCHANGED vars
    <3>1. UNCHANGED <<kpc, parsing, epc, order, resting>>
      BY <2>1 DEF Outside, Stop, Sender, vars, kqueueVars, engineVars
    <3> QED
      BY <3>1 DEF MailInv
  <2> QED
    BY <2>1, KqueueMail, EngineMail DEF Next
<1> QED
  BY <1>1, <1>2, NetInvariant, RouteInvariant, CastInvariant, OrderInvariant, PTL
     DEF Spec, ServerInv, Known

-----------------------------------------------------------------------------
(***************************************************************************)
(* The variables of Exchange, as the server has them.                      *)
(***************************************************************************)
Requests == [client : Clients, n : 1..MaxMessages]

\* A message is on its way from a client to the engine.
Waits(c, n) ==
    \/ n \in ToSet(requests[c])
    \/ \E q \in ToSet(parsing) \union ToSet(msgSink) : q.client = c /\ q.n = n

\* A member of the inbox is a message on its way, before and after a step.
LEMMA InboxIs ==
  /\ Inbox = { m \in Requests : Waits(m.client, m.n) }
  /\ Inbox' = { m \in Requests : Waits(m.client, m.n)' }
<1>1. \A m \in Requests : \A q : m = Untagged(q) <=> q.client = m.client /\ q.n = m.n
  BY DEF Requests, Untagged
<1>2. \A m \in Requests :
        m \in { Untagged(q) : q \in ToSet(parsing) \union ToSet(msgSink) }
        <=> \E q \in ToSet(parsing) \union ToSet(msgSink) : q.client = m.client /\ q.n = m.n
  BY <1>1
<1>3. \A m \in Requests :
        m \in { Untagged(q) : q \in ToSet(parsing') \union ToSet(msgSink') }
        <=> \E q \in ToSet(parsing') \union ToSet(msgSink') : q.client = m.client /\ q.n = m.n
  BY <1>1
<1>4. Inbox = { m \in Requests : Waits(m.client, m.n) }
  BY <1>2 DEF Inbox, Waits, Requests
<1>5. Inbox' = { m \in Requests : Waits(m.client, m.n)' }
  BY <1>3 DEF Inbox, Waits, Requests
<1> QED
  BY <1>4, <1>5

\* The set of a sequence is its head and those of its tail.
LEMMA HeadTailSet ==
  ASSUME NEW S, NEW s \in Seq(S), s # <<>>
  PROVE  ToSet(s) = {Head(s)} \union ToSet(Tail(s))
<1> DEFINE t == Tail(s)
<1>1. /\ Head(s) = s[1] /\ t \in Seq(S) /\ Len(t) = Len(s) - 1
      /\ \A i \in 1..Len(t) : t[i] = s[i + 1]
  BY HeadTailProperties
<1>2. Len(s) \in Nat \ {0} /\ DOMAIN s = 1..Len(s) /\ DOMAIN t = 1..Len(t)
  BY <1>1, LenProperties, EmptySeq
<1> HIDE DEF t
<1>3. ASSUME NEW x \in ToSet(s) PROVE x \in {Head(s)} \union ToSet(t)
  <2>1. PICK i \in DOMAIN s : x = s[i]
    BY DEF ToSet
  <2>2. CASE i = 1
    BY <1>1, <2>1, <2>2
  <2>3. CASE i # 1
    <3>1. PICK j \in DOMAIN t : i = j + 1
      <4>1. i - 1 \in DOMAIN t /\ i = (i - 1) + 1
        BY <1>1, <1>2, <2>3
      <4> QED
        BY <4>1
    <3> QED
      BY <1>1, <1>2, <2>1, <3>1 DEF ToSet
  <2> QED
    BY <2>2, <2>3
<1>4. ASSUME NEW x \in {Head(s)} \union ToSet(t) PROVE x \in ToSet(s)
  <2>1. CASE x = Head(s)
    BY <1>1, <1>2, <2>1 DEF ToSet
  <2>2. CASE x \in ToSet(t)
    <3>1. PICK j \in DOMAIN t : x = t[j]
      BY <2>2 DEF ToSet
    <3>2. j + 1 \in DOMAIN s /\ x = s[j + 1]
      BY <1>1, <1>2, <3>1
    <3> QED
      BY <3>2 DEF ToSet
  <2> QED
    BY <2>1, <2>2
<1>5. ToSet(s) = {Head(s)} \union ToSet(t)
  BY <1>3, <1>4
<1> QED
  BY <1>5 DEF t

\* An element added at the end is one more in the set.
LEMMA AppendSet ==
  ASSUME NEW S, NEW s \in Seq(S), NEW x \in S
  PROVE  ToSet(Append(s, x)) = ToSet(s) \union {x}
<1>1. /\ ToSet(Append(s, x)) = ToSet(s) \union {x}
      /\ Ordered(s, {}) /\ (\A y \in ToSet(s) : <<y, x>> \in {}) => Ordered(Append(s, x), {})
  BY AppendOrder
<1> QED
  BY <1>1

\* What a variable of Exchange is made of does not change, so it does not.
LEMMA SameInbox == ASSUME UNCHANGED <<requests, parsing, msgSink>> PROVE Inbox' = Inbox
BY DEF Inbox

LEMMA SameMail == ASSUME UNCHANGED <<spc, event, eventSink, pending>> PROVE Mail' = Mail
BY DEF Mail, Outgoing, InHand

LEMMA SameMembers ==
  ASSUME UNCHANGED <<fdTable, fd_to_state>> PROVE AtEnd(fd_to_state)' = AtEnd(fd_to_state)
BY DEF AtEnd, OpenFds

LEMMA SameDue == ASSUME UNCHANGED <<fdTable, targets>> PROVE AtEnd(targets)' = AtEnd(targets)
BY DEF AtEnd, OpenFds

\* Frames and messages are the same in both.
LEMMA SameWords ==
  /\ \A m : Ideal!Answer(Untagged(m)) = Answer(m) /\ Ideal!Fill(Untagged(m)) = Fill(m)
  /\ \A k : Ideal!Public(k) = Public(k)
  /\ Ideal!Cut = Cut
  /\ Ideal!NoMessage = Untagged(NoMessage)
BY DEF Ideal!Answer, Ideal!Fill, Ideal!Public, Ideal!Cut, Ideal!NoMessage,
       Answer, Fill, Public, Cut, NoMessage, Untagged

\* How far the engine is with a message.
Stage == IF epc \in {"match", "filled"} THEN epc ELSE "idle"

\* What one step of Server is to Exchange.
IdealStep == Ideal!Next \/ UNCHANGED Ideal!vars

\* A step that moves nothing a client could see.
LEMMA Unseen ==
  ASSUME UNCHANGED <<peer, sent, resting, published, delivered, heard, missed, alive>>,
         UNCHANGED <<order, taken>>, Stage' = Stage,
         Inbox' = Inbox, Mail' = Mail, AtEnd(fd_to_state)' = AtEnd(fd_to_state),
         (spc = "broadcast")' = (spc = "broadcast"), AtEnd(targets)' = AtEnd(targets)
  PROVE  IdealStep
BY DEF IdealStep, Ideal!vars, Ideal!clientVars, Ideal!bookVars, Ideal!castVars, Ideal!received,
       Stage

-----------------------------------------------------------------------------
(***************************************************************************)
(* The clients.                                                            *)
(***************************************************************************)
\* What a step of a client leaves alone, for Server and for Exchange.
LEMMA OutsideKeeps ==
  ASSUME Outside
  PROVE  /\ UNCHANGED <<resting, published, delivered, heard, missed, alive, parsing, msgSink>>
         /\ UNCHANGED <<epc, order, taken>>
         /\ Mail' = Mail /\ AtEnd(fd_to_state)' = AtEnd(fd_to_state)
         /\ spc' = spc /\ AtEnd(targets)' = AtEnd(targets)
<1>1. /\ UNCHANGED <<alive, fd_to_state, msgSink, eventSink, parsing>>
      /\ UNCHANGED <<epc, order, taken, pending, resting, published, spc, event, targets>>
  BY DEF Outside, kqueueVars, engineVars, senderVars
<1>2. UNCHANGED <<fdTable, delivered, heard, missed>>
  BY DEF Outside, Connect, Send, Leave
<1> QED
  BY <1>1, <1>2, SameMail, SameMembers, SameDue

\* The inbox of Exchange gets what a client sends.
LEMMA SendIdeal ==
  ASSUME TypeInv, NEW c \in Clients, Send(c), UNCHANGED <<parsing, msgSink>>
  PROVE  Ideal!Send(c)
<1>1. /\ requests \in [Clients -> Seq(1..MaxMessages)]
      /\ sent[c] + 1 \in 1..MaxMessages
  BY OrderTypes, ServerAssumption DEF Send
<1>2. PICK k \in 1..MaxMessages : k = sent[c] + 1
  BY <1>1
<1>3. /\ c \in Senders /\ peer[c] \in {"waiting", "open"} /\ sent[c] < MaxMessages
      /\ sent' = [sent EXCEPT ![c] = @ + 1] /\ UNCHANGED peer
      /\ requests' = [requests EXCEPT ![c] = Append(@, k)]
  BY <1>2 DEF Send
<1>4. ToSet(Append(requests[c], k)) = ToSet(requests[c]) \union {k}
  <2>0. PICK S : S = 1..MaxMessages
    OBVIOUS
  <2>1. PICK q \in Seq(S) : q = requests[c]
    BY <1>1, <2>0
  <2>2. k \in S
    BY <2>0
  <2>3. ToSet(Append(q, k)) = ToSet(q) \union {k}
    BY <2>2, AppendSet
  <2> QED
    BY <2>1, <2>3
<1>5. \A m \in Requests :
        Waits(m.client, m.n)' <=> Waits(m.client, m.n) \/ m = [client |-> c, n |-> k]
  <2> SUFFICES ASSUME NEW m \in Requests
               PROVE  Waits(m.client, m.n)' <=> Waits(m.client, m.n) \/ m = [client |-> c, n |-> k]
    OBVIOUS
  <2>1. m.client \in Clients /\ (m = [client |-> c, n |-> k] <=> m.client = c /\ m.n = k)
    BY DEF Requests
  <2>2. m.n \in ToSet(requests'[m.client]) <=>
          m.n \in ToSet(requests[m.client]) \/ (m.client = c /\ m.n = k)
    BY <1>1, <1>3, <1>4, <2>1
  <2> QED
    BY <2>1, <2>2 DEF Waits
<1>6. [client |-> c, n |-> k] \in Requests
  BY DEF Requests
<1>7. Inbox' = Inbox \union {[client |-> c, n |-> k]}
  BY <1>5, <1>6, InboxIs
<1> QED
  BY <1>2, <1>3, <1>7 DEF Ideal!Send

LEMMA OutsideIdeal == ASSUME TypeInv, Outside PROVE Ideal!Next
<1>1. PICK c \in Clients : Connect(c) \/ Send(c) \/ Leave(c)
  BY DEF Outside
<1>2. Ideal!Connect(c) \/ Ideal!Send(c) \/ Ideal!Leave(c)
  <2>1. CASE Connect(c)
    <3>1. Inbox' = Inbox
      BY <2>1, OutsideKeeps, SameInbox DEF Connect
    <3> QED
      BY <2>1, <3>1 DEF Connect, Ideal!Connect
  <2>2. CASE Send(c)
    BY <2>2, OutsideKeeps, SendIdeal
  <2>3. CASE Leave(c)
    <3>1. Inbox' = Inbox
      BY <2>3, OutsideKeeps, SameInbox DEF Leave
    <3> QED
      BY <2>3, <3>1 DEF Leave, Ideal!Leave
  <2> QED
    BY <1>1, <2>1, <2>2, <2>3
<1>3. Ideal!Outside
  BY <1>2, OutsideKeeps
     DEF Ideal!Outside, Ideal!bookVars, Ideal!castVars, Ideal!received
<1> QED
  BY <1>3 DEF Ideal!Next

-----------------------------------------------------------------------------
(***************************************************************************)
(* The kqueue thread: connections and what it hands to the engine.         *)
(***************************************************************************)
\* What every step of it leaves alone.
LEMMA KqueueKeeps ==
  ASSUME Kqueue
  PROVE  /\ alive /\ UNCHANGED <<resting, published, alive, targets, spc, epc, order, taken>>
         /\ Stage' = Stage /\ Mail' = Mail
<1>1. /\ alive /\ UNCHANGED <<alive, eventSink, pending, resting, published, spc, event, targets>>
      /\ UNCHANGED <<epc, order, taken>>
  BY DEF Kqueue, engineVars, senderVars
<1> QED
  BY <1>1, SameMail DEF Stage

\* A step of Exchange that concerns connections.
LEMMA ConnectionStep ==
  ASSUME Kqueue, UNCHANGED <<delivered, heard, missed>>,
         Ideal!Shutdown \/ \E c \in Clients : Ideal!Accept(c) \/ Ideal!Admit(c) \/ Ideal!Close(c)
  PROVE  Ideal!Next
<1>1. Ideal!Connections
  BY KqueueKeeps DEF Ideal!Connections, Ideal!bookVars, Ideal!received, Stage
<1> QED
  BY <1>1, KqueueKeeps DEF Ideal!Next

\* Accepting changes no entry of the map, and no broadcast is for the number.
LEMMA AcceptIdeal ==
  ASSUME ServerInv, Kqueue, NEW fd \in Fds, NEW c \in Clients, KqAccept(c, fd)
  PROVE  Ideal!Next
<1>1. /\ kpc = "serve" /\ peer[c] = "waiting" /\ fd \notin OpenFds
      /\ fdTable' = [fdTable EXCEPT ![fd] = c] /\ peer' = [peer EXCEPT ![c] = "open"]
      /\ UNCHANGED <<sent, requests, delivered, heard, missed, fd_to_state, msgSink, parsing>>
  BY DEF KqAccept
<1>2. /\ fdTable \in [Fds -> Clients \union {Nobody}]
      /\ fd_to_state = OpenFds /\ targets \subseteq fd_to_state
  BY <1>1 DEF ServerInv, Known, TypeInv, TypeOK, MapInv, ConnectionMapIsOpenFds, CastInv
<1>3. OpenFds' = OpenFds \union {fd} /\ \A f \in OpenFds : fdTable'[f] = fdTable[f]
  BY <1>1, <1>2, ServerAssumption DEF OpenFds
<1>4. AtEnd(fd_to_state)' = AtEnd(fd_to_state) /\ AtEnd(targets)' = AtEnd(targets)
  <2>1. /\ fd_to_state' \intersect OpenFds' = fd_to_state \intersect OpenFds
        /\ targets' \intersect OpenFds' = targets \intersect OpenFds
    BY <1>1, <1>2, <1>3, KqueueKeeps
  <2> QED
    BY <1>3, <2>1 DEF AtEnd
<1>5. Inbox' = Inbox
  BY <1>1, SameInbox
<1>6. Ideal!Accept(c)
  BY <1>1, <1>4, <1>5, KqueueKeeps DEF Ideal!Accept, Ideal!castVars
<1> QED
  BY <1>1, <1>6, ConnectionStep

\* The new entry is a client that was in no other; the mutex is not the sender's.
LEMMA InsertIdeal == ASSUME ServerInv, Kqueue, KqInsert PROVE Ideal!Next
<1>1. /\ kpc = "inserting" /\ fd_to_state' = fd_to_state \union {kfd}
      /\ UNCHANGED <<peer, fdTable, sent, requests, delivered, heard, missed, msgSink, parsing>>
  BY DEF KqInsert, network
<1>2. kfd \in OpenFds /\ fd_to_state = OpenFds \ {kfd} /\ spc # "broadcast"
  BY <1>1
  DEF ServerInv, Known, MapInv, HandInv, Accepting, ConnectionMapIsOpenFds, MutexInv, Changing
<1>3. /\ fdTable[kfd] \in Clients /\ peer[fdTable[kfd]] \in {"open", "left"}
      /\ \A f \in OpenFds \ {kfd} : fdTable[f] # fdTable[kfd]
  BY <1>2 DEF ServerInv, Known, TypeInv, TypeOK, NetInv, PeerInv, OneFd, OpenFds
<1>4. OpenFds' = OpenFds
  BY <1>1 DEF OpenFds
<1>5. AtEnd(fd_to_state)' = AtEnd(fd_to_state) \union {fdTable[kfd]}
  <2>1. fd_to_state' \intersect OpenFds' = (fd_to_state \intersect OpenFds) \union {kfd}
    BY <1>1, <1>2, <1>4
  <2> QED
    BY <1>1, <2>1 DEF AtEnd
<1>6. fdTable[kfd] \notin AtEnd(fd_to_state)
  BY <1>2, <1>3 DEF AtEnd
<1>7. AtEnd(targets)' = AtEnd(targets) /\ Inbox' = Inbox
  BY <1>1, KqueueKeeps, SameDue, SameInbox
<1>8. Ideal!Admit(fdTable[kfd])
  BY <1>1, <1>2, <1>3, <1>5, <1>6, <1>7, KqueueKeeps DEF Ideal!Admit, Ideal!clientVars
<1> QED
  BY <1>1, <1>3, <1>8, ConnectionStep

\* With its descriptor the client is out of the map's open entries, and what it
\* sent and nobody read is gone.
LEMMA CloseIdeal == ASSUME ServerInv, Kqueue, NEW fd \in Fds, KqClose(fd) PROVE Ideal!Next
<1>1. PICK c : c = fdTable[fd]
  OBVIOUS
<1>2. /\ fd \in OpenFds /\ peer[c] = "left"
      /\ peer' = [peer EXCEPT ![c] = "closed"] /\ requests' = [requests EXCEPT ![c] = <<>>]
      /\ fdTable' = [fdTable EXCEPT ![fd] = Nobody]
      /\ UNCHANGED <<sent, delivered, heard, missed, fd_to_state, msgSink, parsing>>
  BY <1>1 DEF KqClose
<1>3. /\ fdTable \in [Fds -> Clients \union {Nobody}] /\ c \in Clients
      /\ requests \in [Clients -> Seq(1..MaxMessages)]
      /\ \A f \in OpenFds \ {fd} : fdTable[f] # c
  BY <1>1, <1>2 DEF ServerInv, Known, TypeInv, TypeOK, NetInv, OneFd, OpenFds
<1>4. OpenFds' = OpenFds \ {fd} /\ \A f \in OpenFds \ {fd} : fdTable'[f] = fdTable[f]
  BY <1>2, <1>3, ServerAssumption DEF OpenFds
<1>5. /\ AtEnd(fd_to_state)' = AtEnd(fd_to_state) \ {c}
      /\ AtEnd(targets)' = AtEnd(targets) \ {c}
  <2>1. ASSUME NEW fds, NEW fdsNext, fdsNext = fds
        PROVE  { fdTable'[f] : f \in fdsNext \intersect OpenFds' }
               = { fdTable[f] : f \in fds \intersect OpenFds } \ {c}
    BY <1>1, <1>3, <1>4, <2>1
  <2>2. UNCHANGED <<fd_to_state, targets>>
    BY <1>2, KqueueKeeps
  <2> QED
    BY <2>1, <2>2 DEF AtEnd
<1>6. \A m \in Requests : /\ Waits(m.client, m.n)' => Waits(m.client, m.n)
                          /\ m.client # c => (Waits(m.client, m.n) => Waits(m.client, m.n)')
  <2> SUFFICES ASSUME NEW m \in Requests
               PROVE  /\ Waits(m.client, m.n)' => Waits(m.client, m.n)
                      /\ m.client # c => (Waits(m.client, m.n) => Waits(m.client, m.n)')
    OBVIOUS
  <2>1. m.client \in Clients /\ ToSet(<<>>) = {}
    BY DEF Requests, ToSet
  <2>2. /\ m.client # c => requests'[m.client] = requests[m.client]
        /\ m.client = c => ToSet(requests'[m.client]) = {}
    BY <1>2, <1>3, <2>1
  <2> QED
    BY <1>2, <2>2 DEF Waits
<1>7. Inbox' \subseteq Inbox /\ \A m \in Inbox \ Inbox' : m.client = c
  BY <1>6, InboxIs
<1>8. Ideal!Close(c)
  BY <1>2, <1>5, <1>7, KqueueKeeps DEF Ideal!Close
<1> QED
  BY <1>2, <1>3, <1>8, ConnectionStep

\* The shutdown empties the map while the sender does not hold the mutex.
LEMMA ClearIdeal == ASSUME ServerInv, Kqueue, KqClear PROVE Ideal!Next
<1>1. /\ kpc = "clearing" /\ fd_to_state' = {}
      /\ peer' = [c \in Clients |-> IF peer[c] = "new" THEN "new" ELSE "closed"]
      /\ UNCHANGED <<sent, requests, delivered, heard, missed, msgSink, parsing>>
  BY DEF KqClear
<1>2. spc # "broadcast" /\ targets = {}
  BY <1>1 DEF ServerInv, Known, MutexInv, Changing, CastInv
<1>3. /\ AtEnd(fd_to_state)' = {} /\ AtEnd(targets)' = AtEnd(targets)
  BY <1>1, <1>2, KqueueKeeps DEF AtEnd
<1>4. Inbox' = Inbox
  BY <1>1, SameInbox
<1>5. Ideal!Shutdown
  BY <1>1, <1>2, <1>3, <1>4, KqueueKeeps DEF Ideal!Shutdown
<1> QED
  BY <1>1, <1>5, ConnectionStep


\* The steps of which no client sees anything.
LEMMA QuietKqueue ==
  ASSUME Kqueue, KqWait \/ KqAcceptFails \/ KqTest \/ KqLock PROVE IdealStep
<1>1. UNCHANGED <<peer, fdTable, sent, requests, delivered, heard, missed,
                  fd_to_state, msgSink, parsing>>
  BY DEF KqWait, KqAcceptFails, KqTest, KqLock, network
<1>2. Inbox' = Inbox /\ AtEnd(fd_to_state)' = AtEnd(fd_to_state) /\ AtEnd(targets)' = AtEnd(targets)
  BY <1>1, KqueueKeeps, SameInbox, SameMembers, SameDue
<1> QED
  BY <1>1, <1>2, KqueueKeeps, Unseen

\* The entry that is erased is of no open connection.
LEMMA EraseIdeal == ASSUME ServerInv, Kqueue, KqErase PROVE IdealStep
<1>1. /\ kpc = "erasing" /\ fd_to_state' = fd_to_state \ {kfd}
      /\ UNCHANGED <<peer, fdTable, sent, requests, delivered, heard, missed, msgSink, parsing>>
  BY DEF KqErase, network
<1>2. kfd \notin OpenFds /\ OpenFds' = OpenFds
  BY <1>1 DEF ServerInv, Known, MapInv, HandInv, Closing, OpenFds
<1>3. fd_to_state' \intersect OpenFds' = fd_to_state \intersect OpenFds
  BY <1>1, <1>2
<1>4. AtEnd(fd_to_state)' = AtEnd(fd_to_state)
  BY <1>1, <1>3 DEF AtEnd
<1>5. Inbox' = Inbox /\ AtEnd(targets)' = AtEnd(targets)
  BY <1>1, KqueueKeeps, SameInbox, SameDue
<1> QED
  BY <1>1, <1>4, <1>5, KqueueKeeps, Unseen

\* What is read stays in the inbox: it carries its client and its number.
LEMMA ReadIdeal ==
  ASSUME ServerInv, Kqueue, NEW fd \in Fds, NEW k \in 0..MaxMessages, KqRead(fd, k)
  PROVE  IdealStep
<1>0. TypeInv /\ parsing = <<>> /\ fdTable[fd] \in Clients /\ k \in Nat
  BY OrderTypes DEF ServerInv, Known, MailInv, KqRead, OpenFds
<1>1. PICK c \in Clients : c = fdTable[fd]
  BY <1>0
<1>2. PICK old \in Seq(1..MaxMessages) : old = requests[c]
  BY <1>0, OrderTypes
<1> DEFINE rest == SubSeq(old, k + 1, Len(old))
<1>3. /\ k <= Len(old)
      /\ requests' = [requests EXCEPT ![c] = rest]
      /\ parsing' = [i \in 1..k |-> Stamp(fd, old[i])]
      /\ UNCHANGED <<peer, fdTable, sent, delivered, heard, missed, fd_to_state, msgSink>>
  BY <1>1, <1>2 DEF KqRead
<1>4. \A n : Stamp(fd, n).client = c /\ Stamp(fd, n).n = n
  BY <1>1 DEF Stamp
<1>5. /\ ToSet(parsing') = { Stamp(fd, old[i]) : i \in 1..k }
      /\ ToSet(old) = ToSet(rest) \union { old[i] : i \in 1..k }
  <2>1. ToSet(old) = ToSet(rest) \union { old[i] : i \in 1..k }
    BY <1>0, <1>3, SplitOrder
  <2> QED
    BY <1>3, <2>1 DEF ToSet
<1> HIDE DEF rest
<1>6. /\ \A d \in Clients \ {c} : requests'[d] = requests[d]
      /\ requests'[c] = rest /\ ToSet(parsing) = {}
  BY <1>0, <1>3, OrderTypes, EmptyOrdered
<1>7. \A m \in Requests : Waits(m.client, m.n)' <=> Waits(m.client, m.n)
  <2> SUFFICES ASSUME NEW m \in Requests
               PROVE  Waits(m.client, m.n)' <=> Waits(m.client, m.n)
    OBVIOUS
  <2>1. m.client \in Clients
    BY DEF Requests
  <2>2. (\E q \in ToSet(parsing') : q.client = m.client /\ q.n = m.n)
        <=> m.client = c /\ m.n \in { old[i] : i \in 1..k }
    BY <1>4, <1>5
  <2>3. CASE m.client = c
    BY <1>2, <1>3, <1>5, <1>6, <2>2, <2>3 DEF Waits
  <2>4. CASE m.client # c
    BY <1>3, <1>6, <2>1, <2>2, <2>4 DEF Waits
  <2> QED
    BY <2>3, <2>4
<1>8. Inbox' = Inbox
  BY <1>7, InboxIs
<1>9. AtEnd(fd_to_state)' = AtEnd(fd_to_state) /\ AtEnd(targets)' = AtEnd(targets)
  BY <1>3, KqueueKeeps, SameMembers, SameDue
<1> QED
  BY <1>3, <1>8, <1>9, KqueueKeeps, Unseen

\* Where MessageSink is full there are as many messages in the inbox beside the
\* one that is dropped: those it holds are distinct.
LEMMA FullInbox ==
  ASSUME TypeInv, QueueInv, Len(msgSink) = SinkSize, NEW S, IsFiniteSet(S),
         \A m \in ToSet(msgSink) : Untagged(m) \in S
  PROVE  Cardinality(S) \in Nat /\ SinkSize <= Cardinality(S)
<1>1. /\ msgSink \in Seq(Message) /\ SinkSize \in Nat /\ Ordered(msgSink, MessageOrder)
      /\ DOMAIN msgSink = 1..SinkSize
  BY OrderTypes, ServerAssumption, LenProperties DEF QueueInv
<1>2. PICK f : f = [i \in 1..SinkSize |-> Untagged(msgSink[i])]
  OBVIOUS
<1>3. f \in [1..SinkSize -> S]
  BY <1>1, <1>2, AtIndex
<1>4. \A i \in 1..SinkSize : /\ msgSink[i] \in Message /\ msgSink[i].n \in Nat
                             /\ f[i].client = msgSink[i].client /\ f[i].n = msgSink[i].n
  <2>1. \A i \in 1..SinkSize : msgSink[i] \in Message
    BY <1>1, AtIndex
  <2>2. \A m \in Message : m.n \in Nat
    BY DEF Message
  <2>3. \A i \in 1..SinkSize : f[i] = Untagged(msgSink[i])
    BY <1>2
  <2>4. \A m : Untagged(m).client = m.client /\ Untagged(m).n = m.n
    BY DEF Untagged
  <2> QED
    BY <2>1, <2>2, <2>3, <2>4
<1>5. ASSUME NEW i \in 1..SinkSize, NEW j \in 1..SinkSize, i < j PROVE f[i] # f[j]
  <2>1. <<msgSink[i], msgSink[j]>> \in MessageOrder
    BY <1>1, <1>5 DEF Ordered
  <2>2. msgSink[i].client = msgSink[j].client => msgSink[i].n < msgSink[j].n
    BY <1>4, <2>1, MessageOrderIs
  <2> QED
    BY <1>4, <2>2
<1>6. \A i, j \in 1..SinkSize : f[i] = f[j] => i = j
  <2> SUFFICES ASSUME NEW i \in 1..SinkSize, NEW j \in 1..SinkSize, f[i] = f[j] PROVE i = j
    OBVIOUS
  <2>1. i < j \/ j < i \/ i = j
    BY <1>1
  <2> QED
    BY <1>5, <2>1
<1>7. f \in Injection(1..SinkSize, S)
  BY <1>3, <1>6 DEF Injection, IsInjective
<1>8. Cardinality(1..SinkSize) <= Cardinality(S)
  BY <1>7, FS_Injection
<1>9. Cardinality(1..SinkSize) = SinkSize
  <2>1. Cardinality(1..SinkSize) = IF 1 > SinkSize THEN 0 ELSE SinkSize - 1 + 1
    BY <1>1, FS_Interval
  <2> QED
    BY <1>1, <2>1, ServerAssumption
<1> QED
  BY <1>8, <1>9, FS_CardinalityType

\* A parsed message stays in the inbox, or is dropped from a full one.
LEMMA PushIdeal == ASSUME ServerInv, IsFiniteSet(Inbox), Kqueue, KqPush PROVE IdealStep
<1>0. TypeInv /\ QueueInv /\ parsing # <<>>
  BY DEF ServerInv, Known, TypeInv, BusyInv, KqPush
<1>1. PICK h : h = Head(parsing)
  OBVIOUS
<1>2. PICK rest : rest = Tail(parsing)
  OBVIOUS
<1>3. /\ parsing' = rest
      /\ IF Len(msgSink) < SinkSize THEN msgSink' = Append(msgSink, h) ELSE msgSink' = msgSink
      /\ UNCHANGED <<peer, fdTable, sent, requests, delivered, heard, missed, fd_to_state>>
  BY <1>1, <1>2 DEF KqPush, network
<1>4. /\ ToSet(parsing) = {h} \union ToSet(rest) /\ h \in Message
      /\ \A m \in ToSet(rest) : <<h, m>> \in MessageOrder
  BY <1>0, <1>1, <1>2, OrderTypes, HeadTailSet, HeadOrder, HeadAndTail DEF QueueInv
<1>5. AtEnd(fd_to_state)' = AtEnd(fd_to_state) /\ AtEnd(targets)' = AtEnd(targets)
  BY <1>3, KqueueKeeps, SameMembers, SameDue
<1>6. CASE Len(msgSink) < SinkSize
  <2>1. ToSet(msgSink') = ToSet(msgSink) \union {h}
    <3>1. PICK q \in Seq(Message) : q = msgSink
      BY <1>0, OrderTypes
    <3>2. ToSet(Append(q, h)) = ToSet(q) \union {h}
      BY <1>4, AppendSet
    <3> QED
      BY <1>3, <1>6, <3>1, <3>2
  <2>2. ToSet(parsing') \union ToSet(msgSink') = ToSet(parsing) \union ToSet(msgSink)
    BY <1>3, <1>4, <2>1
  <2>3. \A m \in Requests : Waits(m.client, m.n)' <=> Waits(m.client, m.n)
    BY <1>3, <2>2 DEF Waits
  <2>4. Inbox' = Inbox
    BY <2>3, InboxIs
  <2> QED
    BY <1>3, <1>5, <2>4, KqueueKeeps, Unseen
<1>7. CASE ~(Len(msgSink) < SinkSize)
  <2>1. Len(msgSink) = SinkSize /\ UNCHANGED msgSink
    <3>1. /\ Len(msgSink) <= SinkSize /\ SinkSize \in Nat /\ Len(msgSink) \in Nat
      BY <1>0, OrderTypes, LenProperties, ServerAssumption DEF TypeInv, TypeOK
    <3> QED
      BY <1>3, <1>7, <3>1
  <2>2. PICK x : x = Untagged(h)
    OBVIOUS
  <2>3. /\ x \in Requests /\ x.client = h.client /\ x.n = h.n
        /\ h.client \in Clients /\ h.n \in 1..MaxMessages
    BY <1>4, <2>2 DEF Message, Untagged, Requests
  <2>4. ~Waits(h.client, h.n)'
    <3>1. \A k \in ToSet(requests'[h.client]) : h.n < k
      BY <1>0, <1>3, <1>4 DEF QueueInv, PastUnread
    <3>2. \A m \in ToSet(rest) : m \in Message /\ (h.client = m.client => h.n < m.n)
      BY <1>0, <1>4, OrderTypes, MessageOrderIs
    <3>3. \A m \in ToSet(msgSink) : m \in Message /\ (m.client = h.client => m.n < h.n)
      BY <1>0, <1>4, OrderTypes DEF QueueInv, PastParsing
    <3>4. \A k \in 1..MaxMessages : ~(k < k) /\ k \in Nat
      BY <1>0, OrderTypes
    <3> HIDE <1>0
    <3> QED
      BY <1>3, <2>1, <2>3, <3>1, <3>2, <3>3, <3>4 DEF Waits
  <2>5. \A m \in Requests : Waits(m.client, m.n) <=> Waits(m.client, m.n)' \/ m = x
    <3> SUFFICES ASSUME NEW m \in Requests
                 PROVE  Waits(m.client, m.n) <=> Waits(m.client, m.n)' \/ m = x
      OBVIOUS
    <3>1. m = x <=> h.client = m.client /\ h.n = m.n
      BY <2>3 DEF Requests
    <3> QED
      BY <1>3, <1>4, <2>1, <3>1 DEF Waits
  <2>6. Inbox' = Inbox \ {x} /\ x \in Inbox
    <3>1. \A m \in Requests : Waits(m.client, m.n)' => m # x
      BY <2>3, <2>4
    <3> QED
      BY <2>3, <2>5, <3>1, InboxIs
  <2>7. Cardinality(Inbox) > SinkSize
    <3>1. PICK S : S = Inbox \ {x}
      OBVIOUS
    <3>2. IsFiniteSet(S) /\ Cardinality(S) = Cardinality(Inbox) - 1 /\ Cardinality(Inbox) \in Nat
      BY <2>6, <3>1, FS_RemoveElement, FS_CardinalityType
    <3>3. \A m \in ToSet(msgSink) : Untagged(m) \in S
      <4> SUFFICES ASSUME NEW m \in ToSet(msgSink) PROVE Untagged(m) \in S
        OBVIOUS
      <4>1. m \in Message /\ Untagged(m) \in Requests
        BY <1>0, OrderTypes DEF Message, Untagged, Requests
      <4>2. Untagged(m).client = m.client /\ Untagged(m).n = m.n
        BY DEF Untagged
      <4>3. Waits(Untagged(m).client, Untagged(m).n)'
        BY <2>1, <4>2 DEF Waits
      <4> QED
        BY <2>6, <3>1, <4>1, <4>3, InboxIs
    <3>4. SinkSize <= Cardinality(S) /\ SinkSize \in Nat
      BY <1>0, <2>1, <3>2, <3>3, FullInbox, ServerAssumption
    <3> QED
      BY <3>2, <3>4
  <2>8. Ideal!Refuse(x)
    <3>1. Ideal!Cardinality(Inbox) = Cardinality(Inbox)
      BY DEF Ideal!Cardinality, Cardinality
    <3>2. /\ x \in Inbox /\ Inbox' = Inbox \ {x} /\ Ideal!Cardinality(Inbox) > SinkSize
      BY <2>6, <2>7, <3>1
    <3> QED
      BY <3>2, KqueueKeeps DEF Ideal!Refuse, Ideal!bookVars, Stage
  <2>9. Ideal!Engine
    BY <1>3, <1>5, <2>6, <2>8, KqueueKeeps DEF Ideal!Engine, Ideal!castVars, Ideal!received
  <2> QED
    BY <2>9, KqueueKeeps DEF IdealStep, Ideal!Next
<1> QED
  BY <1>6, <1>7

\* Every step of the kqueue thread.
LEMMA KqueueIdeal == ASSUME ServerInv, IsFiniteSet(Inbox), Kqueue PROVE IdealStep
BY QuietKqueue, EraseIdeal, ReadIdeal, PushIdeal, AcceptIdeal, InsertIdeal, CloseIdeal, ClearIdeal
   DEF Kqueue, IdealStep

-----------------------------------------------------------------------------
(***************************************************************************)
(* The engine: a message out of the inbox, its events into the mailbox.    *)
(***************************************************************************)
\* What a step of it leaves alone.
LEMMA EngineKeeps ==
  ASSUME Engine
  PROVE  /\ alive /\ UNCHANGED <<peer, fdTable, sent, requests, delivered, heard, missed, alive,
                                 fd_to_state, targets, spc, event, parsing>>
         /\ AtEnd(fd_to_state)' = AtEnd(fd_to_state) /\ AtEnd(targets)' = AtEnd(targets)
         /\ InHand' = InHand
<1>1. alive /\ UNCHANGED <<peer, fdTable, sent, requests, delivered, heard, missed, alive,
                           fd_to_state, targets, spc, event, parsing>>
  BY DEF Engine, network, kqueueVars, senderVars
<1> QED
  BY <1>1, SameMembers, SameDue DEF InHand

\* The parts of the mailbox: what the sender has in hand, the ring, and what the
\* engine has still to push.  In hand there may also be no event.
Events == Event \union {NoEvent}

LEMMA MailParts ==
  ASSUME TypeInv
  PROVE  InHand \in Seq(Events) /\ eventSink \in Seq(Events) /\ pending \in Seq(Events)
<1>1. eventSink \in Seq(Event) /\ pending \in Seq(Event) /\ event \in Events
  BY DEF TypeInv, TypeOK, Events
<1>2. Event \subseteq Events
  BY DEF Events
<1>3. <<event>> \in Seq(Events) /\ <<>> \in Seq(Events)
  BY <1>1
<1>4. InHand \in Seq(Events)
  BY <1>3 DEF InHand
<1> QED
  BY <1>1, <1>2, <1>4, SeqGrows

\* The mailbox is the frames of its parts.
LEMMA MailIs ==
  /\ Mail = Frames(InHand \o eventSink \o pending)
  /\ Mail' = Frames(InHand' \o eventSink' \o pending')
BY DEF Mail, Outgoing, Frames

\* The ring has room: the event is still in the mailbox, where it was.
LEMMA PushKept ==
  ASSUME TypeInv, Engine, EnginePush, Len(eventSink) < SinkSize
  PROVE  IdealStep
<1>1. /\ pending # <<>> /\ pending' = Tail(pending) /\ eventSink' = Append(eventSink, Head(pending))
      /\ UNCHANGED <<msgSink, resting, published, order, taken>> /\ Stage' = Stage
  BY DEF EnginePush, Stage
<1>2. PICK a \in Seq(Events), b \in Seq(Events), d \in Seq(Events) :
        a = InHand /\ b = eventSink /\ d = pending
  BY MailParts
<1>3. d # <<>> /\ Head(d) \in Events /\ Tail(d) \in Seq(Events)
  BY <1>1, <1>2, HeadTailIs
<1>4. (a \o Append(b, Head(d))) \o Tail(d) = (a \o b) \o d
  <2>1. Append(b, Head(d)) \in Seq(Events)
    BY <1>3, AppendProperties
  <2>2. (a \o Append(b, Head(d))) \o Tail(d) = a \o (Append(b, Head(d)) \o Tail(d))
    <3>1. PICK p \in Seq(Events), t \in Seq(Events) : p = Append(b, Head(d)) /\ t = Tail(d)
      BY <1>3, <2>1
    <3>2. (a \o p) \o t = a \o (p \o t)
      BY ConcatAssociative, SMTT(30)
    <3> QED
      BY <3>1, <3>2
  <2>3. Append(b, Head(d)) \o Tail(d) = b \o d
    BY <1>3, MoveHead
  <2>4. (a \o b) \o d = a \o (b \o d)
    BY ConcatAssociative
  <2> QED
    BY <2>2, <2>3, <2>4
<1>5. Mail' = Mail
  BY <1>1, <1>2, <1>4, EngineKeeps, MailIs
<1>6. Inbox' = Inbox
  BY <1>1, EngineKeeps, SameInbox
<1> QED
  BY <1>1, <1>5, <1>6, EngineKeeps, Unseen

\* The ring is full: as many events are ahead of the one that is lost.
LEMMA PushLost ==
  ASSUME TypeInv, Engine, EnginePush, ~(Len(eventSink) < SinkSize)
  PROVE  Ideal!Next
<1>1. /\ pending # <<>> /\ pending' = Tail(pending) /\ eventSink' = eventSink
      /\ UNCHANGED <<msgSink, resting, published, order, taken>> /\ Stage' = Stage
  BY DEF EnginePush, Stage
<1>2. PICK a \in Seq(Events), b \in Seq(Events), d \in Seq(Events) :
        a = InHand /\ b = eventSink /\ d = pending
  BY MailParts
<1>3. /\ a \o b \in Seq(Events) /\ Len(a \o b) = Len(a) + Len(b)
      /\ Len(a) \in Nat /\ Len(b) \in Nat /\ SinkSize \in Nat
  BY ConcatProperties, LenProperties, ServerAssumption
<1>4. PICK i \in Nat : i = Len(a \o b) + 1 /\ i > SinkSize
  <2>1. ~(Len(b) < SinkSize)
    BY <1>2
  <2>2. Len(a) + Len(b) + 1 \in Nat /\ Len(a) + Len(b) + 1 > SinkSize
    BY <1>3, <2>1
  <2> QED
    BY <1>3, <2>2
<1>5. /\ i \in DOMAIN Frames((a \o b) \o d)
      /\ Frames((a \o b) \o Tail(d)) = Ideal!RemoveAt(Frames((a \o b) \o d), i)
  <2>1. PICK ab \in Seq(Events) : ab = a \o b
    BY <1>3
  <2>2. d # <<>>
    BY <1>1, <1>2
  <2>3. /\ Len(ab) + 1 \in DOMAIN Frames(ab \o d)
        /\ Frames(ab \o Tail(d)) = Ideal!RemoveAt(Frames(ab \o d), Len(ab) + 1)
    BY <2>2, FramesWithout
  <2> QED
    BY <1>4, <2>1, <2>3
<1>6. i \in DOMAIN Mail /\ Mail' = Ideal!RemoveAt(Mail, i)
  BY <1>1, <1>2, <1>5, EngineKeeps, MailIs
<1>7. Inbox' = Inbox
  BY <1>1, EngineKeeps, SameInbox
<1>8. Ideal!Lose(i)
  BY <1>1, <1>4, <1>6, <1>7 DEF Ideal!Lose, Ideal!bookVars, Stage
<1>9. Ideal!Engine
  BY <1>6, <1>8, EngineKeeps DEF Ideal!Engine, Ideal!castVars, Ideal!received
<1> QED
  BY <1>9, EngineKeeps DEF Ideal!Next

\* The frames of what process() pushes.
LEMMA FramesOfTwo ==
  ASSUME NEW d, NEW e
  PROVE  Frames(<<d, e>>) = <<d.frame, e.frame>>
<1>1. Frames(<<d, e>>) = [i \in 1..2 |-> <<d, e>>[i].frame]
  BY DEF Frames
<1>2. [i \in 1..2 |-> <<d, e>>[i].frame] = <<d.frame, e.frame>>
  OBVIOUS
<1> QED
  BY <1>1, <1>2

LEMMA FramesOfThree ==
  ASSUME NEW d, NEW e, NEW f
  PROVE  Frames(<<d, e, f>>) = <<d.frame, e.frame, f.frame>>
<1>1. Frames(<<d, e, f>>) = [i \in 1..3 |-> <<d, e, f>>[i].frame]
  BY DEF Frames
<1>2. [i \in 1..3 |-> <<d, e, f>>[i].frame] = <<d.frame, e.frame, f.frame>>
  OBVIOUS
<1> QED
  BY <1>1, <1>2

\* With nothing pending, what is pushed comes behind the mailbox.
LEMMA MailGrows ==
  ASSUME TypeInv, pending = <<>>, UNCHANGED <<eventSink>>, InHand' = InHand, pending' \in Seq(Event)
  PROVE  Mail' = Mail \o Frames(pending')
<1>1. PICK a \in Seq(Events), b \in Seq(Events) : a = InHand /\ b = eventSink
  BY MailParts
<1>2. PICK d \in Seq(Events) : d = pending'
  <2>1. Event \subseteq Events
    BY DEF Events
  <2> QED
    BY <2>1, SeqGrows
<1>3. PICK ab \in Seq(Events) : ab = a \o b
  BY ConcatProperties
<1>4. Frames(ab \o d) = Frames(ab) \o Frames(d)
  BY FramesJoin
<1>5. ab \o <<>> = ab
  BY ConcatEmptySeq
<1> QED
  BY <1>1, <1>2, <1>3, <1>4, <1>5, MailIs

\* The frames of the events of a step, behind the mailbox.
LEMMA MailOfOne ==
  ASSUME TypeInv, pending = <<>>, UNCHANGED eventSink, InHand' = InHand,
         NEW d \in Event, pending' = <<d>>
  PROVE  Mail' = Append(Mail, d.frame)
<1>1. pending' \in Seq(Event)
  <2>1. <<d>> \in Seq(Event)
    OBVIOUS
  <2> QED
    BY <2>1
<1>2. Mail' = Mail \o Frames(<<d>>)
  BY <1>1, MailGrows
<1>3. PICK a \in Seq(Events), b \in Seq(Events) : a = InHand /\ b = eventSink
  BY MailParts
<1>4. PICK q \in Seq({ e.frame : e \in Events }) : q = Mail
  <2>1. a \o b \in Seq(Events)
    BY ConcatProperties
  <2>2. PICK ab \in Seq(Events) : ab = a \o b
    BY <2>1
  <2>3. ab \o <<>> = ab /\ Frames(ab) \in Seq({ e.frame : e \in Events })
    BY ConcatEmptySeq, FramesJoin
  <2> QED
    BY <1>3, <2>2, <2>3, MailIs
<1>5. d.frame \in { e.frame : e \in Events }
  BY DEF Events
<1>6. Append(q, d.frame) = q \o <<d.frame>>
  BY <1>5
<1> QED
  BY <1>2, <1>4, <1>6, FrameOfOne

LEMMA MailOfTwo ==
  ASSUME TypeInv, pending = <<>>, UNCHANGED eventSink, InHand' = InHand,
         NEW d \in Event, NEW e \in Event, pending' = <<d, e>>
  PROVE  Mail' = Mail \o <<d.frame, e.frame>>
<1>1. <<d, e>> \in Seq(Event)
  OBVIOUS
<1> QED
  BY <1>1, MailGrows, FramesOfTwo

LEMMA MailOfThree ==
  ASSUME TypeInv, pending = <<>>, UNCHANGED eventSink, InHand' = InHand,
         NEW d \in Event, NEW e \in Event, NEW f \in Event, pending' = <<d, e, f>>
  PROVE  Mail' = Mail \o <<d.frame, e.frame, f.frame>>
<1>1. <<d, e, f>> \in Seq(Event)
  OBVIOUS
<1> QED
  BY <1>1, MailGrows, FramesOfThree

\* Of the resting orders of Exchange one is taken out where one is here.
LEMMA RestsWithout ==
  ASSUME MailInv, NEW r \in resting, resting' = resting \ {r}
  PROVE  { Untagged(q) : q \in resting' } = { Untagged(q) : q \in resting } \ {Untagged(r)}
<1>1. \A q \in resting : Untagged(q) = Untagged(r) <=> q = r
  BY DEF MailInv
<1> QED
  BY <1>1

\* Steps of the engine that leave the inbox alone.
LEMMA EngineStep ==
  ASSUME Engine, UNCHANGED msgSink,
         Ideal!Finish \/ \E r \in { Untagged(q) : q \in resting } : Ideal!Trade(r)
  PROVE  Ideal!Next
<1>1. Ideal!Engine
  BY EngineKeeps DEF Ideal!Engine, Ideal!castVars, Ideal!received
<1> QED
  BY <1>1, EngineKeeps DEF Ideal!Next

\* The engine takes the earliest message its client has in the inbox.
LEMMA PopIdeal == ASSUME ServerInv, Engine, EnginePop PROVE Ideal!Next
<1>0. TypeInv /\ QueueInv /\ MailInv /\ msgSink # <<>> /\ pending = <<>> /\ epc = "loop"
  BY DEF ServerInv, Known, EnginePop
<1>1. PICK h : h = Head(msgSink)
  OBVIOUS
<1>2. /\ msgSink' = Tail(msgSink) /\ UNCHANGED eventSink /\ taken' = h /\ epc' = "match"
      /\ UNCHANGED <<sent, requests, parsing>>
  BY <1>1, EngineKeeps DEF EnginePop
<1>3. /\ h \in Message /\ h \in ToSet(msgSink) /\ Past(h.client, h.n)'
      /\ ToSet(msgSink) = {h} \union ToSet(msgSink')
  BY <1>0, <1>1, <1>2, PopQueue, HeadTailSet, OrderTypes
<1>4. PICK x : x = Untagged(h)
  OBVIOUS
<1>5. x \in Requests /\ x.client = h.client /\ x.n = h.n /\ h.n \in Nat
  BY <1>3, <1>4 DEF Message, Requests, Untagged
<1>6. \A m \in Requests : Waits(m.client, m.n)' /\ m.client = h.client => h.n < m.n
  BY <1>3, <1>5 DEF Waits, Past, PastParsing, PastUnread
<1>7. \A m \in Requests : Waits(m.client, m.n) <=> Waits(m.client, m.n)' \/ m = x
  <2> SUFFICES ASSUME NEW m \in Requests
               PROVE  Waits(m.client, m.n) <=> Waits(m.client, m.n)' \/ m = x
    OBVIOUS
  <2>1. m = x <=> h.client = m.client /\ h.n = m.n
    BY <1>5 DEF Requests
  <2> QED
    BY <1>2, <1>3, <2>1 DEF Waits
<1>8. Inbox' = Inbox \ {x} /\ x \in Inbox
  <2>1. \A m \in Requests : Waits(m.client, m.n)' => m # x
    BY <1>5, <1>6
  <2> QED
    BY <1>5, <1>7, <2>1, InboxIs
<1>9. \A other \in Inbox : other.client = x.client => x.n <= other.n
  <2> SUFFICES ASSUME NEW m \in Requests, Waits(m.client, m.n), m.client = h.client
               PROVE  h.n <= m.n
    BY <1>5, InboxIs
  <2>1. m.n \in Nat
    BY DEF Requests
  <2>2. h.n < m.n \/ m.n = h.n
    BY <1>5, <1>6, <1>7
  <2> QED
    BY <1>5, <2>1, <2>2
<1> DEFINE rests == { Untagged(r) : r \in resting }
           restsNext == { Untagged(r) : r \in resting' }
<1>10. \/ Untagged(order') = x /\ Mail' = Mail /\ restsNext = rests /\ UNCHANGED published
       \/ /\ Untagged(order') \in rests /\ restsNext = rests \ {Untagged(order')}
          /\ Mail' = Append(Mail, Ideal!Public(published + 1)) /\ published' = published + 1
  <2>1. CASE order' = h /\ UNCHANGED <<pending, resting, published>>
    BY <1>2, <1>4, <2>1, EngineKeeps, SameMail
  <2>2. ASSUME NEW r \in resting, order' = r, resting' = resting \ {r},
               pending' = <<Routed(PUBLIC, Public(published + 1))>>, published' = published + 1
        PROVE  /\ Untagged(order') \in rests /\ restsNext = rests \ {Untagged(order')}
               /\ Mail' = Append(Mail, Ideal!Public(published + 1)) /\ published' = published + 1
    <3>1. PICK d \in Event : d = Routed(PUBLIC, Public(published + 1))
      BY <1>0, EngineEvents
    <3>2. Mail' = Append(Mail, d.frame)
      BY <1>0, <1>2, <2>2, <3>1, EngineKeeps, MailOfOne
    <3>3. d.frame = Ideal!Public(published + 1)
      BY <3>1, MadeFrames, SameWords
    <3>4. restsNext = rests \ {Untagged(r)} /\ Untagged(r) \in rests
      BY <1>0, <2>2, RestsWithout
    <3> QED
      BY <2>2, <3>2, <3>3, <3>4
  <2> QED
    BY <1>1, <1>2, <2>1, <2>2 DEF EnginePop
<1>11. Ideal!Take(x)
  BY <1>0, <1>2, <1>4, <1>8, <1>9, <1>10 DEF Ideal!Take
<1>12. Ideal!Engine
  BY <1>8, <1>11, EngineKeeps DEF Ideal!Engine, Ideal!castVars, Ideal!received
<1> QED
  BY <1>12, EngineKeeps DEF Ideal!Next

\* A trade tells the client of the resting order, which is filled or is not.
LEMMA TradeIdeal ==
  ASSUME ServerInv, Engine, NEW r \in resting, EngineTrade(r) PROVE Ideal!Next
<1>0. TypeInv /\ MailInv /\ r \in Message
  BY OrderTypes DEF ServerInv, Known
<1>1. /\ epc = "match" /\ pending = <<>> /\ published' = published + 2
      /\ UNCHANGED <<msgSink, taken, order, eventSink>>
      /\ \/ resting' = resting \ {r} /\ UNCHANGED epc
         \/ epc' = "filled" /\ UNCHANGED resting
  BY DEF EngineTrade
<1>2. PICK d \in Event, e \in Event, f \in Event :
        /\ d = Routed(PUBLIC, Public(published + 1))
        /\ e = Routed(PUBLIC, Public(published + 2)) /\ f = Routed(r.fd, Fill(r))
  BY <1>0, EngineEvents
<1>3. Mail' = Mail \o <<d.frame, e.frame, f.frame>>
  <2>1. pending' = <<d, e, f>>
    BY <1>2 DEF EngineTrade
  <2> QED
    BY <1>0, <1>1, <2>1, EngineKeeps, MailOfThree
<1>4. PICK x : x = Untagged(r)
  OBVIOUS
<1>5. /\ d.frame = Ideal!Public(published + 1) /\ e.frame = Ideal!Public(published + 2)
      /\ f.frame = Ideal!Fill(x)
  <2>1. Ideal!Fill(x) = Fill(r)
    BY <1>4, SameWords
  <2>2. f.frame = Fill(r) /\ d.frame = Public(published + 1) /\ e.frame = Public(published + 2)
    BY <1>2, MadeFrames
  <2> QED
    BY <2>1, <2>2, SameWords
<1>6. \/ /\ { Untagged(q) : q \in resting' } = { Untagged(q) : q \in resting } \ {x}
         /\ UNCHANGED epc
      \/ epc' = "filled" /\ UNCHANGED resting
  BY <1>0, <1>1, <1>4, RestsWithout
<1>7. Inbox' = Inbox
  BY <1>1, EngineKeeps, SameInbox
<1>8. Ideal!Trade(x)
  BY <1>1, <1>3, <1>5, <1>6, <1>7 DEF Ideal!Trade
<1> QED
  BY <1>1, <1>4, <1>8, EngineStep

\* The answer comes last, and what is left of the order may rest.
LEMMA FinishIdeal == ASSUME ServerInv, Engine, EngineFinish PROVE Ideal!Next
<1>0. TypeInv /\ taken \in Message
  BY DEF ServerInv, Known, TypeInv, BusyInv, EngineFinish, Working
<1>1. PICK t \in Message : t = taken
  BY <1>0
<1>2. /\ epc \in {"match", "filled"} /\ pending = <<>> /\ epc' = "loop"
      /\ taken' = NoMessage /\ order' = NoMessage /\ UNCHANGED <<msgSink, eventSink>>
  BY DEF EngineFinish
<1>3. Ideal!Answer(Untagged(t)) = Answer(t) /\ Ideal!NoMessage = Untagged(NoMessage)
  BY SameWords
<1>4. PICK d \in Event : d = Routed(PUBLIC, Public(published + 1))
  BY <1>0, EngineEvents
<1>5. PICK e \in Event : e = Routed(t.fd, Answer(t))
  BY <1>0, EngineEvents
<1>6. d.frame = Ideal!Public(published + 1) /\ e.frame = Ideal!Answer(Untagged(taken))
  BY <1>1, <1>3, <1>4, <1>5, MadeFrames, SameWords
<1>7. Inbox' = Inbox
  BY <1>2, EngineKeeps, SameInbox
<1>8. CASE pending' = <<e>> /\ UNCHANGED <<resting, published>>
  <2>1. Mail' = Append(Mail, e.frame)
    BY <1>0, <1>2, <1>8, EngineKeeps, MailOfOne
  <2>2. Ideal!Finish
    BY <1>2, <1>3, <1>6, <1>7, <1>8, <2>1 DEF Ideal!Finish
  <2> QED
    BY <1>2, <2>2, EngineStep
<1>9. CASE /\ epc = "match" /\ pending' = <<d, e>>
           /\ resting' = resting \union {order} /\ published' = published + 1
  <2>1. Mail' = Mail \o <<d.frame, e.frame>>
    BY <1>0, <1>2, <1>9, EngineKeeps, MailOfTwo
  <2>2. { Untagged(q) : q \in resting' }
        = { Untagged(q) : q \in resting } \union {Untagged(order)}
    BY <1>9
  <2>3. Ideal!Finish
    BY <1>2, <1>3, <1>6, <1>7, <1>9, <2>1, <2>2 DEF Ideal!Finish
  <2> QED
    BY <1>2, <2>3, EngineStep
<1> QED
  BY <1>1, <1>4, <1>5, <1>8, <1>9 DEF EngineFinish

\* Every step of the engine.
LEMMA EngineIdeal == ASSUME ServerInv, Engine PROVE IdealStep
<1>1. TypeInv
  BY DEF ServerInv, Known
<1>2. CASE EngineStop
  <2>1. UNCHANGED <<msgSink, eventSink, pending, resting, published, order, taken>> /\ Stage' = Stage
    BY <1>2 DEF EngineStop, Stage
  <2>2. Inbox' = Inbox /\ Mail' = Mail
    BY <2>1, EngineKeeps, SameInbox, SameMail
  <2> QED
    BY <2>1, <2>2, EngineKeeps, Unseen
<1>3. CASE EnginePop \/ EngineFinish \/ \E r \in resting : EngineTrade(r)
  BY <1>3, PopIdeal, FinishIdeal, TradeIdeal DEF IdealStep
<1>4. CASE EnginePush
  BY <1>1, <1>4, PushKept, PushLost DEF IdealStep
<1> QED
  BY <1>2, <1>3, <1>4 DEF Engine

-----------------------------------------------------------------------------
(***************************************************************************)
(* The sender: what is in front of the mailbox goes to its client, or to   *)
(* all who are in the map.                                                 *)
(***************************************************************************)
\* What a step of it leaves alone.
LEMMA SenderKeeps ==
  ASSUME Sender
  PROVE  /\ alive /\ UNCHANGED <<peer, fdTable, sent, resting, published, fd_to_state, pending>>
         /\ UNCHANGED <<epc, order, taken>> /\ Stage' = Stage
         /\ Inbox' = Inbox /\ AtEnd(fd_to_state)' = AtEnd(fd_to_state)
<1>1. alive /\ UNCHANGED <<peer, fdTable, sent, requests, resting, published, fd_to_state, pending,
                           parsing, msgSink, epc, order, taken>>
  BY DEF Sender, kqueueVars, engineVars
<1> QED
  BY <1>1, SameInbox, SameMembers DEF Stage

\* A step of Exchange that concerns what goes out.
LEMMA SenderStep ==
  ASSUME Sender,
         \/ Ideal!Deliver \/ Ideal!StartCast \/ Ideal!EndCast
         \/ \E c \in Clients : Ideal!CastTo(c)
  PROVE  Ideal!Next
<1>1. Ideal!Sender
  BY SenderKeeps DEF Ideal!Sender, Ideal!clientVars, Ideal!bookVars, Stage
<1> QED
  BY <1>1, SenderKeeps DEF Ideal!Next

\* The event in hand is in front of the mailbox; the rest is what is left when
\* the sender is done with it.
LEMMA InFront ==
  ASSUME TypeInv, Sender, spc \in {"send", "lock", "broadcast"}
  PROVE  /\ Mail # <<>> /\ Head(Mail) = event.frame
         /\ spc' = "loop" /\ UNCHANGED eventSink => Mail' = Tail(Mail)
<1>1. PICK e \in Events, b \in Seq(Events), d \in Seq(Events) :
        e = event /\ b = eventSink /\ d = pending
  BY MailParts DEF TypeInv, TypeOK, Events
<1>2. PICK rest \in Seq(Events) : rest = b \o d
  BY ConcatProperties
<1>3. (<<e>> \o b) \o d = <<e>> \o rest
  <2>0. <<e>> \in Seq(Events)
    OBVIOUS
  <2>1. PICK one \in Seq(Events) : one = <<e>>
    BY <2>0
  <2>2. (one \o b) \o d = one \o (b \o d)
    BY ConcatAssociative
  <2> QED
    BY <1>2, <2>1, <2>2
<1>4. InHand = <<e>>
  BY <1>1 DEF InHand
<1>5. Mail = Frames(<<e>> \o rest)
  BY <1>1, <1>3, <1>4, MailIs
<1>6. Mail # <<>> /\ Head(Mail) = e.frame /\ Tail(Mail) = Frames(rest)
  BY <1>5, FramesHead
<1>7. ASSUME spc' = "loop", UNCHANGED eventSink PROVE Mail' = Frames(rest)
  <2>1. InHand' = <<>> /\ eventSink' = b /\ pending' = d
    BY <1>1, <1>7, SenderKeeps DEF InHand
  <2>2. <<>> \o b = b
    BY ConcatEmptySeq
  <2> QED
    BY <1>2, <2>1, <2>2, MailIs
<1> QED
  BY <1>1, <1>6, <1>7

\* Taking an event off the ring leaves it where it was in the mailbox.
LEMMA SenderPopIdeal == ASSUME ServerInv, Sender, SenderPop PROVE IdealStep
<1>1. /\ spc = "loop" /\ eventSink # <<>> /\ event' = Head(eventSink)
      /\ eventSink' = Tail(eventSink) /\ spc' \in {"lock", "send"}
      /\ UNCHANGED <<alive, delivered, heard, missed, targets>>
  BY DEF SenderPop
<1>2. PICK b \in Seq(Events), d \in Seq(Events) : b = eventSink /\ d = pending
  BY MailParts DEF ServerInv, Known
<1>3. InHand = <<>> /\ InHand' = <<Head(b)>> /\ pending' = d /\ eventSink' = Tail(b)
  BY <1>1, <1>2, SenderKeeps DEF InHand
<1>4. <<>> \o b = b
  BY ConcatEmptySeq
<1>5. b = <<Head(b)>> \o Tail(b)
  BY <1>1, <1>2, HeadTailIs
<1>6. Mail' = Mail
  BY <1>2, <1>3, <1>4, <1>5, MailIs
<1>7. AtEnd(targets)' = AtEnd(targets)
  BY <1>1, SenderKeeps, SameDue
<1> QED
  BY <1>1, <1>6, <1>7, SenderKeeps, Unseen

\* A private event goes where its message came from, or its client is gone.
LEMMA PrivateIdeal == ASSUME ServerInv, Sender, SendPrivate PROVE Ideal!Next
<1>0. TypeInv /\ fdTable \in [Fds -> Clients \union {Nobody}] /\ spc = "send"
  BY OrderTypes DEF ServerInv, Known, SendPrivate
<1>1. PICK fd \in Fds, frame \in PrivateFrame : fd = event.fd /\ frame = event.frame
  BY <1>0 DEF TypeInv, BusyInv
<1>2. /\ SendTo(fd, frame) /\ spc' = "loop" /\ UNCHANGED <<eventSink, targets>>
  BY <1>1 DEF SendPrivate
<1>3. Mail # <<>> /\ Head(Mail) = frame /\ Mail' = Tail(Mail)
  BY <1>0, <1>1, <1>2, InFront
<1>4. frame.kind \in {"answer", "fill"} /\ frame.kind # "public" /\ frame.to \in Clients
  BY DEF PrivateFrame
<1>5. fdTable[fd] = frame.to \/ peer[frame.to] = "closed"
  <2>1. event \in RightEvents
    BY <1>0 DEF ServerInv, RouteInv
  <2>2. event.fd # PUBLIC
    BY <1>1, ServerAssumption DEF PUBLIC
  <2> QED
    BY <1>1, <2>1, <2>2 DEF RightEvents, Aimed
<1> DEFINE gone == peer[frame.to] \in {"left", "closed"}
           Done == \/ \E c \in Clients :
                        /\ peer[c] = "open"
                        /\ c = frame.to \/ peer[frame.to] = "closed"
                        /\ \/ /\ delivered' = [delivered EXCEPT ![c] = Append(@, frame)]
                              /\ UNCHANGED <<heard, missed, alive>>
                           \/ Ideal!GivenUp(c)
                   \/ gone /\ Ideal!Killed /\ UNCHANGED <<delivered, heard, missed>>
<1>6. ASSUME fd \notin OpenFds, UNCHANGED <<alive, delivered, heard, missed>> PROVE Done
  <2>1. fdTable[fd] # frame.to
    BY <1>4, <1>6, ServerAssumption DEF OpenFds
  <2>2. Ideal!Killed
    BY <1>6, SenderKeeps DEF Ideal!Killed
  <2> QED
    BY <1>5, <1>6, <2>1, <2>2
<1>7. ASSUME fd \in OpenFds, peer[fdTable[fd]] = "left", PeerGone PROVE Done
  <2>1. fdTable[fd] \in Clients
    BY <1>0, <1>7 DEF OpenFds
  <2>2. Ideal!Killed
    BY <1>7, <2>1 DEF Ideal!Killed, PeerGone
  <2> QED
    BY <1>5, <1>7, <2>2 DEF PeerGone
<1>8. ASSUME fd \in OpenFds, peer[fdTable[fd]] = "open",
             Written(fdTable[fd], frame) \/ GivenUp(fdTable[fd])
      PROVE  Done
  <2>1. PICK c \in Clients : c = fdTable[fd]
    BY <1>0, <1>8 DEF OpenFds
  <2>2. peer[c] = "open" /\ (c = frame.to \/ peer[frame.to] = "closed")
    BY <1>5, <1>8, <2>1
  <2>3. CASE Written(c, frame)
    BY <1>4, <2>2, <2>3 DEF Written
  <2>4. CASE GivenUp(c)
    <3>1. Ideal!GivenUp(c)
      BY <2>4, SameWords DEF GivenUp, Ideal!GivenUp
    <3> QED
      BY <2>2, <3>1
  <2> QED
    BY <1>8, <2>1, <2>3, <2>4
<1>9. Done
  BY <1>2, <1>6, <1>7, <1>8 DEF SendTo
<1>10. /\ (spc = "broadcast")' = (spc = "broadcast") /\ AtEnd(targets)' = AtEnd(targets)
  BY <1>0, <1>2, SenderKeeps, SameDue
<1>11. Ideal!Deliver
  BY <1>3, <1>4, <1>9, <1>10, SenderKeeps DEF Ideal!Deliver, Ideal!received, Ideal!castVars
<1> QED
  BY <1>11, SenderStep

\* With the mutex the sender knows to whom the event is due.
LEMMA LockIdeal == ASSUME ServerInv, Sender, SenderLock PROVE Ideal!Next
<1>1. /\ spc = "lock" /\ spc' = "broadcast" /\ targets' = fd_to_state
      /\ UNCHANGED <<alive, delivered, heard, missed, eventSink, event>>
  BY DEF SenderLock
<1>2. /\ TypeInv /\ event.frame.kind = "public"
  BY <1>1 DEF ServerInv, Known, TypeInv, BusyInv, PublicFrame
<1>3. Mail # <<>> /\ Head(Mail).kind = "public"
  BY <1>1, <1>2, InFront
<1>4. Mail' = Mail
  <2>1. InHand' = InHand
    BY <1>1 DEF InHand
  <2> QED
    BY <1>1, <2>1, SenderKeeps, MailIs
<1>5. AtEnd(targets)' = AtEnd(fd_to_state)
  BY <1>1, SenderKeeps DEF AtEnd, OpenFds
<1>6. Ideal!StartCast
  BY <1>1, <1>3, <1>4, <1>5, SenderKeeps DEF Ideal!StartCast, Ideal!received
<1> QED
  BY <1>6, SenderStep

\* One entry after the other; those of closed connections are passed over.
LEMMA BroadcastIdeal == ASSUME ServerInv, Sender, NEW fd \in Fds, Broadcast(fd) PROVE IdealStep
<1>1. /\ spc = "broadcast" /\ fd \in targets /\ SendTo(fd, event.frame)
      /\ targets' = targets \ {fd} /\ UNCHANGED <<eventSink, spc, event>>
  BY DEF Broadcast
<1>2. /\ TypeInv /\ event.frame.kind = "public" /\ OneFd
      /\ fdTable \in [Fds -> Clients \union {Nobody}]
  BY <1>1, OrderTypes DEF ServerInv, Known, TypeInv, BusyInv, PublicFrame, NetInv
<1>3. PICK frame : frame = event.frame
  OBVIOUS
<1>4. Head(Mail) = frame /\ frame.kind = "public"
  BY <1>1, <1>2, <1>3, InFront
<1>5. Mail' = Mail
  BY <1>1, SenderKeeps, SameMail
<1>6. OpenFds' = OpenFds
  BY SenderKeeps DEF OpenFds
<1>7. CASE fd \notin OpenFds /\ UNCHANGED <<alive, delivered, heard, missed>>
  <2>1. targets' \intersect OpenFds' = targets \intersect OpenFds
    BY <1>1, <1>6, <1>7
  <2>2. AtEnd(targets)' = AtEnd(targets)
    BY <2>1, SenderKeeps DEF AtEnd
  <2> QED
    BY <1>1, <1>5, <1>7, <2>2, SenderKeeps, Unseen
<1>8. ASSUME fd \in OpenFds,
             \/ peer[fdTable[fd]] = "left" /\ PeerGone
             \/ /\ peer[fdTable[fd]] = "open"
                /\ Written(fdTable[fd], frame) \/ GivenUp(fdTable[fd])
      PROVE  Ideal!Next
  <2>1. PICK c \in Clients : c = fdTable[fd]
    BY <1>2, <1>8 DEF OpenFds
  <2>2. AtEnd(targets)' = AtEnd(targets) \ {c} /\ c \in AtEnd(targets)
    <3>1. targets' \intersect OpenFds' = (targets \intersect OpenFds) \ {fd}
      BY <1>1, <1>6
    <3>2. \A f \in OpenFds : fdTable[f] = c <=> f = fd
      BY <1>2, <1>8, <2>1 DEF OneFd
    <3>3. AtEnd(targets)' = { fdTable[f] : f \in (targets \intersect OpenFds) \ {fd} }
      BY <3>1, SenderKeeps DEF AtEnd
    <3> QED
      BY <1>1, <1>8, <2>1, <3>2, <3>3 DEF AtEnd
  <2>3. \/ /\ peer[c] = "open"
           /\ \/ /\ heard' = [heard EXCEPT ![c] = Append(@, Head(Mail).n)]
                 /\ UNCHANGED <<delivered, missed, alive>>
              \/ Ideal!GivenUp(c)
        \/ peer[c] = "left" /\ Ideal!Killed /\ UNCHANGED <<delivered, heard, missed>>
    <3>1. CASE peer[c] = "left" /\ PeerGone
      BY <3>1 DEF PeerGone, Ideal!Killed
    <3>2. CASE peer[c] = "open" /\ Written(c, frame)
      BY <1>4, <3>2 DEF Written
    <3>3. CASE peer[c] = "open" /\ GivenUp(c)
      BY <3>3, SameWords DEF GivenUp, Ideal!GivenUp
    <3> QED
      BY <1>8, <2>1, <3>1, <3>2, <3>3
  <2>4. Ideal!CastTo(c)
    BY <1>1, <1>5, <2>2, <2>3, SenderKeeps DEF Ideal!CastTo, Ideal!received
  <2> QED
    BY <2>4, SenderStep
<1> QED
  BY <1>1, <1>3, <1>7, <1>8 DEF SendTo, IdealStep

\* The loop is over when the event is due to nobody.
LEMMA UnlockIdeal == ASSUME ServerInv, Sender, SenderUnlock PROVE Ideal!Next
<1>1. /\ spc = "broadcast" /\ targets = {} /\ spc' = "loop"
      /\ UNCHANGED <<alive, delivered, heard, missed, eventSink, targets>>
  BY DEF SenderUnlock
<1>2. Mail' = Tail(Mail)
  BY <1>1, InFront DEF ServerInv, Known
<1>3. AtEnd(targets) = {} /\ AtEnd(targets)' = AtEnd(targets)
  BY <1>1, SenderKeeps, SameDue DEF AtEnd
<1>4. Ideal!EndCast
  BY <1>1, <1>2, <1>3, SenderKeeps DEF Ideal!EndCast, Ideal!received
<1> QED
  BY <1>4, SenderStep

\* Every step of the sender.
LEMMA SenderIdeal == ASSUME ServerInv, Sender PROVE IdealStep
<1>1. CASE SenderStop
  <2>1. /\ spc = "loop" /\ spc' = "done"
        /\ UNCHANGED <<alive, delivered, heard, missed, eventSink, targets>>
    BY <1>1 DEF SenderStop
  <2>2. InHand' = InHand
    BY <2>1 DEF InHand
  <2>3. Mail' = Mail /\ AtEnd(targets)' = AtEnd(targets)
    BY <2>1, <2>2, SenderKeeps, MailIs, SameDue
  <2> QED
    BY <2>1, <2>3, SenderKeeps, Unseen
<1>2. CASE SendPrivate \/ SenderLock \/ SenderUnlock
  BY <1>2, PrivateIdeal, LockIdeal, UnlockIdeal DEF IdealStep
<1> QED
  BY <1>1, <1>2, SenderPopIdeal, BroadcastIdeal DEF Sender

-----------------------------------------------------------------------------
(***************************************************************************)
(* The refinement.                                                         *)
(***************************************************************************)
\* The start of the server is the start of Exchange.
LEMMA InitIdeal == Init => Ideal!Init /\ IsFiniteSet(Inbox)
<1> SUFFICES ASSUME Init PROVE Ideal!Init /\ IsFiniteSet(Inbox)
  OBVIOUS
<1>1. /\ requests = [c \in Clients |-> <<>>] /\ parsing = <<>> /\ msgSink = <<>>
      /\ eventSink = <<>> /\ pending = <<>> /\ spc = "loop"
      /\ fd_to_state = {} /\ targets = {} /\ resting = {}
      /\ epc = "loop" /\ order = NoMessage /\ taken = NoMessage
  BY DEF Init
<1>2. ToSet(<<>>) = {}
  BY EmptyOrdered
<1>3. \A m \in Requests : ~Waits(m.client, m.n)
  BY <1>1, <1>2 DEF Waits, Requests
<1>4. Inbox = {}
  BY <1>3, InboxIs
<1>5. Mail = <<>>
  <2>1. InHand = <<>>
    BY <1>1 DEF InHand
  <2>2. <<>> \o <<>> = <<>> /\ Frames(<<>>) = <<>>
    BY DEF Frames
  <2> QED
    BY <1>1, <2>1, <2>2, MailIs
<1>6. AtEnd(fd_to_state) = {} /\ AtEnd(targets) = {} /\ { Untagged(m) : m \in resting } = {}
  BY <1>1 DEF AtEnd
<1>7. Ideal!Init
  BY <1>1, <1>4, <1>5, <1>6, SameWords DEF Init, Ideal!Init
<1> QED
  BY <1>4, <1>7, FS_EmptySet

\* One message at a time comes into the inbox, so it stays finite.
LEMMA InboxFinite == ASSUME IsFiniteSet(Inbox), IdealStep PROVE IsFiniteSet(Inbox')
<1>1. Inbox' \subseteq Inbox \/ \E x : Inbox' = Inbox \union {x}
  <2>1. CASE Ideal!Outside
    BY <2>1 DEF Ideal!Outside, Ideal!Connect, Ideal!Send, Ideal!Leave
  <2>2. CASE Ideal!Connections
    BY <2>2 DEF Ideal!Connections, Ideal!Shutdown, Ideal!Accept, Ideal!Admit, Ideal!Close,
                Ideal!clientVars
  <2>3. CASE Ideal!Engine
    BY <2>3 DEF Ideal!Engine, Ideal!Refuse, Ideal!Take, Ideal!Trade, Ideal!Finish, Ideal!Lose
  <2>4. CASE Ideal!Sender
    BY <2>4 DEF Ideal!Sender, Ideal!clientVars
  <2>5. CASE UNCHANGED Ideal!vars
    BY <2>5 DEF Ideal!vars, Ideal!clientVars
  <2> QED
    BY <2>1, <2>2, <2>3, <2>4, <2>5 DEF IdealStep, Ideal!Next
<1> QED
  BY <1>1, FS_Subset, FS_AddElement

\* Every step of the server is a step of Exchange or none.
LEMMA NextIdeal ==
  ASSUME ServerInv, IsFiniteSet(Inbox), [Next]_vars PROVE IdealStep
<1>1. CASE Outside
  BY <1>1, OutsideIdeal DEF IdealStep, ServerInv, Known
<1>2. CASE Stop \/ UNCHANGED vars
  <2>1. UNCHANGED <<peer, fdTable, sent, requests, delivered, heard, missed, alive, fd_to_state,
                    msgSink, eventSink, parsing, pending, resting, published, spc, event, targets,
                    epc, order, taken>>
    BY <1>2 DEF Stop, vars, network, kqueueVars, engineVars, senderVars
  <2>2. Inbox' = Inbox /\ Mail' = Mail
    BY <2>1, SameInbox, SameMail
  <2>3. AtEnd(fd_to_state)' = AtEnd(fd_to_state) /\ AtEnd(targets)' = AtEnd(targets)
    BY <2>1, SameMembers, SameDue
  <2> QED
    BY <2>1, <2>2, <2>3, Unseen DEF Stage
<1> QED
  BY <1>1, <1>2, KqueueIdeal, EngineIdeal, SenderIdeal DEF Next

\* Server implements Exchange, whatever the interleaving of its threads and the
\* numbers of clients, descriptors and messages: every message is processed, in
\* its client's order, or dropped for want of room, and every event goes out in
\* the order it was made to whom it is for.
THEOREM ImplementsExchange == Spec => ExchangeSpec
<1>1. Init => Ideal!Init /\ IsFiniteSet(Inbox)
  BY InitIdeal
<1>2. ServerInv /\ IsFiniteSet(Inbox) /\ [Next]_vars => [Ideal!Next]_(Ideal!vars)
  BY NextIdeal DEF IdealStep
<1>3. ServerInv /\ IsFiniteSet(Inbox) /\ [Next]_vars => IsFiniteSet(Inbox)'
  BY NextIdeal, InboxFinite
<1> QED
  BY <1>1, <1>2, <1>3, ServerInvariant, PTL DEF Spec, ExchangeSpec, Ideal!Spec
===============================================================================
