--------------------------- MODULE TcpServerProofs ---------------------------
(***************************************************************************)
(* What is proved of TcpServer for any number of loops and connections: a  *)
(* connection is freed only once its channel has left the Poller, the      *)
(* asserts hold, and the loops of the pool are given connections in turn.  *)
(***************************************************************************)
EXTENDS TcpServer, SequenceTheorems, FiniteSetTheorems, TLAPS

\* The functors of each loop that have not run, in their order.
waiting ==
  [l \in Loops |-> SubSeq(functors[l], done[l] + 1, Len(functors[l]))
                     \o pendingFunctors_[l]]

Has(w, l, f) == \E i \in DOMAIN w[l] : w[l][i] = f
Once(w) ==
  \A l, k \in Loops : \A i \in DOMAIN w[l], j \in DOMAIN w[k] :
    w[l][i].conn = w[k][j].conn => l = k /\ i = j

\* A connection has one functor at most, the one its phase calls for, in the
\* loop it must run in.
Fits(l, f) ==
  LET c == f.conn
  IN CASE f.op = "establish" ->
            phase[c] = "connecting" /\ l = home[c] /\ c \in connections_
       [] f.op = "remove" ->
            phase[c] = "closed" /\ l = Base /\ c \in connections_
       [] f.op = "destroy" ->
            phase[c] = "closed" /\ l = home[c] /\ c \notin connections_
       [] OTHER -> FALSE

Functors ==
  /\ Once(waiting)
  /\ \A l \in Loops : \A f \in Calls : Has(waiting, l, f) => Fits(l, f)

\* The map has the connections from newConnection to removeConnectionInLoop,
\* and the functor that destroys a connection is under way from then on.
Mapped ==
  /\ \A c \in Connections : phase[c] = "none" <=> c >= nextConnId_
  /\ \A c \in connections_ : phase[c] \in {"connecting", "up", "closed"}
  /\ \A c \in Connections : phase[c] \in {"connecting", "up"} => c \in connections_
  /\ \A c \in Connections : phase[c] = "closed" /\ c \notin connections_ =>
       \E l \in Loops, f \in Calls : f.conn = c /\ Has(waiting, l, f)

\* What a loop has polled it may handle; between polls it runs no functor.
Polled ==
  \A l \in Loops : \A c \in active[l] \ {Acceptor} : phase[c] = "up" /\ home[c] = l
Idle == \A l \in Loops : at[l] = "events" => functors[l] = <<>> /\ done[l] = 0

\* The loops of the pool up to next_ are one connection ahead of the others.
Load(l) == Cardinality({c \in 1 .. nextConnId_ - 1 : home[c] = l})
Rounds ==
  \A l, k \in 1 .. numThreads_ :
    Load(l) = IF l <= next_ /\ next_ < k THEN Load(k) + 1
              ELSE IF k <= next_ /\ next_ < l THEN Load(k) - 1
              ELSE Load(k)

IInv == TypeOK /\ Idle /\ AssertsHold /\ Functors /\ Mapped /\ Polled /\ Rounds
-----------------------------------------------------------------------------
\* A functor joins the queue of a loop while none of its connection waits.
LEMMA AddFunctor ==
  ASSUME NEW w \in [Loops -> Seq(Calls)], NEW l \in Loops, NEW f \in Calls, Once(w),
         \A k \in Loops : \A g \in Calls : Has(w, k, g) => g.conn # f.conn
  PROVE  LET w2 == [w EXCEPT ![l] = Append(@, f)]
         IN  /\ Once(w2)
             /\ \A k \in Loops : \A g \in Calls :
                  Has(w2, k, g) <=> Has(w, k, g) \/ (k = l /\ g = f)
<1> DEFINE w2 == [w EXCEPT ![l] = Append(@, f)]
<1>1. \A k \in Loops : k # l => w2[k] = w[k]
  OBVIOUS
<1>2. w2[l] = Append(w[l], f)
  OBVIOUS
<1>3. \A k \in Loops : /\ DOMAIN w[k] = 1 .. Len(w[k]) /\ Len(w[k]) \in Nat
                       /\ \A i \in DOMAIN w[k] : w[k][i] \in Calls
  OBVIOUS
<1>4. /\ DOMAIN w2[l] = 1 .. Len(w[l]) + 1
      /\ \A i \in 1 .. Len(w[l]) : w2[l][i] = w[l][i]
      /\ w2[l][Len(w[l]) + 1] = f
  BY <1>2, AppendProperties, LenProperties
<1> HIDE DEF w2
<1>5. \A k \in Loops : \A i \in DOMAIN w[k] : w[k][i].conn # f.conn
  BY <1>3 DEF Has
<1>6. Once(w2)
  <2> SUFFICES ASSUME NEW a \in Loops, NEW b \in Loops,
                      NEW i \in DOMAIN w2[a], NEW j \in DOMAIN w2[b],
                      w2[a][i].conn = w2[b][j].conn
               PROVE  a = b /\ i = j
    BY DEF Once
  <2>1. \/ a = l /\ i = Len(w[l]) + 1 /\ w2[a][i] = f
        \/ i \in DOMAIN w[a] /\ w2[a][i] = w[a][i]
    <3>1. CASE a # l
      BY <1>1, <3>1
    <3>2. CASE a = l /\ i = Len(w[l]) + 1
      BY <1>4, <3>2
    <3>3. CASE a = l /\ i # Len(w[l]) + 1
      <4>1. i \in 1 .. Len(w[l]) /\ Len(w[l]) \in Nat
        BY <1>3, <1>4, <3>3
      <4> QED BY <1>3, <1>4, <3>3, <4>1
    <3> QED BY <3>1, <3>2, <3>3
  <2>2. \/ b = l /\ j = Len(w[l]) + 1 /\ w2[b][j] = f
        \/ j \in DOMAIN w[b] /\ w2[b][j] = w[b][j]
    <3>1. CASE b # l
      BY <1>1, <3>1
    <3>2. CASE b = l /\ j = Len(w[l]) + 1
      BY <1>4, <3>2
    <3>3. CASE b = l /\ j # Len(w[l]) + 1
      <4>1. j \in 1 .. Len(w[l]) /\ Len(w[l]) \in Nat
        BY <1>3, <1>4, <3>3
      <4> QED BY <1>3, <1>4, <3>3, <4>1
    <3> QED BY <3>1, <3>2, <3>3
  <2> QED BY <1>5, <2>1, <2>2 DEF Once
<1>7. ASSUME NEW k \in Loops, NEW g \in Calls
      PROVE  Has(w2, k, g) <=> Has(w, k, g) \/ (k = l /\ g = f)
  <2>1. CASE k # l
    BY <1>1, <2>1 DEF Has
  <2>2. CASE k = l
    BY <1>3, <1>4, <2>2 DEF Has
  <2> QED BY <2>1, <2>2
<1> QED BY <1>6, <1>7 DEF w2

\* A loop takes the first functor of its queue.
LEMMA TakeFunctor ==
  ASSUME NEW w \in [Loops -> Seq(Calls)], NEW l \in Loops, w[l] # <<>>, Once(w)
  PROVE  LET w2 == [w EXCEPT ![l] = Tail(@)]
             f == Head(w[l])
         IN  /\ w2 \in [Loops -> Seq(Calls)] /\ f \in Calls
             /\ Once(w2) /\ Has(w, l, f)
             /\ \A k \in Loops : \A g \in Calls :
                  Has(w2, k, g) <=> Has(w, k, g) /\ g.conn # f.conn
<1> DEFINE w2 == [w EXCEPT ![l] = Tail(@)]
           f == Head(w[l])
<1>1. \A k \in Loops : k # l => w2[k] = w[k]
  OBVIOUS
<1>2. \A k \in Loops : /\ DOMAIN w[k] = 1 .. Len(w[k]) /\ Len(w[k]) \in Nat
                       /\ \A i \in DOMAIN w[k] : w[k][i] \in Calls
  OBVIOUS
<1>3. w2[l] = Tail(w[l]) /\ Tail(w[l]) \in Seq(Calls) /\ Len(w[l]) \in Nat \ {0}
  OBVIOUS
<1>4. /\ DOMAIN w2[l] = 1 .. Len(w[l]) - 1
      /\ \A i \in 1 .. Len(w[l]) - 1 : w2[l][i] = w[l][i + 1]
      /\ f = w[l][1] /\ f \in Calls
  BY <1>3, HeadTailProperties, LenProperties
<1>5. w2 \in [Loops -> Seq(Calls)]
  BY <1>3
<1> HIDE DEF w2, f
<1>a. \A i \in DOMAIN w2[l] : /\ i \in Nat /\ i + 1 \in DOMAIN w[l] /\ i + 1 # 1
                            /\ w2[l][i] = w[l][i + 1]
  BY <1>2, <1>4
<1>6. Once(w2)
  <2> SUFFICES ASSUME NEW a \in Loops, NEW b \in Loops,
                      NEW i \in DOMAIN w2[a], NEW j \in DOMAIN w2[b],
                      w2[a][i].conn = w2[b][j].conn
               PROVE  a = b /\ i = j
    BY DEF Once
  <2>1. \/ a = l /\ i \in Nat /\ i + 1 \in DOMAIN w[a] /\ w2[a][i] = w[a][i + 1]
        \/ a # l /\ i \in DOMAIN w[a] /\ w2[a][i] = w[a][i]
    BY <1>1, <1>a
  <2>2. \/ b = l /\ j \in Nat /\ j + 1 \in DOMAIN w[b] /\ w2[b][j] = w[b][j + 1]
        \/ b # l /\ j \in DOMAIN w[b] /\ w2[b][j] = w[b][j]
    BY <1>1, <1>a
  <2> QED BY <2>1, <2>2 DEF Once
<1>7. 1 \in DOMAIN w[l] /\ w[l][1] = f
  BY <1>2, <1>3, <1>4
<1>8. Has(w, l, f)
  BY <1>7 DEF Has
<1>9. ASSUME NEW k \in Loops, NEW g \in Calls
      PROVE  Has(w2, k, g) <=> Has(w, k, g) /\ g.conn # f.conn
  <2>1. CASE k # l
    <3>1. w2[k] = w[k]
      BY <1>1, <2>1
    <3>2. \A i \in DOMAIN w[k] : w[k][i].conn # f.conn
      BY <1>7, <2>1 DEF Once
    <3> QED BY <3>1, <3>2 DEF Has
  <2>2. CASE k = l
    <3>1. \A i \in DOMAIN w[l] : w[l][i].conn = f.conn => i = 1
      BY <1>7 DEF Once
    <3>2. \A i \in DOMAIN w[l] : i # 1 =>
            i - 1 \in DOMAIN w2[l] /\ w2[l][i - 1] = w[l][i]
      <4> TAKE i \in DOMAIN w[l]
      <4> HAVE i # 1
      <4>1. i \in 1 .. Len(w[l]) /\ Len(w[l]) \in Nat
        BY <1>2
      <4>2. i - 1 \in 1 .. Len(w[l]) - 1 /\ (i - 1) + 1 = i
        BY <4>1
      <4> QED BY <1>4, <4>2
    <3>3. Has(w2, l, g) => Has(w, l, g) /\ g.conn # f.conn
      BY <1>a, <3>1 DEF Has
    <3>4. ASSUME Has(w, l, g), g.conn # f.conn PROVE Has(w2, l, g)
      <4>1. PICK i \in DOMAIN w[l] : w[l][i] = g
        BY <3>4 DEF Has
      <4>2. i # 1
        BY <1>7, <3>4, <4>1
      <4>3. i - 1 \in DOMAIN w2[l] /\ w2[l][i - 1] = g
        BY <3>2, <4>1, <4>2
      <4> QED BY <4>3 DEF Has
    <3> QED BY <2>2, <3>3, <3>4
  <2> QED BY <2>1, <2>2
<1> QED BY <1>4, <1>5, <1>6, <1>8, <1>9 DEF w2, f
-----------------------------------------------------------------------------
\* A functor that can be queued keeps the queues' types.
LEMMA QueueTypes ==
  ASSUME TypeOK, NEW l \in Loops, NEW c \in Connections,
         NEW op \in {"establish", "remove", "destroy"}, Queue(l, op, c)
  PROVE  pendingFunctors_' \in [Loops -> Seq(Calls)]
<1>1. [op |-> op, conn |-> c] \in Calls
  BY DEF Calls
<1>2. pendingFunctors_[l] \in Seq(Calls)
  BY DEF TypeOK
<1>3. Append(pendingFunctors_[l], [op |-> op, conn |-> c]) \in Seq(Calls)
  BY <1>1, <1>2
<1> QED BY <1>3 DEF TypeOK, Queue

\* A functor of a loop is a call of a connection's handler.
LEMMA FunctorTypes ==
  ASSUME TypeOK, NEW l \in Loops, done[l] < Len(functors[l])
  PROVE  /\ functors[l][done[l] + 1] \in Calls
         /\ functors[l][done[l] + 1].conn \in Connections
<1>1. functors[l] \in Seq(Calls) /\ done[l] + 1 \in 1 .. Len(functors[l])
  BY DEF TypeOK
<1>2. functors[l][done[l] + 1] \in Calls
  BY <1>1
<1> QED BY <1>2 DEF Calls

\* TypeOK in two parts: the server and its connections, the loops.
ServerTypes ==
  /\ numThreads_ \in 0 .. MaxThreads /\ listening_ \in BOOLEAN
  /\ next_ = 0 \/ next_ \in 1 .. numThreads_ - 1
  /\ nextConnId_ \in 1 .. MaxConnections + 1
  /\ connections_ \subseteq Connections
  /\ home \in [Connections -> Loops] /\ phase \in [Connections -> Phases]
  /\ aborted \in BOOLEAN
LoopTypes ==
  /\ at \in [Loops -> {"events", "functors"}]
  /\ active \in [Loops -> SUBSET (Connections \cup {Acceptor})]
  /\ pendingFunctors_ \in [Loops -> Seq(Calls)]
  /\ functors \in [Loops -> Seq(Calls)]
  /\ done \in [Loops -> Nat] /\ \A l \in Loops : done[l] <= Len(functors[l])

\* getNextLoop stays within the pool.
LEMMA NextLoopTypes ==
  ASSUME TypeOK, nextConnId_ \in Connections, NextLoop
  PROVE  /\ home' = [home EXCEPT ![nextConnId_] =
                        IF numThreads_ = 0 THEN Base ELSE next_ + 1]
         /\ home' \in [Connections -> Loops] /\ home'[nextConnId_] \in Loops
         /\ next_' = 0 \/ next_' \in 1 .. numThreads_ - 1
<1>1. (IF numThreads_ = 0 THEN Base ELSE next_ + 1) \in Loops
  <2>1. /\ numThreads_ \in Nat /\ numThreads_ <= MaxThreads /\ MaxThreads \in Nat
        /\ next_ = 0 \/ next_ \in 1 .. numThreads_ - 1
    BY ServerAssumption DEF TypeOK
  <2> QED BY <2>1 DEF Loops, Base
<1>2. next_' = 0 \/ next_' \in 1 .. numThreads_ - 1
  BY ServerAssumption DEF TypeOK, NextLoop
<1> QED BY <1>1, <1>2 DEF TypeOK, NextLoop

\* The state of the server, its connections and its loops keeps its types.
LEMMA TypesPreserved == TypeOK /\ Idle /\ [Next]_vars => TypeOK'
<1> SUFFICES ASSUME TypeOK, Idle, [Next]_vars PROVE TypeOK'
  OBVIOUS
<1>a. (ServerTypes /\ LoopTypes)' => TypeOK'
  BY DEF TypeOK, ServerTypes, LoopTypes
<1>b. ServerTypes /\ LoopTypes
  BY DEF TypeOK, ServerTypes, LoopTypes
<1> USE DEF serverVars, connVars, loopVars
<1>1. CASE UNCHANGED vars
  BY <1>a, <1>b, <1>1 DEF vars, ServerTypes, LoopTypes
<1>2. CASE Start
  BY <1>a, <1>b, <1>2 DEF Start, ServerTypes, LoopTypes
<1>3. ASSUME NEW l \in Loops, NEW x, Handling(l, x),
             pendingFunctors_' \in [Loops -> Seq(Calls)]
      PROVE  LoopTypes'
  BY <1>b, <1>3 DEF Handling, LoopTypes
<1>4. CASE NewConnection
  <2> DEFINE c == nextConnId_
  <2>1. c \in Connections /\ NextLoop /\ Base \in Loops
    BY <1>4, ServerAssumption DEF NewConnection, Loops, Base
  <2>2. home' \in [Connections -> Loops] /\ home'[c] \in Loops
        /\ (next_' = 0 \/ next_' \in 1 .. numThreads_ - 1)
    BY <2>1, NextLoopTypes
  <2>3. pendingFunctors_' \in [Loops -> Seq(Calls)]
    <3>1. CASE Queue(home'[c], "establish", c)
      BY <2>1, <2>2, <3>1, QueueTypes
    <3>2. CASE UNCHANGED pendingFunctors_
      BY <1>b, <3>2 DEF LoopTypes
    <3> QED BY <1>4, <3>1, <3>2 DEF NewConnection
  <2>4. LoopTypes'
    BY <1>3, <1>4, <2>1, <2>3 DEF NewConnection
  <2>5. phase' \in [Connections -> Phases]
    BY <1>b, <1>4 DEF NewConnection, ServerTypes, Phases
  <2>6. ServerTypes'
    BY <1>b, <1>4, <2>1, <2>2, <2>5, ServerAssumption
       DEF NewConnection, ServerTypes, Connections
  <2> QED BY <1>a, <2>4, <2>6
<1>5. CASE AcceptFails
  <2>1. Base \in Loops
    BY ServerAssumption DEF Loops, Base
  <2>2. LoopTypes'
    BY <1>3, <1>5, <1>b, <2>1 DEF AcceptFails, LoopTypes
  <2> QED BY <1>a, <1>b, <1>5, <2>2 DEF AcceptFails, ServerTypes
<1>6. ASSUME NEW l \in Loops, NEW c \in Connections, HandleClose(l, c)
      PROVE  TypeOK'
  <2>1. Base \in Loops /\ home[c] \in Loops
    BY <1>b, ServerAssumption DEF Loops, Base, ServerTypes
  <2>2. pendingFunctors_' \in [Loops -> Seq(Calls)]
    BY <1>6, <2>1, QueueTypes DEF HandleClose, RemoveInLoop
  <2>3. LoopTypes'
    BY <1>3, <1>6, <2>2 DEF HandleClose
  <2>4. ServerTypes'
    BY <1>b, <1>6 DEF HandleClose, RemoveInLoop, ServerTypes, Phases
  <2> QED BY <1>a, <2>3, <2>4
<1>7. ASSUME NEW l \in Loops, SwapPending(l) PROVE TypeOK'
  <2>1. /\ pendingFunctors_' \in [Loops -> Seq(Calls)]
        /\ functors' \in [Loops -> Seq(Calls)]
    BY <1>b, <1>7 DEF SwapPending, LoopTypes
  <2>2. \A k \in Loops : done[k] <= Len(functors'[k])
    <3>1. \A k \in Loops \ {l} : functors'[k] = functors[k]
      BY <1>b, <1>7 DEF SwapPending, LoopTypes
    <3>2. done[l] = 0 /\ Len(functors'[l]) \in Nat
      BY <1>7, <2>1 DEF SwapPending, Idle
    <3>3. \A k \in Loops : done[k] <= Len(functors[k])
      BY <1>b DEF LoopTypes
    <3> QED BY <3>1, <3>2, <3>3
  <2> QED BY <1>a, <1>b, <1>7, <2>1, <2>2 DEF SwapPending, LoopTypes, ServerTypes
<1>8. ASSUME NEW l \in Loops, RunFunctor(l) PROVE TypeOK'
  <2> DEFINE f == functors[l][done[l] + 1]
  <2>1. f \in Calls /\ f.conn \in Connections
    BY <1>8, FunctorTypes DEF RunFunctor
  <2>2. pendingFunctors_' \in [Loops -> Seq(Calls)]
    <3>1. CASE RemoveInLoop(f.conn)
      <4>1. home[f.conn] \in Loops
        BY <1>b, <2>1 DEF ServerTypes
      <4> QED BY <2>1, <3>1, <4>1, QueueTypes DEF RemoveInLoop
    <3>2. CASE UNCHANGED pendingFunctors_
      BY <1>b, <3>2 DEF LoopTypes
    <3> QED BY <1>8, <3>1, <3>2 DEF RunFunctor, Step
  <2>3. LoopTypes'
    <3>1. done' \in [Loops -> Nat] /\ functors' = functors
      BY <1>b, <1>8 DEF RunFunctor, LoopTypes
    <3>2. \A k \in Loops : done'[k] <= Len(functors[k])
      <4>1. \A k \in Loops \ {l} : done'[k] = done[k]
        BY <1>b, <1>8 DEF RunFunctor, LoopTypes
      <4>2. done'[l] = done[l] + 1 /\ done[l] < Len(functors[l]) /\ done[l] \in Nat
            /\ functors[l] \in Seq(Calls)
        BY <1>b, <1>8 DEF RunFunctor, LoopTypes
      <4>3. Len(functors[l]) \in Nat
        BY <4>2
      <4>4. \A k \in Loops : done[k] <= Len(functors[k])
        BY <1>b DEF LoopTypes
      <4> QED BY <4>1, <4>2, <4>3, <4>4
    <3> QED BY <1>b, <1>8, <2>2, <3>1, <3>2 DEF RunFunctor, LoopTypes
  <2>4. ServerTypes'
    BY <1>b, <1>8, <2>1 DEF RunFunctor, Step, RemoveInLoop, ServerTypes, Phases
  <2> QED BY <1>a, <2>3, <2>4
<1>9. ASSUME NEW l \in Loops, Poll(l) PROVE TypeOK'
  <2>1. active' \in [Loops -> SUBSET (Connections \cup {Acceptor})]
    BY <1>b, <1>9 DEF Poll, LoopTypes
  <2>2. functors' \in [Loops -> Seq(Calls)] /\ done' \in [Loops -> Nat]
        /\ \A k \in Loops : done'[k] <= Len(functors'[k])
    BY <1>b, <1>9 DEF Poll, LoopTypes
  <2> QED BY <1>a, <1>b, <1>9, <2>1, <2>2 DEF Poll, LoopTypes, ServerTypes
<1> QED BY <1>1, <1>2, <1>4, <1>5, <1>6, <1>7, <1>8, <1>9 DEF Next, LoopStep
-----------------------------------------------------------------------------
\* The functors that wait are calls.
LEMMA WaitingTypes == TypeOK => waiting \in [Loops -> Seq(Calls)]
<1> SUFFICES ASSUME TypeOK, NEW l \in Loops
             PROVE  SubSeq(functors[l], done[l] + 1, Len(functors[l]))
                      \o pendingFunctors_[l] \in Seq(Calls)
  BY DEF waiting
<1>1. functors[l] \in Seq(Calls) /\ pendingFunctors_[l] \in Seq(Calls)
      /\ done[l] \in Nat
  BY DEF TypeOK
<1>2. SubSeq(functors[l], done[l] + 1, Len(functors[l])) \in Seq(Calls)
  BY <1>1
<1> QED BY <1>1, <1>2

\* push_back on the second of two vectors that follow one another.
LEMMA AppendConcat ==
  ASSUME NEW S, NEW s \in Seq(S), NEW t \in Seq(S), NEW e \in S
  PROVE  s \o Append(t, e) = Append(s \o t, e)
<1>1. <<e>> \in Seq(S) /\ s \o t \in Seq(S)
  OBVIOUS
<1>2. Append(t, e) = t \o <<e>> /\ Append(s \o t, e) = (s \o t) \o <<e>>
  BY <1>1, AppendIsConcat
<1> QED BY <1>1, <1>2, ConcatAssociative

\* Taking the head of two vectors that follow one another takes that of the first.
LEMMA HeadTailConcat ==
  ASSUME NEW S, NEW s \in Seq(S), NEW t \in Seq(S), s # <<>>
  PROVE  /\ s \o t # <<>>
         /\ Head(s \o t) = Head(s)
         /\ Tail(s \o t) = Tail(s) \o t
<1>1. /\ Len(s) \in Nat \ {0} /\ Len(t) \in Nat
      /\ Tail(s) \in Seq(S) /\ s \o t \in Seq(S)
      /\ Len(s \o t) = Len(s) + Len(t)
  OBVIOUS
<1>2. s \o t # <<>> /\ Head(s \o t) = Head(s)
  BY <1>1
<1>3. Tail(s \o t) \in Seq(S) /\ Tail(s) \o t \in Seq(S)
  BY <1>1, <1>2
<1>4. Len(Tail(s \o t)) = Len(Tail(s) \o t)
  BY <1>1, <1>2
<1>5. \A i \in 1 .. Len(Tail(s \o t)) : Tail(s \o t)[i] = (Tail(s) \o t)[i]
  BY <1>1, <1>2
<1>6. Tail(s \o t) = Tail(s) \o t
  BY <1>3, <1>4, <1>5, SeqEqual
<1> QED BY <1>2, <1>6

\* queueInLoop appends to what waits.
LEMMA WaitingQueues ==
  ASSUME TypeOK, NEW l \in Loops, NEW f \in Calls,
         pendingFunctors_' = [pendingFunctors_ EXCEPT ![l] = Append(@, f)],
         functors' = functors, done' = done
  PROVE  waiting' = [waiting EXCEPT ![l] = Append(@, f)]
<1> DEFINE rest(k) == SubSeq(functors[k], done[k] + 1, Len(functors[k]))
<1>1. /\ pendingFunctors_[l] \in Seq(Calls)
      /\ functors[l] \in Seq(Calls) /\ done[l] \in Nat
  BY DEF TypeOK
<1>2. rest(l) \in Seq(Calls)
  BY <1>1
<1>3. rest(l) \o Append(pendingFunctors_[l], f)
        = Append(rest(l) \o pendingFunctors_[l], f)
  <2> HIDE DEF rest
  <2> QED BY <1>1, <1>2, AppendConcat, SMTT(60)
<1>5. waiting' = [k \in Loops |-> rest(k) \o pendingFunctors_'[k]]
  BY DEF waiting
<1>6. waiting = [k \in Loops |-> rest(k) \o pendingFunctors_[k]]
  BY DEF waiting
<1>7. pendingFunctors_'[l] = Append(pendingFunctors_[l], f)
      /\ \A k \in Loops \ {l} : pendingFunctors_'[k] = pendingFunctors_[k]
  BY DEF TypeOK
<1> HIDE DEF rest
<1>8. [waiting EXCEPT ![l] = Append(@, f)]
        = [k \in Loops |-> rest(k) \o pendingFunctors_'[k]]
  BY <1>3, <1>6, <1>7
<1> QED BY <1>5, <1>8

\* Neither the swap nor the end of doPendingFunctors changes what waits.
LEMMA WaitingStays ==
  ASSUME TypeOK, Idle, NEW l \in Loops, SwapPending(l) \/ Poll(l)
  PROVE  waiting' = waiting
<1>1. /\ functors \in [Loops -> Seq(Calls)]
      /\ pendingFunctors_ \in [Loops -> Seq(Calls)]
      /\ done \in [Loops -> Nat]
  BY DEF TypeOK
<1>2. ASSUME NEW k \in Loops
      PROVE  SubSeq(functors'[k], done'[k] + 1, Len(functors'[k]))
               \o pendingFunctors_'[k]
             = SubSeq(functors[k], done[k] + 1, Len(functors[k]))
               \o pendingFunctors_[k]
  <2>1. CASE k # l
    BY <1>1, <2>1 DEF SwapPending, Poll
  <2>2. CASE SwapPending(l) /\ k = l
    <3>1. /\ functors[k] = <<>> /\ done[k] = 0 /\ done'[k] = 0
          /\ functors'[k] = pendingFunctors_[k] /\ pendingFunctors_'[k] = <<>>
      BY <1>1, <2>2 DEF SwapPending, Idle
    <3>2. SubSeq(functors'[k], done'[k] + 1, Len(functors'[k])) = pendingFunctors_[k]
      BY <1>1, <3>1, SubSeqFull
    <3>3. SubSeq(functors[k], done[k] + 1, Len(functors[k])) = <<>>
      BY <3>1
    <3>4. pendingFunctors_[k] \o <<>> = pendingFunctors_[k]
          /\ <<>> \o pendingFunctors_[k] = pendingFunctors_[k]
      BY <1>1, ConcatEmptySeq
    <3> QED BY <3>1, <3>2, <3>3, <3>4
  <2>3. CASE Poll(l) /\ k = l
    <3>1. /\ done[k] = Len(functors[k]) /\ functors'[k] = <<>> /\ done'[k] = 0
          /\ pendingFunctors_'[k] = pendingFunctors_[k]
      BY <1>1, <2>3 DEF Poll
    <3>2. functors[k] \in Seq(Calls)
      BY <1>1
    <3>3. SubSeq(functors[k], done[k] + 1, Len(functors[k])) = <<>>
      BY <3>1, <3>2
    <3>4. SubSeq(functors'[k], done'[k] + 1, Len(functors'[k])) = <<>>
      BY <3>1
    <3> QED BY <3>1, <3>3, <3>4
  <2> QED BY <2>1, <2>2, <2>3
<1> QED BY <1>2 DEF waiting

\* A functor that runs is the first that waits.
LEMMA WaitingTakes ==
  ASSUME TypeOK, NEW l \in Loops, at[l] = "functors", done[l] < Len(functors[l]),
         done' = [done EXCEPT ![l] = @ + 1], functors' = functors
  PROVE  LET w == [k \in Loops |-> SubSeq(functors'[k], done'[k] + 1, Len(functors'[k]))
                                     \o pendingFunctors_[k]]
         IN  /\ waiting[l] # <<>> /\ Head(waiting[l]) = functors[l][done[l] + 1]
             /\ w = [waiting EXCEPT ![l] = Tail(@)]
<1> DEFINE s == functors[l]
           d == done[l]
           t == pendingFunctors_[l]
           a == SubSeq(s, d + 1, Len(s))
           b == SubSeq(s, d + 2, Len(s))
<1>1. s \in Seq(Calls) /\ t \in Seq(Calls) /\ d \in Nat /\ d < Len(s) /\ Len(s) \in Nat
  BY DEF TypeOK
<1>2. /\ a \in Seq(Calls) /\ Len(a) = Len(s) - d
      /\ \A i \in 1 .. Len(s) - d : a[i] = s[d + i]
  <2> HIDE DEF s, d
  <2>1. a \in Seq(Calls) /\ Len(a) = Len(s) - d
    BY <1>1
  <2>2. \A i \in 1 .. Len(s) - d : a[i] = s[d + 1 + i - 1]
    BY <1>1
  <2> QED BY <1>1, <2>1, <2>2
<1>3. /\ b \in Seq(Calls) /\ Len(b) = Len(s) - d - 1
      /\ \A i \in 1 .. Len(s) - d - 1 : b[i] = s[d + 1 + i]
  <2> HIDE DEF s, d
  <2>1. b \in Seq(Calls) /\ Len(b) = Len(s) - d - 1
    BY <1>1
  <2>2. \A i \in 1 .. Len(s) - d - 1 : b[i] = s[d + 2 + i - 1]
    BY <1>1
  <2> QED BY <1>1, <2>1, <2>2
<1>4. /\ a \o t # <<>> /\ Head(a \o t) = s[d + 1]
      /\ Tail(a \o t) = b \o t
  <2> HIDE DEF a, b, s, d, t
  <2>1. Len(a) \in Nat \ {0} /\ a[1] = s[d + 1] /\ Len(b) = Len(a) - 1
    BY <1>1, <1>2, <1>3
  <2>2. a # <<>> /\ a \o t # <<>> /\ Head(a \o t) = Head(a) /\ Tail(a \o t) = Tail(a) \o t
    BY <1>1, <1>2, <2>1, HeadTailConcat, EmptySeq
  <2>3. Head(a) = a[1] /\ Tail(a) \in Seq(Calls) /\ Len(Tail(a)) = Len(a) - 1
        /\ \A i \in 1 .. Len(a) - 1 : Tail(a)[i] = a[i + 1]
    BY <1>2, <2>2, HeadTailProperties
  <2>4. \A i \in 1 .. Len(a) - 1 : a[i + 1] = b[i]
    <3> TAKE i \in 1 .. Len(a) - 1
    <3>1. i + 1 \in 1 .. Len(s) - d /\ i \in 1 .. Len(s) - d - 1
      BY <1>1, <1>2
    <3>2. d + (i + 1) = d + 1 + i
      BY <1>1
    <3> QED BY <1>2, <1>3, <3>1, <3>2
  <2>5. Tail(a) = b
    BY <1>3, <2>1, <2>3, <2>4, SeqEqual
  <2> QED BY <2>1, <2>2, <2>3, <2>5
<1>5. done'[l] + 1 = d + 2 /\ \A k \in Loops \ {l} : done'[k] = done[k]
  BY <1>1 DEF TypeOK
<1>6. waiting[l] = a \o t
  BY DEF waiting
<1> DEFINE rest(k) == SubSeq(functors[k], done[k] + 1, Len(functors[k]))
           rest2(k) == SubSeq(functors'[k], done'[k] + 1, Len(functors'[k]))
<1>7. rest2(l) = b /\ \A k \in Loops \ {l} : rest2(k) = rest(k)
  BY <1>5
<1>8. waiting = [k \in Loops |-> rest(k) \o pendingFunctors_[k]]
  BY DEF waiting
<1> HIDE DEF a, b, rest, rest2
<1>9. [k \in Loops |-> rest2(k) \o pendingFunctors_[k]] = [waiting EXCEPT ![l] = Tail(@)]
  BY <1>4, <1>6, <1>7, <1>8
<1> QED BY <1>4, <1>6, <1>9 DEF rest2
-----------------------------------------------------------------------------
\* A step concerns one connection: what it must show of that connection, and
\* leave alone of the others.
LEMMA OneConnection ==
  ASSUME TypeOK, Functors, Mapped, NEW c \in Connections,
         connections_' \subseteq Connections,
         \A d \in Connections \ {c} :
           /\ phase'[d] = phase[d] /\ home'[d] = home[d]
           /\ d \in connections_' <=> d \in connections_
           /\ d >= nextConnId_' <=> d >= nextConnId_,
         phase'[c] = "none" <=> c >= nextConnId_',
         c \in connections_' => phase'[c] \in {"connecting", "up", "closed"},
         phase'[c] \in {"connecting", "up"} => c \in connections_',
         phase'[c] = "closed" /\ c \notin connections_' =>
           \E l \in Loops, f \in Calls : f.conn = c /\ Has(waiting', l, f),
         Once(waiting'),
         \A l \in Loops : \A f \in Calls :
           /\ f.conn # c => (Has(waiting', l, f) <=> Has(waiting, l, f))
           /\ f.conn = c /\ Has(waiting', l, f) => Fits(l, f)'
  PROVE  Functors' /\ Mapped'
<1>1. ASSUME NEW l \in Loops, NEW f \in Calls, f.conn # c, Fits(l, f)
      PROVE  Fits(l, f)'
  <2>1. f.conn \in Connections \ {c}
    BY <1>1 DEF Calls
  <2> QED BY <1>1, <2>1 DEF Fits
<1>2. \A l \in Loops : \A f \in Calls : Has(waiting', l, f) => Fits(l, f)'
  BY <1>1 DEF Functors
<1>3. Functors'
  BY <1>2 DEF Functors
<1>4. /\ \A d \in Connections : phase'[d] = "none" <=> d >= nextConnId_'
      /\ \A d \in connections_' : phase'[d] \in {"connecting", "up", "closed"}
      /\ \A d \in Connections : phase'[d] \in {"connecting", "up"} => d \in connections_'
  BY DEF Mapped
<1>5. ASSUME NEW d \in Connections, phase'[d] = "closed", d \notin connections_'
      PROVE  \E l \in Loops, f \in Calls : f.conn = d /\ Has(waiting', l, f)
  <2>1. CASE d = c
    BY <1>5, <2>1
  <2>2. CASE d # c
    BY <1>5, <2>2 DEF Mapped
  <2> QED BY <2>1, <2>2
<1> QED BY <1>3, <1>4, <1>5 DEF Mapped

\* The functor of a connection that newConnection or handleClose queues.
LEMMA ConnectionQueues ==
  ASSUME TypeOK, Functors, NEW c \in Connections, NEW l \in Loops,
         NEW op \in {"establish", "remove", "destroy"},
         phase[c] \in {"none", "up"}, Queue(l, op, c), UNCHANGED <<functors, done>>
  PROVE  LET f == [op |-> op, conn |-> c]
         IN  /\ f \in Calls /\ f.conn = c /\ Once(waiting')
             /\ Has(waiting', l, f)
             /\ \A k \in Loops : \A g \in Calls :
                  Has(waiting', k, g) <=> Has(waiting, k, g) \/ (k = l /\ g = f)
             /\ \A k \in Loops : \A g \in Calls : Has(waiting, k, g) => g.conn # c
<1> DEFINE f == [op |-> op, conn |-> c]
<1>1. f \in Calls /\ f.conn = c
  BY DEF Calls
<1>2. \A k \in Loops : \A g \in Calls : Has(waiting, k, g) => g.conn # f.conn
  BY <1>1 DEF Functors, Fits
<1>3. waiting' = [waiting EXCEPT ![l] = Append(@, f)]
  <2>1. pendingFunctors_' = [pendingFunctors_ EXCEPT ![l] = Append(@, f)]
    BY DEF Queue
  <2> HIDE DEF f
  <2> QED BY <1>1, <2>1, WaitingQueues
<1> HIDE DEF f
<1>4. waiting \in [Loops -> Seq(Calls)] /\ Once(waiting)
  BY WaitingTypes DEF Functors
<1>5. /\ Once([waiting EXCEPT ![l] = Append(@, f)])
      /\ \A k \in Loops : \A g \in Calls :
           Has([waiting EXCEPT ![l] = Append(@, f)], k, g)
             <=> Has(waiting, k, g) \/ (k = l /\ g = f)
  BY <1>1, <1>2, <1>4, AddFunctor
<1> QED BY <1>1, <1>2, <1>3, <1>5, Zenon DEF f

\* Nothing that waits changes, nor do the connections.
LEMMA QuietStep ==
  ASSUME Functors, Mapped, UNCHANGED <<waiting, phase, home, connections_, nextConnId_>>
  PROVE  Functors' /\ Mapped'
<1>1. \A l, f : Fits(l, f)' <=> Fits(l, f)
  BY DEF Fits
<1>2. Functors'
  BY <1>1 DEF Functors
<1> QED BY <1>2 DEF Mapped

\* The functor that runs, and what waits afterwards if it queues nothing.
LEMMA FunctorRuns ==
  ASSUME TypeOK, Functors, NEW l \in Loops, RunFunctor(l)
  PROVE  LET f == functors[l][done[l] + 1]
             w == [k \in Loops |-> SubSeq(functors'[k], done'[k] + 1, Len(functors'[k]))
                                     \o pendingFunctors_[k]]
         IN  /\ f \in Calls /\ f.conn \in Connections /\ Fits(l, f)
             /\ w \in [Loops -> Seq(Calls)] /\ Once(w)
             /\ \A k \in Loops : \A g \in Calls :
                  Has(w, k, g) <=> Has(waiting, k, g) /\ g.conn # f.conn
<1> DEFINE f == functors[l][done[l] + 1]
           w == [k \in Loops |-> SubSeq(functors'[k], done'[k] + 1, Len(functors'[k]))
                                   \o pendingFunctors_[k]]
<1>1. /\ at[l] = "functors" /\ done[l] < Len(functors[l])
      /\ done' = [done EXCEPT ![l] = @ + 1] /\ functors' = functors
  BY DEF RunFunctor
<1>2. /\ waiting[l] # <<>> /\ Head(waiting[l]) = f
      /\ w = [waiting EXCEPT ![l] = Tail(@)]
  BY <1>1, WaitingTakes
<1>3. waiting \in [Loops -> Seq(Calls)] /\ Once(waiting)
  BY WaitingTypes DEF Functors
<1> HIDE DEF w, f
<1>4. /\ w \in [Loops -> Seq(Calls)] /\ f \in Calls
      /\ Once(w) /\ Has(waiting, l, f)
      /\ \A k \in Loops : \A g \in Calls :
           Has(w, k, g) <=> Has(waiting, k, g) /\ g.conn # f.conn
  BY <1>2, <1>3, TakeFunctor
<1>5. Fits(l, f) /\ f.conn \in Connections
  BY <1>4 DEF Functors, Calls
<1> QED BY <1>4, <1>5 DEF w, f

\* connectEstablished and connectDestroyed find the state and the loop that they
\* assert, connections_.erase finds the connection, and a connection keeps the
\* functor its phase calls for.
LEMMA ServerPreserved ==
  ASSUME TypeOK, Idle, AssertsHold, Functors, Mapped, Polled, [Next]_vars
  PROVE  AssertsHold' /\ Functors' /\ Mapped'
<1>0. Base \in Loops
  BY ServerAssumption DEF Loops, Base
<1> USE DEF serverVars, connVars, loopVars
<1>1. CASE UNCHANGED vars
  <2>1. waiting' = waiting
    BY <1>1 DEF vars, waiting
  <2> QED BY <1>1, <2>1, QuietStep DEF vars, AssertsHold
<1>2. CASE Start \/ AcceptFails
  <2>1. waiting' = waiting
    BY <1>2 DEF Start, AcceptFails, Handling, waiting
  <2> QED BY <1>2, <2>1, QuietStep DEF Start, AcceptFails, AssertsHold
<1>3. CASE NewConnection
  <2> DEFINE c == nextConnId_
  <2>1. /\ c \in Connections /\ NextLoop /\ aborted' = aborted
        /\ nextConnId_' = c + 1 /\ connections_' = connections_ \cup {c}
        /\ UNCHANGED <<functors, done>>
        /\ phase' = [phase EXCEPT ![c] = IF home'[c] = Base THEN "up" ELSE "connecting"]
    BY <1>3 DEF NewConnection, Handling
  <2>2. phase[c] = "none"
    BY <2>1 DEF Mapped, TypeOK, Connections
  <2>3. home'[c] \in Loops /\ \A d \in Connections \ {c} : home'[d] = home[d]
    BY <2>1, NextLoopTypes DEF TypeOK
  <2>4. /\ \A d \in Connections \ {c} :
             /\ phase'[d] = phase[d] /\ home'[d] = home[d]
             /\ d \in connections_' <=> d \in connections_
             /\ d >= nextConnId_' <=> d >= nextConnId_
        /\ ~(c >= nextConnId_') /\ connections_' \subseteq Connections
        /\ c \in connections_'
        /\ phase'[c] = IF home'[c] = Base THEN "up" ELSE "connecting"
    BY <2>1, <2>3, ServerAssumption DEF TypeOK, Connections
  <2>5. CASE home'[c] = Base
    <3>1. waiting' = waiting /\ phase'[c] = "up"
      BY <1>3, <2>1, <2>4, <2>5 DEF NewConnection, waiting
    <3>2. \A k \in Loops : \A g \in Calls : Has(waiting, k, g) => g.conn # c
      BY <2>2 DEF Functors, Fits
    <3>3. Once(waiting')
      BY <3>1 DEF Functors
    <3>4. Functors' /\ Mapped'
      BY <2>1, <2>4, <3>1, <3>2, <3>3, OneConnection
    <3> QED BY <2>1, <3>4 DEF AssertsHold
  <2>6. CASE home'[c] # Base
    <3> DEFINE f == [op |-> "establish", conn |-> c]
    <3>1. Queue(home'[c], "establish", c)
      BY <1>3, <2>6 DEF NewConnection
    <3>2. /\ f \in Calls /\ f.conn = c /\ Once(waiting')
          /\ \A k \in Loops : \A g \in Calls :
               Has(waiting', k, g) <=> Has(waiting, k, g) \/ (k = home'[c] /\ g = f)
          /\ \A k \in Loops : \A g \in Calls : Has(waiting, k, g) => g.conn # c
      BY <2>1, <2>2, <2>3, <3>1, ConnectionQueues
    <3>3. phase'[c] = "connecting"
      BY <2>4, <2>6
    <3>4. ASSUME NEW k \in Loops, k = home'[c], NEW g \in Calls, g = f
          PROVE  Fits(k, g)'
      BY <2>4, <3>3, <3>4 DEF Fits
    <3>5. \A l \in Loops : \A g \in Calls :
            /\ g.conn # c => (Has(waiting', l, g) <=> Has(waiting, l, g))
            /\ g.conn = c /\ Has(waiting', l, g) => Fits(l, g)'
      <4> HIDE DEF f, c
      <4> QED BY <3>2, <3>4
    <3>6. Functors' /\ Mapped'
      <4> HIDE DEF f
      <4> QED BY <2>1, <2>4, <3>2, <3>3, <3>5, OneConnection
    <3> QED BY <2>1, <3>6 DEF AssertsHold
  <2> QED BY <2>5, <2>6
<1>4. ASSUME NEW l \in Loops, NEW c \in Connections, HandleClose(l, c)
      PROVE  AssertsHold' /\ Functors' /\ Mapped'
  <2>1. phase[c] = "up" /\ home[c] = l /\ c \in connections_
    <3>1. c \in active[l] \ {Acceptor}
      BY <1>4 DEF HandleClose, Handling, Acceptor, Connections
    <3> QED BY <3>1 DEF Polled, Mapped
  <2>2. /\ UNCHANGED <<functors, done, home, nextConnId_>>
        /\ phase' = [phase EXCEPT ![c] = "closed"]
    BY <1>4 DEF HandleClose, Handling
  <2>3. ~(c >= nextConnId_)
    BY <2>1 DEF Mapped
  <2>4. CASE l = Base /\ RemoveInLoop(c)
    <3> DEFINE f == [op |-> "destroy", conn |-> c]
    <3>1. /\ f \in Calls /\ f.conn = c /\ Once(waiting')
          /\ Has(waiting', l, f)
          /\ \A k \in Loops : \A g \in Calls :
               Has(waiting', k, g) <=> Has(waiting, k, g) \/ (k = l /\ g = f)
          /\ \A k \in Loops : \A g \in Calls : Has(waiting, k, g) => g.conn # c
      BY <2>1, <2>2, <2>4, ConnectionQueues DEF RemoveInLoop
    <3>2. connections_' = connections_ \ {c} /\ aborted' = FALSE
      BY <2>1, <2>4 DEF RemoveInLoop
    <3>3. phase'[c] = "closed" /\ \A d \in Connections \ {c} : phase'[d] = phase[d]
      BY <2>2 DEF TypeOK
    <3>4. Fits(l, f)'
      BY <2>1, <2>2, <3>2, <3>3 DEF Fits
    <3>5. \A k \in Loops : \A g \in Calls :
            /\ g.conn # c => (Has(waiting', k, g) <=> Has(waiting, k, g))
            /\ g.conn = c /\ Has(waiting', k, g) => Fits(k, g)'
      <4> HIDE DEF f
      <4> QED BY <3>1, <3>4
    <3>6. connections_' \subseteq Connections
      BY <3>2 DEF TypeOK
    <3>7. Functors' /\ Mapped'
      <4> HIDE DEF f
      <4> QED BY <2>2, <2>3, <3>1, <3>2, <3>3, <3>5, <3>6, OneConnection
    <3> QED BY <3>2, <3>7 DEF AssertsHold
  <2>5. CASE Queue(Base, "remove", c) /\ UNCHANGED <<connections_, aborted>>
    <3> DEFINE f == [op |-> "remove", conn |-> c]
    <3>1. /\ f \in Calls /\ f.conn = c /\ Once(waiting')
          /\ Has(waiting', Base, f)
          /\ \A k \in Loops : \A g \in Calls :
               Has(waiting', k, g) <=> Has(waiting, k, g) \/ (k = Base /\ g = f)
          /\ \A k \in Loops : \A g \in Calls : Has(waiting, k, g) => g.conn # c
      BY <1>0, <2>1, <2>2, <2>5, ConnectionQueues
    <3>2. phase'[c] = "closed" /\ \A d \in Connections \ {c} : phase'[d] = phase[d]
      BY <2>2 DEF TypeOK
    <3>3. Fits(Base, f)'
      BY <2>1, <2>5, <3>2 DEF Fits
    <3>4. \A k \in Loops : \A g \in Calls :
            /\ g.conn # c => (Has(waiting', k, g) <=> Has(waiting, k, g))
            /\ g.conn = c /\ Has(waiting', k, g) => Fits(k, g)'
      <4> HIDE DEF f
      <4> QED BY <3>1, <3>3
    <3>5. connections_' \subseteq Connections
      BY <2>5 DEF TypeOK
    <3>6. Functors' /\ Mapped'
      <4> HIDE DEF f
      <4> QED BY <2>1, <2>2, <2>3, <2>5, <3>1, <3>2, <3>4, <3>5, OneConnection
    <3> QED BY <2>5, <3>6 DEF AssertsHold
  <2> QED BY <1>4, <2>4, <2>5 DEF HandleClose
<1>5. ASSUME NEW l \in Loops, SwapPending(l) \/ Poll(l)
      PROVE  AssertsHold' /\ Functors' /\ Mapped'
  <2>1. waiting' = waiting
    BY <1>5, WaitingStays
  <2> QED BY <1>5, <2>1, QuietStep DEF SwapPending, Poll, AssertsHold
<1>6. ASSUME NEW l \in Loops, RunFunctor(l)
      PROVE  AssertsHold' /\ Functors' /\ Mapped'
  <2> DEFINE f == functors[l][done[l] + 1]
             c == f.conn
             w == [k \in Loops |->
                     SubSeq(functors'[k], done'[k] + 1, Len(functors'[k]))
                       \o pendingFunctors_[k]]
  <2>1. /\ f \in Calls /\ c \in Connections /\ Fits(l, f)
        /\ w \in [Loops -> Seq(Calls)] /\ Once(w)
        /\ \A k \in Loops : \A g \in Calls :
             Has(w, k, g) <=> Has(waiting, k, g) /\ g.conn # c
    BY <1>6, FunctorRuns
  <2>2. UNCHANGED <<home, nextConnId_, functors>>
    BY <1>6 DEF RunFunctor
  <2>3. c < nextConnId_ /\ phase[c] # "none"
    BY <2>1 DEF Mapped, Fits, TypeOK, Connections
  <2>4. ASSUME NEW from \in {"connecting", "closed"}, NEW to \in {"up", "destroyed"},
               Step(l, c, from, to), home[c] = l, phase[c] = from,
               to = "up" <=> c \in connections_
        PROVE  AssertsHold' /\ Functors' /\ Mapped'
    <3>1. /\ aborted' = FALSE /\ phase' = [phase EXCEPT ![c] = to]
          /\ UNCHANGED <<connections_, pendingFunctors_>>
      BY <2>4 DEF Step
    <3>2. waiting' = w
      BY <3>1 DEF waiting
    <3>3. phase'[c] = to /\ \A d \in Connections \ {c} : phase'[d] = phase[d]
      BY <2>1, <3>1 DEF TypeOK
    <3>4. \A k \in Loops : \A g \in Calls :
            /\ g.conn # c => (Has(waiting', k, g) <=> Has(waiting, k, g))
            /\ ~(g.conn = c /\ Has(waiting', k, g))
      <4> HIDE DEF w, f, c
      <4> QED BY <2>1, <3>2
    <3>5. Once(waiting')
      <4> HIDE DEF w
      <4> QED BY <2>1, <3>2
    <3>6. connections_' \subseteq Connections /\ ~(c >= nextConnId_)
      BY <2>1, <2>3, <3>1 DEF TypeOK, Connections
    <3>7. Functors' /\ Mapped'
      <4> HIDE DEF w, f, c
      <4> QED BY <2>1, <2>2, <2>4, <3>1, <3>3, <3>4, <3>5, <3>6, OneConnection
    <3> QED BY <3>1, <3>7 DEF AssertsHold
  <2>5. CASE f.op = "establish" /\ Step(l, c, "connecting", "up")
    BY <2>1, <2>4, <2>5 DEF Fits
  <2>6. CASE f.op = "destroy" /\ Step(l, c, "closed", "destroyed")
    BY <2>1, <2>4, <2>6, SMTT(60) DEF Fits
  <2>7. CASE f.op = "remove" /\ RemoveInLoop(c) /\ phase' = phase
    <3> DEFINE r == [op |-> "destroy", conn |-> c]
               h == home[c]
    <3>1. phase[c] = "closed" /\ c \in connections_
      BY <2>1, <2>7, SMTT(60) DEF Fits
    <3>2. /\ connections_' = connections_ \ {c} /\ aborted' = FALSE
          /\ pendingFunctors_' = [pendingFunctors_ EXCEPT ![h] = Append(@, r)]
      BY <2>7, <3>1 DEF RemoveInLoop, Queue
    <3>3. r \in Calls /\ r.conn = c /\ h \in Loops
      BY <2>1 DEF Calls, TypeOK
    <3>4. waiting' = [w EXCEPT ![h] = Append(@, r)]
      <4> DEFINE rest(k) == SubSeq(functors'[k], done'[k] + 1, Len(functors'[k]))
      <4>1. rest(h) \in Seq(Calls) /\ pendingFunctors_[h] \in Seq(Calls)
        <5>1. TypeOK'
          BY <1>6, TypesPreserved DEF Next, LoopStep
        <5>2. functors'[h] \in Seq(Calls) /\ done'[h] \in Nat
              /\ pendingFunctors_[h] \in Seq(Calls)
          BY <3>3, <5>1 DEF TypeOK
        <5> QED BY <5>2
      <4>2. rest(h) \o Append(pendingFunctors_[h], r)
              = Append(rest(h) \o pendingFunctors_[h], r)
        <5> HIDE DEF rest, r, h
        <5> QED BY <3>3, <4>1, AppendConcat
      <4>3. waiting' = [k \in Loops |-> rest(k) \o pendingFunctors_'[k]]
        BY DEF waiting
      <4>4. /\ pendingFunctors_'[h] = Append(pendingFunctors_[h], r)
            /\ \A k \in Loops \ {h} : pendingFunctors_'[k] = pendingFunctors_[k]
        <5> HIDE DEF r, h
        <5> QED BY <3>2, <3>3 DEF TypeOK
      <4>5. w = [k \in Loops |-> rest(k) \o pendingFunctors_[k]]
        OBVIOUS
      <4> HIDE DEF w, rest, r, h
      <4> QED BY <4>2, <4>3, <4>4, <4>5
    <3>5. \A k \in Loops : \A g \in Calls : Has(w, k, g) => g.conn # r.conn
      <4> HIDE DEF w, c
      <4> QED BY <2>1, <3>3
    <3>6. /\ Once(waiting')
          /\ \A k \in Loops : \A g \in Calls :
               Has(waiting', k, g) <=> Has(w, k, g) \/ (k = h /\ g = r)
      <4> HIDE DEF w, r, h, c, f
      <4> QED BY <2>1, <3>3, <3>4, <3>5, AddFunctor, ZenonT(60)
    <3>7. \A k \in Loops : \A g \in Calls :
            /\ g.conn # c => (Has(waiting', k, g) <=> Has(waiting, k, g))
            /\ g.conn = c /\ Has(waiting', k, g) => k = h /\ g = r
      <4> HIDE DEF w, r, h, c, f
      <4> QED BY <2>1, <3>3, <3>6
    <3>8. ASSUME NEW k \in Loops, k = h, NEW g \in Calls, g = r
          PROVE  Fits(k, g)'
      <4>1. phase'[c] = "closed" /\ c \notin connections_' /\ home'[c] = h
        BY <2>2, <2>7, <3>1, <3>2
      <4>2. g.op = "destroy" /\ g.conn = c
        BY <3>8
      <4> HIDE DEF f, c, r, h
      <4> QED BY <3>8, <4>1, <4>2 DEF Fits
    <3>9. connections_' \subseteq Connections /\ Has(waiting', h, r)
          /\ ~(c >= nextConnId_')
      <4>1. Has(waiting', h, r)
        <5> HIDE DEF w, r, h, c, f
        <5> QED BY <3>3, <3>6
      <4>2. c \in Connections /\ nextConnId_' = nextConnId_ /\ c < nextConnId_
            /\ nextConnId_ \in Nat
        <5> HIDE DEF w, r, h, c, f
        <5> QED BY <2>1, <2>2, <2>3, ServerAssumption DEF TypeOK
      <4>3. ~(c >= nextConnId_')
        <5> HIDE DEF w, r, h, c, f
        <5> QED BY <4>2 DEF Connections
      <4> QED BY <3>2, <4>1, <4>3 DEF TypeOK
    <3>10. Functors' /\ Mapped'
      <4> HIDE DEF w, r, h, c, f
      <4>1. \A k \in Loops : \A g \in Calls :
              /\ g.conn # c => (Has(waiting', k, g) <=> Has(waiting, k, g))
              /\ g.conn = c /\ Has(waiting', k, g) => Fits(k, g)'
        BY <3>7, <3>8
      <4>2. /\ phase'[c] = "closed" /\ c \notin connections_'
            /\ \A d \in Connections \ {c} :
                 /\ phase'[d] = phase[d] /\ home'[d] = home[d]
                 /\ d \in connections_' <=> d \in connections_
                 /\ d >= nextConnId_' <=> d >= nextConnId_
        BY <2>2, <2>7, <3>1, <3>2
      <4> QED BY <2>1, <3>3, <3>6, <3>9, <4>1, <4>2, OneConnection
    <3> QED BY <3>2, <3>10 DEF AssertsHold
  <2> QED BY <1>6, <2>5, <2>6, <2>7 DEF RunFunctor
<1> QED BY <1>1, <1>2, <1>3, <1>4, <1>5, <1>6 DEF Next, LoopStep

\* A loop that handles events has run all it took, and may handle what it polled.
LEMMA LoopsPreserved ==
  ASSUME TypeOK, Idle, Mapped, Functors, Polled, [Next]_vars
  PROVE  Idle' /\ Polled'
<1>a. ASSUME UNCHANGED <<at, functors, done>> PROVE Idle'
  BY <1>a DEF Idle
<1>b. ASSUME \A l \in Loops : active'[l] \subseteq active[l],
             \A l \in Loops : \A c \in active'[l] \ {Acceptor} :
               phase'[c] = phase[c] /\ home'[c] = home[c]
      PROVE  Polled'
  BY <1>b DEF Polled
<1>c. ASSUME UNCHANGED <<active, phase, home>> PROVE Polled'
  BY <1>c DEF Polled
<1>d. ASSUME NEW l \in Loops, NEW x, Handling(l, x)
      PROVE  \A k \in Loops : active'[k] \subseteq active[k] /\ (k = l => x \notin active'[k])
  BY <1>d DEF Handling, TypeOK
<1> USE DEF serverVars, connVars, loopVars
<1>1. CASE Start \/ UNCHANGED vars
  BY <1>a, <1>c, <1>1 DEF Start, vars
<1>2. CASE AcceptFails
  BY <1>a, <1>b, <1>d, <1>2, ServerAssumption DEF AcceptFails, Handling, Loops, Base
<1>3. CASE NewConnection
  <2>1. /\ nextConnId_ \in Connections
        /\ \A d \in Connections \ {nextConnId_} :
             phase'[d] = phase[d] /\ home'[d] = home[d]
    BY <1>3 DEF NewConnection, NextLoop, TypeOK
  <2>2. \A l \in Loops : \A c \in active[l] \ {Acceptor} :
          c \in Connections /\ c # nextConnId_
    BY <2>1 DEF Polled, Mapped, TypeOK, Connections
  <2>3. Base \in Loops /\ Handling(Base, Acceptor)
    BY <1>3, ServerAssumption DEF NewConnection, Loops, Base
  <2>4. Polled'
    BY <1>b, <1>d, <2>1, <2>2, <2>3
  <2> QED BY <1>a, <1>3, <2>4 DEF NewConnection, Handling
<1>4. ASSUME NEW l \in Loops, NEW c \in Connections, HandleClose(l, c)
      PROVE  Idle' /\ Polled'
  <2>1. Handling(l, c) /\ home' = home
    BY <1>4 DEF HandleClose
  <2>2. c \in active[l] \ {Acceptor}
    BY <2>1 DEF Handling, Acceptor, Connections
  <2>3. \A k \in Loops : k # l => c \notin active[k]
    BY <2>2 DEF Polled, Acceptor, Connections
  <2>4. \A d \in Connections \ {c} : phase'[d] = phase[d]
    BY <1>4 DEF HandleClose, TypeOK
  <2>5. \A k \in Loops : \A d \in active'[k] \ {Acceptor} :
          d \in Connections \ {c}
    BY <1>d, <2>1, <2>3 DEF TypeOK
  <2>6. Polled'
    BY <1>b, <1>d, <2>1, <2>4, <2>5
  <2> QED BY <1>a, <2>1, <2>6 DEF Handling
<1>5. ASSUME NEW l \in Loops, SwapPending(l) PROVE Idle' /\ Polled'
  <2>1. Idle'
    BY <1>5 DEF SwapPending, Idle, TypeOK
  <2> QED BY <1>c, <1>5, <2>1 DEF SwapPending
<1>6. ASSUME NEW l \in Loops, RunFunctor(l) PROVE Idle' /\ Polled'
  <2> DEFINE f == functors[l][done[l] + 1]
  <2>1. at' = at /\ functors' = functors /\ at[l] = "functors"
        /\ \A k \in Loops \ {l} : done'[k] = done[k]
    BY <1>6 DEF RunFunctor, TypeOK
  <2>2. Idle'
    BY <2>1 DEF Idle
  <2>3. /\ f.conn \in Connections /\ Fits(l, f)
        /\ f.op \in {"establish", "destroy", "remove"}
    BY <1>6, FunctorRuns DEF Calls
  <2>4. active' = active /\ home' = home
        /\ \A d \in Connections \ {f.conn} : phase'[d] = phase[d]
    BY <1>6 DEF RunFunctor, Step, TypeOK
  <2>5. \A k \in Loops : \A d \in active[k] \ {Acceptor} : d \in Connections \ {f.conn}
    <3>1. phase[f.conn] # "up"
      BY <2>3 DEF Fits
    <3> QED BY <3>1 DEF Polled, TypeOK
  <2>6. Polled'
    BY <1>b, <2>4, <2>5
  <2> QED BY <2>2, <2>6
<1>7. ASSUME NEW l \in Loops, Poll(l) PROVE Idle' /\ Polled'
  <2>1. Idle'
    BY <1>7 DEF Poll, Idle, TypeOK
  <2>2. \A k \in Loops \ {l} : active'[k] = active[k]
    BY <1>7 DEF Poll, TypeOK
  <2>3. \A c \in active'[l] \ {Acceptor} : phase[c] = "up" /\ home[c] = l
    BY <1>7 DEF Poll, TypeOK
  <2>4. phase' = phase /\ home' = home
    BY <1>7 DEF Poll
  <2>5. Polled'
    BY <2>2, <2>3, <2>4 DEF Polled
  <2> QED BY <2>1, <2>5
<1> QED BY <1>1, <1>2, <1>3, <1>4, <1>5, <1>6, <1>7 DEF Next, LoopStep

\* getNextLoop goes round the pool.
LEMMA RoundsPreserved ==
  ASSUME TypeOK, Rounds, [Next]_vars
  PROVE  Rounds'
<1>1. CASE NewConnection
  <2> DEFINE c == nextConnId_
             N == numThreads_
             S(l) == {d \in 1 .. c - 1 : home[d] = l}
  <2>1. /\ c \in Connections /\ NextLoop /\ nextConnId_' = c + 1 /\ numThreads_' = N
    BY <1>1 DEF NewConnection
  <2>2. /\ N \in Nat /\ c \in Nat /\ c >= 1 /\ next_ \in Nat /\ (N > 0 => next_ < N)
    BY <2>1, ServerAssumption DEF TypeOK, Connections
  <2>3. ASSUME N > 0 PROVE home' = [home EXCEPT ![c] = next_ + 1]
    <3>1. numThreads_ # 0
      BY <2>2, <2>3
    <3> QED BY <2>1, <3>1 DEF NextLoop
  <2>4. ASSUME N > 0, NEW l \in 1 .. N
        PROVE  Load(l)' = IF l = next_ + 1 THEN Load(l) + 1 ELSE Load(l)
    <3>1. home'[c] = next_ + 1 /\ \A d \in 1 .. c - 1 : home'[d] = home[d]
      <4>1. \A d \in 1 .. c - 1 : d \in Connections /\ d # c
        BY <2>1, <2>2, ServerAssumption DEF Connections
      <4> QED BY <2>1, <2>3, <2>4, <4>1 DEF TypeOK
    <3>2. {d \in 1 .. nextConnId_' - 1 : home'[d] = l}
            = IF l = next_ + 1 THEN S(l) \cup {c} ELSE S(l)
      BY <2>1, <2>2, <3>1
    <3>3. IsFiniteSet(S(l)) /\ c \notin S(l)
      <4>1. IsFiniteSet(1 .. c - 1)
        BY <2>2, FS_Interval
      <4>2. S(l) \subseteq 1 .. c - 1
        OBVIOUS
      <4> QED BY <2>2, <4>1, <4>2, FS_Subset
    <3>4. Cardinality(S(l) \cup {c}) = Cardinality(S(l)) + 1
      <4> HIDE DEF S, c
      <4> QED BY <3>3, FS_AddElement
    <3> QED BY <3>2, <3>4 DEF Load
  <2>5. \A l \in 1 .. N : Load(l) \in Nat
    <3> TAKE l \in 1 .. N
    <3>1. IsFiniteSet(1 .. c - 1)
      BY <2>2, FS_Interval
    <3>2. IsFiniteSet(S(l))
      BY <3>1, FS_Subset
    <3> QED BY <3>2, FS_CardinalityType DEF Load
  <2>6. next_' = IF next_ + 1 >= N THEN 0 ELSE next_ + 1
    BY <2>1 DEF NextLoop
  <2>7. ASSUME NEW l \in 1 .. N, NEW k \in 1 .. N
        PROVE  Load(l)' = IF l <= next_' /\ next_' < k THEN Load(k)' + 1
                          ELSE IF k <= next_' /\ next_' < l THEN Load(k)' - 1
                          ELSE Load(k)'
    <3>1. N > 0
      BY <2>2, <2>7
    <3>2. /\ Load(l)' = IF l = next_ + 1 THEN Load(l) + 1 ELSE Load(l)
          /\ Load(k)' = IF k = next_ + 1 THEN Load(k) + 1 ELSE Load(k)
      BY <2>4, <3>1
    <3>3. /\ Load(l) = IF l <= next_ /\ next_ < k THEN Load(k) + 1
                       ELSE IF k <= next_ /\ next_ < l THEN Load(k) - 1
                       ELSE Load(k)
          /\ Load(l) \in Nat /\ Load(k) \in Nat
      BY <2>5 DEF Rounds
    <3>4. l \in Nat /\ k \in Nat /\ 1 <= l /\ l <= N /\ 1 <= k /\ k <= N /\ next_ < N
      BY <2>2, <2>7, <3>1
    <3> HIDE DEF N
    <3> QED BY <2>2, <2>6, <3>2, <3>3, <3>4
  <2> QED BY <2>1, <2>7 DEF Rounds
<1>2. CASE UNCHANGED <<numThreads_, next_, nextConnId_, home>>
  BY <1>2 DEF Rounds, Load
<1>3. CASE ~NewConnection
  <2>1. UNCHANGED <<numThreads_, next_, nextConnId_, home>>
    BY <1>3 DEF Next, LoopStep, Start, AcceptFails, HandleClose, SwapPending,
       RunFunctor, Poll, serverVars, connVars, vars
  <2> QED BY <1>2, <2>1
<1> QED BY <1>1, <1>3
-----------------------------------------------------------------------------
\* setThreadNum has been called and nothing has been accepted.
LEMMA InitInvariant == Init => IInv
<1> SUFFICES ASSUME Init PROVE IInv
  OBVIOUS
<1>1. TypeOK
  <2>1. ServerTypes
    <3>1. Base \in Loops /\ 1 \in 1 .. MaxConnections + 1
      BY ServerAssumption DEF Loops, Base
    <3>2. /\ home \in [Connections -> Loops]
          /\ phase \in [Connections -> Phases]
      BY <3>1 DEF Init, Phases
    <3> QED BY <3>1, <3>2 DEF Init, ServerTypes
  <2>2. LoopTypes
    BY DEF Init, LoopTypes
  <2> QED BY <2>1, <2>2 DEF TypeOK, ServerTypes, LoopTypes
<1>2. \A l \in Loops : waiting[l] = <<>>
  <2> SUFFICES ASSUME NEW l \in Loops PROVE waiting[l] = <<>>
    OBVIOUS
  <2>1. functors[l] = <<>> /\ pendingFunctors_[l] = <<>> /\ done[l] = 0
    BY DEF Init
  <2> QED BY <2>1 DEF waiting
<1>3. Functors
  BY <1>2 DEF Functors, Once, Has
<1>4. Idle /\ AssertsHold /\ Mapped /\ Polled
  BY DEF Init, Idle, AssertsHold, Mapped, Polled, Connections
<1>5. Rounds
  <2>1. \A l : {c \in 1 .. nextConnId_ - 1 : home[c] = l} = {}
    BY DEF Init
  <2>2. next_ = 0 /\ \A l : Load(l) = 0
    BY <2>1, FS_EmptySet DEF Init, Load
  <2> QED BY <2>2 DEF Rounds
<1> QED BY <1>1, <1>3, <1>4, <1>5 DEF IInv

\* Every step preserves the invariant.
LEMMA NextInvariant == IInv /\ [Next]_vars => IInv'
<1> SUFFICES ASSUME IInv, [Next]_vars PROVE IInv'
  OBVIOUS
<1> USE DEF IInv
<1>1. TypeOK' BY TypesPreserved
<1>2. Idle' /\ Polled' BY LoopsPreserved
<1>3. AssertsHold' /\ Functors' /\ Mapped' BY ServerPreserved
<1>4. Rounds' BY RoundsPreserved
<1> QED BY <1>1, <1>2, <1>3, <1>4

\* All that is proved of a server, together.
THEOREM Invariant == Spec => []IInv
BY InitInvariant, NextInvariant, PTL DEF Spec

\* The variables keep their types.
THEOREM TypeCorrect == Spec => []TypeOK
<1>1. IInv => TypeOK BY DEF IInv
<1> QED BY <1>1, Invariant, PTL

\* No assert of the server or of a connection fails (TcpServer.cc:77,
\* TcpConnection.cc:33-34, 42-43).
THEOREM AssertsHoldCorrect == Spec => []AssertsHold
<1>1. IInv => AssertsHold BY DEF IInv
<1> QED BY <1>1, Invariant, PTL

\* What waits in a loop is still in one of its vectors.
LEMMA WaitingIsQueued ==
  ASSUME TypeOK, NEW l \in Loops, NEW f, Has(waiting, l, f)
  PROVE  f \in Range(functors[l]) \cup Range(pendingFunctors_[l])
<1> DEFINE s == functors[l]
           d == done[l]
           t == pendingFunctors_[l]
           a == SubSeq(s, d + 1, Len(s))
<1>1. s \in Seq(Calls) /\ t \in Seq(Calls) /\ d \in Nat
  BY DEF TypeOK
<1>2. PICK i \in DOMAIN (a \o t) : (a \o t)[i] = f
  BY DEF Has, waiting
<1>3. /\ a \in Seq(Calls)
      /\ \A j \in 1 .. Len(a) : d + j \in 1 .. Len(s) /\ a[j] = s[d + j]
  <2> HIDE DEF s, d
  <2>1. a \in Seq(Calls) /\ Len(a) = IF d + 1 <= Len(s) THEN Len(s) - d ELSE 0
    BY <1>1
  <2>2. \A j \in 1 .. Len(a) : a[j] = s[d + 1 + j - 1]
    BY <1>1, <2>1
  <2> QED BY <1>1, <2>1, <2>2
<1> HIDE DEF a, s, t, d
<1>4. \/ i \in 1 .. Len(a) /\ f = a[i]
      \/ i - Len(a) \in 1 .. Len(t) /\ f = t[i - Len(a)]
  BY <1>1, <1>2, <1>3
<1>5. f \in Range(s) \cup Range(t)
  BY <1>1, <1>3, <1>4 DEF Range
<1> QED BY <1>5 DEF s, t

\* A connection is freed once its channel has left the Poller, wherever its last
\* functor is dropped (TcpServer.cc:54-59, 66-80, EventLoop.cc:81-84).
THEOREM FreedLastCorrect == Spec => []FreedLast
<1>1. IInv => FreedLast
  <2> SUFFICES ASSUME IInv PROVE FreedLast
    OBVIOUS
  <2> USE DEF IInv
  <2>1. ASSUME NEW c \in Connections, Freed(c) PROVE phase[c] = "destroyed"
    <3>1. phase[c] # "closed"
      <4> SUFFICES ASSUME phase[c] = "closed" PROVE FALSE
        OBVIOUS
      <4>1. PICK l \in Loops, f \in Calls : f.conn = c /\ Has(waiting, l, f)
        BY <2>1 DEF Mapped, Freed
      <4>2. f \in Range(functors[l]) \cup Range(pendingFunctors_[l])
        BY <4>1, WaitingIsQueued
      <4> QED BY <2>1, <4>1, <4>2 DEF Freed
    <3>2. phase[c] \notin {"none", "connecting", "up"}
      BY <2>1 DEF Freed, Mapped
    <3> QED BY <3>1, <3>2 DEF TypeOK, Phases
  <2>2. \A l \in Loops : \A c \in active[l] \ {Acceptor} : phase[c] = "up" /\ home[c] = l
    BY DEF Polled
  <2> QED BY <2>1, <2>2 DEF FreedLast
<1> QED BY <1>1, Invariant, PTL

\* No loop of the pool gets two connections more than another
\* (EventLoopThreadPool.cc:24-30).
THEOREM BalancedCorrect == Spec => []Balanced
<1>1. IInv => Balanced
  <2> SUFFICES ASSUME IInv, NEW l \in 1 .. numThreads_, NEW k \in 1 .. numThreads_
               PROVE  Load(l) <= Load(k) + 1
    BY DEF Balanced, Load
  <2>1. \A j \in 1 .. numThreads_ : Load(j) \in Nat
    <3> TAKE j \in 1 .. numThreads_
    <3>1. nextConnId_ - 1 \in Int
      BY ServerAssumption DEF IInv, TypeOK
    <3>2. IsFiniteSet(1 .. nextConnId_ - 1)
      BY <3>1, FS_Interval
    <3>3. IsFiniteSet({c \in 1 .. nextConnId_ - 1 : home[c] = j})
      BY <3>2, FS_Subset
    <3> QED BY <3>3, FS_CardinalityType DEF Load
  <2> QED BY <2>1 DEF IInv, Rounds
<1> QED BY <1>1, Invariant, PTL
=============================================================================
