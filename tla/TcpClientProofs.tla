--------------------------- MODULE TcpClientProofs ---------------------------
(***************************************************************************)
(* What is proved of TcpClient for any threads, any number of connections  *)
(* and a connect() that is called once, as every program of the repository *)
(* does: the asserts of the Connector hold, it pursues one attempt at a    *)
(* time, none is dropped while a connection is wanted, and every           *)
(* connection made is kept or destroyed.                                   *)
(***************************************************************************)
EXTENDS TcpClient, FunctionTheorems, SequenceTheorems, FiniteSetTheorems, TLAPS

\* The functors of a kind in a queue, and in both vectors of the loop.
Count(q, op) == Cardinality({i \in DOMAIN q : q[i].op = op})
Queued(op) == Count(pendingFunctors_, op) + Count(functors, op)

\* The threads inside connect(), whose startInLoop is still to be queued.
Callers == {t \in Threads : pc[t] \in {"connect", "start"}}

\* What the loop is about to handle is still what it polled, and the channel of
\* the last attempt is destroyed before the next poll.
Loop ==
  /\ at # "functors" => functors = <<>>
  /\ at = "functors" => active = {} /\ Count(pendingFunctors_, "resetChannel") = 0
  /\ Queued("resetChannel") = IF channel_ = "removed" THEN 1 ELSE 0
  /\ "connector" \in active => channel_ = "polled"
  /\ "timer" \in active => timers > 0 /\ channel_ = "none"
  /\ "connection" \in active => connection_ # 0 /\ channel_ = "none"
  /\ Restarting => connection_ = 0 /\ channel_ = "none"
  /\ at = "starting" => state_ = "kDisconnected"

\* state_ says how far the one attempt has come.
States ==
  /\ channel_ = "polled" <=> state_ = "kConnecting"
  /\ connection_ # 0 => state_ = "kConnected"
  /\ timers > 0 => state_ = "kDisconnected"

\* The one connect() leads to the one attempt.
Turn ==
  /\ Attempts <= 1
  /\ Callers # {} => calls = 1 /\ Attempts = 0
  /\ \A t, u \in Callers : t = u
  /\ calls = 0 => Attempts = 0 /\ ~connect_
  /\ Callers # {} \/ calls = 0 \/ Queued("startInLoop") > 0 =>
       state_ = "kDisconnected" /\ channel_ = "none"

\* connectDestroyed is queued for connections that were made, and for each that
\* is no longer the client's until it has run.
Destroying(q, c) ==
  \E i \in DOMAIN q : q[i].op = "connectDestroyed" /\ q[i].conn = c
Kept ==
  /\ \A q \in {pendingFunctors_, functors} : \A i \in DOMAIN q :
       q[i].op = "connectDestroyed" => q[i].conn \in 1 .. made
  /\ \A c \in 1 .. made \ {connection_} :
       c \in destroyed \/ Destroying(pendingFunctors_, c) \/ Destroying(functors, c)

IInv ==
  /\ TypeOK /\ AssertsHold
  /\ Loop /\ States /\ Turn /\ NeverForgotten /\ Kept
-----------------------------------------------------------------------------
\* The functors of a kind are finitely many.
LEMMA CountTypes ==
  ASSUME NEW q \in Seq(Functors), NEW op
  PROVE  /\ IsFiniteSet({i \in DOMAIN q : q[i].op = op})
         /\ Count(q, op) \in Nat
<1>1. DOMAIN q = 1 .. Len(q) /\ Len(q) \in Nat
  OBVIOUS
<1>2. IsFiniteSet(1 .. Len(q))
  BY <1>1, FS_Interval
<1>3. IsFiniteSet({i \in DOMAIN q : q[i].op = op})
  BY <1>1, <1>2, FS_Subset
<1> QED BY <1>3, FS_CardinalityType DEF Count

\* No functor is of a kind exactly if the count is zero.
LEMMA CountZero ==
  ASSUME NEW q \in Seq(Functors), NEW op
  PROVE  Count(q, op) = 0 <=> \A i \in DOMAIN q : q[i].op # op
<1> DEFINE A == {i \in DOMAIN q : q[i].op = op}
<1>1. IsFiniteSet(A)
  BY CountTypes
<1>2. Cardinality(A) = 0 <=> A = {}
  <2> HIDE DEF A
  <2> QED BY <1>1, FS_EmptySet
<1> QED BY <1>2 DEF Count

\* The empty queue has no functor.
LEMMA CountEmpty == \A op : Count(<<>>, op) = 0
<1> SUFFICES ASSUME NEW op PROVE Count(<<>>, op) = 0
  OBVIOUS
<1>1. {i \in DOMAIN <<>> : <<>>[i].op = op} = {}
  OBVIOUS
<1> QED BY <1>1, FS_EmptySet DEF Count

\* push_back adds one functor of its kind.
LEMMA CountAppend ==
  ASSUME NEW q \in Seq(Functors), NEW f \in Functors, NEW op
  PROVE  Count(Append(q, f), op) = Count(q, op) + (IF f.op = op THEN 1 ELSE 0)
<1> DEFINE A == {i \in DOMAIN q : q[i].op = op}
           B == {i \in DOMAIN Append(q, f) : Append(q, f)[i].op = op}
           n == Len(q) + 1
<1>1. /\ DOMAIN q = 1 .. Len(q) /\ Len(q) \in Nat
      /\ DOMAIN Append(q, f) = 1 .. n
      /\ \A i \in 1 .. Len(q) : Append(q, f)[i] = q[i]
      /\ Append(q, f)[n] = f
  BY AppendProperties, LenProperties
<1>2. B = IF f.op = op THEN A \cup {n} ELSE A
  BY <1>1
<1>3. IsFiniteSet(A) /\ n \notin A /\ Cardinality(A) \in Nat
  <2>1. IsFiniteSet(A) /\ Cardinality(A) \in Nat
    BY CountTypes DEF Count
  <2>2. n \notin A
    BY <1>1
  <2> QED BY <2>1, <2>2
<1>4. Cardinality(A \cup {n}) = Cardinality(A) + 1
  <2> HIDE DEF A, n
  <2> QED BY <1>3, FS_AddElement
<1>5. Cardinality(B) = Cardinality(A) + (IF f.op = op THEN 1 ELSE 0)
  <2> HIDE DEF A, B, n
  <2> QED BY <1>2, <1>3, <1>4
<1> QED BY <1>5 DEF Count

\* The functor taken from the front leaves one less of its kind.
LEMMA CountTail ==
  ASSUME NEW q \in Seq(Functors), q # <<>>, NEW op
  PROVE  Count(q, op) = Count(Tail(q), op) + (IF Head(q).op = op THEN 1 ELSE 0)
<1> DEFINE A == {i \in DOMAIN q : q[i].op = op}
           B == {i \in DOMAIN Tail(q) : Tail(q)[i].op = op}
           F == [i \in B |-> i + 1]
<1>1. /\ DOMAIN q = 1 .. Len(q) /\ Len(q) \in Nat \ {0}
      /\ DOMAIN Tail(q) = 1 .. Len(q) - 1
      /\ \A i \in 1 .. Len(q) - 1 : Tail(q)[i] = q[i + 1]
      /\ Head(q) = q[1] /\ Tail(q) \in Seq(Functors)
  BY HeadTailProperties, LenProperties
<1>2. B \subseteq Nat /\ \A i \in B : i + 1 \in A \ {1}
  BY <1>1
<1>3. \A j \in A \ {1} : j - 1 \in B /\ (j - 1) + 1 = j
  BY <1>1
<1>4. IsFiniteSet(A) /\ IsFiniteSet(B)
  BY <1>1, CountTypes
<1>5. 1 \in A <=> Head(q).op = op
  BY <1>1
<1> HIDE DEF A, B
<1>6. F \in Bijection(B, A \ {1})
  <2>1. F \in [B -> A \ {1}]
    BY <1>2
  <2>2. \A i, j \in B : i # j => F[i] # F[j]
    BY <1>2
  <2>3. \A j \in A \ {1} : \E i \in B : F[i] = j
    BY <1>3
  <2> QED BY <2>1, <2>2, <2>3, Fun_IsBij
<1>7. Cardinality(A \ {1}) = Cardinality(B)
  BY <1>4, <1>6, FS_Bijection DEF ExistsBijection
<1>8. Cardinality(A \ {1}) = IF 1 \in A THEN Cardinality(A) - 1 ELSE Cardinality(A)
  BY <1>4, FS_RemoveElement
<1>9. Cardinality(A) \in Nat /\ Cardinality(B) \in Nat
  BY <1>4, FS_CardinalityType
<1>10. Cardinality(A) = Cardinality(B) + (IF Head(q).op = op THEN 1 ELSE 0)
  BY <1>5, <1>7, <1>8, <1>9
<1> QED BY <1>10 DEF Count, A, B
-----------------------------------------------------------------------------
\* The functors of the loop after queueInLoop.
LEMMA Pushed ==
  ASSUME TypeOK, NEW f \in Functors, functors' = functors,
         pendingFunctors_' = Append(pendingFunctors_, f)
  PROVE  \A op :
           /\ Count(pendingFunctors_, op)' =
                Count(pendingFunctors_, op) + (IF f.op = op THEN 1 ELSE 0)
           /\ Queued(op)' = Queued(op) + (IF f.op = op THEN 1 ELSE 0)
<1> TAKE op
<1>1. /\ Count(pendingFunctors_, op) \in Nat /\ Count(functors, op) \in Nat
      /\ Count(Append(pendingFunctors_, f), op) =
           Count(pendingFunctors_, op) + (IF f.op = op THEN 1 ELSE 0)
  BY CountTypes, CountAppend DEF TypeOK
<1> QED BY <1>1 DEF Queued

\* The functors of the loop after functors.swap(pendingFunctors_).
LEMMA Swapped ==
  ASSUME TypeOK, functors = <<>>, functors' = pendingFunctors_,
         pendingFunctors_' = <<>>
  PROVE  \A op : Count(pendingFunctors_, op)' = 0 /\ Queued(op)' = Queued(op)
<1> TAKE op
<1>1. Count(<<>>, op) = 0 /\ Count(pendingFunctors_, op) \in Nat
  BY CountEmpty, CountTypes DEF TypeOK
<1> QED BY <1>1 DEF Queued

\* The functors of the loop without the one it takes.
LEMMA Taken ==
  ASSUME TypeOK, functors # <<>>, functors' = Tail(functors),
         pendingFunctors_' = pendingFunctors_
  PROVE  /\ Head(functors) \in Functors
         /\ \A op : /\ Count(pendingFunctors_, op)' = Count(pendingFunctors_, op)
                    /\ Queued(op)' \in Nat
                    /\ Queued(op) =
                         Queued(op)' + (IF Head(functors).op = op THEN 1 ELSE 0)
<1>1. /\ functors \in Seq(Functors) /\ pendingFunctors_ \in Seq(Functors)
      /\ Tail(functors) \in Seq(Functors) /\ Head(functors) \in Functors
  BY DEF TypeOK
<1>2. ASSUME NEW op
      PROVE  /\ Count(pendingFunctors_, op)' = Count(pendingFunctors_, op)
             /\ Queued(op)' \in Nat
             /\ Queued(op) = Queued(op)' + (IF Head(functors).op = op THEN 1 ELSE 0)
  <2>1. /\ Count(pendingFunctors_, op) \in Nat /\ Count(Tail(functors), op) \in Nat
        /\ Count(functors, op) =
             Count(Tail(functors), op) + (IF Head(functors).op = op THEN 1 ELSE 0)
    BY <1>1, CountTypes, CountTail
  <2> QED BY <2>1 DEF Queued
<1> QED BY <1>1, <1>2

\* The functors are left alone.
LEMMA Untouched ==
  ASSUME functors' = functors, pendingFunctors_' = pendingFunctors_
  PROVE  \A op : /\ Count(pendingFunctors_, op)' = Count(pendingFunctors_, op)
                 /\ Queued(op)' = Queued(op)
BY DEF Queued

\* Attempts in terms of the queues, the timers, the channel and the connection.
LEMMA AttemptsSum ==
  TypeOK =>
         /\ Queued("startInLoop") \in Nat
         /\ Attempts = Queued("startInLoop") + timers
                         + (IF channel_ = "polled" THEN 1 ELSE 0)
                         + (IF Restarting \/ connection_ # 0 THEN 1 ELSE 0)
<1> SUFFICES ASSUME TypeOK
             PROVE  /\ Queued("startInLoop") \in Nat
                    /\ Attempts = Queued("startInLoop") + timers
                                    + (IF channel_ = "polled" THEN 1 ELSE 0)
                                    + (IF Restarting \/ connection_ # 0
                                       THEN 1 ELSE 0)
  OBVIOUS
<1>1. /\ Count(pendingFunctors_, "startInLoop") \in Nat
      /\ Count(functors, "startInLoop") \in Nat
  BY CountTypes DEF TypeOK
<1>2. /\ Started(pendingFunctors_) = Count(pendingFunctors_, "startInLoop")
      /\ Started(functors) = Count(functors, "startInLoop")
  BY DEF Started, Count
<1> QED BY <1>1, <1>2 DEF Queued, Attempts

\* The threads that are inside connect().
LEMMA NoCallers ==
  TypeOK => (Callers = {} <=> \A t \in Threads : pc[t] \in {"idle", "stop"})
BY DEF TypeOK, Callers

\* What is on the way to a connection once connect() or retry() has returned;
\* nothing, only if the client is stopped or connect(2) failed for good.
Outcome ==
  /\ aborted' = FALSE /\ state_' \in {"kDisconnected", "kConnecting"}
  /\ timers' \in {0, 1}
  /\ channel_' = "polled" <=> state_' = "kConnecting"
  /\ timers' > 0 => state_' = "kDisconnected"
  /\ timers' = 0 /\ channel_' # "polled" => ~connect_' \/ gaveUp'
  /\ gaveUp => gaveUp'

\* A first or a repeated attempt, of which no timer is left.
LEMMA ConnectOutcome ==
  ASSUME TypeOK, AssertsHold, channel_ = "none", connect_' \in BOOLEAN,
         Connect(0) \/ (state_ = "kDisconnected" /\ StartInLoop(0))
  PROVE  Outcome /\ channel_' \in {"none", "polled"}
         /\ (gaveUp' \in BOOLEAN)
<1>1. ASSUME Connect(0) PROVE Outcome /\ channel_' \in {"none", "polled"}
                              /\ (gaveUp' \in BOOLEAN)
  <2> USE DEF Outcome, TypeOK, AssertsHold
  <2>1. CASE Connecting(0)
    BY <2>1 DEF Connecting
  <2>2. CASE RetryLater(0) /\ channel_' = channel_
    BY <2>2 DEF RetryLater
  <2>3. CASE gaveUp' = TRUE /\ state_' = "kDisconnected" /\ timers' = 0
             /\ UNCHANGED <<channel_, aborted>>
    BY <2>3
  <2> QED BY <1>1, <2>1, <2>2, <2>3 DEF Connect
<1>2. ASSUME state_ = "kDisconnected", ~connect_, connect_' = connect_, timers' = 0,
             UNCHANGED <<state_, channel_, gaveUp, aborted>>
      PROVE  Outcome /\ channel_' \in {"none", "polled"} /\ (gaveUp' \in BOOLEAN)
  BY <1>2 DEF Outcome, TypeOK, AssertsHold
<1> QED BY <1>1, <1>2 DEF StartInLoop

\* A failed attempt.
LEMMA RetryOutcome ==
  ASSUME TypeOK, AssertsHold, connect_' = connect_, RetryLater(0), channel_' = "removed"
  PROVE  Outcome
BY DEF RetryLater, Outcome, TypeOK, AssertsHold
-----------------------------------------------------------------------------
\* The variables keep their types; those the queues hold apart from the others.
QueueTypes == pendingFunctors_ \in Seq(Functors) /\ functors \in Seq(Functors)
ClientTypes ==
  /\ connect_ \in BOOLEAN /\ clientConnect_ \in BOOLEAN /\ retry_ \in BOOLEAN
  /\ state_ \in {"kDisconnected", "kConnecting", "kConnected"}
  /\ channel_ \in {"none", "polled", "removed"}
  /\ timers \in Nat
  /\ made \in 0 .. MaxConnections /\ connection_ \in 0 .. made
  /\ destroyed \subseteq 1 .. made
  /\ gaveUp \in BOOLEAN /\ aborted \in BOOLEAN
LoopTypes ==
  /\ at \in {"events", "restart", "starting", "functors"}
  /\ active \subseteq {"connector", "timer", "connection"}
  /\ pc \in [Threads -> {"idle", "connect", "start", "stop"}]
  /\ calls \in 0 .. MaxConnects

\* The queues of the loop hold functors only.
LEMMA QueueTypesPreserved == TypeOK /\ Loop /\ [Next]_vars => QueueTypes'
<1> SUFFICES ASSUME TypeOK, Loop, [Next]_vars PROVE QueueTypes'
  OBVIOUS
<1>1. QueueTypes /\ <<>> \in Seq(Functors)
  BY DEF TypeOK, QueueTypes
<1>2. ASSUME NEW f \in Functors, functors' = functors,
             pendingFunctors_' = Append(pendingFunctors_, f)
      PROVE  QueueTypes'
  BY <1>1, <1>2 DEF QueueTypes
<1>3. CASE UNCHANGED <<pendingFunctors_, functors>>
  BY <1>1, <1>3 DEF QueueTypes
<1>4. Functor("startInLoop") \in Functors /\ Functor("resetChannel") \in Functors
  BY DEF Functor, Functors
<1>5. CASE HandleError \/ HandleWriteFails \/ HandleWriteConnects
  BY <1>2, <1>3, <1>4, <1>5 DEF HandleError, HandleWriteFails, HandleWriteConnects,
     RemoveAndResetChannel, Handling
<1>6. CASE HandleClose
  <2>1. connection_ \in 1 .. MaxConnections
    BY <1>6, ClientAssumption DEF HandleClose, Handling, Loop, TypeOK
  <2>2. [op |-> "connectDestroyed", conn |-> connection_] \in Functors
    BY <2>1 DEF Functors
  <2> QED BY <1>2, <1>6, <2>2 DEF HandleClose, Handling
<1>7. CASE SwapPending
  BY <1>1, <1>7 DEF SwapPending, QueueTypes
<1>8. CASE RunFunctor
  BY <1>1, <1>8 DEF RunFunctor, QueueTypes
<1>9. CASE Poll \/ TimerFires \/ Restart \/ RestartStarts \/ UNCHANGED vars
  BY <1>3, <1>9 DEF Poll, TimerFires, Restart, RestartStarts, Handling, vars, loopVars
<1>10. ASSUME NEW t \in Threads, UserStep(t) PROVE QueueTypes'
  <2>1. functors' = functors
    BY <1>10 DEF UserStep, CallsConnect, SetsConnect, QueuesStart, CallsDisconnect,
       CallsStop, StopsConnector, ThreadStep, threadUnchanged
  <2> QED BY <1>2, <1>3, <1>4, <1>10, <2>1 DEF UserStep, CallsConnect, SetsConnect,
          QueuesStart, CallsDisconnect, CallsStop, StopsConnector
<1> QED BY <1>5, <1>6, <1>7, <1>8, <1>9, <1>10 DEF Next, LoopStep

\* The state of the client and of its Connector keeps its types.
LEMMA ClientTypesPreserved == TypeOK /\ Loop /\ Kept /\ [Next]_vars => ClientTypes'
<1> SUFFICES ASSUME TypeOK, Loop, Kept, [Next]_vars PROVE ClientTypes'
  OBVIOUS
<1>1. ClientTypes
  BY DEF TypeOK, ClientTypes
<1> DEFINE StateTypes ==
             /\ state_ \in {"kDisconnected", "kConnecting", "kConnected"}
             /\ channel_ \in {"none", "polled", "removed"}
             /\ timers \in Nat /\ gaveUp \in BOOLEAN /\ aborted \in BOOLEAN
<1>2. ASSUME StateTypes', connect_' \in BOOLEAN, UNCHANGED clientVars
      PROVE  ClientTypes'
  BY <1>1, <1>2 DEF ClientTypes, clientVars
<1>3. ASSUME NEW n \in Nat, Connect(n), connect_' \in BOOLEAN PROVE StateTypes'
  <2> USE <1>1 DEF ClientTypes
  <2>1. CASE Connecting(n)
    BY <2>1 DEF Connecting
  <2>2. CASE RetryLater(n) /\ channel_' = channel_
    BY <2>2 DEF RetryLater
  <2>3. CASE gaveUp' = TRUE /\ state_' = "kDisconnected" /\ timers' = n
             /\ UNCHANGED <<channel_, aborted>>
    BY <2>3
  <2> QED BY <1>3, <2>1, <2>2, <2>3 DEF Connect
<1>4. ASSUME NEW n \in Nat, StartInLoop(n) PROVE StateTypes' /\ connect_' \in BOOLEAN
  <2>1. connect_' \in BOOLEAN
    BY <1>1, <1>4 DEF StartInLoop, ClientTypes
  <2> QED BY <1>1, <1>3, <1>4, <2>1 DEF StartInLoop, ClientTypes
<1>5. CASE TimerFires
  <2>1. timers - 1 \in Nat
    BY <1>5 DEF TimerFires, Handling, Loop, TypeOK
  <2> QED BY <1>2, <1>4, <1>5, <2>1 DEF TimerFires
<1>6. CASE HandleError \/ HandleWriteFails
  <2>1. connect_' \in BOOLEAN /\ UNCHANGED clientVars
    BY <1>1, <1>6 DEF HandleError, HandleWriteFails, ClientTypes
  <2>2. StateTypes'
    <3>1. CASE RemoveAndResetChannel /\ RetryLater(timers)
      BY <1>1, <3>1 DEF RemoveAndResetChannel, RetryLater, ClientTypes
    <3>2. CASE UNCHANGED <<state_, channel_, timers, pendingFunctors_, gaveUp>>
               /\ aborted' = (state_ # "kDisconnected")
      BY <1>1, <3>2 DEF ClientTypes
    <3> QED BY <1>6, <3>1, <3>2 DEF HandleError, HandleWriteFails
  <2> QED BY <1>2, <2>1, <2>2
<1>7. CASE HandleWriteConnects
  <2>1. /\ made' \in 0 .. MaxConnections /\ connection_' \in 0 .. made'
        /\ made <= made'
    BY <1>1, <1>7, ClientAssumption DEF HandleWriteConnects, ClientTypes
  <2>2. destroyed' \subseteq 1 .. made'
    BY <1>1, <1>7, <2>1 DEF HandleWriteConnects, ClientTypes
  <2> QED BY <1>1, <1>7, <2>1, <2>2 DEF HandleWriteConnects, RemoveAndResetChannel,
          ClientTypes
<1>8. CASE HandleClose
  BY <1>1, <1>8 DEF HandleClose, ClientTypes, connectorVars
<1>9. CASE Restart \/ RestartStarts
  <2>1. CASE Restart
    BY <1>1, <1>2, <2>1 DEF ClientTypes, Restart
  <2>2. CASE RestartStarts
    <3>1. timers \in Nat
      BY <1>1 DEF ClientTypes
    <3> QED BY <1>2, <1>4, <2>2, <3>1 DEF RestartStarts
  <2> QED BY <1>9, <2>1, <2>2
<1>10. CASE RunFunctor
  <2> DEFINE f == Head(functors)
  <2>1. f \in Functors /\ timers \in Nat
    BY <1>10 DEF RunFunctor, TypeOK
  <2>2. CASE StartInLoop(timers) /\ UNCHANGED clientVars
    BY <1>2, <1>4, <2>1, <2>2
  <2>3. CASE channel_' = "none"
             /\ UNCHANGED <<connect_, state_, timers, clientVars, gaveUp, aborted>>
    BY <1>1, <2>3 DEF ClientTypes, clientVars
  <2>4. CASE f.op = "connectDestroyed" /\ destroyed' = destroyed \cup {f.conn}
             /\ UNCHANGED <<connectorVars, retry_, clientConnect_, connection_, made,
                            gaveUp, aborted>>
    <3>1. 1 \in DOMAIN functors /\ f = functors[1]
      BY <1>10 DEF RunFunctor, TypeOK
    <3>2. f.conn \in 1 .. made
      BY <2>4, <3>1 DEF Kept
    <3> QED BY <1>1, <2>4, <3>2 DEF ClientTypes, connectorVars
  <2> QED BY <1>10, <2>2, <2>3, <2>4 DEF RunFunctor
<1>11. CASE Poll \/ SwapPending \/ UNCHANGED vars
  BY <1>1, <1>11 DEF Poll, SwapPending, vars, connectorVars, clientVars, ClientTypes
<1>12. ASSUME NEW t \in Threads, UserStep(t) PROVE ClientTypes'
  <2>1. /\ UNCHANGED threadUnchanged
        /\ connect_' \in BOOLEAN /\ clientConnect_' \in BOOLEAN
    BY <1>1, <1>12 DEF UserStep, CallsConnect, SetsConnect, QueuesStart,
       CallsDisconnect, CallsStop, StopsConnector, ThreadStep, ClientTypes
  <2> QED BY <1>1, <2>1 DEF threadUnchanged, ClientTypes
<1> QED BY <1>5, <1>6, <1>7, <1>8, <1>9, <1>10, <1>11, <1>12 DEF Next, LoopStep

\* TypeOK is preserved.
LEMMA TypesPreserved == TypeOK /\ Loop /\ Kept /\ [Next]_vars => TypeOK'
<1> SUFFICES ASSUME TypeOK, Loop, Kept, [Next]_vars PROVE TypeOK'
  OBVIOUS
<1>1. QueueTypes' /\ ClientTypes'
  BY QueueTypesPreserved, ClientTypesPreserved
<1>2. LoopTypes'
  <2>1. LoopTypes
    BY DEF TypeOK, LoopTypes
  <2>2. CASE Poll \/ SwapPending \/ UNCHANGED vars
    BY <2>1, <2>2 DEF Poll, SwapPending, vars, loopVars, userVars, LoopTypes
  <2>3. CASE TimerFires \/ HandleError \/ HandleWriteFails \/ HandleWriteConnects
    BY <2>1, <2>3 DEF TimerFires, HandleError, HandleWriteFails, HandleWriteConnects,
       Handling, userVars, LoopTypes
  <2>4. CASE HandleClose \/ Restart \/ RestartStarts \/ RunFunctor
    BY <2>1, <2>4 DEF HandleClose, Restart, RestartStarts, RunFunctor, Handling, userVars, LoopTypes
  <2>5. ASSUME NEW t \in Threads, UserStep(t) PROVE LoopTypes'
    <3>1. at' = at /\ active' = active
      BY <2>5 DEF UserStep, CallsConnect, SetsConnect, QueuesStart, CallsDisconnect,
         CallsStop, StopsConnector, ThreadStep, threadUnchanged
    <3>2. pc' \in [Threads -> {"idle", "connect", "start", "stop"}]
      BY <2>1, <2>5 DEF UserStep, CallsConnect, SetsConnect, QueuesStart,
         CallsDisconnect, CallsStop, StopsConnector, ThreadStep, LoopTypes
    <3>3. calls' \in 0 .. MaxConnects
      BY <2>1, <2>5, ClientAssumption DEF UserStep, CallsConnect, SetsConnect,
         QueuesStart, CallsDisconnect, CallsStop, StopsConnector, LoopTypes
    <3> QED BY <2>1, <3>1, <3>2, <3>3 DEF LoopTypes
  <2> QED BY <2>2, <2>3, <2>4, <2>5 DEF Next, LoopStep
<1> QED BY <1>1, <1>2 DEF TypeOK, QueueTypes, ClientTypes, LoopTypes
-----------------------------------------------------------------------------
\* The one attempt, as numbers: what is queued, the timer, the channel, the
\* connection.
AttemptIs(q) ==
  /\ q \in Nat
  /\ Attempts = q + timers + (IF channel_ = "polled" THEN 1 ELSE 0)
                  + (IF Restarting \/ connection_ # 0 THEN 1 ELSE 0)
Remembered == Wanted /\ Callers = {} => Attempts = 1
Core == AssertsHold /\ Loop /\ States /\ Turn /\ Remembered

\* NeverForgotten asks it of the threads' pc.
LEMMA RememberedIsNeverForgotten == TypeOK => (Remembered <=> NeverForgotten)
BY NoCallers DEF Remembered, NeverForgotten

\* Attempts before and after a step.
LEMMA AttemptTypes ==
  TypeOK /\ TypeOK' =>
    AttemptIs(Queued("startInLoop")) /\ AttemptIs(Queued("startInLoop"))'
<1> SUFFICES ASSUME TypeOK, TypeOK'
             PROVE  /\ AttemptIs(Queued("startInLoop"))
                    /\ AttemptIs(Queued("startInLoop"))'
  OBVIOUS
<1>1. AttemptIs(Queued("startInLoop"))
  BY AttemptsSum DEF AttemptIs
<1>2. (TypeOK => AttemptIs(Queued("startInLoop")))'
  BY AttemptsSum, PTL DEF AttemptIs
<1> QED BY <1>1, <1>2

\* A step that ends the one attempt, in a retry timer, a polled channel or, of
\* a stopped client, in nothing.
LEMMA OutcomePreserved ==
  ASSUME TypeOK, TypeOK', Core, Outcome, Loop', connection_' = 0, ~Restarting',
         Callers' = {}, calls' = calls, calls # 0, Queued("startInLoop")' = 0
  PROVE  Core'
<1> USE DEF Core
<1>1. AssertsHold' /\ States'
  BY DEF Outcome, AssertsHold, States
<1>2. Attempts' = timers' + (IF channel_' = "polled" THEN 1 ELSE 0)
  BY AttemptTypes DEF AttemptIs, Outcome
<1>3. /\ Attempts' \in {0, 1}
      /\ Attempts' = 0 => ~connect_' \/ gaveUp'
  <2>1. /\ timers' = 0 \/ timers' = 1
        /\ channel_' = "polled" => timers' = 0
        /\ timers' = 0 /\ channel_' # "polled" => ~connect_' \/ gaveUp'
    BY DEF Outcome
  <2>2. CASE timers' = 0
    BY <1>2, <2>1, <2>2
  <2>3. CASE timers' = 1
    BY <1>2, <2>1, <2>3
  <2> QED BY <2>1, <2>2, <2>3
<1>4. Turn'
  BY <1>3 DEF Turn
<1>5. Remembered'
  BY <1>3 DEF Remembered, Wanted
<1> QED BY <1>1, <1>4, <1>5

\* The steps of the loop that start an attempt.
LEMMA AttemptPreserved ==
  ASSUME TypeOK, Core, TypeOK',
         \/ TimerFires \/ RestartStarts
         \/ RunFunctor /\ Head(functors).op = "startInLoop"
  PROVE  Core'
<1> USE DEF Core
<1>1. AttemptIs(Queued("startInLoop"))
  BY AttemptTypes
<1>2. timers \in Nat /\ Attempts <= 1 /\ connection_ \in Nat /\ connect_' \in BOOLEAN
  BY DEF Turn, TypeOK
<1>3. /\ calls' = calls /\ Callers' = Callers
      /\ UNCHANGED <<connection_, made, retry_, clientConnect_, pendingFunctors_>>
      /\ active' \subseteq active
  BY DEF TimerFires, RestartStarts, RunFunctor, StartInLoop, Handling, userVars, clientVars,
     Callers
<1>4. ASSUME channel_ = "none", Outcome, channel_' \in {"none", "polled"},
             connection_ = 0, ~Restarting', Callers = {}, calls # 0,
             Queued("startInLoop")' = 0, Queued("resetChannel")' = Queued("resetChannel"),
             Count(pendingFunctors_, "resetChannel")' =
               Count(pendingFunctors_, "resetChannel"),
             at' # "functors" => functors' = <<>>,
             at' = "functors" => at = "functors",
             "timer" \notin active', "connector" \notin active'
      PROVE  Core'
  <2>1. Loop'
    BY <1>3, <1>4 DEF Loop, Restarting
  <2> QED BY <1>3, <1>4, <2>1, OutcomePreserved
<1>5. CASE TimerFires
  <2>1. /\ timers > 0 /\ channel_ = "none" /\ at = "events" /\ "timer" \in active
        /\ active' = active \ {"timer"} /\ StartInLoop(timers - 1) /\ at' = at
        /\ functors' = functors
    BY <1>5 DEF TimerFires, Handling, Loop
  <2>2. Queued("startInLoop") = 0 /\ timers = 1 /\ connection_ = 0 /\ Attempts = 1
    BY <1>1, <1>2, <2>1 DEF AttemptIs
  <2>3. Callers = {} /\ calls # 0
    BY <2>2 DEF Turn
  <2>4. StartInLoop(0) /\ state_ = "kDisconnected"
    BY <2>1, <2>2 DEF States
  <2>5. Outcome /\ channel_' \in {"none", "polled"}
    BY <1>2, <2>1, <2>4, ConnectOutcome
  <2>6. "connector" \notin active
    BY <2>1 DEF Loop
  <2> QED BY <1>3, <1>4, <2>1, <2>2, <2>3, <2>5, <2>6, Untouched DEF Loop, Restarting
<1>6. CASE RestartStarts
  <2>1. /\ connection_ = 0 /\ channel_ = "none" /\ Restarting /\ at' = "events"
        /\ active' = active /\ StartInLoop(timers) /\ functors' = functors
        /\ state_ = "kDisconnected"
    BY <1>6 DEF RestartStarts, Restarting, Loop, States
  <2>2. Queued("startInLoop") = 0 /\ timers = 0 /\ Attempts = 1
    BY <1>1, <1>2, <2>1 DEF AttemptIs
  <2>3. Callers = {} /\ calls # 0
    BY <2>2 DEF Turn
  <2>4. Outcome /\ channel_' \in {"none", "polled"}
    BY <1>2, <2>1, <2>2, ConnectOutcome
  <2>5. "connector" \notin active /\ "timer" \notin active
    BY <2>1, <2>2 DEF Loop
  <2> QED BY <1>3, <1>4, <2>1, <2>2, <2>3, <2>4, <2>5, Untouched DEF Loop, Restarting
<1>7. CASE RunFunctor /\ Head(functors).op = "startInLoop"
  <2>1. /\ functors # <<>> /\ functors' = Tail(functors) /\ at = "functors"
        /\ at' = at /\ active' = active /\ StartInLoop(timers)
    BY <1>7 DEF RunFunctor
  <2>2. /\ Queued("startInLoop") = Queued("startInLoop")' + 1
        /\ Queued("startInLoop")' \in Nat
        /\ Queued("resetChannel")' = Queued("resetChannel")
        /\ Count(pendingFunctors_, "resetChannel")' =
             Count(pendingFunctors_, "resetChannel")
    BY <1>3, <1>7, <2>1, Taken
  <2>3. /\ Queued("startInLoop")' = 0 /\ timers = 0 /\ connection_ = 0
        /\ Attempts = 1 /\ Queued("startInLoop") > 0
    BY <1>1, <1>2, <2>2 DEF AttemptIs
  <2>4. Callers = {} /\ calls # 0 /\ state_ = "kDisconnected" /\ channel_ = "none"
    BY <2>3 DEF Turn
  <2>5. Outcome /\ channel_' \in {"none", "polled"}
    BY <1>2, <2>1, <2>3, <2>4, ConnectOutcome
  <2>6. active = {}
    BY <2>1 DEF Loop
  <2> QED BY <1>3, <1>4, <2>1, <2>2, <2>3, <2>4, <2>5, <2>6 DEF Loop, Restarting
<1> QED BY <1>5, <1>6, <1>7

\* A step that leaves the attempt where it is.
LEMMA AlikePreserved ==
  ASSUME Core, Loop', Attempts' = Attempts, Callers' = Callers,
         Queued("startInLoop")' = Queued("startInLoop"),
         UNCHANGED <<connectorVars, retry_, clientConnect_, connection_, made, calls,
                     gaveUp, aborted>>
  PROVE  Core'
<1> USE DEF Core, connectorVars
<1>1. AssertsHold' /\ States' /\ Remembered'
  BY DEF AssertsHold, States, Remembered, Wanted
<1>2. Turn'
  BY DEF Turn
<1> QED BY <1>1, <1>2

\* restart() has set connect_: the attempt is still to come.
LEMMA RestartPreserved == ASSUME TypeOK, Core, TypeOK', Restart PROVE Core'
<1> USE DEF Core
<1>1. AttemptIs(Queued("startInLoop")) /\ AttemptIs(Queued("startInLoop"))'
  BY AttemptTypes
<1>2. \A op : /\ Count(pendingFunctors_, op)' = Count(pendingFunctors_, op)
              /\ Queued(op)' = Queued(op)
  BY Untouched DEF Restart
<1>3. /\ UNCHANGED <<channel_, timers, retry_, clientConnect_, connection_, made,
                     active, functors, calls, gaveUp, aborted>>
      /\ state_' = "kDisconnected" /\ at = "restart" /\ at' = "starting"
      /\ Callers' = Callers
  BY DEF Restart, clientVars, userVars, Callers
<1>4. connection_ = 0 /\ channel_ = "none" /\ Restarting /\ Restarting'
  BY <1>3 DEF Loop, Restarting
<1>5. timers \in Nat /\ Attempts <= 1
  BY DEF TypeOK, Turn
<1>6. Attempts = 1 /\ Attempts' = 1 /\ timers = 0
  BY <1>1, <1>2, <1>3, <1>4, <1>5 DEF AttemptIs
<1>7. Callers = {} /\ calls # 0
  BY <1>6 DEF Turn
<1>8. Loop'
  BY <1>2, <1>3, <1>4 DEF Loop
<1>9. AssertsHold' /\ States'
  BY <1>3, <1>4, <1>6 DEF AssertsHold, States
<1>10. Turn' /\ Remembered'
  BY <1>3, <1>4, <1>6, <1>7 DEF Turn, Remembered
<1> QED BY <1>8, <1>9, <1>10

\* What the loop is about to handle is what it polls.
LEMMA PollPreserved == ASSUME TypeOK, Core, TypeOK', Poll PROVE Core'
<1> USE DEF Core
<1>1. AttemptIs(Queued("startInLoop")) /\ AttemptIs(Queued("startInLoop"))'
  BY AttemptTypes
<1>2. \A op : /\ Count(pendingFunctors_, op)' = Count(pendingFunctors_, op)
              /\ Queued(op)' = Queued(op)
  BY Untouched DEF Poll
<1>3. /\ UNCHANGED <<connectorVars, retry_, clientConnect_, connection_, made, calls,
                     gaveUp, aborted>>
      /\ at = "functors" /\ at' = "events" /\ functors = <<>> /\ functors' = <<>>
      /\ Callers' = Callers
      /\ active' \subseteq {x \in {"connector", "timer", "connection"} :
                              /\ x = "connector" => channel_ = "polled"
                              /\ x = "timer" => timers > 0
                              /\ x = "connection" => connection_ # 0}
  BY DEF Poll, clientVars, userVars, Callers
<1>4. Attempts' = Attempts
  BY <1>1, <1>2, <1>3 DEF AttemptIs, connectorVars, Restarting
<1>5. channel_ # "removed"
  <2>1. Count(functors, "resetChannel") = 0
    BY <1>3, CountEmpty
  <2> QED BY <1>3, <2>1 DEF Loop, Queued
<1>6. timers > 0 \/ connection_ # 0 => channel_ = "none"
  <2>1. timers \in Nat /\ Attempts <= 1 /\ channel_ \in {"none", "polled", "removed"}
    BY DEF Turn, TypeOK
  <2> QED BY <1>1, <1>5, <2>1 DEF AttemptIs
<1>7. Loop'
  <2>1. Queued("resetChannel")' = IF channel_' = "removed" THEN 1 ELSE 0
    BY <1>2, <1>3 DEF Loop, connectorVars
  <2>2. "connector" \in active' => channel_' = "polled"
    BY <1>3 DEF connectorVars
  <2>3. "timer" \in active' => timers' > 0 /\ channel_' = "none"
    BY <1>3, <1>6 DEF connectorVars
  <2>4. "connection" \in active' => connection_' # 0 /\ channel_' = "none"
    BY <1>3, <1>6 DEF connectorVars
  <2> QED BY <1>3, <2>1, <2>2, <2>3, <2>4 DEF Loop, Restarting
<1> QED BY <1>2, <1>3, <1>4, <1>7, AlikePreserved

\* functors.swap(pendingFunctors_): the channel removed in this round will be
\* destroyed in it.
LEMMA SwapPreserved == ASSUME TypeOK, Core, TypeOK', SwapPending PROVE Core'
<1> USE DEF Core
<1>1. AttemptIs(Queued("startInLoop")) /\ AttemptIs(Queued("startInLoop"))'
  BY AttemptTypes
<1>2. /\ UNCHANGED <<connectorVars, retry_, clientConnect_, connection_, made, calls,
                     gaveUp, aborted>>
      /\ at = "events" /\ at' = "functors" /\ active = {} /\ active' = {}
      /\ functors' = pendingFunctors_ /\ pendingFunctors_' = <<>>
      /\ functors = <<>> /\ Callers' = Callers
  BY DEF SwapPending, clientVars, userVars, Callers, Loop
<1>3. \A op : Count(pendingFunctors_, op)' = 0 /\ Queued(op)' = Queued(op)
  BY <1>2, Swapped
<1>4. Attempts' = Attempts
  BY <1>1, <1>2, <1>3 DEF AttemptIs, connectorVars, Restarting
<1>5. Loop'
  BY <1>2, <1>3 DEF Loop, connectorVars, Restarting
<1> QED BY <1>2, <1>3, <1>4, <1>5, AlikePreserved

\* The functors that destroy a channel or a connection.
LEMMA DestroyPreserved ==
  ASSUME TypeOK, Core, TypeOK', RunFunctor, Head(functors).op # "startInLoop"
  PROVE  Core'
<1> USE DEF Core
<1> DEFINE f == Head(functors)
<1>1. AttemptIs(Queued("startInLoop")) /\ AttemptIs(Queued("startInLoop"))'
  BY AttemptTypes
<1>2. /\ UNCHANGED <<connect_, state_, timers, retry_, clientConnect_, connection_,
                     made, calls, gaveUp, aborted, at, active>>
      /\ at = "functors" /\ functors # <<>> /\ functors' = Tail(functors)
      /\ pendingFunctors_' = pendingFunctors_ /\ Callers' = Callers
      /\ \/ f.op = "resetChannel" /\ channel_' = "none"
         \/ f.op = "connectDestroyed" /\ channel_' = channel_
  BY DEF RunFunctor, clientVars, connectorVars, userVars, Callers
<1>3. \A op : /\ Count(pendingFunctors_, op)' = Count(pendingFunctors_, op)
              /\ Queued(op)' \in Nat
              /\ Queued(op) = Queued(op)' + (IF f.op = op THEN 1 ELSE 0)
  BY <1>2, Taken
<1>4. Queued("startInLoop")' = Queued("startInLoop") /\ active = {}
  BY <1>2, <1>3 DEF Loop
<1>5. CASE f.op = "resetChannel" /\ channel_' = "none"
  <2>1. Queued("resetChannel") = Queued("resetChannel")' + 1 /\ Queued("resetChannel")' \in Nat
    BY <1>3, <1>5
  <2>2. channel_ = "removed" /\ Queued("resetChannel")' = 0
    BY <2>1 DEF Loop
  <2>3. Loop'
    BY <1>2, <1>3, <1>4, <1>5, <2>2 DEF Loop, Restarting
  <2>4. Attempts' = Attempts
    BY <1>1, <1>2, <1>4, <1>5, <2>2 DEF AttemptIs, Restarting
  <2>5. AssertsHold' /\ States' /\ Remembered'
    BY <1>2, <1>5, <2>2, <2>4 DEF AssertsHold, States, Remembered, Wanted
  <2>6. Turn'
    BY <1>2, <1>4, <1>5, <2>4 DEF Turn
  <2> QED BY <2>3, <2>5, <2>6
<1>6. CASE f.op = "connectDestroyed" /\ channel_' = channel_
  <2>1. Queued("resetChannel")' = Queued("resetChannel")
    BY <1>3, <1>6
  <2>2. Loop'
    BY <1>2, <1>3, <1>4, <1>6, <2>1 DEF Loop, Restarting
  <2>3. Attempts' = Attempts
    BY <1>1, <1>2, <1>4, <1>6 DEF AttemptIs, Restarting
  <2> QED BY <1>2, <1>4, <1>6, <2>2, <2>3, AlikePreserved DEF connectorVars
<1> QED BY <1>2, <1>5, <1>6
-----------------------------------------------------------------------------
\* While the channel is polled the attempt is the one it waits for.
LEMMA ConnectorActive ==
  ASSUME TypeOK, Core, at = "events", "connector" \in active
  PROVE  /\ channel_ = "polled" /\ state_ = "kConnecting" /\ timers = 0
         /\ connection_ = 0 /\ Callers = {} /\ calls # 0
         /\ Queued("startInLoop") = 0 /\ Queued("resetChannel") = 0
         /\ functors = <<>> /\ active = {"connector"}
<1> USE DEF Core
<1>1. channel_ = "polled" /\ functors = <<>> /\ state_ = "kConnecting"
  BY DEF Loop, States
<1>2. AttemptIs(Queued("startInLoop"))
  BY AttemptsSum DEF AttemptIs
<1>3. timers = 0 /\ connection_ = 0 /\ Queued("startInLoop") = 0 /\ Attempts = 1
  <2>1. timers \in Nat /\ connection_ \in Nat /\ Attempts <= 1
    BY DEF TypeOK, Turn
  <2> QED BY <1>1, <1>2, <2>1 DEF AttemptIs
<1>4. Callers = {} /\ calls # 0
  BY <1>3 DEF Turn
<1>5. Queued("resetChannel") = 0
  BY <1>1 DEF Loop
<1>6. active = {"connector"}
  <2>1. active \subseteq {"connector", "timer", "connection"}
    BY DEF TypeOK
  <2>2. "timer" \notin active /\ "connection" \notin active
    BY <1>1 DEF Loop
  <2> QED BY <2>1, <2>2
<1> QED BY <1>1, <1>3, <1>4, <1>5, <1>6

\* removeAndResetChannel queues the functor that destroys the channel.
LEMMA ChannelRemoved ==
  ASSUME TypeOK, Core, at = "events", "connector" \in active,
         RemoveAndResetChannel, functors' = functors, at' = at,
         active' = active \ {"connector"}
  PROVE  Loop' /\ Queued("startInLoop")' = 0 /\ channel_' = "removed"
<1>1. /\ functors = <<>> /\ active = {"connector"}
      /\ Queued("startInLoop") = 0 /\ Queued("resetChannel") = 0
  BY ConnectorActive
<1>2. Functor("resetChannel") \in Functors /\ Functor("resetChannel").op = "resetChannel"
  BY DEF Functor, Functors
<1>3. \A op : Queued(op)' = Queued(op) + (IF Functor("resetChannel").op = op
                                           THEN 1 ELSE 0)
  BY <1>2, Pushed DEF RemoveAndResetChannel
<1>4. Queued("startInLoop")' = 0 /\ Queued("resetChannel")' = 1
  BY <1>1, <1>2, <1>3
<1>5. channel_' = "removed" /\ active' = {}
  BY <1>1 DEF RemoveAndResetChannel
<1> QED BY <1>1, <1>4, <1>5 DEF Loop, Restarting

\* The attempt fails.
LEMMA FailurePreserved ==
  ASSUME TypeOK, Core, TypeOK', HandleError \/ HandleWriteFails
  PROVE  Core'
<1>1. /\ at = "events" /\ "connector" \in active /\ at' = at /\ functors' = functors
      /\ active' = active \ {"connector"} /\ connect_' = connect_
      /\ UNCHANGED <<clientVars, userVars>>
  BY DEF HandleError, HandleWriteFails, Handling
<1>2. /\ state_ = "kConnecting" /\ timers = 0 /\ connection_ = 0 /\ Callers = {}
      /\ calls # 0
  BY <1>1, ConnectorActive
<1>3. RemoveAndResetChannel /\ RetryLater(0)
  BY <1>2 DEF HandleError, HandleWriteFails
<1>4. Loop' /\ Queued("startInLoop")' = 0 /\ channel_' = "removed"
  BY <1>1, <1>3, ChannelRemoved
<1>5. Outcome
  BY <1>1, <1>3, <1>4, RetryOutcome DEF Core
<1>6. connection_' = 0 /\ ~Restarting' /\ Callers' = {} /\ calls' = calls
  BY <1>1, <1>2 DEF clientVars, userVars, Callers, Restarting
<1> QED BY <1>2, <1>4, <1>5, <1>6, OutcomePreserved

\* The attempt ends in a connection, or in nothing if the client was stopped.
LEMMA SuccessPreserved ==
  ASSUME TypeOK, Core, TypeOK', HandleWriteConnects
  PROVE  Core'
<1>1. /\ at = "events" /\ "connector" \in active /\ at' = at /\ functors' = functors
      /\ active' = active \ {"connector"} /\ RemoveAndResetChannel
      /\ state_' = "kConnected"
      /\ UNCHANGED <<connect_, timers, retry_, clientConnect_, gaveUp, aborted,
                     userVars>>
  BY DEF HandleWriteConnects, Handling
<1>2. timers = 0 /\ connection_ = 0 /\ Callers = {} /\ calls # 0
  BY <1>1, ConnectorActive
<1>3. Loop' /\ Queued("startInLoop")' = 0 /\ channel_' = "removed"
  BY <1>1, ChannelRemoved
<1>4. Callers' = {} /\ calls' = calls /\ timers' = 0
  BY <1>1, <1>2 DEF userVars, Callers
<1>5. \/ connect_' /\ connection_' # 0
      \/ ~connect_' /\ connection_' = 0
  <2>1. CASE connect_
    BY <1>1, <2>1 DEF HandleWriteConnects, TypeOK
  <2>2. CASE ~connect_
    BY <1>1, <1>2, <2>2 DEF HandleWriteConnects
  <2> QED BY <2>1, <2>2
<1>6. Attempts' = IF connection_' # 0 THEN 1 ELSE 0
  <2>1. AttemptIs(Queued("startInLoop"))'
    BY AttemptTypes
  <2>2. ~Restarting'
    BY <1>1 DEF Restarting
  <2> QED BY <1>3, <1>4, <2>1, <2>2 DEF AttemptIs
<1>7. AssertsHold' /\ States'
  BY <1>1, <1>3, <1>4 DEF AssertsHold, States, Core
<1>8. Turn'
  BY <1>2, <1>3, <1>4, <1>6 DEF Turn
<1>9. Remembered'
  BY <1>5 DEF Remembered, Wanted
<1> QED BY <1>3, <1>7, <1>8, <1>9 DEF Core

\* The connection is closed, and with retry() another is wanted at once.
LEMMA ClosePreserved == ASSUME TypeOK, Core, TypeOK', HandleClose PROVE Core'
<1>1. /\ at = "events" /\ "connection" \in active /\ functors' = functors
      /\ active' = active \ {"connection"} /\ connection_' = 0
      /\ at' = (IF retry_ /\ clientConnect_ THEN "restart" ELSE at)
      /\ UNCHANGED <<connectorVars, retry_, clientConnect_, made, gaveUp, aborted,
                     userVars>>
  BY DEF HandleClose, Handling
<1>2. connection_ # 0 /\ channel_ = "none" /\ functors = <<>>
  BY <1>1 DEF Loop, Core
<1>3. connection_ \in 1 .. made /\ made \in 1 .. MaxConnections /\ timers \in Nat
  BY <1>2, ClientAssumption DEF TypeOK
<1>4. Queued("startInLoop") = 0 /\ timers = 0 /\ Attempts = 1
  <2>1. AttemptIs(Queued("startInLoop")) /\ Attempts <= 1
    BY AttemptTypes DEF Turn, Core
  <2> QED BY <1>2, <1>3, <2>1 DEF AttemptIs
<1>5. Callers = {} /\ calls # 0
  BY <1>4 DEF Turn, Core
<1>6. /\ Queued("startInLoop")' = 0
      /\ Queued("resetChannel")' = Queued("resetChannel")
  <2> DEFINE f == [op |-> "connectDestroyed", conn |-> connection_]
  <2>1. f.op = "connectDestroyed"
    OBVIOUS
  <2>2. f \in Functors
    <3>1. connection_ \in 1 .. MaxConnections
      BY <1>3, ClientAssumption
    <3> QED BY <3>1 DEF Functors
  <2>3. pendingFunctors_' = Append(pendingFunctors_, f)
    BY DEF HandleClose
  <2> HIDE DEF f
  <2>4. \A op : Queued(op)' = Queued(op) + (IF f.op = op THEN 1 ELSE 0)
    BY <1>1, <2>2, <2>3, Pushed
  <2>5. /\ Queued("startInLoop")' = Queued("startInLoop") + 0
        /\ Queued("resetChannel")' = Queued("resetChannel") + 0
    BY <2>1, <2>4
  <2>6. Queued("resetChannel") = 0
    BY <1>2 DEF Loop, Core
  <2> QED BY <1>4, <2>5, <2>6
<1>7. Loop'
  <2>1. "timer" \notin active' /\ "connection" \notin active' /\ "connector" \notin active'
    BY <1>1, <1>2, <1>4 DEF Loop, Core
  <2>2. at' # "functors"
    BY <1>1
  <2>3. Queued("resetChannel")' = IF channel_' = "removed" THEN 1 ELSE 0
    BY <1>1, <1>6 DEF Loop, Core, connectorVars
  <2> QED BY <1>1, <1>2, <2>1, <2>2, <2>3 DEF Loop, connectorVars
<1>8. AssertsHold' /\ States'
  BY <1>1 DEF AssertsHold, States, Core, connectorVars
<1>9. Attempts' = IF retry_ /\ clientConnect_ THEN 1 ELSE 0
  <2>1. AttemptIs(Queued("startInLoop"))'
    BY AttemptTypes
  <2>2. channel_' = "none" /\ timers' = 0 /\ connection_' = 0
    BY <1>1, <1>2, <1>4 DEF connectorVars
  <2>3. Attempts' = IF Restarting' THEN 1 ELSE 0
    BY <1>6, <2>1, <2>2 DEF AttemptIs
  <2>4. Restarting' <=> retry_ /\ clientConnect_
    BY <1>1 DEF Restarting
  <2> QED BY <2>3, <2>4
<1>10. Callers' = {} /\ calls' # 0
  BY <1>1, <1>5 DEF userVars, Callers
<1>11. Turn'
  BY <1>6, <1>9, <1>10 DEF Turn
<1>12. Remembered'
  BY <1>1, <1>3, <1>9 DEF Remembered, Wanted
<1> QED BY <1>7, <1>8, <1>11, <1>12 DEF Core

\* connect(), disconnect() and stop() of the threads.
LEMMA UserPreserved ==
  ASSUME TypeOK, Core, TypeOK', MaxConnects <= 1, NEW t \in Threads, UserStep(t)
  PROVE  Core'
<1> USE DEF Core
<1>1. AttemptIs(Queued("startInLoop")) /\ AttemptIs(Queued("startInLoop"))'
  BY AttemptTypes
<1>2. UNCHANGED threadUnchanged /\ pc[t] \in {"idle", "connect", "start", "stop"}
  BY DEF UserStep, CallsConnect, SetsConnect, QueuesStart, CallsDisconnect, CallsStop,
     StopsConnector, ThreadStep
<1>3. \A u \in Threads : u # t => pc'[u] = pc[u]
  BY DEF UserStep, CallsConnect, SetsConnect, QueuesStart, CallsDisconnect, CallsStop,
     StopsConnector, ThreadStep, TypeOK
<1>4. AssertsHold' /\ States'
  BY <1>2 DEF AssertsHold, States, threadUnchanged
<1>5. ASSUME pendingFunctors_' = pendingFunctors_
      PROVE  Loop' /\ Attempts' = Attempts /\ Queued("startInLoop")' = Queued("startInLoop")
  <2>1. \A op : /\ Count(pendingFunctors_, op)' = Count(pendingFunctors_, op)
                /\ Queued(op)' = Queued(op)
    BY <1>2, <1>5, Untouched DEF threadUnchanged
  <2>2. Attempts' = Attempts
    BY <1>1, <1>2, <2>1 DEF AttemptIs, threadUnchanged, Restarting
  <2>3. Loop'
    BY <1>2, <2>1 DEF Loop, threadUnchanged, Restarting
  <2> QED BY <2>1, <2>2, <2>3
<1>6. CASE CallsConnect(t)
  <2>1. pc[t] = "idle" /\ pc'[t] = "connect" /\ pendingFunctors_' = pendingFunctors_
    BY <1>6 DEF CallsConnect, ThreadStep, TypeOK
  <2>2. calls = 0 /\ calls' = 1 /\ connect_' = connect_
    BY <1>6, ClientAssumption DEF CallsConnect, TypeOK
  <2>3. Callers = {} /\ Attempts = 0 /\ state_ = "kDisconnected" /\ channel_ = "none"
    BY <2>2 DEF Turn
  <2>4. Callers' = {t}
    BY <1>3, <2>1, <2>3 DEF Callers
  <2>5. Turn'
    BY <1>2, <1>5, <2>1, <2>2, <2>3, <2>4 DEF Turn, threadUnchanged
  <2>6. Remembered'
    BY <2>4 DEF Remembered
  <2> QED BY <1>4, <1>5, <2>1, <2>5, <2>6
<1>7. CASE SetsConnect(t)
  <2>1. /\ pc[t] = "connect" /\ pc'[t] = "start" /\ pendingFunctors_' = pendingFunctors_
        /\ calls' = calls
    BY <1>7 DEF SetsConnect, ThreadStep, TypeOK
  <2>2. t \in Callers /\ Callers' = Callers
    BY <1>3, <2>1 DEF Callers
  <2>3. calls = 1 /\ Attempts = 0 /\ state_ = "kDisconnected" /\ channel_ = "none"
    BY <2>2 DEF Turn
  <2>4. Turn'
    BY <1>2, <1>5, <2>1, <2>2, <2>3 DEF Turn, threadUnchanged
  <2>5. Remembered'
    BY <2>2 DEF Remembered
  <2> QED BY <1>4, <1>5, <2>1, <2>4, <2>5
<1>8. CASE QueuesStart(t)
  <2>1. /\ pc[t] = "start" /\ pc'[t] = "idle" /\ calls' = calls
        /\ connect_' = connect_ /\ clientConnect_' = clientConnect_
        /\ pendingFunctors_' = Append(pendingFunctors_, Functor("startInLoop"))
    BY <1>8 DEF QueuesStart, ThreadStep, TypeOK
  <2>2. /\ t \in Callers /\ calls = 1 /\ Attempts = 0
        /\ state_ = "kDisconnected" /\ channel_ = "none"
    BY <2>1 DEF Turn, Callers
  <2>3. Callers' = {}
    <3>1. \A u \in Callers : u = t
      BY <2>2 DEF Turn
    <3> QED BY <1>3, <2>1, <3>1 DEF Callers
  <2>4. Functor("startInLoop") \in Functors /\ Functor("startInLoop").op = "startInLoop"
    BY DEF Functor, Functors
  <2>5. \A op :
          /\ Count(pendingFunctors_, op)' =
               Count(pendingFunctors_, op)
                 + (IF Functor("startInLoop").op = op THEN 1 ELSE 0)
          /\ Queued(op)' = Queued(op) + (IF Functor("startInLoop").op = op THEN 1 ELSE 0)
    BY <1>2, <2>1, <2>4, Pushed DEF threadUnchanged
  <2>6. /\ Queued("startInLoop")' = Queued("startInLoop") + 1
        /\ Queued("resetChannel")' = Queued("resetChannel") + 0
        /\ Count(pendingFunctors_, "resetChannel")' =
             Count(pendingFunctors_, "resetChannel") + 0
    BY <2>4, <2>5
  <2>7. Count(pendingFunctors_, "resetChannel") \in Nat /\ Queued("resetChannel") \in {0, 1}
    BY CountTypes DEF TypeOK, Loop
  <2>8. Attempts' = 1
    <3>1. timers \in Nat
      BY DEF TypeOK
    <3>2. /\ timers' = timers /\ channel_' = channel_ /\ at' = at
          /\ connection_' = connection_
      BY <1>2 DEF threadUnchanged
    <3> QED BY <1>1, <2>2, <2>6, <3>1, <3>2 DEF AttemptIs, Restarting
  <2>9. Loop'
    BY <1>2, <2>6, <2>7 DEF Loop, threadUnchanged, Restarting
  <2>10. Turn'
    BY <1>2, <2>1, <2>2, <2>3, <2>8 DEF Turn, threadUnchanged
  <2>11. Remembered'
    BY <2>8 DEF Remembered
  <2> QED BY <1>4, <2>9, <2>10, <2>11
<1>9. CASE CallsDisconnect(t) \/ CallsStop(t) \/ StopsConnector(t)
  <2>1. /\ pc[t] \in {"idle", "stop"} /\ pc'[t] \in {"idle", "stop"}
        /\ pendingFunctors_' = pendingFunctors_ /\ calls' = calls
        /\ \/ ~connect_'
           \/ connect_' = connect_ /\ ~clientConnect_'
    <3>1. CASE CallsDisconnect(t)
      BY <3>1 DEF CallsDisconnect, ThreadStep, TypeOK
    <3>2. CASE CallsStop(t)
      BY <3>2 DEF CallsStop, ThreadStep, TypeOK
    <3>3. CASE StopsConnector(t)
      <4>1. ~connect_' /\ pendingFunctors_' = pendingFunctors_ /\ calls' = calls
        BY <3>3 DEF StopsConnector
      <4>2. pc[t] = "stop" /\ pc'[t] = "idle"
        BY <3>3 DEF StopsConnector, ThreadStep, TypeOK
      <4>3. pc[t] \in {"idle", "stop"} /\ pc'[t] \in {"idle", "stop"}
        BY <4>2
      <4> QED BY <4>1, <4>3
    <3> QED BY <1>9, <3>1, <3>2, <3>3
  <2>2. Callers' = Callers
    BY <1>3, <2>1 DEF Callers
  <2>3. Turn'
    BY <1>2, <1>5, <2>1, <2>2 DEF Turn, threadUnchanged
  <2>4. Remembered'
    BY <1>2, <1>5, <2>1, <2>2 DEF Remembered, Wanted, threadUnchanged
  <2> QED BY <1>4, <1>5, <2>1, <2>3, <2>4
<1> QED BY <1>6, <1>7, <1>8, <1>9 DEF UserStep

\* Every step of a client that connects once keeps the one attempt.
LEMMA CorePreserved ==
  TypeOK /\ Core /\ TypeOK' /\ MaxConnects <= 1 /\ [Next]_vars => Core'
<1> SUFFICES ASSUME TypeOK, Core, TypeOK', MaxConnects <= 1, [Next]_vars PROVE Core'
  OBVIOUS
<1>1. CASE TimerFires \/ Restart \/ RestartStarts
  BY <1>1, AttemptPreserved, RestartPreserved
<1>2. CASE RunFunctor
  BY <1>2, AttemptPreserved, DestroyPreserved
<1>3. CASE Poll \/ SwapPending
  BY <1>3, PollPreserved, SwapPreserved
<1>4. CASE HandleError \/ HandleWriteFails \/ HandleWriteConnects \/ HandleClose
  BY <1>4, FailurePreserved, SuccessPreserved, ClosePreserved
<1>5. CASE \E t \in Threads : UserStep(t)
  BY <1>5, UserPreserved
<1>6. CASE UNCHANGED vars
  <2>1. \A op : /\ Count(pendingFunctors_, op)' = Count(pendingFunctors_, op)
                /\ Queued(op)' = Queued(op)
    BY <1>6, Untouched DEF vars, loopVars
  <2>2. /\ UNCHANGED <<connectorVars, clientVars, loopVars, userVars, gaveUp, aborted>>
        /\ Callers' = Callers
    BY <1>6 DEF vars, userVars, Callers
  <2>3. Attempts' = Attempts
    BY <2>2, <2>1, AttemptTypes DEF AttemptIs, connectorVars, clientVars, loopVars, Restarting
  <2>4. Loop'
    BY <2>1, <2>2 DEF Core, Loop, connectorVars, clientVars, loopVars, Restarting
  <2> QED BY <2>1, <2>2, <2>3, <2>4, AlikePreserved DEF clientVars, userVars
<1> QED BY <1>1, <1>2, <1>3, <1>4, <1>5, <1>6 DEF Next, LoopStep
-----------------------------------------------------------------------------
\* The connections a queue will destroy are among the first m.
DestroysMade(q, m) ==
  \A i \in DOMAIN q : q[i].op = "connectDestroyed" => q[i].conn \in 1 .. m
KeptParts ==
  /\ DestroysMade(pendingFunctors_, made) /\ DestroysMade(functors, made)
  /\ \A c \in 1 .. made \ {connection_} :
       c \in destroyed \/ Destroying(pendingFunctors_, c) \/ Destroying(functors, c)

\* Kept, queue by queue.
LEMMA KeptIsParts == Kept <=> KeptParts
BY DEF Kept, KeptParts, DestroysMade

\* push_back adds the connection its functor destroys.
LEMMA DestroyingAppend ==
  ASSUME NEW q \in Seq(Functors), NEW f \in Functors, NEW m
  PROVE  /\ \A c : Destroying(q, c) => Destroying(Append(q, f), c)
         /\ \A c : f.op = "connectDestroyed" /\ f.conn = c => Destroying(Append(q, f), c)
         /\ DestroysMade(q, m) /\ (f.op = "connectDestroyed" => f.conn \in 1 .. m)
              => DestroysMade(Append(q, f), m)
<1> DEFINE r == Append(q, f)
<1>1. /\ DOMAIN q = 1 .. Len(q) /\ Len(q) \in Nat
      /\ DOMAIN r = 1 .. Len(q) + 1
      /\ \A i \in 1 .. Len(q) : r[i] = q[i]
      /\ r[Len(q) + 1] = f
  BY AppendProperties, LenProperties
<1>2. DOMAIN q \subseteq DOMAIN r /\ Len(q) + 1 \in DOMAIN r
      /\ \A i \in DOMAIN r : i \in DOMAIN q \/ i = Len(q) + 1
  BY <1>1
<1>3. \A i \in DOMAIN q : r[i] = q[i]
  BY <1>1
<1> HIDE DEF r
<1>4. \A c : Destroying(q, c) => Destroying(r, c)
  BY <1>2, <1>3 DEF Destroying
<1>5. \A c : f.op = "connectDestroyed" /\ f.conn = c => Destroying(r, c)
  BY <1>1, <1>2 DEF Destroying
<1>6. DestroysMade(q, m) /\ (f.op = "connectDestroyed" => f.conn \in 1 .. m)
        => DestroysMade(r, m)
  BY <1>1, <1>2, <1>3 DEF DestroysMade
<1> QED BY <1>4, <1>5, <1>6 DEF r

\* The rest of the queue destroys all the connections but the one at its front.
LEMMA DestroyingTail ==
  ASSUME NEW q \in Seq(Functors), q # <<>>, NEW m
  PROVE  /\ \A c : Destroying(q, c) =>
              \/ Destroying(Tail(q), c)
              \/ Head(q).op = "connectDestroyed" /\ Head(q).conn = c
         /\ DestroysMade(q, m) => DestroysMade(Tail(q), m)
<1>1. /\ DOMAIN q = 1 .. Len(q) /\ Len(q) \in Nat \ {0}
      /\ DOMAIN Tail(q) = 1 .. Len(q) - 1
      /\ \A i \in 1 .. Len(q) - 1 : Tail(q)[i] = q[i + 1]
      /\ Head(q) = q[1]
  BY HeadTailProperties, LenProperties
<1>2. ASSUME NEW c, NEW i \in DOMAIN q, q[i].op = "connectDestroyed", q[i].conn = c, i # 1
      PROVE  Destroying(Tail(q), c)
  <2>1. i - 1 \in DOMAIN Tail(q) /\ Tail(q)[i - 1] = q[i]
    BY <1>1, <1>2
  <2> QED BY <1>2, <2>1 DEF Destroying
<1>3. \A c : Destroying(q, c) =>
         \/ Destroying(Tail(q), c)
         \/ Head(q).op = "connectDestroyed" /\ Head(q).conn = c
  <2> SUFFICES ASSUME NEW c, Destroying(q, c)
               PROVE  \/ Destroying(Tail(q), c)
                      \/ Head(q).op = "connectDestroyed" /\ Head(q).conn = c
    OBVIOUS
  <2>1. PICK i \in DOMAIN q : q[i].op = "connectDestroyed" /\ q[i].conn = c
    BY DEF Destroying
  <2>2. CASE i = 1
    BY <1>1, <2>1, <2>2
  <2> QED BY <1>2, <2>1, <2>2
<1>4. DestroysMade(q, m) => DestroysMade(Tail(q), m)
  <2>1. \A i \in DOMAIN Tail(q) : i + 1 \in DOMAIN q /\ Tail(q)[i] = q[i + 1]
    BY <1>1
  <2> QED BY <2>1 DEF DestroysMade
<1> QED BY <1>3, <1>4

\* No connection is forgotten.
LEMMA KeptPreserved == TypeOK /\ Core /\ Kept /\ [Next]_vars => Kept'
<1> SUFFICES ASSUME TypeOK, Core, KeptParts, [Next]_vars PROVE KeptParts'
  BY KeptIsParts, PTL
<1>1. /\ pendingFunctors_ \in Seq(Functors) /\ functors \in Seq(Functors)
      /\ made \in Nat /\ connection_ \in 0 .. made
  BY ClientAssumption DEF TypeOK
<1>2. CASE UNCHANGED <<pendingFunctors_, functors, made, connection_, destroyed>>
  BY <1>2 DEF KeptParts
<1>3. ASSUME NEW f \in Functors, f.op # "connectDestroyed",
             pendingFunctors_' = Append(pendingFunctors_, f),
             UNCHANGED <<functors, made, connection_, destroyed>>
      PROVE  KeptParts'
  <2>1. DestroysMade(Append(pendingFunctors_, f), made)
    BY <1>1, <1>3, DestroyingAppend DEF KeptParts
  <2>2. \A c : Destroying(pendingFunctors_, c) => Destroying(Append(pendingFunctors_, f), c)
    BY <1>1, DestroyingAppend
  <2> QED BY <1>3, <2>1, <2>2 DEF KeptParts
<1>4. /\ Functor("resetChannel") \in Functors /\ Functor("startInLoop") \in Functors
      /\ Functor("resetChannel").op # "connectDestroyed"
      /\ Functor("startInLoop").op # "connectDestroyed"
  BY DEF Functor, Functors
<1>5. CASE Poll \/ TimerFires \/ Restart \/ RestartStarts \/ UNCHANGED vars
  BY <1>2, <1>5 DEF Poll, TimerFires, Restart, RestartStarts, Handling, vars, clientVars, loopVars
<1>6. CASE HandleError \/ HandleWriteFails
  BY <1>2, <1>3, <1>4, <1>6 DEF HandleError, HandleWriteFails, Handling,
     RemoveAndResetChannel, clientVars
<1>7. CASE HandleWriteConnects
  <2>1. UNCHANGED <<functors, destroyed>>
        /\ pendingFunctors_' = Append(pendingFunctors_, Functor("resetChannel"))
    BY <1>7 DEF HandleWriteConnects, Handling, RemoveAndResetChannel
  <2>2. CASE ~connect_
    BY <1>3, <1>4, <1>7, <2>1, <2>2 DEF HandleWriteConnects
  <2>3. CASE connect_
    <3>1. made' = made + 1 /\ connection_' = made + 1 /\ connection_ = 0
      BY <1>7, <2>3, ConnectorActive DEF HandleWriteConnects, Handling
    <3>2. 1 .. made' \ {connection_'} = 1 .. made \ {connection_}
      BY <1>1, <3>1
    <3>3. \A m : DestroysMade(pendingFunctors_, m)
                   => DestroysMade(Append(pendingFunctors_, Functor("resetChannel")), m)
      BY <1>1, <1>4, DestroyingAppend
    <3>4. \A c : Destroying(pendingFunctors_, c)
                   => Destroying(Append(pendingFunctors_, Functor("resetChannel")), c)
      BY <1>1, <1>4, DestroyingAppend
    <3>5. DestroysMade(pendingFunctors_, made') /\ DestroysMade(functors, made')
      <4>1. 1 .. made \subseteq 1 .. made'
        BY <1>1, <3>1
      <4> QED BY <4>1 DEF KeptParts, DestroysMade
    <3>6. DestroysMade(pendingFunctors_, made)' /\ DestroysMade(functors, made)'
      BY <2>1, <3>3, <3>5
    <3>7. \A c \in 1 .. made' \ {connection_'} :
            c \in destroyed' \/ Destroying(pendingFunctors_', c) \/ Destroying(functors', c)
      BY <2>1, <3>2, <3>4 DEF KeptParts
    <3> QED BY <3>6, <3>7 DEF KeptParts
  <2> QED BY <2>2, <2>3
<1>8. CASE HandleClose
  <2> DEFINE f == [op |-> "connectDestroyed", conn |-> connection_]
  <2>1. /\ connection_ \in 1 .. made /\ f \in Functors /\ f.op = "connectDestroyed"
        /\ f.conn = connection_
    <3>1. connection_ \in 1 .. made /\ connection_ \in 1 .. MaxConnections
      BY <1>8, ClientAssumption DEF HandleClose, Handling, Core, Loop, TypeOK
    <3> QED BY <3>1 DEF Functors
  <2>2. /\ pendingFunctors_' = Append(pendingFunctors_, f) /\ connection_' = 0
        /\ UNCHANGED <<functors, made, destroyed>>
    BY <1>8 DEF HandleClose, Handling
  <2> HIDE DEF f
  <2>3. DestroysMade(pendingFunctors_', made) /\ DestroysMade(functors', made)
    BY <1>1, <2>1, <2>2, DestroyingAppend DEF KeptParts
  <2>4. /\ \A c : Destroying(pendingFunctors_, c) => Destroying(pendingFunctors_', c)
        /\ Destroying(pendingFunctors_', connection_)
    BY <1>1, <2>1, <2>2, DestroyingAppend
  <2>5. \A c \in 1 .. made :
          c \in destroyed \/ Destroying(pendingFunctors_', c) \/ Destroying(functors, c)
    BY <2>4 DEF KeptParts
  <2> QED BY <2>2, <2>3, <2>5 DEF KeptParts
<1>9. CASE SwapPending
  <2>1. /\ functors = <<>> /\ functors' = pendingFunctors_ /\ pendingFunctors_' = <<>>
        /\ UNCHANGED <<made, connection_, destroyed>>
    BY <1>9 DEF SwapPending, Core, Loop, clientVars
  <2>2. DestroysMade(<<>>, made) /\ \A c : ~Destroying(<<>>, c)
    BY DEF DestroysMade, Destroying
  <2>3. DestroysMade(pendingFunctors_', made) /\ DestroysMade(functors', made)
    BY <2>1, <2>2 DEF KeptParts
  <2>4. \A c \in 1 .. made \ {connection_} :
          c \in destroyed \/ Destroying(functors', c)
    BY <2>1, <2>2 DEF KeptParts
  <2> QED BY <2>1, <2>3, <2>4 DEF KeptParts
<1>10. CASE RunFunctor
  <2>1. /\ functors # <<>> /\ functors' = Tail(functors)
        /\ UNCHANGED <<pendingFunctors_, made, connection_>>
        /\ \/ Head(functors).op # "connectDestroyed" /\ destroyed' = destroyed
           \/ destroyed' = destroyed \cup {Head(functors).conn}
    BY <1>10 DEF RunFunctor, clientVars
  <2>2. /\ \A c : Destroying(functors, c) =>
              \/ Destroying(Tail(functors), c)
              \/ Head(functors).op = "connectDestroyed" /\ Head(functors).conn = c
        /\ DestroysMade(Tail(functors), made)
    BY <1>1, <2>1, DestroyingTail DEF KeptParts
  <2> QED BY <2>1, <2>2 DEF KeptParts
<1>11. ASSUME NEW t \in Threads, UserStep(t) PROVE KeptParts'
  <2>1. UNCHANGED <<functors, made, connection_, destroyed>>
    BY <1>11 DEF UserStep, CallsConnect, SetsConnect, QueuesStart, CallsDisconnect,
       CallsStop, StopsConnector, ThreadStep, threadUnchanged
  <2>2. CASE QueuesStart(t)
    BY <1>3, <1>4, <2>1, <2>2 DEF QueuesStart
  <2> QED BY <1>2, <1>11, <2>1, <2>2 DEF UserStep, CallsConnect, SetsConnect,
          CallsDisconnect, CallsStop, StopsConnector
<1> QED BY <1>5, <1>6, <1>7, <1>8, <1>9, <1>10, <1>11 DEF Next, LoopStep
-----------------------------------------------------------------------------
\* A client and its Connector begin without an attempt.
LEMMA InitOK == Init => IInv
<1> SUFFICES ASSUME Init PROVE IInv
  OBVIOUS
<1>1. TypeOK
  <2>1. pc \in [Threads -> {"idle", "connect", "start", "stop"}]
    BY DEF Init
  <2>2. pendingFunctors_ \in Seq(Functors) /\ functors \in Seq(Functors)
    BY DEF Init
  <2>3. calls \in 0 .. MaxConnects /\ made \in 0 .. MaxConnections /\ connection_ \in 0 .. made
    BY ClientAssumption DEF Init
  <2> QED BY <2>1, <2>2, <2>3 DEF Init, TypeOK
<1>2. \A op : Count(pendingFunctors_, op) = 0 /\ Queued(op) = 0
  BY CountEmpty DEF Init, Queued
<1>3. Attempts = 0
  BY <1>1, <1>2, AttemptsSum DEF Init, Restarting
<1>4. Callers = {}
  BY DEF Init, Callers
<1>5. AssertsHold /\ Loop /\ States
  BY <1>2 DEF Init, AssertsHold, Loop, States
<1>6. Turn
  BY <1>2, <1>3, <1>4 DEF Init, Turn
<1>7. NeverForgotten
  BY DEF Init, NeverForgotten, Wanted
<1>8. Kept
  BY DEF Init, Kept
<1> QED BY <1>1, <1>5, <1>6, <1>7, <1>8 DEF IInv

\* A client that connects once keeps the invariant.
LEMMA StepOK == MaxConnects <= 1 /\ IInv /\ [Next]_vars => IInv'
<1>1. TypeOK => (IInv <=> Core /\ Kept)
  BY RememberedIsNeverForgotten DEF IInv, Core
<1>2. (TypeOK => (IInv <=> Core /\ Kept))'
  BY <1>1, PTL
<1>3. IInv => TypeOK /\ Core /\ Loop /\ Kept
  BY <1>1 DEF IInv
<1> QED BY <1>2, <1>3, TypesPreserved, CorePreserved, KeptPreserved

\* The invariant of a client that connects once.
THEOREM Invariant == ASSUME MaxConnects <= 1 PROVE Spec => []IInv
BY InitOK, StepOK, PTL DEF Spec

\* The variables keep their types.
THEOREM TypeCorrect == ASSUME MaxConnects <= 1 PROVE Spec => []TypeOK
<1>1. IInv => TypeOK
  BY DEF IInv
<1> QED BY <1>1, Invariant, PTL

\* The asserts of TcpClient and Connector hold, however stop(), disconnect(),
\* failures and reconnections fall (Connector.cc:30, 92, 130).
THEOREM AssertsHoldCorrect == ASSUME MaxConnects <= 1 PROVE Spec => []AssertsHold
<1>1. IInv => AssertsHold
  BY DEF IInv
<1> QED BY <1>1, Invariant, PTL

\* The Connector never pursues two attempts, nor one beside a connection
\* (Connector.cc:25, 82, 151, TcpClient.cc:101-106).
THEOREM OneAttemptCorrect == ASSUME MaxConnects <= 1 PROVE Spec => []OneAttempt
<1>1. IInv => OneAttempt
  BY DEF IInv, Turn, OneAttempt
<1> QED BY <1>1, Invariant, PTL

\* A client that wants a connection is on the way to one (Connector.cc:38-83,
\* 144-157).
THEOREM NeverForgottenCorrect ==
  ASSUME MaxConnects <= 1 PROVE Spec => []NeverForgotten
<1>1. IInv => NeverForgotten
  BY DEF IInv
<1> QED BY <1>1, Invariant, PTL

\* Every connection made is kept, destroyed or about to be, and the Connector's
\* state_ agrees with what it has (TcpClient.cc:86, 94-100, Connector.cc:91-103).
THEOREM ConnectionsKeptCorrect ==
  ASSUME MaxConnects <= 1 PROVE Spec => []ConnectionsKept
<1>1. IInv => ConnectionsKept
  <2> SUFFICES ASSUME IInv PROVE ConnectionsKept
    OBVIOUS
  <2>1. \A c \in 1 .. made \ {connection_} :
          \/ c \in destroyed
          \/ \E q \in {pendingFunctors_, functors} : \E i \in DOMAIN q :
               q[i].op = "connectDestroyed" /\ q[i].conn = c
    BY DEF IInv, Kept, Destroying
  <2> QED BY <2>1 DEF IInv, States, ConnectionsKept
<1> QED BY <1>1, Invariant, PTL
=============================================================================
