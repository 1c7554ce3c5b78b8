------------------------- MODULE TcpConnectionProofs -------------------------
(***************************************************************************)
(* What is proved of TcpConnection for any threads and messages: the       *)
(* stream is intact, writing is enabled exactly while bytes wait, no       *)
(* assert on the state fails, the end of the connection is orderly, and    *)
(* what the loop sends goes before its FIN.                                *)
(***************************************************************************)
EXTENDS TcpConnection, SequenceTheorems, TLAPS

\* Functors by what they call; at most one of a kind.
Has(q, op) == \E i \in DOMAIN q : q[i].op = op
AtMostOne(q, op) ==
  \A i, j \in DOMAIN q : q[i].op = op /\ q[j].op = op => i = j

\* The functors of the I/O loop that have not run, in their order.
Queue == functors \o pendingFunctors_
Queued(op) == Has(Queue, op)

\* Until connectEstablished has run nothing but its functor knows the connection.
Unborn ==
  /\ channel = "new" /\ events_ = {} /\ outputBuffer_ = <<>>
  /\ holds = {} /\ ~inCallback /\ closers = {}
  /\ Queue = <<Call("connectEstablished")>>
Born == channel # "new" /\ ~Queued("connectEstablished")
Birth == IF state_ = "kConnecting" THEN Unborn ELSE Born

\* Where the I/O loop is, and what it can still meet there.
Phase ==
  /\ at = "events" => functors = <<>>
  /\ at = "functors" => active = {}
  /\ "in" \in active => channel = "polled"

\* The way from the map to connectDestroyed, one step after the other: one
\* removal in the base loop, then one connectDestroyed in the I/O loop.
OneDestroy == AtMostOne(Queue, "connectDestroyed")
End ==
  /\ state_ = "kDisconnected" => channel = "removed"
  /\ channel \in {"ignored", "removed"} => peer # "open"
  /\ channel \in {"new", "polled"} => inMap /\ baseFunctors = 0
  /\ baseFunctors > 0 => baseFunctors = 1 /\ inMap
  /\ channel = "removed" => ~inMap
  /\ Queued("connectDestroyed") => ~inMap /\ channel = "ignored"
  /\ OneDestroy

\* Who shuts the connection down is on record before the FIN.
Closing ==
  /\ \A t \in Threads : pc[t] # "idle" => t \in holds
  /\ closers # {} => state_ \in {"kDisconnecting", "kDisconnected"}
  /\ state_ = "kDisconnecting" \/ fin => closers # {}
  /\ Queued("shutdownInLoop") \/ (\E t \in Threads : pc[t] = "shutting")
       => closers \cap Threads # {}

\* What the loop's callbacks have sent was taken by sendInLoop.
LoopSendsTaken ==
  \A m \in Messages : sender[m] = "loop" =>
    {<<m, 1>>, <<m, 2>>} \subseteq Range(accepted)

IInv ==
  /\ TypeOK /\ stopped \notin {"state", "erase"}
  /\ Birth /\ Phase /\ End /\ Closing
  /\ StreamInOrder /\ WritingIffPending /\ LoopSendsTaken /\ SentBeforeFin
-----------------------------------------------------------------------------
\* The functors that are queued.
LEMMA CallTypes ==
  /\ Call("connectDestroyed") \in Calls /\ Call("writeComplete") \in Calls
  /\ Call("shutdownInLoop") \in Calls
  /\ \A m \in Messages : [op |-> "sendInLoop", message |-> m] \in Calls
BY DEF Call, Calls, Owning

\* The two bytes of a message.
LEMMA ByteTypes ==
  ASSUME NEW m \in Messages
  PROVE  Bytes(m) \in Seq(AllBytes) /\ Len(Bytes(m)) = 2
<1>1. <<m, 1>> \in AllBytes /\ <<m, 2>> \in AllBytes
  BY SMTT(60) DEF AllBytes
<1> QED BY <1>1 DEF Bytes

\* The two parts of a sequence of bytes that write() has split.
LEMMA SplitTypes ==
  ASSUME NEW S, NEW s \in Seq(S), NEW n \in 0 .. Len(s)
  PROVE  /\ SubSeq(s, 1, n) \in Seq(S) /\ SubSeq(s, n + 1, Len(s)) \in Seq(S)
         /\ SubSeq(s, 1, n) \o SubSeq(s, n + 1, Len(s)) = s
<1>1. Len(s) \in Nat /\ \A i \in 1 .. Len(s) : s[i] \in S
  OBVIOUS
<1>2. SubSeq(s, 1, n) \in Seq(S) /\ SubSeq(s, n + 1, Len(s)) \in Seq(S)
  BY <1>1, SubSeqProperties
<1>3. SubSeq(s, 1, n) \o SubSeq(s, n + 1, Len(s)) = SubSeq(s, 1, Len(s))
  <2>1. 1 \in 1 .. Len(s) + 1 /\ n \in 1 - 1 .. Len(s) /\ Len(s) \in n .. Len(s)
    BY <1>1
  <2> QED BY <2>1, ConcatAdjacentSubSeq
<1>4. SubSeq(s, 1, Len(s)) = s
  BY SubSeqFull
<1> QED BY <1>2, <1>3, <1>4

\* sendInLoop keeps the types.
LEMMA SendInLoopTypes ==
  ASSUME TypeOK, NEW m \in Messages, NEW q \in Seq(Calls), SendInLoop(m, q)
  PROVE  /\ state_' \in States /\ channel' \in Channels
         /\ events_' \subseteq {"read", "write"}
         /\ outputBuffer_' \in Seq(AllBytes) /\ wire' \in Seq(AllBytes)
         /\ fin' \in BOOLEAN /\ pendingFunctors_' \in Seq(Calls)
         /\ accepted' \in Seq(AllBytes) /\ closers' \subseteq Threads \cup {"loop"}
         /\ stopped' \in {"no", "state", "erase", "poller", "freed"}
<1> USE DEF TypeOK
<1>1. Bytes(m) \in Seq(AllBytes) /\ Len(Bytes(m)) = 2
  BY ByteTypes
<1>2. PICK n \in Accepts(Bytes(m)) :
        /\ wire' = wire \o SubSeq(Bytes(m), 1, n)
        /\ outputBuffer_' = outputBuffer_ \o SubSeq(Bytes(m), n + 1, 2)
  BY DEF SendInLoop
<1>3. n \in 0 .. 2
  BY <1>1 DEF Accepts
<1>4. /\ SubSeq(Bytes(m), 1, n) \in Seq(AllBytes)
      /\ SubSeq(Bytes(m), n + 1, 2) \in Seq(AllBytes)
  BY <1>1, <1>3, SplitTypes
<1>5. wire' \in Seq(AllBytes) /\ outputBuffer_' \in Seq(AllBytes)
  BY <1>2, <1>4
<1>6. pendingFunctors_' \in Seq(Calls)
  BY CallTypes DEF SendInLoop
<1>7. accepted' \in Seq(AllBytes)
  BY <1>1 DEF SendInLoop
<1> QED BY <1>5, <1>6, <1>7 DEF SendInLoop

\* TypeOK in three parts: the connection and the kernel, the two loops, the users.
ConnTypes ==
  /\ state_ \in States /\ channel \in Channels
  /\ events_ \subseteq {"read", "write"}
  /\ outputBuffer_ \in Seq(AllBytes) /\ wire \in Seq(AllBytes)
  /\ fin \in BOOLEAN /\ peer \in {"open", "closed", "reset"}
LoopTypes ==
  /\ at \in {"events", "functors"} /\ active \subseteq {"in", "out"}
  /\ pendingFunctors_ \in Seq(Calls) /\ functors \in Seq(Calls)
  /\ retained \in BOOLEAN /\ inCallback \in BOOLEAN
  /\ baseFunctors \in Nat /\ inMap \in BOOLEAN
  /\ stopped \in {"no", "state", "erase", "poller", "freed"}
UserTypes ==
  /\ pc \in [Threads -> {"idle", "send", "shutdown", "shutting"}]
  /\ holds \subseteq Threads
  /\ sender \in [Messages -> Threads \cup {"loop", Nobody}]
  /\ accepted \in Seq(AllBytes) /\ closers \subseteq Threads \cup {"loop"}

\* The state of the connection, the loops and the threads keeps its types.
LEMMA TypesPreserved == TypeOK /\ [Next]_vars => TypeOK'
<1> SUFFICES ASSUME TypeOK, [Next]_vars PROVE TypeOK'
  OBVIOUS
<1>a. (ConnTypes /\ LoopTypes /\ UserTypes)' => TypeOK'
  BY DEF TypeOK, ConnTypes, LoopTypes, UserTypes
<1> USE DEF TypeOK, States, Channels, ConnTypes, LoopTypes, UserTypes
<1>0. CASE UNCHANGED vars
  BY <1>0 DEF vars, connVars, kernelVars, loopVars, serverVars, userVars, history
<1>1. CASE RunFunctor
  <2> DEFINE f == Head(functors)
  <2>1. /\ functors # <<>> /\ functors' = Tail(functors) /\ f \in Calls
        /\ UNCHANGED <<peer, at, active>>
    BY <1>1 DEF RunFunctor
  <2>2. functors' \in Seq(Calls) /\ retained' \in BOOLEAN
    <3>1. retained' = (retained \/ Head(functors).op \in Owning)
      BY <1>1 DEF RunFunctor
    <3>2. retained' \in BOOLEAN
      BY <3>1, Zenon
    <3> QED BY <2>1, <3>2
  <2>3. CASE Fail("freed") /\ UNCHANGED <<pendingFunctors_, accepted, closers>>
    BY <2>1, <2>2, <2>3 DEF Fail, connVars, kernelVars, serverVars, userVars
  <2>4. CASE ConnectEstablished /\ UNCHANGED <<pendingFunctors_, accepted, closers>>
    BY <2>1, <2>2, <2>4, ZenonT(60) DEF ConnectEstablished, Fail, connVars, kernelVars,
       serverVars, userVars
  <2>5. CASE ConnectDestroyed /\ UNCHANGED <<pendingFunctors_, accepted, closers>>
    <3>1. ConnTypes'
      BY <2>1, <2>5 DEF ConnectDestroyed, Fail, connVars, kernelVars
    <3>2. LoopTypes'
      BY <2>1, <2>2, <2>5 DEF ConnectDestroyed, Fail, serverVars
    <3>3. UserTypes'
      BY <2>5 DEF ConnectDestroyed, Fail, userVars
    <3> QED BY <1>a, <3>1, <3>2, <3>3
  <2>6. CASE /\ inCallback' = TRUE
             /\ UNCHANGED <<connVars, kernelVars, pendingFunctors_, serverVars,
                            userVars, history, stopped>>
    BY <2>1, <2>2, <2>6 DEF connVars, kernelVars, serverVars, userVars, history
  <2>7. CASE /\ f.op = "sendInLoop" /\ SendInLoop(f.message, pendingFunctors_)
             /\ UNCHANGED <<inCallback, serverVars, userVars, sender>>
    <3>1. f.message \in Messages
      BY <2>1, <2>7 DEF Calls, Owning
    <3>2. pendingFunctors_ \in Seq(Calls)
      OBVIOUS
    <3> QED BY <2>1, <2>2, <2>7, <3>1, <3>2, SendInLoopTypes DEF serverVars, userVars
  <2>8. CASE /\ ShutdownInLoop
             /\ UNCHANGED <<wire, connVars, pendingFunctors_, inCallback,
                            serverVars, userVars, history, stopped>>
    BY <2>1, <2>2, <2>8 DEF ShutdownInLoop, connVars, serverVars, userVars,
       history, isWriting
  <2> QED BY <1>1, <2>3, <2>4, <2>5, <2>6, <2>7, <2>8 DEF RunFunctor
<1>2. CASE Poll \/ HandleMessage \/ HandleReadError
  <2>1. ConnTypes'
    BY <1>2 DEF Poll, HandleMessage, HandleReadError, connVars, kernelVars,
       serverVars, userVars, history
  <2>2. LoopTypes'
    BY <1>2 DEF Poll, HandleMessage, HandleReadError, connVars, kernelVars,
       serverVars, userVars, history
  <2>3. UserTypes'
    BY <1>2 DEF Poll, HandleMessage, HandleReadError, connVars, kernelVars,
       serverVars, userVars, history
  <2> QED BY <1>a, <2>1, <2>2, <2>3
<1>9. CASE SwapPending \/ CallbackReturns \/ PeerCloses
  <2>1. ConnTypes'
    BY <1>9 DEF SwapPending, CallbackReturns, PeerCloses, connVars, kernelVars
  <2>2. LoopTypes'
    <3>1. CASE SwapPending BY <3>1 DEF SwapPending, serverVars
    <3>2. CASE CallbackReturns BY <3>2 DEF CallbackReturns, serverVars
    <3>3. CASE PeerCloses BY <3>3 DEF PeerCloses, loopVars, serverVars
    <3> QED BY <1>9, <3>1, <3>2, <3>3
  <2>3. UserTypes'
    BY <1>9 DEF SwapPending, CallbackReturns, PeerCloses, userVars, history
  <2> QED BY <1>a, <2>1, <2>2, <2>3
<1>3. CASE HandleClose
  <2>1. ConnTypes'
    BY <1>3 DEF HandleClose, Fail, connVars, kernelVars, serverVars, userVars
  <2>2. LoopTypes'
    BY <1>3 DEF HandleClose, Fail, connVars, kernelVars, serverVars, userVars
  <2>3. UserTypes'
    BY <1>3 DEF HandleClose, Fail, connVars, kernelVars, serverVars, userVars
  <2> QED BY <1>a, <2>1, <2>2, <2>3
<1>4. CASE HandleWrite
  <2>1. CASE ~isWriting
    BY <1>4, <2>1, ZenonT(60) DEF HandleWrite, connVars, kernelVars, serverVars, userVars,
       history
  <2>2. CASE isWriting
    <3>1. PICK n \in Accepts(outputBuffer_) :
            /\ wire' = wire \o SubSeq(outputBuffer_, 1, n)
            /\ outputBuffer_' = SubSeq(outputBuffer_, n + 1, Len(outputBuffer_))
      BY <1>4, <2>2 DEF HandleWrite
    <3>2. n \in 0 .. Len(outputBuffer_)
      BY DEF Accepts
    <3>3. wire' \in Seq(AllBytes) /\ outputBuffer_' \in Seq(AllBytes)
      BY <3>1, <3>2, SplitTypes
    <3>4. pendingFunctors_' \in Seq(Calls)
      <4>1. Append(pendingFunctors_, Call("writeComplete")) \in Seq(Calls)
        BY CallTypes
      <4>2. \/ pendingFunctors_' = pendingFunctors_
            \/ pendingFunctors_' = Append(pendingFunctors_, Call("writeComplete"))
        BY <1>4, <2>2 DEF HandleWrite
      <4> QED BY <4>1, <4>2
    <3> QED BY <1>4, <2>2, <3>3, <3>4 DEF HandleWrite, serverVars, userVars, history
  <2> QED BY <2>1, <2>2
<1>5. CASE RemoveConnectionInLoop
  <2>1. ConnTypes'
    BY <1>5 DEF RemoveConnectionInLoop, Fail, connVars, kernelVars
  <2>2. LoopTypes'
    <3>1. CASE inMap
      <4>1. pendingFunctors_' = Append(pendingFunctors_, Call("connectDestroyed"))
        BY <1>5, <3>1 DEF RemoveConnectionInLoop
      <4>2. pendingFunctors_' \in Seq(Calls)
        BY <4>1, CallTypes
      <4>3. /\ baseFunctors' \in Nat /\ inMap' = FALSE
            /\ UNCHANGED <<at, active, functors, retained, inCallback, stopped>>
        BY <1>5, <3>1 DEF RemoveConnectionInLoop
      <4> QED BY <4>2, <4>3
    <3>2. CASE ~inMap
      BY <1>5, <3>2 DEF RemoveConnectionInLoop, Fail, serverVars
    <3> QED BY <3>1, <3>2
  <2>3. UserTypes'
    BY <1>5 DEF RemoveConnectionInLoop, Fail, userVars
  <2> QED BY <1>a, <2>1, <2>2, <2>3
<1>6. CASE CallbackShutsDown
  BY <1>6 DEF CallbackShutsDown, ShutdownInLoop, isWriting, loopVars, serverVars,
     userVars
<1>7. ASSUME NEW m \in Messages, CallbackSends(m) PROVE TypeOK'
  <2>1. sender' \in [Messages -> Threads \cup {"loop", Nobody}]
    BY <1>7 DEF CallbackSends
  <2> QED BY <1>7, <2>1, SendInLoopTypes DEF CallbackSends, serverVars, userVars
<1>8. ASSUME NEW t \in Threads, ThreadStep(t) PROVE TypeOK'
  <2> USE DEF threadUnchanged, kernelVars, serverVars
  <2>1. ASSUME NEW op \in {"send", "shutdown"}, ThreadCalls(t, op) PROVE TypeOK'
    BY <2>1 DEF ThreadCalls
  <2>2. ASSUME NEW m \in Messages, ThreadQueuesSend(t, m) PROVE TypeOK'
    BY <2>2, CallTypes DEF ThreadQueuesSend
  <2>3. CASE ThreadSetsState(t) BY <2>3 DEF ThreadSetsState
  <2>4. CASE ThreadQueuesShutdown(t) BY <2>4, CallTypes DEF ThreadQueuesShutdown
  <2>5. CASE ThreadReleases(t) BY <2>5 DEF ThreadReleases
  <2> QED BY <1>8, <2>1, <2>2, <2>3, <2>4, <2>5 DEF ThreadStep
<1> QED BY <1>0, <1>1, <1>2, <1>3, <1>4, <1>5, <1>6, <1>7, <1>8,
         <1>9 DEF Next, LoopStep
-----------------------------------------------------------------------------
\* push_back on the second of two vectors that follow one another.
LEMMA AppendConcat ==
  ASSUME NEW S, NEW s \in Seq(S), NEW t \in Seq(S), NEW e \in S
  PROVE  s \o Append(t, e) = Append(s \o t, e)
<1>1. <<e>> \in Seq(S) /\ s \o t \in Seq(S)
  OBVIOUS
<1>2. Append(t, e) = t \o <<e>> /\ Append(s \o t, e) = (s \o t) \o <<e>>
  BY <1>1, AppendIsConcat
<1> QED BY <1>1, <1>2, ConcatAssociative

\* Taking the head of two vectors that follow one another takes that of the first.
LEMMA HeadTailConcat ==
  ASSUME NEW S, NEW s \in Seq(S), NEW t \in Seq(S), s # <<>>
  PROVE  /\ s \o t # <<>>
         /\ Head(s \o t) = Head(s)
         /\ Tail(s \o t) = Tail(s) \o t
<1>1. /\ Len(s) \in Nat \ {0} /\ Len(t) \in Nat
      /\ Tail(s) \in Seq(S) /\ s \o t \in Seq(S)
      /\ Len(s \o t) = Len(s) + Len(t)
  OBVIOUS
<1>2. s \o t # <<>> /\ Head(s \o t) = Head(s)
  BY <1>1
<1>3. Tail(s \o t) \in Seq(S) /\ Tail(s) \o t \in Seq(S)
  BY <1>1, <1>2
<1>4. Len(Tail(s \o t)) = Len(Tail(s) \o t)
  BY <1>1, <1>2
<1>5. \A i \in 1 .. Len(Tail(s \o t)) : Tail(s \o t)[i] = (Tail(s) \o t)[i]
  BY <1>1, <1>2
<1>6. Tail(s \o t) = Tail(s) \o t
  BY <1>3, <1>4, <1>5, SeqEqual
<1> QED BY <1>2, <1>6

\* What a queue has after push_back.
LEMMA HasAppend ==
  ASSUME NEW q \in Seq(Calls), NEW f \in Calls
  PROVE  /\ \A op : Has(Append(q, f), op) <=> Has(q, op) \/ f.op = op
         /\ \A op : AtMostOne(q, op) /\ ~(Has(q, op) /\ f.op = op)
                      => AtMostOne(Append(q, f), op)
<1>1. /\ DOMAIN q = 1 .. Len(q) /\ Len(q) \in Nat
      /\ DOMAIN Append(q, f) = 1 .. Len(q) + 1
      /\ \A i \in 1 .. Len(q) : Append(q, f)[i] = q[i]
      /\ Append(q, f)[Len(q) + 1] = f
  BY AppendProperties, LenProperties
<1> QED BY <1>1 DEF Has, AtMostOne

\* What a queue has once its first functor is taken.
LEMMA HasTail ==
  ASSUME NEW q \in Seq(Calls), q # <<>>
  PROVE  /\ Has(q, Head(q).op)
         /\ \A op : Has(Tail(q), op) => Has(q, op)
         /\ \A op : AtMostOne(q, op) => AtMostOne(Tail(q), op)
         /\ AtMostOne(q, Head(q).op) => ~Has(Tail(q), Head(q).op)
<1>1. /\ DOMAIN q = 1 .. Len(q) /\ Len(q) \in Nat \ {0}
      /\ DOMAIN Tail(q) = 1 .. Len(q) - 1
      /\ \A i \in 1 .. Len(q) - 1 : Tail(q)[i] = q[i + 1]
      /\ Head(q) = q[1]
  BY HeadTailProperties, LenProperties
<1> QED BY <1>1 DEF Has, AtMostOne

\* The queue of the I/O loop after queueInLoop.
LEMMA Pushed ==
  ASSUME TypeOK, NEW f \in Calls,
         functors' = functors, pendingFunctors_' = Append(pendingFunctors_, f)
  PROVE  /\ Queue' = Append(Queue, f)
         /\ \A op : Queued(op)' <=> Queued(op) \/ f.op = op
         /\ OneDestroy /\ ~(Queued("connectDestroyed") /\ f.op = "connectDestroyed")
              => OneDestroy'
<1>1. functors \in Seq(Calls) /\ pendingFunctors_ \in Seq(Calls)
  BY DEF TypeOK
<1>2. Queue' = Append(Queue, f) /\ Queue \in Seq(Calls)
  BY <1>1, AppendConcat DEF Queue
<1> QED BY <1>2, HasAppend DEF Queued, OneDestroy

\* The queue of the loop without the functor RunFunctor takes.
LEMMA Popped ==
  ASSUME TypeOK, functors # <<>>, functors' = Tail(functors)
  PROVE  LET f == Head(functors)
             rest == functors' \o pendingFunctors_
         IN  /\ f \in Calls /\ rest = Tail(Queue) /\ rest \in Seq(Calls)
             /\ Queue # <<>> /\ Head(Queue) = f
             /\ Queued(f.op)
             /\ \A op : Has(rest, op) => Queued(op)
             /\ OneDestroy => AtMostOne(rest, "connectDestroyed")
             /\ OneDestroy /\ f.op = "connectDestroyed"
                  => ~Has(rest, "connectDestroyed")
<1>1. functors \in Seq(Calls) /\ pendingFunctors_ \in Seq(Calls)
  BY DEF TypeOK
<1>2. Queue \in Seq(Calls) /\ Head(functors) \in Calls
  BY <1>1 DEF Queue
<1>3. /\ functors' \o pendingFunctors_ = Tail(Queue)
      /\ Queue # <<>> /\ Head(Queue) = Head(functors)
  BY <1>1, HeadTailConcat DEF Queue
<1>4. Tail(Queue) \in Seq(Calls)
  BY <1>2, <1>3
<1>5. /\ Has(Queue, Head(Queue).op)
      /\ \A op : Has(Tail(Queue), op) => Has(Queue, op)
      /\ \A op : AtMostOne(Queue, op) => AtMostOne(Tail(Queue), op)
      /\ AtMostOne(Queue, Head(Queue).op) => ~Has(Tail(Queue), Head(Queue).op)
  BY <1>2, <1>3, HasTail
<1> QED BY <1>2, <1>3, <1>4, <1>5, Zenon DEF Queued, OneDestroy

\* functors.swap(pendingFunctors_) leaves the order of the functors alone.
LEMMA Swapped ==
  ASSUME TypeOK, functors = <<>>, functors' = pendingFunctors_,
         pendingFunctors_' = <<>>
  PROVE  Queue' = Queue
<1>1. pendingFunctors_ \in Seq(Calls)
  BY DEF TypeOK
<1> QED BY <1>1, ConcatEmptySeq DEF Queue

\* The functor a step of RunFunctor takes, and what it leaves of the queue.
LEMMA FunctorRuns ==
  ASSUME TypeOK, RunFunctor
  PROVE  LET f == Head(functors)
         IN  /\ at = "functors" /\ ~inCallback
             /\ f \in Calls /\ Queued(f.op)
             /\ \A op : Queued(op)' => Queued(op) \/ op = "writeComplete"
             /\ OneDestroy => OneDestroy'
             /\ OneDestroy /\ f.op = "connectDestroyed"
                  => ~Queued("connectDestroyed")'
             /\ Queue = <<f>> /\ f.op # "sendInLoop" => Queue' = <<>>
<1> DEFINE f == Head(functors)
           rest == functors' \o pendingFunctors_
<1>1. /\ at = "functors" /\ ~inCallback
      /\ functors # <<>> /\ functors' = Tail(functors)
  BY DEF RunFunctor
<1>2. /\ f \in Calls /\ rest = Tail(Queue) /\ rest \in Seq(Calls)
      /\ Queued(f.op)
      /\ \A op : Has(rest, op) => Queued(op)
      /\ OneDestroy => AtMostOne(rest, "connectDestroyed")
      /\ OneDestroy /\ f.op = "connectDestroyed" => ~Has(rest, "connectDestroyed")
  BY <1>1, Popped
<1>3. CASE pendingFunctors_' = pendingFunctors_
  <2>1. Queue' = rest
    BY <1>3 DEF Queue
  <2>2. Queue = <<f>> => Queue' = <<>>
    BY <1>2, <2>1
  <2> QED BY <1>1, <1>2, <2>1, <2>2 DEF Queued, OneDestroy
<1>4. CASE /\ f.op = "sendInLoop"
           /\ pendingFunctors_' = Append(pendingFunctors_, Call("writeComplete"))
  <2>1. functors' \in Seq(Calls) /\ pendingFunctors_ \in Seq(Calls)
    BY <1>1 DEF TypeOK
  <2>2. Queue' = Append(rest, Call("writeComplete"))
    BY <1>4, <2>1, CallTypes, AppendConcat DEF Queue
  <2>3. /\ \A op : Has(Queue', op) <=> Has(rest, op) \/ op = "writeComplete"
        /\ AtMostOne(rest, "connectDestroyed")
             => AtMostOne(Queue', "connectDestroyed")
    BY <1>2, <2>2, HasAppend, CallTypes DEF Call
  <2> QED BY <1>1, <1>2, <1>4, <2>3 DEF Queued, OneDestroy
<1>5. \/ pendingFunctors_' = pendingFunctors_
      \/ /\ f.op = "sendInLoop"
         /\ pendingFunctors_' = Append(pendingFunctors_, Call("writeComplete"))
  BY DEF RunFunctor, SendInLoop, history
<1> QED BY <1>3, <1>4, <1>5

\* The I/O loop handles events or runs functors, and reads only while polled.
LEMMA PhasePreserved == TypeOK /\ Phase /\ [Next]_vars => Phase'
<1> SUFFICES ASSUME TypeOK, Phase, [Next]_vars PROVE Phase'
  OBVIOUS
<1> USE DEF Phase
<1>1. CASE RunFunctor
  BY <1>1 DEF RunFunctor
<1>2. CASE Poll
  BY <1>2 DEF Poll, connVars
<1>3. CASE HandleMessage \/ HandleReadError \/ HandleClose \/ HandleWrite
  BY <1>3 DEF HandleMessage, HandleReadError, HandleClose, HandleWrite, connVars,
     Fail
<1>4. CASE SwapPending
  BY <1>4 DEF SwapPending
<1>5. CASE UNCHANGED <<at, functors, active, channel>>
  BY <1>5
<1>6. CASE CallbackReturns \/ RemoveConnectionInLoop \/ PeerCloses
  BY <1>5, <1>6 DEF CallbackReturns, RemoveConnectionInLoop, PeerCloses, connVars,
     loopVars, Fail
<1>7. CASE CallbackShutsDown \/ \E m \in Messages : CallbackSends(m)
  BY <1>5, <1>7 DEF CallbackShutsDown, CallbackSends, SendInLoop, connVars, loopVars
<1>8. ASSUME NEW t \in Threads, ThreadStep(t) PROVE Phase'
  BY <1>5, <1>8 DEF ThreadStep, ThreadCalls, ThreadQueuesSend, ThreadSetsState,
     ThreadQueuesShutdown, ThreadReleases, threadUnchanged
<1>9. CASE UNCHANGED vars
  BY <1>5, <1>9 DEF vars, connVars, loopVars
<1> QED BY <1>1, <1>2, <1>3, <1>4, <1>6, <1>7, <1>8, <1>9 DEF Next, LoopStep

\* The queue is left alone, or a writeComplete joins it.
LEMMA QueueStays ==
  ASSUME Queue' = Queue
  PROVE  /\ \A op : Queued(op)' <=> Queued(op)
         /\ OneDestroy' <=> OneDestroy
BY DEF Queued, OneDestroy

\* Handlers that queue nothing leave the queue alone.
LEMMA QueueQuiet ==
  ASSUME TypeOK, Phase,
         \/ Poll \/ HandleMessage \/ HandleReadError \/ HandleClose
         \/ SwapPending \/ CallbackReturns \/ CallbackShutsDown \/ PeerCloses
  PROVE  Queue' = Queue
<1>1. CASE SwapPending
  BY <1>1, Swapped DEF SwapPending, Phase
<1>2. ASSUME ~SwapPending PROVE UNCHANGED <<functors, pendingFunctors_>>
  BY <1>2 DEF Poll, HandleMessage, HandleReadError, HandleClose, CallbackReturns,
     CallbackShutsDown, PeerCloses, loopVars
<1> QED BY <1>1, <1>2 DEF Queue

\* handleWrite and a send from a callback queue at most a writeComplete.
LEMMA QueueWrites ==
  ASSUME TypeOK, HandleWrite \/ \E m \in Messages : CallbackSends(m)
  PROVE  /\ \A op : Queued(op)' => Queued(op) \/ op = "writeComplete"
         /\ OneDestroy => OneDestroy'
<1>1. CASE /\ functors' = functors
           /\ pendingFunctors_' = Append(pendingFunctors_, Call("writeComplete"))
  BY <1>1, CallTypes, Pushed DEF Call
<1>2. CASE UNCHANGED <<functors, pendingFunctors_>>
  BY <1>2, QueueStays DEF Queue
<1>3. /\ functors' = functors
      /\ \/ pendingFunctors_' = pendingFunctors_
         \/ pendingFunctors_' = Append(pendingFunctors_, Call("writeComplete"))
  BY DEF HandleWrite, CallbackSends, SendInLoop
<1> QED BY <1>1, <1>2, <1>3

\* Nothing happens to a connection before connectEstablished, nor does that run
\* again.
LEMMA BirthPreserved ==
  TypeOK /\ Phase /\ Birth /\ End /\ Closing /\ [Next]_vars => Birth'
<1> SUFFICES ASSUME TypeOK, Phase, Birth, End, Closing, [Next]_vars PROVE Birth'
  OBVIOUS
<1> USE DEF Birth, Unborn, Born
<1>1. CASE RunFunctor
  <2> DEFINE f == Head(functors)
  <2>1. /\ f \in Calls /\ Queued(f.op)
        /\ \A op : Queued(op)' => Queued(op) \/ op = "writeComplete"
    BY <1>1, FunctorRuns
  <2>2. CASE state_ = "kConnecting"
    <3>1. Queue = <<f>> /\ f.op = "connectEstablished" /\ Queue' = <<>>
      <4>1. Head(Queue) = f /\ Queue = <<Call("connectEstablished")>>
        BY <1>1, <2>2, Popped DEF RunFunctor
      <4>2. Queue = <<f>> /\ f.op = "connectEstablished"
        BY <4>1 DEF Call
      <4> QED BY <1>1, <4>2, FunctorRuns
    <3>2. ~Queued("connectEstablished")'
      BY <3>1 DEF Queued, Has
    <3>3. ConnectEstablished
      BY <1>1, <3>1 DEF RunFunctor, Owning
    <3> QED BY <2>2, <3>2, <3>3 DEF ConnectEstablished
  <2>3. CASE state_ # "kConnecting"
    <3>1. f.op # "connectEstablished" /\ ~Queued("connectEstablished")'
      BY <2>1, <2>3
    <3>2. state_' # "kConnecting" /\ channel' # "new"
      BY <1>1, <2>3, <3>1 DEF RunFunctor, Fail, ConnectDestroyed, SendInLoop, connVars
    <3> QED BY <3>1, <3>2
  <2> QED BY <2>2, <2>3
<1>2. CASE \/ Poll \/ HandleMessage \/ HandleReadError \/ SwapPending \/ PeerCloses
           \/ CallbackReturns
  <2>1. Queue' = Queue
    BY <1>2, QueueQuiet
  <2>2. UNCHANGED <<state_, channel, events_, outputBuffer_, holds, closers>>
    BY <1>2 DEF Poll, HandleMessage, HandleReadError, SwapPending, PeerCloses,
       CallbackReturns, connVars, userVars, history
  <2>3. state_ = "kConnecting" => ~inCallback'
    BY <1>2 DEF Poll, HandleMessage, HandleReadError, SwapPending, PeerCloses,
       CallbackReturns, loopVars, Phase
  <2>4. \A op : Queued(op)' <=> Queued(op)
    BY <2>1, QueueStays
  <2> QED BY <2>1, <2>2, <2>3, <2>4
<1>3. CASE HandleClose
  BY <1>3, QueueQuiet, QueueStays DEF HandleClose, Phase, Fail, connVars
<1>4. CASE HandleWrite
  <2>1. CASE isWriting
    BY <1>4, <2>1, QueueWrites DEF HandleWrite, isWriting
  <2>2. CASE ~isWriting
    <3>1. Queue' = Queue BY <1>4, <2>2 DEF HandleWrite, Queue
    <3> QED BY <1>4, <2>2, <3>1, QueueStays DEF HandleWrite, connVars, userVars,
            history
  <2> QED BY <2>1, <2>2
<1>5. CASE RemoveConnectionInLoop
  <2>1. state_ # "kConnecting"
    BY <1>5 DEF RemoveConnectionInLoop, End
  <2>2. CASE pendingFunctors_' = Append(pendingFunctors_, Call("connectDestroyed"))
    BY <1>5, <2>1, <2>2, Pushed, CallTypes DEF RemoveConnectionInLoop, Fail,
       connVars, Call
  <2>3. CASE UNCHANGED pendingFunctors_
    BY <1>5, <2>1, <2>3, QueueStays DEF RemoveConnectionInLoop, Fail, connVars, Queue
  <2> QED BY <1>5, <2>2, <2>3 DEF RemoveConnectionInLoop
<1>6. CASE CallbackShutsDown
  BY <1>6, QueueQuiet, QueueStays DEF CallbackShutsDown
<1>7. ASSUME NEW m \in Messages, CallbackSends(m) PROVE Birth'
  BY <1>7, QueueWrites DEF CallbackSends, SendInLoop
<1>8. ASSUME NEW t \in Threads, ThreadStep(t) PROVE Birth'
  <2> USE DEF threadUnchanged, kernelVars
  <2>1. state_ # "kConnecting" /\ channel' = channel /\ state_' # "kConnecting"
    BY <1>8 DEF ThreadStep, ThreadCalls, ThreadQueuesSend, ThreadSetsState,
       ThreadQueuesShutdown, ThreadReleases, Closing
  <2>2. ASSUME NEW m \in Messages, ThreadQueuesSend(t, m) PROVE Birth'
    BY <2>1, <2>2, Pushed, CallTypes DEF ThreadQueuesSend
  <2>3. CASE ThreadQueuesShutdown(t)
    BY <2>1, <2>3, Pushed, CallTypes DEF ThreadQueuesShutdown, Call
  <2>4. ASSUME UNCHANGED <<functors, pendingFunctors_>> PROVE Birth'
    BY <2>1, <2>4, QueueStays DEF Queue
  <2> QED BY <1>8, <2>2, <2>3, <2>4 DEF ThreadStep, ThreadCalls, ThreadSetsState,
          ThreadReleases
<1>9. CASE UNCHANGED vars
  BY <1>9, QueueStays DEF vars, connVars, loopVars, userVars, history, Queue
<1> QED BY <1>1, <1>2, <1>3, <1>4, <1>5, <1>6, <1>7, <1>8, <1>9 DEF Next, LoopStep

\* The I/O loop and its callbacks queue nothing but writeComplete.
InLoop ==
  \/ LoopStep \/ PeerCloses \/ CallbackShutsDown
  \/ \E m \in Messages : CallbackSends(m)
  \/ UNCHANGED vars

\* So the queue gets nothing else from a step of the loop.
LEMMA LoopQueues ==
  ASSUME TypeOK, Phase, InLoop
  PROVE  /\ \A op : Queued(op)' => Queued(op) \/ op = "writeComplete"
         /\ OneDestroy => OneDestroy'
<1>1. CASE RunFunctor
  BY <1>1, FunctorRuns
<1>2. CASE \/ Poll \/ HandleMessage \/ HandleReadError \/ HandleClose
           \/ SwapPending \/ CallbackReturns \/ CallbackShutsDown \/ PeerCloses
  <2>1. Queue' = Queue
    BY <1>2, QueueQuiet
  <2> QED BY <2>1, QueueStays
<1>3. CASE HandleWrite \/ \E m \in Messages : CallbackSends(m)
  BY <1>3, QueueWrites
<1>4. CASE UNCHANGED vars
  BY <1>4, QueueStays DEF vars, loopVars, Queue
<1> QED BY <1>1, <1>2, <1>3, <1>4 DEF InLoop, LoopStep

\* No step but the removal from the map queues a connectDestroyed.
NextButRemoval == InLoop \/ \E t \in Threads : ThreadStep(t)

\* Nor do the threads queue a connectDestroyed.
LEMMA NoDestroyQueued ==
  ASSUME TypeOK, Phase, NextButRemoval
  PROVE  /\ Queued("connectDestroyed")' => Queued("connectDestroyed")
         /\ OneDestroy => OneDestroy'
<1> DEFINE Goal == /\ Queued("connectDestroyed")' => Queued("connectDestroyed")
                   /\ OneDestroy => OneDestroy'
<1>1. CASE InLoop
  BY <1>1, LoopQueues
<1>2. ASSUME NEW t \in Threads, ThreadStep(t) PROVE Goal
  <2>1. functors' = functors
    BY <1>2 DEF ThreadStep, ThreadCalls, ThreadQueuesSend, ThreadSetsState,
       ThreadQueuesShutdown, ThreadReleases, threadUnchanged
  <2>2. ASSUME NEW m \in Messages, ThreadQueuesSend(t, m) PROVE Goal
    <3>1. pendingFunctors_' =
            Append(pendingFunctors_, [op |-> "sendInLoop", message |-> m])
      BY <2>2 DEF ThreadQueuesSend
    <3> QED BY <2>1, <3>1, CallTypes, Pushed
  <2>3. CASE ThreadQueuesShutdown(t)
    <3>1. pendingFunctors_' = Append(pendingFunctors_, Call("shutdownInLoop"))
      BY <2>3 DEF ThreadQueuesShutdown
    <3> QED BY <2>1, <3>1, CallTypes, Pushed DEF Call
  <2>4. CASE UNCHANGED pendingFunctors_
    BY <2>1, <2>4, QueueStays DEF Queue
  <2> QED BY <1>2, <2>2, <2>3, <2>4 DEF ThreadStep, ThreadCalls, ThreadSetsState,
          ThreadReleases
<1> QED BY <1>1, <1>2 DEF NextButRemoval

\* The end of the connection stays orderly.
LEMMA EndPreserved == TypeOK /\ Birth /\ Phase /\ End /\ [Next]_vars => End'
<1> SUFFICES ASSUME TypeOK, Birth, Phase, End, [Next]_vars PROVE End'
  OBVIOUS
<1>a. NextButRemoval =>
        /\ Queued("connectDestroyed")' => Queued("connectDestroyed")
        /\ OneDestroy'
  BY NoDestroyQueued DEF End
<1>b. ASSUME NextButRemoval,
             UNCHANGED <<state_, channel, baseFunctors, inMap>>,
             peer' # "open" \/ peer' = peer
      PROVE  End'
  BY <1>a, <1>b DEF End
<1> USE DEF serverVars, connVars
<1>1. CASE RemoveConnectionInLoop
  <2>1. UNCHANGED <<state_, channel, peer, functors>> /\ baseFunctors > 0
    BY <1>1 DEF RemoveConnectionInLoop, Fail
  <2>2. baseFunctors = 1 /\ inMap /\ channel = "ignored" /\ ~Queued("connectDestroyed")
    BY <2>1 DEF End, TypeOK, Channels
  <2>3. /\ inMap' = FALSE /\ baseFunctors' = 0
        /\ pendingFunctors_' = Append(pendingFunctors_, Call("connectDestroyed"))
    BY <1>1, <2>2 DEF RemoveConnectionInLoop
  <2>4. OneDestroy'
    BY <2>1, <2>2, <2>3, CallTypes, Pushed DEF End
  <2> QED BY <2>1, <2>2, <2>3, <2>4 DEF End
<1>2. CASE RunFunctor
  <2> DEFINE f == Head(functors)
  <2>1. /\ f \in Calls /\ Queued(f.op)
        /\ f.op = "connectDestroyed" => ~Queued("connectDestroyed")'
        /\ Queued("connectDestroyed")' => Queued("connectDestroyed")
        /\ OneDestroy'
    BY <1>2, FunctorRuns DEF End
  <2>2. peer' = peer
    BY <1>2 DEF RunFunctor
  <2>3. CASE UNCHANGED <<state_, channel, baseFunctors, inMap>>
    BY <2>1, <2>2, <2>3 DEF End
  <2>4. CASE f.op = "connectEstablished" /\ ConnectEstablished
    <3>1. channel = "new"
      BY <2>1, <2>4 DEF Birth, Unborn, Born
    <3>2. /\ ~Queued("connectDestroyed")'
          /\ inMap /\ baseFunctors = 0
      BY <2>1, <3>1 DEF End
    <3>3. /\ UNCHANGED <<inMap, baseFunctors>>
          /\ \/ state_' = "kConnected" /\ channel' = "polled"
             \/ UNCHANGED <<state_, channel>>
      BY <2>4 DEF ConnectEstablished, Fail
    <3> QED BY <2>1, <2>2, <3>1, <3>2, <3>3 DEF End
  <2>5. CASE f.op = "connectDestroyed" /\ ConnectDestroyed
    <3>1. /\ ~Queued("connectDestroyed")'
          /\ ~inMap /\ channel = "ignored" /\ peer # "open" /\ ~(baseFunctors > 0)
      BY <2>1, <2>5 DEF End
    <3>2. /\ UNCHANGED <<inMap, baseFunctors>>
          /\ \/ state_' = "kDisconnected" /\ channel' = "removed"
             \/ UNCHANGED <<state_, channel>>
      BY <2>5 DEF ConnectDestroyed, Fail
    <3> QED BY <2>1, <2>2, <3>1, <3>2 DEF End
  <2> QED BY <1>2, <2>3, <2>4, <2>5 DEF RunFunctor, Fail, SendInLoop
<1>3. CASE HandleClose
  <2>1. channel = "polled" /\ inMap /\ baseFunctors = 0 /\ ~Queued("connectDestroyed")
    BY <1>3 DEF HandleClose, Phase, End
  <2>2. /\ peer' = peer /\ peer = "closed" /\ inMap' = inMap
        /\ \/ UNCHANGED <<state_, channel, baseFunctors>>
           \/ /\ state_ \in {"kConnected", "kDisconnecting"} /\ state_' = state_
              /\ channel' = "ignored" /\ baseFunctors' = 1
    <3>1. peer' = peer /\ peer = "closed"
      BY <1>3 DEF HandleClose
    <3>2. CASE state_ \in {"kConnected", "kDisconnecting"}
      BY <1>3, <2>1, <3>1, <3>2 DEF HandleClose
    <3>3. CASE state_ \notin {"kConnected", "kDisconnecting"}
      BY <1>3, <3>1, <3>3 DEF HandleClose, Fail
    <3> QED BY <3>2, <3>3
  <2>3. /\ ~Queued("connectDestroyed")' /\ OneDestroy'
    BY <1>3, <1>a, <2>1 DEF NextButRemoval, InLoop, LoopStep
  <2> QED BY <2>1, <2>2, <2>3 DEF End
<1>4. CASE \/ Poll \/ HandleMessage \/ HandleReadError \/ HandleWrite \/ SwapPending
           \/ CallbackReturns
  <2>1. /\ UNCHANGED <<state_, channel, baseFunctors, inMap>>
        /\ peer' # "open" \/ peer' = peer
    BY <1>4 DEF Poll, HandleMessage, HandleReadError, HandleWrite, SwapPending,
       CallbackReturns
  <2>2. NextButRemoval
    BY <1>4 DEF NextButRemoval, InLoop, LoopStep
  <2> QED BY <1>b, <2>1, <2>2
<1>5. CASE PeerCloses \/ \E m \in Messages : CallbackSends(m)
  BY <1>5, <1>b DEF PeerCloses, CallbackSends, SendInLoop, NextButRemoval,
     InLoop
<1>6. ASSUME UNCHANGED <<channel, peer, baseFunctors, inMap>>,
             state_' \in {state_, "kDisconnecting"}, NextButRemoval
      PROVE  End'
  BY <1>6, <1>a DEF End
<1>7. CASE CallbackShutsDown
  BY <1>6, <1>7 DEF CallbackShutsDown, NextButRemoval, InLoop
<1>8. ASSUME NEW t \in Threads, ThreadStep(t) PROVE End'
  <2>1. /\ UNCHANGED <<channel, peer, baseFunctors, inMap>>
        /\ state_' \in {state_, "kDisconnecting"}
    BY <1>8 DEF ThreadStep, ThreadCalls, ThreadQueuesSend, ThreadSetsState,
       ThreadQueuesShutdown, ThreadReleases, threadUnchanged
  <2> QED BY <1>6, <1>8, <2>1 DEF NextButRemoval
<1>9. CASE UNCHANGED vars
  BY <1>6, <1>9 DEF vars, NextButRemoval, InLoop
<1> QED BY <1>1, <1>2, <1>3, <1>4, <1>5, <1>7, <1>8, <1>9 DEF Next, LoopStep

\* The asserts on state_ and on connections_.erase hold in every step.
LEMMA AssertsPreserved ==
  ASSUME TypeOK, Birth, Phase, End, stopped \notin {"state", "erase"}, [Next]_vars
  PROVE  stopped' \notin {"state", "erase"}
<1>1. CASE RunFunctor
  <2> DEFINE f == Head(functors)
  <2>1. f \in Calls /\ Queued(f.op)
    BY <1>1, FunctorRuns
  <2>2. ~(ConnectEstablished /\ f.op = "connectEstablished" /\ stopped' = "state")
    <3>1. f.op = "connectEstablished" => state_ = "kConnecting"
      BY <2>1 DEF Birth, Born
    <3> QED BY <3>1 DEF ConnectEstablished
  <2>3. ~(ConnectDestroyed /\ f.op = "connectDestroyed" /\ stopped' = "state")
    <3>1. f.op = "connectDestroyed" => state_ \in {"kConnected", "kDisconnecting"}
      BY <2>1 DEF Birth, Unborn, End, TypeOK, States
    <3> QED BY <3>1 DEF ConnectDestroyed
  <2>4. \/ stopped' \in {stopped, "freed", "poller"}
        \/ ConnectEstablished /\ f.op = "connectEstablished"
        \/ ConnectDestroyed /\ f.op = "connectDestroyed"
    BY <1>1 DEF RunFunctor, Fail, SendInLoop
  <2>5. ConnectEstablished \/ ConnectDestroyed => stopped' \in {stopped, "state"}
    BY DEF ConnectEstablished, ConnectDestroyed, Fail
  <2> QED BY <2>2, <2>3, <2>4, <2>5
<1>2. CASE HandleClose
  <2>1. channel = "polled"
    BY <1>2 DEF HandleClose, Phase
  <2>2. state_ \in {"kConnected", "kDisconnecting"}
    BY <2>1 DEF Birth, Unborn, End, TypeOK, States
  <2> QED BY <1>2, <2>2 DEF HandleClose
<1>3. CASE RemoveConnectionInLoop
  <2>1. inMap
    BY <1>3 DEF RemoveConnectionInLoop, End
  <2> QED BY <1>3, <2>1 DEF RemoveConnectionInLoop
<1>4. ASSUME NEW m \in Messages, CallbackSends(m)
      PROVE  stopped' \notin {"state", "erase"}
  BY <1>4 DEF CallbackSends, SendInLoop
<1>5. CASE stopped' = stopped
  BY <1>5
<1>6. ASSUME NEW t \in Threads, ThreadStep(t) PROVE stopped' = stopped
  BY <1>6 DEF ThreadStep, ThreadCalls, ThreadQueuesSend, ThreadSetsState,
     ThreadQueuesShutdown, ThreadReleases, threadUnchanged
<1>7. CASE \/ Poll \/ HandleMessage \/ HandleReadError \/ HandleWrite \/ SwapPending
           \/ CallbackReturns \/ CallbackShutsDown \/ PeerCloses
  BY <1>5, <1>7 DEF Poll, HandleMessage, HandleReadError, HandleWrite, SwapPending,
     CallbackReturns, CallbackShutsDown, PeerCloses
<1>8. CASE UNCHANGED vars
  BY <1>5, <1>8 DEF vars
<1> QED BY <1>1, <1>2, <1>3, <1>4, <1>5, <1>6, <1>7, <1>8 DEF Next, LoopStep

\* Who shut the connection down stays on record.
LEMMA ClosingPreserved ==
  ASSUME TypeOK, Birth, Phase, Closing, [Next]_vars
  PROVE  Closing'
<1> USE DEF Closing
<1>a. ASSUME UNCHANGED <<pc, holds, closers>>,
             state_' \in {state_, "kDisconnected"},
             fin' => closers # {},
             Queued("shutdownInLoop")' => Queued("shutdownInLoop")
      PROVE  Closing'
  BY <1>a DEF TypeOK
<1>b. InLoop => (Queued("shutdownInLoop")' => Queued("shutdownInLoop"))
  BY LoopQueues
<1> USE DEF connVars, kernelVars, userVars, history
<1>1. CASE RunFunctor
  <2> DEFINE f == Head(functors)
  <2>1. /\ f \in Calls /\ Queued(f.op)
        /\ Queued("shutdownInLoop")' => Queued("shutdownInLoop")
    BY <1>1, FunctorRuns
  <2>2. CASE f.op = "connectEstablished" /\ ConnectEstablished /\ closers' = closers
    <3>1. state_ = "kConnecting" /\ closers = {}
      BY <2>1, <2>2 DEF Birth, Unborn, Born
    <3> QED BY <2>1, <2>2, <3>1 DEF ConnectEstablished, TypeOK
  <2>3. CASE ConnectDestroyed /\ closers' = closers
    BY <1>a, <2>1, <2>3 DEF ConnectDestroyed, Fail
  <2>4. CASE f.op = "shutdownInLoop" /\ ShutdownInLoop
             /\ UNCHANGED <<connVars, userVars, history>>
    BY <1>a, <2>1, <2>4
  <2>5. CASE UNCHANGED <<state_, fin, userVars, closers>>
    BY <1>a, <2>1, <2>5
  <2> QED BY <1>1, <2>2, <2>3, <2>4, <2>5 DEF RunFunctor, Fail, SendInLoop
<1>2. CASE HandleWrite
  <2>1. UNCHANGED <<pc, holds, closers, state_>>
    BY <1>2 DEF HandleWrite
  <2>2. fin' => fin \/ state_ = "kDisconnecting"
    BY <1>2 DEF HandleWrite
  <2> QED BY <1>a, <1>b, <1>2, <2>1, <2>2 DEF InLoop, LoopStep
<1>3. CASE \/ Poll \/ HandleMessage \/ HandleReadError \/ HandleClose \/ SwapPending
           \/ CallbackReturns \/ PeerCloses \/ UNCHANGED vars
  <2>1. UNCHANGED <<pc, holds, closers, state_, fin>>
    BY <1>3 DEF Poll, HandleMessage, HandleReadError, HandleClose, SwapPending,
       CallbackReturns, PeerCloses, Fail, vars
  <2> QED BY <1>a, <1>b, <1>3, <2>1 DEF InLoop, LoopStep
<1>4. CASE CallbackShutsDown
  BY <1>b, <1>4 DEF CallbackShutsDown, InLoop
<1>5. ASSUME NEW m \in Messages, CallbackSends(m) PROVE Closing'
  <2>1. UNCHANGED <<pc, holds, closers, state_, fin>>
    BY <1>5 DEF CallbackSends, SendInLoop
  <2>2. InLoop
    BY <1>5 DEF InLoop
  <2> QED BY <1>a, <1>b, <2>1, <2>2
<1>6. CASE RemoveConnectionInLoop
  <2>1. UNCHANGED <<pc, holds, closers, state_, fin>> /\ functors' = functors
    BY <1>6 DEF RemoveConnectionInLoop, Fail
  <2>2. CASE pendingFunctors_' = Append(pendingFunctors_, Call("connectDestroyed"))
    BY <1>a, <2>1, <2>2, CallTypes, Pushed DEF Call
  <2>3. CASE pendingFunctors_' = pendingFunctors_
    BY <1>a, <2>1, <2>3, QueueStays DEF Queue
  <2> QED BY <1>6, <2>2, <2>3 DEF RemoveConnectionInLoop
<1>7. ASSUME NEW t \in Threads, ThreadStep(t) PROVE Closing'
  <2> USE DEF threadUnchanged
  <2>1. ASSUME UNCHANGED <<functors, pendingFunctors_>>
        PROVE  Queued("shutdownInLoop")' <=> Queued("shutdownInLoop")
    BY <2>1, QueueStays DEF Queue
  <2>2. ASSUME NEW op \in {"send", "shutdown"}, ThreadCalls(t, op) PROVE Closing'
    BY <2>1, <2>2 DEF ThreadCalls, TypeOK
  <2>3. ASSUME NEW m \in Messages, ThreadQueuesSend(t, m) PROVE Closing'
    <3>1. Queued("shutdownInLoop")' <=> Queued("shutdownInLoop")
      BY <2>3, CallTypes, Pushed DEF ThreadQueuesSend
    <3> QED BY <2>3, <3>1 DEF ThreadQueuesSend, TypeOK
  <2>4. CASE ThreadSetsState(t)
    BY <2>1, <2>4 DEF ThreadSetsState, TypeOK
  <2>5. CASE ThreadQueuesShutdown(t)
    BY <2>5 DEF ThreadQueuesShutdown, TypeOK
  <2>6. CASE ThreadReleases(t)
    BY <2>1, <2>6 DEF ThreadReleases, TypeOK
  <2> QED BY <1>7, <2>2, <2>3, <2>4, <2>5, <2>6 DEF ThreadStep
<1> QED BY <1>1, <1>2, <1>3, <1>4, <1>5, <1>6, <1>7 DEF Next, LoopStep
-----------------------------------------------------------------------------
\* sendInLoop and handleWrite append to the stream what they take, and leave
\* writing enabled exactly if bytes wait.
LEMMA SendInLoopStream ==
  ASSUME TypeOK, StreamInOrder, NEW m \in Messages, NEW q, SendInLoop(m, q)
  PROVE  /\ StreamInOrder' /\ accepted' = accepted \o Bytes(m)
         /\ isWriting' <=> outputBuffer_' # <<>>
<1>1. Bytes(m) \in Seq(AllBytes) /\ Len(Bytes(m)) = 2
  BY ByteTypes
<1>2. PICK n \in Accepts(Bytes(m)) :
        /\ n = 0 \/ (~isWriting /\ outputBuffer_ = <<>>)
        /\ wire' = wire \o SubSeq(Bytes(m), 1, n)
        /\ outputBuffer_' = outputBuffer_ \o SubSeq(Bytes(m), n + 1, 2)
        /\ events_' = IF SubSeq(Bytes(m), n + 1, 2) # <<>> /\ ~isWriting
                      THEN events_ \cup {"write"} ELSE events_
        /\ accepted' = accepted \o Bytes(m)
  BY DEF SendInLoop
<1> DEFINE first == SubSeq(Bytes(m), 1, n)
           rest == SubSeq(Bytes(m), n + 1, 2)
<1>3. n \in 0 .. 2
  BY <1>1 DEF Accepts
<1>4. first \in Seq(AllBytes) /\ rest \in Seq(AllBytes) /\ first \o rest = Bytes(m)
  BY <1>1, <1>3, SplitTypes
<1>5. wire \in Seq(AllBytes) /\ outputBuffer_ \in Seq(AllBytes)
  BY DEF TypeOK
<1>6. Len(first) = n /\ Len(rest) = 2 - n
  BY <1>1, <1>3, LenProperties, SubSeqProperties
<1>7. wire' \o outputBuffer_' = (wire \o outputBuffer_) \o Bytes(m)
  <2>1. CASE n = 0
    <3>1. first = <<>>
      BY <1>4, <1>6, <2>1, EmptySeq
    <3>2. wire' = wire /\ rest = Bytes(m)
      BY <1>2, <1>4, <1>5, <3>1, ConcatEmptySeq
    <3>3. (wire \o outputBuffer_) \o Bytes(m) = wire \o (outputBuffer_ \o Bytes(m))
      BY <1>1, <1>5, ConcatAssociative
    <3> QED BY <1>2, <3>2, <3>3
  <2>2. CASE outputBuffer_ = <<>>
    <3>1. outputBuffer_' = rest /\ wire \o outputBuffer_ = wire
      BY <1>2, <1>4, <1>5, <2>2, ConcatEmptySeq
    <3>2. (wire \o first) \o rest = wire \o (first \o rest)
      <4>1. first \in Seq(AllBytes) /\ rest \in Seq(AllBytes)
        BY <1>4
      <4> HIDE DEF first, rest
      <4> QED BY <4>1, <1>5, ConcatAssociative, SMTT(60)
    <3> QED BY <1>2, <1>4, <3>1, <3>2
  <2> QED BY <1>2, <2>1, <2>2
<1>8. isWriting' <=> outputBuffer_' # <<>>
  <2>1. CASE rest = <<>>
    <3>1. n = 2
      <4>1. Len(rest) = 0
        <5> HIDE DEF rest
        <5> QED BY <2>1, EmptySeq
      <4> QED BY <1>3, <1>6, <4>1
    <3>2. ~isWriting /\ outputBuffer_ = <<>> /\ events_' = events_
      BY <1>2, <2>1, <3>1
    <3> QED BY <1>2, <1>4, <2>1, <3>2, ConcatEmptySeq DEF isWriting
  <2>2. CASE rest # <<>>
    <3>1. outputBuffer_' # <<>>
      BY <1>2, <1>4, <1>5, <2>2
    <3>2. isWriting'
      BY <1>2, <2>2 DEF isWriting
    <3> QED BY <3>1, <3>2
  <2> QED BY <2>1, <2>2
<1> QED BY <1>2, <1>7, <1>8 DEF StreamInOrder

\* The same of handleWrite, which may also send the FIN once the buffer is empty.
LEMMA HandleWriteStream ==
  ASSUME TypeOK, StreamInOrder, WritingIffPending, HandleWrite
  PROVE  /\ StreamInOrder' /\ WritingIffPending'
         /\ fin' = fin \/ outputBuffer_' = <<>>
         /\ accepted' = accepted
         /\ \E s \in Seq(AllBytes) : wire' = wire \o s
<1>1. wire \in Seq(AllBytes) /\ outputBuffer_ \in Seq(AllBytes)
  BY DEF TypeOK
<1>2. accepted' = accepted
  BY DEF HandleWrite, history
<1>3. CASE ~isWriting
  <2>1. UNCHANGED <<channel, events_, outputBuffer_, wire, fin>>
    BY <1>3 DEF HandleWrite, connVars, kernelVars
  <2>2. <<>> \in Seq(AllBytes) /\ wire \o <<>> = wire
    BY <1>1
  <2> QED BY <1>2, <2>1, <2>2 DEF StreamInOrder, WritingIffPending, isWriting
<1>4. CASE isWriting
  <2>1. PICK n \in Accepts(outputBuffer_) :
          LET rest == SubSeq(outputBuffer_, n + 1, Len(outputBuffer_))
              drained == n > 0 /\ rest = <<>>
          IN /\ wire' = wire \o SubSeq(outputBuffer_, 1, n)
             /\ outputBuffer_' = rest
             /\ events_' = IF drained THEN events_ \ {"write"} ELSE events_
             /\ fin' = (fin \/ (drained /\ state_ = "kDisconnecting"))
             /\ UNCHANGED <<state_, channel>>
    BY <1>4 DEF HandleWrite
  <2> DEFINE first == SubSeq(outputBuffer_, 1, n)
             rest == SubSeq(outputBuffer_, n + 1, Len(outputBuffer_))
  <2>2. n \in 0 .. Len(outputBuffer_)
    BY DEF Accepts
  <2>3. first \in Seq(AllBytes) /\ rest \in Seq(AllBytes)
        /\ first \o rest = outputBuffer_
    BY <1>1, <2>2, SplitTypes
  <2>4. (wire \o first) \o rest = wire \o outputBuffer_
    <3>1. (wire \o first) \o rest = wire \o (first \o rest)
      <4>1. first \in Seq(AllBytes) /\ rest \in Seq(AllBytes)
        BY <2>3
      <4> HIDE DEF first, rest
      <4> QED BY <4>1, <1>1, ConcatAssociative, SMTT(60)
    <3> QED BY <2>3, <3>1
  <2>5. StreamInOrder'
    BY <1>2, <2>1, <2>4 DEF StreamInOrder
  <2>6. n = 0 => rest = outputBuffer_
    BY <1>1, SubSeqFull
  <2>7. WritingIffPending'
    BY <1>4, <2>1, <2>2, <2>6 DEF WritingIffPending, isWriting
  <2>8. fin' = fin \/ outputBuffer_' = <<>>
    BY <2>1 DEF TypeOK
  <2> QED BY <1>2, <2>1, <2>3, <2>5, <2>7, <2>8
<1> QED BY <1>3, <1>4

\* Only sendInLoop, handleWrite and the history touch the bytes.
LEMMA StreamPreserved ==
  ASSUME TypeOK, Birth, Phase, Closing, StreamInOrder, WritingIffPending,
         [Next]_vars
  PROVE  StreamInOrder' /\ WritingIffPending'
<1>a. ASSUME UNCHANGED <<outputBuffer_, wire, accepted>>,
             channel' = "polled" => channel = "polled" /\ events_' = events_
      PROVE  StreamInOrder' /\ WritingIffPending'
  BY <1>a DEF StreamInOrder, WritingIffPending, isWriting
<1>b. ASSUME NEW m \in Messages, NEW q, SendInLoop(m, q)
      PROVE  StreamInOrder' /\ WritingIffPending'
  BY <1>b, SendInLoopStream DEF WritingIffPending
<1> USE DEF connVars, kernelVars, history
<1>1. CASE RunFunctor
  <2> DEFINE f == Head(functors)
  <2>1. f \in Calls /\ Queued(f.op)
    BY <1>1, FunctorRuns
  <2>2. CASE f.op = "connectEstablished" /\ ConnectEstablished /\ accepted' = accepted
    <3>1. state_ = "kConnecting" /\ events_ = {} /\ outputBuffer_ = <<>>
      BY <2>1, <2>2 DEF Birth, Unborn, Born
    <3>2. UNCHANGED <<outputBuffer_, wire, accepted>> /\ events_' = {"read"}
      BY <2>2, <3>1 DEF ConnectEstablished
    <3> QED BY <3>1, <3>2 DEF StreamInOrder, WritingIffPending, isWriting
  <2>3. CASE ConnectDestroyed /\ accepted' = accepted
    BY <1>a, <2>3 DEF ConnectDestroyed, Fail
  <2>4. CASE /\ f.op = "sendInLoop" /\ SendInLoop(f.message, pendingFunctors_)
    <3>1. f.message \in Messages
      BY <2>1, <2>4 DEF Calls, Owning
    <3> QED BY <1>b, <2>4, <3>1
  <2>5. CASE UNCHANGED <<outputBuffer_, wire, accepted, channel, events_>>
    BY <1>a, <2>5
  <2> QED BY <1>1, <2>2, <2>3, <2>4, <2>5 DEF RunFunctor, Fail
<1>2. CASE HandleWrite
  BY <1>2, HandleWriteStream
<1>3. CASE HandleClose
  BY <1>a, <1>3 DEF HandleClose, Fail
<1>4. ASSUME NEW m \in Messages, CallbackSends(m)
      PROVE  StreamInOrder' /\ WritingIffPending'
  BY <1>b, <1>4 DEF CallbackSends
<1>5. CASE \/ Poll \/ HandleMessage \/ HandleReadError \/ SwapPending
           \/ CallbackReturns \/ CallbackShutsDown \/ PeerCloses
           \/ RemoveConnectionInLoop \/ UNCHANGED vars
  <2>1. UNCHANGED <<outputBuffer_, wire, accepted, channel, events_>>
    BY <1>5 DEF Poll, HandleMessage, HandleReadError, SwapPending, CallbackReturns,
       CallbackShutsDown, PeerCloses, RemoveConnectionInLoop, Fail, vars
  <2> QED BY <1>a, <2>1
<1>6. ASSUME NEW t \in Threads, ThreadStep(t)
      PROVE  StreamInOrder' /\ WritingIffPending'
  <2>1. UNCHANGED <<outputBuffer_, wire, accepted, channel, events_>>
    BY <1>6 DEF ThreadStep, ThreadCalls, ThreadQueuesSend, ThreadSetsState,
       ThreadQueuesShutdown, ThreadReleases, threadUnchanged
  <2> QED BY <1>a, <2>1
<1> QED BY <1>1, <1>2, <1>3, <1>4, <1>5, <1>6 DEF Next, LoopStep

\* The bytes of two sequences, one after the other.
LEMMA RangeConcat ==
  ASSUME NEW S, NEW s \in Seq(S), NEW t \in Seq(S)
  PROVE  /\ Range(s) \subseteq Range(s \o t)
         /\ Range(t) \subseteq Range(s \o t)
<1>1. /\ Len(s) \in Nat /\ Len(t) \in Nat
      /\ DOMAIN s = 1 .. Len(s) /\ DOMAIN t = 1 .. Len(t)
      /\ DOMAIN (s \o t) = 1 .. Len(s) + Len(t)
      /\ \A i \in 1 .. Len(s) : (s \o t)[i] = s[i]
      /\ \A i \in 1 .. Len(t) : (s \o t)[Len(s) + i] = t[i]
  OBVIOUS
<1>2. \A i \in 1 .. Len(t) : Len(s) + i \in 1 .. Len(s) + Len(t)
  BY <1>1
<1>3. \A i \in 1 .. Len(s) : i \in 1 .. Len(s) + Len(t)
  BY <1>1
<1> QED BY <1>1, <1>2, <1>3 DEF Range

\* A message is its two bytes.
LEMMA RangeBytes ==
  ASSUME NEW m \in Messages
  PROVE  {<<m, 1>>, <<m, 2>>} \subseteq Range(Bytes(m))
BY DEF Bytes, Range

\* No byte written or taken is ever taken back.
LEMMA StreamGrows ==
  ASSUME TypeOK, Phase, StreamInOrder, WritingIffPending, [Next]_vars
  PROVE  Range(wire) \subseteq Range(wire') /\ Range(accepted) \subseteq Range(accepted')
<1> DEFINE Goal == /\ Range(wire) \subseteq Range(wire')
                   /\ Range(accepted) \subseteq Range(accepted')
<1>1. wire \in Seq(AllBytes) /\ accepted \in Seq(AllBytes)
  BY DEF TypeOK
<1>a. ASSUME UNCHANGED <<wire, accepted>> PROVE Goal
  BY <1>a
<1>b. ASSUME NEW m \in Messages, NEW q, SendInLoop(m, q) PROVE Goal
  <2>1. Bytes(m) \in Seq(AllBytes) /\ Len(Bytes(m)) = 2
    BY ByteTypes
  <2>2. PICK n \in Accepts(Bytes(m)) : wire' = wire \o SubSeq(Bytes(m), 1, n)
    BY <1>b DEF SendInLoop
  <2>3. n \in 0 .. Len(Bytes(m))
    BY <2>1 DEF Accepts
  <2>4. SubSeq(Bytes(m), 1, n) \in Seq(AllBytes)
    BY <2>1, <2>3, SplitTypes
  <2>5. accepted' = accepted \o Bytes(m)
    BY <1>b DEF SendInLoop
  <2> QED BY <1>1, <2>1, <2>2, <2>4, <2>5, RangeConcat
<1> USE DEF connVars, kernelVars, history
<1>2. CASE RunFunctor
  <2> DEFINE f == Head(functors)
  <2>1. f \in Calls
    BY <1>2, FunctorRuns
  <2>2. CASE f.op = "sendInLoop" /\ SendInLoop(f.message, pendingFunctors_)
    <3>1. f.message \in Messages
      BY <2>1, <2>2 DEF Calls, Owning
    <3> QED BY <1>b, <2>2, <3>1
  <2>3. CASE UNCHANGED <<wire, accepted>>
    BY <1>a, <2>3
  <2> QED BY <1>2, <2>2, <2>3 DEF RunFunctor, Fail, ConnectEstablished,
          ConnectDestroyed
<1>3. CASE HandleWrite
  BY <1>1, <1>3, HandleWriteStream, RangeConcat
<1>4. ASSUME NEW m \in Messages, CallbackSends(m) PROVE Goal
  BY <1>b, <1>4 DEF CallbackSends
<1>5. CASE \/ Poll \/ HandleMessage \/ HandleReadError \/ HandleClose \/ SwapPending
           \/ CallbackReturns \/ CallbackShutsDown \/ PeerCloses
           \/ RemoveConnectionInLoop \/ UNCHANGED vars
  BY <1>a, <1>5 DEF Poll, HandleMessage, HandleReadError, HandleClose, SwapPending,
     CallbackReturns, CallbackShutsDown, PeerCloses, RemoveConnectionInLoop, Fail, vars
<1>6. ASSUME NEW t \in Threads, ThreadStep(t) PROVE Goal
  BY <1>a, <1>6 DEF ThreadStep, ThreadCalls, ThreadQueuesSend, ThreadSetsState,
     ThreadQueuesShutdown, ThreadReleases, threadUnchanged
<1> QED BY <1>2, <1>3, <1>4, <1>5, <1>6 DEF Next, LoopStep

\* A callback's send is a call of sendInLoop.
LEMMA LoopSendsPreserved ==
  ASSUME TypeOK, Phase, StreamInOrder, WritingIffPending, LoopSendsTaken, [Next]_vars
  PROVE  LoopSendsTaken'
<1>1. Range(accepted) \subseteq Range(accepted')
  BY StreamGrows
<1>a. ASSUME \A m \in Messages : sender'[m] = "loop" => sender[m] = "loop"
      PROVE  LoopSendsTaken'
  BY <1>1, <1>a DEF LoopSendsTaken
<1>2. ASSUME NEW m \in Messages, CallbackSends(m) PROVE LoopSendsTaken'
  <2>1. {<<m, 1>>, <<m, 2>>} \subseteq Range(accepted')
    <3>1. accepted \in Seq(AllBytes) /\ Bytes(m) \in Seq(AllBytes)
      BY ByteTypes DEF TypeOK
    <3>2. accepted' = accepted \o Bytes(m)
      BY <1>2 DEF CallbackSends, SendInLoop
    <3> QED BY <3>1, <3>2, RangeConcat, RangeBytes
  <2>2. \A k \in Messages \ {m} : sender'[k] = sender[k]
    BY <1>2 DEF CallbackSends, TypeOK
  <2> QED BY <1>1, <2>1, <2>2 DEF LoopSendsTaken
<1>3. ASSUME NEW t \in Threads, ThreadStep(t) PROVE LoopSendsTaken'
  <2>1. ASSUME NEW m \in Messages, ThreadQueuesSend(t, m)
        PROVE  \A k \in Messages : sender'[k] = "loop" => sender[k] = "loop"
    BY <2>1, NobodyAssumption DEF ThreadQueuesSend, TypeOK
  <2> QED BY <1>a, <1>3, <2>1 DEF ThreadStep, ThreadCalls, ThreadSetsState,
          ThreadQueuesShutdown, ThreadReleases
<1>4. ASSUME sender' = sender PROVE LoopSendsTaken'
  BY <1>a, <1>4
<1> USE DEF history
<1>5. CASE RunFunctor
  BY <1>4, <1>5 DEF RunFunctor, Fail, ConnectEstablished, ConnectDestroyed, SendInLoop
<1>6. CASE \/ Poll \/ HandleMessage \/ HandleReadError \/ HandleClose \/ HandleWrite
           \/ SwapPending \/ CallbackReturns \/ CallbackShutsDown \/ PeerCloses
           \/ RemoveConnectionInLoop \/ UNCHANGED vars
  BY <1>4, <1>6 DEF Poll, HandleMessage, HandleReadError, HandleClose, HandleWrite,
     SwapPending, CallbackReturns, CallbackShutsDown, PeerCloses,
     RemoveConnectionInLoop, Fail, vars
<1> QED BY <1>2, <1>3, <1>5, <1>6 DEF Next, LoopStep

\* With nothing left to write, what sendInLoop took is on the wire.
LEMMA DrainedIsWritten ==
  ASSUME TypeOK, StreamInOrder, LoopSendsTaken, outputBuffer_ = <<>>
  PROVE  \A m \in Messages : sender[m] = "loop" =>
           {<<m, 1>>, <<m, 2>>} \subseteq Range(wire)
<1>1. wire = accepted
  BY ConcatEmptySeq DEF TypeOK, StreamInOrder
<1> QED BY <1>1 DEF LoopSendsTaken

\* The FIN follows what the callbacks sent before it.
LEMMA SentBeforeFinPreserved ==
  ASSUME TypeOK, Birth, Phase, End, Closing, StreamInOrder, WritingIffPending,
         LoopSendsTaken, SentBeforeFin, [Next]_vars,
         TypeOK', StreamInOrder', LoopSendsTaken'
  PROVE  SentBeforeFin'
<1> SUFFICES ASSUME fin', closers' = {"loop"}, peer' = "open"
             PROVE  \A m \in Messages : sender'[m] = "loop" =>
                      {<<m, 1>>, <<m, 2>>} \subseteq Range(wire')
  BY DEF SentBeforeFin
<1> DEFINE Goal == \A m \in Messages : sender'[m] = "loop" =>
                     {<<m, 1>>, <<m, 2>>} \subseteq Range(wire')
<1>1. Range(wire) \subseteq Range(wire')
  BY StreamGrows
<1>2. peer = "open"
  BY DEF Next, LoopStep, RunFunctor, Poll, HandleMessage, HandleReadError, HandleClose,
     HandleWrite, SwapPending, CallbackReturns, RemoveConnectionInLoop, PeerCloses,
     CallbackShutsDown, CallbackSends, ThreadStep, ThreadCalls, ThreadQueuesSend,
     ThreadSetsState, ThreadQueuesShutdown, ThreadReleases, threadUnchanged, vars
<1>a. ASSUME fin, closers = {"loop"},
             \A m \in Messages : sender'[m] = "loop" => sender[m] = "loop"
      PROVE  Goal
  BY <1>1, <1>2, <1>a DEF SentBeforeFin
<1>b. ASSUME outputBuffer_' = <<>> PROVE Goal
  <2>1. (TypeOK /\ StreamInOrder /\ LoopSendsTaken /\ outputBuffer_ = <<>>
           => \A m \in Messages : sender[m] = "loop" =>
                {<<m, 1>>, <<m, 2>>} \subseteq Range(wire))'
    BY DrainedIsWritten, PTL
  <2> QED BY <1>b, <2>1
<1>c. ASSUME fin' = fin, UNCHANGED <<closers, sender>> PROVE Goal
  BY <1>a, <1>c
<1> USE DEF connVars, kernelVars, history
<1>3. CASE RunFunctor
  <2> DEFINE f == Head(functors)
  <2>1. UNCHANGED <<closers, sender>>
    BY <1>3 DEF RunFunctor, Fail, ConnectEstablished, ConnectDestroyed, SendInLoop
  <2>2. f.op # "shutdownInLoop"
    BY <1>3, <2>1, FunctorRuns, NobodyAssumption DEF Closing
  <2>3. fin' = fin
    BY <1>3, <2>2 DEF RunFunctor, Fail, ConnectEstablished, ConnectDestroyed, SendInLoop
  <2> QED BY <1>c, <2>1, <2>3
<1>4. CASE HandleWrite
  <2>1. fin' = fin \/ outputBuffer_' = <<>>
    BY <1>4, HandleWriteStream
  <2>2. UNCHANGED <<closers, sender>>
    BY <1>4 DEF HandleWrite
  <2> QED BY <1>b, <1>c, <2>1, <2>2
<1>5. CASE CallbackShutsDown
  <2>1. closers = {} /\ ~fin /\ state_ = "kConnected"
    BY <1>5 DEF CallbackShutsDown, Closing
  <2>2. ~isWriting /\ outputBuffer_' = outputBuffer_
    BY <1>5, <2>1 DEF CallbackShutsDown, ShutdownInLoop
  <2>3. channel = "polled"
    BY <1>2, <2>1 DEF Birth, Born, End, TypeOK, Channels
  <2> QED BY <1>b, <2>2, <2>3 DEF WritingIffPending
<1>6. ASSUME NEW m \in Messages, CallbackSends(m) PROVE Goal
  <2>1. closers = {}
    BY <1>6 DEF CallbackSends, Closing
  <2> QED BY <1>6, <2>1 DEF CallbackSends, SendInLoop
<1>7. ASSUME NEW t \in Threads, ThreadStep(t) PROVE Goal
  <2> USE DEF threadUnchanged
  <2>1. ASSUME NEW m \in Messages, ThreadQueuesSend(t, m)
        PROVE  \A k \in Messages : sender'[k] = "loop" => sender[k] = "loop"
    BY <2>1, NobodyAssumption DEF ThreadQueuesSend, TypeOK
  <2>2. ASSUME NEW m \in Messages, ThreadQueuesSend(t, m) PROVE Goal
    BY <1>a, <2>1, <2>2 DEF ThreadQueuesSend
  <2>3. ~ThreadSetsState(t)
    BY NobodyAssumption DEF ThreadSetsState
  <2> QED BY <1>c, <1>7, <2>2, <2>3 DEF ThreadStep, ThreadCalls,
          ThreadQueuesShutdown, ThreadReleases
<1>8. CASE \/ Poll \/ HandleMessage \/ HandleReadError \/ HandleClose
           \/ SwapPending \/ CallbackReturns \/ PeerCloses
           \/ RemoveConnectionInLoop \/ UNCHANGED vars
  BY <1>c, <1>8 DEF Poll, HandleMessage, HandleReadError, HandleClose, SwapPending,
     CallbackReturns, PeerCloses, RemoveConnectionInLoop, Fail, vars
<1> QED BY <1>3, <1>4, <1>5, <1>6, <1>7, <1>8 DEF Next, LoopStep
-----------------------------------------------------------------------------
\* A connection newConnection has just made.
LEMMA InitInvariant == Init => IInv
<1> SUFFICES ASSUME Init PROVE IInv
  OBVIOUS
<1> USE DEF Init
<1>1. TypeOK
  <2>1. Call("connectEstablished") \in Calls
    BY DEF Call, Calls, Owning
  <2>2. pendingFunctors_ \in Seq(Calls) /\ functors \in Seq(Calls)
    BY <2>1
  <2>3. ConnTypes
    <3>1. <<>> \in Seq(AllBytes)
      OBVIOUS
    <3> QED BY <3>1 DEF ConnTypes, States, Channels
  <2>4. LoopTypes
    BY <2>2 DEF LoopTypes
  <2>5. UserTypes
    BY DEF UserTypes
  <2> QED BY <2>3, <2>4, <2>5 DEF TypeOK, ConnTypes, LoopTypes, UserTypes
<1>2. Queue = <<Call("connectEstablished")>>
  BY DEF Queue
<1>3. Birth /\ Phase /\ Closing /\ StreamInOrder /\ WritingIffPending
  <2>1. ~Queued("shutdownInLoop")
    BY <1>2 DEF Queued, Has, Call
  <2>2. wire \o outputBuffer_ = <<>>
    OBVIOUS
  <2> QED BY <1>2, <2>1, <2>2 DEF Birth, Unborn, Phase, Closing, StreamInOrder,
          WritingIffPending
<1>4. End
  BY <1>2 DEF End, OneDestroy, AtMostOne, Queued, Has, Call
<1>5. LoopSendsTaken /\ SentBeforeFin
  BY NobodyAssumption DEF LoopSendsTaken, SentBeforeFin
<1> QED BY <1>1, <1>3, <1>4, <1>5 DEF IInv

\* Every step preserves the invariant.
LEMMA NextInvariant == IInv /\ [Next]_vars => IInv'
<1> SUFFICES ASSUME IInv, [Next]_vars PROVE IInv'
  OBVIOUS
<1> USE DEF IInv
<1>1. TypeOK' BY TypesPreserved
<1>2. stopped' \notin {"state", "erase"} BY AssertsPreserved
<1>3. Birth' BY BirthPreserved
<1>4. Phase' BY PhasePreserved
<1>5. End' BY EndPreserved
<1>6. Closing' BY ClosingPreserved
<1>7. StreamInOrder' /\ WritingIffPending' BY StreamPreserved
<1>8. LoopSendsTaken' BY LoopSendsPreserved
<1>9. SentBeforeFin' BY <1>1, <1>7, <1>8, SentBeforeFinPreserved
<1> QED BY <1>1, <1>2, <1>3, <1>4, <1>5, <1>6, <1>7, <1>8, <1>9

\* All that is proved of a connection, together.
THEOREM Invariant == Spec => []IInv
BY InitInvariant, NextInvariant, PTL DEF Spec

\* The variables keep their types.
THEOREM TypeCorrect == Spec => []TypeOK
<1>1. IInv => TypeOK BY DEF IInv
<1> QED BY <1>1, Invariant, PTL

\* No byte is lost, repeated or overtaken on its way through the output buffer
\* (TcpConnection.cc:68-70, 121-141).
THEOREM StreamInOrderCorrect == Spec => []StreamInOrder
<1>1. IInv => StreamInOrder BY DEF IInv
<1> QED BY <1>1, Invariant, PTL

\* Writability is waited for exactly while bytes wait (TcpConnection.cc:71-72,
\* 140-145).
THEOREM WritingIffPendingCorrect == Spec => []WritingIffPending
<1>1. IInv => WritingIffPending BY DEF IInv
<1> QED BY <1>1, Invariant, PTL

\* No assert on state_ or on connections_.erase fails (TcpConnection.cc:34, 43,
\* 94, TcpServer.cc:77).
THEOREM LifecycleAssertsCorrect == Spec => []LifecycleAsserts
<1>1. IInv => LifecycleAsserts BY DEF IInv, LifecycleAsserts
<1> QED BY <1>1, Invariant, PTL

\* The connection leaves the map, and then the poller, once and only after the
\* close (TcpConnection.cc:96-99, 42-47).
THEOREM DestroyedInOrderCorrect == Spec => []DestroyedInOrder
<1>1. IInv => DestroyedInOrder
  <2>1. IInv => channel \in Channels /\ baseFunctors \in Nat /\ End
    BY DEF IInv, TypeOK
  <2> QED BY <2>1 DEF End, DestroyedInOrder
<1> QED BY <1>1, Invariant, PTL

\* What the callbacks send before their shutdown() reaches the kernel before the
\* FIN (TcpConnection.cc:71-79, 107-116, 149-161).
THEOREM SentBeforeFinCorrect == Spec => []SentBeforeFin
<1>1. IInv => SentBeforeFin BY DEF IInv
<1> QED BY <1>1, Invariant, PTL
=============================================================================
