--------------------------- MODULE EventLoopProofs ---------------------------
(***************************************************************************)
(* What is proved of EventLoop for any set of threads and of functors: its *)
(* type invariant, that no wakeup and no quit is lost, and that it         *)
(* implements TaskQueue.  And that an EventLoopThread only uses its loop as *)
(* EventLoop lets threads use it, so that all of this holds of its loop    *)
(* too, and that the loop startLoop() returns is alive while it is used.   *)
(***************************************************************************)
EXTENDS EventLoopThread, SequenceTheorems, TLAPS

\* The functors of an empty vector.
LEMMA RangeEmpty == ASSUME NEW S PROVE Range(<<>>) = {}
  BY DEF Range

\* The functors of a vector after push_back.
LEMMA RangeAppend ==
  ASSUME NEW S, NEW s \in Seq(S), NEW e \in S
  PROVE  Range(Append(s, e)) = Range(s) \cup {e}
<1>1. <<e>> \in Seq(S) /\ Append(s, e) = s \o <<e>>
  BY AppendIsConcat
<1>2. Range(<<e>>) = {e}
  BY DEF Range
<1>3. Range(s \o <<e>>) = Range(s) \cup Range(<<e>>)
  BY <1>1, RangeConcatenation, SMTT(60)
<1> QED BY <1>1, <1>2, <1>3

\* push_back to the second of two vectors.
LEMMA AppendConcat ==
  ASSUME NEW S, NEW s \in Seq(S), NEW t \in Seq(S), NEW e \in S
  PROVE  s \o Append(t, e) = Append(s \o t, e)
<1>1. <<e>> \in Seq(S) /\ s \o t \in Seq(S)
  OBVIOUS
<1>2. Append(t, e) = t \o <<e>> /\ Append(s \o t, e) = (s \o t) \o <<e>>
  BY <1>1, AppendIsConcat
<1> QED BY <1>1, <1>2, ConcatAssociative

\* The first functor of two vectors, and the others.
LEMMA HeadTailConcat ==
  ASSUME NEW S, NEW s \in Seq(S), NEW t \in Seq(S), s # <<>>
  PROVE  /\ s \o t # <<>>
         /\ Head(s \o t) = Head(s)
         /\ Tail(s \o t) = Tail(s) \o t
<1>1. /\ Len(s) \in Nat \ {0} /\ Len(t) \in Nat
      /\ Tail(s) \in Seq(S) /\ s \o t \in Seq(S)
      /\ Len(s \o t) = Len(s) + Len(t)
  OBVIOUS
<1>2. s \o t # <<>> /\ Head(s \o t) = Head(s)
  BY <1>1
<1>3. Tail(s \o t) \in Seq(S) /\ Tail(s) \o t \in Seq(S)
  BY <1>1, <1>2
<1>4. Len(Tail(s \o t)) = Len(Tail(s) \o t)
  BY <1>1, <1>2
<1>5. \A i \in 1 .. Len(Tail(s \o t)) : Tail(s \o t)[i] = (Tail(s) \o t)[i]
  BY <1>1, <1>2
<1>6. Tail(s \o t) = Tail(s) \o t
  BY <1>3, <1>4, <1>5, SeqEqual
<1> QED BY <1>2, <1>6

-----------------------------------------------------------------------------
\* The state of the loop keeps its types, whatever threads and callbacks do.
THEOREM TypeCorrect == Spec => []TypeOK
<1>1. Init => TypeOK
  <2> SUFFICES ASSUME Init PROVE TypeOK
    OBVIOUS
  <2>1. /\ looping_ \in BOOLEAN /\ quit_ \in BOOLEAN
        /\ callingPendingFunctors_ \in BOOLEAN /\ wakeupFd_ \in BOOLEAN
    BY DEF Init
  <2>2. pc \in [Threads -> {"idle", "pushed", "quitting"}]
    BY DEF Init
  <2>3. /\ at \in Places /\ activeChannels \subseteq {"wakeup", "io"}
        /\ pendingFunctors_ \in Seq(Functors) /\ functors \in Seq(Functors)
        /\ ran \in Seq(Functors) /\ early \subseteq Functors
    BY DEF Init, Places
  <2> QED BY <2>1, <2>2, <2>3 DEF TypeOK
<1>2. TypeOK /\ [Next]_vars => TypeOK'
  <2> SUFFICES ASSUME TypeOK, [Next]_vars PROVE TypeOK'
    OBVIOUS
  <2> USE DEF TypeOK, Places
  <2>1. ASSUME NEW t \in Threads, ThreadStep(t) PROVE TypeOK'
    <3>1. ASSUME NEW f \in Functors, ThreadQueue(t, f) PROVE TypeOK'
      BY <3>1 DEF ThreadQueue
    <3>2. CASE ThreadQuit(t) BY <3>2 DEF ThreadQuit
    <3>3. CASE ThreadWakeup(t) BY <3>3 DEF ThreadWakeup
    <3> QED BY <2>1, <3>1, <3>2, <3>3 DEF ThreadStep
  <2>2. CASE UserStep
    <3>1. ASSUME NEW f \in Functors, OwnerQueue(f) PROVE TypeOK'
      BY <3>1 DEF OwnerQueue
    <3>2. ASSUME NEW f \in Functors, OwnerRunInLoop(f) PROVE TypeOK'
      BY <3>2 DEF OwnerRunInLoop
    <3>3. CASE OwnerQuit BY <3>3 DEF OwnerQuit
    <3> QED BY <2>2, <3>1, <3>2, <3>3 DEF UserStep
  <2>3. CASE EnterLoop
    BY <2>3 DEF EnterLoop
  <2>4. CASE LoopStep
    <3>1. CASE LeaveLoop BY <3>1 DEF LeaveLoop
    <3>2. CASE EnterPoll BY <3>2 DEF EnterPoll
    <3>3. CASE PollWakesUp BY <3>3 DEF PollWakesUp, PollReturns
    <3>4. CASE HandleWakeup BY <3>4 DEF HandleWakeup
    <3>5. CASE HandleIo BY <3>5 DEF HandleIo
    <3>6. CASE IoReturns BY <3>6 DEF IoReturns
    <3>7. CASE SwapPending BY <3>7 DEF SwapPending
    <3>8. CASE RunFunctor BY <3>8 DEF RunFunctor
    <3>9. CASE FunctorReturns BY <3>9 DEF FunctorReturns
    <3>10. CASE EndPending BY <3>10 DEF EndPending
    <3> QED BY <2>4, <3>1, <3>2, <3>3, <3>4, <3>5, <3>6, <3>7, <3>8, <3>9,
               <3>10 DEF LoopStep
  <2>5. CASE PollWithoutWakeup
    BY <2>5 DEF PollWithoutWakeup, PollReturns
  <2>6. CASE UNCHANGED vars
    BY <2>6 DEF vars
  <2> QED BY <2>1, <2>2, <2>3, <2>4, <2>5, <2>6 DEF Next
<1> QED BY <1>1, <1>2, PTL DEF Spec
-----------------------------------------------------------------------------
\* A quit from another thread always reaches a loop asleep in poll.  Only the
\* order of the two steps of quit() matters, so the property is inductive.
THEOREM NoLostQuitCorrect == Spec => []NoLostQuit
<1>1. Init => NoLostQuit
  BY DEF Init, NoLostQuit
<1>2. TypeOK /\ NoLostQuit /\ [Next]_vars => NoLostQuit'
  <2> SUFFICES ASSUME TypeOK, NoLostQuit, [Next]_vars, at' = "poll", quit_'
               PROVE  wakeupFd_' \/ SomeThread("quitting")'
    BY DEF NoLostQuit
  <2> USE DEF TypeOK, NoLostQuit, SomeThread
  <2>1. ASSUME NEW t \in Threads, ThreadStep(t)
        PROVE  wakeupFd_' \/ SomeThread("quitting")'
    <3>1. ASSUME NEW f \in Functors, ThreadQueue(t, f)
          PROVE  wakeupFd_' \/ SomeThread("quitting")'
      BY <3>1 DEF ThreadQueue
    <3>2. CASE ThreadQuit(t)
      <4>1. pc'[t] = "quitting" BY <3>2 DEF ThreadQuit
      <4> QED BY <4>1
    <3>3. CASE ThreadWakeup(t) BY <3>3 DEF ThreadWakeup
    <3> QED BY <2>1, <3>1, <3>2, <3>3 DEF ThreadStep
  <2>2. CASE UserStep
    BY <2>2 DEF UserStep, InUserCode, OwnerQuit, OwnerQueue, OwnerRunInLoop
  <2>3. CASE EnterLoop BY <2>3 DEF EnterLoop
  <2>4. CASE LoopStep
    BY <2>4 DEF LoopStep, LeaveLoop, EnterPoll, PollWakesUp, PollReturns,
       HandleWakeup, HandleIo, IoReturns, SwapPending, RunFunctor,
       FunctorReturns, EndPending
  <2>5. CASE PollWithoutWakeup
    BY <2>5 DEF PollWithoutWakeup, PollReturns
  <2>6. CASE UNCHANGED vars
    BY <2>6 DEF vars
  <2> QED BY <2>1, <2>2, <2>3, <2>4, <2>5, <2>6 DEF Next
<1> QED BY <1>1, <1>2, TypeCorrect, PTL DEF Spec

\* The invariant behind NoLostWakeup, see WakeupCovers.
LEMMA WakeupCoversInductive ==
  TypeOK /\ WakeupCovers /\ [Next]_vars => WakeupCovers'
<1> SUFFICES ASSUME TypeOK, WakeupCovers, [Next]_vars PROVE WakeupCovers'
  OBVIOUS
<1> USE DEF WakeupCovers
<1> DEFINE Covered == \/ Range(pendingFunctors_) \subseteq early
                      \/ at \in {"handle", "io"}
                      \/ wakeupFd_
                      \/ SomeThread("pushed")
<1>a. pendingFunctors_ \in Seq(Functors) /\ at \in Places
      /\ pc \in [Threads -> {"idle", "pushed", "quitting"}]
  BY DEF TypeOK
<1>1. ASSUME NEW t \in Threads, ThreadStep(t) PROVE WakeupCovers'
  <2>1. ASSUME NEW f \in Functors, ThreadQueue(t, f) PROVE WakeupCovers'
    <3>1. pc'[t] = "pushed" BY <2>1, <1>a DEF ThreadQueue
    <3>2. Covered' BY <3>1 DEF SomeThread
    <3>3. UNCHANGED <<at, looping_, callingPendingFunctors_, functors>>
      BY <2>1 DEF ThreadQueue
    <3> QED BY <3>2, <3>3
  <2>2. CASE ThreadQuit(t)
    <3>1. SomeThread("pushed") => SomeThread("pushed")'
      <4>1. \A u \in Threads : pc[u] = "pushed" => pc'[u] = "pushed"
        BY <2>2, <1>a DEF ThreadQuit
      <4> QED BY <4>1 DEF SomeThread
    <3> QED BY <2>2, <3>1 DEF ThreadQuit
  <2>3. CASE ThreadWakeup(t)
    BY <2>3 DEF ThreadWakeup
  <2> QED BY <1>1, <2>1, <2>2, <2>3 DEF ThreadStep
<1>2. CASE UserStep
  <2>1. ASSUME NEW f \in Functors, OwnerQueue(f) PROVE WakeupCovers'
    <3>1. Range(pendingFunctors_') = Range(pendingFunctors_) \cup {f}
      BY <2>1, <1>a, RangeAppend DEF OwnerQueue
    <3>2. CASE at = "out"
      <4>1. early' = early \cup {f} BY <2>1, <3>2 DEF OwnerQueue
      <4> QED BY <2>1, <3>1, <3>2, <4>1 DEF OwnerQueue, SomeThread
    <3>3. CASE at = "io" BY <2>1, <3>3 DEF OwnerQueue
    <3>4. CASE at = "functor" BY <2>1, <3>4 DEF OwnerQueue
    <3> QED BY <2>1, <3>2, <3>3, <3>4 DEF OwnerQueue, InUserCode
  <2>2. ASSUME NEW f \in Functors, OwnerRunInLoop(f) PROVE WakeupCovers'
    BY <2>2 DEF OwnerRunInLoop, SomeThread
  <2>3. CASE OwnerQuit BY <2>3 DEF OwnerQuit, SomeThread
  <2> QED BY <1>2, <2>1, <2>2, <2>3 DEF UserStep
<1>3. CASE EnterLoop BY <1>3 DEF EnterLoop, SomeThread
<1>4. CASE LoopStep
  <2>1. CASE LeaveLoop BY <2>1 DEF LeaveLoop, SomeThread
  <2>2. CASE EnterPoll BY <2>2 DEF EnterPoll, SomeThread
  <2>3. CASE PollWakesUp BY <2>3 DEF PollWakesUp, PollReturns
  <2>4. CASE HandleWakeup BY <2>4 DEF HandleWakeup
  <2>5. CASE HandleIo BY <2>5 DEF HandleIo
  <2>6. CASE IoReturns BY <2>6 DEF IoReturns
  <2>7. CASE SwapPending
    <3>1. Range(pendingFunctors_') = {} BY <2>7, RangeEmpty DEF SwapPending
    <3> QED BY <2>7, <3>1 DEF SwapPending
  <2>8. CASE RunFunctor BY <2>8 DEF RunFunctor, SomeThread
  <2>9. CASE FunctorReturns BY <2>9 DEF FunctorReturns, SomeThread
  <2>10. CASE EndPending BY <2>10 DEF EndPending, SomeThread
  <2> QED BY <1>4, <2>1, <2>2, <2>3, <2>4, <2>5, <2>6, <2>7, <2>8, <2>9,
             <2>10 DEF LoopStep
<1>5. CASE PollWithoutWakeup
  BY <1>5 DEF PollWithoutWakeup, PollReturns
<1>6. CASE UNCHANGED vars
  BY <1>6 DEF vars, SomeThread
<1> QED BY <1>1, <1>2, <1>3, <1>4, <1>5, <1>6 DEF Next

\* The flags tell the truth about where the owner is, and a pending functor is
\* always covered by a wakeup or about to be run.
THEOREM WakeupCoversCorrect == Spec => []WakeupCovers
<1>1. Init => WakeupCovers
  BY RangeEmpty DEF Init, WakeupCovers
<1> QED BY <1>1, WakeupCoversInductive, TypeCorrect, PTL DEF Spec

\* No thread's functor waits in a sleeping loop for the poll timeout.
THEOREM NoLostWakeupCorrect == Spec => []NoLostWakeup
<1>1. WakeupCovers => NoLostWakeup
  BY DEF WakeupCovers, NoLostWakeup
<1> QED BY <1>1, WakeupCoversCorrect, PTL
-----------------------------------------------------------------------------
\* EventLoop implements TaskQueue: whichever threads queue functors and however
\* doPendingFunctors moves them from one vector to the other, each runs once
\* and in the order of queueing.
THEOREM ImplementsTaskQueueCorrect == Spec => ImplementsTaskQueue
<1> DEFINE Q == functors \o pendingFunctors_
<1>1. Init => TQ!Init
  BY DEF Init, TQ!Init
<1>2. TypeOK /\ WakeupCovers /\ [Next]_vars => [TQ!Next]_(TQ!qvars)
  <2> SUFFICES ASSUME TypeOK, WakeupCovers, [Next]_vars
               PROVE  TQ!Next \/ UNCHANGED TQ!qvars
    OBVIOUS
  <2>a. /\ pendingFunctors_ \in Seq(Functors) /\ functors \in Seq(Functors)
        /\ ran \in Seq(Functors)
    BY DEF TypeOK
  <2>b. ASSUME NEW f \in Functors, Fresh(f) PROVE ~TQ!Known(f)
    <3>1. Range(Q) = Range(functors) \cup Range(pendingFunctors_)
      BY <2>a, RangeConcatenation
    <3>2. TQ!Range(Q) = Range(Q) /\ TQ!Range(ran) = Range(ran)
      BY DEF TQ!Range, Range
    <3> QED BY <3>1, <3>2, <2>b DEF Fresh, TQ!Known
  <2>c. ASSUME NEW f \in Functors, Fresh(f), UNCHANGED <<functors, ran>>,
               pendingFunctors_' = Append(pendingFunctors_, f)
        PROVE  TQ!Submit(f)
    <3>1. Q' = Append(Q, f)
      BY <2>a, <2>c, AppendConcat
    <3> QED BY <3>1, <2>b, <2>c DEF TQ!Submit
  <2>d. ASSUME UNCHANGED <<functors, ran, pendingFunctors_>>
        PROVE  UNCHANGED TQ!qvars
    BY <2>d DEF TQ!qvars
  <2>1. ASSUME NEW t \in Threads, ThreadStep(t)
        PROVE  TQ!Next \/ UNCHANGED TQ!qvars
    <3>1. ASSUME NEW f \in Functors, ThreadQueue(t, f) PROVE TQ!Next
      BY <3>1, <2>c DEF ThreadQueue, TQ!Next
    <3>2. CASE ThreadQuit(t) BY <3>2, <2>d DEF ThreadQuit
    <3>3. CASE ThreadWakeup(t) BY <3>3, <2>d DEF ThreadWakeup
    <3> QED BY <2>1, <3>1, <3>2, <3>3 DEF ThreadStep
  <2>2. CASE UserStep
    <3>1. ASSUME NEW f \in Functors, OwnerQueue(f) PROVE TQ!Next
      BY <3>1, <2>c DEF OwnerQueue, TQ!Next
    <3>2. ASSUME NEW f \in Functors, OwnerRunInLoop(f) PROVE TQ!Next
      <4>1. TQ!ExecuteNow(f)
        BY <3>2, <2>b DEF OwnerRunInLoop, TQ!ExecuteNow
      <4> QED BY <4>1 DEF TQ!Next
    <3>3. CASE OwnerQuit BY <3>3, <2>d DEF OwnerQuit
    <3> QED BY <2>2, <3>1, <3>2, <3>3 DEF UserStep
  <2>3. CASE EnterLoop BY <2>3, <2>d DEF EnterLoop
  <2>4. CASE LoopStep
    <3>1. CASE SwapPending
      <4>1. functors = <<>> BY <3>1 DEF SwapPending, WakeupCovers
      <4>2. Q = pendingFunctors_ /\ Q' = pendingFunctors_
        BY <4>1, <3>1, <2>a, ConcatEmptySeq DEF SwapPending
      <4> QED BY <4>2, <3>1 DEF SwapPending, TQ!qvars
    <3>2. CASE RunFunctor
      <4>1. /\ functors # <<>> /\ ran' = Append(ran, Head(functors))
            /\ functors' = Tail(functors)
            /\ pendingFunctors_' = pendingFunctors_
        BY <3>2 DEF RunFunctor
      <4>2. Q # <<>> /\ Head(Q) = Head(functors) /\ Tail(Q) = Q'
        BY <4>1, <2>a, HeadTailConcat
      <4> QED BY <4>1, <4>2 DEF TQ!ExecuteHead, TQ!Next
    <3>3. CASE \/ LeaveLoop \/ EnterPoll \/ PollWakesUp \/ HandleWakeup
               \/ HandleIo \/ IoReturns \/ FunctorReturns \/ EndPending
      BY <3>3, <2>d DEF LeaveLoop, EnterPoll, PollWakesUp, PollReturns,
         HandleWakeup, HandleIo, IoReturns, FunctorReturns, EndPending
    <3> QED BY <2>4, <3>1, <3>2, <3>3 DEF LoopStep
  <2>5. CASE PollWithoutWakeup
    BY <2>5, <2>d DEF PollWithoutWakeup, PollReturns
  <2>6. CASE UNCHANGED vars
    BY <2>6, <2>d DEF vars
  <2> QED BY <2>1, <2>2, <2>3, <2>4, <2>5, <2>6 DEF Next
<1>3. Spec => []TypeOK /\ []WakeupCovers
  BY TypeCorrect, WakeupCoversCorrect, PTL
<1> QED BY <1>1, <1>2, <1>3, PTL DEF Spec, ImplementsTaskQueue, TQ!Spec
-----------------------------------------------------------------------------
\* The loop of an EventLoopThread runs and is used as EventLoop describes: the
\* theorems about EventLoop are theorems about it (EventLoopThread.cc:16-40).
THEOREM ThreadUsesLoop == TSpec => Spec
<1>1. TInit => Init
  BY DEF TInit
<1>2. [TNext]_allvars => [Next]_vars
  <2> SUFFICES ASSUME [TNext]_allvars PROVE [Next]_vars
    OBVIOUS
  <2>1. CASE StartLoop \/ SpuriousWakeup \/ Join \/ UNCHANGED allvars
    BY <2>1 DEF StartLoop, SpuriousWakeup, Join, allvars
  <2>7. CASE MainLocks \/ TestLoop \/ Wait
    BY <2>7 DEF MainLocks, TestLoop, Wait
  <2>8. CASE PublishStep
    BY <2>8 DEF PublishStep, Construct, ThreadLocks, StoreLoop, Notify, ThreadUnlocks
  <2>2. CASE DestroyWakesUp \/ Destroy
    <3>1. Main \in Threads
      BY ThreadAssumption
    <3> QED BY <2>2, <3>1 DEF DestroyWakesUp, Destroy, Next, ThreadStep
  <2>3. ASSUME NEW t \in Threads, UserCall(t) PROVE Next
    BY <2>3 DEF UserCall, Next, ThreadStep
  <2>4. CASE CallLoop \/ LoopReturns
    BY <2>4 DEF CallLoop, LoopReturns, Next, LoopStep
  <2>5. CASE LoopRuns
    BY <2>5 DEF LoopRuns, Next
  <2>6. CASE CallbackStep
    BY <2>6 DEF CallbackStep, Next
  <2> QED BY <2>1, <2>2, <2>3, <2>4, <2>5, <2>6, <2>7, <2>8 DEF TNext, MainStep
<1> QED BY <1>1, <1>2, PTL DEF TSpec, Spec

\* What the two threads know of each other: loop_ says that the loop has been
\* built, nobody uses it before, and it is gone only after a quit().  The
\* holder of mutex_ is at a place under it, so what Main has read of loop_
\* there still holds, and a sleeping Main is owed a notify.
ThreadInv ==
  /\ loop_ <=> thread \notin {"none", "created", "built", "holding"}
  /\ main \in {"testing", "empty"} <=> mutex_ = "main"
  /\ thread \in {"holding", "stored", "notified"} <=> mutex_ = "thread"
  /\ main = "empty" => ~loop_
  /\ NotifyNotLost
  /\ main \in {"using", "quitting"} => loop_
  /\ thread \in ThreadPlaces
  /\ thread = "ended" => quit_
  /\ deadCall => thread = "ended"

\* The steps of a running loop leave quit_ alone.
LEMMA LoopKeepsQuit ==
  LoopStep \/ PollWithoutWakeup => quit_' = quit_
<1>1. LeaveLoop \/ EnterPoll \/ HandleWakeup \/ HandleIo \/ IoReturns => quit_' = quit_
  BY DEF LeaveLoop, EnterPoll, HandleWakeup, HandleIo, IoReturns
<1>2. SwapPending \/ RunFunctor \/ FunctorReturns \/ EndPending => quit_' = quit_
  BY DEF SwapPending, RunFunctor, FunctorReturns, EndPending
<1>3. PollWakesUp \/ PollWithoutWakeup => quit_' = quit_
  BY DEF PollWakesUp, PollWithoutWakeup, PollReturns
<1> QED BY <1>1, <1>2, <1>3 DEF LoopStep

\* Every step of the threads keeps it.
LEMMA ThreadInductive == ThreadInv /\ [TNext]_allvars => ThreadInv'
<1> SUFFICES ASSUME ThreadInv, [TNext]_allvars PROVE ThreadInv'
  OBVIOUS
<1> USE DEF ThreadInv, ThreadPlaces, NotifyNotLost
<1>1. CASE StartLoop
  BY <1>1 DEF StartLoop, vars
<1>2. CASE MainLocks \/ TestLoop
  BY <1>2 DEF MainLocks, TestLoop, vars
<1>3. CASE Wait \/ SpuriousWakeup \/ Join
  BY <1>3 DEF Wait, SpuriousWakeup, Join, vars
<1>10. CASE Construct \/ ThreadLocks \/ StoreLoop
  BY <1>10 DEF Construct, ThreadLocks, StoreLoop, vars
<1>11. CASE Notify \/ ThreadUnlocks
  BY <1>11 DEF Notify, ThreadUnlocks, vars
<1>4. CASE CallLoop
  BY <1>4 DEF CallLoop, EnterLoop
<1>5. CASE LoopReturns
  BY <1>5 DEF LoopReturns, LeaveLoop
<1>6. CASE LoopRuns
  <2>1. quit_' = quit_
    BY <1>6, LoopKeepsQuit DEF LoopRuns
  <2> QED BY <1>6, <2>1 DEF LoopRuns, tvars
<1>7. CASE CallbackStep
  <2>1. quit_ => quit_'
    BY <1>7 DEF CallbackStep, UserStep, OwnerQuit, OwnerQueue, OwnerRunInLoop
  <2> QED BY <1>7, <2>1 DEF CallbackStep, tvars
<1>8. CASE \/ \E t \in Threads : UserCall(t)
           \/ Destroy \/ DestroyWakesUp
  <2>1. quit_ => quit_'
    BY <1>8 DEF UserCall, Destroy, DestroyWakesUp, ThreadQueue, ThreadQuit, ThreadWakeup
  <2>2. /\ UNCHANGED <<thread, mutex_, loop_>> /\ loop_
        /\ main' \in {"using", "quitting", "joining"} /\ mutex_ # "main"
    BY <1>8 DEF UserCall, Destroy, DestroyWakesUp
  <2>3. deadCall' = (deadCall \/ ~Alive)
    BY <1>8 DEF UserCall, Destroy, DestroyWakesUp, Call
  <2>4. Alive \/ thread = "ended"
    BY <2>2 DEF Alive
  <2> QED BY <2>1, <2>2, <2>3, <2>4
<1>9. CASE UNCHANGED allvars
  BY <1>9 DEF allvars, tvars, vars
<1> QED BY <1>1, <1>2, <1>3, <1>4, <1>5, <1>6, <1>7, <1>8, <1>9, <1>10, <1>11
        DEF TNext, MainStep, PublishStep

\* The loop that startLoop() returned is alive, and no call has missed it,
\* unless it was told to quit (EventLoopThread.cc:22-28, 31-37).
THEOREM StartedLoopIsAliveCorrect == TSpec => []StartedLoopIsAlive
<1>1. TInit => ThreadInv
  BY DEF TInit, ThreadInv, ThreadPlaces, NotifyNotLost
<1>2. ThreadInv => StartedLoopIsAlive
  BY DEF ThreadInv, StartedLoopIsAlive, Alive, ThreadPlaces
<1> QED BY <1>1, <1>2, ThreadInductive, PTL DEF TSpec

\* The notify of threadFunc is not lost: with loop_ set, startLoop sleeps only
\* until the thread that set it notifies (EventLoopThread.cc:23-25, 33-35).
THEOREM NotifyNotLostCorrect == TSpec => []NotifyNotLost
<1>1. TInit => ThreadInv
  BY DEF TInit, ThreadInv, ThreadPlaces, NotifyNotLost
<1>2. ThreadInv => NotifyNotLost
  BY DEF ThreadInv
<1> QED BY <1>1, <1>2, ThreadInductive, PTL DEF TSpec

\* No wakeup of the loop of an EventLoopThread is lost, nor a quit()
\* (EventLoop.cc:121-132, 156-161, 74-96).
THEOREM ThreadLosesNoWakeup == TSpec => []NoLostWakeup /\ []NoLostQuit
BY ThreadUsesLoop, NoLostWakeupCorrect, NoLostQuitCorrect, PTL
=============================================================================
