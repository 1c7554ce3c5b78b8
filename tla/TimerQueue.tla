------------------------------ MODULE TimerQueue ------------------------------
(***************************************************************************)
(* The TimerQueue of one EventLoop: timers added and cancelled by the loop *)
(* thread, also from inside timer callbacks, and by other threads through  *)
(* functors; the timerfd; the walk over the expired timers and their       *)
(* reset.                                                                  *)
(*                                                                         *)
(* A Timer is named by its sequence number, which stands for its address   *)
(* too.  Time is counted in ticks of 100 us, the least delay the timerfd   *)
(* is ever armed with; the wall clock and the timerfd's clock are one.     *)
(***************************************************************************)
EXTENDS Integers, Sequences, FiniteSets, FiniteSetsExt, Functions

CONSTANTS
  OneSecond,     \* in ticks
  Delays,        \* what runAfter is called with, runAt for a past time included
  Intervals,     \* what runEvery is called with
  MaxTimers,     \* bound on the timers created
  MaxCancels,    \* bound on the timers cancelled
  MaxTime,       \* bound on the clock
  BusyUntil      \* the clock outruns the loop up to here only, so that what
                 \* the loop still has to do fits under MaxTime

ASSUME TimerAssumption ==
  /\ OneSecond \in Nat /\ MaxTimers \in Nat /\ MaxCancels \in Nat /\ MaxTime \in Nat
  /\ BusyUntil \in Nat
  /\ Delays \subseteq Int /\ Intervals \subseteq Nat

VARIABLES
  now,                  \* the clock
  timer,                \* the Timers created, in order: [expiration, interval]
  allocated,            \* those not yet deleted
  timers_,              \* set of <<expiration, timer>>
  activeTimers_,        \* set of <<timer, sequence>>
  cancelingTimers_,     \* likewise
  callingExpiredTimers_,
  timerfd_,             \* when the timerfd becomes readable; Never if disarmed
  expired,              \* the local vector of handleRead
  toRun,                \* its entries whose callback has not been called
  readTime,             \* the local now of handleRead
  inCallback,           \* a timer callback is running
  pendingFunctors,      \* of the loop: [op, timer, sequence]
  due,                  \* history: when each timer may next run
  runs,                 \* history: how often each timer's callback was called
  canceled,             \* history: timers whose cancelInLoop has returned
  canceling             \* history: timers somebody called cancel for

vars == <<now, timer, allocated, timers_, activeTimers_, cancelingTimers_,
          callingExpiredTimers_, timerfd_, expired, toRun, readTime,
          inCallback, pendingFunctors, due, runs, canceled, canceling>>

heap == <<timer, allocated>>
walk == <<callingExpiredTimers_, expired, toRun, readTime, inCallback>>
history == <<due, runs, canceled, canceling>>

Never == -1
Created == 1 .. Len(timer)
Expiration(t) == timer[t].expiration
Interval(t) == timer[t].interval

\* Timer::repeat_
Repeat(t) == Interval(t) > OneSecond

Entry(t) == <<Expiration(t), t>>
ActiveTimer(t) == <<t, t>>

\* the TimerId addTimer returns: its constructor's default sequence
TimerId(t) == [timer |-> t, sequence |-> 0]

TypeOK ==
  /\ now \in 0 .. MaxTime
  /\ timer \in Seq([expiration : Int, interval : Nat])
  /\ allocated \subseteq Created
  /\ timers_ \subseteq Int \X Created
  /\ activeTimers_ \subseteq Created \X Created
  /\ cancelingTimers_ \subseteq Created \X Nat
  /\ callingExpiredTimers_ \in BOOLEAN
  /\ timerfd_ \in Nat \cup {Never}
  /\ expired \subseteq Created /\ toRun \subseteq expired
  /\ readTime \in 0 .. MaxTime
  /\ inCallback \in BOOLEAN
  /\ pendingFunctors \in
       Seq([op : {"add", "cancel"}, timer : Created, sequence : Nat])
  /\ due \in [Created -> Int]
  /\ runs \in [Created -> Nat]
  /\ canceled \subseteq canceling /\ canceling \subseteq Created

Init ==
  /\ now = 0
  /\ timer = <<>> /\ allocated = {}
  /\ timers_ = {} /\ activeTimers_ = {} /\ cancelingTimers_ = {}
  /\ callingExpiredTimers_ = FALSE
  /\ timerfd_ = Never
  /\ expired = {} /\ toRun = {} /\ readTime = 0
  /\ inCallback = FALSE
  /\ pendingFunctors = <<>>
  /\ due = <<>> /\ runs = <<>> /\ canceled = {} /\ canceling = {}

Earliest(entries) == Min({e[1] : e \in entries})

\* howMuchTimerFromNow and timerfd_settime: never less than a tick ahead
Armed(expiration) == Max({expiration, now + 1})

-----------------------------------------------------------------------------
(* The loop thread is in user code outside handleRead, or in a callback. *)
InUserCode == ~callingExpiredTimers_ \/ inCallback

\* Mutant of AddInLoop: a timer in front of the others does not rearm.
AddInLoopBehind(t, when) ==
  /\ timerfd_' = IF timers_ = {} THEN Armed(when) ELSE timerfd_
  /\ timers_' = timers_ \cup {<<when, t>>}
  /\ activeTimers_' = activeTimers_ \cup {ActiveTimer(t)}

\* addTimerInLoop: insert, and rearm if the new timer is the earliest
AddInLoop(t, when) ==
  /\ timerfd_' = IF timers_ = {} \/ when < Earliest(timers_)
                 THEN Armed(when) ELSE timerfd_
  /\ timers_' = timers_ \cup {<<when, t>>}
  /\ activeTimers_' = activeTimers_ \cup {ActiveTimer(t)}

\* new Timer: the next sequence number
NewTimer(when, interval) ==
  /\ Len(timer) < MaxTimers
  /\ timer' = Append(timer, [expiration |-> when, interval |-> interval])
  /\ allocated' = allocated \cup {Len(timer) + 1}
  /\ due' = Append(due, when) /\ runs' = Append(runs, 0)
  /\ UNCHANGED <<now, cancelingTimers_, walk, canceled, canceling>>

\* what runAfter, runAt and runEvery pass to addTimer
Requests == {<<now + d, 0>> : d \in Delays} \cup {<<now + i, i>> : i \in Intervals}

\* addTimer called by the loop thread
LoopAddsTimer ==
  /\ InUserCode
  /\ \E r \in Requests : NewTimer(r[1], r[2]) /\ AddInLoop(Len(timer) + 1, r[1])
  /\ UNCHANGED pendingFunctors

\* addTimer called by another thread: addTimerInLoop becomes a functor
ThreadAddsTimer ==
  /\ \E r \in Requests : NewTimer(r[1], r[2])
  /\ pendingFunctors' = Append(pendingFunctors,
       [op |-> "add", timer |-> Len(timer) + 1, sequence |-> Len(timer) + 1])
  /\ UNCHANGED <<timers_, activeTimers_, timerfd_>>

\* cancelInLoop: a timer in the queue is erased and deleted; one whose
\* callback is being called is kept from being restarted
CancelInLoop(id) ==
  LET key == <<id.timer, id.sequence>>
      found == activeTimers_ \cap {key}
  IN /\ activeTimers_' = activeTimers_ \ found
     /\ timers_' = timers_ \ {Entry(k[1]) : k \in found}
     /\ allocated' = allocated \ {k[1] : k \in found}
     /\ cancelingTimers_' = IF found = {} /\ callingExpiredTimers_
                            THEN cancelingTimers_ \cup {key}
                            ELSE cancelingTimers_
     /\ canceled' = canceled \cup {id.timer}
     /\ UNCHANGED <<now, timer, timerfd_, walk, due, runs>>

\* the bound on calls of cancel
MayCancel(t) == t \notin canceling /\ Cardinality(canceling) < MaxCancels

\* cancel called by the loop thread
LoopCancels(t) ==
  /\ InUserCode /\ MayCancel(t)
  /\ CancelInLoop(TimerId(t))
  /\ canceling' = canceling \cup {t}
  /\ UNCHANGED pendingFunctors

ThreadCancels(t) ==
  /\ MayCancel(t)
  /\ pendingFunctors' = Append(pendingFunctors,
       [op |-> "cancel", timer |-> t, sequence |-> TimerId(t).sequence])
  /\ canceling' = canceling \cup {t}
  /\ UNCHANGED <<now, heap, timers_, activeTimers_, cancelingTimers_, timerfd_,
                 walk, due, runs, canceled>>

\* the loop runs the functors of the other threads one by one, never while a
\* handler is active
RunPending ==
  /\ ~callingExpiredTimers_ /\ pendingFunctors # <<>>
  /\ LET f == Head(pendingFunctors)
     IN \/ /\ f.op = "add"
           /\ AddInLoop(f.timer, Expiration(f.timer))
           /\ UNCHANGED <<now, heap, cancelingTimers_, walk, history>>
        \/ /\ f.op = "cancel"
           /\ CancelInLoop(f)
           /\ UNCHANGED canceling
  /\ pendingFunctors' = Tail(pendingFunctors)

-----------------------------------------------------------------------------
Readable == timerfd_ # Never /\ timerfd_ <= now

\* Mutants of HandleRead: the expired timers stay in activeTimers_; they are
\* walked but not kept for reset.
HandleReadKeepsActive ==
  /\ ~callingExpiredTimers_
  /\ Readable
  /\ timerfd_' = Never /\ readTime' = now
  /\ LET entries == {e \in timers_ : e[1] <= now}
     IN /\ expired' = {e[2] : e \in entries} /\ toRun' = expired'
        /\ timers_' = timers_ \ entries
  /\ callingExpiredTimers_' = TRUE /\ cancelingTimers_' = {}
  /\ UNCHANGED <<now, heap, activeTimers_, inCallback, pendingFunctors, history>>

HandleReadForgets ==
  /\ ~callingExpiredTimers_
  /\ Readable
  /\ timerfd_' = Never /\ readTime' = now
  /\ LET entries == {e \in timers_ : e[1] <= now}
         batch == {e[2] : e \in entries}
     IN /\ toRun' = batch
        /\ timers_' = timers_ \ entries
        /\ activeTimers_' = activeTimers_ \ {ActiveTimer(t) : t \in batch}
  /\ callingExpiredTimers_' = TRUE /\ cancelingTimers_' = {}
  /\ UNCHANGED <<now, heap, expired, inCallback, pendingFunctors, history>>

\* handleRead up to its callbacks: the timerfd is read, the timers due by now
\* leave the queue
HandleRead ==
  /\ ~callingExpiredTimers_
  /\ Readable
  /\ timerfd_' = Never
  /\ readTime' = now
  /\ LET entries == {e \in timers_ : e[1] <= now}
         batch == {e[2] : e \in entries}
     IN /\ expired' = batch /\ toRun' = batch
        /\ timers_' = timers_ \ entries
        /\ activeTimers_' = activeTimers_ \ {ActiveTimer(t) : t \in batch}
  /\ callingExpiredTimers_' = TRUE /\ cancelingTimers_' = {}
  /\ UNCHANGED <<now, heap, inCallback, pendingFunctors, history>>

\* the callbacks are called in the order of expiration
CallTimer(t) ==
  /\ callingExpiredTimers_ /\ ~inCallback
  /\ t \in toRun /\ \A u \in toRun : Expiration(t) <= Expiration(u)
  /\ inCallback' = TRUE /\ toRun' = toRun \ {t}
  /\ runs' = [runs EXCEPT ![t] = @ + 1]
  /\ due' = [due EXCEPT ![t] = readTime + Interval(t)]
  /\ UNCHANGED <<now, heap, timers_, activeTimers_, cancelingTimers_,
                 callingExpiredTimers_, timerfd_, expired, readTime,
                 pendingFunctors, canceled, canceling>>

CallbackReturns ==
  /\ inCallback /\ inCallback' = FALSE
  /\ UNCHANGED <<now, heap, timers_, activeTimers_, cancelingTimers_,
                 callingExpiredTimers_, timerfd_, expired, toRun, readTime,
                 pendingFunctors, history>>

\* Mutants of Reset: every timer is restarted, repeating or not; the timerfd is
\* not armed again.
ResetRestartsAll ==
  /\ callingExpiredTimers_ /\ ~inCallback /\ toRun = {}
  /\ callingExpiredTimers_' = FALSE /\ expired' = {}
  /\ LET next(t) == readTime + Interval(t)
     IN /\ timer' = [t \in Created |->
              IF t \in expired THEN [timer[t] EXCEPT !.expiration = next(t)]
              ELSE timer[t]]
        /\ timers_' = timers_ \cup {<<next(t), t>> : t \in expired}
        /\ activeTimers_' = activeTimers_ \cup {ActiveTimer(t) : t \in expired}
  /\ timerfd_' = IF timers_' = {} THEN timerfd_ ELSE Armed(Earliest(timers_'))
  /\ UNCHANGED <<now, allocated, cancelingTimers_, toRun, readTime, inCallback,
                 pendingFunctors, history>>

ResetDisarmed ==
  /\ callingExpiredTimers_ /\ ~inCallback /\ toRun = {}
  /\ callingExpiredTimers_' = FALSE /\ expired' = {}
  /\ allocated' = allocated \ expired
  /\ UNCHANGED <<now, timer, timers_, activeTimers_, timerfd_, cancelingTimers_,
                 toRun, readTime, inCallback, pendingFunctors, history>>

\* reset: repeating timers are restarted unless cancelled in between, the
\* others deleted; the timerfd is armed for the earliest timer left
Reset ==
  /\ callingExpiredTimers_ /\ ~inCallback /\ toRun = {}
  /\ callingExpiredTimers_' = FALSE /\ expired' = {}
  /\ LET again == {t \in expired :
                     Repeat(t) /\ ActiveTimer(t) \notin cancelingTimers_}
         next(t) == readTime + Interval(t)
     IN /\ timer' = [t \in Created |->
              IF t \in again THEN [timer[t] EXCEPT !.expiration = next(t)]
              ELSE timer[t]]
        /\ timers_' = timers_ \cup {<<next(t), t>> : t \in again}
        /\ activeTimers_' = activeTimers_ \cup {ActiveTimer(t) : t \in again}
        /\ allocated' = allocated \ (expired \ again)
  /\ timerfd_' = IF timers_' = {} THEN timerfd_ ELSE Armed(Earliest(timers_'))
  /\ UNCHANGED <<now, cancelingTimers_, toRun, readTime, inCallback,
                 pendingFunctors, history>>

Idle == ~callingExpiredTimers_ /\ pendingFunctors = <<>> /\ ~Readable

Tick ==
  /\ now < MaxTime /\ now' = now + 1
  /\ now < BusyUntil \/ Idle
  /\ UNCHANGED <<heap, timers_, activeTimers_, cancelingTimers_, walk,
                 timerfd_, pendingFunctors, history>>

-----------------------------------------------------------------------------
QueueStep ==
  RunPending \/ HandleRead \/ (\E t \in Created : CallTimer(t))
    \/ CallbackReturns \/ Reset

Next ==
  \/ LoopAddsTimer \/ ThreadAddsTimer
  \/ \E t \in Created : LoopCancels(t) \/ ThreadCancels(t)
  \/ QueueStep
  \/ Tick

Spec == Init /\ [][Next]_vars

\* time passes; the loop polls, runs its functors and handlers; callbacks
\* return
FairSpec == Spec /\ WF_vars(Tick) /\ WF_vars(QueueStep)

-----------------------------------------------------------------------------
\* The two sets hold the same timers, each under its present expiration and its
\* own sequence number, whatever is added or cancelled from callbacks: the
\* sizes that TimerQueue.cc:103-178 asserts equal, and more.
SameTimers ==
  LET queued == {e[2] : e \in timers_}
  IN /\ timers_ = {Entry(t) : t \in queued}
     /\ activeTimers_ = {ActiveTimer(t) : t \in queued}

\* Every Timer allocated is in exactly one place that will run or delete it:
\* a functor not yet run, the queue, or the expired vector; no place holds a
\* deleted one (TimerQueue.cc:82-83, 110, 189-191).
OwnedOnce ==
  LET adds == {i \in DOMAIN pendingFunctors : pendingFunctors[i].op = "add"}
      inFunctor == {pendingFunctors[i].timer : i \in adds}
      queued == {e[2] : e \in timers_}
  IN /\ allocated = inFunctor \cup queued \cup expired
     /\ Cardinality(allocated) =
          Cardinality(adds) + Cardinality(timers_) + Cardinality(expired)

\* Outside handleRead a queue with timers has its timerfd armed, for the
\* earliest of them or a moment after now if that is past: no timer is missed
\* by inserting it behind, before or during the callbacks of another
\* (TimerQueue.cc:90-91, 124, 194-200).
ArmedForEarliest ==
  (~callingExpiredTimers_ /\ timers_ # {})
     => timerfd_ # Never /\ timerfd_ <= Max({Earliest(timers_), now + 1})

\* A callback is called no earlier than asked for, and a repeating one no
\* earlier than its interval after the handleRead of its last run; one that
\* does not repeat is called once (TimerQueue.cc:166, 186-191, Timer.cc:13-15).
NeverEarlyNorAgain ==
  [][\A t \in Created : runs'[t] # runs[t] =>
       now >= due[t] /\ (runs[t] = 0 \/ Repeat(t))]_vars

\* Every timer that nobody cancels runs, whatever the other timers and threads
\* do, if the bound on the clock leaves it the time (TimerQueue.cc:80-93,
\* 144-201).
TimersRun ==
  \A t \in 1 .. MaxTimers :
    (t \in Created /\ due[t] < MaxTime - 1)
      ~> (t \in Created /\ (runs[t] > 0 \/ t \in canceling))

\* test4.cc:45, 47 cancels a repeating timer from another one, and test4.cc:28-32,
\* 48 a timer from its own callback: from then on it does not expire again.  The
\* TimerId that TimerQueue.cc:84 returns has sequence 0 (TimerId.h:10), and so
\* cancelInLoop never finds its timer.
CanceledNeverExpires ==
  [][\A t \in Created : t \in canceled => t \notin expired' \ expired]_vars
=============================================================================
