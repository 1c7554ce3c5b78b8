------------------------------ MODULE EventLoop ------------------------------
(***************************************************************************)
(* One EventLoop: the thread that owns it and runs loop(), and the other   *)
(* threads that hand it functors or ask it to quit.  A step of the model   *)
(* is a stretch of code between two points where another thread can        *)
(* interfere: the mutex of pendingFunctors_, the eventfd, and the plain    *)
(* flag quit_, which the build (no optimisation) reads and writes in       *)
(* memory, one access at a time.                                           *)
(***************************************************************************)
EXTENDS Sequences, FiniteSets, Functions

CONSTANTS
  Threads,    \* the threads other than the owner of the loop
  Functors    \* the functors handed to the loop, each of them once

VARIABLES
  at,                       \* where the owner is, see Places
  looping_, quit_, callingPendingFunctors_,
  pendingFunctors_,         \* guarded by mutex_
  functors,                 \* the local vector of doPendingFunctors not yet run
  wakeupFd_,                \* the eventfd's counter is positive
  activeChannels,           \* active channels whose handler has not run
  pc,                       \* of the other threads, see TypeOK
  ran,                      \* history: functors in the order of invocation
  early                     \* history: queued by the owner outside loop()

vars == <<at, looping_, quit_, callingPendingFunctors_, pendingFunctors_,
          functors, wakeupFd_, activeChannels, pc, ran, early>>

(***************************************************************************)
(* "out": outside loop();  "check": about to read quit_;  "poll": inside   *)
(* Poller::poll;  "handle": walking activeChannels;  "io": inside a user's *)
(* channel callback;  "run": between two functors of doPendingFunctors;    *)
(* "functor": inside one.                                                  *)
(***************************************************************************)
Places == {"out", "check", "poll", "handle", "io", "run", "functor"}

TypeOK ==
  /\ at \in Places
  /\ looping_ \in BOOLEAN /\ quit_ \in BOOLEAN
  /\ callingPendingFunctors_ \in BOOLEAN
  /\ pendingFunctors_ \in Seq(Functors)
  /\ functors \in Seq(Functors)
  /\ wakeupFd_ \in BOOLEAN
  /\ activeChannels \subseteq {"wakeup", "io"}
  /\ pc \in [Threads -> {"idle", "pushed", "quitting"}]
  /\ ran \in Seq(Functors)
  /\ early \subseteq Functors

Init ==
  /\ at = "out"
  /\ looping_ = FALSE /\ quit_ = FALSE /\ callingPendingFunctors_ = FALSE
  /\ pendingFunctors_ = <<>> /\ functors = <<>>
  /\ wakeupFd_ = FALSE
  /\ activeChannels = {}
  /\ pc = [t \in Threads |-> "idle"]
  /\ ran = <<>> /\ early = {}

\* f has not been handed to the loop: the bound on the number of functors
Fresh(f) == f \notin Range(pendingFunctors_) \cup Range(functors) \cup Range(ran)

-----------------------------------------------------------------------------
(* The other threads.  isInLoopThread() is false for them, so a functor    *)
(* given to runInLoop is queued and both queueInLoop and quit end in       *)
(* wakeup().                                                               *)

ThreadQueue(t, f) ==
  /\ pc[t] = "idle" /\ Fresh(f)
  /\ pendingFunctors_' = Append(pendingFunctors_, f)
  /\ pc' = [pc EXCEPT ![t] = "pushed"]
  /\ UNCHANGED <<at, looping_, quit_, callingPendingFunctors_, functors,
                 wakeupFd_, activeChannels, ran, early>>

\* Mutant of ThreadQuit: without the wakeup().
ThreadQuitSilently(t) ==
  /\ pc[t] = "idle"
  /\ quit_' = TRUE
  /\ UNCHANGED <<at, looping_, callingPendingFunctors_, pendingFunctors_,
                 functors, wakeupFd_, activeChannels, pc, ran, early>>

ThreadQuit(t) ==
  /\ pc[t] = "idle"
  /\ quit_' = TRUE
  /\ pc' = [pc EXCEPT ![t] = "quitting"]
  /\ UNCHANGED <<at, looping_, callingPendingFunctors_, pendingFunctors_,
                 functors, wakeupFd_, activeChannels, ran, early>>

ThreadWakeup(t) ==
  /\ pc[t] # "idle"
  /\ wakeupFd_' = TRUE
  /\ pc' = [pc EXCEPT ![t] = "idle"]
  /\ UNCHANGED <<at, looping_, quit_, callingPendingFunctors_,
                 pendingFunctors_, functors, activeChannels, ran, early>>

-----------------------------------------------------------------------------
(* The owner, in user code: outside loop(), in a channel callback or in a  *)
(* functor.                                                                *)

InUserCode == at \in {"out", "io", "functor"}

\* Mutant of OwnerQueue: callingPendingFunctors_ is not looked at.
OwnerQueueSilently(f) ==
  /\ InUserCode /\ Fresh(f)
  /\ pendingFunctors_' = Append(pendingFunctors_, f)
  /\ early' = IF at = "out" THEN early \cup {f} ELSE early
  /\ UNCHANGED <<at, looping_, quit_, callingPendingFunctors_, functors,
                 wakeupFd_, activeChannels, pc, ran>>

OwnerQueue(f) ==
  /\ InUserCode /\ Fresh(f)
  /\ pendingFunctors_' = Append(pendingFunctors_, f)
  /\ wakeupFd_' = (wakeupFd_ \/ callingPendingFunctors_)
  /\ early' = IF at = "out" THEN early \cup {f} ELSE early
  /\ UNCHANGED <<at, looping_, quit_, callingPendingFunctors_, functors,
                 activeChannels, pc, ran>>

OwnerRunInLoop(f) ==
  /\ InUserCode /\ Fresh(f)
  /\ ran' = Append(ran, f)
  /\ UNCHANGED <<at, looping_, quit_, callingPendingFunctors_,
                 pendingFunctors_, functors, wakeupFd_, activeChannels, pc,
                 early>>

OwnerQuit ==
  /\ InUserCode
  /\ quit_' = TRUE
  /\ UNCHANGED <<at, looping_, callingPendingFunctors_, pendingFunctors_,
                 functors, wakeupFd_, activeChannels, pc, ran, early>>

-----------------------------------------------------------------------------
(* loop() *)

EnterLoop ==
  /\ at = "out" /\ ~looping_
  /\ at' = "check" /\ looping_' = TRUE /\ quit_' = FALSE
  /\ UNCHANGED <<callingPendingFunctors_, pendingFunctors_, functors,
                 wakeupFd_, activeChannels, pc, ran, early>>

LeaveLoop ==
  /\ at = "check" /\ quit_
  /\ at' = "out" /\ looping_' = FALSE
  /\ UNCHANGED <<quit_, callingPendingFunctors_, pendingFunctors_, functors,
                 wakeupFd_, activeChannels, pc, ran, early>>

EnterPoll ==
  /\ at = "check" /\ ~quit_
  /\ at' = "poll" /\ activeChannels' = {}
  /\ UNCHANGED <<looping_, quit_, callingPendingFunctors_, pendingFunctors_,
                 functors, wakeupFd_, pc, ran, early>>

\* ::poll returns: the wakeup channel is active exactly if the eventfd is
\* readable, other channels may be; none after kPollTimeMs or a signal.
PollReturns(io) ==
  /\ at = "poll"
  /\ activeChannels' = io \cup {c \in {"wakeup"} : wakeupFd_}
  /\ at' = "handle"
  /\ UNCHANGED <<looping_, quit_, callingPendingFunctors_, pendingFunctors_,
                 functors, wakeupFd_, pc, ran, early>>

PollWakesUp == wakeupFd_ /\ \E io \in SUBSET {"io"} : PollReturns(io)
PollWithoutWakeup == ~wakeupFd_ /\ \E io \in SUBSET {"io"} : PollReturns(io)

\* EventLoop::handleRead, which empties the eventfd
HandleWakeup ==
  /\ at = "handle" /\ "wakeup" \in activeChannels
  /\ wakeupFd_' = FALSE
  /\ activeChannels' = activeChannels \ {"wakeup"}
  /\ UNCHANGED <<at, looping_, quit_, callingPendingFunctors_,
                 pendingFunctors_, functors, pc, ran, early>>

HandleIo ==
  /\ at = "handle" /\ "io" \in activeChannels
  /\ at' = "io"
  /\ activeChannels' = activeChannels \ {"io"}
  /\ UNCHANGED <<looping_, quit_, callingPendingFunctors_, pendingFunctors_,
                 functors, wakeupFd_, pc, ran, early>>

IoReturns ==
  /\ at = "io" /\ at' = "handle"
  /\ UNCHANGED <<looping_, quit_, callingPendingFunctors_, pendingFunctors_,
                 functors, wakeupFd_, activeChannels, pc, ran, early>>

\* Mutant of SwapPending: the functors are copied, not swapped.
CopyPending ==
  /\ at = "handle" /\ activeChannels = {}
  /\ at' = "run"
  /\ callingPendingFunctors_' = TRUE
  /\ functors' = pendingFunctors_
  /\ UNCHANGED <<looping_, quit_, pendingFunctors_, wakeupFd_, activeChannels,
                 pc, ran, early>>

\* doPendingFunctors up to the end of its critical section
SwapPending ==
  /\ at = "handle" /\ activeChannels = {}
  /\ at' = "run"
  /\ callingPendingFunctors_' = TRUE
  /\ functors' = pendingFunctors_ /\ pendingFunctors_' = <<>>
  /\ UNCHANGED <<looping_, quit_, wakeupFd_, activeChannels, pc, ran, early>>

RunFunctor ==
  /\ at = "run" /\ functors # <<>>
  /\ at' = "functor"
  /\ ran' = Append(ran, Head(functors)) /\ functors' = Tail(functors)
  /\ UNCHANGED <<looping_, quit_, callingPendingFunctors_, pendingFunctors_,
                 wakeupFd_, activeChannels, pc, early>>

FunctorReturns ==
  /\ at = "functor" /\ at' = "run"
  /\ UNCHANGED <<looping_, quit_, callingPendingFunctors_, pendingFunctors_,
                 functors, wakeupFd_, activeChannels, pc, ran, early>>

EndPending ==
  /\ at = "run" /\ functors = <<>>
  /\ at' = "check" /\ callingPendingFunctors_' = FALSE
  /\ UNCHANGED <<looping_, quit_, pendingFunctors_, functors, wakeupFd_,
                 activeChannels, pc, ran, early>>

-----------------------------------------------------------------------------
ThreadStep(t) ==
  \/ \E f \in Functors : ThreadQueue(t, f)
  \/ ThreadQuit(t)
  \/ ThreadWakeup(t)

UserStep == OwnerQuit \/ \E f \in Functors : OwnerQueue(f) \/ OwnerRunInLoop(f)

\* the steps of loop() that need nothing from outside
LoopStep ==
  \/ LeaveLoop \/ EnterPoll \/ PollWakesUp \/ HandleWakeup \/ HandleIo
  \/ IoReturns \/ SwapPending \/ RunFunctor \/ FunctorReturns \/ EndPending

Next ==
  \/ \E t \in Threads : ThreadStep(t)
  \/ UserStep
  \/ EnterLoop
  \/ LoopStep
  \/ PollWithoutWakeup

Spec == Init /\ [][Next]_vars

\* Callbacks and functors return and threads that run are scheduled.  Nothing
\* is assumed of poll's 10 s timeout, of I/O, or of calls to loop(): what is
\* guaranteed below is guaranteed by the wakeup alone.
Fairness ==
  /\ WF_vars(LoopStep)
  /\ \A t \in Threads : WF_vars(ThreadWakeup(t))

FairSpec == Spec /\ Fairness

-----------------------------------------------------------------------------
(* Properties *)

SomeThread(p) == \E t \in Threads : pc[t] = p

\* Asleep in poll() (EventLoop.cc:79) the owner is never left with a functor
\* to run and nobody to wake it: the eventfd is readable or the thread that
\* pushed is about to write it.  Functors the owner queued before loop() are
\* the exception: EventLoop.cc:125 writes no wakeup for them.
NoLostWakeup ==
  (at = "poll" /\ ~(Range(pendingFunctors_) \subseteq early))
     => wakeupFd_ \/ SomeThread("pushed")

\* Asleep in poll() the owner is never left with quit_ set and nobody to wake
\* it: quit() from another thread sets the flag before it writes the eventfd
\* (EventLoop.cc:91-93), and the owner cannot enter poll once it sees it.
NoLostQuit == (at = "poll" /\ quit_) => wakeupFd_ \/ SomeThread("quitting")

\* The strengthening that makes NoLostWakeup inductive: outside doPending-
\* Functors and the handlers that precede it, a pending functor is covered by
\* a wakeup, written or about to be; callingPendingFunctors_, on which the
\* owner's own wakeup hangs (EventLoop.cc:125), says where the owner is.
WakeupCovers ==
  /\ callingPendingFunctors_ <=> at \in {"run", "functor"}
  /\ looping_ <=> at # "out"
  /\ at \notin {"run", "functor"} => functors = <<>>
  /\ Range(pendingFunctors_) \subseteq early \/ at \in {"handle", "io"}
       \/ wakeupFd_ \/ SomeThread("pushed")

\* The loop is a task queue: functors queued by any threads run once each and
\* in the order of queueing, across the swap of doPendingFunctors.
TQ == INSTANCE TaskQueue WITH Tasks <- Functors, done <- ran,
                              queue <- functors \o pendingFunctors_
ImplementsTaskQueue == TQ!Spec

\* Every functor queued while or before the loop runs (other than by the owner
\* before loop()) is run, unless loop() returns first: no help from the poll
\* timeout is needed (EventLoop.cc:117-129, 150-161).
FunctorsRun ==
  \A f \in Functors :
    (f \in Range(pendingFunctors_) \ early) ~> (f \in Range(ran) \/ at = "out")

\* A quit() that finds the loop running ends it (EventLoop.cc:77, 90-95).
QuitEndsLoop == (quit_ /\ looping_) ~> ~looping_
=============================================================================
