--------------------------- MODULE EventLoopThread ---------------------------
(***************************************************************************)
(* An EventLoopThread: the thread Main calls startLoop(), hands the loop   *)
(* to other threads, and destroys the EventLoopThread; the thread it       *)
(* creates keeps an EventLoop on its stack and runs it.  Composes          *)
(* EventLoop, whose "owner" is the created thread.                         *)
(***************************************************************************)
EXTENDS EventLoop

CONSTANTS
  Main,        \* the thread that owns the EventLoopThread
  UsersQuit    \* may users call loop->quit() before the destructor does?

ASSUME ThreadAssumption == Main \in Threads /\ UsersQuit \in BOOLEAN

VARIABLES
  main,      \* where Main is, see MainPlaces
  thread,    \* where threadFunc is, see ThreadPlaces
  mutex_,    \* who holds it; cond_ belongs to it
  loop_,     \* loop_ # NULL
  deadCall   \* history: a call ran on the EventLoop after its destruction

tvars == <<main, thread, mutex_, loop_, deadCall>>
allvars == <<vars, tvars>>

\* "new": before startLoop;  "locking": needs mutex_, at first and after each
\* wait;  "testing": holds it;  "empty": holds it and has seen NULL;
\* "waiting": in cond_.wait, mutex_ released;  "using": startLoop has
\* returned;  "quitting", "joining": in the destructor before and after the
\* wakeup of quit();  "done": destroyed
MainPlaces == {"new", "locking", "testing", "empty", "waiting",
               "using", "quitting", "joining", "done"}

\* "none": not created;  "built": its EventLoop exists;  "holding": has
\* mutex_;  "stored", "notified": after each line under mutex_;
\* "published": calls loop() next;  "looping": in loop();  "ended": the
\* function returned, its EventLoop destroyed
ThreadPlaces == {"none", "created", "built", "holding", "stored", "notified",
                 "published", "looping", "ended"}

TInit ==
  /\ Init
  /\ main = "new" /\ thread = "none"
  /\ mutex_ = "free"
  /\ loop_ = FALSE /\ deadCall = FALSE

\* the EventLoop on the stack of threadFunc exists
Alive == thread \notin {"none", "created", "ended"}

-----------------------------------------------------------------------------
(* startLoop *)

StartLoop ==
  /\ main = "new" /\ thread = "none"
  /\ main' = "locking" /\ thread' = "created"
  /\ UNCHANGED <<vars, mutex_, loop_, deadCall>>

MainLocks ==
  /\ main = "locking" /\ mutex_ = "free"
  /\ main' = "testing" /\ mutex_' = "main"
  /\ UNCHANGED <<vars, thread, loop_, deadCall>>

\* Mutant of TestLoop: loop_ is not looked at.
TestNothing ==
  /\ main = "testing"
  /\ main' = "using" /\ mutex_' = "free"
  /\ UNCHANGED <<vars, thread, loop_, deadCall>>

\* while (loop_ == NULL), and the way out of it
TestLoop ==
  /\ main = "testing"
  /\ IF loop_ THEN main' = "using" /\ mutex_' = "free"
              ELSE main' = "empty" /\ UNCHANGED mutex_
  /\ UNCHANGED <<vars, thread, loop_, deadCall>>

\* pthread_cond_wait: to sleep and to release the mutex are one step
Wait ==
  /\ main = "empty"
  /\ main' = "waiting" /\ mutex_' = "free"
  /\ UNCHANGED <<vars, thread, loop_, deadCall>>

\* POSIX lets the wait end without a notify.
SpuriousWakeup ==
  /\ main = "waiting"
  /\ main' = "locking"
  /\ UNCHANGED <<vars, thread, mutex_, loop_, deadCall>>

-----------------------------------------------------------------------------
(* threadFunc *)

Construct ==
  /\ thread = "created"
  /\ thread' = "built"
  /\ UNCHANGED <<vars, main, mutex_, loop_, deadCall>>

ThreadLocks ==
  /\ thread = "built" /\ mutex_ = "free"
  /\ thread' = "holding" /\ mutex_' = "thread"
  /\ UNCHANGED <<vars, main, loop_, deadCall>>

StoreLoop ==
  /\ thread = "holding"
  /\ thread' = "stored" /\ loop_' = TRUE
  /\ UNCHANGED <<vars, main, mutex_, deadCall>>

\* Mutant of Notify: cond_.notify() is forgotten.
NotifyNobody ==
  /\ thread = "stored"
  /\ thread' = "notified"
  /\ UNCHANGED <<vars, main, mutex_, loop_, deadCall>>

\* A thread asleep in cond_.wait is woken; without one the notify is gone.
Notify ==
  /\ thread = "stored"
  /\ thread' = "notified"
  /\ main' = IF main = "waiting" THEN "locking" ELSE main
  /\ UNCHANGED <<vars, mutex_, loop_, deadCall>>

ThreadUnlocks ==
  /\ thread = "notified"
  /\ thread' = "published" /\ mutex_' = "free"
  /\ UNCHANGED <<vars, main, loop_, deadCall>>

CallLoop ==
  /\ thread = "published" /\ EnterLoop
  /\ thread' = "looping"
  /\ UNCHANGED <<main, mutex_, loop_, deadCall>>

\* loop() returns and with it threadFunc; loop_ keeps its value
LoopReturns ==
  /\ thread = "looping" /\ LeaveLoop
  /\ thread' = "ended"
  /\ UNCHANGED <<main, mutex_, loop_, deadCall>>

LoopRuns ==
  /\ thread = "looping" /\ (LoopStep \/ PollWithoutWakeup) /\ ~LeaveLoop
  /\ UNCHANGED tvars

\* callbacks and functors use the loop from its own thread
CallbackStep ==
  /\ thread = "looping"
  /\ UserStep /\ (OwnerQuit => UsersQuit)
  /\ UNCHANGED tvars

\* what a call on the loop adds: does it find the loop alive?
Call == deadCall' = (deadCall \/ ~Alive)

\* A user's call on the loop that startLoop returned: started while Main keeps
\* the EventLoopThread, and finished before the destructor begins.
UserCall(t) ==
  /\ main = "using"
  /\ \/ \E f \in Functors : ThreadQueue(t, f)
     \/ UsersQuit /\ ThreadQuit(t)
     \/ ThreadWakeup(t)
  /\ Call
  /\ UNCHANGED <<main, thread, mutex_, loop_>>

\* ~EventLoopThread: quit_ is set, the eventfd written, the thread joined.
Destroy ==
  /\ main = "using" /\ \A t \in Threads : pc[t] = "idle"
  /\ ThreadQuit(Main) /\ Call
  /\ main' = "quitting"
  /\ UNCHANGED <<thread, mutex_, loop_>>

\* Mutant of DestroyWakesUp: quit() from another thread without its wakeup().
DestroyOnlySetsFlag ==
  /\ main = "quitting"
  /\ main' = "joining"
  /\ pc' = [pc EXCEPT ![Main] = "idle"]
  /\ UNCHANGED <<at, looping_, quit_, callingPendingFunctors_, pendingFunctors_,
                 functors, wakeupFd_, activeChannels, ran, early, thread,
                 mutex_, loop_, deadCall>>

DestroyWakesUp ==
  /\ main = "quitting"
  /\ ThreadWakeup(Main) /\ Call
  /\ main' = "joining"
  /\ UNCHANGED <<thread, mutex_, loop_>>

Join ==
  /\ main = "joining" /\ thread = "ended"
  /\ main' = "done"
  /\ UNCHANGED <<vars, thread, mutex_, loop_, deadCall>>

\* what each thread does next without a choice of its caller
MainStep == MainLocks \/ TestLoop \/ Wait \/ DestroyWakesUp \/ Join
PublishStep == Construct \/ ThreadLocks \/ StoreLoop \/ Notify \/ ThreadUnlocks
OwnerStep == PublishStep \/ CallLoop \/ LoopReturns
             \/ (thread = "looping" /\ LoopStep /\ ~LeaveLoop /\ UNCHANGED tvars)

TNext ==
  \/ StartLoop \/ MainStep \/ SpuriousWakeup \/ Destroy
  \/ \E t \in Threads : UserCall(t)
  \/ PublishStep \/ CallLoop \/ LoopReturns \/ LoopRuns \/ CallbackStep

TSpec == TInit /\ [][TNext]_allvars

\* Both threads are scheduled and callbacks return; Main need not destroy
\* the EventLoopThread.  The thread gets a mutex that is free again and again,
\* however often Main wakes up for nothing.  No wait ends by itself.
TFairness ==
  /\ WF_allvars(MainStep)
  /\ WF_allvars(OwnerStep)
  /\ SF_allvars(ThreadLocks)
  /\ \A t \in Threads : WF_allvars(main = "using" /\ ThreadWakeup(t) /\ Call
                                   /\ UNCHANGED <<main, thread, mutex_, loop_>>)

TFairSpec == TSpec /\ TFairness

-----------------------------------------------------------------------------
\* startLoop returns (EventLoopThread.cc:22-28) only once the loop exists, and
\* unless somebody quits it, the loop then exists until the destructor runs,
\* though it lives on another thread's stack (EventLoopThread.cc:31, 37), and
\* every call made on it so far has found it there.
StartedLoopIsAlive == (main = "using" /\ ~quit_) => loop_ /\ Alive /\ ~deadCall

\* Once loop_ is set nobody is left asleep on cond_ but by a thread that is
\* about to notify: mutex_ keeps the store out of the stretch from the test
\* of loop_ to the wait (EventLoopThread.cc:23-25, 33-35).
NotifyNotLost == (main = "waiting" /\ loop_) => thread = "stored"

\* startLoop returns whichever side takes mutex_ first, and without help from
\* spurious wakeups: the notify reaches Main if it sleeps, and Main does not
\* go to sleep after it (EventLoopThread.cc:22-26, 33-35).
StartLoopTerminates == (main = "locking") ~> (main = "using")

\* The destructor returns if its quit() finds the loop running
\* (EventLoopThread.cc:16-17): the join is not waited for in vain.
DestructorReturns ==
  (main = "quitting" /\ thread = "looping" /\ quit_) ~> (main = "done")

\* Readme.md:11 says quit() takes effect the next time loop() gets to
\* while(!quit): so the destructor's quit() ends the thread and its join
\* returns.  The code's loop() first resets quit_ (EventLoop.cc:75).
QuitTakesEffect == (main = "quitting") ~> (main = "done")

=============================================================================
