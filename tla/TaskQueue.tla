------------------------------ MODULE TaskQueue ------------------------------
(***************************************************************************)
(* What EventLoop promises to those who hand it functors: a functor given  *)
(* to queueInLoop is invoked once, after every functor queued before it;   *)
(* a functor the loop thread gives to runInLoop is invoked at once, ahead  *)
(* of whatever is queued.  Nothing is dropped and nothing runs twice.      *)
(***************************************************************************)
EXTENDS Sequences, Functions

CONSTANT Tasks

VARIABLES
  queue,    \* tasks submitted and not yet invoked, in order of submission
  done      \* tasks in the order of their invocation

qvars == <<queue, done>>

Known(f) == f \in Range(queue) \cup Range(done)

Init == queue = <<>> /\ done = <<>>

Submit(f) ==
  /\ ~Known(f)
  /\ queue' = Append(queue, f)
  /\ done' = done

ExecuteHead ==
  /\ queue # <<>>
  /\ done' = Append(done, Head(queue))
  /\ queue' = Tail(queue)

ExecuteNow(f) ==
  /\ ~Known(f)
  /\ done' = Append(done, f)
  /\ queue' = queue

Next ==
  \/ \E f \in Tasks : Submit(f) \/ ExecuteNow(f)
  \/ ExecuteHead

Spec == Init /\ [][Next]_qvars
=============================================================================
