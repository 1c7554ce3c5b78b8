---------------------------- MODULE TcpConnection ----------------------------
(***************************************************************************)
(* One TcpConnection of a TcpServer, from connectEstablished to            *)
(* connectDestroyed: its I/O loop, which alternates between the events of  *)
(* the socket and the functors queued so far; the server's base loop,      *)
(* which takes the connection out of its map; the threads that call send() *)
(* and shutdown(); the peer and the kernel.                                *)
(*                                                                         *)
(* A message is two bytes, so that write() can accept a part of it.        *)
(***************************************************************************)
EXTENDS Integers, Sequences, FiniteSets, Functions

CONSTANTS
  Threads,     \* threads other than the I/O loop's that use the connection
  Messages,    \* sent once each
  Nobody       \* the sender of a message not yet sent

ASSUME NobodyAssumption ==
  Nobody \notin Threads \cup {"loop"} /\ "loop" \notin Threads

VARIABLES
  state_,
  channel,          \* see Channels
  events_,          \* the channel's interest
  outputBuffer_,
  \* the kernel and the peer
  wire,             \* bytes write() accepted
  fin,              \* shutdownWrite() was called
  peer,             \* "open", "closed" (read() returns 0) or "reset"
  \* the I/O loop
  at,               \* "events", or "functors" inside doPendingFunctors
  active,           \* revents of the channel not yet handled
  pendingFunctors_, functors,
  retained,         \* a functor that owns the connection has run, and stays in
                    \* the vector of doPendingFunctors until that returns
  inCallback,       \* a user callback of the connection is running
  \* the server
  baseFunctors,     \* removeConnectionInLoop calls queued in the base loop
  inMap,            \* connections_ holds the connection
  \* users
  pc,               \* how far a thread is in send() or shutdown()
  holds,            \* the threads that keep a TcpConnectionPtr
  \* history
  sender,           \* who sent each message
  accepted,         \* the bytes given to sendInLoop, in order
  closers,          \* who has set kDisconnecting
  stopped           \* "no", or why the run ends here: an assert failed
                    \* ("state", "erase", "poller"), or a functor bound to a raw
                    \* this found the connection freed ("freed")

loopVars == <<at, active, pendingFunctors_, functors, retained, inCallback>>
connVars == <<state_, channel, events_, outputBuffer_>>
kernelVars == <<wire, fin>>
serverVars == <<baseFunctors, inMap>>
userVars == <<pc, holds>>
history == <<sender, accepted, closers>>
vars == <<connVars, kernelVars, peer, loopVars, serverVars, userVars, history,
          stopped>>

States == {"kConnecting", "kConnected", "kDisconnecting", "kDisconnected"}

\* not yet known to the Poller; polled; known but ignored by ::poll, for good,
\* since disableAll; removed
Channels == {"new", "polled", "ignored", "removed"}

Bytes(m) == <<<<m, 1>>, <<m, 2>>>>
AllBytes == Messages \X {1, 2}

\* functors that hold a TcpConnectionPtr, and those that bind a raw this
Owning == {"connectEstablished", "connectDestroyed", "writeComplete"}
Calls == [op : Owning \cup {"shutdownInLoop"}] \cup
         [op : {"sendInLoop"}, message : Messages]
Call(op) == [op |-> op]

TypeOK ==
  /\ state_ \in States /\ channel \in Channels
  /\ events_ \subseteq {"read", "write"}
  /\ outputBuffer_ \in Seq(AllBytes) /\ wire \in Seq(AllBytes)
  /\ fin \in BOOLEAN /\ peer \in {"open", "closed", "reset"}
  /\ at \in {"events", "functors"} /\ active \subseteq {"in", "out"}
  /\ pendingFunctors_ \in Seq(Calls) /\ functors \in Seq(Calls)
  /\ retained \in BOOLEAN /\ inCallback \in BOOLEAN
  /\ baseFunctors \in Nat /\ inMap \in BOOLEAN
  /\ pc \in [Threads -> {"idle", "send", "shutdown", "shutting"}]
  /\ holds \subseteq Threads
  /\ sender \in [Messages -> Threads \cup {"loop", Nobody}]
  /\ accepted \in Seq(AllBytes) /\ closers \subseteq Threads \cup {"loop"}
  /\ stopped \in {"no", "state", "erase", "poller", "freed"}

\* newConnection has made the connection and queued connectEstablished
Init ==
  /\ state_ = "kConnecting" /\ channel = "new" /\ events_ = {}
  /\ outputBuffer_ = <<>> /\ wire = <<>> /\ fin = FALSE /\ peer = "open"
  /\ at = "events" /\ active = {} /\ retained = FALSE /\ inCallback = FALSE
  /\ pendingFunctors_ = <<Call("connectEstablished")>> /\ functors = <<>>
  /\ baseFunctors = 0 /\ inMap = TRUE
  /\ pc = [t \in Threads |-> "idle"] /\ holds = {}
  /\ sender = [m \in Messages |-> Nobody]
  /\ accepted = <<>> /\ closers = {}
  /\ stopped = "no"

Running == stopped = "no"

isWriting == "write" \in events_

\* what n the kernel may answer to write() of s; nothing after the FIN or a
\* reset, where it fails
Accepts(s) == IF fin \/ peer = "reset" THEN {0} ELSE 0 .. Len(s)

Fail(why) ==
  /\ stopped' = why
  /\ UNCHANGED <<connVars, kernelVars, inCallback, serverVars, userVars,
                 sender>>

-----------------------------------------------------------------------------
(* Pieces of handlers, run in the I/O loop. *)

\* Mutant of SendInLoop: written directly though earlier bytes still wait.
SendInLoopOvertakes(m, q) ==
  \E n \in Accepts(Bytes(m)) :
    LET rest == SubSeq(Bytes(m), n + 1, 2)
    IN /\ wire' = wire \o SubSeq(Bytes(m), 1, n)
       /\ outputBuffer_' = outputBuffer_ \o rest
       /\ events_' = IF rest = <<>> THEN events_ ELSE events_ \cup {"write"}
       /\ pendingFunctors_' =
            IF rest = <<>> THEN Append(q, Call("writeComplete")) ELSE q
       /\ accepted' = accepted \o Bytes(m)
       /\ UNCHANGED <<state_, channel, fin, closers, stopped>>

\* sendInLoop; q is the queue of functors, to which writeComplete is appended
SendInLoop(m, q) ==
  \E n \in Accepts(Bytes(m)) :
    LET direct == ~isWriting /\ outputBuffer_ = <<>>
        rest == SubSeq(Bytes(m), n + 1, 2)
        enable == rest # <<>> /\ ~isWriting
    IN /\ direct \/ n = 0
       /\ wire' = wire \o SubSeq(Bytes(m), 1, n)
       /\ outputBuffer_' = outputBuffer_ \o rest
       /\ events_' = IF enable THEN events_ \cup {"write"} ELSE events_
       /\ stopped' = IF enable /\ channel = "removed" THEN "poller" ELSE stopped
       /\ pendingFunctors_' =
            IF rest = <<>> THEN Append(q, Call("writeComplete")) ELSE q
       /\ accepted' = accepted \o Bytes(m)
       /\ UNCHANGED <<state_, channel, fin, closers>>

\* Mutant of ShutdownInLoop: without asking isWriting().
ShutdownInLoopAtOnce == fin' = TRUE

\* shutdownInLoop
ShutdownInLoop == fin' = (fin \/ ~isWriting)

-----------------------------------------------------------------------------
(* The I/O loop *)

\* connectEstablished; the callback passes the TcpConnectionPtr to the threads
ConnectEstablished ==
  IF state_ = "kConnecting"
  THEN /\ state_' = "kConnected"
       /\ channel' = "polled" /\ events_' = {"read"}
       /\ inCallback' = TRUE /\ holds' = Threads
       /\ UNCHANGED <<outputBuffer_, kernelVars, pc, serverVars, sender,
                      stopped>>
  ELSE Fail("state")

\* connectDestroyed; its callback finds the connection down and sends nothing
ConnectDestroyed ==
  IF state_ \in {"kConnected", "kDisconnecting"}
  THEN /\ state_' = "kDisconnected"
       /\ channel' = "removed" /\ events_' = {}
       /\ UNCHANGED <<outputBuffer_, kernelVars, inCallback, serverVars,
                      userVars, sender, stopped>>
  ELSE Fail("state")

\* some TcpConnectionPtr exists besides the functors in the sequence `rest`
Owned(rest) ==
  \/ inMap \/ baseFunctors > 0 \/ holds # {} \/ inCallback \/ retained
  \/ \E f \in Range(rest) \cup Range(pendingFunctors_) : f.op \in Owning

RunFunctor ==
  /\ Running /\ at = "functors" /\ ~inCallback /\ functors # <<>>
  /\ functors' = Tail(functors)
  /\ retained' = (retained \/ Head(functors).op \in Owning)
  /\ LET f == Head(functors)
         alive == f.op \in Owning \/ Owned(Tail(functors))
     IN \/ /\ ~alive
           /\ Fail("freed") /\ UNCHANGED <<pendingFunctors_, accepted,
                                           closers>>
        \/ /\ f.op = "connectEstablished" /\ ConnectEstablished
           /\ UNCHANGED <<pendingFunctors_, accepted, closers>>
        \/ /\ f.op = "connectDestroyed" /\ ConnectDestroyed
           /\ UNCHANGED <<pendingFunctors_, accepted, closers>>
        \/ /\ f.op = "writeComplete" /\ inCallback' = TRUE
           /\ UNCHANGED <<connVars, kernelVars, pendingFunctors_, serverVars,
                          userVars, history, stopped>>
        \/ /\ f.op = "sendInLoop" /\ alive
           /\ SendInLoop(f.message, pendingFunctors_)
           /\ UNCHANGED <<inCallback, serverVars, userVars, sender>>
        \/ /\ f.op = "shutdownInLoop" /\ alive /\ ShutdownInLoop
           /\ UNCHANGED <<wire, connVars, pendingFunctors_, inCallback,
                          serverVars, userVars, history, stopped>>
  /\ UNCHANGED <<peer, at, active>>

\* end of doPendingFunctors and ::poll: the channel is readable if the peer
\* has closed or reset, and may be otherwise; writable when the kernel says so
Poll ==
  /\ Running /\ at = "functors" /\ ~inCallback /\ functors = <<>>
  /\ at' = "events" /\ retained' = FALSE
  /\ active' \in SUBSET {x \in {"in", "out"} :
                           /\ channel = "polled"
                           /\ x = "in" => "read" \in events_
                           /\ x = "out" => isWriting}
  /\ (peer # "open" /\ channel = "polled") => "in" \in active'
  /\ UNCHANGED <<connVars, kernelVars, peer, pendingFunctors_, functors,
                 inCallback, serverVars, userVars, history, stopped>>

\* handleRead with bytes: the message callback runs
HandleMessage ==
  /\ Running /\ at = "events" /\ ~inCallback /\ "in" \in active /\ peer = "open"
  /\ active' = active \ {"in"} /\ inCallback' = TRUE
  /\ UNCHANGED <<connVars, kernelVars, peer, at, pendingFunctors_, functors,
                 retained, serverVars, userVars, history, stopped>>

\* handleRead that fails: handleError clears the error, the next read() is 0
HandleReadError ==
  /\ Running /\ at = "events" /\ ~inCallback /\ "in" \in active /\ peer = "reset"
  /\ active' = active \ {"in"} /\ peer' = "closed"
  /\ UNCHANGED <<connVars, kernelVars, at, pendingFunctors_, functors,
                 retained, inCallback, serverVars, userVars, history, stopped>>

\* Mutants of HandleClose: with the setState(kDisconnected) that is commented
\* out in the code; without disableAll.
HandleCloseSetsState ==
  /\ Running /\ at = "events" /\ ~inCallback /\ "in" \in active /\ peer = "closed"
  /\ active' = active \ {"in"}
  /\ IF state_ \in {"kConnected", "kDisconnecting"}
     THEN /\ events_' = {} /\ channel' = "ignored"
          /\ state_' = "kDisconnected"
          /\ baseFunctors' = baseFunctors + 1
          /\ UNCHANGED <<outputBuffer_, kernelVars, inCallback, inMap,
                         userVars, sender, stopped>>
     ELSE Fail("state")
  /\ UNCHANGED <<peer, at, pendingFunctors_, functors, retained, accepted,
                 closers>>

HandleCloseStaysPolled ==
  /\ Running /\ at = "events" /\ ~inCallback /\ "in" \in active /\ peer = "closed"
  /\ active' = active \ {"in"}
  /\ IF state_ \in {"kConnected", "kDisconnecting"}
     THEN /\ baseFunctors' = baseFunctors + 1
          /\ UNCHANGED <<connVars, kernelVars, inCallback, inMap, userVars,
                         sender, stopped>>
     ELSE Fail("state")
  /\ UNCHANGED <<peer, at, pendingFunctors_, functors, retained, accepted,
                 closers>>

\* handleRead at the end of the stream: handleClose, and removeConnection of
\* the server through the base loop
HandleClose ==
  /\ Running /\ at = "events" /\ ~inCallback /\ "in" \in active /\ peer = "closed"
  /\ active' = active \ {"in"}
  /\ IF state_ \in {"kConnected", "kDisconnecting"}
     THEN /\ events_' = {} /\ channel' = "ignored"
          /\ baseFunctors' = baseFunctors + 1
          /\ UNCHANGED <<state_, outputBuffer_, kernelVars, inCallback, inMap,
                         userVars, sender, stopped>>
     ELSE Fail("state")
  /\ UNCHANGED <<peer, at, pendingFunctors_, functors, retained, accepted,
                 closers>>

\* Mutant of HandleWrite: writing stays enabled when the buffer is empty.
HandleWriteStaysEnabled ==
  /\ Running /\ at = "events" /\ ~inCallback
  /\ "out" \in active /\ "in" \notin active
  /\ active' = active \ {"out"}
  /\ IF ~isWriting
     THEN UNCHANGED <<outputBuffer_, kernelVars>>
     ELSE \E n \in Accepts(outputBuffer_) :
            /\ wire' = wire \o SubSeq(outputBuffer_, 1, n)
            /\ outputBuffer_' = SubSeq(outputBuffer_, n + 1, Len(outputBuffer_))
            /\ fin' = (fin \/ (outputBuffer_' = <<>> /\ state_ = "kDisconnecting"))
  /\ UNCHANGED <<state_, channel, events_, peer, at, pendingFunctors_,
                 functors, retained, inCallback, serverVars, userVars, history,
                 stopped>>

\* handleWrite; shutdownInLoop follows when the last byte was written
HandleWrite ==
  /\ Running /\ at = "events" /\ ~inCallback
  /\ "out" \in active /\ "in" \notin active
  /\ active' = active \ {"out"}
  /\ IF ~isWriting
     THEN UNCHANGED <<connVars, kernelVars, pendingFunctors_>>
     ELSE \E n \in Accepts(outputBuffer_) :
            LET rest == SubSeq(outputBuffer_, n + 1, Len(outputBuffer_))
                drained == n > 0 /\ rest = <<>>
            IN /\ wire' = wire \o SubSeq(outputBuffer_, 1, n)
               /\ outputBuffer_' = rest
               /\ events_' = IF drained THEN events_ \ {"write"} ELSE events_
               /\ pendingFunctors_' =
                    IF drained THEN Append(pendingFunctors_, Call("writeComplete"))
                    ELSE pendingFunctors_
               /\ fin' = (fin \/ (drained /\ state_ = "kDisconnecting"))
               /\ UNCHANGED <<state_, channel>>
  /\ UNCHANGED <<peer, at, functors, retained, inCallback, serverVars,
                 userVars, history, stopped>>

SwapPending ==
  /\ Running /\ at = "events" /\ ~inCallback /\ active = {}
  /\ at' = "functors"
  /\ functors' = pendingFunctors_ /\ pendingFunctors_' = <<>>
  /\ UNCHANGED <<connVars, kernelVars, peer, active, retained, inCallback,
                 serverVars, userVars, history, stopped>>

\* send() and shutdown() from a callback act at once
CallbackSends(m) ==
  /\ Running /\ inCallback /\ sender[m] = Nobody /\ state_ = "kConnected"
  /\ sender' = [sender EXCEPT ![m] = "loop"]
  /\ SendInLoop(m, pendingFunctors_)
  /\ UNCHANGED <<peer, at, active, functors, retained, inCallback, serverVars,
                 userVars>>

CallbackShutsDown ==
  /\ Running /\ inCallback /\ state_ = "kConnected"
  /\ state_' = "kDisconnecting"
  /\ ShutdownInLoop
  /\ closers' = closers \cup {"loop"}
  /\ UNCHANGED <<channel, events_, outputBuffer_, wire, peer, loopVars,
                 serverVars, userVars, sender, accepted, stopped>>

CallbackReturns ==
  /\ Running /\ inCallback /\ inCallback' = FALSE
  /\ UNCHANGED <<connVars, kernelVars, peer, at, active, pendingFunctors_,
                 functors, retained, serverVars, userVars, history, stopped>>

-----------------------------------------------------------------------------
(* Other threads: state_ is read, and for shutdown written, before the     *)
(* functor is queued, each in a step of its own.                           *)

threadUnchanged == <<channel, events_, outputBuffer_, kernelVars, peer, at,
                     active, functors, retained, inCallback, serverVars, accepted,
                     stopped>>

\* send() and shutdown() find the connection connected; otherwise they return
ThreadCalls(t, op) ==
  /\ Running /\ t \in holds /\ pc[t] = "idle" /\ state_ = "kConnected"
  /\ pc' = [pc EXCEPT ![t] = op]
  /\ UNCHANGED <<state_, pendingFunctors_, holds, sender, closers,
                 threadUnchanged>>

ThreadQueuesSend(t, m) ==
  /\ Running /\ pc[t] = "send" /\ sender[m] = Nobody
  /\ pc' = [pc EXCEPT ![t] = "idle"]
  /\ sender' = [sender EXCEPT ![m] = t]
  /\ pendingFunctors_' =
       Append(pendingFunctors_, [op |-> "sendInLoop", message |-> m])
  /\ UNCHANGED <<state_, holds, closers, threadUnchanged>>

ThreadSetsState(t) ==
  /\ Running /\ pc[t] = "shutdown"
  /\ pc' = [pc EXCEPT ![t] = "shutting"]
  /\ state_' = "kDisconnecting"
  /\ closers' = closers \cup {t}
  /\ UNCHANGED <<pendingFunctors_, holds, sender, threadUnchanged>>

ThreadQueuesShutdown(t) ==
  /\ Running /\ pc[t] = "shutting"
  /\ pc' = [pc EXCEPT ![t] = "idle"]
  /\ pendingFunctors_' = Append(pendingFunctors_, Call("shutdownInLoop"))
  /\ UNCHANGED <<state_, holds, sender, closers, threadUnchanged>>

ThreadReleases(t) ==
  /\ Running /\ t \in holds /\ pc[t] = "idle"
  /\ holds' = holds \ {t}
  /\ UNCHANGED <<state_, pendingFunctors_, pc, sender, closers,
                 threadUnchanged>>

-----------------------------------------------------------------------------
\* Mutant of RemoveConnectionInLoop: connectDestroyed is not queued.
RemoveConnectionOnly ==
  /\ Running /\ baseFunctors > 0
  /\ IF inMap
     THEN /\ inMap' = FALSE /\ baseFunctors' = baseFunctors - 1
          /\ UNCHANGED <<connVars, kernelVars, inCallback, userVars, sender,
                         stopped>>
     ELSE Fail("erase")
  /\ UNCHANGED <<peer, at, active, pendingFunctors_, functors, retained,
                 accepted, closers>>

\* removeConnectionInLoop in the base loop
RemoveConnectionInLoop ==
  /\ Running /\ baseFunctors > 0
  /\ IF inMap
     THEN /\ inMap' = FALSE /\ baseFunctors' = baseFunctors - 1
          /\ pendingFunctors_' = Append(pendingFunctors_, Call("connectDestroyed"))
          /\ UNCHANGED <<connVars, kernelVars, inCallback, userVars, sender,
                         stopped>>
     ELSE Fail("erase") /\ UNCHANGED pendingFunctors_
  /\ UNCHANGED <<peer, at, active, functors, retained, accepted, closers>>

PeerCloses ==
  /\ Running /\ peer = "open" /\ peer' \in {"closed", "reset"}
  /\ UNCHANGED <<connVars, kernelVars, loopVars, serverVars, userVars, history,
                 stopped>>

-----------------------------------------------------------------------------
LoopStep ==
  \/ RunFunctor \/ Poll \/ HandleMessage \/ HandleReadError \/ HandleClose
  \/ HandleWrite \/ SwapPending \/ CallbackReturns

ThreadStep(t) ==
  \/ \E op \in {"send", "shutdown"} : ThreadCalls(t, op)
  \/ \E m \in Messages : ThreadQueuesSend(t, m)
  \/ ThreadSetsState(t) \/ ThreadQueuesShutdown(t) \/ ThreadReleases(t)

Next ==
  \/ LoopStep \/ RemoveConnectionInLoop \/ PeerCloses
  \/ CallbackShutsDown
  \/ \E m \in Messages : CallbackSends(m)
  \/ \E t \in Threads : ThreadStep(t)

Spec == Init /\ [][Next]_vars

\* Both loops and the threads inside a call are scheduled, callbacks return.
\* Nothing is assumed of the peer or of the kernel.
FairSpec ==
  /\ Spec
  /\ WF_vars(LoopStep) /\ WF_vars(RemoveConnectionInLoop)
  /\ \A t \in Threads : WF_vars(ThreadSetsState(t) \/ ThreadQueuesShutdown(t))

-----------------------------------------------------------------------------
\* The stream is the messages in the order sendInLoop took them, no byte lost,
\* repeated or overtaken, however write() splits them between the direct write
\* and the output buffer (TcpConnection.cc:68-70, 121-141).
StreamInOrder == wire \o outputBuffer_ = accepted

\* The channel waits for writability exactly while bytes wait to be written,
\* as long as the connection is polled: neither a stuck buffer nor a busy loop
\* (TcpConnection.cc:71-72, 140-145).
WritingIffPending ==
  channel = "polled" => (isWriting <=> outputBuffer_ # <<>>)

\* The asserts on state_ and on connections_.erase hold though close, shutdown
\* and destruction race over two loops and other threads
\* (TcpConnection.cc:34, 43, 94, TcpServer.cc:77).
LifecycleAsserts == stopped \notin {"state", "erase"}

\* The server drops its reference, and the channel leaves the poller, only
\* after the close was handled, in this order, and a connection whose channel
\* is still polled is in the server's map (TcpConnection.cc:96-99, 42-47).
DestroyedInOrder ==
  /\ channel \in {"new", "polled"} => inMap /\ baseFunctors = 0
  /\ channel = "removed" => ~inMap /\ peer # "open"
  /\ baseFunctors <= 1

\* A connection the peer closes is destroyed: both loops do their part
\* (TcpConnection.cc:91-100, 41-48, TcpServer.cc:62-80).
ClosedIsDestroyed ==
  (peer # "open" /\ channel = "polled")
     ~> (channel = "removed" \/ stopped # "no")

\* What the loop's callbacks send before they shut the connection down reaches
\* the kernel before the FIN, as test10.cc:16-20 relies on, whatever other
\* threads send meanwhile (TcpConnection.cc:71-79, 107-116, 149-161).
SentBeforeFin ==
  (fin /\ closers = {"loop"} /\ peer = "open")
    => \A m \in Messages : sender[m] = "loop"
                            => {<<m, 1>>, <<m, 2>>} \subseteq Range(wire)
=============================================================================
