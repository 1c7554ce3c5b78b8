------------------------------ MODULE TcpServer ------------------------------
(***************************************************************************)
(* A TcpServer with its Acceptor and its EventLoopThreadPool: connections  *)
(* are accepted in the base loop, handed to the loops of the pool in turn, *)
(* closed there, taken out of the server's map in the base loop, destroyed *)
(* in their own loop, and freed with the last TcpConnectionPtr.            *)
(*                                                                         *)
(* Each loop alternates between the handlers of the channels that poll     *)
(* reported and the functors queued by then; a functor holds its           *)
(* TcpConnectionPtr until the whole batch has run.  Connections are named  *)
(* by their number; what else happens on one is in TcpConnection.          *)
(***************************************************************************)
EXTENDS Integers, Sequences, FiniteSets, Functions

CONSTANTS
  MaxThreads,       \* bound on setThreadNum
  MaxConnections    \* bound on the connections accepted

ASSUME ServerAssumption == MaxThreads \in Nat /\ MaxConnections \in Nat

Base == 0
Loops == 0 .. MaxThreads
Connections == 1 .. MaxConnections
Acceptor == 0      \* among the channels poll reports

VARIABLES
  \* TcpServer, Acceptor, EventLoopThreadPool
  numThreads_, listening_, next_, nextConnId_, connections_,
  \* of each connection
  home,             \* its loop
  phase,            \* see Phases
  \* of each loop
  at,               \* "events", or "functors" inside doPendingFunctors
  active,           \* channels reported and not yet handled
  pendingFunctors_,
  functors,         \* the local vector of doPendingFunctors
  done,             \* how many of them have run
  aborted           \* an assert failed

serverVars == <<numThreads_, listening_, next_, nextConnId_, connections_>>
connVars == <<home, phase>>
loopVars == <<at, active, pendingFunctors_, functors, done>>
vars == <<serverVars, connVars, loopVars, aborted>>

\* not accepted; made; established; handleClose has run; connectDestroyed has
\* run.  The Poller of its loop knows the connection while it is "up" or
\* "closed", and reports it only while it is "up".
Phases == {"none", "connecting", "up", "closed", "destroyed"}

Calls == [op : {"establish", "remove", "destroy"}, conn : Connections]

TypeOK ==
  /\ numThreads_ \in 0 .. MaxThreads /\ listening_ \in BOOLEAN
  /\ next_ = 0 \/ next_ \in 1 .. numThreads_ - 1
  /\ nextConnId_ \in 1 .. MaxConnections + 1
  /\ connections_ \subseteq Connections
  /\ home \in [Connections -> Loops] /\ phase \in [Connections -> Phases]
  /\ at \in [Loops -> {"events", "functors"}]
  /\ active \in [Loops -> SUBSET (Connections \cup {Acceptor})]
  /\ pendingFunctors_ \in [Loops -> Seq(Calls)]
  /\ functors \in [Loops -> Seq(Calls)]
  /\ done \in [Loops -> Nat] /\ \A l \in Loops : done[l] <= Len(functors[l])
  /\ aborted \in BOOLEAN

\* setThreadNum has been called, start() has not
Init ==
  /\ numThreads_ \in 0 .. MaxThreads
  /\ listening_ = FALSE /\ next_ = 0 /\ nextConnId_ = 1 /\ connections_ = {}
  /\ home = [c \in Connections |-> Base]
  /\ phase = [c \in Connections |-> "none"]
  /\ at = [l \in Loops |-> "events"] /\ active = [l \in Loops |-> {}]
  /\ pendingFunctors_ = [l \in Loops |-> <<>>]
  /\ functors = [l \in Loops |-> <<>>] /\ done = [l \in Loops |-> 0]
  /\ aborted = FALSE

Queue(l, op, c) ==
  pendingFunctors_' =
    [pendingFunctors_ EXCEPT ![l] = Append(@, [op |-> op, conn |-> c])]

\* start: the pool is started, the Acceptor listens
Start ==
  /\ ~listening_ /\ listening_' = TRUE
  /\ UNCHANGED <<numThreads_, next_, nextConnId_, connections_, connVars,
                 loopVars, aborted>>

-----------------------------------------------------------------------------
(* Handlers *)

\* the handler of channel x runs in loop l
Handling(l, x) ==
  /\ ~aborted /\ at[l] = "events" /\ x \in active[l]
  /\ active' = [active EXCEPT ![l] = @ \ {x}]
  /\ UNCHANGED <<at, functors, done>>

\* Mutant of NextLoop: the last loop of the pool is left out.
NextLoopShort ==
  /\ home' = [home EXCEPT ![nextConnId_] = IF numThreads_ = 0 THEN Base ELSE next_ + 1]
  /\ next_' = IF next_ + 2 >= numThreads_ THEN 0 ELSE next_ + 1

\* getNextLoop: the loops of the pool, 1 .. numThreads_, in turn
NextLoop ==
  /\ home' = [home EXCEPT ![nextConnId_] = IF numThreads_ = 0 THEN Base ELSE next_ + 1]
  /\ next_' = IF next_ + 1 >= numThreads_ THEN 0 ELSE next_ + 1

\* Acceptor::handleRead and TcpServer::newConnection; connectEstablished runs at
\* once if the base loop is the connection's
NewConnection ==
  /\ Handling(Base, Acceptor) /\ nextConnId_ \in Connections
  /\ LET c == nextConnId_
     IN /\ NextLoop
        /\ nextConnId_' = c + 1
        /\ connections_' = connections_ \cup {c}
        /\ IF home'[c] = Base
           THEN /\ phase' = [phase EXCEPT ![c] = "up"]
                /\ UNCHANGED pendingFunctors_
           ELSE /\ phase' = [phase EXCEPT ![c] = "connecting"]
                /\ Queue(home'[c], "establish", c)
  /\ UNCHANGED <<numThreads_, listening_, aborted>>

\* accept fails
AcceptFails ==
  /\ Handling(Base, Acceptor)
  /\ UNCHANGED <<serverVars, connVars, pendingFunctors_, aborted>>

\* Mutants of RemoveInLoop: connectDestroyed is run in the base loop; it is not
\* queued at all.
RemoveInBase(c) ==
  /\ connections_' = connections_ \ {c}
  /\ aborted' = (c \notin connections_)
  /\ Queue(Base, "destroy", c)

RemoveOnly(c) ==
  /\ connections_' = connections_ \ {c}
  /\ aborted' = (c \notin connections_)
  /\ UNCHANGED pendingFunctors_

\* removeConnectionInLoop
RemoveInLoop(c) ==
  /\ connections_' = connections_ \ {c}
  /\ aborted' = (c \notin connections_)
  /\ Queue(home[c], "destroy", c)

\* Mutant of HandleClose: the server is not told.
HandleCloseOnly(l, c) ==
  /\ Handling(l, c)
  /\ phase' = [phase EXCEPT ![c] = "closed"]
  /\ UNCHANGED <<serverVars, home, pendingFunctors_, aborted>>

\* TcpConnection::handleClose and TcpServer::removeConnection
HandleClose(l, c) ==
  /\ Handling(l, c)
  /\ phase' = [phase EXCEPT ![c] = "closed"]
  /\ \/ l = Base /\ RemoveInLoop(c)
     \/ /\ l # Base /\ Queue(Base, "remove", c)
        /\ UNCHANGED <<connections_, aborted>>
  /\ UNCHANGED <<numThreads_, listening_, next_, nextConnId_, home>>

-----------------------------------------------------------------------------
(* doPendingFunctors and poll *)

SwapPending(l) ==
  /\ ~aborted /\ at[l] = "events" /\ active[l] = {}
  /\ at' = [at EXCEPT ![l] = "functors"]
  /\ functors' = [functors EXCEPT ![l] = pendingFunctors_[l]]
  /\ pendingFunctors_' = [pendingFunctors_ EXCEPT ![l] = <<>>]
  /\ UNCHANGED <<serverVars, connVars, active, done, aborted>>

\* connectEstablished and connectDestroyed, each in the connection's loop
Step(l, c, from, to) ==
  /\ aborted' = (home[c] # l \/ phase[c] # from)
  /\ phase' = [phase EXCEPT ![c] = to]
  /\ UNCHANGED <<connections_, pendingFunctors_>>

RunFunctor(l) ==
  /\ ~aborted /\ at[l] = "functors" /\ done[l] < Len(functors[l])
  /\ done' = [done EXCEPT ![l] = @ + 1]
  /\ LET f == functors[l][done[l] + 1]
     IN \/ f.op = "establish" /\ Step(l, f.conn, "connecting", "up")
        \/ f.op = "destroy" /\ Step(l, f.conn, "closed", "destroyed")
        \/ f.op = "remove" /\ RemoveInLoop(f.conn) /\ phase' = phase
  /\ UNCHANGED <<numThreads_, listening_, next_, nextConnId_, home, at, active,
                 functors>>

\* the functors are dropped with what they hold; ::poll reports new connections
\* and connections that the peer has closed
Poll(l) ==
  /\ ~aborted /\ at[l] = "functors" /\ done[l] = Len(functors[l])
  /\ at' = [at EXCEPT ![l] = "events"]
  /\ functors' = [functors EXCEPT ![l] = <<>>] /\ done' = [done EXCEPT ![l] = 0]
  /\ \E x \in SUBSET ({c \in Connections : home[c] = l /\ phase[c] = "up"}
                      \cup {a \in {Acceptor} : l = Base /\ listening_}) :
       active' = [active EXCEPT ![l] = x]
  /\ UNCHANGED <<serverVars, connVars, pendingFunctors_, aborted>>

LoopStep(l) ==
  \/ SwapPending(l) \/ RunFunctor(l) \/ Poll(l)
  \/ \E c \in Connections : HandleClose(l, c)
  \/ l = Base /\ (NewConnection \/ AcceptFails)

Next == Start \/ \E l \in Loops : LoopStep(l)

Spec == Init /\ [][Next]_vars

\* each loop runs; nothing is assumed of the peers or of start()
FairSpec == Spec /\ \A l \in Loops : WF_vars(LoopStep(l))

-----------------------------------------------------------------------------
\* no TcpConnectionPtr to c is left: ~TcpConnection has closed the socket
Freed(c) ==
  /\ phase[c] # "none" /\ c \notin connections_
  /\ \A l \in Loops : \A q \in {pendingFunctors_[l], functors[l]} :
       \A f \in Range(q) : f.conn # c

\* Over two loops, with the connection's functors dropped in either, it is freed
\* only once its channel has left the Poller; until then a loop that has it
\* among its active channels, or the map, can use it (TcpServer.cc:54-59, 66-80,
\* EventLoop.cc:81-84).
FreedLast ==
  /\ \A c \in Connections : Freed(c) => phase[c] = "destroyed"
  /\ \A l \in Loops : \A c \in active[l] \ {Acceptor} :
       phase[c] = "up" /\ home[c] = l

\* The asserts hold: connections_.erase finds its connection, connectEstablished
\* and connectDestroyed run once, in this order and in the connection's loop
\* (TcpServer.cc:77, TcpConnection.cc:33-34, 42-43).
AssertsHold == ~aborted

\* The loops of the pool get the same number of connections, but for one
\* (EventLoopThreadPool.cc:24-30).
Balanced ==
  LET load(l) == Cardinality({c \in 1 .. nextConnId_ - 1 : home[c] = l})
  IN \A l, k \in 1 .. numThreads_ : load(l) <= load(k) + 1

\* What is accepted is established, and what is closed is destroyed and freed
\* (TcpServer.cc:59, 66, 80).
ServedAndFreed ==
  \A c \in Connections :
    /\ phase[c] = "connecting" ~> phase[c] = "up"
    /\ phase[c] = "closed" ~> Freed(c)
=============================================================================
