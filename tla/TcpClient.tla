------------------------------ MODULE TcpClient ------------------------------
(***************************************************************************)
(* A TcpClient and its Connector: the loop, in which connections are       *)
(* attempted, retried by timers, made and closed, and the threads that     *)
(* call connect(), disconnect() and stop().  The asserts of both classes   *)
(* are part of the model.                                                  *)
(*                                                                         *)
(* The flags connect_ of the two classes are plain bools: each access of   *)
(* another thread is a step of its own.  A connect() in the loop's own     *)
(* thread runs startInLoop at once, as the functor does when it is first.  *)
(***************************************************************************)
EXTENDS Naturals, Sequences, FiniteSets

CONSTANTS
  Threads,          \* those that call the client
  MaxConnects,      \* bound on the calls of connect()
  MaxConnections    \* bound on the connections the server accepts

ASSUME ClientAssumption ==
  MaxConnects \in Nat /\ MaxConnections \in Nat

VARIABLES
  \* Connector
  connect_, state_,
  channel_,         \* "none"; "polled"; "removed" from the Poller, to be reset
  timers,           \* retry timers that have not fired
  \* TcpClient
  retry_, clientConnect_,   \* its own connect_
  connection_,      \* the number of the connection, 0 for NULL
  made,             \* connections made so far
  destroyed,        \* the connections whose connectDestroyed has run
  \* the loop
  at,               \* "events"; "restart" and "starting" before and after the
                    \* assignments of restart() in removeConnection; "functors"
  active,           \* event sources reported and not yet handled
  pendingFunctors_, functors,
  \* users
  pc, calls,        \* where a thread is; how often connect() was called
  \* history
  gaveUp,           \* connect(2) failed with an error that is not retried
  aborted           \* an assert failed

connectorVars == <<connect_, state_, channel_, timers>>
clientVars == <<retry_, clientConnect_, connection_, made, destroyed>>
loopVars == <<at, active, pendingFunctors_, functors>>
userVars == <<pc, calls>>
vars == <<connectorVars, clientVars, loopVars, userVars, gaveUp, aborted>>

Functor(op) == [op |-> op]
Functors == [op : {"startInLoop", "resetChannel"}] \cup
            [op : {"connectDestroyed"}, conn : 1 .. MaxConnections]

TypeOK ==
  /\ connect_ \in BOOLEAN /\ clientConnect_ \in BOOLEAN /\ retry_ \in BOOLEAN
  /\ state_ \in {"kDisconnected", "kConnecting", "kConnected"}
  /\ channel_ \in {"none", "polled", "removed"}
  /\ timers \in Nat
  /\ made \in 0 .. MaxConnections /\ connection_ \in 0 .. made
  /\ destroyed \subseteq 1 .. made
  /\ at \in {"events", "restart", "starting", "functors"}
  /\ active \subseteq {"connector", "timer", "connection"}
  /\ pendingFunctors_ \in Seq(Functors) /\ functors \in Seq(Functors)
  /\ pc \in [Threads -> {"idle", "connect", "start", "stop"}]
  /\ calls \in 0 .. MaxConnects
  /\ gaveUp \in BOOLEAN /\ aborted \in BOOLEAN

\* enableRetry() may have been called, before connect()
Init ==
  /\ retry_ \in BOOLEAN
  /\ connect_ = FALSE /\ state_ = "kDisconnected" /\ channel_ = "none"
  /\ timers = 0
  /\ clientConnect_ = FALSE /\ connection_ = 0 /\ made = 0 /\ destroyed = {}
  /\ at = "events" /\ active = {}
  /\ pendingFunctors_ = <<>> /\ functors = <<>>
  /\ pc = [t \in Threads |-> "idle"] /\ calls = 0
  /\ gaveUp = FALSE /\ aborted = FALSE

-----------------------------------------------------------------------------
(* Pieces of the Connector, run in the loop; n is the number of timers left *)
(* when they begin.                                                        *)

\* Mutant of RetryLater: no timer.
RetryNever(n) ==
  /\ state_' = "kDisconnected"
  /\ timers' = n
  /\ UNCHANGED <<gaveUp, aborted>>

\* retry: the socket is closed and, unless stopped, a timer started
RetryLater(n) ==
  /\ state_' = "kDisconnected"
  /\ timers' = IF connect_' THEN n + 1 ELSE n
  /\ UNCHANGED <<gaveUp, aborted>>

\* Mutant of Connecting: a timer guards the attempt.
ConnectingWithTimer(n) ==
  /\ state_' = "kConnecting" /\ channel_' = "polled"
  /\ timers' = n + 1 /\ aborted' = (channel_ # "none")
  /\ gaveUp' = gaveUp

\* connecting: the socket is in progress and its channel polled
Connecting(n) ==
  /\ state_' = "kConnecting" /\ channel_' = "polled"
  /\ timers' = n /\ aborted' = (channel_ # "none")
  /\ gaveUp' = gaveUp

\* connect(): in progress, failed for now, or failed for good
Connect(n) ==
  \/ Connecting(n)
  \/ RetryLater(n) /\ channel_' = channel_
  \/ /\ gaveUp' = TRUE
     /\ state_' = "kDisconnected" /\ timers' = n
     /\ UNCHANGED <<channel_, aborted>>

\* startInLoop
StartInLoop(n) ==
  /\ connect_' = connect_
  /\ \/ /\ state_ # "kDisconnected"
        /\ aborted' = TRUE /\ timers' = n /\ UNCHANGED <<state_, channel_, gaveUp>>
     \/ /\ state_ = "kDisconnected" /\ connect_
        /\ Connect(n)
     \/ /\ state_ = "kDisconnected" /\ ~connect_
        /\ timers' = n /\ UNCHANGED <<state_, channel_, gaveUp, aborted>>

\* Mutant of RemoveAndResetChannel: nothing destroys the channel.
RemoveChannel ==
  channel_' = "removed" /\ UNCHANGED pendingFunctors_

\* removeAndResetChannel: the channel leaves the Poller now and is destroyed by
\* a functor
RemoveAndResetChannel ==
  /\ channel_' = "removed"
  /\ pendingFunctors_' = Append(pendingFunctors_, Functor("resetChannel"))

-----------------------------------------------------------------------------
(* The loop *)

\* ::poll reports some of what is polled or due; two retry timers are half a
\* second apart at least and not reported together
Poll ==
  /\ ~aborted /\ at = "functors" /\ functors = <<>>
  /\ at' = "events"
  /\ active' \in SUBSET {x \in {"connector", "timer", "connection"} :
                           /\ x = "connector" => channel_ = "polled"
                           /\ x = "timer" => timers > 0
                           /\ x = "connection" => connection_ # 0}
  /\ UNCHANGED <<connectorVars, clientVars, pendingFunctors_, functors, userVars,
                 gaveUp, aborted>>

Handling(x) ==
  /\ ~aborted /\ at = "events" /\ x \in active
  /\ active' = active \ {x}
  /\ UNCHANGED <<functors, userVars>>

\* a retry timer calls startInLoop
TimerFires ==
  /\ Handling("timer")
  /\ StartInLoop(timers - 1)
  /\ UNCHANGED <<clientVars, at, pendingFunctors_>>

\* handleError; a handleWrite for the same revents then finds kDisconnected
HandleError ==
  /\ Handling("connector")
  /\ RemoveAndResetChannel
  /\ connect_' = connect_ /\ RetryLater(timers)
  /\ UNCHANGED <<clientVars, at>>

\* handleWrite: the attempt failed or connected to itself
HandleWriteFails ==
  /\ Handling("connector")
  /\ connect_' = connect_
  /\ IF state_ = "kConnecting"
     THEN RemoveAndResetChannel /\ RetryLater(timers)
     ELSE /\ aborted' = (state_ # "kDisconnected")
          /\ UNCHANGED <<state_, channel_, timers, pendingFunctors_, gaveUp>>
  /\ UNCHANGED <<clientVars, at>>

\* handleWrite: connected, and TcpClient::newConnection unless stopped
HandleWriteConnects ==
  /\ Handling("connector") /\ state_ = "kConnecting" /\ made < MaxConnections
  /\ RemoveAndResetChannel
  /\ state_' = "kConnected"
  /\ IF connect_
     THEN made' = made + 1 /\ connection_' = made + 1
     ELSE UNCHANGED <<made, connection_>>
  /\ UNCHANGED <<connect_, timers, retry_, clientConnect_, destroyed, at, gaveUp,
                 aborted>>

\* Mutant of HandleClose: connectDestroyed is not queued.
HandleCloseOnly ==
  /\ Handling("connection")
  /\ connection_' = 0
  /\ at' = IF retry_ /\ clientConnect_ THEN "restart" ELSE at
  /\ UNCHANGED <<connectorVars, retry_, clientConnect_, made, destroyed,
                 pendingFunctors_, gaveUp, aborted>>

\* the connection is closed: TcpClient::removeConnection up to its last test
HandleClose ==
  /\ Handling("connection")
  /\ connection_' = 0
  /\ pendingFunctors_' = Append(pendingFunctors_,
       [op |-> "connectDestroyed", conn |-> connection_])
  /\ at' = IF retry_ /\ clientConnect_ THEN "restart" ELSE at
  /\ UNCHANGED <<connectorVars, retry_, clientConnect_, made, destroyed, gaveUp,
                 aborted>>

\* Connector::restart, which overwrites what a stop() in between has set
Restart ==
  /\ ~aborted /\ at = "restart" /\ at' = "starting"
  /\ state_' = "kDisconnected" /\ connect_' = TRUE
  /\ UNCHANGED <<channel_, timers, clientVars, active, pendingFunctors_,
                 functors, userVars, gaveUp, aborted>>

\* its call of startInLoop, which finds a stop() after that
RestartStarts ==
  /\ ~aborted /\ at = "starting" /\ at' = "events"
  /\ StartInLoop(timers)
  /\ UNCHANGED <<clientVars, active, pendingFunctors_, functors, userVars>>

SwapPending ==
  /\ ~aborted /\ at = "events" /\ active = {}
  /\ at' = "functors"
  /\ functors' = pendingFunctors_ /\ pendingFunctors_' = <<>>
  /\ UNCHANGED <<connectorVars, clientVars, active, userVars, gaveUp, aborted>>

RunFunctor ==
  /\ ~aborted /\ at = "functors" /\ functors # <<>>
  /\ functors' = Tail(functors)
  /\ LET f == Head(functors)
     IN \/ /\ f.op = "startInLoop" /\ StartInLoop(timers)
           /\ UNCHANGED clientVars
        \/ /\ f.op = "resetChannel" /\ channel_' = "none"
           /\ UNCHANGED <<connect_, state_, timers, clientVars, gaveUp, aborted>>
        \/ /\ f.op = "connectDestroyed" /\ destroyed' = destroyed \cup {f.conn}
           /\ UNCHANGED <<connectorVars, retry_, clientConnect_, connection_,
                          made, gaveUp, aborted>>
  /\ UNCHANGED <<at, active, pendingFunctors_, userVars>>

-----------------------------------------------------------------------------
(* The threads.  cancel(timerId_) in stop() changes nothing: the TimerId    *)
(* that runAfter returned has the sequence of no timer (TimerQueue.cc:84).  *)

threadUnchanged == <<state_, channel_, timers, retry_, connection_, made, destroyed, at,
                     active, functors, gaveUp, aborted>>

ThreadStep(t, from, to) ==
  /\ ~aborted /\ pc[t] = from
  /\ pc' = [pc EXCEPT ![t] = to]
  /\ UNCHANGED threadUnchanged

\* TcpClient::connect and Connector::start; users call them again after
\* disconnect() or stop() only
CallsConnect(t) ==
  /\ ThreadStep(t, "idle", "connect")
  /\ ~clientConnect_
  /\ calls < MaxConnects /\ calls' = calls + 1
  /\ clientConnect_' = TRUE
  /\ UNCHANGED <<connect_, pendingFunctors_>>

SetsConnect(t) ==
  /\ ThreadStep(t, "connect", "start")
  /\ connect_' = TRUE
  /\ UNCHANGED <<clientConnect_, pendingFunctors_, calls>>

QueuesStart(t) ==
  /\ ThreadStep(t, "start", "idle")
  /\ pendingFunctors_' = Append(pendingFunctors_, Functor("startInLoop"))
  /\ UNCHANGED <<clientConnect_, connect_, calls>>

\* disconnect; the shutdown of the connection lets the peer close it
CallsDisconnect(t) ==
  /\ ThreadStep(t, "idle", "idle")
  /\ clientConnect_' = FALSE
  /\ UNCHANGED <<connect_, pendingFunctors_, calls>>

\* TcpClient::stop and Connector::stop
CallsStop(t) ==
  /\ ThreadStep(t, "idle", "stop")
  /\ clientConnect_' = FALSE
  /\ UNCHANGED <<connect_, pendingFunctors_, calls>>

StopsConnector(t) ==
  /\ ThreadStep(t, "stop", "idle")
  /\ connect_' = FALSE
  /\ UNCHANGED <<clientConnect_, pendingFunctors_, calls>>

-----------------------------------------------------------------------------
LoopStep ==
  \/ Poll \/ TimerFires \/ HandleError \/ HandleWriteFails \/ HandleWriteConnects
  \/ HandleClose \/ Restart \/ RestartStarts \/ SwapPending \/ RunFunctor

UserStep(t) ==
  \/ CallsConnect(t) \/ SetsConnect(t) \/ QueuesStart(t)
  \/ CallsDisconnect(t) \/ CallsStop(t) \/ StopsConnector(t)

Next == LoopStep \/ \E t \in Threads : UserStep(t)

Spec == Init /\ [][Next]_vars

\* The loop and the threads inside a call run; retry timers expire and attempts
\* end; a server that is asked again and again accepts in the end.
Fairness ==
  /\ WF_vars(LoopStep)
  /\ \A t \in Threads : WF_vars(SetsConnect(t) \/ QueuesStart(t) \/ StopsConnector(t))
  /\ SF_vars(Poll /\ "timer" \in active')
  /\ SF_vars(Poll /\ "connector" \in active')
  /\ SF_vars((TimerFires \/ RunFunctor \/ RestartStarts) /\ state_' = "kConnecting")
  /\ SF_vars(HandleWriteConnects)

FairSpec == Spec /\ Fairness

-----------------------------------------------------------------------------
Started(q) == Cardinality({i \in DOMAIN q : q[i].op = "startInLoop"})

Restarting == at \in {"restart", "starting"}

\* what may still lead to a connection, or is one
Attempts ==
  Started(pendingFunctors_) + Started(functors) + timers
    + (IF channel_ = "polled" THEN 1 ELSE 0)
    + (IF Restarting \/ connection_ # 0 THEN 1 ELSE 0)

\* the client is to have a connection and has none
Wanted ==
  /\ connect_ /\ ~gaveUp /\ connection_ = 0
  /\ made = 0 \/ (retry_ /\ clientConnect_)

\* The asserts hold for a client that is connected once, however stop(),
\* disconnect(), failures and reconnections fall: an attempt starts only from
\* kDisconnected and with the last channel destroyed (Connector.cc:30, 92, 130).
AssertsHold == ~aborted

\* Functors, retry timers, restart and the channel never pursue two attempts at
\* once, nor one beside a connection (Connector.cc:25, 82, 151,
\* TcpClient.cc:101-106).
OneAttempt == Attempts <= 1

\* A client that wants a connection is on the way to one: no error path, no
\* race of restart with stop() drops the attempt (Connector.cc:38-83, 144-157),
\* but the errors connect() gives up on (57-73).
NeverForgotten ==
  (Wanted /\ \A t \in Threads : pc[t] \in {"idle", "stop"}) => Attempts = 1

\* Every connection made is the client's, or has been destroyed or is about to
\* be; and the Connector is kConnected beside one and kConnecting exactly while
\* its channel is polled (TcpClient.cc:86, 94-100, Connector.cc:91-96, 99-103).
ConnectionsKept ==
  /\ \A c \in 1 .. made \ {connection_} :
       \/ c \in destroyed
       \/ \E q \in {pendingFunctors_, functors} : \E i \in DOMAIN q :
            q[i].op = "connectDestroyed" /\ q[i].conn = c
  /\ connection_ # 0 => state_ = "kConnected"
  /\ channel_ = "polled" <=> state_ = "kConnecting"

\* With a server that accepts in the end the client gets its connection, and
\* with retry_ another after each that is closed, unless it is stopped
\* (Connector.cc:144-153, TcpClient.cc:101-105).
KeepsTrying == (Wanted /\ made < MaxConnections) ~> ~Wanted
=============================================================================
