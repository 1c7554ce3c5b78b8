--------------------------------- MODULE Rpc ---------------------------------
(***************************************************************************)
(* RpcChannel (src/protobuf/RpcChannel.h, RpcChannel.cc) at both ends of   *)
(* some connections, and RpcServer (RpcServer.cc) behind them: threads of  *)
(* the client call methods through a channel, the servers answer at once   *)
(* or later, and the client's loop matches every answer with the call it   *)
(* belongs to by its id.                                                   *)
(*                                                                         *)
(* A connection is a queue of RpcMessages in each direction: Codec shows   *)
(* that the codec makes it one.  A call is a record [thread, service,      *)
(* method, arg, valid]; it stands for the request's fields and, in         *)
(* outstandings_, for the response and closure to run.  Only the answer's  *)
(* origin matters to the channel, so an answer carries the call it is for, *)
(* which the code does not have.  RpcChannel's ERROR branch does nothing   *)
(* and no code sends that type.                                            *)
(***************************************************************************)
EXTENDS Integers, Sequences, SequencesExt

CONSTANTS
  Channels,    \* the client's channels, each with a server of its own
  Threads,     \* threads of the client that call methods
  Services,    \* services_ of the servers: for each service its methods
  MaxDrops     \* bound: connections that are lost

ASSUME RpcAssumption == MaxDrops \in Nat

Idle == [step |-> "idle"]

VARIABLES
  id,            \* id_ of each channel, an AtomicInt64
  outstandings,  \* outstandings_ of each channel: id -> call
  calling,       \* where each thread is in CallMethod
  up,            \* the channel's connection is kConnected
  toServer,      \* messages under way on each connection
  toClient,
  serving,       \* closures of doneCallback the services have not run yet
  drops          \* connections lost so far

rpcVars == <<id, outstandings, calling, up, toServer, toClient, serving, drops>>

RpcInit ==
  /\ id = [c \in Channels |-> 0]
  /\ outstandings = [c \in Channels |-> << >>]
  /\ calling = [t \in Threads |-> Idle]
  /\ up = [c \in Channels |-> FALSE]
  /\ toServer = [c \in Channels |-> << >>]
  /\ toClient = [c \in Channels |-> << >>]
  /\ serving = [c \in Channels |-> {}]
  /\ drops = 0

(***************************************************************************)
(* RcpClient::onConnection and RpcServer::onConnection: the channels get   *)
(* their connection.  A connection goes down by itself: what is under way  *)
(* to the server is lost, some of what comes back may still be read.  The  *)
(* server then frees its channel (RpcServer.cc:35), see DoneCallback.      *)
(* Nothing tells the channel, whose outstanding calls stay.                *)
(***************************************************************************)
SetConnection(c) ==
  /\ up' = [up EXCEPT ![c] = TRUE]
  /\ UNCHANGED <<id, outstandings, calling, toServer, toClient, serving, drops>>

Drop(c) ==
  /\ up[c] /\ drops < MaxDrops
  /\ drops' = drops + 1
  /\ up' = [up EXCEPT ![c] = FALSE]
  /\ toServer' = [toServer EXCEPT ![c] = << >>]
  /\ \E n \in 0 .. Len(toClient[c]) :
       toClient' = [toClient EXCEPT ![c] = SubSeq(@, 1, n)]
  /\ UNCHANGED <<id, outstandings, calling, serving>>

(***************************************************************************)
(* CallMethod, in the thread of the caller: the id, the entry, the send,   *)
(* between which other threads and the loop run.                           *)
(***************************************************************************)
CallMethod(t, c, call) ==
  /\ calling[t] = Idle
  /\ id' = [id EXCEPT ![c] = @ + 1]
  /\ calling' = [calling EXCEPT ![t] = [step |-> "insert", channel |-> c,
                                        id |-> id'[c], call |-> call]]
  /\ UNCHANGED <<outstandings, up, toServer, toClient, serving, drops>>

\* Mutant of Enter: only the last call is kept.
EnterReplaces(t) ==
  LET k == calling[t] IN
  /\ k.step = "insert"
  /\ outstandings' = [outstandings EXCEPT ![k.channel] = [i \in {k.id} |-> k.call]]
  /\ calling' = [calling EXCEPT ![t].step = "send"]
  /\ UNCHANGED <<id, up, toServer, toClient, serving, drops>>

Enter(t) ==
  LET k == calling[t] IN
  /\ k.step = "insert"
  /\ outstandings' = [outstandings EXCEPT ![k.channel] =
                        [i \in DOMAIN @ \cup {k.id} |->
                           IF i = k.id THEN k.call ELSE @[i]]]
  /\ calling' = [calling EXCEPT ![t].step = "send"]
  /\ UNCHANGED <<id, up, toServer, toClient, serving, drops>>

\* codec_.send(conn_): a connection that is down drops the message.
SendRequest(t) ==
  LET k == calling[t] IN
  /\ k.step = "send"
  /\ toServer' = [toServer EXCEPT ![k.channel] =
                    IF up[k.channel]
                    THEN Append(@, [id |-> k.id, call |-> k.call]) ELSE @]
  /\ calling' = [calling EXCEPT ![t] = Idle]
  /\ UNCHANGED <<id, outstandings, up, toClient, serving, drops>>

(***************************************************************************)
(* onRpcMessage at a server, in the order of its tests.                    *)
(***************************************************************************)
ErrorOf(call) ==
  IF call.service \notin DOMAIN Services THEN "NO_SERVICE"
  ELSE IF call.method \notin Services[call.service] THEN "NO_METHOD"
  ELSE IF ~call.valid THEN "INVALID_REQUEST"
  ELSE "NO_ERROR"

Answer(m, response) == [id |-> m.id, call |-> m.call, response |-> response]

\* No service takes the request: an answer with an error and no response.
\* Empty is what the caller's response object holds then.
ServeError(c, Empty) ==
  /\ up[c] /\ toServer[c] # << >>
  /\ ErrorOf(Head(toServer[c]).call) # "NO_ERROR"
  /\ toServer' = [toServer EXCEPT ![c] = Tail(@)]
  /\ toClient' = [toClient EXCEPT ![c] =
                    Append(@, Answer(Head(toServer[c]), Empty))]
  /\ UNCHANGED <<id, outstandings, calling, up, serving, drops>>

\* The service runs the closure before its method returns: doneCallback sends
\* the response.
ServeNow(c, response) ==
  /\ up[c] /\ toServer[c] # << >>
  /\ ErrorOf(Head(toServer[c]).call) = "NO_ERROR"
  /\ toServer' = [toServer EXCEPT ![c] = Tail(@)]
  /\ toClient' = [toClient EXCEPT ![c] =
                    Append(@, Answer(Head(toServer[c]), response))]
  /\ UNCHANGED <<id, outstandings, calling, up, serving, drops>>

\* It keeps the closure and runs it later, perhaps after later requests.
ServeLater(c) ==
  /\ up[c] /\ toServer[c] # << >>
  /\ ErrorOf(Head(toServer[c]).call) = "NO_ERROR"
  /\ toServer' = [toServer EXCEPT ![c] = Tail(@)]
  /\ serving' = [serving EXCEPT ![c] = @ \cup {Head(toServer[c])}]
  /\ UNCHANGED <<id, outstandings, calling, up, toClient, drops>>

\* A closure run after the connection went down meets a channel that
\* RpcServer::onConnection has freed; the model leaves it unrun.
DoneCallback(c, m, response) ==
  /\ up[c] /\ m \in serving[c]
  /\ serving' = [serving EXCEPT ![c] = @ \ {m}]
  /\ toClient' = [toClient EXCEPT ![c] = Append(@, Answer(m, response))]
  /\ UNCHANGED <<id, outstandings, calling, up, toServer, drops>>

(***************************************************************************)
(* onRpcMessage at the client, in its loop: the entry is taken out and its *)
(* closure run once.  An answer nobody waits for is ignored.  The asserts  *)
(* of lines 59 and 63 hold of every answer the servers here make and are   *)
(* left out, as is a response that does not parse (77), which the code     *)
(* does not notice either.                                                 *)
(***************************************************************************)
Receive(c) ==
  /\ toClient[c] # << >>
  /\ toClient' = [toClient EXCEPT ![c] = Tail(@)]
  /\ outstandings' = [outstandings EXCEPT ![c] =
                        [i \in DOMAIN @ \ {Head(toClient[c]).id} |-> @[i]]]
  /\ UNCHANGED <<id, calling, up, toServer, serving, drops>>

\* The closure that Receive runs, as a set of at most one.
Closures(c) ==
  {outstandings[c][i] : i \in DOMAIN outstandings[c] \cap {Head(toClient[c]).id}}

-----------------------------------------------------------------------------
\* Everything under way belongs to a call that is entered under its id, and to
\* one only: whichever thread called first and however late a service answers,
\* an answer finds its own closure and none runs twice (RpcChannel.cc 39-53 and
\* 62-82).
UnderWay(c) ==
  ToSet(toServer[c]) \cup serving[c]
    \cup {[id |-> m.id, call |-> m.call] : m \in ToSet(toClient[c])}
AnswersOwned ==
  \A c \in Channels :
    /\ \A m \in UnderWay(c) :
         m.id \in DOMAIN outstandings[c] /\ outstandings[c][m.id] = m.call
    /\ \A t \in Threads :
         calling[t] # Idle /\ calling[t].channel = c =>
           \A m \in UnderWay(c) : m.id # calling[t].id
    /\ Len(toServer[c]) + Len(toClient[c])
         <= Cardinality(DOMAIN outstandings[c] \ {m.id : m \in serving[c]})
=============================================================================
