--------------------------- MODULE CollectorProofs ---------------------------
(***************************************************************************)
(* What is proved of the RPC channel under the collector, and of the       *)
(* search for the median: whatever the other thread and the network do,    *)
(* everything under way belongs to a call that is entered under its id,    *)
(* and to one only; while nobody generates new numbers, a round sums the   *)
(* answers of every sorter once, the search cannot fail, and the median it *)
(* reports is the median.  All this for any channels, sorters, numbers and *)
(* width of an int64.                                                      *)
(***************************************************************************)
EXTENDS Collector, SequenceTheorems, FiniteSetTheorems, FunctionTheorems,
        WellFoundedInduction, TLAPS

\* No two messages of q have the same id.
Distinct(q) == \A i, j \in DOMAIN q : q[i].id = q[j].id => i = j
Ids(S) == {m.id : m \in S}
IsSeq(q) == q \in Seq(ToSet(q))

\* Messages at three places that the entries of a map f match, each with an
\* entry of its own.
Matched(A, B, C, f) ==
  /\ \A m \in A \cup B \cup C : m.id \in DOMAIN f /\ f[m.id] = m.call
  /\ \A m \in A, n \in B : m.id # n.id
  /\ \A m \in A, n \in C : m.id # n.id
  /\ \A m \in B, n \in C : m.id # n.id

\* A channel, its connection and its server.
ChannelOK(c) ==
  /\ id[c] \in Nat /\ DOMAIN outstandings[c] \subseteq 1 .. id[c]
  /\ IsSeq(toServer[c]) /\ Distinct(toServer[c])
  /\ IsSeq(toClient[c]) /\ Distinct(toClient[c])
  /\ \A m, n \in serving[c] : m.id = n.id => m = n
  /\ Matched(ToSet(toServer[c]), serving[c], ToSet(toClient[c]), outstandings[c])

\* A thread in CallMethod: its id is its own, entered or not, and nothing is
\* under way under it.
CallerOK(t) ==
  LET k == calling[t] IN
  k = Idle \/
    /\ DOMAIN k = {"step", "channel", "id", "call"}
    /\ k.step \in {"insert", "send"}
    /\ k.channel \in Channels /\ k.id \in 1 .. id[k.channel]
    /\ k.step = "insert" => k.id \notin DOMAIN outstandings[k.channel]
    /\ k.step = "send" => /\ k.id \in DOMAIN outstandings[k.channel]
                          /\ outstandings[k.channel][k.id] = k.call
    /\ \A m \in ToSet(toServer[k.channel]) \cup serving[k.channel]
                  \cup ToSet(toClient[k.channel]) : m.id # k.id
    /\ \A u \in Threads \ {t} :
         calling[u] # Idle /\ calling[u].channel = k.channel => calling[u].id # k.id

Domains ==
  /\ DOMAIN id = Channels /\ DOMAIN outstandings = Channels
  /\ DOMAIN toServer = Channels /\ DOMAIN toClient = Channels
  /\ DOMAIN serving = Channels /\ DOMAIN calling = Threads

RpcInv ==
  /\ Domains
  /\ \A c \in Channels : ChannelOK(c)
  /\ \A t \in Threads : CallerOK(t)

\* The calls still to be made go through the channels.
CallsOK == todo \in Seq(Channels) /\ others \subseteq OtherCalls

IInv == RpcInv /\ CallsOK
-----------------------------------------------------------------------------
\* What is a sequence is one of its own elements.
LEMMA OfItself == ASSUME NEW S, NEW q \in Seq(S) PROVE IsSeq(q)
<1>1. q \in [1 .. Len(q) -> S] /\ Len(q) \in Nat /\ DOMAIN q = 1 .. Len(q)
  BY LenProperties
<1>2. PICK T : T = ToSet(q)
  OBVIOUS
<1>3. \A i \in 1 .. Len(q) : q[i] \in T
  BY <1>1, <1>2 DEF ToSet
<1>4. q \in [1 .. Len(q) -> T]
  BY <1>1, <1>3
<1>5. q \in Seq(T)
  BY <1>1, <1>4
<1> QED BY <1>2, <1>5 DEF IsSeq

\* A message joins a queue.
LEMMA Appended ==
  ASSUME NEW q, NEW e, IsSeq(q)
  PROVE  /\ IsSeq(Append(q, e)) /\ ToSet(Append(q, e)) = ToSet(q) \cup {e}
         /\ Distinct(q) /\ (\A m \in ToSet(q) : m.id # e.id) => Distinct(Append(q, e))
<1> DEFINE S == ToSet(q) \cup {e}
           r == Append(q, e)
           n == Len(q) + 1
<1>1. q \in Seq(S) /\ e \in S
  BY DEF IsSeq
<1>2. /\ DOMAIN q = 1 .. Len(q) /\ Len(q) \in Nat /\ r \in Seq(S)
      /\ DOMAIN r = 1 .. n
      /\ \A i \in 1 .. Len(q) : r[i] = q[i]
      /\ r[n] = e
  <2> HIDE DEF S
  <2> QED BY <1>1, AppendProperties, LenProperties
<1>3. /\ DOMAIN r = DOMAIN q \cup {n} /\ n \notin DOMAIN q
      /\ \A i \in DOMAIN q : r[i] = q[i]
      /\ r[n] = e /\ r \in Seq(S)
  BY <1>2
<1> HIDE DEF r, n, S
<1>4. ToSet(r) = S
  BY <1>3 DEF ToSet, S
<1>5. Distinct(q) /\ (\A m \in ToSet(q) : m.id # e.id) => Distinct(r)
  BY <1>3 DEF Distinct, ToSet
<1> QED BY <1>3, <1>4, <1>5 DEF IsSeq, r, S

\* The first message leaves a queue.
LEMMA Dequeued ==
  ASSUME NEW q, IsSeq(q), q # << >>, Distinct(q)
  PROVE  /\ IsSeq(Tail(q)) /\ Distinct(Tail(q))
         /\ ToSet(q) = ToSet(Tail(q)) \cup {Head(q)}
         /\ \A m \in ToSet(Tail(q)) : m.id # Head(q).id
<1> DEFINE r == Tail(q)
           h == Head(q)
           S == ToSet(q)
<1>1. q \in Seq(S)
  BY DEF IsSeq
<1>2. /\ DOMAIN q = 1 .. Len(q) /\ Len(q) \in Nat \ {0}
      /\ DOMAIN r = 1 .. Len(q) - 1 /\ Len(r) = Len(q) - 1
      /\ \A i \in 1 .. Len(q) - 1 : r[i] = q[i + 1]
      /\ h = q[1] /\ r \in Seq(S)
  <2> HIDE DEF S
  <2> QED BY <1>1, HeadTailProperties, LenProperties
<1>3. /\ 1 \in DOMAIN q /\ h = q[1]
      /\ \A i \in DOMAIN r : i + 1 \in DOMAIN q /\ i + 1 # 1 /\ r[i] = q[i + 1]
      /\ \A j \in DOMAIN q : j # 1 => j - 1 \in DOMAIN r /\ r[j - 1] = q[j]
  BY <1>2
<1>4. \A i, j \in DOMAIN r : i + 1 = j + 1 => i = j
  BY <1>2
<1>5. IsSeq(r)
  <2> HIDE DEF r, S
  <2> QED BY <1>2, OfItself
<1> HIDE DEF r, h, S
<1>6. ToSet(q) = ToSet(r) \cup {h}
  <2>1. ASSUME NEW m \in ToSet(q) PROVE m \in ToSet(r) \cup {h}
    BY <1>3 DEF ToSet
  <2>2. ToSet(r) \cup {h} \subseteq ToSet(q)
    BY <1>3 DEF ToSet
  <2> QED BY <2>1, <2>2
<1>7. \A m \in ToSet(r) : m.id # h.id
  BY <1>3 DEF ToSet, Distinct
<1>8. Distinct(r)
  <2> SUFFICES ASSUME NEW i \in DOMAIN r, NEW j \in DOMAIN r, r[i].id = r[j].id
               PROVE  i = j
    BY DEF Distinct
  <2>1. i + 1 \in DOMAIN q /\ j + 1 \in DOMAIN q /\ q[i + 1].id = q[j + 1].id
    BY <1>3
  <2> QED BY <1>4, <2>1 DEF Distinct
<1> QED BY <1>5, <1>6, <1>7, <1>8 DEF r, h

\* The connection breaks and leaves the first n messages to read.
LEMMA Cut ==
  ASSUME NEW q, IsSeq(q), Distinct(q), NEW n \in 0 .. Len(q)
  PROVE  LET r == SubSeq(q, 1, n) IN
         IsSeq(r) /\ Distinct(r) /\ ToSet(r) \subseteq ToSet(q)
<1> DEFINE r == SubSeq(q, 1, n)
           S == ToSet(q)
<1>1. q \in Seq(S) /\ Len(q) \in Nat /\ DOMAIN q = 1 .. Len(q) /\ n \in Nat
  BY LenProperties DEF IsSeq
<1>2. /\ r \in Seq(S) /\ DOMAIN r = 1 .. n
      /\ \A i \in DOMAIN r : i \in DOMAIN q /\ r[i] = q[i]
  <2> HIDE DEF S
  <2> QED BY <1>1
<1> HIDE DEF S
<1>4. IsSeq(r)
  <2> HIDE DEF r
  <2> QED BY <1>2, OfItself
<1> HIDE DEF r
<1>5. Distinct(r) /\ ToSet(r) \subseteq S
  BY <1>2 DEF Distinct, ToSet, S
<1> QED BY <1>4, <1>5 DEF r, S

\* A queue without messages.
LEMMA Empty == IsSeq(<< >>) /\ Distinct(<< >>) /\ ToSet(<< >>) = {}
BY DEF IsSeq, Distinct, ToSet
-----------------------------------------------------------------------------
\* The ids of the messages of a channel.
AllIds(c) == Ids(ToSet(toServer[c]) \cup serving[c] \cup ToSet(toClient[c]))

\* A step that moves messages of one channel on, or loses them, and adds none.
LEMMA MovesKeep ==
  ASSUME RpcInv, NEW c \in Channels, UNCHANGED <<id, outstandings, calling>>,
         DOMAIN toServer' = Channels, DOMAIN toClient' = Channels,
         DOMAIN serving' = Channels,
         \A d \in Channels \ {c} : /\ toServer'[d] = toServer[d]
                                   /\ toClient'[d] = toClient[d]
                                   /\ serving'[d] = serving[d],
         ChannelOK(c)', AllIds(c)' \subseteq AllIds(c)
  PROVE  RpcInv'
<1> USE DEF RpcInv
<1>1. Domains'
  BY DEF Domains
<1>2. ASSUME NEW d \in Channels PROVE ChannelOK(d)'
  <2>1. CASE d = c
    BY <2>1
  <2>2. CASE d # c
    <3>1. /\ toServer'[d] = toServer[d] /\ toClient'[d] = toClient[d]
          /\ serving'[d] = serving[d]
      BY <2>2
    <3> QED BY <3>1 DEF ChannelOK
  <2> QED BY <2>1, <2>2
<1>3. ASSUME NEW t \in Threads, calling[t] # Idle
      PROVE  LET k == calling[t] IN
             \A m \in ToSet(toServer'[k.channel]) \cup serving'[k.channel]
                        \cup ToSet(toClient'[k.channel]) : m.id # k.id
  <2>1. PICK d, i : d \in Channels /\ d = calling[t].channel /\ i = calling[t].id
    BY <1>3 DEF CallerOK
  <2>2. \A m \in ToSet(toServer[d]) \cup serving[d] \cup ToSet(toClient[d]) : m.id # i
    BY <1>3, <2>1 DEF CallerOK
  <2>3. CASE d = c
    <3>1. i \notin AllIds(c)
      BY <2>2, <2>3 DEF AllIds, Ids
    <3>2. i \notin AllIds(c)'
      BY <3>1
    <3> QED BY <2>1, <2>3, <3>2 DEF AllIds, Ids
  <2>4. CASE d # c
    BY <2>1, <2>2, <2>4
  <2> QED BY <2>3, <2>4
<1>4. ASSUME NEW t \in Threads PROVE CallerOK(t)'
  <2>1. CASE calling[t] = Idle
    BY <2>1 DEF CallerOK
  <2>2. CASE calling[t] # Idle
    BY <1>3, <2>2 DEF CallerOK
  <2> QED BY <2>1, <2>2
<1> QED BY <1>1, <1>2, <1>4

\* The connection is made, or nothing happens to the channels.
LEMMA StaysOK ==
  ASSUME RpcInv,
         UNCHANGED <<id, outstandings, calling, toServer, toClient, serving>>
  PROVE  RpcInv'
<1> USE DEF RpcInv
<1>1. Domains'
  BY DEF Domains
<1>2. \A c \in Channels : ChannelOK(c)'
  BY DEF ChannelOK
<1>3. \A t \in Threads : CallerOK(t)'
  BY DEF CallerOK
<1> QED BY <1>1, <1>2, <1>3

\* The connection is lost.
LEMMA DropKeeps == ASSUME RpcInv, NEW c \in Channels, Drop(c) PROVE RpcInv'
<1> USE DEF RpcInv
<1>1. PICK n \in 0 .. Len(toClient[c]) :
        toClient' = [toClient EXCEPT ![c] = SubSeq(@, 1, n)]
  BY DEF Drop
<1>2. PICK q : q = toClient[c]
  OBVIOUS
<1>3. PICK r : r = SubSeq(q, 1, n)
  OBVIOUS
<1>4. /\ toServer'[c] = << >> /\ toClient'[c] = r /\ serving' = serving
      /\ \A d \in Channels \ {c} : toServer'[d] = toServer[d] /\ toClient'[d] = toClient[d]
      /\ DOMAIN toServer' = Channels /\ DOMAIN toClient' = Channels
      /\ DOMAIN serving' = Channels
      /\ UNCHANGED <<id, outstandings, calling>>
  BY <1>1, <1>2, <1>3 DEF Drop, Domains
<1>5. ChannelOK(c) /\ IsSeq(q) /\ Distinct(q)
  BY <1>2 DEF ChannelOK
<1>6. IsSeq(r) /\ Distinct(r) /\ ToSet(r) \subseteq ToSet(q)
  BY <1>1, <1>2, <1>3, <1>5, Cut
<1>7. IsSeq(toServer'[c]) /\ Distinct(toServer'[c]) /\ ToSet(toServer'[c]) = {}
  BY <1>4, Empty
<1>8. PICK A, B, C, R : /\ A = ToSet(toServer[c]) /\ B = serving[c]
                        /\ C = ToSet(toClient[c]) /\ R = ToSet(r)
  OBVIOUS
<1>9. Matched({}, B, R, outstandings[c])
  BY <1>2, <1>5, <1>6, <1>8 DEF ChannelOK, Matched
<1>10. Ids({} \cup B \cup R) \subseteq Ids(A \cup B \cup C)
  BY <1>2, <1>6, <1>8 DEF Ids
<1>11. \A m, k \in B : m.id = k.id => m = k
  BY <1>5, <1>8 DEF ChannelOK
<1>12. ChannelOK(c)'
  BY <1>4, <1>5, <1>6, <1>7, <1>8, <1>9, <1>11 DEF ChannelOK
<1>13. AllIds(c)' \subseteq AllIds(c)
  BY <1>2, <1>4, <1>7, <1>8, <1>10 DEF AllIds
<1> HIDE DEF RpcInv
<1> QED BY <1>4, <1>12, <1>13, MovesKeep

\* CallMethod takes the next id.
LEMMA CallMethodKeeps ==
  ASSUME RpcInv, NEW t \in Threads, NEW c \in Channels, NEW call, CallMethod(t, c, call)
  PROVE  RpcInv'
<1> USE DEF RpcInv
<1> DEFINE n == id[c] + 1
           k == [step |-> "insert", channel |-> c, id |-> n, call |-> call]
<1>1. /\ id[c] \in Nat /\ id'[c] = n /\ \A d \in Channels \ {c} : id'[d] = id[d]
      /\ DOMAIN id' = Channels /\ DOMAIN calling' = Threads
      /\ calling[t] = Idle /\ calling'[t] = k
      /\ \A u \in Threads \ {t} : calling'[u] = calling[u]
      /\ UNCHANGED <<outstandings, toServer, toClient, serving>>
  BY DEF CallMethod, Domains, ChannelOK
<1>2. Domains'
  BY <1>1 DEF Domains
<1>3. ASSUME NEW d \in Channels PROVE ChannelOK(d)'
  <2>1. id'[d] \in Nat /\ id[d] \in Nat /\ id[d] <= id'[d]
    BY <1>1 DEF ChannelOK
  <2>2. 1 .. id[d] \subseteq 1 .. id'[d]
    BY <2>1
  <2> QED BY <1>1, <2>1, <2>2 DEF ChannelOK
<1>4. n \in 1 .. id'[c] /\ n \notin 1 .. id[c]
  BY <1>1
<1>5. /\ n \notin DOMAIN outstandings[c]
      /\ \A m \in ToSet(toServer[c]) \cup serving[c] \cup ToSet(toClient[c]) : m.id # n
  BY <1>4 DEF ChannelOK, Matched
<1>6. \A u \in Threads \ {t} :
        calling[u] # Idle /\ calling[u].channel = c => calling[u].id \in 1 .. id[c]
  BY DEF CallerOK
<1>7. CallerOK(t)'
  <2>1. /\ k.step = "insert" /\ k.channel = c /\ k.id = n
        /\ DOMAIN k = {"step", "channel", "id", "call"}
    OBVIOUS
  <2> HIDE DEF k
  <2>2. \A u \in Threads \ {t} :
          calling'[u] # Idle /\ calling'[u].channel = c => calling'[u].id # n
    BY <1>1, <1>4, <1>6
  <2> QED BY <1>1, <1>4, <1>5, <2>1, <2>2 DEF CallerOK
<1>8. ASSUME NEW u \in Threads \ {t} PROVE CallerOK(u)'
  <2>1. CASE calling[u] = Idle
    BY <1>1, <2>1 DEF CallerOK
  <2>2. CASE calling[u] # Idle
    <3>1. calling'[u] = calling[u] /\ CallerOK(u)
      BY <1>1
    <3>2. calling[u].id \in 1 .. id'[calling[u].channel]
      <4>1. PICK d \in Channels : d = calling[u].channel /\ calling[u].id \in 1 .. id[d]
        BY <2>2, <3>1 DEF CallerOK
      <4>2. id[d] \in Nat /\ id'[d] \in Nat /\ id[d] <= id'[d]
        BY <1>1 DEF ChannelOK
      <4> QED BY <4>1, <4>2
    <3>3. \A v \in Threads \ {u} :
            calling'[v] # Idle /\ calling'[v].channel = calling[u].channel
              => calling'[v].id # calling[u].id
      <4> TAKE v \in Threads \ {u}
      <4>1. CASE v = t
        <5>1. calling'[v].channel = c /\ calling'[v].id = n
          BY <1>1, <4>1
        <5> HIDE DEF n, k
        <5> QED BY <1>4, <1>6, <2>2, <5>1
      <4>2. CASE v # t
        BY <1>1, <2>2, <3>1, <4>2 DEF CallerOK
      <4> QED BY <4>1, <4>2
    <3> QED BY <1>1, <2>2, <3>1, <3>2, <3>3 DEF CallerOK
  <2> QED BY <2>1, <2>2
<1> QED BY <1>2, <1>3, <1>7, <1>8

\* CallMethod enters the call under its id.
LEMMA EnterKeeps == ASSUME RpcInv, NEW t \in Threads, Enter(t) PROVE RpcInv'
<1> USE DEF RpcInv
<1>1. PICK k : k = calling[t]
  OBVIOUS
<1>2. PICK c : c = k.channel
  OBVIOUS
<1>3. PICK n : n = k.id
  OBVIOUS
<1>4. /\ k.step = "insert" /\ k # Idle /\ c \in Channels /\ n \in 1 .. id[c]
      /\ n \notin DOMAIN outstandings[c]
      /\ DOMAIN k = {"step", "channel", "id", "call"}
      /\ \A m \in ToSet(toServer[c]) \cup serving[c] \cup ToSet(toClient[c]) : m.id # n
      /\ \A u \in Threads \ {t} :
           calling[u] # Idle /\ calling[u].channel = c => calling[u].id # n
  <2>1. k.step = "insert" /\ k # Idle
    BY <1>1 DEF Enter, Idle
  <2> QED BY <1>1, <1>2, <1>3, <2>1 DEF CallerOK
<1>5. PICK f : f = [i \in DOMAIN outstandings[c] \cup {n} |->
                      IF i = n THEN k.call ELSE outstandings[c][i]]
  OBVIOUS
<1>6. PICK l : l = [k EXCEPT !.step = "send"]
  OBVIOUS
<1>7. /\ outstandings'[c] = f /\ DOMAIN outstandings' = Channels
      /\ \A d \in Channels \ {c} : outstandings'[d] = outstandings[d]
      /\ calling'[t] = l /\ DOMAIN calling' = Threads
      /\ \A u \in Threads \ {t} : calling'[u] = calling[u]
      /\ UNCHANGED <<id, toServer, toClient, serving>>
  BY <1>1, <1>2, <1>3, <1>4, <1>5, <1>6 DEF Enter, Domains
<1>8. /\ DOMAIN f = DOMAIN outstandings[c] \cup {n} /\ f[n] = k.call
      /\ \A i \in DOMAIN outstandings[c] : f[i] = outstandings[c][i]
  BY <1>4, <1>5
<1>9. /\ l.step = "send" /\ l.channel = c /\ l.id = n /\ l.call = k.call /\ l # Idle
      /\ DOMAIN l = {"step", "channel", "id", "call"}
  BY <1>2, <1>3, <1>4, <1>6 DEF Idle
<1>10. Domains'
  BY <1>7 DEF Domains
<1>11. ASSUME NEW d \in Channels PROVE ChannelOK(d)'
  <2>1. CASE d = c
    <3>1. Matched(ToSet(toServer[c]), serving[c], ToSet(toClient[c]), f)
      <4>1. PICK A, B, C, o : /\ A = ToSet(toServer[c]) /\ B = serving[c]
                              /\ C = ToSet(toClient[c]) /\ o = outstandings[c]
        OBVIOUS
      <4>2. Matched(A, B, C, o)
        <5>1. Matched(ToSet(toServer[c]), serving[c], ToSet(toClient[c]), outstandings[c])
          BY <1>4 DEF ChannelOK
        <5> QED BY <4>1, <5>1
      <4>3. \A m \in A \cup B \cup C : m.id \in DOMAIN f /\ f[m.id] = m.call
        BY <1>8, <4>1, <4>2 DEF Matched
      <4> QED BY <4>1, <4>2, <4>3 DEF Matched
    <3>2. DOMAIN f \subseteq 1 .. id[c]
      BY <1>4, <1>8 DEF ChannelOK
    <3> QED BY <1>7, <2>1, <3>1, <3>2 DEF ChannelOK
  <2>2. CASE d # c
    BY <1>7, <2>2 DEF ChannelOK
  <2> QED BY <2>1, <2>2
<1>12. CallerOK(t)'
  BY <1>4, <1>7, <1>8, <1>9 DEF CallerOK
<1>13. ASSUME NEW u \in Threads \ {t} PROVE CallerOK(u)'
  <2>1. CASE calling[u] = Idle
    BY <1>7, <2>1 DEF CallerOK
  <2>2. CASE calling[u] # Idle
    <3>1. PICK j : j = calling[u]
      OBVIOUS
    <3>2. /\ DOMAIN j = {"step", "channel", "id", "call"}
          /\ j.step \in {"insert", "send"}
          /\ j.channel \in Channels /\ j.id \in 1 .. id[j.channel]
          /\ j.step = "insert" => j.id \notin DOMAIN outstandings[j.channel]
          /\ j.step = "send" => /\ j.id \in DOMAIN outstandings[j.channel]
                                /\ outstandings[j.channel][j.id] = j.call
          /\ \A m \in ToSet(toServer[j.channel]) \cup serving[j.channel]
                        \cup ToSet(toClient[j.channel]) : m.id # j.id
      BY <2>2, <3>1 DEF CallerOK
    <3>3. /\ j.step = "insert" => j.id \notin DOMAIN outstandings'[j.channel]
          /\ j.step = "send" => /\ j.id \in DOMAIN outstandings'[j.channel]
                                /\ outstandings'[j.channel][j.id] = j.call
      <4>1. CASE j.channel = c
        <5>1. j.id # n
          BY <1>4, <2>2, <3>1, <4>1
        <5> QED BY <1>7, <1>8, <3>2, <4>1, <5>1
      <4>2. CASE j.channel # c
        BY <1>7, <3>2, <4>2
      <4> QED BY <4>1, <4>2
    <3>4. \A v \in Threads \ {u} :
            calling'[v] # Idle /\ calling'[v].channel = j.channel => calling'[v].id # j.id
      <4> TAKE v \in Threads \ {u}
      <4>1. CASE v = t
        BY <1>4, <1>7, <1>9, <2>2, <3>1, <4>1
      <4>2. CASE v # t
        BY <1>7, <2>2, <3>1, <4>2 DEF CallerOK
      <4> QED BY <4>1, <4>2
    <3> QED BY <1>7, <3>1, <3>2, <3>3, <3>4 DEF CallerOK
  <2> QED BY <2>1, <2>2
<1> QED BY <1>10, <1>11, <1>12, <1>13

\* CallMethod sends the request, if the connection is up.
LEMMA SendRequestKeeps == ASSUME RpcInv, NEW t \in Threads, SendRequest(t) PROVE RpcInv'
<1> USE DEF RpcInv
<1>1. PICK k : k = calling[t]
  OBVIOUS
<1>2. PICK c : c = k.channel
  OBVIOUS
<1>3. PICK n : n = k.id
  OBVIOUS
<1>4. /\ k.step = "send" /\ k # Idle /\ c \in Channels
      /\ n \in DOMAIN outstandings[c] /\ outstandings[c][n] = k.call
      /\ \A m \in ToSet(toServer[c]) \cup serving[c] \cup ToSet(toClient[c]) : m.id # n
      /\ \A u \in Threads \ {t} :
           calling[u] # Idle /\ calling[u].channel = c => calling[u].id # n
  <2>1. k.step = "send" /\ k # Idle
    BY <1>1 DEF SendRequest, Idle
  <2> QED BY <1>1, <1>2, <1>3, <2>1 DEF CallerOK
<1>5. PICK e : e = [id |-> n, call |-> k.call]
  OBVIOUS
<1>6. PICK q : q = toServer[c]
  OBVIOUS
<1>7. PICK r : r = IF up[c] THEN Append(q, e) ELSE q
  OBVIOUS
<1>8. /\ toServer'[c] = r /\ DOMAIN toServer' = Channels
      /\ \A d \in Channels \ {c} : toServer'[d] = toServer[d]
      /\ calling'[t] = Idle /\ DOMAIN calling' = Threads
      /\ \A u \in Threads \ {t} : calling'[u] = calling[u]
      /\ UNCHANGED <<id, outstandings, toClient, serving>>
  BY <1>1, <1>2, <1>3, <1>4, <1>5, <1>6, <1>7 DEF SendRequest, Domains
<1>9. ChannelOK(c) /\ IsSeq(q) /\ Distinct(q) /\ \A m \in ToSet(q) : m.id # n
  BY <1>4, <1>6 DEF ChannelOK
<1>10. IsSeq(r) /\ Distinct(r) /\ ToSet(r) \subseteq ToSet(q) \cup {e} /\ e.id = n
       /\ e.call = k.call
  BY <1>5, <1>7, <1>9, Appended
<1>11. Domains'
  BY <1>8 DEF Domains
<1>12. ASSUME NEW d \in Channels PROVE ChannelOK(d)'
  <2>1. CASE d = c
    <3>1. Matched(ToSet(r), serving[c], ToSet(toClient[c]), outstandings[c])
      <4>1. Matched(ToSet(q), serving[c], ToSet(toClient[c]), outstandings[c])
        BY <1>6, <1>9 DEF ChannelOK
      <4> QED BY <1>4, <1>10, <4>1 DEF Matched
    <3> QED BY <1>8, <1>9, <1>10, <2>1, <3>1 DEF ChannelOK
  <2>2. CASE d # c
    BY <1>8, <2>2 DEF ChannelOK
  <2> QED BY <2>1, <2>2
<1>13. CallerOK(t)'
  BY <1>8 DEF CallerOK
<1>14. ASSUME NEW u \in Threads \ {t} PROVE CallerOK(u)'
  <2>1. CASE calling[u] = Idle
    BY <1>8, <2>1 DEF CallerOK
  <2>2. CASE calling[u] # Idle
    <3>1. PICK j : j = calling[u]
      OBVIOUS
    <3>2. /\ DOMAIN j = {"step", "channel", "id", "call"}
          /\ j.step \in {"insert", "send"}
          /\ j.channel \in Channels /\ j.id \in 1 .. id[j.channel]
          /\ j.step = "insert" => j.id \notin DOMAIN outstandings[j.channel]
          /\ j.step = "send" => /\ j.id \in DOMAIN outstandings[j.channel]
                                /\ outstandings[j.channel][j.id] = j.call
          /\ \A m \in ToSet(toServer[j.channel]) \cup serving[j.channel]
                        \cup ToSet(toClient[j.channel]) : m.id # j.id
      BY <2>2, <3>1 DEF CallerOK
    <3>3. \A m \in ToSet(toServer'[j.channel]) \cup serving'[j.channel]
                        \cup ToSet(toClient'[j.channel]) : m.id # j.id
      <4>1. CASE j.channel = c
        <5>1. j.id # n
          BY <1>4, <2>2, <3>1, <4>1
        <5>2. \A m \in ToSet(r) : m.id # j.id
          BY <1>6, <1>10, <3>2, <4>1, <5>1
        <5> QED BY <1>8, <3>2, <4>1, <5>2
      <4>2. CASE j.channel # c
        BY <1>8, <3>2, <4>2
      <4> QED BY <4>1, <4>2
    <3>4. \A v \in Threads \ {u} :
            calling'[v] # Idle /\ calling'[v].channel = j.channel => calling'[v].id # j.id
      BY <1>8, <2>2, <3>1 DEF CallerOK
    <3> QED BY <1>8, <3>1, <3>2, <3>3, <3>4 DEF CallerOK
  <2> QED BY <2>1, <2>2
<1> QED BY <1>11, <1>12, <1>13, <1>14

\* The server answers the first request at once, with an error or a response.
AnswerFirst(c, response) ==
  /\ toServer[c] # << >>
  /\ toServer' = [toServer EXCEPT ![c] = Tail(@)]
  /\ toClient' = [toClient EXCEPT ![c] = Append(@, Answer(Head(toServer[c]), response))]
  /\ UNCHANGED <<id, outstandings, calling, serving>>

\* It leaves every message an entry of its own.
LEMMA AnsweredNow ==
  ASSUME RpcInv, NEW c \in Channels, NEW response, AnswerFirst(c, response)
  PROVE  RpcInv'
<1> USE DEF RpcInv
<1>1. PICK q, p, h, e : /\ q = toServer[c] /\ p = toClient[c] /\ h = Head(q)
                        /\ e = Answer(h, response)
  OBVIOUS
<1>2. e.id = h.id /\ e.call = h.call
  BY <1>1 DEF Answer
<1>3. /\ toServer'[c] = Tail(q) /\ toClient'[c] = Append(p, e) /\ serving' = serving
      /\ \A d \in Channels \ {c} : toServer'[d] = toServer[d] /\ toClient'[d] = toClient[d]
      /\ DOMAIN toServer' = Channels /\ DOMAIN toClient' = Channels
      /\ DOMAIN serving' = Channels
      /\ UNCHANGED <<id, outstandings, calling>>
  BY <1>1 DEF Domains, AnswerFirst
<1>4. PICK A, B, C, S, R, o : /\ A = ToSet(q) /\ B = serving[c] /\ C = ToSet(p)
                              /\ S = ToSet(Tail(q)) /\ R = ToSet(Append(p, e))
                              /\ o = outstandings[c]
  OBVIOUS
<1>5. ChannelOK(c) /\ q # << >>
  BY <1>1 DEF AnswerFirst
<1>6. /\ IsSeq(q) /\ Distinct(q) /\ IsSeq(p) /\ Distinct(p) /\ Matched(A, B, C, o)
      /\ \A m, n \in B : m.id = n.id => m = n
  BY <1>1, <1>4, <1>5 DEF ChannelOK
<1>7. /\ IsSeq(Tail(q)) /\ Distinct(Tail(q)) /\ A = S \cup {h}
      /\ \A m \in S : m.id # h.id
  BY <1>1, <1>4, <1>5, <1>6, Dequeued
<1>8. \A m \in C : m.id # e.id
  BY <1>2, <1>6, <1>7 DEF Matched
<1>9. IsSeq(Append(p, e)) /\ Distinct(Append(p, e)) /\ R = C \cup {e}
  BY <1>4, <1>6, <1>8, Appended
<1>10. Matched(S, B, R, o)
  <2>1. \A m \in S \cup B \cup R : m.id \in DOMAIN o /\ o[m.id] = m.call
    BY <1>2, <1>6, <1>7, <1>9 DEF Matched
  <2>2. \A m \in S, n \in B : m.id # n.id
    BY <1>6, <1>7 DEF Matched
  <2>3. \A m \in S, n \in R : m.id # n.id
    BY <1>2, <1>6, <1>7, <1>9 DEF Matched
  <2>4. \A m \in B, n \in R : m.id # n.id
    BY <1>2, <1>6, <1>7, <1>9 DEF Matched
  <2> QED BY <2>1, <2>2, <2>3, <2>4 DEF Matched
<1>11. Ids(S \cup B \cup R) \subseteq Ids(A \cup B \cup C)
  BY <1>2, <1>7, <1>9 DEF Ids
<1>12. ChannelOK(c)'
  BY <1>1, <1>3, <1>4, <1>5, <1>6, <1>7, <1>9, <1>10 DEF ChannelOK
<1>13. AllIds(c)' \subseteq AllIds(c)
  BY <1>1, <1>3, <1>4, <1>11 DEF AllIds
<1> HIDE DEF RpcInv
<1> QED BY <1>3, <1>12, <1>13, MovesKeep

\* The service keeps the closure of the first request.
LEMMA ServeLaterKeeps == ASSUME RpcInv, NEW c \in Channels, ServeLater(c) PROVE RpcInv'
<1> USE DEF RpcInv
<1>1. PICK q, h : q = toServer[c] /\ h = Head(q)
  OBVIOUS
<1>2. PICK A, B, C, S, W, o : /\ A = ToSet(q) /\ B = serving[c] /\ C = ToSet(toClient[c])
                              /\ S = ToSet(Tail(q)) /\ W = B \cup {h}
                              /\ o = outstandings[c]
  OBVIOUS
<1>3. /\ q # << >>
      /\ toServer'[c] = Tail(q) /\ serving'[c] = W /\ toClient' = toClient
      /\ \A d \in Channels \ {c} : toServer'[d] = toServer[d] /\ serving'[d] = serving[d]
      /\ DOMAIN toServer' = Channels /\ DOMAIN toClient' = Channels
      /\ DOMAIN serving' = Channels
      /\ UNCHANGED <<id, outstandings, calling>>
  BY <1>1, <1>2 DEF ServeLater, Domains
<1>4. ChannelOK(c)
  OBVIOUS
<1>5. /\ IsSeq(q) /\ Distinct(q) /\ Matched(A, B, C, o)
      /\ IsSeq(toClient[c]) /\ Distinct(toClient[c])
      /\ \A m, n \in B : m.id = n.id => m = n
  BY <1>1, <1>2, <1>4 DEF ChannelOK
<1>6. /\ IsSeq(Tail(q)) /\ Distinct(Tail(q)) /\ A = S \cup {h}
      /\ \A m \in S : m.id # h.id
  BY <1>1, <1>2, <1>3, <1>5, Dequeued
<1>7. \A m, n \in W : m.id = n.id => m = n
  BY <1>2, <1>5, <1>6 DEF Matched
<1>8. Matched(S, W, C, o)
  <2>1. \A m \in S \cup W \cup C : m.id \in DOMAIN o /\ o[m.id] = m.call
    BY <1>2, <1>5, <1>6 DEF Matched
  <2>2. \A m \in S, n \in W : m.id # n.id
    BY <1>2, <1>5, <1>6 DEF Matched
  <2>3. \A m \in S, n \in C : m.id # n.id
    BY <1>5, <1>6 DEF Matched
  <2>4. \A m \in W, n \in C : m.id # n.id
    BY <1>2, <1>5, <1>6 DEF Matched
  <2> QED BY <2>1, <2>2, <2>3, <2>4 DEF Matched
<1>9. Ids(S \cup W \cup C) \subseteq Ids(A \cup B \cup C)
  BY <1>2, <1>6 DEF Ids
<1>10. ChannelOK(c)'
  BY <1>1, <1>2, <1>3, <1>4, <1>5, <1>6, <1>7, <1>8 DEF ChannelOK
<1>11. AllIds(c)' \subseteq AllIds(c)
  BY <1>1, <1>2, <1>3, <1>9 DEF AllIds
<1> HIDE DEF RpcInv
<1> QED BY <1>3, <1>10, <1>11, MovesKeep

\* The service runs a closure it has kept.
LEMMA DoneCallbackKeeps ==
  ASSUME RpcInv, NEW c \in Channels, NEW h \in serving[c], NEW response,
         DoneCallback(c, h, response)
  PROVE  RpcInv'
<1> USE DEF RpcInv
<1>1. PICK p, e : p = toClient[c] /\ e = Answer(h, response)
  OBVIOUS
<1>2. PICK A, B, C, W, R, o : /\ A = ToSet(toServer[c]) /\ B = serving[c] /\ C = ToSet(p)
                              /\ W = B \ {h} /\ R = ToSet(Append(p, e))
                              /\ o = outstandings[c]
  OBVIOUS
<1>3. /\ e.id = h.id /\ e.call = h.call /\ h \in B
      /\ toClient'[c] = Append(p, e) /\ serving'[c] = W /\ toServer' = toServer
      /\ \A d \in Channels \ {c} : toClient'[d] = toClient[d] /\ serving'[d] = serving[d]
      /\ DOMAIN toServer' = Channels /\ DOMAIN toClient' = Channels
      /\ DOMAIN serving' = Channels
      /\ UNCHANGED <<id, outstandings, calling>>
  BY <1>1, <1>2 DEF DoneCallback, Domains, Answer
<1>4. ChannelOK(c)
  OBVIOUS
<1>5. /\ IsSeq(p) /\ Distinct(p) /\ Matched(A, B, C, o)
      /\ IsSeq(toServer[c]) /\ Distinct(toServer[c])
      /\ \A m, n \in B : m.id = n.id => m = n
  BY <1>1, <1>2, <1>4 DEF ChannelOK
<1>6. IsSeq(Append(p, e)) /\ Distinct(Append(p, e)) /\ R = C \cup {e}
  <2>1. \A m \in C : m.id # e.id
    BY <1>3, <1>5 DEF Matched
  <2> QED BY <1>2, <1>5, <2>1, Appended
<1>7. \A m, n \in W : m.id = n.id => m = n
  BY <1>2, <1>5
<1>8. Matched(A, W, R, o)
  <2>1. \A m \in A \cup W \cup R : m.id \in DOMAIN o /\ o[m.id] = m.call
    BY <1>2, <1>3, <1>5, <1>6 DEF Matched
  <2>2. \A m \in A, n \in W : m.id # n.id
    BY <1>2, <1>5 DEF Matched
  <2>3. \A m \in A, n \in R : m.id # n.id
    BY <1>3, <1>5, <1>6 DEF Matched
  <2>4. \A m \in W, n \in R : m.id # n.id
    <3>1. \A m \in W : m \in B /\ m.id # h.id
      BY <1>2, <1>3, <1>5
    <3> QED BY <1>3, <1>5, <1>6, <3>1 DEF Matched
  <2> QED BY <2>1, <2>2, <2>3, <2>4 DEF Matched
<1>9. Ids(A \cup W \cup R) \subseteq Ids(A \cup B \cup C)
  BY <1>2, <1>3, <1>6 DEF Ids
<1>10. ChannelOK(c)'
  BY <1>1, <1>2, <1>3, <1>4, <1>5, <1>6, <1>7, <1>8 DEF ChannelOK
<1>11. AllIds(c)' \subseteq AllIds(c)
  BY <1>1, <1>2, <1>3, <1>9 DEF AllIds
<1> HIDE DEF RpcInv
<1> QED BY <1>3, <1>10, <1>11, MovesKeep

\* The client takes the entry of the first answer out.
LEMMA ReceiveKeeps == ASSUME RpcInv, NEW c \in Channels, Receive(c) PROVE RpcInv'
<1> USE DEF RpcInv
<1>1. PICK q, h, o : q = toClient[c] /\ h = Head(q) /\ o = outstandings[c]
  OBVIOUS
<1>2. PICK f : f = [i \in DOMAIN o \ {h.id} |-> o[i]]
  OBVIOUS
<1>3. PICK A, B, C, R : /\ A = ToSet(toServer[c]) /\ B = serving[c] /\ C = ToSet(q)
                        /\ R = ToSet(Tail(q))
  OBVIOUS
<1>4. /\ q # << >> /\ toClient'[c] = Tail(q) /\ outstandings'[c] = f
      /\ \A d \in Channels \ {c} : /\ toClient'[d] = toClient[d]
                                   /\ outstandings'[d] = outstandings[d]
      /\ DOMAIN toClient' = Channels /\ DOMAIN outstandings' = Channels
      /\ UNCHANGED <<id, calling, toServer, serving>>
  BY <1>1, <1>2 DEF Receive, Domains
<1>5. ChannelOK(c)
  OBVIOUS
<1>6. /\ IsSeq(q) /\ Distinct(q) /\ Matched(A, B, C, o)
      /\ id[c] \in Nat /\ DOMAIN o \subseteq 1 .. id[c]
      /\ IsSeq(toServer[c]) /\ Distinct(toServer[c])
      /\ \A m, n \in B : m.id = n.id => m = n
  BY <1>1, <1>3, <1>5 DEF ChannelOK
<1>7. /\ IsSeq(Tail(q)) /\ Distinct(Tail(q)) /\ C = R \cup {h}
      /\ \A m \in R : m.id # h.id
  BY <1>1, <1>3, <1>4, <1>6, Dequeued
<1>8. DOMAIN f = DOMAIN o \ {h.id} /\ \A i \in DOMAIN f : f[i] = o[i]
  BY <1>2
<1>9. Matched(A, B, R, f)
  <2>1. \A m \in A \cup B \cup R : m.id # h.id
    BY <1>6, <1>7 DEF Matched
  <2>2. \A m \in A \cup B \cup R : m.id \in DOMAIN f /\ f[m.id] = m.call
    BY <1>6, <1>7, <1>8, <2>1 DEF Matched
  <2> QED BY <1>6, <1>7, <2>2 DEF Matched
<1>10. Domains'
  BY <1>4 DEF Domains
<1>11. ASSUME NEW d \in Channels PROVE ChannelOK(d)'
  <2>1. CASE d = c
    BY <1>3, <1>4, <1>6, <1>7, <1>8, <1>9, <2>1 DEF ChannelOK
  <2>2. CASE d # c
    BY <1>4, <2>2 DEF ChannelOK
  <2> QED BY <2>1, <2>2
<1>12. ASSUME NEW u \in Threads PROVE CallerOK(u)'
  <2>1. CASE calling[u] = Idle
    BY <1>4, <2>1 DEF CallerOK
  <2>2. CASE calling[u] # Idle
    <3>1. PICK j : j = calling[u]
      OBVIOUS
    <3>2. /\ DOMAIN j = {"step", "channel", "id", "call"}
          /\ j.step \in {"insert", "send"}
          /\ j.channel \in Channels /\ j.id \in 1 .. id[j.channel]
          /\ j.step = "insert" => j.id \notin DOMAIN outstandings[j.channel]
          /\ j.step = "send" => /\ j.id \in DOMAIN outstandings[j.channel]
                                /\ outstandings[j.channel][j.id] = j.call
          /\ \A m \in ToSet(toServer[j.channel]) \cup serving[j.channel]
                        \cup ToSet(toClient[j.channel]) : m.id # j.id
          /\ \A v \in Threads \ {u} :
               calling[v] # Idle /\ calling[v].channel = j.channel => calling[v].id # j.id
      BY <2>2, <3>1 DEF CallerOK
    <3>3. /\ j.step = "insert" => j.id \notin DOMAIN outstandings'[j.channel]
          /\ j.step = "send" => /\ j.id \in DOMAIN outstandings'[j.channel]
                                /\ outstandings'[j.channel][j.id] = j.call
          /\ \A m \in ToSet(toServer'[j.channel]) \cup serving'[j.channel]
                        \cup ToSet(toClient'[j.channel]) : m.id # j.id
      <4>1. CASE j.channel = c
        <5>1. j.id # h.id
          BY <1>1, <1>3, <1>7, <3>2, <4>1
        <5>2. \A m \in A \cup B \cup R : m.id # j.id
          BY <1>1, <1>3, <1>7, <3>2, <4>1
        <5>3. /\ j.step = "insert" => j.id \notin DOMAIN f
              /\ j.step = "send" => j.id \in DOMAIN f /\ f[j.id] = j.call
          BY <1>1, <1>8, <3>2, <4>1, <5>1
        <5> QED BY <1>3, <1>4, <4>1, <5>2, <5>3
      <4>2. CASE j.channel # c
        BY <1>4, <3>2, <4>2
      <4> QED BY <4>1, <4>2
    <3> QED BY <1>4, <3>1, <3>2, <3>3 DEF CallerOK
  <2> QED BY <2>1, <2>2
<1> QED BY <1>10, <1>11, <1>12
-----------------------------------------------------------------------------
\* A queue of distinct messages is as long as they are many.
LEMMA AsLongAsMany ==
  ASSUME NEW q, IsSeq(q), Distinct(q)
  PROVE  IsFiniteSet(Ids(ToSet(q))) /\ Cardinality(Ids(ToSet(q))) = Len(q)
<1> DEFINE F == [i \in DOMAIN q |-> q[i].id]
           I == Ids(ToSet(q))
<1>1. Len(q) \in Nat /\ DOMAIN q = 1 .. Len(q)
  BY LenProperties DEF IsSeq
<1>2. F \in [DOMAIN q -> I] /\ \A n \in I : \E i \in DOMAIN q : F[i] = n
  BY DEF Ids, ToSet
<1>3. \A i, j \in DOMAIN q : i # j => F[i] # F[j]
  BY DEF Distinct
<1> HIDE DEF F, I
<1>4. F \in Bijection(DOMAIN q, I)
  BY <1>2, <1>3, Fun_IsBij
<1>5. IsFiniteSet(DOMAIN q) /\ Cardinality(DOMAIN q) = Len(q)
  <2>1. PICK n \in Nat : n = Len(q)
    BY <1>1
  <2>2. IsFiniteSet(1 .. n) /\ Cardinality(1 .. n) = n
    BY FS_Interval
  <2> QED BY <1>1, <2>1, <2>2, SMTT(60)
<1> QED BY <1>4, <1>5, FS_Bijection DEF ExistsBijection, I

\* What is on the connection has entries that no kept closure has.
LEMMA EntriesSuffice ==
  ASSUME NEW c \in Channels, ChannelOK(c)
  PROVE  Len(toServer[c]) + Len(toClient[c])
           <= Cardinality(DOMAIN outstandings[c] \ {m.id : m \in serving[c]})
<1>1. PICK S, R, W : /\ S = Ids(ToSet(toServer[c])) /\ R = Ids(ToSet(toClient[c]))
                     /\ W = {m.id : m \in serving[c]}
  OBVIOUS
<1>2. PICK D : D = DOMAIN outstandings[c] \ W
  OBVIOUS
<1>3. /\ IsFiniteSet(S) /\ Cardinality(S) = Len(toServer[c])
      /\ IsFiniteSet(R) /\ Cardinality(R) = Len(toClient[c])
  BY <1>1, AsLongAsMany DEF ChannelOK
<1>4. S \cap R = {} /\ S \cup R \subseteq D
  BY <1>1, <1>2 DEF ChannelOK, Matched, Ids
<1>5. IsFiniteSet(D)
  <2>1. PICK n \in Nat : D \subseteq 1 .. n
    BY <1>2 DEF ChannelOK
  <2>2. IsFiniteSet(1 .. n)
    BY FS_Interval
  <2> QED BY <2>1, <2>2, FS_Subset
<1>6. IsFiniteSet(S \cup R) /\ Cardinality(S \cup R) <= Cardinality(D)
  BY <1>4, <1>5, FS_Subset
<1>7. Cardinality(S \cup R) = Cardinality(S) + Cardinality(R) - Cardinality({})
  BY <1>3, <1>4, FS_Union
<1>8. Cardinality({}) = 0
  BY FS_EmptySet
<1>9. Cardinality(S) \in Nat /\ Cardinality(R) \in Nat
  BY <1>3, FS_CardinalityType
<1>10. Cardinality(S) + Cardinality(R) <= Cardinality(D)
  BY <1>6, <1>7, <1>8, <1>9
<1> QED BY <1>1, <1>2, <1>3, <1>10
-----------------------------------------------------------------------------
\* Nothing is under way at first.
LEMMA InitInvariant == Init => IInv
<1> SUFFICES ASSUME Init PROVE IInv
  OBVIOUS
<1>1. /\ id = [c \in Channels |-> 0] /\ outstandings = [c \in Channels |-> << >>]
      /\ calling = [t \in Threads |-> Idle]
      /\ toServer = [c \in Channels |-> << >>] /\ toClient = [c \in Channels |-> << >>]
      /\ serving = [c \in Channels |-> {}]
      /\ todo = << >> /\ others = OtherCalls
  BY DEF Init, RpcInit
<1>2. Domains
  BY <1>1 DEF Domains
<1>3. ASSUME NEW c \in Channels PROVE ChannelOK(c)
  <2>1. /\ id[c] = 0 /\ outstandings[c] = << >> /\ toServer[c] = << >>
        /\ toClient[c] = << >> /\ serving[c] = {}
    BY <1>1
  <2> QED BY <2>1, Empty DEF ChannelOK, Matched
<1>4. \A t \in Threads : CallerOK(t)
  BY <1>1 DEF CallerOK
<1>5. CallsOK
  BY <1>1 DEF CallsOK
<1> QED BY <1>2, <1>3, <1>4, <1>5 DEF IInv, RpcInv

\* Every step keeps the channels.
LEMMA NextInvariant == IInv /\ [Next]_vars => IInv'
<1> SUFFICES ASSUME IInv, [Next]_vars PROVE IInv'
  OBVIOUS
<1>1. /\ RpcInv /\ todo \in Seq(Channels) /\ others \subseteq OtherCalls
      /\ Sorters \in Seq(Channels) /\ main \in Threads /\ other \in Threads
  BY CollectorAssumption DEF IInv, CallsOK
<1>a. ASSUME RpcInv', todo' \in Seq(Channels), others' \subseteq others
      PROVE  IInv'
  BY <1>1, <1>a DEF IInv, CallsOK
<1>2. CASE MainCall
  <2>1. PICK call : CallMethod(main, Head(todo), call)
    BY <1>2 DEF MainCall
  <2>2. Head(todo) \in Channels /\ Tail(todo) \in Seq(Channels)
    BY <1>1, <1>2, HeadTailProperties DEF MainCall
  <2>3. RpcInv'
    BY <1>1, <2>1, <2>2, CallMethodKeeps
  <2> QED BY <1>2, <1>a, <2>2, <2>3 DEF MainCall
<1>3. CASE MainWaits \/ Connected \/ StatsKnown \/ GuessJudged
  <2>1. UNCHANGED <<id, outstandings, calling, toServer, toClient, serving>>
    BY <1>3 DEF MainWaits, Connected, StatsKnown, GuessJudged, rpcVars
  <2>2. (todo' = todo \/ todo' = Sorters) /\ others' = others
    BY <1>3 DEF MainWaits, Connected, StatsKnown, GuessJudged, StartRound, End
  <2> QED BY <1>1, <1>a, <2>1, <2>2, StaysOK
<1>4. CASE InCallMethod(main) \/ InCallMethod(other)
  <2>1. PICK t \in Threads :
          (Enter(t) \/ SendRequest(t)) /\ todo' = todo /\ others' = others
    BY <1>1, <1>4 DEF InCallMethod, mainVars
  <2> QED BY <1>1, <1>a, <2>1, EnterKeeps, SendRequestKeeps
<1>5. CASE OtherCall
  <2>1. PICK o \in others :
          CallMethod(other, o.channel, o.call) /\ todo' = todo /\ others' = {}
    BY <1>5 DEF OtherCall, mainVars
  <2>2. o.channel \in Channels
    BY <1>1, <2>1, CollectorAssumption
  <2> QED BY <1>1, <1>a, <2>1, <2>2, CallMethodKeeps
<1>6. ASSUME NEW c \in Channels, OnConnection(c) \/ OnAnswer(c) \/ Serve(c)
               \/ RunDone(c) \/ Lose(c) \/ Generate(c)
      PROVE  IInv'
  <2>1. todo' = todo /\ others' = others
    BY <1>6 DEF OnConnection, OnAnswer, Serve, RunDone, Lose, Generate, mainVars
  <2>2. CASE OnConnection(c) \/ Generate(c)
    <3>1. UNCHANGED <<id, outstandings, calling, toServer, toClient, serving>>
      BY <2>2 DEF OnConnection, SetConnection, Generate, rpcVars
    <3> QED BY <1>1, <1>a, <2>1, <3>1, StaysOK
  <2>3. CASE OnAnswer(c)
    BY <1>1, <1>a, <2>1, <2>3, ReceiveKeeps DEF OnAnswer
  <2>4. CASE Serve(c)
    <3>1. ServeLater(c) \/ \E response : AnswerFirst(c, response)
      BY <2>4 DEF Serve, ServeError, ServeNow, AnswerFirst
    <3> QED BY <1>1, <1>a, <2>1, <3>1, ServeLaterKeeps, AnsweredNow
  <2>5. CASE RunDone(c)
    <3>1. PICK m, response : m \in serving[c] /\ DoneCallback(c, m, response)
      BY <2>5 DEF RunDone
    <3> QED BY <1>1, <1>a, <2>1, <3>1, DoneCallbackKeeps
  <2>6. CASE Lose(c)
    BY <1>1, <1>a, <2>1, <2>6, DropKeeps DEF Lose
  <2> QED BY <1>6, <2>2, <2>3, <2>4, <2>5, <2>6
<1>7. CASE Stopped \/ UNCHANGED vars
  <2>1. UNCHANGED <<id, outstandings, calling, toServer, toClient, serving, todo, others>>
    BY <1>7 DEF Stopped, vars, rpcVars, mainVars
  <2> QED BY <1>1, <1>a, <2>1, StaysOK
<1> QED BY <1>2, <1>3, <1>4, <1>5, <1>6, <1>7 DEF Next, MainStep
-----------------------------------------------------------------------------
\* IInv is an invariant, for any channels, services and calls.
THEOREM Invariant == Spec => []IInv
BY InitInvariant, NextInvariant, PTL DEF Spec

\* Everything under way belongs to a call entered under its id, and to one only
\* (RpcChannel.cc 39-53 and 62-82).
THEOREM AnswersOwnedCorrect == Spec => []AnswersOwned
<1>1. IInv => AnswersOwned
  <2> SUFFICES ASSUME IInv, NEW c \in Channels
               PROVE  /\ \A m \in UnderWay(c) :
                           m.id \in DOMAIN outstandings[c] /\ outstandings[c][m.id] = m.call
                      /\ \A t \in Threads :
                           calling[t] # Idle /\ calling[t].channel = c =>
                             \A m \in UnderWay(c) : m.id # calling[t].id
                      /\ Len(toServer[c]) + Len(toClient[c])
                           <= Cardinality(DOMAIN outstandings[c] \ {m.id : m \in serving[c]})
    BY DEF AnswersOwned
  <2>1. ChannelOK(c) /\ \A t \in Threads : CallerOK(t)
    BY DEF IInv, RpcInv
  <2>2. \A m \in UnderWay(c) : \E n \in ToSet(toServer[c]) \cup serving[c] \cup ToSet(toClient[c]) :
          m.id = n.id /\ m.call = n.call
    BY DEF UnderWay
  <2>3. \A m \in UnderWay(c) :
          m.id \in DOMAIN outstandings[c] /\ outstandings[c][m.id] = m.call
    BY <2>1, <2>2 DEF ChannelOK, Matched
  <2>4. \A t \in Threads : calling[t] # Idle /\ calling[t].channel = c =>
          \A m \in UnderWay(c) : m.id # calling[t].id
    BY <2>1, <2>2 DEF CallerOK
  <2>5. Len(toServer[c]) + Len(toClient[c])
          <= Cardinality(DOMAIN outstandings[c] \ {m.id : m \in serving[c]})
    BY <2>1, EntriesSuffice
  <2> QED BY <2>3, <2>4, <2>5
<1> QED BY <1>1, Invariant, PTL
-----------------------------------------------------------------------------
(***************************************************************************)
(* The rounds of the collector, while nobody generates new numbers.  In a  *)
(* round every sorter is called once; it is awaited until its answer has   *)
(* run its closure, and the sums are those of the others.  Between the     *)
(* rounds the interval of the search keeps the median and is halved.       *)
(***************************************************************************)
Int64 == kMin .. kMax

\* The call of this round and the answer to it.
ThisCall ==
  [thread |-> main, service |-> "Sorter", method |-> round,
   arg |-> IF round = "Search" THEN search.guess ELSE 0, valid |-> TRUE]
ThisAnswer(c) ==
  IF round = "Query" THEN QueryAnswer(data[c]) ELSE SearchAnswer(data[c], search.guess)

\* Where the main thread's call of a sorter is: still to come, without its
\* entry, or entered under these ids.
InHand == IF calling[main].step = "insert" THEN {calling[main].channel} ELSE {}
Entered(c) == {i \in DOMAIN outstandings[c] : outstandings[c][i].thread = main}
Awaited == ToSet(todo) \cup InHand \cup {c \in Channels : Entered(c) # {}}
Answered == Channels \ Awaited

\* Of the main thread's calls there are only those of this round, each once.
Calls ==
  /\ calling[main] # Idle => calling[main].call = ThisCall
  /\ calling[other] # Idle => calling[other].call.thread = other
  /\ \A c \in Channels :
       /\ \A i \in Entered(c) : outstandings[c][i] = ThisCall
       /\ \A i, j \in Entered(c) : i = j
       /\ \A m \in serving[c] : m.call.thread # main
       /\ \A m \in ToSet(toClient[c]) :
            m.call.thread = main => m.response = ThisAnswer(c)
Once ==
  /\ \A i, j \in DOMAIN todo : todo[i] = todo[j] => i = j
  /\ ToSet(todo) \cap InHand = {}
  /\ \A c \in ToSet(todo) \cup InHand : Entered(c) = {}

\* Where the main thread is, and what the latch counts there.
Places ==
  /\ pc \in {"connect", "call", "wait", "end"} /\ round \in {"Query", "Search"}
  /\ pc # "call" => todo = << >> /\ calling[main] = Idle
  /\ pc \in {"connect", "end"} => \A c \in Channels : Entered(c) = {}
  /\ pc = "connect" => connecting \subseteq Channels /\ latch = Cardinality(connecting)
  /\ pc # "connect" => connecting = {} /\ latch = Cardinality(Awaited)
  /\ pc # "end" => outcome = "none"
InRound(method) == pc \in {"call", "wait"} /\ round = method

\* Count, minimum and maximum of the sorters that have answered.
Stats ==
  /\ result.min \in Int64 /\ result.max \in Int64
  /\ pc = "connect" => result.count = 0
  /\ pc = "connect" \/ InRound("Query") => search.steps = 0
  /\ InRound("Query") =>
       /\ result.count = HowMany(Answered, Int64)
       /\ \A c \in Answered : \A i \in DOMAIN data[c] :
            data[c][i] \in result.min .. result.max

\* The sums of the sorters that have answered.
Sums ==
  InRound("Search") =>
    /\ sums.smaller = HowMany(Answered, kMin .. search.guess - 1)
    /\ sums.same = HowMany(Answered, {search.guess})

\* The k-th number is neither below the interval nor above it, and from the
\* second guess on below its end; each guess halves the interval.
UpTo(x) == AllNumbers(kMin .. x)
Interval ==
  LET s == search IN
  InRound("Search") =>
    /\ result.count = AllNumbers(Int64)
    /\ s.min \in Int64 /\ s.max \in Int64 /\ s.min <= s.max
    /\ UpTo(s.min - 1) < Kth
    /\ s.steps = 0 => s.guess = s.max /\ UpTo(s.max) >= Kth
    /\ s.steps # 0 =>
         /\ s.guess = s.min + ((s.max - s.min) \div 2)
         /\ UpTo(s.max - 1) >= Kth
         /\ s.steps <= Width
         /\ s.max - s.min < PowerOfTwo[Width + 1 - s.steps]

SearchInv ==
  Undisturbed =>
    /\ data \in [Channels -> Datasets]
    /\ search \in [min : Int, max : Int, guess : Int, steps : Nat]
    /\ Calls /\ Once /\ Places /\ Stats /\ Sums /\ Interval
    /\ MedianCorrect /\ SearchNeverFails
-----------------------------------------------------------------------------
\* Every natural number of a set is preceded by its least one.
LEMMA LeastNumber ==
  ASSUME NEW B \in SUBSET Nat, B # {}
  PROVE  \E m \in B : \A n \in B : ~(n < m)
<1> DEFINE R == OpToRel(<, Nat)
<1>1. IsWellFoundedOn(R, Nat)
  BY NatLessThanWellFounded, Zenon
<1>2. \A n, m \in Nat : n < m => <<n, m>> \in R
  BY DEF OpToRel
<1> HIDE DEF R
<1>3. \E m \in B : \A n \in B : <<n, m>> \notin R
  BY <1>1, WFMin
<1> QED BY <1>2, <1>3

\* The powers of two up to the n-th, and that they do not depend on n.
Powers(f, n) ==
  /\ DOMAIN f = 0 .. n /\ f[0] = 1
  /\ \A i \in 1 .. n : f[i] = 2 * f[i - 1]

\* There are such powers.
LEMMA PowersExist == \A n \in Nat : \E f : Powers(f, n)
<1> DEFINE B == {n \in Nat : ~ \E f : Powers(f, n)}
<1>1. SUFFICES ASSUME B # {} PROVE FALSE
  OBVIOUS
<1>2. PICK m \in B : \A n \in B : ~(n < m)
  BY <1>1, LeastNumber
<1>3. m \in Nat
  OBVIOUS
<1>4. CASE m = 0
  <2>1. PICK f : f = [i \in 0 .. 0 |-> 1]
    OBVIOUS
  <2>2. Powers(f, 0)
    BY <2>1 DEF Powers
  <2> QED BY <1>4, <2>2
<1>5. CASE m # 0
  <2>1. m - 1 \in Nat /\ m - 1 < m
    BY <1>3, <1>5
  <2>2. PICK f : Powers(f, m - 1)
    BY <1>2, <2>1
  <2>3. PICK g : g = [i \in 0 .. m |-> IF i = m THEN 2 * f[m - 1] ELSE f[i]]
    OBVIOUS
  <2>4. Powers(g, m)
    BY <1>3, <1>5, <2>2, <2>3 DEF Powers
  <2> QED BY <2>4
<1> QED BY <1>4, <1>5

\* There is one choice of them only.
LEMMA PowersAgree ==
  ASSUME NEW n \in Nat, NEW m \in Nat, NEW f, NEW g, Powers(f, n), Powers(g, m)
  PROVE  \A i \in Nat : i <= n /\ i <= m => f[i] = g[i]
<1> DEFINE B == {i \in Nat : i <= n /\ i <= m /\ f[i] # g[i]}
<1>1. SUFFICES ASSUME B # {} PROVE FALSE
  OBVIOUS
<1>2. PICK k \in B : \A i \in B : ~(i < k)
  BY <1>1, LeastNumber
<1>3. k \in Nat /\ k <= n /\ k <= m /\ f[k] # g[k]
  OBVIOUS
<1>4. k # 0
  BY <1>3 DEF Powers
<1>5. k - 1 \in Nat /\ k - 1 < k /\ k - 1 <= n /\ k - 1 <= m
  BY <1>3, <1>4
<1>6. f[k - 1] = g[k - 1]
  BY <1>2, <1>5
<1>7. f[k] = 2 * f[k - 1] /\ g[k] = 2 * g[k - 1]
  BY <1>3, <1>4 DEF Powers
<1> QED BY <1>3, <1>6, <1>7

\* The recursion of PowerOfTwo.
LEMMA PowerLaw ==
  /\ PowerOfTwo[0] = 1
  /\ \A n \in Nat : PowerOfTwo[n] \in Nat \ {0} /\ PowerOfTwo[n + 1] = 2 * PowerOfTwo[n]
<1> DEFINE best(n) == CHOOSE f : Powers(f, n)
           p == [n \in Nat |-> best(n)[n]]
<1>1. \A n \in Nat : Powers(best(n), n)
  BY PowersExist
<1> HIDE DEF best
<1>2. \A n \in Nat : p[n] = IF n = 0 THEN 1 ELSE 2 * p[n - 1]
  <2> TAKE n \in Nat
  <2>1. CASE n = 0
    BY <1>1, <2>1 DEF Powers
  <2>2. CASE n # 0
    <3>1. n - 1 \in Nat /\ n - 1 <= n /\ n \in 1 .. n
      BY <2>2
    <3>2. best(n)[n - 1] = best(n - 1)[n - 1]
      BY <1>1, <3>1, PowersAgree
    <3>3. best(n)[n] = 2 * best(n)[n - 1]
      BY <1>1, <3>1 DEF Powers
    <3> QED BY <2>2, <3>1, <3>2, <3>3
  <2> QED BY <2>1, <2>2
<1>3. p = [n \in Nat |-> IF n = 0 THEN 1 ELSE 2 * p[n - 1]]
  BY <1>2
<1> HIDE DEF p
<1>4. PowerOfTwo = [n \in Nat |-> IF n = 0 THEN 1 ELSE 2 * PowerOfTwo[n - 1]]
  BY <1>3, Zenon DEF PowerOfTwo
<1>5. \A n \in Nat : PowerOfTwo[n] = IF n = 0 THEN 1 ELSE 2 * PowerOfTwo[n - 1]
  BY <1>4, Zenon
<1>6. PowerOfTwo[0] = 1
  BY <1>5
<1>7. \A n \in Nat : PowerOfTwo[n + 1] = 2 * PowerOfTwo[n]
  <2> TAKE n \in Nat
  <2>1. n + 1 \in Nat /\ n + 1 # 0 /\ (n + 1) - 1 = n
    OBVIOUS
  <2> QED BY <1>5, <2>1
<1>8. \A n \in Nat : PowerOfTwo[n] \in Nat \ {0}
  <2> DEFINE B == {n \in Nat : PowerOfTwo[n] \notin Nat \ {0}}
  <2>1. SUFFICES ASSUME B # {} PROVE FALSE
    OBVIOUS
  <2>2. PICK m \in B : \A n \in B : ~(n < m)
    BY <2>1, LeastNumber
  <2>3. m # 0
    BY <1>6, <2>2
  <2>4. m - 1 \in Nat /\ m - 1 < m /\ (m - 1) + 1 = m
    BY <2>2, <2>3
  <2>5. PowerOfTwo[m - 1] \in Nat \ {0}
    BY <2>2, <2>4
  <2>6. PowerOfTwo[m] = 2 * PowerOfTwo[m - 1]
    BY <1>7, <2>4
  <2> QED BY <2>2, <2>5, <2>6
<1> QED BY <1>6, <1>7, <1>8

\* An int64 and its width.
LEMMA Widths ==
  /\ kMin \in Int /\ kMax \in Int /\ kMin <= kMax
  /\ kMax - kMin = PowerOfTwo[Width] - 1 /\ PowerOfTwo[Width] \in Nat \ {0}
<1>1. Width \in Nat /\ Width - 1 \in Nat /\ (Width - 1) + 1 = Width
  BY CollectorAssumption
<1>2. /\ PowerOfTwo[Width - 1] \in Nat \ {0} /\ PowerOfTwo[Width] \in Nat \ {0}
      /\ PowerOfTwo[Width] = 2 * PowerOfTwo[Width - 1]
  BY <1>1, PowerLaw
<1> QED BY <1>2 DEF kMin, kMax

\* What fits does not wrap around, so the middle of an interval is its middle.
LEMMA MiddleIs ==
  ASSUME NEW min \in Int64, NEW max \in Int64, min <= max
  PROVE  /\ Middle(min, max) = min + ((max - min) \div 2)
         /\ Middle(min, max) \in min .. max
         /\ min < max => Middle(min, max) < max
<1>1. /\ min \in Int /\ max \in Int /\ kMin <= min /\ max <= kMax
      /\ kMin \in Int /\ kMax \in Int
      /\ kMax - kMin = PowerOfTwo[Width] - 1 /\ PowerOfTwo[Width] \in Nat \ {0}
  BY Widths DEF Int64
<1>2. PICK M \in Nat \ {0} : M = PowerOfTwo[Width]
  BY <1>1
<1>3. PICK d \in Nat : d = max - min /\ d < M
  BY <1>1, <1>2
<1>4. d % M = d
  BY <1>3, Z3
<1>5. uint64(max - min) = d
  BY <1>2, <1>3, <1>4 DEF uint64
<1>6. PICK h \in Nat : h = d \div 2 /\ h <= d /\ (d > 0 => h < d)
  BY <1>3
<1>7. PICK y \in Nat : y = min + h - kMin /\ y < M
  BY <1>1, <1>2, <1>3, <1>6
<1>8. y % M = y
  BY <1>7, Z3
<1>9. int64(min + h) = min + h
  BY <1>1, <1>2, <1>7, <1>8 DEF int64
<1>10. Middle(min, max) = min + h
  BY <1>5, <1>6, <1>9 DEF Middle
<1> QED BY <1>1, <1>3, <1>6, <1>10

\* The next number is an int64 too.
LEMMA NextIs ==
  ASSUME NEW g \in Int64, NEW max \in Int64, g < max
  PROVE  int64(g + 1) = g + 1 /\ g + 1 \in Int64
<1>1. /\ g \in Int /\ max \in Int /\ kMin <= g /\ max <= kMax
      /\ kMin \in Int /\ kMax \in Int
      /\ kMax - kMin = PowerOfTwo[Width] - 1 /\ PowerOfTwo[Width] \in Nat \ {0}
  BY Widths DEF Int64
<1>2. PICK M \in Nat \ {0} : M = PowerOfTwo[Width]
  BY <1>1
<1>3. PICK y \in Nat : y = g + 1 - kMin /\ y < M
  BY <1>1, <1>2
<1>4. y % M = y
  BY <1>3, Z3
<1> QED BY <1>1, <1>2, <1>3, <1>4 DEF int64, Int64
-----------------------------------------------------------------------------
\* sorters_ names each channel once.
LEMMA SortersAre ==
  /\ IsFiniteSet(Channels) /\ Sorters \in Seq(Channels)
  /\ ToSet(Sorters) = Channels /\ Len(Sorters) = Cardinality(Channels)
  /\ \A i, j \in DOMAIN Sorters : Sorters[i] = Sorters[j] => i = j
<1>1. /\ Sorters \in Seq(Channels) /\ ToSet(Sorters) = Channels
      /\ Len(Sorters) = Cardinality(Channels)
  BY CollectorAssumption
<1>2. PICK n \in Nat : n = Len(Sorters) /\ DOMAIN Sorters = 1 .. n
  BY <1>1, LenProperties
<1>3. IsFiniteSet(1 .. n) /\ Cardinality(1 .. n) = n
  BY FS_Interval
<1>4. PICK F : F = [i \in 1 .. n |-> Sorters[i]]
  OBVIOUS
<1>5. F \in Surjection(1 .. n, Channels)
  <2>1. F \in [1 .. n -> Channels]
    BY <1>1, <1>2, <1>4
  <2>2. \A c \in Channels : \E i \in 1 .. n : F[i] = c
    BY <1>1, <1>2, <1>4 DEF ToSet
  <2> QED BY <2>1, <2>2, Fun_IsSurj
<1>6. IsFiniteSet(Channels)
  BY <1>3, <1>5, FS_Surjection
<1>7. F \in Injection(1 .. n, Channels)
  BY <1>1, <1>2, <1>3, <1>5, <1>6, FS_Surjection
<1>8. \A i, j \in 1 .. n : F[i] = F[j] => i = j
  BY <1>7, Fun_IsInj DEF Injection, IsInjective
<1> QED BY <1>1, <1>2, <1>4, <1>6, <1>8

\* The numbers of the sorters, each with its place.
Points(cs, numbers) ==
  UNION {{c} \X {i \in DOMAIN data[c] : data[c][i] \in numbers} : c \in cs}
DataOK == \A c \in Channels : data[c] \in Seq(Int64)

\* What is in Points.
LEMMA PointIs ==
  ASSUME NEW cs, NEW X, NEW q
  PROVE  q \in Points(cs, X) <=>
           \E c \in cs : \E i \in DOMAIN data[c] : data[c][i] \in X /\ q = <<c, i>>
BY DEF Points

\* A sorter has finitely many numbers, and so have some sorters.
LEMMA CountIs ==
  ASSUME DataOK, NEW c \in Channels, NEW X
  PROVE  LET P == {i \in DOMAIN data[c] : data[c][i] \in X}
         IN  /\ IsFiniteSet(P) /\ Count(data[c], X) = Cardinality(P)
             /\ Count(data[c], X) \in Nat
             /\ IsFiniteSet({c} \X P) /\ Cardinality({c} \X P) = Count(data[c], X)
<1> DEFINE P == {i \in DOMAIN data[c] : data[c][i] \in X}
<1>1. PICK n \in Nat : n = Len(data[c]) /\ DOMAIN data[c] = 1 .. n
  BY LenProperties DEF DataOK
<1>2. IsFiniteSet(1 .. n)
  BY FS_Interval
<1>3. P \subseteq 1 .. n
  BY <1>1
<1>4. Count(data[c], X) = Cardinality(P)
  BY DEF Count
<1> HIDE DEF P
<1>5. IsFiniteSet(P) /\ Cardinality(P) \in Nat
  BY <1>2, <1>3, FS_Subset, FS_CardinalityType
<1>6. IsFiniteSet({c}) /\ Cardinality({c}) = 1
  BY FS_Singleton
<1>7. IsFiniteSet({c} \X P) /\ Cardinality({c} \X P) = 1 * Cardinality(P)
  BY <1>5, <1>6, FS_Product
<1> QED BY <1>4, <1>5, <1>7 DEF P

\* So HowMany is a number.
LEMMA PointsFinite ==
  ASSUME DataOK, NEW cs \in SUBSET Channels, NEW X
  PROVE  IsFiniteSet(Points(cs, X)) /\ HowMany(cs, X) = Cardinality(Points(cs, X))
         /\ HowMany(cs, X) \in Nat
<1> DEFINE part(c) == {c} \X {i \in DOMAIN data[c] : data[c][i] \in X}
           T == {part(c) : c \in cs}
<1>1. \A c \in cs : IsFiniteSet(part(c))
  BY CountIs
<1>2. Points(cs, X) = UNION T
  BY DEF Points
<1>3. HowMany(cs, X) = Cardinality(Points(cs, X))
  BY DEF HowMany, Points
<1> HIDE DEF part
<1> DEFINE F == [c \in cs |-> part(c)]
<1>5. F \in [cs -> T] /\ \A t \in T : \E c \in cs : F[c] = t
  OBVIOUS
<1> HIDE DEF F
<1>6. IsFiniteSet(cs)
  BY SortersAre, FS_Subset
<1>7. \A t \in T : IsFiniteSet(t)
  BY <1>1
<1> HIDE DEF T
<1>8. F \in Surjection(cs, T)
  BY <1>5, Fun_IsSurj
<1>9. IsFiniteSet(T)
  BY <1>6, <1>8, FS_Surjection
<1>10. IsFiniteSet(UNION T)
  BY <1>7, <1>9, FS_UNION
<1> QED BY <1>2, <1>3, <1>10, FS_CardinalityType

\* Another sorter adds its numbers.
LEMMA OneMore ==
  ASSUME DataOK, NEW cs \in SUBSET Channels, NEW c \in Channels \ cs, NEW X
  PROVE  HowMany(cs \cup {c}, X) = HowMany(cs, X) + Count(data[c], X)
<1> DEFINE part == {c} \X {i \in DOMAIN data[c] : data[c][i] \in X}
           S == Points(cs, X)
<1>1. IsFiniteSet(part) /\ Cardinality(part) = Count(data[c], X)
  BY CountIs
<1>2. IsFiniteSet(S) /\ HowMany(cs, X) = Cardinality(S)
  BY PointsFinite
<1>3. cs \cup {c} \in SUBSET Channels
  OBVIOUS
<1>4. HowMany(cs \cup {c}, X) = Cardinality(Points(cs \cup {c}, X))
  BY <1>3, PointsFinite
<1>5. Points(cs \cup {c}, X) = S \cup part
  BY DEF Points
<1>6. S \cap part = {}
  BY DEF Points
<1> HIDE DEF S, part
<1>7. Cardinality(S \cup part) = Cardinality(S) + Cardinality(part) - Cardinality({})
  BY <1>1, <1>2, <1>6, FS_Union
<1>8. Cardinality({}) = 0 /\ Cardinality(S) \in Nat /\ Cardinality(part) \in Nat
  BY <1>1, <1>2, FS_EmptySet, FS_CardinalityType
<1>9. Cardinality(S \cup part) = Cardinality(S) + Cardinality(part)
  BY <1>7, <1>8
<1> QED BY <1>1, <1>2, <1>4, <1>5, <1>9, Zenon

\* Nobody adds nothing.
LEMMA NoneYet == ASSUME NEW X PROVE HowMany({}, X) = 0
<1>1. UNION {{c} \X {i \in DOMAIN data[c] : data[c][i] \in X} : c \in {}} = {}
  OBVIOUS
<1> QED BY <1>1, FS_EmptySet DEF HowMany

\* Numbers of two kinds are so many of the one and so many of the other.
LEMMA TwoKinds ==
  ASSUME DataOK, NEW cs \in SUBSET Channels, NEW X, NEW Y, X \cap Y = {}
  PROVE  HowMany(cs, X \cup Y) = HowMany(cs, X) + HowMany(cs, Y)
<1> DEFINE S == Points(cs, X)
           T == Points(cs, Y)
<1>1. /\ IsFiniteSet(S) /\ HowMany(cs, X) = Cardinality(S)
      /\ IsFiniteSet(T) /\ HowMany(cs, Y) = Cardinality(T)
      /\ HowMany(cs, X \cup Y) = Cardinality(Points(cs, X \cup Y))
  BY PointsFinite
<1>2. Points(cs, X \cup Y) = S \cup T
  BY DEF Points
<1>3. S \cap T = {}
  BY DEF Points
<1> HIDE DEF S, T
<1>4. Cardinality(S \cup T) = Cardinality(S) + Cardinality(T) - Cardinality({})
  BY <1>1, <1>3, FS_Union
<1>5. Cardinality({}) = 0 /\ Cardinality(S) \in Nat /\ Cardinality(T) \in Nat
  BY <1>1, FS_EmptySet, FS_CardinalityType
<1>6. Cardinality(S \cup T) = Cardinality(S) + Cardinality(T)
  BY <1>4, <1>5
<1> QED BY <1>1, <1>2, <1>6, Zenon

\* There are none of a kind exactly if no sorter has one.
LEMMA NoneOfThem ==
  ASSUME DataOK, NEW cs \in SUBSET Channels, NEW X
  PROVE  HowMany(cs, X) = 0 <=>
           \A c \in cs : \A i \in DOMAIN data[c] : data[c][i] \notin X
<1> DEFINE S == Points(cs, X)
<1>1. IsFiniteSet(S) /\ HowMany(cs, X) = Cardinality(S)
  BY PointsFinite
<1>2. S = {} <=> \A c \in cs : \A i \in DOMAIN data[c] : data[c][i] \notin X
  <2>1. ASSUME S = {}, NEW c \in cs, NEW i \in DOMAIN data[c], data[c][i] \in X PROVE FALSE
    <3>1. PICK q : q = <<c, i>>
      OBVIOUS
    <3>2. q \in Points(cs, X)
      BY <2>1, <3>1, SMT DEF Points
    <3> QED BY <2>1, <3>2
  <2>2. ASSUME NEW q \in S PROVE \E c \in cs : \E i \in DOMAIN data[c] : data[c][i] \in X
    BY <2>2, PointIs
  <2> QED BY <2>1, <2>2
<1> HIDE DEF S
<1>3. Cardinality(S) = 0 <=> S = {}
  BY <1>1, FS_EmptySet
<1> QED BY <1>1, <1>2, <1>3
-----------------------------------------------------------------------------
\* Nothing of the sums changes while the same sorters are awaited.
LEMMA RoundStands ==
  ASSUME SearchInv, Undisturbed,
         UNCHANGED <<data, round, result, sums, search, outcome, generates>>,
         Awaited' = Awaited, Calls', Once', Places',
         pc \in {"call", "wait"} <=> pc' \in {"call", "wait"},
         pc = "connect" <=> pc' = "connect"
  PROVE  SearchInv'
<1>1. /\ data \in [Channels -> Datasets]
      /\ search \in [min : Int, max : Int, guess : Int, steps : Nat]
      /\ Stats /\ Sums /\ Interval /\ MedianCorrect /\ SearchNeverFails
  BY DEF SearchInv
<1>2. Answered' = Answered
  BY DEF Answered
<1>3. \A cs, X : HowMany(cs, X)' = HowMany(cs, X)
  BY DEF HowMany
<1>4. \A m : InRound(m)' <=> InRound(m)
  BY DEF InRound
<1>5. Stats'
  BY <1>1, <1>2, <1>3, <1>4 DEF Stats
<1>6. Sums'
  BY <1>1, <1>2, <1>3, <1>4 DEF Sums
<1>7. Interval'
  BY <1>1, <1>3, <1>4 DEF Interval, UpTo, AllNumbers, Kth
<1>8. MedianCorrect'
  <2>1. \A X : AllNumbers(X)' = AllNumbers(X)
    BY <1>3 DEF AllNumbers
  <2> QED BY <1>1, <2>1 DEF MedianCorrect, Undisturbed
<1>9. SearchNeverFails'
  BY <1>1 DEF SearchNeverFails, Undisturbed
<1> QED BY <1>1, <1>5, <1>6, <1>7, <1>8, <1>9 DEF SearchInv

\* Neither when the main thread stays where it is.
LEMMA RoundGoesOn ==
  ASSUME SearchInv, Undisturbed,
         UNCHANGED <<data, connecting, pc, round, latch, result, sums, search,
                     outcome, generates>>,
         Awaited' = Awaited, Calls', Once',
         pc # "call" => todo' = << >> /\ calling'[main] = Idle,
         pc \in {"connect", "end"} => \A c \in Channels : Entered(c)' = {}
  PROVE  SearchInv'
<1>1. Places'
  BY DEF SearchInv, Places
<1> QED BY <1>1, RoundStands

\* The main thread calls through the channels.
LEMMA CalledAreChannels == ASSUME IInv PROVE ToSet(todo) \cup InHand \subseteq Channels
<1>1. ToSet(todo) \subseteq Channels
  <2>1. todo \in Seq(Channels)
    BY DEF IInv, CallsOK
  <2>2. \A i \in DOMAIN todo : todo[i] \in Channels
    BY <2>1, ElementOfSeq, LenProperties
  <2> QED BY <2>2 DEF ToSet
<1>2. InHand \subseteq Channels
  <2>1. CallerOK(main)
    BY CollectorAssumption DEF IInv, RpcInv
  <2> QED BY <2>1 DEF InHand, CallerOK, Idle
<1> QED BY <1>1, <1>2

\* Neither does what leaves the main thread and its entries alone.
LEMMA Bystander ==
  ASSUME IInv, SearchInv, Undisturbed,
         UNCHANGED <<data, connecting, mainVars, generates>>,
         InHand' = InHand, calling[main] = Idle => calling'[main] = Idle,
         \A c \in Channels : Entered(c)' = Entered(c), Calls'
  PROVE  SearchInv'
<1>1. UNCHANGED <<data, connecting, pc, round, todo, latch, result, sums, search,
                  outcome, generates>>
  BY DEF mainVars
<1>2. Calls /\ Once /\ Places
  BY DEF SearchInv
<1>3. Awaited' = Awaited
  BY <1>1 DEF Awaited
<1>4. Once'
  <2>1. \A c \in ToSet(todo) \cup InHand : Entered(c)' = {}
    BY <1>2, CalledAreChannels DEF Once
  <2> QED BY <1>1, <1>2, <2>1 DEF Once
<1>5. pc # "call" => todo' = << >> /\ calling'[main] = Idle
  BY <1>1, <1>2 DEF Places
<1>6. pc \in {"connect", "end"} => \A c \in Channels : Entered(c)' = {}
  BY <1>2 DEF Places
<1> QED BY <1>1, <1>3, <1>4, <1>5, <1>6, RoundGoesOn

\* Calls, from its parts.
LEMMA CallsStay ==
  ASSUME Calls, UNCHANGED <<data, round, search>>,
         \A t \in {main, other} : calling'[t] \in {calling[t], Idle},
         \A c \in Channels :
           /\ Entered(c)' = Entered(c)
           /\ \A i \in Entered(c) : outstandings'[c][i] = outstandings[c][i]
           /\ \A m \in serving'[c] : m \in serving[c] \/ m.call.thread # main
           /\ \A m \in ToSet(toClient'[c]) :
                m \in ToSet(toClient[c]) \/ (m.call.thread = main => m.response = ThisAnswer(c))
  PROVE  Calls'
<1>1. ThisCall' = ThisCall /\ \A c : ThisAnswer(c)' = ThisAnswer(c)
  <2>1. ThisCall' = ThisCall
    BY DEF ThisCall
  <2>2. \A c : ThisAnswer(c)' = ThisAnswer(c)
    BY DEF ThisAnswer
  <2> QED BY <2>1, <2>2
<1>2. /\ calling'[main] # Idle => calling'[main].call = ThisCall
      /\ calling'[other] # Idle => calling'[other].call.thread = other
  BY DEF Calls
<1>3. ASSUME NEW c \in Channels
      PROVE  /\ \A i \in Entered(c)' : outstandings'[c][i] = ThisCall
             /\ \A i, j \in Entered(c)' : i = j
             /\ \A m \in serving'[c] : m.call.thread # main
             /\ \A m \in ToSet(toClient'[c]) :
                  m.call.thread = main => m.response = ThisAnswer(c)
  <2>1. /\ \A i \in Entered(c) : outstandings[c][i] = ThisCall
        /\ \A i, j \in Entered(c) : i = j
        /\ \A m \in serving[c] : m.call.thread # main
        /\ \A m \in ToSet(toClient[c]) :
             m.call.thread = main => m.response = ThisAnswer(c)
    BY DEF Calls
  <2>2. /\ Entered(c)' = Entered(c)
        /\ \A i \in Entered(c) : outstandings'[c][i] = outstandings[c][i]
        /\ \A m \in serving'[c] : m \in serving[c] \/ m.call.thread # main
        /\ \A m \in ToSet(toClient'[c]) :
             m \in ToSet(toClient[c]) \/ (m.call.thread = main => m.response = ThisAnswer(c))
    OBVIOUS
  <2> QED BY <2>1, <2>2
<1> QED BY <1>1, <1>2, <1>3 DEF Calls

\* A request is sent, or dropped when the connection is down.
LEMMA SendRequestGoesOn ==
  ASSUME IInv, SearchInv, Undisturbed, NEW t \in Threads, SendRequest(t),
         UNCHANGED <<data, connecting, mainVars, others, generates>>
  PROVE  SearchInv'
<1>1. /\ calling[t].step = "send" /\ calling' = [calling EXCEPT ![t] = Idle]
      /\ DOMAIN calling = Threads /\ Threads = {main, other}
      /\ UNCHANGED <<outstandings, toClient, serving>>
  BY CollectorAssumption DEF SendRequest, IInv, RpcInv, Domains
<1>2. \A c : Entered(c)' = Entered(c)
  BY <1>1 DEF Entered
<1>3. \A u \in {main, other} : calling'[u] \in {calling[u], Idle}
  BY <1>1
<1>4. UNCHANGED <<data, round, search>>
  BY DEF mainVars
<1>5. Calls'
  BY <1>1, <1>2, <1>3, <1>4, CallsStay DEF SearchInv
<1>6. InHand' = InHand
  BY <1>1 DEF InHand, Idle
<1>7. calling[main] = Idle => calling'[main] = Idle
  BY <1>3
<1> QED BY <1>2, <1>5, <1>6, <1>7, Bystander

\* The messages move, and an answer to the main thread is that of its sorter.
LEMMA TrafficGoesOn ==
  ASSUME IInv, SearchInv, Undisturbed,
         UNCHANGED <<outstandings, calling, data, connecting, mainVars, generates>>,
         \A c \in Channels :
           /\ \A m \in serving'[c] : m \in serving[c] \/ m.call.thread # main
           /\ \A m \in ToSet(toClient'[c]) :
                m \in ToSet(toClient[c]) \/ (m.call.thread = main => m.response = ThisAnswer(c))
  PROVE  SearchInv'
<1>1. \A c : Entered(c)' = Entered(c)
  BY DEF Entered
<1>2. UNCHANGED <<data, round, search>>
  BY DEF mainVars
<1>3. Calls'
  BY <1>1, <1>2, CallsStay DEF SearchInv
<1>4. InHand' = InHand
  BY DEF InHand
<1> QED BY <1>1, <1>3, <1>4, Bystander

\* An entry that is at the end of the queue was in it or is the new one.
LEMMA AtTheEnd ==
  ASSUME RpcInv, NEW c \in Channels, NEW e,
         toClient' = [toClient EXCEPT ![c] = Append(@, e)]
  PROVE  \A d \in Channels : \A m \in ToSet(toClient'[d]) :
           m \in ToSet(toClient[d]) \/ (d = c /\ m = e)
<1>1. DOMAIN toClient = Channels /\ ChannelOK(c)
  BY DEF RpcInv, Domains
<1>2. PICK p : p = toClient[c] /\ p \in Seq(ToSet(p))
  BY <1>1 DEF ChannelOK, IsSeq
<1>3. toClient'[c] = Append(p, e) /\ \A d \in Channels \ {c} : toClient'[d] = toClient[d]
  BY <1>1, <1>2
<1>4. \A m \in ToSet(Append(p, e)) : m \in ToSet(p) \/ m = e
  <2>1. PICK S : S = ToSet(p) \cup {e}
    OBVIOUS
  <2>2. p \in Seq(S) /\ e \in S
    <3>1. ToSet(p) \subseteq S
      BY <2>1
    <3> QED BY <1>2, <2>1, <3>1, SeqMonotonic
  <2>3. Append(p, e) \in Seq(S)
    BY <2>2, AppendProperties
  <2>4. \A i \in DOMAIN Append(p, e) : Append(p, e)[i] \in S
    BY <2>3, ElementOfSeq, LenProperties
  <2> QED BY <2>1, <2>4 DEF ToSet
<1> QED BY <1>2, <1>3, <1>4

\* The main thread's requests are those of this round, and sorters serve them.
LEMMA MainRequest ==
  ASSUME IInv, SearchInv, Undisturbed, NEW c \in Channels, toServer[c] # << >>,
         Head(toServer[c]).call.thread = main
  PROVE  LET call == Head(toServer[c]).call IN
         call = ThisCall /\ call.service = "Sorter" /\ ErrorOf(call) = "NO_ERROR"
<1>1. PICK h : h = Head(toServer[c])
  OBVIOUS
<1>2. h \in ToSet(toServer[c])
  <2>1. PICK q : q = toServer[c]
    OBVIOUS
  <2>2. IsSeq(q) /\ Distinct(q) /\ q # << >>
    BY <2>1 DEF IInv, RpcInv, ChannelOK
  <2>3. ToSet(q) = ToSet(Tail(q)) \cup {Head(q)}
    BY <2>2, Dequeued
  <2> QED BY <1>1, <2>1, <2>3
<1>3. h.id \in DOMAIN outstandings[c] /\ outstandings[c][h.id] = h.call
  BY <1>2 DEF IInv, RpcInv, ChannelOK, Matched
<1>4. h.call = ThisCall
  BY <1>1, <1>3 DEF SearchInv, Calls, Entered
<1>5. round \in {"Query", "Search"}
  BY DEF SearchInv, Places
<1>6. "Sorter" \in DOMAIN Services /\ {"Query", "Search"} \subseteq Services["Sorter"]
  BY SorterAssumption
<1>7. ThisCall.service = "Sorter" /\ ThisCall.method = round /\ ThisCall.valid = TRUE
  BY DEF ThisCall
<1>8. ErrorOf(ThisCall) = "NO_ERROR"
  BY <1>5, <1>6, <1>7 DEF ErrorOf
<1> QED BY <1>1, <1>4, <1>7, <1>8

\* A sorter answers the main thread what it was asked, or another call.
LEMMA ServeGoesOn ==
  ASSUME IInv, SearchInv, Undisturbed, NEW c \in Channels, Serve(c)
  PROVE  SearchInv'
<1>1. PICK h : h = Head(toServer[c])
  OBVIOUS
<1>2. h.call.thread = main =>
        h.call = ThisCall /\ h.call.service = "Sorter" /\ ErrorOf(h.call) = "NO_ERROR"
  BY <1>1, MainRequest DEF Serve
<1>3. UNCHANGED <<outstandings, calling, data, connecting, mainVars, generates>>
  BY DEF Serve, ServeError, ServeNow, ServeLater
<1>4. CASE ServeError(c, EmptyAnswer(h.call.method))
  <2>1. PICK r : r = EmptyAnswer(h.call.method)
    OBVIOUS
  <2>2. PICK e : e = Answer(h, r)
    OBVIOUS
  <2>3. /\ ErrorOf(h.call) # "NO_ERROR" /\ serving' = serving
        /\ toClient' = [toClient EXCEPT ![c] = Append(@, e)]
    BY <1>1, <1>4, <2>1, <2>2 DEF ServeError
  <2>4. e.call.thread # main
    BY <1>2, <2>2, <2>3 DEF Answer
  <2>5. \A d \in Channels : \A m \in ToSet(toClient'[d]) :
          m \in ToSet(toClient[d]) \/ (d = c /\ m = e)
    BY <2>3, AtTheEnd DEF IInv
  <2> QED BY <1>3, <2>3, <2>4, <2>5, TrafficGoesOn
<1>5. CASE h.call.service = "Sorter"
           /\ ServeNow(c, IF h.call.method = "Query" THEN QueryAnswer(data[c])
                          ELSE SearchAnswer(data[c], h.call.arg))
  <2>1. PICK r : r = IF h.call.method = "Query" THEN QueryAnswer(data[c])
                     ELSE SearchAnswer(data[c], h.call.arg)
    OBVIOUS
  <2>2. /\ serving' = serving
        /\ toClient' = [toClient EXCEPT ![c] = Append(@, Answer(h, r))]
    BY <1>1, <1>5, <2>1 DEF ServeNow
  <2>3. PICK e : e = Answer(h, r)
    OBVIOUS
  <2>4. h.call.thread = main => r = ThisAnswer(c)
    <3>1. round \in {"Query", "Search"}
      BY DEF SearchInv, Places
    <3>2. ThisCall.method = round /\ (round = "Search" => ThisCall.arg = search.guess)
      BY DEF ThisCall
    <3> QED BY <1>2, <2>1, <3>1, <3>2 DEF ThisAnswer
  <2>5. e.call.thread = main => e.response = ThisAnswer(c)
    BY <2>3, <2>4 DEF Answer
  <2>6. \A d \in Channels : \A m \in ToSet(toClient'[d]) :
          m \in ToSet(toClient[d]) \/ (d = c /\ m = e)
    BY <2>2, <2>3, AtTheEnd DEF IInv
  <2> QED BY <1>3, <2>2, <2>5, <2>6, TrafficGoesOn
<1>6. CASE h.call.service # "Sorter" /\ ServeLater(c)
  <2>1. toClient' = toClient /\ serving' = [serving EXCEPT ![c] = @ \cup {h}]
    BY <1>1, <1>6 DEF ServeLater
  <2>2. DOMAIN serving = Channels
    BY DEF IInv, RpcInv, Domains
  <2>3. \A d \in Channels : \A m \in serving'[d] : m \in serving[d] \/ m.call.thread # main
    BY <1>2, <1>6, <2>1, <2>2
  <2> QED BY <1>3, <2>1, <2>3, TrafficGoesOn
<1> QED BY <1>1, <1>4, <1>5, <1>6 DEF Serve

\* A closure that a service has kept is of another call.
LEMMA RunDoneGoesOn ==
  ASSUME IInv, SearchInv, Undisturbed, NEW c \in Channels, RunDone(c)
  PROVE  SearchInv'
<1>1. PICK m \in serving[c] : DoneCallback(c, m, EmptyAnswer(m.call.method))
  BY DEF RunDone
<1>2. UNCHANGED <<outstandings, calling, data, connecting, mainVars, generates>>
  BY <1>1 DEF RunDone, DoneCallback
<1>3. PICK e : e = Answer(m, EmptyAnswer(m.call.method))
  OBVIOUS
<1>4. /\ serving' = [serving EXCEPT ![c] = @ \ {m}]
      /\ toClient' = [toClient EXCEPT ![c] = Append(@, e)]
  BY <1>1, <1>3 DEF DoneCallback
<1>5. e.call.thread # main
  BY <1>1, <1>3 DEF SearchInv, Calls, Answer
<1>6. \A d \in Channels : \A n \in ToSet(toClient'[d]) :
        n \in ToSet(toClient[d]) \/ (d = c /\ n = e)
  BY <1>4, AtTheEnd DEF IInv
<1>7. \A d \in Channels : \A n \in serving'[d] : n \in serving[d]
  BY <1>4 DEF IInv, RpcInv, Domains
<1> QED BY <1>2, <1>5, <1>6, <1>7, TrafficGoesOn

\* A lost connection only takes messages away.
LEMMA LoseGoesOn ==
  ASSUME IInv, SearchInv, Undisturbed, NEW c \in Channels, Lose(c)
  PROVE  SearchInv'
<1>1. UNCHANGED <<outstandings, calling, serving, data, connecting, mainVars, generates>>
  BY DEF Lose, Drop
<1>2. PICK n \in 0 .. Len(toClient[c]) :
        toClient' = [toClient EXCEPT ![c] = SubSeq(@, 1, n)]
  BY DEF Lose, Drop
<1>3. PICK q : q = toClient[c] /\ IsSeq(q) /\ Distinct(q) /\ n \in 0 .. Len(q)
  BY <1>2 DEF IInv, RpcInv, ChannelOK
<1>4. ToSet(SubSeq(q, 1, n)) \subseteq ToSet(q)
  BY <1>3, Cut
<1>5. \A d \in Channels : ToSet(toClient'[d]) \subseteq ToSet(toClient[d])
  BY <1>2, <1>3, <1>4 DEF IInv, RpcInv, Domains
<1> QED BY <1>1, <1>5, TrafficGoesOn
-----------------------------------------------------------------------------
\* The other thread's calls are its own.
LEMMA OtherCallGoesOn ==
  ASSUME IInv, SearchInv, Undisturbed, OtherCall PROVE SearchInv'
<1>1. PICK o \in others : CallMethod(other, o.channel, o.call)
  BY DEF OtherCall
<1>2. o.call.thread = other
  BY <1>1, CollectorAssumption DEF IInv, CallsOK
<1>3. /\ main # other /\ DOMAIN calling = {main, other}
      /\ UNCHANGED <<outstandings, toClient, serving>>
      /\ UNCHANGED <<data, connecting, mainVars, generates>>
  BY <1>1, CollectorAssumption DEF IInv, RpcInv, Domains, CallMethod, OtherCall
<1>4. calling'[main] = calling[main] /\ calling'[other].call = o.call
  BY <1>1, <1>3 DEF CallMethod
<1>5. \A c : Entered(c)' = Entered(c)
  BY <1>3 DEF Entered
<1>6. UNCHANGED <<data, round, search>>
  BY <1>3 DEF mainVars
<1>7. ThisCall' = ThisCall /\ \A c : ThisAnswer(c)' = ThisAnswer(c)
  <2>1. ThisCall' = ThisCall
    BY <1>6 DEF ThisCall
  <2>2. \A c : ThisAnswer(c)' = ThisAnswer(c)
    BY <1>6 DEF ThisAnswer
  <2> QED BY <2>1, <2>2
<1>8. Calls
  BY DEF SearchInv
<1>9. Calls'
  BY <1>2, <1>3, <1>4, <1>5, <1>7, <1>8 DEF Calls
<1>10. InHand' = InHand
  BY <1>4 DEF InHand
<1> QED BY <1>3, <1>4, <1>5, <1>9, <1>10, Bystander

\* Its entries are its own too, and the main thread's are those it had in hand.
LEMMA EnterGoesOn ==
  ASSUME IInv, SearchInv, Undisturbed, NEW t \in Threads, Enter(t),
         UNCHANGED <<data, connecting, mainVars, others, generates>>
  PROVE  SearchInv'
<1>1. PICK k, d, n : k = calling[t] /\ d = k.channel /\ n = k.id
  OBVIOUS
<1>2. k.step = "insert" /\ k # Idle
  BY <1>1 DEF Enter, Idle
<1>3. /\ d \in Channels /\ n \notin DOMAIN outstandings[d]
      /\ DOMAIN k = {"step", "channel", "id", "call"}
  BY <1>1, <1>2 DEF IInv, RpcInv, CallerOK
<1>4. /\ main # other /\ Threads = {main, other} /\ DOMAIN calling = {main, other}
      /\ DOMAIN outstandings = Channels
  BY CollectorAssumption DEF IInv, RpcInv, Domains
<1>5. PICK f : f = [i \in DOMAIN outstandings[d] \cup {n} |->
                      IF i = n THEN k.call ELSE outstandings[d][i]]
  OBVIOUS
<1>6. /\ outstandings' = [outstandings EXCEPT ![d] = f]
      /\ calling' = [calling EXCEPT ![t] = [k EXCEPT !.step = "send"]]
      /\ UNCHANGED <<toClient, serving>>
  BY <1>1, <1>5 DEF Enter
<1>7. /\ \A c \in Channels \ {d} : outstandings'[c] = outstandings[c]
      /\ outstandings'[d] = f /\ DOMAIN f = DOMAIN outstandings[d] \cup {n} /\ f[n] = k.call
      /\ \A i \in DOMAIN outstandings[d] : f[i] = outstandings[d][i]
  BY <1>3, <1>4, <1>5, <1>6
<1>8. /\ \A u \in {main, other} \ {t} : calling'[u] = calling[u]
      /\ calling'[t].step = "send" /\ calling'[t].call = k.call
  BY <1>3, <1>4, <1>6
<1>9. UNCHANGED <<data, connecting, pc, round, todo, latch, result, sums, search,
                  outcome, generates>>
  BY DEF mainVars
<1>10. ThisCall' = ThisCall /\ \A c : ThisAnswer(c)' = ThisAnswer(c)
  <2>1. ThisCall' = ThisCall
    BY <1>9 DEF ThisCall
  <2>2. \A c : ThisAnswer(c)' = ThisAnswer(c)
    BY <1>9 DEF ThisAnswer
  <2> QED BY <2>1, <2>2
<1>11. Calls /\ Once /\ Places
  BY DEF SearchInv
<1>12. \A c \in Channels \ {d} : Entered(c)' = Entered(c)
  BY <1>7 DEF Entered
<1>13. CASE t = other
  <2>1. k.call.thread = other
    BY <1>1, <1>2, <1>11, <1>13 DEF Calls
  <2>2. Entered(d)' = Entered(d)
    BY <1>3, <1>4, <1>7, <2>1 DEF Entered
  <2>3. \A c \in Channels : \A i \in Entered(c) : outstandings'[c][i] = outstandings[c][i]
    BY <1>7 DEF Entered
  <2>4. calling'[main] = calling[main] /\ calling'[other].call.thread = other
    BY <1>4, <1>8, <1>13, <2>1
  <2>5. Calls'
    <3>1. ASSUME NEW c \in Channels
          PROVE  /\ \A i \in Entered(c)' : outstandings'[c][i] = ThisCall
                 /\ \A i, j \in Entered(c)' : i = j
                 /\ \A m \in serving'[c] : m.call.thread # main
                 /\ \A m \in ToSet(toClient'[c]) :
                      m.call.thread = main => m.response = ThisAnswer(c)
      <4>1. Entered(c)' = Entered(c)
        BY <1>12, <2>2
      <4>2. \A i \in Entered(c) : outstandings'[c][i] = ThisCall
        BY <1>11, <2>3 DEF Calls
      <4> QED BY <1>6, <1>11, <4>1, <4>2 DEF Calls
    <3>2. calling'[main] # Idle => calling'[main].call = ThisCall
      BY <1>11, <2>4 DEF Calls
    <3> QED BY <1>10, <2>4, <3>1, <3>2 DEF Calls
  <2>6. InHand' = InHand
    BY <2>4 DEF InHand
  <2> QED BY <1>12, <2>2, <2>4, <2>5, <2>6, Bystander
<1>14. CASE t = main
  <2>1. k.call = ThisCall /\ ThisCall.thread = main
    BY <1>1, <1>2, <1>11, <1>14 DEF Calls, ThisCall
  <2>2. InHand = {d} /\ InHand' = {}
    BY <1>1, <1>2, <1>8, <1>14 DEF InHand
  <2>3. Entered(d) = {} /\ ToSet(todo) \cap {d} = {}
    BY <1>11, <2>2 DEF Once
  <2>4. Entered(d)' = {n}
    BY <1>7, <2>1, <2>3 DEF Entered
  <2>5. Awaited' = Awaited
    BY <1>3, <1>9, <1>12, <2>2, <2>3, <2>4 DEF Awaited
  <2>6. calling'[other] = calling[other] /\ calling'[main].call = ThisCall
    BY <1>4, <1>8, <1>14, <2>1
  <2>7. \A c \in Channels : /\ \A i \in Entered(c)' : outstandings'[c][i] = ThisCall
                            /\ \A i, j \in Entered(c)' : i = j
    <3>1. ASSUME NEW c \in Channels \ {d}
          PROVE  /\ \A i \in Entered(c)' : outstandings'[c][i] = ThisCall
                 /\ \A i, j \in Entered(c)' : i = j
      <4>1. /\ \A i \in Entered(c) : outstandings[c][i] = ThisCall
            /\ \A i, j \in Entered(c) : i = j
        BY <1>11 DEF Calls
      <4> QED BY <1>7, <1>12, <4>1
    <3>2. outstandings'[d][n] = ThisCall
      BY <1>7, <2>1
    <3> QED BY <2>4, <3>1, <3>2
  <2>8. Calls'
    BY <1>6, <1>10, <1>11, <2>6, <2>7 DEF Calls
  <2>9. Once'
    <3>1. \A c \in ToSet(todo) : Entered(c) = {} /\ c \in Channels
      BY <1>11, CalledAreChannels DEF Once
    <3>2. \A c \in ToSet(todo) : Entered(c)' = {}
      BY <1>12, <2>3, <3>1
    <3> QED BY <1>9, <1>11, <2>2, <3>2 DEF Once
  <2>10. pc = "call"
    BY <1>1, <1>2, <1>11, <1>14 DEF Places
  <2> QED BY <1>9, <2>5, <2>8, <2>9, <2>10, RoundGoesOn
<1> QED BY <1>4, <1>13, <1>14

\* The first of the sorters still to call is not called again.
LEMMA TodoLeft ==
  ASSUME NEW q \in Seq(Channels), q # << >>, \A i, j \in DOMAIN q : q[i] = q[j] => i = j
  PROVE  LET r == Tail(q) IN
         /\ ToSet(q) = ToSet(r) \cup {Head(q)} /\ Head(q) \notin ToSet(r)
         /\ \A i, j \in DOMAIN r : r[i] = r[j] => i = j
<1> DEFINE r == Tail(q)
           h == Head(q)
<1>1. /\ DOMAIN q = 1 .. Len(q) /\ Len(q) \in Nat \ {0}
      /\ DOMAIN r = 1 .. Len(q) - 1 /\ Len(r) = Len(q) - 1
      /\ \A i \in 1 .. Len(q) - 1 : r[i] = q[i + 1]
      /\ h = q[1]
  BY HeadTailProperties, LenProperties
<1>2. /\ 1 \in DOMAIN q /\ h = q[1]
      /\ \A i \in DOMAIN r : i + 1 \in DOMAIN q /\ i + 1 # 1 /\ r[i] = q[i + 1]
      /\ \A j \in DOMAIN q : j # 1 => j - 1 \in DOMAIN r /\ r[j - 1] = q[j]
  BY <1>1
<1>3. \A i, j \in DOMAIN r : i + 1 = j + 1 => i = j
  BY <1>1
<1> HIDE DEF r, h
<1>4. ToSet(q) = ToSet(r) \cup {h}
  <2>1. ASSUME NEW m \in ToSet(q) PROVE m \in ToSet(r) \cup {h}
    BY <1>2 DEF ToSet
  <2>2. ToSet(r) \cup {h} \subseteq ToSet(q)
    BY <1>2 DEF ToSet
  <2> QED BY <2>1, <2>2
<1>5. h \notin ToSet(r)
  BY <1>2 DEF ToSet
<1>6. \A i, j \in DOMAIN r : r[i] = r[j] => i = j
  <2> SUFFICES ASSUME NEW i \in DOMAIN r, NEW j \in DOMAIN r, r[i] = r[j]
               PROVE  i = j
    OBVIOUS
  <2>1. i + 1 \in DOMAIN q /\ j + 1 \in DOMAIN q /\ q[i + 1] = q[j + 1]
    BY <1>2
  <2> QED BY <1>3, <2>1
<1> QED BY <1>4, <1>5, <1>6 DEF r, h

\* The main thread takes the next call in hand.
LEMMA MainCallGoesOn ==
  ASSUME IInv, SearchInv, Undisturbed, MainCall PROVE SearchInv'
<1>1. PICK h : h = Head(todo)
  OBVIOUS
<1>2. /\ pc = "call" /\ todo # << >> /\ todo' = Tail(todo)
      /\ CallMethod(main, h, ThisCall)
      /\ UNCHANGED <<data, connecting, pc, round, latch, result, sums, search,
                     outcome, others, generates>>
  BY <1>1 DEF MainCall, ThisCall
<1>3. /\ calling[main] = Idle /\ UNCHANGED <<outstandings, toClient, serving>>
      /\ main # other /\ DOMAIN calling = {main, other}
  BY <1>2, CollectorAssumption DEF CallMethod, IInv, RpcInv, Domains
<1>4. /\ calling'[main].step = "insert" /\ calling'[main].channel = h
      /\ calling'[main].call = ThisCall /\ calling'[other] = calling[other]
  BY <1>2, <1>3 DEF CallMethod
<1>5. Calls /\ Once
  BY DEF SearchInv
<1>6. InHand = {} /\ InHand' = {h}
  BY <1>3, <1>4 DEF InHand, Idle
<1>7. /\ ToSet(todo) = ToSet(todo') \cup {h} /\ h \notin ToSet(todo')
      /\ \A i, j \in DOMAIN todo' : todo'[i] = todo'[j] => i = j
  <2>1. todo \in Seq(Channels)
    BY DEF IInv, CallsOK
  <2> QED BY <1>1, <1>2, <1>5, <2>1, TodoLeft DEF Once
<1>8. \A c : Entered(c)' = Entered(c)
  BY <1>3 DEF Entered
<1>9. Awaited' = Awaited
  BY <1>6, <1>7, <1>8 DEF Awaited
<1>10. ThisCall' = ThisCall /\ \A c : ThisAnswer(c)' = ThisAnswer(c)
  <2>1. ThisCall' = ThisCall
    BY <1>2 DEF ThisCall
  <2>2. \A c : ThisAnswer(c)' = ThisAnswer(c)
    BY <1>2 DEF ThisAnswer
  <2> QED BY <2>1, <2>2
<1>11. Calls'
  BY <1>3, <1>4, <1>5, <1>8, <1>10 DEF Calls
<1>12. Once'
  <2>1. \A c \in ToSet(todo') \cup {h} : Entered(c)' = {}
    BY <1>5, <1>7, <1>8 DEF Once
  <2> QED BY <1>6, <1>7, <2>1 DEF Once
<1> QED BY <1>2, <1>9, <1>11, <1>12, RoundGoesOn

\* All are called.
LEMMA MainWaitsGoesOn ==
  ASSUME IInv, SearchInv, Undisturbed, MainWaits PROVE SearchInv'
<1>1. /\ pc = "call" /\ pc' = "wait" /\ todo = << >> /\ calling[main] = Idle
      /\ UNCHANGED <<outstandings, calling, toClient, serving>>
      /\ UNCHANGED <<data, connecting, round, todo, latch, result, sums, search,
                     outcome, generates>>
  BY DEF MainWaits, rpcVars
<1>2. Calls /\ Once /\ Places
  BY DEF SearchInv
<1>3. InHand' = InHand /\ \A c : Entered(c)' = Entered(c)
  BY <1>1 DEF InHand, Entered
<1>4. Awaited' = Awaited
  BY <1>1, <1>3 DEF Awaited
<1>5. \A u \in {main, other} : calling'[u] \in {calling[u], Idle}
  BY <1>1
<1>6. Calls'
  BY <1>1, <1>2, <1>3, <1>5, CallsStay
<1>7. Once'
  BY <1>1, <1>2, <1>3 DEF Once
<1>8. Places'
  BY <1>1, <1>2, <1>4 DEF Places
<1> QED BY <1>1, <1>4, <1>6, <1>7, <1>8, RoundStands

\* A connection is made, which the latch of connect() counts.
LEMMA OnConnectionGoesOn ==
  ASSUME IInv, SearchInv, Undisturbed, NEW c \in Channels, OnConnection(c)
  PROVE  SearchInv'
<1>1. /\ c \in connecting /\ connecting' = connecting \ {c} /\ latch' = latch - 1
      /\ UNCHANGED <<outstandings, calling, toClient, serving>>
      /\ UNCHANGED <<data, pc, round, todo, result, sums, search, outcome, generates>>
  BY DEF OnConnection, SetConnection
<1>2. Calls /\ Once /\ Places
  BY DEF SearchInv
<1>3. InHand' = InHand /\ \A d : Entered(d)' = Entered(d)
  BY <1>1 DEF InHand, Entered
<1>4. Awaited' = Awaited
  BY <1>1, <1>3 DEF Awaited
<1>5. \A u \in {main, other} : calling'[u] \in {calling[u], Idle}
  BY <1>1
<1>6. Calls'
  BY <1>1, <1>2, <1>3, <1>5, CallsStay
<1>7. Once'
  BY <1>1, <1>2, <1>3 DEF Once
<1>8. pc = "connect" /\ connecting \subseteq Channels /\ latch = Cardinality(connecting)
  BY <1>1, <1>2 DEF Places
<1>9. latch' = Cardinality(connecting')
  <2>1. IsFiniteSet(connecting)
    BY <1>8, SortersAre, FS_Subset
  <2>2. Cardinality(connecting \ {c}) = Cardinality(connecting) - 1
    BY <1>1, <2>1, FS_RemoveElement
  <2> QED BY <1>1, <1>8, <2>2
<1>10. Places'
  BY <1>1, <1>2, <1>3, <1>8, <1>9 DEF Places
<1> QED BY <1>1, <1>4, <1>6, <1>7, <1>10, RoundStands
-----------------------------------------------------------------------------
\* What a sorter keeps.
LEMMA DataAre ==
  ASSUME SearchInv, Undisturbed
  PROVE  DataOK /\ \A c \in Channels : data[c] \in Datasets
<1>1. \A c \in Channels : data[c] \in Datasets
  BY DEF SearchInv
<1>2. \A d \in Datasets : d \in Seq(Int64)
  BY SorterAssumption DEF Int64
<1> QED BY <1>1, <1>2 DEF DataOK

\* The count, and the first and the last of sorted numbers.
LEMMA QueryAnswerIs ==
  ASSUME NEW d \in Datasets
  PROVE  LET r == QueryAnswer(d) IN
         /\ r.count \in Nat /\ r.count = Count(d, Int64)
         /\ r.count = 0 => DOMAIN d = {}
         /\ r.count > 0 => /\ r.min \in Int64 /\ r.max \in Int64
                           /\ \A i \in DOMAIN d : d[i] \in r.min .. r.max
<1> DEFINE r == QueryAnswer(d)
<1>1. /\ r.count = Len(d) /\ r.min = (IF d = << >> THEN 0 ELSE d[1])
      /\ r.max = (IF d = << >> THEN 0 ELSE d[Len(d)])
  BY Zenon DEF QueryAnswer
<1> HIDE DEF r
<1>2. d \in Seq(Int64) /\ \A i, j \in DOMAIN d : i <= j => d[i] <= d[j]
  BY SorterAssumption DEF Int64
<1>3. PICK n \in Nat : n = Len(d) /\ DOMAIN d = 1 .. n /\ (n = 0 <=> d = << >>)
  BY <1>2, LenProperties, EmptySeq
<1>4. \A i \in 1 .. n : d[i] \in Int64
  BY <1>2, <1>3, ElementOfSeq
<1>5. Count(d, Int64) = n
  <2>1. {i \in DOMAIN d : d[i] \in Int64} = 1 .. n
    BY <1>3, <1>4
  <2>2. Cardinality(1 .. n) = n
    BY FS_Interval
  <2> QED BY <2>1, <2>2 DEF Count
<1>6. CASE n = 0
  BY <1>1, <1>3, <1>5, <1>6 DEF r
<1>7. CASE n # 0
  <2>1. 1 \in DOMAIN d /\ n \in DOMAIN d /\ r.min = d[1] /\ r.max = d[n]
    BY <1>1, <1>3, <1>7
  <2>2. Int64 \subseteq Int
    BY Widths DEF Int64
  <2>3. \A i \in DOMAIN d : d[i] \in Int /\ d[1] \in Int /\ d[n] \in Int
                            /\ d[1] <= d[i] /\ d[i] <= d[n]
    <3>1. \A i \in DOMAIN d : 1 <= i /\ i <= n
      BY <1>3
    <3>2. \A i \in DOMAIN d : d[1] <= d[i] /\ d[i] <= d[n]
      BY <1>2, <2>1, <3>1
    <3> QED BY <1>3, <1>4, <2>1, <2>2, <3>2
  <2>4. \A i \in DOMAIN d : d[i] \in r.min .. r.max
    BY <2>1, <2>3
  <2> QED BY <1>1, <1>3, <1>4, <1>5, <1>7, <2>1, <2>4 DEF r
<1> QED BY <1>6, <1>7

\* An answer that the loop of the collector reads has its entry.
LEMMA AnswerHasEntry ==
  ASSUME IInv, NEW c \in Channels, toClient[c] # << >>
  PROVE  LET h == Head(toClient[c]) IN
         /\ h \in ToSet(toClient[c]) /\ ToSet(Tail(toClient[c])) \subseteq ToSet(toClient[c])
         /\ h.id \in DOMAIN outstandings[c] /\ outstandings[c][h.id] = h.call
         /\ Closures(c) = {h.call}
<1>1. PICK q, h : q = toClient[c] /\ h = Head(q)
  OBVIOUS
<1>2. IsSeq(q) /\ Distinct(q) /\ q # << >>
  BY <1>1 DEF IInv, RpcInv, ChannelOK
<1>3. ToSet(q) = ToSet(Tail(q)) \cup {h}
  BY <1>1, <1>2, Dequeued
<1>4. h.id \in DOMAIN outstandings[c] /\ outstandings[c][h.id] = h.call
  BY <1>1, <1>3 DEF IInv, RpcInv, ChannelOK, Matched
<1>5. Closures(c) = {h.call}
  BY <1>1, <1>4 DEF Closures
<1> QED BY <1>1, <1>3, <1>4, <1>5

\* An answer for the other thread.
LEMMA OtherAnswerGoesOn ==
  ASSUME IInv, SearchInv, Undisturbed, NEW c \in Channels, OnAnswer(c),
         Head(toClient[c]).call.thread # main
  PROVE  SearchInv'
<1>1. PICK h : h = Head(toClient[c])
  OBVIOUS
<1>2. /\ toClient[c] # << >> /\ toClient' = [toClient EXCEPT ![c] = Tail(@)]
      /\ outstandings' = [outstandings EXCEPT ![c] = [i \in DOMAIN @ \ {h.id} |-> @[i]]]
      /\ UNCHANGED <<calling, serving>>
      /\ UNCHANGED <<data, connecting, pc, round, todo, search, outcome, others, generates>>
  BY <1>1 DEF OnAnswer, Receive
<1>3. /\ ToSet(Tail(toClient[c])) \subseteq ToSet(toClient[c])
      /\ outstandings[c][h.id] = h.call /\ Closures(c) = {h.call}
  BY <1>1, <1>2, AnswerHasEntry
<1>4. UNCHANGED <<result, sums, latch>>
  BY <1>1, <1>3 DEF OnAnswer
<1>5. DOMAIN outstandings = Channels /\ DOMAIN toClient = Channels
  BY DEF IInv, RpcInv, Domains
<1>6. /\ \A d \in Channels \ {c} : outstandings'[d] = outstandings[d]
      /\ DOMAIN outstandings'[c] = DOMAIN outstandings[c] \ {h.id}
      /\ \A i \in DOMAIN outstandings'[c] : outstandings'[c][i] = outstandings[c][i]
      /\ \A d \in Channels : ToSet(toClient'[d]) \subseteq ToSet(toClient[d])
  BY <1>2, <1>3, <1>5
<1>7. \A d \in Channels : Entered(d)' = Entered(d)
                          /\ \A i \in Entered(d) : outstandings'[d][i] = outstandings[d][i]
  <2>1. h.id \notin Entered(c)
    BY <1>1, <1>3 DEF Entered
  <2>2. Entered(c)' = Entered(c)
    BY <1>6, <2>1 DEF Entered
  <2>3. \A i \in Entered(c) : outstandings'[c][i] = outstandings[c][i]
    BY <1>6, <2>1 DEF Entered
  <2>4. ASSUME NEW d \in Channels \ {c}
        PROVE  Entered(d)' = Entered(d)
               /\ \A i \in Entered(d) : outstandings'[d][i] = outstandings[d][i]
    BY <1>6 DEF Entered
  <2> QED BY <2>2, <2>3, <2>4
<1>8. Calls'
  BY <1>2, <1>6, <1>7, CallsStay DEF SearchInv
<1>9. InHand' = InHand
  BY <1>2 DEF InHand
<1> QED BY <1>2, <1>4, <1>7, <1>8, <1>9, Bystander DEF mainVars

\* An answer for the main thread is from a sorter that it awaits, and no more
\* after it.
LEMMA MainAnswer ==
  ASSUME IInv, SearchInv, Undisturbed, NEW c \in Channels, OnAnswer(c),
         Head(toClient[c]).call.thread = main
  PROVE  /\ pc \in {"call", "wait"} /\ outcome = "none"
         /\ c \notin Answered /\ Answered' = Answered \cup {c}
         /\ Calls' /\ Once' /\ (latch' = latch - 1 => Places')
         /\ Closures(c) = {ThisCall} /\ Head(toClient[c]).response = ThisAnswer(c)
<1>1. PICK h : h = Head(toClient[c])
  OBVIOUS
<1>2. /\ toClient[c] # << >> /\ toClient' = [toClient EXCEPT ![c] = Tail(@)]
      /\ outstandings' = [outstandings EXCEPT ![c] = [i \in DOMAIN @ \ {h.id} |-> @[i]]]
      /\ UNCHANGED <<calling, serving>>
      /\ UNCHANGED <<data, connecting, pc, round, todo, search, outcome, others, generates>>
  BY <1>1 DEF OnAnswer, Receive
<1>3. /\ h \in ToSet(toClient[c]) /\ ToSet(Tail(toClient[c])) \subseteq ToSet(toClient[c])
      /\ h.id \in DOMAIN outstandings[c]
      /\ outstandings[c][h.id] = h.call /\ Closures(c) = {h.call}
  BY <1>1, <1>2, AnswerHasEntry
<1>4. DOMAIN outstandings = Channels /\ DOMAIN toClient = Channels
  BY DEF IInv, RpcInv, Domains
<1>5. /\ \A d \in Channels \ {c} : outstandings'[d] = outstandings[d]
      /\ DOMAIN outstandings'[c] = DOMAIN outstandings[c] \ {h.id}
      /\ \A i \in DOMAIN outstandings'[c] : outstandings'[c][i] = outstandings[c][i]
      /\ \A d \in Channels : ToSet(toClient'[d]) \subseteq ToSet(toClient[d])
  BY <1>2, <1>3, <1>4
<1>6. Calls /\ Once /\ Places
  BY DEF SearchInv
<1>7. h.id \in Entered(c)
  BY <1>1, <1>3 DEF Entered
<1>8. h.call = ThisCall /\ h.response = ThisAnswer(c) /\ Entered(c) = {h.id}
  <2>1. \A i, j \in Entered(c) : i = j
    BY <1>6 DEF Calls
  <2>2. h.call = ThisCall
    BY <1>3, <1>6, <1>7 DEF Calls
  <2>3. h.response = ThisAnswer(c)
    BY <1>1, <1>3, <1>6 DEF Calls
  <2> QED BY <1>7, <2>1, <2>2, <2>3
<1>9. Entered(c)' = {} /\ \A d \in Channels \ {c} : Entered(d)' = Entered(d)
  <2>1. Entered(c)' = {}
    BY <1>5, <1>8 DEF Entered
  <2>2. \A d \in Channels \ {c} : Entered(d)' = Entered(d)
    BY <1>5 DEF Entered
  <2> QED BY <2>1, <2>2
<1>10. InHand' = InHand
  BY <1>2 DEF InHand
<1>11. c \notin ToSet(todo) \cup InHand
  BY <1>6, <1>7 DEF Once
<1>12. c \in Awaited /\ Awaited' = Awaited \ {c} /\ Awaited \subseteq Channels
  <2>1. Awaited' = Awaited \ {c}
    BY <1>2, <1>9, <1>10, <1>11 DEF Awaited
  <2>2. c \in Awaited
    BY <1>7 DEF Awaited
  <2>3. Awaited \subseteq Channels
    BY CalledAreChannels DEF Awaited
  <2> QED BY <2>1, <2>2, <2>3
<1>13. c \notin Answered /\ Answered' = Answered \cup {c}
  BY <1>12 DEF Answered
<1>14. pc \in {"call", "wait"} /\ outcome = "none"
  BY <1>6, <1>7 DEF Places
<1>15. Calls'
  <2>1. ThisCall' = ThisCall
    BY <1>2 DEF ThisCall
  <2>2. \A d : ThisAnswer(d)' = ThisAnswer(d)
    BY <1>2 DEF ThisAnswer
  <2>3. ASSUME NEW d \in Channels
        PROVE  /\ \A i \in Entered(d)' : outstandings'[d][i] = ThisCall
               /\ \A i, j \in Entered(d)' : i = j
               /\ \A m \in serving'[d] : m.call.thread # main
               /\ \A m \in ToSet(toClient'[d]) :
                    m.call.thread = main => m.response = ThisAnswer(d)
    <3>1. /\ \A i \in Entered(d) : outstandings[d][i] = ThisCall
          /\ \A i, j \in Entered(d) : i = j
          /\ \A m \in serving[d] : m.call.thread # main
          /\ \A m \in ToSet(toClient[d]) :
               m.call.thread = main => m.response = ThisAnswer(d)
      BY <1>6 DEF Calls
    <3>2. CASE d = c
      BY <1>2, <1>5, <1>9, <3>1, <3>2
    <3>3. CASE d # c
      <4>1. Entered(d)' = Entered(d) /\ outstandings'[d] = outstandings[d]
        BY <1>5, <1>9, <3>3
      <4> QED BY <1>2, <1>5, <3>1, <4>1
    <3> QED BY <3>2, <3>3
  <2> QED BY <1>2, <1>6, <2>1, <2>2, <2>3 DEF Calls
<1>16. Once'
  <2>1. \A d \in ToSet(todo) \cup InHand : Entered(d)' = {}
    <3>1. \A d \in ToSet(todo) \cup InHand : Entered(d) = {} /\ d \in Channels
      BY <1>6, CalledAreChannels DEF Once
    <3> QED BY <1>9, <3>1
  <2> QED BY <1>2, <1>6, <1>10, <2>1 DEF Once
<1>17. latch' = latch - 1 => Places'
  <2>1. latch = Cardinality(Awaited) /\ connecting = {}
    BY <1>6, <1>14 DEF Places
  <2>2. Cardinality(Awaited \ {c}) = Cardinality(Awaited) - 1
    <3>1. IsFiniteSet(Awaited)
      BY <1>12, SortersAre, FS_Subset
    <3> QED BY <1>12, <3>1, FS_RemoveElement
  <2>3. latch' = latch - 1 => latch' = Cardinality(Awaited')
    BY <1>12, <2>1, <2>2
  <2> QED BY <1>2, <1>6, <1>14, <2>1, <2>3 DEF Places
<1> QED BY <1>1, <1>3, <1>8, <1>13, <1>14, <1>15, <1>16, <1>17

\* It adds what its sorter has to the sums.
LEMMA MainAnswerGoesOn ==
  ASSUME IInv, SearchInv, Undisturbed, NEW c \in Channels, OnAnswer(c),
         Head(toClient[c]).call.thread = main
  PROVE  SearchInv'
<1>1. /\ pc \in {"call", "wait"} /\ outcome = "none"
      /\ c \notin Answered /\ Answered' = Answered \cup {c} /\ Answered \subseteq Channels
      /\ Calls' /\ Once' /\ (latch' = latch - 1 => Places')
  BY MainAnswer DEF Answered
<1>2. UNCHANGED <<data, pc, round, search, outcome, generates>>
  BY DEF OnAnswer
<1>3. DataOK /\ data[c] \in Datasets
  BY DataAre
<1>4. \A X : /\ HowMany(Answered, X)' = HowMany(Answered, X) + Count(data[c], X)
             /\ AllNumbers(X)' = AllNumbers(X)
             /\ HowMany(Answered, X) \in Nat /\ Count(data[c], X) \in Nat
  <2> TAKE X
  <2>1. HowMany(Answered', X) = HowMany(Answered, X) + Count(data[c], X)
    BY <1>1, <1>3, OneMore
  <2>2. HowMany(Answered, X)' = HowMany(Answered', X)
    BY <1>2 DEF HowMany
  <2>3. AllNumbers(X)' = AllNumbers(X)
    BY <1>2 DEF AllNumbers, HowMany
  <2>4. HowMany(Answered, X) \in Nat
    BY <1>1, <1>3, PointsFinite
  <2>5. Count(data[c], X) \in Nat
    BY <1>3, CountIs
  <2> QED BY <2>1, <2>2, <2>3, <2>4, <2>5
<1>5. /\ data \in [Channels -> Datasets]
      /\ search \in [min : Int, max : Int, guess : Int, steps : Nat]
      /\ Stats /\ Sums /\ Interval /\ SearchNeverFails /\ round \in {"Query", "Search"}
  BY DEF SearchInv, Places
<1>6. MedianCorrect' /\ SearchNeverFails'
  <2>1. MedianCorrect'
    BY <1>1, <1>2 DEF MedianCorrect
  <2>2. SearchNeverFails'
    BY <1>2, <1>5 DEF SearchNeverFails, Undisturbed
  <2> QED BY <2>1, <2>2
<1>7. \A m : InRound(m)' <=> InRound(m)
  BY <1>2 DEF InRound
<1>8. /\ Closures(c) = {ThisCall} /\ ThisCall.thread = main /\ ThisCall.method = round
      /\ Head(toClient[c]).response = ThisAnswer(c)
  BY MainAnswer DEF ThisCall
<1>9. CASE round = "Query"
  <2>1. QueryDone(QueryAnswer(data[c]))
    BY <1>8, <1>9 DEF OnAnswer, ThisAnswer
  <2>2. PICK r : r = QueryAnswer(data[c])
    OBVIOUS
  <2>3. /\ r.count \in Nat /\ r.count = Count(data[c], Int64)
        /\ r.count = 0 => DOMAIN data[c] = {}
        /\ r.count > 0 => /\ r.min \in Int64 /\ r.max \in Int64
                          /\ \A i \in DOMAIN data[c] : data[c][i] \in r.min .. r.max
    BY <1>3, <2>2, QueryAnswerIs
  <2>4. /\ result'.count = result.count + r.count
        /\ result'.min = IF r.count > 0 THEN Smaller(r.min, result.min) ELSE result.min
        /\ result'.max = IF r.count > 0 THEN Larger(r.max, result.max) ELSE result.max
        /\ latch' = latch - 1
    BY <2>1, <2>2 DEF QueryDone
  <2>5. InRound("Query")
    BY <1>1, <1>9 DEF InRound
  <2>6. /\ result.min \in Int64 /\ result.max \in Int64 /\ search.steps = 0
        /\ result.count = HowMany(Answered, Int64)
        /\ \A d \in Answered : \A i \in DOMAIN data[d] :
             data[d][i] \in result.min .. result.max
    BY <1>5, <2>5 DEF Stats
  <2>7. Int64 \subseteq Int
    BY Widths DEF Int64
  <2>8. /\ result'.min \in Int64 /\ result'.max \in Int64
        /\ result'.min <= result.min /\ result.max <= result'.max
        /\ r.count > 0 => result'.min <= r.min /\ r.max <= result'.max
    <3>1. result.min \in Int /\ result.max \in Int
      BY <2>6, <2>7
    <3>2. CASE r.count > 0
      <4>1. r.min \in Int64 /\ r.max \in Int64 /\ r.min \in Int /\ r.max \in Int
        BY <2>3, <2>7, <3>2
      <4>2. /\ result'.min = Smaller(r.min, result.min)
            /\ result'.max = Larger(r.max, result.max)
        BY <2>4, <3>2
      <4>3. /\ result'.min \in {r.min, result.min}
            /\ result'.min <= r.min /\ result'.min <= result.min
        BY <3>1, <4>1, <4>2 DEF Smaller
      <4>4. /\ result'.max \in {r.max, result.max}
            /\ r.max <= result'.max /\ result.max <= result'.max
        BY <3>1, <4>1, <4>2 DEF Larger
      <4> QED BY <2>6, <4>1, <4>3, <4>4
    <3>3. CASE r.count = 0
      <4>1. ~(r.count > 0)
        BY <3>3
      <4>2. result'.min = result.min /\ result'.max = result.max
        BY <2>4, <4>1
      <4> QED BY <2>6, <3>1, <4>1, <4>2
    <3> QED BY <2>3, <3>2, <3>3
  <2>9. \A d \in Answered' : \A i \in DOMAIN data[d] :
          data[d][i] \in result'.min .. result'.max
    <3>1. \A x \in result.min .. result.max : x \in result'.min .. result'.max
      <4>1. /\ result.min \in Int /\ result.max \in Int
            /\ result'.min \in Int /\ result'.max \in Int
        BY <2>6, <2>7, <2>8
      <4> QED BY <2>8, <4>1
    <3>2. r.count > 0 => \A x \in r.min .. r.max : x \in result'.min .. result'.max
      <4> SUFFICES ASSUME r.count > 0
                   PROVE  \A x \in r.min .. r.max : x \in result'.min .. result'.max
        OBVIOUS
      <4>1. /\ r.min \in Int /\ r.max \in Int
            /\ result'.min \in Int /\ result'.max \in Int
        BY <2>3, <2>7, <2>8
      <4> QED BY <2>8, <4>1
    <3>3. \A i \in DOMAIN data[c] : data[c][i] \in result'.min .. result'.max
      BY <2>3, <3>2
    <3> QED BY <1>1, <2>6, <3>1, <3>3
  <2>10. result'.count = HowMany(Answered, Int64)'
    BY <1>4, <2>3, <2>4, <2>6, Zenon DEF Int64
  <2>11. pc # "connect" /\ InRound("Query")' /\ ~InRound("Search")'
    BY <1>1, <1>2, <1>9 DEF InRound
  <2>12. Stats'
    BY <1>2, <2>6, <2>8, <2>9, <2>10, <2>11 DEF Stats
  <2>13. Sums' /\ Interval'
    BY <2>11 DEF Sums, Interval
  <2> QED BY <1>1, <1>2, <1>5, <1>6, <2>4, <2>12, <2>13 DEF SearchInv
<1>10. CASE round = "Search"
  <2>1. SearchDone(SearchAnswer(data[c], search.guess))
    BY <1>8, <1>10 DEF OnAnswer, ThisAnswer
  <2>2. /\ sums'.smaller = sums.smaller + Count(data[c], kMin .. search.guess - 1)
        /\ sums'.same = sums.same + Count(data[c], {search.guess})
        /\ latch' = latch - 1 /\ result' = result
    BY <2>1 DEF SearchDone, SearchAnswer
  <2>3. InRound("Search") /\ ~InRound("Query")
    BY <1>1, <1>10 DEF InRound
  <2>4. /\ sums.smaller = HowMany(Answered, kMin .. search.guess - 1)
        /\ sums.same = HowMany(Answered, {search.guess})
    BY <1>5, <2>3 DEF Sums
  <2>5. /\ sums'.smaller = HowMany(Answered, kMin .. search.guess - 1)'
        /\ sums'.same = HowMany(Answered, {search.guess})'
    BY <1>2, <1>4, <2>2, <2>4
  <2>6. Sums'
    BY <2>5 DEF Sums
  <2>7. Stats'
    BY <1>1, <1>2, <1>5, <1>7, <2>2, <2>3 DEF Stats
  <2>8. Interval'
    BY <1>2, <1>4, <1>5, <1>7, <2>2 DEF Interval, UpTo, Kth
  <2> QED BY <1>1, <1>2, <1>5, <1>6, <2>2, <2>6, <2>7, <2>8 DEF SearchInv
<1> QED BY <1>5, <1>9, <1>10
-----------------------------------------------------------------------------
\* The latch lets the main thread go on when no sorter is awaited.
LEMMA NoneAwaited ==
  ASSUME IInv, SearchInv, Undisturbed, pc = "wait", latch = 0
  PROVE  Awaited = {} /\ Answered = Channels
<1>1. latch = Cardinality(Awaited)
  BY DEF SearchInv, Places
<1>2. Awaited \subseteq Channels
  BY CalledAreChannels DEF Awaited
<1>3. IsFiniteSet(Awaited)
  BY <1>2, SortersAre, FS_Subset
<1>4. Awaited = {}
  BY <1>1, <1>3, FS_EmptySet
<1> QED BY <1>4 DEF Answered

\* A round starts with no call under way, and no sorter has answered.
LEMMA NewRound ==
  ASSUME IInv, SearchInv, Undisturbed, NEW method \in {"Query", "Search"},
         StartRound(method), UNCHANGED <<rpcVars, data, connecting, outcome>>,
         \/ pc = "connect" /\ latch = 0
         \/ pc = "wait" /\ latch = 0
  PROVE  /\ Calls' /\ Once' /\ Places' /\ Answered' = {}
         /\ InRound(method)' /\ \A m : InRound(m)' => m = method
         /\ sums' = [smaller |-> 0, same |-> 0]
<1>1. /\ pc' = "call" /\ round' = method /\ todo' = Sorters /\ latch' = Len(Sorters)
      /\ sums' = [smaller |-> 0, same |-> 0]
      /\ UNCHANGED <<outstandings, calling, toClient, serving, connecting, outcome>>
  BY DEF StartRound, rpcVars
<1>2. Calls /\ Once /\ Places
  BY DEF SearchInv
<1>3. calling[main] = Idle /\ outcome = "none"
  BY <1>2 DEF Places
<1>4. \A c \in Channels : Entered(c) = {}
  <2>1. CASE pc = "connect"
    BY <1>2, <2>1 DEF Places
  <2>2. CASE pc = "wait" /\ latch = 0
    BY <2>2, NoneAwaited DEF Awaited
  <2> QED BY <2>1, <2>2
<1>5. connecting = {}
  <2>1. CASE pc = "connect" /\ latch = 0
    <3>1. connecting \subseteq Channels /\ Cardinality(connecting) = 0
      BY <1>2, <2>1 DEF Places
    <3>2. IsFiniteSet(connecting)
      BY <3>1, SortersAre, FS_Subset
    <3> QED BY <3>1, <3>2, FS_EmptySet
  <2>2. CASE pc = "wait"
    BY <1>2, <2>2 DEF Places
  <2> QED BY <2>1, <2>2
<1>6. InHand = {} /\ InHand' = {} /\ \A c : Entered(c)' = Entered(c)
  BY <1>1, <1>3 DEF InHand, Entered, Idle
<1>7. ToSet(todo') = Channels /\ latch' = Cardinality(Channels)
      /\ \A i, j \in DOMAIN todo' : todo'[i] = todo'[j] => i = j
  BY <1>1, SortersAre
<1>8. Awaited' = Channels /\ Answered' = {}
  <2>1. Awaited' = Channels
    BY <1>6, <1>7 DEF Awaited
  <2> QED BY <2>1 DEF Answered
<1>9. \A c \in Channels : \A m \in ToSet(toClient[c]) : m.call.thread # main
  BY <1>4 DEF IInv, RpcInv, ChannelOK, Matched, Entered
<1>10. Calls'
  BY <1>1, <1>2, <1>3, <1>4, <1>6, <1>9 DEF Calls
<1>11. Once'
  BY <1>4, <1>6, <1>7 DEF Once
<1>12. Places'
  BY <1>1, <1>3, <1>5, <1>7, <1>8 DEF Places
<1>13. InRound(method)' /\ \A m : InRound(m)' => m = method
  BY <1>1 DEF InRound
<1> QED BY <1>1, <1>8, <1>10, <1>11, <1>12, <1>13

\* The connections are made.
LEMMA ConnectedGoesOn ==
  ASSUME IInv, SearchInv, Undisturbed, Connected PROVE SearchInv'
<1>1. /\ pc = "connect" /\ latch = 0 /\ StartRound("Query")
      /\ UNCHANGED <<rpcVars, data, connecting, outcome>>
      /\ UNCHANGED <<result, search, generates>>
  BY DEF Connected
<1>2. /\ Calls' /\ Once' /\ Places' /\ Answered' = {}
      /\ InRound("Query")' /\ ~InRound("Search")'
  BY <1>1, NewRound
<1>3. /\ data \in [Channels -> Datasets]
      /\ search \in [min : Int, max : Int, guess : Int, steps : Nat]
      /\ Places /\ Stats /\ SearchNeverFails
  BY DEF SearchInv
<1>4. /\ result.min \in Int64 /\ result.max \in Int64 /\ result.count = 0
      /\ search.steps = 0 /\ outcome = "none" /\ outcome' = "none"
  BY <1>1, <1>3 DEF Stats, Places
<1>5. Stats'
  <2>1. HowMany(Answered, Int64)' = 0
    <3>1. HowMany(Answered, Int64)' = HowMany({}, Int64)
      BY <1>1, <1>2 DEF HowMany
    <3> QED BY <3>1, NoneYet
  <2> QED BY <1>1, <1>2, <1>4, <2>1 DEF Stats
<1>6. Sums' /\ Interval'
  BY <1>2 DEF Sums, Interval
<1>7. MedianCorrect'
  BY <1>4 DEF MedianCorrect
<1>8. SearchNeverFails'
  BY <1>1, <1>3 DEF SearchNeverFails, Undisturbed
<1> QED BY <1>1, <1>2, <1>3, <1>5, <1>6, <1>7, <1>8 DEF SearchInv

\* What has been asked is known when the latch lets the main thread go on.
LEMMA RoundIsExact == ASSUME IInv, SearchInv PROVE RoundExact
<1> SUFFICES ASSUME pc = "wait", latch = 0, Undisturbed
             PROVE  IF round = "Query"
                    THEN /\ result.count = AllNumbers(Int64)
                         /\ AllNumbers(Int64 \ (result.min .. result.max)) = 0
                    ELSE /\ sums.smaller = AllNumbers(kMin .. search.guess - 1)
                         /\ sums.same = AllNumbers({search.guess})
  BY DEF RoundExact, Int64
<1>1. Answered = Channels
  BY NoneAwaited
<1>2. Stats /\ Sums /\ round \in {"Query", "Search"} /\ DataOK
  BY DataAre DEF SearchInv, Places
<1>3. CASE round = "Query"
  <2>1. InRound("Query")
    BY <1>3 DEF InRound
  <2>2. /\ result.count = AllNumbers(Int64)
        /\ \A c \in Channels : \A i \in DOMAIN data[c] :
             data[c][i] \in result.min .. result.max
    BY <1>1, <1>2, <2>1 DEF Stats, AllNumbers
  <2>3. PICK X : X = Int64 \ (result.min .. result.max)
    OBVIOUS
  <2>4. HowMany(Channels, X) = 0
    <3>1. \A c \in Channels : \A i \in DOMAIN data[c] : data[c][i] \notin X
      BY <2>2, <2>3
    <3> QED BY <1>2, <3>1, NoneOfThem
  <2> QED BY <1>3, <2>2, <2>3, <2>4 DEF AllNumbers
<1>4. CASE round = "Search"
  <2>1. InRound("Search")
    BY <1>4 DEF InRound
  <2> QED BY <1>1, <1>2, <1>4, <2>1 DEF Sums, AllNumbers
<1> QED BY <1>2, <1>3, <1>4

\* The program ends with anything but a failure of the search.
LEMMA RoundEnds ==
  ASSUME IInv, SearchInv, Undisturbed, pc = "wait", latch = 0, NEW how, End(how),
         how \notin {"notFound", "assert"},
         UNCHANGED <<rpcVars, data, connecting, result, generates>>,
         search' \in [min : Int, max : Int, guess : Int, steps : Nat],
         search'.steps <= Width + 1, MedianCorrect'
  PROVE  SearchInv'
<1>1. /\ pc' = "end" /\ outcome' = how
      /\ UNCHANGED <<outstandings, calling, toClient, serving, round, todo, latch, sums>>
  BY DEF End, rpcVars
<1>2. Calls /\ Once /\ Places /\ Stats
  BY DEF SearchInv
<1>3. Awaited = {}
  BY NoneAwaited
<1>4. /\ calling[main] = Idle /\ todo = << >> /\ connecting = {}
      /\ \A c \in Channels : Entered(c) = {}
  <2>1. calling[main] = Idle /\ todo = << >> /\ connecting = {}
    BY <1>2 DEF Places
  <2> QED BY <1>3, <2>1 DEF Awaited
<1>5. InHand' = InHand /\ \A c : Entered(c)' = Entered(c)
  BY <1>1 DEF InHand, Entered
<1>6. Awaited' = Awaited
  BY <1>1, <1>5 DEF Awaited
<1>7. \A c \in Channels : \A m \in ToSet(toClient[c]) : m.call.thread # main
  BY <1>4 DEF IInv, RpcInv, ChannelOK, Matched, Entered
<1>8. Calls'
  BY <1>1, <1>2, <1>4, <1>5, <1>7 DEF Calls
<1>9. Once'
  BY <1>1, <1>2, <1>4, <1>5 DEF Once
<1>10. Places'
  BY <1>1, <1>2, <1>4, <1>5, <1>6 DEF Places
<1>11. Stats' /\ Sums' /\ Interval'
  BY <1>1, <1>2 DEF Stats, Sums, Interval, InRound
<1>12. SearchNeverFails'
  BY <1>1 DEF SearchNeverFails
<1>13. data' \in [Channels -> Datasets]
  BY DEF SearchInv
<1> QED BY <1>8, <1>9, <1>10, <1>11, <1>12, <1>13 DEF SearchInv

\* The search asks for a guess in an interval that the last answers justify.
LEMMA SearchRound ==
  ASSUME IInv, SearchInv, Undisturbed, pc = "wait", latch = 0, StartRound("Search"),
         UNCHANGED <<rpcVars, data, connecting, result, outcome, generates>>,
         search' \in [min : Int, max : Int, guess : Int, steps : Nat],
         search'.steps <= Width + 1, Interval'
  PROVE  SearchInv'
<1>1. /\ Calls' /\ Once' /\ Places' /\ Answered' = {}
      /\ InRound("Search")' /\ ~InRound("Query")'
      /\ sums' = [smaller |-> 0, same |-> 0]
  BY NewRound
<1>2. data' \in [Channels -> Datasets] /\ Stats /\ outcome = "none"
  BY DEF SearchInv, Places
<1>3. Stats'
  <2>1. pc' # "connect"
    BY <1>1 DEF InRound
  <2> QED BY <1>1, <1>2, <2>1 DEF Stats
<1>4. Sums'
  <2>1. \A X : HowMany(Answered, X)' = 0
    <3> TAKE X
    <3>1. HowMany(Answered, X)' = HowMany({}, X)
      BY <1>1 DEF HowMany
    <3> QED BY <3>1, NoneYet
  <2> QED BY <1>1, <2>1 DEF Sums
<1>5. MedianCorrect' /\ SearchNeverFails'
  <2>1. MedianCorrect'
    BY <1>2 DEF MedianCorrect
  <2>2. SearchNeverFails'
    BY <1>2 DEF SearchNeverFails
  <2> QED BY <2>1, <2>2
<1> QED BY <1>1, <1>2, <1>3, <1>4, <1>5 DEF SearchInv
-----------------------------------------------------------------------------
\* How many numbers there are up to the next one.
LEMMA UpToNext ==
  ASSUME DataOK, NEW x \in Int, kMin <= x
  PROVE  /\ UpTo(x) = UpTo(x - 1) + AllNumbers({x})
         /\ UpTo(x) \in Nat /\ UpTo(x - 1) \in Nat /\ AllNumbers({x}) \in Nat
<1>1. kMin \in Int
  BY Widths
<1>2. kMin .. x = (kMin .. x - 1) \cup {x} /\ (kMin .. x - 1) \cap {x} = {}
  BY <1>1
<1>3. PICK X, Y : X = kMin .. x - 1 /\ Y = {x}
  OBVIOUS
<1>4. HowMany(Channels, X \cup Y) = HowMany(Channels, X) + HowMany(Channels, Y)
  BY <1>2, <1>3, TwoKinds
<1>5. \A Z : HowMany(Channels, Z) \in Nat
  BY PointsFinite
<1> QED BY <1>2, <1>3, <1>4, <1>5 DEF UpTo, AllNumbers

\* All numbers are up to their maximum and none is below their minimum.
LEMMA AllInRange ==
  ASSUME DataOK, NEW min \in Int64, NEW max \in Int64,
         AllNumbers(Int64 \ (min .. max)) = 0
  PROVE  /\ UpTo(max) = AllNumbers(Int64) /\ UpTo(min - 1) = 0
         /\ AllNumbers(Int64) > 0 => min <= max
<1>1. Int64 \subseteq Int /\ kMin \in Int /\ kMax \in Int
  BY Widths DEF Int64
<1>2. PICK Out : Out = Int64 \ (min .. max)
  OBVIOUS
<1>3. \A c \in Channels : \A i \in DOMAIN data[c] : data[c][i] \notin Out
  BY <1>2, NoneOfThem DEF AllNumbers
<1>4. \A X : X \subseteq Out => HowMany(Channels, X) = 0
  BY <1>3, NoneOfThem
<1>5. UpTo(min - 1) = 0
  <2>1. kMin .. min - 1 \subseteq Out
    BY <1>1, <1>2 DEF Int64
  <2> QED BY <1>4, <2>1 DEF UpTo, AllNumbers
<1>6. UpTo(max) = AllNumbers(Int64)
  <2>1. PICK X, Y : X = kMin .. max /\ Y = max + 1 .. kMax
    OBVIOUS
  <2>2. Int64 = X \cup Y /\ X \cap Y = {} /\ Y \subseteq Out
    BY <1>1, <1>2, <2>1 DEF Int64
  <2>3. HowMany(Channels, X \cup Y) = HowMany(Channels, X) + HowMany(Channels, Y)
    BY <2>2, TwoKinds
  <2>4. HowMany(Channels, Y) = 0 /\ HowMany(Channels, X) \in Nat
    BY <1>4, <2>2, PointsFinite
  <2>5. HowMany(Channels, Int64) = HowMany(Channels, X)
    BY <2>2, <2>3, <2>4
  <2> QED BY <2>1, <2>5 DEF UpTo, AllNumbers
<1>7. AllNumbers(Int64) > 0 => min <= max
  <2> SUFFICES ASSUME ~(min <= max) PROVE AllNumbers(Int64) = 0
    OBVIOUS
  <2>1. min .. max = {}
    BY <1>1
  <2>2. Int64 \subseteq Out
    BY <1>2, <2>1
  <2> QED BY <1>4, <2>2 DEF AllNumbers
<1> QED BY <1>5, <1>6, <1>7

\* The stats are known: the end, or the first guess.
LEMMA StatsKnownGoesOn ==
  ASSUME IInv, SearchInv, Undisturbed, StatsKnown PROVE SearchInv'
<1>1. /\ pc = "wait" /\ round = "Query" /\ latch = 0
      /\ search' = [min |-> result.min, max |-> result.max,
                    guess |-> result.max, steps |-> 0]
      /\ UNCHANGED <<rpcVars, data, connecting, result, generates>>
  BY DEF StatsKnown
<1>2. DataOK /\ Width \in Nat
  BY DataAre, CollectorAssumption
<1>3. /\ result.count = AllNumbers(Int64)
      /\ AllNumbers(Int64 \ (result.min .. result.max)) = 0
  BY <1>1, RoundIsExact DEF RoundExact, Int64
<1>4. result.min \in Int64 /\ result.max \in Int64
  BY DEF SearchInv, Stats
<1>5. PICK n \in Nat : n = result.count /\ n = AllNumbers(Int64)
  BY <1>2, <1>3, PointsFinite DEF AllNumbers
<1>6. /\ UpTo(result.max) = n /\ UpTo(result.min - 1) = 0
      /\ n > 0 => result.min <= result.max
  BY <1>2, <1>3, <1>4, <1>5, AllInRange
<1>7. result.min \in Int /\ result.max \in Int
  BY <1>4, Widths DEF Int64
<1>8. search' \in [min : Int, max : Int, guess : Int, steps : Nat]
  BY <1>1, <1>7
<1>9. search'.steps <= Width + 1
  BY <1>1, <1>2
<1>10. CASE result.count <= 0 /\ End("noMedian")
  <2>1. MedianCorrect'
    BY <1>10 DEF MedianCorrect, End
  <2> QED BY <1>1, <1>8, <1>9, <1>10, <2>1, RoundEnds
<1>11. CASE result.count > 0 /\ StartRound("Search") /\ UNCHANGED outcome
  <2>1. result.min <= result.max
    BY <1>5, <1>6, <1>11
  <2>2. \A X : AllNumbers(X)' = AllNumbers(X)
    BY <1>1 DEF AllNumbers, HowMany
  <2>3. PICK k : k = (n + 1) \div 2 /\ k > 0 /\ k <= n
    BY <1>5, <1>11
  <2>4. Kth' = k
    BY <1>1, <1>5, <2>3 DEF Kth
  <2>5. /\ search'.min = result.min /\ search'.max = result.max
        /\ search'.guess = result.max /\ search'.steps = 0
    BY <1>1
  <2>6. /\ result'.count = AllNumbers(Int64)'
        /\ UpTo(search.min - 1)' = 0 /\ UpTo(search.max)' = n
    BY <1>1, <1>3, <1>6, <2>2, <2>5 DEF UpTo
  <2>7. Interval'
    BY <1>4, <2>1, <2>3, <2>4, <2>5, <2>6 DEF Interval
  <2> QED BY <1>1, <1>8, <1>9, <1>11, <2>7, SearchRound
<1>12. ~(result.count > 0 /\ result.min > result.max)
  BY <1>5, <1>6, <1>7
<1> QED BY <1>10, <1>11, <1>12, Zenon DEF StatsKnown

\* What the middle of an interval leaves on either side.
LEMMA Halves ==
  ASSUME NEW min \in Int, NEW max \in Int, min <= max, NEW q \in Nat, max - min < 2 * q,
         NEW g, g = min + ((max - min) \div 2)
  PROVE  g \in min .. max /\ g - min < q /\ max - g - 1 < q
<1>1. PICK d \in Nat : d = max - min
  OBVIOUS
<1>2. PICK h \in Nat : h = d \div 2 /\ 2 * h <= d /\ d <= 2 * h + 1
  BY <1>1
<1> QED BY <1>1, <1>2

\* The guess is in the interval, and what its answers say of it.
LEMMA GuessKnown ==
  ASSUME IInv, SearchInv, Undisturbed, pc = "wait", round = "Search", latch = 0
  PROVE  LET s == search IN
         /\ s.min \in Int64 /\ s.max \in Int64 /\ s.min <= s.max
         /\ s.guess \in s.min .. s.max /\ s.guess \in Int64
         /\ Kth \in Int /\ result.count = AllNumbers(Int64)
         /\ sums.smaller = UpTo(s.guess - 1) /\ sums.smaller + sums.same = UpTo(s.guess)
         /\ \A x \in Int64 : UpTo(x) \in Nat /\ UpTo(x - 1) \in Nat /\ UpTo(x - 1) <= UpTo(x)
<1>1. InRound("Search") /\ Interval /\ search.steps \in Nat
  BY DEF InRound, SearchInv
<1>2. /\ search.min \in Int64 /\ search.max \in Int64 /\ search.min <= search.max
      /\ result.count = AllNumbers(Int64)
      /\ search.steps = 0 => search.guess = search.max
      /\ search.steps # 0 =>
           search.guess = search.min + ((search.max - search.min) \div 2)
  BY <1>1 DEF Interval
<1>3. PICK min, max, g : min = search.min /\ max = search.max /\ g = search.guess
  OBVIOUS
<1>4. /\ min \in Int /\ max \in Int /\ min <= max /\ kMin \in Int /\ kMax \in Int
      /\ kMin <= min /\ max <= kMax
  BY <1>2, <1>3, Widths DEF Int64
<1>5. g \in min .. max
  <2>1. CASE search.steps = 0
    BY <1>2, <1>3, <1>4, <2>1
  <2>2. CASE search.steps # 0
    <3>1. PICK q \in Nat : q = max - min + 1 /\ max - min < 2 * q
      BY <1>4
    <3> QED BY <1>2, <1>3, <1>4, <2>2, <3>1, Halves
  <2> QED BY <2>1, <2>2
<1>6. g \in Int /\ kMin <= g /\ g \in Int64
  BY <1>4, <1>5 DEF Int64
<1>7. DataOK
  BY DataAre
<1>8. /\ sums.smaller = UpTo(g - 1) /\ sums.same = AllNumbers({g})
  BY <1>3, RoundIsExact DEF RoundExact, UpTo
<1>9. sums.smaller + sums.same = UpTo(g)
  BY <1>6, <1>7, <1>8, UpToNext
<1>10. \A x \in Int64 : UpTo(x) \in Nat /\ UpTo(x - 1) \in Nat /\ UpTo(x - 1) <= UpTo(x)
  <2> TAKE x \in Int64
  <2>1. x \in Int /\ kMin <= x
    BY <1>4 DEF Int64
  <2>2. /\ UpTo(x) = UpTo(x - 1) + AllNumbers({x})
        /\ UpTo(x) \in Nat /\ UpTo(x - 1) \in Nat /\ AllNumbers({x}) \in Nat
    BY <1>7, <2>1, UpToNext
  <2> QED BY <2>2
<1>11. Kth \in Int
  <2>1. result.count \in Nat
    BY <1>2, <1>7, PointsFinite DEF AllNumbers
  <2> QED BY <2>1 DEF Kth
<1> QED BY <1>2, <1>3, <1>5, <1>6, <1>8, <1>9, <1>10, <1>11

\* A guess that is not the median leaves an interval that has the median, at
\* most half as long.
LEMMA Narrowed ==
  ASSUME IInv, SearchInv, Undisturbed, pc = "wait", round = "Search", latch = 0,
         ~(sums.smaller < Kth /\ sums.smaller + sums.same >= Kth)
  PROVE  LET n == Narrow(sums.smaller, sums.same) IN
         /\ n.min \in Int64 /\ n.max \in Int64 /\ n.min < n.max
         /\ UpTo(n.min - 1) < Kth /\ UpTo(n.max - 1) >= Kth
         /\ n.guess = n.min + ((n.max - n.min) \div 2) /\ n.guess \in n.min .. n.max
         /\ n.steps = search.steps + 1 /\ n.steps <= Width
         /\ n.max - n.min < PowerOfTwo[Width + 1 - n.steps]
         /\ n \in [min : Int, max : Int, guess : Int, steps : Nat]
<1>1. PICK min, max, g, k, n : /\ min = search.min /\ max = search.max
                               /\ g = search.guess /\ k = Kth
                               /\ n = Narrow(sums.smaller, sums.same)
  OBVIOUS
<1>2. /\ min \in Int64 /\ max \in Int64 /\ g \in Int64 /\ g \in min .. max /\ k \in Int
      /\ sums.smaller = UpTo(g - 1) /\ sums.smaller + sums.same = UpTo(g)
      /\ \A x \in Int64 : UpTo(x) \in Nat /\ UpTo(x - 1) \in Nat /\ UpTo(x - 1) <= UpTo(x)
  BY <1>1, GuessKnown
<1>3. InRound("Search") /\ Interval /\ search.steps \in Nat
  BY DEF InRound, SearchInv
<1>4. /\ UpTo(min - 1) < k
      /\ search.steps = 0 => g = max /\ UpTo(max) >= k
      /\ search.steps # 0 => /\ g = min + ((max - min) \div 2)
                             /\ UpTo(max - 1) >= k /\ search.steps <= Width
                             /\ max - min < PowerOfTwo[Width + 1 - search.steps]
  BY <1>1, <1>3 DEF Interval
<1>5. Int64 \subseteq Int /\ min \in Int /\ max \in Int /\ g \in Int /\ min <= g /\ g <= max
  BY <1>2, Widths DEF Int64
<1>6. /\ n.min = (IF UpTo(g) < k THEN int64(g + 1) ELSE min)
      /\ n.max = (IF UpTo(g) < k THEN max ELSE g)
      /\ n.guess = Middle(n.min, n.max) /\ n.steps = search.steps + 1
      /\ n = [min |-> n.min, max |-> n.max, guess |-> n.guess, steps |-> n.steps]
  BY <1>1, <1>2 DEF Narrow
<1>7. ASSUME UpTo(g) < k
      PROVE  /\ n.min = g + 1 /\ n.max = max /\ g + 1 < max /\ n.min \in Int64
             /\ UpTo(n.min - 1) < k /\ UpTo(n.max - 1) >= k /\ search.steps # 0
  <2>1. search.steps # 0 /\ UpTo(max - 1) >= k
    BY <1>2, <1>4, <1>7
  <2>2. g # max /\ g # max - 1
    BY <1>2, <1>4, <1>7, <2>1
  <2>3. g + 1 < max
    BY <1>5, <2>2
  <2>4. n.min = g + 1 /\ n.min \in Int64 /\ n.max = max /\ n.min - 1 = g
    BY <1>2, <1>5, <1>6, <1>7, <2>3, NextIs
  <2> QED BY <1>2, <1>4, <1>5, <1>7, <2>1, <2>3, <2>4
<1>8. ASSUME ~(UpTo(g) < k)
      PROVE  /\ n.min = min /\ n.max = g /\ min < g
             /\ UpTo(n.min - 1) < k /\ UpTo(n.max - 1) >= k
  <2>1. UpTo(g - 1) >= k
    BY <1>1, <1>2, <1>8
  <2>2. g # min
    BY <1>2, <1>4, <2>1
  <2>3. n.min = min /\ n.max = g
    BY <1>6, <1>8
  <2> QED BY <1>2, <1>4, <1>5, <2>1, <2>2, <2>3
<1>9. /\ n.min \in Int64 /\ n.max \in Int64 /\ n.min \in Int /\ n.max \in Int
      /\ n.min < n.max /\ UpTo(n.min - 1) < k /\ UpTo(n.max - 1) >= k
  <2>1. CASE UpTo(g) < k
    BY <1>2, <1>5, <1>7, <2>1
  <2>2. CASE ~(UpTo(g) < k)
    BY <1>2, <1>5, <1>8, <2>2
  <2> QED BY <2>1, <2>2
<1>10. n.guess = n.min + ((n.max - n.min) \div 2) /\ n.guess \in n.min .. n.max
  BY <1>6, <1>9, MiddleIs
<1>11. n.steps <= Width /\ n.max - n.min < PowerOfTwo[Width + 1 - n.steps]
  <2>1. Width \in Nat \ {0}
    BY CollectorAssumption
  <2>2. CASE search.steps = 0
    <3>1. n.min = min /\ n.max = g /\ n.steps = 1
      BY <1>6, <1>7, <1>8, <2>2
    <3>2. g - min < PowerOfTwo[Width]
      <4>1. /\ kMin \in Int /\ kMax \in Int /\ PowerOfTwo[Width] \in Nat
            /\ kMax - kMin = PowerOfTwo[Width] - 1
        BY Widths
      <4>2. kMin <= min /\ g <= kMax
        BY <1>2, <1>5, <4>1 DEF Int64
      <4> QED BY <1>5, <4>1, <4>2
    <3>3. Width + 1 - n.steps = Width
      BY <2>1, <3>1
    <3> QED BY <2>1, <3>1, <3>2, <3>3
  <2>3. CASE search.steps # 0
    <3>1. PICK s \in Nat : s = search.steps /\ s <= Width /\ s # 0 /\ Width - s \in Nat
      BY <1>3, <1>4, <2>1, <2>3
    <3>2. PICK q \in Nat \ {0} : q = PowerOfTwo[Width - s]
                                   /\ PowerOfTwo[(Width - s) + 1] = 2 * q
      BY <3>1, PowerLaw
    <3>3. (Width - s) + 1 = Width + 1 - s
      BY <2>1, <3>1
    <3>4. max - min < 2 * q /\ g = min + ((max - min) \div 2)
      BY <1>4, <2>3, <3>1, <3>2, <3>3
    <3>5. g - min < q /\ max - g - 1 < q
      <4>1. min \in Int /\ max \in Int /\ min <= max /\ q \in Nat
        BY <1>5, <3>2
      <4> QED BY <3>4, <4>1, Halves
    <3>6. n.max - n.min < q
      <4>1. CASE UpTo(g) < k
        BY <1>5, <1>7, <3>2, <3>5, <4>1
      <4>2. CASE ~(UpTo(g) < k)
        BY <1>8, <3>5, <4>2
      <4> QED BY <4>1, <4>2
    <3>7. q # 1
      BY <1>9, <3>6
    <3>8. s # Width
      <4>1. Width - Width = 0
        BY <2>1
      <4> QED BY <3>2, <3>7, <4>1, PowerLaw
    <3>9. n.steps = s + 1 /\ s + 1 <= Width /\ Width + 1 - n.steps = Width - s
      BY <1>6, <2>1, <3>1, <3>8
    <3> QED BY <3>2, <3>6, <3>9
  <2> QED BY <2>2, <2>3
<1>12. n \in [min : Int, max : Int, guess : Int, steps : Nat]
  <2>1. n.guess \in Int /\ n.steps \in Nat
    BY <1>3, <1>6, <1>9, <1>10
  <2> QED BY <1>6, <1>9, <2>1
<1> QED BY <1>1, <1>6, <1>9, <1>10, <1>11, <1>12

\* The last answers are judged: the median, or the next guess.
LEMMA GuessJudgedGoesOn ==
  ASSUME IInv, SearchInv, Undisturbed, GuessJudged PROVE SearchInv'
<1>1. PICK n, v : /\ n = Narrow(sums.smaller, sums.same)
                  /\ v = Verdict(sums.smaller, sums.same, n)
  OBVIOUS
<1>2. /\ pc = "wait" /\ round = "Search" /\ latch = 0
      /\ UNCHANGED <<rpcVars, data, connecting, result, generates>>
      /\ IF v = "none"
         THEN search' = n /\ StartRound("Search") /\ UNCHANGED outcome
         ELSE search' = [search EXCEPT !.steps = @ + 1] /\ End(v)
  BY <1>1 DEF GuessJudged
<1>3. search \in [min : Int, max : Int, guess : Int, steps : Nat] /\ Interval
  BY DEF SearchInv
<1>4. Width \in Nat \ {0} /\ MaxSteps \in Nat /\ Width < MaxSteps
  BY CollectorAssumption, SorterAssumption
<1>5. search.steps <= Width
  <2>1. InRound("Search")
    BY <1>2 DEF InRound
  <2> QED BY <1>3, <1>4, <2>1 DEF Interval
<1>6. ~(search.steps + 1 > MaxSteps)
  BY <1>3, <1>4, <1>5
<1>7. \A X : AllNumbers(X)' = AllNumbers(X)
  BY <1>2 DEF AllNumbers, HowMany
<1>8. /\ sums.smaller = UpTo(search.guess - 1)
      /\ sums.smaller + sums.same = UpTo(search.guess)
      /\ result.count = AllNumbers(Int64)
  BY <1>2, GuessKnown
<1>9. CASE sums.smaller < Kth /\ sums.smaller + sums.same >= Kth
  <2>1. v = "found"
    BY <1>1, <1>6, <1>9 DEF Verdict
  <2>2. search' = [search EXCEPT !.steps = @ + 1] /\ End("found")
    BY <1>2, <2>1
  <2>3. /\ search' \in [min : Int, max : Int, guess : Int, steps : Nat]
        /\ search'.steps <= Width + 1 /\ search'.guess = search.guess
    BY <1>3, <1>4, <1>5, <2>2
  <2>4. MedianCorrect'
    <3>1. /\ AllNumbers(kMin .. search.guess - 1)' = UpTo(search.guess - 1)
          /\ AllNumbers(kMin .. search.guess)' = UpTo(search.guess)
          /\ AllNumbers(kMin .. kMax)' = result.count
      BY <1>7, <1>8, <2>3 DEF UpTo, Int64
    <3> QED BY <1>8, <1>9, <3>1 DEF MedianCorrect, Kth
  <2> QED BY <1>2, <2>2, <2>3, <2>4, RoundEnds
<1>10. CASE ~(sums.smaller < Kth /\ sums.smaller + sums.same >= Kth)
  <2>1. /\ n.min \in Int64 /\ n.max \in Int64 /\ n.min < n.max
        /\ UpTo(n.min - 1) < Kth /\ UpTo(n.max - 1) >= Kth
        /\ n.guess = n.min + ((n.max - n.min) \div 2) /\ n.guess \in n.min .. n.max
        /\ n.steps = search.steps + 1 /\ n.steps <= Width
        /\ n.max - n.min < PowerOfTwo[Width + 1 - n.steps]
        /\ n \in [min : Int, max : Int, guess : Int, steps : Nat]
    BY <1>1, <1>2, <1>10, Narrowed
  <2>2. v = "none"
    BY <1>1, <1>6, <1>10, <2>1 DEF Verdict
  <2>3. search' = n /\ StartRound("Search") /\ UNCHANGED outcome
    BY <1>2, <2>2
  <2>4. search'.steps <= Width + 1
    BY <1>4, <2>1, <2>3
  <2>5. n.min <= n.max /\ n.steps # 0
    BY <1>3, <2>1
  <2>6. Kth' = Kth
    BY <1>2 DEF Kth
  <2>7. /\ UpTo(search.min - 1)' = UpTo(n.min - 1)
        /\ UpTo(search.max - 1)' = UpTo(n.max - 1)
        /\ result'.count = AllNumbers(Int64)'
    BY <1>2, <1>7, <1>8, <2>3 DEF UpTo
  <2>8. Interval'
    BY <2>1, <2>3, <2>5, <2>6, <2>7 DEF Interval
  <2> QED BY <1>2, <2>1, <2>3, <2>4, <2>8, SearchRound
<1> QED BY <1>9, <1>10
-----------------------------------------------------------------------------
\* Nobody is asked before the connections are made.
LEMMA InitSearchInvariant == Init => SearchInv
<1> SUFFICES ASSUME Init PROVE SearchInv
  OBVIOUS
<1>1. /\ outstandings = [c \in Channels |-> << >>] /\ toClient = [c \in Channels |-> << >>]
      /\ serving = [c \in Channels |-> {}] /\ calling = [t \in Threads |-> Idle]
      /\ data \in [Channels -> Datasets]
      /\ connecting = Channels /\ pc = "connect" /\ round = "Query" /\ todo = << >>
      /\ latch = Len(Sorters)
      /\ result = [count |-> 0, sum |-> 0, min |-> kMax, max |-> kMin]
      /\ search = [min |-> 0, max |-> 0, guess |-> 0, steps |-> 0] /\ outcome = "none"
  BY DEF Init, RpcInit
<1>2. Threads = {main, other} /\ calling[main] = Idle /\ calling[other] = Idle
  BY <1>1, CollectorAssumption
<1>3. \A c \in Channels : Entered(c) = {}
  BY <1>1 DEF Entered
<1>4. InHand = {} /\ ToSet(todo) = {}
  BY <1>1, <1>2, Empty DEF InHand, Idle
<1>5. Calls
  BY <1>1, <1>2, <1>3, Empty DEF Calls
<1>6. Once
  BY <1>1, <1>4 DEF Once
<1>7. Places
  BY <1>1, <1>2, <1>3, SortersAre DEF Places
<1>8. Stats
  <2>1. kMin \in Int64 /\ kMax \in Int64
    BY Widths DEF Int64
  <2> QED BY <1>1, <2>1 DEF Stats, InRound
<1>9. Sums /\ Interval
  BY <1>1 DEF Sums, Interval, InRound
<1>10. MedianCorrect
  BY <1>1 DEF MedianCorrect
<1>11. SearchNeverFails
  <2>1. Width \in Nat
    BY CollectorAssumption
  <2> QED BY <1>1, <2>1 DEF SearchNeverFails
<1>12. search \in [min : Int, max : Int, guess : Int, steps : Nat]
  BY <1>1
<1> QED BY <1>1, <1>5, <1>6, <1>7, <1>8, <1>9, <1>10, <1>11, <1>12 DEF SearchInv

\* Calls of Generate are only counted up, so undisturbed now is so all along.
Counted == generates \in Nat

\* Every step counts at most one of them.
LEMMA NextCounted ==
  Counted /\ [Next]_vars => Counted' /\ (Undisturbed' => Undisturbed /\ generates' = generates)
<1> SUFFICES ASSUME Counted, [Next]_vars
             PROVE  Counted' /\ (Undisturbed' => Undisturbed /\ generates' = generates)
  OBVIOUS
<1>1. generates' \in {generates, generates + 1}
  <2>1. CASE MainStep
    BY <2>1 DEF MainStep, MainCall, MainWaits, Connected, StatsKnown, GuessJudged, InCallMethod
  <2>2. CASE InCallMethod(other) \/ OtherCall
    BY <2>2 DEF InCallMethod, OtherCall
  <2>3. ASSUME NEW c \in Channels, OnConnection(c) \/ OnAnswer(c) \/ Serve(c)
                 \/ RunDone(c) \/ Lose(c) \/ Generate(c)
        PROVE  generates' \in {generates, generates + 1}
    BY <2>3 DEF OnConnection, OnAnswer, Serve, RunDone, Lose, Generate
  <2>4. CASE Stopped \/ UNCHANGED vars
    BY <2>4 DEF Stopped, vars
  <2> QED BY <2>1, <2>2, <2>3, <2>4 DEF Next
<1> QED BY <1>1 DEF Counted, Undisturbed

\* Every step leaves SearchInv.
LEMMA NextSearchInvariant == IInv /\ Counted /\ SearchInv /\ [Next]_vars => SearchInv'
<1> SUFFICES ASSUME IInv, Counted, SearchInv, [Next]_vars, Undisturbed' PROVE SearchInv'
  BY DEF SearchInv
<1>1. Undisturbed /\ generates' = generates
  BY NextCounted
<1>2. CASE MainCall \/ MainWaits
  BY <1>1, <1>2, MainCallGoesOn, MainWaitsGoesOn
<1>3. CASE Connected \/ StatsKnown \/ GuessJudged
  BY <1>1, <1>3, ConnectedGoesOn, StatsKnownGoesOn, GuessJudgedGoesOn
<1>4. ASSUME NEW t \in Threads, InCallMethod(t) PROVE SearchInv'
  <2>1. UNCHANGED <<data, connecting, mainVars, others, generates>>
    BY <1>4 DEF InCallMethod
  <2> QED BY <1>1, <1>4, <2>1, EnterGoesOn, SendRequestGoesOn DEF InCallMethod
<1>5. CASE OtherCall
  BY <1>1, <1>5, OtherCallGoesOn
<1>6. ASSUME NEW c \in Channels, OnConnection(c) \/ OnAnswer(c) \/ Serve(c)
               \/ RunDone(c) \/ Lose(c) \/ Generate(c)
      PROVE  SearchInv'
  <2>1. CASE OnConnection(c)
    BY <1>1, <2>1, OnConnectionGoesOn
  <2>2. CASE OnAnswer(c)
    BY <1>1, <2>2, OtherAnswerGoesOn, MainAnswerGoesOn
  <2>3. CASE Serve(c) \/ RunDone(c) \/ Lose(c)
    BY <1>1, <2>3, ServeGoesOn, RunDoneGoesOn, LoseGoesOn
  <2>4. CASE Generate(c)
    BY <1>1, <2>4 DEF Generate, Undisturbed
  <2> QED BY <1>6, <2>1, <2>2, <2>3, <2>4
<1>7. CASE Stopped \/ UNCHANGED vars
  <2>1. UNCHANGED <<outstandings, calling, toClient, serving, data, connecting,
                    mainVars, generates>>
    BY <1>7 DEF Stopped, vars, rpcVars
  <2> QED BY <1>1, <2>1, TrafficGoesOn
<1>8. main \in Threads /\ other \in Threads
  BY CollectorAssumption
<1> QED BY <1>2, <1>3, <1>4, <1>5, <1>6, <1>7, <1>8 DEF Next, MainStep
-----------------------------------------------------------------------------
\* SearchInv is an invariant, for any sorters, numbers and width of an int64.
THEOREM SearchInvariant == Spec => []SearchInv
<1>1. Init => Counted
  BY DEF Init, Counted
<1> QED BY <1>1, NextCounted, InitSearchInvariant, NextSearchInvariant, Invariant, PTL DEF Spec

\* When a latch lets the main thread go on, the answers of this round and of
\* no other are in the sums, each sorter's once (collector.cc 98-150).
THEOREM RoundExactCorrect == Spec => []RoundExact
BY RoundIsExact, Invariant, SearchInvariant, PTL

\* The median reported is the one at place (count + 1) / 2 (kth.h 30-33,
\* collector.cc 85-92).
THEOREM MedianCorrectCorrect == Spec => []MedianCorrect
<1>1. SearchInv => MedianCorrect
  BY DEF SearchInv, MedianCorrect
<1> QED BY <1>1, SearchInvariant, PTL

\* The search never fails: the guess stays in the range (the assert of kth.h:44)
\* and Width + 1 rounds are enough, of the 100 it allows itself.
THEOREM SearchNeverFailsCorrect == Spec => []SearchNeverFails
<1>1. SearchInv => SearchNeverFails
  BY DEF SearchInv, SearchNeverFails
<1> QED BY <1>1, SearchInvariant, PTL
=============================================================================
