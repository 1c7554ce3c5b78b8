----------------------------- MODULE PollerProofs -----------------------------
(***************************************************************************)
(* For any channels on any descriptors: the three structures of a Poller   *)
(* stay consistent through every update and removal, no assert fails, and  *)
(* a report reaches the channel that asked for it.                         *)
(***************************************************************************)
EXTENDS Poller, SequenceTheorems, TLAPS

\* The pollfd of a channel asks for what the channel is interested in, and is
\* ignored if that is nothing.
InterestWritten ==
  \A c \in Registered :
    LET p == pollfds_[index_[c] + 1]
    IN  p.events = events_[c] /\ (events_[c] = {} => p.fd < 0)

\* The inductive invariant: the array, the map and the indices agree, which is
\* what each assert checks a part of, and so do the interests.
IInv == TypeOK /\ AssertsHold /\ IndexConsistent /\ InterestWritten

\* A poll or a handler changes none of the three structures.
LEMMA StructuresUnchanged ==
  ASSUME IInv, TypeOK',
         UNCHANGED <<pollfds_, channels_, index_, events_, removed, aborted>>
  PROVE  IInv'
<1>1. IndexConsistent'
  BY DEF IInv, IndexConsistent, Registered, InMap, IndexFits, Ignored
<1>2. InterestWritten'
  BY DEF IInv, InterestWritten, Registered
<1> QED BY <1>1, <1>2 DEF IInv, AssertsHold

\* Poller.cc:47-56.
LEMMA AddPreserves ==
  ASSUME IInv, NEW c \in Channels, NEW ev \in SUBSET Events,
         Update(c, ev), index_[c] < 0, ev # {}
  PROVE  IInv'
<1> USE FdAssumption
<1> USE DEF IInv, TypeOK, AssertsHold
<1> DEFINE n == Len(pollfds_)
           p == [fd |-> fd_[c], events |-> ev]
<1>1. fd_[c] \notin DOMAIN channels_
  <2> SUFFICES ASSUME fd_[c] \in DOMAIN channels_ PROVE FALSE
    OBVIOUS
  <2> DEFINE d == channels_[fd_[c]]
  <2>1. d \in Registered /\ fd_[d] = fd_[c]
    BY DEF IndexConsistent
  <2>2. d # c /\ d \in Channels \ removed /\ ~(index_[d] < 0)
    BY <2>1 DEF Registered
  <2> QED BY <2>1, <2>2 DEF Update
<1>2. /\ pollfds_' = Append(pollfds_, p)
      /\ index_' = [index_ EXCEPT ![c] = n]
      /\ channels_' = [fd \in DOMAIN channels_ \cup {fd_[c]} |->
                         IF fd = fd_[c] THEN c ELSE channels_[fd]]
      /\ events_' = [events_ EXCEPT ![c] = ev]
      /\ aborted' = aborted /\ removed' = removed /\ active' = active
      /\ c \notin removed
  BY <1>1 DEF Update, AddChannel
<1>3. /\ n \in Nat /\ Len(pollfds_') = n + 1
      /\ pollfds_'[n + 1] = p
      /\ \A i \in 1 .. n : pollfds_'[i] = pollfds_[i]
  BY <1>2
<1>4. TypeOK'
  <2>1. fd_[c] \in Nat /\ p \in [fd : Int, events : SUBSET Events]
    OBVIOUS
  <2>2. pollfds_' \in Seq([fd : Int, events : SUBSET Events])
    BY <1>2, <2>1
  <2>3. /\ DOMAIN channels_' \subseteq Nat
        /\ channels_' \in [DOMAIN channels_' -> Channels]
    BY <1>2, <2>1
  <2>4. /\ index_' \in [Channels -> Int]
        /\ events_' \in [Channels -> SUBSET Events]
    BY <1>2, <1>3
  <2>5. /\ DOMAIN active' \subseteq Channels
        /\ active' \in [DOMAIN active' -> SUBSET (Events \cup Conditions)]
        /\ removed' \subseteq Channels
    BY <1>2
  <2>6. aborted' \in BOOLEAN
    BY <1>2
  <2> QED BY <2>2, <2>3, <2>4, <2>5, <2>6
<1>5. Registered' = Registered \cup {c}
  BY <1>2, <1>3 DEF Registered
<1>6. ASSUME NEW d \in Registered
      PROVE  /\ d # c /\ fd_[d] # fd_[c] /\ d \in Channels
             /\ index_'[d] = index_[d] /\ index_[d] \in 0 .. n - 1
             /\ InMap(d)' /\ IndexFits(d)'
             /\ pollfds_'[index_[d] + 1] = pollfds_[index_[d] + 1]
  <2>1. d # c /\ fd_[d] # fd_[c] /\ d \in Channels
    BY <1>6 DEF Registered, Update
  <2>2. InMap(d) /\ IndexFits(d)
    BY <1>6 DEF IndexConsistent
  <2>3. index_'[d] = index_[d] /\ index_[d] \in 0 .. n - 1
    BY <1>2, <2>1, <2>2 DEF IndexFits
  <2>4. InMap(d)'
    BY <1>2, <2>1, <2>2 DEF InMap
  <2>5. pollfds_'[index_[d] + 1] = pollfds_[index_[d] + 1]
    <3>1. index_[d] + 1 \in 1 .. n BY <2>3, <1>3
    <3> QED BY <3>1, <1>3
  <2>6. IndexFits(d)'
    BY <2>2, <2>3, <2>5, <1>3, SMTT(60) DEF IndexFits, Ignored
  <2> QED BY <2>1, <2>3, <2>4, <2>5, <2>6
<1>7. InMap(c)' /\ IndexFits(c)' /\ index_'[c] = n
  BY <1>2, <1>3 DEF InMap, IndexFits
<1>8. IndexConsistent'
  <2>1. \A d \in Registered' : (InMap(d) /\ IndexFits(d))'
    BY <1>5, <1>6, <1>7
  <2>2. \A d, e \in Registered' : d # e => index_'[d] # index_'[e]
    BY <1>3, <1>5, <1>6, <1>7 DEF IndexConsistent
  <2>3. \A fd \in DOMAIN channels_' :
          channels_'[fd] \in Registered' /\ fd_[channels_'[fd]] = fd
    BY <1>2, <1>5 DEF IndexConsistent
  <2>4. ASSUME NEW i \in 1 .. Len(pollfds_')
        PROVE  \E d \in Registered' : index_'[d] = i - 1
    <3>1. CASE i = n + 1
      BY <3>1, <1>5, <1>7, <1>3
    <3>2. CASE i \in 1 .. n
      <4>1. PICK d \in Registered : index_[d] = i - 1
        BY <3>2 DEF IndexConsistent
      <4> QED BY <4>1, <1>5, <1>6
    <3> QED BY <3>1, <3>2, <1>3
  <2> QED BY <2>1, <2>2, <2>3, <2>4 DEF IndexConsistent
<1>9. InterestWritten'
  <2>1. ASSUME NEW d \in Registered
        PROVE  LET q == pollfds_'[index_'[d] + 1]
               IN  q.events = events_'[d] /\ (events_'[d] = {} => q.fd < 0)
    BY <1>2, <1>6 DEF InterestWritten
  <2>2. pollfds_'[index_'[c] + 1] = p /\ events_'[c] = ev
    BY <1>2, <1>3, <1>7
  <2> QED BY <1>5, <2>1, <2>2 DEF InterestWritten
<1> QED BY <1>2, <1>4, <1>8, <1>9

\* Poller.cc:57-69.
LEMMA ModifyPreserves ==
  ASSUME IInv, NEW c \in Channels, NEW ev \in SUBSET Events,
         Update(c, ev), ~(index_[c] < 0)
  PROVE  IInv'
<1> USE FdAssumption
<1> USE DEF IInv, TypeOK, AssertsHold
<1> DEFINE n == Len(pollfds_)
           k == index_[c] + 1
           p == [fd |-> IF ev = {} THEN Ignored(fd_[c]) ELSE pollfds_[k].fd,
                 events |-> ev]
<1>1. c \in Registered
  BY DEF Update, Registered
<1>2. InMap(c) /\ IndexFits(c)
  BY <1>1 DEF IndexConsistent
<1>3. k \in 1 .. n /\ n \in Nat
  BY <1>2 DEF IndexFits
<1>4. /\ pollfds_' = [pollfds_ EXCEPT ![k] = p]
      /\ index_' = index_ /\ channels_' = channels_
      /\ events_' = [events_ EXCEPT ![c] = ev]
      /\ aborted' = aborted /\ removed' = removed /\ active' = active
  BY <1>2 DEF Update, ModifyChannel
<1>5. p \in [fd : Int, events : SUBSET Events]
  <2>1. pollfds_[k] \in [fd : Int, events : SUBSET Events]
    BY <1>3, ElementOfSeq
  <2>2. Ignored(fd_[c]) \in Int /\ pollfds_[k].fd \in Int
    BY <2>1 DEF Ignored
  <2> QED BY <2>2
<1>6. pollfds_' \in Seq([fd : Int, events : SUBSET Events])
  BY <1>3, <1>4, <1>5
<1>7. TypeOK'
  BY <1>4, <1>6
<1>8. /\ Len(pollfds_') = n /\ Registered' = Registered
      /\ pollfds_'[k].fd \in {fd_[c], Ignored(fd_[c])}
      /\ \A i \in 1 .. n : i # k => pollfds_'[i] = pollfds_[i]
  BY <1>2, <1>3, <1>4 DEF IndexFits, Registered
<1>9. ASSUME NEW d \in Registered PROVE IndexFits(d)'
  <2>1. IndexFits(d) BY DEF IndexConsistent
  <2>2. CASE d = c
    BY <2>2, <1>2, <1>4, <1>8 DEF IndexFits, Ignored
  <2>3. CASE d # c
    <3>1. index_[d] # index_[c]
      BY <2>3, <1>1 DEF IndexConsistent
    <3>2. d \in Channels /\ index_[d] \in 0 .. n - 1
      BY <2>1 DEF Registered, IndexFits
    <3>3. index_[d] + 1 \in 1 .. n /\ index_[d] + 1 # k
      BY <3>1, <3>2, <1>3, SMTT(60)
    <3>4. pollfds_'[index_[d] + 1] = pollfds_[index_[d] + 1]
      BY <3>3, <1>8
    <3> QED BY <2>1, <3>2, <3>4, <1>4, <1>8 DEF IndexFits, Ignored
  <2> QED BY <2>2, <2>3
<1>10. IndexConsistent'
  <2>1. \A d \in Registered : InMap(d)'
    BY <1>4 DEF InMap, IndexConsistent
  <2> QED BY <2>1, <1>4, <1>8, <1>9 DEF IndexConsistent
<1>11. InterestWritten'
  <2>1. ASSUME NEW d \in Registered, d # c
        PROVE  LET q == pollfds_'[index_'[d] + 1]
               IN  q.events = events_'[d] /\ (events_'[d] = {} => q.fd < 0)
    <3>1. d \in Channels /\ index_[d] \in 0 .. n - 1 /\ index_[d] # index_[c]
      BY <1>1, <2>1 DEF Registered, IndexFits, IndexConsistent
    <3>2. index_[d] + 1 \in 1 .. n /\ index_[d] + 1 # k
      BY <3>1, <1>3, SMTT(60)
    <3>3. /\ pollfds_'[index_'[d] + 1] = pollfds_[index_[d] + 1]
          /\ events_'[d] = events_[d]
      BY <2>1, <3>1, <3>2, <1>4, <1>8
    <3> QED BY <3>3 DEF InterestWritten
  <2>2. pollfds_'[index_'[c] + 1] = p /\ events_'[c] = ev
    BY <1>3, <1>4
  <2>3. Ignored(fd_[c]) < 0
    BY DEF Ignored
  <2> QED BY <1>8, <2>1, <2>2, <2>3 DEF InterestWritten
<1> QED BY <1>4, <1>7, <1>10, <1>11

\* Poller.cc:72-96, the last pollfd moved or not.
LEMMA RemovePreserves ==
  ASSUME IInv, NEW c \in Channels, RemoveChannel(c)
  PROVE  IInv'
<1> USE FdAssumption
<1> USE DEF IInv, TypeOK, AssertsHold
<1> DEFINE n == Len(pollfds_)
           idx == index_[c]
           last == pollfds_[n]
<1>1. c \in Registered
  BY DEF RemoveChannel, Registered
<1>2. InMap(c) /\ IndexFits(c)
  BY <1>1 DEF IndexConsistent
<1>3. idx \in 0 .. n - 1 /\ n \in Nat \ {0}
  BY <1>2 DEF IndexFits
<1>4. /\ EraseAndSwap(c)
      /\ aborted' = aborted /\ removed' = removed \cup {c}
      /\ events_' = events_ /\ active' = active
  BY <1>2 DEF RemoveChannel
<1>5. PICK e \in Registered : index_[e] = n - 1
  <2>1. n \in 1 .. Len(pollfds_) BY <1>3
  <2> QED BY <2>1 DEF IndexConsistent
<1>6. e \in Channels /\ fd_[e] \in Nat
  BY <1>5 DEF Registered
<1>7. channels_[Descriptor(last.fd)] = e
  <2>1. InMap(e) /\ last.fd \in {fd_[e], Ignored(fd_[e])}
    BY <1>3, <1>5 DEF IndexConsistent, IndexFits
  <2>2. Descriptor(last.fd) = fd_[e]
    BY <2>1, <1>6 DEF Descriptor, Ignored
  <2> QED BY <2>1, <2>2 DEF InMap
<1>8. /\ channels_' = [fd \in DOMAIN channels_ \ {fd_[c]} |-> channels_[fd]]
      /\ pollfds_' = [i \in 1 .. n - 1 |->
                        IF i = idx + 1 THEN last ELSE pollfds_[i]]
      /\ index_' = IF idx = n - 1 THEN index_ ELSE [index_ EXCEPT ![e] = idx]
  BY <1>4, <1>7 DEF EraseAndSwap, Restrict
<1>9. /\ Len(pollfds_') = n - 1
      /\ pollfds_' \in Seq([fd : Int, events : SUBSET Events])
  <2> DEFINE R == [fd : Int, events : SUBSET Events]
  <2>1. \A i \in 1 .. n : pollfds_[i] \in R
    BY ElementOfSeq
  <2> HIDE DEF R
  <2>2. last \in R /\ \A i \in 1 .. n - 1 : pollfds_[i] \in R
    <3>1. n \in 1 .. n /\ \A i \in 1 .. n - 1 : i \in 1 .. n
      BY <1>3
    <3> HIDE DEF n
    <3> QED BY <2>1, <3>1
  <2>3. pollfds_' \in [1 .. n - 1 -> R]
    BY <2>2, <1>8
  <2>4. pollfds_' \in Seq(R)
    <3>1. PICK m \in Nat : m = n - 1 BY <1>3
    <3>2. pollfds_' \in [1 .. m -> R] BY <2>3, <3>1
    <3>3. Seq(R) = UNION {[1 .. j -> R] : j \in Nat} BY SeqDef, Zenon
    <3>4. [1 .. m -> R] \subseteq Seq(R) BY <3>3, Zenon
    <3> QED BY <3>2, <3>4
  <2> QED BY <2>3, <2>4, <1>3, LenProperties DEF R
<1>10. TypeOK'
  BY <1>3, <1>4, <1>6, <1>8, <1>9
<1>11. e = c <=> idx = n - 1
  BY <1>1, <1>5 DEF IndexConsistent
<1>12. Registered' = Registered \ {c}
  BY <1>3, <1>4, <1>6, <1>8, <1>5 DEF Registered
<1>13. ASSUME NEW d \in Registered \ {c}
       PROVE  /\ index_'[d] = IF d = e THEN idx ELSE index_[d]
              /\ index_'[d] \in 0 .. n - 2
              /\ pollfds_'[index_'[d] + 1] = pollfds_[index_[d] + 1]
  <2>1. d \in Channels /\ index_[d] \in 0 .. n - 1 /\ index_[d] # idx
    BY <1>1 DEF Registered, IndexConsistent, IndexFits
  <2>2. CASE d = e
    <3>1. idx # n - 1 /\ index_'[d] = idx
      BY <2>1, <2>2, <1>5, <1>8, <1>6
    <3> QED BY <3>1, <2>2, <1>3, <1>5, <1>8
  <2>3. CASE d # e
    <3>1. index_[d] # n - 1
      BY <2>3, <1>5 DEF IndexConsistent
    <3>2. index_'[d] = index_[d]
      BY <2>1, <2>3, <1>6, <1>8
    <3> QED BY <2>1, <2>3, <3>1, <3>2, <1>3, <1>8, SMTT(60)
  <2> QED BY <2>2, <2>3
<1>14. ASSUME NEW d \in Registered \ {c} PROVE InMap(d)' /\ IndexFits(d)'
  <2>1. InMap(d) /\ IndexFits(d) /\ fd_[d] # fd_[c]
    BY <1>1, <1>2 DEF IndexConsistent, InMap
  <2>2. InMap(d)'
    BY <2>1, <1>8 DEF InMap
  <2>3. IndexFits(d)'
    <3>1. index_'[d] \in 0 .. Len(pollfds_') - 1
      BY <1>9, <1>13, <1>3
    <3>2. pollfds_'[index_'[d] + 1].fd \in {fd_[d], Ignored(fd_[d])}
      BY <2>1, <1>13 DEF IndexFits
    <3> QED BY <3>1, <3>2 DEF IndexFits, Ignored
  <2> QED BY <2>2, <2>3
<1>15. IndexConsistent'
  <2>1. ASSUME NEW d \in Registered \ {c}, NEW f \in Registered \ {c}, d # f
        PROVE  index_'[d] # index_'[f]
    <3>1. index_[d] # index_[f] /\ index_[d] # idx /\ index_[f] # idx
      BY <2>1, <1>1 DEF IndexConsistent
    <3> QED BY <3>1, <2>1, <1>13
  <2>2. \A fd \in DOMAIN channels_' :
          channels_'[fd] \in Registered \ {c} /\ fd_[channels_'[fd]] = fd
    BY <1>8 DEF IndexConsistent
  <2>3. ASSUME NEW i \in 1 .. Len(pollfds_')
        PROVE  \E d \in Registered \ {c} : index_'[d] = i - 1
    <3>1. CASE i = idx + 1
      <4>1. e \in Registered \ {c} BY <3>1, <1>9, <1>11, <1>3, <1>5
      <4> QED BY <4>1, <3>1, <1>13, <1>3
    <3>2. CASE i # idx + 1
      <4>1. i \in 1 .. n - 1 BY <1>9
      <4>2. PICK d \in Registered : index_[d] = i - 1
        BY <4>1, <1>3, SMTT(60) DEF IndexConsistent
      <4>3. d # c /\ d # e
        BY <3>2, <4>1, <4>2, <1>3, <1>5, SMTT(60)
      <4> QED BY <4>2, <4>3, <1>13
    <3> QED BY <3>1, <3>2
  <2> QED BY <2>1, <2>2, <2>3, <1>12, <1>14 DEF IndexConsistent
<1>16. InterestWritten'
  BY <1>4, <1>12, <1>13 DEF InterestWritten
<1> QED BY <1>4, <1>10, <1>15, <1>16

\* A report finds the channel of each pollfd it goes through, Poller.cc:29-42.
LEMMA PollPreserves == ASSUME IInv, Poll PROVE IInv'
<1> USE FdAssumption
<1> USE DEF IInv, TypeOK, AssertsHold
<1> DEFINE ch(i) == channels_[pollfds_[i].fd]
           Found(i) == /\ pollfds_[i].fd \in DOMAIN channels_
                       /\ fd_[ch(i)] = pollfds_[i].fd
<1>1. ASSUME NEW i \in 1 .. Len(pollfds_), pollfds_[i].fd >= 0
      PROVE  Found(i) /\ ch(i) \in Channels
  <2>1. PICK c \in Registered : index_[c] = i - 1
    BY DEF IndexConsistent
  <2>2. /\ c \in Channels /\ InMap(c)
        /\ pollfds_[i].fd \in {fd_[c], Ignored(fd_[c])}
    BY <2>1 DEF IndexConsistent, IndexFits, Registered
  <2>3. pollfds_[i].fd = fd_[c]
    BY <1>1, <2>2 DEF Ignored
  <2> QED BY <2>2, <2>3 DEF InMap
<1> HIDE DEF ch, Found
<1>2. PICK Hit \in SUBSET {i \in 1 .. Len(pollfds_) : pollfds_[i].fd >= 0} :
        IF \A i \in Hit : Found(i)
        THEN /\ active' \in [{ch(i) : i \in Hit} ->
                             SUBSET (Events \cup Conditions) \ {{}}]
             /\ aborted' = aborted
        ELSE aborted' = TRUE /\ active' = active
  BY DEF Poll, ch, Found
<1>3. /\ \A i \in Hit : Found(i) /\ ch(i) \in Channels
  BY <1>1
<1>4. /\ active' \in [{ch(i) : i \in Hit} -> SUBSET (Events \cup Conditions)]
      /\ aborted' = aborted
  BY <1>2, <1>3
<1>5. DOMAIN active' \subseteq Channels
      /\ active' \in [DOMAIN active' -> SUBSET (Events \cup Conditions)]
  <2> DEFINE D == {ch(i) : i \in Hit}
  <2>1. D \subseteq Channels BY <1>3
  <2> HIDE DEF D
  <2>2. active' \in [D -> SUBSET (Events \cup Conditions)]
    BY <1>4 DEF D
  <2> QED BY <2>1, <2>2
<1>6. UNCHANGED <<pollfds_, channels_, index_, events_, removed>>
  BY DEF Poll
<1>7. TypeOK'
  BY <1>4, <1>5, <1>6
<1> QED BY <1>4, <1>6, <1>7, StructuresUnchanged

-----------------------------------------------------------------------------
\* Every step of a loop and its channels keeps the invariant.
LEMMA Inductive == IInv /\ [Next]_vars => IInv'
<1> SUFFICES ASSUME IInv, [Next]_vars PROVE IInv'
  OBVIOUS
<1>a. ASSUME NEW c \in Channels, NEW ev \in SUBSET Events, Update(c, ev),
             index_[c] < 0 => ev # {}
      PROVE  IInv'
  BY <1>a, AddPreserves, ModifyPreserves
<1>1. ASSUME NEW c \in Channels, EnableReading(c) \/ EnableWriting(c)
                                \/ DisableWriting(c) \/ DisableAll(c)
      PROVE  IInv'
  <2>1. /\ events_[c] \cup {"read"} \in SUBSET Events
        /\ events_[c] \cup {"write"} \in SUBSET Events
        /\ events_[c] \ {"write"} \in SUBSET Events
    BY DEF IInv, TypeOK, Events
  <2>2. index_[c] \in Int
    BY DEF IInv, TypeOK
  <2>3. CASE EnableReading(c) \/ EnableWriting(c)
    BY <1>a, <2>1, <2>3 DEF EnableReading, EnableWriting
  <2>4. CASE DisableWriting(c) \/ DisableAll(c)
    <3>1. ~(index_[c] < 0)
      BY <2>2, <2>4 DEF DisableWriting, DisableAll
    <3> QED BY <1>a, <2>1, <2>4, <3>1 DEF DisableWriting, DisableAll
  <2> QED BY <1>1, <2>3, <2>4
<1>2. ASSUME NEW c \in Channels, RemoveChannel(c) PROVE IInv'
  BY <1>2, RemovePreserves
<1>3. ASSUME NEW c \in Channels, HandleEvent(c) PROVE IInv'
  <2>1. UNCHANGED <<pollfds_, channels_, index_, events_, removed, aborted>>
    BY <1>3 DEF HandleEvent
  <2>2. active' = [d \in DOMAIN active \ {c} |-> active[d]]
    BY <1>3 DEF HandleEvent, Restrict
  <2>3. TypeOK'
    BY <2>1, <2>2 DEF IInv, TypeOK
  <2> QED BY <2>1, <2>3, StructuresUnchanged
<1>4. CASE Poll
  BY <1>4, PollPreserves
<1>5. CASE UNCHANGED vars
  <2>1. TypeOK'
    BY <1>5 DEF vars, IInv, TypeOK
  <2> QED BY <1>5, <2>1, StructuresUnchanged DEF vars
<1> QED BY <1>1, <1>2, <1>3, <1>4, <1>5 DEF Next

\* A Poller without channels has it.
LEMMA Initially == Init => IInv
<1> SUFFICES ASSUME Init PROVE IInv
  OBVIOUS
<1>1. /\ pollfds_ \in Seq([fd : Int, events : SUBSET Events])
      /\ Len(pollfds_) = 0 /\ DOMAIN channels_ = {}
      /\ DOMAIN active = {}
      /\ \A c \in Channels : index_[c] = -1
  BY DEF Init
<1>2. /\ index_ \in [Channels -> Int]
      /\ events_ \in [Channels -> SUBSET Events]
  BY DEF Init
<1>3. /\ channels_ \in [DOMAIN channels_ -> Channels]
      /\ active \in [DOMAIN active -> SUBSET (Events \cup Conditions)]
  BY DEF Init
<1>4. removed = {} /\ aborted = FALSE
  BY DEF Init
<1>5. TypeOK
  BY <1>1, <1>2, <1>3, <1>4 DEF TypeOK
<1>6. IndexConsistent /\ InterestWritten
  BY <1>1 DEF IndexConsistent, InterestWritten, Registered
<1> QED BY <1>4, <1>5, <1>6 DEF IInv, AssertsHold

\* The state of the Poller keeps its types.
THEOREM TypeCorrect == Spec => []TypeOK
<1>1. IInv => TypeOK
  BY DEF IInv
<1> QED BY <1>1, Initially, Inductive, PTL DEF Spec

\* No assert of updateChannel, removeChannel or fillActiveChannels fails.
THEOREM AssertsHoldCorrect == Spec => []AssertsHold
<1>1. IInv => AssertsHold
  BY DEF IInv
<1> QED BY <1>1, Initially, Inductive, PTL DEF Spec

\* The array, the map and the indices agree after any updates and removals.
THEOREM IndexConsistentCorrect == Spec => []IndexConsistent
<1>1. IInv => IndexConsistent
  BY DEF IInv
<1> QED BY <1>1, Initially, Inductive, PTL DEF Spec

\* A poll reports to a channel of a pollfd that is not ignored, and what that
\* pollfd asked for.
LEMMA PollReports ==
  ASSUME IInv, Poll, NEW c \in DOMAIN active'
  PROVE  /\ c \in Registered /\ events_[c] # {}
         /\ active'[c] \subseteq events_[c] \cup Conditions
<1> USE FdAssumption
<1> USE DEF IInv, TypeOK, AssertsHold
<1> DEFINE ch(i) == channels_[pollfds_[i].fd]
           Found(i) == /\ pollfds_[i].fd \in DOMAIN channels_
                       /\ fd_[ch(i)] = pollfds_[i].fd
<1>1. ASSUME NEW i \in 1 .. Len(pollfds_), pollfds_[i].fd >= 0
      PROVE  /\ Found(i) /\ ch(i) \in Registered
             /\ pollfds_[i].events = events_[ch(i)] /\ events_[ch(i)] # {}
  <2>1. PICK d \in Registered : index_[d] = i - 1
    BY DEF IndexConsistent
  <2>2. /\ d \in Channels /\ InMap(d)
        /\ pollfds_[i].fd \in {fd_[d], Ignored(fd_[d])}
    BY <2>1 DEF IndexConsistent, IndexFits, Registered
  <2>3. pollfds_[i].fd = fd_[d]
    BY <1>1, <2>2 DEF Ignored
  <2>4. Found(i) /\ ch(i) = d
    BY <2>2, <2>3 DEF InMap
  <2>5. index_[d] + 1 = i
    BY <2>1
  <2>6. /\ pollfds_[i].events = events_[d]
        /\ events_[d] = {} => pollfds_[i].fd < 0
    BY <2>1, <2>5 DEF InterestWritten
  <2>7. fd_[d] \in Nat
    BY <2>2
  <2> QED BY <2>1, <2>3, <2>4, <2>6, <2>7
<1> HIDE DEF ch, Found
<1>2. PICK Hit \in SUBSET {i \in 1 .. Len(pollfds_) : pollfds_[i].fd >= 0} :
        IF \A i \in Hit : Found(i)
        THEN /\ active' \in [{ch(i) : i \in Hit} ->
                             SUBSET (Events \cup Conditions) \ {{}}]
             /\ \A i \in Hit :
                  active'[ch(i)] \subseteq pollfds_[i].events \cup Conditions
        ELSE active' = active
  BY DEF Poll, ch, Found
<1>3. DOMAIN active' = {ch(i) : i \in Hit}
  BY <1>1, <1>2
<1>4. PICK i \in Hit : c = ch(i)
  BY <1>3
<1> QED BY <1>1, <1>2, <1>4

\* A report never reaches a channel that is removed or that asked for nothing
\* (Poller.cc:29-42).
THEOREM ReportsReachOwnerCorrect == Spec => ReportsReachOwner
<1> DEFINE Reports ==
      \A c \in Channels :
        c \in DOMAIN active' \ DOMAIN active =>
          /\ c \in Registered /\ events_[c] # {}
          /\ active'[c] \subseteq events_[c] \cup Conditions
<1>1. IInv /\ [Next]_vars => [Reports]_vars
  <2> SUFFICES ASSUME IInv, Next PROVE Reports
    BY DEF vars
  <2>1. CASE Poll
    BY <2>1, PollReports
  <2>2. ASSUME NEW d \in Channels, HandleEvent(d) PROVE Reports
    <3>1. active' = [e \in DOMAIN active \ {d} |-> active[e]]
      BY <2>2 DEF HandleEvent, Restrict
    <3> QED BY <3>1
  <2>3. ASSUME NEW d \in Channels, EnableReading(d) \/ EnableWriting(d)
                 \/ DisableWriting(d) \/ DisableAll(d) \/ RemoveChannel(d)
        PROVE  Reports
    BY <2>3 DEF EnableReading, EnableWriting, DisableWriting, DisableAll, Update,
                RemoveChannel
  <2> QED BY <2>1, <2>2, <2>3 DEF Next
<1> QED BY <1>1, Initially, Inductive, PTL DEF Spec, ReportsReachOwner
=============================================================================
