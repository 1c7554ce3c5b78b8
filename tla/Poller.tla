------------------------------- MODULE Poller -------------------------------
(***************************************************************************)
(* Poller and the Channels of one EventLoop.  The array given to ::poll,   *)
(* the map from descriptors to channels and each channel's index into the  *)
(* array are kept in step by updateChannel and removeChannel; the asserts  *)
(* of both and of fillActiveChannels are part of the model.                *)
(***************************************************************************)
EXTENDS Integers, Sequences, Functions

CONSTANTS
  Channels,
  fd_       \* the descriptor of each channel; a descriptor is reused by
            \* another channel after its owner removed the channel and closed it

ASSUME FdAssumption == fd_ \in [Channels -> Nat]

Events == {"read", "write"}

\* what ::poll reports asked for it or not: POLLERR, POLLHUP, POLLNVAL
Conditions == {"error"}

VARIABLES
  pollfds_,    \* sequence of [fd, events]
  channels_,   \* ChannelMap: a function from descriptors to channels
  index_,      \* of each channel, counted from 0; -1 before the first update
  events_,     \* what each channel is interested in
  active,      \* the channels of activeChannels whose handler has not run,
               \* with the revents_ the last poll gave them
  removed,     \* channels taken out by removeChannel; they are not used again
  aborted      \* an assert failed

vars == <<pollfds_, channels_, index_, events_, active, removed, aborted>>

TypeOK ==
  /\ pollfds_ \in Seq([fd : Int, events : SUBSET Events])
  /\ DOMAIN channels_ \subseteq Nat
  /\ channels_ \in [DOMAIN channels_ -> Channels]
  /\ index_ \in [Channels -> Int]
  /\ events_ \in [Channels -> SUBSET Events]
  /\ DOMAIN active \subseteq Channels
  /\ active \in [DOMAIN active -> SUBSET (Events \cup Conditions)]
  /\ removed \subseteq Channels
  /\ aborted \in BOOLEAN

Init ==
  /\ pollfds_ = <<>>
  /\ channels_ = <<>>
  /\ index_ = [c \in Channels |-> -1]
  /\ events_ = [c \in Channels |-> {}]
  /\ active = <<>> /\ removed = {}
  /\ aborted = FALSE

\* pollfd.fd of a channel that is interested in nothing, and back
Ignored(fd) == -fd - 1
Descriptor(x) == IF x < 0 THEN -(x + 1) ELSE x

InMap(c) == fd_[c] \in DOMAIN channels_ /\ channels_[fd_[c]] = c

\* channel->index() finds a pollfd of the channel
IndexFits(c) ==
  /\ index_[c] \in 0 .. Len(pollfds_) - 1
  /\ pollfds_[index_[c] + 1].fd \in {fd_[c], Ignored(fd_[c])}

-----------------------------------------------------------------------------
(* updateChannel: a channel not seen before, then a known one *)

AddChannel(c, ev) ==
  IF fd_[c] \notin DOMAIN channels_
  THEN /\ pollfds_' = Append(pollfds_, [fd |-> fd_[c], events |-> ev])
       /\ index_' = [index_ EXCEPT ![c] = Len(pollfds_)]
       /\ channels_' = [fd \in DOMAIN channels_ \cup {fd_[c]} |->
                          IF fd = fd_[c] THEN c ELSE channels_[fd]]
       /\ aborted' = aborted
  ELSE aborted' = TRUE /\ UNCHANGED <<pollfds_, index_, channels_>>

\* Mutant of ModifyChannel: a channel without events is not ignored.
ModifyChannelKeepsFd(c, ev) ==
  IF InMap(c) /\ IndexFits(c)
  THEN /\ pollfds_' = [pollfds_ EXCEPT ![index_[c] + 1].events = ev]
       /\ UNCHANGED <<index_, channels_, aborted>>
  ELSE aborted' = TRUE /\ UNCHANGED <<pollfds_, index_, channels_>>

ModifyChannel(c, ev) ==
  IF InMap(c) /\ IndexFits(c)
  THEN /\ pollfds_' = [pollfds_ EXCEPT ![index_[c] + 1] =
             [fd |-> IF ev = {} THEN Ignored(fd_[c]) ELSE @.fd, events |-> ev]]
       /\ UNCHANGED <<index_, channels_, aborted>>
  ELSE aborted' = TRUE /\ UNCHANGED <<pollfds_, index_, channels_>>

\* Channel::update().  A removed channel is not updated again, and the
\* descriptor of a new one is not in use: whoever had it closed it.
Update(c, ev) ==
  /\ ~aborted /\ c \notin removed
  /\ \A d \in Channels \ removed : fd_[d] = fd_[c] /\ d # c => index_[d] < 0
  /\ events_' = [events_ EXCEPT ![c] = ev]
  /\ IF index_[c] < 0 THEN AddChannel(c, ev) ELSE ModifyChannel(c, ev)
  /\ UNCHANGED <<active, removed>>

EnableReading(c) == Update(c, events_[c] \cup {"read"})
EnableWriting(c) == Update(c, events_[c] \cup {"write"})

\* a channel's owner enables it first (Acceptor.cc:21, TcpConnection.cc:36,
\* Connector.cc:96, TimerQueue.cc:70, EventLoop.cc:48)
DisableWriting(c) == index_[c] >= 0 /\ Update(c, events_[c] \ {"write"})
DisableAll(c) == index_[c] >= 0 /\ Update(c, {})

\* Mutant of EraseAndSwap: the channel moved keeps its old index.
EraseAndSwapKeepsIndex(c) ==
  /\ channels_' = Restrict(channels_, DOMAIN channels_ \ {fd_[c]})
  /\ pollfds_' = [i \in 1 .. Len(pollfds_) - 1 |->
                    IF i = index_[c] + 1 THEN pollfds_[Len(pollfds_)]
                    ELSE pollfds_[i]]
  /\ index_' = index_

\* the last pollfd takes the place of the removed one, and the channel it
\* belongs to the index
EraseAndSwap(c) ==
  LET last == pollfds_[Len(pollfds_)]
      idx == index_[c]
      fds == DOMAIN channels_ \ {fd_[c]}
  IN /\ channels_' = Restrict(channels_, fds)
     /\ pollfds_' = [i \in 1 .. Len(pollfds_) - 1 |->
                       IF i = idx + 1 THEN last ELSE pollfds_[i]]
     /\ index_' = IF idx = Len(pollfds_) - 1 THEN index_
                  ELSE [index_ EXCEPT ![channels_[Descriptor(last.fd)]] = idx]

\* by the handler of c itself or by a functor, after disableAll
RemoveChannel(c) ==
  /\ ~aborted /\ c \notin removed
  /\ index_[c] >= 0 /\ events_[c] = {}
  /\ c \notin DOMAIN active
  /\ removed' = removed \cup {c}
  /\ IF InMap(c) /\ IndexFits(c)
     THEN EraseAndSwap(c) /\ aborted' = aborted
     ELSE aborted' = TRUE /\ UNCHANGED <<pollfds_, index_, channels_>>
  /\ UNCHANGED <<events_, active>>

-----------------------------------------------------------------------------
\* ::poll and fillActiveChannels: of the pollfds with a descriptor, any may
\* have revents, out of the events asked for and the error conditions.
Poll ==
  /\ ~aborted /\ active = <<>>
  /\ \E Hit \in SUBSET {i \in 1 .. Len(pollfds_) : pollfds_[i].fd >= 0} :
       LET ch(i) == channels_[pollfds_[i].fd]
           Found(i) == /\ pollfds_[i].fd \in DOMAIN channels_
                       /\ fd_[ch(i)] = pollfds_[i].fd
       IN IF \A i \in Hit : Found(i)
          THEN /\ active' \in [{ch(i) : i \in Hit} ->
                               SUBSET (Events \cup Conditions) \ {{}}]
               /\ \A i \in Hit :
                    active'[ch(i)] \subseteq pollfds_[i].events \cup Conditions
               /\ aborted' = aborted
          ELSE aborted' = TRUE /\ active' = active
  /\ UNCHANGED <<pollfds_, channels_, index_, events_, removed>>

\* EventLoop::loop calls handleEvent; what the callbacks do are actions above.
HandleEvent(c) ==
  /\ ~aborted /\ c \in DOMAIN active
  /\ active' = Restrict(active, DOMAIN active \ {c})
  /\ UNCHANGED <<pollfds_, channels_, index_, events_, removed, aborted>>

Next ==
  \/ \E c \in Channels :
       \/ EnableReading(c) \/ EnableWriting(c) \/ DisableWriting(c)
       \/ DisableAll(c) \/ RemoveChannel(c) \/ HandleEvent(c)
  \/ Poll

Spec == Init /\ [][Next]_vars

-----------------------------------------------------------------------------
Registered == {c \in Channels : index_[c] >= 0 /\ c \notin removed}

\* No assert of Poller.cc fails (lines 35, 37, 48, 58-63, 75-83) for owners
\* that keep to the protocol above, after any number of removals and swaps.
AssertsHold == ~aborted

\* The three structures agree: each registered channel is in the map and at
\* its index in the array, and the array and the map hold nothing else
\* (Poller.cc:53-56, 82-94).
IndexConsistent ==
  /\ \A c \in Registered : InMap(c) /\ IndexFits(c)
  /\ \A c, d \in Registered : c # d => index_[c] # index_[d]
  /\ \A fd \in DOMAIN channels_ :
       channels_[fd] \in Registered /\ fd_[channels_[fd]] = fd
  /\ \A i \in 1 .. Len(pollfds_) : \E c \in Registered : index_[c] = i - 1

\* Each poll reports to a channel only what its pollfd asked for, or an error
\* condition, and never to a channel that is removed or ignored: the report of
\* a descriptor does not reach its previous or its next owner
\* (Poller.cc:29-42).
ReportsReachOwner ==
  [][\A c \in Channels :
       c \in DOMAIN active' \ DOMAIN active =>
         /\ c \in Registered /\ events_[c] # {}
         /\ active'[c] \subseteq events_[c] \cup Conditions]_vars

\* Readme.md:73 says updateChannel gives ::poll the channel's events_, and that
\* ::poll ignores the descriptor if the channel is interested in nothing.  A
\* channel that enables reading or writing again is still ignored in the code:
\* nothing puts fd back after Poller.cc:67.
InterestPolled ==
  \A c \in Registered : events_[c] # {} => pollfds_[index_[c] + 1].fd >= 0
=============================================================================
