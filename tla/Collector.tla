------------------------------ MODULE Collector ------------------------------
(***************************************************************************)
(* The median of numbers spread over several servers: the collector        *)
(* (src/protobuf/collector.cc) asks each sorter (sorter.cc) for its count, *)
(* minimum and maximum, then looks for the median by bisection (kth.h),    *)
(* asking in every round how many numbers are smaller than a guess and how *)
(* many are the same.  Its main thread makes the calls and waits on a      *)
(* latch; its loop, in another thread, runs the closures of the answers.   *)
(* Another thread may call other methods through the same channels, and    *)
(* another client may have a sorter generate new numbers.                  *)
(*                                                                         *)
(* An int64 has Width bits here.  CountDownLatch (external) is a counter   *)
(* that the main thread waits to be zero.                                  *)
(***************************************************************************)
EXTENDS Rpc, TLC

CONSTANTS
  main, other,     \* the threads
  Sorters,         \* the channels in the order of sorters_
  Datasets,        \* what data_ of a sorter may be: sorted sequences
  Width,           \* bits of an int64
  MaxSteps,        \* rounds getKth allows itself, 100 in the code
  OtherCalls,      \* bound: channels and calls, one of which the other thread makes
  MaxDisturbances  \* bound: connections lost and calls of Generate together

ASSUME CollectorAssumption ==
  /\ Threads = {main, other} /\ main # other
  /\ Sorters \in Seq(Channels)
  /\ Channels = ToSet(Sorters) /\ Len(Sorters) = Cardinality(Channels)
  /\ Width \in Nat \ {0} /\ MaxSteps \in Nat /\ MaxDisturbances \in Nat
  /\ \A o \in OtherCalls : o.channel \in Channels /\ o.call.thread = other

PowerOfTwo[n \in Nat] == IF n = 0 THEN 1 ELSE 2 * PowerOfTwo[n - 1]
kMax == PowerOfTwo[Width - 1] - 1
kMin == -PowerOfTwo[Width - 1]
uint64(x) == x % PowerOfTwo[Width]
int64(x) == ((x - kMin) % PowerOfTwo[Width]) + kMin

\* Sorters serve Query and Search and sort their numbers; the rounds allowed are
\* more than the bits, 100 and 64 in the code.
ASSUME SorterAssumption ==
  /\ "Sorter" \in DOMAIN Services /\ {"Query", "Search"} \subseteq Services["Sorter"]
  /\ \A d \in Datasets : /\ d \in Seq(kMin .. kMax)
                         /\ \A i, j \in DOMAIN d : i <= j => d[i] <= d[j]
  /\ Width < MaxSteps

VARIABLES
  data,        \* data_ of each sorter
  connecting,  \* clients whose connectLatch_ is not counted down yet
  pc,          \* where the main thread is
  round,       \* what it asks in this round: Query or Search
  todo,        \* sorters to call in this round
  latch,       \* the count of *latch_
  result,      \* result_
  sums,        \* smaller_ and same_
  search,      \* getKth: min, max, guess, steps
  outcome,     \* the result reported, or how the program ended
  others,      \* the calls the other thread may still make
  generates    \* calls of Generate so far

mainVars == <<pc, round, todo, latch, result, sums, search, outcome>>
vars == <<rpcVars, data, connecting, mainVars, others, generates>>

(***************************************************************************)
(* SorterImpl.                                                             *)
(***************************************************************************)
\* How many of the numbers of d are among these.
Count(d, numbers) == Cardinality({i \in DOMAIN d : d[i] \in numbers})

\* Query reads data_[0] and data_.back() of an empty vector too, whatever
\* that gives; the collector does not look at them when the count is zero.
QueryAnswer(d) ==
  [count |-> Len(d), sum |-> FoldSeq(+, 0, d),
   min |-> IF d = << >> THEN 0 ELSE d[1],
   max |-> IF d = << >> THEN 0 ELSE d[Len(d)]]

\* lower_bound and upper_bound on the sorted numbers.
SearchAnswer(d, guess) ==
  [smaller |-> Count(d, kMin .. guess - 1),
   same    |-> Count(d, {guess})]

EmptyAnswer(method) ==
  IF method = "Query" THEN [count |-> 0, sum |-> 0, min |-> 0, max |-> 0]
  ELSE [smaller |-> 0, same |-> 0]

\* A sorter takes the next request: Query and Search answer before they return.
Serve(c) ==
  /\ toServer[c] # << >>
  /\ LET call == Head(toServer[c]).call IN
     \/ ServeError(c, EmptyAnswer(call.method))
     \/ /\ call.service = "Sorter"
        /\ ServeNow(c, IF call.method = "Query" THEN QueryAnswer(data[c])
                       ELSE SearchAnswer(data[c], call.arg))
     \/ /\ call.service # "Sorter"
        /\ ServeLater(c)
  /\ UNCHANGED <<data, connecting, mainVars, others, generates>>

RunDone(c) ==
  /\ \E m \in serving[c] : DoneCallback(c, m, EmptyAnswer(m.call.method))
  /\ UNCHANGED <<data, connecting, mainVars, others, generates>>

\* doGenerate for a client other than the collector.
Generate(c) ==
  /\ drops + generates < MaxDisturbances
  /\ generates' = generates + 1
  /\ \E d \in Datasets : data' = [data EXCEPT ![c] = d]
  /\ UNCHANGED <<rpcVars, connecting, mainVars, others>>

(***************************************************************************)
(* The collector's loop.                                                   *)
(***************************************************************************)
\* RcpClient::onConnection; TcpClient does not retry, so this comes once.
OnConnection(c) ==
  /\ c \in connecting
  /\ connecting' = connecting \ {c}
  /\ latch' = latch - 1
  /\ SetConnection(c)
  /\ UNCHANGED <<data, pc, round, todo, result, sums, search, outcome, others,
                 generates>>

Smaller(a, b) == IF a < b THEN a ELSE b
Larger(a, b) == IF a > b THEN a ELSE b

\* Mutant of QueryDone: a sorter without numbers is not counted.
QueryDoneCountsInside(reps) ==
  /\ result' = [count |-> result.count + reps.count,
                sum   |-> result.sum + reps.sum,
                min   |-> IF reps.count > 0 THEN Smaller(reps.min, result.min)
                          ELSE result.min,
                max   |-> IF reps.count > 0 THEN Larger(reps.max, result.max)
                          ELSE result.max]
  /\ latch' = IF reps.count > 0 THEN latch - 1 ELSE latch
  /\ UNCHANGED sums

QueryDone(reps) ==
  /\ result' = [count |-> result.count + reps.count,
                sum   |-> result.sum + reps.sum,
                min   |-> IF reps.count > 0 THEN Smaller(reps.min, result.min)
                          ELSE result.min,
                max   |-> IF reps.count > 0 THEN Larger(reps.max, result.max)
                          ELSE result.max]
  /\ latch' = latch - 1
  /\ UNCHANGED sums

SearchDone(reps) ==
  /\ sums' = [smaller |-> sums.smaller + reps.smaller,
              same    |-> sums.same + reps.same]
  /\ latch' = latch - 1
  /\ UNCHANGED result

OnAnswer(c) ==
  /\ Receive(c)
  /\ LET reps  == Head(toClient[c]).response
         calls == {call \in Closures(c) : call.thread = main}
     IN  \/ /\ \E call \in calls : call.method = "Query"
            /\ QueryDone(reps)
         \/ /\ \E call \in calls : call.method = "Search"
            /\ SearchDone(reps)
         \/ /\ calls = {}
            /\ UNCHANGED <<result, sums, latch>>
  /\ UNCHANGED <<data, connecting, pc, round, todo, search, outcome, others,
                 generates>>

Lose(c) ==
  /\ drops + generates < MaxDisturbances
  /\ Drop(c)
  /\ UNCHANGED <<data, connecting, mainVars, others, generates>>

(***************************************************************************)
(* The threads that call.                                                  *)
(***************************************************************************)
InCallMethod(t) ==
  /\ Enter(t) \/ SendRequest(t)
  /\ UNCHANGED <<data, connecting, mainVars, others, generates>>

\* The other thread starts when all channels have their connection.
OtherCall ==
  /\ pc # "connect"
  /\ \E o \in others : CallMethod(other, o.channel, o.call)
  /\ others' = {}
  /\ UNCHANGED <<data, connecting, mainVars, generates>>

\* The next call of getStats or search.
MainCall ==
  /\ pc = "call" /\ todo # << >>
  /\ CallMethod(main, Head(todo),
                [thread |-> main, service |-> "Sorter", method |-> round,
                 arg |-> IF round = "Search" THEN search.guess ELSE 0,
                 valid |-> TRUE])
  /\ todo' = Tail(todo)
  /\ UNCHANGED <<data, connecting, pc, round, latch, result, sums, search,
                 outcome, others, generates>>

\* All are called: latch_->wait().
MainWaits ==
  /\ pc = "call" /\ todo = << >> /\ calling[main] = Idle
  /\ pc' = "wait"
  /\ UNCHANGED <<rpcVars, data, connecting, round, todo, latch, result, sums,
                 search, outcome, others, generates>>

\* Mutant of StartRound: smaller_ and same_ go on from the last round.
StartRoundKeepsSums(method) ==
  /\ pc' = "call" /\ round' = method /\ todo' = Sorters
  /\ latch' = Len(Sorters)
  /\ UNCHANGED sums

\* The beginning of getStats or search: new latch, sums cleared.
StartRound(method) ==
  /\ pc' = "call" /\ round' = method /\ todo' = Sorters
  /\ latch' = Len(Sorters)
  /\ sums' = [smaller |-> 0, same |-> 0]

End(how) == /\ pc' = "end" /\ outcome' = how
            /\ UNCHANGED <<round, todo, latch, sums>>

\* connect() returns, run() starts getStats.
Connected ==
  /\ pc = "connect" /\ latch = 0
  /\ StartRound("Query")
  /\ UNCHANGED <<rpcVars, data, connecting, result, search, outcome, others,
                 generates>>

\* Which of the numbers is the median; getKth's k.
Kth == (result.count + 1) \div 2

\* getStats has returned: no numbers, or the first guess, which is the maximum.
StatsKnown ==
  /\ pc = "wait" /\ round = "Query" /\ latch = 0
  /\ search' = [min |-> result.min, max |-> result.max,
                guess |-> result.max, steps |-> 0]
  /\ \/ result.count <= 0 /\ End("noMedian")
     \/ result.count > 0 /\ result.min > result.max /\ End("notFound")
     \/ /\ result.count > 0 /\ result.min <= result.max
        /\ StartRound("Search") /\ UNCHANGED outcome
  /\ UNCHANGED <<rpcVars, data, connecting, result, others, generates>>

\* Mutant of Middle: half the sum, which overflows.
MiddleOfSum(min, max) == int64(min + max) \div 2

\* The next guess, of the width of uint64_t in between.
Middle(min, max) == int64(min + uint64(max - min) \div 2)

\* getKth between two rounds: the range and the guess after the answers to the
\* last guess.
Narrow(smaller, same) ==
  LET s   == search
      min == IF smaller + same < Kth THEN int64(s.guess + 1) ELSE s.min
      max == IF smaller + same < Kth THEN s.max ELSE s.guess
  IN  [min |-> min, max |-> max, guess |-> Middle(min, max), steps |-> s.steps + 1]

\* Mutant of Verdict: a guess with enough numbers up to it is taken.
VerdictAtMost(smaller, same, next) ==
  IF search.steps + 1 > MaxSteps THEN "notFound"
  ELSE IF smaller + same >= Kth THEN "found"
  ELSE IF next.guess \notin next.min .. next.max THEN "assert"
  ELSE "none"

\* Whether getKth ends after this round, in the code's order.  An empty range
\* has no guess.  The code's last case, no improvement, cannot happen: when
\* neither smaller + same < k nor smaller >= k, the guess is the k-th.
Verdict(smaller, same, next) ==
  IF search.steps + 1 > MaxSteps THEN "notFound"
  ELSE IF smaller < Kth /\ smaller + same >= Kth THEN "found"
  ELSE IF next.guess \notin next.min .. next.max THEN "assert"
  ELSE "none"

\* search has returned.
GuessJudged ==
  /\ pc = "wait" /\ round = "Search" /\ latch = 0
  /\ LET next    == Narrow(sums.smaller, sums.same)
         verdict == Verdict(sums.smaller, sums.same, next)
     IN  IF verdict = "none"
         THEN search' = next /\ StartRound("Search") /\ UNCHANGED outcome
         ELSE search' = [search EXCEPT !.steps = @ + 1] /\ End(verdict)
  /\ UNCHANGED <<rpcVars, data, connecting, result, others, generates>>

Init ==
  /\ RpcInit
  /\ data \in [Channels -> Datasets]
  /\ connecting = Channels
  /\ pc = "connect" /\ round = "Query" /\ todo = << >>
  /\ latch = Len(Sorters)
  /\ result = [count |-> 0, sum |-> 0, min |-> kMax, max |-> kMin]
  /\ sums = [smaller |-> 0, same |-> 0]
  /\ search = [min |-> 0, max |-> 0, guess |-> 0, steps |-> 0]
  /\ outcome = "none"
  /\ others = OtherCalls /\ generates = 0

\* The program has ended, or waits for an answer that was lost.
Stopped ==
  /\ pc = "end" \/ drops > 0
  /\ UNCHANGED vars

MainStep == MainCall \/ MainWaits \/ Connected \/ StatsKnown \/ GuessJudged
            \/ InCallMethod(main)

Next ==
  \/ MainStep
  \/ InCallMethod(other)
  \/ OtherCall
  \/ \E c \in Channels : \/ OnConnection(c) \/ OnAnswer(c) \/ Serve(c)
                         \/ RunDone(c) \/ Lose(c) \/ Generate(c)
  \/ Stopped

\* Both threads of the collector and the sorters' loops go on, and the
\* connections are made; nothing else is promised.
Spec ==
  /\ Init /\ [][Next]_vars
  /\ WF_vars(MainStep) /\ WF_vars(InCallMethod(other))
  /\ \A c \in Channels : /\ WF_vars(OnConnection(c)) /\ WF_vars(OnAnswer(c))
                         /\ WF_vars(Serve(c))

-----------------------------------------------------------------------------
\* How many of the numbers of these sorters, and of all, are among the given ones.
HowMany(cs, numbers) ==
  Cardinality(UNION {{c} \X {i \in DOMAIN data[c] : data[c][i] \in numbers} : c \in cs})
AllNumbers(numbers) == HowMany(Channels, numbers)
Undisturbed == generates = 0

\* When a latch lets the main thread go on, the answers of this round and of
\* no other are in the sums, each sorter's once, however the closures ran
\* between the calls (collector.cc 98-150).
RoundExact ==
  pc = "wait" /\ latch = 0 /\ Undisturbed =>
    IF round = "Query"
    THEN /\ result.count = AllNumbers(kMin .. kMax)
         /\ AllNumbers((kMin .. kMax) \ (result.min .. result.max)) = 0
    ELSE /\ sums.smaller = AllNumbers(kMin .. search.guess - 1)
         /\ sums.same = AllNumbers({search.guess})

\* The median reported is the median: with the numbers in order, the one at
\* place (count + 1) / 2 (kth.h 30-33, collector.cc 85-92).
MedianCorrect ==
  outcome = "found" /\ Undisturbed =>
    LET n == AllNumbers(kMin .. kMax) IN
    /\ AllNumbers(kMin .. search.guess - 1) < (n + 1) \div 2
    /\ AllNumbers(kMin .. search.guess) >= (n + 1) \div 2

\* While nobody generates new numbers the search never fails: the median
\* stays in the range, the guess in the range too, which is the assert of
\* kth.h:44, and Width + 1 rounds are enough, far fewer than the 100 allowed.
SearchNeverFails ==
  Undisturbed =>
    /\ outcome \notin {"notFound", "assert"}
    /\ search.steps <= Width + 1

\* The collector ends with a result unless it loses a connection, which leaves
\* it waiting for good: no answer comes, and no error either.
CollectorEnds == <>(pc = "end" \/ drops > 0)
=============================================================================
