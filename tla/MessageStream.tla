---------------------------- MODULE MessageStream ----------------------------
(***************************************************************************)
(* What the codec promises to the two programs at the ends of a            *)
(* connection: the messages one sends reach the other one by one, in       *)
(* order, each to the callback registered for its type, up to the first    *)
(* thing on the stream that the receiver refuses, and nothing after it.    *)
(***************************************************************************)
EXTENDS Naturals, Sequences

CONSTANTS
  Refused,       \* what is sent in place of a message and cannot be taken
  Callback(_)    \* the callback a message belongs to

VARIABLES
  sent,      \* the messages sent
  got,       \* the messages delivered, each with the callback that ran
  refusing   \* the receiver has given up

vars == <<sent, got, refusing>>

Next1 == sent[Len(got) + 1]

Init == sent = << >> /\ got = << >> /\ refusing = FALSE

Send == /\ Len(sent') = Len(sent) + 1 /\ SubSeq(sent', 1, Len(sent)) = sent
        /\ UNCHANGED <<got, refusing>>

Deliver ==
  /\ ~refusing /\ Len(got) < Len(sent) /\ Next1 # Refused
  /\ got' = Append(got, [message |-> Next1, to |-> Callback(Next1)])
  /\ UNCHANGED <<sent, refusing>>

Refuse ==
  /\ ~refusing /\ Len(got) < Len(sent) /\ Next1 = Refused
  /\ refusing' = TRUE
  /\ UNCHANGED <<sent, got>>

Next == Send \/ Deliver \/ Refuse

\* In the end nothing waits to be delivered.
Answered == refusing \/ Len(got) = Len(sent)

Spec == Init /\ [][Next]_vars /\ []<>Answered
=============================================================================
