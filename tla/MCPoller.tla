------------------------------ MODULE MCPoller ------------------------------
\* Four channels on three descriptors, one of them 0: c4 gets the descriptor
\* of c1 once c1 is removed.
EXTENDS Poller, FiniteSets
CONSTANTS c1, c2, c3, c4

MCChannels == {c1, c2, c3, c4}
MCFd == [c \in MCChannels |-> CASE c \in {c1, c4} -> 0 [] c = c2 -> 3 [] c = c3 -> 7]

\* Bound: a poll may report several channels, and such a report is checked, but
\* TLC goes on only from reports of one: handlers are inert in this model.
OneReport == Cardinality(DOMAIN active) <= 1
=============================================================================
