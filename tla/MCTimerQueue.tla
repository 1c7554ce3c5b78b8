---------------------------- MODULE MCTimerQueue ----------------------------
\* Small instances of TimerQueue for TLC.  One tick stands for the second from
\* which runEvery repeats: an interval of 1 does not, one of 2 does.
EXTENDS TimerQueue

MCDelays == {-1, 2}
MCInterval == {2}
MCIntervals == {1, 2}
=============================================================================
