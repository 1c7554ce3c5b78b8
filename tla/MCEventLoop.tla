---------------------------- MODULE MCEventLoop ----------------------------
\* Small instances of EventLoop for TLC: threads and functors are model values.
EXTENDS EventLoop
=============================================================================
