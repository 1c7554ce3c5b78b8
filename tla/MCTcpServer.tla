----------------------------- MODULE MCTcpServer -----------------------------
\* Small instances of TcpServer for TLC: 0, 1, ... MaxThreads loops in the pool.
EXTENDS TcpServer
=============================================================================
