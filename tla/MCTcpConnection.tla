--------------------------- MODULE MCTcpConnection ---------------------------
\* Small instances of TcpConnection for TLC: threads and messages are model
\* values.
EXTENDS TcpConnection
=============================================================================
