----------------------------- MODULE MCTcpClient -----------------------------
\* Small instances of TcpClient for TLC: threads are model values.
EXTENDS TcpClient
=============================================================================
