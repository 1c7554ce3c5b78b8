-------------------------- MODULE MCEventLoopThread --------------------------
\* Small instances of EventLoopThread for TLC; each cfg sets UsersQuit.
EXTENDS EventLoopThread
=============================================================================
