----------------------------- MODULE MCKeepAlive -----------------------------
EXTENDS KeepAlive
=============================================================================
