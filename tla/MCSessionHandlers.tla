-------------------------- MODULE MCSessionHandlers --------------------------
EXTENDS SessionHandlers
=============================================================================
