--------------------------- MODULE MCPlayerSession ---------------------------
EXTENDS PlayerSession

CONSTANTS a, b, c

(* c is listed in the attempt order but not registered with the proxy. *)
MCServers    == {a, b, c}
MCRegistered == {a, b}
MCForcedHostChoices == {<<>>, <<a, b>>}
MCAttemptOrders     == {<<a, c, b>>}
=============================================================================
