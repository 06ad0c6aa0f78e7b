-------------------------- MODULE MCSwitchCeremony --------------------------
EXTENDS SwitchCeremony

(* The Nether and the Overworld: handleBackendJoinGame only tells         *)
(* dimension 0 from the others, so one other dimension is enough.       *)
MCDims == {-1, 0}
=============================================================================
