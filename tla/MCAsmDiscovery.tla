--------------------------- MODULE MCAsmDiscovery ---------------------------
(* Instances of AsmDiscovery. *)
EXTENDS AsmDiscovery, TLC

CONSTANTS j1, e1, e2, w1, root, www, ip
=============================================================================
