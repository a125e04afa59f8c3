----------------------------- MODULE MCSessions -----------------------------
(* Instances of Sessions.  The tabs are alike. *)
EXTENDS Sessions, TLC

CONSTANTS b1, b2, t1, t2, t3

SymTabs == Permutations({b1, b2}) \cup Permutations({t1, t2, t3})
=============================================================================
