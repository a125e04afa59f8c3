---------------------------- MODULE MCMobileApps ----------------------------
(* Instances of MobileApps: three rows, so that racing uploads of one APK  *)
(* may insert more rows than there are sessions.                            *)
EXTENDS MobileApps
CONSTANTS d1, a1, a2, a3, u1, u2, r1, r2
Digests1 == {d1}
Apps3 == {a1, a2, a3}
Uploads2 == {u1, u2}
Runners2 == {r1, r2}
=============================================================================
