----------------------------- MODULE MCShadowCopy -----------------------------
(* Two callers of passes of one row, and two ids: either may be late to the   *)
(* other, and a replay takes three passes, one of them disturbed.     *)
EXTENDS ShadowCopy
=============================================================================
