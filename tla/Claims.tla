------------------------------- MODULE Claims -------------------------------
(***************************************************************************)
(* Resource claims and the arbitration rule (firmware/src/claims.h).       *)
(*                                                                         *)
(* A module holds, per resource, a claim of mode "none", "shared" or       *)
(* "exclusive".  Two modules may run together iff their modes agree on     *)
(* every resource: reader-writer semantics.  The code walks the resources  *)
(* in order to name the first conflict; which one it names is wording, so  *)
(* only the existence of a conflict is kept here.                          *)
(***************************************************************************)
CONSTANT Resource      \* RES_USB, RES_SD, RES_WIFI, RES_BLE, RES_LCD, RES_LED

Mode == {"none", "shared", "exclusive"}

ClaimSet == [Resource -> Mode]

ModesCompatible(a, b) ==
  \/ a = "none"
  \/ b = "none"
  \/ a = "shared" /\ b = "shared"

\* firstConflict(a, b) == RES_COUNT
Coexist(a, b) == \A r \in Resource : ModesCompatible(a[r], b[r])

\* Claims::claim(r1, m1) and Claims::claim(r1, m1, r2, m2)
Claim(modes) ==
  [r \in Resource |-> IF r \in DOMAIN modes THEN modes[r] ELSE "none"]
=============================================================================
