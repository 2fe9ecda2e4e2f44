--------------------------- MODULE RegistryOwner ---------------------------
(***************************************************************************)
(* The registry seen by its owner: a history variable remembers, per       *)
(* module, the last instruction the device acknowledged.  It records what  *)
(* was said, not what was stored, so it survives resets and image changes; *)
(* an erased NVS partition is a new device and forgets it.                 *)
(***************************************************************************)
EXTENDS Registry

VARIABLE owner     \* Module -> "none" | "on" | "off"

ownerVars == <<build, phase, enabled, desired, bound, nvsOn, nvsKnown, report, res, owner>>

OwnerInit == Init /\ owner = [m \in Module |-> "none"]

\* An acknowledged enable is "on"; a module the owner let force take down, or
\* an acknowledged disable, is "off".  A start that failed settles nothing.
Told(m) ==
  [j \in Module |->
     IF j = m
     THEN IF res'.ok THEN (IF res'.call = "enable" THEN "on" ELSE "off")
          ELSE IF res'.code \in {"EENABLE", "EDISABLE"} THEN "none" ELSE owner[j]
     ELSE IF j \in res'.stopped \cup res'.failed THEN "off" ELSE owner[j]]

OwnerNext ==
  \/ /\ \E nvsUp \in BOOLEAN :
          /\ BindUsb(nvsUp)
          /\ owner' = IF nvsUp THEN owner ELSE [m \in Module |-> "none"]
  \/ /\ \/ \E w \in NvsOutcome : Restore(w)
        \/ \E w \in NvsOutcome : RecordKnown(w)
        \/ \E b \in Build : Reset(b)
     /\ UNCHANGED owner
  \/ \E m \in Module, w \in NvsOutcome :
       /\ \/ \E force \in BOOLEAN : Enable(m, force, w)
          \/ Disable(m, w)
       /\ owner' = Told(m)

OwnerSpec == OwnerInit /\ [][OwnerNext]_ownerVars

-----------------------------------------------------------------------------

\* The boot honours the owner: what was turned off is not brought up, what was
\* turned on is wanted again (modset.h, the three-way rule), across crashes
\* between the two flash writes and across image changes.
BootHonoursOwner ==
  phase = "replayed" =>
    \A m \in build \ Essential :
      /\ owner[m] = "off" => m \notin enabled
      /\ owner[m] = "on" => m \in desired

=============================================================================
