------------------------------ MODULE Passphrase ------------------------------
(***************************************************************************)
(* The access point's passphrase (firmware/src/mod_http.cpp): two NVS      *)
(* keys, the value and where it came from, written one after the other;    *)
(* the copy in RAM; the key on the air. An enable loads or mints, `psk     *)
(* set` persists, re-keys the radio and, if the radio will not have it,    *)
(* puts the old key back in both places.                                   *)
(*                                                                         *)
(* All of it runs on one task. Every NVS write and every start of the      *)
(* radio may fail, and the power may go between any two of them.           *)
(***************************************************************************)
EXTENDS Naturals

CONSTANTS
  OwnerKeys,    \* passphrases an owner types
  MintedKeys    \* passphrases makePsk() draws

None == 0

Keys == OwnerKeys \cup MintedKeys

ASSUME KeysAssumption == Keys \subseteq Nat \ {None}

VARIABLES
  nvs,     \* the two NVS keys: value (None: absent or not legal), owner-set
  ram,     \* psk_ and pskSet_
  on,      \* the module is enabled
  air,     \* the passphrase the radio runs on; None when apUp_ is false
  step,      \* the step of enable() or of setPassphrase() that is next
  fresh,   \* its argument, or the key that was minted
  told,    \* the last answer of `psk set` since the enable
  drifted  \* history: an answer since then said that NVS and RAM may differ

pskVars == <<nvs, ram, on, air, step, fresh, told, drifted>>

Credential == [key : Keys \cup {None}, set : BOOLEAN]

Blank == [key |-> None, set |-> FALSE]

Go(next) == step' = next

Answer(what) ==
  /\ Go("idle") /\ told' = what /\ fresh' = None
  /\ drifted' = (drifted \/ what \in {"ENVS", "unreverted"})

-----------------------------------------------------------------------------
(* enable() and disable().                                                 *)

\* loadOrCreateCredentials(), as far as the draws: a legal stored value is
\* used as it is, anything else is replaced by a mint that must be stored. A
\* draw that fails refuses to start.
Load ==
  /\ ~on /\ step = "idle"
  /\ told' = "nothing" /\ drifted' = FALSE
  /\ \/ ram' = Blank /\ UNCHANGED <<step, fresh>>
     \/ /\ nvs.key # None
        /\ ram' = nvs /\ Go("start") /\ UNCHANGED fresh
     \/ /\ nvs.key = None
        /\ \E k \in MintedKeys : ram' = [key |-> k, set |-> FALSE] /\ fresh' = k
        /\ Go("mintKey")
  /\ UNCHANGED <<nvs, on, air>>

\* An enable that fails leaves the module off.
EnableFails ==
  /\ step \in {"mintKey", "mintSet", "start"}
  /\ Go("idle") /\ fresh' = None
  /\ UNCHANGED <<nvs, ram, on, air, told, drifted>>

MintKey ==
  /\ step = "mintKey" /\ Go("mintSet")
  /\ nvs' = [nvs EXCEPT !.key = fresh]
  /\ UNCHANGED <<ram, on, air, fresh, told, drifted>>

MintSet ==
  /\ step = "mintSet" /\ Go("start") /\ fresh' = None
  /\ nvs' = [nvs EXCEPT !.set = FALSE]
  /\ UNCHANGED <<ram, on, air, told, drifted>>

StartUp ==
  /\ step = "start" /\ Go("idle")
  /\ on' = TRUE /\ air' = ram.key
  /\ UNCHANGED <<nvs, ram, fresh, told, drifted>>

\* teardownNow(): the secrets leave RAM.
Teardown ==
  /\ on /\ step = "idle"
  /\ on' = FALSE /\ air' = None /\ ram' = Blank
  /\ told' = "nothing" /\ drifted' = FALSE
  /\ UNCHANGED <<nvs, step, fresh>>

-----------------------------------------------------------------------------
(* psk set: setPassphrase().                                               *)

\* What is live and already the owner's is answered at once.
Ask(k) ==
  /\ on /\ step = "idle"
  /\ IF k = ram.key /\ ram.set
     THEN Answer("ok")
     ELSE Go("key") /\ fresh' = k /\ UNCHANGED <<told, drifted>>
  /\ UNCHANGED <<nvs, ram, on, air>>

\* A value that is not 8..63 printable characters is refused before any of it.
Refuse ==
  /\ on /\ step = "idle"
  /\ told' = "EARGS"
  /\ UNCHANGED <<nvs, ram, on, air, step, fresh, drifted>>

\* persistPsk() before the radio is touched.
PersistKey ==
  /\ step = "key" /\ Go("set")
  /\ nvs' = [nvs EXCEPT !.key = fresh]
  /\ UNCHANGED <<ram, on, air, fresh, told, drifted>>

PersistFails ==
  /\ step \in {"key", "set"}
  /\ Answer("ENVS")
  /\ UNCHANGED <<nvs, ram, on, air>>

\* The flag lands. The same key only changes its flag in RAM; with the radio
\* down there is nothing to restart; else the stations are thrown off.
PersistSet ==
  /\ step = "set"
  /\ nvs' = [nvs EXCEPT !.set = TRUE]
  /\ IF fresh = ram.key \/ air = None
     THEN /\ ram' = [key |-> fresh, set |-> TRUE]
          /\ Answer("ok") /\ UNCHANGED air
     ELSE /\ air' = None /\ Go("restart")
          /\ UNCHANGED <<ram, fresh, told, drifted>>
  /\ UNCHANGED on

Rekey(up) ==
  /\ step = "restart"
  /\ IF up
     THEN air' = fresh /\ ram' = [key |-> fresh, set |-> TRUE] /\ Answer("ok")
     ELSE Go("back") /\ UNCHANGED <<air, ram, fresh, told, drifted>>
  /\ UNCHANGED <<nvs, on>>

\* The radio refused: the old key goes back on the air, if it will, ...
RekeyBack(up) ==
  /\ step = "back" /\ Go("backKey")
  /\ air' = IF up THEN ram.key ELSE None
  /\ UNCHANGED <<nvs, ram, on, fresh, told, drifted>>

\* ... and into NVS, value then flag.
BackKey ==
  /\ step = "backKey" /\ Go("backSet")
  /\ nvs' = [nvs EXCEPT !.key = ram.key]
  /\ UNCHANGED <<ram, on, air, fresh, told, drifted>>

BackSet ==
  /\ step = "backSet"
  /\ nvs' = [nvs EXCEPT !.set = ram.set]
  /\ Answer(IF air = None THEN "down" ELSE "reverted")
  /\ UNCHANGED <<ram, on, air>>

\* A revert that does not look whether it landed.
BackFailsUnsaid ==
  /\ step \in {"backKey", "backSet"}
  /\ Answer("reverted")
  /\ UNCHANGED <<nvs, ram, on, air>>

BackFails ==
  /\ step \in {"backKey", "backSet"}
  /\ Answer("unreverted")
  /\ UNCHANGED <<nvs, ram, on, air>>

-----------------------------------------------------------------------------
\* The power goes.
Crash ==
  /\ ram' = Blank /\ on' = FALSE /\ air' = None
  /\ step' = "idle" /\ fresh' = None /\ told' = "nothing" /\ drifted' = FALSE
  /\ UNCHANGED nvs

PskInit ==
  /\ nvs \in {c \in Credential : c.key \in OwnerKeys => c.set}
  /\ ram = Blank /\ on = FALSE /\ air = None
  /\ step = "idle" /\ fresh = None /\ told = "nothing" /\ drifted = FALSE

Enabling == Load \/ EnableFails \/ MintKey \/ MintSet \/ StartUp

Setting ==
  \/ PersistKey \/ PersistFails \/ PersistSet \/ BackKey \/ BackSet \/ BackFails
  \/ \E up \in BOOLEAN : Rekey(up) \/ RekeyBack(up)

PskNext ==
  \/ Enabling \/ Teardown \/ Refuse \/ Crash \/ Setting
  \/ \E k \in OwnerKeys : Ask(k)

PskSpec == PskInit /\ [][PskNext]_pskVars /\ WF_pskVars(Setting)

-----------------------------------------------------------------------------
PskTypeOK ==
  /\ nvs \in Credential /\ ram \in Credential
  /\ on \in BOOLEAN /\ drifted \in BOOLEAN
  /\ air \in Keys \cup {None} /\ fresh \in Keys \cup {None}
  /\ step \in {"idle", "mintKey", "mintSet", "start", "key", "set", "restart", "back", "backKey", "backSet"}
  /\ told \in {"nothing", "ok", "EARGS", "ENVS", "down", "reverted", "unreverted"}

\* The radio never runs on a passphrase other than the one the module
\* reports, through every failure and revert of a re-key.
AirIsReported == air # None => air = ram.key

\* A device that runs on a passphrase its next boot will not use has said so:
\* some answer since the enable told the owner that a write failed.
DriftIsReported == on /\ step = "idle" /\ nvs.key # ram.key => drifted

\* mod_http.cpp:3664: success must not be reported when a half of the
\* credential did not land, "because the value would revert at the next boot".
SuccessPersists == step = "idle" /\ told = "ok" => nvs.key = ram.key

=============================================================================
