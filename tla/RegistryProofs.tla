--------------------------- MODULE RegistryProofs ---------------------------
(***************************************************************************)
(* Safety of the registry for every table of modules, every set of images  *)
(* and every outcome of the flash writes.                                  *)
(***************************************************************************)
EXTENDS RegistryOwner, RegistryRefinement, FiniteSetTheorems, TLAPS

\* Arbitration does not depend on which of two modules asks
\* (claims.h, modesCompatible).
LEMMA CoexistsSymmetric ==
  ASSUME NEW a, NEW b
  PROVE  Coexists(a, b) <=> Coexists(b, a)
BY DEF Coexists, C!Coexist, C!ModesCompatible

\* A boot wants only what the image registers, and every essential module.
LEMMA WantAtBootBounds ==
  ASSUME NEW on, NEW known, NEW b
  PROVE  /\ WantAtBoot(on, known, b) \subseteq b
         /\ Essential \cap b \subseteq WantAtBoot(on, known, b)
BY DEF WantAtBoot

\* The two verdicts on a write and on a read are verdicts.
LEMMA VerdictType ==
  ASSUME NEW w, NEW S, NEW key, NEW b
  PROVE  Seen(w, S) \in BOOLEAN /\ TooLong(key, b) \in BOOLEAN
BY DEF Seen, TooLong

\* The replay's two flags make a report.
LEMMA ReportType ==
  ASSUME NEW long \in BOOLEAN, NEW ok \in BOOLEAN
  PROVE  [tooLong |-> long, writeOk |-> ok] \in [tooLong : BOOLEAN, writeOk : BOOLEAN]
OBVIOUS

\* A result made by the code's designated updates is a result.
LEMMA NoCallType == NoCall \in ResultType
BY NoKeyAssumption DEF NoCall, ResultType, Codes

\* So is the result every call starts from.
LEMMA ResultOfCall ==
  ASSUME NEW call \in {"enable", "disable"}, NEW m \in Module, NEW force \in BOOLEAN
  PROVE  Result(call, m, force) \in ResultType
BY NoCallType DEF Result, ResultType, NoCall

\* Boolean and code fields may be set freely.
LEMMA ResultUpdate ==
  ASSUME NEW r \in ResultType, NEW code \in Codes,
         NEW changed \in BOOLEAN, NEW live \in BOOLEAN, NEW pending \in BOOLEAN
  PROVE  [r EXCEPT !.changed = changed, !.enabledAfter = live,
                   !.pending = pending, !.code = code] \in ResultType
BY DEF ResultType

\* A refusal changes the result and nothing else.
LEMMA RefusalType ==
  ASSUME TypeOK, NEW r \in ResultType, NEW code \in Codes,
         Refuse([r EXCEPT !.ok = FALSE, !.code = code])
  PROVE  TypeOK'
<1>1. [r EXCEPT !.ok = FALSE, !.code = code] \in ResultType
  BY DEF ResultType
<1> QED
  BY <1>1 DEF Refuse, TypeOK

-----------------------------------------------------------------------------

\* A device straight from the flasher.
LEMMA TypeInit == Init => TypeOK
BY NoCallType DEF Init, TypeOK, Absent, Phase

\* persist() leaves well-typed flash and report behind it.
LEMMA PersistType ==
  ASSUME TypeOK, desired' \in SUBSET build, NEW w, Persist(w, desired')
  PROVE  /\ nvsOn' \in (SUBSET Module) \cup {Absent}
         /\ report' \in [tooLong : BOOLEAN, writeOk : BOOLEAN]
<1>1. build \subseteq Module
  BY BuildAssumption DEF TypeOK
<1>2. nvsOn' \in (SUBSET Module) \cup {Absent}
  BY <1>1 DEF TypeOK, Persist, Stored
<1>3. report' \in [tooLong : BOOLEAN, writeOk : BOOLEAN]
  BY VerdictType DEF TypeOK, Persist
<1> QED
  BY <1>2, <1>3

\* No call, boot step, image change or failed write breaks the types.
LEMMA TypeStep == TypeOK /\ [Next]_vars => TypeOK'
<1> SUFFICES ASSUME TypeOK, [Next]_vars
             PROVE  TypeOK'
  OBVIOUS
<1> USE BuildAssumption DEF TypeOK, Phase
<1>1. ASSUME NEW nvsUp \in BOOLEAN, BindUsb(nvsUp)
      PROVE  TypeOK'
  BY <1>1 DEF BindUsb
<1>2. ASSUME NEW w \in NvsOutcome, Restore(w)
      PROVE  TypeOK'
  <2> DEFINE want == WantAtBoot(nvsOn, nvsKnown, build)
  <2>1. want \subseteq build /\ build \subseteq Module
    BY WantAtBootBounds
  <2>2. desired' = want /\ enabled' \subseteq want
    BY <1>2 DEF Restore
  <2>3. nvsOn' \in (SUBSET Module) \cup {Absent}
    BY <1>2, <2>1 DEF Restore, Stored
  <2>4. report' \in [tooLong : BOOLEAN, writeOk : BOOLEAN]
    <3>1. TooLong(nvsOn, build) \in BOOLEAN /\ Seen(w, want) \in BOOLEAN
      BY VerdictType
    <3>2. \/ report' = [tooLong |-> TooLong(nvsOn, build), writeOk |-> Seen(w, want)]
          \/ report' = [tooLong |-> TooLong(nvsOn, build), writeOk |-> TRUE]
      BY <1>2 DEF Restore
    <3> QED
      BY <3>1, <3>2, ReportType, Zenon
  <2> QED
    BY <1>2, <2>1, <2>2, <2>3, <2>4 DEF Restore
<1>3. ASSUME NEW w \in NvsOutcome, RecordKnown(w)
      PROVE  TypeOK'
  <2>1. nvsKnown' \in (SUBSET Module) \cup {Absent}
    BY <1>3 DEF RecordKnown, Stored
  <2>2. report' \in [tooLong : BOOLEAN, writeOk : BOOLEAN]
    BY <1>3, VerdictType DEF RecordKnown
  <2> QED
    BY <1>3, <2>1, <2>2 DEF RecordKnown
<1>4. ASSUME NEW b \in Build, Reset(b)
      PROVE  TypeOK'
  BY <1>4, NoCallType DEF Reset, flash
<1>5. ASSUME NEW m \in Module, NEW force \in BOOLEAN, NEW w \in NvsOutcome,
             Enable(m, force, w)
      PROVE  TypeOK'
  <2>1. CASE EnableUnknown(m)
    BY <1>5, <2>1, ResultOfCall DEF Enable, EnableUnknown, Refuse, ResultType, Codes
  <2>2. CASE m \in build /\ EnableNoop(m)
    BY <1>5, <2>2, ResultOfCall DEF Enable, EnableNoop, Refuse, ResultType
  <2>3. CASE m \in build /\ EnableArm(m, w)
    <3>1. desired' \in SUBSET build /\ Persist(w, desired')
      BY <2>3 DEF EnableArm
    <3>2. /\ nvsOn' \in (SUBSET Module) \cup {Absent}
          /\ report' \in [tooLong : BOOLEAN, writeOk : BOOLEAN]
      BY <3>1, PersistType
    <3>3. res' \in ResultType
      <4>1. Result("enable", m, FALSE) \in ResultType
        BY ResultOfCall
      <4>2. /\ (m \notin desired) \in BOOLEAN
            /\ (m \in enabled) \in BOOLEAN
            /\ (m \notin enabled) \in BOOLEAN
            /\ (IF m \in enabled THEN "" ELSE "EREBOOT") \in Codes
        BY DEF Codes
      <4> QED
        BY <2>3, <4>1, <4>2, ResultUpdate, Zenon DEF EnableArm
    <3>4. UNCHANGED <<build, phase, enabled, bound, nvsKnown>>
      BY <2>3 DEF EnableArm
    <3> QED
      BY <3>1, <3>2, <3>3, <3>4
  <2>4. CASE m \in build /\ EnableBlocked(m, force)
    <3>1. Result("enable", m, force) \in ResultType
      BY ResultOfCall
    <3>2. \E code \in Codes :
            Refuse([Result("enable", m, force) EXCEPT !.ok = FALSE, !.code = code])
      BY <2>4 DEF EnableBlocked, Codes
    <3> QED
      BY <3>1, <3>2, RefusalType
  <2>5. ASSUME NEW f \in Flaky, m \in build, EnableAborted(m, force, f, w)
        PROVE  TypeOK'
    <3> DEFINE stopped == {j \in BlockersOf(m) : Rank[j] < Rank[f]}
    <3>1. /\ enabled' \in SUBSET build
          /\ desired' \in SUBSET build /\ Persist(w, desired')
      BY <2>5 DEF EnableAborted
    <3>2. /\ nvsOn' \in (SUBSET Module) \cup {Absent}
          /\ report' \in [tooLong : BOOLEAN, writeOk : BOOLEAN]
      BY <3>1, PersistType
    <3>3. res' \in ResultType
      <4>1. Result("enable", m, force) \in ResultType
        BY ResultOfCall
      <4>2. stopped \in SUBSET Module /\ {f} \in SUBSET Module
        BY DEF BlockersOf
      <4>3. res' = [Result("enable", m, force) EXCEPT
                      !.ok = FALSE, !.code = "EDISABLE",
                      !.stopped = stopped, !.failed = {f}]
        BY <2>5 DEF EnableAborted
      <4> HIDE DEF stopped
      <4> QED
        BY <4>1, <4>2, <4>3 DEF ResultType, Codes
    <3>4. UNCHANGED <<build, phase, bound, nvsKnown>>
      BY <2>5 DEF EnableAborted
    <3> QED
      BY <3>1, <3>2, <3>3, <3>4
  <2>6. ASSUME NEW started \in BOOLEAN, m \in build, EnableStart(m, force, started, w)
        PROVE  TypeOK'
    <3>1. /\ enabled' \in SUBSET build
          /\ desired' \in SUBSET build /\ Persist(w, desired')
      BY <2>6 DEF EnableStart
    <3>2. /\ nvsOn' \in (SUBSET Module) \cup {Absent}
          /\ report' \in [tooLong : BOOLEAN, writeOk : BOOLEAN]
      BY <3>1, PersistType
    <3>3. res' \in ResultType
      <4>1. Result("enable", m, force) \in ResultType
        BY ResultOfCall
      <4>2. BlockersOf(m) \in SUBSET Module
        BY DEF BlockersOf
      <4>3. PICK code \in Codes :
              res' = [Result("enable", m, force) EXCEPT
                        !.ok = started, !.changed = started,
                        !.enabledAfter = started, !.code = code,
                        !.stopped = BlockersOf(m)]
        BY <2>6 DEF EnableStart, Codes
      <4> QED
        BY <4>1, <4>2, <4>3 DEF ResultType
    <3>4. UNCHANGED <<build, phase, bound, nvsKnown>>
      BY <2>6 DEF EnableStart
    <3> QED
      BY <3>1, <3>2, <3>3, <3>4
  <2> QED
    BY <1>5, <2>1, <2>2, <2>3, <2>4, <2>5, <2>6 DEF Enable
<1>6. ASSUME NEW m \in Module, NEW w \in NvsOutcome, Disable(m, w)
      PROVE  TypeOK'
  <2>0. Result("disable", m, FALSE) \in ResultType
    BY ResultOfCall
  <2>1. CASE DisableRefused(m)
    <3>1. (m \in enabled) \in BOOLEAN
      OBVIOUS
    <3>2. PICK code \in Codes, live \in BOOLEAN :
            Refuse([Result("disable", m, FALSE) EXCEPT
                      !.ok = FALSE, !.code = code, !.enabledAfter = live])
      <4>1. Result("disable", m, FALSE).enabledAfter = FALSE
        BY DEF Result, NoCall
      <4>2. [Result("disable", m, FALSE) EXCEPT !.ok = FALSE, !.code = "ENOMOD"]
              = [Result("disable", m, FALSE) EXCEPT
                   !.ok = FALSE, !.code = "ENOMOD", !.enabledAfter = FALSE]
        BY <2>0, <4>1 DEF ResultType
      <4> QED
        BY <2>1, <3>1, <4>2 DEF DisableRefused, Codes
    <3> QED
      BY <2>0, <3>2 DEF Refuse, ResultType
  <2>2. CASE m \in build /\ DisableWithdraw(m, w)
    <3>1. desired' \in SUBSET build /\ Persist(w, desired')
      BY <2>2 DEF DisableWithdraw
    <3>2. /\ nvsOn' \in (SUBSET Module) \cup {Absent}
          /\ report' \in [tooLong : BOOLEAN, writeOk : BOOLEAN]
      BY <3>1, PersistType
    <3>3. res' \in ResultType
      <4>1. /\ (m \in desired) \in BOOLEAN
            /\ (m \in enabled) \in BOOLEAN
            /\ (IF m \in enabled THEN "EREBOOT" ELSE "") \in Codes
        BY DEF Codes
      <4> QED
        BY <2>0, <2>2, <4>1, ResultUpdate, Zenon DEF DisableWithdraw
    <3>4. UNCHANGED <<build, phase, enabled, bound, nvsKnown>>
      BY <2>2 DEF DisableWithdraw
    <3> QED
      BY <3>1, <3>2, <3>3, <3>4
  <2>3. ASSUME NEW clean \in BOOLEAN, m \in build, DisableStop(m, clean, w)
        PROVE  TypeOK'
    <3>1. /\ enabled' \in SUBSET build
          /\ desired' \in SUBSET build /\ Persist(w, desired')
      BY <2>3 DEF DisableStop
    <3>2. /\ nvsOn' \in (SUBSET Module) \cup {Absent}
          /\ report' \in [tooLong : BOOLEAN, writeOk : BOOLEAN]
      BY <3>1, PersistType
    <3>3. res' \in ResultType
      <4>1. PICK code \in Codes, down \in SUBSET Module, bad \in SUBSET Module :
              res' = [Result("disable", m, FALSE) EXCEPT
                        !.changed = TRUE, !.ok = clean, !.code = code,
                        !.stopped = down, !.failed = bad]
        <5>1. /\ (IF clean THEN "" ELSE "EDISABLE") \in Codes
              /\ (IF clean THEN {m} ELSE {}) \in SUBSET Module
              /\ (IF clean THEN {} ELSE {m}) \in SUBSET Module
          BY DEF Codes
        <5> QED
          BY <2>3, <5>1, Zenon DEF DisableStop
      <4> QED
        BY <2>0, <4>1 DEF ResultType
    <3>4. UNCHANGED <<build, phase, bound, nvsKnown>>
      BY <2>3 DEF DisableStop
    <3> QED
      BY <3>1, <3>2, <3>3, <3>4
  <2> QED
    BY <1>6, <2>1, <2>2, <2>3 DEF Disable
<1>7. CASE UNCHANGED vars
  BY <1>7 DEF vars
<1> QED
  BY <1>1, <1>2, <1>3, <1>4, <1>5, <1>6, <1>7 DEF Next

\* The type invariant holds of every behaviour (registry.cpp).
THEOREM TypeCorrect == Spec => []TypeOK
BY TypeInit, TypeStep, PTL DEF Spec

-----------------------------------------------------------------------------
(* No two live modules conflict.                                           *)

\* The replay of restoreFromNvs() lets nothing conflicting up.
LEMMA ReplayCompatible ==
  ASSUME NEW want \in SUBSET Module, NEW startable,
         NEW live \in SUBSET want, Replays(live, want, startable)
  PROVE  \A a, b \in live : a # b => Coexists(a, b)
<1> SUFFICES ASSUME NEW a \in live, NEW b \in live, a # b
             PROVE  Coexists(a, b)
  OBVIOUS
<1>1. /\ Rank[a] \in Nat /\ Rank[b] \in Nat
      /\ Rank[a] # Rank[b]
  BY RankAssumption
<1>2. CASE Rank[a] < Rank[b]
  <2>1. Coexists(b, a)
    BY <1>2 DEF Replays
  <2> QED
    BY <2>1, CoexistsSymmetric
<1>3. CASE Rank[b] < Rank[a]
  BY <1>3 DEF Replays
<1> QED
  BY <1>1, <1>2, <1>3

\* No step starts a module next to one it conflicts with.
LEMMA ConflictStep == TypeOK /\ NoConflict /\ [Next]_vars => NoConflict'
<1> SUFFICES ASSUME TypeOK, NoConflict, [Next]_vars
             PROVE  NoConflict'
  OBVIOUS
<1> USE DEF NoConflict
<1>1. ASSUME enabled' \subseteq enabled
      PROVE  NoConflict'
  BY <1>1 DEF Coexists
<1>2. ASSUME NEW w \in NvsOutcome, Restore(w)
      PROVE  NoConflict'
  <2> DEFINE want == WantAtBoot(nvsOn, nvsKnown, build)
  <2>1. want \in SUBSET Module
    BY WantAtBootBounds, BuildAssumption DEF TypeOK
  <2>2. PICK startable \in Startable(want) : \E live \in SUBSET want :
          Replays(live, want, startable) /\ enabled' = live
    BY <1>2 DEF Restore
  <2> QED
    BY <2>1, <2>2, ReplayCompatible
<1>3. ASSUME NEW m \in Module, NEW force \in BOOLEAN, NEW w \in NvsOutcome,
             Enable(m, force, w)
      PROVE  NoConflict'
  <2>2. CASE EnableStart(m, force, TRUE, w)
    <3>1. enabled' = (enabled \ BlockersOf(m)) \cup {m}
      BY <2>2 DEF EnableStart
    <3>2. \A j \in enabled' \ {m} : j \in enabled /\ Coexists(m, j)
      BY <3>1 DEF BlockersOf
    <3>3. \A j \in enabled' \ {m} : Coexists(j, m)
      BY <3>2, CoexistsSymmetric
    <3> QED
      BY <3>2, <3>3
  <2>3. CASE EnableStart(m, force, FALSE, w)
    BY <2>3, <1>1 DEF EnableStart
  <2>4. CASE \E f \in Flaky : EnableAborted(m, force, f, w)
    BY <2>4, <1>1 DEF EnableAborted
  <2>5. CASE EnableUnknown(m) \/ EnableNoop(m) \/ EnableBlocked(m, force)
    BY <2>5, <1>1 DEF EnableUnknown, EnableNoop, EnableBlocked, Refuse
  <2>6. CASE EnableArm(m, w)
    BY <2>6, <1>1 DEF EnableArm
  <2> QED
    BY <1>3, <2>2, <2>3, <2>4, <2>5, <2>6 DEF Enable
<1>4. ASSUME NEW m \in Module, NEW w \in NvsOutcome, Disable(m, w)
      PROVE  NoConflict'
  BY <1>4, <1>1 DEF Disable, DisableRefused, Refuse, DisableWithdraw, DisableStop
<1>5. CASE \/ \E nvsUp \in BOOLEAN : BindUsb(nvsUp)
           \/ \E w \in NvsOutcome : RecordKnown(w)
           \/ \E b \in Build : Reset(b)
           \/ UNCHANGED vars
  BY <1>5, <1>1 DEF BindUsb, RecordKnown, Reset, vars
<1> QED
  BY <1>2, <1>3, <1>4, <1>5 DEF Next

\* Whatever is enabled, forced, fails, boots or is replaced, two live modules
\* never hold incompatible claims (claims.h, the arbitration rule).
THEOREM NeverConflicting == Spec => []NoConflict
<1>1. Init => NoConflict
  BY DEF Init, NoConflict
<1> QED
  BY <1>1, TypeCorrect, ConflictStep, PTL DEF Spec

-----------------------------------------------------------------------------
(* A live module is in the persisted intent.                               *)

\* No step stops wanting a module it leaves running.
LEMMA IntendedStep == TypeOK /\ LiveIsIntended /\ [Next]_vars => LiveIsIntended'
<1> SUFFICES ASSUME TypeOK, LiveIsIntended, [Next]_vars
             PROVE  LiveIsIntended'
  OBVIOUS
<1> USE DEF LiveIsIntended, Boot
<1>1. CASE UNCHANGED <<enabled, desired>> \/ enabled' = {}
  BY <1>1
<1>2. ASSUME NEW w \in NvsOutcome, Restore(w)
      PROVE  LiveIsIntended'
  BY <1>2 DEF Restore
<1>3. ASSUME NEW m \in Module, NEW force \in BOOLEAN, NEW w \in NvsOutcome,
             Enable(m, force, w)
      PROVE  LiveIsIntended'
  <2>1. CASE EnableUnknown(m) \/ EnableNoop(m) \/ EnableBlocked(m, force)
    BY <2>1, <1>1 DEF EnableUnknown, EnableNoop, EnableBlocked, Refuse
  <2>2. CASE EnableArm(m, w)
    BY <2>2 DEF EnableArm
  <2>3. CASE \E f \in Flaky : EnableAborted(m, force, f, w)
    BY <2>3 DEF EnableAborted
  <2>4. CASE \E started \in BOOLEAN : EnableStart(m, force, started, w)
    BY <2>4 DEF EnableStart
  <2> QED
    BY <1>3, <2>1, <2>2, <2>3, <2>4 DEF Enable
<1>4. ASSUME NEW m \in Module, NEW w \in NvsOutcome, Disable(m, w)
      PROVE  LiveIsIntended'
  <2>1. CASE DisableRefused(m)
    BY <2>1, <1>1 DEF DisableRefused, Refuse
  <2>2. CASE DisableWithdraw(m, w)
    BY <2>2 DEF DisableWithdraw
  <2>3. CASE \E clean \in BOOLEAN : DisableStop(m, clean, w)
    BY <2>3 DEF DisableStop
  <2> QED
    BY <1>4, <2>1, <2>2, <2>3 DEF Disable
<1>5. CASE \/ \E nvsUp \in BOOLEAN : BindUsb(nvsUp)
           \/ \E w \in NvsOutcome : RecordKnown(w)
           \/ \E b \in Build : Reset(b)
           \/ UNCHANGED vars
  BY <1>5, <1>1 DEF BindUsb, RecordKnown, Reset, vars
<1> QED
  BY <1>2, <1>3, <1>4, <1>5 DEF Next

\* No error path leaves a module running that the next boot will not want
\* (startModule and stopModule move both flags; registry.cpp).
THEOREM LiveStaysIntended == Spec => []LiveIsIntended
<1>1. Init => LiveIsIntended
  BY DEF Init, LiveIsIntended
<1> QED
  BY <1>1, TypeCorrect, IntendedStep, PTL DEF Spec

-----------------------------------------------------------------------------
(* The control link.                                                       *)

\* Before the replay the essential interfaces are bound, whatever NVS says.
EssentialBound ==
  phase = "bound" => {m \in build \cap Essential : Boot(m)} \subseteq bound

\* The replay starts the bound control link; no later call stops it.
LEMMA EssentialStep ==
  TypeOK /\ EssentialBound /\ EssentialLive /\ [Next]_vars
    => EssentialBound' /\ EssentialLive'
<1> SUFFICES ASSUME TypeOK, EssentialBound, EssentialLive, [Next]_vars
             PROVE  EssentialBound' /\ EssentialLive'
  OBVIOUS
<1> USE DEF EssentialBound, EssentialLive
<1>0. Essential \cap Flaky = {}
  BY BuildAssumption DEF Essential
<1>1. ASSUME NEW nvsUp \in BOOLEAN, BindUsb(nvsUp)
      PROVE  EssentialBound' /\ EssentialLive'
  BY <1>1 DEF BindUsb
<1>2. ASSUME NEW w \in NvsOutcome, Restore(w)
      PROVE  EssentialBound' /\ EssentialLive'
  <2> DEFINE want == WantAtBoot(nvsOn, nvsKnown, build)
  <2>1. want \subseteq Module /\ Essential \cap build \subseteq want
    BY WantAtBootBounds, BuildAssumption DEF TypeOK
  <2>2. PICK startable \in Startable(want) : \E live \in SUBSET want :
          Replays(live, want, startable) /\ enabled' = live
    BY <1>2 DEF Restore
  <2>3. phase = "bound" /\ phase' = "replayed" /\ UNCHANGED build
    BY <1>2 DEF Restore
  <2>4. ASSUME NEW e \in Essential \cap build
        PROVE  e \in enabled'
    <3>1. e \in want /\ e \notin Flaky /\ (Boot(e) => e \in bound)
      BY <1>0, <2>1, <2>3
    <3>2. e \in startable
      BY <3>1, <2>2 DEF Startable
    <3>3. \A j \in want : Rank[j] < Rank[e] => Coexists(e, j)
      BY <2>1, EssentialAssumption
    <3> HIDE DEF want
    <3> QED
      BY <2>2, <3>1, <3>2, <3>3 DEF Replays
  <2> QED
    BY <2>3, <2>4
<1>3. ASSUME NEW w \in NvsOutcome, RecordKnown(w)
      PROVE  EssentialBound' /\ EssentialLive'
  BY <1>3 DEF RecordKnown
<1>4. ASSUME NEW b \in Build, Reset(b)
      PROVE  EssentialBound' /\ EssentialLive'
  BY <1>4 DEF Reset
<1>5. ASSUME NEW m \in Module, NEW force \in BOOLEAN, NEW w \in NvsOutcome,
             Enable(m, force, w)
      PROVE  EssentialBound' /\ EssentialLive'
  <2>1. CASE \/ EnableUnknown(m) \/ EnableNoop(m) \/ EnableBlocked(m, force)
             \/ EnableArm(m, w)
    BY <1>5, <2>1 DEF Enable, EnableUnknown, EnableNoop, EnableBlocked, Refuse, EnableArm
  <2>2. CASE \E f \in Flaky : EnableAborted(m, force, f, w)
    BY <1>0, <1>5, <2>2 DEF Enable, EnableAborted, MayStop
  <2>3. CASE \E started \in BOOLEAN : EnableStart(m, force, started, w)
    BY <1>0, <1>5, <2>3 DEF Enable, EnableStart, MayStop
  <2> QED
    BY <1>5, <2>1, <2>2, <2>3 DEF Enable
<1>6. ASSUME NEW m \in Module, NEW w \in NvsOutcome, Disable(m, w)
      PROVE  EssentialBound' /\ EssentialLive'
  BY <1>6 DEF Disable, DisableRefused, Refuse, DisableWithdraw, DisableStop
<1>7. CASE UNCHANGED vars
  BY <1>7 DEF vars
<1> QED
  BY <1>1, <1>2, <1>3, <1>4, <1>5, <1>6, <1>7 DEF Next

\* The control link is up from the end of the replay to the next reset, for
\* every flash content and every outcome of every callback (registry.cpp,
\* the essential branches of restoreFromNvs, enable and disable).
THEOREM ControlLinkKept == Spec => []EssentialLive
<1>1. Init => EssentialBound /\ EssentialLive
  BY DEF Init, EssentialBound, EssentialLive
<1> QED
  BY <1>1, TypeCorrect, EssentialStep, PTL DEF Spec

-----------------------------------------------------------------------------
(* What one call may do.                                                   *)

\* One call takes down only what conflicts with the module it names.
LEMMA BlockerStepHolds == TypeOK /\ [Next]_vars => [BlockerStep]_vars
<1> SUFFICES ASSUME [Next]_vars, phase = "up", phase' = "up",
                    NEW j \in enabled \ (enabled' \cup {res'.id})
             PROVE  /\ res'.call = "enable" /\ res'.force
                    /\ ~Coexists(j, res'.id)
  BY DEF BlockerStep
<1>1. \E m \in Module, force \in BOOLEAN, w \in NvsOutcome :
        \/ \E f \in Flaky : EnableAborted(m, force, f, w)
        \/ \E started \in BOOLEAN : EnableStart(m, force, started, w)
        \/ \E clean \in BOOLEAN : DisableStop(m, clean, w)
  BY DEF Next, BindUsb, Restore, RecordKnown, Reset, Enable, EnableUnknown,
         EnableNoop, EnableArm, EnableBlocked, Disable, DisableRefused,
         DisableWithdraw, Refuse, vars
<1>2. ASSUME NEW m \in Module, NEW force \in BOOLEAN, MayStop(m, force),
             res'.id = m, res'.call = "enable", res'.force = force,
             j \in BlockersOf(m)
      PROVE  /\ res'.call = "enable" /\ res'.force
             /\ ~Coexists(j, res'.id)
  BY <1>2, CoexistsSymmetric DEF MayStop, BlockersOf
<1>3. ASSUME NEW m \in Module, NEW force \in BOOLEAN, NEW w \in NvsOutcome,
             NEW f \in Flaky, EnableAborted(m, force, f, w)
      PROVE  /\ res'.call = "enable" /\ res'.force
             /\ ~Coexists(j, res'.id)
  <2>1. res'.id = m /\ res'.call = "enable" /\ res'.force = force
    BY <1>3 DEF EnableAborted, Result, NoCall
  <2> QED
    BY <1>2, <1>3, <2>1 DEF EnableAborted
<1>4. ASSUME NEW m \in Module, NEW force \in BOOLEAN, NEW w \in NvsOutcome,
             NEW started \in BOOLEAN, EnableStart(m, force, started, w)
      PROVE  /\ res'.call = "enable" /\ res'.force
             /\ ~Coexists(j, res'.id)
  <2>1. res'.id = m /\ res'.call = "enable" /\ res'.force = force
    BY <1>4 DEF EnableStart, Result, NoCall
  <2>2. j \in BlockersOf(m)
    BY <1>4, <2>1 DEF EnableStart
  <2> QED
    BY <1>2, <1>4, <2>1, <2>2 DEF EnableStart
<1>5. ASSUME NEW m \in Module, NEW w \in NvsOutcome,
             NEW clean \in BOOLEAN, DisableStop(m, clean, w)
      PROVE  FALSE
  BY <1>5 DEF DisableStop, Result, NoCall
<1> QED
  BY <1>1, <1>3, <1>4, <1>5

\* Force stops exactly what stands in the way, and only force does
\* (Registry::enable, the force loop).
THEOREM ForceIsExact == Spec => OnlyBlockersStopped
BY TypeCorrect, BlockerStepHolds, PTL DEF Spec, OnlyBlockersStopped

-----------------------------------------------------------------------------
(* What a call reports is what it did.                                     *)

\* A module that enable() arbitrates is down.
LEMMA ArbitratedIsDown ==
  ASSUME LiveIsIntended, NEW m, Arbitrates(m)
  PROVE  m \notin enabled
BY DEF LiveIsIntended, Arbitrates

\* The report of every branch of enable() and disable() fits what it did.
LEMMA AccurateStepHolds ==
  TypeOK /\ LiveIsIntended /\ [Next]_vars => [AccurateStep]_vars
<1> SUFFICES ASSUME LiveIsIntended, Next, phase = "up", phase' = "up",
                    res'.code # "ENOMOD"
             PROVE  /\ enabled \ enabled' = res'.stopped \cup res'.failed
                    /\ (res'.enabledAfter <=> res'.id \in enabled')
                    /\ (res'.changed /\ ~res'.pending)
                         => \/ ~(res'.id \in desired' <=> res'.id \in desired)
                            \/ ~(res'.id \in enabled' <=> res'.id \in enabled)
  BY DEF AccurateStep
<1> DEFINE Goal ==
      /\ enabled \ enabled' = res'.stopped \cup res'.failed
      /\ (res'.enabledAfter <=> res'.id \in enabled')
      /\ (res'.changed /\ ~res'.pending)
           => \/ ~(res'.id \in desired' <=> res'.id \in desired)
              \/ ~(res'.id \in enabled' <=> res'.id \in enabled)
<1>1. ASSUME NEW m \in Module, NEW force \in BOOLEAN, NEW w \in NvsOutcome,
             Enable(m, force, w)
      PROVE  Goal
  <2>1. CASE EnableUnknown(m) \/ EnableNoop(m)
    BY <2>1 DEF EnableUnknown, EnableNoop, Refuse, Result, NoCall
  <2>2. CASE EnableArm(m, w)
    BY <2>2 DEF EnableArm, Result, NoCall
  <2>3. CASE EnableBlocked(m, force)
    BY <2>3, ArbitratedIsDown DEF EnableBlocked, Refuse, Result, NoCall
  <2>4. ASSUME NEW f \in Flaky, EnableAborted(m, force, f, w)
        PROVE  Goal
    <3>1. BlockersOf(m) \subseteq enabled /\ f \in BlockersOf(m)
      BY <2>4 DEF EnableAborted, BlockersOf
    <3>2. m \notin enabled
      BY <2>4, ArbitratedIsDown DEF EnableAborted
    <3> QED
      BY <2>4, <3>1, <3>2 DEF EnableAborted, Result, NoCall
  <2>5. ASSUME NEW started \in BOOLEAN, EnableStart(m, force, started, w)
        PROVE  Goal
    <3>1. BlockersOf(m) \subseteq enabled \ {m}
      BY DEF BlockersOf
    <3>2. m \notin enabled
      BY <2>5, ArbitratedIsDown DEF EnableStart
    <3> QED
      BY <2>5, <3>1, <3>2 DEF EnableStart, Result, NoCall
  <2> QED
    BY <1>1, <2>1, <2>2, <2>3, <2>4, <2>5 DEF Enable
<1>2. ASSUME NEW m \in Module, NEW w \in NvsOutcome, Disable(m, w)
      PROVE  Goal
  <2>1. CASE DisableRefused(m)
    BY <2>1 DEF DisableRefused, Refuse, Result, NoCall
  <2>2. CASE DisableWithdraw(m, w)
    BY <2>2 DEF DisableWithdraw, Result, NoCall
  <2>3. ASSUME NEW clean \in BOOLEAN, DisableStop(m, clean, w)
        PROVE  Goal
    BY <2>3 DEF DisableStop, Result, NoCall
  <2> QED
    BY <1>2, <2>1, <2>2, <2>3 DEF Disable
<1> QED
  BY <1>1, <1>2 DEF Next, BindUsb, Restore, RecordKnown, Reset

\* The record a transport renders never has to be second-guessed: what went
\* down, whether the module is live, whether anything changed
\* (ModuleActionResult, registry.h).
THEOREM ResultsAreAccurate == Spec => ResultAccurate
<1>1. Spec => []LiveIsIntended
  BY LiveStaysIntended
<1> QED
  BY <1>1, TypeCorrect, AccurateStepHolds, PTL DEF Spec, ResultAccurate

-----------------------------------------------------------------------------
(* What is on flash is what was asked for.                                 *)

\* What a list on flash means for an image whose known set hides nothing.
Means(on, b) ==
  {m \in b : (IF on = Absent THEN Desc[m].dflt ELSE m \in on) \/ m \in Essential}

\* From the replay on, the essential modules are wanted, and a list whose writes
\* are reported good is readable and means the intent.
Wanted == phase \in {"replayed", "up"} => Essential \cap build \subseteq desired

Mirrored ==
  (phase \in {"replayed", "up"} /\ report.writeOk /\ ~report.tooLong)
    => ~TooLong(nvsOn, build) /\ desired = Means(nvsOn, build)

\* A list of an image's own modules fits that image's buffer.
LEMMA OwnListFits ==
  ASSUME NEW b \in Build, NEW S \in SUBSET b
  PROVE  ~TooLong(S, b)
<1>1. IsFiniteSet(b) /\ Cardinality(b) =< Cap[b] /\ Cap[b] \in Nat
  BY BuildAssumption
<1>2. IsFiniteSet(S) /\ Cardinality(S) =< Cardinality(b)
  BY <1>1, FS_Subset
<1>3. Cardinality(b) \in Nat /\ Cardinality(S) \in Nat
  BY <1>1, <1>2, FS_CardinalityType
<1> QED
  BY <1>1, <1>2, <1>3 DEF TooLong

\* A list that holds the essential modules is not the key's absence, a good
\* write of it was a write, and it means itself.
LEMMA GoodWrite ==
  ASSUME NEW b \in Build, NEW S \in SUBSET b, Essential \cap b \subseteq S,
         NEW w \in NvsOutcome, Seen(w, S), NEW old
  PROVE  /\ Stored(w, S, old) = S
         /\ ~TooLong(S, b)
         /\ Means(S, b) = S
<1>1. S # {} /\ S \subseteq Module
  BY EssentialAssumption, BuildAssumption
<1>2. S # Absent
  BY <1>1, NoKeyAssumption DEF Absent
<1> QED
  BY <1>1, <1>2, OwnListFits DEF Seen, Stored, Means

\* A call that changes the intent and keeps the essential modules keeps both.
LEMMA PersistMirrors ==
  ASSUME TypeOK, desired' \in SUBSET build, Essential \cap build \subseteq desired',
         NEW w \in NvsOutcome, Persist(w, desired'), UNCHANGED build
  PROVE  Wanted' /\ Mirrored'
<1>1. Wanted'
  BY DEF Wanted
<1>2. ASSUME report'.writeOk
      PROVE  nvsOn' = desired' /\ ~TooLong(nvsOn', build) /\ Means(nvsOn', build) = desired'
  <2>1. Seen(w, desired') /\ nvsOn' = Stored(w, desired', nvsOn) /\ build \in Build
    BY <1>2 DEF Persist, TypeOK
  <2> QED
    BY <2>1, GoodWrite
<1> QED
  BY <1>1, <1>2 DEF Mirrored

\* A call that leaves intent, list and report alone keeps both.
LEMMA QuietMirrors ==
  ASSUME Wanted, Mirrored, phase \in {"replayed", "up"},
         UNCHANGED <<build, desired, nvsOn>>,
         report'.tooLong = report.tooLong, report'.writeOk => report.writeOk
  PROVE  Wanted' /\ Mirrored'
BY DEF Wanted, Mirrored

\* With the new modules' defaults recorded, or nothing to record, the wanted set
\* of the replay is what the list it leaves on flash means.
LEMMA NothingNewMeans ==
  ASSUME NEW on, NEW known, NEW b, ~TooLong(on, b), Defaulted(on, known, b) = {}
  PROVE  WantAtBoot(on, known, b) = Means(on, b)
<1>1. CASE on = Absent
  BY <1>1 DEF WantAtBoot, Means
<1>2. CASE on # Absent
  <2>1. \A m \in b : (known # Absent /\ ~TooLong(known, b) /\ m \notin known /\ Desc[m].dflt)
                       => m \in on
    BY <1>2 DEF Defaulted
  <2> QED
    BY <1>2, <2>1 DEF WantAtBoot, Means
<1> QED
  BY <1>1, <1>2

\* No step lets flash and intent part with the report saying all is well.
LEMMA MirrorStep ==
  TypeOK /\ Wanted /\ Mirrored /\ [Next]_vars => Wanted' /\ Mirrored'
<1> SUFFICES ASSUME TypeOK, Wanted, Mirrored, [Next]_vars
             PROVE  Wanted' /\ Mirrored'
  OBVIOUS
<1>0. Essential \cap Flaky = {}
  BY BuildAssumption DEF Essential
<1>1. ASSUME NEW nvsUp \in BOOLEAN, BindUsb(nvsUp)
      PROVE  Wanted' /\ Mirrored'
  BY <1>1 DEF BindUsb, Wanted, Mirrored
<1>2. ASSUME NEW w \in NvsOutcome, Restore(w)
      PROVE  Wanted' /\ Mirrored'
  <2> DEFINE want == WantAtBoot(nvsOn, nvsKnown, build)
             long == TooLong(nvsOn, build)
  <2>1. want \in SUBSET build /\ Essential \cap build \subseteq want
    BY WantAtBootBounds
  <2>2. desired' = want /\ build' = build /\ build \in Build
    BY <1>2 DEF Restore, TypeOK
  <2>3. Wanted'
    BY <2>1, <2>2 DEF Wanted
  <2>4. CASE Defaulted(nvsOn, nvsKnown, build) # {} /\ ~long
    <3>1. /\ nvsOn' = Stored(w, want, nvsOn)
          /\ report'.writeOk = Seen(w, want)
      BY <1>2, <2>4 DEF Restore
    <3> HIDE DEF want
    <3> QED
      BY <2>1, <2>2, <2>3, <3>1, GoodWrite DEF Mirrored
  <2>5. CASE ~(Defaulted(nvsOn, nvsKnown, build) # {} /\ ~long)
    <3>1. nvsOn' = nvsOn /\ report'.tooLong = long
      BY <1>2, <2>5 DEF Restore
    <3>2. ~long => want = Means(nvsOn, build)
      BY <2>5, NothingNewMeans
    <3> HIDE DEF want
    <3> QED
      BY <2>2, <2>3, <3>1, <3>2 DEF Mirrored
  <2> QED
    BY <2>4, <2>5
<1>3. ASSUME NEW w \in NvsOutcome, RecordKnown(w)
      PROVE  Wanted' /\ Mirrored'
  <2>1. /\ report'.tooLong = report.tooLong
        /\ report'.writeOk => report.writeOk
    BY <1>3 DEF RecordKnown, TypeOK
  <2> QED
    BY <1>3, <2>1, QuietMirrors DEF RecordKnown
<1>4. ASSUME NEW b \in Build, Reset(b)
      PROVE  Wanted' /\ Mirrored'
  BY <1>4 DEF Reset, Wanted, Mirrored
<1>5. ASSUME NEW m \in Module, NEW force \in BOOLEAN, NEW w \in NvsOutcome,
             Enable(m, force, w)
      PROVE  Wanted' /\ Mirrored'
  <2>0. phase = "up" /\ Essential \cap build \subseteq desired
    BY <1>5 DEF Enable, Wanted
  <2>1. CASE EnableUnknown(m) \/ EnableNoop(m) \/ EnableBlocked(m, force)
    <3>1. UNCHANGED <<build, desired, nvsOn, report>>
      BY <2>1 DEF EnableUnknown, EnableNoop, EnableBlocked, Refuse
    <3> QED
      BY <2>0, <3>1, QuietMirrors
  <2>2. CASE m \in build /\ EnableArm(m, w)
    <3>1. /\ desired' \in SUBSET build /\ Essential \cap build \subseteq desired'
          /\ Persist(w, desired') /\ UNCHANGED build
      BY <2>0, <2>2 DEF EnableArm, TypeOK
    <3> QED
      BY <3>1, PersistMirrors
  <2>3. ASSUME NEW f \in Flaky, EnableAborted(m, force, f, w)
        PROVE  Wanted' /\ Mirrored'
    <3>1. BlockersOf(m) \cap Essential = {}
      BY <2>3 DEF EnableAborted, MayStop
    <3>2. /\ desired' \in SUBSET build /\ Essential \cap build \subseteq desired'
          /\ Persist(w, desired') /\ UNCHANGED build
      BY <1>0, <2>0, <2>3, <3>1 DEF EnableAborted, TypeOK
    <3> QED
      BY <3>2, PersistMirrors
  <2>4. ASSUME NEW started \in BOOLEAN, m \in build, EnableStart(m, force, started, w)
        PROVE  Wanted' /\ Mirrored'
    <3>1. BlockersOf(m) \cap Essential = {}
      BY <2>4 DEF EnableStart, MayStop
    <3>2. /\ desired' \in SUBSET build /\ Essential \cap build \subseteq desired'
          /\ Persist(w, desired') /\ UNCHANGED build
      BY <1>0, <2>0, <2>4, <3>1 DEF EnableStart, TypeOK
    <3> QED
      BY <3>2, PersistMirrors
  <2> QED
    BY <1>5, <2>1, <2>2, <2>3, <2>4 DEF Enable
<1>6. ASSUME NEW m \in Module, NEW w \in NvsOutcome, Disable(m, w)
      PROVE  Wanted' /\ Mirrored'
  <2>0. phase = "up" /\ Essential \cap build \subseteq desired
    BY <1>6 DEF Disable, Wanted
  <2>1. CASE DisableRefused(m)
    <3>1. UNCHANGED <<build, desired, nvsOn, report>>
      BY <2>1 DEF DisableRefused, Refuse
    <3> QED
      BY <2>0, <3>1, QuietMirrors
  <2>2. CASE m \notin Essential /\ (DisableWithdraw(m, w) \/ \E clean \in BOOLEAN : DisableStop(m, clean, w))
    <3>1. /\ desired' \in SUBSET build /\ Essential \cap build \subseteq desired'
          /\ Persist(w, desired') /\ UNCHANGED build
      BY <2>0, <2>2 DEF DisableWithdraw, DisableStop, TypeOK
    <3> QED
      BY <3>1, PersistMirrors
  <2> QED
    BY <1>6, <2>1, <2>2 DEF Disable
<1>7. CASE UNCHANGED vars
  BY <1>7 DEF vars, Wanted, Mirrored
<1> QED
  BY <1>1, <1>2, <1>3, <1>4, <1>5, <1>6, <1>7 DEF Next

\* An image whose own modules are the known ones, or none, adds no default.
LEMMA MirroredIsDurable == TypeOK /\ Mirrored => IntentDurable
<1> SUFFICES ASSUME TypeOK, Mirrored, phase = "up", report.writeOk, ~report.tooLong,
                    nvsKnown \in {Absent, build}
             PROVE  WantAtBoot(nvsOn, nvsKnown, build) = desired
  BY DEF IntentDurable
<1>1. ~TooLong(nvsOn, build) /\ desired = Means(nvsOn, build)
  BY DEF Mirrored
<1>2. Defaulted(nvsOn, nvsKnown, build) = {}
  BY <1>1 DEF Defaulted
<1> QED
  BY <1>1, <1>2, NothingNewMeans

\* No sequence of toggles, failed starts, boots, image changes and failed
\* writes loses or invents an enable behind a good report (persist(),
\* restoreFromNvs(), modset.h).
THEOREM IntentSurvives == Spec => []IntentDurable
<1>1. Init => Wanted /\ Mirrored
  BY DEF Init, Wanted, Mirrored
<1> QED
  BY <1>1, TypeCorrect, MirrorStep, MirroredIsDurable, PTL DEF Spec

-----------------------------------------------------------------------------
(* Flash that works, and images that only grow.                            *)

\* Flash that works, and images that only grow.
GoodFlash ==
  /\ NvsOutcome \subseteq {"ok"}
  /\ \A a, b \in Build : <<a, b>> \in Upgrade => a \subseteq b

\* The two keys speak of the running image, and together; nothing runs before
\* the replay, which leaves no new module's default unrecorded.
Paired ==
  /\ nvsOn # Absent => nvsOn \subseteq build /\ nvsKnown # Absent
  /\ nvsKnown # Absent => nvsKnown \subseteq build
  /\ report.writeOk /\ ~report.tooLong
  /\ phase = "up" => nvsKnown = build
  /\ phase \in {"off", "bound"} => enabled = {}
  /\ phase = "replayed" => WantAtBoot(nvsOn, nvsKnown, build) = desired

\* Both keys fit, and no image is mistaken for an absent key.
LEMMA PairedFits ==
  ASSUME TypeOK, Paired
  PROVE  /\ build \in Build /\ build \subseteq Module /\ build # Absent
         /\ ~TooLong(nvsOn, build) /\ ~TooLong(nvsKnown, build)
<1>1. build \in Build /\ build \subseteq Module
  BY BuildAssumption DEF TypeOK
<1>2. build # Absent
  BY <1>1, NoKeyAssumption DEF Absent
<1>3. ~TooLong(nvsOn, build) /\ ~TooLong(nvsKnown, build)
  BY <1>1, OwnListFits DEF Paired, TooLong
<1> QED
  BY <1>1, <1>2, <1>3

\* The replay writes what it wants, or nothing when no module is new.
LEMMA ReplayWrites ==
  ASSUME GoodFlash, TypeOK, Paired, NEW w \in NvsOutcome, Restore(w)
  PROVE  LET want == WantAtBoot(nvsOn, nvsKnown, build)
             new  == Defaulted(nvsOn, nvsKnown, build)
         IN  /\ want \in SUBSET build /\ want # Absent /\ ~TooLong(want, build)
             /\ desired' = want /\ enabled' \in SUBSET want
             /\ UNCHANGED <<build, nvsKnown>>
             /\ nvsOn' = IF new # {} THEN want ELSE nvsOn
             /\ report'.writeOk /\ ~report'.tooLong
             /\ WantAtBoot(nvsOn', nvsKnown, build) = want
<1> DEFINE want == WantAtBoot(nvsOn, nvsKnown, build)
           new  == Defaulted(nvsOn, nvsKnown, build)
<1>1. /\ build \in Build /\ build \subseteq Module /\ w = "ok"
      /\ ~TooLong(nvsOn, build) /\ ~TooLong(nvsKnown, build)
  BY PairedFits DEF GoodFlash
<1>2. want \in SUBSET build /\ Essential \cap build \subseteq want
  BY WantAtBootBounds
<1>3. want # Absent /\ ~TooLong(want, build)
  BY <1>1, <1>2, OwnListFits, NoKeyAssumption DEF Absent
<1>4. desired' = want /\ enabled' \in SUBSET want /\ UNCHANGED <<build, nvsKnown>>
  BY DEF Restore
<1>5. /\ nvsOn' = IF new # {} THEN want ELSE nvsOn
      /\ report'.writeOk /\ ~report'.tooLong
  <2> HIDE DEF want, new
  <2>1. Stored(w, want, nvsOn) = want /\ Seen(w, want) = TRUE
    BY <1>1 DEF Stored, Seen
  <2>2. TooLong(nvsOn, build) = FALSE
    BY <1>1, VerdictType
  <2>3. IF new # {}
        THEN /\ nvsOn' = Stored(w, want, nvsOn)
             /\ report' = [tooLong |-> TooLong(nvsOn, build), writeOk |-> Seen(w, want)]
        ELSE /\ nvsOn' = nvsOn
             /\ report' = [tooLong |-> TooLong(nvsOn, build), writeOk |-> TRUE]
    BY <1>1 DEF Restore, want, new
  <2>4. report' = [tooLong |-> FALSE, writeOk |-> TRUE]
    BY <2>1, <2>2, <2>3, Zenon
  <2> QED
    BY <2>1, <2>3, <2>4
<1>6. WantAtBoot(nvsOn', nvsKnown, build) = want
  <2>1. CASE new = {}
    BY <1>5, <2>1
  <2>2. CASE new # {}
    <3>1. nvsOn # Absent
      BY <2>2 DEF Defaulted
    <3>2. nvsOn' = want
      BY <1>5, <2>2
    <3>3. \A m \in build : (nvsKnown # Absent /\ m \notin nvsKnown /\ Desc[m].dflt) => m \in want
      BY <1>1, <3>1 DEF WantAtBoot
    <3>4. \A m \in build : m \in Essential => m \in want
      BY <1>2
    <3> HIDE DEF want
    <3> QED
      BY <1>1, <1>2, <1>3, <3>2, <3>3, <3>4 DEF WantAtBoot
  <2> QED
    BY <2>1, <2>2
<1> HIDE DEF want, new
<1>7. QED
  BY <1>2, <1>3, <1>4, <1>5, <1>6 DEF want, new

\* A call saves an intent of the image's modules and reports it good.
LEMMA CallSaves ==
  ASSUME GoodFlash, TypeOK, LiveIsIntended, Wanted, Paired, NEW m \in Module, NEW w \in NvsOutcome,
         (\E force \in BOOLEAN : Enable(m, force, w)) \/ Disable(m, w)
  PROVE  /\ phase = "up" /\ UNCHANGED <<build, phase, nvsKnown>>
         /\ report'.writeOk /\ ~report'.tooLong
         /\ \/ nvsOn' = nvsOn
            \/ nvsOn' = desired' /\ desired' \in SUBSET build
<1>1. w = "ok" /\ phase = "up"
  BY DEF GoodFlash, Enable, Disable
<1>2. ASSUME Persist(w, desired')
      PROVE  /\ nvsOn' = desired'
             /\ report'.writeOk /\ ~report'.tooLong
  BY <1>1, <1>2 DEF Persist, Stored, Seen, Paired, TypeOK
<1>3. ASSUME NEW force \in BOOLEAN, Enable(m, force, w)
      PROVE  /\ UNCHANGED <<build, phase, nvsKnown>>
             /\ \/ UNCHANGED <<nvsOn, report>>
                \/ Persist(w, desired') /\ desired' \in SUBSET build
  BY <1>3 DEF Enable, EnableUnknown, EnableNoop, EnableArm, EnableBlocked,
              EnableAborted, EnableStart, Refuse, TypeOK
<1>4. ASSUME Disable(m, w)
      PROVE  /\ UNCHANGED <<build, phase, nvsKnown>>
             /\ \/ UNCHANGED <<nvsOn, report>>
                \/ Persist(w, desired') /\ desired' \in SUBSET build
  BY <1>4 DEF Disable, DisableRefused, DisableWithdraw, DisableStop, Refuse, TypeOK
<1> QED
  BY <1>1, <1>2, <1>3, <1>4 DEF Paired

\* No boot, image change or call parts the two keys.
LEMMA PairedStep ==
  ASSUME GoodFlash, TypeOK, LiveIsIntended, Wanted, Mirrored, Paired, [Next]_vars
  PROVE  Paired'
<1>0. /\ build \in Build /\ build \subseteq Module /\ build # Absent
      /\ ~TooLong(nvsOn, build) /\ ~TooLong(nvsKnown, build)
  BY PairedFits
<1>1. ASSUME NEW nvsUp \in BOOLEAN, BindUsb(nvsUp)
      PROVE  Paired'
  BY <1>1 DEF BindUsb, Paired
<1>2. ASSUME NEW w \in NvsOutcome, Restore(w)
      PROVE  Paired'
  <2> DEFINE want == WantAtBoot(nvsOn, nvsKnown, build)
             new  == Defaulted(nvsOn, nvsKnown, build)
  <2>1. /\ want \in SUBSET build
        /\ desired' = want /\ UNCHANGED <<build, nvsKnown>>
        /\ nvsOn' = IF new # {} THEN want ELSE nvsOn
        /\ report'.writeOk /\ ~report'.tooLong
        /\ WantAtBoot(nvsOn', nvsKnown, build) = want
    BY <1>2, ReplayWrites
  <2>2. new # {} => nvsKnown # Absent
    BY DEF Defaulted
  <2>3. phase' = "replayed"
    BY <1>2 DEF Restore
  <2> HIDE DEF want, new
  <2> QED
    BY <2>1, <2>2, <2>3 DEF Paired
<1>3. ASSUME NEW w \in NvsOutcome, RecordKnown(w)
      PROVE  Paired'
  <2>1. w = "ok"
    BY DEF GoodFlash
  <2>2. nvsKnown' = build /\ UNCHANGED <<build, nvsOn>> /\ phase' = "up"
    BY <1>3, <2>1 DEF RecordKnown, Stored
  <2>3. report'.writeOk /\ ~report'.tooLong
    BY <1>3, <2>1 DEF RecordKnown, Seen, Paired, TypeOK
  <2> QED
    BY <1>0, <2>2, <2>3 DEF Paired
<1>4. ASSUME NEW b \in Build, Reset(b)
      PROVE  Paired'
  <2>1. build \subseteq b
    BY <1>4 DEF Reset, GoodFlash, TypeOK
  <2> QED
    BY <1>4, <2>1 DEF Reset, flash, Paired
<1>5. ASSUME NEW m \in Module, NEW w \in NvsOutcome,
             (\E force \in BOOLEAN : Enable(m, force, w)) \/ Disable(m, w)
      PROVE  Paired'
  BY <1>0, <1>5, CallSaves DEF Paired
<1>6. CASE UNCHANGED vars
  BY <1>6 DEF vars, Paired
<1> QED
  BY <1>1, <1>2, <1>3, <1>4, <1>5, <1>6 DEF Next

-----------------------------------------------------------------------------
(* What the owner said is what the next boot does.                         *)

\* What was said of m is what the two keys say of it.
Obeyed(m) ==
  /\ owner[m] # "none" => m \in build
  /\ owner[m] = "off" => /\ nvsOn # Absent /\ m \notin nvsOn
                         /\ nvsKnown # Absent /\ m \in nvsKnown
  /\ owner[m] = "on" => IF nvsOn = Absent THEN Desc[m].dflt ELSE m \in nvsOn

OwnerInv ==
  /\ owner \in [Module -> {"none", "on", "off"}]
  /\ phase = "replayed" => enabled \subseteq desired
  /\ \A m \in Module \ Essential : Obeyed(m)

\* A step of the owner's view is a step of the registry.
LEMMA OwnerStepIsStep == [OwnerNext]_ownerVars => [Next]_vars
<1>1. OwnerNext => Next
  BY DEF OwnerNext, Next
<1>2. UNCHANGED ownerVars => UNCHANGED vars
  BY DEF ownerVars, vars
<1> QED
  BY <1>1, <1>2

\* On a running device, what was said of m is what RAM says of it.
LEMMA ObeyedInRam ==
  ASSUME TypeOK, Mirrored, Paired, OwnerInv, phase \in {"replayed", "up"},
         NEW m \in Module \ Essential
  PROVE  /\ owner[m] = "off" => m \in build /\ m \notin desired
         /\ owner[m] = "on" => m \in build /\ m \in desired
<1>1. desired = Means(nvsOn, build) /\ Obeyed(m)
  BY DEF Mirrored, Paired, OwnerInv
<1> QED
  BY <1>1 DEF Means, Obeyed

\* A call that saved an intent in agreement with what it told the owner.
LEMMA SavedAsTold ==
  ASSUME TypeOK, Paired, OwnerInv, phase = "up", desired' \in SUBSET build,
         UNCHANGED <<build, phase, nvsKnown>>,
         NEW w \in {"ok"}, Persist(w, desired'), desired' # Absent,
         owner' \in [Module -> {"none", "on", "off"}],
         \A j \in Module \ Essential :
           /\ owner'[j] = "off" => j \in build /\ j \notin desired'
           /\ owner'[j] = "on" => j \in build /\ j \in desired'
  PROVE  OwnerInv'
<1>1. nvsOn' = desired'
  BY DEF Persist, Stored
<1>2. build # Absent /\ nvsKnown = build
  BY PairedFits DEF Paired
<1>3. \A j \in Module \ Essential : Obeyed(j)'
  BY <1>1, <1>2 DEF Obeyed
<1> QED
  BY <1>1, <1>2, <1>3 DEF OwnerInv

\* A refusal tells the owner nothing.
LEMMA RefusedAsTold ==
  ASSUME OwnerInv, phase = "up",
         UNCHANGED <<build, phase, nvsOn, nvsKnown, report>>,
         owner' \in [Module -> {"none", "on", "off"}],
         \A j \in Module \ Essential :
           \/ owner'[j] = owner[j]
           \/ owner'[j] = "none"
           \/ /\ owner'[j] = "on" /\ j \in build
              /\ IF nvsOn = Absent THEN Desc[j].dflt ELSE j \in nvsOn
  PROVE  OwnerInv'
<1>1. \A j \in Module \ Essential : Obeyed(j)'
  BY DEF OwnerInv, Obeyed
<1> QED
  BY <1>1 DEF OwnerInv

\* Every instruction leaves the keys saying what the owner was told.
LEMMA ToldStep ==
  ASSUME GoodFlash, TypeOK, LiveIsIntended, Wanted, Mirrored, Paired, OwnerInv,
         NEW m \in Module, NEW w \in NvsOutcome,
         (\E force \in BOOLEAN : Enable(m, force, w)) \/ Disable(m, w),
         owner' = Told(m)
  PROVE  OwnerInv'
<1>0. /\ phase = "up" /\ w \in {"ok"}
      /\ Essential \cap Flaky = {}
      /\ Essential \cap build \subseteq desired /\ Essential \cap build # {}
      /\ build \subseteq Module /\ desired \in SUBSET build
      /\ desired = Means(nvsOn, build)
  BY BuildAssumption, EssentialAssumption
     DEF GoodFlash, Enable, Disable, TypeOK, Wanted, Mirrored, Paired, Essential
<1>1. owner' \in [Module -> {"none", "on", "off"}]
  BY DEF Told, OwnerInv
<1>2. \A j \in Module \ Essential :
        /\ owner[j] = "off" => j \in build /\ j \notin desired
        /\ owner[j] = "on" => j \in build /\ j \in desired
  BY <1>0, ObeyedInRam
<1>3. \A S \in SUBSET build : Essential \cap build \subseteq S => S # Absent
  BY <1>0, NoKeyAssumption DEF Absent
<1>4. ASSUME UNCHANGED <<build, phase, nvsOn, nvsKnown, report>>,
             res'.stopped = {}, res'.failed = {}, ~res'.ok
      PROVE  OwnerInv'
  BY <1>0, <1>1, <1>4, RefusedAsTold DEF Told, OwnerInv
<1>5. ASSUME NEW S \in SUBSET build, desired' = S,
             Essential \cap build \subseteq S, Persist(w, desired'),
             UNCHANGED <<build, phase, nvsKnown>>, m \in build,
             \A j \in Module \ {m} :
               IF j \in res'.stopped \cup res'.failed
               THEN j \in build /\ j \notin S ELSE j \in S <=> j \in desired,
             res'.ok => IF res'.call = "enable" THEN m \in S ELSE m \notin S,
             ~res'.ok => res'.code \in {"EENABLE", "EDISABLE"}
      PROVE  OwnerInv'
  <2>1. ASSUME NEW j \in Module \ Essential
        PROVE  /\ owner'[j] = "off" => j \in build /\ j \notin S
               /\ owner'[j] = "on" => j \in build /\ j \in S
    BY <1>2, <1>5, <2>1 DEF Told
  <2>2. desired' # Absent
    BY <1>3, <1>5
  <2> QED
    BY <1>0, <1>1, <1>5, <2>1, <2>2, SavedAsTold
<1>6. ASSUME NEW force \in BOOLEAN, Enable(m, force, w)
      PROVE  OwnerInv'
  <2>1. CASE EnableUnknown(m) \/ EnableBlocked(m, force)
    <3>1. /\ UNCHANGED <<build, phase, nvsOn, nvsKnown, report>>
          /\ res'.stopped = {} /\ res'.failed = {} /\ ~res'.ok
      BY <2>1 DEF EnableUnknown, EnableBlocked, Refuse, Result, NoCall
    <3> QED
      BY <1>4, <3>1
  <2>2. CASE m \in build /\ EnableNoop(m)
    <3>1. /\ UNCHANGED <<build, phase, nvsOn, nvsKnown, report>>
          /\ res'.stopped = {} /\ res'.failed = {} /\ res'.ok /\ res'.call = "enable"
      BY <2>2 DEF EnableNoop, Refuse, Result, NoCall
    <3>2. m \in Essential \/ IF nvsOn = Absent THEN Desc[m].dflt ELSE m \in nvsOn
      BY <1>0, <2>2 DEF EnableNoop, Means
    <3> QED
      BY <1>0, <1>1, <2>2, <3>1, <3>2, RefusedAsTold DEF Told, OwnerInv
  <2>3. CASE m \in build /\ EnableArm(m, w)
    <3>1. /\ res'.stopped = {} /\ res'.failed = {} /\ res'.ok /\ res'.call = "enable"
      BY <2>3 DEF EnableArm, Result, NoCall
    <3>2. /\ desired' = desired \cup {m} /\ Persist(w, desired')
          /\ UNCHANGED <<build, phase, nvsKnown>>
      BY <2>3 DEF EnableArm
    <3> QED
      BY <1>0, <1>5, <2>3, <3>1, <3>2
  <2>4. ASSUME NEW f \in Flaky, m \in build, EnableAborted(m, force, f, w)
        PROVE  OwnerInv'
    <3> DEFINE down == {j \in BlockersOf(m) : Rank[j] < Rank[f]} \cup {f}
    <3>1. /\ res'.stopped \cup res'.failed = down /\ ~res'.ok /\ res'.code = "EDISABLE"
      BY <2>4 DEF EnableAborted, Result, NoCall
    <3>2. /\ desired' = desired \ down /\ Persist(w, desired')
          /\ UNCHANGED <<build, phase, nvsKnown>>
      BY <2>4 DEF EnableAborted
    <3>3. down \subseteq build /\ down \cap Essential = {}
      BY <1>0, <2>4 DEF EnableAborted, MayStop, BlockersOf, TypeOK
    <3> HIDE DEF down
    <3> QED
      BY <1>0, <1>5, <2>4, <3>1, <3>2, <3>3
  <2>5. ASSUME NEW started \in BOOLEAN, m \in build, EnableStart(m, force, started, w)
        PROVE  OwnerInv'
    <3> DEFINE down == BlockersOf(m)
               rest == IF started THEN (desired \ down) \cup {m} ELSE (desired \ down) \ {m}
    <3>1. /\ res'.stopped \cup res'.failed = down /\ res'.ok = started
          /\ res'.call = "enable" /\ (~started => res'.code = "EENABLE")
      BY <2>5 DEF EnableStart, Result, NoCall
    <3>2. /\ desired' = rest /\ Persist(w, desired')
          /\ UNCHANGED <<build, phase, nvsKnown>>
      BY <2>5 DEF EnableStart
    <3>3. /\ down \subseteq build \ {m} /\ down \cap Essential = {}
          /\ started \/ m \notin Essential
      BY <1>0, <2>5 DEF EnableStart, MayStop, BlockersOf, TypeOK
    <3> HIDE DEF down
    <3> QED
      BY <1>0, <1>5, <2>5, <3>1, <3>2, <3>3
  <2> QED
    BY <1>6, <2>1, <2>2, <2>3, <2>4, <2>5 DEF Enable
<1>7. ASSUME Disable(m, w)
      PROVE  OwnerInv'
  <2>1. CASE DisableRefused(m)
    <3>1. /\ UNCHANGED <<build, phase, nvsOn, nvsKnown, report>>
          /\ res'.stopped = {} /\ res'.failed = {} /\ ~res'.ok
      BY <2>1 DEF DisableRefused, Refuse, Result, NoCall
    <3> QED
      BY <1>4, <3>1
  <2>2. CASE m \in build \ Essential /\ DisableWithdraw(m, w)
    <3>1. res'.stopped = {} /\ res'.failed = {} /\ res'.ok /\ res'.call = "disable"
      BY <2>2 DEF DisableWithdraw, Result, NoCall
    <3>2. /\ desired' = desired \ {m} /\ Persist(w, desired')
          /\ UNCHANGED <<build, phase, nvsKnown>>
      BY <2>2 DEF DisableWithdraw
    <3> QED
      BY <1>0, <1>5, <2>2, <3>1, <3>2
  <2>3. ASSUME NEW clean \in BOOLEAN, m \in build \ Essential, DisableStop(m, clean, w)
        PROVE  OwnerInv'
    <3>1. /\ res'.stopped \cup res'.failed = {m} /\ res'.ok = clean
          /\ res'.call = "disable" /\ (~clean => res'.code = "EDISABLE")
      BY <2>3 DEF DisableStop, Result, NoCall
    <3>2. /\ desired' = desired \ {m} /\ Persist(w, desired')
          /\ UNCHANGED <<build, phase, nvsKnown>>
      BY <2>3 DEF DisableStop
    <3> QED
      BY <1>0, <1>5, <2>3, <3>1, <3>2
  <2> QED
    BY <1>7, <2>1, <2>2, <2>3 DEF Disable
<1> QED
  BY <1>6, <1>7

\* The boot reads the two keys as the owner left them, and a new image's
\* defaults disturb neither.
LEMMA BootAsTold ==
  ASSUME GoodFlash, TypeOK, Paired, OwnerInv, NEW w \in NvsOutcome, Restore(w),
         UNCHANGED owner
  PROVE  OwnerInv'
<1> DEFINE want == WantAtBoot(nvsOn, nvsKnown, build)
           new  == Defaulted(nvsOn, nvsKnown, build)
<1>1. /\ want # Absent
      /\ desired' = want /\ enabled' \in SUBSET want
      /\ UNCHANGED <<build, nvsKnown>>
      /\ nvsOn' = IF new # {} THEN want ELSE nvsOn
  BY ReplayWrites
<1>2. ~TooLong(nvsOn, build) /\ ~TooLong(nvsKnown, build)
  BY PairedFits
<1>3. ASSUME NEW m \in Module \ Essential
      PROVE  Obeyed(m)'
  <2>1. Obeyed(m)
    BY DEF OwnerInv
  <2>2. CASE new = {}
    BY <1>1, <2>1, <2>2 DEF Obeyed
  <2>3. CASE new # {}
    <3>1. nvsOn # Absent
      BY <2>3 DEF Defaulted
    <3>2. m \in nvsOn /\ m \in build => m \in want
      BY <1>2, <3>1 DEF WantAtBoot
    <3>3. (nvsKnown # Absent /\ m \in nvsKnown /\ m \notin nvsOn) => m \notin want
      BY <1>2, <3>1 DEF WantAtBoot
    <3>4. nvsOn' = want
      BY <1>1, <2>3
    <3> HIDE DEF want, new
    <3> QED
      BY <1>1, <2>1, <3>1, <3>2, <3>3, <3>4 DEF Obeyed
  <2> QED
    BY <2>2, <2>3
<1> HIDE DEF want, new
<1> QED
  BY <1>1, <1>3 DEF OwnerInv

\* No boot, image change or instruction makes the keys say something else.
LEMMA OwnerStep ==
  ASSUME GoodFlash, TypeOK, LiveIsIntended, Wanted, Mirrored, Paired, OwnerInv,
         [OwnerNext]_ownerVars
  PROVE  OwnerInv'
<1>1. ASSUME NEW nvsUp \in BOOLEAN, BindUsb(nvsUp),
             owner' = IF nvsUp THEN owner ELSE [m \in Module |-> "none"]
      PROVE  OwnerInv'
  <2>1. CASE nvsUp
    BY <1>1, <2>1 DEF BindUsb, OwnerInv, Obeyed
  <2>2. CASE ~nvsUp
    BY <1>1, <2>2 DEF BindUsb, OwnerInv, Obeyed
  <2> QED
    BY <2>1, <2>2
<1>2. ASSUME NEW w \in NvsOutcome, Restore(w), UNCHANGED owner
      PROVE  OwnerInv'
  BY <1>2, BootAsTold
<1>3. ASSUME NEW w \in NvsOutcome, RecordKnown(w), UNCHANGED owner
      PROVE  OwnerInv'
  <2>1. build # Absent /\ w = "ok"
    BY PairedFits DEF GoodFlash
  <2>2. nvsKnown' = build /\ UNCHANGED <<build, nvsOn>> /\ phase' = "up"
    BY <1>3, <2>1 DEF RecordKnown, Stored
  <2>3. \A m \in Module \ Essential : Obeyed(m)'
    BY <1>3, <2>1, <2>2 DEF OwnerInv, Obeyed
  <2> QED
    BY <1>3, <2>2, <2>3 DEF OwnerInv
<1>4. ASSUME NEW b \in Build, Reset(b), UNCHANGED owner
      PROVE  OwnerInv'
  <2>1. build \subseteq b /\ build' = b /\ UNCHANGED <<nvsOn, nvsKnown>>
    BY <1>4 DEF Reset, flash, GoodFlash, TypeOK
  <2>2. \A m \in Module \ Essential : Obeyed(m)'
    BY <1>4, <2>1 DEF OwnerInv, Obeyed
  <2> QED
    BY <1>4, <2>1, <2>2 DEF Reset, OwnerInv
<1>5. ASSUME NEW m \in Module, NEW w \in NvsOutcome,
             (\E force \in BOOLEAN : Enable(m, force, w)) \/ Disable(m, w),
             owner' = Told(m)
      PROVE  OwnerInv'
  BY <1>5, ToldStep
<1>6. CASE UNCHANGED ownerVars
  BY <1>6 DEF ownerVars, OwnerInv, Obeyed
<1> QED
  BY <1>1, <1>2, <1>3, <1>4, <1>5, <1>6 DEF OwnerNext

\* While flash works and images only grow, what the owner turned off does not
\* come up and what it turned on is wanted again, across every reset between
\* the two writes and every new image (modset.h, the three-way rule).
THEOREM BootHonours == GoodFlash => (OwnerSpec => []BootHonoursOwner)
<1> SUFFICES ASSUME GoodFlash PROVE OwnerSpec => []BootHonoursOwner
  OBVIOUS
<1> DEFINE Inv == TypeOK /\ LiveIsIntended /\ Wanted /\ Mirrored /\ Paired /\ OwnerInv
<1>1. OwnerInit => Inv
  BY TypeInit DEF OwnerInit, Init, LiveIsIntended, Wanted, Mirrored, Paired, OwnerInv, Obeyed
<1>2. Inv /\ [OwnerNext]_ownerVars => Inv'
  BY OwnerStepIsStep, TypeStep, IntendedStep, MirrorStep, PairedStep, OwnerStep
<1>3. Inv => BootHonoursOwner
  <2> SUFFICES ASSUME Inv, phase = "replayed", NEW m \in build \ Essential
               PROVE  /\ owner[m] = "off" => m \notin enabled
                      /\ owner[m] = "on" => m \in desired
    BY DEF BootHonoursOwner
  <2>1. m \in Module \ Essential /\ enabled \subseteq desired
    BY PairedFits DEF OwnerInv
  <2> QED
    BY <2>1, ObeyedInRam
<1> HIDE DEF Inv
<1> QED
  BY <1>1, <1>2, <1>3, PTL DEF OwnerSpec

-----------------------------------------------------------------------------
(* The registry implements ModuleIntent, the intent being read off flash.  *)

\* The intent the mapping reads.
OnFlash == WantAtBoot(nvsOn, nvsKnown, build)

\* From the replay on, it is the intent in RAM.
InRam == phase \in {"replayed", "up"} => OnFlash = desired

\* The parts of the invariant agree on it.
LEMMA FlashIsIntent == TypeOK /\ Mirrored /\ Paired => InRam
<1> SUFFICES ASSUME TypeOK, Mirrored, Paired, phase \in {"replayed", "up"}
             PROVE  OnFlash = desired
  BY DEF InRam
<1>1. CASE phase = "replayed"
  BY <1>1 DEF Paired, OnFlash
<1>2. CASE phase = "up"
  BY <1>2, MirroredIsDurable DEF IntentDurable, Paired, OnFlash
<1> QED
  BY <1>1, <1>2

\* A new image adds the defaults of its new modules and nothing else.
LEMMA ImageAddsDefaults ==
  ASSUME GoodFlash, TypeOK, Paired, NEW b \in Build, build \subseteq b
  PROVE  WantAtBoot(nvsOn, nvsKnown, b) = OnFlash \cup Intended!OutOfBox(b \ build)
<1>1. /\ build \in Build
      /\ ~TooLong(nvsOn, build) /\ ~TooLong(nvsKnown, build)
  BY PairedFits
<1>2. ~TooLong(nvsOn, b) /\ ~TooLong(nvsKnown, b)
  BY OwnListFits DEF Paired, TooLong
<1>3. b \subseteq Module
  BY BuildAssumption
<1>4. CASE nvsOn = Absent
  BY <1>3, <1>4 DEF WantAtBoot, OnFlash, Intended!OutOfBox, Essential
<1>5. CASE nvsOn # Absent
  <2>1. nvsOn \subseteq build /\ nvsKnown # Absent /\ nvsKnown \subseteq build
    BY <1>5 DEF Paired
  <2>2. \A m \in build : m \in WantAtBoot(nvsOn, nvsKnown, b) <=> m \in OnFlash
    BY <1>1, <1>2, <1>5, <2>1 DEF WantAtBoot, OnFlash
  <2>3. \A m \in b \ build :
          m \in WantAtBoot(nvsOn, nvsKnown, b) <=> m \in Intended!OutOfBox(b \ build)
    BY <1>2, <1>3, <1>5, <2>1 DEF WantAtBoot, Intended!OutOfBox, Essential
  <2>4. /\ WantAtBoot(nvsOn, nvsKnown, b) \subseteq b
        /\ OnFlash \subseteq build
        /\ Intended!OutOfBox(b \ build) \subseteq b \ build
    BY DEF WantAtBoot, OnFlash, Intended!OutOfBox
  <2> QED
    BY <2>2, <2>3, <2>4
<1> QED
  BY <1>4, <1>5

\* A call moves the intent on flash as it moves the one in RAM.
LEMMA CallMapping ==
  ASSUME GoodFlash, TypeOK, LiveIsIntended, Wanted, Mirrored, Paired,
         InRam, InRam', NoConflict', NEW m \in Module, NEW w \in NvsOutcome,
         (\E force \in BOOLEAN : Enable(m, force, w)) \/ Disable(m, w)
  PROVE  Intended!Next \/ UNCHANGED Intended!ivars
<1>1. phase = "up" /\ UNCHANGED <<build, phase, nvsKnown>>
  BY CallSaves
<1>2. OnFlash = desired /\ OnFlash' = desired' /\ build \subseteq Module
  BY <1>1, PairedFits DEF InRam
<1>3. UNCHANGED <<enabled, desired>> => UNCHANGED Intended!ivars
  BY <1>1, <1>2 DEF Intended!ivars, OnFlash
<1>4. ASSUME NEW force \in BOOLEAN, Enable(m, force, w)
      PROVE  Intended!Next \/ UNCHANGED Intended!ivars
  <2>1. CASE EnableUnknown(m) \/ EnableNoop(m) \/ EnableBlocked(m, force)
    BY <1>3, <2>1 DEF EnableUnknown, EnableNoop, EnableBlocked, Refuse
  <2>2. CASE m \in build /\ EnableArm(m, w)
    <3>1. Intended!Arm(m)
      BY <1>2, <2>2 DEF EnableArm, Intended!Arm, OnFlash
    <3> QED
      BY <2>2, <3>1 DEF Intended!Next
  <2>3. ASSUME NEW f \in Flaky, m \in build, EnableAborted(m, force, f, w)
        PROVE  Intended!Next
    <3> DEFINE down == {j \in BlockersOf(m) : Rank[j] < Rank[f]} \cup {f}
    <3>1. /\ enabled' = enabled \ down /\ desired' = desired \ down
          /\ m \notin enabled /\ ~Boot(m)
      BY <2>3, ArbitratedIsDown DEF EnableAborted, Arbitrates
    <3>2. down \in SUBSET {j \in enabled \ Essential : ~Coexists(j, m)}
      BY <2>3, CoexistsSymmetric DEF EnableAborted, MayStop, BlockersOf
    <3> HIDE DEF down
    <3>3. Intended!TurnOn(m)
      BY <1>1, <1>2, <2>3, <3>1, <3>2 DEF Intended!TurnOn, OnFlash
    <3> QED
      BY <2>3, <3>3 DEF Intended!Next
  <2>4. ASSUME NEW started \in BOOLEAN, m \in build, EnableStart(m, force, started, w)
        PROVE  Intended!Next
    <3> DEFINE down == BlockersOf(m)
    <3>1. /\ started => /\ enabled' = (enabled \ down) \cup {m}
                        /\ desired' = (desired \ down) \cup {m}
          /\ ~started => /\ enabled' = (enabled \ down) \ {m}
                         /\ desired' = (desired \ down) \ {m}
          /\ ~Boot(m)
      BY <2>4 DEF EnableStart, Arbitrates
    <3>2. down \in SUBSET {j \in enabled \ Essential : ~Coexists(j, m)}
      BY <2>4, CoexistsSymmetric DEF EnableStart, MayStop, BlockersOf
    <3>3. Intended!Compatible(enabled')
      BY DEF NoConflict, Intended!Compatible
    <3> HIDE DEF down
    <3>4. Intended!TurnOn(m)
      BY <1>1, <1>2, <2>4, <3>1, <3>2, <3>3 DEF Intended!TurnOn, OnFlash
    <3> QED
      BY <2>4, <3>4 DEF Intended!Next
  <2> QED
    BY <1>4, <2>1, <2>2, <2>3, <2>4 DEF Enable
<1>5. ASSUME Disable(m, w)
      PROVE  Intended!Next \/ UNCHANGED Intended!ivars
  <2>1. CASE DisableRefused(m)
    BY <1>3, <2>1 DEF DisableRefused, Refuse
  <2>2. CASE m \in build \ Essential
             /\ (DisableWithdraw(m, w) \/ \E clean \in BOOLEAN : DisableStop(m, clean, w))
    <3>1. /\ desired' = desired \ {m}
          /\ enabled' = IF Boot(m) THEN enabled ELSE enabled \ {m}
      <4>1. CASE DisableWithdraw(m, w)
        <5>1. enabled' = enabled /\ (Boot(m) \/ enabled = enabled \ {m})
          BY <4>1 DEF DisableWithdraw
        <5> QED
          BY <4>1, <5>1 DEF DisableWithdraw
      <4>2. CASE \E clean \in BOOLEAN : DisableStop(m, clean, w)
        BY <4>2 DEF DisableStop
      <4> QED
        BY <2>2, <4>1, <4>2
    <3>2. Intended!TurnOff(m)
      BY <1>1, <1>2, <2>2, <3>1 DEF Intended!TurnOff, OnFlash
    <3> QED
      BY <2>2, <3>2 DEF Intended!Next
  <2> QED
    BY <1>5, <2>1, <2>2 DEF Disable
<1> QED
  BY <1>4, <1>5

\* Every step of the registry is one of the promise's, or none of its business.
LEMMA MappingStep ==
  ASSUME GoodFlash, TypeOK, LiveIsIntended, NoConflict, Wanted, Mirrored, Paired,
         InRam, InRam', NoConflict', [Next]_vars
  PROVE  [Intended!Next]_(Intended!ivars)
<1>1. ASSUME NEW nvsUp \in BOOLEAN, BindUsb(nvsUp)
      PROVE  Intended!Erase \/ UNCHANGED Intended!ivars
  <2>1. CASE nvsUp
    BY <1>1, <2>1 DEF BindUsb, Intended!ivars
  <2>2. CASE ~nvsUp
    <3>1. /\ enabled = {} /\ UNCHANGED <<build, enabled>>
          /\ nvsOn' = Absent /\ nvsKnown' = Absent /\ build \subseteq Module
      BY <1>1, <2>2, PairedFits DEF BindUsb, Paired
    <3>2. WantAtBoot(nvsOn', nvsKnown', build') = Intended!OutOfBox(build)
      BY <3>1 DEF WantAtBoot, Intended!OutOfBox, Essential
    <3> QED
      BY <3>1, <3>2 DEF Intended!Erase
  <2> QED
    BY <2>1, <2>2
<1>2. ASSUME NEW w \in NvsOutcome, Restore(w)
      PROVE  Intended!PowerUp
  <2>1. /\ enabled' \in SUBSET OnFlash
        /\ UNCHANGED build /\ UNCHANGED OnFlash
    BY <1>2, ReplayWrites DEF OnFlash
  <2>2. enabled = {}
    BY <1>2 DEF Restore, Paired
  <2>3. Intended!Compatible(enabled')
    BY DEF NoConflict, Intended!Compatible
  <2> QED
    BY <2>1, <2>2, <2>3 DEF Intended!PowerUp, OnFlash
<1>3. ASSUME NEW w \in NvsOutcome, RecordKnown(w)
      PROVE  UNCHANGED Intended!ivars
  <2>1. OnFlash = desired /\ OnFlash' = desired'
    BY <1>3 DEF RecordKnown, InRam
  <2> QED
    BY <1>3, <2>1 DEF RecordKnown, Intended!ivars, OnFlash
<1>4. ASSUME NEW b \in Build, Reset(b)
      PROVE  Intended!PowerDown \/ Intended!Replace(b)
  <2>1. build' = b /\ enabled' = {} /\ UNCHANGED <<nvsOn, nvsKnown>>
    BY <1>4 DEF Reset, flash
  <2>2. CASE b = build
    BY <2>1, <2>2 DEF Intended!PowerDown
  <2>3. CASE <<build, b>> \in Upgrade
    <3>1. build \subseteq b
      BY <2>3 DEF GoodFlash, TypeOK
    <3>2. WantAtBoot(nvsOn', nvsKnown', build') = OnFlash \cup Intended!OutOfBox(b \ build)
      BY <2>1, <3>1, ImageAddsDefaults
    <3> QED
      BY <2>1, <2>3, <3>2 DEF Intended!Replace, OnFlash
  <2> QED
    BY <1>4, <2>2, <2>3 DEF Reset
<1>5. ASSUME NEW m \in Module, NEW w \in NvsOutcome,
             (\E force \in BOOLEAN : Enable(m, force, w)) \/ Disable(m, w)
      PROVE  Intended!Next \/ UNCHANGED Intended!ivars
  BY <1>5, CallMapping
<1>6. CASE UNCHANGED vars
  BY <1>6 DEF vars, Intended!ivars
<1> QED
  BY <1>1, <1>2, <1>3, <1>4, <1>5, <1>6 DEF Next, Intended!Next

\* While flash works and images only grow, what flash would bring back moves
\* only as the owner's instructions and new images move it, and what runs is a
\* conflict-free part of it, at every point where power may be lost
\* (persist(), restoreFromNvs() and the two calls together).
THEOREM Implements == GoodFlash => (Spec => ImplementsIntent)
<1> SUFFICES ASSUME GoodFlash PROVE Spec => ImplementsIntent
  OBVIOUS
<1> DEFINE Inv == TypeOK /\ LiveIsIntended /\ NoConflict /\ Wanted /\ Mirrored /\ Paired
<1>1. Init => Inv
  BY TypeInit DEF Init, LiveIsIntended, NoConflict, Wanted, Mirrored, Paired
<1>2. Inv /\ [Next]_vars => Inv'
  BY TypeStep, IntendedStep, ConflictStep, MirrorStep, PairedStep
<1>3. Init => Intended!Init
  <2> SUFFICES ASSUME Init PROVE Intended!Init
    OBVIOUS
  <2>1. build \in Build /\ build \subseteq Module /\ nvsOn = Absent /\ enabled = {}
    BY BuildAssumption DEF Init
  <2> QED
    BY <2>1 DEF Intended!Init, Intended!OutOfBox, WantAtBoot, Essential
<1>4. Inv => InRam
  BY FlashIsIntent
<1>5. Inv /\ InRam /\ (Inv /\ InRam)' /\ [Next]_vars => [Intended!Next]_(Intended!ivars)
  BY MappingStep
<1> HIDE DEF Inv
<1> QED
  BY <1>1, <1>2, <1>3, <1>4, <1>5, PTL DEF Spec, ImplementsIntent, Intended!IntentSpec
=============================================================================
