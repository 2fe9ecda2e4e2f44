------------------------------ MODULE Registry ------------------------------
(***************************************************************************)
(* The module registry (firmware/src/registry.cpp, modset.h).              *)
(*                                                                         *)
(* One action per public call, taken atomically because Guard holds the    *)
(* recursive lock across the whole call, module callbacks included.  Boot  *)
(* is three actions, the points between which power can be lost with a     *)
(* different flash content: the static constructors that bind USB          *)
(* interfaces, the replay of the persisted set, and the write of the       *)
(* "known" set.  NVS writes one key at a time and may fail.                *)
(*                                                                         *)
(* A build is the set of modules an image registers.  Registration order   *)
(* is main.cpp's order, given here by Rank.  The image may change only     *)
(* while the chip is off (USB flash, OTA boot or OTA rollback).            *)
(***************************************************************************)
EXTENDS Naturals, FiniteSets

CONSTANTS
  Resource,    \* contended resources
  Module,      \* every module id any image has ever registered
  Desc,        \* Module -> the static ModuleDescriptor fields that matter here
  Rank,        \* Module -> registration order
  Flaky,       \* modules whose enable() / disable() callback may report failure
  Build,       \* the images this device may run, each a set of modules
  Upgrade,     \* which image may replace which: a set of pairs of builds
  Cap,         \* Build -> ids PERSIST_BUF_SIZE can hold in that image
  NvsOutcome,  \* how an NVS write may end: a subset of {"ok", "begin", "put"}
  NoKey        \* no module's id

C == INSTANCE Claims

ASSUME DescAssumption ==
  Desc \in [Module -> [claims : C!ClaimSet, dflt : BOOLEAN,
                       boot : BOOLEAN, essential : BOOLEAN]]

ASSUME RankAssumption ==
  /\ Rank \in [Module -> Nat]
  /\ \A a, b \in Module : Rank[a] = Rank[b] => a = b

\* The image's own set always fits its buffer (registry.h, the static_assert on
\* PERSIST_BUF_SIZE); another image's may not.  An essential module's callbacks
\* cannot fail (cdcEnable, mod_cdc.cpp:10, has no failing path), and its
\* interface is always bound.
ASSUME BuildAssumption ==
  /\ Build \subseteq SUBSET Module
  /\ Upgrade \subseteq Build \X Build
  /\ Cap \in [Build -> Nat]
  /\ \A b \in Build : IsFiniteSet(b) /\ Cardinality(b) =< Cap[b]
  /\ Flaky \subseteq {m \in Module : ~Desc[m].essential}
  /\ NvsOutcome \subseteq {"ok", "begin", "put"}

ASSUME NoKeyAssumption == NoKey \notin Module

\* The value of an NVS key that was never written.
Absent == {NoKey}

VARIABLES
  build,     \* the running image
  phase,     \* "off" | "bound" | "replayed" | "up"
  enabled,   \* enabled_: live modules; claims are held iff a module is here
  desired,   \* desired_: the persisted intent
  bound,     \* bootTimeBinding modules whose interface exists this boot
  nvsOn,     \* flash key "on"
  nvsKnown,  \* flash key "known"
  report,    \* ModuleRestoreReport: tooLong and writeOk
  res        \* the ModuleActionResult of the last public call

vars == <<build, phase, enabled, desired, bound, nvsOn, nvsKnown, report, res>>

flash == <<nvsOn, nvsKnown>>

Boot(m) == Desc[m].boot

Essential == {m \in Module : Desc[m].essential}

Coexists(a, b) == C!Coexist(Desc[a].claims, Desc[b].claims)

\* Every image registers the control link, where nothing before it can block it
\* (main.cpp registers cdc, and first).
ASSUME EssentialAssumption ==
  /\ \A b \in Build : Essential \cap b # {}
  /\ \A e \in Essential, m \in Module : Rank[m] < Rank[e] => Coexists(e, m)

-----------------------------------------------------------------------------
(* Results.                                                                *)

NoCall ==
  [call |-> "none", id |-> NoKey, force |-> FALSE, ok |-> TRUE, code |-> "",
   changed |-> FALSE, enabledAfter |-> FALSE, pending |-> FALSE,
   stopped |-> {}, failed |-> {}]

Codes == {"", "ENOMOD", "EBUSY", "EESSENTIAL", "EDISABLE", "EENABLE", "EREBOOT"}

Result(call, m, force) ==
  [NoCall EXCEPT !.call = call, !.id = m, !.force = force]

-----------------------------------------------------------------------------
(* Persistence.                                                            *)

\* One putString of set under a key that holds old: "begin" and "put" are the
\* call that failed.  NVS replaces a value as a whole or not at all.
Stored(w, set, old) == IF w = "ok" THEN set ELSE old

\* putString() of an empty string returns 0 either way, so a failure of that
\* write goes unseen.
Seen(w, set) == w = "ok" \/ (w = "put" /\ set = {})

\* Mutants of Persist: failures unreported; the live set, as it was, saved and
\* not the intent.
PersistBlind(w, want) ==
  /\ nvsOn' = Stored(w, want, nvsOn)
  /\ report' = [report EXCEPT !.writeOk = TRUE]

PersistLive(w, want) ==
  /\ nvsOn' = Stored(w, enabled, nvsOn)
  /\ report' = [report EXCEPT !.writeOk = Seen(w, want)]

\* persist(): the intent desired_, never the live set.
Persist(w, want) ==
  /\ nvsOn' = Stored(w, want, nvsOn)
  /\ report' = [report EXCEPT !.writeOk = Seen(w, want)]

\* getString() into a PERSIST_BUF_SIZE buffer: the value does not fit.
TooLong(key, b) == key # Absent /\ Cardinality(key) > Cap[b]

\* Mutant of WantAtBoot: the known set ignored.
WantAtBootNoKnown(on, known, b) ==
  {m \in b : m \in Essential \/ m \in on \/ Desc[m].dflt}

\* ModSet::wantAtBoot() for every module of image b, then the essential ones.
WantAtBoot(on, known, b) ==
  LET onList    == IF TooLong(on, b) THEN {} ELSE on
      knownRead == known # Absent /\ ~TooLong(known, b)
      New(m)    == knownRead /\ m \notin known
      Want(m)   == IF on = Absent
                   THEN Desc[m].dflt
                   ELSE m \in onList \/ (New(m) /\ Desc[m].dflt)
  IN  {m \in b : Want(m) \/ m \in Essential}

\* report_.defaulted: on although the readable or unreadable enabled list
\* does not hold it.
Defaulted(on, known, b) ==
  IF on = Absent
  THEN {}
  ELSE {m \in b : /\ Desc[m].dflt
                  /\ TooLong(on, b) \/ m \notin on
                  /\ known # Absent /\ ~TooLong(known, b)
                  /\ m \notin known}

-----------------------------------------------------------------------------
(* Boot.                                                                   *)

\* The static constructors: ModulePersist::wasEnabledAtBoot() for each
\* bootTimeBinding module.  If nvs_flash_init() fails there nothing binds, and
\* initArduino() later erases the partition.
BindUsb(nvsUp) ==
  /\ phase = "off"
  /\ phase' = "bound"
  /\ LET armed == IF nvsUp /\ nvsOn # Absent /\ ~TooLong(nvsOn, build)
                  THEN nvsOn ELSE {}
     IN  bound' = {m \in build : Boot(m) /\ (m \in Essential \/ m \in armed)}
  /\ nvsOn' = IF nvsUp THEN nvsOn ELSE Absent
  /\ nvsKnown' = IF nvsUp THEN nvsKnown ELSE Absent
  /\ UNCHANGED <<build, enabled, desired, report, res>>

\* The replay of want in registration order, restoring_ set: enable() without
\* force, so a module starts iff its own enable() succeeds and nothing that
\* started before it holds a conflicting claim.
Replays(live, want, startable) ==
  \A m \in want :
    m \in live <=> /\ m \in startable
                   /\ \A j \in live : Rank[j] < Rank[m] => Coexists(m, j)

\* enable() callbacks that succeed this boot: a bootTimeBinding module's
\* verifies its interface (hidEnable, mod_hid.cpp:258).
Startable(want) ==
  {s \in SUBSET {m \in want : Boot(m) => m \in bound} :
     {m \in want : m \notin Flaky /\ (Boot(m) => m \in bound)} \subseteq s}

Restore(w) ==
  /\ phase = "bound"
  /\ phase' = "replayed"
  /\ LET want == WantAtBoot(nvsOn, nvsKnown, build)
         long == TooLong(nvsOn, build)
     IN  /\ desired' = want
         /\ \E startable \in Startable(want) : \E live \in SUBSET want :
              /\ Replays(live, want, startable)
              /\ enabled' = live
         /\ IF Defaulted(nvsOn, nvsKnown, build) # {} /\ ~long
            THEN /\ nvsOn' = Stored(w, want, nvsOn)
                 /\ report' = [tooLong |-> long, writeOk |-> Seen(w, want)]
            ELSE /\ UNCHANGED nvsOn
                 /\ report' = [tooLong |-> long, writeOk |-> TRUE]
  /\ UNCHANGED <<build, bound, nvsKnown, res>>

\* persistKnown(), only when the stored set differs, then seal.
RecordKnown(w) ==
  /\ phase = "replayed"
  /\ phase' = "up"
  /\ IF nvsKnown # build \/ TooLong(nvsKnown, build)
     THEN /\ nvsKnown' = Stored(w, build, nvsKnown)
          /\ report' = [report EXCEPT !.writeOk = @ /\ Seen(w, build)]
     ELSE UNCHANGED <<nvsKnown, report>>
  /\ UNCHANGED <<build, enabled, desired, bound, nvsOn, res>>

\* Reset or power loss: RAM is gone, flash stays, another image may be booted.
Reset(b) ==
  /\ phase # "off"
  /\ b = build \/ <<build, b>> \in Upgrade
  /\ build' = b
  /\ phase' = "off"
  /\ enabled' = {}
  /\ desired' = {}
  /\ bound' = {}
  /\ report' = [tooLong |-> FALSE, writeOk |-> TRUE]
  /\ res' = NoCall
  /\ UNCHANGED flash

-----------------------------------------------------------------------------
(* Registry::enable().                                                     *)

\* Mutant of BlockersOf: only the modules registered before m are looked at.
BlockersBefore(m) ==
  {j \in enabled \ {m} : Rank[j] < Rank[m] /\ ~Coexists(m, j)}

\* blockersOf(): every live module whose claims conflict with m's.
BlockersOf(m) == {j \in enabled \ {m} : ~Coexists(m, j)}

Refuse(r) ==
  /\ res' = r
  /\ UNCHANGED <<build, phase, enabled, desired, bound, nvsOn, nvsKnown, report>>

EnableUnknown(m) ==
  /\ m \notin build
  /\ Refuse([Result("enable", m, FALSE) EXCEPT !.ok = FALSE, !.code = "ENOMOD"])

\* Mutant of EnableNoop: armed is taken for running.
EnableNoopArmed(m) ==
  /\ m \in desired
  /\ Refuse([Result("enable", m, FALSE) EXCEPT !.enabledAfter = TRUE])

EnableNoop(m) ==
  /\ m \in enabled /\ m \in desired
  /\ Refuse([Result("enable", m, FALSE) EXCEPT !.enabledAfter = TRUE])

\* bootTimeBinding: record the intent, touch no hardware, ignore claims.
EnableArm(m, w) ==
  /\ ~(m \in enabled /\ m \in desired)
  /\ Boot(m)
  /\ desired' = desired \cup {m}
  /\ Persist(w, desired')
  /\ res' = [Result("enable", m, FALSE) EXCEPT
               !.changed = m \notin desired,
               !.enabledAfter = m \in enabled,
               !.pending = m \notin enabled,
               !.code = IF m \in enabled THEN "" ELSE "EREBOOT"]
  /\ UNCHANGED <<build, phase, enabled, bound, nvsKnown>>

\* Past the two branches above, enable() arbitrates.
Arbitrates(m) == ~(m \in enabled /\ m \in desired) /\ ~Boot(m)

EnableBlocked(m, force) ==
  /\ Arbitrates(m)
  /\ BlockersOf(m) # {}
  /\ \/ /\ ~force
        /\ Refuse([Result("enable", m, force) EXCEPT
                     !.ok = FALSE, !.code = "EBUSY"])
     \/ /\ force
        /\ BlockersOf(m) \cap Essential # {}
        /\ Refuse([Result("enable", m, force) EXCEPT
                     !.ok = FALSE, !.code = "EESSENTIAL"])

\* Mutants of MayStop: force not required; essential blockers not spared.
MayStopUnforced(m, force) == BlockersOf(m) \cap Essential = {}

MayStopEssential(m, force) == BlockersOf(m) = {} \/ force

\* The blockers force may stop, none when there is nothing in the way.
MayStop(m, force) ==
  BlockersOf(m) = {} \/ (force /\ BlockersOf(m) \cap Essential = {})

\* f's disable() fails: everything ranked before it was stopped, f's claims are
\* released too, the rest and m are untouched.
EnableAborted(m, force, f, w) ==
  /\ Arbitrates(m)
  /\ MayStop(m, force)
  /\ f \in BlockersOf(m) \cap Flaky
  /\ LET stopped == {j \in BlockersOf(m) : Rank[j] < Rank[f]}
     IN  /\ enabled' = enabled \ (stopped \cup {f})
         /\ desired' = desired \ (stopped \cup {f})
         /\ Persist(w, desired')
         /\ res' = [Result("enable", m, force) EXCEPT
                      !.ok = FALSE, !.code = "EDISABLE",
                      !.stopped = stopped, !.failed = {f}]
  /\ UNCHANGED <<build, phase, bound, nvsKnown>>

\* Every blocker stopped; startModule() then succeeds or fails.
EnableStart(m, force, started, w) ==
  /\ Arbitrates(m)
  /\ MayStop(m, force)
  /\ started \/ m \in Flaky
  /\ LET stopped == BlockersOf(m)
         rest(s) == IF started THEN (s \ stopped) \cup {m} ELSE (s \ stopped) \ {m}
     IN  /\ enabled' = rest(enabled)
         /\ desired' = rest(desired)
         /\ Persist(w, desired')
         /\ res' = [Result("enable", m, force) EXCEPT
                      !.ok = started, !.changed = started,
                      !.enabledAfter = started,
                      !.code = IF started THEN "" ELSE "EENABLE",
                      !.stopped = stopped]
  /\ UNCHANGED <<build, phase, bound, nvsKnown>>

Enable(m, force, w) ==
  /\ phase = "up"
  /\ \/ EnableUnknown(m)
     \/ /\ m \in build
        /\ \/ EnableNoop(m)
           \/ EnableArm(m, w)
           \/ EnableBlocked(m, force)
           \/ \E f \in Flaky : EnableAborted(m, force, f, w)
           \/ \E started \in BOOLEAN : EnableStart(m, force, started, w)

-----------------------------------------------------------------------------
(* Registry::disable().                                                    *)

DisableRefused(m) ==
  \/ /\ m \notin build
     /\ Refuse([Result("disable", m, FALSE) EXCEPT !.ok = FALSE, !.code = "ENOMOD"])
  \/ /\ m \in build \cap Essential
     /\ Refuse([Result("disable", m, FALSE) EXCEPT
                  !.ok = FALSE, !.code = "EESSENTIAL", !.enabledAfter = m \in enabled])

\* bootTimeBinding: disarm for the next boot, leave the interface alone; or a
\* module that is not live: withdraw the intent, call no teardown.
DisableWithdraw(m, w) ==
  /\ Boot(m) \/ m \notin enabled
  /\ desired' = desired \ {m}
  /\ Persist(w, desired')
  /\ res' = [Result("disable", m, FALSE) EXCEPT
               !.changed = m \in desired,
               !.enabledAfter = m \in enabled,
               !.pending = m \in enabled,
               !.code = IF m \in enabled THEN "EREBOOT" ELSE ""]
  /\ UNCHANGED <<build, phase, enabled, bound, nvsKnown>>

\* stopModule(): the claims are released whatever disable() reports.
DisableStop(m, clean, w) ==
  /\ ~Boot(m) /\ m \in enabled
  /\ clean \/ m \in Flaky
  /\ enabled' = enabled \ {m}
  /\ desired' = desired \ {m}
  /\ Persist(w, desired')
  /\ res' = [Result("disable", m, FALSE) EXCEPT
               !.changed = TRUE, !.ok = clean,
               !.code = IF clean THEN "" ELSE "EDISABLE",
               !.stopped = IF clean THEN {m} ELSE {},
               !.failed = IF clean THEN {} ELSE {m}]
  /\ UNCHANGED <<build, phase, bound, nvsKnown>>

Disable(m, w) ==
  /\ phase = "up"
  /\ \/ DisableRefused(m)
     \/ /\ m \in build \ Essential
        /\ \/ DisableWithdraw(m, w)
           \/ \E clean \in BOOLEAN : DisableStop(m, clean, w)

-----------------------------------------------------------------------------

\* A device straight from the flasher: no key written, some image installed.
Init ==
  /\ build \in Build
  /\ phase = "off"
  /\ enabled = {}
  /\ desired = {}
  /\ bound = {}
  /\ nvsOn = Absent
  /\ nvsKnown = Absent
  /\ report = [tooLong |-> FALSE, writeOk |-> TRUE]
  /\ res = NoCall

Next ==
  \/ \E nvsUp \in BOOLEAN : BindUsb(nvsUp)
  \/ \E w \in NvsOutcome : Restore(w)
  \/ \E w \in NvsOutcome : RecordKnown(w)
  \/ \E b \in Build : Reset(b)
  \/ \E m \in Module, force \in BOOLEAN, w \in NvsOutcome : Enable(m, force, w)
  \/ \E m \in Module, w \in NvsOutcome : Disable(m, w)

Spec == Init /\ [][Next]_vars
-----------------------------------------------------------------------------
(* Properties.                                                             *)

Phase == {"off", "bound", "replayed", "up"}

ResultType ==
  [call : {"none", "enable", "disable"}, id : Module \cup {NoKey},
   force : BOOLEAN, ok : BOOLEAN, code : Codes, changed : BOOLEAN,
   enabledAfter : BOOLEAN, pending : BOOLEAN,
   stopped : SUBSET Module, failed : SUBSET Module]

\* Type invariant.
TypeOK ==
  /\ build \in Build
  /\ phase \in Phase
  /\ enabled \in SUBSET build
  /\ desired \in SUBSET build
  /\ bound \in SUBSET {m \in build : Boot(m)}
  /\ nvsOn \in (SUBSET Module) \cup {Absent}
  /\ nvsKnown \in (SUBSET Module) \cup {Absent}
  /\ report \in [tooLong : BOOLEAN, writeOk : BOOLEAN]
  /\ res \in ResultType

\* No two live modules ever hold incompatible claims on one resource, whatever
\* sequence of forced and plain enables, failing callbacks, boots and images
\* led there (the rule claims.h states, enforced by blockersOf and the force
\* loop of Registry::enable).
NoConflict == \A a, b \in enabled : a # b => Coexists(a, b)

\* A live module is one the next boot will bring back, except a bootTimeBinding
\* module disarmed since: no error path of startModule / stopModule leaves a
\* running module outside the persisted intent.
LiveIsIntended == \A m \in enabled : Boot(m) \/ m \in desired

\* What the next boot of this image would want is exactly the intent in RAM,
\* provided the last writes are reported good and the known set on flash is
\* this image's (or was never written): no sequence of toggles, boots, image
\* changes and blocked or failed starts loses or invents an enable.
IntentDurable ==
  (phase = "up" /\ report.writeOk /\ ~report.tooLong
     /\ nvsKnown \in {Absent, build})
    => WantAtBoot(nvsOn, nvsKnown, build) = desired

\* The control link is up from the end of the replay to the next reset: when the
\* flash list is unreadable, when NVS fails, whatever is forced or fails.
EssentialLive ==
  phase \in {"replayed", "up"} => Essential \cap build \subseteq enabled

\* The result a transport renders names exactly the modules that went down in
\* that call, enabledAfter is the live state, and changed is not claimed for
\* nothing (ModuleActionResult: the caller must never have to guess what state
\* things ended in).
AccurateStep ==
  phase = "up" /\ phase' = "up" /\ res'.code # "ENOMOD"
    => /\ enabled \ enabled' = res'.stopped \cup res'.failed
       /\ (res'.enabledAfter <=> res'.id \in enabled')
       /\ (res'.changed /\ ~res'.pending)
            => \/ ~(res'.id \in desired' <=> res'.id \in desired)
               \/ ~(res'.id \in enabled' <=> res'.id \in enabled)

ResultAccurate == [][AccurateStep]_vars

\* Force stops exactly what stands in the way: a module other than the one the
\* call names goes down only in a forced enable, and only if its claims really
\* conflict; a call refused with EBUSY or EESSENTIAL costs no collateral.
BlockerStep ==
  phase = "up" /\ phase' = "up"
    => \A j \in enabled \ (enabled' \cup {res'.id}) :
         /\ res'.call = "enable" /\ res'.force
         /\ ~Coexists(j, res'.id)

OnlyBlockersStopped == [][BlockerStep]_vars

=============================================================================
