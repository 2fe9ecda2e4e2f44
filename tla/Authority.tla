----------------------------- MODULE Authority -----------------------------
(***************************************************************************)
(* What Console::execute() and Registry::dispatch() answer, as operators   *)
(* on a request, the caller's level and the registry's live and wanted     *)
(* sets.  An answer is its code; "ran" stands for whatever the handler     *)
(* reached then answers.  Only the order of the checks and what each reads *)
(* is modelled; wording is not.                                            *)
(***************************************************************************)
EXTENDS Naturals, FiniteSets

CONSTANTS Levels,     \* none < token < physical, as numbers
          Token, Physical,
          NoAs,       \* what "as" reads as when it is missing or not a string
          Builtins,   \* built-in |-> level
          OtaMutate,  \* the level of ota's three deciding parameters
          ModuleAuth, \* registered module |-> its descriptor's minAuth
          ActionAuth, \* registered module |-> [action |-> minAuth]
          Silent,     \* modules with no dispatch callback
          BootTime    \* modules bound by a static constructor

ASSUME LevelsAssumption ==
  /\ Levels \subseteq Nat /\ NoAs \notin Levels /\ Token \in Levels /\ Physical \in Levels
  /\ \A l \in Levels : l <= Physical
  /\ Builtins \in [DOMAIN Builtins -> Levels] /\ OtaMutate \in Levels
  /\ ModuleAuth \in [DOMAIN ModuleAuth -> Levels]
  /\ \A m \in DOMAIN ModuleAuth : ActionAuth[m] \in [DOMAIN ActionAuth[m] -> Levels]

Absent == "absent"    \* a string field that is missing or is not a string

Permits(have, need) == have >= need
\* An undeclared level fails closed.
effective(declared) == IF declared < Token THEN Physical ELSE declared

\* The lowest of a set of levels, PHYSICAL when there is none.
Lowest(levels) == CHOOSE l \in levels \cup {Physical} : \A k \in levels \cup {Physical} : l <= k
MinimumLevel == Lowest({Builtins[n] : n \in DOMAIN Builtins})
LowestModule == Lowest({effective(ModuleAuth[m]) : m \in DOMAIN ModuleAuth})

ActionLevel(m, act) ==
  IF act \in DOMAIN ActionAuth[m] THEN effective(ActionAuth[m][act]) ELSE Physical

\* The level dispatch() holds the action to: a module that takes no actions
\* is left to the ENOACT answer.
DispatchLevel(m, act) == IF m \in Silent THEN Token ELSE ActionLevel(m, act)

Decide(have, m, act) ==
  IF ~Permits(have, effective(LowestModule)) THEN "EAUTH_ANY"
  ELSE IF m \notin DOMAIN ModuleAuth THEN "ENOMOD"
  ELSE IF ~Permits(have, effective(ModuleAuth[m])) THEN "EAUTH_MODULE"
  ELSE IF ~Permits(have, effective(DispatchLevel(m, act))) THEN "EAUTH_ACTION"
  ELSE "ALLOW"

\* A gate that says whether a module is on before it says who may ask.
DispatchStateFirst(m, act, have, live, wanted) ==
  IF m \in DOMAIN ModuleAuth /\ m \notin live THEN "EDISABLED"
  ELSE LET d == Decide(have, m, act) IN IF d # "ALLOW" THEN d ELSE "ran"

Dispatch(m, act, have, live, wanted) ==
  LET d == Decide(have, m, act) IN
  IF d # "ALLOW" THEN d
  ELSE IF m \notin live THEN (IF m \in BootTime /\ m \in wanted THEN "EREBOOT" ELSE "EDISABLED")
  ELSE IF m \in Silent THEN "ENOACT"
  ELSE "ran"

\* ota with one deciding parameter is gated in its handler; with more than
\* one it is refused before that gate.
Ota(asked, have) ==
  IF asked = 0 THEN "ran"
  ELSE IF asked > 1 THEN "EARGS"
  ELSE IF ~Permits(have, OtaMutate) THEN "EAUTH_PARAM" ELSE "ran"

Builtin(req, have, live, wanted) ==
  IF ~Permits(have, MinimumLevel) THEN "EAUTH_BUILTIN"
  ELSE IF req.act \notin DOMAIN Builtins THEN "EUNKNOWN"
  ELSE IF ~Permits(have, Builtins[req.act]) THEN "EAUTH_COMMAND"
  ELSE IF req.act = "ota" THEN Ota(req.asked, have)
  ELSE IF req.act = "led" THEN Dispatch("led", "set", have, live, wanted)
  ELSE IF req.act \in {"enable", "disable"} /\ req.id = Absent THEN "EARGS"
  ELSE "ran"

\* Reading the request's level and forgetting to dispatch at it.
ResolvedIgnored(as, have) == have

\* The level a request is dispatched at: never above the caller's own.
Resolved(as, have) == IF as \in Levels /\ as < have THEN as ELSE have
Refused(as, have) == as # NoAs /\ (as \notin Levels \/ as > have)

Execute(req, caller, live, wanted) ==
  LET have == Resolved(req.as, caller) IN
  IF req.act = Absent THEN "ENOACT"
  ELSE IF Refused(req.as, caller) THEN "EARGS"
  ELSE IF req.mod = Absent THEN Builtin(req, have, live, wanted)
  ELSE Dispatch(req.mod, req.act, have, live, wanted)

Refusals == {"EAUTH_ANY", "EAUTH_MODULE", "EAUTH_ACTION", "EAUTH_BUILTIN", "EAUTH_COMMAND", "EAUTH_PARAM"}

\* list(): the modules a caller is shown, and the actions shown as allowed.
Shown(have) == {m \in DOMAIN ModuleAuth : Permits(have, effective(ModuleAuth[m]))}
Allowed(have, m, act) == m \in Shown(have) /\ Permits(have, effective(ActionAuth[m][act]))
\* help: the built-ins shown as allowed.
Offered(have) == {n \in DOMAIN Builtins : Permits(have, Builtins[n])}
=============================================================================
