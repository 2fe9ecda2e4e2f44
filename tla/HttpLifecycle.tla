---------------------------- MODULE HttpLifecycle ----------------------------
(***************************************************************************)
(* Starting and stopping the HTTP transport (firmware/src/mod_http.cpp)    *)
(* between the two tasks that run the firmware: the Arduino loop task and  *)
(* the esp_http_server task.                                               *)
(*                                                                         *)
(* A module's enable() and disable() run inside the registry lock, and     *)
(* httpd_stop() joins the server task, which may itself want that lock.    *)
(* The code decides between joining at once and leaving the join to a      *)
(* scheduler task by a store/load handshake; every load and store of it is *)
(* a step here, as is every take and give of the two locks involved.       *)
(* Atomics are seq_cst, so interleaving is all there is to see.            *)
(***************************************************************************)
EXTENDS Naturals

CONSTANT
  RequestInUnwind   \* may a request reach a server whose start has failed?

ASSUME RequestAssumption == RequestInUnwind \in BOOLEAN

VARIABLES
  pc,            \* where each task is
  registryLock,  \* the registry's recursive mutex: its owner, or "none"
  authLock,      \* authLock_: its owner, or "none"
  stopping,      \* stopping_
  inRegistry,    \* inRegistry_
  pending,       \* teardownPending_
  enabled,       \* the registry's enabled_ flag of the module: it holds RES_WIFI
  servers,       \* server tasks and buffer pairs allocated and not yet freed
  radio,         \* the soft AP is up
  session        \* some session token is valid

vars == <<pc, registryLock, authLock, stopping, inRegistry, pending, enabled,
          servers, radio, session>>

locks == <<registryLock, authLock>>
handshake == <<stopping, inRegistry, pending>>
resources == <<enabled, servers, radio, session>>

Task == {"loop", "http"}

LoopPc == {"idle", "want", "held", "authWant", "authHeld",
           "stopping", "join", "unwind"}

HttpPc == {"down", "idle", "authWant", "authHeld", "authed", "entering",
           "want", "held", "stopping", "join", "upload", "chunkWant",
           "chunkHeld", "leaving"}

Goto(p, l) == pc' = [pc EXCEPT ![p] = l]

-----------------------------------------------------------------------------
(* The registry lock, around every command and every module tick.          *)

\* Scheduler::run(): a console line or a module tick is due.
LoopWork ==
  /\ pc["loop"] = "idle"
  /\ Goto("loop", "want")
  /\ UNCHANGED <<locks, handshake, resources>>

\* Guard's constructor.
Take(p) ==
  /\ pc[p] = "want"
  /\ registryLock = "none"
  /\ registryLock' = p
  /\ Goto(p, "held")
  /\ UNCHANGED <<authLock, handshake, resources>>

\* Guard's destructor.  A handler goes on to exitRegistry().
Give(p) ==
  /\ pc[p] = "held"
  /\ registryLock' = "none"
  /\ Goto(p, IF p = "loop" THEN "idle" ELSE "leaving")
  /\ UNCHANGED <<authLock, handshake, resources>>

-----------------------------------------------------------------------------
(* authLock_, a leaf lock: taken under the registry lock by ticks, status() *)
(* and the sessions command, and before it by every handler.                *)

\* httpTick(), status() and `sessions`, on the task that runs them.
ConsultSessions(p) ==
  /\ pc[p] = "held" /\ enabled
  /\ Goto(p, "authWant")
  /\ UNCHANGED <<locks, handshake, resources>>

AuthTake(p) ==
  /\ authLock = "none"
  /\ authLock' = p
  /\ \/ pc[p] = "authWant" /\ Goto(p, "authHeld")
     \/ pc[p] = "chunkWant" /\ Goto(p, "chunkHeld")
  /\ UNCHANGED <<registryLock, handshake, resources>>

\* Under the registry lock: sessions may expire or be revoked, then release.
AuthGiveInRegistry(p) ==
  /\ pc[p] = "authHeld" /\ registryLock = p
  /\ session' \in {session, FALSE}
  /\ authLock' = "none"
  /\ Goto(p, "held")
  /\ UNCHANGED <<registryLock, handshake, enabled, servers, radio>>

-----------------------------------------------------------------------------
(* A request on the server task.                                           *)

\* While startServer() registers its URIs the first ones already answer.
Request ==
  /\ pc["http"] = "idle"
  /\ RequestInUnwind \/ pc["loop"] # "unwind"
  /\ Goto("http", "authWant")
  /\ UNCHANGED <<locks, handshake, resources>>

\* POST and DELETE /api/session: a session is minted, refused or ended, with
\* no registry call.
Pair ==
  /\ pc["http"] = "authHeld" /\ registryLock # "http"
  /\ session' \in BOOLEAN
  /\ authLock' = "none"
  /\ Goto("http", "idle")
  /\ UNCHANGED <<registryLock, handshake, enabled, servers, radio>>

\* authenticate(): 401, or on to the handler's registry call.
Authenticated ==
  /\ pc["http"] = "authHeld" /\ registryLock # "http"
  /\ Goto("http", IF session THEN "authed" ELSE "idle")
  /\ authLock' = "none"
  /\ UNCHANGED <<registryLock, handshake, resources>>

\* enterRegistry(), first half.
EnterCount ==
  /\ pc["http"] = "authed"
  /\ inRegistry' = inRegistry + 1
  /\ Goto("http", "entering")
  /\ UNCHANGED <<locks, stopping, pending, resources>>

\* Mutant of EnterCheck: stopping_ not looked at.
EnterUnchecked ==
  /\ pc["http"] = "entering"
  /\ Goto("http", "want")
  /\ UNCHANGED <<locks, handshake, resources>>

\* enterRegistry(), second half: 503, a dispatch or list, or an upload, which
\* runs between enterRegistry() and exitRegistry() without the registry lock.
EnterCheck ==
  /\ pc["http"] = "entering"
  /\ \/ stopping /\ Goto("http", "leaving")
     \/ ~stopping /\ \E l \in {"want", "upload"} : Goto("http", l)
  /\ UNCHANGED <<locks, handshake, resources>>

\* otaRead() and otaStillAuthorised() look the session up for every chunk.
UploadChunk ==
  /\ pc["http"] = "upload"
  /\ Goto("http", "chunkWant")
  /\ UNCHANGED <<locks, handshake, resources>>

UploadAuthorised ==
  /\ pc["http"] = "chunkHeld"
  /\ authLock' = "none"
  /\ Goto("http", IF session THEN "upload" ELSE "leaving")
  /\ UNCHANGED <<registryLock, handshake, resources>>

\* Complete, failed, timed out, or told to stop by stopping_.
UploadEnd ==
  /\ pc["http"] = "upload"
  /\ Goto("http", "leaving")
  /\ UNCHANGED <<locks, handshake, resources>>

\* exitRegistry(), or the decrement of the 503 path; then the response.
Leave ==
  /\ pc["http"] = "leaving"
  /\ inRegistry' = inRegistry - 1
  /\ Goto("http", "idle")
  /\ UNCHANGED <<locks, stopping, pending, resources>>

-----------------------------------------------------------------------------
(* httpEnable(), on whichever task dispatches `enable http`.               *)

\* Refused while a teardown is pending: no state changes.
MayStart == ~enabled /\ ~pending

\* The buffers, the AP and the server task, which may answer at once, before
\* this call has released the registry lock.  The failures before httpd_start
\* undo what they did.
Start(p) ==
  /\ pc[p] = "held"
  /\ MayStart
  /\ enabled' = TRUE
  /\ servers' = servers + 1
  /\ radio' = TRUE
  /\ pc' = IF pc["http"] = "down" THEN [pc EXCEPT !["http"] = "idle"] ELSE pc
  /\ UNCHANGED <<locks, handshake, session>>

\* startServer() fails after httpd_start(): httpd_stop() at once, the registry
\* lock held and stopping_ never set.
StartFails(p) ==
  /\ pc[p] = "held" /\ pc["http"] = "down"
  /\ MayStart
  /\ servers' = servers + 1
  /\ radio' = TRUE
  /\ pc' = [pc EXCEPT !["http"] = "idle", ![p] = "unwind"]
  /\ UNCHANGED <<locks, handshake, enabled, session>>

Unwind(p) ==
  /\ pc[p] = "unwind" /\ pc["http"] = "idle"
  /\ servers' = servers - 1
  /\ radio' = FALSE
  /\ pc' = [pc EXCEPT !["http"] = "down", ![p] = "held"]
  /\ UNCHANGED <<locks, handshake, enabled, session>>

-----------------------------------------------------------------------------
(* httpDisable() and the teardown.                                         *)

\* stopping_ is stored.  Registry::disable() calls us only when enabled.
StopStore(p) ==
  /\ pc[p] = "held" /\ enabled
  /\ stopping' = TRUE
  /\ Goto(p, "stopping")
  /\ UNCHANGED <<locks, inRegistry, pending, resources>>

\* Mutant of StopDecide: joins whatever the count says.
StopDecideBlind(p) ==
  /\ pc[p] = "stopping"
  /\ Goto(p, "join")
  /\ UNCHANGED <<locks, handshake, resources>>

\* inRegistry_ is read: join now, or leave it to the scheduler and report
\* success, on which stopModule() drops the module and its claims.
StopDecide(p) ==
  /\ pc[p] = "stopping"
  /\ \/ /\ inRegistry = 0
        /\ Goto(p, "join")
        /\ UNCHANGED <<pending, enabled>>
     \/ /\ inRegistry # 0
        /\ pending' = TRUE
        /\ enabled' = FALSE
        /\ Goto(p, "held")
  /\ UNCHANGED <<locks, stopping, inRegistry, servers, radio, session>>

\* Mutant of Poll: the teardown polled from the module's own tick, under the
\* registry lock.
PollAsTick ==
  /\ pc["loop"] = "held" /\ enabled
  /\ pending
  /\ Goto("loop", "join")
  /\ UNCHANGED <<locks, handshake, resources>>

\* deferredTeardownPoll(), a plain scheduler task: no lock.
Poll ==
  /\ pc["loop"] = "idle"
  /\ pending
  /\ Goto("loop", "join")
  /\ UNCHANGED <<locks, handshake, resources>>

\* Mutant of Teardown: sessions kept.
TeardownKeepsSessions(p) ==
  /\ pc[p] = "join" /\ pc["http"] = "idle"
  /\ pc' = [pc EXCEPT !["http"] = "down",
                      ![p] = IF registryLock = p THEN "held" ELSE "idle"]
  /\ servers' = servers - 1
  /\ radio' = FALSE
  /\ enabled' = FALSE
  /\ pending' = FALSE
  /\ stopping' = FALSE
  /\ UNCHANGED <<locks, inRegistry, session>>

\* teardownNow(): httpd_stop() returns once the server task is between two
\* requests, and the rest runs with nobody left to see it.
Teardown(p) ==
  /\ pc[p] = "join" /\ pc["http"] = "idle"
  /\ pc' = [pc EXCEPT !["http"] = "down",
                      ![p] = IF registryLock = p THEN "held" ELSE "idle"]
  /\ servers' = servers - 1
  /\ radio' = FALSE
  /\ session' = FALSE
  /\ enabled' = FALSE
  /\ pending' = FALSE
  /\ stopping' = FALSE
  /\ UNCHANGED <<locks, inRegistry>>

-----------------------------------------------------------------------------

Init ==
  /\ pc = [loop |-> "idle", http |-> "down"]
  /\ registryLock = "none" /\ authLock = "none"
  /\ stopping = FALSE /\ inRegistry = 0 /\ pending = FALSE
  /\ enabled = FALSE /\ servers = 0 /\ radio = FALSE /\ session = FALSE

\* What a task does inside the registry lock.
Command(p) ==
  \/ ConsultSessions(p) \/ AuthGiveInRegistry(p)
  \/ Start(p) \/ StartFails(p) \/ Unwind(p)
  \/ StopStore(p) \/ StopDecide(p)

Handler ==
  \/ Pair \/ Authenticated \/ EnterCount \/ EnterCheck
  \/ UploadChunk \/ UploadAuthorised \/ UploadEnd \/ Leave

Next ==
  \/ LoopWork \/ Poll \/ Request \/ Handler
  \/ \E p \in Task : Take(p) \/ Give(p) \/ AuthTake(p) \/ Command(p) \/ Teardown(p)

Spec == Init /\ [][Next]_vars

\* Both tasks run, and a command ends after finitely many looks at the session
\* table (SF on Give), an upload by OtaUpload's two timeouts.  A mutex released
\* again and again goes to the waiting server task, which has the higher
\* priority; the loop task is only assumed to get one that stays free.  A pass
\* of the loop runs every due task, so the poll's turn comes, and httpd looks
\* at its control socket between two requests, so the join's turn comes.
Fairness ==
  /\ \A p \in Task : SF_vars(Give(p)) /\ WF_vars(AuthGiveInRegistry(p))
                     /\ WF_vars(StopDecide(p)) /\ WF_vars(Unwind(p))
                     /\ SF_vars(Teardown(p)) /\ SF_vars(AuthTake(p))
  /\ WF_vars(Take("loop")) /\ SF_vars(Take("http"))
  /\ SF_vars(Poll)
  /\ WF_vars(Authenticated) /\ WF_vars(EnterCount) /\ WF_vars(EnterCheck)
  /\ SF_vars(UploadEnd) /\ WF_vars(UploadAuthorised) /\ WF_vars(Leave)

FairSpec == Spec /\ Fairness

-----------------------------------------------------------------------------
(* Properties.                                                             *)

\* Type invariant.
TypeOK ==
  /\ pc \in [Task -> LoopPc \cup HttpPc]
  /\ pc["loop"] \in LoopPc
  /\ pc["http"] \in HttpPc
  /\ registryLock \in Task \cup {"none"}
  /\ authLock \in Task \cup {"none"}
  /\ stopping \in BOOLEAN /\ pending \in BOOLEAN
  /\ inRegistry \in 0..1
  /\ enabled \in BOOLEAN /\ radio \in BOOLEAN /\ session \in BOOLEAN
  /\ servers \in 0..1

\* Task p cannot go on before task q does something.
WaitsFor(p, q) ==
  \/ pc[p] = "want" /\ registryLock = q
  \/ pc[p] \in {"authWant", "chunkWant"} /\ authLock = q
  \/ pc[p] \in {"join", "unwind"} /\ q = "http" /\ pc["http"] # "idle"

\* The two tasks never wait on each other: not the join against the registry
\* lock (the shutdown note, mod_http.cpp:429-461), not authLock_ against it (the
\* lock order, lines 68-92), and no task joins itself.
NoCircularWait ==
  /\ ~(WaitsFor("loop", "http") /\ WaitsFor("http", "loop"))
  /\ \A p \in Task : ~WaitsFor(p, p)

\* A running handler has its buffers and its server handle: there is a server
\* exactly while the server task exists, and never two, however a disable, a
\* deferred teardown and an enable from either task interleave.
OneServer == servers = (IF pc["http"] = "down" THEN 0 ELSE 1)

\* Whenever no call is in progress, the module the registry shows as enabled
\* really serves: radio and server up, and no handler is turned away.
EnabledServes ==
  registryLock = "none" /\ enabled => radio /\ servers = 1 /\ ~stopping /\ ~pending

\* What is left after a teardown is the state before the first enable: in
\* particular no session of the old AP is valid on the next one.
NothingLeftBehind ==
  servers = 0 => /\ ~session /\ ~radio /\ ~enabled
                 /\ ~stopping /\ ~pending /\ inRegistry = 0

\* A teardown left to the scheduler happens, although the request that made it
\* necessary, and later ones, may still be running.
TeardownHappens == pending ~> (servers = 0 /\ ~pending)

\* Every request is answered, the one that disables its own transport included.
RequestAnswered ==
  (pc["http"] \notin {"idle", "down"}) ~> (pc["http"] \in {"idle", "down"})
=============================================================================
