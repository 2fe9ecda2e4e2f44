------------------------------ MODULE Sessions ------------------------------
(***************************************************************************)
(* Pairing and the one session (firmware/src/mod_http.cpp, ratelimit.h,    *)
(* pinpolicy.h, apgrace.h, pairing.h): how a PIN opens a session, is spent *)
(* by it and replaced, how wrong guesses are priced, how a session ends,   *)
(* and what the panel shows meanwhile.                                     *)
(*                                                                         *)
(* The server task and the loop task share this state under authLock_.     *)
(* One action is one acquisition of it, so what another task may do        *)
(* between two acquisitions of one handler or of one tick is all here.     *)
(* A PIN is the number of its mint; a session is the PIN that opened it.   *)
(* Clocks are abstract: a deadline is pending until Elapse passes it.      *)
(***************************************************************************)
EXTENDS Naturals

CONSTANTS
  MaxFails,     \* RateLimit::MAX_FAILS
  MaxPin        \* bound: PINs minted in one run

ASSUME BoundAssumption == MaxFails \in Nat \ {0} /\ MaxPin \in Nat

VARIABLES
  up,          \* apUp_, with the server running
  subscribed,  \* Pairing::subscribed_: the display wants the PIN
  station,     \* the one station AP_MAX_CLIENTS allows is associated
  pin,         \* pin_, as the number of its mint
  session,     \* the session table, or 0
  aged,        \* that session is past its idle or absolute lifetime
  limit,       \* pinLimit_: fails, lock, wait
  grace,       \* grace_: "off" | "armed" | "due" | "fired"
  panel,       \* Pairing::pin_, or 0
  hp, held,    \* the server task's handler, and the PIN or session it holds
  lp, sample,  \* the loop task's tick or command, and the station count it read
  spent,       \* history: the newest PIN that opened a session
  shown,       \* history: the newest PIN ever shown
  misses,      \* history: wrong guesses at the current PIN
  burst,       \* history: wrong guesses since time, success or owner forgave
  graceFor,    \* history: the session the grace clock was started for
  floor,       \* history: the PIN minted by the owner's last regenerate
  drew         \* history: every draw of makePin() and makeToken() succeeded

radioVars == <<up, subscribed, station>>
clockVars == <<grace, graceFor>>
guessVars == <<limit, misses, burst, drew>>
httpVars == <<hp, held>>
loopVars == <<lp, sample>>
panelVars == <<panel, shown>>
pinVars == <<pin, session, aged, spent>>

vars == <<radioVars, pinVars, guessVars, clockVars, panelVars, httpVars,
          loopVars, floor>>

Pins == 1 .. MaxPin

Limit == [fails : 0 .. MaxFails, lock : {"no", "serving", "served"}, wait : {"no", "on", "over"}]

Fresh == [fails |-> 0, lock |-> "no", wait |-> "no"]

\* PINs that work in progress may still mint: a session at its use and its end.
Owed ==
  (IF session # 0 THEN 1 ELSE 0) + (IF lp = "mint" \/ lp = "tickMint" THEN 1 ELSE 0)
  + (CASE hp = "accepted" -> 2 [] hp \in {"created", "rotating"} -> 1 [] OTHER -> 0)

\* Bound: nothing new begins unless MaxPin leaves room for it to finish.
Room(n) == pin + Owed + n =< MaxPin

\* Bound: the two histories of wrong guesses stop counting past the budget.
Count(n) == IF n > MaxFails THEN n ELSE n + 1

\* mintPinLocked(): on failure the old PIN stays, with its m wrong guesses.
Mint(ok, m) ==
  /\ pin' = IF ok THEN pin + 1 ELSE pin
  /\ misses' = IF ok THEN 0 ELSE m
  /\ drew' = (drew /\ ok)

-----------------------------------------------------------------------------
(* The limiter.                                                            *)

\* RateLimit::check() clears what has been served and then decides.
Served(l) ==
  IF l.lock = "served" THEN Fresh
  ELSE IF l.wait = "over" THEN [l EXCEPT !.wait = "no"] ELSE l

Allows(l) == l.lock # "serving" /\ l.wait # "on"

\* RateLimit::fail()
Failed(l) ==
  LET trips == l.fails + 1 >= MaxFails IN
    [fails |-> l.fails + 1, lock |-> IF trips THEN "serving" ELSE "no",
     wait |-> IF trips THEN "no" ELSE "on"]

-----------------------------------------------------------------------------
(* POST /api/session.                                                      *)

\* An attempt the limiter does not allow is answered 429 and changes nothing.

\* The right PIN: PinPolicy::afterAttempt() clears the limiter.
AttemptRight ==
  /\ up /\ station /\ hp = "idle" /\ Room(2)
  /\ Allows(limit)
  /\ limit' = Fresh
  /\ burst' = 0
  /\ hp' = "accepted" /\ held' = pin
  /\ UNCHANGED <<radioVars, pinVars, misses, drew, clockVars, panelVars, loopVars, floor>>

\* Mutant of AttemptWrong: the lockout mints nothing.
AttemptWrongUnminted ==
  /\ up /\ station /\ hp = "idle" /\ Room(1)
  /\ Allows(limit)
  /\ limit' = Failed(Served(limit))
  /\ burst' = Count(burst)
  /\ misses' = Count(misses)
  /\ UNCHANGED <<radioVars, pinVars, drew, clockVars, panelVars, httpVars, loopVars, floor>>

\* Any other candidate, a PIN that was replaced included.  The guess that trips
\* the lockout mints, and the limiter keeps its failures.
AttemptWrong ==
  /\ up /\ station /\ hp = "idle" /\ Room(1)
  /\ Allows(limit)
  /\ limit' = Failed(Served(limit))
  /\ burst' = Count(burst)
  /\ IF limit'.lock = "serving"
     THEN \E ok \in BOOLEAN : Mint(ok, Count(misses))
     ELSE misses' = Count(misses) /\ UNCHANGED <<pin, drew>>
  /\ UNCHANGED <<radioVars, session, aged, spent, clockVars, panelVars,
                 httpVars, loopVars, floor>>

\* Mutant of CreateSession: the new session inherits the grace clock.
CreateSessionOldClock ==
  /\ hp = "accepted"
  /\ session' = held /\ aged' = FALSE /\ spent' = held
  /\ hp' = "created"
  /\ UNCHANGED <<radioVars, pin, held, guessVars, clockVars, panelVars, loopVars, floor>>

\* createSession(): the table holds one, so a live session is evicted.  When
\* the token cannot be drawn the PIN is not spent.
CreateSession ==
  /\ hp = "accepted"
  /\ \/ /\ session' = held /\ aged' = FALSE /\ spent' = held
        /\ hp' = "created"
        /\ grace' = "off" /\ graceFor' = 0
        /\ UNCHANGED drew
     \/ /\ drew' = FALSE
        /\ session' = (IF aged THEN 0 ELSE session) /\ aged' = FALSE
        /\ hp' = "idle"
        /\ UNCHANGED <<spent, clockVars>>
  /\ UNCHANGED <<radioVars, pin, held, limit, misses, burst, panelVars, loopVars, floor>>

\* Mutant of ConsumePin: pairing does not spend the PIN.
ConsumePinNot ==
  /\ hp = "created"
  /\ hp' = "idle"
  /\ UNCHANGED <<radioVars, pinVars, held, guessVars, clockVars, panelVars,
                 loopVars, floor>>

\* The PIN that paired is replaced, in an acquisition of its own.
ConsumePin ==
  /\ hp = "created"
  /\ \E ok \in BOOLEAN : Mint(ok, misses)
  /\ hp' = "idle"
  /\ UNCHANGED <<radioVars, session, aged, spent, held, limit, burst, clockVars,
                 panelVars, loopVars, floor>>

-----------------------------------------------------------------------------
(* DELETE /api/session, three acquisitions: authenticate(), which reaps,   *)
(* revokeSession() and rotateAfterRevocation().  `sessions revoke` over     *)
(* HTTP is the last two under the registry lock, with fewer interleavings. *)

DeleteAuthenticate ==
  /\ up /\ station /\ hp = "idle" /\ session # 0
  /\ session' = (IF aged THEN 0 ELSE session) /\ aged' = FALSE
  /\ IF aged THEN UNCHANGED httpVars ELSE hp' = "deleting" /\ held' = session
  /\ UNCHANGED <<radioVars, pin, spent, guessVars, clockVars, panelVars, loopVars, floor>>

\* Only a session that was still there counts as revoked.
DeleteRevoke ==
  /\ hp = "deleting"
  /\ IF session = held
     THEN session' = 0 /\ aged' = FALSE /\ hp' = "rotating"
     ELSE hp' = "idle" /\ UNCHANGED <<session, aged>>
  /\ UNCHANGED <<radioVars, pin, spent, held, guessVars, clockVars, panelVars, loopVars, floor>>

DeleteRotate ==
  /\ hp = "rotating"
  /\ \E ok \in BOOLEAN : Mint(ok, misses)
  /\ hp' = "idle"
  /\ UNCHANGED <<radioVars, session, aged, spent, held, limit, burst, clockVars,
                 panelVars, loopVars, floor>>

-----------------------------------------------------------------------------
(* httpTick() on the loop task, every 250 ms while the module is enabled.  *)

\* The station count is read before any lock is taken.
TickSample ==
  /\ up /\ lp = "idle"
  /\ sample' = station
  /\ lp' = "sampled"
  /\ UNCHANGED <<radioVars, pinVars, guessVars, clockVars, panelVars, httpVars, floor>>

\* Mutant of TickGrace: the deadline is moved by every tick.
TickGraceRearms ==
  /\ lp = "sampled"
  /\ LET live == session # 0 /\ ~aged IN
       /\ session' = (IF live THEN session ELSE 0)
       /\ aged' = FALSE
       /\ grace' = IF sample \/ ~live THEN "off" ELSE "armed"
       /\ graceFor' = IF sample \/ ~live THEN 0 ELSE session
  /\ lp' = "show"
  /\ UNCHANGED <<radioVars, pin, spent, guessVars, panelVars, httpVars, sample, floor>>

\* reapLocked(), then ApGrace::update() on the sampled count.
TickGrace ==
  /\ lp = "sampled"
  /\ LET live == session # 0 /\ ~aged
         ends == live /\ ~sample /\ grace = "due"
     IN  /\ session' = (IF live /\ ~ends THEN session ELSE 0)
         /\ aged' = FALSE
         /\ grace' = CASE sample \/ ~live -> "off"
                       [] ends            -> "fired"
                       [] OTHER           -> IF grace = "off" THEN "armed" ELSE grace
         /\ graceFor' = CASE sample \/ ~live -> 0
                          [] OTHER -> IF grace = "off" THEN session ELSE graceFor
         /\ lp' = IF ends THEN "tickMint" ELSE "show"
  /\ UNCHANGED <<radioVars, pin, spent, guessVars, panelVars, httpVars, sample, floor>>

\* rotateAfterRevocation(), by the tick or by the end of RevokeAll.
LoopMint ==
  /\ lp \in {"tickMint", "mint"}
  /\ \E ok \in BOOLEAN : Mint(ok, misses)
  /\ lp' = IF lp = "tickMint" THEN "show" ELSE "idle"
  /\ UNCHANGED <<radioVars, session, aged, spent, limit, burst, clockVars, panelVars,
                 httpVars, sample, floor>>

\* Mutants of TickShow: it decides by the station count instead of the session
\* table; it does not republish over a PIN that is already there.
TickShowStale ==
  /\ lp = "show"
  /\ panel' = IF ~sample /\ subscribed THEN pin ELSE 0
  /\ shown' = IF panel' > shown THEN panel' ELSE shown
  /\ lp' = "idle"
  /\ UNCHANGED <<radioVars, pinVars, guessVars, clockVars, httpVars, sample, floor>>

TickShowOnce ==
  /\ lp = "show"
  /\ panel' = IF session # 0 THEN 0 ELSE IF subscribed /\ panel = 0 THEN pin ELSE panel
  /\ shown' = IF panel' > shown THEN panel' ELSE shown
  /\ lp' = "idle"
  /\ UNCHANGED <<radioVars, pinVars, guessVars, clockVars, httpVars, sample, floor>>

\* The second acquisition: publish or withdraw, on what holds now.  Which of
\* the two codes goes beside the PIN is left out.
TickShow ==
  /\ lp = "show"
  /\ panel' = IF session = 0 /\ subscribed THEN pin ELSE 0
  /\ shown' = IF panel' > shown THEN panel' ELSE shown
  /\ lp' = "idle"
  /\ UNCHANGED <<radioVars, pinVars, guessVars, clockVars, httpVars, sample, floor>>

-----------------------------------------------------------------------------
(* Commands, on the loop task.                                             *)

\* `sessions revoke` and the cull in `psk set`: the revocation, then LoopMint.
RevokeAll ==
  /\ up /\ lp = "idle" /\ session # 0
  /\ session' = 0 /\ aged' = FALSE
  /\ lp' = "mint"
  /\ UNCHANGED <<radioVars, pin, spent, guessVars, clockVars, panelVars, httpVars,
                 sample, floor>>

\* `pin regenerate:true`, one acquisition.  A failed mint changes nothing.
Regenerate ==
  /\ up /\ lp = "idle" /\ Room(1)
  /\ Mint(TRUE, misses)
  /\ session' = 0 /\ aged' = FALSE
  /\ limit' = Fresh /\ burst' = 0
  /\ floor' = pin'
  /\ UNCHANGED <<radioVars, spent, clockVars, panelVars, httpVars, loopVars>>

\* httpEnable(): loadOrCreateCredentials() mints.  The limiter is not touched.
Start ==
  /\ ~up /\ lp = "idle" /\ Room(1)
  /\ up' = TRUE
  /\ Mint(TRUE, misses)
  /\ UNCHANGED <<subscribed, station, session, aged, spent, limit, burst, clockVars,
                 panelVars, httpVars, loopVars, floor>>

\* teardownNow(), after the server task was joined.
Stop ==
  /\ up /\ lp = "idle" /\ hp = "idle"
  /\ up' = FALSE /\ station' = FALSE
  /\ session' = 0 /\ aged' = FALSE
  /\ grace' = "off" /\ graceFor' = 0
  /\ panel' = 0
  /\ UNCHANGED <<subscribed, pin, spent, guessVars, shown, httpVars, loopVars, floor>>

\* Pairing::subscribe() from the display's enable() and disable(), which hold
\* the registry lock as the tick does.
Subscribe ==
  /\ lp = "idle"
  /\ subscribed' = ~subscribed
  /\ panel' = IF subscribed THEN 0 ELSE panel
  /\ UNCHANGED <<up, station, pinVars, guessVars, clockVars, shown, httpVars,
                 loopVars, floor>>

-----------------------------------------------------------------------------
(* The environment.                                                        *)

\* The phone joins or leaves; a request in progress goes on without it.
StationMoves ==
  /\ up
  /\ station' = ~station
  /\ UNCHANGED <<up, subscribed, pinVars, guessVars, clockVars, panelVars, httpVars,
                 loopVars, floor>>

\* Time passes a lifetime or a deadline.  No handler spans one: they are
\* seconds to minutes, and between its acquisitions a handler does no I/O.
SessionAges ==
  /\ hp = "idle" /\ session # 0 /\ ~aged
  /\ aged' = TRUE
  /\ UNCHANGED <<radioVars, pin, session, spent, guessVars, clockVars, panelVars, httpVars,
                 loopVars, floor>>

GraceDue ==
  /\ hp = "idle" /\ grace = "armed"
  /\ grace' = "due"
  /\ UNCHANGED <<radioVars, pinVars, guessVars, graceFor, panelVars, httpVars,
                 loopVars, floor>>

LimitPasses ==
  /\ \/ limit.lock = "serving" /\ limit' = [limit EXCEPT !.lock = "served"] /\ burst' = 0
     \/ limit.wait = "on" /\ limit' = [limit EXCEPT !.wait = "over"] /\ UNCHANGED burst
  /\ UNCHANGED <<radioVars, pinVars, misses, drew, clockVars, panelVars, httpVars,
                 loopVars, floor>>

Elapse == SessionAges \/ GraceDue \/ LimitPasses

-----------------------------------------------------------------------------

Init ==
  /\ up = FALSE /\ subscribed = FALSE /\ station = FALSE
  /\ pin = 0 /\ session = 0 /\ aged = FALSE /\ spent = 0
  /\ limit = Fresh /\ misses = 0 /\ burst = 0
  /\ grace = "off" /\ graceFor = 0
  /\ panel = 0 /\ shown = 0
  /\ hp = "idle" /\ held = 0 /\ lp = "idle" /\ sample = FALSE
  /\ floor = 0 /\ drew = TRUE

Handler ==
  \/ AttemptRight \/ AttemptWrong \/ CreateSession \/ ConsumePin
  \/ DeleteAuthenticate \/ DeleteRevoke \/ DeleteRotate

Loop ==
  \/ TickSample \/ TickGrace \/ LoopMint \/ TickShow
  \/ RevokeAll \/ Regenerate \/ Start \/ Stop \/ Subscribe

Next == Handler \/ Loop \/ StationMoves \/ Elapse

Spec == Init /\ [][Next]_vars

\* The tick is a scheduler task and a handler, once begun, runs on; the ninety
\* seconds of an armed grace clock pass.  Nobody need send a request.
Fairness ==
  /\ WF_vars(TickSample) /\ WF_vars(TickGrace) /\ WF_vars(LoopMint) /\ WF_vars(TickShow)
  /\ WF_vars(CreateSession) /\ WF_vars(ConsumePin)
  /\ WF_vars(DeleteRevoke) /\ WF_vars(DeleteRotate)
  /\ SF_vars(GraceDue)

FairSpec == Spec /\ Fairness

-----------------------------------------------------------------------------
(* Properties.  A mint that fails leaves the old PIN in force and is only   *)
(* logged, so what rests on minting is promised while draws succeed.       *)

\* Type invariant.
TypeOK ==
  /\ up \in BOOLEAN /\ subscribed \in BOOLEAN /\ station \in BOOLEAN
  /\ pin \in 0 .. MaxPin /\ session \in 0 .. MaxPin /\ aged \in BOOLEAN
  /\ limit \in Limit
  /\ grace \in {"off", "armed", "due", "fired"}
  /\ panel \in 0 .. MaxPin
  /\ hp \in {"idle", "accepted", "created", "deleting", "rotating"}
  /\ held \in 0 .. MaxPin
  /\ lp \in {"idle", "sampled", "tickMint", "show", "mint"} /\ sample \in BOOLEAN
  /\ spent \in 0 .. MaxPin /\ shown \in 0 .. MaxPin /\ floor \in 0 .. MaxPin
  /\ misses \in 0 .. MaxFails + 1 /\ burst \in 0 .. MaxFails + 1
  /\ graceFor \in 0 .. MaxPin /\ drew \in BOOLEAN

\* "A PIN that has opened a session cannot open a second one" (authfmt.h:54-55),
\* with the mint that spends it in a later acquisition than the session's.
SingleUse == [][drew /\ hp = "accepted" /\ hp' = "created" => held > spent]_vars

\* While a session lives, the PIN that would evict it has never been on the
\* panel (mod_http.cpp:2143-2149, the takeover hole), whichever of the four
\* mints made it and whatever the tick was doing.
TakeoverClosed == drew /\ session # 0 /\ hp = "idle" => pin > shown

\* The panel never starts to show a PIN that has opened a session, although
\* ending a session, minting and publishing are three acquisitions of two tasks
\* (mod_http.cpp:1535-1542).
NeverShowsSpent == [][drew /\ panel' \notin {0, panel} => panel' > spent']_vars

\* No PIN is guessed at more than MAX_FAILS times, whatever pairs, rotates,
\* stops or starts in between: progress against one PIN never accumulates
\* (authfmt.h:50-53).
PinBudget == drew => misses =< MaxFails

\* The owner and time aside, no lockout period sees more than MAX_FAILS guesses,
\* however many PINs are minted in it: minting is not forgiving (pinpolicy.h).
LockoutStands == burst =< MaxFails

\* The grace clock that may end a session was started for that session: one
\* that evicted another inherits nothing (mod_http.cpp:1014-1023).
GraceBelongs == session # 0 /\ grace \in {"armed", "due"} => graceFor = session

\* A session nobody is associated for ends, or its phone returns.
GraceEnds == (session # 0 /\ ~station) ~> (session = 0 \/ station)

\* An unpaired device comes to show the PIN that works now.
PanelCatchesUp ==
  (up /\ subscribed /\ session = 0) ~> (panel = pin \/ ~up \/ ~subscribed \/ session # 0)

\* "issue a NEW pairing PIN and revoke every session" (mod_http.cpp:4139): no
\* session opened by an older PIN is live afterwards.
RegenerateIsFinal == session # 0 => session >= floor
=============================================================================
