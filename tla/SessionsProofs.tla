--------------------------- MODULE SessionsProofs ---------------------------
(***************************************************************************)
(* Pairing, for every MAX_FAILS and every number of PINs.  What holds      *)
(* whatever the random generator does is proved from Accounts; what rests  *)
(* on mints that succeed is proved from Secrets on top of it.              *)
(***************************************************************************)
EXTENDS Sessions, TLAPS

\* What is reserved for work in progress fits the bound on PINs.
Reserved == pin + Owed =< MaxPin

\* Every PIN in use was minted, and a module that is down has no work.
Minted ==
  /\ spent =< pin /\ shown =< pin /\ held =< pin /\ session =< spent
  /\ panel =< shown /\ floor =< pin /\ graceFor =< pin
  /\ ~up => session = 0 /\ hp = "idle" /\ lp = "idle"
  /\ hp = "deleting" => held # 0

\* The guesses of a lockout period are counted by the limiter.
BurstCounted ==
  /\ limit.lock = "no" => limit.fails < MaxFails
  /\ burst =< (IF limit.lock = "served" THEN 0 ELSE limit.fails)

Accounts == TypeOK /\ Reserved /\ Minted /\ BurstCounted /\ GraceBelongs

\* The current PIN has not opened a session, except between a session's
\* creation and the mint that spends the PIN.
PinUnspent ==
  /\ up /\ hp # "created" => pin > spent
  /\ hp = "accepted" => held > spent
  /\ hp = "created" => held = spent

\* In that gap the session is still there, or a rotation is under way.
GapCovered ==
  hp = "created" =>
    \/ pin > spent
    \/ lp = "mint"
    \/ session # 0 /\ ~aged /\ grace # "due"

\* While a session lives the panel has never shown the current PIN.
PinHidden == session # 0 /\ hp # "created" => pin > shown

\* The guesses at the current PIN are counted by the limiter, until it is used.
MissesCounted ==
  IF hp \in {"accepted", "created"}
  THEN misses =< MaxFails
  ELSE misses =< (IF limit.lock = "no" THEN limit.fails ELSE 0)

Secrets == PinUnspent /\ GapCovered /\ PinHidden /\ MissesCounted

IInv == Accounts /\ (drew => Secrets)

USE DEF radioVars, clockVars, guessVars, httpVars, loopVars, panelVars, pinVars

\* check() leaves a limiter that allows the attempt, with nothing pending.
LEMMA ServedAllows ==
  ASSUME NEW l \in Limit, l.lock = "no" => l.fails < MaxFails, Allows(l)
  PROVE  /\ Served(l) \in Limit
         /\ Served(l).lock = "no" /\ Served(l).fails < MaxFails
         /\ Served(l).fails = IF l.lock = "served" THEN 0 ELSE l.fails
<1>1. CASE l.lock = "served"
  BY <1>1, BoundAssumption DEF Fresh, Limit, Served
<1>2. CASE l.lock # "served" /\ l.wait = "over"
  <2>1. Served(l) = [l EXCEPT !.wait = "no"]
    BY <1>2 DEF Served
  <2> QED
    BY <1>2, <2>1, BoundAssumption DEF Limit, Allows
<1>3. CASE l.lock # "served" /\ l.wait # "over"
  BY <1>3, BoundAssumption DEF Limit, Served, Allows
<1> QED
  BY <1>1, <1>2, <1>3

\* fail() counts one failure and locks exactly at MAX_FAILS.
LEMMA FailedCounts ==
  ASSUME NEW l \in Limit, l.fails < MaxFails
  PROVE  /\ Failed(l) \in Limit
         /\ Failed(l).fails = l.fails + 1
         /\ \/ Failed(l).lock = "serving"
            \/ Failed(l).lock = "no" /\ Failed(l).fails < MaxFails
  BY BoundAssumption DEF Limit, Failed

\* The bounds contain what the actions assign outright.
LEMMA InBounds == 0 \in 0 .. MaxPin /\ 0 \in 0 .. MaxFails + 1 /\ Owed \in Nat
  BY BoundAssumption DEF Owed

\* A cleared limiter.
LEMMA FreshLimit == Fresh \in Limit /\ Fresh.lock = "no" /\ Fresh.fails = 0
  BY BoundAssumption DEF Fresh, Limit

\* The module before its first enable.
LEMMA AccountsInit == Init => Accounts
<1> SUFFICES ASSUME Init
             PROVE  Accounts
  OBVIOUS
<1>1. TypeOK
  BY FreshLimit, InBounds DEF Init, TypeOK
<1>2. Reserved
  BY BoundAssumption DEF Init, Reserved, Owed
<1>3. Minted /\ GraceBelongs
  BY DEF Init, Minted, GraceBelongs
<1>4. BurstCounted
  BY FreshLimit, BoundAssumption DEF Init, BurstCounted
<1> QED
  BY <1>1, <1>2, <1>3, <1>4 DEF Accounts

\* Whether or not a mint succeeds, the books balance.
LEMMA AccountsStep == Accounts /\ [Next]_vars => Accounts'
<1> SUFFICES ASSUME Accounts, [Next]_vars
             PROVE  Accounts'
  OBVIOUS
<1> USE FreshLimit, InBounds, BoundAssumption DEF Accounts, TypeOK, Reserved, Owed, Minted, BurstCounted, GraceBelongs,
            Room, Count
<1>1. CASE AttemptRight
  BY <1>1 DEF AttemptRight
<1>2. CASE AttemptWrong
  <2>1. Served(limit) \in Limit /\ Served(limit).fails < MaxFails
        /\ Served(limit).fails = (IF limit.lock = "served" THEN 0 ELSE limit.fails)
    BY <1>2, ServedAllows DEF AttemptWrong
  <2>2. /\ limit' \in Limit /\ limit'.fails = Served(limit).fails + 1
        /\ limit'.lock = "serving" \/ (limit'.lock = "no" /\ limit'.fails < MaxFails)
    BY <1>2, <2>1, FailedCounts DEF AttemptWrong
  <2>3. burst =< Served(limit).fails /\ burst' = burst + 1
    BY <1>2, <2>1 DEF AttemptWrong, Limit
  <2>4. misses' \in 0 .. MaxFails + 1 /\ pin' \in {pin, pin + 1}
    BY <1>2 DEF AttemptWrong, Mint
  <2>5. TypeOK'
    BY <1>2, <2>2, <2>3, <2>4 DEF AttemptWrong, Mint, Limit
  <2>6. Reserved' /\ Minted'
    BY <1>2, <2>4 DEF AttemptWrong
  <2>7. BurstCounted'
    <3>1. limit'.fails \in Nat
      BY <2>2 DEF Limit
    <3> QED
      BY <2>1, <2>2, <2>3, <3>1 DEF Limit
  <2>8. GraceBelongs'
    BY <1>2 DEF AttemptWrong
  <2> QED
    BY <2>5, <2>6, <2>7, <2>8
<1>3. CASE CreateSession
  <2>1. TypeOK'
    BY <1>3 DEF CreateSession
  <2>2. Reserved'
    BY <1>3 DEF CreateSession
  <2>3. Minted'
    BY <1>3 DEF CreateSession
  <2>4. BurstCounted'
    BY <1>3 DEF CreateSession
  <2>5. GraceBelongs'
    BY <1>3 DEF CreateSession
  <2> QED
    BY <2>1, <2>2, <2>3, <2>4, <2>5
<1>4. CASE ConsumePin
  BY <1>4 DEF ConsumePin, Mint
<1>5. CASE DeleteAuthenticate
  <2>1. TypeOK'
    BY <1>5 DEF DeleteAuthenticate
  <2>2. Reserved'
    BY <1>5 DEF DeleteAuthenticate
  <2>3. Minted'
    BY <1>5 DEF DeleteAuthenticate
  <2>4. BurstCounted'
    BY <1>5 DEF DeleteAuthenticate
  <2>5. GraceBelongs'
    BY <1>5 DEF DeleteAuthenticate
  <2> QED
    BY <2>1, <2>2, <2>3, <2>4, <2>5
<1>6. CASE DeleteRevoke
  <2>1. TypeOK' /\ Minted' /\ BurstCounted' /\ GraceBelongs'
    <3>1. CASE session = held
      <4>1. session' = 0 /\ aged' = FALSE /\ hp' = "rotating"
        BY <1>6, <3>1 DEF DeleteRevoke
      <4>2. TypeOK'
        BY <1>6, <4>1 DEF DeleteRevoke
      <4>3. Minted' /\ BurstCounted' /\ GraceBelongs'
        BY <1>6, <4>1 DEF DeleteRevoke
      <4> QED
        BY <4>2, <4>3
    <3>2. CASE session # held
      BY <1>6, <3>2 DEF DeleteRevoke
    <3> QED
      BY <3>1, <3>2
  <2>2. Owed' =< Owed
    <3>1. CASE session = held
      <4>1. session # 0 /\ session' = 0 /\ hp = "deleting" /\ hp' = "rotating" /\ lp' = lp
        BY <1>6, <3>1 DEF DeleteRevoke
      <4>2. Owed = 1 + (IF lp = "mint" \/ lp = "tickMint" THEN 1 ELSE 0)
        BY <4>1
      <4>3. Owed' = 1 + (IF lp = "mint" \/ lp = "tickMint" THEN 1 ELSE 0)
        BY <4>1
      <4> QED
        BY <4>2, <4>3
    <3>2. CASE session # held
      BY <1>6, <3>2 DEF DeleteRevoke
    <3> QED
      BY <3>1, <3>2
  <2>3. Reserved'
    BY <1>6, <2>2, InBounds DEF DeleteRevoke
  <2> QED
    BY <2>1, <2>3
<1>7. CASE DeleteRotate
  BY <1>7 DEF DeleteRotate, Mint
<1>8. CASE TickSample
  BY <1>8 DEF TickSample
<1>9. CASE TickGrace
  <2>1. TypeOK'
    BY <1>9 DEF TickGrace
  <2>2. Reserved'
    BY <1>9 DEF TickGrace
  <2>3. Minted'
    BY <1>9 DEF TickGrace
  <2>4. BurstCounted'
    BY <1>9 DEF TickGrace
  <2>5. GraceBelongs'
    BY <1>9 DEF TickGrace
  <2> QED
    BY <2>1, <2>2, <2>3, <2>4, <2>5
<1>10. CASE LoopMint
  BY <1>10 DEF LoopMint, Mint
<1>11. CASE TickShow
  BY <1>11 DEF TickShow
<1>12. CASE RevokeAll
  <2>1. TypeOK'
    BY <1>12 DEF RevokeAll
  <2>2. Reserved'
    BY <1>12 DEF RevokeAll
  <2>3. Minted'
    BY <1>12 DEF RevokeAll
  <2>4. BurstCounted'
    BY <1>12 DEF RevokeAll
  <2>5. GraceBelongs'
    BY <1>12 DEF RevokeAll
  <2> QED
    BY <2>1, <2>2, <2>3, <2>4, <2>5
<1>13. CASE Regenerate
  <2>1. pin + 1 \in 0 .. MaxPin
    BY <1>13 DEF Regenerate
  <2>2. TypeOK'
    BY <1>13, <2>1 DEF Regenerate, Mint
  <2>3. Reserved' /\ Minted' /\ BurstCounted' /\ GraceBelongs'
    BY <1>13 DEF Regenerate, Mint
  <2> QED
    BY <2>2, <2>3
<1>14. CASE Start
  BY <1>14 DEF Start, Mint
<1>15. CASE Stop
  <2>1. TypeOK'
    BY <1>15 DEF Stop
  <2>2. Reserved'
    BY <1>15 DEF Stop
  <2>3. Minted'
    BY <1>15 DEF Stop
  <2>4. BurstCounted'
    BY <1>15 DEF Stop
  <2>5. GraceBelongs'
    BY <1>15 DEF Stop
  <2> QED
    BY <2>1, <2>2, <2>3, <2>4, <2>5
<1>16. CASE Subscribe
  BY <1>16 DEF Subscribe
<1>17. CASE StationMoves
  BY <1>17 DEF StationMoves
<1>18. CASE SessionAges
  BY <1>18 DEF SessionAges
<1>19. CASE GraceDue
  BY <1>19 DEF GraceDue
<1>20. CASE LimitPasses
  <2>1. limit' \in Limit
    BY <1>20 DEF LimitPasses, Limit
  <2>2. burst' \in 0 .. MaxFails + 1 /\ BurstCounted'
    BY <1>20 DEF LimitPasses, Limit
  <2> QED
    BY <1>20, <2>1, <2>2 DEF LimitPasses
<1>21. CASE UNCHANGED vars
  BY <1>21 DEF vars
<1> QED
  BY <1>1, <1>2, <1>3, <1>4, <1>5, <1>6, <1>7, <1>8, <1>9, <1>10, <1>11, <1>12, <1>13, <1>14, <1>15, <1>16, <1>17, <1>18, <1>19, <1>20, <1>21 DEF Next, Handler, Loop, Elapse

\* A draw that failed is never forgotten.
LEMMA DrewStep == Accounts /\ [Next]_vars /\ drew' => drew
<1> SUFFICES ASSUME Accounts, [Next]_vars, drew'
             PROVE  drew
  OBVIOUS
<1> USE DEF Accounts, TypeOK
<1>1. CASE AttemptRight
  BY <1>1 DEF AttemptRight
<1>2. CASE AttemptWrong
  BY <1>2 DEF AttemptWrong, Mint
<1>3. CASE CreateSession
  BY <1>3 DEF CreateSession
<1>4. CASE ConsumePin
  BY <1>4 DEF ConsumePin, Mint
<1>5. CASE DeleteAuthenticate
  BY <1>5 DEF DeleteAuthenticate
<1>6. CASE DeleteRevoke
  BY <1>6 DEF DeleteRevoke
<1>7. CASE DeleteRotate
  BY <1>7 DEF DeleteRotate, Mint
<1>8. CASE TickSample
  BY <1>8 DEF TickSample
<1>9. CASE TickGrace
  BY <1>9 DEF TickGrace
<1>10. CASE LoopMint
  BY <1>10 DEF LoopMint, Mint
<1>11. CASE TickShow
  BY <1>11 DEF TickShow
<1>12. CASE RevokeAll
  BY <1>12 DEF RevokeAll
<1>13. CASE Regenerate
  BY <1>13 DEF Regenerate, Mint
<1>14. CASE Start
  BY <1>14 DEF Start, Mint
<1>15. CASE Stop
  BY <1>15 DEF Stop
<1>16. CASE Subscribe
  BY <1>16 DEF Subscribe
<1>17. CASE StationMoves
  BY <1>17 DEF StationMoves
<1>18. CASE SessionAges
  BY <1>18 DEF SessionAges
<1>19. CASE GraceDue
  BY <1>19 DEF GraceDue
<1>20. CASE LimitPasses
  BY <1>20 DEF LimitPasses
<1>21. CASE UNCHANGED vars
  BY <1>21 DEF vars
<1> QED
  BY <1>1, <1>2, <1>3, <1>4, <1>5, <1>6, <1>7, <1>8, <1>9, <1>10, <1>11, <1>12, <1>13, <1>14, <1>15, <1>16, <1>17, <1>18, <1>19, <1>20, <1>21 DEF Next, Handler, Loop, Elapse

\* The secrets are safe until a draw fails.
LEMMA SecretsStep == IInv /\ [Next]_vars /\ drew' => Secrets'
<1> SUFFICES ASSUME IInv, [Next]_vars, drew'
             PROVE  Secrets'
  OBVIOUS
<1> USE FreshLimit, InBounds, BoundAssumption DEF IInv, Accounts, Secrets, TypeOK, Minted, BurstCounted,
            PinUnspent, GapCovered, PinHidden, MissesCounted, Count
<1>0. /\ limit \in Limit /\ limit.fails \in Nat /\ limit.fails =< MaxFails
      /\ limit' \in Limit /\ limit'.fails \in Nat
  BY AccountsStep DEF Limit
<1>00. drew /\ Secrets
  BY DrewStep
<1>1. CASE AttemptRight
  <2>1. PinUnspent' /\ GapCovered' /\ PinHidden'
    BY <1>00, <1>1 DEF AttemptRight
  <2>2. MissesCounted'
    BY <1>00, <1>1, <1>0 DEF AttemptRight
  <2> QED
    BY <2>1, <2>2
<1>2. CASE AttemptWrong
  <2>1. /\ limit'.lock = "serving" => pin' = pin + 1 /\ misses' = 0
        /\ limit'.lock # "serving" => pin' = pin /\ misses' = Count(misses)
    <3>1. CASE limit'.lock = "serving"
      <4>1. PICK ok \in BOOLEAN : Mint(ok, Count(misses))
        BY <1>00, <1>2, <3>1, Zenon DEF AttemptWrong
      <4>2. ok
        BY <4>1, <1>00, Zenon DEF Mint
      <4> QED
        BY <3>1, <4>1, <4>2 DEF Mint
    <3>2. CASE limit'.lock # "serving"
      BY <1>00, <1>2, <3>2, Zenon DEF AttemptWrong
    <3> QED
      BY <3>1, <3>2
  <2>2. PinUnspent' /\ GapCovered' /\ PinHidden'
    <3>1. /\ pin' \in {pin, pin + 1} /\ hp = "idle"
          /\ UNCHANGED <<up, hp, session, spent, shown>>
      BY <1>00, <1>2, <2>1 DEF AttemptWrong
    <3> QED
      BY <3>1, <1>00
  <2>3. Served(limit) \in Limit /\ Served(limit).fails < MaxFails
        /\ Served(limit).fails = (IF limit.lock = "served" THEN 0 ELSE limit.fails)
    BY <1>00, <1>2, ServedAllows DEF AttemptWrong
  <2>4. limit'.fails = Served(limit).fails + 1 /\ limit'.lock \in {"serving", "no"}
    BY <1>00, <1>2, <2>3, FailedCounts DEF AttemptWrong
  <2>5. misses =< Served(limit).fails
    BY <1>00, <1>2, <1>0, <2>3 DEF AttemptWrong, Allows, Limit
  <2>6. hp' = "idle" /\ misses \in Nat /\ Served(limit).fails \in Nat
    BY <1>00, <1>2, <2>3 DEF AttemptWrong, Limit
  <2>7. misses' =< (IF limit'.lock = "no" THEN limit'.fails ELSE 0)
    BY <2>1, <2>3, <2>4, <2>5, <2>6
  <2>8. MissesCounted'
    BY <2>6, <2>7
  <2> QED
    BY <2>2, <2>8
<1>3. CASE CreateSession
  BY <1>00, <1>3 DEF CreateSession
<1>4. CASE ConsumePin
  <2>1. PinUnspent' /\ GapCovered' /\ PinHidden'
    BY <1>00, <1>4 DEF ConsumePin, Mint
  <2>2. MissesCounted'
    BY <1>00, <1>4, <1>0 DEF ConsumePin, Mint
  <2> QED
    BY <2>1, <2>2
<1>5. CASE DeleteAuthenticate
  BY <1>00, <1>5 DEF DeleteAuthenticate
<1>6. CASE DeleteRevoke
  BY <1>00, <1>6 DEF DeleteRevoke
<1>7. CASE DeleteRotate
  <2>1. PinUnspent' /\ GapCovered' /\ PinHidden'
    BY <1>00, <1>7 DEF DeleteRotate, Mint
  <2>2. MissesCounted'
    BY <1>00, <1>7, <1>0 DEF DeleteRotate, Mint
  <2> QED
    BY <2>1, <2>2
<1>8. CASE TickSample
  BY <1>00, <1>8 DEF TickSample
<1>9. CASE TickGrace
  BY <1>00, <1>9 DEF TickGrace
<1>10. CASE LoopMint
  <2>1. PinUnspent' /\ GapCovered' /\ PinHidden'
    BY <1>00, <1>10 DEF LoopMint, Mint
  <2>2. MissesCounted'
    BY <1>00, <1>10, <1>0 DEF LoopMint, Mint
  <2> QED
    BY <2>1, <2>2
<1>11. CASE TickShow
  BY <1>00, <1>11 DEF TickShow
<1>12. CASE RevokeAll
  BY <1>00, <1>12 DEF RevokeAll
<1>13. CASE Regenerate
  BY <1>00, <1>13 DEF Regenerate, Mint
<1>14. CASE Start
  <2>1. PinUnspent' /\ GapCovered' /\ PinHidden'
    BY <1>00, <1>14 DEF Start, Mint
  <2>2. MissesCounted'
    BY <1>00, <1>14, <1>0 DEF Start, Mint
  <2> QED
    BY <2>1, <2>2
<1>15. CASE Stop
  BY <1>00, <1>15 DEF Stop
<1>16. CASE Subscribe
  BY <1>00, <1>16 DEF Subscribe
<1>17. CASE StationMoves
  BY <1>00, <1>17 DEF StationMoves
<1>18. CASE SessionAges
  BY <1>00, <1>18 DEF SessionAges
<1>19. CASE GraceDue
  BY <1>00, <1>19 DEF GraceDue
<1>20. CASE LimitPasses
  <2>1. PinUnspent' /\ GapCovered' /\ PinHidden'
    BY <1>00, <1>20 DEF LimitPasses
  <2>2. limit.lock = "no" => limit'.lock = "no" /\ limit'.fails = limit.fails
    BY <1>00, <1>20, <1>0 DEF LimitPasses, Limit
  <2>3. MissesCounted'
    BY <1>00, <1>20, <1>0, <2>2 DEF LimitPasses
  <2> QED
    BY <2>1, <2>3
<1>21. CASE UNCHANGED vars
  BY <1>00, <1>21 DEF vars
<1> QED
  BY <1>00, <1>1, <1>2, <1>3, <1>4, <1>5, <1>6, <1>7, <1>8, <1>9, <1>10, <1>11, <1>12, <1>13, <1>14, <1>15, <1>16, <1>17, <1>18, <1>19, <1>20, <1>21 DEF Next, Handler, Loop, Elapse

\* A module never enabled has shown and spent nothing.
LEMMA SecretsInit == Init => Secrets
  BY FreshLimit, BoundAssumption
     DEF Init, Secrets, PinUnspent, GapCovered, PinHidden, MissesCounted

-----------------------------------------------------------------------------
(* What holds whatever the random generator does.                          *)

LEMMA AccountsAlways == Spec => []Accounts
  BY AccountsInit, AccountsStep, PTL DEF Spec

\* Every variable of the pairing state keeps its type (mod_http.cpp,
\* ratelimit.h, apgrace.h).
THEOREM TypeCorrect == Spec => []TypeOK
<1>1. Accounts => TypeOK
  BY DEF Accounts
<1> QED
  BY <1>1, AccountsAlways, PTL

\* The owner and time aside, no lockout period sees more than MAX_FAILS
\* guesses, however many PINs are minted in it (pinpolicy.h).
THEOREM LockoutNotForgiven == Spec => []LockoutStands
<1>1. Accounts => LockoutStands
  BY BoundAssumption DEF Accounts, BurstCounted, LockoutStands, TypeOK, Limit
<1> QED
  BY <1>1, AccountsAlways, PTL

\* The grace clock that may end a session was started for that session
\* (mod_http.cpp, createSession and httpTick).
THEOREM GraceClockOwn == Spec => []GraceBelongs
<1>1. Accounts => GraceBelongs
  BY DEF Accounts
<1> QED
  BY <1>1, AccountsAlways, PTL

-----------------------------------------------------------------------------
(* What holds until a draw fails.                                          *)

LEMMA IInvAlways == Spec => []IInv
<1>1. Init => IInv
  BY AccountsInit, SecretsInit DEF IInv
<1>2. IInv /\ [Next]_vars => IInv'
  BY AccountsStep, SecretsStep DEF IInv
<1> QED
  BY <1>1, <1>2, PTL DEF Spec

\* While a session lives, the PIN that would evict it has never been on the
\* panel (mod_http.cpp, httpTick).
THEOREM TakeoverHoleClosed == Spec => []TakeoverClosed
<1>1. IInv => TakeoverClosed
  BY DEF IInv, Secrets, PinHidden, TakeoverClosed
<1> QED
  BY <1>1, IInvAlways, PTL

\* No PIN is guessed at more than MAX_FAILS times (mod_http.cpp,
\* handlePostSession and pinpolicy.h).
THEOREM PinBudgetKept == Spec => []PinBudget
<1>1. IInv => PinBudget
  BY BoundAssumption
     DEF IInv, Accounts, TypeOK, Limit, Secrets, MissesCounted, PinBudget
<1> QED
  BY <1>1, IInvAlways, PTL

\* A PIN opens one session at most (mod_http.cpp, createSession and the mint
\* that follows it in an acquisition of its own).
THEOREM PinSingleUse == Spec => SingleUse
<1>1. IInv => [drew /\ hp = "accepted" /\ hp' = "created" => held > spent]_vars
  BY DEF IInv, Secrets, PinUnspent
<1> QED
  BY <1>1, IInvAlways, PTL DEF SingleUse

\* The panel never starts to show a PIN that has opened a session
\* (mod_http.cpp, httpTick's second acquisition).
THEOREM PanelNeverSpent == Spec => NeverShowsSpent
<1>1. IInv /\ [Next]_vars => [drew /\ panel' \notin {0, panel} => panel' > spent']_vars
  <2> SUFFICES ASSUME IInv, [Next]_vars, drew, panel' \notin {0, panel}
               PROVE  panel' > spent'
    OBVIOUS
  <2>1. TickShow
    BY DEF Next, Handler, Loop, Elapse, vars, AttemptRight, AttemptWrong,
           CreateSession, ConsumePin, DeleteAuthenticate, DeleteRevoke,
           DeleteRotate, TickSample, TickGrace, LoopMint, RevokeAll, Regenerate,
           Start, Stop, Subscribe, StationMoves, SessionAges, GraceDue, LimitPasses
  <2>2. panel' = pin /\ session = 0 /\ spent' = spent /\ lp = "show"
    BY <2>1 DEF TickShow
  <2>3. pin > spent
    BY <2>2 DEF IInv, Accounts, TypeOK, Minted, Secrets, PinUnspent, GapCovered
  <2> QED
    BY <2>2, <2>3
<1> QED
  BY <1>1, IInvAlways, PTL DEF Spec, NeverShowsSpent
=============================================================================
