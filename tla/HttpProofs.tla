----------------------------- MODULE HttpProofs -----------------------------
(***************************************************************************)
(* The shutdown handshake of mod_http.cpp is free of deadlock and leaves   *)
(* nothing behind, in every interleaving.  The inductive invariant says    *)
(* where each task is by the locks and the count it holds; the Dekker      *)
(* argument of the code's comment is its conjunct JoinIsSafe.              *)
(***************************************************************************)
EXTENDS HttpLifecycle, TLAPS

\* Where the server task is while inRegistry_ counts it.
Counted ==
  {"entering", "want", "held", "stopping", "upload", "chunkWant", "chunkHeld", "leaving"}

\* Program counters and locks agree.
LocksHeld ==
  /\ registryLock = "loop" => pc["loop"] \notin {"idle", "want"}
  /\ pc["loop"] \in {"held", "authWant", "authHeld", "stopping"} => registryLock = "loop"
  /\ registryLock = "http" => pc["http"] \in {"held", "authWant", "authHeld", "stopping"}
  /\ pc["http"] \in {"held", "stopping"} => registryLock = "http"
  /\ authLock = "loop" <=> pc["loop"] = "authHeld"
  /\ authLock = "http" <=> pc["http"] \in {"authHeld", "chunkHeld"}
  /\ pc["loop"] = "unwind" => registryLock = "loop" /\ pc["http"] = "idle"
  /\ pc["http"] # "join"

\* inRegistry_ counts the handler exactly between its increment and decrement.
CountIsExact ==
  inRegistry = IF pc["http"] \in Counted \/ registryLock = "http" THEN 1 ELSE 0

\* A server runs while the module is enabled or its teardown is pending.
ServerAccounted ==
  /\ servers = IF pc["http"] = "down" THEN 0 ELSE 1
  /\ radio <=> pc["http"] # "down"
  /\ (enabled \/ pending \/ pc["loop"] = "unwind") <=> pc["http"] # "down"
  /\ ~(enabled /\ pending)
  /\ pc["loop"] = "unwind" => ~enabled /\ ~pending /\ ~session /\ ~stopping
  /\ session => pc["http"] # "down"

\* stopping_ is set from the store to the end of the teardown.
StoppingAccounted ==
  /\ pending => stopping
  /\ stopping => pending \/ pc["loop"] \in {"stopping", "join"} \/ pc["http"] = "stopping"
  /\ \A p \in Task : pc[p] = "stopping" => enabled /\ stopping
  /\ pc["loop"] = "join" => stopping
  /\ pc["loop"] = "join" /\ registryLock # "loop" => pending
  /\ pc["loop"] = "join" /\ registryLock = "loop" => enabled

\* The Dekker argument: while the loop task joins inside the registry lock, the
\* handler is outside the registry and can only be turned away from it.
JoinIsSafe ==
  pc["loop"] = "join" /\ registryLock = "loop"
    => pc["http"] \in {"idle", "authWant", "authHeld", "authed", "entering", "leaving"}

IInv ==
  /\ TypeOK /\ LocksHeld /\ CountIsExact
  /\ ServerAccounted /\ StoppingAccounted /\ JoinIsSafe

USE DEF Task, LoopPc, HttpPc, Goto

\* The device before the first enable.
LEMMA InvInit == Init => IInv
<1> SUFFICES ASSUME Init
             PROVE  IInv
  OBVIOUS
<1>1. /\ pc["loop"] = "idle" /\ pc["http"] = "down"
      /\ pc \in [Task -> LoopPc \cup HttpPc]
  <2>1. pc = [t \in Task |-> IF t = "loop" THEN "idle" ELSE "down"]
    BY DEF Init
  <2> QED
    BY <2>1
<1>2. TypeOK
  <2>1. inRegistry \in 0..1 /\ servers \in 0..1
    BY DEF Init
  <2> QED
    BY <1>1, <2>1 DEF Init, TypeOK
<1>3. LocksHeld /\ JoinIsSafe
  BY <1>1 DEF Init, LocksHeld, JoinIsSafe
<1>4. CountIsExact
  BY <1>1 DEF Init, CountIsExact, Counted
<1>5. ServerAccounted /\ StoppingAccounted
  BY <1>1 DEF Init, ServerAccounted, StoppingAccounted
<1> QED
  BY <1>2, <1>3, <1>4, <1>5 DEF IInv

\* The invariant is inductive when no request meets a failed start.
LEMMA InvStep == ~RequestInUnwind /\ IInv /\ [Next]_vars => IInv'
<1> SUFFICES ASSUME ~RequestInUnwind, IInv, [Next]_vars
             PROVE  IInv'
  OBVIOUS
<1> USE DEF IInv, TypeOK, LocksHeld, CountIsExact, ServerAccounted, StoppingAccounted,
            JoinIsSafe, Counted, locks, handshake, resources
<1>1. CASE UNCHANGED vars
  BY <1>1 DEF vars
<1>2. CASE LoopWork
  BY <1>2 DEF LoopWork
<1>3. CASE Poll
  BY <1>3 DEF Poll
<1>4. CASE Request
  BY <1>4 DEF Request
<1>5. CASE Handler
  <2>1. CASE Pair
    BY <2>1 DEF Pair
  <2>2. CASE Authenticated
    BY <2>2 DEF Authenticated
  <2>3. CASE EnterCount
    BY <2>3 DEF EnterCount
  <2>4. CASE EnterCheck
    BY <2>4 DEF EnterCheck
  <2>5. CASE UploadChunk
    BY <2>5 DEF UploadChunk
  <2>6. CASE UploadAuthorised
    BY <2>6 DEF UploadAuthorised
  <2>7. CASE UploadEnd
    BY <2>7 DEF UploadEnd
  <2>8. CASE Leave
    BY <2>8 DEF Leave
  <2> QED
    BY <1>5, <2>1, <2>2, <2>3, <2>4, <2>5, <2>6, <2>7, <2>8 DEF Handler
<1>6. ASSUME NEW p \in Task, Take(p) \/ Give(p) \/ AuthTake(p) \/ Command(p) \/ Teardown(p)
      PROVE  IInv'
  <2>1. CASE Take(p)
    BY <2>1 DEF Take
  <2>2. CASE Give(p)
    <3>1. CASE p = "loop"
      BY <2>2, <3>1 DEF Give
    <3>2. CASE p = "http"
      BY <2>2, <3>2 DEF Give
    <3> QED
      BY <3>1, <3>2
  <2>3. CASE AuthTake(p)
    BY <2>3 DEF AuthTake
  <2>4. CASE ConsultSessions(p)
    BY <2>4 DEF ConsultSessions
  <2>5. CASE AuthGiveInRegistry(p)
    <3>1. CASE p = "loop"
      <4>1. session' \in BOOLEAN /\ (session' => session)
        <5>1. session' = session \/ session' = FALSE
          BY <2>5, Zenon DEF AuthGiveInRegistry
        <5>2. session \in BOOLEAN
          OBVIOUS
        <5>3. CASE session = TRUE
          BY <5>1, <5>3
        <5>4. CASE session = FALSE
          BY <5>1, <5>4
        <5> QED
          BY <5>2, <5>3, <5>4
      <4>2. TypeOK'
        BY <2>5, <3>1, <4>1 DEF AuthGiveInRegistry
      <4>3. LocksHeld' /\ CountIsExact' /\ ServerAccounted'
        BY <2>5, <3>1, <4>1 DEF AuthGiveInRegistry
      <4>4. StoppingAccounted' /\ JoinIsSafe'
        BY <2>5, <3>1, <4>1 DEF AuthGiveInRegistry
      <4> QED
        BY <4>2, <4>3, <4>4
    <3>2. CASE p = "http"
      BY <2>5, <3>2 DEF AuthGiveInRegistry
    <3> QED
      BY <3>1, <3>2
  <2>6. CASE Start(p)
    <3>1. CASE p = "loop"
      BY <2>6, <3>1 DEF Start, MayStart
    <3>2. CASE p = "http"
      BY <2>6, <3>2 DEF Start, MayStart
    <3> QED
      BY <3>1, <3>2
  <2>7. CASE StartFails(p)
    <3>1. p = "loop"
      BY <2>7 DEF StartFails
    <3>2. /\ pc' = [pc EXCEPT !["http"] = "idle", !["loop"] = "unwind"]
          /\ servers = 0 /\ servers' = 1 /\ inRegistry = 0
          /\ registryLock = "loop" /\ authLock \notin Task
          /\ ~enabled /\ ~pending /\ ~session /\ ~stopping
      BY <2>7, <3>1 DEF StartFails, MayStart
    <3>3. TypeOK' /\ LocksHeld' /\ CountIsExact'
      BY <2>7, <3>2 DEF StartFails
    <3>4. ServerAccounted' /\ StoppingAccounted' /\ JoinIsSafe'
      BY <2>7, <3>2 DEF StartFails
    <3> QED
      BY <3>3, <3>4
  <2>8. CASE Unwind(p)
    <3>1. p = "loop"
      BY <2>8 DEF Unwind
    <3>2. /\ pc' = [pc EXCEPT !["http"] = "down", !["loop"] = "held"]
          /\ servers = 1 /\ servers' = 0 /\ inRegistry = 0
          /\ registryLock = "loop" /\ authLock \notin Task
          /\ ~enabled /\ ~pending /\ ~session /\ ~stopping
      BY <2>8, <3>1 DEF Unwind
    <3>3. TypeOK' /\ LocksHeld' /\ CountIsExact'
      BY <2>8, <3>2 DEF Unwind
    <3>4. ServerAccounted' /\ StoppingAccounted' /\ JoinIsSafe'
      BY <2>8, <3>2 DEF Unwind
    <3> QED
      BY <3>3, <3>4
  <2>9. CASE StopStore(p)
    BY <2>9 DEF StopStore
  <2>10. CASE StopDecide(p)
    <3>1. CASE p = "loop"
      <4>1. CASE inRegistry = 0
        <5>1. pc["http"] \in {"idle", "authWant", "authHeld", "authed"}
          BY <2>10, <3>1, <4>1 DEF StopDecide
        <5>2. pc' = [pc EXCEPT !["loop"] = "join"] /\ UNCHANGED <<pending, enabled>>
          BY <2>10, <3>1, <4>1 DEF StopDecide
        <5>3. TypeOK' /\ LocksHeld' /\ CountIsExact'
          BY <2>10, <3>1, <4>1, <5>1, <5>2 DEF StopDecide
        <5>4. ServerAccounted' /\ StoppingAccounted' /\ JoinIsSafe'
          BY <2>10, <3>1, <4>1, <5>1, <5>2 DEF StopDecide
        <5> QED
          BY <5>3, <5>4
      <4>2. CASE inRegistry # 0
        BY <2>10, <3>1, <4>2 DEF StopDecide
      <4> QED
        BY <4>1, <4>2
    <3>2. CASE p = "http"
      <4>1. inRegistry # 0
        BY <2>10, <3>2 DEF StopDecide
      <4> QED
        BY <2>10, <3>2, <4>1 DEF StopDecide
    <3> QED
      BY <3>1, <3>2
  <2>11. CASE Teardown(p)
    <3>1. CASE p = "loop"
      <4>1. CASE registryLock = "loop"
        <5>1. /\ pc' = [pc EXCEPT !["http"] = "down", !["loop"] = "held"]
              /\ servers' = 0 /\ inRegistry' = 0
          BY <2>11, <3>1, <4>1 DEF Teardown
        <5>2. TypeOK'
          BY <2>11, <3>1, <4>1, <5>1 DEF Teardown
        <5>3. LocksHeld' /\ CountIsExact'
          BY <2>11, <3>1, <4>1, <5>1 DEF Teardown
        <5>4. ServerAccounted' /\ StoppingAccounted' /\ JoinIsSafe'
          BY <2>11, <3>1, <4>1, <5>1 DEF Teardown
        <5> QED
          BY <5>2, <5>3, <5>4
      <4>2. CASE registryLock # "loop"
        <5>1. /\ pc' = [pc EXCEPT !["http"] = "down", !["loop"] = "idle"]
              /\ servers' = 0 /\ inRegistry' = 0
          BY <2>11, <3>1, <4>2 DEF Teardown
        <5>2. TypeOK'
          BY <2>11, <3>1, <4>2, <5>1 DEF Teardown
        <5>3. LocksHeld' /\ CountIsExact'
          BY <2>11, <3>1, <4>2, <5>1 DEF Teardown
        <5>4. ServerAccounted' /\ StoppingAccounted' /\ JoinIsSafe'
          BY <2>11, <3>1, <4>2, <5>1 DEF Teardown
        <5> QED
          BY <5>2, <5>3, <5>4
      <4> QED
        BY <4>1, <4>2
    <3>2. CASE p = "http"
      BY <2>11, <3>2 DEF Teardown
    <3> QED
      BY <3>1, <3>2
  <2> QED
    BY <1>6, <2>1, <2>2, <2>3, <2>4, <2>5, <2>6, <2>7, <2>8, <2>9, <2>10, <2>11 DEF Command
<1> QED
  BY <1>1, <1>2, <1>3, <1>4, <1>5, <1>6 DEF Next

-----------------------------------------------------------------------------
(* What follows from the invariant.                                        *)

\* The invariant holds throughout, as long as no request reaches a server
\* whose start has failed.
THEOREM Inductive == ~RequestInUnwind /\ Spec => []IInv
<1> SUFFICES ASSUME ~RequestInUnwind
             PROVE  Spec => []IInv
  OBVIOUS
<1>1. IInv /\ [Next]_vars => IInv'
  BY InvStep
<1> QED
  BY InvInit, <1>1, PTL DEF Spec

\* A type-correct state, whatever the interleaving.
THEOREM TypeCorrect == ~RequestInUnwind /\ Spec => []TypeOK
BY Inductive, PTL DEF IInv

\* The loop task and the server task never wait for each other: the argument
\* of the shutdown note (mod_http.cpp:429-461) and of the lock order.
THEOREM DeadlockFree == ~RequestInUnwind /\ Spec => []NoCircularWait
<1>1. IInv => NoCircularWait
  <2> SUFFICES ASSUME IInv
               PROVE  NoCircularWait
    OBVIOUS
  <2> USE DEF IInv, TypeOK, LocksHeld, StoppingAccounted, JoinIsSafe
  <2>1. ~(WaitsFor("loop", "http") /\ WaitsFor("http", "loop"))
    BY DEF WaitsFor
  <2>2. ASSUME NEW p \in Task
        PROVE  ~WaitsFor(p, p)
    BY DEF WaitsFor
  <2> QED
    BY <2>1, <2>2 DEF NoCircularWait
<1> QED
  BY Inductive, <1>1, PTL

\* No enable, from either task, starts a second server over a first one
\* (httpEnable's refusal while a teardown is pending).
THEOREM NeverTwoServers == ~RequestInUnwind /\ Spec => []OneServer
<1>1. IInv => OneServer
  BY DEF IInv, ServerAccounted, OneServer
<1> QED
  BY Inductive, <1>1, PTL

\* Between calls an enabled transport serves (teardownNow's last two stores).
THEOREM EnabledIsServing == ~RequestInUnwind /\ Spec => []EnabledServes
<1>1. IInv => EnabledServes
  BY DEF IInv, LocksHeld, ServerAccounted, StoppingAccounted, EnabledServes
<1> QED
  BY Inductive, <1>1, PTL

\* A teardown leaves the state of a device never enabled (teardownNow).
THEOREM CleanTeardown == ~RequestInUnwind /\ Spec => []NothingLeftBehind
<1>1. IInv => NothingLeftBehind
  BY DEF IInv, TypeOK, LocksHeld, CountIsExact, ServerAccounted, StoppingAccounted,
         NothingLeftBehind, Counted
<1> QED
  BY Inductive, <1>1, PTL
=============================================================================
