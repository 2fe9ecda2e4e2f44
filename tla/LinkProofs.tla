------------------------------ MODULE LinkProofs ------------------------------
(***************************************************************************)
(* What holds of the links to a host: of Events for every set of           *)
(* descriptors, ring and client table; of Authority and Console for every  *)
(* policy table, set of requests and lines, and length of the line buffer; *)
(* of Passphrase for every set of passphrases.                             *)
(***************************************************************************)
EXTENDS Events, Console, Passphrase, Recursion, FiniteSetTheorems, SequenceTheorems, TLAPS

-----------------------------------------------------------------------------
(* Events.                                                                 *)

\* Between two drains, and until the client table is copied, nothing is left
\* of an earlier copy; the table is finite whatever the descriptors are.
Between ==
  /\ IsFiniteSet(clients)
  /\ pc \in {"idle", "drain", "copy"} => targets = {}

Typed == TypeOK /\ Between

-----------------------------------------------------------------------------
(* Slots, targets and the client table.                                    *)

LEMMA SlotFields ==
  /\ \A s \in Slot : s.n \in 1 .. MaxEvent /\ s.ended \in 0 .. MaxSession
  /\ \A n \in 1 .. MaxEvent, e \in 0 .. MaxSession : [n |-> n, ended |-> e] \in Slot
BY DEF Slot

\* The number a slot gets, and the end it is stamped with.
LEMMA Stamped ==
  ASSUME TypeOK
  PROVE  /\ Ended \in 0 .. MaxSession
         /\ (IF emitted = MaxEvent THEN MaxEvent ELSE emitted + 1) \in 1 .. MaxEvent
BY EventsAssumption DEF TypeOK, Ended

LEMMA RemoveType ==
  ASSUME Typed, NEW fds \in SUBSET Fds, Remove(fds)
  PROVE  /\ clients' \subseteq clients /\ IsFiniteSet(clients') /\ Cardinality(clients') =< MaxClients
         /\ authed' \in [Fds -> 0 .. paired] /\ \A f \in Fds \ clients' : authed'[f] = 0
         /\ \A f \in Fds : authed'[f] \in {0, authed[f]}
<1>1. clients' \subseteq clients
  BY DEF Remove
<1>2. IsFiniteSet(clients') /\ Cardinality(clients') =< Cardinality(clients)
  BY <1>1, FS_Subset DEF Typed, Between
<1>3. Cardinality(clients) \in Nat /\ Cardinality(clients') \in Nat /\ MaxClients \in Nat
  BY <1>2, FS_CardinalityType, EventsAssumption DEF Typed, Between
<1>4. Cardinality(clients') =< MaxClients
  BY <1>2, <1>3 DEF Typed, TypeOK
<1>5. paired \in Nat
  BY DEF Typed, TypeOK
<1> QED
  BY <1>1, <1>2, <1>4, <1>5 DEF Typed, TypeOK, Remove

LEMMA AddType ==
  ASSUME Typed, NEW f \in Fds, Cardinality(clients) < MaxClients
  PROVE  IsFiniteSet(clients \cup {f}) /\ Cardinality(clients \cup {f}) =< MaxClients
<1>1. /\ IsFiniteSet(clients \cup {f})
      /\ Cardinality(clients \cup {f}) = IF f \in clients THEN Cardinality(clients) ELSE Cardinality(clients) + 1
  BY FS_AddElement DEF Typed, Between
<1>2. Cardinality(clients) \in Nat /\ MaxClients \in Nat
  BY FS_CardinalityType, EventsAssumption DEF Typed, Between
<1> QED
  BY <1>1, <1>2

-----------------------------------------------------------------------------
(* Types.                                                                  *)

LEMMA SinkType ==
  ASSUME TypeOK, NEW q \in BOOLEAN, Sink(q)
  PROVE  ring' \in Seq(Slot) /\ Len(ring') =< EventSlots /\ work' \in BOOLEAN /\ emitted' \in 0 .. MaxEvent
<1> DEFINE n == IF emitted = MaxEvent THEN MaxEvent ELSE emitted + 1
           s == [n |-> n, ended |-> Ended]
<1>1. s \in Slot /\ n \in 1 .. MaxEvent
  BY Stamped, SlotFields
<1>2. emitted' = n /\ emitted' \in 0 .. MaxEvent
  BY <1>1 DEF Sink
<1>3. CASE Len(ring) >= EventSlots
  BY <1>2, <1>3 DEF Sink, TypeOK
<1>4. CASE ~(Len(ring) >= EventSlots)
  <2>1. ring' = Append(ring, s) /\ work' = (work \/ q)
    BY <1>4 DEF Sink
  <2>2. ring \in Seq(Slot) /\ Len(ring) \in Nat /\ EventSlots \in Nat /\ work \in BOOLEAN
    BY LenProperties, EventsAssumption DEF TypeOK
  <2>3. ring' \in Seq(Slot) /\ Len(ring') = Len(ring) + 1
    BY <1>1, <2>1, <2>2, AppendProperties
  <2>4. work' \in BOOLEAN
    BY <2>1, <2>2
  <2> QED
    BY <1>2, <1>4, <2>2, <2>3, <2>4
<1> QED
  BY <1>3, <1>4

LEMMA TakeType ==
  ASSUME TypeOK, Take
  PROVE  /\ ring' \in Seq(Slot) /\ Len(ring') =< EventSlots /\ frame' \in Slot \cup {NoFrame}
         /\ work' \in BOOLEAN /\ pc' \in {"idle", "copy"} /\ targets' = {} /\ reached' = {}
<1>1. ring \in Seq(Slot) /\ Len(ring) \in Nat /\ EventSlots \in Nat
  BY LenProperties, EventsAssumption DEF TypeOK
<1>2. CASE ring = << >>
  BY <1>2 DEF Take, TypeOK
<1>3. CASE ring # << >>
  <2>1. Head(ring) \in Slot /\ Tail(ring) \in Seq(Slot) /\ Len(Tail(ring)) = Len(ring) - 1
    BY <1>1, <1>3, HeadTailProperties
  <2>2. frame' = Head(ring) /\ ring' = Tail(ring) /\ pc' = "copy" /\ targets' = {} /\ reached' = {}
    BY <1>3 DEF Take
  <2>3. work' \in BOOLEAN
    BY DEF Take, TypeOK
  <2>4. Len(ring') =< EventSlots
    BY <1>1, <2>1, <2>2 DEF TypeOK
  <2> QED
    BY <2>1, <2>2, <2>3, <2>4
<1> QED
  BY <1>2, <1>3

LEMMA TypedStep == Typed /\ [Next]_vars => Typed'
<1> SUFFICES ASSUME Typed, [Next]_vars
             PROVE  Typed'
  OBVIOUS
<1> USE EventsAssumption DEF Typed, TypeOK, Between, ringVars, sessionVars, socketVars, drainVars
<1>1. ASSUME NEW q \in BOOLEAN, Emit(q) PROVE Typed'
  BY <1>1, SinkType DEF Emit
<1>2. CASE SessionEnds
  BY <1>2 DEF SessionEnds
<1>3. CASE DropAll
  <2>1. Remove(clients) /\ clients \in SUBSET Fds
    BY <1>3 DEF DropAll
  <2> QED
    BY <1>3, <2>1, RemoveType DEF DropAll
<1>4. CASE Pair
  BY <1>4 DEF Pair
<1>5. ASSUME NEW f \in Fds, NEW s \in 0 .. MaxSession, Upgrade(f, s) PROVE Typed'
  <2>1. /\ pc = "idle" /\ targets = {} /\ open' = open \cup {f} /\ last' \in [Fds -> 0 .. MaxEvent]
        /\ s \in 0 .. paired
    BY <1>5 DEF Upgrade
  <2>2. CASE Cardinality(clients) < MaxClients
    <3>1. clients' = clients \cup {f} /\ authed' = [authed EXCEPT ![f] = s] /\ closing' = closing
      BY <1>5, <2>2 DEF Upgrade
    <3> QED
      BY <1>5, <2>1, <2>2, <3>1, AddType DEF Upgrade
  <2>3. CASE ~(Cardinality(clients) < MaxClients)
    BY <1>5, <2>1, <2>3 DEF Upgrade
  <2> QED
    BY <2>2, <2>3
<1>6. ASSUME NEW f \in Fds, NEW right \in BOOLEAN, AuthFrame(f, right) PROVE Typed'
  <2>1. CASE right /\ live # 0
    BY <1>6, <2>1 DEF AuthFrame
  <2>2. CASE ~(right /\ live # 0)
    BY <1>6, <2>2, RemoveType DEF AuthFrame, Drop
  <2> QED
    BY <2>1, <2>2
<1>7. ASSUME NEW f \in Fds, NEW tooLong \in BOOLEAN, CommandFrame(f, tooLong) PROVE Typed'
  BY <1>7, RemoveType DEF CommandFrame, Drop, Keep
<1>8. ASSUME NEW f \in Fds, CloseSocket(f) PROVE Typed'
  <2>1. f \notin clients'
    BY <1>8 DEF CloseSocket, Remove
  <2> QED
    BY <1>8, <2>1, RemoveType DEF CloseSocket
<1>9. CASE Take
  BY <1>9, TakeType DEF Take
<1>10. CASE Copy
  <2>1. targets' \subseteq [fd : open', id : 1 .. paired', live : BOOLEAN]
    <3>1. ASSUME NEW f \in clients, authed[f] # 0
          PROVE  [fd |-> f, id |-> authed[f], live |-> FALSE] \in [fd : open, id : 1 .. paired, live : BOOLEAN]
      BY <3>1
    <3>2. \A t \in targets' : \E f \in clients : authed[f] # 0 /\ t = [fd |-> f, id |-> authed[f], live |-> FALSE]
      BY <1>10 DEF Copy
    <3>3. open' = open /\ paired' = paired
      BY <1>10 DEF Copy
    <3>4. ASSUME NEW t \in targets' PROVE t \in [fd : open, id : 1 .. paired, live : BOOLEAN]
      <4>1. PICK f \in clients : authed[f] # 0 /\ t = [fd |-> f, id |-> authed[f], live |-> FALSE]
        BY <3>2
      <4> QED
        BY <3>1, <4>1
    <3> QED
      BY <3>3, <3>4
  <2> QED
    BY <1>10, <2>1 DEF Copy
<1>11. CASE Check
  <2>1. targets' \subseteq [fd : open', id : 1 .. paired', live : BOOLEAN]
    <3>1. ASSUME NEW t \in [fd : open, id : 1 .. paired, live : BOOLEAN], NEW b \in BOOLEAN
          PROVE  [t EXCEPT !.live = b] \in [fd : open, id : 1 .. paired, live : BOOLEAN]
      BY <3>1
    <3>2. \A t \in targets' : \E u \in targets : t = [u EXCEPT !.live = (u.id = live)]
      BY <1>11 DEF Check
    <3>3. \A u \in targets : (u.id = live) \in BOOLEAN
      OBVIOUS
    <3>4. open' = open /\ paired' = paired
      BY <1>11 DEF Check
    <3>5. ASSUME NEW t \in targets' PROVE t \in [fd : open, id : 1 .. paired, live : BOOLEAN]
      <4>1. PICK u \in targets : t = [u EXCEPT !.live = (u.id = live)]
        BY <3>2
      <4> QED
        BY <3>1, <3>3, <4>1
    <3> QED
      BY <3>4, <3>5
  <2> QED
    BY <1>11, <2>1 DEF Check
<1>12. ASSUME NEW t \in targets, NEW gone \in BOOLEAN, Send(t, gone) PROVE Typed'
  <2>1. t.fd \in open /\ t.fd \in Fds /\ t.id \in 1 .. paired
    OBVIOUS
  <2>2. CASE t.live /\ gone
    <3>1. frame.n \in 0 .. MaxEvent
      BY SlotFields DEF NoFrame
    <3> QED
      BY <1>12, <2>1, <2>2, <3>1 DEF Send, Keep
  <2>3. CASE ~(t.live /\ gone)
    BY <1>12, <2>1, <2>3, RemoveType DEF Send, Drop
  <2> QED
    BY <2>2, <2>3
<1>13. CASE Again
  BY <1>13 DEF Again
<1>14. CASE UNCHANGED vars
  BY <1>14 DEF vars
<1> QED
  BY <1>1, <1>2, <1>3, <1>4, <1>5, <1>6, <1>7, <1>8, <1>9, <1>10, <1>11, <1>12, <1>13, <1>14
     DEF Next, Loop, Handler, Drain

LEMMA TypedInit == Init => Typed
<1> SUFFICES ASSUME Init PROVE Typed
  OBVIOUS
<1>1. << >> \in Seq(Slot) /\ Len(<< >>) = 0
  BY EmptySeq
<1>2. IsFiniteSet({}) /\ Cardinality({}) = 0
  BY FS_EmptySet
<1>3. ring \in Seq(Slot) /\ Len(ring) =< EventSlots
  BY <1>1, EventsAssumption DEF Init
<1>4. IsFiniteSet(clients) /\ Cardinality(clients) =< MaxClients
  BY <1>2, EventsAssumption DEF Init
<1>5. authed \in [Fds -> 0 .. paired] /\ last \in [Fds -> 0 .. MaxEvent] /\ \A f \in Fds \ clients : authed[f] = 0
  BY EventsAssumption DEF Init
<1>6. emitted \in 0 .. MaxEvent /\ paired \in 0 .. MaxSession /\ live \in {0, paired}
  BY EventsAssumption DEF Init
<1> QED
  BY <1>3, <1>4, <1>5, <1>6 DEF Init, Typed, TypeOK, Between

LEMMA AlwaysTyped == Spec => []Typed
BY TypedInit, TypedStep, PTL DEF Spec

\* The ring, the client table and the drain's copies keep their types and
\* bounds, and the table never holds more than MAX_WS_CLIENTS.
THEOREM EventsTypeCorrect == Spec => []TypeOK
BY AlwaysTyped, PTL DEF Typed

-----------------------------------------------------------------------------
(* No event after the end of a session.                                    *)

\* What is in the ring or in the drain's hands was stamped no later than now,
\* and a socket that was found live belongs to a session newer than the stamp.
Stamps ==
  /\ \A i \in 1 .. Len(ring) : ring[i].ended =< Ended
  /\ frame.ended =< Ended
  /\ \A t \in targets : pc = "send" /\ t.live => t.id > frame.ended

Fresh == Stamps /\ NoneAfterEnd

\* Sessions end and are never taken back: the newest end only grows.
LEMMA EndedGrows ==
  ASSUME TypeOK, [Next]_vars
  PROVE  Ended =< Ended'
<1> USE DEF TypeOK, Ended, sessionVars
<1>1. CASE Pair
  BY <1>1 DEF Pair
<1>2. CASE SessionEnds
  BY <1>2 DEF SessionEnds
<1>3. CASE UNCHANGED sessionVars
  BY <1>3
<1>4. Pair \/ SessionEnds \/ UNCHANGED sessionVars
  BY DEF Next, Loop, Handler, Drain, Emit, DropAll, Upgrade, AuthFrame, CommandFrame, CloseSocket, Take, Copy,
         Check, Send, Again, vars
<1> QED
  BY <1>1, <1>2, <1>3, <1>4

\* What the tail of a ring holds, and what an append adds to it.
LEMMA TailSlots ==
  ASSUME NEW r \in Seq(Slot), r # << >>
  PROVE  /\ Head(r) = r[1] /\ 1 \in 1 .. Len(r) /\ Len(Tail(r)) = Len(r) - 1
         /\ \A i \in 1 .. Len(Tail(r)) : i + 1 \in 1 .. Len(r) /\ Tail(r)[i] = r[i + 1]
<1>1. Len(r) \in Nat /\ Len(r) # 0
  BY LenProperties, EmptySeq
<1>2. Len(Tail(r)) = Len(r) - 1 /\ Head(r) = r[1] /\ \A i \in 1 .. Len(Tail(r)) : Tail(r)[i] = r[i + 1]
  BY HeadTailProperties
<1> QED
  BY <1>1, <1>2

LEMMA AppendSlots ==
  ASSUME NEW r \in Seq(Slot), NEW s \in Slot
  PROVE  /\ Len(Append(r, s)) = Len(r) + 1 /\ Len(r) \in Nat
         /\ Append(r, s)[Len(r) + 1] = s
         /\ \A i \in 1 .. Len(r) : Append(r, s)[i] = r[i]
BY LenProperties, AppendProperties

\* The slots of the ring and the frame, as numbers.
LEMMA SlotNumbers ==
  ASSUME TypeOK
  PROVE  /\ \A i \in 1 .. Len(ring) : ring[i].n \in 1 .. MaxEvent /\ ring[i].ended \in 0 .. MaxSession
         /\ frame.n \in 0 .. MaxEvent /\ frame.ended \in 0 .. MaxSession
         /\ Ended \in 0 .. MaxSession
<1>1. \A i \in 1 .. Len(ring) : ring[i] \in Slot
  BY ElementOfSeq DEF TypeOK
<1>2. frame \in Slot \/ frame = NoFrame
  BY DEF TypeOK
<1> QED
  BY <1>1, <1>2, SlotFields, Stamped, EventsAssumption DEF NoFrame

LEMMA FreshStep == Typed /\ Fresh /\ [Next]_vars => Fresh'
<1> SUFFICES ASSUME Typed, Fresh, [Next]_vars
             PROVE  Fresh'
  OBVIOUS
<1> USE DEF ringVars, sessionVars, socketVars, drainVars
<1>typed. TypeOK /\ Between /\ Stamps /\ NoneAfterEnd /\ TypeOK'
  BY TypedStep DEF Typed, Fresh
<1>grows. Ended =< Ended' /\ Ended \in Int /\ Ended' \in Int
  <2>1. Ended' \in 0 .. MaxSession
    <3>1. paired' \in 0 .. MaxSession /\ live' \in {0, paired'}
      BY <1>typed DEF TypeOK
    <3>2. ASSUME NEW p \in 0 .. MaxSession, NEW l \in {0, p}
          PROVE  (IF l = 0 THEN p ELSE l - 1) \in 0 .. MaxSession
      BY EventsAssumption
    <3> QED
      BY <3>1, <3>2 DEF Ended
  <2> QED
    BY <2>1, <1>typed, EndedGrows, SlotNumbers
<1>numbers. /\ \A i \in 1 .. Len(ring) : ring[i].n \in Int /\ ring[i].ended \in Int
            /\ frame.n \in Int /\ frame.ended \in Int
  BY <1>typed, SlotNumbers
<1>keep. ASSUME UNCHANGED <<pc, frame, targets, reached>>,
                \A i \in 1 .. Len(ring') : ring'[i].ended =< Ended'
         PROVE  Fresh'
  BY <1>keep, <1>typed, <1>grows, <1>numbers DEF Fresh, Stamps, NoneAfterEnd
<1>ring. ASSUME UNCHANGED ring PROVE \A i \in 1 .. Len(ring') : ring'[i].ended =< Ended'
  BY <1>ring, <1>typed, <1>grows, <1>numbers DEF Stamps
<1>1. ASSUME NEW q \in BOOLEAN, Emit(q) PROVE Fresh'
  <2> DEFINE n == IF emitted = MaxEvent THEN MaxEvent ELSE emitted + 1
             s == [n |-> n, ended |-> Ended]
  <2>1. CASE Len(ring) >= EventSlots
    BY <1>1, <2>1, <1>keep, <1>ring DEF Emit, Sink
  <2>2. CASE ~(Len(ring) >= EventSlots)
    <3>1. ring' = Append(ring, s) /\ UNCHANGED <<pc, frame, targets, reached>>
      BY <1>1, <2>2 DEF Emit, Sink
    <3>2. s \in Slot /\ ring \in Seq(Slot) /\ s.ended = Ended
      BY <1>typed, Stamped, SlotFields DEF TypeOK
    <3>3. ASSUME NEW i \in 1 .. Len(ring') PROVE ring'[i].ended =< Ended'
      BY <3>1, <3>2, <3>3, AppendSlots, <1>typed, <1>grows, <1>numbers DEF Stamps
    <3> QED
      BY <3>1, <3>3, <1>keep
  <2> QED
    BY <2>1, <2>2
<1>2. CASE Loop \/ Handler
  <2>1. \/ \E q \in BOOLEAN : Emit(q)
        \/ UNCHANGED <<ring, pc, frame, targets, reached>>
    BY <1>2 DEF Loop, Handler, SessionEnds, DropAll, Pair, Upgrade, AuthFrame, CommandFrame, CloseSocket
  <2> QED
    BY <2>1, <1>1, <1>keep, <1>ring
<1>3. CASE Take
  <2>1. targets' = {} /\ reached' = {}
    BY <1>3 DEF Take
  <2>2. CASE ring = << >>
    <3>1. ring' = ring /\ frame' = NoFrame
      BY <1>3, <2>2 DEF Take
    <3>2. Ended' >= 0
      BY <1>grows, <1>typed, SlotNumbers
    <3> QED
      BY <2>1, <3>1, <3>2, <1>ring DEF Fresh, Stamps, NoneAfterEnd, NoFrame
  <2>3. CASE ring # << >>
    <3>1. ring' = Tail(ring) /\ frame' = Head(ring) /\ ring \in Seq(Slot)
      BY <1>3, <2>3, <1>typed DEF Take, TypeOK
    <3>2. frame'.ended =< Ended' /\ \A i \in 1 .. Len(ring') : ring'[i].ended =< Ended'
      BY <2>3, <3>1, TailSlots, <1>typed, <1>grows, <1>numbers DEF Stamps
    <3> QED
      BY <2>1, <3>2 DEF Fresh, Stamps, NoneAfterEnd
  <2> QED
    BY <2>2, <2>3
<1>4. CASE Copy
  <2>1. pc' = "check" /\ UNCHANGED <<ring, frame, reached>>
    BY <1>4 DEF Copy
  <2>2. frame'.ended =< Ended'
    BY <2>1, <1>typed, <1>grows, <1>numbers DEF Stamps
  <2> QED
    BY <2>1, <2>2, <1>ring, <1>typed DEF Fresh, Stamps, NoneAfterEnd
<1>5. CASE Check
  <2>1. UNCHANGED <<ring, frame, reached, live, paired>>
    BY <1>5 DEF Check
  <2>2. ASSUME NEW t \in targets', t.live PROVE t.id > frame.ended
    <3>1. PICK u \in targets : t = [u EXCEPT !.live = (u.id = live)]
      BY <1>5 DEF Check
    <3>2. u \in [fd : open, id : 1 .. paired, live : BOOLEAN]
      BY <1>typed DEF TypeOK
    <3>3. t.id = live /\ live # 0 /\ live \in Int
      BY <2>2, <3>1, <3>2, <1>typed DEF TypeOK
    <3>4. frame.ended =< live - 1
      BY <3>3, <1>typed DEF Stamps, Ended
    <3> QED
      BY <3>3, <3>4, <1>numbers
  <2>3. frame'.ended =< Ended'
    BY <2>1, <1>typed, <1>grows, <1>numbers DEF Stamps
  <2> QED
    BY <2>1, <2>2, <2>3, <1>ring, <1>typed DEF Fresh, Stamps, NoneAfterEnd
<1>6. ASSUME NEW t \in targets, NEW gone \in BOOLEAN, Send(t, gone) PROVE Fresh'
  <2>1. pc = "send" /\ targets' \subseteq targets /\ UNCHANGED <<pc, ring, frame>>
    BY <1>6 DEF Send
  <2>2. reached' = reached \/ (t.live /\ reached' = reached \cup {t.id})
    BY <1>6 DEF Send
  <2>3. frame'.ended =< Ended'
    BY <2>1, <1>typed, <1>grows, <1>numbers DEF Stamps
  <2> QED
    BY <2>1, <2>2, <2>3, <1>ring, <1>typed DEF Fresh, Stamps, NoneAfterEnd
<1>7. CASE Again
  <2>1. pc' = "drain" /\ UNCHANGED <<ring, frame, reached, targets>>
    BY <1>7 DEF Again
  <2>2. frame'.ended =< Ended'
    BY <2>1, <1>typed, <1>grows, <1>numbers DEF Stamps
  <2> QED
    BY <2>1, <2>2, <1>ring, <1>typed DEF Fresh, Stamps, NoneAfterEnd
<1>8. CASE UNCHANGED vars
  BY <1>8, <1>keep, <1>ring DEF vars
<1> QED
  BY <1>2, <1>3, <1>4, <1>5, <1>6, <1>7, <1>8 DEF Next, Drain

\* No slot reaches a client of a session that had ended when it was written,
\* whichever task ended it between the copy of the table and the send.
THEOREM NothingAfterTheEnd == Spec => []NoneAfterEnd
<1>1. Init => Fresh
  <2>1. Len(<< >>) = 0
    BY EmptySeq
  <2> QED
    BY <2>1 DEF Init, Fresh, Stamps, NoneAfterEnd, Ended, NoFrame
<1>2. Spec => []Fresh
  BY <1>1, FreshStep, AlwaysTyped, PTL DEF Spec
<1> QED
  BY <1>2, PTL DEF Fresh

-----------------------------------------------------------------------------
(* Order.                                                                  *)

\* An event after the newer than n; the last number is shared.
Later(n, m) == n < m \/ m = MaxEvent

\* Emission order through the ring, the drain's frame and every socket.
Order ==
  /\ emitted \in Nat /\ \A i \in 1 .. Len(ring) : ring[i].n =< emitted
  /\ frame.n =< emitted /\ \A f \in Fds : last[f] =< emitted
  /\ \A i \in 1 .. Len(ring) : \A j \in 1 .. i - 1 : Later(ring[j].n, ring[i].n)
  /\ \A i \in 1 .. Len(ring) : Later(frame.n, ring[i].n)
  /\ \A f \in Fds : \A i \in 1 .. Len(ring) : Later(last[f], ring[i].n)

\* What is left to send is newer than what its socket was sent; the drain
\* holds each descriptor once.
Unsent ==
  /\ pc \in {"copy", "check"} => \A f \in Fds : Later(last[f], frame.n)
  /\ \A t, u \in targets : t.fd = u.fd => t = u
  /\ pc = "send" => \A t \in targets : Later(last[t.fd], frame.n)

InOrder == Order /\ Unsent

\* The fields of a target, and what a copy of it with another mark keeps.
LEMMA TargetFields ==
  ASSUME TypeOK
  PROVE  /\ \A t \in targets : t.fd \in Fds /\ t.id \in 1 .. paired
         /\ \A t \in targets, b \in BOOLEAN : [t EXCEPT !.live = b].fd = t.fd
BY DEF TypeOK

LEMMA EmitInOrder ==
  ASSUME TypeOK, Order, NEW q \in BOOLEAN, Sink(q), UNCHANGED <<frame, last>>
  PROVE  Order'
<1> DEFINE n == IF emitted = MaxEvent THEN MaxEvent ELSE emitted + 1
           s == [n |-> n, ended |-> Ended]
<1>0. /\ emitted' = n /\ emitted \in 0 .. MaxEvent /\ MaxEvent \in Nat
      /\ last \in [Fds -> 0 .. MaxEvent]
  BY EventsAssumption DEF Sink, TypeOK
<1>numbers. \A i \in 1 .. Len(ring) : ring[i].n \in 1 .. MaxEvent
  BY SlotNumbers
<1>n. n \in 1 .. MaxEvent /\ emitted =< n /\ \A m \in 0 .. MaxEvent : m =< emitted => Later(m, n)
  BY <1>0, Stamped DEF Later
<1>f. frame.n \in 0 .. MaxEvent
  BY SlotNumbers
<1>1. CASE Len(ring) >= EventSlots
  <2>1. ring' = ring
    BY <1>1 DEF Sink
  <2> QED
    BY <2>1, <1>0, <1>n, <1>f, <1>numbers DEF Order
<1>2. CASE ~(Len(ring) >= EventSlots)
  <2>1. ring' = Append(ring, s) /\ s \in Slot /\ s.n = n /\ ring \in Seq(Slot)
    BY <1>2, Stamped, SlotFields DEF Sink, TypeOK
  <2>2. /\ Len(ring') = Len(ring) + 1 /\ Len(ring) \in Nat /\ ring'[Len(ring) + 1] = s
        /\ \A i \in 1 .. Len(ring) : ring'[i] = ring[i]
    BY <2>1, AppendSlots
  <2>3. \A i \in 1 .. Len(ring') : i \in 1 .. Len(ring) \/ i = Len(ring) + 1
    BY <2>2
  <2>4. \A i \in 1 .. Len(ring') : ring'[i].n =< emitted'
    BY <1>0, <1>n, <1>numbers, <2>1, <2>2, <2>3 DEF Order
  <2>5. \A i \in 1 .. Len(ring') : \A j \in 1 .. i - 1 : Later(ring'[j].n, ring'[i].n)
    <3> SUFFICES ASSUME NEW i \in 1 .. Len(ring'), NEW j \in 1 .. i - 1
                 PROVE  Later(ring'[j].n, ring'[i].n)
      OBVIOUS
    <3>1. j \in 1 .. Len(ring)
      BY <2>2
    <3>2. CASE i \in 1 .. Len(ring)
      BY <2>2, <3>1, <3>2 DEF Order
    <3>3. CASE i = Len(ring) + 1
      BY <1>0, <1>n, <1>numbers, <2>1, <2>2, <3>1, <3>3 DEF Order
    <3> QED
      BY <2>3, <3>2, <3>3
  <2>6. \A i \in 1 .. Len(ring') : Later(frame.n, ring'[i].n)
    BY <1>n, <1>f, <2>1, <2>2, <2>3 DEF Order
  <2>7. \A f \in Fds : \A i \in 1 .. Len(ring') : Later(last[f], ring'[i].n)
    BY <1>0, <1>n, <2>1, <2>2, <2>3 DEF Order
  <2>8. frame.n =< emitted' /\ \A f \in Fds : last[f] =< emitted'
    BY <1>0, <1>n, <1>f DEF Order
  <2> QED
    BY <1>0, <1>n, <2>4, <2>5, <2>6, <2>7, <2>8 DEF Order
<1> QED
  BY <1>1, <1>2

LEMMA TakeInOrder ==
  ASSUME TypeOK, InOrder, Take
  PROVE  InOrder'
<1> USE DEF socketVars
<1>1. targets' = {} /\ UNCHANGED <<emitted, last>> /\ pc' \in {"idle", "copy"}
  BY DEF Take
<1>2. CASE ring = << >>
  <2>1. ring' = ring /\ frame' = NoFrame /\ pc' = "idle" /\ Len(ring) = 0
    BY <1>2, EmptySeq DEF Take
  <2> QED
    BY <1>1, <2>1 DEF InOrder, Order, Unsent, NoFrame
<1>3. CASE ring # << >>
  <2>1. ring' = Tail(ring) /\ frame' = Head(ring) /\ ring \in Seq(Slot)
    BY <1>3 DEF Take, TypeOK
  <2>2. /\ frame' = ring[1] /\ 1 \in 1 .. Len(ring) /\ Len(ring') = Len(ring) - 1 /\ Len(ring) \in Nat
        /\ \A i \in 1 .. Len(ring') : i + 1 \in 1 .. Len(ring) /\ ring'[i] = ring[i + 1]
    BY <1>3, <2>1, TailSlots, LenProperties
  <2>3. \A i \in 1 .. Len(ring') : \A j \in 1 .. i - 1 : Later(ring'[j].n, ring'[i].n)
    <3> SUFFICES ASSUME NEW i \in 1 .. Len(ring'), NEW j \in 1 .. i - 1
                 PROVE  Later(ring'[j].n, ring'[i].n)
      OBVIOUS
    <3>1. j \in 1 .. Len(ring') /\ i + 1 \in 1 .. Len(ring) /\ j + 1 \in 1 .. (i + 1) - 1
      BY <2>2
    <3> QED
      BY <2>2, <3>1 DEF InOrder, Order
  <2>4. \A i \in 1 .. Len(ring') : Later(frame'.n, ring'[i].n)
    <3> SUFFICES ASSUME NEW i \in 1 .. Len(ring')
                 PROVE  Later(frame'.n, ring'[i].n)
      OBVIOUS
    <3>1. i + 1 \in 1 .. Len(ring) /\ 1 \in 1 .. (i + 1) - 1
      BY <2>2
    <3> QED
      BY <2>2, <3>1 DEF InOrder, Order
  <2>5. \A f \in Fds : Later(last'[f], frame'.n)
    BY <1>1, <2>2 DEF InOrder, Order
  <2>6. frame'.n =< emitted /\ \A i \in 1 .. Len(ring') : ring'[i].n =< emitted
    BY <2>2 DEF InOrder, Order
  <2>7. \A f \in Fds : \A i \in 1 .. Len(ring') : Later(last'[f], ring'[i].n)
    BY <1>1, <2>2 DEF InOrder, Order
  <2> QED
    BY <1>1, <2>3, <2>4, <2>5, <2>6, <2>7 DEF InOrder, Order, Unsent
<1> QED
  BY <1>2, <1>3

LEMMA SendInOrder ==
  ASSUME TypeOK, InOrder, NEW t \in targets, NEW gone \in BOOLEAN, Send(t, gone)
  PROVE  InOrder'
<1> USE DEF ringVars
<1>1. /\ pc = "send" /\ targets' = targets \ {t}
      /\ UNCHANGED <<pc, frame, ring, emitted>>
  BY DEF Send
<1>2. t.fd \in Fds /\ \A u \in targets : u.fd \in Fds
  BY TargetFields
<1>3. CASE UNCHANGED last
  BY <1>1, <1>3 DEF InOrder, Order, Unsent
<1>4. CASE last' = [last EXCEPT ![t.fd] = frame.n]
  <2>1. last \in [Fds -> 0 .. MaxEvent]
    BY DEF TypeOK
  <2>2. \A f \in Fds : last'[f] = IF f = t.fd THEN frame.n ELSE last[f]
    BY <1>4, <2>1
  <2>3. Order'
    BY <1>1, <2>2 DEF InOrder, Order
  <2>4. \A u \in targets' : u.fd # t.fd /\ last'[u.fd] = last[u.fd]
    BY <1>1, <1>2, <2>2 DEF InOrder, Unsent
  <2>5. Unsent'
    BY <1>1, <2>4 DEF InOrder, Unsent
  <2> QED
    BY <2>3, <2>5 DEF InOrder
<1> QED
  BY <1>3, <1>4 DEF Send

LEMMA InOrderStep == Typed /\ InOrder /\ [Next]_vars => InOrder'
<1> SUFFICES ASSUME Typed, InOrder, [Next]_vars
             PROVE  InOrder'
  OBVIOUS
<1> USE DEF ringVars, sessionVars, socketVars, drainVars
<1>typed. TypeOK /\ Between
  BY DEF Typed
<1>keep. ASSUME UNCHANGED <<ring, emitted, frame, last>> PROVE Order'
  BY <1>keep DEF InOrder, Order
<1>1. ASSUME NEW q \in BOOLEAN, Emit(q) PROVE InOrder'
  <2>1. Order'
    BY <1>1, <1>typed, EmitInOrder DEF Emit, InOrder
  <2>2. Unsent'
    BY <1>1 DEF Emit, InOrder, Unsent
  <2> QED
    BY <2>1, <2>2 DEF InOrder
<1>2. CASE UNCHANGED <<ring, emitted, pc, frame, targets, last>>
  BY <1>2 DEF InOrder, Order, Unsent
<1>3. ASSUME NEW f \in Fds, NEW s \in 0 .. MaxSession, Upgrade(f, s) PROVE InOrder'
  <2>1. /\ pc = "idle" /\ pc' = "idle" /\ UNCHANGED <<ring, emitted, frame, targets>>
        /\ last' = [last EXCEPT ![f] = 0] /\ targets = {}
    BY <1>3, <1>typed DEF Upgrade, Between
  <2>2. \A g \in Fds : last'[g] = IF g = f THEN 0 ELSE last[g]
    BY <2>1, <1>typed DEF TypeOK
  <2>3. \A i \in 1 .. Len(ring) : Later(0, ring[i].n)
    BY <1>typed, SlotNumbers DEF Later
  <2> QED
    BY <2>1, <2>2, <2>3 DEF InOrder, Order, Unsent
<1>4. CASE Take
  BY <1>4, <1>typed, TakeInOrder
<1>5. CASE Copy
  <2>1. /\ pc = "copy" /\ pc' = "check" /\ UNCHANGED <<ring, emitted, frame, last>>
        /\ targets' = {[fd |-> f, id |-> authed[f], live |-> FALSE] : f \in {g \in clients : authed[g] # 0}}
    BY <1>5 DEF Copy
  <2>2. \A t \in targets' : t = [fd |-> t.fd, id |-> authed[t.fd], live |-> FALSE]
    BY <2>1
  <2>3. \A t, u \in targets' : t.fd = u.fd => t = u
    BY <2>2
  <2>4. Unsent'
    BY <2>1, <2>3 DEF InOrder, Unsent
  <2> QED
    BY <2>1, <2>4, <1>keep DEF InOrder
<1>6. CASE Check
  <2>1. /\ pc = "check" /\ pc' = "send" /\ UNCHANGED <<ring, emitted, frame, last>>
        /\ \A t \in targets' : \E u \in targets : t = [u EXCEPT !.live = (u.id = live)]
    BY <1>6 DEF Check
  <2>2. ASSUME NEW t \in targets', NEW u \in targets', t.fd = u.fd PROVE t = u
    <3>1. PICK a \in targets : t = [a EXCEPT !.live = (a.id = live)]
      BY <2>1
    <3>2. PICK b \in targets : u = [b EXCEPT !.live = (b.id = live)]
      BY <2>1
    <3>3. a.fd = b.fd
      BY <2>2, <3>1, <3>2, <1>typed, TargetFields
    <3> QED
      BY <3>1, <3>2, <3>3 DEF InOrder, Unsent
  <2>3. \A t \in targets' : t.fd \in Fds
    <3> SUFFICES ASSUME NEW t \in targets' PROVE t.fd \in Fds
      OBVIOUS
    <3>1. PICK a \in targets : t = [a EXCEPT !.live = (a.id = live)]
      BY <2>1
    <3> QED
      BY <3>1, <1>typed, TargetFields
  <2>4. Unsent'
    BY <2>1, <2>2, <2>3 DEF InOrder, Unsent
  <2> QED
    BY <2>1, <2>4, <1>keep DEF InOrder
<1>7. ASSUME NEW t \in targets, NEW gone \in BOOLEAN, Send(t, gone) PROVE InOrder'
  BY <1>7, <1>typed, SendInOrder
<1>8. CASE Again
  <2>1. pc' = "drain" /\ UNCHANGED <<ring, emitted, frame, targets, last>>
    BY <1>8 DEF Again
  <2> QED
    BY <2>1, <1>keep DEF InOrder, Unsent
<1>9. Loop \/ Handler =>
        \/ \E q \in BOOLEAN : Emit(q)
        \/ \E f \in Fds, s \in 0 .. MaxSession : Upgrade(f, s)
        \/ UNCHANGED <<ring, emitted, pc, frame, targets, last>>
  BY DEF Loop, Handler, SessionEnds, DropAll, Pair, AuthFrame, CommandFrame, CloseSocket
<1> QED
  BY <1>1, <1>2, <1>3, <1>4, <1>5, <1>6, <1>7, <1>8, <1>9 DEF Next, Drain, vars

\* Whatever the ring drops, what a socket is still to be sent is newer than
\* all it was sent (eventSink(), drainEvents()).
THEOREM EventsInOrder == Spec => []OrderKept
<1>1. Init => InOrder
  <2>1. Len(<< >>) = 0
    BY EmptySeq
  <2> QED
    BY <2>1 DEF Init, InOrder, Order, Unsent, NoFrame
<1>2. InOrder => OrderKept
  BY DEF InOrder, Unsent, OrderKept, Later
<1> QED
  BY <1>1, <1>2, InOrderStep, AlwaysTyped, PTL DEF Spec

-----------------------------------------------------------------------------
(* Console: the gate's levels.                                             *)

\* Numbers, and the two that effective() names.
LEMMA Numbers ==
  /\ Levels \subseteq Nat /\ Token \in Levels /\ Physical \in Levels /\ \A l \in Levels : l <= Physical
  /\ NoAs \notin Levels
BY LevelsAssumption

\* A declared level read with fail-closed is a level no lower than TOKEN, and
\* reading it twice changes nothing.
LEMMA EffectiveLevel ==
  ASSUME NEW l \in Levels
  PROVE  effective(l) \in Levels /\ effective(l) >= Token /\ effective(effective(l)) = effective(l)
BY Numbers DEF effective

LEMMA LowestIs ==
  ASSUME NEW T \in SUBSET Levels
  PROVE  Lowest(T) \in T \cup {Physical} /\ \A k \in T \cup {Physical} : Lowest(T) <= k
<1> DEFINE U == T \cup {Physical}
<1>1. U \in SUBSET Nat /\ U # {}
  BY Numbers
<1>2. \E x \in U : \A y \in U : x <= y
  BY <1>1, Least
<1> QED
  BY <1>2 DEF Lowest

\* The lowest level of any module: none asks for less, and it is one of
\* theirs or PHYSICAL.
LEMMA LowestModuleIs ==
  /\ LowestModule \in Levels /\ effective(LowestModule) = LowestModule
  /\ \A m \in DOMAIN ModuleAuth : LowestModule <= effective(ModuleAuth[m])
  /\ LowestModule = Physical \/ \E m \in DOMAIN ModuleAuth : LowestModule = effective(ModuleAuth[m])
<1> DEFINE T == {effective(ModuleAuth[m]) : m \in DOMAIN ModuleAuth}
<1>1. \A m \in DOMAIN ModuleAuth : ModuleAuth[m] \in Levels
  BY LevelsAssumption
<1>2. T \in SUBSET Levels
  BY <1>1, EffectiveLevel
<1>3. LowestModule \in T \cup {Physical} /\ \A k \in T : LowestModule <= k
  BY <1>2, LowestIs DEF LowestModule
<1>4. \A k \in T \cup {Physical} : k >= Token
  BY <1>1, EffectiveLevel, Numbers
<1>5. LowestModule \in Levels /\ LowestModule >= Token
  BY <1>2, <1>3, <1>4, Numbers
<1>6. effective(LowestModule) = LowestModule
  BY <1>5, Numbers DEF effective
<1> QED
  BY <1>3, <1>5, <1>6

LEMMA MinimumLevelIs ==
  /\ MinimumLevel \in Levels
  /\ \A n \in DOMAIN Builtins : MinimumLevel <= Builtins[n]
<1> DEFINE T == {Builtins[n] : n \in DOMAIN Builtins}
<1>1. T \in SUBSET Levels
  BY LevelsAssumption
<1>2. MinimumLevel = Lowest(T)
  BY DEF MinimumLevel
<1> HIDE DEF T
<1>3. MinimumLevel \in T \cup {Physical} /\ \A k \in T \cup {Physical} : MinimumLevel <= k
  BY <1>1, <1>2, LowestIs
<1> QED
  BY <1>1, <1>3, Numbers DEF T

-----------------------------------------------------------------------------
(* Execute, by the level it resolves to.                                   *)

\* A request with its level replaced is the same request otherwise.
LEMMA SameRequest ==
  ASSUME NEW req \in Requests, NEW l
  PROVE  /\ [req EXCEPT !.as = l].mod = req.mod /\ [req EXCEPT !.as = l].act = req.act
         /\ [req EXCEPT !.as = l].id = req.id /\ [req EXCEPT !.as = l].asked = req.asked
         /\ [req EXCEPT !.as = l].as = l
<1>1. req = [mod |-> req.mod, act |-> req.act, id |-> req.id, asked |-> req.asked, as |-> req.as]
  BY ConsoleAssumption
<1> QED
  BY <1>1

\* What is done with a request depends on its level only through the level it
\* is dispatched at.
LEMMA ExecuteAt ==
  ASSUME NEW req \in Requests, NEW l, NEW caller \in Levels, NEW have,
         Resolved(l, caller) = have, ~Refused(l, caller)
  PROVE  Execute([req EXCEPT !.as = l], caller, enabled, wanted) =
           IF req.act = Absent THEN "ENOACT"
           ELSE IF req.mod = Absent THEN Builtin(req, have, enabled, wanted)
           ELSE Dispatch(req.mod, req.act, have, enabled, wanted)
<1> DEFINE r == [req EXCEPT !.as = l]
<1>1. r.mod = req.mod /\ r.act = req.act /\ r.id = req.id /\ r.asked = req.asked /\ r.as = l
  BY SameRequest
<1> HIDE DEF r
<1>2. Builtin(r, have, enabled, wanted) = Builtin(req, have, enabled, wanted)
  BY <1>1 DEF Builtin
<1>3. Execute(r, caller, enabled, wanted) =
        IF req.act = Absent THEN "ENOACT"
        ELSE IF req.mod = Absent THEN Builtin(req, have, enabled, wanted)
        ELSE Dispatch(req.mod, req.act, have, enabled, wanted)
  BY <1>1, <1>2 DEF Execute
<1> QED
  BY <1>3 DEF r

\* A request at a lower level is answered as a caller at that level is, and
\* one at a higher level as bad arguments: whatever is live, for every table
\* (execute(), resolveAs()).
THEOREM DowngradeAlwaysExact == DowngradeIsExact
<1> SUFFICES ASSUME NEW req \in Requests, NEW caller \in Levels, NEW l \in Levels
             PROVE  Execute([req EXCEPT !.as = l], caller, enabled, wanted) =
                      IF req.act = Absent THEN "ENOACT"
                      ELSE IF l > caller THEN "EARGS"
                      ELSE Execute([req EXCEPT !.as = NoAs], l, enabled, wanted)
  BY DEF DowngradeIsExact
<1>1. Resolved(NoAs, l) = l /\ ~Refused(NoAs, l)
  BY Numbers DEF Resolved, Refused
<1>2. CASE l > caller
  <2>1. Refused(l, caller)
    BY <1>2, Numbers DEF Refused
  <2>2. [req EXCEPT !.as = l].act = req.act /\ [req EXCEPT !.as = l].as = l
    BY SameRequest
  <2> QED
    BY <1>2, <2>1, <2>2 DEF Execute
<1>3. CASE ~(l > caller)
  <2>1. Resolved(l, caller) = l /\ ~Refused(l, caller)
    BY <1>3, Numbers DEF Resolved, Refused
  <2> QED
    BY <1>1, <1>3, <2>1, ExecuteAt
<1> QED
  BY <1>2, <1>3

-----------------------------------------------------------------------------
(* The gate and the views.                                                 *)

\* A module's action is refused exactly when the listing did not allow it.
LEMMA ActionRefused ==
  ASSUME NEW m \in DOMAIN ModuleAuth \ Silent, NEW a \in DOMAIN ActionAuth[m], NEW have \in Levels
  PROVE  Dispatch(m, a, have, enabled, wanted) \in Refusals <=> ~Allowed(have, m, a)
<1> DEFINE need == effective(ModuleAuth[m])
           level == effective(ActionAuth[m][a])
           any == effective(LowestModule)
<1>1. ModuleAuth[m] \in Levels /\ ActionAuth[m][a] \in Levels
  BY LevelsAssumption
<1>2. effective(DispatchLevel(m, a)) = level
  BY <1>1, EffectiveLevel DEF DispatchLevel, ActionLevel
<1>3. any \in Nat /\ need \in Nat /\ level \in Nat /\ have \in Nat /\ any <= need
  BY <1>1, EffectiveLevel, LowestModuleIs, Numbers
<1>4. Allowed(have, m, a) <=> have >= need /\ have >= level
  BY DEF Allowed, Shown, Permits
<1>5. Decide(have, m, a) = IF ~(have >= any) THEN "EAUTH_ANY"
                           ELSE IF ~(have >= need) THEN "EAUTH_MODULE"
                           ELSE IF ~(have >= level) THEN "EAUTH_ACTION" ELSE "ALLOW"
  BY <1>2 DEF Decide, Permits
<1> HIDE DEF need, level, any
<1>6. CASE have >= need /\ have >= level
  <2>1. Decide(have, m, a) = "ALLOW"
    BY <1>3, <1>5, <1>6
  <2>2. Dispatch(m, a, have, enabled, wanted) \in {"EREBOOT", "EDISABLED", "ran"}
    BY <2>1 DEF Dispatch
  <2> QED
    BY <1>4, <1>6, <2>2 DEF Refusals
<1>7. CASE ~(have >= need /\ have >= level)
  <2>1. Decide(have, m, a) \in {"EAUTH_ANY", "EAUTH_MODULE", "EAUTH_ACTION"}
    BY <1>5, <1>7
  <2>2. Dispatch(m, a, have, enabled, wanted) = Decide(have, m, a)
    BY <2>1 DEF Dispatch
  <2> QED
    BY <1>4, <1>7, <2>1, <2>2 DEF Refusals
<1> QED
  BY <1>6, <1>7

\* A built-in other than the two that ask again is refused exactly when help
\* did not offer it.
LEMMA BuiltinRefused ==
  ASSUME NEW req, req.act \in DOMAIN Builtins \ {"ota", "led"}, NEW have \in Levels
  PROVE  Builtin(req, have, enabled, wanted) \in Refusals <=> req.act \notin Offered(have)
<1>1. Builtins[req.act] \in Levels
  BY LevelsAssumption
<1>2. MinimumLevel \in Nat /\ Builtins[req.act] \in Nat /\ have \in Nat /\ MinimumLevel <= Builtins[req.act]
  BY <1>1, MinimumLevelIs, Numbers
<1>3. req.act \in Offered(have) <=> have >= Builtins[req.act]
  BY DEF Offered, Permits
<1>4. CASE have >= Builtins[req.act]
  <2>1. Builtin(req, have, enabled, wanted) \in {"EARGS", "ran"}
    BY <1>2, <1>4 DEF Builtin, Permits
  <2> QED
    BY <1>3, <1>4, <2>1 DEF Refusals
<1>5. CASE ~(have >= Builtins[req.act])
  <2>1. Builtin(req, have, enabled, wanted) \in {"EAUTH_BUILTIN", "EAUTH_COMMAND"}
    BY <1>5 DEF Builtin, Permits
  <2> QED
    BY <1>3, <1>5, <2>1 DEF Refusals
<1> QED
  BY <1>4, <1>5

\* A caller that is shown no module learns of none.
LEMMA NothingShown ==
  ASSUME NEW m, NEW a, NEW have \in Levels, Shown(have) = {}
  PROVE  Dispatch(m, a, have, enabled, wanted) = "EAUTH_ANY"
<1>1. \A k \in DOMAIN ModuleAuth : /\ effective(ModuleAuth[k]) \in Levels
                                   /\ ~(have >= effective(ModuleAuth[k]))
  <2> TAKE k \in DOMAIN ModuleAuth
  <2>1. ModuleAuth[k] \in Levels
    BY LevelsAssumption
  <2> QED
    BY <2>1, EffectiveLevel DEF Shown, Permits
<1>2. PICK k \in DOMAIN ModuleAuth : TRUE
  BY ConsoleAssumption
<1>3. ~(have >= Physical)
  <2>1. effective(ModuleAuth[k]) <= Physical
    BY <1>1, <1>2, Numbers
  <2> QED
    BY <1>1, <1>2, <2>1, Numbers
<1>4. ~(have >= effective(LowestModule))
  BY <1>1, <1>3, LowestModuleIs
<1>5. Decide(have, m, a) = "EAUTH_ANY"
  BY <1>4 DEF Decide, Permits
<1> QED
  BY <1>5 DEF Dispatch

\* What a caller is shown and what it is refused agree, for every table of
\* modules, actions and built-ins (list(), cmdHelp(), dispatch(), decide()).
THEOREM ViewAlwaysMatchesGate == ViewMatchesGate
<1> SUFFICES ASSUME NEW req \in Requests, NEW have \in Levels
             PROVE  LET code == Execute([req EXCEPT !.as = NoAs], have, enabled, wanted) IN
      /\ req.mod \in DOMAIN ModuleAuth \ Silent /\ req.act \in DOMAIN ActionAuth[req.mod] =>
           (code \in Refusals <=> ~Allowed(have, req.mod, req.act))
      /\ req.mod = Absent /\ req.act \in DOMAIN Builtins \ {"ota", "led"} =>
           (code \in Refusals <=> req.act \notin Offered(have))
      /\ req.mod # Absent /\ req.act # Absent /\ Shown(have) = {} => code = "EAUTH_ANY"
  BY DEF ViewMatchesGate
<1> DEFINE code == Execute([req EXCEPT !.as = NoAs], have, enabled, wanted)
<1>1. Resolved(NoAs, have) = have /\ ~Refused(NoAs, have)
  BY Numbers DEF Resolved, Refused
<1>2. code = IF req.act = Absent THEN "ENOACT"
             ELSE IF req.mod = Absent THEN Builtin(req, have, enabled, wanted)
             ELSE Dispatch(req.mod, req.act, have, enabled, wanted)
  BY <1>1, ExecuteAt
<1> HIDE DEF code
<1>3. ASSUME req.mod \in DOMAIN ModuleAuth \ Silent, req.act \in DOMAIN ActionAuth[req.mod]
      PROVE  code \in Refusals <=> ~Allowed(have, req.mod, req.act)
  <2>1. req.mod # Absent /\ req.act # Absent
    BY <1>3, ConsoleAssumption
  <2> QED
    BY <1>2, <1>3, <2>1, ActionRefused
<1>4. ASSUME req.mod = Absent, req.act \in DOMAIN Builtins \ {"ota", "led"}
      PROVE  code \in Refusals <=> req.act \notin Offered(have)
  <2>1. req.act # Absent
    BY <1>4, ConsoleAssumption
  <2> QED
    BY <1>2, <1>4, <2>1, BuiltinRefused
<1>5. ASSUME req.mod # Absent, req.act # Absent, Shown(have) = {}
      PROVE  code = "EAUTH_ANY"
  BY <1>2, <1>5, NothingShown
<1> QED
  BY <1>3, <1>4, <1>5 DEF code

-----------------------------------------------------------------------------
(* Lines.                                                                  *)

\* What the buffer holds of the line that is arriving.
Buffered ==
  /\ overflowed => sent > MaxLine
  /\ ~overflowed => sent = lineLen
  /\ host = Quiet => sent = 0

ConsoleInv == ConsoleTypeOK /\ Buffered /\ AnsweredWhole

\* No request is answered with what the reader says of a line.
LEMMA NeverALine ==
  ASSUME NEW req, NEW caller
  PROVE  Execute(req, caller, enabled, wanted) # "ELINE"
<1>1. \A have : Decide(have, req.mod, req.act) # "ELINE" /\ Decide(have, "led", "set") # "ELINE"
  BY DEF Decide
<1>2. \A have : Dispatch(req.mod, req.act, have, enabled, wanted) # "ELINE"
  BY <1>1 DEF Dispatch
<1>3. \A have : Dispatch("led", "set", have, enabled, wanted) # "ELINE"
  BY <1>1 DEF Dispatch
<1>4. \A have : Ota(req.asked, have) # "ELINE"
  BY DEF Ota
<1>5. \A have : Builtin(req, have, enabled, wanted) # "ELINE"
  BY <1>3, <1>4 DEF Builtin
<1> QED
  BY <1>2, <1>5 DEF Execute

LEMMA EffectType ==
  ASSUME ConsoleTypeOK, NEW req, NEW code, Effect(req, code)
  PROVE  enabled' \subseteq DOMAIN ModuleAuth /\ wanted' \subseteq DOMAIN ModuleAuth
BY DEF Effect, ConsoleTypeOK

LEMMA LineStep == ConsoleInv /\ [ConsoleNext]_consoleVars => ConsoleInv'
<1> SUFFICES ASSUME ConsoleInv, [ConsoleNext]_consoleVars
             PROVE  ConsoleInv'
  OBVIOUS
<1> USE DEF ConsoleInv, ConsoleTypeOK, Buffered, AnsweredWhole
<1>len. MaxLine \in Nat /\ Quiet.len = 0 /\ \A l \in Lines \cup {Quiet} : l.len \in Nat
  BY ConsoleAssumption DEF Quiet
<1>1. ASSUME NEW l \in Lines, TypeLine(l) PROVE ConsoleInv'
  BY <1>1, <1>len DEF TypeLine, NoAnswer
<1>2. CASE TakeByte
  <2>1. host' = host /\ sent' = sent + 1 /\ sent < host.len /\ host # Quiet /\ sent \in Nat
    BY <1>2, <1>len DEF TakeByte
  <2>2. sent' \in 0 .. host'.len
    BY <2>1, <1>len
  <2>3. CASE overflowed
    <3>1. overflowed' = overflowed /\ lineLen' = lineLen
      BY <1>2, <2>3 DEF TakeByte
    <3>2. sent' > MaxLine
      BY <2>1, <2>3, <1>len
    <3> QED
      BY <1>2, <2>1, <2>2, <2>3, <3>1, <3>2 DEF TakeByte
  <2>4. CASE ~overflowed /\ lineLen >= MaxLine
    <3>1. overflowed' = TRUE /\ lineLen' = lineLen
      BY <1>2, <2>4 DEF TakeByte
    <3>2. sent' > MaxLine
      BY <2>1, <2>4, <1>len
    <3> QED
      BY <1>2, <2>1, <2>2, <3>1, <3>2 DEF TakeByte
  <2>5. CASE ~overflowed /\ ~(lineLen >= MaxLine)
    <3>1. overflowed' = overflowed /\ lineLen' = lineLen + 1
      BY <1>2, <2>5 DEF TakeByte
    <3>2. lineLen' \in 0 .. MaxLine /\ sent' = lineLen'
      BY <2>1, <2>5, <3>1, <1>len
    <3> QED
      BY <1>2, <2>1, <2>2, <2>5, <3>1, <3>2 DEF TakeByte
  <2> QED
    BY <2>3, <2>4, <2>5
<1>3. CASE LineEnd
  <2>1. /\ host' = Quiet /\ sent' = 0 /\ lineLen' = 0 /\ overflowed' = FALSE /\ sent = host.len
        /\ host \in Lines
    BY <1>3 DEF LineEnd
  <2>2. Buffered' /\ host' \in Lines \cup {Quiet} /\ sent' \in 0 .. host'.len /\ lineLen' \in 0 .. MaxLine
        /\ overflowed' \in BOOLEAN
    <3>1. host' \in Lines \cup {Quiet} /\ overflowed' \in BOOLEAN
      BY <2>1
    <3>2. sent' \in 0 .. host'.len /\ lineLen' \in 0 .. MaxLine
      BY <2>1, <1>len
    <3> QED
      BY <2>1, <3>1, <3>2
  <2>3. enabled' \subseteq DOMAIN ModuleAuth /\ wanted' \subseteq DOMAIN ModuleAuth /\ restarting' \in BOOLEAN
    BY <1>3, EffectType DEF LineEnd, Reboots
  <2>4. CASE overflowed
    <3>1. answer' = [line |-> host, code |-> "ELINE"] /\ host.len > MaxLine
      BY <1>3, <2>1, <2>4 DEF LineEnd, Answered
    <3>2. AnsweredWhole'
      BY <3>1
    <3> QED
      BY <2>2, <2>3, <3>2
  <2>5. CASE ~overflowed /\ answer' = answer
    BY <2>2, <2>3, <2>5
  <2>6. CASE ~overflowed /\ answer' # answer
    <3>1. ~(host.len > MaxLine)
      <4>1. sent = lineLen /\ lineLen \in 0 .. MaxLine
        BY <2>6
      <4> QED
        BY <2>1, <4>1, <1>len
    <3>2. \/ answer' = [line |-> host, code |-> "EPARSE"]
          \/ /\ host.shape # "garbage"
             /\ answer' = [line |-> host, code |-> Execute(host.req, Physical, enabled, wanted)]
      BY <1>3, <2>6 DEF LineEnd, Answered
    <3>3. AnsweredWhole'
      BY <3>1, <3>2, NeverALine
    <3> QED
      BY <2>2, <2>3, <3>3
  <2> QED
    BY <2>4, <2>5, <2>6
<1>4. CASE Restart
  <2>1. /\ enabled' = wanted /\ wanted' = wanted /\ host' = Quiet /\ sent' = 0 /\ lineLen' = 0
        /\ overflowed' = FALSE /\ restarting' = FALSE /\ answer'.line = Quiet
    BY <1>4 DEF Restart, NoAnswer
  <2>2. sent' \in 0 .. host'.len /\ lineLen' \in 0 .. MaxLine
    BY <2>1, <1>len
  <2> QED
    BY <2>1, <2>2
<1>5. ASSUME NEW req \in Posts, Post(req) PROVE ConsoleInv'
  <2>1. UNCHANGED <<host, sent, lineLen, overflowed, answer>>
    BY <1>5 DEF Post, Reader
  <2>2. enabled' \subseteq DOMAIN ModuleAuth /\ wanted' \subseteq DOMAIN ModuleAuth /\ restarting' \in BOOLEAN
    BY <1>5, EffectType DEF Post, Reboots
  <2> QED
    BY <2>1, <2>2
<1>6. CASE UNCHANGED consoleVars
  BY <1>6 DEF consoleVars
<1> QED
  BY <1>1, <1>2, <1>3, <1>4, <1>5, <1>6 DEF ConsoleNext

LEMMA LineInit == ConsoleInit => ConsoleInv
<1> SUFFICES ASSUME ConsoleInit
             PROVE  ConsoleInv
  OBVIOUS
<1>1. MaxLine \in Nat /\ Quiet.len = 0
  BY ConsoleAssumption DEF Quiet
<1>2. sent \in 0 .. host.len /\ lineLen \in 0 .. MaxLine /\ answer.line = Quiet
  BY <1>1 DEF ConsoleInit, NoAnswer
<1>3. ConsoleTypeOK
  BY <1>2 DEF ConsoleInit, ConsoleTypeOK
<1>4. Buffered /\ AnsweredWhole
  BY <1>2 DEF ConsoleInit, Buffered, AnsweredWhole
<1> QED
  BY <1>3, <1>4 DEF ConsoleInv

LEMMA Inductive == ConsoleSpec => []ConsoleInv
<1>1. ConsoleInit => ConsoleInv
  BY LineInit
<1>2. ConsoleInv /\ [ConsoleNext]_consoleVars => ConsoleInv'
  BY LineStep
<1> QED
  BY <1>1, <1>2, PTL DEF ConsoleSpec

\* The reader's counters never leave the buffer and no command enables what
\* is not a module.
THEOREM ConsoleTypeCorrect == ConsoleSpec => []ConsoleTypeOK
<1>1. ConsoleSpec => []ConsoleInv
  BY Inductive
<1> QED
  BY <1>1, PTL DEF ConsoleInv

\* A line that is longer than the buffer is refused as a whole, once, however
\* its bytes arrive, and no other line is (poll()).
THEOREM LinesAnsweredWhole == ConsoleSpec => []AnsweredWhole
<1>1. ConsoleSpec => []ConsoleInv
  BY Inductive
<1> QED
  BY <1>1, PTL DEF ConsoleInv

-----------------------------------------------------------------------------
(* Passphrase.                                                             *)

\* The module's types, through every failure and every loss of power.
THEOREM PskTypeCorrect == PskSpec => []PskTypeOK
<1>1. PskInit => PskTypeOK
  <2>1. Blank \in Credential
    BY DEF Blank, Credential
  <2> QED
    BY <2>1 DEF PskInit, PskTypeOK
<1>2. PskTypeOK /\ [PskNext]_pskVars => PskTypeOK'
  <2> SUFFICES ASSUME PskTypeOK, [PskNext]_pskVars
               PROVE  PskTypeOK'
    OBVIOUS
  <2> USE DEF PskTypeOK, Go, Answer
  <2>1. ASSUME NEW c \in Credential, NEW k \in Keys \cup {None} PROVE [c EXCEPT !.key = k] \in Credential
    BY <2>1 DEF Credential
  <2>2. ASSUME NEW c \in Credential, NEW b \in BOOLEAN PROVE [c EXCEPT !.set = b] \in Credential
    BY <2>2 DEF Credential
  <2>3. ASSUME NEW k \in Keys \cup {None}, NEW b \in BOOLEAN PROVE [key |-> k, set |-> b] \in Credential
    BY <2>3 DEF Credential
  <2>4. ram.key \in Keys \cup {None} /\ ram.set \in BOOLEAN /\ MintedKeys \subseteq Keys /\ OwnerKeys \subseteq Keys
    BY DEF Credential, Keys
  <2>5. CASE Load BY <2>3, <2>4, <2>5 DEF Load, Blank
  <2>6. CASE EnableFails BY <2>6 DEF EnableFails
  <2>7. CASE MintKey BY <2>1, <2>7 DEF MintKey
  <2>8. CASE MintSet BY <2>2, <2>8 DEF MintSet
  <2>9. CASE StartUp BY <2>4, <2>9 DEF StartUp
  <2>10. CASE Teardown BY <2>3, <2>10 DEF Teardown, Blank
  <2>11. CASE Refuse BY <2>11 DEF Refuse
  <2>12. CASE Crash BY <2>3, <2>12 DEF Crash, Blank
  <2>13. CASE PersistKey BY <2>1, <2>13 DEF PersistKey
  <2>14. CASE PersistFails BY <2>14 DEF PersistFails
  <2>15. CASE PersistSet BY <2>2, <2>3, <2>15 DEF PersistSet
  <2>16. ASSUME NEW u \in BOOLEAN, Rekey(u) PROVE PskTypeOK' BY <2>3, <2>16 DEF Rekey
  <2>17. ASSUME NEW u \in BOOLEAN, RekeyBack(u) PROVE PskTypeOK' BY <2>4, <2>17 DEF RekeyBack
  <2>18. CASE BackKey BY <2>1, <2>4, <2>18 DEF BackKey
  <2>19. CASE BackSet BY <2>2, <2>4, <2>19 DEF BackSet
  <2>20. CASE BackFails BY <2>20 DEF BackFails
  <2>21. ASSUME NEW k \in OwnerKeys, Ask(k) PROVE PskTypeOK' BY <2>4, <2>21 DEF Ask
  <2>22. CASE UNCHANGED pskVars BY <2>22 DEF pskVars
  <2> QED
    BY <2>5, <2>6, <2>7, <2>8, <2>9, <2>10, <2>11, <2>12, <2>13, <2>14, <2>15, <2>16, <2>17, <2>18,
       <2>19, <2>20, <2>21, <2>22 DEF PskNext, Enabling, Setting
<1> QED
  BY <1>1, <1>2, PTL DEF PskSpec

-----------------------------------------------------------------------------
\* Where a step of enable() or of setPassphrase() has got to, and what the
\* radio, RAM and flash hold by then.
Steps ==
  /\ step \in {"mintKey", "mintSet", "start"} => ~on
  /\ step \in {"key", "set", "restart", "back", "backKey", "backSet"} => on
  /\ ~on => air = None

Stored ==
  /\ step \in {"mintKey", "mintSet"} => fresh = ram.key
  /\ step \in {"mintSet", "start", "backSet"} => nvs.key = ram.key
  /\ step \in {"set", "restart", "back"} => nvs.key = fresh
  /\ on /\ step \in {"idle", "key"} /\ nvs.key # ram.key => drifted

PskInv == PskTypeOK /\ Steps /\ AirIsReported /\ Stored

LEMMA PskInvHolds == PskSpec => [](Steps /\ AirIsReported /\ Stored)
<1>1. PskInit => Steps /\ AirIsReported /\ Stored
  BY DEF PskInit, Steps, Stored, AirIsReported, Blank
<1>2. PskInv /\ [PskNext]_pskVars => (Steps /\ AirIsReported /\ Stored)'
  <2> SUFFICES ASSUME PskInv, [PskNext]_pskVars
               PROVE  (Steps /\ AirIsReported /\ Stored)'
    OBVIOUS
  <2> USE DEF PskInv, PskTypeOK, Steps, Stored, AirIsReported, Go, Answer
  <2>1. ASSUME NEW c \in Credential, NEW k \in Keys \cup {None}
        PROVE [c EXCEPT !.key = k].key = k
    BY <2>1 DEF Credential
  <2>2. ASSUME NEW c \in Credential, NEW b \in BOOLEAN
        PROVE [c EXCEPT !.set = b].key = c.key
    BY <2>2 DEF Credential
  <2>3. ram.key \in Keys \cup {None} /\ ram.set \in BOOLEAN
    BY DEF Credential
  <2>5. CASE Load BY <2>5 DEF Load, Blank
  <2>6. CASE EnableFails BY <2>6 DEF EnableFails
  <2>7. CASE MintKey BY <2>1, <2>7 DEF MintKey
  <2>8. CASE MintSet BY <2>2, <2>8 DEF MintSet
  <2>9. CASE StartUp BY <2>9 DEF StartUp
  <2>10. CASE Teardown BY <2>10 DEF Teardown, Blank
  <2>11. CASE Refuse BY <2>11 DEF Refuse
  <2>12. CASE Crash BY <2>12 DEF Crash, Blank
  <2>13. CASE PersistKey BY <2>1, <2>13 DEF PersistKey
  <2>14. CASE PersistFails BY <2>14 DEF PersistFails
  <2>15. CASE PersistSet BY <2>2, <2>15 DEF PersistSet
  <2>16. ASSUME NEW u \in BOOLEAN, Rekey(u) PROVE (Steps /\ AirIsReported /\ Stored)' BY <2>16 DEF Rekey
  <2>17. ASSUME NEW u \in BOOLEAN, RekeyBack(u) PROVE (Steps /\ AirIsReported /\ Stored)' BY <2>17 DEF RekeyBack
  <2>18. CASE BackKey BY <2>1, <2>3, <2>18 DEF BackKey
  <2>19. CASE BackSet BY <2>2, <2>3, <2>19 DEF BackSet
  <2>20. CASE BackFails BY <2>20 DEF BackFails
  <2>21. ASSUME NEW k \in OwnerKeys, Ask(k) PROVE (Steps /\ AirIsReported /\ Stored)' BY <2>21 DEF Ask
  <2>22. CASE UNCHANGED pskVars BY <2>22 DEF pskVars
  <2> QED
    BY <2>5, <2>6, <2>7, <2>8, <2>9, <2>10, <2>11, <2>12, <2>13, <2>14, <2>15, <2>16, <2>17, <2>18,
       <2>19, <2>20, <2>21, <2>22 DEF PskNext, Enabling, Setting
<1>3. PskSpec => []PskTypeOK
  BY PskTypeCorrect
<1> QED
  BY <1>1, <1>2, <1>3, PTL DEF PskSpec, PskInv

\* The radio never runs on a passphrase other than the one in RAM, which is
\* the one `psk` reports and the panel shows.
THEOREM RadioRunsWhatIsReported == PskSpec => []AirIsReported
BY PskInvHolds, PTL

\* A module that runs on a key its next boot will not use has answered ENVS
\* or that the revert did not land.
THEOREM DriftHasBeenTold == PskSpec => []DriftIsReported
<1>1. Stored => DriftIsReported
  BY DEF Stored, DriftIsReported
<1> QED
  BY <1>1, PskInvHolds, PTL
=============================================================================
