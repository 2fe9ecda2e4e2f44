-------------------------------- MODULE Events --------------------------------
(***************************************************************************)
(* Events on their way to WebSocket clients (firmware/src/mod_http.cpp):   *)
(* whoever emits writes one slot of a bounded ring and asks the server     *)
(* task for a drain; the drain takes a slot, copies the client table, asks *)
(* which sessions still live, and sends, holding one lock at a time.       *)
(*                                                                         *)
(* The loop task emits, ends sessions and empties the client table between *)
(* any two of those steps. Sockets open, speak and close on the server     *)
(* task alone. A session is the number of its pairing: one at a time.      *)
(***************************************************************************)
EXTENDS Naturals, Sequences, FiniteSets

CONSTANTS
  Fds,          \* descriptors the server can hand out
  MaxClients,   \* MAX_WS_CLIENTS
  EventSlots,   \* EVENT_SLOTS
  MaxSession,   \* bound: pairings in one run
  MaxEvent      \* bound: events past this one share its number

ASSUME EventsAssumption ==
  /\ MaxClients \in Nat \ {0} /\ EventSlots \in Nat \ {0}
  /\ MaxSession \in Nat /\ MaxEvent \in Nat \ {0}

VARIABLES
  ring,        \* ring_, oldest first
  work,        \* a drainEvents item is queued on the server task
  open,        \* descriptors with a socket
  closing,     \* of those, the ones httpd_sess_trigger_close() was asked for
  clients,     \* the descriptors in wsClients_
  authed,      \* the session each of them is authed by, or 0
  live,        \* the live session, or 0
  paired,      \* sessionCounter_: the newest session
  pc,          \* the server task: "idle" | "drain" | "check" | "send"
  frame,       \* the slot drainEvents() copied
  targets,     \* fds[] and ids[], with live[] once it is asked
  emitted,     \* history: events emitted
  last,        \* history: the newest event each open socket was sent
  reached      \* history: the sessions this slot was sent to

ringVars == <<ring, work, emitted>>
sessionVars == <<live, paired>>
socketVars == <<open, closing, clients, authed, last>>
drainVars == <<pc, frame, targets, reached>>

vars == <<ringVars, sessionVars, socketVars, drainVars>>

Sessions == 1 .. MaxSession

\* A slot, and the newest session that had ended when it was written.
Slot == [n : 1 .. MaxEvent, ended : 0 .. MaxSession]

Ended == IF live = 0 THEN paired ELSE live - 1

NoFrame == [n |-> 0, ended |-> 0]

\* wsRemove() of a set of descriptors.
Remove(fds) ==
  /\ clients' = clients \ fds
  /\ authed' = [f \in Fds |-> IF f \in fds THEN 0 ELSE authed[f]]

\* wsRemove() and httpd_sess_trigger_close() of one.
Drop(f) == Remove({f}) /\ closing' = closing \cup {f}

Keep == UNCHANGED <<clients, authed, closing>>

-----------------------------------------------------------------------------
(* The sink.                                                               *)

\* eventSink(): a full ring drops the event and returns before it asks for a
\* drain. Otherwise the slot is written and a drain is asked for, which fails
\* when the control socket is full.
Sink(queued) ==
  LET n == IF emitted = MaxEvent THEN MaxEvent ELSE emitted + 1
  IN  /\ emitted' = n
      /\ IF Len(ring) >= EventSlots
         THEN UNCHANGED <<ring, work>>
         ELSE /\ ring' = Append(ring, [n |-> n, ended |-> Ended])
              /\ work' = (work \/ queued)

\* The heartbeat, or any other event of either task.
Emit(queued) ==
  /\ Sink(queued)
  /\ UNCHANGED <<sessionVars, socketVars, drainVars>>

-----------------------------------------------------------------------------
(* Sessions.                                                               *)

\* POST /api/session: the new session evicts the old one.
Pair ==
  /\ pc = "idle" /\ paired < MaxSession
  /\ paired' = paired + 1 /\ live' = paired'
  /\ UNCHANGED <<ringVars, socketVars, drainVars>>

\* It expires, is revoked on the loop task, or is unpaired.
SessionEnds ==
  /\ live # 0 /\ live' = 0
  /\ UNCHANGED <<paired, ringVars, socketVars, drainVars>>

\* dropAllWsClients() on the loop task: the table first, then the sockets.
DropAll ==
  /\ Remove(clients)
  /\ closing' = closing \cup clients
  /\ UNCHANGED <<open, last, ringVars, sessionVars, drainVars>>

-----------------------------------------------------------------------------
(* Sockets, on the server task between two drains.                         *)

\* handleWs() on the upgrade: wsAdd() with the session of its header, if any.
Upgrade(f, s) ==
  /\ pc = "idle" /\ f \notin open
  /\ s \in {0, live}
  /\ open' = open \cup {f}
  /\ last' = [last EXCEPT ![f] = 0]
  /\ IF Cardinality(clients) < MaxClients
     THEN /\ clients' = clients \cup {f} /\ authed' = [authed EXCEPT ![f] = s]
          /\ UNCHANGED closing
     ELSE closing' = closing \cup {f} /\ UNCHANGED <<clients, authed>>
  /\ UNCHANGED <<ringVars, sessionVars, drainVars>>

\* The `auth` frame: a live token marks the socket, anything else closes it.
AuthFrame(f, right) ==
  /\ pc = "idle" /\ f \in open
  /\ IF right /\ live # 0
     THEN /\ authed' = IF f \in clients THEN [authed EXCEPT ![f] = live] ELSE authed
          /\ UNCHANGED <<clients, closing>>
     ELSE Drop(f)
  /\ UNCHANGED <<open, last, ringVars, sessionVars, drainVars>>

\* Any other frame: wsSessionStillLive() is asked, and a socket without a live
\* session is dropped and closed. So is one whose frame is too long to read.
CommandFrame(f, tooLong) ==
  /\ pc = "idle" /\ f \in open
  /\ IF tooLong \/ authed[f] = 0 \/ authed[f] # live THEN Drop(f) ELSE Keep
  /\ UNCHANGED <<open, last, ringVars, sessionVars, drainVars>>

\* onSocketClose(): a queued close runs, or the far end goes.
CloseSocket(f) ==
  /\ pc = "idle" /\ f \in open
  /\ Remove({f})
  /\ open' = open \ {f} /\ closing' = closing \ {f}
  /\ UNCHANGED <<last, ringVars, sessionVars, drainVars>>

-----------------------------------------------------------------------------
(* drainEvents().                                                          *)

\* The head of its loop: take the oldest slot under ringLock_, or return.
Take ==
  /\ \/ pc = "idle" /\ work /\ work' = FALSE
     \/ pc = "drain" /\ UNCHANGED work
  /\ targets' = {} /\ reached' = {}
  /\ IF ring = << >>
     THEN pc' = "idle" /\ frame' = NoFrame /\ UNCHANGED ring
     ELSE pc' = "copy" /\ frame' = Head(ring) /\ ring' = Tail(ring)
  /\ UNCHANGED <<emitted, sessionVars, socketVars>>

\* fds[] and ids[], copied under wsLock_.
Copy ==
  /\ pc = "copy" /\ pc' = "check"
  /\ targets' = {[fd |-> f, id |-> authed[f], live |-> FALSE] : f \in {g \in clients : authed[g] # 0}}
  /\ UNCHANGED <<frame, reached, ringVars, sessionVars, socketVars>>

\* A drain that takes a socket's authed mark for a live session.
CheckByMark ==
  /\ pc = "check" /\ pc' = "send"
  /\ targets' = {[t EXCEPT !.live = TRUE] : t \in targets}
  /\ UNCHANGED <<frame, reached, ringVars, sessionVars, socketVars>>

\* live[], filled under authLock_ after reapLocked().
Check ==
  /\ pc = "check" /\ pc' = "send"
  /\ targets' = {[t EXCEPT !.live = (t.id = live)] : t \in targets}
  /\ UNCHANGED <<frame, reached, ringVars, sessionVars, socketVars>>

\* A loop that passes over what it will not send to.
SendSkips(t, sent) ==
  /\ pc = "send" /\ t \in targets
  /\ targets' = targets \ {t}
  /\ IF t.live /\ sent
     THEN last' = [last EXCEPT ![t.fd] = frame.n] /\ reached' = reached \cup {t.id}
     ELSE UNCHANGED <<last, reached>>
  /\ Keep
  /\ UNCHANGED <<pc, frame, open, ringVars, sessionVars>>

\* One pass of the send loop: a socket whose session has gone, or that will
\* not take the frame, leaves the table and is closed.
Send(t, sent) ==
  /\ pc = "send" /\ t \in targets
  /\ targets' = targets \ {t}
  /\ IF t.live /\ sent
     THEN /\ last' = [last EXCEPT ![t.fd] = frame.n]
          /\ reached' = reached \cup {t.id}
          /\ Keep
     ELSE Drop(t.fd) /\ UNCHANGED <<last, reached>>
  /\ UNCHANGED <<pc, frame, open, ringVars, sessionVars>>

\* Every target is done: back to the head of the loop.
Again ==
  /\ pc = "send" /\ targets = {}
  /\ pc' = "drain"
  /\ UNCHANGED <<frame, targets, reached, ringVars, sessionVars, socketVars>>

Drain == Take \/ Copy \/ Check \/ Again \/ \E t \in targets, sent \in BOOLEAN : Send(t, sent)

-----------------------------------------------------------------------------
Init ==
  /\ ring = << >> /\ work = FALSE /\ emitted = 0
  /\ live = 0 /\ paired = 0
  /\ open = {} /\ closing = {} /\ clients = {} /\ authed = [f \in Fds |-> 0] /\ last = [f \in Fds |-> 0]
  /\ pc = "idle" /\ frame = NoFrame /\ targets = {} /\ reached = {}

Loop ==
  \/ \E q \in BOOLEAN : Emit(q)
  \/ SessionEnds \/ DropAll

Handler ==
  \/ Pair
  \/ \E f \in Fds, s \in 0 .. MaxSession : Upgrade(f, s)
  \/ \E f \in Fds, right \in BOOLEAN : AuthFrame(f, right)
  \/ \E f \in Fds, tooLong \in BOOLEAN : CommandFrame(f, tooLong)
  \/ \E f \in Fds : CloseSocket(f)

Next == Loop \/ Handler \/ Drain

\* The server task runs what it has, queued closes included; the heartbeat
\* comes round, and a drain that can be asked for again and again is queued.
Fairness ==
  /\ WF_vars(Drain)
  /\ \A f \in Fds : SF_vars(f \in closing /\ CloseSocket(f))
  /\ WF_vars(\E q \in BOOLEAN : Emit(q))
  /\ SF_vars(Emit(TRUE))

Spec == Init /\ [][Next]_vars /\ Fairness

-----------------------------------------------------------------------------
TypeOK ==
  /\ ring \in Seq(Slot) /\ Len(ring) =< EventSlots
  /\ work \in BOOLEAN /\ emitted \in 0 .. MaxEvent
  /\ open \subseteq Fds /\ closing \subseteq open
  /\ clients \subseteq open /\ Cardinality(clients) =< MaxClients
  /\ authed \in [Fds -> 0 .. paired] /\ \A f \in Fds \ clients : authed[f] = 0
  /\ paired \in 0 .. MaxSession /\ live \in {0, paired}
  /\ last \in [Fds -> 0 .. MaxEvent]
  /\ pc \in {"idle", "drain", "copy", "check", "send"}
  /\ frame \in Slot \cup {NoFrame}
  /\ targets \subseteq [fd : open, id : 1 .. paired, live : BOOLEAN]
  /\ reached \subseteq 1 .. paired

\* No event reaches a client of a session that had ended when the event was
\* emitted, whichever task ended it and whatever the drain had read by then
\* (drainEvents() asks after it has taken the slot).
NoneAfterEnd == \A s \in reached : s > frame.ended

\* A full ring loses events and never reorders or repeats them: what a socket
\* is sent is newer than all it was sent before.
OrderKept ==
  \A t \in targets :
    pc = "send" /\ t.live => last[t.fd] < frame.n \/ frame.n = MaxEvent

\* Authed by a session that has gone.
Stale(f) == authed[f] \notin {0, live}

\* A listener that never sends a frame does not outlive its session: once a
\* drain is queued it leaves the table.
SilentSocketGoes ==
  \A f \in Fds : (Stale(f) /\ work /\ ring # << >>) ~> ~Stale(f)

\* mod_http.cpp:1335: an event whose drain could not be queued waits for the
\* next emit, "and the heartbeat guarantees another attempt within 5 s".
HeartbeatRetries ==
  \A n \in 1 .. MaxEvent - 1 :
    (\E i \in 1 .. Len(ring) : ring[i].n = n) ~> (\A i \in 1 .. Len(ring) : ring[i].n # n)

=============================================================================
