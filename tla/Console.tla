------------------------------ MODULE Console ------------------------------
(***************************************************************************)
(* The wire protocol's two live callers: the serial line reader, which     *)
(* assembles a line from bytes over many polls and executes it with the    *)
(* authority of the cable, and the HTTP task, which executes with that of  *)
(* a session.  Enabling and disabling change what later requests find; the *)
(* arbitration between modules is Registry's.                              *)
(***************************************************************************)
EXTENDS Authority

CONSTANTS MaxLine,   \* Protocol::MAX_LINE, in bytes
          Lines,     \* the lines a host may send: length, shape and the request in it
          Requests,  \* the requests the answers are compared over
          Posts      \* those of them a session posts

ASSUME ConsoleAssumption ==
  /\ MaxLine \in Nat /\ \A l \in Lines : l.len \in Nat
  /\ \A r \in Requests : r = [mod |-> r.mod, act |-> r.act, id |-> r.id, asked |-> r.asked, as |-> r.as]
  /\ Absent \notin DOMAIN Builtins \cup DOMAIN ModuleAuth /\ DOMAIN ModuleAuth # {}
  /\ \A m \in DOMAIN ModuleAuth : Absent \notin DOMAIN ActionAuth[m]

VARIABLES enabled, wanted,  \* the registry's enabled_ and desired_
          host,          \* the line being received, Quiet between lines
          sent,          \* bytes of it the reader has taken
          lineLen,       \* bytes in lineBuf
          overflowed,    \* lineOverflowed
          answer,        \* what the reader answered to the line that just ended
          restarting     \* a reboot was answered; the transport restarts next

consoleVars == <<enabled, wanted, host, sent, lineLen, overflowed, answer, restarting>>

NoRequest == [mod |-> Absent, act |-> Absent, id |-> Absent, asked |-> 0, as |-> NoAs]
Quiet == [len |-> 0, shape |-> "quiet", req |-> NoRequest]
NoAnswer == [line |-> Quiet, code |-> Absent]

ConsoleTypeOK ==
  /\ enabled \subseteq DOMAIN ModuleAuth /\ wanted \subseteq DOMAIN ModuleAuth
  /\ host \in Lines \cup {Quiet} /\ sent \in 0..host.len
  /\ lineLen \in 0..MaxLine /\ overflowed \in BOOLEAN /\ restarting \in BOOLEAN

ConsoleInit ==
  /\ enabled = DOMAIN ModuleAuth \ BootTime /\ wanted = enabled
  /\ host = Quiet /\ sent = 0 /\ lineLen = 0 /\ overflowed = FALSE
  /\ answer = NoAnswer /\ restarting = FALSE

Reader == <<host, sent, lineLen, overflowed>>

\* The host starts a line.
TypeLine(l) ==
  /\ ~restarting /\ host = Quiet
  /\ host' = l /\ sent' = 0 /\ answer' = NoAnswer
  /\ UNCHANGED <<enabled, wanted, lineLen, overflowed, restarting>>

\* A rewrite that restarts the buffer instead of discarding the rest.
TakeByteRestart ==
  /\ ~restarting /\ host # Quiet /\ sent < host.len
  /\ sent' = sent + 1
  /\ lineLen' = IF lineLen >= MaxLine THEN 1 ELSE lineLen + 1
  /\ UNCHANGED <<enabled, wanted, host, overflowed, answer, restarting>>

\* poll() takes one byte that is not a line end.
TakeByte ==
  /\ ~restarting /\ host # Quiet /\ sent < host.len
  /\ sent' = sent + 1
  /\ IF overflowed THEN UNCHANGED <<lineLen, overflowed>>
     ELSE IF lineLen >= MaxLine THEN overflowed' = TRUE /\ UNCHANGED lineLen
     ELSE lineLen' = lineLen + 1 /\ UNCHANGED overflowed
  /\ UNCHANGED <<enabled, wanted, host, answer, restarting>>

\* A built-in that ran: enable and disable change the sets (a boot-time
\* module only what the next boot binds), reboot asks for the restart.
Effect(req, code) ==
  IF code # "ran" \/ req.mod # Absent \/ req.act \notin {"enable", "disable"}
  THEN UNCHANGED <<enabled, wanted>>
  ELSE /\ wanted' = IF req.act = "enable" THEN wanted \cup ({req.id} \cap DOMAIN ModuleAuth)
                    ELSE wanted \ {req.id}
       /\ enabled' = IF req.id \in BootTime THEN enabled
                  ELSE IF req.act = "enable" THEN enabled \cup ({req.id} \cap DOMAIN ModuleAuth)
                  ELSE enabled \ {req.id}
Reboots(req, code) == code = "ran" /\ req.mod = Absent /\ req.act = "reboot"

Answered(l, code) == answer' = [line |-> l, code |-> code]

\* poll() takes the line end: an over-long line is refused once and whole, an
\* empty or blank one says nothing, one that begins like JSON and is not is EPARSE.
LineEnd ==
  /\ ~restarting /\ host # Quiet /\ sent = host.len
  /\ host' = Quiet /\ sent' = 0 /\ lineLen' = 0 /\ overflowed' = FALSE
  /\ IF overflowed
     THEN Answered(host, "ELINE") /\ UNCHANGED <<enabled, wanted, restarting>>
     ELSE IF lineLen = 0 \/ host.shape = "blank"
     THEN UNCHANGED <<answer, enabled, wanted, restarting>>
     ELSE IF host.shape = "garbage"
     THEN Answered(host, "EPARSE") /\ UNCHANGED <<enabled, wanted, restarting>>
     ELSE LET code == Execute(host.req, Physical, enabled, wanted) IN
          /\ Answered(host, code) /\ Effect(host.req, code)
          /\ restarting' = Reboots(host.req, code)

\* POST /api/cmd on the server task, between any two bytes of the line.
Post(req) ==
  /\ ~restarting
  /\ LET code == Execute(req, Token, enabled, wanted) IN
       Effect(req, code) /\ restarting' = Reboots(req, code)
  /\ UNCHANGED <<Reader, answer>>

\* The restart the transport performs after its answer is out.
Restart ==
  /\ restarting
  /\ enabled' = wanted
  /\ host' = Quiet /\ sent' = 0 /\ lineLen' = 0 /\ overflowed' = FALSE
  /\ answer' = NoAnswer /\ restarting' = FALSE
  /\ UNCHANGED wanted

ConsoleNext ==
  \/ \E l \in Lines : TypeLine(l)
  \/ TakeByte \/ LineEnd \/ Restart
  \/ \E req \in Posts : Post(req)

ConsoleSpec == ConsoleInit /\ [][ConsoleNext]_consoleVars
-----------------------------------------------------------------------------
\* A line is answered for what the host sent and nothing else: over-long
\* lines are refused as ELINE however their bytes arrive, and no command is
\* made of part of one (console.cpp:940-971).
AnsweredWhole ==
  answer.line # Quiet =>
    /\ (answer.code = "ELINE") <=> (answer.line.len > MaxLine)
    /\ answer.line.shape = "garbage" => answer.code \in {"ELINE", "EPARSE"}

\* Asking "as" a lower level is answered exactly as a caller at that level
\* would be, built-ins, parameters and modules alike, and asking for a higher
\* one reaches nothing (console.cpp:757-781, cmdauth.h:198-222).  A board that
\* restarts executes nothing more.
DowngradeIsExact ==
  ~restarting =>
  \A req \in Requests, caller \in Levels : \A l \in Levels :
    Execute([req EXCEPT !.as = l], caller, enabled, wanted) =
      IF req.act = Absent THEN "ENOACT"
      ELSE IF l > caller THEN "EARGS"
      ELSE Execute([req EXCEPT !.as = NoAs], l, enabled, wanted)

\* What a caller is shown and what it is refused agree: an action is refused
\* for want of authority exactly when the listing did not allow it, a built-in
\* exactly when help did not offer it, and a caller shown no module gets one
\* answer for every module and action, real or not, whatever is enabled.
\* Of the built-ins ota and led are left out: help offers them to whoever may use
\* some of what they do, and what they call decides the rest (registry.cpp:628-712,
\* 815-908, console.cpp:577-589).
ViewMatchesGate ==
  ~restarting =>
  \A req \in Requests, have \in Levels :
    LET code == Execute([req EXCEPT !.as = NoAs], have, enabled, wanted) IN
    /\ req.mod \in DOMAIN ModuleAuth \ Silent /\ req.act \in DOMAIN ActionAuth[req.mod] =>
         (code \in Refusals <=> ~Allowed(have, req.mod, req.act))
    /\ req.mod = Absent /\ req.act \in DOMAIN Builtins \ {"ota", "led"} =>
         (code \in Refusals <=> req.act \notin Offered(have))
    /\ req.mod # Absent /\ req.act # Absent /\ Shown(have) = {} => code = "EAUTH_ANY"
=============================================================================
