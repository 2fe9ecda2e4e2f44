------------------------------ MODULE MCParts ------------------------------
(***************************************************************************)
(* The parts that share no state with each other, in one instance: `which` *)
(* says which of them this behaviour is about, and the others stand still. *)
(* A part's constants are small stand-ins for the code's; README.md says   *)
(* why each is large enough.                                               *)
(***************************************************************************)
EXTENDS Policy, Events, Passphrase, Hid, Console, Limiter, Scheduler, Paths, FileOps, Display, TLC

VARIABLE which

-----------------------------------------------------------------------------
(* Constants.                                                              *)

OwnerPassphrases == {1, 2}
MintedPassphrases == {3, 4}

Missing == 8
Garbled == 7

Req(m, a, i, k, as) == [mod |-> m, act |-> a, id |-> i, asked |-> k, as |-> as]
Plain(a, i) == Req(Absent, a, i, 0, Missing)

AllRequests ==
  {Req(m, a, Absent, 0, as) : m \in {"led", "http", "cdc", "ghost"},
                              a \in {"set", "psk", "status", "bogus", Absent},
                              as \in {Missing, Garbled} \cup AuthLevels}
  \cup {Plain(a, Absent) : a \in DOMAIN BUILTINS \cup {"bogus", Absent}}
  \cup {Req(Absent, "ota", Absent, k, Missing) : k \in 0 .. 2}
  \cup {Plain(a, i) : a \in {"enable", "disable"}, i \in {"led", "ghost"}}

Toggles == {Plain(a, i) : a \in {"enable", "disable"}, i \in {"led", "hid"}}

TypedLines ==
  {[len |-> n, shape |-> "garbage", req |-> Plain(Absent, Absent)] : n \in 1 .. 3}
  \cup {[len |-> n, shape |-> "blank", req |-> Plain(Absent, Absent)] : n \in {0, 2, 3}}
  \cup {[len |-> n, shape |-> "request", req |-> r] :
          n \in 2 .. 3,
          r \in Toggles \cup {Plain("reboot", Absent), Req(Absent, "reboot", Absent, 0, TOKEN)}}

ASSUME BuiltinsAreLevels == \A n \in DOMAIN BUILTINS : BUILTINS[n] \in AuthLevels

TaskIntervals == <<0, 3, 5>>

TypedBytes == {Slash, Dot, Space, Backslash, "*", "nul", "s", "f", "S"}
Lower == [b \in TypedBytes |-> IF b = "S" THEN "s" ELSE b]
Aliases == <<"s", "s">> :> <<"s", "f">>
VolumeNames == {<<"s">>, <<"f">>}
CardNames == {<<"s">>}

FileNames == <<"a", "b", "L", "t", "k">>
EntrySize(n) == IF n = "a" THEN 1 ELSE 2
Dir == <<"t">>

File(p) == p :> "file"
Folder(p, kids) == (p :> "dir") @@ kids
Card(kids) == Folder(Dir, kids) @@ File(<<"k">>) @@ File(<<"b">>)
ta == <<"t", "a">>
tb == <<"t", "b">>

Cards ==
  {Card(File(ta) @@ File(tb)),
   Card(File(ta) @@ File(tb) @@ File(<<"t", "L">>)),
   Card(Folder(ta, File(<<"t", "a", "a">>)) @@ File(tb)),
   Card(Folder(ta, File(<<"t", "a", "L">>)) @@ File(tb)),
   Card(Folder(ta, << >>) @@ Folder(tb, << >>)),
   Card(Folder(ta, File(<<"t", "a", "a">>) @@ Folder(<<"t", "a", "b">>, File(<<"t", "a", "b", "a">>)))),
   Card(Folder(ta, File(<<"t", "a", "a">>) @@ File(<<"t", "a", "b">>)) @@ Folder(tb, File(<<"t", "b", "b">>)))}

AnyCard == Card(File(ta) @@ File(tb))

-----------------------------------------------------------------------------
\* Every part but the one named stands still.
Still(part) ==
  /\ UNCHANGED which
  /\ IF part = "events" THEN TRUE ELSE UNCHANGED vars
  /\ IF part = "passphrase" THEN TRUE ELSE UNCHANGED pskVars
  /\ IF part = "keyboard" THEN TRUE ELSE UNCHANGED hidVars
  /\ IF part = "console" THEN TRUE ELSE UNCHANGED consoleVars
  /\ IF part = "limiter" THEN TRUE ELSE UNCHANGED limiterVars
  /\ IF part = "scheduler" THEN TRUE ELSE UNCHANGED schedulerVars
  /\ IF part = "paths" THEN TRUE ELSE UNCHANGED pathsVars
  /\ IF part = "files" THEN TRUE ELSE UNCHANGED filesVars
  /\ IF part = "display" THEN TRUE ELSE UNCHANGED displayVars

\* A console that takes no requests: the board restarts.
ConsoleOff ==
  /\ enabled = {} /\ wanted = {} /\ restarting = TRUE
  /\ host = Quiet /\ sent = 0 /\ lineLen = 0 /\ overflowed = FALSE /\ answer = NoAnswer

PartsInit ==
  /\ which \in {"events", "passphrase", "keyboard", "console", "limiter", "scheduler", "paths",
                "files", "display"}
  /\ Init /\ LimiterInit /\ SchedulerInit /\ PathsInit /\ DisplayInit
  /\ PskInit /\ (which # "passphrase" => nvs = Blank)
  /\ HidInit /\ (which # "keyboard" => armed /\ stored = "en_GB" /\ hostLayout = "en_GB")
  /\ IF which = "console" THEN ConsoleInit ELSE ConsoleOff
  /\ FilesInit /\ (which # "files" => tree = AnyCard)

PartsNext ==
  \/ which = "events" /\ Next /\ Still("events")
  \/ which = "passphrase" /\ PskNext /\ Still("passphrase")
  \/ which = "keyboard" /\ HidNext /\ Still("keyboard")
  \/ which = "console" /\ ConsoleNext /\ Still("console")
  \/ which = "limiter" /\ LimiterNext /\ Still("limiter")
  \/ which = "scheduler" /\ SchedulerNext /\ Still("scheduler")
  \/ which = "paths" /\ PathsNext /\ Still("paths")
  \/ which = "files" /\ FilesNext /\ Still("files")
  \/ which = "display" /\ DisplayNext /\ Still("display")

allVars ==
  <<which, vars, pskVars, hidVars, consoleVars, limiterVars, schedulerVars, pathsVars, filesVars, displayVars>>

\* The server task runs the drain it has been given; nothing else need happen.
PartsSpec ==
  /\ PartsInit /\ [][PartsNext]_allVars
  /\ WF_allVars(which = "events" /\ Drain /\ Still("events"))

=============================================================================
