--------------------------------- MODULE Hid ---------------------------------
(***************************************************************************)
(* The keyboard (firmware/src/mod_hid.cpp): `type` queues one bounded job, *)
(* a tick types one character of it, and `key`, `release` and `layout` may *)
(* come between any two of them. Everything runs under the registry lock.  *)
(* The host is another machine: it has a layout of its own, which its user *)
(* changes when he likes, and it takes a key's reports or does not; what   *)
(* kbd->write() and press() return is not looked at.                       *)
(*                                                                         *)
(* A character is what the two layouts tell apart: one that the tables     *)
(* hold where both layouts have it ("same"), one they hold in different    *)
(* places ("moved"), the one the en_GB table cannot hold ("hash"), and the *)
(* carriage return that types nothing.                                     *)
(***************************************************************************)
EXTENDS Naturals, Sequences

CONSTANTS
  MaxTypeLen,   \* MAX_TYPE_LEN
  MaxJobs       \* bound: jobs in one boot

ASSUME HidAssumption == MaxTypeLen \in Nat \ {0} /\ MaxJobs \in Nat

Layouts == {"en_GB", "en_US"}
Chars == {"same", "moved", "hash", "cr"}

VARIABLES
  armed,      \* the registry's persisted intent, read at boot
  bound,      \* kbd # nullptr: the interface exists this boot
  layout,     \* currentLayout
  map,        \* the table kbd->begin() was last given
  stored,     \* the layout in NVS
  text,       \* typeBuf, jobLen long
  index,      \* jobIndex
  jobActive,  \* jobActive
  charDue,    \* nextEmitMs has passed
  slow,       \* perCharDelayMs is not 0
  job,        \* currentJobId
  typed,      \* history: what became of each character of the current job
  done,       \* history: the last job hid.done was emitted for
  tap,        \* history: the last single key, as asked and as the host read it
  hostLayout, \* the layout the host reads keys by
  held        \* the host missed a release: it takes a key to be down still

jobVars == <<text, index, jobActive, charDue, slow, job, typed, done>>
layoutVars == <<layout, map, stored>>

hostVars == <<hostLayout, held>>

hidVars == <<armed, bound, layoutVars, jobVars, tap, hostVars>>

Texts == UNION {[1 .. n -> Chars] : n \in 1 .. MaxTypeLen}

\* What a host of layout h reads when the character c is looked up in table m:
\* both tables leave out what they cannot hold, and a character they place
\* apart reads right only through the host's own table.
Lookup(m, h, c) ==
  CASE c \in {"same", "named"} -> <<c>>
    [] c = "hash" /\ m = "en_GB" -> << >>
    [] m = h -> <<c>>
    [] OTHER -> <<"wrong">>

\* The raw usage 0x32 is the hash key of an en_GB host alone.
Raw(h) == IF h = "en_GB" THEN <<"hash">> ELSE <<"wrong">>

\* What the host reads of one key: en_GB's hash goes round the table,
\* everything else through it; a named key has one code in every layout.
Press(c) ==
  IF c = "hash" /\ layout = "en_GB" THEN Raw(hostLayout) ELSE Lookup(map, hostLayout, c)

\* What may become of a key's two reports: both arrive - and the key is taken
\* for another press if none was thought to be down; the press is lost, alone
\* or with its release; the release is lost.
Outcomes ==
  {[whole |-> ~held, held |-> FALSE], [whole |-> FALSE, held |-> FALSE],
   [whole |-> FALSE, held |-> held], [whole |-> FALSE, held |-> TRUE]}

\* A key with outcome o, as read. It is clear if it reached the host whole and
\* the host had the layout that was chosen, where that makes a difference.
Stroke(c, o) ==
  [read |-> IF o.whole THEN Press(c) ELSE << >>,
   clear |-> o.whole /\ (c \in {"same", "named"} \/ hostLayout = layout)]

Skipped == [read |-> << >>, clear |-> TRUE]

\* emitChar(): the carriage return is skipped.
emitChar(c) ==
  IF c = "cr" THEN typed' = Append(typed, Skipped) /\ UNCHANGED held
  ELSE \E o \in Outcomes : typed' = Append(typed, Stroke(c, o)) /\ held' = o.held

-----------------------------------------------------------------------------
\* A boot: the interface exists if the module was armed, and hidEnable()
\* begins it with the stored layout and no job. Without it enable() refuses.
Boot ==
  /\ bound' = armed
  /\ layout' = IF armed THEN stored ELSE "en_GB"
  /\ map' = layout'
  /\ jobActive' = FALSE /\ text' = << >> /\ index' = 0
  /\ charDue' = FALSE /\ slow' = FALSE /\ job' = 0 /\ typed' = << >> /\ done' = 0
  /\ held' = FALSE
  /\ UNCHANGED <<armed, stored, tap, hostLayout>>

\* The registry's enable() and disable() of a boot-bound module.
Arm(a) == armed' = a /\ UNCHANGED <<bound, layoutVars, jobVars, tap, hostVars>>

\* actType(): refused while a job runs; the job starts at its first character.
actType(t, delayed) ==
  /\ bound /\ ~jobActive /\ job < MaxJobs
  /\ text' = t /\ index' = 0 /\ jobActive' = TRUE
  /\ charDue' = TRUE /\ slow' = delayed
  /\ job' = job + 1 /\ typed' = << >>
  /\ UNCHANGED <<armed, bound, done, layoutVars, tap, hostVars>>

\* hidTick(): one character, whatever became of it, then the deadline of the
\* next; the last one ends the job and announces it.
hidTick ==
  /\ jobActive /\ charDue
  /\ emitChar(text[index + 1])
  /\ index' = index + 1
  /\ charDue' = ~slow
  /\ jobActive' = (index' < Len(text))
  /\ done' = IF jobActive' THEN done ELSE job
  /\ UNCHANGED <<armed, bound, layoutVars, text, slow, job, tap, hostLayout>>

\* Time reaches nextEmitMs.
Elapse ==
  /\ jobActive /\ ~charDue
  /\ charDue' = TRUE
  /\ UNCHANGED <<armed, bound, layoutVars, text, index, jobActive, slow, job, typed, done, tap, hostVars>>

\* actKey(): one key with its modifiers, pressed and let go in one call, also
\* in the middle of a job.
actKey(c) ==
  /\ bound
  /\ \E o \in Outcomes : tap' = [asked |-> <<c>>, got |-> Stroke(c, o)] /\ held' = o.held
  /\ UNCHANGED <<armed, bound, layoutVars, jobVars, hostLayout>>

\* actRelease(): every key is let go, if the report arrives, and a running job
\* is cancelled.
actRelease ==
  /\ bound /\ jobActive' = FALSE
  /\ held' \in {FALSE, held}
  /\ UNCHANGED <<armed, bound, layoutVars, text, index, charDue, slow, job, typed, done, tap,
                 hostLayout>>

\* The host's user chooses a layout there.
HostChanges(l) ==
  /\ hostLayout' = l
  /\ UNCHANGED <<armed, bound, layoutVars, jobVars, tap, held>>

\* A layout that is recorded and not given to the keyboard.
SetLayoutUnbegun(l, landed) ==
  /\ bound
  /\ layout' = l
  /\ stored' = IF landed THEN l ELSE stored
  /\ UNCHANGED <<armed, bound, map, jobVars, tap, hostVars>>

\* actLayout(): RAM, then NVS (which may refuse), then the table; nothing asks
\* whether a job is running.
actLayout(l, landed) ==
  /\ bound
  /\ layout' = l /\ map' = l
  /\ stored' = IF landed THEN l ELSE stored
  /\ UNCHANGED <<armed, bound, jobVars, tap, hostVars>>

-----------------------------------------------------------------------------
HidInit ==
  /\ armed \in BOOLEAN /\ bound = armed
  /\ stored \in Layouts /\ layout = (IF armed THEN stored ELSE "en_GB") /\ map = layout
  /\ text = << >> /\ index = 0 /\ jobActive = FALSE /\ charDue = FALSE /\ slow = FALSE
  /\ job = 0 /\ typed = << >> /\ done = 0
  /\ tap = [asked |-> << >>, got |-> Skipped]
  /\ hostLayout \in Layouts /\ held = FALSE

HidNext ==
  \/ Boot \/ hidTick \/ Elapse \/ actRelease
  \/ \E a \in BOOLEAN : Arm(a)
  \/ \E t \in Texts, delayed \in BOOLEAN : actType(t, delayed)
  \/ \E c \in (Chars \ {"cr"}) \cup {"named"} : actKey(c)
  \/ \E l \in Layouts, landed \in BOOLEAN : actLayout(l, landed)
  \/ \E l \in Layouts : HostChanges(l)

HidSpec == HidInit /\ [][HidNext]_hidVars

-----------------------------------------------------------------------------

\* What a host ought to read of the character c.
Printed(c) == IF c = "cr" THEN << >> ELSE <<c>>

\* Every character of the job so far had its turn, once and in order; each that
\* went clear - its reports arrived, none before it is stuck, and at that moment
\* the host had the layout last chosen with `layout` - reads as it was asked
\* for, and so does every single key, whatever layouts were chosen here and
\* there, reports lost and keys pressed in the middle of the job; a character
\* that did not reach the host shifts no other.  hid.done is said of a job only
\* after the turn of its last character - which is not that the host read it
\* (mod_hid.cpp:134-177, 472).
KeysReadAsAsked ==
  /\ Len(typed) = index
  /\ \A i \in 1 .. index : typed[i].clear => typed[i].read = Printed(text[i])
  /\ tap.got.clear => tap.got.read = tap.asked
  /\ done # 0 /\ done = job => index = Len(text)

=============================================================================
