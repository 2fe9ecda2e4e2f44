# T-Dongle-S3 firmware: TLA+ models and proofs

The firmware under `src/firmware/src` turns an ESP32-S3 dongle into a set of
modules (keyboard, storage, HTTP server, display, ...) that commands switch on
and off.  This directory models the parts of it whose correctness depends on
order: what survives a reset, what two tasks may do to each other, what a
sequence of legal calls may add up to.  `PROJECT.json` lists every run, every
theorem, every hazard, and the source lines each definition stands for.

Run a model with `tlc -config <cfg> <module>`, check a proof with
`tlapm <module>`.

## 1. The system

Two tasks run the firmware.  The **loop task** is a cooperative scheduler
(`scheduler.cpp`): console polling, module ticks, a deferred-teardown poll every
20 ms, the OTA health tick.  The **server task** is `esp_http_server`'s; it exists
while the HTTP module is up.  They share:

- the *registry lock*, a recursive mutex held across every command and every
  module tick, callbacks included;
- `authLock_`, a leaf lock over the PIN, the limiter, the session table and the
  grace clock;
- `ringLock_` and `wsLock_`, leaf locks over the event ring and the WebSocket
  clients;
- a few atomics (`stopping_`, `inRegistry_`, `teardownPending_`, the upload's
  `busy_`), and one unprotected record, `Activity`;
- flash: NVS keys written one at a time, and the two otadata slots.

| component | state | operations | talks to | hard part |
|---|---|---|---|---|
| registry (`registry.cpp`, `claims.h`, `modset.h`) | live set, intent, restore report; NVS `on`, `known` | enable, disable, force, replay at boot | every module's callbacks | failure half-way, resets between two writes, image changes |
| HTTP lifecycle (`mod_http.cpp`) | server handle, radio, `stopping_`, `inRegistry_`, pending teardown | enable, disable from either task, deferred teardown | registry lock, server task | joining a task that wants a lock one holds |
| pairing and sessions (`mod_http.cpp`, `ratelimit.h`, `pinpolicy.h`, `apgrace.h`, `pairing.h`) | PIN, limiter, one session, grace clock, panel record | attempt, pair, unpair, expire, regenerate, publish | both tasks, display | a handler and a tick are several lock acquisitions each |
| authority gate (`cmdauth.h`, `modauth.h`) | none | required level, decide | every transport | a path that skips it |
| passphrase (`mod_http.cpp`) | PSK in RAM and two NVS keys | set, re-key, revert | sessions, radio | one of several steps failing |
| events (`mod_http.cpp`, `bus.cpp`) | ring, WebSocket slots | emit, drain, authenticate, close | both tasks, sessions | descriptors used after their lock |
| OTA health (`otahealth.cpp`, `otadecide.h`) | pending flag, deadline, otadata | confirm, rollback, boot select | bootloader | owner's choice against the tick's |
| OTA upload (`otaupload.cpp`) | `busy_`, partition | begin, chunk, verify, select | session liveness, Activity | revocation and timeouts mid-way |
| storage (`mod_storage.cpp`, `fsmount.cpp`) | mount, verify job | read, write, delete, format, verify | Activity | a file held open across ticks |
| HID (`mod_hid.cpp`) | typing job, layout | type, press, release, layout | tick | layout and release mid-job |
| display (`mod_display.cpp`) | screen, backlight, button | tick, subscribe | Pairing, Activity | what is shown after state moved |
| console (`console.cpp`) | line buffer, overflow flag | poll, execute | registry, both transports | a line over many polls, another caller between two of them |
| scheduler (`scheduler.cpp`) | task table, deadlines | add, run | everything | a clock that wraps, a task that runs long |
| paths (`pathsafe.h`, `volpath.h`) | none | split, check, resolve | storage, HTTP | two spellings of one file |

What makes each correct, in words:

- *registry* - incompatible claims never coexist; the control link is never lost;
  flash and RAM agree after every call, or the report says they do not; the
  result of a call says what happened.
- *HTTP lifecycle* - no deadlock between the join and the locks; one server at a
  time; an enabled module serves; a teardown completes and leaves nothing.
- *sessions* - a PIN opens one session; guesses are priced and minting never makes
  them cheaper; an abandoned session ends; the panel shows the PIN that works and
  never one that could evict a live session.
- *authority* - no command runs under the level its module, action and transport
  require.  *Passphrase* - RAM, flash and the radio agree or the error says how
  not.  *Events* - a frame reaches only live sessions, in order.  *OTA* - no
  sequence of uploads, selections and resets takes both images away; an image is
  confirmed only by its owner or by passing its trial, and then stays; what a revoked
  session wrote never runs of itself.
  *Storage* - a verify answers for the bytes it read of one file.  *HID* - a key that
  reaches the host whole, while the host has the layout chosen, reads as asked, whatever
  comes in the middle of a job.
  *Display* - a withdrawn secret leaves the glass, and a panel left alone shows the screen
  that is due.  *Console* - a line is answered for all of it or refused whole.
  *Scheduler*, *limiter* - the wrapped clock and the true one agree.  *Paths* - what is
  accepted opens what its segments say, on the volume it names; a file has one spelling on
  the flash, and on the card one up to case and aliases.

## 2. Modules and what they correspond to

### Registry

`Claims` is `claims.h`: modes, compatibility, first conflict.  `Registry` is
`registry.cpp` with `modset.h`.  One action per public call (`Guard` holds the
lock across it); the boot is three actions - `BindUsb` (static constructors read
NVS), `Restore` (replay) and `RecordKnown` (the second write) - because power may
be lost between them.  `enabled`, `desired`, `bound`, `report`, `res` are
`enabled_`, `desired_`, the bound USB interfaces, `report_` and the last
`ModuleActionResult`; `nvsOn` and `nvsKnown` are the NVS keys.  Every NVS write ends
"ok", fails at `begin()` or fails at `putString()`.  A callback of a `Flaky` module
may fail.

`RegistryOwner` adds a history of what the owner was told, `ModuleIntent` is what
the registry promises with no flash or boot order in it, and
`RegistryRefinement` maps one onto the other, reading the intent off the *flash*.

Runs (`MCRegistry.tla`, `MCRegistryOwner.tla` hold the tables):

- `registry`: tools with conflicting claims from the architecture document, hid
  and cdc bound at boot, `usbdiag` (in no image: a default that essential cdc
  blocks), upgrade and rollback between a small and a large image with buffers
  that exactly fit, NVS writes that fail, failing callbacks.  A failed `begin()` differs from a
  failed `putString()` only for an empty list, and essential cdc keeps both lists
  non-empty, so the instance fails `putString()`.  A replay whose read-only `begin()` fails
  (registry.cpp:989) sees no lists; the model has that outcome for an erased flash only, not
  for one whose lists are there and cannot be read in this boot.  Six modules are enough:
  conflicts are pairwise, and an action touches the named module, its blockers
  and the essential one; monitor has two blockers, one of which may fail to stop.
- `owner`: the owner's instructions across boots and an upgrade, and the
  refinement; no NVS failure (a failed write breaks both by design) and images
  that only grow.

The report's `writeOk` is one flag for two keys: a good write of the enabled list after a
failed write of the known set reports all well, and a rollback to an image without a
module forgets that its owner had turned it on, since the list on flash holds only what
the image registers.  Neither is an error the owner can see at once; `IntentDurable` and
`GoodFlash` below say exactly what holds beside them.

### HTTP lifecycle

`HttpLifecycle` takes the two tasks as program counters and every load, store, take
and give of the shutdown handshake as a step (`enterRegistry`, `exitRegistry`,
`httpDisable`, `deferredTeardownPoll`, `teardownNow`, `httpEnable`).  The instance is
the system: it has exactly two tasks, so TLC's result is complete for the model.
`RequestInUnwind` says whether a request may reach a server whose start has failed
(a later URI would not register) before the error path joins it.  Run `handshake`
checks everything without that request; `unwind` allows it and finds the
deadlock.

Fairness (`FairSpec`): both tasks keep running; a mutex that is released repeatedly
goes to the higher-priority server task eventually, while the loop task is
assumed to get it only if it stays free; a command consults the session table
finitely often; an upload ends by its two timeouts; the poll's and the join's
turns come.  No fairness is given to requests or commands: nobody need send one.

### Sessions

`Sessions` takes one acquisition of `authLock_` as one action, so a handler is a
chain (`AttemptRight`, `CreateSession`, `ConsumePin`; `DeleteAuthenticate`,
`DeleteRevoke`, `DeleteRotate`) and so is a tick (`TickSample`, `TickGrace`,
`LoopMint`, `TickShow`).  A PIN is the number of its mint, a session the PIN that
opened it.  Deadlines are pending until `Elapse` passes them; no deadline is
passed while a handler is between two acquisitions (it does no I/O there, and
deadlines are seconds to minutes away).  `misses`, `burst`, `spent`, `shown`, `graceFor`
and `floor` are histories for the properties.

Bounds: `MaxPin` PINs in a run, with a reserve so that what has begun can finish
(`Room`, `Owed`); `MaxFails` 2 stands for 10.  Five PINs allow a pairing, an eviction, a
lockout and a regeneration in one run.  A draw of the random generator may fail: then
the mint that should spend a PIN is skipped, and SingleUse, PinBudget,
TakeoverClosed and NeverShowsSpent really fail, as the code accepts (it logs and
keeps the old PIN); they are stated while `drew` (every draw so far succeeded).
Fairness: the tick runs, a begun handler goes on, and an armed grace clock comes
due (strong, since a returning phone disarms it).  `regenerate` is a finding.

### OTA

`OtaData` is external: what otadata, `esp_ota_ops` and the bootloader do, as
`otadecide.h:10-40` and `otahealth.h:82-88` describe them.  Two records of a sequence
number and a state; the odd numbers name app0; a selection rewrites the record that
does not decide, with state NEW; a mark writes the record that does.  At a restart a
trial that was not decided becomes ABORTED, a NEW selection becomes a trial, and a slot
that does not verify gives way to the other.

`OtaHealth` is `otahealth.cpp` with `otadecide.h`: `begin` (part of every restart), `tick`
by its four outcomes, `confirmNow`, `rollbackNow`, `setBootNow`.  `OtaUpload` is
`OtaUpload::run()` on the server task, in the stages between which the loop task can
act: begin and erase, each chunk (the session looked at first), the digest and the
last look, `esp_ota_end`, the selection.  The last chunk completes the image: `esp_ota_end`
only looks at it and `esp_ota_abort` frees the handle, so an upload that fails or is refused
after that leaves a slot the bootloader would start.  `Ota` composes them over the shared otadata; a
restart ends both.

Images are told apart by what they do once run: `good` passes the health check, `sick`
runs and never passes it, `crash` panics before `MinUptime`, `partial` is anything
`esp_ota_end` or the bootloader rejects.  Short bodies, deadlines, closed sockets and flash
errors of an upload take one exit in the code and are one action.  A write of
otadata may fail and changes nothing then; it is not torn (IDF's CRC is what makes
that so).  Time is counted in units of the shortest interval `Decide` can tell apart,
with the `static_assert`s of `otadecide.h` as assumptions.

Run `ota` has all four kinds of image, failing flash writes, `Window` 3 above
`MinUptime` 2, two chunks, and `MaxSeq` 4: three selections of the other slot, enough for
an update, its rollback or confirmation, and a second update over the result.
`ConfirmedStays` is stated for a boot in which no slot was selected (`chosen`): `confirm`
marks the record that *decides*, which after a selection is no longer the running
image's.  Fairness (`FairSpec`): the scheduler runs the health tick, time passes, and a
panicking image panics; nothing is assumed of owner, phone or cable.  A firmware
whose loop task hangs never ticks and is outside the model, as it is outside the
health check's reach.  `halfslot` is a finding.

`revoked` is a history: the slots that uploads revoked before the last look were writing to.
`RevokedNeverRuns` says that no such slot runs until the owner selects or rolls back,
which is less than that the slot stays empty (it may hold the whole image) and
needs otadata to rest on the running image at the moment of the revocation (`Steady`).  Into a
slot that is selected already (`halfslot`) it is enough that the bytes are there; a
trial may fall back to it; and after a selection taken back by selecting the running slot again, the
next boot is a trial and the other slot's record is what it falls back to.  A revocation after the last look (otaupload.cpp:496) still
finalises and selects, as the code has it.

### Jobs

`Activity` is `activity.h` with the display's use of it, `Storage` is `mod_storage.cpp`
with `fsmount.cpp`, and `Jobs` puts them together with the two OTA producers.
`slot` is the record, `fresh` that `seq()` moved since the display looked,
`lingering` that `activityDoneMs_` is set; `verify` is `VerifyJob`, `mounted` is
`sdMounted` and `Fs::mounted()`.

A call of the header is one step, and `actBegin()` and `actEnd()` of the OTA
producers are two, because the server task and the loop task run at once: a label torn
inside one call (backlog C6) is not modelled.  Everything of `Storage` happens under the
registry lock, so a command, an enable or a disable is one action, and so is one pass of
the verify pump (a tick stops between passes when its 5 ms are up).  The display tick is
several calls of the header - `seq()` and `snapshot()`, or `seq()`, `clear()` and `seq()` again - and so
is its enable; `tick` says how far it has come.  The lock it holds keeps everything out but the
upload, which takes none, and the OTA health tick, which is the same task's.

One file stands for a path on each volume, and a cell for the bytes of one
pass; a CRC is the sequence of cells it was computed over, so that two CRCs are equal
exactly when the contents are.  A file changed under the open handle may read as
anything from then on (`touched`), which is what the code can rely on from FatFs and
LittleFS.  A card may be exchanged while storage is off.  `fopen` may succeed and the
write then not fit.  `lost`, `original` and `touched` are histories.  Commands that only
read, and `mkdir`, change nothing here.

Run `jobs`: files of up to two cells, the shortest in which a write can leave a gap, over one
content (the proof covers every content); both volumes, one upload after
another and a health check from boot.  Fairness (`FairSpec`): the scheduler runs
the storage and display ticks while they are enabled, one after the other, so that the storage tick
has its turn however often an upload gives the display something to do (strong fairness: it is
not ready while a display tick is half done); no client need send anything and no
upload need end.  `FooterFades` is about a finished label the display has yet to act on
(`Unsettled`): one that came and went between two calls of its tick is counted as seen, and stays
(section 4).

### The parts of `MCParts`

Nine components share no state with each other, so `MCParts` checks them in one run.  It
EXTENDS them all (their names are kept apart for that; only `Events` keeps the plain `Init`,
`Next` and `Spec`) and gives their constants values: the
variable `which` says which of them a behaviour is about, the others keep their initial
values, and each property speaks of its own part.  The state space is the sum of the
parts', not their product.  Because a property is the part's own definition, a theorem about a
part's specification (`PskSpec`, `HidSpec`, `LimiterSpec`, ...) is about what this run checks:
a behaviour of `PartsSpec` is one of the named part in which the others stutter.  A console that is not
the part in question is one whose board restarts (`ConsoleOff`).  One fairness assumption is made, for `Events`: the server
task runs a drain it was given.

**Authority, policy and console.**  `Policy` holds the two tables of `cmdauth.h` and `modauth.h`
as data, with the build's `static_assert`s as assumptions.  `Authority` is the order of
checks in `Registry::dispatch()` and `Console::execute()`, the built-ins, the caller's own
`as`, and the two views (`list`, `help`), as operators from a request, a level and the
live and wanted sets to an answer.  `Console` runs them: `TakeByte` and `LineEnd` are
`poll()`, `Post` is the server task executing a request between two polls; `Effect` is
what a built-in did.  The three properties compare what one path says with what another
does: a request asked at a lower level against a caller at that level, a listing against
the gate, an answer against the whole of the line.  `ViewMatchesGate` leaves out the built-ins `ota`
and `led`: help offers them at their lowest level, and what they are asked for is
decided by what they call.  Bounds: the real tables and all
their levels; `MaxLine` 2 with lines of 1 to 3 bytes is the shortest buffer with a line
that fits, one that exactly fills it and one that overflows.

**Events.**  `eventSink()` (any task), the queued `drainEvents()` in the steps between which a
lock is released (`Take`, `Copy`, `Check`, `Send`), the client table, the upgrade, `auth` and
command frames, and closes.  The loop task emits, ends sessions and empties the table
between any two steps.  A slot remembers the newest session that had ended when it was
written (`ended`, a history).  Bounds: three descriptors for two table entries (so the
table can be full and a descriptor reused), one ring slot (full is then the normal case),
two pairings, and events past the first share a number.  `stuckring` has its own instance
and more fairness (`Fairness`): the server task runs what it has, closes included, the heartbeat comes
round, and a queue request tried again and again succeeds; under all of that a slot may
still wait for ever.

**Passphrase.**  Two NVS keys, the copy in RAM and the key on the air.  Every write and
every radio start is an action that may fail, and `Crash` may come between any two.  `told`
and `drifted` are what the owner was answered.  Two owner keys and two minted ones: a
change from one to another, and a mint that differs from both.  `Setting` is fair: a command
that has begun runs to its answer.

**Hid.**  `type` queues a job, `hidTick` types one character; `key`, `release` and `layout` come
between any two.  A character is one of four classes the two layout tables tell apart.  The host is
a machine of its own: `hostLayout` is the layout its user has chosen there, at any moment, and
each of a key's reports reaches it or is lost (`Outcomes`), a lost release leaving a key down
(`held`).  The code looks at none of that (mod_hid.cpp:134-148), so the job goes on
and `hid.done` comes all the same; `KeysReadAsAsked` speaks of the keys that were `clear` - whole,
and under the host layout last chosen with `layout` - and of every character having had its turn.
Texts of up to two characters and one job a boot: a layout change on either side, a key and a
release each fit between two characters, before the job and after it, and a boot starts the next.

**Limiter, Scheduler.**  `WrappedClock` is the comparison both make: the wrapping clock is the time modulo
`Wrap`, compared by the sign of the difference, beside the true time.  `Wrap` 16 stands for 2^32, with
every constant below half of it as in the code; `MaxTrueTime` 36 and `MaxLoopTime` 40 let every
deadline fall on either side of two wraps.  Both properties hold while less than half the range passes
unattended, and say so.

**Paths.**  `VolPath::split()`, `PathSafe::check()` and `resolvePath()` over byte classes (slash, dot,
space, backslash, a reserved character, a control byte, two letters and the capital of one).  Every
string of up to five bytes is typed, with name, path and segment limits of 1, 3 and 2, so that each limit
is exceeded by one.  What a path *opens* is external and made without the checkers' help: the
table of mounts takes the prefix (`Mounted`, `Within`), and the volume's filesystem walks the rest
(`Opened`).  Both follow dots; on the card (`Fat`) a backslash is a separator as well, the dots
and spaces that end a name are dropped, and a name matches an entry whatever its case (`Fold`) or by
its 8.3 alias (`LongName`); LittleFS does none of that.  `Spelled` is what a reader takes the text for:
each segment the entry it matches, one below the other.  `OpensAsSpelled` says that the two agree, that on
the flash both are the text itself, and that the volume is the one named.  On the card `/sd/a` and
`/sd/A` are both accepted and open one file; nothing in the checkers asks about case.

**FileOps.**  `actDelete()` entry by entry with every step failing or not, and `actList()` page
by page with other commands between two pages.  Seven trees: flat, with a name too long to
resolve, nested to the depth limit and past it, empty directories, and more entries than
a delete removes.  `Names` gives the order `readdir()` shows them in, which FAT and LittleFS keep while
the directory does not change.  `LIST_MAX_OFFSET` (65535) is left out: a FAT directory holds fewer
entries than that, and the flash volume has no room for them.

**Display.**  The selected screen, the pairing screen that comes and goes with its record, the
region cache, the redraw queue (`Dirty`), the tick that encodes and then draws nothing, and what
is on the glass.  `MaxDraw` 1 makes the queue matter most; three changes of the record give
two different records and a withdrawal.  The diagnostic screen also prints the longest redraw so far
(mod_display.cpp:747), which a redraw may move; it is left out, so there a panel may need a
turn more to settle than `PanelTellsTruth` says.

## 3. What is proved

A result named here as a theorem and not as a property of a run was a run's property
until it was proved; the run's budget then went to something else.

| module | theorems | argument |
|---|---|---|
| `RegistryProofs` | `TypeCorrect`, `NeverConflicting`, `LiveStaysIntended`, `ControlLinkKept`, `ForceIsExact`, `ResultsAreAccurate`, `IntentSurvives`, `BootHonours`, `Implements` | TypeOK is inductive; each of NoConflict, LiveIsIntended and EssentialLive is inductive relative to it.  The two loops (replay and force) are set-valued, so their facts are lemmas (`ReplayCompatible`).  `Mirrored` (behind a good report the list on flash is readable and means the intent in RAM) carries IntentDurable; it needs `Wanted`, since a failed write of an *empty* list goes unseen and only the essential modules keep the list from being empty.  `BootHonours` and the refinement `Implements` assume `GoodFlash` (writes succeed, images only grow) and rest on `Paired`: the two keys speak of the running image and appear together. |
| `HttpProofs` | `TypeCorrect`, `DeadlockFree`, `NeverTwoServers`, `EnabledIsServing`, `CleanTeardown` | `IInv` adds where each task is by the locks and the count it holds; `JoinIsSafe` is the Dekker argument of the shutdown note. Assumes `~RequestInUnwind`: with it the deadlock is real. |
| `SessionsProofs` | `TypeCorrect`, `LockoutNotForgiven`, `GraceClockOwn`; `TakeoverHoleClosed`, `PinBudgetKept`, `PinSingleUse`, `PanelNeverSpent` | The first three from `Accounts` alone, whatever the generator does; the others from `Secrets` on top of it, until a draw fails (`drew`).  `GapCovered` is the key: between the creation of a session and the mint that spends its PIN, either the PIN has moved or no expiry can strike. |
| `OtaProofs` | `TypeCorrect`, `DeviceAlwaysBoots`, `RevokedUploadStaysOut`, `ConfirmationsEarned`, `ConsoleNeverStalls`, `UpdateNotLost` | `Safe`: the running image is whole and an upload's target is not the running slot, so the bootloader's fallback always finds an image.  `Young` (a crashing image never reaches `MinUptime`) carries `ConfirmationsEarned`; `Unwanted` (a slot in `revoked` is the one that does not run, otadata rests on the other, and an upload that may still select is not of that slot) carries `RevokedUploadStaysOut`; `Settled` and `TrialRecord` (what the deciding record says of the running slot in each phase) carry `UpdateNotLost`. |
| `StorageProofs` | of `Jobs`: `TypeCorrect`, `HandleNeverLost`, `VerifyTellsTruth`, `FilesHaveNoHoles`, `RunningFooterIsReal` | `Prefix`: until its file is changed, the CRC of a running job is of a prefix of what the file held; it needs `NoHandleLost`, since a card is exchanged only while the module is off.  `Owners`: a running record is subscribed, and a producer past `actBegin()` whose label runs knows it owns it, so the check before its `end()` cannot leave the label behind. |
| | of `FileOps`: `FilesTypeCorrect`, `DeleteTellsTruth`, `PagesCoverTheDirectory` | `Pruned`: the card holds a tree, the delete's cursor is a place in it, and what is gone is under the directory named and counted by kind.  The tree part is needed twice: an entry that is unlinked or emptied has nothing under it (`EmptyIsAlone`), so exactly one entry goes with each count, and a directory found empty at the end leaves nothing (`AllGone`).  `Following`: until a command changes the card, the client has been shown exactly the first `offset` entries.  `PageIs` is the loop that fills a page, a recursive function shown to exist (`Iteration`) and to take at least one entry (`FilesAssumption`: an entry fits the budget), so no page is empty before the end. |
| | of `Paths`: `PathsTypeCorrect`, `PathsOpenAsSpelled` | A path the checkers let through is `Plain`: absolute, without separators side by side or at the end, and no segment is a dot segment or ends in a dot or a space (`CheckIs`, `SplitIs`, `JoinIs`).  On a `Plain` path every name a walk enters is a segment as it stands (`EnteredIs`), so the recursions of `Opened` and `Spelled` have one body and are equal (`OpenedIs`).  On the flash the walk is the text itself up to the last separator passed (`Place`): that closed form satisfies the recursion (`PlaceStep`), and a recursion has one solution (`SpelledIs`, by `UpTo`). |
| `LinkProofs` | of `Events`: `EventsTypeCorrect`, `NothingAfterTheEnd`, `EventsInOrder` | `Stamps`: a slot's `ended` never exceeds what has ended by now, and what has ended only grows (`EndedGrows`), so a target found live after the slot was taken is of a later session.  `Order`: the ring ascends, and the frame in hand is older than it and newer than all that was sent; `Unsent`: a target in hand has not been sent the frame yet. |
| | of `Passphrase`: `PskTypeCorrect`, `RadioRunsWhatIsReported`, `DriftHasBeenTold` | `Steps` says what flash, RAM and the radio hold at each step of an enable and of a set; `Stored`: outside a set, flash and RAM agree on the key or the owner was told that a write failed. |
| | of `Authority` and `Console`: `ConsoleTypeCorrect`, `DowngradeAlwaysExact`, `ViewAlwaysMatchesGate`, `LinesAnsweredWhole` | The two views depend on the lowest level of a table: `LowestIs` and `Least` show that it exists and is attained, from the well-foundedness of the naturals.  `Buffered`: the reader holds what was sent, until it overflows. |
| `DeviceProofs` | of `Limiter`: `LimiterTypeCorrect`, `LimiterKeepsTrueTime` | `Held`: the deadline the limiter keeps is the true one modulo `Wrap`, and less than half the range ahead; without that second half the sign of the difference says nothing (`ReachedIs`). |
| | of `Scheduler`: `SchedulerTypeCorrect`, `EveryTaskWhenDue` | `OnTime`: each deadline is the true one modulo `Wrap` and `InReach` - less than half the range ahead, and no further behind than the turns since its task was last come to can take.  The turns are counted (`TurnsSince`), since a task that is due waits behind every other. |
| | of `Hid`: `HidTypeCorrect`, `ClearKeysReadAsAsked` | `Typing`: the keyboard holds the table of the layout chosen, each character so far has had one turn, and each that was clear reads as its text.  `StrokeIs` is one key: where host and keyboard have the layout chosen, or the tables do not differ, a whole key reads as asked; `TurnIs` is one tick. |
| | of `Display`: `DisplayTypeCorrect`, `PanelAlwaysTellsTruth` | `SecretKept`: no code is encoded and no region shows the pairing screen unless that is the screen.  `CacheTold`: what is not about to be redrawn is what the cache says.  `Settling`: of a panel left alone the cache is what the screen now has, and a region that waits is nearer the cursor by `MaxDraw` with each tick (`TurnComesNearer`), so after one turn none waits. |
| `Recursion` | | `Least`, `UpTo`, `Iteration`: least elements, induction and recursion over the naturals, stated for sets and functions.  The library states them for operators, and the installed provers cannot instantiate those. |

The proofs hold for every value of the constants under the named assumptions in
the modules: descriptor tables, images, capacities, MAX_FAILS, number of PINs, OTA times and chunk
counts, cell alphabets and file lengths, descriptors and ring sizes, passphrases, tables of
levels and lines, the clock's range, delays and task tables, texts, drawing budgets, trees and page
budgets, alphabets and path limits.  TLC evaluates every assumption in the runs; those that
say more than a type are

- `LimiterAssumption`, `SchedulerAssumption`: every delay is below half the clock's range, and so is a
  whole pass of the task table.  `ratelimit.h:45-49` argues the first from its constants; a pass of the
  second is a dozen tasks of milliseconds against 24 days.
- `FilesAssumption`: names differ, any one entry of a listing fits `LIST_BYTE_BUDGET` (2800 bytes against a
  name of at most 255 characters and 72 of overhead), a page is asked for at least one, the card holds a
  tree, and there are two names (the second is the one the other commands make and unlink);
- `LevelsAssumption`, `ConsoleAssumption`: the tables are tables of levels, physical presence is the highest of them, and an
  absent field is no module's, action's or built-in's name;
- `DisplayAssumption`, `HidAssumption`, `EventsAssumption`: a tick draws at least one region, a text has
  room for a character, the ring and the client table for an entry.

`PathsAssumption` says only that the limits are numbers and that the card is one of the volumes.

The theorems about a part quantify over every run of the part's own specification.

Every invariant and every action property of a passing run is a theorem, `BootHonours` and `Implements`
under `GoodFlash` and those of `HttpProofs` without the request of `unwind`, as their runs are.

Only model-checked: liveness (`TeardownHappens`, `RequestAnswered`, `GraceEnds`, `PanelCatchesUp`,
`TrialDecided`, `VerifyAnswered`, `FooterFades`, `SilentSocketGoes`).  It rests on fairness, hence
on ENABLED, which is outside the prover's reach.  The bounds under which it is checked are argued in section 2.

## 4. Disagreements found

`PROJECT.json` "findings" has them with lines:

- `unwind`: the error path of `startServer()` joins the server task without the handshake.
- `halfslot`: an upload erases the slot that is already selected.
- `regenerate`: a session that survives `pin regenerate`.
- `stuckring`: once the ring is full with no drain queued, no later event asks for one, so
  the heartbeat is no other attempt.
- `retype`: a passphrase re-typed after a half-reverted change is answered as stored and
  is not.

Noticed while modelling and too small for a run of their own:

- `cmdauth.h` says a level that is "present but not one of" the names is UNPARSEABLE; an
  `as` that is not a JSON string reads as missing, and the request runs at the
  transport's own level (`Authority`, `NoAs`).
- `ratelimit.h:45-49` argues that every constant is far below half the clock's range; a deadline nobody
  clears is not bounded by the constants, and one that is 2^31 ms old counts as the
  future again (`KeepsTrueTime` states the half range).
- `display status` takes `pin_on_screen` from `Pairing::visible()`, which stays true while
  `diag` is selected over the pairing screen.
- `otahealth.cpp:538`: `confirm` marks the record that decides, which after a selection in
  the same boot is no longer the running image's.
- `registry.cpp:949`: the one `writeOk` flag described under `Registry`.
- a verify that ends in the middle of an upload's label takes the label with it; the
  footer is then blank while the upload goes on (`RunningIsReal` says only that what is shown runs).
- `mod_display.cpp:1316-1318` says a finished job lingers and then makes way; an upload that begins
  after the tick's `seq()` (1319) and ends between its `clear()` and its second `seq()` (1328-1329) is
  taken as seen, and so is one that does both while the display is being enabled: its footer
  stays until the next job (`FooterFades`, `Unsettled`).
- `volpath.h:38-50` says "EXACTLY ONE SPELLING PER PATH"; on the card it is one up to case
  and 8.3 aliases (`/sd/a` and `/sd/A`), which neither checker looks at (`OpensAsSpelled`).
- `otaupload.cpp:592` tells the owner of an upload that was not selected that the image "will not
  boot until it is selected"; `ota rollback` starts it too, as the other slot, and not as a trial.  The
  same holds of the image of a revoked upload (`RevokedNeverRuns`).
- `hid.done`'s `chars` and `job_chars_sent` count turns, not keys that reached the host
  (mod_hid.cpp:147 ignores the result); a `release` ends a job with no `hid.done`; a
  `layout` in the middle of a job reads wrong until the host follows (`KeysReadAsAsked`).

## 5. Not modelled

- Drawing, text rendering, JSON, the web page, the vendored QR generator, flashing
  scripts, FAT and LittleFS: no state of the firmware's own to get wrong, or somebody
  else's code.
- LED and CDC modules, boot probes: straight-line, nothing to interleave; they appear
  only as claim holders.  Backlight and button: one value each, written by one task.
- The remaining codecs (base64, CRC-32, Wi-Fi and pairing payloads, QR fit,
  constant-time comparison): total functions on strings that the repository's unit tests
  cover case by case.
- Registry: `add()`, `seal()` and the EREENTRANT guard (compile-time wiring), `list()` and
  `statusOf()` (reads).
- HTTP handlers as parsers: header and body limits, chunked reads, report rendering; their effects on
  sessions, uploads, the event ring and the registry are in the modules above.
- A call of the activity record torn by the other task's (the record is unprotected); a call is
  one step in `Activity`.

What a next step would take up: the request handlers' early returns as a module over
`Sessions` and `Console`; the activity record's calls split into loads and stores, with `Owners`
proved again over the finer steps.
