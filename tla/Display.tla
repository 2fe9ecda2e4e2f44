------------------------------- MODULE Display -------------------------------
(***************************************************************************)
(* What is on the glass (firmware/src/mod_display.cpp): the screen an      *)
(* operator selects, the pairing screen that comes and goes by itself with *)
(* the pairing record (pairing.h), and a tick that rebuilds every region,  *)
(* draws only a few of those that moved, and draws nothing at all when it  *)
(* had to encode a symbol. The activity record is Activity's subject; here *)
(* it is a footer that moves whenever it likes.                            *)
(***************************************************************************)
EXTENDS Naturals, FiniteSets

CONSTANTS
  MaxDraw,   \* MAX_DRAW_PER_TICK
  MaxSeq     \* bound: changes of the pairing record in one run

ASSUME DisplayAssumption == MaxDraw \in Nat \ {0} /\ MaxSeq \in Nat

\* The regions, in the order of Dirty's cursor: REG_ID for the lines drawn from
\* the sampled world, REG_AUTH, REG_FOOT and REG_QR.
ID == 0
AUTH == 1
FOOT == 2
QR == 3
Regions == ID .. QR
Count == Cardinality(Regions)

Named == {"status", "diag"}
Screens == Named \cup {"pair"}

VARIABLES
  up,            \* up_, and both records subscribed
  seq,           \* Pairing::seq()
  visible,       \* Pairing::visible(); the record is then the seq-th
  world, foot,   \* what a sample would find, and what the footer would say
  seen,          \* world_, or Unsampled
  screen,        \* screen_, what was selected
  activeScreen,  \* activeScreen_
  clearPending,  \* clearPending_
  cache,         \* cache_: what each region was last built from
  dirty, cursor, \* Dirty::Regions
  qr,            \* qrCodedSeq_ while qrCoded_, else 0
  glass,         \* the pixels of each region: the screen and value drawn there
  calm           \* history: ticks since anything but the footer changed

displayVars == <<up, seq, visible, world, foot, seen, screen, activeScreen, clearPending,
          cache, dirty, cursor, qr, glass, calm>>

Unsampled == 2
Empty == [r \in Regions |-> 0]
Dark == [r \in Regions |-> [on |-> "dark", value |-> 0]]

\* Enough ticks for one that encodes and for every region to have its turn.
Settle == 1 + (Count + MaxDraw - 1) \div MaxDraw

effectiveScreen == IF screen = "status" /\ visible THEN "pair" ELSE screen

\* NO_RECT: a screen's regions that do not exist.
rectEmpty(s, r) == IF s = "pair" THEN r = FOOT ELSE r = QR

\* The lines of the two stripe screens come from the sample; the footer from
\* the activity record and the clock.  (The last line of diag shows the longest
\* redraw so far, which the panel's own work moves; it is not modelled.)
buildStatus(w) == w
buildDiag(w) == w
buildFoot == foot

\* The pairing screen: a title of the badge and the record's code, which is
\* here the parity of its number, and the digits.
buildPair(r, w) == IF r = ID THEN 2 * w + (seq % 2) ELSE seq

\* buildRegion(): what region r of screen s is built from. A region that does
\* not exist builds nothing; the symbol's key is the record's number.
Built(s, r, w) ==
  CASE rectEmpty(s, r) -> 0
    [] r = QR -> seq
    [] r = FOOT -> buildFoot
    [] s = "pair" /\ r \notin {QR, FOOT} -> buildPair(r, w)
    [] s = "diag" /\ r \notin {QR, FOOT} -> buildDiag(w)
    [] s = "status" /\ r \notin {QR, FOOT} -> buildStatus(w)

Restless == calm' = 0

-----------------------------------------------------------------------------
(* Dirty.                                                                  *)

Distance(c, r) == (r + Count - c) % Count

\* The regions takeNext() hands out when it is called up to MaxDraw times.
Taken(d, c) ==
  {r \in d : Cardinality({q \in d : Distance(c, q) < Distance(c, r)}) < MaxDraw}

Cursor(d, c) ==
  IF d = {} THEN c
  ELSE LET furthest == CHOOSE r \in Taken(d, c) : \A q \in Taken(d, c) : Distance(c, q) <= Distance(c, r)
       IN (furthest + 1) % Count

-----------------------------------------------------------------------------
(* displayTick().                                                          *)

\* drawQr(): the symbol as it was encoded, or text from the record itself.
drawQr(symbol) == [on |-> "pair", value |-> symbol]

\* drawRegion(): the cached line; a region that does not exist draws nothing.
drawRegion(s, r, built, symbol) ==
  IF r = QR THEN drawQr(symbol) ELSE [on |-> s, value |-> built[r]]

\* The pixels after the regions of a set are drawn over others.
Painted(regions, over, s, built, symbol) ==
  [r \in Regions |->
     IF r \in regions /\ ~rectEmpty(s, r) THEN drawRegion(s, r, built, symbol) ELSE over[r]]

\* A yield that forgets what was to be drawn.
DrawForgets(encodes, clear, d, shown, built) ==
  LET all == IF clear THEN Regions ELSE d
      base == IF clear THEN Dark ELSE glass
  IN  /\ dirty' = all \ Taken(all, cursor)
      /\ cursor' = Cursor(all, cursor)
      /\ clearPending' = FALSE
      /\ glass' = IF encodes THEN base ELSE Painted(Taken(all, cursor), base, shown, built, qr)

\* The yield after an encode: everything stays dirty, a pending clear stays
\* pending. Else the clear, then as many regions as one tick may draw.
Draw(encodes, clear, d, shown, built) ==
  IF encodes
  THEN /\ dirty' = d /\ clearPending' = clear
       /\ UNCHANGED <<cursor, glass>>
  ELSE LET all == IF clear THEN Regions ELSE d
           base == IF clear THEN Dark ELSE glass
       IN  /\ dirty' = all \ Taken(all, cursor)
           /\ cursor' = Cursor(all, cursor)
           /\ clearPending' = FALSE
           /\ glass' = Painted(Taken(all, cursor), base, shown, built, qr)

\* A screen that changes by itself is blanked as one that was asked for is.
Clears(moved) == clearPending \/ moved

displayTick(sample) ==
  /\ up /\ (seen = Unsampled => sample)
  /\ LET now == IF sample THEN world ELSE seen
         shown == effectiveScreen
         moved == shown # activeScreen
         kept == IF moved THEN Empty ELSE cache  \* refreshCache() compares with it
         built == [r \in Regions |-> Built(shown, r, now)]
         encodes == shown = "pair" /\ qr # seq
     IN  /\ seen' = now /\ activeScreen' = shown /\ cache' = built
         /\ qr' = IF shown = "pair" THEN seq ELSE IF moved THEN 0 ELSE qr
         /\ Draw(encodes, Clears(moved), dirty \cup {r \in Regions : built[r] # kept[r]}, shown, built)
         /\ calm' = IF now # seen THEN 1 ELSE IF calm < Settle THEN calm + 1 ELSE calm
  /\ UNCHANGED <<up, seq, visible, world, foot, screen>>

-----------------------------------------------------------------------------
(* What happens between two ticks.                                         *)

\* http's tick publishes a record that differs, or withdraws it; without a
\* subscriber both do nothing.
Publish(on) ==
  /\ up /\ seq < MaxSeq /\ (on \/ visible)
  /\ seq' = seq + 1 /\ visible' = on /\ Restless
  /\ UNCHANGED <<up, world, foot, seen, screen, activeScreen, clearPending, cache, dirty, cursor, qr, glass>>

WorldMoves ==
  /\ \E w \in 0 .. 1 : world' = w
  /\ \E f \in 0 .. 1 : foot' = f
  /\ UNCHANGED <<up, seq, visible, seen, screen, activeScreen, clearPending, cache, dirty, cursor, qr, glass, calm>>

\* `display screen`: nothing happens when it is selected already.
Select(s) ==
  /\ up
  /\ IF s = screen
     THEN UNCHANGED <<screen, clearPending, cache, calm>>
     ELSE screen' = s /\ clearPending' = TRUE /\ cache' = Empty /\ Restless
  /\ UNCHANGED <<up, seq, visible, world, foot, seen, activeScreen, dirty, cursor, qr, glass>>

\* `display refresh`.
Refresh ==
  /\ up
  /\ clearPending' = TRUE /\ cache' = Empty /\ Restless
  /\ UNCHANGED <<up, seq, visible, world, foot, seen, screen, activeScreen, dirty, cursor, qr, glass>>

\* displayEnable(): both records are dropped and subscribed afresh.
displayEnable ==
  /\ ~up /\ seq < MaxSeq
  /\ up' = TRUE /\ seq' = seq + 1 /\ visible' = FALSE
  /\ seen' = Unsampled /\ screen' = "status" /\ activeScreen' = "status"
  /\ clearPending' = FALSE /\ cache' = Empty /\ dirty' = Regions /\ cursor' = 0
  /\ qr' = 0 /\ glass' = Dark /\ Restless
  /\ UNCHANGED <<world, foot>>

\* displayDisable(): the record goes, the symbol goes, the glass goes dark.
displayDisable ==
  /\ up /\ seq < MaxSeq
  /\ up' = FALSE /\ seq' = seq + 1 /\ visible' = FALSE
  /\ cache' = Empty /\ dirty' = {} /\ qr' = 0 /\ glass' = Dark /\ Restless
  /\ UNCHANGED <<world, foot, seen, screen, activeScreen, clearPending, cursor>>

-----------------------------------------------------------------------------
DisplayInit ==
  /\ up = FALSE /\ seq = 0 /\ visible = FALSE
  /\ world = 0 /\ foot = 0 /\ seen = Unsampled
  /\ screen = "status" /\ activeScreen = "status" /\ clearPending = FALSE
  /\ cache = Empty /\ dirty = {} /\ cursor = 0 /\ qr = 0
  /\ glass = Dark /\ calm = 0

DisplayNext ==
  \/ displayEnable \/ displayDisable \/ Refresh \/ WorldMoves
  \/ \E sample \in BOOLEAN : displayTick(sample)
  \/ \E on \in BOOLEAN : Publish(on)
  \/ \E s \in Named : Select(s)

DisplaySpec == DisplayInit /\ [][DisplayNext]_displayVars

-----------------------------------------------------------------------------

\* What must not outlive its record: the digits and the symbol on the glass, and
\* the symbol in its buffer.
SecretGone ==
  effectiveScreen # "pair" => qr = 0 /\ \A r \in Regions : glass[r].on # "pair"

\* The screen that is due, each region but the footer as it now is.
Shows(r) ==
  IF rectEmpty(effectiveScreen, r) THEN Dark[r]
  ELSE [on |-> effectiveScreen, value |-> Built(effectiveScreen, r, seen)]

\* One tick after the pairing record is withdrawn, or `diag` is selected over
\* it, nothing of it is left; and however the footer animates and wherever the
\* cursor stands, a panel left alone for one tick that encodes and one turn of
\* every region shows the screen that is due, never the digits of one record
\* beside the symbol of another (mod_display.cpp:1336-1408; diag's longest redraw
\* apart, 747, which may move with the turn that shows it).
PanelTellsTruth ==
  /\ calm >= 1 => SecretGone
  /\ up /\ calm = Settle => \A r \in Regions \ {FOOT} : glass[r] = Shows(r)

=============================================================================
