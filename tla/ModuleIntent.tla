---------------------------- MODULE ModuleIntent ----------------------------
(***************************************************************************)
(* What the registry promises, with no flash, no boot order and no result  *)
(* records: a set of modules the owner wants, which only the owner's calls *)
(* and a new image change, and a conflict-free live part of it.            *)
(***************************************************************************)
CONSTANTS
  Image,        \* the images, each a set of modules
  Grows,        \* pairs of images: the second may replace the first
  Default,      \* modules that are on out of the box
  Essential,    \* modules that are always on
  Armable,      \* modules bound at boot only
  Coexists(_, _)

VARIABLES image, intent, live

ivars == <<image, intent, live>>

OutOfBox(b) == b \cap (Default \cup Essential)

Compatible(S) == \A a, b \in S : a # b => Coexists(a, b)

Init ==
  /\ image \in Image
  /\ intent = OutOfBox(image)
  /\ live = {}

PowerUp ==
  /\ live = {}
  /\ \E S \in SUBSET intent : Compatible(S) /\ live' = S
  /\ UNCHANGED <<image, intent>>

PowerDown ==
  /\ live' = {}
  /\ UNCHANGED <<image, intent>>

\* New modules take their default; nothing else about the intent moves.
Replace(b) ==
  /\ <<image, b>> \in Grows
  /\ image' = b
  /\ intent' = intent \cup OutOfBox(b \ image)
  /\ live' = {}

Erase ==
  /\ live = {}
  /\ intent' = OutOfBox(image)
  /\ UNCHANGED <<image, live>>

\* Modules in S made way for m, which then came up or did not.
TurnOn(m) ==
  /\ m \in image \ Armable
  /\ \E S \in SUBSET {j \in live \ Essential : ~Coexists(j, m)} :
       \/ /\ live' = (live \ S) \cup {m}
          /\ intent' = (intent \ S) \cup {m}
          /\ Compatible(live')
       \/ /\ live' = (live \ S) \ {m}
          /\ intent' \in {intent \ S, (intent \ S) \ {m}}
  /\ UNCHANGED image

Arm(m) ==
  /\ m \in image \cap Armable
  /\ intent' = intent \cup {m}
  /\ UNCHANGED <<image, live>>

TurnOff(m) ==
  /\ m \in image \ Essential
  /\ intent' = intent \ {m}
  /\ live' = IF m \in Armable THEN live ELSE live \ {m}
  /\ UNCHANGED image

Next ==
  \/ PowerUp \/ PowerDown \/ Erase
  \/ \E b \in Image : Replace(b)
  \/ \E m \in image : TurnOn(m) \/ Arm(m) \/ TurnOff(m)

IntentSpec == Init /\ [][Next]_ivars
=============================================================================
