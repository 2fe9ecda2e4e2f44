----------------------------- MODULE MCRegistry -----------------------------
(***************************************************************************)
(* Instances of the registry for TLC.  The table is main.cpp's             *)
(* registration order with the descriptors in mod_*.cpp, the planned tool  *)
(* modules of docs/ARCHITECTURE.md section 4, which are the ones whose     *)
(* claims conflict, and usbdiag, which no image has: default-on and taking *)
(* usb exclusively, the one way to be blocked by essential cdc.            *)
(***************************************************************************)
EXTENDS Registry

MCResource == {"usb", "sd", "wifi", "lcd", "led"}

D(modes, dflt, boot, essential) ==
  [claims |-> C!Claim(modes), dflt |-> dflt, boot |-> boot, essential |-> essential]

u(mode) == [r \in {"usb"} |-> mode]

Table ==
  [cdc      |-> D(u("shared"), TRUE, TRUE, TRUE),
   led      |-> D([r \in {"led"} |-> "exclusive"], TRUE, FALSE, FALSE),
   hid      |-> D(u("shared"), FALSE, TRUE, FALSE),
   storage  |-> D([r \in {"sd"} |-> "shared"], FALSE, FALSE, FALSE),
   http     |-> D([r \in {"wifi"} |-> "shared"], FALSE, FALSE, FALSE),
   display  |-> D([r \in {"lcd"} |-> "exclusive"], TRUE, FALSE, FALSE),
   msc      |-> D([r \in {"usb", "sd"} |-> IF r = "sd" THEN "exclusive" ELSE "shared"],
                  FALSE, TRUE, FALSE),
   wifiscan |-> D([r \in {"wifi"} |-> "shared"], FALSE, FALSE, FALSE),
   monitor  |-> D([r \in {"wifi"} |-> "exclusive"], FALSE, FALSE, FALSE),
   usbdiag  |-> D(u("exclusive"), TRUE, FALSE, FALSE)]

TableRank ==
  [cdc |-> 0, led |-> 1, hid |-> 2, storage |-> 3, http |-> 4, display |-> 5,
   msc |-> 6, wifiscan |-> 7, monitor |-> 8, usbdiag |-> 9]

MCDesc == [m \in Module |-> Table[m]]
MCRank == [m \in Module |-> TableRank[m]]

\* Images.  The mixed one has conflicting tools and grows by an interface bound
\* at boot and by a blocked default; the other grows by the display.
ToolImage    == {"cdc", "http", "monitor"}
NewToolImage == ToolImage \cup {"hid", "display"}
MixedOld     == {"cdc", "http", "wifiscan", "monitor"}
MixedImage   == MixedOld \cup {"hid", "usbdiag"}

ToolBuilds    == {ToolImage, NewToolImage}
ToolsGrowing  == {<<ToolImage, NewToolImage>>}
MixedBuilds   == {MixedOld, MixedImage}
MixedUpgrades == {<<MixedOld, MixedImage>>, <<MixedImage, MixedOld>>}

RoomForAll == [b \in Build |-> 12]
\* An image whose own set exactly fits, next to one that registers more.
ExactRoom  == [b \in Build |-> Cardinality(b)]
=============================================================================
