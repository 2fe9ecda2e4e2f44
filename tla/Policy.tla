------------------------------- MODULE Policy -------------------------------
(***************************************************************************)
(* The two authority tables of the image (cmdauth.h, modauth.h) and the    *)
(* assertions the build makes about them.                                  *)
(***************************************************************************)
EXTENDS Naturals

NONE == 0
TOKEN == 1
PHYSICAL == 2
AuthLevels == NONE..PHYSICAL
UNLISTED == PHYSICAL

BUILTINS ==
  [n \in {"help", "info", "parts", "mem", "uptime", "tasks", "led", "modules", "enable",
          "disable", "selftest", "log", "bootprobe", "ota", "reboot"} |->
     IF n = "reboot" THEN PHYSICAL ELSE TOKEN]

OTA_MUTATE == PHYSICAL

ModulePolicy == [m \in {"cdc", "led", "display", "hid", "storage", "http"} |-> TOKEN]

ActionsOf ==
  [cdc |-> {}, led |-> {"set", "auto"}, hid |-> {"type", "key", "release", "status", "layout"},
   display |-> {"status", "backlight", "screen", "refresh"},
   storage |-> {"caps", "free", "list", "stat", "read", "verify", "write", "mkdir", "delete",
                "status", "format"},
   http |-> {"status", "psk", "pin", "sessions"}]

PhysicalActions == {<<"storage", "format">>, <<"http", "psk">>, <<"http", "pin">>}
ActionPolicy ==
  [m \in DOMAIN ModulePolicy |->
     [a \in ActionsOf[m] |->
        IF <<m, a>> \in PhysicalActions THEN PHYSICAL ELSE TOKEN]]

\* What the static_asserts of the two headers and of console.cpp state.
ASSUME NothingAtNone ==
  \A m \in DOMAIN ModulePolicy : /\ ModulePolicy[m] >= TOKEN
                            /\ \A a \in ActionsOf[m] : ActionPolicy[m][a] >= ModulePolicy[m]
ASSUME FailClosed == \A l \in AuthLevels : l <= UNLISTED
ASSUME StaysPhysical ==
  ActionPolicy["storage"]["format"] = PHYSICAL /\ ActionPolicy["http"]["psk"] = PHYSICAL
                                          /\ ActionPolicy["http"]["pin"] = PHYSICAL
ASSUME OtaOnlyRaises == OTA_MUTATE >= BUILTINS["ota"]
ASSUME AliasAgrees == BUILTINS["led"] = ActionPolicy["led"]["set"]
=============================================================================
