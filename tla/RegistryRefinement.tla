------------------------- MODULE RegistryRefinement -------------------------
(***************************************************************************)
(* Registry implements ModuleIntent while flash writes succeed, the lists  *)
(* fit and images only grow: the intent is read off the flash (what the    *)
(* next boot would want), never off RAM, so every step shows that RAM and  *)
(* flash moved together or that the difference is recoverable.             *)
(***************************************************************************)
EXTENDS Registry

Intended ==
  INSTANCE ModuleIntent WITH
    Image     <- Build,
    Grows     <- Upgrade,
    Default   <- {m \in Module : Desc[m].dflt},
    Armable   <- {m \in Module : Boot(m)},
    image     <- build,
    intent    <- WantAtBoot(nvsOn, nvsKnown, build),
    live      <- enabled

\* Every step of the registry is a step of the promise or changes nothing the
\* promise speaks of (registry.cpp, persist() and restoreFromNvs() together).
ImplementsIntent == Intended!IntentSpec
=============================================================================
