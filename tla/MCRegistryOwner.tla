-------------------------- MODULE MCRegistryOwner --------------------------
(***************************************************************************)
(* The instances of MCRegistry for the specification with the owner's      *)
(* history, which also implements ModuleIntent.                            *)
(***************************************************************************)
EXTENDS RegistryOwner, RegistryRefinement, MCRegistry
=============================================================================
