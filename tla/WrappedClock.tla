---------------------------- MODULE WrappedClock ----------------------------
(***************************************************************************)
(* millis(): the true time modulo Wrap, and the comparison every deadline  *)
(* of the firmware is read with.                                           *)
(***************************************************************************)
EXTENDS Integers

CONSTANT Wrap   \* 2^32 milliseconds in the code

ASSUME WrapAssumption == Wrap \in Nat /\ Wrap >= 2

Half == Wrap \div 2

\* A comparison of the bare values.
ReachedNaive(now, deadline) == now >= deadline

\* (int32_t)(now - deadline) >= 0
Reached(now, deadline) == (now - deadline) % Wrap < Half
=============================================================================
