----------------------------- MODULE MCMetering -----------------------------
(***************************************************************************)
(* Small instances of Metering: one key, two processes, two requests in    *)
(* flight, two days of a month each, three tokens, one fault.  The admin   *)
(* registers a daily limit of 1, from which a monthly limit of 2 follows;  *)
(* the bootstrap script a monthly limit of 2 without a daily one.          *)
(***************************************************************************)
EXTENDS Metering, TLC

MCBootstrapLimits == {[daily |-> 0, monthly |-> 2]}

Symmetry == Permutations(Procs) \cup Permutations(Requests)
=============================================================================
