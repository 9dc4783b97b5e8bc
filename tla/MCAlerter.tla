----------------------------- MODULE MCAlerter -----------------------------
(***************************************************************************)
(* Small instances of Alerter: one backend, one way for the health check   *)
(* to fail, a threshold of one half.                                       *)
(***************************************************************************)
EXTENDS Alerter

\* n of d requests, at or above one half.
MCHighRate(n, d) == 2 * n >= d
=============================================================================
