--------------------------- MODULE MCRateLimiter ---------------------------
(***************************************************************************)
(* Small instances of RateLimiter: a minute of two clock units, two rates  *)
(* with different bursts, and the default setting: both limits off.        *)
(***************************************************************************)
EXTENDS RateLimiter

Limit(p, b, c) == [perMinute |-> p, burst |-> b, concurrency |-> c]

MCLimits ==
    {Limit(1, 2, 2), Limit(3, 0, 1), Limit(0, 0, 0)}
=============================================================================
