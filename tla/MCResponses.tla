---------------------------- MODULE MCResponses ----------------------------
(***************************************************************************)
(* Small instances of Responses: a stream, and a plain request that        *)
(* continues it, or tries to: stored and handled in another process, or    *)
(* not stored and handled in the same.                                     *)
(***************************************************************************)
EXTENDS Responses

CONSTANTS r1, r2, p1, p2

MCKinds ==
    [r \in Ids |->
        IF r = r1 THEN {[stream |-> TRUE, store |-> TRUE, prev |-> NoId, at |-> p1]}
        ELSE {[stream |-> FALSE, store |-> TRUE, prev |-> r1, at |-> p2],
              [stream |-> FALSE, store |-> FALSE, prev |-> r1, at |-> p1]}]
=============================================================================
