----------------------------- MODULE MCFailover -----------------------------
(***************************************************************************)
(* Small instances of Failover.  Routes:                                   *)
(*   ovhModel  "ovh/<model>": key "prefixed", ovh first; the repetition is *)
(*             the global list appended to the route's own                 *)
(*   lpModel   "mistral_lp/<model>": the same key, the other order         *)
(*   ocr       the scope with its own cooldown; ends in the stub           *)
(*   embed     the embeddings path: ovh only                               *)
(* Traffic chooses the calls of a run by the question the run asks.        *)
(***************************************************************************)
EXTENDS Failover, TLC

CONSTANTS Traffic

Call(x, s, a) == [route |-> x, stream |-> s, able |-> a]

Both == {"ovh", "lp"}

MCProviders == Both \cup {"stub"}

MCCalls ==
    CASE Traffic = "mixed" ->
            {Call("ovhModel", FALSE, Both), Call("ovhModel", FALSE, {}),
             Call("lpModel", TRUE, {"ovh"}),
             Call("ocr", FALSE, MCProviders), Call("embed", FALSE, MCProviders)}
      [] Traffic = "shared" ->
            {Call("ovhModel", FALSE, {"ovh"}), Call("lpModel", TRUE, Both)}

MCRoutes == {c.route : c \in MCCalls}

MCScopeOf ==
    [x \in MCRoutes |-> CASE x = "ocr"   -> "ocr"
                          [] x = "embed" -> "embeddings"
                          [] OTHER       -> "prefixed"]

MCScopes == {MCScopeOf[x] : x \in MCRoutes} \cup {"embeddings"}

MCListed ==
    [x \in MCRoutes |-> CASE x = "ovhModel" -> <<"ovh", "lp", "ovh">>
                          [] x = "lpModel"  -> <<"lp", "ovh">>
                          [] x = "ocr"      -> <<"ovh", "stub">>
                          [] x = "embed"    -> <<"ovh">>]

Symmetry == Permutations(Requests)
=============================================================================
