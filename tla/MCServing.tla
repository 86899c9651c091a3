------------------------------- MODULE MCServing -------------------------------
(* The two ways a prediction takes, for TLC: through the model server with *)
(* its cache, and through the API with the registry and its cache.  They   *)
(* share no state, so each behaviour is about the one that part names.     *)
EXTENDS PredictionServing, ModelRouting, TLC

CONSTANTS v1, v2, w1, w2, c1, c2, d1, d2, f, g

VARIABLE part

serveVars == <<part, servingVars, routingVars>>

(* The models tell f and g apart, their keys do not.  A request for        *)
(* whatever version is the default and two for v2.                         *)
OneDigest == (f :> 1) @@ (g :> 1)
PinnedAndLatest ==
  {[version |-> p[1], input |-> p[2], enable_cache |-> TRUE] :
     p \in {<<Latest, f>>, <<v2, f>>, <<v2, g>>}}

(* Clients are alike, and so are callers, and the versions they ask for. *)
Symmetry == Permutations({c1, c2}) \cup Permutations({d1, d2}) \cup Permutations({w1, w2})

ServeInit == part \in {"server", "api"} /\ ServingInit /\ RoutingInit

ServeNext ==
  /\ \/ part = "server" /\ ServingNext /\ UNCHANGED routingVars
     \/ part = "api" /\ RoutingNext /\ UNCHANGED servingVars
  /\ UNCHANGED part

ServeSpec == ServeInit /\ [][ServeNext]_serveVars

=============================================================================
