--------------------------- MODULE MCRollingControl --------------------------
(* Three zones on a line, the third too far away for a move to pay.        *)
EXTENDS RollingControl

Position == <<0, 1, 9>>

Line == [e \in Pair |-> IF Position[e[1]] < Position[e[2]]
                        THEN Position[e[2]] - Position[e[1]]
                        ELSE Position[e[1]] - Position[e[2]]]

ASSUME LineAssumption == Metric

Deltas == {-1, 1}

Flows == {-3, 1}

Forecasts == {-3, 1}

(* mpc_run without its no_action, an episode of either environment, and no *)
(* program at all: a request of the API.                                   *)
Simulated == {<<"greedy", "mpc", "oracle">>, <<"agent">>, <<"ppo">>}

Compared == {<<"no_action", "oracle">>}
=============================================================================
