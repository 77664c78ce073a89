--------------------------- MODULE RollingControl ----------------------------
(***************************************************************************)
(* The receding-horizon simulator (src/optimization/mpc.py): the policies  *)
(* of mpc_run one after the other on the same demand, hour by hour: decide *)
(* and move, then the realized flow hits.  The reinforcement-learning      *)
(* environments (src/optimization/rl/env.py) share the physics and differ  *)
(* in the target they ask for: an alpha-shaped one ("agent") or any        *)
(* ("ppo").                                                                *)
(*                                                                         *)
(* Flow is fractional in the code.  The model counts inventory and flow in *)
(* half bikes; capacities, targets and moves are whole bikes.              *)
(***************************************************************************)
EXTENDS Rebalancing

CONSTANTS
  Hours,     \* length of the series
  Net,       \* the realized net flow of a zone in an hour, in half bikes
  Expected,  \* the forecast net flow of a zone in an hour, in half bikes
  Horizon,   \* look-ahead of mpc and oracle
  Alphas,    \* the agent's alphas, times two
  Actions,   \* bound: the targets ppo asks for
  Programs,  \* the sequences of policies a program simulates
  Quiet,     \* bound: the zones without flow
  Vehicle    \* vehicle_capacity

ASSUME ControlAssumption ==
  /\ Hours \in Nat /\ Vehicle \in 0..MaxVehicle
  /\ Net \subseteq Int /\ Expected \subseteq Int /\ Alphas \subseteq Nat
  /\ Actions \subseteq 0..Capacity
  /\ Quiet \subseteq Station /\ Horizon \in Nat \ {0} /\ Programs \subseteq Seq(STRING)

VARIABLES
  series,   \* forecast and realized net flow of every hour and zone
  todo,     \* the policies left to simulate, the current one first
  hour,     \* t
  phase,    \* "decide", "solve" or "realize"
  stock,    \* the inventory that rolls forward, in half bikes
  tally,    \* shortage and overflow in half bikes, bikes moved, rejections
  results   \* the tallies of the policies simulated

controlVars == <<series, todo, hour, phase, stock, tally, results>>

Policy == Head(todo)

Zero == [short |-> 0, over |-> 0, moved |-> 0, infeasible |-> 0]

(* bikes = capacity / 2                                                    *)
Neutral == [s \in Station |-> Capacity]

(* Flow of every hour, in all but the zones that stay quiet.               *)
Series(values) ==
  [0..(Hours - 1) -> {[s \in Station |-> IF s \in Quiet THEN 0 ELSE f[s]] :
                        f \in [Station \ Quiet -> values]}]

(* np.rint of num / den: to the nearest integer, halves to the even one.   *)
Rint(num, den) ==
  LET q == num \div den
      r == num % den
  IN  IF 2 * r < den \/ (2 * r = den /\ q % 2 = 0) THEN q ELSE q + 1

Clip(i) == IF i < 0 THEN 0 ELSE IF i > Capacity THEN Capacity ELSE i

(* _target_from_forecast and _target_alpha: half the docks, less alpha     *)
(* times the net flow expected over the next h hours.                      *)
Target(flow, h, alpha2) ==
  [s \in Station |->
     LET cum == SumFunctionOnSet([t \in 0..(Hours - 1) |-> flow[t][s]],
                                 {t \in 0..(Hours - 1) : hour <= t /\ t < hour + h})
     IN  Clip(Rint(2 * Capacity - alpha2 * cum, 4))]

(* The targets a policy may set in this hour.                              *)
TargetsOf(policy) ==
  CASE policy = "greedy" -> {Target(series.forecast, 1, 2)}
    [] policy = "milp"   -> {Target(series.forecast, 1, 2)}
    [] policy = "mpc"    -> {Target(series.forecast, Horizon, 2)}
    [] policy = "oracle" -> {Target(series.realized, Horizon, 2)}
    [] policy = "agent"  -> {Target(series.forecast, h, a) :
                               h \in {1, Horizon}, a \in Alphas \ {0}}
    [] policy = "ppo"    -> [Station -> Actions]
    [] OTHER             -> {}

(* Mutant of Stock: rounded to the nearest, not down.                      *)
StockRounded(b) == (b + 1) \div 2

(* int(bikes[j]): what stands at a zone, in whole bikes.                   *)
Stock(b) == b \div 2

(* _solve_period: the Stations the solver is given.                        *)
Period(target) ==
  [bikes |-> [s \in Station |-> Stock(stock[s])], target |-> target,
   capacity |-> [s \in Station |-> Capacity], vehicle |-> Vehicle]

(* The problem of no one: what the solver's variables hold between runs.   *)
Empty ==
  [bikes |-> [s \in Station |-> 0], target |-> [s \in Station |-> 0],
   capacity |-> [s \in Station |-> Capacity], vehicle |-> Vehicle]

(* A simulation begins, or a request of the API comes in.  The targets of  *)
(* ppo may be any, so its forecast does not matter and is not enumerated.  *)
ControlInit ==
  \/ /\ series \in [forecast : Series(Expected), realized : Series(Net)]
     /\ todo \in Programs
     /\ todo = <<"ppo">> => series.forecast = series.realized
     /\ hour = 0 /\ phase = "decide"
     /\ stock = Neutral /\ tally = Zero /\ results = <<>>
     /\ task = "greedy" /\ problem = Empty
     /\ bikes = Empty.bikes /\ moved = NoMove /\ left = Vehicle
     /\ status = "solving"
  \/ /\ Init
     /\ series = [forecast |-> <<>>, realized |-> <<>>]
     /\ todo = <<>> /\ hour = 0 /\ phase = "solve"
     /\ stock = Neutral /\ tally = Zero /\ results = <<>>

(* The solver is given a problem: _solve_period calls greedy_plan, or       *)
(* milp_plan.                                                              *)
Given(solver, p) ==
  /\ task' = solver /\ problem' = p
  /\ bikes' = p.bikes /\ moved' = NoMove /\ left' = p.vehicle
  /\ status' = "solving"

(* Decide: the target of the hour, and the solver's run on it begins.      *)
Decide(target) ==
  /\ hour < Hours /\ phase = "decide"
  /\ Given(IF Policy = "greedy" THEN "greedy" ELSE "milp", Period(target))
  /\ phase' = "solve"
  /\ UNCHANGED <<series, todo, hour, stock, tally, results>>

(* A step of the solver, for a simulation or for a request of the API.     *)
Solve == phase = "solve" /\ Next /\ UNCHANGED controlVars

(* Move.  A plan that does not check is replaced by no move.  What the     *)
(* solver worked with is gone.  A problem the solver refused ends the      *)
(* program.                                                                *)
Apply ==
  /\ phase = "solve" /\ status = "solved"
  /\ LET ok == Feasible(problem, moved)
     IN  /\ stock' = [s \in Station |->
                        IF ok THEN stock[s] + 2 * (FinalInventory(problem, moved)[s]
                                                   - problem.bikes[s])
                        ELSE stock[s]]
         /\ tally' = [tally EXCEPT !.moved = @ + (IF ok THEN TotalMoved(moved) ELSE 0),
                                   !.infeasible = @ + (IF ok THEN 0 ELSE 1)]
  /\ Given("greedy", Empty)
  /\ phase' = "realize"
  /\ UNCHANGED <<series, todo, hour, results>>

(* no_action, and the agent's alpha of zero, leave the inventory alone.    *)
Stay ==
  /\ hour < Hours /\ phase = "decide"
  /\ Policy = "no_action" \/ (Policy = "agent" /\ 0 \in Alphas)
  /\ phase' = "realize"
  /\ UNCHANGED <<series, todo, hour, stock, tally, results, vars>>

(* Departures not served: shortage.                                        *)
Unserved == [s \in Station |-> PositivePart(-series.realized[hour][s] - stock[s])]

(* Mutant of Turned: only what does not fit counts, and what stands on no  *)
(* dock is forgotten.                                                      *)
TurnedFits ==
  [s \in Station |->
     IF series.realized[hour][s] < 0 THEN 0
     ELSE PositivePart(series.realized[hour][s] - PositivePart(2 * Capacity - stock[s]))]

(* Arrivals without a dock: overflow.  `accepted` is the smaller of the    *)
(* room and the arrivals, and the room may be negative.                    *)
Turned ==
  [s \in Station |->
     IF series.realized[hour][s] < 0 THEN 0
     ELSE series.realized[hour][s] - Least(2 * Capacity - stock[s], series.realized[hour][s])]

(* The hour's realized flow.                                               *)
Realize ==
  /\ hour < Hours /\ phase = "realize"
  /\ stock' = [s \in Station |->
       IF series.realized[hour][s] < 0
       THEN stock[s] - Least(stock[s], -series.realized[hour][s])
       ELSE stock[s] + Least(2 * Capacity - stock[s], series.realized[hour][s])]
  /\ tally' = [tally EXCEPT !.short = @ + SumFunctionOnSet(Unserved, Station),
                            !.over = @ + SumFunctionOnSet(Turned, Station)]
  /\ hour' = hour + 1 /\ phase' = "decide"
  /\ UNCHANGED <<series, todo, results, vars>>

(* The series is over: keep the result, start the next policy afresh.      *)
EndPolicy ==
  /\ phase = "decide" /\ hour = Hours
  /\ results' = Append(results, [policy |-> Policy, tally |-> tally])
  /\ todo' = Tail(todo) /\ hour' = 0
  /\ stock' = Neutral /\ tally' = Zero
  /\ UNCHANGED <<series, phase, vars>>

ControlNext ==
  \/ /\ todo # <<>>
     /\ \/ \E target \in TargetsOf(Policy) : Decide(target)
        \/ Stay
        \/ Apply
        \/ Realize
        \/ EndPolicy
  \/ Solve

ControlSpec == ControlInit /\ [][ControlNext]_<<vars, controlVars>>

-----------------------------------------------------------------------------
(* Properties                                                              *)

(* Every hour's problem can be stated: Station raises on an inventory      *)
(* outside [0, capacity].  Whole bikes move by the floored state and the   *)
(* fraction stays behind, so a zone may hold more than its docks, but by   *)
(* less than one bike, and a zone never owes a bike.                       *)
StationsLegal ==
  \A s \in Station : stock[s] >= 0 /\ stock[s] < 2 * (Capacity + 1)

(* Moving creates and loses no bikes: what the zones hold is what they     *)
(* started with, plus the flow that was realized, plus the departures that *)
(* were not served, minus the arrivals that found no dock.                 *)
BikesAccountedFor ==
  SumFunctionOnSet(stock, Station)
    = N * Capacity + tally.short - tally.over
        + SumFunctionOnSet([t \in 0..(hour - 1) |->
                              SumFunctionOnSet(series.realized[t], Station)], 0..(hour - 1))

(* total_cost of a tally, times two.                                       *)
TotalCost(r) ==
  ShortageCost * r.short + OverflowCost * r.over + 2 * DistanceCost * r.moved

(* mpc.py, mpc_run.py and test_v2_mpc: the oracle is the upper bound, so   *)
(* no policy's regret is negative.  The oracle steers to the heuristic     *)
(* target with the realized flow and pays for moves nobody needed.         *)
OracleIsBound ==
  \A i, j \in DOMAIN results :
    results[i].policy = "oracle" =>
      TotalCost(results[i].tally) <= TotalCost(results[j].tally)
=============================================================================
