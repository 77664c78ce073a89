---------------------------- MODULE StationPlans -----------------------------
(***************************************************************************)
(* Rebalancing problems, plans, feasibility and cost                       *)
(* (src/optimization/classical: problem, feasibility, objective), the      *)
(* shared vocabulary of Rebalancing and RollingControl.                    *)
(*                                                                         *)
(* A plan lists at most one move per directed pair of stations, so it is a *)
(* flow: the quantity moved on each pair.  Costs and distances are whole   *)
(* numbers: the defaults 3, 1 and 0.5 are taken times two, and what the    *)
(* code rounds to four decimals is exact here.                             *)
(***************************************************************************)
EXTENDS Integers, FiniteSets, FiniteSetsExt, Functions

CONSTANTS
  N,             \* number of stations; a station is its index
  Distance,      \* distance_km of a pair of stations
  ShortageCost,  \* RebalancingCosts.shortage_cost
  OverflowCost,  \* RebalancingCosts.overflow_cost
  DistanceCost,  \* RebalancingCosts.distance_cost
  MaxVehicle     \* bound: vehicle_capacity at most

Station == 1..N

(* The pairs a move may connect: origin and destination differ.            *)
Pair == {e \in Station \X Station : e[1] # e[2]}

ASSUME NetworkAssumption ==
  /\ N \in Nat /\ MaxVehicle \in Nat
  /\ ShortageCost \in Nat /\ OverflowCost \in Nat /\ DistanceCost \in Nat
  /\ Distance \in [Pair -> Nat]

(* What the distances of the code keep, and the default distance_cost:     *)
(* way is priced, stations stand apart, and haversine_km, which follows    *)
(* the great circle, never makes a detour shorter than the straight way.   *)
Metric ==
  /\ DistanceCost > 0
  /\ \A e \in Pair : Distance[e] > 0
  /\ \A e, f, g \in Pair : e[2] = f[1] /\ g[1] = e[1] /\ g[2] = f[2] =>
       Distance[g] <= Distance[e] + Distance[f]

(* RebalancingProblem of Stations that passed their own validation.        *)
ProblemsWithin(cap) ==
  [bikes : [Station -> 0..cap], target : [Station -> 0..cap],
   capacity : [Station -> {cap}], vehicle : 0..MaxVehicle]

PositivePart(i) == IF i > 0 THEN i ELSE 0

Least(a, b) == IF a < b THEN a ELSE b

Surplus(p, s) == PositivePart(p.bikes[s] - p.target[s])

Deficit(p, s) == PositivePart(p.target[s] - p.bikes[s])

(* The empty plan.                                                         *)
NoMove == [e \in Pair |-> 0]

TotalMoved(x) == SumFunctionOnSet(x, Pair)

(* Every flow a vehicle may carry at all.                                  *)
Flow == {x \in [Pair -> 0..MaxVehicle] : TotalMoved(x) <= MaxVehicle}

Outflow(x, s) == SumFunctionOnSet(x, {e \in Pair : e[1] = s})

Inflow(x, s) == SumFunctionOnSet(x, {e \in Pair : e[2] = s})

(* RebalancingPlan.final_inventory                                         *)
FinalInventory(p, x) ==
  [s \in Station |-> p.bikes[s] - Outflow(x, s) + Inflow(x, s)]

(* check_feasibility: only bikes that stand at the origin leave it, docks  *)
(* suffice, and the vehicle carries the whole plan.                        *)
Feasible(p, x) ==
  /\ TotalMoved(x) <= p.vehicle
  /\ \A s \in Station :
       /\ Outflow(x, s) <= p.bikes[s]
       /\ FinalInventory(p, x)[s] \in 0..p.capacity[s]

(* imbalance_units, priced                                                 *)
ImbalanceCost(p, final) ==
  SumFunctionOnSet([s \in Station |-> ShortageCost * PositivePart(p.target[s] - final[s])
                                     + OverflowCost * PositivePart(final[s] - p.target[s])],
                   Station)

(* plan_cost(...).total_cost                                               *)
PlanCost(p, x) ==
  ImbalanceCost(p, FinalInventory(p, x))
    + DistanceCost * SumFunctionOnSet([e \in Pair |-> Distance[e] * x[e]], Pair)

(* The scan of greedy_plan over a working copy b of the inventory.         *)

(* Mutant of Gain: the way is not priced.                                  *)
GainBlind(e) == ShortageCost + OverflowCost

Gain(e) == ShortageCost + OverflowCost - DistanceCost * Distance[e]

(* A surplus origin, a deficit destination, and a strictly positive gain.  *)
Candidate(p, b, e) ==
  /\ b[e[1]] > p.target[e[1]]
  /\ b[e[2]] < p.target[e[2]]
  /\ Gain(e) > 0

(* e is met before f by the two nested loops.                              *)
Before(e, f) == e[1] < f[1] \/ (e[1] = f[1] /\ e[2] < f[2])

(* The pair the scan keeps: of the largest gain, the first.                *)
Best(p, b, e) ==
  /\ Candidate(p, b, e)
  /\ \A f \in Pair : Candidate(p, b, f) =>
       Gain(f) < Gain(e) \/ (Gain(f) = Gain(e) /\ ~Before(f, e))

(* Mutant of Quantity: as many as the destination has docks for.           *)
QuantityRoom(p, b, left, e) ==
  Least(left, Least(b[e[1]], p.capacity[e[2]] - b[e[2]]))

Quantity(p, b, left, e) ==
  Least(left, Least(b[e[1]] - p.target[e[1]], p.target[e[2]] - b[e[2]]))

(* The inventory after q bikes went along e.                               *)
Carry(b, e, q) == [b EXCEPT ![e[1]] = @ - q, ![e[2]] = @ + q]

(* Mutant of MilpPlans: without the vehicle row.                           *)
MilpPlansUnbounded(p) ==
  LET feasible == {x \in Flow : \A s \in Station :
                     /\ Outflow(x, s) <= p.bikes[s]
                     /\ FinalInventory(p, x)[s] \in 0..p.capacity[s]}
      least == Min({PlanCost(p, x) : x \in feasible})
  IN  {x \in feasible : PlanCost(p, x) = least}

(* milp_plan: the flows its rows and bounds admit that cost least; which   *)
(* of them the solver returns is its own choice.                           *)
MilpPlans(p) ==
  LET feasible == {x \in Flow :
                     /\ \A e \in Pair : x[e] <= Least(p.bikes[e[1]], p.vehicle)
                     /\ Feasible(p, x)}
      least == Min({PlanCost(p, x) : x \in feasible})
  IN  {x \in feasible : PlanCost(p, x) = least}
=============================================================================
