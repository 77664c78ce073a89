----------------------------- MODULE Rebalancing -----------------------------
(***************************************************************************)
(* The classical rebalancing solvers (src/optimization/classical), the     *)
(* allocation of extra bikes, the QUBO encoding of the research track, and *)
(* the API that builds a problem and picks a solver                        *)
(* (src/services/api/rebalancing.py).                                      *)
(*                                                                         *)
(* A run takes one problem and one task.  The greedy loop and the          *)
(* allocation loop are modelled iteration by iteration; the MILP solver is *)
(* external and returns any optimum or fails.                              *)
(***************************************************************************)
EXTENDS StationPlans, Sequences

CONSTANTS
  Capacity,         \* docks of every station
  Surge,            \* forecast_delta of a zone, rounded
  MaxExtra,         \* bound: bikes to allocate
  MaxCombinations,  \* MAX_COMBINATIONS of the enumeration
  ImbalanceWeight   \* imbalance_weight of the QUBO

ASSUME SolversAssumption ==
  /\ Capacity \in Nat /\ MaxExtra \in Nat /\ MaxCombinations \in Nat
  /\ ImbalanceWeight \in Nat /\ Surge \subseteq Int

Task == {"greedy", "milp", "qubo", "allocate"}

VARIABLES
  task,     \* what the request asks for
  problem,  \* the problem built from the fixture and the forecast
  bikes,    \* the solver's working copy of the inventory
  moved,    \* the plan so far
  left,     \* remaining_vehicle, or the extra bikes not placed yet
  status    \* "solving", "solved" or "refused" (ExactSolverError)

vars == <<task, problem, bikes, moved, left, status>>

(* build_problem: a positive forecast delta raises the base target, up to  *)
(* the docks of the station.                                               *)
RaisedTarget(base, delta) == Least(Capacity, base + PositivePart(delta))

Problems ==
  {[bikes |-> b, target |-> [s \in Station |-> RaisedTarget(base[s], d)],
    capacity |-> [s \in Station |-> Capacity], vehicle |-> v] :
      b \in [Station -> 0..Capacity], base \in [Station -> 0..Capacity],
      d \in Surge, v \in 1..MaxVehicle}

Init ==
  /\ task \in Task
  /\ problem \in Problems
  /\ bikes = problem.bikes
  /\ moved = NoMove
  /\ left \in IF task = "allocate" THEN 0..MaxExtra ELSE {problem.vehicle}
  /\ status = "solving"

-----------------------------------------------------------------------------
(* greedy_plan                                                             *)

GreedyMove(e) ==
  LET q == Quantity(problem, bikes, left, e)
  IN  /\ task = "greedy" /\ status = "solving"
      /\ left > 0 /\ Best(problem, bikes, e)
      /\ bikes' = Carry(bikes, e, q)
      /\ moved' = [moved EXCEPT ![e] = @ + q]
      /\ left' = left - q
      /\ UNCHANGED <<task, problem, status>>

GreedyStop ==
  /\ task = "greedy" /\ status = "solving"
  /\ left = 0 \/ ~ \E e \in Pair : Candidate(problem, bikes, e)
  /\ status' = "solved"
  /\ UNCHANGED <<task, problem, bikes, moved, left>>

-----------------------------------------------------------------------------
(* milp_plan and enumerate_plans                                           *)

(* A plan is answered whole.                                               *)
Answer(x) ==
  /\ moved' = x
  /\ bikes' = FinalInventory(problem, x)
  /\ left' = problem.vehicle - TotalMoved(x)
  /\ status' = "solved"
  /\ UNCHANGED <<task, problem>>

Milp ==
  /\ task = "milp" /\ status = "solving"
  /\ \E x \in MilpPlans(problem) : Answer(x)

(* Mutant of EdgeCap: range(cap) where range(cap + 1) is meant.            *)
EdgeCapShort(p, e) ==
  PositivePart(Least(p.vehicle, Least(Surplus(p, e[1]), Deficit(p, e[2]))) - 1)

(* _candidate_edges: the most a surplus -> deficit edge may carry; other   *)
(* pairs carry nothing.                                                    *)
EdgeCap(p, e) == Least(p.vehicle, Least(Surplus(p, e[1]), Deficit(p, e[2])))

(* _combination_count                                                      *)
Combinations(p) ==
  MapThenFoldSet(LAMBDA a, b : a * b, 1, LAMBDA e : EdgeCap(p, e) + 1,
                 LAMBDA S : CHOOSE e \in S : TRUE, Pair)

(* enumerate_plans: the cheapest feasible plan on those edges.             *)
ExactPlans(p) ==
  LET feasible == {x \in Flow : /\ \A e \in Pair : x[e] <= EdgeCap(p, e)
                                /\ Feasible(p, x)}
      least == Min({PlanCost(p, x) : x \in feasible})
  IN  {x \in feasible : PlanCost(p, x) = least}

(* The solver reports no success: milp_plan degrades to the enumeration,   *)
(* which refuses a space it would take too long to search.                 *)
MilpFails ==
  /\ task = "milp" /\ status = "solving"
  /\ IF Combinations(problem) > MaxCombinations
     THEN status' = "refused" /\ UNCHANGED <<task, problem, bikes, moved, left>>
     ELSE \E x \in ExactPlans(problem) : Answer(x)

-----------------------------------------------------------------------------
(* build_qubo and qubo_plan                                                *)

(* Mutant of BinaryWeights: powers of two alone overshoot the bound.       *)
PureBinaryWeights(upper) ==
  IF upper = 0 THEN <<>> ELSE IF upper = 1 THEN <<1>> ELSE <<1, 2>>

(* bounded_binary_weights: 1, 2, 4, ... and what is left of upper.         *)
BinaryWeights(upper) ==
  LET from[remaining \in 0..upper] ==
        [power \in Nat \ {0} |->
           IF remaining = 0 THEN <<>>
           ELSE <<Least(power, remaining)>>
                  \o from[remaining - Least(power, remaining)][2 * power]]
  IN  from[upper][1]

(* The binary variables: the bits of every candidate edge.                 *)
BitOf(p) ==
  UNION {{<<e, k>> : k \in 1..Len(BinaryWeights(EdgeCap(p, e)))} : e \in Pair}

WeightOf(p, v) == BinaryWeights(EdgeCap(p, v[1]))[v[2]]

(* The coefficient of a bit in station s's final inventory.                *)
Coefficient(p, v, s) ==
  IF v[1][1] = s THEN -WeightOf(p, v) ELSE IF v[1][2] = s THEN WeightOf(p, v) ELSE 0

(* The order in which the bits are numbered: edge by edge.                 *)
BitBefore(v, w) == Before(v[1], w[1]) \/ (v[1] = w[1] /\ v[2] < w[2])

(* The pairs of bits that are set.                                         *)
BitPairs(set) == {vw \in set \X set : BitBefore(vw[1], vw[2])}

Excess(p, s) == p.bikes[s] - p.target[s]

(* The coefficients of build_qubo: one bit, and two bits together.         *)
Linear(p, v) ==
  DistanceCost * (Distance[v[1]] * WeightOf(p, v))
    + ImbalanceWeight * SumFunctionOnSet(
        [s \in Station |-> 2 * Excess(p, s) * Coefficient(p, v, s)
                           + Coefficient(p, v, s) * Coefficient(p, v, s)], Station)

Quadratic(p, v, w) ==
  ImbalanceWeight * SumFunctionOnSet(
    [s \in Station |-> 2 * Coefficient(p, v, s) * Coefficient(p, w, s)], Station)

(* QuboProblem.energy for the bits that are set.                           *)
Energy(p, set) ==
  ImbalanceWeight * SumFunctionOnSet([s \in Station |-> Excess(p, s) * Excess(p, s)], Station)
    + SumFunctionOnSet([v \in set |-> Linear(p, v)], set)
    + SumFunctionOnSet([vw \in BitPairs(set) |-> Quadratic(p, vw[1], vw[2])], BitPairs(set))

(* decode_quantities                                                       *)
Decode(p, set) ==
  [e \in Pair |-> SumFunctionOnSet([v \in set |-> WeightOf(p, v)], {v \in set : v[1] = e})]

(* surrogate_energy: squared distance from the targets, and the way driven *)
Surrogate(p, x) ==
  ImbalanceWeight * SumFunctionOnSet(
      [s \in Station |-> (FinalInventory(p, x)[s] - p.target[s])
                         * (FinalInventory(p, x)[s] - p.target[s])], Station)
    + DistanceCost * SumFunctionOnSet([e \in Pair |-> Distance[e] * x[e]], Pair)

(* enumerate_surrogate_optimum searches the boxes of the encoding.         *)
Box(p) == {x \in [Pair -> 0..MaxVehicle] : \A e \in Pair : x[e] <= EdgeCap(p, e)}

(* qubo_plan: brute force over the bits, decoded.  Research only: the plan *)
(* is reported with its feasibility, and never operated.                   *)
SolveQubo ==
  /\ task = "qubo" /\ status = "solving"
  /\ LET least == Min({Energy(problem, S) : S \in SUBSET BitOf(problem)})
     IN  \E S \in SUBSET BitOf(problem) :
           Energy(problem, S) = least /\ Answer(Decode(problem, S))

-----------------------------------------------------------------------------
(* allocate_extra_bikes                                                    *)

(* Mutant of Needy: any station with a free dock.                          *)
AnyRoom(s) == bikes[s] < problem.capacity[s]

(* Below its target, with a free dock.                                     *)
Needy(s) == bikes[s] < problem.target[s] /\ bikes[s] < problem.capacity[s]

(* The largest deficit, the smaller station id on a tie.                   *)
Worst(s) ==
  /\ Needy(s)
  /\ \A r \in Station : Needy(r) =>
       \/ problem.target[r] - bikes[r] < problem.target[s] - bikes[s]
       \/ problem.target[r] - bikes[r] = problem.target[s] - bikes[s] /\ s <= r

Place(s) ==
  /\ task = "allocate" /\ status = "solving"
  /\ left > 0 /\ Worst(s)
  /\ bikes' = [bikes EXCEPT ![s] = @ + 1]
  /\ left' = left - 1
  /\ UNCHANGED <<task, problem, moved, status>>

(* Nothing left to place, or nowhere to place it: the depot keeps it.      *)
HoldBack ==
  /\ task = "allocate" /\ status = "solving"
  /\ left = 0 \/ ~ \E s \in Station : Needy(s)
  /\ status' = "solved"
  /\ UNCHANGED <<task, problem, bikes, moved, left>>

-----------------------------------------------------------------------------
Next ==
  \/ \E e \in Pair : GreedyMove(e)
  \/ GreedyStop
  \/ Milp
  \/ MilpFails
  \/ SolveQubo
  \/ \E s \in Station : Place(s)
  \/ HoldBack

Spec == Init /\ [][Next]_vars

-----------------------------------------------------------------------------
(* Properties                                                              *)

(* The working copy stays an inventory, and the loop's counter a natural.  *)
TypeOK ==
  /\ task \in Task
  /\ problem \in ProblemsWithin(Capacity)
  /\ bikes \in [Station -> Int]
  /\ moved \in [Pair -> Nat]
  /\ left \in Int
  /\ status \in {"solving", "solved", "refused"}

(* Station s holds a number of bikes between what it had and its target.   *)
TowardTarget(s) ==
  \/ problem.bikes[s] <= bikes[s] /\ bikes[s] <= problem.target[s]
  \/ problem.target[s] <= bikes[s] /\ bikes[s] <= problem.bikes[s]

(* No iteration of greedy_plan or of the allocation takes a station away   *)
(* from its target or past it: every prefix of their work can be carried   *)
(* out, whatever the order of the pairs.                                   *)
LoopsMoveToTarget ==
  task \in {"greedy", "allocate"} => left >= 0 /\ \A s \in Station : TowardTarget(s)

(* enumeration.py: an optimal plan never drains an origin below its target *)
(* nor pushes a destination above it, so leaving the other edges out       *)
(* preserves the optimum.  Whichever solver answered, the MILP over all    *)
(* pairs or the enumeration it degrades to, the plan costs the same.       *)
OptimumKept ==
  task = "milp" /\ status = "solved" =>
    /\ \A s \in Station : TowardTarget(s)
    /\ \A x \in MilpPlans(problem) : PlanCost(problem, x) = PlanCost(problem, moved)

(* A plan for operation passes check_feasibility while it is built and     *)
(* when it is answered, on a request and on the floored inventory of a     *)
(* simulation, so no period is rejected (test_v2_mpc); and the inventory   *)
(* the solver worked with is the one the plan leads to: merging moves of a *)
(* pair loses nothing.                                                     *)
PlansCarriedOut ==
  task \in {"greedy", "milp"} =>
    /\ Feasible(problem, moved)
    /\ bikes = FinalInventory(problem, moved)

(* greedy.py: never worse than doing nothing.  Each iteration lowers the   *)
(* cost of the plan, distance included.                                    *)
EachMovePays ==
  [][task = "greedy" /\ status = "solving" /\ moved' # moved =>
       PlanCost(problem, moved') < PlanCost(problem, moved)]_vars

(* allocation.py: placing one bike at a time where the benefit is largest  *)
(* is globally optimal.  It is after every bike, not only at the end, and  *)
(* the bikes held back would not have helped.                              *)
AllocationOptimal ==
  task = "allocate" =>
    LET placed == SumFunctionOnSet([s \in Station |-> bikes[s] - problem.bikes[s]], Station)
        room == IF status = "solved" THEN placed + left ELSE placed
    IN  \A b \in [Station -> 0..Capacity] :
          /\ \A s \in Station : problem.bikes[s] <= b[s]
          /\ SumFunctionOnSet([s \in Station |-> b[s] - problem.bikes[s]], Station) <= room
          => ImbalanceCost(problem, bikes) <= ImbalanceCost(problem, b)

(* qubo.py: the encoding reaches every quantity in its box and no other,   *)
(* and the energy of the bits is the surrogate energy of what they decode  *)
(* to, so the decoded plan is an optimum of the surrogate.                 *)
EncodingExact ==
  task = "qubo" =>
    /\ {Decode(problem, S) : S \in SUBSET BitOf(problem)} = Box(problem)
    /\ \A S \in SUBSET BitOf(problem) :
         Energy(problem, S) = Surrogate(problem, Decode(problem, S))
    /\ status = "solved" =>
         \A x \in Box(problem) : Surrogate(problem, moved) <= Surrogate(problem, x)
=============================================================================
