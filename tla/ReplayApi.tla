------------------------------ MODULE ReplayApi ------------------------------
(***************************************************************************)
(* The replay engine and the HTTP endpoints that share it                  *)
(* (src/services/api/replay.py, app.py, v2.py).  FastAPI runs the          *)
(* synchronous handlers and the get_engine dependency in a thread pool, so *)
(* requests interleave between any two reads of the engine's cutoff.       *)
(*                                                                         *)
(* Events, forecasts, explanations and problems are functions of the       *)
(* cutoff they are computed at, and that cutoff stands for them: a part of *)
(* a response is the cutoff it was computed at.                            *)
(***************************************************************************)
EXTENDS Integers, Sequences, FiniteSets

CONSTANTS
  Cutoff,       \* the cutoffs clients ask for
  Window,       \* those inside [DEMO_START, DEMO_END]
  Default,      \* DEFAULT_CUTOFF
  NoCutoff,     \* an absent cutoff
  MaxRequests   \* bound: requests sent

ASSUME WindowAssumption ==
  /\ Window \subseteq Cutoff /\ Default \in Window /\ NoCutoff \notin Cutoff
  /\ MaxRequests \in Nat

VARIABLES
  cutoffs,   \* the cutoff of every engine built
  current,   \* replay._engine, as an index; 0 while None
  sent,      \* requests sent so far
  req        \* the requests, by their number (`held`, `after`: history)

serverVars == <<cutoffs, current, sent, req>>

Request == 1..MaxRequests

Endpoint == {"health", "state", "set", "events", "forecasts", "explanation",
             "scenarios", "solve", "search", "hybrid", "rider", "ops", "trip",
             "statistics", "pricing", "revenue", "allocate"}

(* The parts of responses that are computed as of a cutoff.                *)
Part == {"label", "count", "data", "rows", "drivers"}

(* A handler's script: the parts each of its reads of engine.cutoff feeds, *)
(* in order.  Some label the response with the cutoff they computed it at, *)
(* others read the engine again for the label.                             *)
Labelled == <<{"data", "label"}>>

Relabelled == <<{"data"}, {"label"}>>

(* v1                                                                      *)
Health == <<{"label"}>>
ReplayState == <<{"label"}, {"count"}>>
Events == Relabelled
Forecasts == <<{"data"}, {"label"}, {"rows"}>>  \* rows: of one of them
Explanation == <<{"data"}, {"drivers"}, {"label"}>>
Scenarios == Labelled
RebalancingSolve == Labelled

(* v2                                                                      *)
StationSearch == Relabelled
HybridSearch == Relabelled
RiderAsk == Relabelled
OpsCopilot == Relabelled
PlanTrip == Labelled
OperatorStatistics == Labelled
PricingQuotes == Labelled
RevenueProjection == Labelled
AllocateExtraBikes == Relabelled

Script(endpoint) ==
  CASE endpoint = "health"      -> Health
    [] endpoint = "state"       -> ReplayState
    [] endpoint = "set"         -> ReplayState
    [] endpoint = "events"      -> Events
    [] endpoint = "forecasts"   -> Forecasts
    [] endpoint = "explanation" -> Explanation
    [] endpoint = "scenarios"   -> Scenarios
    [] endpoint = "solve"       -> RebalancingSolve
    [] endpoint = "search"      -> StationSearch
    [] endpoint = "hybrid"      -> HybridSearch
    [] endpoint = "rider"       -> RiderAsk
    [] endpoint = "ops"         -> OpsCopilot
    [] endpoint = "trip"        -> PlanTrip
    [] endpoint = "statistics"  -> OperatorStatistics
    [] endpoint = "pricing"     -> PricingQuotes
    [] endpoint = "revenue"     -> RevenueProjection
    [] endpoint = "allocate"    -> AllocateExtraBikes

(* Endpoints whose body names the cutoff to use instead, and those that    *)
(* check it against the window.                                            *)
TakesCutoff == {"set", "solve", "scenarios", "revenue", "allocate"}

ChecksWindow == {"set", "solve", "allocate"}

Blank == [p \in Part |-> NoCutoff]

(* steps: free -> engine (-> build -> return) -> write -> read ... -> done *)
Free == [step |-> "free", endpoint |-> "state", body |-> NoCutoff, engine |-> 0,
         reads |-> 0, answer |-> Blank, held |-> {}, after |-> {}]

Init ==
  /\ cutoffs = <<>> /\ current = 0 /\ sent = 0
  /\ req = [r \in Request |-> Free]

(* A cutoff outside the window is answered 400, before anything is done.   *)
Refused(r) ==
  /\ req[r].endpoint \in ChecksWindow
  /\ req[r].body # NoCutoff /\ req[r].body \notin Window

(* The changes of the cutoff that were answered.                           *)
Writes == {r \in Request : req[r].endpoint = "set" /\ req[r].step = "done" /\ ~Refused(r)}

(* A client sends the next request; a change comes after those answered.   *)
Send(endpoint, body) ==
  /\ sent < MaxRequests
  /\ endpoint \notin TakesCutoff => body = NoCutoff
  /\ endpoint = "set" => body # NoCutoff
  /\ sent' = sent + 1
  /\ req' = [req EXCEPT ![sent + 1] =
               [Free EXCEPT !.step = "engine", !.endpoint = endpoint, !.body = body,
                            !.after = IF endpoint = "set" THEN Writes ELSE {}]]
  /\ UNCHANGED <<cutoffs, current>>

(* The request runs with engine e; from here on it keeps what e held.      *)
Bound(r, e) ==
  [req[r] EXCEPT !.engine = e, !.held = {cutoffs[e]},
                 !.step = IF req[r].endpoint = "set" THEN "write" ELSE "read"]

(* get_engine: `if _engine is None`                                        *)
GetEngine(r) ==
  /\ req[r].step = "engine"
  /\ req' = [req EXCEPT ![r] = IF current = 0 THEN [@ EXCEPT !.step = "build"]
                               ELSE Bound(r, current)]
  /\ UNCHANGED <<cutoffs, current, sent>>

(* `_engine = ReplayEngine()`: no lock, so another request may have built  *)
(* one meanwhile; the later assignment stays.                              *)
BuildEngine(r) ==
  /\ req[r].step = "build"
  /\ cutoffs' = Append(cutoffs, Default)
  /\ current' = Len(cutoffs) + 1
  /\ req' = [req EXCEPT ![r].step = "return"]
  /\ UNCHANGED sent

(* `return _engine` reads the global again.                                *)
ReturnEngine(r) ==
  /\ req[r].step = "return"
  /\ req' = [req EXCEPT ![r] = Bound(r, current)]
  /\ UNCHANGED <<cutoffs, current, sent>>

Refuse(r) ==
  /\ req[r].step \in {"write", "read"} /\ req[r].reads = 0 /\ Refused(r)
  /\ req' = [req EXCEPT ![r].step = "done"]
  /\ UNCHANGED <<cutoffs, current, sent>>

(* Mutant of SetCutoff: a change after the first one is answered, and the  *)
(* engine left as it was.                                                  *)
SetCutoffOnce(r) ==
  /\ req[r].step = "write" /\ ~Refused(r)
  /\ cutoffs' = [cutoffs EXCEPT ![req[r].engine] = IF @ = Default THEN req[r].body ELSE @]
  /\ req' = [s \in Request |->
               IF req[s].engine = req[r].engine /\ req[s].step # "done"
               THEN [req[s] EXCEPT !.step = IF s = r THEN "read" ELSE @,
                                   !.held = @ \union {req[r].body}]
               ELSE req[s]]
  /\ UNCHANGED <<current, sent>>

(* ReplayEngine.set_cutoff, on the engine the request was given.  Every    *)
(* request bound to that engine has now seen it hold one cutoff more.      *)
SetCutoff(r) ==
  /\ req[r].step = "write" /\ ~Refused(r)
  /\ cutoffs' = [cutoffs EXCEPT ![req[r].engine] = req[r].body]
  /\ req' = [s \in Request |->
               IF s = r THEN [req[r] EXCEPT !.step = "read", !.held = @ \union {req[r].body}]
               ELSE IF req[s].engine = req[r].engine /\ req[s].step # "done"
               THEN [req[s] EXCEPT !.held = @ \union {req[r].body}]
               ELSE req[s]]
  /\ UNCHANGED <<current, sent>>

(* Mutant of CutoffOf: the default where the body names none.              *)
CutoffOfDefault(r) ==
  IF req[r].reads = 0 /\ req[r].endpoint \in TakesCutoff \ {"set"}
  THEN IF req[r].body # NoCutoff THEN req[r].body ELSE Default
  ELSE cutoffs[req[r].engine]

(* `body.cutoff or engine.cutoff` in the first read, engine.cutoff in all  *)
(* others.                                                                 *)
CutoffOf(r) ==
  IF req[r].reads = 0 /\ req[r].endpoint \in TakesCutoff \ {"set"} /\ req[r].body # NoCutoff
  THEN req[r].body ELSE cutoffs[req[r].engine]

(* The next read, and the parts computed from it.  The last one answers.   *)
Read(r) ==
  /\ req[r].step = "read" /\ ~(req[r].reads = 0 /\ Refused(r))
  /\ LET script == Script(req[r].endpoint)
         n == req[r].reads + 1
     IN  req' = [req EXCEPT ![r] =
           [@ EXCEPT !.reads = n,
                     !.step = IF n = Len(script) THEN "done" ELSE "read",
                     !.answer = [p \in Part |-> IF p \in script[n] THEN CutoffOf(r)
                                                ELSE req[r].answer[p]]]]
  /\ UNCHANGED <<cutoffs, current, sent>>

Serve(r) ==
  \/ GetEngine(r)
  \/ BuildEngine(r)
  \/ ReturnEngine(r)
  \/ Refuse(r)
  \/ SetCutoff(r)
  \/ Read(r)

Next ==
  \/ \E endpoint \in Endpoint, body \in Cutoff \union {NoCutoff} : Send(endpoint, body)
  \/ \E r \in Request : Serve(r)

Spec == Init /\ [][Next]_serverVars

-----------------------------------------------------------------------------
(* Properties                                                              *)

RequestRecord ==
  [step : {"free", "engine", "build", "return", "write", "read", "done"},
   endpoint : Endpoint, body : Cutoff \union {NoCutoff}, engine : Nat,
   reads : Nat, answer : [Part -> Cutoff \union {NoCutoff}], held : SUBSET Cutoff,
   after : SUBSET Request]

(* Every engine stands inside the window, and a request that is being      *)
(* handled has one of the engines that were built.                         *)
TypeOK ==
  /\ cutoffs \in Seq(Window)
  /\ current \in 0..Len(cutoffs)
  /\ sent \in 0..MaxRequests
  /\ req \in [Request -> RequestRecord]
  /\ \A r \in Request : req[r].step \in {"write", "read"} => req[r].engine \in 1..Len(cutoffs)

(* No part of a response is older than the request: each is as of the      *)
(* cutoff the body names, or one the engine held while the request was     *)
(* handled.  So where the body names none, a response whose parts disagree *)
(* was crossed by a change of the cutoff.                                  *)
AsOfTheRequest ==
  \A r \in Request : \A p \in Part :
    req[r].answer[p] # NoCutoff => req[r].answer[p] \in req[r].held \union {req[r].body}

(* README: events, forecasts, explanations and statistics are all computed *)
(* at the same cutoff; app.py: every response carries its cutoff.  So the  *)
(* parts of one answer agree.                                              *)
OneCutoff ==
  \A r \in Request : req[r].step = "done" =>
    Cardinality({req[r].answer[p] : p \in Part} \ {NoCutoff}) <= 1

(* The changes engine e was given: those that are through set_cutoff.      *)
Given(e) ==
  {r \in Request : req[r].endpoint = "set" /\ ~Refused(r)
                     /\ req[r].step \in {"read", "done"} /\ req[r].engine = e}

(* An engine keeps the last change of the cutoff that was answered: what   *)
(* it holds is that change or one that overlapped it or came later, never  *)
(* one that was answered before an answered change was sent.  The engine   *)
(* itself may be replaced, by a first request that overlapped another      *)
(* first request, and what it holds is then lost to the requests after.    *)
AcknowledgedSetHolds ==
  \A e \in DOMAIN cutoffs :
    LET answered == {r \in Writes : req[r].engine = e}
    IN  answered # {} =>
          \E w \in Given(e) :
            cutoffs[e] = req[w].body /\ \A r \in answered : w \notin req[r].after
=============================================================================
