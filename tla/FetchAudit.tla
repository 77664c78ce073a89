------------------------------ MODULE FetchAudit ------------------------------
(***************************************************************************)
(* What the GBFS ingestion promises its readers (supabase/README.md and    *)
(* the fetch audit of migration 01), without calls, responses or time: a   *)
(* request is logged, and later, in one step and once, it gets its         *)
(* outcome.  GbfsIngest is shown to implement it.                          *)
(***************************************************************************)
EXTENDS Naturals, Sequences

CONSTANT Feed

VARIABLES
  outcome,   \* by request: its feed, state and publication
  stored     \* the publications of station_status found in the tables

auditVars == <<outcome, stored>>

Publication(o) == <<o.feed, o.published>>

Ingested(o) == o.state = "ingested" /\ o.published # 0

Init == outcome = <<>> /\ stored = {}

Ask(feed) ==
  /\ outcome' = Append(outcome, [feed |-> feed, state |-> "pending", published |-> 0])
  /\ UNCHANGED stored

(* A set of pending requests gets its outcomes: a publication is ingested  *)
(* by one request, a duplicate is one of a publication that is ingested,   *)
(* and only what a request ingests is stored.                              *)
Settle ==
  /\ DOMAIN outcome' = DOMAIN outcome
  /\ \A i \in DOMAIN outcome :
       \/ outcome'[i] = outcome[i]
       \/ /\ outcome[i].state = "pending"
          /\ outcome'[i].feed = outcome[i].feed
          /\ outcome'[i].state \in {"ingested", "duplicate", "failed"}
  /\ \A i, j \in DOMAIN outcome :
       /\ Ingested(outcome'[i]) /\ Ingested(outcome'[j])
       /\ Publication(outcome'[i]) = Publication(outcome'[j])
       => i = j
  /\ \A i \in DOMAIN outcome :
       outcome'[i].state = "duplicate"
         => \E j \in DOMAIN outcome :
              /\ Ingested(outcome'[j])
              /\ Publication(outcome'[j]) = Publication(outcome'[i])
  /\ stored \subseteq stored'
  /\ \A u \in stored' \ stored : \E i \in DOMAIN outcome :
       /\ outcome[i].state = "pending"
       /\ Ingested(outcome'[i])
       /\ Publication(outcome'[i]) = <<"station_status", u>>

Next == (\E feed \in Feed : Ask(feed)) \/ Settle

Spec == Init /\ [][Next]_auditVars
=============================================================================
