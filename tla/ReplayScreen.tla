----------------------------- MODULE ReplayScreen ----------------------------
(***************************************************************************)
(* A browser tab in front of the replay API: the provider of the replay    *)
(* state (src/apps/web/app/providers.tsx), the replay control, and one     *)
(* panel that shows data as of the cutoff.  A "guarded" panel fetches with *)
(* lib/useApi.ts, which drops the answers of earlier fetches; a "direct"   *)
(* one applies whatever answer arrives, as the allocation planner, the     *)
(* scenario lab and the control tower do.                                  *)
(*                                                                         *)
(* Other clients share the server with it, and the one engine; without a   *)
(* tab they send requests of every kind.                                   *)
(***************************************************************************)
EXTENDS ReplayApi

CONSTANTS
  MaxForeign,   \* bound: requests of other clients without a tab
  MaxMishaps,   \* bound: answers lost to a tab, and requests of others beside it
  MaxOverlap    \* bound: requests under way at once

VARIABLES
  panel,      \* "guarded" or "direct"; "none" when no tab is open
  clock,      \* state.cutoff of the provider
  pending,    \* requests of the tab without an answer
  live,       \* the request of the panel's last effect: its `alive` is true
  shown,      \* the request whose answer the panel shows; 0 for none
  losses,     \* answers lost
  foreign,    \* requests of other clients
  disturbed   \* since the tab loaded or last changed the cutoff: an answer
              \* was lost, or another change overlapped or followed (history)

ownVars == <<panel, clock, pending, live, shown, losses>>

tabVars == <<ownVars, foreign, disturbed>>

vars == <<serverVars, tabVars>>

ScreenInit ==
  /\ Init
  /\ panel \in {"guarded", "direct", "none"}
  /\ clock = NoCutoff /\ pending = {} /\ live = 0 /\ shown = 0
  /\ losses = 0 /\ foreign = 0 /\ disturbed = FALSE

Answered(r) == req[r].step = "done"

Sets == {r \in pending : req[r].endpoint = "set"}

(* Changes of the cutoff, of any client, that the server has not answered. *)
UnderWay ==
  {r \in 1..sent : req[r].endpoint = "set" /\ req[r].body \in Window /\ ~Answered(r)}

Building == {r \in 1..sent : req[r].step = "build"}

(* What the tab asks next does not overlap a change or a first request.    *)
Quiet == Sets = {} /\ UnderWay = {} /\ Building = {}

(* The bound on what is under way at once.                                 *)
Room == Cardinality({r \in 1..sent : ~Answered(r)}) < MaxOverlap

Arrived(r) == r \in pending /\ Answered(r)

(* ReplayProvider's load, before the replay control is there.              *)
Load ==
  /\ panel # "none" /\ Room /\ sent = foreign
  /\ Send("state", NoCutoff)
  /\ pending' = {sent + 1}
  /\ disturbed' = ~Quiet
  /\ UNCHANGED <<panel, clock, live, shown, losses, foreign>>

(* The panel's effect.  A guarded panel reads whatever the engine is at;   *)
(* a direct one names the cutoff of the provider.                          *)
Fetch(known) ==
  IF panel = "guarded" THEN Send("events", NoCutoff) ELSE Send("allocate", known)

(* The effect of the first render with what it depends on.                 *)
Mount ==
  /\ panel # "none" /\ Room /\ sent > foreign /\ live = 0
  /\ panel = "direct" => clock # NoCutoff
  /\ Fetch(clock)
  /\ pending' = pending \union {sent + 1}
  /\ live' = sent + 1
  /\ UNCHANGED <<panel, clock, shown, losses, foreign, disturbed>>

(* setCutoff: the replay control sends one request for every step of the   *)
(* slider, and waits for none.                                             *)
Slide(c) ==
  /\ panel # "none" /\ Room /\ clock # NoCutoff /\ live # 0
  /\ Send("set", c)
  /\ pending' = pending \union {sent + 1}
  /\ disturbed' = ~Quiet
  /\ UNCHANGED <<panel, clock, live, shown, losses, foreign>>

(* The answer to load().                                                   *)
TakeState(r) ==
  /\ Arrived(r) /\ req[r].endpoint = "state"
  /\ clock' = req[r].answer["label"]
  /\ pending' = pending \ {r}
  /\ UNCHANGED <<serverVars, panel, live, shown, losses, foreign, disturbed>>

(* Mutant of TakeSet: the refresh key is not advanced.                     *)
TakeSetNoRefresh(r) ==
  /\ Arrived(r) /\ req[r].endpoint = "set" /\ ~Refused(r)
  /\ clock' = req[r].answer["label"]
  /\ pending' = pending \ {r}
  /\ UNCHANGED <<serverVars, panel, live, shown, losses, foreign, disturbed>>

(* The answer to set-cutoff: state and refresh key change, and the panel's *)
(* effect runs again.                                                      *)
TakeSet(r) ==
  /\ Room
  /\ Arrived(r) /\ req[r].endpoint = "set" /\ ~Refused(r)
  /\ clock' = req[r].answer["label"]
  /\ Fetch(req[r].answer["label"])
  /\ pending' = (pending \ {r}) \union {sent + 1}
  /\ live' = sent + 1
  /\ UNCHANGED <<panel, shown, losses, foreign, disturbed>>

(* Mutant of Applies: no alive flag.                                       *)
AppliesAlways(r) == TRUE

(* `if (alive)` of useApi; a direct panel has no such flag.                *)
Applies(r) == panel = "direct" \/ r = live

TakeFetch(r) ==
  /\ Arrived(r) /\ req[r].endpoint \in {"events", "allocate"} /\ ~Refused(r)
  /\ shown' = IF Applies(r) THEN r ELSE shown
  /\ pending' = pending \ {r}
  /\ UNCHANGED <<serverVars, panel, clock, live, losses, foreign, disturbed>>

(* A refusal, or an answer that never arrives: the error is shown and the  *)
(* screen keeps what it had, whatever the server has done.                 *)
TakeError(r) ==
  /\ Arrived(r)
  /\ \/ Refused(r) /\ UNCHANGED losses /\ UNCHANGED disturbed
     \/ losses + foreign < MaxMishaps /\ losses' = losses + 1 /\ disturbed' = TRUE
  /\ pending' = pending \ {r}
  /\ UNCHANGED <<serverVars, panel, clock, live, shown, foreign>>

(* Another client's request.  A tab can only notice what others write or   *)
(* build: beside one they are given set-cutoff, which may do both, or only *)
(* build when its cutoff is outside the window.                            *)
Foreign(endpoint, body) ==
  /\ IF panel = "none" THEN foreign < MaxForeign
     ELSE endpoint = "set" /\ losses + foreign < MaxMishaps
  /\ Room
  /\ Send(endpoint, body)
  /\ foreign' = foreign + 1
  /\ disturbed' = (disturbed \/ (endpoint = "set" /\ body \in Window))
  /\ UNCHANGED ownVars

ScreenNext ==
  \/ \E r \in Request : Serve(r) /\ UNCHANGED tabVars
  \/ \E endpoint \in Endpoint, body \in Cutoff \union {NoCutoff} : Foreign(endpoint, body)
  \/ Load
  \/ Mount
  \/ \E c \in Window : Slide(c)
  \/ \E r \in Request :
       TakeState(r) \/ TakeSet(r) \/ TakeFetch(r) \/ TakeError(r)

ScreenSpec == ScreenInit /\ [][ScreenNext]_vars

-----------------------------------------------------------------------------
(* Properties                                                              *)

(* useApi.ts: an answer that was overtaken is dropped.  The guarded panel  *)
(* never goes back to an older fetch, in whatever order answers arrive.    *)
NeverOvertaken == [][panel = "guarded" => shown <= shown']_vars

(* A screen at rest shows the server: once every request of the tab was    *)
(* answered, the clock, the guarded panel and the engine agree, if since   *)
(* the tab was loaded or its last change was sent no answer was lost, no   *)
(* other change was under way or followed, of this tab or of another       *)
(* client, and no first request was building an engine.  Each of the three *)
(* can part them, and nothing tells the tab; its next change that is alone *)
(* brings them together again.                                             *)
SettledScreen ==
  pending = {} /\ ~disturbed /\ clock # NoCutoff =>
    /\ clock = cutoffs[current]
    /\ panel = "guarded" /\ live # 0 =>
         shown = live /\ {req[shown].answer[p] : p \in {"data", "label"}} = {clock}
=============================================================================
