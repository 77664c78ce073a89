-------------------------- MODULE ReplayScreenProofs --------------------------
(***************************************************************************)
(* The replay API behind a tab is the replay API: every step of the        *)
(* composed system is a step of ReplayApi or leaves it alone.  First its   *)
(* safety, then the order of the panel's answers, then that a screen whose *)
(* last change of the cutoff was alone settles at the engine's cutoff.     *)
(***************************************************************************)
EXTENDS ReplayScreen, TLAPS

(* What a handler relies on between its steps: requests not sent are free, *)
(* a set-cutoff names a cutoff, only it writes, nothing is read before an  *)
(* engine is there, and whoever runs is bound to one whose cutoff it has   *)
(* seen.                                                                   *)
Handling ==
  /\ \A r \in Request : r > sent => req[r] = Free
  /\ \A r \in Request : req[r].endpoint = "set" => req[r].body # NoCutoff
  /\ \A r \in Request : req[r].step = "write" => req[r].endpoint = "set"
  /\ \A r \in Request : req[r].step = "return" => current # 0
  /\ Len(cutoffs) > 0 => current # 0
  /\ \A r \in Request :
       req[r].step \in {"engine", "build", "return"} => req[r].answer = Blank
  /\ \A r \in Request : req[r].step \in {"write", "read"} =>
       cutoffs[req[r].engine] \in req[r].held

(* The changes of the cutoff that were carried out.                        *)
Written == {r \in Request : /\ req[r].endpoint = "set" /\ ~Refused(r)
                            /\ req[r].step \in {"read", "done"}}

(* Every engine stands where the last of them put it, which is not one     *)
(* that was answered before another of them was sent.                      *)
Last(e) ==
  Given(e) # {} =>
    \E w \in Given(e) :
      cutoffs[e] = req[w].body /\ \A r \in Given(e) : w \notin req[r].after

Kept ==
  /\ \A r \in Written : req[r].engine \in 1..Len(cutoffs)
  /\ \A r \in Request : req[r].after \subseteq Writes
  /\ \A e \in 1..Len(cutoffs) : Last(e)

IInv == TypeOK /\ Handling /\ AsOfTheRequest /\ Kept

-----------------------------------------------------------------------------
(* One request at a time                                                   *)

(* Most steps put a record n in the place of one request r and leave the   *)
(* engines alone.  Fits says what n must be for the invariant to survive.  *)
Carried(n) == /\ n.endpoint = "set" /\ n.step \in {"read", "done"}
              /\ ~(n.endpoint \in ChecksWindow /\ n.body # NoCutoff /\ n.body \notin Window)

Fits(r, n) ==
  /\ n \in RequestRecord
  /\ req[r].step # "done" /\ n.after \subseteq Writes
  /\ n.endpoint = "set" => n.body # NoCutoff
  /\ n.step = "write" => n.endpoint = "set"
  /\ n.step = "return" => current # 0
  /\ n.step \in {"engine", "build", "return"} => n.answer = Blank
  /\ n.step \in {"write", "read"} =>
       n.engine \in 1..Len(cutoffs) /\ cutoffs[n.engine] \in n.held
  /\ \A p \in Part : n.answer[p] # NoCutoff => n.answer[p] \in n.held \union {n.body}
  /\ Carried(n) <=> r \in Written
  /\ r \in Written =>
       n.body = req[r].body /\ n.engine = req[r].engine /\ n.after = req[r].after

(* A step that replaces one request by a record that fits keeps the        *)
(* invariant.                                                              *)
LEMMA OneRequest ==
  ASSUME IInv, NEW r \in Request, NEW n, Fits(r, n),
         req' = [req EXCEPT ![r] = n], UNCHANGED <<cutoffs, current>>,
         sent' \in 0..MaxRequests, sent <= sent', r <= sent'
  PROVE  IInv'
<1> USE WindowAssumption
<1>1. req \in [Request -> RequestRecord] /\ sent \in 0..MaxRequests
  BY DEF IInv, TypeOK
<1>2. /\ req'[r] = n
      /\ \A s \in Request : s # r => req'[s] = req[s]
  BY <1>1
<1>3. TypeOK'
  BY <1>1, <1>2 DEF IInv, TypeOK, Fits
<1>4. Handling'
  <2>1. \A s \in Request : s > sent' => req'[s] = Free
    BY <1>1, <1>2 DEF IInv, Handling, Request
  <2> QED
    BY <2>1, <1>2 DEF IInv, Handling, Fits
<1>5. AsOfTheRequest'
  BY <1>2 DEF IInv, AsOfTheRequest, Fits
<1>6. Written' = Written
  BY <1>2 DEF Written, Refused, Carried, Fits
<1>7. Kept'
  <2>1. Writes \subseteq Writes'
    BY <1>2 DEF Writes, Refused, Fits
  <2>2. \A s \in Request : req'[s].after \subseteq Writes'
    BY <1>2, <2>1 DEF IInv, Kept, Fits
  <2>3. \A s \in Written : /\ req'[s].body = req[s].body /\ req'[s].engine = req[s].engine
                           /\ req'[s].after = req[s].after
    BY <1>2 DEF Fits, Written
  <2>4. \A e : Given(e)' = Given(e) /\ Given(e) \subseteq Written
    BY <1>6, <2>3 DEF Given, Written
  <2>5. ASSUME NEW e \in 1..Len(cutoffs) PROVE Last(e)'
    <3>1. Last(e)
      BY <2>5 DEF IInv, Kept
    <3> QED
      BY <2>3, <2>4, <3>1 DEF Last
  <2>6. \A s \in Written' : req'[s].engine \in 1..Len(cutoffs')
    BY <1>6, <2>3 DEF IInv, Kept
  <2> QED
    BY <2>2, <2>5, <2>6 DEF Kept
<1> QED
  BY <1>3, <1>4, <1>5, <1>7 DEF IInv

(* A client's request is free until it is sent.                            *)
LEMMA SendKeeps ==
  ASSUME IInv, NEW endpoint \in Endpoint, NEW body \in Cutoff \union {NoCutoff},
         Send(endpoint, body)
  PROVE  IInv'
<1> USE WindowAssumption
<1> DEFINE r == sent + 1
           after == IF endpoint = "set" THEN Writes ELSE {}
           n == [Free EXCEPT !.step = "engine", !.endpoint = endpoint, !.body = body,
                             !.after = after]
<1>1. sent \in 0..MaxRequests /\ sent < MaxRequests
  BY DEF IInv, TypeOK, Send
<1>2. r \in Request /\ r > sent
  BY <1>1 DEF Request
<1>3. req[r] = Free
  BY <1>2 DEF IInv, Handling
<1>4. /\ n.step = "engine" /\ n.endpoint = endpoint /\ n.body = body
      /\ n.engine = 0 /\ n.answer = Blank /\ n.after = after
  BY DEF Free
<1>5. n \in RequestRecord
  <2>1. Free \in RequestRecord
    BY DEF Free, RequestRecord, Blank, Endpoint
  <2>2. "engine" \in {"free", "engine", "build", "return", "write", "read", "done"}
    OBVIOUS
  <2>3. after \in SUBSET Request
    BY DEF Writes
  <2> HIDE DEF after
  <2> QED
    BY <2>1, <2>2, <2>3 DEF RequestRecord
<1>6. r \notin Written /\ req[r].step # "done" /\ after \subseteq Writes
  BY <1>3 DEF Written, Free
<1>7. Fits(r, n)
  BY <1>4, <1>5, <1>6 DEF Fits, Carried, Send, Blank
<1>8. req' = [req EXCEPT ![r] = n] /\ sent' = r /\ UNCHANGED <<cutoffs, current>>
  BY DEF Send
<1>9. sent' \in 0..MaxRequests /\ sent <= sent' /\ r <= sent'
  BY <1>1, <1>8
<1> HIDE DEF r, n, after
<1> QED
  BY <1>2, <1>7, <1>8, <1>9, OneRequest

(* A request that is being handled was sent.                               *)
LEMMA Busy ==
  ASSUME IInv, NEW r \in Request, req[r].step # "free"
  PROVE  r <= sent /\ req[r] \in RequestRecord
BY DEF IInv, TypeOK, Handling, Free, Request

(* What Bound makes of a request that has no engine yet fits.              *)
LEMMA BoundFits ==
  ASSUME IInv, NEW r \in Request, NEW e \in 1..Len(cutoffs),
         req[r].step \in {"engine", "return"}
  PROVE  Fits(r, Bound(r, e))
<1> USE WindowAssumption
<1> DEFINE step == IF req[r].endpoint = "set" THEN "write" ELSE "read"
           n == [req[r] EXCEPT !.engine = e, !.held = {cutoffs[e]}, !.step = step]
<1>1. req[r] \in RequestRecord /\ req[r].answer = Blank
  BY DEF IInv, TypeOK, Handling
<1>2. cutoffs[e] \in Window /\ cutoffs[e] \in Cutoff
  BY DEF IInv, TypeOK
<1>3. n \in RequestRecord
  <2>1. step \in {"free", "engine", "build", "return", "write", "read", "done"}
    OBVIOUS
  <2>2. e \in Nat /\ {cutoffs[e]} \in SUBSET Cutoff
    BY <1>2 DEF IInv, TypeOK
  <2> QED
    BY <1>1, <2>1, <2>2 DEF RequestRecord
<1>4. /\ n.step = step /\ n.endpoint = req[r].endpoint /\ n.body = req[r].body
      /\ n.engine = e /\ n.held = {cutoffs[e]} /\ n.answer = Blank
      /\ n.after = req[r].after
  BY <1>1 DEF RequestRecord
<1>5. r \notin Written
  BY DEF Written
<1>6. req[r].endpoint = "set" => req[r].body # NoCutoff
  BY DEF IInv, Handling
<1>7. ~Carried(n)
  BY <1>4 DEF Carried
<1>8. Bound(r, e) = n
  BY DEF Bound
<1> HIDE DEF n
<1>9. req[r].after \subseteq Writes
  BY DEF IInv, Kept
<1> QED
  BY <1>3, <1>4, <1>5, <1>6, <1>7, <1>8, <1>9 DEF Fits, Blank

(* The request finds an engine, or goes on to build one.                   *)
LEMMA GetEngineKeeps ==
  ASSUME IInv, NEW r \in Request, GetEngine(r)
  PROVE  IInv'
<1> DEFINE n == IF current = 0 THEN [req[r] EXCEPT !.step = "build"] ELSE Bound(r, current)
<1>1. req[r].step = "engine" /\ UNCHANGED <<cutoffs, current, sent>>
  BY DEF GetEngine
<1>2. r <= sent /\ req[r] \in RequestRecord
  BY <1>1, Busy
<1>3. req' = [req EXCEPT ![r] = n]
  BY DEF GetEngine
<1>4. Fits(r, n)
  <2>1. CASE current = 0
    <3>1. n = [req[r] EXCEPT !.step = "build"]
      BY <2>1
    <3>2. n \in RequestRecord
      BY <3>1, <1>2 DEF RequestRecord
    <3>3. /\ n.step = "build" /\ n.endpoint = req[r].endpoint /\ n.body = req[r].body
          /\ n.answer = req[r].answer /\ n.after = req[r].after
      BY <3>1, <1>2 DEF RequestRecord
    <3>4. r \notin Written /\ ~Carried(n) /\ req[r].answer = Blank
      BY <1>1, <3>3 DEF Written, Carried, IInv, Handling
    <3> HIDE DEF n
    <3> QED
      BY <1>1, <3>2, <3>3, <3>4 DEF Fits, IInv, Handling, Kept, Blank
  <2>2. CASE current # 0
    BY <1>1, <2>2, BoundFits DEF IInv, TypeOK
  <2> QED
    BY <2>1, <2>2
<1> HIDE DEF n
<1>5. sent' \in 0..MaxRequests /\ sent <= sent' /\ r <= sent'
  BY <1>1, <1>2, WindowAssumption DEF IInv, TypeOK
<1> QED
  BY <1>1, <1>3, <1>4, <1>5, OneRequest

(* The request takes the engine that is there by now.                      *)
LEMMA ReturnEngineKeeps ==
  ASSUME IInv, NEW r \in Request, ReturnEngine(r)
  PROVE  IInv'
<1>1. /\ req[r].step = "return" /\ UNCHANGED <<cutoffs, current, sent>>
      /\ req' = [req EXCEPT ![r] = Bound(r, current)]
  BY DEF ReturnEngine
<1>2. current \in 1..Len(cutoffs)
  BY <1>1 DEF IInv, TypeOK, Handling
<1>3. Fits(r, Bound(r, current))
  BY <1>1, <1>2, BoundFits
<1>4. sent' \in 0..MaxRequests /\ sent <= sent' /\ r <= sent'
  BY <1>1, Busy, WindowAssumption DEF IInv, TypeOK
<1> QED
  BY <1>1, <1>3, <1>4, OneRequest

(* A refused request ends as it is.                                        *)
LEMMA RefuseKeeps ==
  ASSUME IInv, NEW r \in Request, Refuse(r)
  PROVE  IInv'
<1> DEFINE n == [req[r] EXCEPT !.step = "done"]
<1>1. /\ req[r].step \in {"write", "read"} /\ Refused(r)
      /\ UNCHANGED <<cutoffs, current, sent>>
      /\ req' = [req EXCEPT ![r] = n]
  BY DEF Refuse, IInv, TypeOK
<1>2. r <= sent /\ req[r] \in RequestRecord
  BY <1>1, Busy
<1>3. n \in RequestRecord
  BY <1>2 DEF RequestRecord
<1>4. /\ n.step = "done" /\ n.endpoint = req[r].endpoint /\ n.body = req[r].body
      /\ n.answer = req[r].answer /\ n.held = req[r].held /\ n.after = req[r].after
  BY <1>2 DEF RequestRecord
<1>5. r \notin Written /\ ~Carried(n)
  BY <1>1, <1>4 DEF Written, Carried, Refused
<1> HIDE DEF n
<1>6. Fits(r, n)
  BY <1>1, <1>3, <1>4, <1>5 DEF Fits, IInv, Handling, Kept, AsOfTheRequest
<1>7. sent' \in 0..MaxRequests /\ sent <= sent' /\ r <= sent'
  BY <1>1, <1>2, WindowAssumption DEF IInv, TypeOK
<1> QED
  BY <1>1, <1>6, <1>7, OneRequest

(* What a read computes is as of the body's cutoff or of what the engine   *)
(* holds, which the request has seen.                                      *)
LEMMA ReadKeeps ==
  ASSUME IInv, NEW r \in Request, Read(r)
  PROVE  IInv'
<1> USE WindowAssumption
<1> DEFINE k == req[r].reads + 1
           script == Script(req[r].endpoint)
           step == IF k = Len(script) THEN "done" ELSE "read"
           answer == [p \in Part |-> IF p \in script[k] THEN CutoffOf(r)
                                     ELSE req[r].answer[p]]
           n == [req[r] EXCEPT !.reads = k, !.step = step, !.answer = answer]
<1>1. /\ req[r].step = "read" /\ UNCHANGED <<cutoffs, current, sent>>
      /\ req' = [req EXCEPT ![r] = n]
  BY DEF Read, IInv, TypeOK
<1>2. r <= sent /\ req[r] \in RequestRecord
  BY <1>1, Busy
<1>3. /\ req[r].engine \in 1..Len(cutoffs)
      /\ cutoffs[req[r].engine] \in req[r].held /\ cutoffs[req[r].engine] \in Cutoff
  BY <1>1 DEF IInv, TypeOK, Handling
<1>4. /\ CutoffOf(r) \in req[r].held \union {req[r].body}
      /\ CutoffOf(r) \in Cutoff \union {NoCutoff}
  <2>1. req[r].body \in Cutoff \union {NoCutoff}
    BY <1>2 DEF RequestRecord
  <2> QED
    BY <1>3, <2>1 DEF CutoffOf
<1>5. n \in RequestRecord
  <2>1. step \in {"free", "engine", "build", "return", "write", "read", "done"}
    OBVIOUS
  <2>2. answer \in [Part -> Cutoff \union {NoCutoff}]
    BY <1>2, <1>4 DEF RequestRecord
  <2>3. k \in Nat
    BY <1>2 DEF RequestRecord
  <2> HIDE DEF step, answer, k, script
  <2> QED
    BY <1>2, <2>1, <2>2, <2>3 DEF RequestRecord
<1>6. /\ n.step = step /\ n.endpoint = req[r].endpoint /\ n.body = req[r].body
      /\ n.answer = answer /\ n.held = req[r].held /\ n.engine = req[r].engine
      /\ n.after = req[r].after
  <2> HIDE DEF step, answer, k, script
  <2> QED
    BY <1>2 DEF RequestRecord
<1>7. step \in {"done", "read"}
  OBVIOUS
<1>8. Carried(n) <=> r \in Written
  BY <1>1, <1>6, <1>7 DEF Written, Carried, Refused
<1>9. \A p \in Part : answer[p] # NoCutoff =>
        answer[p] \in req[r].held \union {req[r].body}
  BY <1>4 DEF IInv, AsOfTheRequest
<1>10. req[r].endpoint = "set" => req[r].body # NoCutoff
  BY DEF IInv, Handling
<1>13. req[r].after \subseteq Writes /\ req[r].step # "done"
  BY <1>1 DEF IInv, Kept
<1> HIDE DEF n, step, answer, script, k
<1>11. Fits(r, n)
  BY <1>3, <1>5, <1>6, <1>7, <1>8, <1>9, <1>10, <1>13 DEF Fits
<1>12. sent' \in 0..MaxRequests /\ sent <= sent' /\ r <= sent'
  BY <1>1, <1>2 DEF IInv, TypeOK
<1> QED
  BY <1>1, <1>11, <1>12, OneRequest

(* A new engine was given no change, and the others stay as they are.      *)
LEMMA BuildEngineKeeps ==
  ASSUME IInv, NEW r \in Request, BuildEngine(r)
  PROVE  IInv'
<1> USE WindowAssumption
<1> DEFINE n == [req[r] EXCEPT !.step = "return"]
<1>1. /\ req[r].step = "build" /\ sent' = sent
      /\ cutoffs' = Append(cutoffs, Default) /\ current' = Len(cutoffs) + 1
      /\ req' = [req EXCEPT ![r] = n]
  BY DEF BuildEngine, IInv, TypeOK
<1>2. r <= sent /\ req[r] \in RequestRecord
  BY <1>1, Busy
<1>3. n \in RequestRecord
  BY <1>2 DEF RequestRecord
<1>4. /\ n.step = "return" /\ n.endpoint = req[r].endpoint /\ n.body = req[r].body
      /\ n.answer = req[r].answer /\ n.held = req[r].held /\ n.after = req[r].after
  BY <1>2 DEF RequestRecord
<1> HIDE DEF n
<1>5. /\ cutoffs \in Seq(Window) /\ cutoffs' \in Seq(Window)
      /\ Len(cutoffs) \in Nat /\ Len(cutoffs') = Len(cutoffs) + 1
      /\ \A e \in 1..Len(cutoffs) : e \in 1..Len(cutoffs') /\ cutoffs'[e] = cutoffs[e]
  BY <1>1 DEF IInv, TypeOK
<1>6. /\ req \in [Request -> RequestRecord] /\ req'[r] = n
      /\ \A s \in Request : s # r => req'[s] = req[s]
  BY <1>1 DEF IInv, TypeOK
<1>7. TypeOK'
  BY <1>1, <1>3, <1>4, <1>5, <1>6 DEF IInv, TypeOK
<1>8. Handling'
  <2>1. \A s \in Request : s > sent' => req'[s] = Free
    BY <1>1, <1>2, <1>6 DEF IInv, Handling, Request, TypeOK
  <2>2. \A s \in Request : req'[s].step = "return" => current' # 0
    BY <1>1, <1>5
  <2>3. \A s \in Request : req'[s].step \in {"write", "read"} =>
          cutoffs'[req'[s].engine] \in req'[s].held
    BY <1>4, <1>5, <1>6 DEF IInv, TypeOK, Handling
  <2>4. \A s \in Request : req'[s].step \in {"engine", "build", "return"} =>
          req'[s].answer = Blank
    BY <1>1, <1>4, <1>6 DEF IInv, Handling
  <2> QED
    BY <1>4, <1>6, <2>1, <2>2, <2>3, <2>4 DEF IInv, Handling, Blank
<1>9. AsOfTheRequest'
  BY <1>4, <1>6 DEF IInv, AsOfTheRequest
<1>10. Written' = Written
  BY <1>1, <1>4, <1>6 DEF Written, Refused
<1>11. Kept'
  <2>1. \A s \in Written : req'[s] = req[s] /\ req[s].engine \in 1..Len(cutoffs)
    BY <1>1, <1>6 DEF IInv, Kept, Written
  <2>2. \A e : Given(e)' = Given(e) /\ Given(e) \subseteq Written
    BY <1>10, <2>1 DEF Given, Written
  <2>3. Writes \subseteq Writes' /\ \A s \in Request : req'[s].after = req[s].after
    BY <1>1, <1>4, <1>6 DEF Writes, Refused
  <2>4. ASSUME NEW e \in 1..Len(cutoffs') PROVE Last(e)'
    <3>1. CASE e \in 1..Len(cutoffs)
      <4>1. Last(e)
        BY <3>1 DEF IInv, Kept
      <4>2. /\ Given(e)' = Given(e) /\ cutoffs'[e] = cutoffs[e]
            /\ \A s \in Given(e) : req'[s] = req[s]
        BY <1>5, <2>1, <2>2, <3>1
      <4> QED
        BY <4>1, <4>2 DEF Last
    <3>2. CASE e \notin 1..Len(cutoffs)
      <4>1. \A s \in Given(e) : s \in Written /\ req[s].engine = e
        BY DEF Given, Written
      <4>2. Given(e)' = {}
        BY <2>1, <2>2, <3>2, <4>1
      <4> QED
        BY <4>2 DEF Last
    <3> QED
      BY <3>1, <3>2
  <2> QED
    BY <1>5, <1>10, <2>1, <2>3, <2>4 DEF IInv, Kept
<1> QED
  BY <1>7, <1>8, <1>9, <1>11 DEF IInv

(* Every request bound to the engine has seen its new cutoff, which lies   *)
(* in the window since the request was not refused.                        *)
LEMMA SetCutoffKeeps ==
  ASSUME IInv, NEW r \in Request, SetCutoff(r)
  PROVE  IInv'
<1> USE WindowAssumption
<1> DEFINE e == req[r].engine
           c == req[r].body
           n == [req[r] EXCEPT !.step = "read", !.held = @ \union {c}]
           seen(s) == [req[s] EXCEPT !.held = @ \union {c}]
<1>1. /\ req[r].step = "write" /\ ~Refused(r) /\ UNCHANGED <<current, sent>>
      /\ cutoffs' = [cutoffs EXCEPT ![e] = c]
      /\ req' = [s \in Request |->
                   IF s = r THEN n
                   ELSE IF req[s].engine = e /\ req[s].step # "done" THEN seen(s)
                   ELSE req[s]]
  BY DEF SetCutoff
<1>2. \A s \in Request : req[s] \in RequestRecord
  BY DEF IInv, TypeOK
<1>3. e \in 1..Len(cutoffs) /\ req[r].endpoint = "set" /\ c # NoCutoff /\ r <= sent
  BY <1>1, Busy DEF IInv, TypeOK, Handling
<1>4. c \in Window /\ c \in Cutoff
  BY <1>1, <1>3 DEF Refused, ChecksWindow
<1>5. /\ cutoffs \in Seq(Window) /\ cutoffs' \in Seq(Window)
      /\ Len(cutoffs') = Len(cutoffs) /\ cutoffs'[e] = c
      /\ \A i \in 1..Len(cutoffs) : i # e => cutoffs'[i] = cutoffs[i]
  BY <1>1, <1>3, <1>4 DEF IInv, TypeOK
<1>6. /\ n \in RequestRecord /\ n.step = "read" /\ n.endpoint = "set" /\ n.body = c
      /\ n.engine = e /\ n.answer = req[r].answer /\ n.held = req[r].held \union {c}
      /\ n.after = req[r].after
  <2>1. req[r] \in RequestRecord /\ req[r].held \in SUBSET Cutoff
    BY <1>2 DEF RequestRecord
  <2>2. req[r].held \union {c} \in SUBSET Cutoff
    BY <1>4, <2>1
  <2>3. PICK h : h = req[r].held \union {c} /\ h \in SUBSET Cutoff
    BY <2>2
  <2>4. n = [req[r] EXCEPT !.step = "read", !.held = h]
    BY <2>3
  <2> HIDE DEF n, e, c
  <2>5. n \in RequestRecord
    BY <2>1, <2>3, <2>4 DEF RequestRecord
  <2>6. /\ n.step = "read" /\ n.endpoint = req[r].endpoint /\ n.body = req[r].body
        /\ n.engine = req[r].engine /\ n.answer = req[r].answer /\ n.held = h
        /\ n.after = req[r].after
    BY <2>1, <2>4 DEF RequestRecord
  <2>7. e = req[r].engine /\ c = req[r].body
    BY DEF e, c
  <2> QED
    BY <1>3, <2>3, <2>5, <2>6, <2>7
<1>7. \A s \in Request :
        /\ seen(s) \in RequestRecord /\ seen(s).step = req[s].step
        /\ seen(s).endpoint = req[s].endpoint /\ seen(s).body = req[s].body
        /\ seen(s).engine = req[s].engine /\ seen(s).answer = req[s].answer
        /\ seen(s).held = req[s].held \union {c} /\ seen(s).after = req[s].after
  BY <1>2, <1>4 DEF RequestRecord
<1>8. \A s \in Request :
        /\ req'[s] \in RequestRecord
        /\ req'[s].endpoint = req[s].endpoint /\ req'[s].body = req[s].body
        /\ req'[s].engine = req[s].engine /\ req'[s].answer = req[s].answer
        /\ req'[s].held \in {req[s].held, req[s].held \union {c}}
        /\ req'[s].after = req[s].after
        /\ s # r => req'[s].step = req[s].step
  BY <1>1, <1>2, <1>3, <1>6, <1>7
<1>9. req'[r].step = "read" /\ c \in req'[r].held
  BY <1>1, <1>6
<1>10. \A s \in Request :
         req[s].engine = e /\ req[s].step # "done" => c \in req'[s].held
  BY <1>1, <1>6, <1>7
<1>11. \A s \in Request : req[s].engine # e => req'[s] = req[s]
  BY <1>1
<1> HIDE DEF n, seen
<1>12. TypeOK'
  <2>1. req' \in [Request -> RequestRecord]
    BY <1>1, <1>8
  <2>2. \A s \in Request :
          req'[s].step \in {"write", "read"} => req'[s].engine \in 1..Len(cutoffs')
    BY <1>1, <1>3, <1>5, <1>8 DEF IInv, TypeOK
  <2> QED
    BY <1>1, <1>5, <2>1, <2>2 DEF IInv, TypeOK
<1>13. Handling'
  <2>1. \A s \in Request : s > sent' => req'[s] = Free
    <3> SUFFICES ASSUME NEW s \in Request, s > sent PROVE req'[s] = Free
      BY <1>1
    <3>1. req[s] = Free
      BY DEF IInv, Handling
    <3>2. req[s].engine = 0
      BY <3>1 DEF Free
    <3> QED
      BY <1>3, <1>11, <3>1, <3>2
  <2>2. \A s \in Request : req'[s].step \in {"write", "read"} =>
          cutoffs'[req'[s].engine] \in req'[s].held
    <3> SUFFICES ASSUME NEW s \in Request, req'[s].step \in {"write", "read"}
                 PROVE  cutoffs'[req'[s].engine] \in req'[s].held
      OBVIOUS
    <3>1. req[s].step \in {"write", "read"}
      BY <1>1, <1>8
    <3>2. req[s].engine \in 1..Len(cutoffs) /\ cutoffs[req[s].engine] \in req[s].held
      BY <3>1 DEF IInv, TypeOK, Handling
    <3> QED
      BY <1>5, <1>8, <1>10, <3>1, <3>2
  <2>3. \A s \in Request : /\ req'[s].step = "write" => req'[s].endpoint = "set"
                           /\ req'[s].step = "return" => current' # 0
                           /\ req'[s].step \in {"engine", "build", "return"} =>
                                req'[s].answer = Blank
    BY <1>1, <1>8, <1>9 DEF IInv, Handling
  <2>4. Len(cutoffs') > 0 => current' # 0
    BY <1>1, <1>5 DEF IInv, Handling
  <2>5. \A s \in Request : req'[s].endpoint = "set" => req'[s].body # NoCutoff
    BY <1>8 DEF IInv, Handling
  <2> QED
    BY <2>1, <2>2, <2>3, <2>4, <2>5 DEF Handling, Blank, Free
<1>14. AsOfTheRequest'
  BY <1>8 DEF IInv, AsOfTheRequest
<1>15. Written' = Written \union {r}
  <2>1. \A s \in Request : Refused(s)' <=> Refused(s)
    BY <1>8 DEF Refused
  <2> QED
    BY <1>1, <1>3, <1>8, <1>9, <2>1 DEF Written
<1>16. Kept'
  <2>1. \A s \in Written' : req'[s].engine \in 1..Len(cutoffs')
    BY <1>3, <1>5, <1>8, <1>15 DEF IInv, Kept, Written
  <2>2. r \notin Writes /\ Writes \subseteq Writes'
    BY <1>1, <1>8 DEF Writes, Refused
  <2>3. \A s \in Request : req'[s].after \subseteq Writes /\ r \notin req'[s].after
    BY <1>8, <2>2 DEF IInv, Kept
  <2>4. \A i : /\ Given(i)' = IF i = e THEN Given(i) \union {r} ELSE Given(i)
              /\ Given(i) \subseteq Request
    BY <1>3, <1>8, <1>15 DEF Given, Written
  <2>5. ASSUME NEW i \in 1..Len(cutoffs) PROVE Last(i)'
    <3>1. CASE i = e
      <4>1. r \in Given(i)' /\ cutoffs'[i] = req'[r].body
        BY <1>5, <1>8, <2>4, <3>1
      <4>2. \A s \in Given(i)' : r \notin req'[s].after
        BY <2>3, <2>4
      <4> QED
        BY <4>1, <4>2 DEF Last
    <3>2. CASE i # e
      <4>1. Given(i)' = Given(i) /\ cutoffs'[i] = cutoffs[i]
        BY <1>5, <2>4, <3>2
      <4>2. Last(i)
        BY DEF IInv, Kept
      <4> QED
        BY <1>8, <2>4, <4>1, <4>2 DEF Last
    <3> QED
      BY <3>1, <3>2
  <2> QED
    BY <1>5, <2>1, <2>2, <2>3, <2>5 DEF Kept
<1> QED
  BY <1>12, <1>13, <1>14, <1>16 DEF IInv

-----------------------------------------------------------------------------
(* The server                                                              *)

(* No request has been sent and no engine built.                           *)
LEMMA InitIInv == Init => IInv
<1> SUFFICES ASSUME Init PROVE IInv
  OBVIOUS
<1> USE WindowAssumption
<1>1. Free \in RequestRecord
  BY DEF Free, RequestRecord, Blank, Endpoint
<1>2. /\ cutoffs = <<>> /\ current = 0 /\ sent = 0
      /\ \A r \in Request : req[r] = Free
      /\ req \in [Request -> RequestRecord]
  BY <1>1 DEF Init
<1>3. /\ Free.step = "free" /\ Free.endpoint = "state" /\ Free.answer = Blank
      /\ Free.after = {}
  BY DEF Free
<1>4. TypeOK
  BY <1>2, <1>3 DEF TypeOK
<1>5. Handling
  BY <1>2, <1>3 DEF Handling
<1>6. AsOfTheRequest
  BY <1>2, <1>3 DEF AsOfTheRequest, Blank
<1>7. Written = {}
  BY <1>2, <1>3 DEF Written
<1>8. Kept
  BY <1>2, <1>3, <1>7 DEF Kept
<1> QED
  BY <1>4, <1>5, <1>6, <1>8 DEF IInv

(* Every step of the server keeps the invariant.                           *)
LEMMA NextKeeps == IInv /\ [Next]_serverVars => IInv'
<1> SUFFICES ASSUME IInv, [Next]_serverVars PROVE IInv'
  OBVIOUS
<1>1. CASE \E endpoint \in Endpoint, body \in Cutoff \union {NoCutoff} : Send(endpoint, body)
  BY <1>1, SendKeeps
<1>2. ASSUME NEW r \in Request, Serve(r) PROVE IInv'
  <2>1. CASE GetEngine(r)
    BY <2>1, GetEngineKeeps
  <2>2. CASE BuildEngine(r)
    BY <2>2, BuildEngineKeeps
  <2>3. CASE ReturnEngine(r)
    BY <2>3, ReturnEngineKeeps
  <2>4. CASE Refuse(r)
    BY <2>4, RefuseKeeps
  <2>5. CASE SetCutoff(r)
    BY <2>5, SetCutoffKeeps
  <2>6. CASE Read(r)
    BY <2>6, ReadKeeps
  <2> QED
    BY <1>2, <2>1, <2>2, <2>3, <2>4, <2>5, <2>6 DEF Serve
<1>3. CASE UNCHANGED serverVars
  <2>1. \A e : Given(e)' = Given(e)
    BY <1>3 DEF serverVars, Given, Refused
  <2>2. TypeOK' /\ Handling' /\ AsOfTheRequest'
    BY <1>3 DEF serverVars, IInv, TypeOK, Handling, AsOfTheRequest, Blank
  <2>3. Written' = Written /\ Writes' = Writes
    BY <1>3 DEF serverVars, Written, Writes, Refused
  <2>4. Kept'
    BY <1>3, <2>1, <2>3 DEF serverVars, IInv, Kept, Last
  <2> QED
    BY <2>2, <2>4 DEF IInv
<1> QED
  BY <1>1, <1>2, <1>3 DEF Next

(* The invariant of the server.                                            *)
LEMMA ServerInvariant == Spec => []IInv
<1>1. Init => IInv
  BY InitIInv
<1>2. IInv /\ [Next]_serverVars => IInv'
  BY NextKeeps
<1> QED
  BY <1>1, <1>2, PTL DEF Spec

(* Every engine stands inside the demo window, and every handler works on  *)
(* an engine that was built.                                               *)
THEOREM TypeCorrect == Spec => []TypeOK
<1>1. IInv => TypeOK
  BY DEF IInv
<1> QED
  BY <1>1, ServerInvariant, PTL

(* No part of a response is computed as of a cutoff the request neither    *)
(* named nor saw, for any number of clients.                               *)
THEOREM ResponsesAreCurrent == Spec => []AsOfTheRequest
<1>1. IInv => AsOfTheRequest
  BY DEF IInv
<1> QED
  BY <1>1, ServerInvariant, PTL

(* An engine holds the last change of the cutoff it was given and that was *)
(* answered, or one that overlapped or followed it, for any number of      *)
(* clients and engines.                                                    *)
THEOREM AcknowledgedSetsHold == Spec => []AcknowledgedSetHolds
<1>1. IInv => AcknowledgedSetHolds
  <2> SUFFICES ASSUME IInv, NEW e \in DOMAIN cutoffs,
                      {r \in Writes : req[r].engine = e} # {}
               PROVE  \E w \in Given(e) :
                        /\ cutoffs[e] = req[w].body
                        /\ \A r \in {s \in Writes : req[s].engine = e} : w \notin req[r].after
    BY DEF AcknowledgedSetHolds
  <2>1. {r \in Writes : req[r].engine = e} \subseteq Given(e)
    BY DEF Writes, Given
  <2>2. e \in 1..Len(cutoffs)
    BY DEF IInv, TypeOK
  <2>3. Last(e)
    BY <2>2 DEF IInv, Kept
  <2> QED
    BY <2>1, <2>3 DEF Last
<1> QED
  BY <1>1, ServerInvariant, PTL

-----------------------------------------------------------------------------
(* The screen                                                              *)

(* The provider's clock is a cutoff it was told, the panel's last effect a *)
(* request that was sent, and a guarded panel shows no later one.          *)
ScreenInv ==
  /\ IInv
  /\ clock \in Cutoff \union {NoCutoff}
  /\ live \in Nat /\ shown \in Nat /\ live <= sent
  /\ foreign \in Nat /\ foreign <= sent
  /\ panel = "guarded" => shown <= live

(* A step of the tab is a request it sends, or nothing to the server.      *)
LEMMA StepIsServed == ScreenInv /\ [ScreenNext]_vars => [Next]_serverVars
<1> SUFFICES ASSUME ScreenInv, [ScreenNext]_vars PROVE [Next]_serverVars
  OBVIOUS
<1> USE WindowAssumption
<1>1. ASSUME NEW r \in Request, Serve(r) PROVE Next
  BY <1>1 DEF Next
<1>2. ASSUME NEW endpoint \in Endpoint, NEW body \in Cutoff \union {NoCutoff},
             Send(endpoint, body)
      PROVE  Next
  BY <1>2 DEF Next
<1>3. ASSUME Load PROVE Next
  BY <1>2, <1>3 DEF Load, Endpoint
<1>4. ASSUME NEW known \in Cutoff \union {NoCutoff}, Fetch(known) PROVE Next
  BY <1>2, <1>4 DEF Fetch, Endpoint
<1>5. ASSUME Mount PROVE Next
  BY <1>4, <1>5 DEF Mount, ScreenInv
<1>6. ASSUME NEW c \in Window, Slide(c) PROVE Next
  BY <1>2, <1>6 DEF Slide, Endpoint
<1>7. ASSUME NEW r \in Request, TakeSet(r) PROVE Next
  <2>1. req[r].answer["label"] \in Cutoff \union {NoCutoff}
    BY DEF ScreenInv, IInv, TypeOK, RequestRecord, Part
  <2> QED
    BY <1>4, <1>7, <2>1 DEF TakeSet
<1>8. ASSUME NEW r \in Request, TakeState(r) \/ TakeFetch(r) \/ TakeError(r)
      PROVE  UNCHANGED serverVars
  BY <1>8 DEF TakeState, TakeFetch, TakeError
<1>9. ASSUME NEW endpoint \in Endpoint, NEW body \in Cutoff \union {NoCutoff},
             Foreign(endpoint, body)
      PROVE  Next
  BY <1>2, <1>9 DEF Foreign
<1>10. CASE UNCHANGED vars
  BY <1>10 DEF vars
<1>11. CASE ScreenNext
  BY <1>1, <1>3, <1>5, <1>6, <1>7, <1>8, <1>9, <1>11 DEF ScreenNext
<1> QED
  BY <1>10, <1>11

(* What a step of the tab leaves: the clock a cutoff, the panel in order.  *)
InOrder ==
  /\ clock' \in Cutoff \union {NoCutoff}
  /\ live' \in Nat /\ shown' \in Nat /\ live' <= sent'
  /\ foreign' \in Nat /\ foreign' <= sent'
  /\ panel' = "guarded" => shown' <= live'
  /\ panel = "guarded" => shown <= shown'

(* A new effect is the newest request, and a guarded panel applies that    *)
(* one alone.                                                              *)
LEMMA StepKeepsOrder == ScreenInv /\ [ScreenNext]_vars => InOrder
<1> SUFFICES ASSUME ScreenInv, [ScreenNext]_vars PROVE InOrder
  OBVIOUS
<1> USE WindowAssumption DEF ScreenInv, InOrder
<1>1. sent \in Nat
  BY DEF IInv, TypeOK
<1>2. \A r \in Request : req[r].answer["label"] \in Cutoff \union {NoCutoff} /\ r \in Nat
  BY DEF IInv, TypeOK, RequestRecord, Part, Request
<1>3. ASSUME NEW endpoint, NEW body, Send(endpoint, body) PROVE sent' = sent + 1
  BY <1>3 DEF Send
<1>4. ASSUME NEW r \in Request, Serve(r), UNCHANGED tabVars PROVE InOrder
  <2>1. sent' = sent
    BY <1>4 DEF Serve, GetEngine, BuildEngine, ReturnEngine, Refuse, SetCutoff, Read
  <2> QED
    BY <1>1, <1>4, <2>1 DEF tabVars, ownVars
<1>5. ASSUME NEW endpoint, NEW body, Foreign(endpoint, body) PROVE InOrder
  BY <1>1, <1>3, <1>5 DEF Foreign, ownVars
<1>6. ASSUME Load PROVE InOrder
  BY <1>1, <1>3, <1>6 DEF Load
<1>7. ASSUME NEW known, Fetch(known) PROVE sent' = sent + 1
  BY <1>3, <1>7 DEF Fetch
<1>8. ASSUME Mount PROVE InOrder
  BY <1>1, <1>7, <1>8 DEF Mount
<1>9. ASSUME NEW c \in Window, Slide(c) PROVE InOrder
  BY <1>1, <1>3, <1>9 DEF Slide
<1>10. ASSUME NEW r \in Request, TakeState(r) PROVE InOrder
  BY <1>1, <1>2, <1>10 DEF TakeState, serverVars
<1>11. ASSUME NEW r \in Request, TakeSet(r) PROVE InOrder
  BY <1>1, <1>2, <1>7, <1>11 DEF TakeSet
<1>12. ASSUME NEW r \in Request, TakeFetch(r) PROVE InOrder
  BY <1>1, <1>2, <1>12 DEF TakeFetch, Applies, serverVars
<1>13. ASSUME NEW r \in Request, TakeError(r) PROVE InOrder
  BY <1>1, <1>13 DEF TakeError, serverVars
<1>14. CASE UNCHANGED vars
  BY <1>1, <1>14 DEF vars, serverVars, tabVars, ownVars
<1>15. CASE ScreenNext
  BY <1>4, <1>5, <1>6, <1>8, <1>9, <1>10, <1>11, <1>12, <1>13, <1>15 DEF ScreenNext
<1> QED
  BY <1>14, <1>15

(* The invariant of the screen.                                            *)
LEMMA ScreenInvariant == ScreenSpec => []ScreenInv
<1>1. ScreenInit => ScreenInv
  BY InitIInv DEF ScreenInit, ScreenInv, Init
<1>2. ScreenInv /\ [ScreenNext]_vars => ScreenInv'
  <2> SUFFICES ASSUME ScreenInv, [ScreenNext]_vars PROVE ScreenInv'
    OBVIOUS
  <2>1. IInv'
    BY StepIsServed, NextKeeps DEF ScreenInv
  <2>2. InOrder
    BY StepKeepsOrder
  <2> QED
    BY <2>1, <2>2 DEF ScreenInv, InOrder
<1> QED
  BY <1>1, <1>2, PTL DEF ScreenSpec

(* The tab is a client of the API: whatever it does, the server does what  *)
(* ReplayApi says.                                                         *)
THEOREM ServerBehindScreen == ScreenSpec => Spec
<1>1. ScreenInit => Init
  BY DEF ScreenInit
<1>2. ScreenInv /\ [ScreenNext]_vars => [Next]_serverVars
  BY StepIsServed
<1> QED
  BY <1>1, <1>2, ScreenInvariant, PTL DEF ScreenSpec, Spec

(* useApi: an answer that was overtaken is dropped, so the guarded panel   *)
(* never goes back to an older fetch, in whatever order answers arrive and *)
(* however many are lost.                                                  *)
THEOREM PanelNeverOvertaken == ScreenSpec => NeverOvertaken
<1>1. ScreenInv /\ [ScreenNext]_vars => [panel = "guarded" => shown <= shown']_vars
  BY StepKeepsOrder DEF InOrder
<1> QED
  BY <1>1, ScreenInvariant, PTL DEF ScreenSpec, NeverOvertaken

-----------------------------------------------------------------------------
(* The settled screen                                                      *)

(* Without a tab nothing of it is under way.                               *)
NoTab == panel = "none" => clock = NoCutoff /\ pending = {}

(* The tab waits for what it sent: one request loads the state, a change   *)
(* of the cutoff comes from a screen that has a clock and lies in the      *)
(* window, other clients only change the cutoff; and what was read is in   *)
(* the answer.                                                             *)
Waiting ==
  /\ pending \subseteq 1..sent
  /\ sent = foreign => clock = NoCutoff /\ pending = {} /\ live = 0
  /\ panel = "guarded" /\ live # 0 => live \in Request /\ req[live].endpoint = "events"
  /\ \A r, s \in pending : req[r].endpoint = "state" /\ req[s].endpoint = "state" => r = s
  /\ \A r \in Request :
       /\ r \notin pending /\ req[r].endpoint # "set" => req[r].step = "done" \/ r > sent
       /\ req[r].step = "write" => req[r].answer = Blank
       /\ req[r].endpoint = "state" /\ r \in pending => clock = NoCutoff
       /\ req[r].endpoint = "set" /\ r \in pending =>
            /\ req[r].body \in Window /\ clock # NoCutoff
            /\ req[r].reads > 0 \/ req[r].step = "done" => req[r].answer["label"] # NoCutoff
       /\ req[r].endpoint = "events" =>
            /\ req[r].reads > 0 \/ req[r].step = "done" => req[r].answer["data"] # NoCutoff
            /\ req[r].step = "done" => req[r].answer["label"] # NoCutoff

(* Nothing is answered before an engine is there.                          *)
NoEngine ==
  Len(cutoffs) = 0 =>
    clock = NoCutoff /\ \A r \in Request : req[r].step # "done" /\ req[r].answer = Blank

(* Only the tab changes the cutoff, once at a time, and the panel's last   *)
(* fetch is not lost.                                                      *)
InTurn ==
  ~disturbed =>
    /\ UnderWay \subseteq Sets
    /\ \A r, s \in Sets : r = s
    /\ Sets = {} /\ panel = "guarded" /\ live # 0 => live \in pending \/ shown = live

(* What a request has read, and the engine it reads on, are at the cutoff  *)
(* of the current engine.                                                  *)
Level(r) ==
  /\ req[r].step \in {"write", "read"} => cutoffs[req[r].engine] = cutoffs[current]
  /\ \A p \in Part : req[r].answer[p] \in {NoCutoff, cutoffs[current]}

(* The engine stays, or those that take its place are at the default too.  *)
Steady == current # 0 /\ Building = {}

Fresh == Sets = {} /\ \A e \in 1..Len(cutoffs) : cutoffs[e] = Default

(* Then the clock and what the panel's last fetch has read are at the      *)
(* engine's cutoff whenever no change is under way, and a change is made   *)
(* on the current engine and its answer names the cutoff it has set.       *)
AtCutoff ==
  ~disturbed =>
    /\ Steady \/ Fresh
    /\ \A r \in Sets : /\ Level(r)
                       /\ req[r].step \in {"write", "read"} => req[r].engine = current
    /\ clock = NoCutoff => \A r \in pending : req[r].endpoint = "state" => Level(r)
    /\ Sets = {} => clock \in {NoCutoff, cutoffs[current]}
    /\ Sets = {} /\ panel = "guarded" /\ live # 0 => Level(live)

TabInv == panel # "none" => Waiting /\ NoEngine /\ InTurn /\ AtCutoff

(* What every step of the server leaves alone, and that it handles a       *)
(* request that was sent and not answered.                                 *)
LEMMA ServeLeaves ==
  ASSUME IInv, NEW r \in Request, Serve(r)
  PROVE  /\ sent' = sent /\ req[r].step \notin {"free", "done"}
         /\ \A s \in Request : /\ req'[s].endpoint = req[s].endpoint
                               /\ req'[s].body = req[s].body
         /\ \A s \in Request \ {r} : /\ req'[s].step = req[s].step
                                     /\ req'[s].reads = req[s].reads
                                     /\ req'[s].answer = req[s].answer
                                     /\ req'[s].engine = req[s].engine
<1>1. req \in [Request -> RequestRecord]
  BY DEF IInv, TypeOK
<1>2. ASSUME NEW n, req' = [req EXCEPT ![r] = n], n.endpoint = req[r].endpoint,
             n.body = req[r].body
      PROVE  /\ \A s \in Request : /\ req'[s].endpoint = req[s].endpoint
                                   /\ req'[s].body = req[s].body
             /\ \A s \in Request \ {r} : req'[s] = req[s]
  BY <1>1, <1>2
<1>3. CASE GetEngine(r)
  <2>1. PICK n : /\ req' = [req EXCEPT ![r] = n]
                 /\ n = IF current = 0 THEN [req[r] EXCEPT !.step = "build"] ELSE Bound(r, current)
    BY <1>3 DEF GetEngine
  <2>2. n.endpoint = req[r].endpoint /\ n.body = req[r].body
    BY <1>1, <2>1 DEF Bound, RequestRecord
  <2> QED
    BY <1>2, <1>3, <2>1, <2>2 DEF GetEngine
<1>4. CASE BuildEngine(r)
  <2>1. req' = [req EXCEPT ![r] = [req[r] EXCEPT !.step = "return"]]
    BY <1>1, <1>4 DEF BuildEngine
  <2> QED
    BY <1>1, <1>2, <1>4, <2>1 DEF BuildEngine, RequestRecord
<1>5. CASE ReturnEngine(r)
  <2>1. Bound(r, current).endpoint = req[r].endpoint /\ Bound(r, current).body = req[r].body
    BY <1>1 DEF Bound, RequestRecord
  <2> QED
    BY <1>2, <1>5, <2>1 DEF ReturnEngine
<1>6. CASE Refuse(r)
  <2>1. req' = [req EXCEPT ![r] = [req[r] EXCEPT !.step = "done"]]
    BY <1>1, <1>6 DEF Refuse
  <2> QED
    BY <1>1, <1>2, <1>6, <2>1 DEF Refuse, RequestRecord
<1>7. CASE SetCutoff(r)
  <2>1. /\ req[r].step = "write" /\ sent' = sent
        /\ \A s \in Request :
             req'[s] = IF s = r THEN [req[r] EXCEPT !.step = "read", !.held = @ \union {req[r].body}]
                       ELSE IF req[s].engine = req[r].engine /\ req[s].step # "done"
                       THEN [req[s] EXCEPT !.held = @ \union {req[r].body}]
                       ELSE req[s]
    BY <1>7 DEF SetCutoff
  <2>2. ASSUME NEW s \in Request, NEW h
        PROVE  /\ [req[s] EXCEPT !.held = h].endpoint = req[s].endpoint
               /\ [req[s] EXCEPT !.held = h].body = req[s].body
               /\ [req[s] EXCEPT !.held = h].step = req[s].step
               /\ [req[s] EXCEPT !.held = h].reads = req[s].reads
               /\ [req[s] EXCEPT !.held = h].answer = req[s].answer
               /\ [req[s] EXCEPT !.held = h].engine = req[s].engine
    BY <1>1 DEF RequestRecord
  <2>3. ASSUME NEW h
        PROVE  /\ [req[r] EXCEPT !.step = "read", !.held = h].endpoint = req[r].endpoint
               /\ [req[r] EXCEPT !.step = "read", !.held = h].body = req[r].body
    BY <1>1 DEF RequestRecord
  <2>4. req'[r].endpoint = req[r].endpoint /\ req'[r].body = req[r].body
    <3>1. PICK h : h = req[r].held \union {req[r].body}
      OBVIOUS
    <3>2. req'[r] = [req[r] EXCEPT !.step = "read", !.held = h]
      BY <2>1, <3>1
    <3> QED
      BY <2>3, <3>2
  <2>5. \A s \in Request \ {r} :
          /\ req'[s].endpoint = req[s].endpoint /\ req'[s].body = req[s].body
          /\ req'[s].step = req[s].step /\ req'[s].reads = req[s].reads
          /\ req'[s].answer = req[s].answer /\ req'[s].engine = req[s].engine
    <3> SUFFICES ASSUME NEW s \in Request \ {r}
                 PROVE  /\ req'[s].endpoint = req[s].endpoint /\ req'[s].body = req[s].body
                        /\ req'[s].step = req[s].step /\ req'[s].reads = req[s].reads
                        /\ req'[s].answer = req[s].answer /\ req'[s].engine = req[s].engine
      OBVIOUS
    <3>1. PICK h : h = req[s].held \union {req[r].body}
      OBVIOUS
    <3>2. req'[s] = [req[s] EXCEPT !.held = h] \/ req'[s] = req[s]
      BY <2>1, <3>1
    <3>3. s \in Request
      OBVIOUS
    <3>4. CASE req'[s] = [req[s] EXCEPT !.held = h]
      BY <2>2, <3>3, <3>4
    <3>5. CASE req'[s] = req[s]
      BY <3>5
    <3> QED
      BY <3>2, <3>4, <3>5
  <2> QED
    BY <2>1, <2>4, <2>5
<1>8. CASE Read(r)
  <2>1. PICK k, step, answer :
          req' = [req EXCEPT ![r] = [req[r] EXCEPT !.reads = k, !.step = step, !.answer = answer]]
    BY <1>1, <1>8 DEF Read
  <2>2. PICK n : n = [req[r] EXCEPT !.reads = k, !.step = step, !.answer = answer]
    OBVIOUS
  <2>3. n.endpoint = req[r].endpoint /\ n.body = req[r].body
    BY <1>1, <2>2 DEF RequestRecord
  <2> QED
    BY <1>2, <1>8, <2>1, <2>2, <2>3 DEF Read
<1> QED
  BY <1>3, <1>4, <1>5, <1>6, <1>7, <1>8 DEF Serve

(* Steps that find, take or refuse leave the engines and the answer.       *)
LEMMA QuietStep ==
  ASSUME IInv, NEW r \in Request, GetEngine(r) \/ ReturnEngine(r) \/ Refuse(r)
  PROVE  /\ cutoffs' = cutoffs /\ current' = current
         /\ req'[r].answer = req[r].answer /\ req'[r].reads = req[r].reads
         /\ req'[r].step = "done" => Refused(r) /\ Len(cutoffs) > 0
         /\ req'[r].step = "write" => req[r].answer = Blank
         /\ req'[r].step \in {"write", "read"} => req'[r].engine = current
         /\ req'[r].step = "build" => current = 0
<1>1. req \in [Request -> RequestRecord]
  BY DEF IInv, TypeOK
<1>2. ASSUME NEW e
      PROVE  /\ Bound(r, e).answer = req[r].answer /\ Bound(r, e).reads = req[r].reads
             /\ Bound(r, e).step \in {"write", "read"} /\ Bound(r, e).engine = e
  <2>1. PICK s, h : /\ Bound(r, e) = [req[r] EXCEPT !.engine = e, !.held = h, !.step = s]
                    /\ s \in {"write", "read"}
    BY DEF Bound
  <2> QED
    BY <1>1, <2>1 DEF RequestRecord
<1>3. CASE GetEngine(r)
  <2>1. /\ req[r].step = "engine" /\ cutoffs' = cutoffs /\ current' = current
        /\ req'[r] = IF current = 0 THEN [req[r] EXCEPT !.step = "build"] ELSE Bound(r, current)
    BY <1>1, <1>3 DEF GetEngine
  <2>2. req[r].answer = Blank
    BY <2>1 DEF IInv, Handling
  <2>3. CASE current = 0
    BY <1>1, <2>1, <2>2, <2>3 DEF RequestRecord
  <2>4. CASE current # 0
    BY <1>2, <2>1, <2>2, <2>4
  <2> QED
    BY <2>3, <2>4
<1>4. CASE ReturnEngine(r)
  <2>1. /\ req[r].step = "return" /\ cutoffs' = cutoffs /\ current' = current
        /\ req'[r] = Bound(r, current)
    BY <1>1, <1>4 DEF ReturnEngine
  <2>2. req[r].answer = Blank
    BY <2>1 DEF IInv, Handling
  <2> QED
    BY <1>2, <2>1, <2>2
<1>5. CASE Refuse(r)
  <2>1. /\ req[r].step \in {"write", "read"} /\ Refused(r) /\ cutoffs' = cutoffs /\ current' = current
        /\ req'[r] = [req[r] EXCEPT !.step = "done"]
    BY <1>1, <1>5 DEF Refuse
  <2>2. req[r].engine \in 1..Len(cutoffs)
    BY <2>1 DEF IInv, TypeOK
  <2>3. cutoffs \in Seq(Window)
    BY DEF IInv, TypeOK
  <2> QED
    BY <1>1, <2>1, <2>2, <2>3 DEF RequestRecord
<1> QED
  BY <1>3, <1>4, <1>5

(* A read of a tab's request takes what it needs of the engine's cutoff.   *)
LEMMA ReadStep ==
  ASSUME IInv, NEW r \in Request, Read(r)
  PROVE  /\ cutoffs' = cutoffs /\ current' = current /\ Len(cutoffs) > 0
         /\ req[r].step = "read" /\ req'[r].engine = req[r].engine
         /\ req'[r].step \in {"read", "done"}
         /\ req[r].engine \in 1..Len(cutoffs) /\ cutoffs[req[r].engine] \in Window
         /\ req[r].endpoint \notin TakesCutoff \ {"set"} => \A p \in Part :
              req'[r].answer[p] \in {req[r].answer[p], cutoffs[req[r].engine]}
         /\ req[r].endpoint = "set" /\ req[r].reads = 0 =>
              req'[r].answer["label"] = cutoffs[req[r].engine]
         /\ req[r].endpoint = "events" /\ req[r].reads = 0 =>
              req'[r].answer["data"] = cutoffs[req[r].engine]
         /\ req[r].endpoint = "events" /\ req'[r].step = "done" =>
              /\ req[r].reads > 0
              /\ req'[r].answer["label"] = cutoffs[req[r].engine]
<1>1. req \in [Request -> RequestRecord] /\ cutoffs \in Seq(Window)
  BY DEF IInv, TypeOK
<1>2. req[r].step = "read" /\ cutoffs' = cutoffs /\ current' = current
  BY DEF Read
<1>3. /\ req[r].engine \in 1..Len(cutoffs) /\ cutoffs[req[r].engine] \in Window
      /\ Len(cutoffs) > 0
  BY <1>1, <1>2 DEF IInv, TypeOK
<1>4. PICK k, script, step, answer :
        /\ k = req[r].reads + 1 /\ script = Script(req[r].endpoint)
        /\ step = (IF k = Len(script) THEN "done" ELSE "read")
        /\ answer = [p \in Part |-> IF p \in script[k] THEN CutoffOf(r) ELSE req[r].answer[p]]
        /\ req'[r] = [req[r] EXCEPT !.reads = k, !.step = step, !.answer = answer]
  BY <1>1 DEF Read
<1>5. req'[r].step = step /\ req'[r].answer = answer /\ req'[r].engine = req[r].engine
  BY <1>1, <1>4 DEF RequestRecord
<1>6. req[r].endpoint \notin TakesCutoff \ {"set"} => CutoffOf(r) = cutoffs[req[r].engine]
  BY DEF CutoffOf
<1>7. req[r].endpoint = "set" => /\ Len(script) = 2 /\ script[1] = {"label"}
                                 /\ req[r].endpoint \notin TakesCutoff \ {"set"}
  BY <1>4 DEF Script, ReplayState
<1>8. req[r].endpoint = "events" => /\ Len(script) = 2 /\ script[1] = {"data"}
                                    /\ script[2] = {"label"}
                                    /\ req[r].endpoint \notin TakesCutoff \ {"set"}
  BY <1>4 DEF Script, Events, Relabelled, TakesCutoff
<1>9. req[r].reads \in Nat /\ "data" \in Part /\ "label" \in Part
  BY <1>1 DEF RequestRecord, Part
<1>10. step \in {"read", "done"}
  BY <1>4
<1>11. req[r].endpoint \notin TakesCutoff \ {"set"} => \A p \in Part :
          req'[r].answer[p] \in {req[r].answer[p], cutoffs[req[r].engine]}
  BY <1>4, <1>5, <1>6
<1>12. req[r].endpoint = "set" /\ req[r].reads = 0 =>
          req'[r].answer["label"] = cutoffs[req[r].engine]
  BY <1>4, <1>5, <1>6, <1>7, <1>9
<1>13. req[r].endpoint = "events" /\ req[r].reads = 0 =>
          req'[r].answer["data"] = cutoffs[req[r].engine]
  BY <1>4, <1>5, <1>6, <1>8, <1>9
<1>14. req[r].endpoint = "events" /\ req'[r].step = "done" =>
          /\ req[r].reads > 0
          /\ req'[r].answer["label"] = cutoffs[req[r].engine]
  BY <1>4, <1>5, <1>6, <1>8, <1>9
<1> QED
  BY <1>2, <1>3, <1>5, <1>10, <1>11, <1>12, <1>13, <1>14

(* A step of the server keeps what the tab waits for, and ends no change   *)
(* but the one it handles.                                                 *)
LEMMA ServeWaiting ==
  ASSUME IInv, Waiting, InTurn, NEW r \in Request, Serve(r), UNCHANGED tabVars
  PROVE  Waiting' /\ InTurn' /\ Sets' = Sets
<1> USE WindowAssumption DEF tabVars, ownVars
<1>1. /\ sent' = sent /\ req[r].step \notin {"free", "done"}
      /\ \A s \in Request : /\ req'[s].endpoint = req[s].endpoint
                            /\ req'[s].body = req[s].body
      /\ \A s \in Request \ {r} : /\ req'[s].step = req[s].step
                                  /\ req'[s].reads = req[s].reads
                                  /\ req'[s].answer = req[s].answer
  BY ServeLeaves
<1>2. 1..sent \subseteq Request /\ pending \subseteq Request
  <2>1. \A s \in 1..sent : s \in Request
    BY DEF IInv, TypeOK, Request
  <2> QED
    BY <2>1 DEF Waiting
<1>3. Sets' = Sets
  BY <1>1, <1>2 DEF Sets
<1>4. InTurn'
  <2>1. UnderWay' \subseteq UnderWay
    BY <1>1, <1>2 DEF UnderWay, Answered
  <2> QED
    BY <1>3, <2>1 DEF InTurn
<1>5. req[r] \in RequestRecord
  BY DEF IInv, TypeOK
<1>6. /\ req'[r].step = "write" => req'[r].answer = Blank
      /\ req[r].endpoint = "set" /\ r \in pending =>
           (req'[r].reads > 0 \/ req'[r].step = "done" => req'[r].answer["label"] # NoCutoff)
      /\ req[r].endpoint = "events" =>
           /\ req'[r].reads > 0 \/ req'[r].step = "done" => req'[r].answer["data"] # NoCutoff
           /\ req'[r].step = "done" => req'[r].answer["label"] # NoCutoff
  <2>1. CASE GetEngine(r) \/ ReturnEngine(r) \/ Refuse(r)
    <3>1. /\ req'[r].answer = req[r].answer /\ req'[r].reads = req[r].reads
          /\ req'[r].step = "done" => Refused(r)
          /\ req'[r].step = "write" => req[r].answer = Blank
      BY <2>1, QuietStep
    <3>2. (req[r].endpoint = "set" /\ r \in pending) \/ req[r].endpoint = "events" => ~Refused(r)
      BY DEF Waiting, Refused, ChecksWindow
    <3> QED
      BY <3>1, <3>2 DEF Waiting
  <2>2. CASE BuildEngine(r)
    <3>1. req'[r] = [req[r] EXCEPT !.step = "return"]
      BY <2>2 DEF BuildEngine, IInv, TypeOK
    <3> QED
      BY <1>5, <3>1 DEF Waiting, RequestRecord
  <2>3. CASE SetCutoff(r)
    <3>1. PICK h : /\ req'[r] = [req[r] EXCEPT !.step = "read", !.held = h]
                   /\ req[r].step = "write"
      BY <2>3 DEF SetCutoff
    <3>2. /\ req'[r].step = "read" /\ req'[r].reads = req[r].reads
          /\ req'[r].answer = req[r].answer /\ req[r].endpoint = "set"
      BY <1>5, <3>1 DEF RequestRecord, IInv, Handling
    <3> QED
      BY <3>2 DEF Waiting
  <2>4. CASE Read(r)
    <3>1. /\ req'[r].step \in {"read", "done"}
          /\ cutoffs[req[r].engine] \in Window
          /\ req[r].endpoint \notin TakesCutoff \ {"set"} => \A p \in Part :
               req'[r].answer[p] \in {req[r].answer[p], cutoffs[req[r].engine]}
          /\ req[r].endpoint = "set" /\ req[r].reads = 0 =>
               req'[r].answer["label"] = cutoffs[req[r].engine]
          /\ req[r].endpoint = "events" /\ req[r].reads = 0 =>
               req'[r].answer["data"] = cutoffs[req[r].engine]
          /\ req[r].endpoint = "events" /\ req'[r].step = "done" =>
               /\ req[r].reads > 0
               /\ req'[r].answer["label"] = cutoffs[req[r].engine]
      BY <2>4, ReadStep
    <3>2. PICK c : c = cutoffs[req[r].engine] /\ c # NoCutoff
      BY <3>1
    <3>3. req[r].reads \in Nat /\ "label" \in Part /\ "data" \in Part
      BY <1>5 DEF RequestRecord, Part
    <3>4. req[r].endpoint = "set" /\ r \in pending => req'[r].answer["label"] # NoCutoff
      BY <3>1, <3>2, <3>3 DEF Waiting
    <3>5. req[r].endpoint = "events" => req'[r].answer["data"] # NoCutoff
      BY <3>1, <3>2, <3>3 DEF Waiting, TakesCutoff
    <3> QED
      BY <3>1, <3>2, <3>4, <3>5
  <2> QED
    BY <2>1, <2>2, <2>3, <2>4 DEF Serve
<1>7. Waiting'
  <2>1. /\ pending' \subseteq 1..sent'
        /\ sent' = foreign' => clock' = NoCutoff /\ pending' = {} /\ live' = 0
        /\ panel' = "guarded" /\ live' # 0 => live' \in Request /\ req'[live'].endpoint = "events"
    BY <1>1 DEF Waiting
  <2>2. \A q, s \in pending' :
          req'[q].endpoint = "state" /\ req'[s].endpoint = "state" => q = s
    BY <1>1, <1>2 DEF Waiting
  <2> SUFFICES ASSUME NEW s \in Request
               PROVE  /\ s \notin pending /\ req'[s].endpoint # "set" =>
                           req'[s].step = "done" \/ s > sent'
                      /\ req'[s].step = "write" => req'[s].answer = Blank
                      /\ req'[s].endpoint = "state" /\ s \in pending => clock = NoCutoff
                      /\ req'[s].endpoint = "set" /\ s \in pending =>
                           /\ req'[s].body \in Window /\ clock # NoCutoff
                           /\ req'[s].reads > 0 \/ req'[s].step = "done" =>
                                req'[s].answer["label"] # NoCutoff
                      /\ req'[s].endpoint = "events" =>
                           /\ req'[s].reads > 0 \/ req'[s].step = "done" =>
                                req'[s].answer["data"] # NoCutoff
                           /\ req'[s].step = "done" => req'[s].answer["label"] # NoCutoff
    BY <2>1, <2>2 DEF Waiting, Blank
  <2>3. r \notin pending /\ req[r].endpoint # "set" => r > sent
    BY <1>1 DEF Waiting
  <2>4. CASE s = r
    BY <1>1, <1>6, <2>3, <2>4 DEF Waiting
  <2>5. CASE s # r
    BY <1>1, <2>5 DEF Waiting
  <2> QED
    BY <2>4, <2>5
<1> QED
  BY <1>3, <1>4, <1>7

(* A step that changes no cutoff leaves a request level with the current   *)
(* engine, whether it stays or others at the default take its place.       *)
LEMMA ServeLevel ==
  ASSUME IInv, IInv', NoEngine, Steady \/ Fresh, NEW r \in Request, Serve(r), ~SetCutoff(r),
         NEW s \in Request, req[s].endpoint \notin TakesCutoff \ {"set"}, Level(s)
  PROVE  Level(s)'
<1> USE WindowAssumption
<1>1. /\ req[r].step \notin {"free", "done"}
      /\ s # r => /\ req'[s].step = req[s].step /\ req'[s].answer = req[s].answer
                  /\ req'[s].engine = req[s].engine
  BY ServeLeaves
<1>2. /\ req \in [Request -> RequestRecord] /\ cutoffs \in Seq(Window) /\ Len(cutoffs) \in Nat
      /\ current \in 0..Len(cutoffs) /\ (Len(cutoffs) > 0 => current # 0)
  BY DEF IInv, TypeOK, Handling
<1>3. CASE GetEngine(r) \/ ReturnEngine(r) \/ Refuse(r)
  <2>1. /\ cutoffs' = cutoffs /\ current' = current /\ req'[r].answer = req[r].answer
        /\ req'[r].step \in {"write", "read"} => req'[r].engine = current
    BY <1>3, QuietStep
  <2> QED
    BY <1>1, <2>1 DEF Level
<1>4. CASE BuildEngine(r)
  <2>1. /\ cutoffs' = Append(cutoffs, Default) /\ current' = Len(cutoffs) + 1
        /\ req'[r] = [req[r] EXCEPT !.step = "return"] /\ req[r].step = "build"
    BY <1>2, <1>4 DEF BuildEngine
  <2>2. req'[r].step = "return" /\ req'[r].answer = req[r].answer
    BY <1>2, <2>1 DEF RequestRecord
  <2>3. r \in Building
    <3>1. r <= sent /\ r \in 1..MaxRequests /\ sent \in Nat
      BY <1>1 DEF IInv, TypeOK, Handling, Free, Request
    <3> QED
      BY <2>1, <3>1 DEF Building
  <2>4. /\ \A e \in 1..Len(cutoffs) + 1 : cutoffs'[e] = Default
        /\ Len(cutoffs') = Len(cutoffs) + 1
    BY <1>2, <2>1, <2>3 DEF Steady, Fresh
  <2>5. req'[s].step \in {"write", "read"} => req'[s].engine \in 1..Len(cutoffs')
    BY DEF IInv, TypeOK
  <2>6. req'[s].answer = req[s].answer
    BY <1>1, <2>2
  <2>7. \A p \in Part : req[s].answer[p] \in {NoCutoff, Default}
    <3>1. CASE Len(cutoffs) = 0
      BY <3>1 DEF NoEngine, Blank
    <3>2. CASE Len(cutoffs) # 0
      <4>1. cutoffs[current] = Default
        BY <1>2, <2>3, <3>2 DEF Steady, Fresh
      <4> QED
        BY <4>1 DEF Level
    <3> QED
      BY <3>1, <3>2
  <2>8. cutoffs'[current'] = Default
    BY <1>2, <2>1, <2>4
  <2> QED
    BY <2>4, <2>5, <2>6, <2>7, <2>8 DEF Level
<1>5. CASE Read(r)
  <2>1. /\ cutoffs' = cutoffs /\ current' = current /\ req[r].step = "read"
        /\ req'[r].engine = req[r].engine
        /\ req[r].endpoint \notin TakesCutoff \ {"set"} => \A p \in Part :
             req'[r].answer[p] \in {req[r].answer[p], cutoffs[req[r].engine]}
    BY <1>5, ReadStep
  <2>2. CASE s = r
    BY <2>1, <2>2 DEF Level
  <2>3. CASE s # r
    BY <1>1, <2>1, <2>3 DEF Level
  <2> QED
    BY <2>2, <2>3
<1> QED
  BY <1>3, <1>4, <1>5 DEF Serve

(* Nor does such a step take a steady engine away, or move one from the    *)
(* default.                                                                *)
LEMMA ServeGround ==
  ASSUME IInv, NEW r \in Request, Serve(r), ~SetCutoff(r), Sets' = Sets
  PROVE  /\ Fresh => Fresh'
         /\ Steady => Steady' /\ current' = current /\ cutoffs' = cutoffs
         /\ Len(cutoffs') = 0 =>
              Len(cutoffs) = 0 /\ req'[r].step # "done" /\ req'[r].answer = req[r].answer
<1>1. /\ sent' = sent /\ req[r].step \notin {"free", "done"}
      /\ \A s \in Request \ {r} : req'[s].step = req[s].step
  BY ServeLeaves
<1>2. /\ req \in [Request -> RequestRecord] /\ cutoffs \in Seq(Window) /\ Len(cutoffs) \in Nat
      /\ \A s \in 1..sent : s \in Request
  BY WindowAssumption DEF IInv, TypeOK, Request
<1>3. r \in 1..sent
  BY <1>1, WindowAssumption DEF IInv, TypeOK, Handling, Free, Request
<1>4. ASSUME cutoffs' = cutoffs, current' = current, req'[r].step = "build" => current = 0
      PROVE  (Fresh => Fresh') /\ (Steady => Steady')
  BY <1>1, <1>2, <1>4 DEF Fresh, Steady, Building
<1>5. CASE GetEngine(r) \/ ReturnEngine(r) \/ Refuse(r)
  <2>1. /\ cutoffs' = cutoffs /\ current' = current /\ req'[r].answer = req[r].answer
        /\ req'[r].step = "done" => Len(cutoffs) > 0
        /\ req'[r].step = "build" => current = 0
    BY <1>5, QuietStep
  <2> QED
    BY <1>4, <2>1
<1>6. CASE BuildEngine(r)
  <2>1. cutoffs' = Append(cutoffs, Default) /\ req[r].step = "build"
    BY <1>6 DEF BuildEngine
  <2>2. ~Steady
    BY <1>3, <2>1 DEF Steady, Building
  <2>3. Len(cutoffs') = Len(cutoffs) + 1
    BY <1>2, <2>1
  <2>4. Fresh => Fresh'
    <3> SUFFICES ASSUME Fresh, NEW e \in 1..Len(cutoffs') PROVE cutoffs'[e] = Default
      BY DEF Fresh
    <3> QED
      BY <1>2, <2>1, <2>3, WindowAssumption DEF Fresh
  <2> QED
    BY <1>2, <2>2, <2>3, <2>4
<1>7. CASE Read(r)
  <2>1. /\ cutoffs' = cutoffs /\ current' = current /\ Len(cutoffs) > 0
        /\ req'[r].step \in {"read", "done"}
    BY <1>7, ReadStep
  <2> QED
    BY <1>4, <2>1
<1> QED
  BY <1>5, <1>6, <1>7 DEF Serve

(* Nor does it part the screen from the engine: only the tab's own change  *)
(* is set, while it is under way, and all else stays level.                *)
LEMMA ServeSettles ==
  ASSUME IInv, IInv', TabInv, panel # "none", NEW r \in Request, Serve(r), UNCHANGED tabVars
  PROVE  TabInv'
<1> USE WindowAssumption DEF tabVars, ownVars
<1>1. Waiting /\ NoEngine /\ InTurn /\ AtCutoff
  BY DEF TabInv
<1>2. Waiting' /\ InTurn' /\ Sets' = Sets
  BY <1>1, ServeWaiting
<1>3. /\ \A s \in Request : req'[s].endpoint = req[s].endpoint
      /\ \A s \in Request \ {r} : /\ req'[s].step = req[s].step
                                  /\ req'[s].answer = req[s].answer
                                  /\ req'[s].engine = req[s].engine
      /\ req[r].step \notin {"free", "done"}
  BY ServeLeaves
<1>4. /\ req \in [Request -> RequestRecord] /\ cutoffs \in Seq(Window)
      /\ Len(cutoffs) \in Nat /\ pending \subseteq Request
      /\ \A s \in Sets : s \in Request /\ s \in pending /\ req[s].endpoint = "set"
  <2>1. \A s \in 1..sent : s \in Request
    BY DEF IInv, TypeOK, Request
  <2> QED
    BY <1>1, <2>1 DEF IInv, TypeOK, Waiting, Sets
<1>5. panel = "guarded" /\ live # 0 => live \in Request /\ req[live].endpoint = "events"
  BY <1>1 DEF Waiting
<1>6. CASE ~SetCutoff(r)
  <2>1. /\ Fresh => Fresh'
        /\ Steady => Steady' /\ current' = current /\ cutoffs' = cutoffs
        /\ Len(cutoffs') = 0 =>
             Len(cutoffs) = 0 /\ req'[r].step # "done" /\ req'[r].answer = req[r].answer
    BY <1>2, <1>6, ServeGround
  <2>2. NoEngine'
    BY <1>1, <1>3, <2>1 DEF NoEngine, Blank
  <2>3. AtCutoff'
    <3> SUFFICES ASSUME ~disturbed PROVE AtCutoff'
      BY DEF AtCutoff
    <3>1. ASSUME NEW s \in Request, req[s].endpoint \in {"set", "state", "events"}, Level(s)
          PROVE  Level(s)'
      <4>1. Steady \/ Fresh
        BY <1>1 DEF AtCutoff
      <4>2. req[s].endpoint \notin TakesCutoff \ {"set"}
        BY <3>1 DEF TakesCutoff
      <4> QED
        BY <1>1, <1>6, <3>1, <4>1, <4>2, ServeLevel
    <3>2. Steady' \/ Fresh'
      BY <1>1, <2>1 DEF AtCutoff
    <3>3. ASSUME NEW s \in Sets'
          PROVE  Level(s)' /\ (req'[s].step \in {"write", "read"} => req'[s].engine = current')
      <4>1. /\ s \in Sets /\ s \in Request /\ req[s].endpoint = "set" /\ Level(s)
            /\ req[s].step \in {"write", "read"} => req[s].engine = current
        BY <1>1, <1>2, <1>4, <3>3 DEF AtCutoff
      <4>2. Steady /\ current' = current
        BY <1>1, <2>1, <4>1 DEF AtCutoff, Fresh
      <4>3. req'[r].step \in {"write", "read"} =>
              \/ req'[r].engine = current
              \/ req[r].step \in {"write", "read"} /\ req'[r].engine = req[r].engine
        <5>1. CASE GetEngine(r) \/ ReturnEngine(r) \/ Refuse(r)
          BY <5>1, QuietStep
        <5>2. CASE BuildEngine(r)
          <6>1. req'[r] = [req[r] EXCEPT !.step = "return"]
            BY <1>4, <5>2 DEF BuildEngine
          <6> QED
            BY <1>4, <6>1 DEF RequestRecord
        <5>3. CASE Read(r)
          BY <5>3, ReadStep
        <5> QED
          BY <1>6, <5>1, <5>2, <5>3 DEF Serve
      <4>4. req'[s].step \in {"write", "read"} => req'[s].engine = current'
        <5>1. CASE s = r
          BY <4>1, <4>2, <4>3, <5>1
        <5>2. CASE s # r
          BY <1>3, <4>1, <4>2, <5>2
        <5> QED
          BY <5>1, <5>2
      <4> QED
        BY <3>1, <4>1, <4>4
    <3>4. ASSUME clock' = NoCutoff, NEW s \in pending', req'[s].endpoint = "state"
          PROVE  Level(s)'
      <4>1. s \in pending /\ s \in Request /\ req[s].endpoint = "state" /\ clock = NoCutoff
        BY <1>3, <1>4, <3>4
      <4> QED
        BY <1>1, <3>1, <4>1 DEF AtCutoff
    <3>5. ASSUME Sets' = {} PROVE clock' \in {NoCutoff, cutoffs'[current']}
      <4>1. clock \in {NoCutoff, cutoffs[current]}
        BY <1>1, <1>2, <3>5 DEF AtCutoff
      <4>2. CASE Steady
        BY <2>1, <4>1, <4>2
      <4>3. CASE Fresh
        <5>1. CASE Len(cutoffs) = 0
          BY <1>1, <5>1 DEF NoEngine
        <5>2. CASE Len(cutoffs) # 0
          <6>1. current \in 1..Len(cutoffs) /\ current' \in 0..Len(cutoffs')
                /\ (Len(cutoffs') > 0 => current' # 0) /\ cutoffs' \in Seq(Window)
            BY <1>4, <5>2 DEF IInv, TypeOK, Handling
          <6>2. Len(cutoffs') # 0 /\ Len(cutoffs') \in Nat
            BY <2>1, <5>2, <6>1
          <6>3. cutoffs[current] = Default /\ cutoffs'[current'] = Default
            BY <2>1, <4>3, <6>1, <6>2 DEF Fresh
          <6> QED
            BY <4>1, <6>3
        <5> QED
          BY <5>1, <5>2
      <4> QED
        BY <1>1, <4>2, <4>3 DEF AtCutoff
    <3>6. ASSUME Sets' = {}, panel' = "guarded", live' # 0 PROVE Level(live)'
      <4>1. live' = live /\ live \in Request /\ req[live].endpoint = "events" /\ Level(live)
        BY <1>1, <1>2, <1>5, <3>6 DEF AtCutoff
      <4>2. PICK s : s = live /\ s \in Request
        BY <4>1
      <4>3. Level(s)'
        BY <3>1, <4>1, <4>2
      <4> QED
        BY <4>1, <4>2, <4>3 DEF Level
    <3> QED
      BY <3>2, <3>3, <3>4, <3>5, <3>6 DEF AtCutoff
  <2> QED
    BY <1>2, <2>2, <2>3 DEF TabInv
<1>7. CASE SetCutoff(r)
  <2>1. PICK h : h = req[r].held \union {req[r].body}
    OBVIOUS
  <2>2. /\ req'[r] = [req[r] EXCEPT !.step = "read", !.held = h]
        /\ req[r].step = "write" /\ Len(cutoffs') = Len(cutoffs) /\ ~Refused(r)
        /\ current' = current
    BY <1>4, <1>7, <2>1 DEF SetCutoff
  <2>3. /\ req'[r].answer = req[r].answer /\ req[r].answer = Blank
        /\ req'[r].engine = req[r].engine /\ req'[r].step = "read" /\ req[r].endpoint = "set"
    BY <1>1, <1>4, <2>2 DEF RequestRecord, IInv, Handling, Waiting
  <2>4. Len(cutoffs) > 0
    BY <1>4, <2>2 DEF IInv, TypeOK
  <2>5. NoEngine'
    BY <1>4, <2>2, <2>4 DEF NoEngine
  <2>6. AtCutoff'
    <3> SUFFICES ASSUME ~disturbed PROVE AtCutoff'
      BY DEF AtCutoff
    <3>1. r \in UnderWay
      <4>1. req[r].body \in Window
        BY <2>2, <2>3 DEF Refused, ChecksWindow, IInv, Handling
      <4>2. r <= sent /\ r \in 1..MaxRequests /\ sent \in Nat
        BY <1>3 DEF IInv, TypeOK, Handling, Free, Request
      <4> QED
        BY <1>3, <2>3, <4>1, <4>2 DEF UnderWay, Answered
    <3>2. r \in Sets /\ (\A s \in Sets : s = r)
      BY <1>1, <3>1 DEF InTurn
    <3>3. Steady /\ req[r].engine = current /\ clock # NoCutoff
      BY <1>1, <1>4, <2>2, <3>2 DEF AtCutoff, Fresh, Waiting
    <3>4. Steady'
      <4>1. \A s \in 1..sent : s \in Request
        BY DEF IInv, TypeOK, Request
      <4>2. sent' = sent
        BY <1>7 DEF SetCutoff
      <4>3. ASSUME NEW s \in 1..sent PROVE req'[s].step # "build"
        <5>1. CASE s = r
          BY <2>3, <5>1
        <5>2. CASE s # r
          BY <1>3, <3>3, <4>1, <5>2 DEF Steady, Building
        <5> QED
          BY <5>1, <5>2
      <4> QED
        BY <2>2, <3>3, <4>2, <4>3 DEF Steady, Building
    <3>5. Level(r)'
      BY <2>2, <2>3, <3>3 DEF Level, Blank
    <3> QED
      BY <1>2, <2>2, <2>3, <3>2, <3>3, <3>4, <3>5 DEF AtCutoff
  <2> QED
    BY <1>2, <2>5, <2>6 DEF TabInv
<1> QED
  BY <1>6, <1>7

(* What sending a request changes: it is the newest, and nothing is known  *)
(* of its answer.                                                          *)
LEMMA Posted ==
  ASSUME IInv, NEW endpoint, NEW body, Send(endpoint, body)
  PROVE  /\ sent \in Nat /\ sent + 1 \in Request /\ sent' = sent + 1
         /\ cutoffs' = cutoffs /\ current' = current
         /\ req'[sent + 1].endpoint = endpoint /\ req'[sent + 1].body = body
         /\ req'[sent + 1].step = "engine" /\ req'[sent + 1].reads = 0
         /\ req'[sent + 1].answer = Blank
         /\ \A r \in Request \ {sent + 1} : req'[r] = req[r]
         /\ req[sent + 1] = Free
<1>1. /\ sent \in Nat /\ sent < MaxRequests /\ sent' = sent + 1
      /\ cutoffs' = cutoffs /\ current' = current
  BY WindowAssumption DEF Send, IInv, TypeOK
<1>2. sent + 1 \in Request
  BY <1>1, WindowAssumption DEF Request
<1>3. PICK n, after :
        /\ n = [Free EXCEPT !.step = "engine", !.endpoint = endpoint, !.body = body,
                            !.after = after]
        /\ req' = [req EXCEPT ![sent + 1] = n]
  BY DEF Send
<1>4. /\ n.endpoint = endpoint /\ n.body = body /\ n.step = "engine" /\ n.reads = 0
      /\ n.answer = Blank
  BY <1>3 DEF Free
<1>5. req'[sent + 1] = n /\ \A r \in Request \ {sent + 1} : req'[r] = req[r]
  BY <1>2, <1>3 DEF IInv, TypeOK
<1>6. req[sent + 1] = Free
  BY <1>1, <1>2 DEF IInv, Handling
<1> QED
  BY <1>1, <1>2, <1>4, <1>5, <1>6

(* It joins what is under way, and moves no one's level.                   *)
LEMMA PostedLevel ==
  ASSUME IInv, NEW endpoint, NEW body, Send(endpoint, body), NEW q, q = sent + 1
  PROVE  /\ UnderWay' = UnderWay \union
              (IF endpoint = "set" /\ body \in Window THEN {q} ELSE {})
         /\ Building' = Building
         /\ Level(q)'
         /\ \A r \in Request \ {q} : Level(r) => Level(r)'
<1>1. /\ sent \in Nat /\ q \in Request /\ sent' = q
      /\ cutoffs' = cutoffs /\ current' = current
      /\ req'[q].endpoint = endpoint /\ req'[q].body = body
      /\ req'[q].step = "engine" /\ req'[q].reads = 0 /\ req'[q].answer = Blank
      /\ \A r \in Request \ {q} : req'[r] = req[r]
  BY Posted
<1>2. 1..q = (1..sent) \union {q} /\ q \notin 1..sent
  BY <1>1
<1>3. \A r \in 1..sent : r \in Request \ {q}
  BY <1>1, WindowAssumption DEF Request, IInv, TypeOK
<1>4. \A r \in 1..sent : req'[r] = req[r]
  BY <1>1, <1>3
<1>5. UnderWay' = UnderWay \union (IF endpoint = "set" /\ body \in Window THEN {q} ELSE {})
  BY <1>1, <1>2, <1>4 DEF UnderWay, Answered
<1>6. Building' = Building
  BY <1>1, <1>2, <1>4 DEF Building
<1>7. Level(q)'
  BY <1>1 DEF Level, Blank
<1>8. \A r \in Request \ {q} : Level(r) => Level(r)'
  BY <1>1 DEF Level
<1> QED
  BY <1>5, <1>6, <1>7, <1>8

(* The tab sends a request and may let go of answered ones, or another     *)
(* client changes the cutoff; the request is one it sends in this state.   *)
Posts(endpoint, body, q, gone, mine) ==
  /\ Send(endpoint, body) /\ q = sent + 1 /\ panel' = panel
  /\ \A r \in gone : req[r].step = "done"
  /\ mine \in {{}, {q}} /\ (mine = {} => endpoint = "set")
  /\ pending' = (pending \ gone) \union mine
  /\ live' \in {live, q}
  /\ live' = q /\ panel = "guarded" => endpoint = "events"
  /\ clock' = NoCutoff <=> clock = NoCutoff
  /\ sent' = foreign' => clock' = NoCutoff /\ pending' = {} /\ live' = 0
  /\ endpoint = "state" => pending = {} /\ clock = NoCutoff
  /\ endpoint = "set" /\ mine # {} => body \in Window /\ clock # NoCutoff

(* Then what the tab waits for is kept.                                    *)
LEMMA PostWaits ==
  ASSUME ScreenInv, Waiting, NoEngine, NEW endpoint, NEW body, NEW q, NEW gone, NEW mine,
         Posts(endpoint, body, q, gone, mine)
  PROVE  /\ Waiting' /\ NoEngine'
         /\ Sets' = (Sets \ gone) \union (IF endpoint = "set" THEN mine ELSE {})
         /\ \A r \in pending : r \in Request /\ r # q /\ req'[r] = req[r]
         /\ live # 0 => live \in Request /\ live # q /\ req'[live] = req[live]
<1> USE DEF Posts
<1>1. IInv
  BY DEF ScreenInv
<1>2. /\ sent \in Nat /\ q \in Request /\ sent' = q /\ cutoffs' = cutoffs
      /\ req'[q].endpoint = endpoint /\ req'[q].body = body
      /\ req'[q].step = "engine" /\ req'[q].reads = 0 /\ req'[q].answer = Blank
      /\ \A r \in Request \ {q} : req'[r] = req[r]
      /\ req[q] = Free
  BY <1>1, Posted
<1>3. \A r \in pending : r \in Request /\ r # q /\ req'[r] = req[r]
  <2>1. \A r \in 1..sent : r \in Request /\ r # q
    BY <1>1, <1>2, WindowAssumption DEF Request, IInv, TypeOK
  <2> QED
    BY <1>2, <2>1 DEF Waiting
<1>4. live # 0 => live \in Request /\ live # q /\ req'[live] = req[live]
  <2>1. live \in Nat /\ live <= sent /\ sent <= MaxRequests
    BY <1>1, WindowAssumption DEF ScreenInv, IInv, TypeOK
  <2> QED
    BY <1>2, <2>1, WindowAssumption DEF Request
<1>5. pending' \subseteq 1..sent'
  <2>1. \A r \in 1..sent : r \in 1..q
    BY <1>2
  <2>2. q \in 1..q
    BY <1>2
  <2> QED
    BY <1>2, <2>1, <2>2 DEF Waiting
<1>6. panel' = "guarded" /\ live' # 0 => live' \in Request /\ req'[live'].endpoint = "events"
  BY <1>2, <1>4 DEF Waiting
<1>7. \A r, s \in pending' :
        req'[r].endpoint = "state" /\ req'[s].endpoint = "state" => r = s
  BY <1>2, <1>3 DEF Waiting
<1>8. Waiting'
  <2> SUFFICES ASSUME NEW s \in Request
               PROVE  /\ s \notin pending' /\ req'[s].endpoint # "set" =>
                           req'[s].step = "done" \/ s > sent'
                      /\ req'[s].step = "write" => req'[s].answer = Blank
                      /\ req'[s].endpoint = "state" /\ s \in pending' => clock' = NoCutoff
                      /\ req'[s].endpoint = "set" /\ s \in pending' =>
                           /\ req'[s].body \in Window /\ clock' # NoCutoff
                           /\ req'[s].reads > 0 \/ req'[s].step = "done" =>
                                req'[s].answer["label"] # NoCutoff
                      /\ req'[s].endpoint = "events" =>
                           /\ req'[s].reads > 0 \/ req'[s].step = "done" =>
                                req'[s].answer["data"] # NoCutoff
                           /\ req'[s].step = "done" => req'[s].answer["label"] # NoCutoff
    BY <1>5, <1>6, <1>7 DEF Waiting, Blank
  <2>1. CASE s = q
    <3>1. q \in pending' => mine # {}
      BY <1>3
    <3> QED
      BY <1>2, <2>1, <3>1
  <2>2. CASE s # q
    <3>1. s > sent => s > sent'
      BY <1>2, <2>2 DEF Request
    <3>2. s \in pending' <=> s \in pending /\ s \notin gone
      BY <2>2
    <3>3. req'[s] = req[s]
      BY <1>2, <2>2
    <3> QED
      BY <3>1, <3>2, <3>3 DEF Waiting
  <2> QED
    BY <2>1, <2>2
<1>9. NoEngine'
  <2> SUFFICES ASSUME Len(cutoffs) = 0, NEW s \in Request
               PROVE  clock' = NoCutoff /\ req'[s].step # "done" /\ req'[s].answer = Blank
    BY <1>2 DEF NoEngine, Blank
  <2>1. clock' = NoCutoff
    BY DEF NoEngine
  <2>2. CASE s = q
    BY <1>2, <2>1, <2>2
  <2>3. CASE s # q
    BY <1>2, <2>1, <2>3 DEF NoEngine
  <2> QED
    BY <2>2, <2>3
<1>10. Sets' = (Sets \ gone) \union (IF endpoint = "set" THEN mine ELSE {})
  BY <1>2, <1>3 DEF Sets
<1> QED
  BY <1>3, <1>4, <1>8, <1>9, <1>10

(* A quiet server has its engine, and it stays, or has none yet.           *)
LEMMA QuietIsLevel ==
  ASSUME IInv, Quiet
  PROVE  Steady \/ Fresh
<1>1. Len(cutoffs) \in Nat /\ (Len(cutoffs) > 0 => current # 0)
  BY DEF IInv, TypeOK, Handling
<1> QED
  BY <1>1 DEF Quiet, Steady, Fresh

(* The provider's load.                                                    *)
LEMMA LoadSettles ==
  ASSUME ScreenInv, TabInv, Load
  PROVE  TabInv'
<1> USE WindowAssumption
<1>1. /\ IInv /\ Waiting /\ NoEngine /\ panel' = panel
      /\ sent = foreign /\ Send("state", NoCutoff) /\ pending' = {sent + 1}
      /\ UNCHANGED <<clock, live, shown, foreign>> /\ disturbed' = ~Quiet
  BY DEF TabInv, Load, ScreenInv
<1>2. pending = {} /\ live = 0 /\ clock = NoCutoff
  BY <1>1 DEF Waiting
<1>3. PICK q, endpoint, body, gone, mine :
        /\ q = sent + 1 /\ endpoint = "state" /\ body = NoCutoff /\ gone = {} /\ mine = {q}
  OBVIOUS
<1>4. /\ sent \in Nat /\ q \in Request /\ sent' = q /\ cutoffs' = cutoffs /\ current' = current
      /\ req'[q].answer = Blank /\ req'[q].step = "engine" /\ req'[q].endpoint = "state"
  BY <1>1, <1>3, Posted
<1>5. /\ Waiting' /\ NoEngine'
      /\ Sets' = (Sets \ gone) \union (IF endpoint = "set" THEN mine ELSE {})
  <2>1. /\ pending' = (pending \ gone) \union mine /\ mine \in {{}, {q}} /\ mine # {}
        /\ \A r \in gone : req[r].step = "done"
        /\ live' \in {live, q} /\ live' # q /\ endpoint # "set"
        /\ Send(endpoint, body) /\ sent' # foreign'
    BY <1>1, <1>2, <1>3, <1>4
  <2>2. Posts(endpoint, body, q, gone, mine)
    BY <1>1, <1>2, <1>3, <2>1 DEF Posts
  <2> QED
    BY <1>1, <2>2, PostWaits
<1>6. Sets = {} /\ Sets' = {}
  BY <1>2, <1>3, <1>5 DEF Sets
<1>7. /\ UnderWay' = UnderWay /\ Building' = Building
      /\ Level(q)'
  <2>1. /\ UnderWay' = UnderWay \union
             (IF endpoint = "set" /\ body \in Window THEN {q} ELSE {})
        /\ Building' = Building /\ Level(q)'
    BY <1>1, <1>3, PostedLevel
  <2> QED
    BY <1>3, <2>1
<1>8. InTurn'
  BY <1>1, <1>2, <1>6, <1>7 DEF InTurn, Quiet
<1>9. AtCutoff'
  <2> SUFFICES ASSUME Quiet PROVE AtCutoff'
    BY <1>1 DEF AtCutoff
  <2>1. Steady' \/ Fresh'
    BY <1>1, <1>4, <1>6, <1>7, QuietIsLevel DEF Steady, Fresh
  <2>2. \A r \in pending' : Level(r)'
    BY <1>1, <1>3, <1>7
  <2> QED
    BY <1>1, <1>2, <1>6, <2>1, <2>2 DEF AtCutoff
<1> QED
  BY <1>5, <1>8, <1>9 DEF TabInv

(* The first effect of the panel.                                          *)
LEMMA MountSettles ==
  ASSUME ScreenInv, TabInv, Mount
  PROVE  TabInv'
<1> USE WindowAssumption
<1>1. /\ IInv /\ Waiting /\ NoEngine /\ InTurn /\ AtCutoff /\ panel' = panel
      /\ sent > foreign /\ pending' = pending \union {sent + 1} /\ live' = sent + 1
      /\ UNCHANGED <<clock, shown, foreign, disturbed>> /\ foreign \in Nat
  BY DEF TabInv, Mount, ScreenInv
<1>2. PICK endpoint, body :
        /\ Send(endpoint, body) /\ endpoint \in {"events", "allocate"}
        /\ panel = "guarded" => endpoint = "events"
  BY DEF Mount, Fetch
<1>3. PICK q, gone, mine : q = sent + 1 /\ gone = {} /\ mine = {q}
  OBVIOUS
<1>4. /\ sent \in Nat /\ q \in Request /\ sent' = q /\ cutoffs' = cutoffs /\ current' = current
      /\ req'[q].answer = Blank /\ req'[q].endpoint = endpoint
  BY <1>1, <1>2, <1>3, Posted
<1>5. /\ Waiting' /\ NoEngine'
      /\ Sets' = (Sets \ gone) \union (IF endpoint = "set" THEN mine ELSE {})
      /\ \A r \in pending : r \in Request /\ r # q /\ req'[r] = req[r]
  <2>1. /\ pending' = (pending \ gone) \union mine /\ mine \in {{}, {q}} /\ mine # {}
        /\ \A r \in gone : req[r].step = "done"
        /\ live' \in {live, q} /\ endpoint # "set" /\ endpoint # "state"
        /\ sent' # foreign'
    BY <1>1, <1>2, <1>3, <1>4
  <2>2. Posts(endpoint, body, q, gone, mine)
    BY <1>1, <1>2, <1>3, <2>1 DEF Posts
  <2> QED
    BY <1>1, <2>2, PostWaits
<1>6. Sets' = Sets
  BY <1>2, <1>3, <1>5
<1>7. /\ UnderWay' = UnderWay /\ Building' = Building
      /\ Level(q)' /\ \A r \in Request \ {q} : Level(r) => Level(r)'
  BY <1>1, <1>2, <1>3, PostedLevel
<1>8. InTurn'
  BY <1>1, <1>6, <1>7 DEF InTurn
<1>9. AtCutoff'
  <2> SUFFICES ASSUME ~disturbed PROVE AtCutoff'
    BY <1>1 DEF AtCutoff
  <2>1. Steady' \/ Fresh'
    BY <1>1, <1>4, <1>6, <1>7 DEF AtCutoff, Steady, Fresh
  <2>2. \A r \in Sets' : /\ Level(r)'
                         /\ req'[r].step \in {"write", "read"} => req'[r].engine = current'
    BY <1>1, <1>4, <1>5, <1>6, <1>7 DEF AtCutoff, Sets
  <2>3. clock' = NoCutoff => \A r \in pending' : req'[r].endpoint = "state" => Level(r)'
    BY <1>1, <1>2, <1>3, <1>4, <1>5, <1>7 DEF AtCutoff
  <2>4. Level(live)'
    BY <1>1, <1>3, <1>7 DEF Level
  <2> QED
    BY <1>1, <1>4, <1>6, <2>1, <2>2, <2>3, <2>4 DEF AtCutoff
<1> QED
  BY <1>5, <1>8, <1>9 DEF TabInv

(* A change of the cutoff, alone if the server was quiet.                  *)
LEMMA SlideSettles ==
  ASSUME ScreenInv, TabInv, NEW c \in Window, Slide(c)
  PROVE  TabInv'
<1> USE WindowAssumption
<1>1. /\ IInv /\ Waiting /\ NoEngine /\ panel' = panel
      /\ clock # NoCutoff /\ Send("set", c) /\ foreign \in Nat /\ foreign <= sent
      /\ pending' = pending \union {sent + 1} /\ live \in Nat /\ live <= sent
      /\ disturbed' = ~Quiet
      /\ UNCHANGED <<clock, live, shown, foreign>>
  BY DEF TabInv, Slide, ScreenInv
<1>2. PICK q, endpoint, gone, mine :
        q = sent + 1 /\ endpoint = "set" /\ gone = {} /\ mine = {q}
  OBVIOUS
<1>3. /\ sent \in Nat /\ q \in Request /\ sent' = q /\ cutoffs' = cutoffs /\ current' = current
      /\ req'[q].answer = Blank /\ req'[q].step = "engine"
  BY <1>1, <1>2, Posted
<1>4. /\ Waiting' /\ NoEngine'
      /\ Sets' = (Sets \ gone) \union (IF endpoint = "set" THEN mine ELSE {})
  <2>1. /\ pending' = (pending \ gone) \union mine /\ mine \in {{}, {q}} /\ mine # {}
        /\ \A r \in gone : req[r].step = "done"
        /\ live' \in {live, q} /\ live' # q /\ endpoint # "state"
        /\ Send(endpoint, c) /\ sent' # foreign'
    BY <1>1, <1>2, <1>3
  <2>2. Posts(endpoint, c, q, gone, mine)
    BY <1>1, <1>2, <2>1 DEF Posts
  <2> QED
    BY <1>1, <2>2, PostWaits
<1>5. /\ UnderWay' = UnderWay \union {q} /\ Building' = Building
      /\ Level(q)'
  BY <1>1, <1>2, PostedLevel
<1>6. Quiet => Sets' = {q}
  BY <1>2, <1>4 DEF Quiet
<1>7. InTurn'
  BY <1>1, <1>5, <1>6 DEF InTurn, Quiet
<1>8. AtCutoff'
  <2> SUFFICES ASSUME Quiet PROVE AtCutoff'
    BY <1>1 DEF AtCutoff
  <2>1. current # 0
    BY <1>1 DEF NoEngine, IInv, TypeOK, Handling
  <2>2. Steady'
    BY <1>3, <1>5, <2>1 DEF Steady, Quiet
  <2> QED
    BY <1>1, <1>3, <1>5, <1>6, <2>2 DEF AtCutoff
<1> QED
  BY <1>4, <1>7, <1>8 DEF TabInv

(* The answer to a change: the only one under way, so the clock comes to   *)
(* the engine's cutoff and the panel fetches anew.                         *)
LEMMA TakeSetSettles ==
  ASSUME ScreenInv, TabInv, panel # "none", NEW r \in Request, TakeSet(r)
  PROVE  TabInv'
<1> USE WindowAssumption
<1>1. /\ IInv /\ Waiting /\ NoEngine /\ InTurn /\ AtCutoff /\ panel' = panel
      /\ r \in Sets /\ req[r].step = "done" /\ foreign \in Nat /\ foreign <= sent
      /\ clock' = req[r].answer["label"] /\ clock' # NoCutoff /\ clock # NoCutoff
      /\ pending' = (pending \ {r}) \union {sent + 1} /\ live' = sent + 1
      /\ UNCHANGED <<shown, foreign, disturbed>>
  BY DEF TabInv, TakeSet, Arrived, Answered, Sets, Waiting, ScreenInv
<1>2. PICK endpoint, body :
        /\ Send(endpoint, body) /\ endpoint \in {"events", "allocate"}
        /\ panel = "guarded" => endpoint = "events"
  BY DEF TakeSet, Fetch
<1>3. PICK q, gone, mine : q = sent + 1 /\ gone = {r} /\ mine = {q}
  OBVIOUS
<1>4. /\ sent \in Nat /\ q \in Request /\ sent' = q /\ cutoffs' = cutoffs /\ current' = current
  BY <1>1, <1>2, <1>3, Posted
<1>5. /\ Waiting' /\ NoEngine'
      /\ Sets' = (Sets \ gone) \union (IF endpoint = "set" THEN mine ELSE {})
  <2>1. /\ pending' = (pending \ gone) \union mine /\ mine \in {{}, {q}} /\ mine # {}
        /\ \A s \in gone : req[s].step = "done"
        /\ live' \in {live, q} /\ endpoint # "set" /\ endpoint # "state"
        /\ sent' # foreign'
    BY <1>1, <1>2, <1>3, <1>4
  <2>2. Posts(endpoint, body, q, gone, mine)
    BY <1>1, <1>2, <1>3, <2>1 DEF Posts
  <2> QED
    BY <1>1, <2>2, PostWaits
<1>6. ~disturbed => Sets' = {} /\ Sets = {r}
  BY <1>1, <1>2, <1>3, <1>5 DEF InTurn
<1>7. /\ UnderWay' = UnderWay /\ Building' = Building /\ Level(q)'
  BY <1>1, <1>2, <1>3, PostedLevel
<1>8. r \notin UnderWay
  BY <1>1 DEF UnderWay, Answered
<1>9. InTurn'
  BY <1>1, <1>6, <1>7, <1>8 DEF InTurn
<1>10. AtCutoff'
  <2> SUFFICES ASSUME ~disturbed PROVE AtCutoff'
    BY <1>1 DEF AtCutoff
  <2>1. Steady' \/ Fresh'
    BY <1>1, <1>4, <1>6, <1>7 DEF AtCutoff, Steady, Fresh
  <2>2. clock' \in {NoCutoff, cutoffs'[current']}
    BY <1>1, <1>4 DEF AtCutoff, Level, Part
  <2>3. Level(live)'
    BY <1>1, <1>3, <1>7 DEF Level
  <2> QED
    BY <1>1, <1>6, <2>1, <2>2, <2>3 DEF AtCutoff
<1> QED
  BY <1>5, <1>9, <1>10 DEF TabInv

(* Another client's change: one that is accepted disturbs, one that is     *)
(* refused does not touch what the engines hold.                           *)
LEMMA ForeignSettles ==
  ASSUME ScreenInv, TabInv, panel # "none", NEW e, NEW b, Foreign(e, b)
  PROVE  TabInv'
<1> USE WindowAssumption DEF ownVars
<1>1. /\ IInv /\ Waiting /\ NoEngine /\ InTurn /\ AtCutoff
      /\ e = "set" /\ Send(e, b) /\ foreign' = foreign + 1 /\ foreign \in Nat
      /\ disturbed' = (disturbed \/ b \in Window)
      /\ live \in Nat /\ live <= sent
      /\ UNCHANGED <<panel, clock, pending, live, shown>>
  BY DEF TabInv, Foreign, ScreenInv
<1>2. PICK q, gone, mine : q = sent + 1 /\ gone = {} /\ mine = {}
  OBVIOUS
<1>3. /\ sent \in Nat /\ q \in Request /\ sent' = q /\ cutoffs' = cutoffs /\ current' = current
  BY <1>1, <1>2, Posted
<1>4. /\ Waiting' /\ NoEngine'
      /\ Sets' = (Sets \ gone) \union (IF e = "set" THEN mine ELSE {})
      /\ \A r \in pending : r \in Request /\ r # q /\ req'[r] = req[r]
      /\ live # 0 => live \in Request /\ live # q /\ req'[live] = req[live]
  <2>1. /\ pending' = (pending \ gone) \union mine /\ mine \in {{}, {q}}
        /\ \A s \in gone : req[s].step = "done"
        /\ live' \in {live, q} /\ live' # q /\ e # "state"
    BY <1>1, <1>2, <1>3
  <2>2. sent' = foreign' => clock' = NoCutoff /\ pending' = {} /\ live' = 0
    BY <1>1, <1>2, <1>3 DEF Waiting
  <2>3. Posts(e, b, q, gone, mine)
    BY <1>1, <1>2, <2>1, <2>2 DEF Posts
  <2> QED
    BY <1>1, <2>3, PostWaits
<1>5. Sets' = Sets
  BY <1>1, <1>2, <1>4
<1>6. /\ UnderWay' = UnderWay \union (IF e = "set" /\ b \in Window THEN {q} ELSE {})
      /\ Building' = Building
      /\ \A r \in Request \ {q} : Level(r) => Level(r)'
  BY <1>1, <1>2, PostedLevel
<1>7. InTurn'
  BY <1>1, <1>5, <1>6 DEF InTurn
<1>8. AtCutoff'
  <2> SUFFICES ASSUME ~disturbed' PROVE AtCutoff'
    BY DEF AtCutoff
  <2>1. ~disturbed
    BY <1>1
  <2>2. Steady' \/ Fresh'
    BY <1>1, <1>3, <1>5, <1>6, <2>1 DEF AtCutoff, Steady, Fresh
  <2>3. \A r \in Sets' : /\ Level(r)'
                         /\ req'[r].step \in {"write", "read"} => req'[r].engine = current'
    BY <1>1, <1>3, <1>4, <1>5, <1>6, <2>1 DEF AtCutoff, Sets
  <2>4. clock' = NoCutoff => \A r \in pending' : req'[r].endpoint = "state" => Level(r)'
    BY <1>1, <1>3, <1>4, <1>6, <2>1 DEF AtCutoff
  <2>5. ASSUME Sets' = {}, panel' = "guarded", live' # 0 PROVE Level(live)'
    <3>1. PICK s : s = live /\ s \in Request \ {q}
      BY <1>1, <1>4, <2>5
    <3>2. Level(s)'
      BY <1>1, <1>5, <1>6, <2>1, <2>5, <3>1 DEF AtCutoff
    <3> QED
      BY <1>1, <3>1, <3>2 DEF Level
  <2> QED
    BY <1>1, <1>3, <1>5, <2>1, <2>2, <2>3, <2>4, <2>5 DEF AtCutoff
<1> QED
  BY <1>4, <1>7, <1>8 DEF TabInv

(* Letting go of an answered request disturbs only who waits for it.       *)
LEMMA TakenWaits ==
  ASSUME Waiting, NoEngine, UNCHANGED <<serverVars, panel, live, foreign>>,
         NEW r \in Request, Arrived(r), pending' = pending \ {r},
         clock' = clock \/ req[r].endpoint = "state"
  PROVE  Waiting' /\ NoEngine' /\ Sets' = Sets \ {r} /\ Len(cutoffs) # 0
<1> USE DEF serverVars, Arrived, Answered
<1>1. Len(cutoffs) # 0
  BY DEF NoEngine
<1>2. NoEngine'
  BY <1>1 DEF NoEngine
<1>3. Sets' = Sets \ {r}
  BY DEF Sets
<1>4. pending \subseteq 1..sent /\ req[r].step = "done" /\ sent # foreign
  BY DEF Waiting
<1>5. Waiting'
  <2>1. CASE clock' = clock
    BY <2>1, <1>4 DEF Waiting, Blank
  <2>2. CASE req[r].endpoint = "state"
    <3>1. clock = NoCutoff
      BY <1>4, <2>2 DEF Waiting
    <3>2. \A s \in Request : req[s].endpoint = "set" /\ s \in pending => FALSE
      BY <3>1 DEF Waiting
    <3>3. \A s \in Request : req[s].endpoint = "state" /\ s \in pending' => FALSE
      BY <2>2 DEF Waiting
    <3> QED
      BY <1>4, <3>1, <3>2, <3>3 DEF Waiting, Blank
  <2> QED
    BY <2>1, <2>2
<1> QED
  BY <1>1, <1>2, <1>3, <1>5

(* The answers that are no change of the cutoff, and the answers that are  *)
(* refusals or get lost.                                                   *)
LEMMA TakenSettles ==
  ASSUME ScreenInv, TabInv, panel # "none", NEW r \in Request,
         TakeState(r) \/ TakeFetch(r) \/ TakeError(r)
  PROVE  TabInv'
<1> USE WindowAssumption DEF serverVars
<1>1. /\ Waiting /\ NoEngine /\ InTurn /\ AtCutoff
      /\ UNCHANGED <<serverVars, panel, live, foreign>> /\ Arrived(r) /\ pending' = pending \ {r}
      /\ clock' = clock \/ req[r].endpoint = "state"
      /\ disturbed => disturbed'
  BY DEF TabInv, TakeState, TakeFetch, TakeError
<1>2. Waiting' /\ NoEngine' /\ Sets' = Sets \ {r} /\ Len(cutoffs) # 0
  BY <1>1, TakenWaits
<1>3. /\ UnderWay' = UnderWay /\ Building' = Building
      /\ \A s : Level(s) => Level(s)'
  BY <1>1 DEF UnderWay, Building, Answered, Level
<1>4. ASSUME Sets' = Sets, Steady \/ Fresh PROVE Steady' \/ Fresh'
  BY <1>1, <1>3, <1>4 DEF Steady, Fresh
<1>5. \A s \in Sets : req'[s] = req[s] /\ cutoffs' = cutoffs /\ current' = current
  BY <1>1
<1>6. CASE TakeState(r)
  <2>1. /\ req[r].endpoint = "state" /\ r \in pending /\ clock = NoCutoff /\ r \in Request
        /\ clock' = req[r].answer["label"] /\ disturbed' = disturbed /\ shown' = shown
    BY <1>1, <1>6 DEF TakeState, Arrived, Waiting
  <2>2. Sets = {} /\ Sets' = {}
    <3>1. \A s \in 1..sent : s \in Request
      BY DEF ScreenInv, IInv, TypeOK, Request
    <3> QED
      BY <1>1, <1>2, <2>1, <3>1 DEF Sets, Waiting
  <2>3. panel = "guarded" /\ live # 0 => live # r
    BY <1>1, <2>1 DEF Waiting
  <2>4. InTurn'
    BY <1>1, <1>3, <2>1, <2>2, <2>3 DEF InTurn
  <2>5. AtCutoff'
    <3> SUFFICES ASSUME ~disturbed PROVE AtCutoff'
      BY <2>1 DEF AtCutoff
    <3>1. Steady' \/ Fresh'
      BY <1>1, <1>4, <2>2 DEF AtCutoff
    <3>2. clock' \in {NoCutoff, cutoffs'[current']}
      BY <1>1, <2>1 DEF AtCutoff, Level, Part
    <3>3. \A s \in pending' : req'[s].endpoint = "state" => FALSE
      BY <1>1, <2>1 DEF Waiting
    <3>4. panel' = "guarded" /\ live' # 0 => Level(live)'
      BY <1>1, <2>2 DEF AtCutoff, Level
    <3> QED
      BY <2>2, <3>1, <3>2, <3>3, <3>4 DEF AtCutoff
  <2> QED
    BY <1>2, <2>4, <2>5 DEF TabInv
<1>7. ASSUME clock' = clock, disturbed' = disturbed, Sets' = Sets PROVE AtCutoff'
  <2> SUFFICES ASSUME ~disturbed PROVE AtCutoff'
    BY <1>7 DEF AtCutoff
  <2>1. Steady' \/ Fresh'
    BY <1>1, <1>4, <1>7 DEF AtCutoff
  <2>2. \A s \in Sets' : /\ Level(s)'
                         /\ req'[s].step \in {"write", "read"} => req'[s].engine = current'
    BY <1>1, <1>3, <1>5, <1>7 DEF AtCutoff
  <2>3. clock' = NoCutoff => \A s \in pending' : req'[s].endpoint = "state" => Level(s)'
    BY <1>1, <1>3, <1>7 DEF AtCutoff
  <2>4. Sets' = {} => clock' \in {NoCutoff, cutoffs'[current']}
    BY <1>1, <1>7 DEF AtCutoff
  <2>5. Sets' = {} /\ panel' = "guarded" /\ live' # 0 => Level(live)'
    BY <1>1, <1>7 DEF AtCutoff, Level
  <2> QED
    BY <2>1, <2>2, <2>3, <2>4, <2>5 DEF AtCutoff
<1>8. CASE TakeFetch(r)
  <2>1. /\ req[r].endpoint \in {"events", "allocate"} /\ clock' = clock
        /\ disturbed' = disturbed /\ shown' = IF Applies(r) THEN r ELSE shown
    BY <1>8 DEF TakeFetch
  <2>2. Sets' = Sets
    BY <1>2, <2>1 DEF Sets
  <2>3. InTurn'
    BY <1>1, <1>3, <2>1, <2>2 DEF InTurn, Applies
  <2> QED
    BY <1>2, <1>7, <2>1, <2>2, <2>3 DEF TabInv
<1>9. CASE TakeError(r)
  <2>1. clock' = clock /\ shown' = shown
    BY <1>9 DEF TakeError
  <2>2. CASE disturbed'
    BY <1>2, <2>2 DEF TabInv, InTurn, AtCutoff
  <2>3. CASE ~disturbed'
    <3>1. Refused(r) /\ disturbed' = disturbed
      BY <1>9, <2>3 DEF TakeError
    <3>2. req[r].endpoint \notin {"set", "events", "state"}
      BY <1>1, <3>1 DEF Refused, ChecksWindow, Waiting, Arrived
    <3>3. Sets' = Sets
      BY <1>2, <3>2 DEF Sets
    <3>4. panel = "guarded" /\ live # 0 => live # r
      BY <1>1, <3>2 DEF Waiting
    <3>5. InTurn'
      BY <1>1, <1>3, <2>1, <3>1, <3>3, <3>4 DEF InTurn
    <3> QED
      BY <1>2, <1>7, <2>1, <3>1, <3>3, <3>5 DEF TabInv
  <2> QED
    BY <2>2, <2>3
<1> QED
  BY <1>6, <1>8, <1>9

(* The invariant of the settled screen.                                    *)
LEMMA TabInvariant == ScreenSpec => [](NoTab /\ TabInv)
<1> USE WindowAssumption
<1>1. ScreenInit => NoTab /\ TabInv
  <2> SUFFICES ASSUME ScreenInit PROVE NoTab /\ TabInv
    OBVIOUS
  <2>1. /\ clock = NoCutoff /\ pending = {} /\ live = 0 /\ cutoffs = <<>> /\ sent = 0
        /\ \A r \in Request : req[r] = Free
    BY DEF ScreenInit, Init
  <2>2. Free.step = "free" /\ Free.endpoint = "state" /\ Free.answer = Blank
    BY DEF Free
  <2>3. Waiting
    <3>1. \A r \in Request : /\ r > sent /\ req[r].step = "free" /\ req[r].endpoint = "state"
                             /\ r \notin pending
      BY <2>1, <2>2 DEF Request
    <3> QED
      BY <2>1, <3>1 DEF Waiting
  <2>4. NoEngine
    BY <2>1, <2>2 DEF NoEngine
  <2>5. Sets = {} /\ 1..sent = {} /\ Fresh
    BY <2>1 DEF Sets, Fresh
  <2>6. InTurn /\ AtCutoff
    BY <2>1, <2>5 DEF InTurn, AtCutoff, UnderWay
  <2> QED
    BY <2>1, <2>3, <2>4, <2>6 DEF NoTab, TabInv
<1>2. ScreenInv /\ ScreenInv' /\ NoTab /\ TabInv /\ [ScreenNext]_vars => (NoTab /\ TabInv)'
  <2> SUFFICES ASSUME ScreenInv, ScreenInv', NoTab, TabInv, [ScreenNext]_vars
               PROVE  (NoTab /\ TabInv)'
    OBVIOUS
  <2>1. panel' = panel
    BY DEF ScreenNext, Foreign, Load, Mount, Slide, TakeState, TakeSet, TakeFetch, TakeError,
           tabVars, ownVars, vars
  <2>2. CASE panel = "none"
    <3>1. UNCHANGED <<clock, pending>>
      BY <2>2 DEF ScreenNext, Foreign, Load, Mount, Slide, TakeState, TakeSet, TakeFetch,
                  TakeError, tabVars, ownVars, vars, Arrived, NoTab
    <3> QED
      BY <2>1, <2>2, <3>1 DEF NoTab, TabInv
  <2>3. CASE panel # "none"
    <3>1. ASSUME NEW r \in Request, Serve(r), UNCHANGED tabVars PROVE TabInv'
      BY <2>3, <3>1, ServeSettles DEF ScreenInv
    <3>2. ASSUME Load PROVE TabInv'
      BY <3>2, LoadSettles
    <3>3. ASSUME Mount PROVE TabInv'
      BY <3>3, MountSettles
    <3>4. ASSUME NEW c \in Window, Slide(c) PROVE TabInv'
      BY <3>4, SlideSettles
    <3>5. ASSUME NEW r \in Request, TakeSet(r) PROVE TabInv'
      BY <2>3, <3>5, TakeSetSettles
    <3>6. ASSUME NEW r \in Request, TakeState(r) \/ TakeFetch(r) \/ TakeError(r) PROVE TabInv'
      BY <2>3, <3>6, TakenSettles
    <3>7. ASSUME NEW e, NEW b, Foreign(e, b) PROVE TabInv'
      BY <2>3, <3>7, ForeignSettles
    <3>8. CASE UNCHANGED vars
      <4>1. /\ UNCHANGED <<cutoffs, current, sent, req, panel, clock, pending>>
            /\ UNCHANGED <<live, shown, foreign, disturbed>>
        BY <3>8 DEF vars, serverVars, tabVars, ownVars
      <4>2. Sets' = Sets /\ UnderWay' = UnderWay /\ Building' = Building
        BY <4>1 DEF Sets, UnderWay, Building, Answered
      <4>3. Waiting /\ NoEngine /\ InTurn /\ AtCutoff
        BY <2>3 DEF TabInv
      <4>4. Waiting'
        BY <4>1, <4>3 DEF Waiting, Blank
      <4>5. NoEngine'
        BY <4>1, <4>3 DEF NoEngine, Blank
      <4>6. InTurn'
        BY <4>1, <4>2, <4>3 DEF InTurn
      <4>7. AtCutoff'
        <5>1. (Steady \/ Fresh) => (Steady' \/ Fresh')
          BY <4>1, <4>2 DEF Steady, Fresh
        <5>2. (\A s : Level(s) => Level(s)') /\ (Level(live) => Level(live)')
          BY <4>1 DEF Level
        <5> QED
          BY <4>1, <4>2, <4>3, <5>1, <5>2 DEF AtCutoff
      <4> QED
        BY <2>1, <2>3, <4>4, <4>5, <4>6, <4>7 DEF TabInv, NoTab
    <3>9. CASE ScreenNext
      <4>1. TabInv'
        BY <3>1, <3>2, <3>3, <3>4, <3>5, <3>6, <3>7, <3>9 DEF ScreenNext
      <4> QED
        BY <2>1, <2>3, <4>1 DEF NoTab
    <3> QED
      BY <3>8, <3>9
  <2> QED
    BY <2>2, <2>3
<1> QED
  BY <1>1, <1>2, ScreenInvariant, PTL DEF ScreenSpec

(* Once every request of the tab was answered, the provider's clock, a     *)
(* panel with useApi and the engine are at the same cutoff, whatever the   *)
(* order in which answers arrive and however often the screen was parted   *)
(* from the engine before: if since the tab was loaded, or its last change *)
(* of the cutoff was sent, no answer to it was lost, no other change, its  *)
(* own or another client's, was under way or followed, and no first        *)
(* request was building an engine when it was sent.                        *)
THEOREM ScreenSettles == ScreenSpec => []SettledScreen
<1> USE WindowAssumption
<1>1. ScreenInv /\ NoTab /\ TabInv => SettledScreen
  <2> SUFFICES ASSUME ScreenInv, NoTab, TabInv,
                      pending = {}, ~disturbed, clock # NoCutoff
               PROVE  /\ clock = cutoffs[current]
                      /\ panel = "guarded" /\ live # 0 =>
                           /\ shown = live
                           /\ {req[shown].answer[p] : p \in {"data", "label"}} = {clock}
    BY DEF SettledScreen
  <2>1. Waiting /\ InTurn /\ AtCutoff
    BY DEF NoTab, TabInv
  <2>2. Sets = {}
    BY DEF Sets
  <2>3. clock = cutoffs[current]
    BY <2>1, <2>2 DEF AtCutoff
  <2>4. ASSUME panel = "guarded", live # 0
        PROVE  shown = live /\ {req[shown].answer[p] : p \in {"data", "label"}} = {clock}
    <3>1. shown = live /\ live \in Request /\ req[live].endpoint = "events"
      BY <2>1, <2>2, <2>4 DEF InTurn, Waiting
    <3>2. live <= sent /\ live \in Nat /\ sent \in Nat
      BY DEF ScreenInv, IInv, TypeOK
    <3>3. req[live].step = "done"
      BY <2>1, <3>1, <3>2 DEF Waiting
    <3>4. Level(live) /\ "data" \in Part /\ "label" \in Part
      BY <2>1, <2>2, <2>4 DEF AtCutoff, Part
    <3>5. req[live].answer["data"] = clock /\ req[live].answer["label"] = clock
      BY <2>1, <2>3, <3>1, <3>3, <3>4 DEF Waiting, Level
    <3> QED
      BY <3>1, <3>5
  <2> QED
    BY <2>3, <2>4
<1> QED
  BY <1>1, ScreenInvariant, TabInvariant, PTL
=============================================================================
