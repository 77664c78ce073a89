--------------------------- MODULE McpSessionProofs ---------------------------
(***************************************************************************)
(* The copilot's transport for any number of request threads, requests and *)
(* parts: a call finds its session, requests share one server until a      *)
(* start is refused, and the label of an answer tells which transport      *)
(* answered it.                                                            *)
(***************************************************************************)
EXTENDS McpSession, FiniteSetTheorems, TLAPS

(* Where a thread is tells what it has written: a session before it        *)
(* announces it, the error before it raises the ready flag.  Without an    *)
(* error, ready therefore means that there is a session.                   *)
Flags ==
  /\ \A n \in Start : thread[n].pc # "none" => loop # 0
  /\ \A n \in Start : thread[n].pc \in {"announcing", "serving"} => session # 0
  /\ \A n \in Start : thread[n].pc = "flagging" => error
  /\ ready /\ ~error => session # 0
  /\ session # 0 => loop # 0

(* A request's tools are those of its place, and an answer that is still   *)
(* labelled "mcp" has no part from elsewhere.                              *)
Honest(k) ==
  /\ k.pc \in {"calling", "awaiting"} => session # 0 /\ k.tools = "mcp" /\ k.left > 0
  /\ k.pc = "local" => k.tools = "inprocess_fallback" /\ k.left > 0
  /\ k.tools = "mcp" => k.via \subseteq {"mcp"}

Clients == \A c \in Client : Honest(client[c])

(* A start is under way, has opened a session, or has been refused.        *)
Counted ==
  /\ Started <= refused + 1
  /\ lock = Nobody /\ session = 0 => Started <= refused

(* Until a start is refused there is one start, and one session and loop.  *)
First ==
  refused = 0 =>
    /\ loop <= 1 /\ session <= 1
    /\ \A n \in Start : n > 1 => thread[n].pc = "none"
    /\ \A c \in Client : client[c].pc = "awaiting" => client[c].job = <<1, 1>>

IInv == TypeOK /\ Flags /\ Clients /\ Counted /\ First

-----------------------------------------------------------------------------
(* Steps of the two kinds of threads                                       *)

(* Threads are counted by a finite set.                                    *)
LEMMA StartedIsNat == Started \in Nat
<1>1. IsFiniteSet(Start)
  BY FS_Interval, ConstantsAssumption DEF Start
<1>2. IsFiniteSet({n \in Start : thread[n].pc # "none"})
  BY <1>1, FS_Subset
<1> QED
  BY <1>2, FS_CardinalityType DEF Started

(* What Proceed leaves: the request is over, or it has a part to do with   *)
(* the tools it now has.                                                   *)
LEMMA Proceeds ==
  ASSUME client \in [Client -> ClientRecord], NEW c \in Client,
         NEW req \in ClientRecord, NEW left \in Nat, Proceed(c, req, left)
  PROVE  /\ client' \in [Client -> ClientRecord]
         /\ \A d \in Client : d # c => client'[d] = client[d]
         /\ client'[c].pc # "awaiting"
         /\ left = 0 => client'[c] = NoRequest
         /\ left # 0 => /\ client'[c].pc = IF req.tools = "mcp" THEN "calling" ELSE "local"
                        /\ client'[c].left = left /\ client'[c].tools = req.tools
                        /\ client'[c].via = req.via
<1> DEFINE pc == IF req.tools = "mcp" THEN "calling" ELSE "local"
           next == [req EXCEPT !.pc = pc, !.left = left, !.job = <<0, 0>>]
<1>1. client' = [client EXCEPT ![c] = IF left = 0 THEN NoRequest ELSE next]
  BY DEF Proceed
<1>2. next \in ClientRecord
  <2>1. pc \in {"idle", "starting", "waiting", "calling", "awaiting", "local", "failed", "erred"}
    OBVIOUS
  <2>2. <<0, 0>> \in Nat \X Nat
    OBVIOUS
  <2> HIDE DEF pc
  <2> QED
    BY <2>1, <2>2 DEF ClientRecord
<1>3. /\ next.pc = pc /\ next.left = left /\ next.tools = req.tools /\ next.via = req.via
  <2> HIDE DEF pc
  <2> QED
    BY DEF ClientRecord
<1>4. NoRequest \in ClientRecord /\ NoRequest.pc = "idle"
  BY DEF NoRequest, ClientRecord
<1> HIDE DEF next
<1> QED
  BY <1>1, <1>2, <1>3, <1>4

(* A request goes on honestly if its tools are there and its parts fit.    *)
LEMMA ProceedsHonestly ==
  ASSUME client \in [Client -> ClientRecord], NEW c \in Client,
         NEW req \in ClientRecord, NEW left \in Nat, Proceed(c, req, left),
         req.tools = "mcp" => session # 0 /\ req.via \subseteq {"mcp"}, UNCHANGED session
  PROVE  Honest(client[c])'
<1>1. CASE left = 0
  <2>1. client'[c] = NoRequest
    BY <1>1, Proceeds
  <2> QED
    BY <2>1 DEF Honest, NoRequest
<1>2. CASE left # 0
  <2>1. /\ client'[c].pc = IF req.tools = "mcp" THEN "calling" ELSE "local"
        /\ client'[c].left = left /\ client'[c].tools = req.tools
        /\ client'[c].via = req.via
    BY <1>2, Proceeds
  <2>2. req.tools \in {"mcp", "inprocess_fallback"}
    BY DEF ClientRecord
  <2> QED
    BY <1>2, <2>1, <2>2 DEF Honest
<1> QED
  BY <1>1, <1>2

(* A request's step that leaves the threads and their flags alone.         *)
LEMMA ClientStep ==
  ASSUME IInv, NEW c \in Client, client' \in [Client -> ClientRecord],
         \A d \in Client : d # c => client'[d] = client[d],
         Honest(client[c])', UNCHANGED <<loop, session, ready, error, thread>>,
         refused' \in Nat, refused' = 0 => refused = 0, Started <= refused' + 1,
         refused' = 0 /\ client'[c].pc = "awaiting" => client'[c].job = <<1, 1>>,
         lock' = Nobody /\ session = 0 => Started <= refused'
  PROVE  IInv'
<1>1. Started' = Started
  BY DEF Started
<1>2. Clients'
  <2> SUFFICES ASSUME NEW d \in Client PROVE Honest(client[d])'
    BY DEF Clients
  <2>1. CASE d = c
    BY <2>1
  <2>2. CASE d # c
    BY <2>2 DEF IInv, Clients, Honest
  <2> QED
    BY <2>1, <2>2
<1>3. Flags' /\ TypeOK' /\ Counted'
  BY <1>1 DEF IInv, Flags, TypeOK, Counted
<1>4. First'
  BY DEF IInv, First
<1> QED
  BY <1>2, <1>3, <1>4 DEF IInv

(* A background thread's step: it was started and goes to another place.   *)
LEMMA ThreadStep ==
  ASSUME IInv, NEW n \in Start, thread' \in [Start -> ThreadRecord],
         thread[n].pc # "none", thread'[n].pc # "none",
         \A m \in Start : m # n => thread'[m] = thread[m],
         UNCHANGED <<lock, loop, client, refused>>,
         session' \in Nat, session # 0 => session' # 0, ready' \in BOOLEAN,
         refused = 0 => session' <= 1,
         error' \in BOOLEAN, error => error',
         thread'[n].pc \in {"announcing", "serving"} => session' # 0,
         thread'[n].pc = "flagging" => error', ready' /\ ~error' => session' # 0
  PROVE  IInv'
<1>1. {m \in Start : thread'[m].pc # "none"} = {m \in Start : thread[m].pc # "none"}
  OBVIOUS
<1>2. Started' = Started
  BY <1>1 DEF Started
<1>3. TypeOK'
  BY DEF IInv, TypeOK
<1>4. Flags'
  <2>1. loop' # 0
    BY DEF IInv, Flags
  <2>2. \A m \in Start : thread'[m].pc \in {"announcing", "serving"} => session' # 0
    BY DEF IInv, Flags
  <2>3. \A m \in Start : thread'[m].pc = "flagging" => error'
    BY DEF IInv, Flags
  <2> QED
    BY <2>1, <2>2, <2>3 DEF Flags
<1>5. Clients'
  BY DEF IInv, Clients, Honest
<1>6. Counted'
  BY <1>2 DEF IInv, Counted
<1>7. First'
  BY DEF IInv, First
<1> QED
  BY <1>3, <1>4, <1>5, <1>6, <1>7 DEF IInv

-----------------------------------------------------------------------------
(* Requests                                                                *)

(* A step that changes one request.                                        *)
LEMMA Moved ==
  ASSUME TypeOK, NEW c \in Client, NEW k \in ClientRecord,
         client' = [client EXCEPT ![c] = k]
  PROVE  /\ client' \in [Client -> ClientRecord] /\ client'[c] = k
         /\ \A d \in Client : d # c => client'[d] = client[d]
<1> QED
  BY DEF TypeOK

LEMMA ArriveStep == ASSUME IInv, NEW c \in Client, Arrive(c) PROVE IInv'
<1> DEFINE parts == IF asked = 0 THEN 0 ELSE Parts
           k == [NoRequest EXCEPT !.pc = "starting", !.left = parts]
<1>1. TypeOK /\ client' = [client EXCEPT ![c] = k]
  BY DEF Arrive, IInv
<1>2. parts \in Nat
  BY ConstantsAssumption
<1> HIDE DEF parts
<1>3. k \in ClientRecord /\ k.pc = "starting" /\ k.via = {}
  BY <1>2 DEF NoRequest, ClientRecord
<1> HIDE DEF k
<1>4. /\ client' \in [Client -> ClientRecord] /\ client'[c] = k
      /\ \A d \in Client : d # c => client'[d] = client[d]
  BY <1>1, <1>3, Moved
<1>5. Honest(client[c])'
  BY <1>3, <1>4 DEF Honest
<1> QED
  BY <1>4, <1>5, ClientStep DEF Arrive, object, IInv, TypeOK, Counted

(* The lock was free and there was no session: the starts made so far have *)
(* all been refused, and this one is the one more that Counted allows.     *)
LEMMA StartSpawnsStep == ASSUME IInv, NEW c \in Client, StartSpawns(c) PROVE IInv'
<1> DEFINE k == [client[c] EXCEPT !.pc = "waiting"]
           new == Started + 1
<1>1. TypeOK /\ client' = [client EXCEPT ![c] = k] /\ Started \in Nat /\ new \in Nat \ {0}
      /\ new = Started + 1
  BY StartedIsNat DEF StartSpawns, IInv
<1>2. client[c] \in ClientRecord
  BY <1>1 DEF TypeOK
<1>3. k \in ClientRecord /\ k.pc = "waiting" /\ k.tools = client[c].tools /\ k.via = client[c].via
  BY <1>2 DEF ClientRecord
<1> HIDE DEF k
<1>4. /\ client' \in [Client -> ClientRecord] /\ client'[c] = k
      /\ \A d \in Client : d # c => client'[d] = client[d]
  BY <1>1, <1>3, Moved
<1>5. loop' = new /\ thread' = [thread EXCEPT ![new] = [pc |-> "started", runs |-> 0]]
  BY DEF StartSpawns
<1>6. UNCHANGED <<session, ready, error, refused>> /\ lock = Nobody /\ session = 0 /\ lock' = c
  BY DEF StartSpawns
<1>7. [pc |-> "started", runs |-> 0] \in ThreadRecord
  BY DEF ThreadRecord
<1> HIDE DEF new
<1>8. thread' \in [Start -> ThreadRecord]
  BY <1>1, <1>5, <1>7 DEF TypeOK
<1>9. \A n \in Start : thread'[n] = thread[n] \/ thread'[n].pc = "started"
  BY <1>1, <1>5 DEF TypeOK
<1>10. TypeOK'
  BY <1>1, <1>4, <1>5, <1>6, <1>8 DEF TypeOK
<1>11. Flags'
  <2>1. \A n \in Start : thread'[n].pc \in {"announcing", "serving"} => session' # 0
    BY <1>6, <1>9 DEF IInv, Flags
  <2>2. \A n \in Start : thread'[n].pc = "flagging" => error'
    BY <1>6, <1>9 DEF IInv, Flags
  <2> QED
    BY <1>1, <1>5, <1>6, <2>1, <2>2 DEF IInv, Flags
<1>12. Clients'
  <2> SUFFICES ASSUME NEW d \in Client PROVE Honest(client[d])'
    BY DEF Clients
  <2>1. CASE d = c
    BY <1>3, <1>4, <2>1 DEF Honest, IInv, Clients
  <2>2. CASE d # c
    BY <1>4, <1>6, <2>2 DEF IInv, Clients, Honest
  <2> QED
    BY <2>1, <2>2
<1>13. Started' <= Started + 1
  <2> DEFINE old == {n \in Start : thread[n].pc # "none"}
             now == {n \in Start : thread'[n].pc # "none"}
  <2>1. IsFiniteSet(Start)
    BY FS_Interval, ConstantsAssumption DEF Start
  <2>2. IsFiniteSet(old) /\ IsFiniteSet(now)
    BY <2>1, FS_Subset
  <2>3. now \subseteq old \union {new}
    BY <1>1, <1>5 DEF TypeOK
  <2>4. /\ IsFiniteSet(old \union {new})
        /\ Cardinality(old \union {new}) = Cardinality(old) \/ Cardinality(old \union {new}) = Cardinality(old) + 1
    BY <2>2, FS_AddElement
  <2>5. Cardinality(now) <= Cardinality(old \union {new})
    BY <2>3, <2>4, FS_Subset
  <2>6. Cardinality(now) \in Nat /\ Cardinality(old) \in Nat
    BY <2>2, FS_CardinalityType
  <2>7. Started = Cardinality(old) /\ Started' = Cardinality(now)
    BY DEF Started
  <2> QED
    BY <2>4, <2>5, <2>6, <2>7
<1>14. Counted'
  <2>1. Started' \in Nat
    BY <1>10, FS_Interval, FS_Subset, FS_CardinalityType, ConstantsAssumption DEF Started, Start
  <2>2. lock' # Nobody
    BY <1>6, ConstantsAssumption
  <2>3. Started <= refused /\ refused \in Nat
    BY <1>1, <1>6 DEF IInv, Counted, TypeOK
  <2> QED
    BY <1>1, <1>6, <1>13, <2>1, <2>2, <2>3 DEF Counted
<1>15. First'
  <2> SUFFICES ASSUME refused = 0 PROVE First'
    BY <1>6 DEF First
  <2>1. new = 1
    BY <1>1, <1>6 DEF IInv, Counted
  <2>2. \A n \in Start : n > 1 => thread'[n].pc = "none"
    BY <1>1, <1>5, <2>1 DEF IInv, First, TypeOK, Start
  <2>3. \A d \in Client : client'[d].pc = "awaiting" => client'[d].job = <<1, 1>>
    <3> SUFFICES ASSUME NEW d \in Client, client'[d].pc = "awaiting"
                 PROVE  client'[d].job = <<1, 1>>
      OBVIOUS
    <3>1. d # c
      BY <1>3, <1>4
    <3> QED
      BY <1>4, <3>1 DEF IInv, First
  <2> QED
    BY <1>5, <1>6, <2>1, <2>2, <2>3 DEF First
<1> QED
  BY <1>10, <1>11, <1>12, <1>14, <1>15 DEF IInv

(* start() returns, with the session it found or waited for, or raises.    *)
LEMMA StartEndsStep ==
  ASSUME IInv, NEW c \in Client, StartReturns(c) \/ StartSucceeds(c) \/ StartRaises(c)
  PROVE  IInv'
<1>1. /\ client \in [Client -> ClientRecord] /\ refused \in Nat /\ Started \in Nat
      /\ client[c] \in ClientRecord /\ client[c].left \in Nat
  BY StartedIsNat DEF IInv, TypeOK, ClientRecord
<1>2. Honest(client[c])
  BY DEF IInv, Clients
<1>3. CASE StartReturns(c)
  <2>1. session # 0 /\ Proceed(c, client[c], client[c].left)
        /\ UNCHANGED <<loop, session, ready, error, thread, refused>>
    BY <1>3 DEF StartReturns, object
  <2>2. Honest(client[c])'
    BY <1>1, <1>2, <2>1, ProceedsHonestly DEF Honest
  <2> QED
    BY <1>1, <2>1, <2>2, Proceeds, ClientStep DEF IInv, Counted
<1>4. CASE StartSucceeds(c)
  <2>1. session # 0 /\ Proceed(c, client[c], client[c].left)
        /\ UNCHANGED <<loop, session, ready, error, thread, refused>>
    BY <1>4 DEF StartSucceeds, IInv, Flags
  <2>2. Honest(client[c])'
    BY <1>1, <1>2, <2>1, ProceedsHonestly DEF Honest
  <2> QED
    BY <1>1, <2>1, <2>2, Proceeds, ClientStep DEF IInv, Counted
<1>5. CASE StartRaises(c)
  <2> DEFINE req == [client[c] EXCEPT !.tools = "inprocess_fallback"]
  <2>1. Proceed(c, req, client[c].left) /\ refused' = refused + 1
        /\ UNCHANGED <<loop, session, ready, error, thread>>
    BY <1>5 DEF StartRaises
  <2>2. req \in ClientRecord /\ req.tools = "inprocess_fallback"
    BY <1>1 DEF ClientRecord
  <2> HIDE DEF req
  <2>3. Honest(client[c])'
    BY <1>1, <2>1, <2>2, ProceedsHonestly
  <2>4. /\ client' \in [Client -> ClientRecord]
        /\ \A d \in Client : d # c => client'[d] = client[d]
        /\ client'[c].pc # "awaiting"
    BY <1>1, <2>1, <2>2, Proceeds
  <2>5. refused' \in Nat /\ refused' # 0 /\ Started <= refused' + 1 /\ Started <= refused'
    BY <1>1, <2>1 DEF IInv, Counted
  <2> QED
    BY <2>1, <2>3, <2>4, <2>5, ClientStep
<1> QED
  BY <1>3, <1>4, <1>5

LEMMA SubmitStep ==
  ASSUME IInv, NEW c \in Client, Submit(c) \/ SubmitRaises(c) PROVE IInv'
<1>1. client \in [Client -> ClientRecord] /\ client[c] \in ClientRecord /\ TypeOK
      /\ session \in Nat /\ loop \in Nat
  BY DEF IInv, TypeOK
<1>2. Honest(client[c]) /\ client[c].pc = "calling"
  BY DEF IInv, Clients, Submit, SubmitRaises
<1>3. UNCHANGED <<lock, loop, session, ready, error, thread, refused>>
  BY DEF Submit, SubmitRaises, object
<1>4. PICK k \in ClientRecord :
        /\ client' = [client EXCEPT ![c] = k] /\ k.pc \in {"awaiting", "failed"}
        /\ k.pc = "awaiting" => k.job = <<session, loop>>
        /\ k.left = client[c].left /\ k.tools = client[c].tools
        /\ k.via = client[c].via
  <2>1. CASE Submit(c)
    <3> DEFINE k == [client[c] EXCEPT !.pc = "awaiting", !.job = <<session, loop>>]
    <3>1. client' = [client EXCEPT ![c] = k]
      BY <1>1, <2>1 DEF Submit
    <3>2. k \in ClientRecord
      BY <1>1 DEF ClientRecord
    <3>3. k.pc = "awaiting" /\ k.job = <<session, loop>> /\ k.left = client[c].left /\ k.tools = client[c].tools
          /\ k.via = client[c].via
      BY <1>1 DEF ClientRecord
    <3> HIDE DEF k
    <3> QED
      BY <3>1, <3>2, <3>3
  <2>2. CASE SubmitRaises(c)
    <3> DEFINE k == [client[c] EXCEPT !.pc = "failed"]
    <3>1. client' = [client EXCEPT ![c] = k]
      BY <1>1, <2>2 DEF SubmitRaises
    <3>2. k \in ClientRecord
      BY <1>1 DEF ClientRecord
    <3>3. k.pc = "failed" /\ k.left = client[c].left /\ k.tools = client[c].tools
          /\ k.via = client[c].via
      BY <1>1 DEF ClientRecord
    <3> HIDE DEF k
    <3> QED
      BY <3>1, <3>2, <3>3
  <2> QED
    BY <2>1, <2>2
<1>5. /\ client' \in [Client -> ClientRecord] /\ client'[c] = k
      /\ \A d \in Client : d # c => client'[d] = client[d]
  <2>1. TypeOK /\ client' = [client EXCEPT ![c] = k]
    BY <1>1, <1>4
  <2> QED
    BY <2>1, Moved
<1>6. Honest(client[c])'
  BY <1>2, <1>3, <1>4, <1>5 DEF Honest
<1>7. refused = 0 => session = 1 /\ loop = 1
  BY <1>1, <1>2 DEF IInv, First, Flags, Honest
<1>8. refused' = 0 /\ client'[c].pc = "awaiting" => client'[c].job = <<1, 1>>
  BY <1>3, <1>4, <1>5, <1>7
<1>9. /\ refused' \in Nat /\ (refused' = 0 => refused = 0) /\ Started <= refused' + 1
      /\ (lock' = Nobody /\ session = 0 => Started <= refused')
  BY <1>3 DEF IInv, TypeOK, Counted
<1> QED
  BY <1>3, <1>5, <1>6, <1>8, <1>9, ClientStep

(* A part is answered, by either transport, or its call fails.             *)
LEMMA PartStep ==
  ASSUME IInv, NEW c \in Client, CallReturns(c) \/ CallFails(c) \/ AnswerLocally(c)
  PROVE  IInv'
<1>1. client \in [Client -> ClientRecord] /\ client[c] \in ClientRecord /\ refused \in Nat
  BY DEF IInv, TypeOK
<1>2. Honest(client[c])
  BY DEF IInv, Clients
<1>3. UNCHANGED <<lock, loop, session, ready, error, thread, refused>>
  BY DEF CallReturns, CallFails, AnswerLocally, object
<1>4. client[c].left \in Nat /\ client[c].via \subseteq {"mcp", "inprocess"}
  BY <1>1 DEF ClientRecord
<1>5. ASSUME NEW req \in ClientRecord, NEW left \in Nat, Proceed(c, req, left),
             req.tools = "mcp" => session # 0 /\ req.via \subseteq {"mcp"}
      PROVE  IInv'
  <2>1. Honest(client[c])'
    BY <1>1, <1>3, <1>5, ProceedsHonestly
  <2>2. /\ client' \in [Client -> ClientRecord]
        /\ \A d \in Client : d # c => client'[d] = client[d]
        /\ client'[c].pc # "awaiting"
    BY <1>1, <1>5, Proceeds
  <2>3. /\ refused' \in Nat /\ (refused' = 0 => refused = 0) /\ Started <= refused' + 1
        /\ (lock' = Nobody /\ session = 0 => Started <= refused')
    BY <1>1, <1>3 DEF IInv, Counted
  <2> QED
    BY <1>3, <2>1, <2>2, <2>3, ClientStep
<1>6. CASE CallReturns(c)
  <2> DEFINE via == client[c].via \union {"mcp"}
             req == [client[c] EXCEPT !.via = via]
  <2>1. client[c].pc = "awaiting" /\ Proceed(c, req, client[c].left - 1)
    BY <1>6 DEF CallReturns
  <2>2. client[c].left - 1 \in Nat /\ session # 0 /\ via \subseteq {"mcp"}
    BY <1>2, <1>4, <2>1 DEF Honest
  <2>3. via \in SUBSET {"mcp", "inprocess"}
    BY <2>2
  <2> HIDE DEF via
  <2>4. req \in ClientRecord /\ req.via = via
    BY <1>1, <2>3 DEF ClientRecord
  <2> HIDE DEF req
  <2> QED
    BY <1>5, <2>1, <2>2, <2>4
<1>7. CASE CallFails(c)
  <2> DEFINE req == [client[c] EXCEPT !.tools = "inprocess_fallback"]
  <2>1. Proceed(c, req, client[c].left)
    BY <1>7 DEF CallFails
  <2>2. req \in ClientRecord /\ req.tools = "inprocess_fallback"
    BY <1>1 DEF ClientRecord
  <2> HIDE DEF req
  <2> QED
    BY <1>4, <1>5, <2>1, <2>2
<1>8. CASE AnswerLocally(c)
  <2> DEFINE via == client[c].via \union {"inprocess"}
             req == [client[c] EXCEPT !.via = via]
  <2>1. client[c].pc = "local" /\ Proceed(c, req, client[c].left - 1)
    BY <1>8 DEF AnswerLocally
  <2>2. client[c].left - 1 \in Nat /\ client[c].tools = "inprocess_fallback"
    BY <1>2, <1>4, <2>1 DEF Honest
  <2>3. via \in SUBSET {"mcp", "inprocess"}
    BY <1>4
  <2> HIDE DEF via
  <2>4. req \in ClientRecord /\ req.tools = client[c].tools
    BY <1>1, <2>3 DEF ClientRecord
  <2> HIDE DEF req
  <2> QED
    BY <1>5, <2>1, <2>2, <2>4
<1> QED
  BY <1>6, <1>7, <1>8

LEMMA ToolRaisesStep == ASSUME IInv, NEW c \in Client, ToolRaises(c) PROVE IInv'
<1> DEFINE k == [NoRequest EXCEPT !.pc = "erred"]
<1>1. TypeOK /\ client' = [client EXCEPT ![c] = k]
      /\ UNCHANGED <<lock, loop, session, ready, error, thread, refused>>
  BY DEF ToolRaises, IInv, object
<1>2. k \in ClientRecord /\ k.pc = "erred" /\ k.via = {}
  BY DEF NoRequest, ClientRecord
<1> HIDE DEF k
<1>3. /\ client' \in [Client -> ClientRecord] /\ client'[c] = k
      /\ \A d \in Client : d # c => client'[d] = client[d]
  BY <1>1, <1>2, Moved
<1>4. Honest(client[c])'
  BY <1>2, <1>3 DEF Honest
<1> QED
  BY <1>1, <1>2, <1>3, <1>4, ClientStep DEF IInv, TypeOK, Counted

-----------------------------------------------------------------------------
(* Background threads                                                      *)

LEMMA BackgroundStep == ASSUME IInv, NEW n \in Start, Background(n) PROVE IInv'
<1>1. thread \in [Start -> ThreadRecord] /\ thread[n] \in ThreadRecord /\ loop \in Nat
      /\ session \in Nat /\ ready \in BOOLEAN /\ error \in BOOLEAN /\ n \in Nat \ {0}
  BY ConstantsAssumption DEF IInv, TypeOK, Start
<1>2. ASSUME NEW pc \in {"announcing", "serving", "raised", "flagging", "finally", "ended"}, Go(n, pc)
      PROVE  /\ thread' \in [Start -> ThreadRecord] /\ thread'[n].pc = pc
             /\ \A m \in Start : m # n => thread'[m] = thread[m]
  <2> DEFINE t == [thread[n] EXCEPT !.pc = pc]
  <2>1. thread' = [thread EXCEPT ![n] = t]
    BY <1>1, <1>2 DEF Go
  <2>2. t \in ThreadRecord /\ t.pc = pc
    BY <1>1 DEF ThreadRecord
  <2> HIDE DEF t
  <2> QED
    BY <1>1, <2>1, <2>2
<1>3. ready /\ ~error => session # 0
  BY DEF IInv, Flags
<1>15. refused = 0 => session <= 1 /\ (thread[n].pc # "none" => n <= 1)
  BY DEF IInv, First, Start
<1>4. CASE RunLoop(n)
  <2>1. UNCHANGED <<lock, loop, session, ready, error, client, refused>> /\ thread[n].pc = "started"
    BY <1>4 DEF RunLoop, object, At
  <2>2. /\ thread' \in [Start -> ThreadRecord] /\ thread'[n].pc \in {"spawning", "raised"}
        /\ \A m \in Start : m # n => thread'[m] = thread[m]
    <3>1. [pc |-> "spawning", runs |-> loop] \in ThreadRecord
      BY <1>1 DEF ThreadRecord
    <3>2. CASE thread' = [thread EXCEPT ![n] = [pc |-> "spawning", runs |-> loop]]
      BY <1>1, <3>1, <3>2
    <3>3. CASE Go(n, "raised")
      BY <1>2, <3>3
    <3> QED
      BY <1>4, <3>2, <3>3 DEF RunLoop
  <2> QED
    BY <1>1, <1>15, <1>3, <2>1, <2>2, ThreadStep
<1>5. CASE SetSession(n)
  <2>1. /\ UNCHANGED <<lock, loop, ready, error, client, refused>> /\ thread[n].pc = "spawning"
        /\ session' = n /\ Go(n, "announcing")
    BY <1>5 DEF SetSession, At
  <2> QED
    BY <1>1, <1>15, <1>2, <2>1, ThreadStep
<1>6. CASE SetReady(n)
  <2>1. /\ UNCHANGED <<lock, loop, session, error, client, refused>> /\ thread[n].pc = "announcing"
        /\ ready' = TRUE /\ Go(n, "serving")
    BY <1>6 DEF SetReady, At
  <2>2. session # 0
    BY <2>1 DEF IInv, Flags
  <2> QED
    BY <1>1, <1>15, <1>2, <2>1, <2>2, ThreadStep
<1>7. CASE ServeRaises(n)
  <2>1. /\ UNCHANGED <<lock, loop, session, ready, error, client, refused>>
        /\ thread[n].pc \in {"spawning", "serving"}
        /\ thread' = [thread EXCEPT ![n] = [pc |-> "raised", runs |-> 0]]
    BY <1>7 DEF ServeRaises, At, object
  <2>2. [pc |-> "raised", runs |-> 0] \in ThreadRecord
    BY DEF ThreadRecord
  <2>3. /\ thread' \in [Start -> ThreadRecord] /\ thread'[n].pc = "raised"
        /\ \A m \in Start : m # n => thread'[m] = thread[m]
    BY <1>1, <2>1, <2>2
  <2> QED
    BY <1>1, <1>15, <1>3, <2>1, <2>3, ThreadStep
<1>8. CASE SetError(n)
  <2>1. /\ UNCHANGED <<lock, loop, session, ready, client, refused>> /\ thread[n].pc = "raised"
        /\ error' = TRUE /\ Go(n, "flagging")
    BY <1>8 DEF SetError, At
  <2> QED
    BY <1>1, <1>15, <1>2, <2>1, ThreadStep
<1>9. CASE FlagReady(n)
  <2>1. /\ UNCHANGED <<lock, loop, session, error, client, refused>> /\ thread[n].pc = "flagging"
        /\ ready' = TRUE /\ Go(n, "finally")
    BY <1>9 DEF FlagReady, At
  <2>2. error
    BY <2>1 DEF IInv, Flags
  <2> QED
    BY <1>1, <1>15, <1>2, <2>1, <2>2, ThreadStep
<1>10. CASE CloseLoop(n)
  <2>1. /\ UNCHANGED <<lock, loop, session, ready, error, client, refused>> /\ thread[n].pc = "finally"
        /\ Go(n, "ended")
    BY <1>10 DEF CloseLoop, At, object
  <2> QED
    BY <1>1, <1>15, <1>2, <1>3, <2>1, ThreadStep
<1> QED
  BY <1>4, <1>5, <1>6, <1>7, <1>8, <1>9, <1>10 DEF Background

-----------------------------------------------------------------------------
(* The specification                                                       *)

LEMMA InitHolds == Init => IInv
<1> SUFFICES ASSUME Init PROVE IInv
  OBVIOUS
<1>1. NoThread \in ThreadRecord /\ NoRequest \in ClientRecord
  BY DEF NoThread, NoRequest, ThreadRecord, ClientRecord
<1>2. TypeOK
  BY <1>1 DEF Init, TypeOK
<1>3. Flags /\ Clients
  BY DEF Init, Flags, Clients, Honest, NoThread, NoRequest
<1>4. Started = 0
  <2>1. {n \in Start : thread[n].pc # "none"} = {}
    BY DEF Init, NoThread
  <2> QED
    BY <2>1, FS_EmptySet DEF Started
<1>5. Counted
  BY <1>4 DEF Counted, Init
<1>6. First
  BY DEF Init, First, NoThread, NoRequest
<1> QED
  BY <1>2, <1>3, <1>5, <1>6 DEF IInv

LEMMA NextKeeps == IInv /\ [Next]_vars => IInv'
<1> SUFFICES ASSUME IInv, [Next]_vars PROVE IInv'
  OBVIOUS
<1>1. CASE UNCHANGED vars
  BY <1>1 DEF IInv, TypeOK, Flags, Clients, Honest, Counted, First, Started, vars, object
<1>2. ASSUME NEW c \in Client, Arrive(c) PROVE IInv'
  BY <1>2, ArriveStep
<1>3. ASSUME NEW c \in Client, Request(c) PROVE IInv'
  BY <1>3, StartSpawnsStep, StartEndsStep, SubmitStep, PartStep, ToolRaisesStep DEF Request
<1>4. ASSUME NEW n \in Start, Background(n) PROVE IInv'
  BY <1>4, BackgroundStep
<1> QED
  BY <1>1, <1>2, <1>3, <1>4 DEF Next

(* The invariant of the session, from which the properties follow: where   *)
(* threads and requests stand tells what start and _run_loop have written. *)
THEOREM Invariance == Spec => []IInv
<1> QED
  BY InitHolds, NextKeeps, PTL DEF Spec

(* Type correctness.                                                       *)
THEOREM TypeCorrect == Spec => []TypeOK
<1>1. IInv => TypeOK
  BY DEF IInv
<1> QED
  BY <1>1, Invariance, PTL

(* However many requests share the session, and whatever fails, a request  *)
(* that calls a tool over MCP finds a session and a loop: the assert in    *)
(* McpStdioTools._call never fires.                                        *)
THEOREM CallsHaveSessions == Spec => []CallHasSession
<1>1. IInv => CallHasSession
  BY DEF IInv, Flags, Clients, Honest, CallHasSession
<1> QED
  BY <1>1, Invariance, PTL

(* However many requests race to start the session and to call over it,    *)
(* until a start is refused there is one server, and every call is with    *)
(* it; in general at most one more was spawned than starts were refused.   *)
THEOREM RequestsShareOneServer == Spec => []OneServer
<1>1. IInv => OneServer
  BY DEF IInv, Counted, First, OneServer
<1> QED
  BY <1>1, Invariance, PTL

(* The tool_transport of every answer of ops_copilot_answer is true of all *)
(* its parts.                                                              *)
THEOREM LabelsAreHonest == Spec => LabelIsHonest
<1> DEFINE A == \A c \in Client :
       client[c].pc \in {"awaiting", "local"} /\ client'[c].pc = "idle"
         => (client[c].tools = "mcp"
               <=> client[c].pc = "awaiting" /\ client[c].via \subseteq {"mcp"})
<1>1. IInv => A
  BY DEF IInv, Clients, Honest
<1>2. IInv /\ [Next]_vars => [A]_vars
  BY <1>1
<1> QED
  BY <1>2, Invariance, PTL DEF Spec, LabelIsHonest
=============================================================================
