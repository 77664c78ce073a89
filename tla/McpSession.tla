------------------------------ MODULE McpSession ------------------------------
(***************************************************************************)
(* The copilot's tool transport (services/api/copilot_tools.py): one       *)
(* McpStdioTools object shared by the request threads of the API, the      *)
(* background threads it starts (each runs an event loop that spawns the   *)
(* MCP server and keeps a session with it), and the requests of            *)
(* ops_copilot_answer, which fall back to in-process tools.                *)
(*                                                                         *)
(* The background threads read and write the shared fields without the     *)
(* lock: each such access is a step.  _run_loop reads self._loop anew at   *)
(* every use, so a thread may run, or close, the loop of a later start.    *)
(* close() is left out: the application never calls it.                    *)
(***************************************************************************)
EXTENDS Naturals, FiniteSets

CONSTANTS
  Client,       \* request threads of the API
  Main,         \* the one of them that also runs the startup
  Parts,        \* tool-backed parts of one answer
  MaxRequests,  \* bound: requests, the warm-up at startup included
  Nobody        \* the free lock

ASSUME ConstantsAssumption ==
  /\ Main \in Client /\ Nobody \notin Client
  /\ Parts \in Nat \ {0} /\ MaxRequests \in Nat

VARIABLES
  lock,      \* self._lock
  loop,      \* self._loop: the start that made it, 0 for None
  session,   \* self._session: the thread that opened it, 0 for None
  ready,     \* self._ready
  error,     \* whether self._error is set
  thread,    \* by start: its background thread
  state,     \* by start: the state of its event loop
  client,    \* by request thread: the request it works on
  asked,     \* requests so far (bound)
  refused    \* starts that raised TransportError (history)

object == <<lock, loop, session, ready, error>>
vars == <<object, thread, state, client, asked, refused>>

Start == 1..MaxRequests   \* a request starts at most one thread

NoThread == [pc |-> "none", runs |-> 0]

(* tools: the transport in use; via: the transports that answered a part;  *)
(* job: the session and the loop of the call in progress.                  *)
NoRequest == [pc |-> "idle", left |-> 0, tools |-> "mcp", via |-> {}, job |-> <<0, 0>>]

Init ==
  /\ lock = Nobody /\ loop = 0 /\ session = 0 /\ ready = FALSE /\ error = FALSE
  /\ thread = [n \in Start |-> NoThread]
  /\ state = [n \in Start |-> "none"]
  /\ client = [c \in Client |-> NoRequest]
  /\ asked = 0 /\ refused = 0

At(n, pc) == thread[n].pc = pc

Go(n, pc) == thread' = [thread EXCEPT ![n].pc = pc]

Started == Cardinality({n \in Start : thread[n].pc # "none"})

-----------------------------------------------------------------------------
(* Requests                                                                *)

(* warm_tools at startup, which only starts the transport, and then the    *)
(* requests, each of which asks get_copilot_tools for its transport.       *)
Arrive(c) ==
  /\ client[c].pc \in {"idle", "erred"} /\ asked < MaxRequests
  /\ asked = 0 => c = Main
  /\ asked = 1 => client[Main].pc = "idle"
  /\ client' = [client EXCEPT ![c] =
       [NoRequest EXCEPT !.pc = "starting", !.left = IF asked = 0 THEN 0 ELSE Parts]]
  /\ asked' = asked + 1
  /\ UNCHANGED <<object, thread, state, refused>>

(* What the request does next when it has `left` parts to do.              *)
Proceed(c, req, left) ==
  client' = [client EXCEPT ![c] =
    IF left = 0 THEN NoRequest
    ELSE [req EXCEPT !.pc = IF req.tools = "mcp" THEN "calling" ELSE "local",
                     !.left = left, !.job = <<0, 0>>]]

(* start(): there is a session already.                                    *)
StartReturns(c) ==
  /\ client[c].pc = "starting" /\ lock = Nobody /\ session # 0
  /\ Proceed(c, client[c], client[c].left)
  /\ UNCHANGED <<object, thread, state, asked, refused>>

(* Mutant of StartSpawns: the lock is not waited for.                      *)
StartSpawnsUnlocked(c) ==
  /\ client[c].pc = "starting" /\ session = 0
  /\ lock' = c
  /\ loop' = Started + 1
  /\ thread' = [thread EXCEPT ![Started + 1] = [pc |-> "started", runs |-> 0]]
  /\ state' = [state EXCEPT ![Started + 1] = "open"]
  /\ client' = [client EXCEPT ![c].pc = "waiting"]
  /\ UNCHANGED <<session, ready, error, asked, refused>>

(* start(): a new loop and a thread to run it; the lock is held while      *)
(* waiting for _ready.                                                     *)
StartSpawns(c) ==
  /\ client[c].pc = "starting" /\ lock = Nobody /\ session = 0
  /\ lock' = c
  /\ loop' = Started + 1
  /\ thread' = [thread EXCEPT ![Started + 1] = [pc |-> "started", runs |-> 0]]
  /\ state' = [state EXCEPT ![Started + 1] = "open"]
  /\ client' = [client EXCEPT ![c].pc = "waiting"]
  /\ UNCHANGED <<session, ready, error, asked, refused>>

StartSucceeds(c) ==
  /\ client[c].pc = "waiting" /\ ready /\ ~error
  /\ lock' = Nobody
  /\ Proceed(c, client[c], client[c].left)
  /\ UNCHANGED <<loop, session, ready, error, thread, state, asked, refused>>

(* Mutant of StartRaises: the wait for _ready has no timeout.              *)
StartRaisesOnErrorOnly(c) ==
  /\ client[c].pc = "waiting" /\ ready /\ error
  /\ lock' = Nobody
  /\ refused' = refused + 1
  /\ Proceed(c, [client[c] EXCEPT !.tools = "inprocess_fallback"], client[c].left)
  /\ UNCHANGED <<loop, session, ready, error, thread, state, asked>>

(* Not ready in time, or some thread has failed: TransportError, and the   *)
(* request goes on in-process.                                             *)
StartRaises(c) ==
  /\ client[c].pc = "waiting" /\ (~ready \/ error)
  /\ lock' = Nobody
  /\ refused' = refused + 1
  /\ Proceed(c, [client[c] EXCEPT !.tools = "inprocess_fallback"], client[c].left)
  /\ UNCHANGED <<loop, session, ready, error, thread, state, asked>>

(* _call: run_coroutine_threadsafe(self._session.call_tool, self._loop).   *)
Submit(c) ==
  /\ client[c].pc = "calling" /\ state[loop] # "closed"
  /\ client' = [client EXCEPT ![c].pc = "awaiting", ![c].job = <<session, loop>>]
  /\ UNCHANGED <<object, thread, state, asked, refused>>

(* The loop is closed: RuntimeError, raised outside the try that turns     *)
(* failures into TransportError, and the request fails.                    *)
SubmitRaises(c) ==
  /\ client[c].pc = "calling" /\ state[loop] = "closed"
  /\ client' = [client EXCEPT ![c].pc = "failed"]
  /\ UNCHANGED <<object, thread, state, asked, refused>>

CallReturns(c) ==
  LET job == client[c].job IN
  /\ client[c].pc = "awaiting"
  /\ At(job[1], "announcing") \/ At(job[1], "serving")
  /\ state[job[2]] = "running"
  /\ Proceed(c, [client[c] EXCEPT !.via = @ \union {"mcp"}], client[c].left - 1)
  /\ UNCHANGED <<object, thread, state, asked, refused>>

(* The tool refuses the arguments or raises: ToolCallError, over either    *)
(* transport, which nobody catches: the request ends with an error and is  *)
(* not answered.                                                           *)
ToolRaises(c) ==
  LET job == client[c].job IN
  /\ \/ client[c].pc = "local"
     \/ /\ client[c].pc = "awaiting" /\ state[job[2]] = "running"
        /\ At(job[1], "announcing") \/ At(job[1], "serving")
  /\ client' = [client EXCEPT ![c] = [NoRequest EXCEPT !.pc = "erred"]]
  /\ UNCHANGED <<object, thread, state, asked, refused>>

(* Mutant of CallFails: the part is answered in-process on the spot, the   *)
(* tools and so the label stay.                                            *)
CallFailsUnlabelled(c) ==
  /\ client[c].pc = "awaiting"
  /\ Proceed(c, [client[c] EXCEPT !.via = @ \union {"inprocess"}], client[c].left - 1)
  /\ UNCHANGED <<object, thread, state, asked, refused>>

(* A protocol error, a server that died or hangs: TransportError.          *)
(* ops_copilot_answer replaces the tools and does the part again.          *)
CallFails(c) ==
  /\ client[c].pc = "awaiting"
  /\ Proceed(c, [client[c] EXCEPT !.tools = "inprocess_fallback"], client[c].left)
  /\ UNCHANGED <<object, thread, state, asked, refused>>

AnswerLocally(c) ==
  /\ client[c].pc = "local"
  /\ Proceed(c, [client[c] EXCEPT !.via = @ \union {"inprocess"}], client[c].left - 1)
  /\ UNCHANGED <<object, thread, state, asked, refused>>

-----------------------------------------------------------------------------
(* Background threads: _run_loop and _serve                                *)

(* run_until_complete on self._loop as it is now.                          *)
RunLoop(n) ==
  /\ At(n, "started")
  /\ IF state[loop] = "open"
     THEN /\ thread' = [thread EXCEPT ![n] = [pc |-> "spawning", runs |-> loop]]
          /\ state' = [state EXCEPT ![loop] = "running"]
     ELSE /\ Go(n, "raised")
          /\ UNCHANGED state
  /\ UNCHANGED <<object, client, asked, refused>>

(* The server is spawned, initialize() returns, self._session is set.      *)
SetSession(n) ==
  /\ At(n, "spawning")
  /\ session' = n
  /\ Go(n, "announcing")
  /\ UNCHANGED <<lock, loop, ready, error, state, client, asked, refused>>

SetReady(n) ==
  /\ At(n, "announcing")
  /\ ready' = TRUE
  /\ Go(n, "serving")
  /\ UNCHANGED <<lock, loop, session, error, state, client, asked, refused>>

(* _serve ends with an exception: the server cannot be spawned or          *)
(* initialised, or it dies and the transport breaks under the session.     *)
(* self._session keeps its value.                                          *)
ServeRaises(n) ==
  /\ At(n, "spawning") \/ At(n, "serving")
  /\ state' = [state EXCEPT ![thread[n].runs] = "open"]
  /\ thread' = [thread EXCEPT ![n] = [pc |-> "raised", runs |-> 0]]
  /\ UNCHANGED <<object, client, asked, refused>>

(* Mutant of SetError: start() is woken, the error is not recorded.        *)
ErrorNotRecorded(n) ==
  /\ At(n, "raised")
  /\ ready' = TRUE
  /\ Go(n, "flagging")
  /\ UNCHANGED <<lock, loop, session, error, state, client, asked, refused>>

SetError(n) ==
  /\ At(n, "raised")
  /\ error' = TRUE
  /\ Go(n, "flagging")
  /\ UNCHANGED <<lock, loop, session, ready, state, client, asked, refused>>

FlagReady(n) ==
  /\ At(n, "flagging")
  /\ ready' = TRUE
  /\ Go(n, "finally")
  /\ UNCHANGED <<lock, loop, session, error, state, client, asked, refused>>

(* finally: shutdown_asyncgens on self._loop, which is instantaneous, and  *)
(* close() on self._loop as it is now; a running loop refuses both.        *)
CloseLoop(n) ==
  /\ At(n, "finally")
  /\ state' = IF state[loop] = "running" THEN state ELSE [state EXCEPT ![loop] = "closed"]
  /\ Go(n, "ended")
  /\ UNCHANGED <<object, client, asked, refused>>

-----------------------------------------------------------------------------

Request(c) ==
  \/ StartReturns(c) \/ StartSpawns(c) \/ StartSucceeds(c) \/ StartRaises(c)
  \/ Submit(c) \/ SubmitRaises(c) \/ CallReturns(c) \/ CallFails(c)
  \/ AnswerLocally(c) \/ ToolRaises(c)

Background(n) ==
  \/ RunLoop(n) \/ SetSession(n) \/ SetReady(n)
  \/ ServeRaises(n) \/ SetError(n) \/ FlagReady(n)
  \/ CloseLoop(n)

Next ==
  \/ \E c \in Client : Arrive(c) \/ Request(c)
  \/ \E n \in Start : Background(n)

Spec == Init /\ [][Next]_vars

(* A request that has arrived is worked on: waits end by their timeout.    *)
(* Nothing is promised of the server or of the background threads.         *)
FairSpec == Spec /\ \A c \in Client : WF_vars(Request(c))

-----------------------------------------------------------------------------
(* Properties                                                              *)

ThreadRecord ==
  [pc : {"none", "started", "spawning", "announcing", "serving",
         "raised", "flagging", "finally", "ended"},
   runs : Nat]

ClientRecord ==
  [pc : {"idle", "starting", "waiting", "calling", "awaiting", "local", "failed",
         "erred"},
   left : Nat, tools : {"mcp", "inprocess_fallback"},
   via : SUBSET {"mcp", "inprocess"}, job : Nat \X Nat]

(* The types; proved in McpSessionProofs.                                  *)
TypeOK ==
  /\ loop \in Nat /\ session \in Nat /\ refused \in Nat
  /\ ready \in BOOLEAN /\ error \in BOOLEAN
  /\ thread \in [Start -> ThreadRecord]
  /\ client \in [Client -> ClientRecord]

(* The assert in _call never fires: a request that was given the MCP tools *)
(* finds a session and a loop, whatever background threads have failed     *)
(* since, because a failure is flagged before start() is woken.            *)
CallHasSession ==
  \A c \in Client : client[c].pc = "calling" => session # 0 /\ loop # 0

(* As long as no start was refused, one server is spawned and every call   *)
(* in progress is with it, on its loop, however requests race (docstrings: *)
(* "spawns ... once", "one long-lived session per process").  It holds no  *)
(* longer: a start that raised may have left its server behind, coming up  *)
(* late, and each request that finds no session then spawns another, at    *)
(* once refused too, because neither _error nor _ready is ever cleared.    *)
(* So a server is spawned at most once more than starts were refused.      *)
OneServer ==
  /\ Started <= refused + 1
  /\ refused = 0 =>
       \A c \in Client : client[c].pc = "awaiting" => client[c].job = <<1, 1>>

(* The tool_transport of a response, the tools the request ends with, says *)
(* "mcp" just when every part was answered through the MCP server (v2.py:  *)
(* a failure "is labelled in tool_transport").                             *)
LabelIsHonest ==
  [][\A c \in Client :
       client[c].pc \in {"awaiting", "local"} /\ client'[c].pc = "idle"
         => (client[c].tools = "mcp"
               <=> client[c].pc = "awaiting" /\ client[c].via \subseteq {"mcp"})]_vars

(* No request waits for ever, also when the server hangs or dies and while *)
(* another request holds the lock to start it.                             *)
EveryRequestEnds ==
  \A c \in Client : client[c].pc # "idle" ~> client[c].pc \in {"idle", "failed", "erred"}

(* A transport that fails never fails the request (copilot_tools.py: "if   *)
(* the MCP server cannot be spawned or a call fails, the caller degrades   *)
(* to in-process").                                                        *)
AlwaysDegrades == \A c \in Client : client[c].pc # "failed"
=============================================================================
