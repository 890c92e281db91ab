------------------------------- MODULE Sidecar -------------------------------
(***************************************************************************)
(* The Node sidecar: ClaudeAgentSDK.Sidecar.Worker and SidecarSession      *)
(* (lib/claude_agent_sdk/sidecar/worker.ex, sidecar_session.ex) on one     *)
(* side of a pipe, priv/ts_sidecar/src/{index,rpc,session}.ts on the       *)
(* other.  Both sides issue JSON-RPC requests: a session asks the sidecar  *)
(* to create, send, control and close, and blocks until it is answered;    *)
(* the sidecar asks a session to run a hook, a tool or a permission check. *)
(*                                                                         *)
(* Processes: the callers of the sessions' API, one session process per    *)
(* session, the worker, and the event loop of Node.  The pipe is two       *)
(* sequences of frames.  A call or cast of a session to the worker is one  *)
(* step, its handling; so is an answer of the worker and what the blocked  *)
(* session does with it.  An RPC has the identity of the API call it is    *)
(* for: every API call issues one at most.                                 *)
(***************************************************************************)
EXTENDS Naturals, Sequences

CONSTANTS
  Sessions,     \* sessions, each a SidecarSession process started with a session_id of its own
  Calls,        \* calls of create/2, send_message/2, control/3 and close/1
  Asks,         \* requests of the sidecar: hook.fire, mcp.call, can_use_tool
  Target,       \* the session of each call and of each request
  Method,       \* "create", "send", "control" or "close" of each call
  Impatient,    \* bound: calls whose own timeout may strike
  MaxMessages,  \* bound: messages the SDK emits for a session
  Nil

ASSUME SidecarAssumption ==
  /\ Target \in [Calls \cup Asks -> Sessions]
  /\ Method \in [Calls -> {"create", "send", "control", "close"}]
  /\ Impatient \subseteq Calls
  /\ MaxMessages \in Nat
  /\ Nil \notin Calls

VARIABLES
  worker,      \* "up", "exited": it saw Node's exit_status, or "stopped"
  pending,     \* RPCs in the worker's map
  registered,  \* the worker's map of sessions
  process,     \* of each session: "up" or "dead"
  status,      \* of each session: "new", "ready" or "closed"
  busy,        \* the call for which a session is blocked in Worker.call_rpc, or Nil
  mailbox,     \* of each session
  seen,        \* messages forwarded to its subscribers, in order
  toNode,      \* the pipe
  toElixir,
  node,        \* "up" or "down"
  sessions,    \* the map of the main loop
  env,         \* its QuerySession: "none", "open", "done", "failed", "closing" or "closed"
  working,     \* requests whose handler is at an await
  emitted,     \* messages the SDK emitted for each session
  ask,         \* of each request of the sidecar: "unasked", "waiting", or its end
  told         \* of each call: "unasked", "waiting", or its answer

workerVars  == <<worker, pending, registered>>
sessionVars == <<process, status, busy, mailbox, seen>>
pipeVars    == <<toNode, toElixir>>
nodeVars    == <<node, sessions, env, working, emitted, ask>>
vars        == <<workerVars, sessionVars, pipeVars, nodeVars, told>>

Answers == {"ok", "error", "bad_status", "down", "exited", "timeout"}
Ends    == {"answered", "timeout", "lost"}

\* A frame or a mailbox entry: what it is, whose it is, and the number of a message or
\* the outcome of a response (1: result, 0: error).
Item(kind, id, n) == [kind |-> kind, id |-> id, n |-> n]

Events == {"message", "closed", "error"}

Response(c, ok) == Item("response", c, IF ok THEN 1 ELSE 0)

\* Mutant: the caller is given the answer whether or not it still waits.
AnsweredAgain(C, a) == [c \in Calls |-> IF c \in C /\ told[c] # "unasked" THEN a ELSE told[c]]

\* GenServer.reply/2 to a caller that has given up does nothing.
Answered(C, a) == [c \in Calls |-> IF c \in C /\ told[c] = "waiting" THEN a ELSE told[c]]

CallsOf(S) == {c \in Calls : Target[c] \in S}

\* Session processes that exit: the calls they serve and those in their mailbox exit too.
Die(S) ==
  /\ process' = [s \in Sessions |-> IF s \in S THEN "dead" ELSE process[s]]
  /\ busy' = [s \in Sessions |-> IF s \in S THEN Nil ELSE busy[s]]
  /\ mailbox' = [s \in Sessions |-> IF s \in S THEN << >> ELSE mailbox[s]]

-----------------------------------------------------------------------------
(***************************************************************************)
(* The callers.                                                            *)
(***************************************************************************)

ApiCall(c) ==
  /\ told[c] = "unasked"
  /\ IF process[Target[c]] = "up"
     THEN /\ told' = [told EXCEPT ![c] = "waiting"]
          /\ mailbox' = [mailbox EXCEPT ![Target[c]] = Append(@, Item("call", c, 0))]
     ELSE told' = [told EXCEPT ![c] = "exited"] /\ UNCHANGED mailbox
  /\ UNCHANGED <<workerVars, process, status, busy, seen, pipeVars, nodeVars>>

\* The GenServer.call of a caller gives up: 5 s for send and close, less than the session's
\* own RPC timeout.
ApiTimeout(c) ==
  /\ c \in Impatient
  /\ told[c] = "waiting"
  /\ told' = [told EXCEPT ![c] = "timeout"]
  /\ UNCHANGED <<workerVars, sessionVars, pipeVars, nodeVars>>

-----------------------------------------------------------------------------
(***************************************************************************)
(* The session process.  While it is blocked in Worker.call_rpc it serves  *)
(* nothing.                                                                *)
(***************************************************************************)

Serves(s, kinds) ==
  /\ process[s] = "up"
  /\ busy[s] = Nil
  /\ mailbox[s] # << >>
  /\ Head(mailbox[s]).kind \in kinds

Taken(s) == [mailbox EXCEPT ![s] = Tail(@)]

Accepts(s, method) ==
  CASE method = "create"            -> status[s] = "new"
    [] method \in {"send", "control"} -> status[s] = "ready"
    [] method = "close"             -> status[s] # "closed"

\* close of a closed session is :ok, anything else {:error, {:bad_status, ..}}.
Refuse(s) ==
  /\ Serves(s, {"call"})
  /\ LET c == Head(mailbox[s]).id
     IN  /\ ~Accepts(s, Method[c])
         /\ told' = Answered({c}, IF Method[c] = "close" THEN "ok" ELSE "bad_status")
  /\ mailbox' = Taken(s)
  /\ UNCHANGED <<workerVars, process, status, busy, seen, pipeVars, nodeVars>>

\* Worker.call_rpc: handle_call({:rpc, ..}) writes the frame and keeps `from'.  A worker
\* that is gone takes the session with it.
Issue(s) ==
  /\ Serves(s, {"call"})
  /\ LET c == Head(mailbox[s]).id
     IN  /\ Accepts(s, Method[c])
         /\ \/ /\ worker = "up"
               /\ busy' = [busy EXCEPT ![s] = c]
               /\ pending' = pending \cup {c}
               /\ toNode' = IF node = "up" THEN Append(toNode, Item("rpc", c, 0)) ELSE toNode
               /\ mailbox' = Taken(s)
               /\ UNCHANGED <<process, told>>
            \/ /\ worker # "up"
               /\ Die({s})
               /\ told' = Answered(CallsOf({s}), "exited")
               /\ UNCHANGED <<pending, toNode>>
  /\ UNCHANGED <<worker, registered, status, seen, toElixir, nodeVars>>

\* {:sidecar_notification, ..}: passed to the subscribers; session.closed closes.
Forward(s) ==
  /\ Serves(s, Events)
  /\ LET event == Head(mailbox[s])
     IN  /\ seen' = IF event.kind = "message"
                    THEN [seen EXCEPT ![s] = Append(@, event.n)] ELSE seen
         /\ status' = IF event.kind = "closed" THEN [status EXCEPT ![s] = "closed"] ELSE status
  /\ mailbox' = Taken(s)
  /\ UNCHANGED <<workerVars, process, busy, pipeVars, nodeVars, told>>

\* {:sidecar_request, ..}: the handler runs in the session process, and what it returns or
\* raises goes back by a cast to the worker.
AnswerAsk(s) ==
  /\ Serves(s, {"ask"})
  /\ toNode' = IF worker = "up" /\ node = "up"
               THEN Append(toNode, Item("answer", Head(mailbox[s]).id, 0)) ELSE toNode
  /\ mailbox' = Taken(s)
  /\ UNCHANGED <<workerVars, process, status, busy, seen, toElixir, nodeVars, told>>

\* {:sidecar_down, reason}: {:stop, :normal, ..}
SidecarDown(s) ==
  /\ Serves(s, {"down"})
  /\ Die({s})
  /\ status' = [status EXCEPT ![s] = "closed"]
  /\ told' = Answered(CallsOf({s}), "exited")
  /\ UNCHANGED <<workerVars, seen, pipeVars, nodeVars>>

\* GenServer.call in call_rpc times out, which is an exit of the session process.
RpcTimeout(s) ==
  /\ busy[s] # Nil
  /\ Die({s})
  /\ told' = Answered(CallsOf({s}), "exited")
  /\ UNCHANGED <<workerVars, status, seen, pipeVars, nodeVars>>

\* Mutant: an RPC that fails has no clause.
ResumeSilently(s, c, ok) ==
  /\ busy' = [busy EXCEPT ![s] = Nil]
  /\ status' = IF Method[c] = "create" /\ ok THEN [status EXCEPT ![s] = "ready"] ELSE status
  /\ told' = IF ok THEN Answered({c}, "ok") ELSE told
  /\ UNCHANGED registered

\* Mutant: a session that the sidecar would not create is ready all the same.
ReadyAnyway(s, c, ok) ==
  /\ busy' = [busy EXCEPT ![s] = Nil]
  /\ status' = CASE Method[c] = "create" -> [status EXCEPT ![s] = "ready"]
                 [] Method[c] = "close"  -> [status EXCEPT ![s] = "closed"]
                 [] OTHER                -> status
  /\ registered' = IF Method[c] = "close" THEN registered \ {s} ELSE registered
  /\ told' = Answered({c}, IF ok \/ Method[c] = "close" THEN "ok" ELSE "error")

\* What the session does with its RPC's answer: create becomes ready only on success,
\* close ignores the answer, unregisters and is closed.
Resume(s, c, ok) ==
  /\ busy' = [busy EXCEPT ![s] = Nil]
  /\ status' = CASE Method[c] = "create" /\ ok -> [status EXCEPT ![s] = "ready"]
                 [] Method[c] = "close"        -> [status EXCEPT ![s] = "closed"]
                 [] OTHER                      -> status
  /\ registered' = IF Method[c] = "close" THEN registered \ {s} ELSE registered
  /\ told' = Answered({c}, IF ok \/ Method[c] = "close" THEN "ok" ELSE "error")

-----------------------------------------------------------------------------
(***************************************************************************)
(* The worker.                                                             *)
(***************************************************************************)

Reads(kinds) ==
  /\ worker = "up"
  /\ toElixir # << >>
  /\ Head(toElixir).kind \in kinds
  /\ toElixir' = Tail(toElixir)

\* reply_pending: an answer to an RPC nobody waits for any more is dropped.
ReplyPending ==
  /\ Reads({"response"})
  /\ LET c == Head(toElixir).id
     IN  /\ pending' = pending \ {c}
         /\ IF c \in pending /\ busy[Target[c]] = c
            THEN Resume(Target[c], c, Head(toElixir).n = 1)
            ELSE UNCHANGED <<busy, status, registered, told>>
  /\ UNCHANGED <<worker, process, mailbox, seen, toNode, nodeVars>>

\* Mutant: every notification goes to the worker's own subscribers.
NotRouted(s, item) == mailbox

\* send/2 to the session; a process that is gone gets nothing.
Routed(s, item) ==
  IF process[s] = "up" THEN [mailbox EXCEPT ![s] = Append(@, item)] ELSE mailbox

\* route_notification: to the session, or, without one, to the worker's subscribers.
RouteNotification ==
  /\ Reads(Events)
  /\ LET s == Head(toElixir).id
     IN  mailbox' = IF s \in registered THEN Routed(s, Head(toElixir)) ELSE mailbox
  /\ UNCHANGED <<workerVars, process, status, busy, seen, toNode, nodeVars, told>>

\* route_inbound_request: to the session, or an error at once.
RouteInboundRequest ==
  /\ Reads({"ask"})
  /\ LET a == Head(toElixir).id
         s == Target[a]
     IN  IF s \in registered
         THEN mailbox' = Routed(s, Head(toElixir)) /\ UNCHANGED toNode
         ELSE /\ toNode' = IF node = "up" THEN Append(toNode, Item("answer", a, 0)) ELSE toNode
              /\ UNCHANGED mailbox
  /\ UNCHANGED <<workerVars, process, status, busy, seen, nodeVars, told>>

\* {:DOWN, ..} of a session: forgotten here, while its RPC stays pending and its query
\* stays open in Node.
SessionDown(s) ==
  /\ worker = "up"
  /\ process[s] = "dead"
  /\ s \in registered
  /\ registered' = registered \ {s}
  /\ UNCHANGED <<worker, pending, sessionVars, pipeVars, nodeVars, told>>

\* Mutant: only the pending callers are told.
NotifyPendingOnly ==
  /\ worker = "up"
  /\ node = "down"
  /\ toElixir = << >>
  /\ worker' = "exited"
  /\ pending' = {}
  /\ busy' = [s \in Sessions |-> Nil]
  /\ told' = Answered({c \in Calls : busy[Target[c]] = c}, "down")
  /\ UNCHANGED <<registered, process, status, mailbox, seen, pipeVars, nodeVars>>

\* {port, {:exit_status, ..}} after the last frame: the sessions are sent :sidecar_down and
\* the pending RPCs are answered; a session that was closing then calls
\* unregister_session on a worker that is gone, and exits.
ExitStatus ==
  LET closing == {s \in Sessions : busy[s] # Nil /\ Method[busy[s]] = "close"}
      told_down == {s \in Sessions \ closing : process[s] = "up" /\ s \in registered}
  IN  /\ worker = "up"
      /\ node = "down"
      /\ toElixir = << >>
      /\ worker' = "exited"
      /\ pending' = {}
      /\ process' = [s \in Sessions |-> IF s \in closing THEN "dead" ELSE process[s]]
      /\ busy' = [s \in Sessions |-> Nil]
      /\ mailbox' = [s \in Sessions |->
            IF s \in closing THEN << >>
            ELSE IF s \in told_down THEN Append(mailbox[s], Item("down", s, 0))
            ELSE mailbox[s]]
      /\ told' = [c \in Calls |->
            IF told[c] # "waiting" THEN told[c]
            ELSE IF Target[c] \in closing THEN "exited"
            ELSE IF busy[Target[c]] = c THEN "down"
            ELSE "waiting"]
      /\ UNCHANGED <<registered, status, seen, pipeVars, nodeVars>>

\* Worker.stop/2, or a crash of the worker: blocked sessions exit with it, the others are
\* told nothing; the port closes, and Node with it.
WorkerStops ==
  LET blocked == {s \in Sessions : busy[s] # Nil}
  IN  /\ worker = "up"
      /\ worker' = "stopped"
      /\ pending' = {}
      /\ Die(blocked)
      /\ told' = Answered(CallsOf(blocked), "exited")
      /\ node' = "down"
      /\ toNode' = << >>
      /\ toElixir' = << >>
      /\ sessions' = {}
      /\ working' = {}
      /\ ask' = [a \in Asks |-> IF ask[a] = "waiting" THEN "lost" ELSE ask[a]]
      /\ UNCHANGED <<registered, status, seen, env, emitted>>

-----------------------------------------------------------------------------
(***************************************************************************)
(* Node.  A handler runs up to its next await in one step.                 *)
(***************************************************************************)

NodeReads(kind) ==
  /\ node = "up"
  /\ toNode # << >>
  /\ Head(toNode).kind = kind
  /\ toNode' = Tail(toNode)

\* Mutant: a promise that has been rejected is resolved all the same.
FeedUnchecked ==
  /\ NodeReads("answer")
  /\ ask' = [ask EXCEPT ![Head(toNode).id] = "answered"]
  /\ UNCHANGED <<workerVars, sessionVars, toElixir, node, sessions, env, working, emitted, told>>

\* OutboundRpc.feed: the answer to a request that has timed out is ignored.
Feed ==
  /\ NodeReads("answer")
  /\ ask' = [ask EXCEPT ![Head(toNode).id] = IF @ = "waiting" THEN "answered" ELSE @]
  /\ UNCHANGED <<workerVars, sessionVars, toElixir, node, sessions, env, working, emitted, told>>

\* QuerySession is usable: `closed' is false, also after its pump has failed.
Usable(s) == s \in sessions /\ env[s] \in {"open", "failed"}

\* session.create: an error if the id exists or query() throws.
DispatchCreate(c) ==
  LET s == Target[c]
  IN  \E ok \in BOOLEAN :
        /\ ok => s \notin sessions
        /\ sessions' = IF ok THEN sessions \cup {s} ELSE sessions
        /\ env' = IF ok THEN [env EXCEPT ![s] = "open"] ELSE env
        /\ toElixir' = Append(toElixir, Response(c, ok))
        /\ UNCHANGED working

\* session.send: pushed into the input of the query, which nobody may be reading.
DispatchSend(c) ==
  /\ toElixir' = Append(toElixir, Response(c, Usable(Target[c])))
  /\ UNCHANGED <<sessions, env, working>>

\* session.control: awaits a method of the SDK's query.
DispatchControl(c) ==
  /\ IF Usable(Target[c])
     THEN working' = working \cup {c} /\ UNCHANGED toElixir
     ELSE toElixir' = Append(toElixir, Response(c, FALSE)) /\ UNCHANGED working
  /\ UNCHANGED <<sessions, env>>

\* Mutant: close answers before its pump has ended.
CloseAtOnce(c) ==
  LET s == Target[c]
  IN  /\ sessions' = sessions \ {s}
      /\ env' = IF env[s] = "open" THEN [env EXCEPT ![s] = "closing"] ELSE env
      /\ toElixir' = Append(toElixir, Response(c, s \in sessions))
      /\ working' = working \cup {c}

\* session.close: close() awaits the pump unless it has ended already.
DispatchClose(c) ==
  LET s == Target[c]
  IN  /\ \/ /\ s \in sessions
            /\ env[s] = "open"
            /\ env' = [env EXCEPT ![s] = "closing"]
            /\ working' = working \cup {c}
            /\ UNCHANGED <<sessions, toElixir>>
         \/ /\ s \in sessions
            /\ env[s] # "open"
            /\ env' = [env EXCEPT ![s] = "closed"]
            /\ sessions' = sessions \ {s}
            /\ toElixir' = Append(toElixir, Response(c, TRUE))
            /\ UNCHANGED working
         \/ /\ s \notin sessions
            /\ toElixir' = Append(toElixir, Response(c, FALSE))
            /\ UNCHANGED <<sessions, env, working>>

Dispatch ==
  /\ NodeReads("rpc")
  /\ LET c == Head(toNode).id
     IN  CASE Method[c] = "create"  -> DispatchCreate(c)
           [] Method[c] = "send"    -> DispatchSend(c)
           [] Method[c] = "control" -> DispatchControl(c)
           [] Method[c] = "close"   -> DispatchClose(c)
  /\ UNCHANGED <<workerVars, sessionVars, node, emitted, ask, told>>

\* The SDK's method returns or throws.
ControlEnds(c) ==
  /\ c \in working
  /\ Method[c] = "control"
  /\ working' = working \ {c}
  /\ \E ok \in BOOLEAN : toElixir' = Append(toElixir, Response(c, ok))
  /\ UNCHANGED <<workerVars, sessionVars, toNode, node, sessions, env, emitted, ask, told>>

\* The pump of a session that is closing ends: nothing is emitted, or session.error if the
\* iterator throws; then close() goes on.
ClosingPumpEnds(s) ==
  /\ node = "up"
  /\ env[s] = "closing"
  /\ env' = [env EXCEPT ![s] = "closed"]
  /\ \E tail \in {<< >>, <<Item("error", s, 0)>>}, c \in working :
        /\ Target[c] = s /\ Method[c] = "close"
        /\ toElixir' = toElixir \o tail \o <<Response(c, TRUE)>>
        /\ working' = working \ {c}
  /\ sessions' = sessions \ {s}
  /\ UNCHANGED <<workerVars, sessionVars, toNode, node, emitted, ask, told>>

PumpMessage(s) ==
  /\ node = "up"
  /\ env[s] = "open"
  /\ emitted[s] < MaxMessages
  /\ emitted' = [emitted EXCEPT ![s] = @ + 1]
  /\ toElixir' = Append(toElixir, Item("message", s, emitted'[s]))
  /\ UNCHANGED <<workerVars, sessionVars, toNode, node, sessions, env, working, ask, told>>

\* The iterator ends: session.closed, and `closed' is set; or it throws: session.error, and
\* `closed' is not.  The session stays in the map.
PumpEnds(s) ==
  /\ node = "up"
  /\ env[s] = "open"
  /\ \/ env' = [env EXCEPT ![s] = "done"] /\ toElixir' = Append(toElixir, Item("closed", s, 0))
     \/ env' = [env EXCEPT ![s] = "failed"] /\ toElixir' = Append(toElixir, Item("error", s, 0))
  /\ UNCHANGED <<workerVars, sessionVars, toNode, node, sessions, working, emitted, ask, told>>

\* The SDK calls a hook, a tool or canUseTool: OutboundRpc.call.
AskElixir(a) ==
  /\ node = "up"
  /\ ask[a] = "unasked"
  /\ env[Target[a]] = "open"
  /\ ask' = [ask EXCEPT ![a] = "waiting"]
  /\ toElixir' = Append(toElixir, Item("ask", a, 0))
  /\ UNCHANGED <<workerVars, sessionVars, toNode, node, sessions, env, working, emitted, told>>

AskTimeout(a) ==
  /\ ask[a] = "waiting"
  /\ ask' = [ask EXCEPT ![a] = "timeout"]
  /\ UNCHANGED <<workerVars, sessionVars, pipeVars, node, sessions, env, working, emitted, told>>

\* The Node process exits; the last of what it wrote may not have left it.
NodeExits ==
  /\ node = "up"
  /\ node' = "down"
  /\ toNode' = << >>
  /\ \E n \in 0 .. Len(toElixir) : toElixir' = SubSeq(toElixir, 1, n)
  /\ sessions' = {}
  /\ working' = {}
  /\ ask' = [a \in Asks |-> IF ask[a] = "waiting" THEN "lost" ELSE ask[a]]
  /\ UNCHANGED <<workerVars, sessionVars, env, emitted, told>>

-----------------------------------------------------------------------------
Init ==
  /\ worker = "up"
  /\ pending = {}
  /\ registered = Sessions            \* handle_continue(:register)
  /\ process = [s \in Sessions |-> "up"]
  /\ status = [s \in Sessions |-> "new"]
  /\ busy = [s \in Sessions |-> Nil]
  /\ mailbox = [s \in Sessions |-> << >>]
  /\ seen = [s \in Sessions |-> << >>]
  /\ toNode = << >>
  /\ toElixir = << >>
  /\ node = "up"
  /\ sessions = {}
  /\ env = [s \in Sessions |-> "none"]
  /\ working = {}
  /\ emitted = [s \in Sessions |-> 0]
  /\ ask = [a \in Asks |-> "unasked"]
  /\ told = [c \in Calls |-> "unasked"]

SessionStep(s) == Refuse(s) \/ Issue(s) \/ Forward(s) \/ AnswerAsk(s) \/ SidecarDown(s)

WorkerReads == ReplyPending \/ RouteNotification \/ RouteInboundRequest

NodeStep(s) == ClosingPumpEnds(s) \/ PumpMessage(s) \/ PumpEnds(s)

Next ==
  \/ \E c \in Calls : ApiCall(c) \/ ApiTimeout(c) \/ ControlEnds(c)
  \/ \E s \in Sessions : SessionStep(s) \/ RpcTimeout(s) \/ SessionDown(s) \/ NodeStep(s)
  \/ WorkerReads \/ ExitStatus \/ WorkerStops
  \/ Feed \/ Dispatch \/ NodeExits
  \/ \E a \in Asks : AskElixir(a) \/ AskTimeout(a)

Spec == Init /\ [][Next]_vars

\* The session and the worker serve their mailboxes, and Worker.call_rpc has a timeout.
\* Nothing is assumed of Node, of the SDK in it, or of the callers' own timeouts.
Fairness ==
  /\ WF_vars(WorkerReads)
  /\ WF_vars(ExitStatus)
  /\ \A s \in Sessions : WF_vars(SessionStep(s)) /\ WF_vars(RpcTimeout(s))

FairSpec == Spec /\ Fairness

-----------------------------------------------------------------------------
(***************************************************************************)
(* Properties.                                                             *)
(***************************************************************************)

Items ==
  [kind : {"call", "rpc", "response"}, id : Calls, n : Nat]
    \cup [kind : {"ask", "answer"}, id : Asks, n : Nat]
    \cup [kind : {"down"} \cup Events, id : Sessions, n : Nat]

\* The state is of the shape of the State structs (worker.ex:25, sidecar_session.ex:20)
\* and of the maps of index.ts and rpc.ts.
TypeOK ==
  /\ worker \in {"up", "exited", "stopped"}
  /\ pending \subseteq Calls
  /\ registered \subseteq Sessions
  /\ process \in [Sessions -> {"up", "dead"}]
  /\ status \in [Sessions -> {"new", "ready", "closed"}]
  /\ busy \in [Sessions -> Calls \cup {Nil}]
  /\ mailbox \in [Sessions -> Seq(Items)]
  /\ seen \in [Sessions -> Seq(Nat)]
  /\ toNode \in Seq(Items)
  /\ toElixir \in Seq(Items)
  /\ node \in {"up", "down"}
  /\ sessions \subseteq Sessions
  /\ env \in [Sessions -> {"none", "open", "done", "failed", "closing", "closed"}]
  /\ working \subseteq Calls
  /\ emitted \in [Sessions -> 0 .. MaxMessages]
  /\ ask \in [Asks -> {"unasked", "waiting"} \cup Ends]
  /\ told \in [Calls -> {"unasked", "waiting"} \cup Answers]

\* The session waits for the answer to its session.close.
Closing(s) == busy[s] # Nil /\ Method[busy[s]] = "close"

\* The two ends agree on what exists: a session that is ready has its query in Node, and
\* one that was closed has not, unless the SDK closed it (index.ts keeps those).  Timeouts,
\* failed RPCs and answers that come late do not part them (sidecar_session.ex:171-215).
StatusAgrees ==
  worker = "up" /\ node = "up" =>
    \A s \in Sessions : process[s] = "up" =>
      /\ status[s] = "ready" => s \in sessions \/ Closing(s)
      /\ status[s] = "closed" /\ env[s] # "done" => s \notin sessions

\* The messages of s among the items are those after number `from' up to number `to', in
\* order.
Carries(items, s, from, to) ==
  LET messages == {i \in DOMAIN items : items[i].kind = "message" /\ items[i].id = s}
  IN  /\ {items[i].n : i \in messages} = from + 1 .. to
      /\ \A i, j \in messages : i < j => items[i].n < items[j].n

\* Demultiplexing keeps the stream of each session: what its subscribers have seen, what
\* waits in its mailbox (also while it is blocked) and what is in the pipe are the SDK's
\* messages in order, none lost and none twice.
MessagesInOrder ==
  \A s \in registered : process[s] = "up" =>
    /\ \A i \in DOMAIN seen[s] : seen[s][i] = i
    /\ \E routed \in Len(seen[s]) .. emitted[s] : \E sent \in routed .. emitted[s] :
         /\ Carries(mailbox[s], s, Len(seen[s]), routed)
         /\ Carries(toElixir, s, routed, sent)
         /\ worker = "up" /\ node = "up" => sent = emitted[s]

\* Nothing of a session follows the answer to its session.close (session.ts awaits the
\* pump first), so unregistering it after that answer loses nothing.
QuietAfterClose ==
  \A i, j \in DOMAIN toElixir :
    ~ /\ i < j
      /\ toElixir[i].kind = "response" /\ toElixir[i].n = 1
      /\ Method[toElixir[i].id] = "close"
      /\ toElixir[j].kind \in Events
      /\ toElixir[j].id = Target[toElixir[i].id]

\* An API call is answered at most once: by its RPC's answer, the end of the sidecar, the
\* exit of the session, or its own timeout, whichever is first.
Call == INSTANCE DeferredReply WITH Requests <- Calls, status <- told
CallsAreDeferred == Call!Spec

\* So is a request of the sidecar: its answer, its timeout and the end of Node compete, and
\* an answer after the timeout is ignored (rpc.ts:76).
Ask == INSTANCE DeferredReply WITH Requests <- Asks, Answers <- Ends, status <- ask
AsksAreDeferred == Ask!Spec

\* A session blocked in an RPC cannot answer what the sidecar asks it meanwhile, and still
\* nobody waits for ever: every caller is answered, whatever Node does.
CallersAnswered == \A c \in Calls : told[c] = "waiting" ~> told[c] # "waiting"

\* worker.ex: "on abnormal Node exit, surface `{:sidecar_down, reason}' to every
\* currently-assigned Session": a session that is not closed ends with Node.
SessionsLearn ==
  \A s \in Sessions :
    node = "down" /\ worker = "up" ~>
      \/ process[s] = "dead"
      \/ status[s] = "closed"
      \/ worker = "stopped"
==============================================================================
