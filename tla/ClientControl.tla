---------------------------- MODULE ClientControl ----------------------------
(***************************************************************************)
(* The control requests of ClaudeAgentSDK.Client (lib/claude_agent_sdk/    *)
(* client.ex): the initialize handshake with its timeout and its waiters,  *)
(* the user messages accepted before it completes, and the requests the    *)
(* SDK sends to the CLI at run time (set_model, set_permission_mode,       *)
(* interrupt, rewind_files, mcp_status), each sent by a task that reports  *)
(* a response or a failure.                                                *)
(*                                                                         *)
(* Processes: the callers, the client, one request task per control        *)
(* request, and, outside the repository, the protocol session and the CLI. *)
(* A GenServer call is one step, its handling; task results and the        *)
(* initialize timer are messages and may be handled long after they were   *)
(* sent, in any order.                                                     *)
(***************************************************************************)
EXTENDS Naturals, Sequences

CONSTANTS
  ModelRequests,   \* calls of set_model/2
  ModeRequests,    \* calls of set_permission_mode/2
  OtherRequests,   \* calls of interrupt/1, rewind_files/2, get_mcp_status/1
  Payloads,        \* user messages given to send_message/2
  InitWaiters,     \* calls of await_initialized/2
  SentWaiters,     \* calls of await_init_sent/2
  RaiseMode,       \* options.transport_error_mode == :raise
  MaxErrors,       \* bound: undecodable frames the session reports
  Initialize,      \* the request_id of the initialize request
  Nil

Requests == ModelRequests \cup ModeRequests \cup OtherRequests
Callers  == Requests \cup Payloads \cup InitWaiters \cup SentWaiters
Tasks    == Requests \cup {Initialize}

ASSUME ControlAssumption ==
  /\ RaiseMode \in BOOLEAN
  /\ MaxErrors \in Nat
  /\ Nil \notin Tasks
  /\ Initialize \notin Callers
  \* A call is of one kind.
  /\ ModelRequests \cap (ModeRequests \cup OtherRequests) = {}
  /\ ModeRequests \cap OtherRequests = {}
  /\ Requests \cap (Payloads \cup InitWaiters \cup SentWaiters) = {}
  /\ Payloads \cap (InitWaiters \cup SentWaiters) = {}
  /\ InitWaiters \cap SentWaiters = {}

VARIABLES
  client,                     \* "starting", "up" or "stopped"
  initialized,
  init_request_id,            \* Initialize or Nil
  init_timeout,               \* the timer: "off", "armed", or "fired": its message is in the mailbox
  init_waiters,
  initialized_waiters,
  pending_requests,           \* keys of the map
  pending_permission_change,  \* a request or Nil
  pending_outbound,
  model,                      \* options.model: the request that set it, Nil at first
  permission_mode,            \* options.permission_mode, likewise
  task,                       \* of each request: "none", "running", "done"
  results,                    \* <<request, outcome>> messages of the tasks to the client
  cli,                        \* how the CLI treated each request: "unseen", "applied", "refused"
  cli_model, cli_mode,        \* what the CLI itself is set to
  sent,                       \* user messages that reached the session, in order
  accepted,                   \* user messages answered :ok, in order (history)
  told,                       \* of each caller: "unasked", "waiting", or its answer
  errors                      \* undecodable frames so far

clientVars == <<client, initialized, init_request_id, init_timeout, init_waiters,
                initialized_waiters, pending_requests, pending_permission_change,
                pending_outbound, model, permission_mode>>
cliVars    == <<cli, cli_model, cli_mode>>
vars       == <<clientVars, task, results, cliVars, sent, accepted, told, errors>>

Outcomes == {"success", "rejected", "failed"}
Answers  == {"ok", "rejected", "failed", "refused"}

Tell(c, a) == told' = [told EXCEPT ![c] = a]

-----------------------------------------------------------------------------
(***************************************************************************)
(* Starting: handle_continue(:start_cli) runs before any call is served.   *)
(***************************************************************************)

StartCli ==
  /\ client = "starting"
  /\ \/ /\ client' = "up"
        /\ pending_requests' = {Initialize}
        /\ task' = [task EXCEPT ![Initialize] = "running"]
        /\ init_request_id' = Initialize
        /\ init_timeout' = "armed"
     \/ /\ client' = "stopped"          \* {:stop, {:cli_start_failed, reason}, state}
        /\ UNCHANGED <<pending_requests, task, init_request_id, init_timeout>>
  /\ UNCHANGED <<initialized, init_waiters, initialized_waiters, pending_permission_change,
                 pending_outbound, model, permission_mode, results, cliVars, sent, accepted,
                 told, errors>>

-----------------------------------------------------------------------------
(***************************************************************************)
(* Calls.                                                                  *)
(***************************************************************************)

Asks(c) == client = "up" /\ told[c] = "unasked"

\* send_message/2 after initialization: ProtocolSession.notify, which may fail.
SendNow(p) ==
  /\ Asks(p)
  /\ initialized
  /\ \/ /\ sent' = Append(sent, p)
        /\ accepted' = Append(accepted, p)
        /\ Tell(p, "ok")
     \/ /\ Tell(p, "failed")
        /\ UNCHANGED <<sent, accepted>>
  /\ UNCHANGED <<clientVars, task, results, cliVars, errors>>

\* send_message/2 before it: the payload is queued and the caller told :ok.
SendLater(p) ==
  /\ Asks(p)
  /\ ~initialized
  /\ pending_outbound' = Append(pending_outbound, p)
  /\ accepted' = Append(accepted, p)
  /\ Tell(p, "ok")
  /\ UNCHANGED <<client, initialized, init_request_id, init_timeout, init_waiters,
                 initialized_waiters, pending_requests, pending_permission_change, model,
                 permission_mode, task, results, cliVars, sent, errors>>

AwaitInitialized(c) ==
  /\ Asks(c)
  /\ IF initialized
     THEN Tell(c, "ok") /\ UNCHANGED initialized_waiters
     ELSE Tell(c, "waiting") /\ initialized_waiters' = initialized_waiters \cup {c}
  /\ UNCHANGED <<client, initialized, init_request_id, init_timeout, init_waiters,
                 pending_requests, pending_permission_change, pending_outbound, model,
                 permission_mode, task, results, cliVars, sent, accepted, errors>>

AwaitInitSent(c) ==
  /\ Asks(c)
  /\ IF init_request_id # Nil
     THEN Tell(c, "ok") /\ UNCHANGED init_waiters
     ELSE Tell(c, "waiting") /\ init_waiters' = init_waiters \cup {c}
  /\ UNCHANGED <<client, initialized, init_request_id, init_timeout, initialized_waiters,
                 pending_requests, pending_permission_change, pending_outbound, model,
                 permission_mode, task, results, cliVars, sent, accepted, errors>>

\* start_request_task: the request is recorded and a task sends it.
StartRequest(r) ==
  /\ pending_requests' = pending_requests \cup {r}
  /\ task' = [task EXCEPT ![r] = "running"]
  /\ Tell(r, "waiting")
  /\ UNCHANGED <<client, initialized, init_request_id, init_timeout, init_waiters,
                 initialized_waiters, pending_outbound, model, permission_mode, results,
                 cliVars, sent, accepted, errors>>

\* Mutant: the guard of set_model/2 forgotten.
NoModelChangeInProgress == FALSE

model_change_in_progress == pending_requests \cap ModelRequests # {}

SetModel(r) ==
  /\ Asks(r)
  /\ ~model_change_in_progress
  /\ StartRequest(r)
  /\ UNCHANGED pending_permission_change

SetPermissionMode(r) ==
  /\ Asks(r)
  /\ pending_permission_change = Nil
  /\ pending_permission_change' = r
  /\ StartRequest(r)

OtherRequest(r) ==
  /\ Asks(r)
  /\ StartRequest(r)
  /\ UNCHANGED pending_permission_change

\* A change is in progress, the argument is invalid, or no task can be started:
\* {:reply, {:error, reason}, state}.
RefuseRequest(r) ==
  /\ Asks(r)
  /\ Tell(r, "refused")
  /\ UNCHANGED <<clientVars, task, results, cliVars, sent, accepted, errors>>

-----------------------------------------------------------------------------
(***************************************************************************)
(* The CLI and the request tasks.                                          *)
(***************************************************************************)

\* Once the client has stopped nobody listens any more: these steps end with it.

\* The CLI gets the request (perhaps after its task gave up) and applies or refuses it.
CliHandles(r) ==
  /\ client = "up"
  /\ task[r] # "none"
  /\ cli[r] = "unseen"
  /\ \/ /\ cli' = [cli EXCEPT ![r] = "applied"]
        /\ cli_model' = IF r \in ModelRequests THEN r ELSE cli_model
        /\ cli_mode' = IF r \in ModeRequests THEN r ELSE cli_mode
     \/ /\ cli' = [cli EXCEPT ![r] = "refused"]
        /\ UNCHANGED <<cli_model, cli_mode>>
  /\ UNCHANGED <<clientVars, task, results, sent, accepted, told, errors>>

\* ProtocolSession.request returns the CLI's response ...
TaskResponds(r) ==
  /\ client = "up"
  /\ task[r] = "running"
  /\ cli[r] # "unseen"
  /\ results' = results \cup {<<r, IF cli[r] = "applied" THEN "success" ELSE "rejected">>}
  /\ task' = [task EXCEPT ![r] = "done"]
  /\ UNCHANGED <<clientVars, cliVars, sent, accepted, told, errors>>

\* ... or a failure: its timeout, or the task's exit seen as :DOWN.
TaskFails(r) ==
  /\ client = "up"
  /\ task[r] = "running"
  /\ results' = results \cup {<<r, "failed">>}
  /\ task' = [task EXCEPT ![r] = "done"]
  /\ UNCHANGED <<clientVars, cliVars, sent, accepted, told, errors>>

TimerFires ==
  /\ client = "up"
  /\ init_timeout = "armed"
  /\ init_timeout' = "fired"
  /\ UNCHANGED <<client, initialized, init_request_id, init_waiters, initialized_waiters,
                 pending_requests, pending_permission_change, pending_outbound, model,
                 permission_mode, task, results, cliVars, sent, accepted, told, errors>>

-----------------------------------------------------------------------------
(***************************************************************************)
(* Messages to the client.                                                 *)
(***************************************************************************)

\* {task_ref, result} or {:DOWN, ..} of a task: pop_pending_request_by_task_ref.
Pops(r, outcome) ==
  /\ client = "up"
  /\ <<r, outcome>> \in results
  /\ r \in pending_requests
  /\ results' = results \ {<<r, outcome>>}
  /\ pending_requests' = pending_requests \ {r}

\* The request is no longer pending: the message is ignored.
IgnoreResult(r, outcome) ==
  /\ client = "up"
  /\ <<r, outcome>> \in results
  /\ r \notin pending_requests
  /\ results' = results \ {<<r, outcome>>}
  /\ UNCHANGED <<clientVars, task, cliVars, sent, accepted, told, errors>>

\* maybe_cancel_init_timeout: a timer that has fired cannot be taken back.
CancelInitTimeout ==
  /\ init_timeout' = IF init_timeout = "armed" THEN "off" ELSE init_timeout
  /\ init_request_id' = Nil

\* Mutant: a send that fails loses the rest of the queue.
FlushOutboundAndDrop ==
  \E n \in 0 .. Len(pending_outbound) :
    /\ sent' = sent \o SubSeq(pending_outbound, 1, n)
    /\ pending_outbound' = << >>

\* flush_pending_outbound sends the queue in order until a send fails, and leaves the
\* rest, with the payload that failed in front.
FlushOutbound ==
  \E n \in 0 .. Len(pending_outbound) :
    /\ sent' = sent \o SubSeq(pending_outbound, 1, n)
    /\ pending_outbound' = SubSeq(pending_outbound, n + 1, Len(pending_outbound))

\* handle_initialize_response, success: initialized, flush, then tell the waiters.
InitializeSucceeds ==
  /\ Pops(Initialize, "success")
  /\ CancelInitTimeout
  /\ initialized' = TRUE
  /\ FlushOutbound
  /\ told' = [c \in Callers |-> IF c \in initialized_waiters THEN "ok" ELSE told[c]]
  /\ initialized_waiters' = {}
  /\ UNCHANGED <<client, init_waiters, pending_permission_change, model, permission_mode,
                 task, cliVars, accepted, errors>>

\* {:stop, {:initialize_failed, reason}, state}; the mailbox goes with the process.
InitializeFails ==
  /\ client = "up"
  /\ Initialize \in pending_requests
  /\ \E outcome \in {"rejected", "failed"} : <<Initialize, outcome>> \in results
  /\ pending_requests' = pending_requests \ {Initialize}
  /\ CancelInitTimeout
  /\ client' = "stopped"
  /\ results' = {}
  /\ UNCHANGED <<initialized, init_waiters, initialized_waiters, pending_permission_change,
                 pending_outbound, model, permission_mode, task, cliVars, sent, accepted,
                 told, errors>>

AnswerFor(outcome) == IF outcome = "success" THEN "ok" ELSE outcome

\* dispatch_control_response and dispatch_control_request_failure.
ModelResult(r, outcome) ==
  /\ r \in ModelRequests
  /\ Pops(r, outcome)
  /\ Tell(r, AnswerFor(outcome))
  /\ model' = IF outcome = "success" THEN r ELSE model
  /\ UNCHANGED <<client, initialized, init_request_id, init_timeout, init_waiters,
                 initialized_waiters, pending_permission_change, pending_outbound,
                 permission_mode, task, cliVars, sent, accepted, errors>>

ModeResult(r, outcome) ==
  /\ r \in ModeRequests
  /\ Pops(r, outcome)
  /\ Tell(r, AnswerFor(outcome))
  /\ permission_mode' = IF outcome = "success" THEN r ELSE permission_mode
  /\ pending_permission_change' = Nil
  /\ UNCHANGED <<client, initialized, init_request_id, init_timeout, init_waiters,
                 initialized_waiters, pending_outbound, model, task, cliVars, sent,
                 accepted, errors>>

OtherResult(r, outcome) ==
  /\ r \in OtherRequests
  /\ Pops(r, outcome)
  /\ Tell(r, AnswerFor(outcome))
  /\ UNCHANGED <<client, initialized, init_request_id, init_timeout, init_waiters,
                 initialized_waiters, pending_permission_change, pending_outbound, model,
                 permission_mode, task, cliVars, sent, accepted, errors>>

\* Mutant: takes the timeout for a late one when no initialize entry is pending.
HandleInitTimeoutIfPending ==
  /\ client = "up"
  /\ init_timeout = "fired"
  /\ init_timeout' = "off"
  /\ IF initialized \/ Initialize \notin pending_requests
     THEN UNCHANGED <<client, init_request_id, results>>
     ELSE client' = "stopped" /\ init_request_id' = Nil /\ results' = {}
  /\ UNCHANGED <<initialized, init_waiters, initialized_waiters, pending_requests,
                 pending_permission_change, pending_outbound, model, permission_mode, task,
                 cliVars, sent, accepted, told, errors>>

\* {:initialize_timeout, request_id}: late or foreign ones are ignored.
HandleInitTimeout ==
  /\ client = "up"
  /\ init_timeout = "fired"
  /\ init_timeout' = "off"
  /\ IF initialized \/ init_request_id # Initialize
     THEN UNCHANGED <<client, init_request_id, results>>
     ELSE client' = "stopped" /\ init_request_id' = Nil /\ results' = {}
  /\ UNCHANGED <<initialized, init_waiters, initialized_waiters, pending_requests,
                 pending_permission_change, pending_outbound, model, permission_mode, task,
                 cliVars, sent, accepted, told, errors>>

\* Mutants: the callers are not told; the lock is kept; the entries are kept.
DropPendingRequests ==
  /\ pending_requests' = {}
  /\ pending_permission_change' = Nil
  /\ UNCHANGED told

FailPendingKeepsLock ==
  /\ told' = [c \in Callers |-> IF c \in pending_requests THEN "failed" ELSE told[c]]
  /\ pending_requests' = {}
  /\ UNCHANGED pending_permission_change

FailPendingKeepsEntries ==
  /\ told' = [c \in Callers |-> IF c \in pending_requests THEN "failed" ELSE told[c]]
  /\ pending_permission_change' = Nil
  /\ UNCHANGED pending_requests

\* fail_pending_control_requests: every caller is told, every entry dropped, the
\* initialize entry (which has no caller) with them.
FailPendingRequests ==
  /\ told' = [c \in Callers |-> IF c \in pending_requests THEN "failed" ELSE told[c]]
  /\ pending_requests' = {}
  /\ pending_permission_change' = Nil

\* {:protocol_error, reason} with transport_error_mode :raise; otherwise it is logged.
ProtocolError ==
  /\ client = "up"
  /\ RaiseMode
  /\ errors < MaxErrors
  /\ errors' = errors + 1
  /\ FailPendingRequests
  /\ UNCHANGED <<client, initialized, init_request_id, init_timeout, init_waiters,
                 initialized_waiters, pending_outbound, model, permission_mode, task,
                 results, cliVars, sent, accepted>>

\* :DOWN of the protocol session: fail what is pending, stop normally.
SessionDown ==
  /\ client = "up"
  /\ FailPendingRequests
  /\ init_timeout' = "off"
  /\ client' = "stopped"
  /\ results' = {}
  /\ UNCHANGED <<initialized, init_request_id, init_waiters, initialized_waiters,
                 pending_outbound, model, permission_mode, task, cliVars, sent,
                 accepted, errors>>

\* GenServer.stop/1, or an exit signal: nobody is answered.
StopClient ==
  /\ client = "up"
  /\ client' = "stopped"
  /\ results' = {}
  /\ UNCHANGED <<initialized, init_request_id, init_timeout, init_waiters,
                 initialized_waiters, pending_requests, pending_permission_change,
                 pending_outbound, model, permission_mode, task, cliVars, sent,
                 accepted, told, errors>>

-----------------------------------------------------------------------------
Init ==
  /\ client = "starting"
  /\ initialized = FALSE
  /\ init_request_id = Nil
  /\ init_timeout = "off"
  /\ init_waiters = {}
  /\ initialized_waiters = {}
  /\ pending_requests = {}
  /\ pending_permission_change = Nil
  /\ pending_outbound = << >>
  /\ model = Nil
  /\ permission_mode = Nil
  /\ task = [r \in Tasks |-> "none"]
  /\ results = {}
  /\ cli = [r \in Tasks |-> "unseen"]
  /\ cli_model = Nil
  /\ cli_mode = Nil
  /\ sent = << >>
  /\ accepted = << >>
  /\ told = [c \in Callers |-> "unasked"]
  /\ errors = 0

CallStep ==
  \/ \E p \in Payloads : SendNow(p) \/ SendLater(p)
  \/ \E c \in InitWaiters : AwaitInitialized(c)
  \/ \E c \in SentWaiters : AwaitInitSent(c)
  \/ \E r \in ModelRequests : SetModel(r)
  \/ \E r \in ModeRequests : SetPermissionMode(r)
  \/ \E r \in OtherRequests : OtherRequest(r)
  \/ \E r \in Requests : RefuseRequest(r)

TaskEnds(r) == TaskResponds(r) \/ TaskFails(r)

HandleResult(r, outcome) ==
  \/ IgnoreResult(r, outcome)
  \/ ModelResult(r, outcome)
  \/ ModeResult(r, outcome)
  \/ OtherResult(r, outcome)

HandleInitialize == InitializeSucceeds \/ InitializeFails

Next ==
  \/ StartCli
  \/ CallStep
  \/ \E r \in Tasks : CliHandles(r) \/ TaskEnds(r)
  \/ \E r \in Tasks, outcome \in Outcomes : HandleResult(r, outcome)
  \/ HandleInitialize
  \/ TimerFires
  \/ HandleInitTimeout
  \/ ProtocolError
  \/ SessionDown
  \/ StopClient

Spec == Init /\ [][Next]_vars

\* The client runs and serves its mailbox, timers fire, and a request task ends because
\* ProtocolSession.request has a timeout.  Nothing is assumed of the CLI.
Fairness ==
  /\ WF_vars(StartCli)
  /\ WF_vars(TimerFires)
  /\ WF_vars(HandleInitTimeout)
  /\ WF_vars(HandleInitialize)
  /\ \A r \in Tasks : WF_vars(TaskEnds(r))
  /\ \A r \in Tasks, outcome \in Outcomes : WF_vars(HandleResult(r, outcome))

FairSpec == Spec /\ Fairness

-----------------------------------------------------------------------------
(***************************************************************************)
(* Properties.                                                             *)
(***************************************************************************)

Distinct(s) == \A i, j \in DOMAIN s : s[i] = s[j] => i = j

\* The state is of the shape of the Client struct (client.ex:101).
TypeOK ==
  /\ client \in {"starting", "up", "stopped"}
  /\ initialized \in BOOLEAN
  /\ init_request_id \in {Initialize, Nil}
  /\ init_timeout \in {"off", "armed", "fired"}
  /\ init_waiters \subseteq SentWaiters
  /\ initialized_waiters \subseteq InitWaiters
  /\ pending_requests \subseteq Tasks
  /\ pending_permission_change \in ModeRequests \cup {Nil}
  /\ pending_outbound \in Seq(Payloads)
  /\ model \in ModelRequests \cup {Nil}
  /\ permission_mode \in ModeRequests \cup {Nil}
  /\ task \in [Tasks -> {"none", "running", "done"}]
  /\ results \subseteq Tasks \X Outcomes
  /\ cli \in [Tasks -> {"unseen", "applied", "refused"}]
  /\ cli_model \in ModelRequests \cup {Nil}
  /\ cli_mode \in ModeRequests \cup {Nil}
  /\ sent \in Seq(Payloads)
  /\ accepted \in Seq(Payloads)
  /\ told \in [Callers -> {"unasked", "waiting"} \cup Answers]
  /\ errors \in 0 .. MaxErrors

\* A flush that fails leaves payloads behind a client that is initialized: nothing
\* flushes again (client.ex:1604, 2306), and later messages overtake them.
Stranded == initialized /\ pending_outbound # << >>

\* "pending_outbound - FIFO queue of outbound payloads accepted before initialize
\* completes" (client.ex:142): nothing is sent before the handshake, and, unless a
\* flush failed, what was accepted is sent once each, in order, across the switch from
\* queueing to sending directly.
OutboundFifo ==
  /\ ~initialized => sent = << >>
  /\ ~Stranded => accepted = sent \o pending_outbound
  /\ Distinct(accepted)

\* The permission lock is held by the one set_permission_mode request in flight and by
\* nobody else: an error path that forgot to release it would refuse every later change
\* with :permission_change_in_progress (client.ex:861, 1545, 1884, 2205).
PermissionLockExact ==
  pending_requests \cap ModeRequests =
    IF pending_permission_change = Nil THEN {} ELSE {pending_permission_change}

\* Settled(S): no request of S is open, and none was given up on (a timeout or a protocol
\* error told its caller "failed" while the CLI may still apply it).
Settled(S) == \A r \in S : r \notin pending_requests /\ told[r] # "failed"

\* Whatever the order in which requests, responses and results crossed, once the changes
\* have settled the client and the CLI hold the same model and the same permission mode.
\* This is what the guards model_change_in_progress? and pending_permission_change are for.
SettingsAgree ==
  /\ Settled(ModelRequests) => model = cli_model
  /\ Settled(ModeRequests) => permission_mode = cli_mode

\* Every call is a deferred reply: a response, a timeout, a :DOWN, a protocol error and a
\* session that goes down compete to answer it, and it is answered at most once.
Deferred == INSTANCE DeferredReply WITH Requests <- Callers, status <- told
ControlIsDeferred == Deferred!Spec

\* The handshake ends: with an answer, a failure, or the initialize timeout, also when a
\* protocol error has dropped the initialize entry and its late answer is ignored.
HandshakeEnds == client = "up" ~> initialized \/ client = "stopped"

\* A caller of a control request or of await_initialized is answered unless the client
\* stops (then GenServer.call exits).
CallersAnswered ==
  \A c \in Requests \cup InitWaiters :
    told[c] = "waiting" ~> told[c] # "waiting" \/ client = "stopped"

==============================================================================
