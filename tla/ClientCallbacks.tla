--------------------------- MODULE ClientCallbacks ---------------------------
(***************************************************************************)
(* The peer requests of ClaudeAgentSDK.Client (lib/claude_agent_sdk/       *)
(* client.ex): the CLI asks the SDK to run a hook or a permission          *)
(* callback, the client runs it in a task of its own and answers when the  *)
(* task reports, crashes, or the CLI cancels the request.                  *)
(*                                                                         *)
(* Processes: the CLI and the protocol session (external), one handler     *)
(* process per request blocked in GenServer.call(owner, .., :infinity),    *)
(* the client, one task per running callback, and whoever stops the        *)
(* client.  The client's mailbox is a set: Erlang orders the messages of   *)
(* one sender only, and the one place where that order counts (a task's    *)
(* result precedes its :DOWN) is a guard of HandleDown.                    *)
(***************************************************************************)

EXTENDS Naturals, Sequences

CONSTANTS
  Requests,    \* peer requests the CLI may issue, each with its own request_id
  Registered   \* those that name a registered hook, or for which can_use_tool is set

ASSUME RegisteredAssumption == Registered \subseteq Requests

VARIABLES
  mailbox,            \* messages sent to the client and not yet handled
  pending_callbacks,  \* keys of the map pending_callbacks; these tasks are monitored
  task,               \* of each request: one of TaskStates
  killed,             \* requests whose task was sent exit(pid, :kill)
  signal,             \* requests whose AbortSignal is set
  peer,               \* the handler process: "idle", "started", "calling"
  replies,            \* all GenServer.reply/2 (or {:reply, ..}) given to each request
  client              \* "running", "stopped" (terminate/2 ran), "dead" (it did not)

vars == <<mailbox, pending_callbacks, task, killed, signal, peer, replies, client>>

-----------------------------------------------------------------------------
(***************************************************************************)
(* Messages.  A result is that of execute_hook_callback (client.ex:2472)   *)
(* or execute_permission_callback: "ok", or "error" for an exception, a    *)
(* bad return value or the callback's own timeout.                         *)
(***************************************************************************)
Results == {"ok", "error"}

\* Exit reasons of a task: it returned; it was shut down (by its supervisor, or
\* by a linked process of the callback that ended with :shutdown); anything else.
Reasons == {"normal", "shutdown", "crash"}

Call(r)       == [type |-> "peer_request", id |-> r, info |-> "none"]
Result(r, k)  == [type |-> "callback_result", id |-> r, info |-> k]
Down(r, why)  == [type |-> "DOWN", id |-> r, info |-> why]
Cancel(r)     == [type |-> "control_cancel_request", id |-> r, info |-> "none"]

Messages == [type : {"peer_request", "callback_result", "DOWN", "control_cancel_request"},
             id : Requests,
             info : {"none"} \cup Results \cup Reasons]

\* "dead" is the end of a task that returned, crashed or was killed.
TaskStates == {"none", "running", "reported", "dead", "shut_down"}

Answers == {"ok", "error", "cancelled", "crashed", "unavailable", "immediate"}

\* Process.demonitor(ref, [:flush]) also removes a :DOWN already delivered.
Flush(box, r) == {m \in box : ~(m.type = "DOWN" /\ m.id = r)}

\* The :DOWN of a task reaches the client only while the monitor is on.
DownOf(r, why) == IF r \in pending_callbacks THEN {Down(r, why)} ELSE {}

Reply(r, a) == replies' = [replies EXCEPT ![r] = Append(@, a)]

-----------------------------------------------------------------------------
(***************************************************************************)
(* The CLI and the protocol session.                                       *)
(***************************************************************************)

\* A hook_callback or can_use_tool frame arrives: the session starts a handler.
ReceivePeerRequest(r) ==
  /\ peer[r] = "idle"
  /\ peer' = [peer EXCEPT ![r] = "started"]
  /\ UNCHANGED <<mailbox, pending_callbacks, task, killed, signal, replies, client>>

\* The handler calls the client and blocks, with no timeout.
PeerCall(r) ==
  /\ peer[r] = "started"
  /\ client = "running"
  /\ peer' = [peer EXCEPT ![r] = "calling"]
  /\ mailbox' = mailbox \cup {Call(r)}
  /\ UNCHANGED <<pending_callbacks, task, killed, signal, replies, client>>

\* The CLI cancels a request it issued.  The notification does not pass through
\* the handler, so it may overtake the handler's call.
CliCancel(r) ==
  /\ peer[r] \in {"started", "calling"}
  /\ client = "running"
  /\ Cancel(r) \notin mailbox
  /\ mailbox' = mailbox \cup {Cancel(r)}
  /\ UNCHANGED <<pending_callbacks, task, killed, signal, peer, replies, client>>

-----------------------------------------------------------------------------
(***************************************************************************)
(* Handlers of the client.                                                 *)
(***************************************************************************)

\* handle_hook_callback / handle_can_use_tool_request of a request that has a
\* callback: start_callback_task, then put_pending_callback with its monitor.
StartCallback(r) ==
  /\ client = "running"
  /\ Call(r) \in mailbox
  /\ r \in Registered
  /\ mailbox' = mailbox \ {Call(r)}
  /\ task' = [task EXCEPT ![r] = "running"]
  /\ pending_callbacks' = pending_callbacks \cup {r}
  /\ UNCHANGED <<killed, signal, peer, replies, client>>

\* Mutant: {:noreply, state} when no task can be started.
RefuseSilently(r) ==
  /\ client = "running"
  /\ Call(r) \in mailbox
  /\ r \in Registered
  /\ mailbox' = mailbox \ {Call(r)}
  /\ UNCHANGED <<pending_callbacks, task, killed, signal, peer, replies, client>>

\* TaskSupervisor.start_child refuses: no supervisor, and strict mode.
RefuseCallback(r) ==
  /\ client = "running"
  /\ Call(r) \in mailbox
  /\ r \in Registered
  /\ mailbox' = mailbox \ {Call(r)}
  /\ Reply(r, "unavailable")
  /\ UNCHANGED <<pending_callbacks, task, killed, signal, peer, client>>

\* No such hook (an error), no can_use_tool callback (allow), or an unsupported
\* subtype (an error): answered at once.
AnswerAtOnce(r) ==
  /\ client = "running"
  /\ Call(r) \in mailbox
  /\ r \notin Registered
  /\ mailbox' = mailbox \ {Call(r)}
  /\ Reply(r, "immediate")
  /\ UNCHANGED <<pending_callbacks, task, killed, signal, peer, client>>

\* Mutant: answers without looking at the entry and the signal.
HandleResultUnchecked(r, k) ==
  /\ client = "running"
  /\ Result(r, k) \in mailbox
  /\ pending_callbacks' = pending_callbacks \ {r}
  /\ mailbox' = Flush(mailbox \ {Result(r, k)}, r)
  /\ Reply(r, k)
  /\ UNCHANGED <<task, killed, signal, peer, client>>

\* {:callback_result, ..}: the entry is popped in every case; a cancelled signal
\* or a missing entry means that somebody answered already.
HandleResult(r, k) ==
  /\ client = "running"
  /\ Result(r, k) \in mailbox
  /\ pending_callbacks' = pending_callbacks \ {r}
  /\ mailbox' = LET rest == mailbox \ {Result(r, k)}
                IN  IF r \in pending_callbacks THEN Flush(rest, r) ELSE rest
  /\ IF r \in signal \/ r \notin pending_callbacks
     THEN UNCHANGED replies
     ELSE Reply(r, k)
  /\ UNCHANGED <<task, killed, signal, peer, client>>

\* Mutant: tells the peer "cancelled" also when there is no entry any more.
HandleCancelUnchecked(r) ==
  /\ client = "running"
  /\ Cancel(r) \in mailbox
  /\ pending_callbacks' = pending_callbacks \ {r}
  /\ mailbox' = Flush(mailbox \ {Cancel(r)}, r)
  /\ signal' = signal \cup {r}
  /\ killed' = killed \cup {r}
  /\ Reply(r, "cancelled")
  /\ UNCHANGED <<task, peer, client>>

\* handle_control_cancel_request: pop, set the signal, kill the task, answer.
HandleCancel(r) ==
  /\ client = "running"
  /\ Cancel(r) \in mailbox
  /\ \/ /\ r \in pending_callbacks
        /\ pending_callbacks' = pending_callbacks \ {r}
        /\ mailbox' = Flush(mailbox \ {Cancel(r)}, r)
        /\ signal' = signal \cup {r}
        /\ killed' = killed \cup {r}
        /\ Reply(r, "cancelled")
     \/ /\ r \notin pending_callbacks
        /\ mailbox' = mailbox \ {Cancel(r)}
        /\ UNCHANGED <<pending_callbacks, signal, killed, replies>>
  /\ UNCHANGED <<task, peer, client>>

\* {:DOWN, ..} of a callback task: a normal exit is ignored, a shutdown drops the
\* entry without an answer, a crash answers.  Without an entry nothing happens.
HandleDown(r, why) ==
  /\ client = "running"
  /\ Down(r, why) \in mailbox
  /\ \A k \in Results : Result(r, k) \notin mailbox
  /\ mailbox' = mailbox \ {Down(r, why)}
  /\ IF r \in pending_callbacks /\ why # "normal"
     THEN /\ pending_callbacks' = pending_callbacks \ {r}
          /\ IF r \in signal \/ why = "shutdown"
             THEN UNCHANGED replies
             ELSE Reply(r, "crashed")
     ELSE UNCHANGED <<pending_callbacks, replies>>
  /\ UNCHANGED <<task, killed, signal, peer, client>>

\* Mutant: sets the signals and leaves the tasks alone.
StopWithoutKill ==
  /\ client = "running"
  /\ client' = "stopped"
  /\ signal' = signal \cup pending_callbacks
  /\ pending_callbacks' = {}
  /\ mailbox' = {}
  /\ UNCHANGED <<task, killed, peer, replies>>

\* The session went down, or GenServer.stop/1: cancel_pending_callbacks sets
\* every signal, demonitors and kills, and answers nobody; the blocked handlers
\* see the client exit.
StopClient ==
  /\ client = "running"
  /\ client' = "stopped"
  /\ signal' = signal \cup pending_callbacks
  /\ killed' = killed \cup pending_callbacks
  /\ pending_callbacks' = {}
  /\ mailbox' = {}
  /\ UNCHANGED <<task, peer, replies>>

\* The client does not trap exits: the exit signal of a linked process (its
\* supervisor shutting down included) ends it without terminate/2.
ExitSignal ==
  /\ client = "running"
  /\ client' = "dead"
  /\ pending_callbacks' = {}
  /\ mailbox' = {}
  /\ UNCHANGED <<task, killed, signal, peer, replies>>

-----------------------------------------------------------------------------
(***************************************************************************)
(* Callback tasks.  A kill is a signal too: a task sent one may still      *)
(* report before it dies.                                                  *)
(***************************************************************************)

\* Mutant: a callback that raises reports nothing.
TaskReportUnlessError(r) ==
  /\ task[r] = "running"
  /\ task' = [task EXCEPT ![r] = "reported"]
  /\ mailbox' \in {mailbox} \cup IF client = "running"
                               THEN {mailbox \cup {Result(r, "ok")}} ELSE {}
  /\ UNCHANGED <<pending_callbacks, killed, signal, peer, replies, client>>

TaskReport(r) ==
  /\ task[r] = "running"
  /\ task' = [task EXCEPT ![r] = "reported"]
  /\ \E k \in Results :
        mailbox' = IF client = "running" THEN mailbox \cup {Result(r, k)} ELSE mailbox
  /\ UNCHANGED <<pending_callbacks, killed, signal, peer, replies, client>>

TaskReturn(r) ==
  /\ task[r] = "reported"
  /\ task' = [task EXCEPT ![r] = "dead"]
  /\ mailbox' = mailbox \cup DownOf(r, "normal")
  /\ UNCHANGED <<pending_callbacks, killed, signal, peer, replies, client>>

TaskCrash(r, why) ==
  /\ task[r] = "running"
  /\ task' = [task EXCEPT ![r] = IF why = "shutdown" THEN "shut_down" ELSE "dead"]
  /\ mailbox' = mailbox \cup DownOf(r, why)
  /\ UNCHANGED <<pending_callbacks, killed, signal, peer, replies, client>>

\* The kill arrives; the client has demonitored before it sent it.
TaskKilled(r) ==
  /\ r \in killed
  /\ task[r] \in {"running", "reported"}
  /\ task' = [task EXCEPT ![r] = "dead"]
  /\ UNCHANGED <<mailbox, pending_callbacks, killed, signal, peer, replies, client>>

-----------------------------------------------------------------------------
Init ==
  /\ mailbox = {}
  /\ pending_callbacks = {}
  /\ task = [r \in Requests |-> "none"]
  /\ killed = {}
  /\ signal = {}
  /\ peer = [r \in Requests |-> "idle"]
  /\ replies = [r \in Requests |-> << >>]
  /\ client = "running"

HandleCall(r) == StartCallback(r) \/ RefuseCallback(r) \/ AnswerAtOnce(r)

Handle(r) ==
  \/ HandleCall(r)
  \/ \E k \in Results : HandleResult(r, k)
  \/ HandleCancel(r)
  \/ \E why \in Reasons : HandleDown(r, why)

Task(r) ==
  \/ TaskReport(r)
  \/ TaskReturn(r)
  \/ \E why \in {"shutdown", "crash"} : TaskCrash(r, why)
  \/ TaskKilled(r)

Next ==
  \/ \E r \in Requests : ReceivePeerRequest(r) \/ PeerCall(r) \/ CliCancel(r)
  \/ \E r \in Requests : Handle(r)
  \/ \E r \in Requests : Task(r)
  \/ StopClient
  \/ ExitSignal

Spec == Init /\ [][Next]_vars

\* The client serves every message of its mailbox in turn (a GenServer); a callback
\* ends, because execute_hook_callback and execute_permission_callback give it a
\* timeout; a started handler calls.
\* Nothing is assumed of the CLI, of cancels or of whoever stops the client.
Fairness ==
  /\ \A r \in Requests : WF_vars(PeerCall(r))
  /\ \A r \in Requests : WF_vars(HandleCall(r))
  /\ \A r \in Requests, k \in Results : WF_vars(HandleResult(r, k))
  /\ \A r \in Requests, why \in Reasons : WF_vars(HandleDown(r, why))
  /\ \A r \in Requests : WF_vars(Task(r))

FairSpec == Spec /\ Fairness

-----------------------------------------------------------------------------
(***************************************************************************)
(* Properties.                                                             *)
(***************************************************************************)

\* The state is of the shape of the Client struct and its mailbox.
TypeOK ==
  /\ mailbox \subseteq Messages
  /\ pending_callbacks \subseteq Requests
  /\ task \in [Requests -> TaskStates]
  /\ killed \subseteq Requests
  /\ signal \subseteq Requests
  /\ peer \in [Requests -> {"idle", "started", "calling"}]
  /\ replies \in [Requests -> Seq(Answers)]
  /\ client \in {"running", "stopped", "dead"}

\* Once the client has cancelled a callback the peer is told "cancelled", or
\* nothing when the client stopped: a result already in the mailbox when the kill
\* was sent never turns into an answer (client.ex:1081, 2069-2084).
CancelIsFinal == \A r \in signal : \A i \in DOMAIN replies[r] : replies[r][i] = "cancelled"

\* An entry of pending_callbacks cannot be left behind: its task is alive, or a
\* message that removes the entry is on its way.  The clause of client.ex:1924
\* that ignores a normal :DOWN would leak the entry otherwise.
NoStuckEntry ==
  \A r \in pending_callbacks :
    \/ task[r] = "running"
    \/ \E k \in Results : Result(r, k) \in mailbox
    \/ \E why \in Reasons \ {"normal"} : Down(r, why) \in mailbox

\* After an orderly stop no callback runs on unaware: its signal is set and its
\* task has been sent a kill (cancel_pending_callbacks, client.ex:2662).
StopReachesTasks ==
  client = "stopped" =>
    \A r \in Requests : task[r] = "running" => r \in signal /\ r \in killed

\* How a peer request looks to its handler.
CallStatus(r) ==
  IF replies[r] = << >>
  THEN IF peer[r] = "calling" THEN "waiting" ELSE "unasked"
  ELSE IF Len(replies[r]) = 1 THEN replies[r][1] ELSE "answered again"

Deferred == INSTANCE DeferredReply WITH status <- [r \in Requests |-> CallStatus(r)]

\* Each peer request is a deferred reply: a result, a :DOWN, a cancel and a stop may
\* all be under way for it (client.ex:1077, 2069, 2687), and still it is asked first,
\* answered at most once, and the answer never changes.
RepliesAreDeferred == Deferred!Spec

\* A peer handler waits with no timeout (client.ex:1701), so the client owes it an
\* answer: it gets one unless the client ends or the task is shut down, the case
\* handle_callback_down drops in silence.
EveryHandlerAnswered ==
  \A r \in Requests :
    peer[r] = "calling" ~> \/ replies[r] # << >>
                           \/ task[r] = "shut_down"
                           \/ client # "running"
==============================================================================
