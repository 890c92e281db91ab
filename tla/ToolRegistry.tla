---------------------------- MODULE ToolRegistry ----------------------------
(***************************************************************************)
(* Tool executions of an SDK MCP server: ClaudeAgentSDK.Tool.Registry      *)
(* (lib/claude_agent_sdk/tool/registry.ex) and the tools/call path of the  *)
(* client's peer handlers (client.ex).  A handler of the registry is one   *)
(* action.  execute_tool is a call with an infinite timeout, so the        *)
(* registry owes every caller an answer: the result of the tool's task,    *)
(* its timer and the :DOWN of its monitor compete for it, and a tool may   *)
(* itself call the registry and block.                                     *)
(*                                                                         *)
(* get_tool and list_tools only read.  What a tool computes is not         *)
(* modelled: it returns, raises, exits with any reason, or never ends.     *)
(***************************************************************************)
EXTENDS FiniteSets

CONSTANTS
  Registrations,   \* calls of register_tool
  Calls,           \* calls of execute_tool
  Name,            \* of each, the tool's name, normalized
  PeerCalls,       \* calls that a peer handler makes for a tools/call request
  Parent,          \* of each call, the call whose tool makes it, or Nil
  Nil

ASSUME ToolRegistryAssumption ==
  /\ PeerCalls \subseteq Calls
  /\ Parent \in [Calls -> Calls \cup {Nil}]
  /\ \A c \in PeerCalls : Parent[c] = Nil
  /\ Nil \notin Calls

VARIABLES
  up,           \* the registry process lives
  tools,        \* the names registered
  registered,   \* of each registration: "unasked" or its reply
  pending,      \* pending_executions, each with a monitor of its task and a timer
  timer,        \* of each execution: "off", "armed" or "fired"
  box,          \* what has been sent to the registry and not yet handled
  task,         \* of each execution: "none", "running", "reported" or "ended"
  kills,        \* kill signals under way
  status        \* of each call: "unasked", "waiting", "gone" if its caller exited
                \* first, or what the caller was told

registryVars == <<tools, pending, timer>>
taskVars     == <<task, kills>>
vars         == <<up, registryVars, registered, box, taskVars, status>>

Result(c, outcome) == [tag |-> "result", call |-> c, what |-> outcome]
Timeout(c)         == [tag |-> "timeout", call |-> c, what |-> Nil]
Down(c, reason)    == [tag |-> "down", call |-> c, what |-> reason]

\* What a tool's task can report: a tool that raises is an execution that failed.
Outcomes == {"ok", "error", "failed"}
Reasons  == {"normal", "shutdown", "other"}

\* The replies of execute_tool; "exit" is the exit of the call when the registry is gone.
Replies == Outcomes \cup {"not_found", "exit"}

\* The JSON-RPC answer that a peer handler makes of a reply; it catches the exit.
Responses == {"result", "tool_error", "internal_error", "unknown_server"}
Response ==
  [reply \in Replies |->
     IF reply = "ok" THEN "result"
     ELSE IF reply \in {"error", "not_found"} THEN "tool_error" ELSE "internal_error"]

Told(c, reply) == IF c \in PeerCalls THEN Response[reply] ELSE reply

\* A reply reaches a caller that is still there.
Reply(c, reply) ==
  status' = IF status[c] = "gone" THEN status ELSE [status EXCEPT ![c] = Told(c, reply)]

-----------------------------------------------------------------------------
(***************************************************************************)
(* Calls.                                                                  *)
(***************************************************************************)

RegisterTool(g) ==
  /\ up
  /\ registered[g] = "unasked"
  /\ registered' = [registered EXCEPT ![g] =
                      IF Name[g] \in tools THEN "already_registered" ELSE "ok"]
  /\ tools' = tools \cup {Name[g]}
  /\ UNCHANGED <<up, pending, timer, box, taskVars, status>>

\* A call is made by a process that lives and is not blocked in another call.
Blocked(c) == \E k \in Calls : Parent[k] = c /\ status[k] = "waiting"

MayCall(c) ==
  /\ status[c] = "unasked"
  /\ Parent[c] # Nil => task[Parent[c]] = "running" /\ ~Blocked(Parent[c])

\* The request names a server that the client does not have: the registry is not called.
UnknownServer(c) ==
  /\ c \in PeerCalls
  /\ MayCall(c)
  /\ status' = [status EXCEPT ![c] = "unknown_server"]
  /\ UNCHANGED <<up, registryVars, registered, box, taskVars>>

\* Answered at once: the registry is gone, the tool is unknown, or no task can be started.
Refuse(c) ==
  /\ MayCall(c)
  /\ \/ ~up /\ Reply(c, "exit")
     \/ up /\ Name[c] \notin tools /\ Reply(c, "not_found")
     \/ up /\ Name[c] \in tools /\ Reply(c, "failed")
  /\ UNCHANGED <<up, registryVars, registered, box, taskVars>>

StartToolExecution(c) ==
  /\ MayCall(c)
  /\ up
  /\ Name[c] \in tools
  /\ pending' = pending \cup {c}
  /\ timer' = [timer EXCEPT ![c] = "armed"]
  /\ task' = [task EXCEPT ![c] = "running"]
  /\ status' = [status EXCEPT ![c] = "waiting"]
  /\ UNCHANGED <<up, tools, registered, box, kills>>

\* The caller exits, say because the client's protocol session ends.  The registry does
\* not monitor it.
CallerExits(c) ==
  /\ Parent[c] = Nil
  /\ status[c] = "waiting"
  /\ status' = [status EXCEPT ![c] = "gone"]
  /\ UNCHANGED <<up, registryVars, registered, box, taskVars>>

-----------------------------------------------------------------------------
(***************************************************************************)
(* Tasks.  The end of one takes the calls of its tool with it.             *)
(***************************************************************************)

TaskReports(c) ==
  /\ task[c] = "running"
  /\ ~Blocked(c)
  /\ task' = [task EXCEPT ![c] = "reported"]
  /\ \E outcome \in Outcomes : box' = IF up THEN box \cup {Result(c, outcome)} ELSE box
  /\ UNCHANGED <<up, registryVars, registered, kills, status>>

Ends(c, reason) ==
  /\ task' = [task EXCEPT ![c] = "ended"]
  /\ kills' = kills \ {c}
  /\ box' = IF c \in pending THEN box \cup {Down(c, reason)} ELSE box
  /\ status' = [k \in Calls |-> IF Parent[k] = c /\ status[k] = "waiting"
                                THEN "gone" ELSE status[k]]
  /\ UNCHANGED <<up, registryVars, registered>>

\* The reason is :noproc if the task has ended before it is monitored.
TaskReturns(c) ==
  /\ task[c] = "reported"
  /\ \E reason \in {"normal", "other"} : Ends(c, reason)

\* The tool exits or throws, which is not rescued, or the task supervisor shuts the task
\* down, also while its tool is blocked.
TaskExits(c) ==
  /\ task[c] = "running"
  /\ \E reason \in Reasons : Ends(c, reason)

TaskKilled(c) ==
  /\ c \in kills
  /\ Ends(c, "other")

TimerFires(c) ==
  /\ up
  /\ timer[c] = "armed"
  /\ timer' = [timer EXCEPT ![c] = "fired"]
  /\ box' = box \cup {Timeout(c)}
  /\ UNCHANGED <<up, tools, pending, registered, taskVars, status>>

-----------------------------------------------------------------------------
(***************************************************************************)
(* The handlers of the registry.                                           *)
(***************************************************************************)

\* cleanup_execution: the monitor is taken off and its :DOWN flushed; a timer that has
\* fired has its message in the mailbox.
CleanupExecution(c) ==
  /\ timer' = [timer EXCEPT ![c] = IF @ = "armed" THEN "off" ELSE @]
  /\ pending' = pending \ {c}

Downs(c) == {Down(c, reason) : reason \in Reasons}

\* Mutant: the entry stays.
PopAndKeep(c, m) ==
  /\ timer' = [timer EXCEPT ![c] = IF @ = "armed" THEN "off" ELSE @]
  /\ box' = box \ ({m} \cup Downs(c))
  /\ UNCHANGED pending

PopExecution(c, m) ==
  /\ CleanupExecution(c)
  /\ box' = box \ ({m} \cup Downs(c))

\* A message of an execution that has been answered.
Ignore(m) ==
  /\ box' = box \ {m}
  /\ UNCHANGED <<pending, timer, kills, status>>

HandleResult(c) ==
  /\ \E outcome \in Outcomes :
       LET m == Result(c, outcome)
       IN  /\ m \in box
           /\ \/ c \notin pending /\ Ignore(m)
              \/ c \in pending /\ PopExecution(c, m) /\ Reply(c, outcome) /\ UNCHANGED kills
  /\ UNCHANGED <<up, tools, registered, task>>

\* Mutant: the task is left to itself.
TimeoutWithoutKill(c) ==
  /\ Timeout(c) \in box
  /\ \/ c \notin pending /\ Ignore(Timeout(c))
     \/ c \in pending /\ PopExecution(c, Timeout(c)) /\ Reply(c, "failed") /\ UNCHANGED kills
  /\ UNCHANGED <<up, tools, registered, task>>

HandleTimeout(c) ==
  /\ Timeout(c) \in box
  /\ \/ c \notin pending /\ Ignore(Timeout(c))
     \/ /\ c \in pending
        /\ PopExecution(c, Timeout(c))
        /\ kills' = IF task[c] = "ended" THEN kills ELSE kills \cup {c}
        /\ Reply(c, "failed")
  /\ UNCHANGED <<up, tools, registered, task>>

\* Mutant: an end that is not a crash drops the entry, as the client's callbacks do.
DownDrops(c) ==
  /\ \E reason \in Reasons :
       LET m == Down(c, reason)
       IN  /\ m \in box
           /\ PopExecution(c, m)
           /\ IF reason = "other" THEN Reply(c, "failed") ELSE UNCHANGED status
  /\ UNCHANGED <<up, tools, registered, taskVars>>

\* The task has ended without its result, which would come first: a crash is answered;
\* :normal and :shutdown leave the entry to its timer.
HandleDown(c) ==
  /\ \A outcome \in Outcomes : Result(c, outcome) \notin box
  /\ \E reason \in Reasons :
       LET m == Down(c, reason)
       IN  /\ m \in box
           /\ \/ (c \notin pending \/ reason \in {"normal", "shutdown"}) /\ Ignore(m)
              \/ /\ c \in pending
                 /\ reason = "other"
                 /\ PopExecution(c, m)
                 /\ Reply(c, "failed")
                 /\ UNCHANGED kills
  /\ UNCHANGED <<up, tools, registered, task>>

\* The registry ends, by a crash or with its supervisor, which does not start it again.
\* The callers' calls exit, timers and messages are gone, and the tasks run on.
RegistryEnds ==
  /\ up
  /\ up' = FALSE
  /\ pending' = {}
  /\ timer' = [c \in Calls |-> "off"]
  /\ box' = {}
  /\ status' = [c \in Calls |-> IF status[c] = "waiting" THEN Told(c, "exit") ELSE status[c]]
  /\ UNCHANGED <<tools, registered, taskVars>>

-----------------------------------------------------------------------------
Init ==
  /\ up = TRUE
  /\ tools = {}
  /\ registered = [g \in Registrations |-> "unasked"]
  /\ pending = {}
  /\ timer = [c \in Calls |-> "off"]
  /\ box = {}
  /\ task = [c \in Calls |-> "none"]
  /\ kills = {}
  /\ status = [c \in Calls |-> "unasked"]

Handle(c) == HandleResult(c) \/ HandleTimeout(c) \/ HandleDown(c)

Next ==
  \/ \E g \in Registrations : RegisterTool(g)
  \/ \E c \in Calls : UnknownServer(c) \/ Refuse(c) \/ StartToolExecution(c) \/ CallerExits(c)
  \/ \E c \in Calls : TaskReports(c) \/ TaskReturns(c) \/ TaskExits(c) \/ TaskKilled(c)
  \/ \E c \in Calls : TimerFires(c) \/ Handle(c)
  \/ RegistryEnds

Spec == Init /\ [][Next]_vars

\* The registry serves its mailbox, timers fire, a kill arrives, and a task that has
\* reported has nothing left to do.  Nothing is assumed of a tool.
Fairness ==
  \A c \in Calls :
    /\ WF_vars(Handle(c))
    /\ WF_vars(TimerFires(c))
    /\ WF_vars(TaskKilled(c))
    /\ WF_vars(TaskReturns(c))

FairSpec == Spec /\ Fairness

-----------------------------------------------------------------------------
(***************************************************************************)
(* Properties.                                                             *)
(***************************************************************************)

Messages ==
  {Result(c, o) : c \in Calls, o \in Outcomes} \cup {Timeout(c) : c \in Calls}
    \cup {Down(c, reason) : c \in Calls, reason \in Reasons}

\* The state is of the shape of the registry's state (registry.ex:42-52), its mailbox and
\* its tasks.
TypeOK ==
  /\ up \in BOOLEAN
  /\ tools \subseteq {Name[g] : g \in Registrations}
  /\ registered \in [Registrations -> {"unasked", "ok", "already_registered"}]
  /\ pending \subseteq Calls
  /\ timer \in [Calls -> {"off", "armed", "fired"}]
  /\ box \subseteq Messages
  /\ task \in [Calls -> {"none", "running", "reported", "ended"}]
  /\ kills \subseteq Calls
  /\ status \in [Calls -> {"unasked", "waiting", "gone"} \cup Replies \cup Responses]

\* A caller of execute_tool is answered once: the result, the timeout and the :DOWN of its
\* task compete, and the later ones change nothing (registry.ex:225-273); a peer
\* handler is told something also when the registry ends (client.ex:2956-2964).
Execution == INSTANCE DeferredReply WITH Requests <- Calls,
                                         Answers <- Replies \cup Responses \cup {"gone"}
ExecutionsAreDeferred == Execution!Spec

\* execute_tool waits for :infinity (registry.ex:173), so every execution has to end in an
\* answer, whatever its tool does, also if the task ends in a way the registry ignores or
\* the tool calls the registry in turn.
ExecutionsEnd == \A c \in Calls : status[c] = "waiting" ~> status[c] # "waiting"

\* No task outlives its execution for ever, as long as the registry lives: a tool that does
\* not end is killed, also one that waits for another execution (registry.ex:246).
TasksEnd == \A c \in Calls : task[c] = "running" ~> task[c] = "ended" \/ ~up
=============================================================================
