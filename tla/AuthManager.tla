----------------------------- MODULE AuthManager -----------------------------
(***************************************************************************)
(* ClaudeAgentSDK.AuthManager (lib/claude_agent_sdk/auth_manager.ex): it   *)
(* keeps the authentication token, loads and saves it through a storage    *)
(* backend, runs `claude setup-token' in a task of its own when a caller   *)
(* asks for it, and again before the token expires.                        *)
(*                                                                         *)
(* Processes: the callers, the manager, one task per setup, the refresh    *)
(* timer.  A task saves its token before it reports, so storage can be     *)
(* ahead of the manager; a killed task may take steps before it dies.      *)
(***************************************************************************)
EXTENDS Naturals

CONSTANTS
  Setups,       \* calls of setup_token/0 and refresh_token/0
  Ensures,      \* calls of ensure_authenticated/0
  MaxTasks,     \* bound: setup tasks; task n obtains token n
  MaxClears,    \* bound: calls of clear_auth/0
  MaxRestarts,  \* bound: times the manager dies and is started again
  Nil

Callers == Setups \cup Ensures
Tasks   == 1 .. MaxTasks

ASSUME AuthAssumption ==
  /\ MaxTasks \in Nat /\ MaxClears \in Nat /\ MaxRestarts \in Nat
  /\ Nil \notin Nat

VARIABLES
  token,            \* Nil, or the task that obtained it
  valid,            \* valid_token?/1
  refresh_timer,    \* the timer refresh_timer refers to: "off", "armed", or "fired"
  loose_timers,     \* timers armed that refresh_timer does not refer to
  ticks,            \* :refresh_token messages in the mailbox
  setup_task,       \* setup_task_pid and setup_task_ref: a task or Nil
  setup_waiters,
  completes,        \* {:setup_complete, ..} messages in the mailbox: <<task, result>>
  downs,            \* monitored tasks whose abnormal :DOWN is in the mailbox
  stored,           \* what the storage backend holds: Nil or a token
  task,             \* of each task: "none", "running", its result, or "dead"
  operation,        \* of each task: "manual" or "auto"
  killed,           \* tasks that were in flight when clear_auth/0 cancelled them
  orphans,          \* tasks a manager that has died started
  told,             \* of each caller: "unasked", "waiting", or its answer
  clears, restarts, \* so far
  cleared,          \* clear_auth/0 was the last thing anybody asked for (history)
  missed            \* a tick was dropped since the last token was set (history)

timerVars  == <<refresh_timer, loose_timers, ticks>>
storeVars  == <<token, valid, stored>>
taskVars   == <<task, operation, killed, orphans>>
boundVars  == <<clears, restarts>>
history    == <<cleared, missed>>
vars       == <<storeVars, timerVars, setup_task, setup_waiters, completes, downs, taskVars,
                told, boundVars, history>>

Answers == {"ok", "error", "exited"}

setup_in_progress == setup_task # Nil

-----------------------------------------------------------------------------
(***************************************************************************)
(* The refresh timer.                                                      *)
(***************************************************************************)

\* cancel_refresh_timer: cancel the timer referred to and flush every tick; does nothing
\* when refresh_timer is nil.
CancelRefreshTimer ==
  IF refresh_timer = "off" THEN UNCHANGED timerVars
  ELSE refresh_timer' = "off" /\ ticks' = 0 /\ UNCHANGED loose_timers

\* schedule_refresh of a token that expires.
ScheduleRefresh ==
  /\ refresh_timer' = "armed"
  /\ ticks' = IF refresh_timer = "off" THEN ticks ELSE 0
  /\ UNCHANGED loose_timers

\* schedule_refresh_retry does not cancel what refresh_timer refers to.
ScheduleRetry ==
  /\ refresh_timer' = "armed"
  /\ loose_timers' = IF refresh_timer = "armed" THEN loose_timers + 1 ELSE loose_timers
  /\ UNCHANGED ticks

\* Mutant: a failed automatic refresh is not tried again.
NoRetry(op) == UNCHANGED timerVars

\* maybe_schedule_retry_on_failure
RetryOnFailure(op) == IF op = "auto" THEN ScheduleRetry ELSE UNCHANGED timerVars

TimerFires ==
  /\ \/ /\ refresh_timer = "armed"
        /\ refresh_timer' = "fired"
        /\ UNCHANGED loose_timers
     \/ /\ loose_timers > 0
        /\ loose_timers' = loose_timers - 1
        /\ UNCHANGED refresh_timer
  /\ ticks' = ticks + 1
  /\ UNCHANGED <<storeVars, setup_task, setup_waiters, completes, downs, taskVars, told,
                 boundVars, history>>

Expire ==
  /\ valid
  /\ valid' = FALSE
  /\ UNCHANGED <<token, stored, timerVars, setup_task, setup_waiters, completes, downs,
                 taskVars, told, boundVars, history>>

-----------------------------------------------------------------------------
(***************************************************************************)
(* Setup tasks.                                                            *)
(***************************************************************************)

\* Mutants: the message is handed on; the list is not emptied; nobody is told.
ReplyMessage(waiting, answer) ==
  /\ told' = [c \in Callers |-> IF c \in waiting THEN "setup_complete" ELSE told[c]]
  /\ setup_waiters' = {}

ReplyAndKeepWaiters(waiting, answer) ==
  /\ told' = [c \in Callers |-> IF c \in waiting THEN answer ELSE told[c]]
  /\ setup_waiters' = waiting

ForgetWaiters(waiting, answer) == setup_waiters' = {} /\ UNCHANGED told

\* reply_setup_waiters, with the callers of waiting in setup_waiters.
ReplyWaiters(waiting, answer) ==
  /\ told' = [c \in Callers |-> IF c \in waiting THEN answer ELSE told[c]]
  /\ setup_waiters' = {}

\* TaskSupervisor.start_child and Process.monitor.
Launch(op) ==
  \E t \in Tasks :
    /\ task[t] = "none"
    /\ \A u \in 1 .. t - 1 : task[u] # "none"
    /\ task' = [task EXCEPT ![t] = "running"]
    /\ operation' = [operation EXCEPT ![t] = op]
    /\ setup_task' = t
    /\ UNCHANGED <<killed, orphans>>

\* Mutant: reports success and saves nothing.
TaskSkipsSave(t) ==
  /\ task[t] = "running"
  /\ task' = [task EXCEPT ![t] = "ok"]
  /\ UNCHANGED <<storeVars, timerVars, setup_task, setup_waiters, completes, downs,
                 operation, killed, orphans, told, boundVars, history>>

\* The provider hands out a token and the storage backend saves it ...
TaskSaves(t) ==
  /\ task[t] = "running"
  /\ task' = [task EXCEPT ![t] = "ok"]
  /\ stored' = t
  /\ UNCHANGED <<token, valid, timerVars, setup_task, setup_waiters, completes, downs,
                 operation, killed, orphans, told, boundVars, history>>

\* ... or one of them returns an error.
TaskFails(t) ==
  /\ task[t] = "running"
  /\ task' = [task EXCEPT ![t] = "error"]
  /\ UNCHANGED <<storeVars, timerVars, setup_task, setup_waiters, completes, downs,
                 operation, killed, orphans, told, boundVars, history>>

\* send(server, {:setup_complete, operation, result}), the last the task does; it
\* goes to the manager that started it.
TaskReports(t) ==
  /\ task[t] \in {"ok", "error"}
  /\ task' = [task EXCEPT ![t] = "dead"]
  /\ completes' = IF t \in orphans THEN completes ELSE completes \cup {<<t, task[t]>>}
  /\ UNCHANGED <<storeVars, timerVars, setup_task, setup_waiters, downs, operation, killed, orphans, told, boundVars, history>>

\* The task raises or is killed from outside; or the manager's own kill arrives.  Its
\* :DOWN is seen as long as it is the one monitored.
TaskDies(t) ==
  /\ task[t] \in {"running", "ok", "error"}
  /\ task' = [task EXCEPT ![t] = "dead"]
  /\ downs' = IF setup_task = t THEN downs \cup {t} ELSE downs
  /\ UNCHANGED <<storeVars, timerVars, setup_task, setup_waiters, completes, operation,
                 killed, orphans, told, boundVars, history>>

-----------------------------------------------------------------------------
(***************************************************************************)
(* Calls.                                                                  *)
(***************************************************************************)

\* enqueue_setup_request: wait for the setup that is running, or start one; when no task
\* can be started the waiters are told.
Enqueue(c) ==
  /\ told[c] = "unasked"
  /\ \/ /\ \/ setup_in_progress /\ UNCHANGED <<setup_task, taskVars>>
           \/ ~setup_in_progress /\ Launch("manual")
        /\ told' = [told EXCEPT ![c] = "waiting"]
        /\ setup_waiters' = setup_waiters \cup {c}
     \/ /\ ~setup_in_progress
        /\ ReplyWaiters(setup_waiters \cup {c}, "error")
        /\ UNCHANGED <<setup_task, taskVars>>
  /\ cleared' = FALSE
  /\ UNCHANGED <<storeVars, timerVars, completes, downs, boundVars, missed>>

SetupToken(c) == c \in Setups /\ Enqueue(c)

\* ensure_authenticated/0 without a key in the environment.
EnsureAuthenticated(c) ==
  /\ c \in Ensures
  /\ ~valid
  /\ Enqueue(c)

\* With a valid token or a key in the environment :ok, in CI (where nobody can answer a
\* setup) an error, at once.
EnsureAtOnce(c) ==
  /\ c \in Ensures
  /\ told[c] = "unasked"
  /\ \/ told' = [told EXCEPT ![c] = "ok"]
     \/ ~valid /\ told' = [told EXCEPT ![c] = "error"]
  /\ UNCHANGED <<storeVars, timerVars, setup_task, setup_waiters, completes, downs, taskVars,
                 boundVars, history>>

\* clear_auth/0: cancel_setup_task, cancel_refresh_timer, clear_token_state, then the
\* backend.  TokenStore.clear returns :ok also when File.rm fails; another backend may
\* return an error.  What the mailbox holds of the task is not flushed, its :DOWN apart.
ClearAuth ==
  /\ clears < MaxClears
  /\ clears' = clears + 1
  /\ killed' = IF setup_in_progress THEN killed \cup {setup_task} ELSE killed
  /\ downs' = downs \ {setup_task}
  /\ ReplyWaiters(setup_waiters, "error")
  /\ setup_task' = Nil
  /\ CancelRefreshTimer
  /\ token' = Nil
  /\ valid' = FALSE
  /\ \/ stored' = Nil /\ cleared' = TRUE
     \/ stored' = stored /\ cleared' = TRUE     \* :ok, although File.rm failed
     \/ stored' = stored /\ cleared' = FALSE    \* {:error, reason}
  /\ missed' = FALSE
  /\ UNCHANGED <<completes, task, operation, orphans, restarts>>

-----------------------------------------------------------------------------
(***************************************************************************)
(* Messages.                                                               *)
(***************************************************************************)

\* :refresh_token.  The field is set to nil first, whatever timer it refers to; then the
\* tick is dropped, starts a setup, or, when no task can be started, is retried.
HandleTick ==
  /\ ticks > 0
  /\ ticks' = ticks - 1
  /\ loose_timers' = IF refresh_timer = "armed" THEN loose_timers + 1 ELSE loose_timers
  /\ \/ /\ setup_in_progress \/ token = Nil
        /\ refresh_timer' = "off"
        /\ missed' = (missed \/ setup_in_progress)
        /\ UNCHANGED <<setup_task, setup_waiters, taskVars, told>>
     \/ /\ ~setup_in_progress /\ token # Nil
        /\ refresh_timer' = "off"
        /\ Launch("auto")
        /\ UNCHANGED <<setup_waiters, told, missed>>
     \/ /\ ~setup_in_progress /\ token # Nil
        /\ refresh_timer' = "armed"
        /\ ReplyWaiters(setup_waiters, "error")
        /\ UNCHANGED <<setup_task, taskVars, missed>>
  /\ UNCHANGED <<storeVars, completes, downs, boundVars, cleared>>

\* {:setup_complete, operation, result} of any task, also of one that was cancelled:
\* demonitor_setup_task and clear_setup_task_state apply to the task in flight.
SetupComplete(t, result) ==
  /\ <<t, result>> \in completes
  /\ completes' = completes \ {<<t, result>>}
  /\ downs' = downs \ {setup_task}
  /\ setup_task' = Nil
  /\ ReplyWaiters(setup_waiters, result)
  /\ \/ /\ result = "ok"
        /\ token' = t
        /\ valid' = TRUE
        /\ ScheduleRefresh
        /\ missed' = FALSE
     \/ /\ result = "error"
        /\ RetryOnFailure(operation[t])
        /\ UNCHANGED <<token, valid, missed>>
  /\ UNCHANGED <<stored, taskVars, boundVars, cleared>>

\* Mutant: the waiters are left to their timeouts.
SetupDownSilently(t) ==
  /\ t \in downs
  /\ downs' = downs \ {t}
  /\ setup_task' = Nil
  /\ RetryOnFailure(operation[t])
  /\ UNCHANGED <<storeVars, setup_waiters, completes, taskVars, told, boundVars, history>>

\* {:DOWN, ..} of the task in flight, with a reason other than :normal.
SetupDown(t) ==
  /\ t \in downs
  /\ downs' = downs \ {t}
  /\ setup_task' = Nil
  /\ ReplyWaiters(setup_waiters, "error")
  /\ RetryOnFailure(operation[t])
  /\ UNCHANGED <<storeVars, completes, taskVars, boundVars, history>>

\* The manager dies, its callers' calls exit with it, and one started in its place loads
\* the token (handle_continue(:load_token)) and schedules its refresh if it is valid.
Restart ==
  /\ restarts < MaxRestarts
  /\ restarts' = restarts + 1
  /\ ReplyWaiters(setup_waiters, "exited")
  /\ setup_task' = Nil
  /\ completes' = {}
  /\ downs' = {}
  /\ orphans' = orphans \cup {t \in Tasks : task[t] # "none"}
  /\ token' \in {stored, Nil}                 \* Nil also when the load fails
  /\ \/ token' # Nil /\ valid' = TRUE /\ refresh_timer' = "armed"
     \/ valid' = FALSE /\ refresh_timer' = "off"
  /\ loose_timers' = 0
  /\ ticks' = 0
  /\ missed' = FALSE
  /\ UNCHANGED <<stored, task, operation, killed, clears, cleared>>

-----------------------------------------------------------------------------
\* A manager that finds no token in storage, or one of an earlier run (token 0), which it
\* may fail to load.
Init ==
  /\ stored \in {Nil, 0}
  /\ token \in {stored, Nil}
  /\ \/ token # Nil /\ valid = TRUE /\ refresh_timer = "armed"
     \/ valid = FALSE /\ refresh_timer = "off"
  /\ loose_timers = 0
  /\ ticks = 0
  /\ setup_task = Nil
  /\ setup_waiters = {}
  /\ completes = {}
  /\ downs = {}
  /\ task = [t \in Tasks |-> "none"]
  /\ operation = [t \in Tasks |-> "manual"]
  /\ killed = {}
  /\ orphans = {}
  /\ told = [c \in Callers |-> "unasked"]
  /\ clears = 0
  /\ restarts = 0
  /\ cleared = FALSE
  /\ missed = FALSE

SetupCompletes(t) == \E result \in {"ok", "error"} : SetupComplete(t, result)

TaskStep(t) == TaskSaves(t) \/ TaskFails(t) \/ TaskReports(t) \/ TaskDies(t)

Next ==
  \/ \E c \in Callers : SetupToken(c) \/ EnsureAuthenticated(c) \/ EnsureAtOnce(c)
  \/ ClearAuth
  \/ \E t \in Tasks : TaskStep(t) \/ SetupDown(t) \/ SetupCompletes(t)
  \/ TimerFires
  \/ Expire
  \/ HandleTick
  \/ Restart

Spec == Init /\ [][Next]_vars

\* A setup task ends (the provider gives `claude setup-token' a timeout) and the manager
\* serves its mailbox.
Fairness ==
  \A t \in Tasks : /\ WF_vars(TaskStep(t))
                  /\ WF_vars(SetupCompletes(t))
                  /\ WF_vars(SetupDown(t))

FairSpec == Spec /\ Fairness

-----------------------------------------------------------------------------
(***************************************************************************)
(* Properties.                                                             *)
(***************************************************************************)

Tokens == {0} \cup Tasks

\* The state is of the shape of the AuthManager struct (auth_manager.ex:45).
TypeOK ==
  /\ token \in Tokens \cup {Nil}
  /\ valid \in BOOLEAN
  /\ refresh_timer \in {"off", "armed", "fired"}
  /\ loose_timers \in Nat
  /\ ticks \in Nat
  /\ setup_task \in Tasks \cup {Nil}
  /\ setup_waiters \subseteq Callers
  /\ completes \subseteq Tasks \X {"ok", "error"}
  /\ downs \subseteq Tasks
  /\ stored \in Tokens \cup {Nil}
  /\ task \in [Tasks -> {"none", "running", "ok", "error", "dead"}]
  /\ operation \in [Tasks -> {"manual", "auto"}]
  /\ killed \subseteq Tasks
  /\ orphans \subseteq Tasks
  /\ told \in [Callers -> {"unasked", "waiting"} \cup Answers]
  /\ clears \in 0 .. MaxClears
  /\ restarts \in 0 .. MaxRestarts
  /\ cleared \in BOOLEAN
  /\ missed \in BOOLEAN

\* Nobody waits for nothing: the waiters are the callers that have no answer, they wait
\* for a setup in flight, and that setup is alive or its end is in the mailbox, also when
\* the end of a cancelled setup is taken for the end of the one in flight.
NobodyForgotten ==
  /\ setup_waiters = {c \in Callers : told[c] = "waiting"}
  /\ setup_waiters # {} => setup_in_progress
  /\ setup_in_progress =>
       \/ task[setup_task] \in {"running", "ok", "error"} /\ setup_task \notin orphans
       \/ \E result \in {"ok", "error"} : <<setup_task, result>> \in completes
       \/ setup_task \in downs

\* As long as clear_auth/0 has cancelled no setup, storage is never behind the manager: a
\* token in memory was saved first, and, while one manager runs, storage holds that very
\* token or a newer one (whose setup crashed, or has not reported yet).
StorageNotBehind ==
  killed = {} /\ token # Nil =>
    /\ stored # Nil
    /\ restarts = 0 => stored >= token

\* "Token expiry detection and automatic refresh" (auth_manager.ex:12): a valid token has
\* its refresh scheduled, is being refreshed, or lost its tick to a setup in flight when
\* the timer fired (handle_info(:refresh_token) drops it, and a setup asked for by a
\* caller schedules no retry when it fails).  The late end of a cancelled setup can lose it
\* too.
RefreshScheduled ==
  valid /\ ~setup_in_progress /\ ~missed /\ killed = {} => refresh_timer # "off"

\* Every call that waits for a setup is a deferred reply: the setup's result, its crash,
\* clear_auth/0 and the manager's own end compete to answer it.
Deferred == INSTANCE DeferredReply WITH Requests <- Callers, status <- told
WaitersAreDeferred == Deferred!Spec

\* Every caller that waits for a setup is answered.
WaitersAnswered == \A c \in Callers : told[c] = "waiting" ~> told[c] # "waiting"

\* clear_auth/0 "Clears stored authentication": as long as nobody asks for a token again,
\* the manager has none.
ClearIsFinal == cleared /\ restarts = 0 => token = Nil
==============================================================================
