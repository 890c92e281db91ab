------------------------- MODULE AuthManager_proofs -------------------------
(***************************************************************************)
(* Theorems about AuthManager, for any callers, tasks, clears and restarts.*)
(*                                                                         *)
(* The inductive invariant has a part that always holds (who waits, and    *)
(* for which task) and a part that holds until clear_auth/0 cancels a      *)
(* setup: from then on the end of the cancelled setup may be taken for the *)
(* end of another, and `killed' is not empty.                              *)
(***************************************************************************)
EXTENDS AuthManager, TLAPS

Live(t) == task[t] \in {"running", "ok", "error"}

\* A manager waits only for a task of its own, and sees the :DOWN of no other.
TaskIsOwn ==
  /\ downs \subseteq {setup_task}
  /\ setup_task # Nil => setup_task \notin orphans
  /\ \A t \in orphans : task[t] # "none"

\* Tasks are numbered in the order they start, and tokens come from tasks that started.
InOrder ==
  /\ \A t, u \in Tasks : u < t /\ task[t] # "none" => task[u] # "none"
  /\ token \in Tasks => task[token] # "none"
  /\ stored \in Tasks => task[stored] # "none"
  /\ setup_task \in Tasks => task[setup_task] # "none"

\* Until a setup is cancelled: one setup at a time, whose messages are the only ones.
OneSetup ==
  killed = {} =>
    /\ \A t \in Tasks : Live(t) /\ t \notin orphans => t = setup_task
    /\ \A t \in Tasks, result \in {"ok", "error"} : <<t, result>> \in completes => t = setup_task

\* Until then the setup in flight has a token newer than the manager's, and storage has it
\* as soon as the task says so.
NewerToken ==
  killed = {} =>
    /\ setup_task # Nil /\ (task[setup_task] = "ok" \/ <<setup_task, "ok">> \in completes) =>
         stored # Nil /\ (restarts = 0 => stored = setup_task)
    /\ setup_task # Nil /\ token # Nil /\ restarts = 0 => token <= setup_task

\* Until then a valid token has a timer, or the refresh the timer asked for is in flight.
TimerOrRefresh ==
  /\ valid => token # Nil
  /\ valid /\ ~missed /\ killed = {} =>
       \/ refresh_timer # "off"
       \/ setup_task # Nil /\ operation[setup_task] = "auto"
  /\ restarts = 0 => orphans = {}

\* A task ends once: with a message, or with the :DOWN of a crash.
EndsOnce ==
  \A t \in Tasks :
    /\ t \in downs => task[t] = "dead" /\ <<t, "ok">> \notin completes /\ <<t, "error">> \notin completes
    /\ <<t, "ok">> \in completes => task[t] = "dead" /\ <<t, "error">> \notin completes
    /\ <<t, "error">> \in completes => task[t] = "dead"

IInv ==
  /\ TypeOK
  /\ EndsOnce
  /\ NobodyForgotten
  /\ TaskIsOwn
  /\ InOrder
  /\ OneSetup
  /\ NewerToken
  /\ StorageNotBehind
  /\ TimerOrRefresh

USE AuthAssumption

-----------------------------------------------------------------------------
(***************************************************************************)
(* The helpers of the steps.                                               *)
(***************************************************************************)

\* Launch (start_setup_task, auth_manager.ex:478) starts the next task.
LEMMA LaunchFacts ==
  ASSUME TypeOK, NEW op \in {"manual", "auto"}, Launch(op)
  PROVE  \E t \in Tasks :
           /\ task[t] = "none" /\ \A u \in 1 .. t - 1 : task[u] # "none"
           /\ task' = [task EXCEPT ![t] = "running"]
           /\ operation' = [operation EXCEPT ![t] = op]
           /\ setup_task' = t
           /\ task'[t] = "running" /\ operation'[t] = op
           /\ \A u \in Tasks : u # t => task'[u] = task[u] /\ operation'[u] = operation[u]
           /\ killed' = killed /\ orphans' = orphans
  BY DEF Launch, TypeOK

\* A task that starts is newer than every token there is.
LEMMA NextIsNewest ==
  ASSUME TypeOK, InOrder, NEW t \in Tasks, task[t] = "none",
         \A u \in 1 .. t - 1 : task[u] # "none"
  PROVE  /\ token # Nil => token < t
         /\ stored # Nil => stored < t
         /\ setup_task # Nil => setup_task < t
  BY DEF TypeOK, InOrder, Tokens, Tasks

-----------------------------------------------------------------------------
(***************************************************************************)
(* Type correctness.                                                       *)
(***************************************************************************)

ToldType == told \in [Callers -> {"unasked", "waiting"} \cup Answers]

TimerType ==
  /\ refresh_timer \in {"off", "armed", "fired"}
  /\ loose_timers \in Nat
  /\ ticks \in Nat

\* reply_setup_waiters (auth_manager.ex:536) gives every waiter an answer and empties the
\* list.
LEMMA ReplyTypes ==
  ASSUME TypeOK, NEW waiting, NEW answer \in Answers, ReplyWaiters(waiting, answer)
  PROVE  ToldType' /\ setup_waiters' = {}
  BY DEF TypeOK, ReplyWaiters, ToldType

\* The helpers that arm and cancel the timer (auth_manager.ex:422, 529, 584).
LEMMA TimerTypes ==
  ASSUME TypeOK,
         \/ CancelRefreshTimer \/ ScheduleRefresh
         \/ \E op \in {"manual", "auto"} : RetryOnFailure(op)
  PROVE  TimerType'
  BY DEF TypeOK, CancelRefreshTimer, ScheduleRefresh, RetryOnFailure, ScheduleRetry,
         timerVars, TimerType

\* Every step keeps the state in shape.
LEMMA TypeStep == TypeOK /\ [Next]_vars => TypeOK'
<1> SUFFICES ASSUME TypeOK, [Next]_vars PROVE TypeOK'
  OBVIOUS
<1> USE DEF TypeOK, storeVars, timerVars, taskVars, boundVars, history, setup_in_progress
<1>1. ASSUME NEW c \in Callers, Enqueue(c) PROVE TypeOK'
  <2>1. /\ ToldType' /\ setup_waiters' \subseteq Callers
        /\ setup_task' \in Tasks \cup {Nil}
        /\ task' \in [Tasks -> {"none", "running", "ok", "error", "dead"}]
        /\ operation' \in [Tasks -> {"manual", "auto"}]
        /\ killed' = killed /\ orphans' = orphans
    <3>1. CASE ReplyWaiters(setup_waiters \cup {c}, "error") /\ UNCHANGED <<setup_task, taskVars>>
      BY <3>1, ReplyTypes DEF Answers
    <3>2. CASE told' = [told EXCEPT ![c] = "waiting"] /\ setup_waiters' = setup_waiters \cup {c}
      BY <1>1, <3>2 DEF Enqueue, Launch, ToldType
    <3> QED
      BY <1>1, <3>1, <3>2 DEF Enqueue
  <2> QED
    BY <1>1, <2>1 DEF Enqueue, ToldType
<1>2. ASSUME NEW c \in Callers, EnsureAtOnce(c) PROVE TypeOK'
  BY <1>2 DEF EnsureAtOnce, Answers
<1>3. CASE ClearAuth
  <2>1. ToldType' /\ setup_waiters' = {}
    BY <1>3, ReplyTypes DEF ClearAuth, Answers
  <2>2. TimerType'
    BY <1>3, TimerTypes DEF ClearAuth
  <2>3. clears' \in 0 .. MaxClears
    BY <1>3 DEF ClearAuth
  <2> QED
    BY <1>3, <2>1, <2>2, <2>3 DEF ClearAuth, ToldType, TimerType
<1>4. ASSUME NEW t \in Tasks, TaskStep(t) PROVE TypeOK'
  <2>1. CASE TaskSaves(t)
    BY <2>1 DEF TaskSaves, Tokens
  <2>2. CASE TaskFails(t)
    BY <2>2 DEF TaskFails
  <2>3. CASE TaskReports(t)
    BY <2>3 DEF TaskReports
  <2>4. CASE TaskDies(t)
    BY <2>4 DEF TaskDies
  <2> QED
    BY <1>4, <2>1, <2>2, <2>3, <2>4 DEF TaskStep
<1>5. ASSUME NEW t \in Tasks, SetupDown(t) PROVE TypeOK'
  <2>1. ToldType' /\ setup_waiters' = {}
    BY <1>5, ReplyTypes DEF SetupDown, Answers
  <2>2. TimerType'
    BY <1>5, TimerTypes DEF SetupDown
  <2> QED
    BY <1>5, <2>1, <2>2 DEF SetupDown, ToldType, TimerType
<1>6. ASSUME NEW t \in Tasks, NEW result \in {"ok", "error"}, SetupComplete(t, result)
      PROVE  TypeOK'
  <2>1. ToldType' /\ setup_waiters' = {}
    BY <1>6, ReplyTypes DEF SetupComplete, Answers
  <2>2. TimerType'
    BY <1>6, TimerTypes DEF SetupComplete
  <2>3. token' \in Tokens \cup {Nil} /\ missed' \in BOOLEAN /\ valid' \in BOOLEAN
    BY <1>6 DEF SetupComplete, Tokens
  <2> QED
    BY <1>6, <2>1, <2>2, <2>3 DEF SetupComplete, ToldType, TimerType
<1>7. CASE TimerFires \/ Expire
  <2>1. CASE TimerFires
    BY <2>1 DEF TimerFires
  <2>2. CASE Expire
    BY <2>2 DEF Expire
  <2> QED
    BY <1>7, <2>1, <2>2
<1>8. CASE HandleTick
  <2>1. /\ ToldType' /\ setup_waiters' \subseteq Callers
        /\ setup_task' \in Tasks \cup {Nil}
        /\ task' \in [Tasks -> {"none", "running", "ok", "error", "dead"}]
        /\ operation' \in [Tasks -> {"manual", "auto"}]
        /\ killed' = killed /\ orphans' = orphans
    <3>1. CASE ReplyWaiters(setup_waiters, "error") /\ UNCHANGED <<setup_task, taskVars>>
      BY <3>1, ReplyTypes DEF Answers
    <3>2. CASE UNCHANGED <<setup_waiters, told>> /\ (Launch("auto") \/ UNCHANGED <<setup_task, taskVars>>)
      BY <3>2 DEF Launch, ToldType
    <3> QED
      BY <1>8, <3>1, <3>2 DEF HandleTick
  <2>2. TimerType'
    BY <1>8 DEF HandleTick, TimerType
  <2>3. missed' \in BOOLEAN
    BY <1>8, Zenon DEF HandleTick
  <2> QED
    BY <1>8, <2>1, <2>2, <2>3 DEF HandleTick, ToldType, TimerType
<1>9. CASE Restart
  <2>1. ToldType' /\ setup_waiters' = {}
    BY <1>9, ReplyTypes DEF Restart, Answers
  <2>2. restarts' \in 0 .. MaxRestarts
    BY <1>9 DEF Restart
  <2>3. orphans' \subseteq Tasks
    BY <1>9 DEF Restart
  <2> QED
    BY <1>9, <2>1, <2>2, <2>3 DEF Restart, ToldType
<1>10. CASE UNCHANGED vars
  BY <1>10 DEF vars
<1> QED
  BY <1>1, <1>2, <1>3, <1>4, <1>5, <1>6, <1>7, <1>8, <1>9, <1>10
  DEF Next, SetupToken, EnsureAuthenticated, SetupCompletes

-----------------------------------------------------------------------------
(***************************************************************************)
(* The steps, one part of the invariant at a time.                         *)
(***************************************************************************)

\* What a step may not touch is unchanged by stuttering and by the clock.
LEMMA QuietSteps ==
  ASSUME IInv, TimerFires \/ Expire \/ (\E c \in Callers : EnsureAtOnce(c)) \/ UNCHANGED vars
  PROVE  TaskIsOwn' /\ InOrder' /\ OneSetup' /\ NewerToken' /\ StorageNotBehind'
         /\ TimerOrRefresh' /\ NobodyForgotten' /\ EndsOnce'
<1> USE DEF IInv, TypeOK, TaskIsOwn, InOrder, OneSetup, NewerToken, StorageNotBehind,
            TimerOrRefresh, NobodyForgotten, EndsOnce, Live,
            storeVars, timerVars, taskVars, boundVars, history, setup_in_progress
<1>1. CASE TimerFires
  BY <1>1 DEF TimerFires
<1>2. CASE Expire
  BY <1>2 DEF Expire
<1>3. ASSUME NEW c \in Callers, EnsureAtOnce(c)
      PROVE  TaskIsOwn' /\ InOrder' /\ OneSetup' /\ NewerToken' /\ StorageNotBehind'
             /\ TimerOrRefresh' /\ NobodyForgotten' /\ EndsOnce'
  BY <1>3 DEF EnsureAtOnce
<1>4. CASE UNCHANGED vars
  BY <1>4 DEF vars
<1> QED
  BY <1>1, <1>2, <1>3, <1>4

\* The steps of a setup task.
LEMMA TaskSteps ==
  ASSUME IInv, NEW t \in Tasks, TaskStep(t)
  PROVE  TaskIsOwn' /\ InOrder' /\ OneSetup' /\ NewerToken' /\ StorageNotBehind'
         /\ TimerOrRefresh' /\ NobodyForgotten' /\ EndsOnce'
<1> USE DEF IInv, TypeOK, TaskIsOwn, InOrder, OneSetup, NewerToken, StorageNotBehind,
            TimerOrRefresh, NobodyForgotten, EndsOnce, Live, Tokens,
            storeVars, timerVars, taskVars, boundVars, history, setup_in_progress
<1>1. CASE TaskSaves(t)
  <2>1. TaskIsOwn' /\ InOrder' /\ OneSetup'
    BY <1>1 DEF TaskSaves
  <2>2. TimerOrRefresh' /\ NobodyForgotten' /\ EndsOnce'
    BY <1>1 DEF TaskSaves
  <2>3. killed = {} /\ restarts = 0 => t = setup_task
    BY <1>1 DEF TaskSaves
  <2>4. NewerToken'
    BY <1>1, <2>3 DEF TaskSaves, Tasks
  <2>5. StorageNotBehind'
    BY <1>1, <2>3 DEF TaskSaves, Tasks
  <2> QED
    BY <2>1, <2>2, <2>4, <2>5
<1>2. CASE TaskFails(t)
  BY <1>2 DEF TaskFails
<1>3. CASE TaskReports(t)
  BY <1>3 DEF TaskReports
<1>4. CASE TaskDies(t)
  BY <1>4 DEF TaskDies
<1> QED
  BY <1>1, <1>2, <1>3, <1>4 DEF TaskStep

-----------------------------------------------------------------------------
(***************************************************************************)
(* The steps of the manager.                                               *)
(***************************************************************************)

\* reply_setup_waiters (auth_manager.ex:534) leaves nobody waiting.
LEMMA NobodyWaits ==
  ASSUME TypeOK, NobodyForgotten, NEW waiting, setup_waiters \subseteq waiting,
         NEW answer \in Answers, ReplyWaiters(waiting, answer)
  PROVE  setup_waiters' = {} /\ \A c \in Callers : told'[c] # "waiting"
<1>1. \A c \in Callers : told'[c] = IF c \in waiting THEN answer ELSE told[c]
  BY DEF ReplyWaiters
<1>2. \A c \in Callers : told[c] = "waiting" => c \in waiting
  BY DEF NobodyForgotten
<1> QED
  BY <1>1, <1>2 DEF ReplyWaiters, Answers

LEMMA NilIsNoTask == \A t \in Tasks : t # Nil
  BY DEF Tasks

\* A setup that starts when none is in flight keeps what is known of the tasks.
LEMMA LaunchKeeps ==
  ASSUME IInv, setup_task = Nil, NEW t \in Tasks,
         task[t] = "none", \A u \in 1 .. t - 1 : task[u] # "none",
         setup_task' = t, task'[t] = "running",
         \A u \in Tasks : u # t => task'[u] = task[u] /\ operation'[u] = operation[u],
         killed' = killed, orphans' = orphans,
         UNCHANGED <<token, stored, completes, downs, restarts>>
  PROVE  TaskIsOwn' /\ InOrder' /\ OneSetup' /\ NewerToken' /\ StorageNotBehind' /\ EndsOnce'
<1> USE DEF IInv
<1>0. t # Nil /\ downs = {}
  BY NilIsNoTask DEF TaskIsOwn, TypeOK
<1>1. TaskIsOwn'
  BY <1>0 DEF TaskIsOwn, TypeOK
<1>2. InOrder'
  <2>1. \A v, u \in Tasks : u < v /\ task'[v] # "none" => task'[u] # "none"
    <3>1. \A u \in Tasks : u < t => task'[u] # "none"
      BY DEF Tasks
    <3>2. \A v, u \in Tasks : u < v /\ v # t /\ task'[v] # "none" => task'[u] # "none"
      BY DEF InOrder
    <3> QED
      BY <3>1, <3>2
  <2> QED
    BY <2>1 DEF InOrder, TypeOK
<1>3. EndsOnce'
  BY DEF EndsOnce
<1>4. OneSetup'
  <2>1. killed = {} => \A u \in Tasks : ~(Live(u) /\ u \notin orphans)
    BY NilIsNoTask DEF OneSetup
  <2>2. killed = {} => \A u \in Tasks, result \in {"ok", "error"} : <<u, result>> \notin completes
    BY NilIsNoTask DEF OneSetup
  <2> QED
    BY <2>1, <2>2 DEF OneSetup, Live
<1>5. NewerToken'
  <2>1. task'[setup_task'] # "ok" /\ <<setup_task', "ok">> \notin completes'
    BY DEF EndsOnce
  <2>2. token # Nil => token < t
    BY NextIsNewest
  <2>3. token # Nil => token \in Nat
    BY DEF TypeOK, Tokens, Tasks
  <2> QED
    BY <2>1, <2>2, <2>3 DEF NewerToken, Tasks
<1>6. StorageNotBehind'
  BY DEF StorageNotBehind
<1> QED
  BY <1>1, <1>2, <1>3, <1>4, <1>5, <1>6

\* enqueue_setup_request (auth_manager.ex:468).
LEMMA EnqueueStep ==
  ASSUME IInv, NEW c \in Callers, Enqueue(c)
  PROVE  TaskIsOwn' /\ InOrder' /\ OneSetup' /\ NewerToken' /\ StorageNotBehind'
         /\ TimerOrRefresh' /\ NobodyForgotten' /\ EndsOnce'
<1> USE DEF IInv, storeVars, timerVars, taskVars, boundVars, history, setup_in_progress
<1>1. /\ UNCHANGED <<token, valid, stored, refresh_timer, completes, downs, restarts, missed>>
  BY DEF Enqueue
<1>2. CASE UNCHANGED <<setup_task, taskVars>>
  <2>1. TaskIsOwn' /\ InOrder' /\ OneSetup' /\ EndsOnce'
    BY <1>1, <1>2 DEF TaskIsOwn, InOrder, OneSetup, EndsOnce, Live
  <2>2. NewerToken' /\ StorageNotBehind' /\ TimerOrRefresh'
    BY <1>1, <1>2 DEF NewerToken, StorageNotBehind, TimerOrRefresh
  <2>3. NobodyForgotten'
    <3>1. CASE ReplyWaiters(setup_waiters \cup {c}, "error")
      <4>1. setup_waiters' = {} /\ \A d \in Callers : told'[d] # "waiting"
        BY <3>1, NobodyWaits DEF Answers
      <4> QED
        BY <4>1, <1>1, <1>2 DEF NobodyForgotten
    <3>2. CASE /\ setup_task # Nil
               /\ told' = [told EXCEPT ![c] = "waiting"]
               /\ setup_waiters' = setup_waiters \cup {c}
      BY <3>2, <1>1, <1>2 DEF NobodyForgotten, TypeOK
    <3> QED
      BY <1>2, <3>1, <3>2 DEF Enqueue, Launch, TypeOK
  <2> QED
    BY <2>1, <2>2, <2>3
<1>3. CASE /\ setup_task = Nil /\ Launch("manual")
           /\ told' = [told EXCEPT ![c] = "waiting"]
           /\ setup_waiters' = setup_waiters \cup {c}
  <2>1. PICK t \in Tasks :
          /\ task[t] = "none" /\ \A u \in 1 .. t - 1 : task[u] # "none"
          /\ setup_task' = t
          /\ task'[t] = "running" /\ operation'[t] = "manual"
          /\ \A u \in Tasks : u # t => task'[u] = task[u] /\ operation'[u] = operation[u]
          /\ killed' = killed /\ orphans' = orphans
    BY <1>3, LaunchFacts
  <2>2. NobodyForgotten'
    <3>1. setup_waiters' = {d \in Callers : told'[d] = "waiting"}
      BY <1>3 DEF NobodyForgotten, TypeOK
    <3>2. task'[setup_task'] = "running" /\ setup_task' # Nil /\ setup_task' \notin orphans'
      BY <2>1, NilIsNoTask DEF TaskIsOwn
    <3> QED
      BY <3>1, <3>2 DEF NobodyForgotten
  <2>3. TimerOrRefresh'
    BY <1>1, <1>3, <2>1 DEF TimerOrRefresh
  <2> QED
    BY <1>1, <1>3, <2>1, <2>2, <2>3, LaunchKeeps
<1> QED
  BY <1>2, <1>3 DEF Enqueue

\* clear_auth/0 (auth_manager.ex:293).
LEMMA ClearStep ==
  ASSUME IInv, ClearAuth
  PROVE  TaskIsOwn' /\ InOrder' /\ OneSetup' /\ NewerToken' /\ StorageNotBehind'
         /\ TimerOrRefresh' /\ NobodyForgotten' /\ EndsOnce'
<1> USE DEF IInv
<1>1. setup_waiters' = {} /\ \A c \in Callers : told'[c] # "waiting"
  BY NobodyWaits DEF ClearAuth, Answers
<1>2. /\ token' = Nil /\ setup_task' = Nil /\ valid' = FALSE
      /\ UNCHANGED <<completes, task, operation, orphans, restarts>>
      /\ stored' \in {Nil, stored}
      /\ downs' = downs \ {setup_task}
  BY DEF ClearAuth
<1>3. killed' = {} => killed = {} /\ setup_task = Nil
  BY DEF ClearAuth, setup_in_progress
<1>4. TaskIsOwn' /\ EndsOnce'
  BY <1>2 DEF TaskIsOwn, EndsOnce
<1>5. InOrder'
  BY <1>2, NilIsNoTask DEF InOrder
<1>6. OneSetup'
  BY <1>2, <1>3 DEF OneSetup, Live
<1>7. NewerToken' /\ StorageNotBehind' /\ TimerOrRefresh'
  BY <1>2 DEF NewerToken, StorageNotBehind, TimerOrRefresh
<1>8. NobodyForgotten'
  BY <1>1, <1>2 DEF NobodyForgotten, setup_in_progress
<1> QED
  BY <1>4, <1>5, <1>6, <1>7, <1>8

\* When the setup in flight ends, what is known of the tasks is still known.
LEMMA SetupEnds ==
  ASSUME IInv, setup_task' = Nil, downs' \subseteq downs \ {setup_task}, completes' \subseteq completes,
         UNCHANGED <<stored, task, operation, killed, orphans, restarts>>,
         killed = {} => \A t \in Tasks : /\ ~(Live(t) /\ t \notin orphans)
                                         /\ <<t, "ok">> \notin completes'
                                         /\ <<t, "error">> \notin completes',
         token' \in Tasks => task[token'] # "none"
  PROVE  TaskIsOwn' /\ InOrder' /\ OneSetup' /\ NewerToken' /\ EndsOnce'
<1> USE DEF IInv
<1>1. TaskIsOwn' /\ EndsOnce'
  BY DEF TaskIsOwn, EndsOnce
<1>2. InOrder'
  BY NilIsNoTask DEF InOrder
<1>3. OneSetup' /\ NewerToken'
  BY DEF OneSetup, NewerToken, Live
<1> QED
  BY <1>1, <1>2, <1>3

\* A retry is scheduled after a failed automatic refresh (auth_manager.ex:526).
LEMMA RetryKeepsTimer ==
  ASSUME NEW op, RetryOnFailure(op)
  PROVE  (refresh_timer # "off" \/ op = "auto") => refresh_timer' # "off"
  BY DEF RetryOnFailure, ScheduleRetry, timerVars

\* {:DOWN, ..} (auth_manager.ex:344).
LEMMA SetupDownStep ==
  ASSUME IInv, NEW t \in Tasks, SetupDown(t)
  PROVE  TaskIsOwn' /\ InOrder' /\ OneSetup' /\ NewerToken' /\ StorageNotBehind'
         /\ TimerOrRefresh' /\ NobodyForgotten' /\ EndsOnce'
<1> USE DEF IInv
<1>1. setup_waiters' = {} /\ \A c \in Callers : told'[c] # "waiting"
  BY NobodyWaits DEF SetupDown, Answers
<1>2. /\ setup_task' = Nil /\ downs' = downs \ {t} /\ t \in downs
      /\ UNCHANGED <<token, valid, stored, completes, task, operation, killed, orphans, restarts, missed>>
  BY DEF SetupDown, storeVars, taskVars, boundVars, history
<1>3. t = setup_task /\ task[t] = "dead" /\ t # Nil
  BY <1>2, NilIsNoTask DEF TaskIsOwn, EndsOnce
<1>4. killed = {} => \A u \in Tasks : /\ ~(Live(u) /\ u \notin orphans)
                                      /\ <<u, "ok">> \notin completes
                                      /\ <<u, "error">> \notin completes
  BY <1>2, <1>3 DEF OneSetup, EndsOnce, Live
<1>5. TaskIsOwn' /\ InOrder' /\ OneSetup' /\ NewerToken' /\ EndsOnce'
  BY <1>2, <1>3, <1>4, SetupEnds DEF InOrder
<1>6. StorageNotBehind'
  BY <1>2 DEF StorageNotBehind
<1>7. TimerOrRefresh'
  <2>1. (refresh_timer # "off" \/ operation[t] = "auto") => refresh_timer' # "off"
    BY RetryKeepsTimer DEF SetupDown
  <2> QED
    BY <2>1, <1>2, <1>3 DEF TimerOrRefresh
<1>8. NobodyForgotten'
  BY <1>1, <1>2 DEF NobodyForgotten, setup_in_progress
<1> QED
  BY <1>5, <1>6, <1>7, <1>8

\* {:setup_complete, operation, result} (auth_manager.ex:333).
LEMMA SetupCompleteStep ==
  ASSUME IInv, NEW t \in Tasks, NEW result \in {"ok", "error"}, SetupComplete(t, result)
  PROVE  TaskIsOwn' /\ InOrder' /\ OneSetup' /\ NewerToken' /\ StorageNotBehind'
         /\ TimerOrRefresh' /\ NobodyForgotten' /\ EndsOnce'
<1> USE DEF IInv
<1>1. setup_waiters' = {} /\ \A c \in Callers : told'[c] # "waiting"
  BY NobodyWaits DEF SetupComplete, Answers
<1>2. /\ setup_task' = Nil /\ downs' = downs \ {setup_task}
      /\ <<t, result>> \in completes /\ completes' = completes \ {<<t, result>>}
      /\ UNCHANGED <<stored, task, operation, killed, orphans, restarts>>
  BY DEF SetupComplete, taskVars, boundVars
<1>3. t # Nil /\ task[t] = "dead" /\ (killed = {} => t = setup_task)
  BY <1>2, NilIsNoTask DEF EndsOnce, OneSetup
<1>4. killed = {} => \A u \in Tasks : /\ ~(Live(u) /\ u \notin orphans)
                                      /\ <<u, "ok">> \notin completes'
                                      /\ <<u, "error">> \notin completes'
  <2>1. killed = {} => \A u \in Tasks : ~(Live(u) /\ u \notin orphans)
    BY <1>3 DEF OneSetup, Live
  <2>2. killed = {} => \A u \in Tasks : u # t => <<u, "ok">> \notin completes /\ <<u, "error">> \notin completes
    BY <1>3 DEF OneSetup
  <2>3. <<t, "ok">> \notin completes' /\ <<t, "error">> \notin completes'
    BY <1>2 DEF EndsOnce
  <2> QED
    BY <1>2, <2>1, <2>2, <2>3
<1>5. token' \in {t, token} /\ (result = "error" => token' = token)
      /\ (result = "ok" => token' = t /\ refresh_timer' # "off")
  BY DEF SetupComplete, ScheduleRefresh
<1>6. TaskIsOwn' /\ InOrder' /\ OneSetup' /\ NewerToken' /\ EndsOnce'
  <2>1. token' \in Tasks => task[token'] # "none"
    BY <1>3, <1>5 DEF InOrder
  <2> QED
    BY <1>2, <1>4, <2>1, SetupEnds
<1>7. StorageNotBehind'
  <2>1. CASE result = "error"
    BY <2>1, <1>2, <1>5 DEF StorageNotBehind
  <2>2. CASE result = "ok"
    BY <2>2, <1>2, <1>3, <1>5 DEF StorageNotBehind, NewerToken, Tasks
  <2> QED
    BY <2>1, <2>2
<1>8. TimerOrRefresh'
  <2>1. CASE result = "error"
    <3>1. UNCHANGED <<token, valid, missed>> /\ RetryOnFailure(operation[t])
      BY <2>1 DEF SetupComplete
    <3>2. (refresh_timer # "off" \/ operation[t] = "auto") => refresh_timer' # "off"
      BY <3>1, RetryKeepsTimer
    <3> QED
      BY <3>1, <3>2, <1>2, <1>3 DEF TimerOrRefresh
  <2>2. CASE result = "ok"
    BY <2>2, <1>2, <1>3, <1>5 DEF TimerOrRefresh
  <2> QED
    BY <2>1, <2>2
<1>9. NobodyForgotten'
  BY <1>1, <1>2 DEF NobodyForgotten, setup_in_progress
<1> QED
  BY <1>6, <1>7, <1>8, <1>9

\* handle_info(:refresh_token) (auth_manager.ex:316).
LEMMA TickStep ==
  ASSUME IInv, HandleTick
  PROVE  TaskIsOwn' /\ InOrder' /\ OneSetup' /\ NewerToken' /\ StorageNotBehind'
         /\ TimerOrRefresh' /\ NobodyForgotten' /\ EndsOnce'
<1> USE DEF IInv
<1>1. UNCHANGED <<token, valid, stored, completes, downs, restarts>>
  BY DEF HandleTick, storeVars, boundVars
<1>2. CASE UNCHANGED <<setup_task, taskVars>>
  <2>1. TaskIsOwn' /\ InOrder' /\ OneSetup' /\ EndsOnce'
    BY <1>1, <1>2 DEF TaskIsOwn, InOrder, OneSetup, EndsOnce, Live, taskVars
  <2>2. NewerToken' /\ StorageNotBehind'
    BY <1>1, <1>2 DEF NewerToken, StorageNotBehind, taskVars
  <2>3. NobodyForgotten'
    <3>1. CASE ~setup_in_progress /\ ReplyWaiters(setup_waiters, "error")
      <4>1. setup_waiters' = {} /\ \A d \in Callers : told'[d] # "waiting"
        BY <3>1, NobodyWaits DEF Answers
      <4> QED
        BY <4>1, <3>1, <1>1, <1>2 DEF NobodyForgotten, setup_in_progress, taskVars
    <3>2. CASE UNCHANGED <<setup_waiters, told>>
      BY <3>2, <1>1, <1>2 DEF NobodyForgotten, setup_in_progress, taskVars
    <3> QED
      BY <3>1, <3>2 DEF HandleTick
  <2>4. TimerOrRefresh'
    <3>1. CASE setup_task = Nil /\ token = Nil
      BY <3>1, <1>1, <1>2 DEF TimerOrRefresh, taskVars
    <3>2. CASE setup_task # Nil
      <4>1. missed'
        BY <3>2, Zenon DEF HandleTick, setup_in_progress
      <4> QED
        BY <4>1, <1>1, <1>2 DEF TimerOrRefresh, taskVars
    <3>3. CASE setup_task = Nil /\ token # Nil
      <4>1. refresh_timer' = "armed"
        BY <3>3, <1>2, NilIsNoTask DEF HandleTick, setup_in_progress, Launch
      <4> QED
        BY <4>1, <1>1, <1>2 DEF TimerOrRefresh, taskVars
    <3> QED
      BY <3>1, <3>2, <3>3
  <2> QED
    BY <2>1, <2>2, <2>3, <2>4
<1>3. CASE /\ setup_task = Nil /\ Launch("auto")
           /\ UNCHANGED <<setup_waiters, told, missed>>
  <2>1. PICK t \in Tasks :
          /\ task[t] = "none" /\ \A u \in 1 .. t - 1 : task[u] # "none"
          /\ setup_task' = t
          /\ task'[t] = "running" /\ operation'[t] = "auto"
          /\ \A u \in Tasks : u # t => task'[u] = task[u] /\ operation'[u] = operation[u]
          /\ killed' = killed /\ orphans' = orphans
    BY <1>3, LaunchFacts
  <2>2. NobodyForgotten'
    <3>1. setup_waiters' = {d \in Callers : told'[d] = "waiting"}
      BY <1>3 DEF NobodyForgotten
    <3>2. task'[setup_task'] = "running" /\ setup_task' # Nil /\ setup_task' \notin orphans'
      BY <2>1, NilIsNoTask DEF TaskIsOwn
    <3> QED
      BY <3>1, <3>2 DEF NobodyForgotten, setup_in_progress
  <2>3. TimerOrRefresh'
    BY <1>1, <2>1, NilIsNoTask DEF TimerOrRefresh
  <2> QED
    BY <1>1, <1>3, <2>1, <2>2, <2>3, LaunchKeeps
<1> QED
  BY <1>2, <1>3 DEF HandleTick, setup_in_progress

\* The manager dies and one is started in its place (auth_manager.ex:208, 218).
LEMMA RestartStep ==
  ASSUME IInv, Restart
  PROVE  TaskIsOwn' /\ InOrder' /\ OneSetup' /\ NewerToken' /\ StorageNotBehind'
         /\ TimerOrRefresh' /\ NobodyForgotten' /\ EndsOnce'
<1> USE DEF IInv
<1>1. setup_waiters' = {} /\ \A c \in Callers : told'[c] # "waiting"
  BY NobodyWaits DEF Restart, Answers
<1>2. /\ setup_task' = Nil /\ completes' = {} /\ downs' = {} /\ token' \in {stored, Nil}
      /\ stored' = stored /\ task' = task /\ killed' = killed
      /\ orphans' = orphans \cup {t \in Tasks : task[t] # "none"}
      /\ restarts' = restarts + 1
      /\ (valid' => token' # Nil /\ refresh_timer' # "off")
  BY DEF Restart
<1>3. restarts' # 0
  BY <1>2 DEF TypeOK
<1>4. TaskIsOwn' /\ EndsOnce'
  BY <1>2 DEF TaskIsOwn, EndsOnce
<1>5. InOrder'
  BY <1>2, NilIsNoTask DEF InOrder
<1>6. OneSetup'
  BY <1>2 DEF OneSetup, Live
<1>7. NewerToken' /\ StorageNotBehind' /\ TimerOrRefresh'
  BY <1>2, <1>3 DEF NewerToken, StorageNotBehind, TimerOrRefresh
<1>8. NobodyForgotten'
  BY <1>1, <1>2 DEF NobodyForgotten, setup_in_progress
<1> QED
  BY <1>4, <1>5, <1>6, <1>7, <1>8

-----------------------------------------------------------------------------
(***************************************************************************)
(* The invariant.                                                          *)
(***************************************************************************)

\* A manager that starts satisfies the invariant (auth_manager.ex:208-242).
LEMMA InitInv == Init => IInv
<1> SUFFICES ASSUME Init PROVE IInv
  OBVIOUS
<1>1. TypeOK
  <2>1. /\ task \in [Tasks -> {"none", "running", "ok", "error", "dead"}]
        /\ operation \in [Tasks -> {"manual", "auto"}]
        /\ told \in [Callers -> {"unasked", "waiting"} \cup Answers]
    BY DEF Init
  <2>2. clears \in 0 .. MaxClears /\ restarts \in 0 .. MaxRestarts
    BY DEF Init
  <2>3. token \in Tokens \cup {Nil} /\ stored \in Tokens \cup {Nil}
    BY DEF Init, Tokens
  <2>4. valid \in BOOLEAN /\ refresh_timer \in {"off", "armed", "fired"}
    BY DEF Init
  <2> QED
    BY <2>1, <2>2, <2>3, <2>4 DEF Init, TypeOK
<1>2. TaskIsOwn /\ OneSetup /\ EndsOnce
  BY DEF Init, TaskIsOwn, OneSetup, EndsOnce, Live
<1>3. InOrder
  BY NilIsNoTask DEF Init, InOrder, Tasks
<1>4. NewerToken /\ StorageNotBehind /\ TimerOrRefresh
  BY DEF Init, NewerToken, StorageNotBehind, TimerOrRefresh
<1>5. NobodyForgotten
  BY DEF Init, NobodyForgotten, setup_in_progress
<1> QED
  BY <1>1, <1>2, <1>3, <1>4, <1>5 DEF IInv

\* Every step keeps it.
LEMMA StepInv == IInv /\ [Next]_vars => IInv'
<1> SUFFICES ASSUME IInv, [Next]_vars PROVE IInv'
  OBVIOUS
<1>1. TypeOK'
  BY TypeStep DEF IInv
<1>2. /\ TaskIsOwn' /\ InOrder' /\ OneSetup' /\ NewerToken' /\ StorageNotBehind'
      /\ TimerOrRefresh' /\ NobodyForgotten' /\ EndsOnce'
  <2>1. CASE \E c \in Callers : Enqueue(c)
    BY <2>1, EnqueueStep
  <2>2. CASE TimerFires \/ Expire \/ (\E c \in Callers : EnsureAtOnce(c)) \/ UNCHANGED vars
    BY <2>2, QuietSteps
  <2>3. CASE ClearAuth
    BY <2>3, ClearStep
  <2>4. CASE \E t \in Tasks : TaskStep(t)
    BY <2>4, TaskSteps
  <2>5. CASE \E t \in Tasks : SetupDown(t)
    BY <2>5, SetupDownStep
  <2>6. CASE \E t \in Tasks : SetupCompletes(t)
    BY <2>6, SetupCompleteStep DEF SetupCompletes
  <2>7. CASE HandleTick
    BY <2>7, TickStep
  <2>8. CASE Restart
    BY <2>8, RestartStep
  <2> QED
    BY <2>1, <2>2, <2>3, <2>4, <2>5, <2>6, <2>7, <2>8
    DEF Next, SetupToken, EnsureAuthenticated
<1> QED
  BY <1>1, <1>2 DEF IInv

\* The inductive invariant holds in every reachable state of the manager.
THEOREM Invariance == Spec => []IInv
<1> QED
  BY InitInv, StepInv, PTL DEF Spec

\* The state never loses the shape of the AuthManager struct (auth_manager.ex:45-65).
THEOREM TypeCorrect == Spec => []TypeOK
<1>1. IInv => TypeOK
  BY DEF IInv
<1> QED
  BY <1>1, Invariance, PTL

\* Nobody is left in setup_waiters when the setup they wait for has ended, however it
\* ended (auth_manager.ex:333-361, 293-307).
THEOREM WaitersAreServed == Spec => []NobodyForgotten
<1>1. IInv => NobodyForgotten
  BY DEF IInv
<1> QED
  BY <1>1, Invariance, PTL

\* A token in memory was saved first (auth_manager.ex:395-412), until clear_auth/0 cancels
\* a setup.
THEOREM StorageHolds == Spec => []StorageNotBehind
<1>1. IInv => StorageNotBehind
  BY DEF IInv
<1> QED
  BY <1>1, Invariance, PTL

\* A valid token has its refresh scheduled or in flight, except after the two races the
\* property names (auth_manager.ex:316-330, 526).
THEOREM RefreshHolds == Spec => []RefreshScheduled
<1>1. IInv => RefreshScheduled
  BY DEF IInv, TimerOrRefresh, RefreshScheduled, setup_in_progress
<1> QED
  BY <1>1, Invariance, PTL

-----------------------------------------------------------------------------
(***************************************************************************)
(* AuthManager implements DeferredReply.                                   *)
(***************************************************************************)

\* What a step may do to a caller.
Told(c) ==
  \/ told'[c] = told[c]
  \/ told[c] = "unasked" /\ told'[c] \in {"waiting"} \cup Answers
  \/ told[c] = "waiting" /\ told'[c] \in Answers

\* reply_setup_waiters tells only callers that wait, and the one that has just called.
LEMMA ReplyTells ==
  ASSUME TypeOK, NobodyForgotten, NEW waiting, NEW answer \in Answers, ReplyWaiters(waiting, answer),
         \A c \in waiting : c \in setup_waiters \/ told[c] = "unasked"
  PROVE  \A c \in Callers : Told(c)
<1> TAKE c \in Callers
<1>1. told'[c] = IF c \in waiting THEN answer ELSE told[c]
  BY DEF ReplyWaiters
<1>2. c \in waiting => told[c] \in {"unasked", "waiting"}
  BY DEF NobodyForgotten
<1> QED
  BY <1>1, <1>2 DEF Told

\* Every step is of that kind.
LEMMA OneAnswerAStep ==
  ASSUME IInv, [Next]_vars
  PROVE  \A c \in Callers : Told(c)
<1> USE DEF IInv
<1>1. CASE UNCHANGED told
  BY <1>1 DEF Told
<1>2. ASSUME NEW c \in Callers, Enqueue(c)
      PROVE  \A d \in Callers : Told(d)
  <2>1. CASE ReplyWaiters(setup_waiters \cup {c}, "error")
    BY <1>2, <2>1, ReplyTells DEF Enqueue, Answers
  <2>2. CASE told' = [told EXCEPT ![c] = "waiting"]
    BY <1>2, <2>2 DEF Enqueue, TypeOK, Told
  <2> QED
    BY <1>2, <2>1, <2>2 DEF Enqueue
<1>3. ASSUME NEW c \in Callers, EnsureAtOnce(c)
      PROVE  \A d \in Callers : Told(d)
  BY <1>3 DEF EnsureAtOnce, TypeOK, Told, Answers
<1>4. CASE \E answer \in Answers : ReplyWaiters(setup_waiters, answer)
  BY <1>4, ReplyTells
<1>5. CASE ClearAuth \/ HandleTick \/ Restart \/ TimerFires \/ Expire \/ UNCHANGED vars
  BY <1>1, <1>4, <1>5
  DEF ClearAuth, HandleTick, Restart, TimerFires, Expire, vars, Answers
<1>6. ASSUME NEW t \in Tasks, TaskStep(t) \/ SetupDown(t) \/ SetupCompletes(t)
      PROVE  \A d \in Callers : Told(d)
  BY <1>1, <1>4, <1>6
  DEF TaskStep, TaskSaves, TaskFails, TaskReports, TaskDies, SetupDown, SetupCompletes,
      SetupComplete, Answers
<1> QED
  BY <1>2, <1>3, <1>5, <1>6 DEF Next, SetupToken, EnsureAuthenticated

\* The callers of setup_token/0, refresh_token/0 and ensure_authenticated/0 get one answer
\* each, whatever races with the setup they wait for.
THEOREM Refinement == Spec => WaitersAreDeferred
<1>1. Init => Deferred!Init
  BY DEF Init, Deferred!Init
<1>2. IInv /\ IInv' /\ [Next]_vars => [Deferred!Next]_told
  <2> SUFFICES ASSUME IInv, IInv', [Next]_vars PROVE Deferred!Next
    OBVIOUS
  <2>1. told' \in [Callers -> Deferred!Status]
    BY DEF IInv, TypeOK, Deferred!Status
  <2>2. \A c \in Callers : Deferred!Moves(told[c], told'[c])
    BY OneAnswerAStep DEF Told, Deferred!Moves
  <2> QED
    BY <2>1, <2>2 DEF Deferred!Next
<1> QED
  BY <1>1, <1>2, Invariance, PTL DEF Spec, WaitersAreDeferred, Deferred!Spec
=============================================================================
