------------------------ MODULE ToolRegistry_proofs ------------------------
(***************************************************************************)
(* Theorems about ToolRegistry, for every set of calls, however they are   *)
(* nested.  The inductive invariant IInv says of each call who owes it an  *)
(* answer, and of each task who will end it.                               *)
(***************************************************************************)
EXTENDS ToolRegistry, TLAPS

\* An entry stands for a call that has not been answered.
EntryIsOpen(c) == c \in pending => status[c] \in {"waiting", "gone"}

\* A caller waits for an entry of a registry that lives.
WaiterHasEntry(c) == status[c] = "waiting" => up /\ c \in pending

\* The entry has a timer, or the timer's message is in the mailbox.
EntryIsTimed(c) == c \in pending => timer[c] = "armed" \/ Timeout(c) \in box

\* What the mailbox says of a task is true of it.
MessagesAreTrue(c) ==
  /\ \A o \in Outcomes : Result(c, o) \in box => task[c] \in {"reported", "ended"}
  /\ \A reason \in Reasons : Down(c, reason) \in box => task[c] = "ended"

\* A task that runs has an entry, or is being killed.
TaskIsOwned(c) == up /\ task[c] = "running" => c \in pending \/ c \in kills

UncalledIsFresh(c) == status[c] = "unasked" => task[c] = "none" /\ c \notin kills

CallInv(c) ==
  /\ EntryIsOpen(c)
  /\ WaiterHasEntry(c)
  /\ EntryIsTimed(c)
  /\ MessagesAreTrue(c)
  /\ TaskIsOwned(c)
  /\ UncalledIsFresh(c)

IInv == TypeOK /\ \A c \in Calls : CallInv(c)

-----------------------------------------------------------------------------
\* A message is known by its kind, its execution and its content: the three clauses of
\* handle_info and the guards in them (registry.ex:225-273).
LEMMA MessageFields ==
  /\ \A c, o : /\ Result(c, o).tag = "result"
               /\ Result(c, o).call = c
               /\ Result(c, o).what = o
  /\ \A c : Timeout(c).tag = "timeout" /\ Timeout(c).call = c
  /\ \A c, reason : /\ Down(c, reason).tag = "down"
                    /\ Down(c, reason).call = c
                    /\ Down(c, reason).what = reason
  BY DEF Result, Timeout, Down

\* Every message is of the type the mailbox is declared with.
LEMMA MessageTypes ==
  \A c \in Calls :
    /\ \A o \in Outcomes : Result(c, o) \in Messages
    /\ Timeout(c) \in Messages
    /\ \A reason \in Reasons : Down(c, reason) \in Messages
  BY DEF Messages

\* What the caller of an execution is told of a reply is a reply or a response
\* (client.ex:2920-2964).
LEMMA ToldIsAnswer ==
  \A c, reply : reply \in Replies =>
    /\ Told(c, reply) \in Replies \cup Responses
    /\ Told(c, reply) \notin {"unasked", "waiting", "gone"}
  BY DEF Told, Response, Replies, Responses, Outcomes

\* GenServer.reply/2 tells the caller of c, if it is still there, and nobody else.
LEMMA ReplyTells ==
  ASSUME TypeOK, NEW c \in Calls, NEW reply \in Replies, Reply(c, reply)
  PROVE  /\ status' \in [Calls -> {"unasked", "waiting", "gone"} \cup Replies \cup Responses]
         /\ \A d \in Calls : d # c => status'[d] = status[d]
         /\ status[c] = "gone" => status'[c] = "gone"
         /\ status[c] # "gone" => status'[c] = Told(c, reply)
  BY ToldIsAnswer DEF Reply, TypeOK

\* An execution that is popped leaves pending with its monitor's messages; those of
\* other executions, and the timers of others, are left alone (registry.ex:319-336).
LEMMA PopIsLocal ==
  ASSUME TypeOK, NEW c \in Calls, NEW m, PopExecution(c, m)
  PROVE  /\ pending' = pending \ {c}
         /\ box' \subseteq box
         /\ timer' \in [Calls -> {"off", "armed", "fired"}]
         /\ \A d \in Calls : d # c => timer'[d] = timer[d]
         /\ \A d : d # c /\ m # Timeout(d) /\ Timeout(d) \in box => Timeout(d) \in box'
  BY MessageFields DEF PopExecution, CleanupExecution, Downs, TypeOK

-----------------------------------------------------------------------------
\* The state keeps the shape of the registry's struct and its mailbox (registry.ex:42-52).
LEMMA TypeStep == ASSUME TypeOK, [Next]_vars PROVE TypeOK'
<1> USE DEF TypeOK, registryVars, taskVars
<1>1. ASSUME NEW g \in Registrations, RegisterTool(g)
      PROVE  TypeOK'
  BY <1>1 DEF RegisterTool
<1>2. ASSUME NEW c \in Calls, UnknownServer(c) \/ StartToolExecution(c) \/ CallerExits(c)
      PROVE  TypeOK'
  BY <1>2 DEF UnknownServer, StartToolExecution, CallerExits, Responses
<1>3. ASSUME NEW c \in Calls, Refuse(c)
      PROVE  TypeOK'
  BY <1>3, ReplyTells DEF Refuse, Replies, Outcomes
<1>4. ASSUME NEW c \in Calls, TaskReports(c)
      PROVE  TypeOK'
  BY <1>4, MessageTypes DEF TaskReports
<1>5. ASSUME NEW c \in Calls, TaskReturns(c) \/ TaskExits(c) \/ TaskKilled(c)
      PROVE  TypeOK'
  <2>1. PICK reason \in Reasons : Ends(c, reason)
    BY <1>5 DEF TaskReturns, TaskExits, TaskKilled, Reasons
  <2> QED
    BY <2>1, MessageTypes DEF Ends
<1>6. ASSUME NEW c \in Calls, TimerFires(c)
      PROVE  TypeOK'
  BY <1>6, MessageTypes DEF TimerFires
<1>7. ASSUME NEW c \in Calls, HandleResult(c)
      PROVE  TypeOK'
  BY <1>7, ReplyTells, PopIsLocal DEF HandleResult, Ignore, Replies
<1>8. ASSUME NEW c \in Calls, HandleTimeout(c)
      PROVE  TypeOK'
  BY <1>8, ReplyTells, PopIsLocal DEF HandleTimeout, Ignore, Replies, Outcomes
<1>9. ASSUME NEW c \in Calls, HandleDown(c)
      PROVE  TypeOK'
  BY <1>9, ReplyTells, PopIsLocal DEF HandleDown, Ignore, Replies, Outcomes
<1>10. CASE RegistryEnds
  BY <1>10, ToldIsAnswer DEF RegistryEnds, Replies
<1>11. CASE UNCHANGED vars
  BY <1>11 DEF vars
<1> QED
  BY <1>1, <1>2, <1>3, <1>4, <1>5, <1>6, <1>7, <1>8, <1>9, <1>10, <1>11 DEF Next, Handle

-----------------------------------------------------------------------------
\* At the start nothing is owed.
LEMMA InitInv == Init => IInv
  BY DEF Init, IInv, CallInv, TypeOK, EntryIsOpen, WaiterHasEntry, EntryIsTimed,
         MessagesAreTrue, TaskIsOwned, UncalledIsFresh

\* Every handler and every step of a caller, a task or a timer keeps IInv.
LEMMA StepInv == ASSUME IInv, [Next]_vars PROVE IInv'
<1> USE DEF IInv, CallInv
<1>1. TypeOK'
  BY TypeStep
<1> SUFFICES ASSUME NEW d \in Calls PROVE CallInv(d)'
  BY <1>1
<1> USE DEF EntryIsOpen, WaiterHasEntry, EntryIsTimed, MessagesAreTrue, TaskIsOwned,
            UncalledIsFresh
<1>2. ASSUME NEW g \in Registrations, RegisterTool(g)
      PROVE  CallInv(d)'
  BY <1>2 DEF RegisterTool, taskVars
<1>3. ASSUME NEW c \in Calls, UnknownServer(c) \/ CallerExits(c)
      PROVE  CallInv(d)'
  BY <1>3 DEF UnknownServer, CallerExits, MayCall, registryVars, taskVars, TypeOK
<1>4. ASSUME NEW c \in Calls, Refuse(c)
      PROVE  CallInv(d)'
  BY <1>4, ReplyTells, ToldIsAnswer
  DEF Refuse, MayCall, registryVars, taskVars, Replies, Outcomes
<1>5. ASSUME NEW c \in Calls, StartToolExecution(c)
      PROVE  CallInv(d)'
  BY <1>5 DEF StartToolExecution, MayCall, TypeOK
<1>6. ASSUME NEW c \in Calls, TaskReports(c)
      PROVE  CallInv(d)'
  BY <1>6, MessageFields DEF TaskReports, registryVars, TypeOK
<1>7. ASSUME NEW c \in Calls, TaskReturns(c) \/ TaskExits(c) \/ TaskKilled(c)
      PROVE  CallInv(d)'
  <2>1. PICK reason : Ends(c, reason)
    BY <1>7 DEF TaskReturns, TaskExits, TaskKilled
  <2>2. task[c] # "none" \/ c \in kills
    BY <1>7 DEF TaskReturns, TaskExits, TaskKilled
  <2> QED
    BY <2>1, <2>2, MessageFields DEF Ends, registryVars, TypeOK
<1>8. ASSUME NEW c \in Calls, TimerFires(c)
      PROVE  CallInv(d)'
  BY <1>8, MessageFields DEF TimerFires, taskVars, TypeOK
<1>9. ASSUME NEW c \in Calls, HandleResult(c)
      PROVE  CallInv(d)'
  BY <1>9, ReplyTells, PopIsLocal, ToldIsAnswer, MessageFields
  DEF HandleResult, Ignore, Replies
<1>10. ASSUME NEW c \in Calls, HandleTimeout(c)
       PROVE  CallInv(d)'
  BY <1>10, ReplyTells, PopIsLocal, ToldIsAnswer, MessageFields
  DEF HandleTimeout, Ignore, Replies, Outcomes, TypeOK
<1>11. ASSUME NEW c \in Calls, HandleDown(c)
       PROVE  CallInv(d)'
  BY <1>11, ReplyTells, PopIsLocal, ToldIsAnswer, MessageFields
  DEF HandleDown, Ignore, Replies, Outcomes
<1>12. CASE RegistryEnds
  BY <1>12, ToldIsAnswer DEF RegistryEnds, taskVars, Replies, TypeOK
<1>13. CASE UNCHANGED vars
  BY <1>13 DEF vars, registryVars, taskVars
<1> QED
  BY <1>2, <1>3, <1>4, <1>5, <1>6, <1>7, <1>8, <1>9, <1>10, <1>11, <1>12, <1>13
  DEF Next, Handle
-----------------------------------------------------------------------------
\* The invariant holds in every state of the registry.
THEOREM Invariance == Spec => []IInv
<1> QED
  BY InitInv, StepInv, PTL DEF Spec

\* The state of the registry keeps its shape (registry.ex:42-52).
THEOREM TypeCorrect == Spec => []TypeOK
<1>1. IInv => TypeOK
  BY DEF IInv
<1> QED
  BY <1>1, Invariance, PTL

\* A caller that waits without a time limit is owed its answer by an entry whose timer is
\* armed or has fired: popping, ignoring and flushing messages never leaves it with
\* neither (registry.ex:173, 225-273).  This is why ExecutionsEnd needs no help of the tool.
THEOREM WaitersAreTimed ==
  Spec => [](\A c \in Calls : status[c] = "waiting" =>
               c \in pending /\ (timer[c] = "armed" \/ Timeout(c) \in box))
<1>1. IInv => \A c \in Calls : status[c] = "waiting" =>
                 c \in pending /\ (timer[c] = "armed" \/ Timeout(c) \in box)
  BY DEF IInv, CallInv, WaiterHasEntry, EntryIsTimed
<1> QED
  BY <1>1, Invariance, PTL

\* While the registry lives no task is on its own: it has an entry, or it has been sent a
\* kill (registry.ex:246).
THEOREM NoOrphans ==
  Spec => [](up => \A c \in Calls : task[c] = "running" => c \in pending \cup kills)
<1>1. IInv => (up => \A c \in Calls : task[c] = "running" => c \in pending \cup kills)
  BY DEF IInv, CallInv, TaskIsOwned
<1> QED
  BY <1>1, Invariance, PTL

-----------------------------------------------------------------------------
(***************************************************************************)
(* The refinement: what becomes of one call in one step.                   *)
(***************************************************************************)

\* Only an unanswered call is told anything, and it is told an answer.
LEMMA StatusMoves ==
  ASSUME IInv, [Next]_vars, NEW d \in Calls
  PROVE  Execution!Moves(status[d], status'[d])
<1> USE DEF IInv, CallInv, EntryIsOpen, Execution!Moves
<1>1. ASSUME NEW c \in Calls, UnknownServer(c) \/ StartToolExecution(c) \/ CallerExits(c)
      PROVE  Execution!Moves(status[d], status'[d])
  BY <1>1 DEF UnknownServer, StartToolExecution, CallerExits, MayCall, TypeOK, Responses
<1>2. ASSUME NEW c \in Calls, Refuse(c)
      PROVE  Execution!Moves(status[d], status'[d])
  BY <1>2, ReplyTells, ToldIsAnswer DEF Refuse, MayCall, Replies, Outcomes
<1>3. ASSUME NEW c \in Calls, TaskReturns(c) \/ TaskExits(c) \/ TaskKilled(c)
      PROVE  Execution!Moves(status[d], status'[d])
  BY <1>3 DEF TaskReturns, TaskExits, TaskKilled, Ends
<1>4. ASSUME NEW c \in Calls, HandleResult(c)
      PROVE  Execution!Moves(status[d], status'[d])
  BY <1>4, ReplyTells, ToldIsAnswer DEF HandleResult, Ignore, Replies
<1>5. ASSUME NEW c \in Calls, HandleTimeout(c)
      PROVE  Execution!Moves(status[d], status'[d])
  BY <1>5, ReplyTells, ToldIsAnswer DEF HandleTimeout, Ignore, Replies, Outcomes
<1>6. ASSUME NEW c \in Calls, HandleDown(c)
      PROVE  Execution!Moves(status[d], status'[d])
  BY <1>6, ReplyTells, ToldIsAnswer DEF HandleDown, Ignore, Replies, Outcomes
<1>7. CASE RegistryEnds
  BY <1>7, ToldIsAnswer DEF RegistryEnds, Replies
<1>8. ASSUME status' = status
      PROVE  Execution!Moves(status[d], status'[d])
  BY <1>8
<1> QED
  BY <1>1, <1>2, <1>3, <1>4, <1>5, <1>6, <1>7, <1>8
  DEF Next, Handle, RegisterTool, TaskReports, TimerFires, vars

\* execute_tool is a deferred reply: however result, timeout, :DOWN and the registry's own
\* end are ordered, a caller is told one answer, and only if it asked.
THEOREM Refinement == Spec => ExecutionsAreDeferred
<1>1. Init => Execution!Init
  BY DEF Init, Execution!Init
<1>2. IInv /\ [Next]_vars => [Execution!Next]_status
  <2> SUFFICES ASSUME IInv, [Next]_vars PROVE Execution!Next
    OBVIOUS
  <2>1. status' \in [Calls -> Execution!Status]
    BY TypeStep DEF IInv, TypeOK, Execution!Status
  <2> QED
    BY <2>1, StatusMoves DEF Execution!Next
<1> QED
  BY <1>1, <1>2, Invariance, PTL DEF Spec, ExecutionsAreDeferred, Execution!Spec
=============================================================================
