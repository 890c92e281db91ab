------------------------ MODULE ClientControl_proofs ------------------------
(***************************************************************************)
(* Theorems about ClientControl, for every set of calls and any number of  *)
(* protocol errors.                                                        *)
(***************************************************************************)
EXTENDS ClientControl, SequenceTheorems, TLAPS

-----------------------------------------------------------------------------
(***************************************************************************)
(* The inductive invariant.                                                *)
(***************************************************************************)

\* Before handle_continue(:start_cli) the client has served nothing.
NothingServed ==
  client = "starting" =>
    /\ ~initialized
    /\ pending_requests = {}
    /\ pending_permission_change = Nil

\* The initialize entry is there only until the handshake has succeeded.
HandshakeOnce == Initialize \in pending_requests => ~initialized

\* The entries of the map are those of the callers that wait.
EntryHasCaller ==
  \A r \in Requests : r \in pending_requests <=> told[r] = "waiting"

InitWaitersWait == \A c \in initialized_waiters : told[c] = "waiting"

\* A request that was not sent is unknown to the CLI, and has no result.
UnsentIsUnknown(r) ==
  /\ told[r] \in {"unasked", "refused"} => task[r] = "none"
  /\ task[r] = "none" => cli[r] = "unseen" /\ \A o \in Outcomes : <<r, o>> \notin results

\* A response says what the CLI did, and so does the answer made of it.
ResponseIsTrue(r) ==
  /\ <<r, "success">> \in results \/ told[r] = "ok" => cli[r] = "applied"
  /\ <<r, "rejected">> \in results \/ told[r] = "rejected" => cli[r] = "refused"

RequestInv(r) == UnsentIsUnknown(r) /\ ResponseIsTrue(r)

\* At most one request of S is in flight: the guards of set_model and set_permission_mode.
OneInFlight(S) ==
  \A q, r \in S : q \in pending_requests /\ r \in pending_requests => q = r

\* Unless a request of S was given up on, what the CLI holds is what the client holds, but
\* for the one in flight that the CLI has applied already.
CliAhead(S, held, cli_held) ==
  (\A r \in S : told[r] # "failed") =>
    /\ \A r \in S : r \in pending_requests /\ cli[r] = "applied" => cli_held = r
    /\ (\A r \in S : r \in pending_requests => cli[r] # "applied") => cli_held = held

\* A payload is accepted by the call that gave it.
AcceptedWasAsked == \A i \in DOMAIN accepted : told[accepted[i]] # "unasked"

CallInv ==
  /\ NothingServed
  /\ HandshakeOnce
  /\ EntryHasCaller
  /\ InitWaitersWait
  /\ \A r \in Requests : RequestInv(r)

SettingsInv ==
  /\ PermissionLockExact
  /\ OneInFlight(ModelRequests)
  /\ CliAhead(ModelRequests, model, cli_model)
  /\ CliAhead(ModeRequests, permission_mode, cli_mode)

FifoInv == OutboundFifo /\ AcceptedWasAsked

IInv == TypeOK /\ CallInv /\ SettingsInv /\ FifoInv

-----------------------------------------------------------------------------
(***************************************************************************)
(* The initial states and the steps.                                       *)
(***************************************************************************)

LEMMA InitInv == Init => IInv
<1> SUFFICES ASSUME Init PROVE IInv
  OBVIOUS
<1> USE ControlAssumption DEF Init, Requests, Callers, Tasks, Outcomes, Answers
<1>1. TypeOK
  <2>1. << >> \in Seq(Payloads)
    OBVIOUS
  <2>2. results \subseteq Tasks \X Outcomes
    OBVIOUS
  <2>3. /\ told \in [Callers -> {"unasked", "waiting"} \cup Answers]
        /\ task \in [Tasks -> {"none", "running", "done"}]
        /\ cli \in [Tasks -> {"unseen", "applied", "refused"}]
    OBVIOUS
  <2>4. errors \in 0 .. MaxErrors
    OBVIOUS
  <2> HIDE DEF Requests, Callers, Tasks, Outcomes, Answers
  <2> QED
    BY <2>1, <2>2, <2>3, <2>4 DEF TypeOK
<1>2. CallInv
  BY DEF CallInv, NothingServed, HandshakeOnce, EntryHasCaller, InitWaitersWait,
     RequestInv,
         UnsentIsUnknown, ResponseIsTrue
<1>3. SettingsInv
  BY DEF SettingsInv, PermissionLockExact, OneInFlight, CliAhead
<1>4. FifoInv
  BY DEF FifoInv, OutboundFifo, AcceptedWasAsked, Distinct, Stranded
<1> QED
  BY <1>1, <1>2, <1>3, <1>4 DEF IInv

\* Every step keeps the shape of the state.
LEMMA TypeStep ==
  ASSUME TypeOK, [Next]_vars
  PROVE  TypeOK'
<1> USE ControlAssumption DEF TypeOK, Requests, Callers, Tasks, Outcomes, Answers
<1>1. CASE StartCli
  BY <1>1 DEF StartCli, cliVars
<1>2. ASSUME NEW p \in Payloads, SendNow(p)
      PROVE  TypeOK'
  <2>1. /\ Append(sent, p) \in Seq(Payloads)
        /\ Append(accepted, p) \in Seq(Payloads)
    OBVIOUS
  <2>2. sent' \in Seq(Payloads) /\ accepted' \in Seq(Payloads)
    BY <1>2, <2>1 DEF SendNow
  <2>3. told' \in [Callers -> {"unasked", "waiting"} \cup Answers]
    BY <1>2 DEF SendNow, Tell
  <2> QED
    BY <1>2, <2>2, <2>3 DEF SendNow, clientVars, cliVars
<1>3. ASSUME NEW p \in Payloads, SendLater(p)
      PROVE  TypeOK'
  BY <1>3 DEF SendLater, Asks, Tell, cliVars
<1>4. ASSUME NEW c \in InitWaiters, AwaitInitialized(c)
      PROVE  TypeOK'
  BY <1>4 DEF AwaitInitialized, Asks, Tell, cliVars
<1>5. ASSUME NEW c \in SentWaiters, AwaitInitSent(c)
      PROVE  TypeOK'
  <2>1. told' \in [Callers -> {"unasked", "waiting"} \cup Answers]
    BY <1>5 DEF AwaitInitSent, Tell
  <2>2. init_waiters' \subseteq SentWaiters
    BY <1>5 DEF AwaitInitSent
  <2> QED
    BY <1>5, <2>1, <2>2 DEF AwaitInitSent, cliVars
<1>6. ASSUME NEW r \in ModelRequests, SetModel(r)
      PROVE  TypeOK'
  BY <1>6 DEF SetModel, Asks, StartRequest, Tell, model_change_in_progress, cliVars
<1>7. ASSUME NEW r \in ModeRequests, SetPermissionMode(r)
      PROVE  TypeOK'
  BY <1>7 DEF SetPermissionMode, Asks, StartRequest, Tell, cliVars
<1>8. ASSUME NEW r \in OtherRequests, OtherRequest(r)
      PROVE  TypeOK'
  BY <1>8 DEF OtherRequest, Asks, StartRequest, Tell, cliVars
<1>9. ASSUME NEW r \in Requests, RefuseRequest(r)
      PROVE  TypeOK'
  BY <1>9 DEF RefuseRequest, Asks, Tell, clientVars, cliVars
<1>10. ASSUME NEW r \in Tasks, CliHandles(r)
      PROVE  TypeOK'
  BY <1>10 DEF CliHandles, clientVars
<1>11. ASSUME NEW r \in Tasks, TaskEnds(r)
      PROVE  TypeOK'
  <2>1. PICK o \in Outcomes : results' = results \cup {<<r, o>>}
    BY <1>11 DEF TaskEnds, TaskResponds, TaskFails
  <2>2. results' \subseteq Tasks \X Outcomes
    BY <2>1
  <2>3. task' \in [Tasks -> {"none", "running", "done"}]
    BY <1>11 DEF TaskEnds, TaskResponds, TaskFails
  <2> QED
    BY <1>11, <2>2, <2>3 DEF TaskEnds, TaskResponds, TaskFails, clientVars, cliVars
<1>12. ASSUME NEW r \in Tasks, NEW o \in Outcomes, IgnoreResult(r, o)
      PROVE  TypeOK'
  BY <1>12 DEF IgnoreResult, clientVars, cliVars
<1>13. ASSUME NEW r \in Tasks, NEW o \in Outcomes, ModelResult(r, o)
      PROVE  TypeOK'
  BY <1>13 DEF ModelResult, Pops, Tell, AnswerFor, cliVars
<1>14. ASSUME NEW r \in Tasks, NEW o \in Outcomes, ModeResult(r, o)
      PROVE  TypeOK'
  BY <1>14 DEF ModeResult, Pops, Tell, AnswerFor, cliVars
<1>15. ASSUME NEW r \in Tasks, NEW o \in Outcomes, OtherResult(r, o)
      PROVE  TypeOK'
  BY <1>15 DEF OtherResult, Pops, Tell, AnswerFor, cliVars
<1>16. CASE InitializeSucceeds
  BY <1>16 DEF InitializeSucceeds, Pops, CancelInitTimeout, FlushOutbound, cliVars
<1>17. CASE InitializeFails
  BY <1>17 DEF InitializeFails, CancelInitTimeout, cliVars
<1>18. CASE TimerFires
  BY <1>18 DEF TimerFires, cliVars
<1>19. CASE HandleInitTimeout
  BY <1>19 DEF HandleInitTimeout, cliVars
<1>20. CASE ProtocolError
  BY <1>20 DEF ProtocolError, FailPendingRequests, cliVars
<1>21. CASE SessionDown
  BY <1>21 DEF SessionDown, FailPendingRequests, cliVars
<1>22. CASE StopClient
  BY <1>22 DEF StopClient, cliVars
<1>23. CASE UNCHANGED vars
  BY <1>23 DEF vars, clientVars, cliVars
<1> HIDE DEF TypeOK, Requests, Callers, Tasks, Outcomes, Answers
<1> QED
  BY <1>1, <1>2, <1>3, <1>4, <1>5, <1>6, <1>7, <1>8, <1>9, <1>10, <1>11, <1>12, <1>13,
     <1>14, <1>15, <1>16, <1>17, <1>18, <1>19, <1>20, <1>21, <1>22, <1>23
  DEF Next, CallStep, HandleResult, HandleInitialize

\* ... the entries and the callers
LEMMA CallStepInv ==
  ASSUME TypeOK, NothingServed, HandshakeOnce, EntryHasCaller, InitWaitersWait,
         [Next]_vars
  PROVE  (NothingServed /\ HandshakeOnce /\ EntryHasCaller /\ InitWaitersWait)'
<1> USE ControlAssumption DEF TypeOK, NothingServed, HandshakeOnce, EntryHasCaller,
                              InitWaitersWait, Requests, Callers, Tasks, Outcomes,
                              Answers
<1>1. CASE StartCli
  BY <1>1 DEF StartCli, cliVars
<1>2. ASSUME NEW p \in Payloads, SendNow(p)
      PROVE  (NothingServed /\ HandshakeOnce /\ EntryHasCaller /\ InitWaitersWait)'
  BY <1>2 DEF SendNow, Asks, Tell, clientVars, cliVars
<1>3. ASSUME NEW p \in Payloads, SendLater(p)
      PROVE  (NothingServed /\ HandshakeOnce /\ EntryHasCaller /\ InitWaitersWait)'
  BY <1>3 DEF SendLater, Asks, Tell, cliVars
<1>4. ASSUME NEW c \in InitWaiters, AwaitInitialized(c)
      PROVE  (NothingServed /\ HandshakeOnce /\ EntryHasCaller /\ InitWaitersWait)'
  BY <1>4 DEF AwaitInitialized, Asks, Tell, cliVars
<1>5. ASSUME NEW c \in SentWaiters, AwaitInitSent(c)
      PROVE  (NothingServed /\ HandshakeOnce /\ EntryHasCaller /\ InitWaitersWait)'
  BY <1>5 DEF AwaitInitSent, Asks, Tell, cliVars
<1>6. ASSUME NEW r \in ModelRequests, SetModel(r)
      PROVE  (NothingServed /\ HandshakeOnce /\ EntryHasCaller /\ InitWaitersWait)'
  BY <1>6 DEF SetModel, Asks, StartRequest, Tell, model_change_in_progress, cliVars
<1>7. ASSUME NEW r \in ModeRequests, SetPermissionMode(r)
      PROVE  (NothingServed /\ HandshakeOnce /\ EntryHasCaller /\ InitWaitersWait)'
  BY <1>7 DEF SetPermissionMode, Asks, StartRequest, Tell, cliVars
<1>8. ASSUME NEW r \in OtherRequests, OtherRequest(r)
      PROVE  (NothingServed /\ HandshakeOnce /\ EntryHasCaller /\ InitWaitersWait)'
  BY <1>8 DEF OtherRequest, Asks, StartRequest, Tell, cliVars
<1>9. ASSUME NEW r \in Requests, RefuseRequest(r)
      PROVE  (NothingServed /\ HandshakeOnce /\ EntryHasCaller /\ InitWaitersWait)'
  BY <1>9 DEF RefuseRequest, Asks, Tell, clientVars, cliVars
<1>10. ASSUME NEW r \in Tasks, CliHandles(r)
      PROVE  (NothingServed /\ HandshakeOnce /\ EntryHasCaller /\ InitWaitersWait)'
  BY <1>10 DEF CliHandles, clientVars
<1>11. ASSUME NEW r \in Tasks, TaskEnds(r)
      PROVE  (NothingServed /\ HandshakeOnce /\ EntryHasCaller /\ InitWaitersWait)'
  BY <1>11 DEF TaskEnds, TaskResponds, TaskFails, clientVars, cliVars
<1>12. ASSUME NEW r \in Tasks, NEW o \in Outcomes, IgnoreResult(r, o)
      PROVE  (NothingServed /\ HandshakeOnce /\ EntryHasCaller /\ InitWaitersWait)'
  BY <1>12 DEF IgnoreResult, clientVars, cliVars
<1>13. ASSUME NEW r \in Tasks, NEW o \in Outcomes, ModelResult(r, o)
      PROVE  (NothingServed /\ HandshakeOnce /\ EntryHasCaller /\ InitWaitersWait)'
  BY <1>13 DEF ModelResult, Pops, Tell, AnswerFor, cliVars
<1>14. ASSUME NEW r \in Tasks, NEW o \in Outcomes, ModeResult(r, o)
      PROVE  (NothingServed /\ HandshakeOnce /\ EntryHasCaller /\ InitWaitersWait)'
  BY <1>14 DEF ModeResult, Pops, Tell, AnswerFor, cliVars
<1>15. ASSUME NEW r \in Tasks, NEW o \in Outcomes, OtherResult(r, o)
      PROVE  (NothingServed /\ HandshakeOnce /\ EntryHasCaller /\ InitWaitersWait)'
  BY <1>15 DEF OtherResult, Pops, Tell, AnswerFor, cliVars
<1>16. CASE InitializeSucceeds
  BY <1>16 DEF InitializeSucceeds, Pops, CancelInitTimeout, FlushOutbound, cliVars
<1>17. CASE InitializeFails
  BY <1>17 DEF InitializeFails, CancelInitTimeout, cliVars
<1>18. CASE TimerFires
  BY <1>18 DEF TimerFires, cliVars
<1>19. CASE HandleInitTimeout
  BY <1>19 DEF HandleInitTimeout, cliVars
<1>20. CASE ProtocolError
  BY <1>20 DEF ProtocolError, FailPendingRequests, cliVars
<1>21. CASE SessionDown
  BY <1>21 DEF SessionDown, FailPendingRequests, cliVars
<1>22. CASE StopClient
  BY <1>22 DEF StopClient, cliVars
<1>23. CASE UNCHANGED vars
  BY <1>23 DEF vars, clientVars, cliVars
<1> HIDE DEF TypeOK, NothingServed, HandshakeOnce, EntryHasCaller, InitWaitersWait,
             Requests, Callers, Tasks, Outcomes, Answers
<1> QED
  BY <1>1, <1>2, <1>3, <1>4, <1>5, <1>6, <1>7, <1>8, <1>9, <1>10, <1>11, <1>12, <1>13,
     <1>14, <1>15, <1>16, <1>17, <1>18, <1>19, <1>20, <1>21, <1>22, <1>23
  DEF Next, CallStep, HandleResult, HandleInitialize

\* ... what is known of one request
LEMMA RequestStep ==
  ASSUME TypeOK, CallInv, NEW x \in Requests, [Next]_vars
  PROVE  RequestInv(x)'
<1> USE ControlAssumption DEF TypeOK, CallInv, NothingServed, HandshakeOnce,
                              EntryHasCaller, RequestInv, UnsentIsUnknown,
                              ResponseIsTrue, Requests, Callers, Tasks, Outcomes,
                              Answers
<1>1. CASE StartCli
  BY <1>1 DEF StartCli, cliVars
<1>2. ASSUME NEW p \in Payloads, SendNow(p)
      PROVE  RequestInv(x)'
  BY <1>2 DEF SendNow, Asks, Tell, clientVars, cliVars
<1>3. ASSUME NEW p \in Payloads, SendLater(p)
      PROVE  RequestInv(x)'
  BY <1>3 DEF SendLater, Asks, Tell, cliVars
<1>4. ASSUME NEW c \in InitWaiters, AwaitInitialized(c)
      PROVE  RequestInv(x)'
  BY <1>4 DEF AwaitInitialized, Asks, Tell, cliVars
<1>5. ASSUME NEW c \in SentWaiters, AwaitInitSent(c)
      PROVE  RequestInv(x)'
  BY <1>5 DEF AwaitInitSent, Asks, Tell, cliVars
<1>6. ASSUME NEW r \in ModelRequests, SetModel(r)
      PROVE  RequestInv(x)'
  BY <1>6 DEF SetModel, Asks, StartRequest, Tell, model_change_in_progress, cliVars
<1>7. ASSUME NEW r \in ModeRequests, SetPermissionMode(r)
      PROVE  RequestInv(x)'
  BY <1>7 DEF SetPermissionMode, Asks, StartRequest, Tell, cliVars
<1>8. ASSUME NEW r \in OtherRequests, OtherRequest(r)
      PROVE  RequestInv(x)'
  BY <1>8 DEF OtherRequest, Asks, StartRequest, Tell, cliVars
<1>9. ASSUME NEW r \in Requests, RefuseRequest(r)
      PROVE  RequestInv(x)'
  BY <1>9 DEF RefuseRequest, Asks, Tell, clientVars, cliVars
<1>10. ASSUME NEW r \in Tasks, CliHandles(r)
      PROVE  RequestInv(x)'
  BY <1>10 DEF CliHandles, clientVars
<1>11. ASSUME NEW r \in Tasks, TaskEnds(r)
      PROVE  RequestInv(x)'
  BY <1>11 DEF TaskEnds, TaskResponds, TaskFails, clientVars, cliVars
<1>12. ASSUME NEW r \in Tasks, NEW o \in Outcomes, IgnoreResult(r, o)
      PROVE  RequestInv(x)'
  BY <1>12 DEF IgnoreResult, clientVars, cliVars
<1>13. ASSUME NEW r \in Tasks, NEW o \in Outcomes, ModelResult(r, o)
      PROVE  RequestInv(x)'
  BY <1>13 DEF ModelResult, Pops, Tell, AnswerFor, cliVars
<1>14. ASSUME NEW r \in Tasks, NEW o \in Outcomes, ModeResult(r, o)
      PROVE  RequestInv(x)'
  BY <1>14 DEF ModeResult, Pops, Tell, AnswerFor, cliVars
<1>15. ASSUME NEW r \in Tasks, NEW o \in Outcomes, OtherResult(r, o)
      PROVE  RequestInv(x)'
  BY <1>15 DEF OtherResult, Pops, Tell, AnswerFor, cliVars
<1>16. CASE InitializeSucceeds
  BY <1>16 DEF InitializeSucceeds, Pops, CancelInitTimeout, FlushOutbound, cliVars
<1>17. CASE InitializeFails
  BY <1>17 DEF InitializeFails, CancelInitTimeout, cliVars
<1>18. CASE TimerFires
  BY <1>18 DEF TimerFires, cliVars
<1>19. CASE HandleInitTimeout
  BY <1>19 DEF HandleInitTimeout, cliVars
<1>20. CASE ProtocolError
  BY <1>20 DEF ProtocolError, FailPendingRequests, cliVars
<1>21. CASE SessionDown
  BY <1>21 DEF SessionDown, FailPendingRequests, cliVars
<1>22. CASE StopClient
  BY <1>22 DEF StopClient, cliVars
<1>23. CASE UNCHANGED vars
  BY <1>23 DEF vars, clientVars, cliVars
<1> HIDE DEF TypeOK, CallInv, NothingServed, HandshakeOnce, EntryHasCaller, RequestInv,
             UnsentIsUnknown, ResponseIsTrue, Requests, Callers, Tasks, Outcomes,
             Answers
<1> QED
  BY <1>1, <1>2, <1>3, <1>4, <1>5, <1>6, <1>7, <1>8, <1>9, <1>10, <1>11, <1>12, <1>13,
     <1>14, <1>15, <1>16, <1>17, <1>18, <1>19, <1>20, <1>21, <1>22, <1>23
  DEF Next, CallStep, HandleResult, HandleInitialize

\* ... the permission lock
LEMMA LockStep ==
  ASSUME TypeOK, CallInv, PermissionLockExact, [Next]_vars
  PROVE  PermissionLockExact'
<1> USE ControlAssumption DEF TypeOK, CallInv, NothingServed, PermissionLockExact,
                              Requests, Callers, Tasks, Outcomes, Answers
<1>1. CASE StartCli
  BY <1>1 DEF StartCli, cliVars
<1>2. ASSUME NEW p \in Payloads, SendNow(p)
      PROVE  PermissionLockExact'
  BY <1>2 DEF SendNow, Asks, Tell, clientVars, cliVars
<1>3. ASSUME NEW p \in Payloads, SendLater(p)
      PROVE  PermissionLockExact'
  BY <1>3 DEF SendLater, Asks, Tell, cliVars
<1>4. ASSUME NEW c \in InitWaiters, AwaitInitialized(c)
      PROVE  PermissionLockExact'
  BY <1>4 DEF AwaitInitialized, Asks, Tell, cliVars
<1>5. ASSUME NEW c \in SentWaiters, AwaitInitSent(c)
      PROVE  PermissionLockExact'
  BY <1>5 DEF AwaitInitSent, Asks, Tell, cliVars
<1>6. ASSUME NEW r \in ModelRequests, SetModel(r)
      PROVE  PermissionLockExact'
  BY <1>6 DEF SetModel, Asks, StartRequest, Tell, model_change_in_progress, cliVars
<1>7. ASSUME NEW r \in ModeRequests, SetPermissionMode(r)
      PROVE  PermissionLockExact'
  BY <1>7 DEF SetPermissionMode, Asks, StartRequest, Tell, cliVars
<1>8. ASSUME NEW r \in OtherRequests, OtherRequest(r)
      PROVE  PermissionLockExact'
  BY <1>8 DEF OtherRequest, Asks, StartRequest, Tell, cliVars
<1>9. ASSUME NEW r \in Requests, RefuseRequest(r)
      PROVE  PermissionLockExact'
  BY <1>9 DEF RefuseRequest, Asks, Tell, clientVars, cliVars
<1>10. ASSUME NEW r \in Tasks, CliHandles(r)
      PROVE  PermissionLockExact'
  BY <1>10 DEF CliHandles, clientVars
<1>11. ASSUME NEW r \in Tasks, TaskEnds(r)
      PROVE  PermissionLockExact'
  BY <1>11 DEF TaskEnds, TaskResponds, TaskFails, clientVars, cliVars
<1>12. ASSUME NEW r \in Tasks, NEW o \in Outcomes, IgnoreResult(r, o)
      PROVE  PermissionLockExact'
  BY <1>12 DEF IgnoreResult, clientVars, cliVars
<1>13. ASSUME NEW r \in Tasks, NEW o \in Outcomes, ModelResult(r, o)
      PROVE  PermissionLockExact'
  BY <1>13 DEF ModelResult, Pops, Tell, AnswerFor, cliVars
<1>14. ASSUME NEW r \in Tasks, NEW o \in Outcomes, ModeResult(r, o)
      PROVE  PermissionLockExact'
  BY <1>14 DEF ModeResult, Pops, Tell, AnswerFor, cliVars
<1>15. ASSUME NEW r \in Tasks, NEW o \in Outcomes, OtherResult(r, o)
      PROVE  PermissionLockExact'
  BY <1>15 DEF OtherResult, Pops, Tell, AnswerFor, cliVars
<1>16. CASE InitializeSucceeds
  BY <1>16 DEF InitializeSucceeds, Pops, CancelInitTimeout, FlushOutbound, cliVars
<1>17. CASE InitializeFails
  BY <1>17 DEF InitializeFails, CancelInitTimeout, cliVars
<1>18. CASE TimerFires
  BY <1>18 DEF TimerFires, cliVars
<1>19. CASE HandleInitTimeout
  BY <1>19 DEF HandleInitTimeout, cliVars
<1>20. CASE ProtocolError
  BY <1>20 DEF ProtocolError, FailPendingRequests, cliVars
<1>21. CASE SessionDown
  BY <1>21 DEF SessionDown, FailPendingRequests, cliVars
<1>22. CASE StopClient
  BY <1>22 DEF StopClient, cliVars
<1>23. CASE UNCHANGED vars
  BY <1>23 DEF vars, clientVars, cliVars
<1> HIDE DEF TypeOK, CallInv, NothingServed, PermissionLockExact, Requests, Callers,
             Tasks, Outcomes, Answers
<1> QED
  BY <1>1, <1>2, <1>3, <1>4, <1>5, <1>6, <1>7, <1>8, <1>9, <1>10, <1>11, <1>12, <1>13,
     <1>14, <1>15, <1>16, <1>17, <1>18, <1>19, <1>20, <1>21, <1>22, <1>23
  DEF Next, CallStep, HandleResult, HandleInitialize

\* ... that model changes do not overlap
LEMMA OneStep ==
  ASSUME TypeOK, CallInv, OneInFlight(ModelRequests), [Next]_vars
  PROVE  OneInFlight(ModelRequests)'
<1> USE ControlAssumption DEF TypeOK, CallInv, NothingServed, OneInFlight, Requests,
                              Callers, Tasks, Outcomes, Answers
<1>1. CASE StartCli
  BY <1>1 DEF StartCli, cliVars
<1>2. ASSUME NEW p \in Payloads, SendNow(p)
      PROVE  OneInFlight(ModelRequests)'
  BY <1>2 DEF SendNow, Asks, Tell, clientVars, cliVars
<1>3. ASSUME NEW p \in Payloads, SendLater(p)
      PROVE  OneInFlight(ModelRequests)'
  BY <1>3 DEF SendLater, Asks, Tell, cliVars
<1>4. ASSUME NEW c \in InitWaiters, AwaitInitialized(c)
      PROVE  OneInFlight(ModelRequests)'
  BY <1>4 DEF AwaitInitialized, Asks, Tell, cliVars
<1>5. ASSUME NEW c \in SentWaiters, AwaitInitSent(c)
      PROVE  OneInFlight(ModelRequests)'
  BY <1>5 DEF AwaitInitSent, Asks, Tell, cliVars
<1>6. ASSUME NEW r \in ModelRequests, SetModel(r)
      PROVE  OneInFlight(ModelRequests)'
  BY <1>6 DEF SetModel, Asks, StartRequest, Tell, model_change_in_progress, cliVars
<1>7. ASSUME NEW r \in ModeRequests, SetPermissionMode(r)
      PROVE  OneInFlight(ModelRequests)'
  BY <1>7 DEF SetPermissionMode, Asks, StartRequest, Tell, cliVars
<1>8. ASSUME NEW r \in OtherRequests, OtherRequest(r)
      PROVE  OneInFlight(ModelRequests)'
  BY <1>8 DEF OtherRequest, Asks, StartRequest, Tell, cliVars
<1>9. ASSUME NEW r \in Requests, RefuseRequest(r)
      PROVE  OneInFlight(ModelRequests)'
  BY <1>9 DEF RefuseRequest, Asks, Tell, clientVars, cliVars
<1>10. ASSUME NEW r \in Tasks, CliHandles(r)
      PROVE  OneInFlight(ModelRequests)'
  BY <1>10 DEF CliHandles, clientVars
<1>11. ASSUME NEW r \in Tasks, TaskEnds(r)
      PROVE  OneInFlight(ModelRequests)'
  BY <1>11 DEF TaskEnds, TaskResponds, TaskFails, clientVars, cliVars
<1>12. ASSUME NEW r \in Tasks, NEW o \in Outcomes, IgnoreResult(r, o)
      PROVE  OneInFlight(ModelRequests)'
  BY <1>12 DEF IgnoreResult, clientVars, cliVars
<1>13. ASSUME NEW r \in Tasks, NEW o \in Outcomes, ModelResult(r, o)
      PROVE  OneInFlight(ModelRequests)'
  BY <1>13 DEF ModelResult, Pops, Tell, AnswerFor, cliVars
<1>14. ASSUME NEW r \in Tasks, NEW o \in Outcomes, ModeResult(r, o)
      PROVE  OneInFlight(ModelRequests)'
  BY <1>14 DEF ModeResult, Pops, Tell, AnswerFor, cliVars
<1>15. ASSUME NEW r \in Tasks, NEW o \in Outcomes, OtherResult(r, o)
      PROVE  OneInFlight(ModelRequests)'
  BY <1>15 DEF OtherResult, Pops, Tell, AnswerFor, cliVars
<1>16. CASE InitializeSucceeds
  BY <1>16 DEF InitializeSucceeds, Pops, CancelInitTimeout, FlushOutbound, cliVars
<1>17. CASE InitializeFails
  BY <1>17 DEF InitializeFails, CancelInitTimeout, cliVars
<1>18. CASE TimerFires
  BY <1>18 DEF TimerFires, cliVars
<1>19. CASE HandleInitTimeout
  BY <1>19 DEF HandleInitTimeout, cliVars
<1>20. CASE ProtocolError
  BY <1>20 DEF ProtocolError, FailPendingRequests, cliVars
<1>21. CASE SessionDown
  BY <1>21 DEF SessionDown, FailPendingRequests, cliVars
<1>22. CASE StopClient
  BY <1>22 DEF StopClient, cliVars
<1>23. CASE UNCHANGED vars
  BY <1>23 DEF vars, clientVars, cliVars
<1> HIDE DEF TypeOK, CallInv, NothingServed, OneInFlight, Requests, Callers, Tasks,
             Outcomes, Answers
<1> QED
  BY <1>1, <1>2, <1>3, <1>4, <1>5, <1>6, <1>7, <1>8, <1>9, <1>10, <1>11, <1>12, <1>13,
     <1>14, <1>15, <1>16, <1>17, <1>18, <1>19, <1>20, <1>21, <1>22, <1>23
  DEF Next, CallStep, HandleResult, HandleInitialize

\* ... that the two models agree
LEMMA ModelStep ==
  ASSUME TypeOK, CallInv, OneInFlight(ModelRequests), CliAhead(ModelRequests, model,
         cli_model), [Next]_vars
  PROVE  CliAhead(ModelRequests, model, cli_model)'
<1> USE ControlAssumption DEF TypeOK, CallInv, NothingServed, EntryHasCaller, RequestInv,
                              UnsentIsUnknown, ResponseIsTrue, OneInFlight, CliAhead,
                              Requests, Callers, Tasks, Outcomes, Answers
<1>1. CASE StartCli
  BY <1>1 DEF StartCli, cliVars
<1>2. ASSUME NEW p \in Payloads, SendNow(p)
      PROVE  CliAhead(ModelRequests, model, cli_model)'
  BY <1>2 DEF SendNow, Asks, Tell, clientVars, cliVars
<1>3. ASSUME NEW p \in Payloads, SendLater(p)
      PROVE  CliAhead(ModelRequests, model, cli_model)'
  BY <1>3 DEF SendLater, Asks, Tell, cliVars
<1>4. ASSUME NEW c \in InitWaiters, AwaitInitialized(c)
      PROVE  CliAhead(ModelRequests, model, cli_model)'
  BY <1>4 DEF AwaitInitialized, Asks, Tell, cliVars
<1>5. ASSUME NEW c \in SentWaiters, AwaitInitSent(c)
      PROVE  CliAhead(ModelRequests, model, cli_model)'
  BY <1>5 DEF AwaitInitSent, Asks, Tell, cliVars
<1>6. ASSUME NEW r \in ModelRequests, SetModel(r)
      PROVE  CliAhead(ModelRequests, model, cli_model)'
  BY <1>6 DEF SetModel, Asks, StartRequest, Tell, model_change_in_progress, cliVars
<1>7. ASSUME NEW r \in ModeRequests, SetPermissionMode(r)
      PROVE  CliAhead(ModelRequests, model, cli_model)'
  BY <1>7 DEF SetPermissionMode, Asks, StartRequest, Tell, cliVars
<1>8. ASSUME NEW r \in OtherRequests, OtherRequest(r)
      PROVE  CliAhead(ModelRequests, model, cli_model)'
  BY <1>8 DEF OtherRequest, Asks, StartRequest, Tell, cliVars
<1>9. ASSUME NEW r \in Requests, RefuseRequest(r)
      PROVE  CliAhead(ModelRequests, model, cli_model)'
  BY <1>9 DEF RefuseRequest, Asks, Tell, clientVars, cliVars
<1>10. ASSUME NEW r \in Tasks, CliHandles(r)
      PROVE  CliAhead(ModelRequests, model, cli_model)'
  <2> SUFFICES ASSUME \A q \in ModelRequests : told[q] # "failed"
               PROVE  /\ \A q \in ModelRequests : q \in pending_requests /\ cli'[q] = "applied" =>
                             cli_model' = q
                      /\ (\A q \in ModelRequests : q \in pending_requests => cli'[q] # "applied") =>
                             cli_model' = model
    BY <1>10 DEF CliHandles, clientVars
  <2>1. r \in ModelRequests => told[r] = "waiting" /\ r \in pending_requests
    BY <1>10 DEF CliHandles
  <2>2. r \in ModelRequests => \A q \in ModelRequests : q \in pending_requests => q = r
    BY <2>1
  <2>3. \A q \in ModelRequests : q # r => cli'[q] = cli[q]
    BY <1>10 DEF CliHandles
  <2>4. CASE r \notin ModelRequests
    BY <1>10, <2>3, <2>4 DEF CliHandles
  <2>5. CASE r \in ModelRequests
    <3>1. cli_model = model
      BY <1>10, <2>2, <2>5 DEF CliHandles
    <3>2. (cli'[r] = "applied" /\ cli_model' = r) \/ (cli'[r] = "refused" /\ cli_model' = cli_model)
      BY <1>10, <2>5 DEF CliHandles
    <3> QED
      BY <2>1, <2>2, <2>3, <2>5, <3>1, <3>2
  <2> QED
    BY <2>4, <2>5
<1>11. ASSUME NEW r \in Tasks, TaskEnds(r)
      PROVE  CliAhead(ModelRequests, model, cli_model)'
  BY <1>11 DEF TaskEnds, TaskResponds, TaskFails, clientVars, cliVars
<1>12. ASSUME NEW r \in Tasks, NEW o \in Outcomes, IgnoreResult(r, o)
      PROVE  CliAhead(ModelRequests, model, cli_model)'
  BY <1>12 DEF IgnoreResult, clientVars, cliVars
<1>13. ASSUME NEW r \in Tasks, NEW o \in Outcomes, ModelResult(r, o)
      PROVE  CliAhead(ModelRequests, model, cli_model)'
  BY <1>13 DEF ModelResult, Pops, Tell, AnswerFor, cliVars
<1>14. ASSUME NEW r \in Tasks, NEW o \in Outcomes, ModeResult(r, o)
      PROVE  CliAhead(ModelRequests, model, cli_model)'
  BY <1>14 DEF ModeResult, Pops, Tell, AnswerFor, cliVars
<1>15. ASSUME NEW r \in Tasks, NEW o \in Outcomes, OtherResult(r, o)
      PROVE  CliAhead(ModelRequests, model, cli_model)'
  BY <1>15 DEF OtherResult, Pops, Tell, AnswerFor, cliVars
<1>16. CASE InitializeSucceeds
  BY <1>16 DEF InitializeSucceeds, Pops, CancelInitTimeout, FlushOutbound, cliVars
<1>17. CASE InitializeFails
  BY <1>17 DEF InitializeFails, CancelInitTimeout, cliVars
<1>18. CASE TimerFires
  BY <1>18 DEF TimerFires, cliVars
<1>19. CASE HandleInitTimeout
  BY <1>19 DEF HandleInitTimeout, cliVars
<1>20. CASE ProtocolError
  BY <1>20 DEF ProtocolError, FailPendingRequests, cliVars
<1>21. CASE SessionDown
  BY <1>21 DEF SessionDown, FailPendingRequests, cliVars
<1>22. CASE StopClient
  BY <1>22 DEF StopClient, cliVars
<1>23. CASE UNCHANGED vars
  BY <1>23 DEF vars, clientVars, cliVars
<1> HIDE DEF TypeOK, CallInv, NothingServed, EntryHasCaller, RequestInv, UnsentIsUnknown,
             ResponseIsTrue, OneInFlight, CliAhead, Requests, Callers, Tasks, Outcomes,
             Answers
<1> QED
  BY <1>1, <1>2, <1>3, <1>4, <1>5, <1>6, <1>7, <1>8, <1>9, <1>10, <1>11, <1>12, <1>13,
     <1>14, <1>15, <1>16, <1>17, <1>18, <1>19, <1>20, <1>21, <1>22, <1>23
  DEF Next, CallStep, HandleResult, HandleInitialize

\* ... that the two modes agree
LEMMA ModeStep ==
  ASSUME TypeOK, CallInv, PermissionLockExact, CliAhead(ModeRequests, permission_mode,
         cli_mode), [Next]_vars
  PROVE  CliAhead(ModeRequests, permission_mode, cli_mode)'
<1> USE ControlAssumption DEF TypeOK, CallInv, NothingServed, EntryHasCaller, RequestInv,
                              UnsentIsUnknown, ResponseIsTrue, PermissionLockExact,
                              CliAhead, Requests, Callers, Tasks, Outcomes, Answers
<1>1. CASE StartCli
  BY <1>1 DEF StartCli, cliVars
<1>2. ASSUME NEW p \in Payloads, SendNow(p)
      PROVE  CliAhead(ModeRequests, permission_mode, cli_mode)'
  BY <1>2 DEF SendNow, Asks, Tell, clientVars, cliVars
<1>3. ASSUME NEW p \in Payloads, SendLater(p)
      PROVE  CliAhead(ModeRequests, permission_mode, cli_mode)'
  BY <1>3 DEF SendLater, Asks, Tell, cliVars
<1>4. ASSUME NEW c \in InitWaiters, AwaitInitialized(c)
      PROVE  CliAhead(ModeRequests, permission_mode, cli_mode)'
  BY <1>4 DEF AwaitInitialized, Asks, Tell, cliVars
<1>5. ASSUME NEW c \in SentWaiters, AwaitInitSent(c)
      PROVE  CliAhead(ModeRequests, permission_mode, cli_mode)'
  BY <1>5 DEF AwaitInitSent, Asks, Tell, cliVars
<1>6. ASSUME NEW r \in ModelRequests, SetModel(r)
      PROVE  CliAhead(ModeRequests, permission_mode, cli_mode)'
  BY <1>6 DEF SetModel, Asks, StartRequest, Tell, model_change_in_progress, cliVars
<1>7. ASSUME NEW r \in ModeRequests, SetPermissionMode(r)
      PROVE  CliAhead(ModeRequests, permission_mode, cli_mode)'
  BY <1>7 DEF SetPermissionMode, Asks, StartRequest, Tell, cliVars
<1>8. ASSUME NEW r \in OtherRequests, OtherRequest(r)
      PROVE  CliAhead(ModeRequests, permission_mode, cli_mode)'
  BY <1>8 DEF OtherRequest, Asks, StartRequest, Tell, cliVars
<1>9. ASSUME NEW r \in Requests, RefuseRequest(r)
      PROVE  CliAhead(ModeRequests, permission_mode, cli_mode)'
  BY <1>9 DEF RefuseRequest, Asks, Tell, clientVars, cliVars
<1>10. ASSUME NEW r \in Tasks, CliHandles(r)
      PROVE  CliAhead(ModeRequests, permission_mode, cli_mode)'
  <2> SUFFICES ASSUME \A q \in ModeRequests : told[q] # "failed"
               PROVE  /\ \A q \in ModeRequests : q \in pending_requests /\ cli'[q] = "applied" =>
                             cli_mode' = q
                      /\ (\A q \in ModeRequests : q \in pending_requests => cli'[q] # "applied") =>
                             cli_mode' = permission_mode
    BY <1>10 DEF CliHandles, clientVars
  <2>1. r \in ModeRequests => told[r] = "waiting" /\ r \in pending_requests
    BY <1>10 DEF CliHandles
  <2>2. r \in ModeRequests => \A q \in ModeRequests : q \in pending_requests => q = r
    BY <2>1
  <2>3. \A q \in ModeRequests : q # r => cli'[q] = cli[q]
    BY <1>10 DEF CliHandles
  <2>4. CASE r \notin ModeRequests
    BY <1>10, <2>3, <2>4 DEF CliHandles
  <2>5. CASE r \in ModeRequests
    <3>1. cli_mode = permission_mode
      BY <1>10, <2>2, <2>5 DEF CliHandles
    <3>2. (cli'[r] = "applied" /\ cli_mode' = r) \/ (cli'[r] = "refused" /\ cli_mode' = cli_mode)
      BY <1>10, <2>5 DEF CliHandles
    <3> QED
      BY <2>1, <2>2, <2>3, <2>5, <3>1, <3>2
  <2> QED
    BY <2>4, <2>5
<1>11. ASSUME NEW r \in Tasks, TaskEnds(r)
      PROVE  CliAhead(ModeRequests, permission_mode, cli_mode)'
  BY <1>11 DEF TaskEnds, TaskResponds, TaskFails, clientVars, cliVars
<1>12. ASSUME NEW r \in Tasks, NEW o \in Outcomes, IgnoreResult(r, o)
      PROVE  CliAhead(ModeRequests, permission_mode, cli_mode)'
  BY <1>12 DEF IgnoreResult, clientVars, cliVars
<1>13. ASSUME NEW r \in Tasks, NEW o \in Outcomes, ModelResult(r, o)
      PROVE  CliAhead(ModeRequests, permission_mode, cli_mode)'
  BY <1>13 DEF ModelResult, Pops, Tell, AnswerFor, cliVars
<1>14. ASSUME NEW r \in Tasks, NEW o \in Outcomes, ModeResult(r, o)
      PROVE  CliAhead(ModeRequests, permission_mode, cli_mode)'
  BY <1>14 DEF ModeResult, Pops, Tell, AnswerFor, cliVars
<1>15. ASSUME NEW r \in Tasks, NEW o \in Outcomes, OtherResult(r, o)
      PROVE  CliAhead(ModeRequests, permission_mode, cli_mode)'
  BY <1>15 DEF OtherResult, Pops, Tell, AnswerFor, cliVars
<1>16. CASE InitializeSucceeds
  BY <1>16 DEF InitializeSucceeds, Pops, CancelInitTimeout, FlushOutbound, cliVars
<1>17. CASE InitializeFails
  BY <1>17 DEF InitializeFails, CancelInitTimeout, cliVars
<1>18. CASE TimerFires
  BY <1>18 DEF TimerFires, cliVars
<1>19. CASE HandleInitTimeout
  BY <1>19 DEF HandleInitTimeout, cliVars
<1>20. CASE ProtocolError
  BY <1>20 DEF ProtocolError, FailPendingRequests, cliVars
<1>21. CASE SessionDown
  BY <1>21 DEF SessionDown, FailPendingRequests, cliVars
<1>22. CASE StopClient
  BY <1>22 DEF StopClient, cliVars
<1>23. CASE UNCHANGED vars
  BY <1>23 DEF vars, clientVars, cliVars
<1> HIDE DEF TypeOK, CallInv, NothingServed, EntryHasCaller, RequestInv, UnsentIsUnknown,
             ResponseIsTrue, PermissionLockExact, CliAhead, Requests, Callers, Tasks,
             Outcomes, Answers
<1> QED
  BY <1>1, <1>2, <1>3, <1>4, <1>5, <1>6, <1>7, <1>8, <1>9, <1>10, <1>11, <1>12, <1>13,
     <1>14, <1>15, <1>16, <1>17, <1>18, <1>19, <1>20, <1>21, <1>22, <1>23
  DEF Next, CallStep, HandleResult, HandleInitialize

\* What an appended sequence holds, and that it repeats nothing that is new.
LEMMA AppendElements ==
  ASSUME NEW M, NEW s \in Seq(M), NEW e \in M
  PROVE  /\ \A i \in DOMAIN Append(s, e) :
              \/ i \in DOMAIN s /\ Append(s, e)[i] = s[i]
              \/ i = Len(s) + 1 /\ Append(s, e)[i] = e
         /\ Distinct(s) /\ (\A i \in DOMAIN s : s[i] # e) => Distinct(Append(s, e))
<1>1. \A i \in DOMAIN Append(s, e) :
        \/ i \in DOMAIN s /\ Append(s, e)[i] = s[i]
        \/ i = Len(s) + 1 /\ Append(s, e)[i] = e
  OBVIOUS
<1> QED
  BY <1>1 DEF Distinct

\* Wherever a send fails, what was sent and what was left are the queue.
LEMMA QueueSplits ==
  ASSUME NEW M, NEW s \in Seq(M), NEW queue \in Seq(M), NEW n \in 0 .. Len(queue)
  PROVE  (s \o SubSeq(queue, 1, n)) \o SubSeq(queue, n + 1, Len(queue)) = s \o queue
<1>1. SubSeq(queue, 1, n) \o SubSeq(queue, n + 1, Len(queue)) = queue
  <2>1. /\ Len(queue) \in Nat
        /\ 1 \in 1 .. Len(queue) + 1
        /\ n \in 1 - 1 .. Len(queue)
        /\ Len(queue) \in n .. Len(queue)
    BY LenProperties
  <2> QED
    BY <2>1, ConcatAdjacentSubSeq, SubSeqFull
<1>2. SubSeq(queue, 1, n) \in Seq(M) /\ SubSeq(queue, n + 1, Len(queue)) \in Seq(M)
  OBVIOUS
<1>3. (s \o SubSeq(queue, 1, n)) \o SubSeq(queue, n + 1, Len(queue))
        = s \o (SubSeq(queue, 1, n) \o SubSeq(queue, n + 1, Len(queue)))
  <2> DEFINE front == SubSeq(queue, 1, n)
             back  == SubSeq(queue, n + 1, Len(queue))
  <2> HIDE DEF front, back
  <2>1. front \in Seq(M) /\ back \in Seq(M) => (s \o front) \o back = s \o (front \o back)
    BY ConcatAssociative
  <2> QED
    BY <1>2, <2>1 DEF front, back
<1> QED
  BY <1>1, <1>3

\* ... the order of what was accepted
LEMMA FifoStep ==
  ASSUME TypeOK, CallInv, FifoInv, [Next]_vars
  PROVE  FifoInv'
<1> USE ControlAssumption DEF TypeOK, CallInv, HandshakeOnce, FifoInv, OutboundFifo,
                              Distinct, Stranded, AcceptedWasAsked, Requests, Callers,
                              Tasks, Outcomes, Answers
<1>1. CASE StartCli
  BY <1>1 DEF StartCli, cliVars
<1>2. ASSUME NEW p \in Payloads, SendNow(p)
      PROVE  FifoInv'
  <2>1. \A i \in DOMAIN accepted : accepted[i] # p
    BY <1>2 DEF SendNow, Asks
  <2>2. CASE sent' = Append(sent, p) /\ accepted' = Append(accepted, p)
    <3>1. \A q \in Payloads : told[q] # "unasked" => told'[q] # "unasked"
      BY <1>2 DEF SendNow, Tell
    <3>2. told'[p] # "unasked"
      BY <1>2 DEF SendNow, Tell
    <3>3. \A i \in DOMAIN accepted' :
            \/ i \in DOMAIN accepted /\ accepted'[i] = accepted[i]
            \/ accepted'[i] = p
      BY <2>2, AppendElements
    <3>4. AcceptedWasAsked'
      <4>1. \A i \in DOMAIN accepted : accepted[i] \in Payloads
        OBVIOUS
      <4> QED
        BY <3>1, <3>2, <3>3, <4>1
    <3>5. Distinct(accepted)'
      BY <2>1, <2>2, AppendElements
    <3>6. pending_outbound = << >> => Append(sent \o pending_outbound, p) = sent' \o pending_outbound
      BY <2>2
    <3> QED
      BY <1>2, <2>2, <3>4, <3>5, <3>6 DEF SendNow, clientVars
  <2>3. CASE sent' = sent /\ accepted' = accepted
    BY <1>2, <2>3 DEF SendNow, Tell, clientVars
  <2> QED
    BY <1>2, <2>2, <2>3 DEF SendNow
<1>3. ASSUME NEW p \in Payloads, SendLater(p)
      PROVE  FifoInv'
  BY <1>3 DEF SendLater, Asks, Tell, cliVars
<1>4. ASSUME NEW c \in InitWaiters, AwaitInitialized(c)
      PROVE  FifoInv'
  BY <1>4 DEF AwaitInitialized, Asks, Tell, cliVars
<1>5. ASSUME NEW c \in SentWaiters, AwaitInitSent(c)
      PROVE  FifoInv'
  BY <1>5 DEF AwaitInitSent, Asks, Tell, cliVars
<1>6. ASSUME NEW r \in ModelRequests, SetModel(r)
      PROVE  FifoInv'
  BY <1>6 DEF SetModel, Asks, StartRequest, Tell, model_change_in_progress, cliVars
<1>7. ASSUME NEW r \in ModeRequests, SetPermissionMode(r)
      PROVE  FifoInv'
  BY <1>7 DEF SetPermissionMode, Asks, StartRequest, Tell, cliVars
<1>8. ASSUME NEW r \in OtherRequests, OtherRequest(r)
      PROVE  FifoInv'
  BY <1>8 DEF OtherRequest, Asks, StartRequest, Tell, cliVars
<1>9. ASSUME NEW r \in Requests, RefuseRequest(r)
      PROVE  FifoInv'
  BY <1>9 DEF RefuseRequest, Asks, Tell, clientVars, cliVars
<1>10. ASSUME NEW r \in Tasks, CliHandles(r)
      PROVE  FifoInv'
  BY <1>10 DEF CliHandles, clientVars
<1>11. ASSUME NEW r \in Tasks, TaskEnds(r)
      PROVE  FifoInv'
  BY <1>11 DEF TaskEnds, TaskResponds, TaskFails, clientVars, cliVars
<1>12. ASSUME NEW r \in Tasks, NEW o \in Outcomes, IgnoreResult(r, o)
      PROVE  FifoInv'
  BY <1>12 DEF IgnoreResult, clientVars, cliVars
<1>13. ASSUME NEW r \in Tasks, NEW o \in Outcomes, ModelResult(r, o)
      PROVE  FifoInv'
  BY <1>13 DEF ModelResult, Pops, Tell, AnswerFor, cliVars
<1>14. ASSUME NEW r \in Tasks, NEW o \in Outcomes, ModeResult(r, o)
      PROVE  FifoInv'
  BY <1>14 DEF ModeResult, Pops, Tell, AnswerFor, cliVars
<1>15. ASSUME NEW r \in Tasks, NEW o \in Outcomes, OtherResult(r, o)
      PROVE  FifoInv'
  BY <1>15 DEF OtherResult, Pops, Tell, AnswerFor, cliVars
<1>16. CASE InitializeSucceeds
  <2>1. PICK n \in 0 .. Len(pending_outbound) :
           /\ sent' = sent \o SubSeq(pending_outbound, 1, n)
           /\ pending_outbound' = SubSeq(pending_outbound, n + 1, Len(pending_outbound))
    BY <1>16 DEF InitializeSucceeds, FlushOutbound
  <2>2. sent' \o pending_outbound' = sent \o pending_outbound
    <3>1. (sent \o SubSeq(pending_outbound, 1, n))
             \o SubSeq(pending_outbound, n + 1, Len(pending_outbound)) = sent \o pending_outbound
      <4>1. sent \in Seq(Payloads) /\ pending_outbound \in Seq(Payloads)
        OBVIOUS
      <4> QED
        BY ONLY <4>1, n \in 0 .. Len(pending_outbound), QueueSplits, Zenon
    <3> QED
      BY <2>1, <3>1
  <2>3. ~initialized /\ initialized' /\ accepted' = accepted
    BY <1>16 DEF InitializeSucceeds, Pops
  <2>4. AcceptedWasAsked'
    BY <1>16 DEF InitializeSucceeds
  <2> QED
    BY <2>2, <2>3, <2>4
<1>17. CASE InitializeFails
  BY <1>17 DEF InitializeFails, CancelInitTimeout, cliVars
<1>18. CASE TimerFires
  BY <1>18 DEF TimerFires, cliVars
<1>19. CASE HandleInitTimeout
  BY <1>19 DEF HandleInitTimeout, cliVars
<1>20. CASE ProtocolError
  BY <1>20 DEF ProtocolError, FailPendingRequests, cliVars
<1>21. CASE SessionDown
  BY <1>21 DEF SessionDown, FailPendingRequests, cliVars
<1>22. CASE StopClient
  BY <1>22 DEF StopClient, cliVars
<1>23. CASE UNCHANGED vars
  BY <1>23 DEF vars, clientVars, cliVars
<1> HIDE DEF TypeOK, CallInv, HandshakeOnce, FifoInv, OutboundFifo, Distinct, Stranded,
             AcceptedWasAsked, Requests, Callers, Tasks, Outcomes, Answers
<1> QED
  BY <1>1, <1>2, <1>3, <1>4, <1>5, <1>6, <1>7, <1>8, <1>9, <1>10, <1>11, <1>12, <1>13,
     <1>14, <1>15, <1>16, <1>17, <1>18, <1>19, <1>20, <1>21, <1>22, <1>23
  DEF Next, CallStep, HandleResult, HandleInitialize

LEMMA StepInv == IInv /\ [Next]_vars => IInv'
<1> SUFFICES ASSUME IInv, [Next]_vars PROVE IInv'
  OBVIOUS
<1>1. /\ TypeOK /\ CallInv /\ SettingsInv /\ FifoInv
      /\ NothingServed /\ HandshakeOnce /\ EntryHasCaller /\ InitWaitersWait
  BY DEF IInv, CallInv
<1>2. TypeOK'
  BY <1>1, TypeStep
<1>3. CallInv'
  <2>1. ASSUME NEW r \in Requests PROVE RequestInv(r)'
    BY <1>1, RequestStep
  <2>2. (NothingServed /\ HandshakeOnce /\ EntryHasCaller /\ InitWaitersWait)'
    BY <1>1, CallStepInv
  <2> QED
    BY <2>1, <2>2 DEF CallInv
<1>4. SettingsInv'
  BY <1>1, LockStep, OneStep, ModelStep, ModeStep DEF SettingsInv
<1>5. FifoInv'
  BY <1>1, FifoStep
<1> QED
  BY <1>2, <1>3, <1>4, <1>5 DEF IInv

-----------------------------------------------------------------------------
\* The invariant holds in every state of the client and the CLI.
THEOREM Invariance == Spec => []IInv
<1> QED
  BY InitInv, StepInv, PTL DEF Spec

\* The state of the client keeps its shape (client.ex:101).
THEOREM TypeCorrect == Spec => []TypeOK
<1>1. IInv => TypeOK
  BY DEF IInv
<1> QED
  BY <1>1, Invariance, PTL

\* Nothing is sent before the handshake, and unless a flush failed every accepted message
\* is sent once, in the order of acceptance, however long the queue was when the handshake
\* ended (client.ex:142, 1604, 2306).
THEOREM FifoOutbound == Spec => []OutboundFifo
<1>1. IInv => OutboundFifo
  BY DEF IInv, FifoInv
<1> QED
  BY <1>1, Invariance, PTL

\* The permission lock names the one set_permission_mode request in flight, on every path
\* that ends one (client.ex:861, 1545, 1884, 2205).
THEOREM LockIsExact == Spec => []PermissionLockExact
<1>1. IInv => PermissionLockExact
  BY DEF IInv, SettingsInv
<1> QED
  BY <1>1, Invariance, PTL

\* model_change_in_progress? lets one set_model request through at a time.
THEOREM OneModelChange == Spec => []OneInFlight(ModelRequests)
<1>1. IInv => OneInFlight(ModelRequests)
  BY DEF IInv, SettingsInv
<1> QED
  BY <1>1, Invariance, PTL

\* Whatever the order of requests, responses and results, for any number of changes: once
\* they have settled the client and the CLI hold the same model and the same mode.
THEOREM SettingsConverge == Spec => []SettingsAgree
<1>1. IInv => SettingsAgree
  <2> SUFFICES ASSUME IInv PROVE SettingsAgree
    OBVIOUS
  <2>1. CliAhead(ModelRequests, model, cli_model) /\ CliAhead(ModeRequests, permission_mode, cli_mode)
    BY DEF IInv, SettingsInv
  <2> QED
    BY <2>1 DEF SettingsAgree, Settled, CliAhead
<1> QED
  BY <1>1, Invariance, PTL

-----------------------------------------------------------------------------
(***************************************************************************)
(* The refinement: what a caller is told in one step.                      *)
(***************************************************************************)

\* Only a caller that has no answer is given one.
LEMMA ToldMoves ==
  ASSUME TypeOK, CallInv, NEW d \in Callers, [Next]_vars
  PROVE  Deferred!Moves(told[d], told'[d])
<1> USE ControlAssumption DEF TypeOK, CallInv, EntryHasCaller, InitWaitersWait,
                              Deferred!Moves, Requests, Callers, Tasks, Outcomes,
                              Answers
<1>1. CASE StartCli
  BY <1>1 DEF StartCli, cliVars
<1>2. ASSUME NEW p \in Payloads, SendNow(p)
      PROVE  Deferred!Moves(told[d], told'[d])
  BY <1>2 DEF SendNow, Asks, Tell, clientVars, cliVars
<1>3. ASSUME NEW p \in Payloads, SendLater(p)
      PROVE  Deferred!Moves(told[d], told'[d])
  BY <1>3 DEF SendLater, Asks, Tell, cliVars
<1>4. ASSUME NEW c \in InitWaiters, AwaitInitialized(c)
      PROVE  Deferred!Moves(told[d], told'[d])
  BY <1>4 DEF AwaitInitialized, Asks, Tell, cliVars
<1>5. ASSUME NEW c \in SentWaiters, AwaitInitSent(c)
      PROVE  Deferred!Moves(told[d], told'[d])
  BY <1>5 DEF AwaitInitSent, Asks, Tell, cliVars
<1>6. ASSUME NEW r \in ModelRequests, SetModel(r)
      PROVE  Deferred!Moves(told[d], told'[d])
  BY <1>6 DEF SetModel, Asks, StartRequest, Tell, model_change_in_progress, cliVars
<1>7. ASSUME NEW r \in ModeRequests, SetPermissionMode(r)
      PROVE  Deferred!Moves(told[d], told'[d])
  BY <1>7 DEF SetPermissionMode, Asks, StartRequest, Tell, cliVars
<1>8. ASSUME NEW r \in OtherRequests, OtherRequest(r)
      PROVE  Deferred!Moves(told[d], told'[d])
  BY <1>8 DEF OtherRequest, Asks, StartRequest, Tell, cliVars
<1>9. ASSUME NEW r \in Requests, RefuseRequest(r)
      PROVE  Deferred!Moves(told[d], told'[d])
  BY <1>9 DEF RefuseRequest, Asks, Tell, clientVars, cliVars
<1>10. ASSUME NEW r \in Tasks, CliHandles(r)
      PROVE  Deferred!Moves(told[d], told'[d])
  BY <1>10 DEF CliHandles, clientVars
<1>11. ASSUME NEW r \in Tasks, TaskEnds(r)
      PROVE  Deferred!Moves(told[d], told'[d])
  BY <1>11 DEF TaskEnds, TaskResponds, TaskFails, clientVars, cliVars
<1>12. ASSUME NEW r \in Tasks, NEW o \in Outcomes, IgnoreResult(r, o)
      PROVE  Deferred!Moves(told[d], told'[d])
  BY <1>12 DEF IgnoreResult, clientVars, cliVars
<1>13. ASSUME NEW r \in Tasks, NEW o \in Outcomes, ModelResult(r, o)
      PROVE  Deferred!Moves(told[d], told'[d])
  BY <1>13 DEF ModelResult, Pops, Tell, AnswerFor, cliVars
<1>14. ASSUME NEW r \in Tasks, NEW o \in Outcomes, ModeResult(r, o)
      PROVE  Deferred!Moves(told[d], told'[d])
  BY <1>14 DEF ModeResult, Pops, Tell, AnswerFor, cliVars
<1>15. ASSUME NEW r \in Tasks, NEW o \in Outcomes, OtherResult(r, o)
      PROVE  Deferred!Moves(told[d], told'[d])
  BY <1>15 DEF OtherResult, Pops, Tell, AnswerFor, cliVars
<1>16. CASE InitializeSucceeds
  BY <1>16 DEF InitializeSucceeds, Pops, CancelInitTimeout, FlushOutbound, cliVars
<1>17. CASE InitializeFails
  BY <1>17 DEF InitializeFails, CancelInitTimeout, cliVars
<1>18. CASE TimerFires
  BY <1>18 DEF TimerFires, cliVars
<1>19. CASE HandleInitTimeout
  BY <1>19 DEF HandleInitTimeout, cliVars
<1>20. CASE ProtocolError
  BY <1>20 DEF ProtocolError, FailPendingRequests, cliVars
<1>21. CASE SessionDown
  BY <1>21 DEF SessionDown, FailPendingRequests, cliVars
<1>22. CASE StopClient
  BY <1>22 DEF StopClient, cliVars
<1>23. CASE UNCHANGED vars
  BY <1>23 DEF vars, clientVars, cliVars
<1> HIDE DEF TypeOK, CallInv, EntryHasCaller, InitWaitersWait, Deferred!Moves, Requests,
             Callers, Tasks, Outcomes, Answers
<1> QED
  BY <1>1, <1>2, <1>3, <1>4, <1>5, <1>6, <1>7, <1>8, <1>9, <1>10, <1>11, <1>12, <1>13,
     <1>14, <1>15, <1>16, <1>17, <1>18, <1>19, <1>20, <1>21, <1>22, <1>23
  DEF Next, CallStep, HandleResult, HandleInitialize

\* Every call of the client is a deferred reply: a response, a failure, a protocol error and
\* the end of the session compete to answer it, and it is answered at most once.
THEOREM Refinement == Spec => ControlIsDeferred
<1>1. Init => Deferred!Init
  BY DEF Init, Deferred!Init
<1>2. IInv /\ [Next]_vars => [Deferred!Next]_told
  <2> SUFFICES ASSUME IInv, [Next]_vars PROVE Deferred!Next
    OBVIOUS
  <2>1. told' \in [Callers -> Deferred!Status]
    BY TypeStep DEF IInv, TypeOK, Deferred!Status
  <2> QED
    BY <2>1, ToldMoves DEF IInv, Deferred!Next
<1> QED
  BY <1>1, <1>2, Invariance, PTL DEF Spec, ControlIsDeferred, Deferred!Spec
=============================================================================
