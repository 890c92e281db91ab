----------------------- MODULE ClientCallbacks_proofs -----------------------
(***************************************************************************)
(* Theorems about ClientCallbacks, for every set of requests.              *)
(*                                                                         *)
(* One inductive invariant, IInv, carries them all.  It says, of each      *)
(* request, in which of its lives it is: not yet called, called and in the *)
(* mailbox, pending with a task, or over.                                  *)
(***************************************************************************)
EXTENDS ClientCallbacks, SequenceTheorems, TLAPS

\* A request whose call has not been handled has left no trace anywhere.
Fresh(r) ==
  /\ task[r] = "none"
  /\ replies[r] = << >>
  /\ r \notin pending_callbacks
  /\ r \notin signal
  /\ r \notin killed

CallIsFirst(r) == peer[r] # "calling" \/ Call(r) \in mailbox => Fresh(r)

CallerIsWaiting(r) == Call(r) \in mailbox => peer[r] = "calling"

\* An entry of pending_callbacks stands for an unanswered, uncancelled request
\* that was called and given a task.
EntryIsOpen(r) ==
  r \in pending_callbacks => /\ replies[r] = << >>
                             /\ r \notin signal
                             /\ r \notin killed
                             /\ task[r] # "none"
                             /\ client = "running"

AnsweredAtMostOnce(r) == Len(replies[r]) <= 1

CancelledOnly(r) ==
  r \in signal => \A i \in DOMAIN replies[r] : replies[r][i] = "cancelled"

\* What the mailbox says of a task is true of it.
MessagesAreTrue(r) ==
  /\ \A k \in Results : Result(r, k) \in mailbox => task[r] \in {"reported", "dead"}
  /\ \A why \in Reasons : Down(r, why) \in mailbox => task[r] \in {"dead", "shut_down"}

\* Why an entry is not left behind: the news of the end of its task is in the mailbox,
\* and a normal :DOWN is never there without the result it follows.
NewsOfEnd(r) ==
  r \in pending_callbacks =>
    /\ task[r] # "running" =>
         \/ \E k \in Results : Result(r, k) \in mailbox
         \/ \E why \in Reasons \ {"normal"} : Down(r, why) \in mailbox
    /\ task[r] = "reported" => \E k \in Results : Result(r, k) \in mailbox
    /\ Down(r, "normal") \in mailbox => \E k \in Results : Result(r, k) \in mailbox

\* A live task is tracked by its entry, or has been told to stop.
TaskIsTracked(r) ==
  task[r] = "running" /\ client # "dead" =>
    \/ r \in pending_callbacks
    \/ r \in signal /\ r \in killed

RequestInv(r) ==
  /\ CallIsFirst(r)
  /\ CallerIsWaiting(r)
  /\ EntryIsOpen(r)
  /\ AnsweredAtMostOnce(r)
  /\ CancelledOnly(r)
  /\ MessagesAreTrue(r)
  /\ NewsOfEnd(r)
  /\ TaskIsTracked(r)

IInv == TypeOK /\ \A r \in Requests : RequestInv(r)
-----------------------------------------------------------------------------
(***************************************************************************)
(* Messages: those of different kinds or requests differ, and a message of *)
(* request r says nothing of another request.                              *)
(***************************************************************************)

\* A message is known by its kind, its request and its content
\* (client.ex:1053-1180 tells them apart by pattern matching).
LEMMA MessageFields ==
  /\ \A r : Call(r).type = "peer_request" /\ Call(r).id = r
  /\ \A r : Cancel(r).type = "control_cancel_request" /\ Cancel(r).id = r
  /\ \A r, k : /\ Result(r, k).type = "callback_result"
               /\ Result(r, k).id = r
               /\ Result(r, k).info = k
  /\ \A r, why : Down(r, why).type = "DOWN" /\ Down(r, why).id = r /\ Down(r, why).info = why
  BY DEF Call, Cancel, Result, Down

\* Flushing the :DOWN of r removes that message and no other
\* (Process.demonitor/2 with [:flush], client.ex:2652).
LEMMA FlushRemovesDown ==
  \A box, r : /\ Flush(box, r) \subseteq box
              /\ \A m \in box : m \in Flush(box, r) <=> ~(m.type = "DOWN" /\ m.id = r)
  BY DEF Flush

\* Every message is of the type the mailbox is declared with.
LEMMA MessageTypes ==
  \A r \in Requests :
    /\ Call(r) \in Messages
    /\ Cancel(r) \in Messages
    /\ \A k \in Results : Result(r, k) \in Messages
    /\ \A why \in Reasons : Down(r, why) \in Messages
  BY DEF Messages, Call, Cancel, Result, Down

\* GenServer.reply/2 to request r adds one answer to those of r and to no other's
\* (client.ex:1089, 1123, 2082, 2708).
LEMMA ReplyAppends ==
  ASSUME NEW r \in Requests, NEW a \in Answers,
         replies \in [Requests -> Seq(Answers)], Reply(r, a)
  PROVE  /\ replies' \in [Requests -> Seq(Answers)]
         /\ \A s \in Requests : s # r => replies'[s] = replies[s]
         /\ replies[r] = << >> => replies'[r] = <<a>>
<1>1. replies[r] \in Seq(Answers) /\ Append(replies[r], a) \in Seq(Answers)
  OBVIOUS
<1>2. replies' = [replies EXCEPT ![r] = Append(replies[r], a)]
  BY DEF Reply
<1>3. replies[r] = << >> => Append(replies[r], a) = <<a>>
  OBVIOUS
<1> QED
  BY <1>1, <1>2, <1>3

-----------------------------------------------------------------------------
\* The state keeps the shape of the Client struct, whatever happens (client.ex:101).
LEMMA TypeStep == ASSUME TypeOK, [Next]_vars PROVE TypeOK'
<1> USE DEF TypeOK
<1>1. ASSUME NEW r \in Requests, ReceivePeerRequest(r) \/ PeerCall(r) \/ CliCancel(r)
      PROVE  TypeOK'
  BY <1>1, MessageTypes DEF ReceivePeerRequest, PeerCall, CliCancel
<1>2. ASSUME NEW r \in Requests, HandleCall(r)
      PROVE  TypeOK'
  BY <1>2, ReplyAppends, RegisteredAssumption
  DEF HandleCall, StartCallback, RefuseCallback, AnswerAtOnce, TaskStates, Answers
<1>3. ASSUME NEW r \in Requests, NEW k \in Results, HandleResult(r, k)
      PROVE  TypeOK'
  <2>1. mailbox' \subseteq Messages
    BY <1>3, FlushRemovesDown DEF HandleResult
  <2>2. replies' \in [Requests -> Seq(Answers)]
    BY <1>3, ReplyAppends DEF HandleResult, Answers, Results
  <2> QED
    BY <1>3, <2>1, <2>2 DEF HandleResult
<1>4. ASSUME NEW r \in Requests, HandleCancel(r)
      PROVE  TypeOK'
  BY <1>4, FlushRemovesDown, ReplyAppends DEF HandleCancel, Answers
<1>5. ASSUME NEW r \in Requests, NEW why \in Reasons, HandleDown(r, why)
      PROVE  TypeOK'
  BY <1>5, ReplyAppends DEF HandleDown, Answers
<1>6. ASSUME NEW r \in Requests, Task(r)
      PROVE  TypeOK'
  <2>1. CASE TaskReport(r)
    BY <2>1, MessageTypes DEF TaskReport, TaskStates
  <2>2. CASE TaskReturn(r)
    BY <2>2, MessageTypes DEF TaskReturn, DownOf, TaskStates, Reasons
  <2>3. ASSUME NEW why \in {"shutdown", "crash"}, TaskCrash(r, why)
        PROVE  TypeOK'
    BY <2>3, MessageTypes DEF TaskCrash, DownOf, TaskStates, Reasons
  <2>4. CASE TaskKilled(r)
    BY <2>4 DEF TaskKilled, TaskStates
  <2> QED
    BY <1>6, <2>1, <2>2, <2>3, <2>4 DEF Task
<1>7. CASE StopClient
  BY <1>7 DEF StopClient
<1>8. CASE ExitSignal
  BY <1>8 DEF ExitSignal
<1>9. CASE UNCHANGED vars
  BY <1>9 DEF vars
<1> QED
  BY <1>1, <1>2, <1>3, <1>4, <1>5, <1>6, <1>7, <1>8, <1>9 DEF Next, Handle
-----------------------------------------------------------------------------
(***************************************************************************)
(* A step that is about one request leaves the others alone.               *)
(***************************************************************************)

\* Nothing that RequestInv(s) mentions is changed by the step.
Frame(s) ==
  /\ task'[s] = task[s]
  /\ peer'[s] = peer[s]
  /\ replies'[s] = replies[s]
  /\ s \in pending_callbacks' <=> s \in pending_callbacks
  /\ s \in signal' <=> s \in signal
  /\ s \in killed' <=> s \in killed
  /\ client' = client
  /\ \A m : m.id = s => (m \in mailbox' <=> m \in mailbox)

\* What is left alone keeps its invariant.
LEMMA FrameKeeps ==
  ASSUME NEW s \in Requests, RequestInv(s), Frame(s)
  PROVE  RequestInv(s)'
<1>1. Call(s) \in mailbox' <=> Call(s) \in mailbox
  BY MessageFields DEF Frame
<1>2. \A k : Result(s, k) \in mailbox' <=> Result(s, k) \in mailbox
  BY MessageFields DEF Frame
<1>3. \A why : Down(s, why) \in mailbox' <=> Down(s, why) \in mailbox
  BY MessageFields DEF Frame
<1> QED
  BY <1>1, <1>2, <1>3
  DEF RequestInv, Frame, CallIsFirst, Fresh, CallerIsWaiting, EntryIsOpen,
      AnsweredAtMostOnce, CancelledOnly, MessagesAreTrue, NewsOfEnd, TaskIsTracked

\* Each handler, each message and each task of client.ex concerns one request_id.
LEMMA StepsAreLocal ==
  ASSUME TypeOK, NEW r \in Requests, NEW s \in Requests, s # r,
         \/ ReceivePeerRequest(r) \/ PeerCall(r) \/ CliCancel(r)
         \/ Handle(r)
         \/ Task(r)
  PROVE  Frame(s)
<1> USE DEF TypeOK, Frame
<1>1. CASE ReceivePeerRequest(r)
  BY <1>1 DEF ReceivePeerRequest
<1>2. CASE PeerCall(r)
  BY <1>2, MessageFields DEF PeerCall
<1>3. CASE CliCancel(r)
  BY <1>3, MessageFields DEF CliCancel
<1>4. CASE StartCallback(r)
  BY <1>4, MessageFields DEF StartCallback
<1> DEFINE Untold == replies'[s] = replies[s]
<1>a. ASSUME NEW a \in Answers, Reply(r, a) PROVE Untold
  BY <1>a, ReplyAppends
<1>5. CASE RefuseCallback(r)
  <2>1. Untold
    BY <1>5, <1>a DEF RefuseCallback, Answers
  <2> QED
    BY <1>5, <2>1, MessageFields DEF RefuseCallback
<1>6. CASE AnswerAtOnce(r)
  <2>1. Untold
    BY <1>6, <1>a DEF AnswerAtOnce, Answers
  <2> QED
    BY <1>6, <2>1, MessageFields DEF AnswerAtOnce
<1>7. ASSUME NEW k \in Results, HandleResult(r, k)
      PROVE  Frame(s)
  <2>1. Untold
    BY <1>7, <1>a DEF HandleResult, Answers, Results
  <2> QED
    BY <1>7, <2>1, MessageFields, FlushRemovesDown DEF HandleResult
<1>8. CASE HandleCancel(r)
  <2>1. Untold
    BY <1>8, <1>a DEF HandleCancel, Answers
  <2> QED
    BY <1>8, <2>1, MessageFields, FlushRemovesDown DEF HandleCancel
<1>9. ASSUME NEW why \in Reasons, HandleDown(r, why)
      PROVE  Frame(s)
  <2>1. Untold
    BY <1>9, <1>a DEF HandleDown, Answers
  <2> QED
    BY <1>9, <2>1, MessageFields DEF HandleDown
<1>10. CASE TaskReport(r)
  BY <1>10, MessageFields DEF TaskReport
<1>11. CASE TaskReturn(r)
  BY <1>11, MessageFields DEF TaskReturn, DownOf
<1>12. ASSUME NEW why \in {"shutdown", "crash"}, TaskCrash(r, why)
       PROVE  Frame(s)
  BY <1>12, MessageFields DEF TaskCrash, DownOf
<1>13. CASE TaskKilled(r)
  BY <1>13 DEF TaskKilled
<1> QED
  BY <1>1, <1>2, <1>3, <1>4, <1>5, <1>6, <1>7, <1>8, <1>9, <1>10, <1>11, <1>12, <1>13
  DEF Handle, HandleCall, Task
-----------------------------------------------------------------------------
(***************************************************************************)
(* What a step does to the request it is about.                            *)
(***************************************************************************)

\* The peer's side and start_callback_task (client.ex:1700, 2450).
LEMMA CallSteps ==
  ASSUME TypeOK, NEW r \in Requests, RequestInv(r),
         ReceivePeerRequest(r) \/ PeerCall(r) \/ CliCancel(r) \/ HandleCall(r)
  PROVE  RequestInv(r)'
<1> USE DEF TypeOK, RequestInv, CallIsFirst, Fresh, CallerIsWaiting, EntryIsOpen,
            AnsweredAtMostOnce, CancelledOnly, MessagesAreTrue, NewsOfEnd, TaskIsTracked
<1>1. CASE ReceivePeerRequest(r)
  BY <1>1 DEF ReceivePeerRequest
<1>2. CASE PeerCall(r)
  BY <1>2, MessageFields DEF PeerCall
<1>3. CASE CliCancel(r)
  BY <1>3, MessageFields DEF CliCancel
<1>4. CASE StartCallback(r)
  <2>1. /\ peer[r] = "calling" /\ peer'[r] = "calling"
        /\ task[r] = "none" /\ task'[r] = "running"
        /\ replies[r] = << >> /\ replies'[r] = << >>
        /\ r \notin signal' /\ r \notin killed' /\ r \in pending_callbacks'
        /\ client' = "running"
    BY <1>4 DEF StartCallback
  <2>2. /\ Call(r) \notin mailbox'
        /\ \A k \in Results : Result(r, k) \notin mailbox'
        /\ \A why \in Reasons : Down(r, why) \notin mailbox'
    BY <1>4, <2>1 DEF StartCallback
  <2> QED
    BY <2>1, <2>2 DEF Reasons
<1>5. ASSUME NEW a \in Answers, Reply(r, a), replies[r] = << >>
      PROVE  replies'[r] = <<a>>
  BY <1>5, ReplyAppends
<1>6. CASE RefuseCallback(r)
  <2>1. replies'[r] = <<"unavailable">>
    BY <1>6, <1>5 DEF RefuseCallback, Answers
  <2> QED
    BY <1>6, <2>1, MessageFields DEF RefuseCallback
<1>7. CASE AnswerAtOnce(r)
  <2>1. replies'[r] = <<"immediate">>
    BY <1>7, <1>5 DEF AnswerAtOnce, Answers
  <2> QED
    BY <1>7, <2>1, MessageFields DEF AnswerAtOnce
<1> QED
  BY <1>1, <1>2, <1>3, <1>4, <1>6, <1>7 DEF HandleCall

\* The handlers of results, cancels and :DOWN messages (client.ex:1077, 2069, 2687).
LEMMA AnswerSteps ==
  ASSUME TypeOK, NEW r \in Requests, RequestInv(r),
         \/ \E k \in Results : HandleResult(r, k)
         \/ HandleCancel(r)
         \/ \E why \in Reasons : HandleDown(r, why)
  PROVE  RequestInv(r)'
<1> USE DEF TypeOK, RequestInv, CallIsFirst, Fresh, CallerIsWaiting, EntryIsOpen,
            AnsweredAtMostOnce, CancelledOnly, MessagesAreTrue, NewsOfEnd, TaskIsTracked
<1>1. ASSUME NEW a \in Answers, Reply(r, a), replies[r] = << >>
      PROVE  replies'[r] = <<a>>
  BY <1>1, ReplyAppends
<1>2. ASSUME NEW k \in Results, HandleResult(r, k)
      PROVE  RequestInv(r)'
  <2>1. CASE r \in pending_callbacks
    <3>1. replies'[r] = <<k>>
      BY <1>2, <2>1, <1>1 DEF HandleResult, Answers, Results
    <3> QED
      BY <1>2, <2>1, <3>1, MessageFields, FlushRemovesDown DEF HandleResult
  <2>2. CASE r \notin pending_callbacks
    BY <1>2, <2>2, MessageFields DEF HandleResult
  <2> QED
    BY <2>1, <2>2
<1>3. CASE HandleCancel(r)
  <2>1. CASE r \in pending_callbacks
    <3>1. replies'[r] = <<"cancelled">>
      BY <1>3, <2>1, <1>1 DEF HandleCancel, Answers
    <3> QED
      BY <1>3, <2>1, <3>1, MessageFields, FlushRemovesDown DEF HandleCancel
  <2>2. CASE r \notin pending_callbacks
    BY <1>3, <2>2, MessageFields DEF HandleCancel
  <2> QED
    BY <2>1, <2>2
<1>4. ASSUME NEW why \in Reasons, HandleDown(r, why)
      PROVE  RequestInv(r)'
  <2>1. CASE r \in pending_callbacks /\ why = "crash"
    <3>1. replies'[r] = <<"crashed">>
      BY <1>4, <2>1, <1>1 DEF HandleDown, Answers
    <3> QED
      BY <1>4, <2>1, <3>1, MessageFields DEF HandleDown
  <2>2. CASE r \in pending_callbacks /\ why = "shutdown"
    BY <1>4, <2>2, MessageFields DEF HandleDown
  <2>3. CASE r \in pending_callbacks /\ why = "normal"
    BY <1>4, <2>3, MessageFields DEF HandleDown
  <2>4. CASE r \notin pending_callbacks
    BY <1>4, <2>4, MessageFields DEF HandleDown
  <2> QED
    BY <2>1, <2>2, <2>3, <2>4 DEF Reasons
<1> QED
  BY <1>2, <1>3, <1>4

\* The callback task itself (client.ex:2413-2470).
LEMMA TaskSteps ==
  ASSUME TypeOK, NEW r \in Requests, RequestInv(r), Task(r)
  PROVE  RequestInv(r)'
<1> USE DEF TypeOK, RequestInv, CallIsFirst, Fresh, CallerIsWaiting, EntryIsOpen,
            AnsweredAtMostOnce, CancelledOnly, MessagesAreTrue, NewsOfEnd, TaskIsTracked
<1>1. CASE TaskReport(r)
  BY <1>1, MessageFields DEF TaskReport, TaskStates
<1>2. CASE TaskReturn(r)
  BY <1>2, MessageFields DEF TaskReturn, DownOf, TaskStates
<1>3. ASSUME NEW why \in {"shutdown", "crash"}, TaskCrash(r, why)
      PROVE  RequestInv(r)'
  <2>1. CASE client = "running"
    BY <1>3, <2>1, MessageFields DEF TaskCrash, DownOf, TaskStates, Reasons
  <2>2. CASE client # "running"
    BY <1>3, <2>2, MessageFields DEF TaskCrash, DownOf, TaskStates, Reasons
  <2> QED
    BY <2>1, <2>2
<1>4. CASE TaskKilled(r)
  BY <1>4 DEF TaskKilled, TaskStates
<1> QED
  BY <1>1, <1>2, <1>3, <1>4 DEF Task
-----------------------------------------------------------------------------
\* The client starts with no request known (do_init, client.ex:695).
LEMMA InitInv == Init => IInv
  BY DEF Init, IInv, TypeOK, TaskStates, RequestInv, CallIsFirst, Fresh, CallerIsWaiting,
         EntryIsOpen, AnsweredAtMostOnce, CancelledOnly, MessagesAreTrue, NewsOfEnd,
         TaskIsTracked

\* Every step of every actor keeps the invariant.
LEMMA StepInv == IInv /\ [Next]_vars => IInv'
<1> SUFFICES ASSUME IInv, [Next]_vars
             PROVE  \A s \in Requests : RequestInv(s)'
  BY TypeStep DEF IInv
<1> TAKE s \in Requests
<1>1. TypeOK /\ RequestInv(s)
  BY DEF IInv
<1>2. ASSUME NEW r \in Requests,
             \/ ReceivePeerRequest(r) \/ PeerCall(r) \/ CliCancel(r)
             \/ Handle(r)
             \/ Task(r)
      PROVE  RequestInv(s)'
  <2>1. CASE s # r
    <3>1. Frame(s)
      BY <1>1, <1>2, <2>1, StepsAreLocal
    <3> QED
      BY <1>1, <3>1, FrameKeeps
  <2>2. CASE s = r
    BY <1>1, <1>2, <2>2, CallSteps, AnswerSteps, TaskSteps DEF Handle
  <2> QED
    BY <2>1, <2>2
<1>3. CASE StopClient
  BY <1>1, <1>3 DEF StopClient, RequestInv, CallIsFirst, Fresh, CallerIsWaiting, EntryIsOpen,
     AnsweredAtMostOnce, CancelledOnly, MessagesAreTrue, NewsOfEnd, TaskIsTracked
<1>4. CASE ExitSignal
  BY <1>1, <1>4 DEF ExitSignal, RequestInv, CallIsFirst, Fresh, CallerIsWaiting, EntryIsOpen,
     AnsweredAtMostOnce, CancelledOnly, MessagesAreTrue, NewsOfEnd, TaskIsTracked
<1>5. CASE UNCHANGED vars
  <2>1. Frame(s)
    BY <1>5 DEF vars, Frame
  <2> QED
    BY <1>1, <2>1, FrameKeeps
<1> QED
  BY <1>2, <1>3, <1>4, <1>5 DEF Next

\* The invariant holds in every reachable state, for every set of requests.
THEOREM Invariance == Spec => []IInv
<1> QED
  BY InitInv, StepInv, PTL DEF Spec

\* The state never loses the shape of the Client struct (client.ex:101-131).
THEOREM TypeCorrect == Spec => []TypeOK
<1>1. IInv => TypeOK
  BY DEF IInv
<1> QED
  BY <1>1, Invariance, PTL

\* A cancelled request is told "cancelled" and nothing else, whatever its task had
\* already sent (client.ex:2069-2084).
THEOREM CancelHolds == Spec => []CancelIsFinal
<1>1. IInv => CancelIsFinal
  BY DEF IInv, TypeOK, RequestInv, CancelledOnly, CancelIsFinal
<1> QED
  BY <1>1, Invariance, PTL

\* pending_callbacks cannot leak an entry (client.ex:1077, 1924, 2647).
THEOREM EntriesResolve == Spec => []NoStuckEntry
<1>1. IInv => NoStuckEntry
  BY DEF IInv, TypeOK, RequestInv, NewsOfEnd, NoStuckEntry
<1> QED
  BY <1>1, Invariance, PTL

\* An orderly stop reaches every callback still running (client.ex:2662).
THEOREM StopHolds == Spec => []StopReachesTasks
<1>1. IInv => StopReachesTasks
  BY DEF IInv, RequestInv, TaskIsTracked, EntryIsOpen, StopReachesTasks
<1> QED
  BY <1>1, Invariance, PTL
-----------------------------------------------------------------------------
(***************************************************************************)
(* ClientCallbacks implements DeferredReply.                               *)
(***************************************************************************)

\* What a step may do to a caller: tell it nothing, let it start to wait, or give a
\* waiting caller its first answer.
Told(s) ==
  \/ replies'[s] = replies[s] /\ (peer[s] = "calling" => peer'[s] = "calling")
  \/ /\ replies[s] = << >> /\ peer[s] = "calling"
     /\ \E a \in Answers : replies'[s] = <<a>>

\* Every step is of that kind (all the GenServer.reply/2 calls of client.ex:1077-1136,
\* 2069-2084, 2319-2410, 2465 and 2708).
LEMMA OneAnswerAStep ==
  ASSUME IInv, [Next]_vars, NEW s \in Requests
  PROVE  Told(s)
<1>1. TypeOK /\ RequestInv(s)
  BY DEF IInv
<1>2. s \in pending_callbacks \/ Call(s) \in mailbox => replies[s] = << >> /\ peer[s] = "calling"
  BY <1>1 DEF RequestInv, CallIsFirst, Fresh, CallerIsWaiting, EntryIsOpen
<1>3. ASSUME NEW a \in Answers, Reply(s, a), replies[s] = << >>, peer[s] = "calling"
      PROVE  Told(s)
  BY <1>1, <1>3, ReplyAppends DEF TypeOK, Told
<1>4. ASSUME NEW r \in Requests, s # r,
             \/ ReceivePeerRequest(r) \/ PeerCall(r) \/ CliCancel(r)
             \/ Handle(r) \/ Task(r)
      PROVE  Told(s)
  BY <1>1, <1>4, StepsAreLocal DEF Frame, Told
<1>5. CASE ReceivePeerRequest(s) \/ PeerCall(s) \/ CliCancel(s) \/ Task(s)
  BY <1>1, <1>5 DEF TypeOK, Told, ReceivePeerRequest, PeerCall, CliCancel,
                   Task, TaskReport, TaskReturn, TaskCrash, TaskKilled
<1>6. CASE HandleCall(s)
  BY <1>2, <1>3, <1>6
  DEF HandleCall, StartCallback, RefuseCallback, AnswerAtOnce, Answers, Told
<1>7. ASSUME NEW k \in Results, HandleResult(s, k)
      PROVE  Told(s)
  BY <1>2, <1>3, <1>7 DEF HandleResult, Results, Answers, Told
<1>8. CASE HandleCancel(s)
  BY <1>2, <1>3, <1>8 DEF HandleCancel, Answers, Told
<1>9. ASSUME NEW why \in Reasons, HandleDown(s, why)
      PROVE  Told(s)
  BY <1>2, <1>3, <1>9 DEF HandleDown, Answers, Told
<1>10. CASE StopClient \/ ExitSignal \/ UNCHANGED vars
  BY <1>10 DEF StopClient, ExitSignal, vars, Told
<1> QED
  BY <1>4, <1>5, <1>6, <1>7, <1>8, <1>9, <1>10 DEF Next, Handle

\* Answers given at most once, and given, are exactly one answer.
LEMMA SingleAnswer ==
  \A q \in Seq(Answers) : q # << >> /\ Len(q) <= 1 => Len(q) = 1 /\ q[1] \in Answers
<1> TAKE q \in Seq(Answers)
<1>1. q # << >> => Len(q) \in Nat \ {0}
  BY EmptySeq, Zenon
<1>2. Len(q) = 1 => q[1] \in Answers
  OBVIOUS
<1> QED
  BY <1>1, <1>2

\* What the caller sees of such a step is a move of DeferredReply.
LEMMA StatusMoves ==
  ASSUME IInv, [Next]_vars, NEW s \in Requests
  PROVE  /\ CallStatus(s)' \in Deferred!Status
         /\ Deferred!Moves(CallStatus(s), CallStatus(s)')
<1>1. IInv'
  BY StepInv
<1>2. /\ TypeOK /\ AnsweredAtMostOnce(s)
      /\ TypeOK' /\ AnsweredAtMostOnce(s)'
  BY <1>1 DEF IInv, RequestInv
<1>3. replies'[s] # << >> => replies'[s][1] \in Answers /\ Len(replies'[s]) = 1
  BY <1>2, SingleAnswer DEF TypeOK, AnsweredAtMostOnce
<1>4. CallStatus(s)' \in Deferred!Status
  BY <1>3 DEF CallStatus, Deferred!Status
<1>5. ASSUME replies'[s] = replies[s], peer[s] = "calling" => peer'[s] = "calling"
      PROVE  Deferred!Moves(CallStatus(s), CallStatus(s)')
  BY <1>5 DEF CallStatus, Deferred!Moves
<1>6. ASSUME replies[s] = << >>, peer[s] = "calling",
             NEW a \in Answers, replies'[s] = <<a>>
      PROVE  Deferred!Moves(CallStatus(s), CallStatus(s)')
  <2>1. CallStatus(s) = "waiting" /\ CallStatus(s)' = a
    BY <1>6 DEF CallStatus
  <2> QED
    BY <2>1 DEF Deferred!Moves
<1> QED
  BY <1>4, <1>5, <1>6, OneAnswerAStep DEF Told

\* The peer requests of client.ex are deferred replies: at most one answer each, given
\* to a caller that asked, and never taken back.
THEOREM Refinement == Spec => RepliesAreDeferred
<1>1. Init => Deferred!Init
  BY DEF Init, Deferred!Init, CallStatus
<1>2. IInv /\ [Next]_vars => [Deferred!Next]_([r \in Requests |-> CallStatus(r)])
  BY StatusMoves DEF Deferred!Next
<1> QED
  BY <1>1, <1>2, Invariance, PTL DEF Spec, RepliesAreDeferred, Deferred!Spec
==============================================================================
