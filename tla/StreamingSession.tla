-------------------------- MODULE StreamingSession --------------------------
(***************************************************************************)
(* ClaudeAgentSDK.Streaming.Session (lib/claude_agent_sdk/streaming/       *)
(* session.ex): one CLI conversation shared by the callers of              *)
(* send_message/2.  Each call subscribes, casts its message and returns a  *)
(* stream; the session sends one message at a time, queues the others, and *)
(* takes the next when Termination says that the turn is over.             *)
(*                                                                         *)
(* Processes: the session, the consumers of the streams, and the CLI       *)
(* (external), which answers the messages it was sent one after another.   *)
(* Messages of one consumer reach the session in order (box); those of     *)
(* different consumers in any order.                                       *)
(***************************************************************************)
EXTENDS Naturals, Sequences

CONSTANTS
  Calls,      \* calls of send_message/2, each with the ref it makes
  MaxRounds,  \* bound: tool rounds of one turn
  Nil

ASSUME StreamingAssumption == Nil \notin Calls /\ MaxRounds \in Nat

VARIABLES
  session,            \* "up" or "down"
  subscribers,        \* keys of the map
  subscriber_queue,
  active_subscriber,
  stop_reason,        \* "none", "tool_use" or "end_turn"
  caller,             \* of each call: "idle", "subscribed", "reading", "left"
  box,                \* casts and :DOWN of each caller, not yet handled
  view,               \* what its stream has made of the events: its stop reason and end
  cli,                \* messages the CLI was sent and has not answered, oldest first
  stage,              \* of the turn at the head: its last event, or "idle"
  rounds,             \* tool rounds of that turn so far
  answered,           \* calls whose turn the CLI has finished (history)
  early               \* whether a consumer has left before its turn ended (history)

sessionVars == <<session, subscribers, subscriber_queue, active_subscriber, stop_reason>>
cliVars     == <<cli, stage, rounds, answered>>
vars        == <<sessionVars, caller, box, view, cliVars, early>>

\* The events Termination looks at; the others are passed on and change nothing.
Events == {"message_start", "tool_use", "end_turn", "message_stop"}

\* Termination.step: the stop reason of the message, and whether the turn is over.
NextReason(event, reason) ==
  CASE event = "message_start"          -> "none"
    [] event \in {"tool_use", "end_turn"} -> event
    [] event = "message_stop"           -> reason

Entries(s) == {s[i] : i \in DOMAIN s}

\* Mutant: every message_stop ends the turn.
CompletesAtAnyStop(event, reason) == event = "message_stop"

Completes(event, reason) == event = "message_stop" /\ NextReason(event, reason) # "tool_use"

\* The stream of send_message/2 applies Termination.step itself; it has ended with the
\* turn, with {:stream_error, ..}, with {:stream_complete, ..}, because its reader left, or not
\* yet ("no").
Ends(v, how) == IF v.ended = "no" THEN [reason |-> "none", ended |-> how] ELSE v

Sees(v, event) ==
  IF v.ended = "no" /\ Completes(event, v.reason)
  THEN Ends(v, "turn")
  ELSE [v EXCEPT !.reason = IF v.ended = "no" THEN NextReason(event, v.reason) ELSE @]

-----------------------------------------------------------------------------
(***************************************************************************)
(* Choosing the next message.                                              *)
(***************************************************************************)

\* Mutant: the streams of the messages that could not be sent are not told.
TakeNextSilently(queue, views, open) ==
  \E n \in 0 .. Len(queue) :
    LET next == IF n < Len(queue) THEN queue[n + 1] ELSE Nil
    IN  /\ active_subscriber' = next
        /\ subscriber_queue' = SubSeq(queue, n + 2, Len(queue))
        /\ view' = views
        /\ cli' = IF next = Nil THEN open ELSE Append(open, next)

\* handle_message_complete and promote_subscriber_after_drop: the next entry becomes
\* active and is sent; while sending fails its stream is told and the next is tried.
\* The CLI has the turns `open' before it.
TakeNext(queue, views, open) ==
  \E n \in 0 .. Len(queue) :
    LET failed == {queue[i] : i \in 1 .. n}
        next   == IF n < Len(queue) THEN queue[n + 1] ELSE Nil
    IN  /\ active_subscriber' = next
        /\ subscriber_queue' = SubSeq(queue, n + 2, Len(queue))
        /\ view' = [r \in Calls |-> IF r \in failed THEN Ends(views[r], "error") ELSE views[r]]
        /\ cli' = IF next = Nil THEN open ELSE Append(open, next)

-----------------------------------------------------------------------------
(***************************************************************************)
(* The callers, while the session is up: afterwards their messages reach   *)
(* nobody.                                                                 *)
(***************************************************************************)

\* handle_call({:subscribe, ref, pid}): the first subscriber becomes active.
Subscribe(r) ==
  /\ session = "up"
  /\ caller[r] = "idle"
  /\ caller' = [caller EXCEPT ![r] = "subscribed"]
  /\ subscribers' = subscribers \cup {r}
  /\ active_subscriber' = IF active_subscriber = Nil THEN r ELSE active_subscriber
  /\ UNCHANGED <<session, subscriber_queue, stop_reason, box, view, cliVars, early>>

\* The caller's cast {:send_message, message, ref}, a second message to the session.
CastMessage(r) ==
  /\ session = "up"
  /\ caller[r] = "subscribed"
  /\ caller' = [caller EXCEPT ![r] = "reading"]
  /\ box' = [box EXCEPT ![r] = Append(@, "send_message")]
  /\ UNCHANGED <<sessionVars, view, cliVars, early>>

\* The stream is over and its after function unsubscribes.
StreamEnds(r) ==
  /\ session = "up"
  /\ caller[r] = "reading"
  /\ view[r].ended # "no"
  /\ caller' = [caller EXCEPT ![r] = "left"]
  /\ box' = [box EXCEPT ![r] = Append(@, "unsubscribe")]
  /\ UNCHANGED <<sessionVars, view, cliVars, early>>

\* The consumer halts its stream, or its timeout ends it.
Halt(r) ==
  /\ session = "up"
  /\ caller[r] = "reading"
  /\ view[r].ended = "no"
  /\ caller' = [caller EXCEPT ![r] = "left"]
  /\ box' = [box EXCEPT ![r] = Append(@, "unsubscribe")]
  /\ view' = [view EXCEPT ![r] = Ends(@, "left")]
  /\ early' = TRUE
  /\ UNCHANGED <<sessionVars, cliVars>>

\* The consumer exits: the session's monitor reports it.
Exit(r) ==
  /\ session = "up"
  /\ caller[r] \in {"subscribed", "reading"}
  /\ caller' = [caller EXCEPT ![r] = "left"]
  /\ box' = [box EXCEPT ![r] = Append(@, "DOWN")]
  /\ view' = [view EXCEPT ![r] = Ends(@, "left")]
  /\ early' = TRUE
  /\ UNCHANGED <<sessionVars, cliVars>>

-----------------------------------------------------------------------------
(***************************************************************************)
(* Handlers of the session.                                                *)
(***************************************************************************)

Takes(r, message) ==
  /\ session = "up"
  /\ box[r] # << >>
  /\ Head(box[r]) = message
  /\ box' = [box EXCEPT ![r] = Tail(@)]

\* Mutant: sends at once, whoever is active.
HandleSendAtOnce(r) ==
  /\ Takes(r, "send_message")
  /\ cli' = Append(cli, r)
  /\ UNCHANGED <<session, subscribers, subscriber_queue, active_subscriber, stop_reason,
                 caller, view, stage, rounds, answered, early>>

\* handle_cast({:send_message, ..}): sent if it is the active one, queued if not.
HandleSend(r) ==
  /\ Takes(r, "send_message")
  /\ \/ /\ active_subscriber = r
        /\ cli' = Append(cli, r)
        /\ UNCHANGED <<subscriber_queue, active_subscriber, view, stop_reason>>
     \/ /\ active_subscriber = r        \* dispatch_message returned {:error, reason}
        /\ stop_reason' = "none"
        /\ TakeNext(subscriber_queue, [view EXCEPT ![r] = Ends(@, "error")], cli)
     \/ /\ active_subscriber # r
        /\ subscriber_queue' = Append(subscriber_queue, r)
        /\ UNCHANGED <<active_subscriber, view, cli, stop_reason>>
  /\ UNCHANGED <<session, subscribers, caller, stage, rounds, answered, early>>

\* drop_subscriber: forget the subscriber and its queued message.
Forget(r) ==
  /\ subscribers' = subscribers \ {r}
  /\ UNCHANGED <<session, caller, stage, rounds, answered, early>>

\* Mutant: leaves the queued message of the subscriber that is gone.
Everybody(r) == subscriber_queue

\* Enum.reject of the queue (a message is queued once: ReferencesLive).
Others(r) ==
  IF r \in Entries(subscriber_queue)
  THEN LET i == CHOOSE i \in DOMAIN subscriber_queue : subscriber_queue[i] = r
       IN  SubSeq(subscriber_queue, 1, i - 1)
             \o SubSeq(subscriber_queue, i + 1, Len(subscriber_queue))
  ELSE subscriber_queue

\* handle_cast({:unsubscribe, ref}) promotes nobody, even when the active one leaves.
HandleUnsubscribe(r) ==
  /\ Takes(r, "unsubscribe")
  /\ Forget(r)
  /\ subscriber_queue' = Others(r)
  /\ active_subscriber' = IF active_subscriber = r THEN Nil ELSE active_subscriber
  /\ UNCHANGED <<stop_reason, view, cli>>

\* {:DOWN, ..} of a subscriber does; the stop reason is reset only by way of
\* handle_message_complete, when the message of the one promoted cannot be sent.
HandleDown(r) ==
  /\ Takes(r, "DOWN")
  /\ Forget(r)
  /\ \/ /\ active_subscriber = r
        /\ TakeNext(Others(r), view, cli)
        /\ stop_reason' = IF Others(r) = << >> \/ active_subscriber' = Head(Others(r))
                          THEN stop_reason ELSE "none"
     \/ /\ active_subscriber # r
        /\ subscriber_queue' = Others(r)
        /\ UNCHANGED <<active_subscriber, stop_reason, view, cli>>

\* The CLI's next event of the turn it is at.
Emits(event) ==
  /\ cli # << >>
  /\ CASE event = "message_start" -> stage = "idle"
       [] event = "tool_use"      -> stage = "message_start" /\ rounds < MaxRounds
       [] event = "end_turn"      -> stage = "message_start"
       [] event = "message_stop"  -> stage \in {"tool_use", "end_turn"}
  /\ stage' = IF event = "message_stop" THEN "idle" ELSE event
  /\ IF event = "message_stop" /\ stage = "end_turn"
     THEN rounds' = 0 /\ answered' = answered \cup {Head(cli)}
     ELSE /\ rounds' = IF event = "tool_use" THEN rounds + 1 ELSE rounds
          /\ UNCHANGED answered

\* {:event, core_event}: passed to the active subscriber, whosever turn it is; when
\* Termination sees the end of a turn the next message is taken.
HandleEvent(event) ==
  LET views == IF active_subscriber \in subscribers
               THEN [view EXCEPT ![active_subscriber] = Sees(@, event)]
               ELSE view
      open  == IF event = "message_stop" /\ stage = "end_turn" THEN Tail(cli) ELSE cli
  IN  /\ session = "up"
      /\ Emits(event)
      /\ \/ /\ Completes(event, stop_reason)
            /\ stop_reason' = "none"
            /\ TakeNext(subscriber_queue, views, open)
         \/ /\ ~Completes(event, stop_reason)
            /\ stop_reason' = NextReason(event, stop_reason)
            /\ view' = views
            /\ cli' = open
            /\ UNCHANGED <<subscriber_queue, active_subscriber>>
      /\ UNCHANGED <<session, subscribers, caller, box, early>>

\* :DOWN of the runtime session: a normal exit completes every stream; after another
\* one, or close/1, the streams are left to their timeouts.  The mailbox goes with it.
RuntimeDown ==
  /\ session = "up"
  /\ session' = "down"
  /\ \/ view' = [r \in Calls |-> IF r \in subscribers THEN Ends(view[r], "completed")
                                                    ELSE view[r]]
     \/ view' = view
  /\ box' = [r \in Calls |-> << >>]
  /\ UNCHANGED <<subscribers, subscriber_queue, active_subscriber, stop_reason, caller,
                 cliVars, early>>

-----------------------------------------------------------------------------
Init ==
  /\ session = "up"
  /\ subscribers = {}
  /\ subscriber_queue = << >>
  /\ active_subscriber = Nil
  /\ stop_reason = "none"
  /\ caller = [r \in Calls |-> "idle"]
  /\ box = [r \in Calls |-> << >>]
  /\ view = [r \in Calls |-> [reason |-> "none", ended |-> "no"]]
  /\ cli = << >>
  /\ stage = "idle"
  /\ rounds = 0
  /\ answered = {}
  /\ early = FALSE

Handle(r) == HandleSend(r) \/ HandleUnsubscribe(r) \/ HandleDown(r)

Caller(r) == Subscribe(r) \/ CastMessage(r) \/ StreamEnds(r) \/ Halt(r) \/ Exit(r)

Next ==
  \/ \E r \in Calls : Caller(r) \/ Handle(r)
  \/ \E event \in Events : HandleEvent(event)
  \/ RuntimeDown

Spec == Init /\ [][Next]_vars

\* A caller that subscribed casts its message (or exits), the session serves its mailbox,
\* and the CLI answers what it is sent.
Fairness ==
  /\ \A r \in Calls : WF_vars(CastMessage(r)) /\ WF_vars(Handle(r))
  /\ WF_vars(\E event \in Events : HandleEvent(event))

FairSpec == Spec /\ Fairness

-----------------------------------------------------------------------------
(***************************************************************************)
(* Properties.                                                             *)
(***************************************************************************)

\* The state is of the shape of the Session struct (session.ex:27).
TypeOK ==
  /\ session \in {"up", "down"}
  /\ subscribers \subseteq Calls
  /\ subscriber_queue \in Seq(Calls)
  /\ active_subscriber \in Calls \cup {Nil}
  /\ stop_reason \in {"none", "tool_use", "end_turn"}
  /\ caller \in [Calls -> {"idle", "subscribed", "reading", "left"}]
  /\ box \in [Calls -> Seq({"send_message", "unsubscribe", "DOWN"})]
  /\ view \in [Calls -> [reason : {"none", "tool_use", "end_turn"},
                         ended : {"no", "turn", "error", "completed", "left"}]]
  /\ cli \in Seq(Calls)
  /\ stage \in {"idle", "message_start", "tool_use", "end_turn"}
  /\ rounds \in 0 .. MaxRounds
  /\ answered \subseteq Calls
  /\ early \in BOOLEAN

\* No reference outlives its subscription: the queue and the active subscriber only name
\* subscribers, a message is queued once, and never while its own turn is on, whatever
\* the order of casts, exits and completions (session.ex:184-198, 436-452, 487-533).
ReferencesLive ==
  /\ Entries(subscriber_queue) \cup ({active_subscriber} \ {Nil}) \subseteq subscribers
  /\ active_subscriber \notin Entries(subscriber_queue)
  /\ \A i, j \in DOMAIN subscriber_queue : subscriber_queue[i] = subscriber_queue[j] => i = j
  /\ \A i, j \in DOMAIN cli : cli[i] = cli[j] => i = j

\* As long as every consumer reads its stream to the end, the session and the CLI agree
\* on whose turn it is: one message at most is with the CLI, it is the active one's, and
\* both have seen the same stop reason of it.
TurnsAgree ==
  ~early =>
    /\ Len(cli) <= 1
    /\ cli # << >> => active_subscriber = Head(cli)
    /\ cli # << >> /\ stage # "idle" => stop_reason = IF stage = "message_start"
                                                     THEN "none" ELSE stage

\* streaming.ex: "The stream will automatically complete when the message is finished":
\* a stream that ends with the end of a turn ends with that of its own message.
OwnTurn == \A r \in Calls : view[r].ended = "turn" => r \in answered

\* It does while nobody leaves early.
OwnTurnIfPatient == ~early => OwnTurn

\* A queued message with no active subscriber and no open turn: it was cast after the
\* last turn ended to a session its caller had subscribed to before.
Stranded(r) == r \in Entries(subscriber_queue) /\ active_subscriber = Nil /\ cli = << >>

\* Leaving, crashing and failing to send never wedge the session: a stream that is read
\* ends, unless its message is stranded or the session goes down.
ReadersServed ==
  \A r \in Calls :
    caller[r] = "reading" ~> \/ caller[r] = "left"
                            \/ view[r].ended # "no"
                            \/ Stranded(r)
                            \/ session = "down"
==============================================================================
