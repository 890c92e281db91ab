----------------------- MODULE StreamingSession_proofs -----------------------
(***************************************************************************)
(* Theorems about StreamingSession, for every set of calls and any number  *)
(* of tool rounds.                                                         *)
(***************************************************************************)
EXTENDS StreamingSession, SequenceTheorems, TLAPS

-----------------------------------------------------------------------------
(***************************************************************************)
(* The inductive invariant.                                                *)
(***************************************************************************)

Distinct(s) == \A i, j \in DOMAIN s : s[i] = s[j] => i = j

\* What the mailbox may hold of a call at each stage of its caller.
Mail(stageOfCaller) ==
  CASE stageOfCaller \in {"idle", "subscribed"} -> {<< >>}
    [] stageOfCaller = "reading" -> {<< >>, <<"send_message">>}
    [] stageOfCaller = "left" ->
         {<< >>, <<"unsubscribe">>, <<"DOWN">>,
          <<"send_message", "unsubscribe">>, <<"send_message", "DOWN">>}

\* The message of r has not reached the session.
Unhandled(r) ==
  \/ caller[r] \in {"idle", "subscribed"}
  \/ box[r] # << >> /\ Head(box[r]) = "send_message"

\* A call is subscribed from handle_call until its farewell is handled.
SubscribedUntilHandled(r) ==
  r \in subscribers <=>
    \/ caller[r] \in {"subscribed", "reading"}
    \/ caller[r] = "left" /\ box[r] # << >>

\* A message is handled once: before that it is nowhere.
HandledOnce(r) ==
  /\ Unhandled(r) => r \notin Entries(subscriber_queue) \cup Entries(cli)
  /\ caller[r] = "idle" => r # active_subscriber

NoDown(b) == \A i \in DOMAIN b : b[i] # "DOWN"

\* While nobody has left early, a stream that is over has nothing open, and a consumer that
\* leaves had come to the end of its stream.
EndedIsClosed(r) ==
  ~early =>
    /\ view[r].ended # "no" => /\ r # active_subscriber
                               /\ r \notin Entries(subscriber_queue) \cup Entries(cli)
                               /\ ~Unhandled(r)
    /\ caller[r] = "left" => view[r].ended # "no"
    /\ NoDown(box[r])

CallInv(r) ==
  /\ box[r] \in Mail(caller[r])
  /\ SubscribedUntilHandled(r)
  /\ HandledOnce(r)
  /\ EndedIsClosed(r)

\* A message that waits in the queue is not with the CLI.
QueuedOrSent == Entries(subscriber_queue) \cap Entries(cli) = {}

\* The CLI is in the middle of a turn only if it has one.
StageHasTurn == cli = << >> => stage = "idle"

\* The active stream has seen what the session has seen.
ViewAgrees ==
  session = "up" /\ ~early /\ cli # << >> /\ stage # "idle" =>
    view[active_subscriber].reason = stop_reason

IInv ==
  /\ TypeOK
  /\ ReferencesLive
  /\ QueuedOrSent
  /\ StageHasTurn
  /\ TurnsAgree
  /\ ViewAgrees
  /\ OwnTurnIfPatient
  /\ session = "up" => \A r \in Calls : CallInv(r)

-----------------------------------------------------------------------------
(***************************************************************************)
(* The queue.                                                              *)
(***************************************************************************)

LEMMA AppendFresh ==
  ASSUME NEW M, NEW s \in Seq(M), NEW e \in M
  PROVE  /\ Append(s, e) \in Seq(M)
         /\ Entries(Append(s, e)) = Entries(s) \cup {e}
         /\ Distinct(s) /\ e \notin Entries(s) => Distinct(Append(s, e))
<1>1. /\ DOMAIN s = 1 .. Len(s)
      /\ DOMAIN Append(s, e) = 1 .. Len(s) + 1
      /\ \A i \in DOMAIN s : Append(s, e)[i] = s[i]
      /\ Append(s, e)[Len(s) + 1] = e
      /\ Len(s) \in Nat
  OBVIOUS
<1>2. \A i \in DOMAIN Append(s, e) : i \in DOMAIN s \/ i = Len(s) + 1
  BY <1>1
<1>3. DOMAIN s \subseteq DOMAIN Append(s, e) /\ Len(s) + 1 \in DOMAIN Append(s, e)
  BY <1>1
<1>4. Entries(Append(s, e)) = Entries(s) \cup {e}
  BY <1>1, <1>2, <1>3 DEF Entries
<1>5. ASSUME Distinct(s), e \notin Entries(s) PROVE Distinct(Append(s, e))
  <2> SUFFICES ASSUME NEW i \in DOMAIN Append(s, e), NEW j \in DOMAIN Append(s, e),
                      Append(s, e)[i] = Append(s, e)[j]
               PROVE  i = j
    BY DEF Distinct
  <2>1. \A k \in DOMAIN s : s[k] # e
    BY <1>5 DEF Entries
  <2> QED
    BY <1>1, <1>2, <1>5, <2>1 DEF Distinct
<1> QED
  BY <1>4, <1>5

\* What is left of a queue from its k-th entry on.
LEMMA Rest ==
  ASSUME NEW M, NEW s \in Seq(M), NEW k \in Nat \ {0}
  PROVE  /\ SubSeq(s, k, Len(s)) \in Seq(M)
         /\ \A j \in DOMAIN SubSeq(s, k, Len(s)) :
              k + j - 1 \in DOMAIN s /\ SubSeq(s, k, Len(s))[j] = s[k + j - 1]
         /\ Entries(SubSeq(s, k, Len(s))) = {s[i] : i \in k .. Len(s)}
         /\ Distinct(s) => Distinct(SubSeq(s, k, Len(s)))
<1> DEFINE t == SubSeq(s, k, Len(s))
<1>1. /\ t \in Seq(M)
      /\ DOMAIN t = 1 .. Len(t)
      /\ Len(t) = IF k <= Len(s) THEN Len(s) - k + 1 ELSE 0
      /\ \A j \in 1 .. Len(s) - k + 1 : t[j] = s[k + j - 1]
      /\ Len(s) \in Nat
      /\ DOMAIN s = 1 .. Len(s)
  OBVIOUS
<1> HIDE DEF t
<1>2. \A j \in DOMAIN t : k + j - 1 \in k .. Len(s) /\ k + j - 1 \in DOMAIN s /\ t[j] = s[k + j - 1]
  BY <1>1
<1>3. ASSUME NEW i \in k .. Len(s)
      PROVE  i - k + 1 \in DOMAIN t /\ t[i - k + 1] = s[i]
  <2>1. i - k + 1 \in 1 .. Len(s) - k + 1 /\ k + (i - k + 1) - 1 = i
    BY <1>1
  <2> QED
    BY <1>1, <2>1
<1>4. Entries(t) = {s[i] : i \in k .. Len(s)}
  BY <1>2, <1>3 DEF Entries
<1>5. Distinct(s) => Distinct(t)
  <2> SUFFICES ASSUME Distinct(s), NEW i \in DOMAIN t, NEW j \in DOMAIN t, t[i] = t[j]
               PROVE  i = j
    BY DEF Distinct
  <2>1. k + i - 1 = k + j - 1
    BY <1>2 DEF Distinct
  <2>2. i \in Int /\ j \in Int
    BY <1>1
  <2> QED
    BY <2>1, <2>2
<1> QED
  BY <1>1, <1>2, <1>4, <1>5 DEF t

\* drop_subscriber forgets the message of its subscriber and no other.
LEMMA OthersRemoves ==
  ASSUME NEW r \in Calls, subscriber_queue \in Seq(Calls), Distinct(subscriber_queue)
  PROVE  /\ Others(r) \in Seq(Calls)
         /\ Entries(Others(r)) = Entries(subscriber_queue) \ {r}
         /\ Distinct(Others(r))
<1> DEFINE s == subscriber_queue
<1>1. CASE r \notin Entries(s)
  BY <1>1 DEF Others
<1>2. CASE r \in Entries(s)
  <2> DEFINE k == CHOOSE i \in DOMAIN s : s[i] = r
             t == SubSeq(s, 1, k - 1) \o SubSeq(s, k + 1, Len(s))
  <2>1. k \in DOMAIN s /\ s[k] = r
    BY <1>2 DEF Entries
  <2>2. Others(r) = t
    BY <1>2 DEF Others
  <2>3. /\ k \in 1 .. Len(s) /\ Len(s) \in Nat /\ DOMAIN s = 1 .. Len(s)
    BY <2>1
  <2> HIDE DEF k
  <2>4. /\ SubSeq(s, 1, k - 1) \in Seq(Calls)
        /\ Len(SubSeq(s, 1, k - 1)) = k - 1
        /\ \A i \in 1 .. k - 1 : SubSeq(s, 1, k - 1)[i] = s[i]
    BY <2>3
  <2>5. /\ SubSeq(s, k + 1, Len(s)) \in Seq(Calls)
        /\ Len(SubSeq(s, k + 1, Len(s))) = Len(s) - k
        /\ \A i \in 1 .. Len(s) - k : SubSeq(s, k + 1, Len(s))[i] = s[k + i]
    <3> DEFINE u == SubSeq(s, k + 1, Len(s))
    <3>1. /\ u \in Seq(Calls)
          /\ \A j \in DOMAIN u : u[j] = s[k + 1 + j - 1]
      <4>1. k + 1 \in Nat \ {0} /\ s \in Seq(Calls)
        BY <2>3
      <4> QED
        BY ONLY <4>1, Rest
    <3>2. Len(u) = Len(s) - k /\ DOMAIN u = 1 .. Len(s) - k
      <4>1. k + 1 \in Int /\ Len(s) \in Int /\ \A i \in k + 1 .. Len(s) : s[i] \in Calls
        BY <2>3
      <4>2. Len(u) = IF k + 1 <= Len(s) THEN Len(s) - (k + 1) + 1 ELSE 0
        BY <4>1, SubSeqProperties
      <4> HIDE DEF u, s
      <4>3. Len(u) = Len(s) - k
        <5> DEFINE len == Len(s)
        <5>1. k \in 1 .. len /\ len \in Nat
          BY <2>3
        <5>2. Len(u) = IF k + 1 <= len THEN len - (k + 1) + 1 ELSE 0
          BY <4>2
        <5> HIDE DEF len
        <5>3. Len(u) = len - k
          BY <5>1, <5>2
        <5> QED
          BY <5>3 DEF len
      <4>4. DOMAIN u = 1 .. Len(u)
        BY <3>1
      <4> QED
        BY <4>3, <4>4
    <3> HIDE DEF u
    <3>3. \A j \in DOMAIN u : k + 1 + j - 1 = k + j
      BY <2>3, <3>2
    <3> QED
      BY <3>1, <3>2, <3>3 DEF u
  <2>6. /\ t \in Seq(Calls)
        /\ DOMAIN t = 1 .. Len(s) - 1
        /\ \A i \in 1 .. Len(s) - 1 : t[i] = IF i < k THEN s[i] ELSE s[i + 1]
    <3> DEFINE front == SubSeq(s, 1, k - 1)
               back  == SubSeq(s, k + 1, Len(s))
    <3>1. t = front \o back
      OBVIOUS
    <3> HIDE DEF t, s, front, back
    <3>2. /\ t \in Seq(Calls)
          /\ DOMAIN t = 1 .. (k - 1) + (Len(s) - k)
          /\ \A i \in DOMAIN t : t[i] = IF i <= k - 1 THEN front[i] ELSE back[i - (k - 1)]
      <4>1. /\ front \in Seq(Calls) /\ Len(front) = k - 1
            /\ back \in Seq(Calls) /\ Len(back) = Len(s) - k
        BY <2>4, <2>5 DEF front, back
      <4>2. /\ t \in Seq(Calls)
            /\ Len(t) = Len(front) + Len(back)
            /\ \A i \in 1 .. Len(front) + Len(back) :
                 t[i] = IF i <= Len(front) THEN front[i] ELSE back[i - Len(front)]
        BY <3>1, <4>1, ConcatProperties
      <4>3. DOMAIN t = 1 .. Len(t)
        BY <4>2
      <4> QED
        BY <4>1, <4>2, <4>3
    <3>3. (k - 1) + (Len(s) - k) = Len(s) - 1
      BY <2>3
    <3>4. ASSUME NEW i \in 1 .. Len(s) - 1
          PROVE  t[i] = IF i < k THEN s[i] ELSE s[i + 1]
      <4>1. i < k => i \in 1 .. k - 1
        BY <2>3
      <4>2. ~(i < k) => i - (k - 1) \in 1 .. Len(s) - k /\ k + (i - (k - 1)) = i + 1
        BY <2>3
      <4>3. i <= k - 1 <=> i < k
        BY <2>3
      <4> QED
        BY <2>4, <2>5, <3>2, <3>3, <4>1, <4>2, <4>3 DEF front, back
    <3> QED
      BY <3>2, <3>3, <3>4
  <2> HIDE DEF t, s
  <2>7. \A i \in DOMAIN s : s[i] = r => i = k
    BY <2>1 DEF Distinct, s
  <2>8. Entries(t) \subseteq Entries(s) \ {r}
    <3> SUFFICES ASSUME NEW i \in 1 .. Len(s) - 1
                 PROVE  t[i] \in Entries(s) /\ t[i] # r
      BY <2>6 DEF Entries
    <3>1. i \in DOMAIN s /\ i + 1 \in DOMAIN s
      BY <2>3
    <3>2. i < k => i # k
      BY <2>3
    <3>3. ~(i < k) => i + 1 # k
      BY <2>3
    <3> QED
      BY <2>6, <2>7, <3>1, <3>2, <3>3 DEF Entries
  <2>9. Entries(s) \ {r} \subseteq Entries(t)
    <3> SUFFICES ASSUME NEW i \in DOMAIN s, s[i] # r PROVE s[i] \in Entries(t)
      BY DEF Entries
    <3>1. i # k
      BY <2>1
    <3>2. CASE i < k
      <4>1. i \in DOMAIN t /\ t[i] = s[i]
        BY <2>3, <2>6, <3>2
      <4> QED
        BY <4>1 DEF Entries
    <3>3. CASE i > k
      <4>1. i - 1 \in DOMAIN t /\ t[i - 1] = s[i]
        BY <2>3, <2>6, <3>3
      <4> QED
        BY <4>1 DEF Entries
    <3> QED
      BY <2>3, <3>1, <3>2, <3>3
  <2>10. Distinct(t)
    <3> SUFFICES ASSUME NEW i \in 1 .. Len(s) - 1, NEW j \in 1 .. Len(s) - 1, t[i] = t[j]
                 PROVE  i = j
      BY <2>6 DEF Distinct
    <3>1. i \in DOMAIN s /\ i + 1 \in DOMAIN s /\ j \in DOMAIN s /\ j + 1 \in DOMAIN s
      BY <2>3
    <3>2. \A a, b \in DOMAIN s : s[a] = s[b] => a = b
      BY DEF Distinct, s
    <3> QED
      BY <2>3, <2>6, <3>1, <3>2
  <2> QED
    BY <2>2, <2>6, <2>8, <2>9, <2>10 DEF s
<1> QED
  BY <1>1, <1>2

Views == [reason : {"none", "tool_use", "end_turn"},
          ended : {"no", "turn", "error", "completed", "left"}]

LEMMA EndsEnds ==
  ASSUME NEW v \in Views, NEW how \in {"error", "completed", "left", "turn"}
  PROVE  /\ Ends(v, how) \in Views
         /\ Ends(v, how).ended # "no"
         /\ Ends(v, how).ended \in {v.ended, how}
         /\ v.ended # "no" => Ends(v, how) = v
  BY DEF Ends, Views

LEMMA SeesEnds ==
  ASSUME NEW v \in Views, NEW event \in Events
  PROVE  /\ Sees(v, event) \in Views
         /\ v.ended # "no" => Sees(v, event) = v
         /\ v.ended = "no" =>
              IF Completes(event, v.reason)
              THEN Sees(v, event).ended = "turn"
              ELSE Sees(v, event) = [reason |-> NextReason(event, v.reason), ended |-> "no"]
<1>1. NextReason(event, v.reason) \in {"none", "tool_use", "end_turn"}
  BY DEF NextReason, Views, Events
<1>2. CASE v.ended = "no" /\ Completes(event, v.reason)
  BY <1>2 DEF Sees, Ends, Views
<1>3. CASE v.ended = "no" /\ ~Completes(event, v.reason)
  BY <1>1, <1>3 DEF Sees, Views
<1>4. CASE v.ended # "no"
  BY <1>4 DEF Sees, Views
<1> QED
  BY <1>2, <1>3, <1>4

\* However many sends fail before one succeeds: the message taken was first in the queue
\* but for those that failed, the queue keeps the others, only the streams of those that
\* failed are told, and the CLI is sent that one message.
LEMMA TakeNextTakes ==
  ASSUME NEW queue \in Seq(Calls), Distinct(queue),
         NEW views \in [Calls -> Views],
         NEW open \in Seq(Calls),
         TakeNext(queue, views, open)
  PROVE  /\ active_subscriber' \in Entries(queue) \cup {Nil}
         /\ subscriber_queue' \in Seq(Calls)
         /\ Distinct(subscriber_queue')
         /\ Entries(subscriber_queue') \subseteq Entries(queue)
         /\ active_subscriber' \notin Entries(subscriber_queue')
         /\ view' \in [Calls -> Views]
         /\ \A r \in Calls :
              \/ view'[r] = views[r]
              \/ /\ view'[r] = Ends(views[r], "error")
                 /\ r \in Entries(queue)
                 /\ r \notin Entries(subscriber_queue')
                 /\ r # active_subscriber'
         /\ cli' = IF active_subscriber' = Nil THEN open ELSE Append(open, active_subscriber')
<1>1. PICK n \in 0 .. Len(queue) :
        LET failed == {queue[i] : i \in 1 .. n}
            next   == IF n < Len(queue) THEN queue[n + 1] ELSE Nil
        IN  /\ active_subscriber' = next
            /\ subscriber_queue' = SubSeq(queue, n + 2, Len(queue))
            /\ view' = [r \in Calls |-> IF r \in failed THEN Ends(views[r], "error") ELSE views[r]]
            /\ cli' = IF next = Nil THEN open ELSE Append(open, next)
  BY DEF TakeNext
<1> DEFINE failed == {queue[i] : i \in 1 .. n}
           next   == IF n < Len(queue) THEN queue[n + 1] ELSE Nil
<1>2. /\ active_subscriber' = next
      /\ subscriber_queue' = SubSeq(queue, n + 2, Len(queue))
      /\ view' = [r \in Calls |-> IF r \in failed THEN Ends(views[r], "error") ELSE views[r]]
      /\ cli' = IF next = Nil THEN open ELSE Append(open, next)
  BY <1>1
<1>3. /\ Len(queue) \in Nat /\ DOMAIN queue = 1 .. Len(queue)
      /\ n \in Nat /\ n + 2 \in Nat \ {0}
  OBVIOUS
<1>4. /\ subscriber_queue' \in Seq(Calls)
      /\ Entries(subscriber_queue') = {queue[i] : i \in n + 2 .. Len(queue)}
      /\ Distinct(subscriber_queue')
  BY <1>2, <1>3, Rest
<1>5. \A i, j \in DOMAIN queue : queue[i] = queue[j] => i = j
  BY DEF Distinct
<1>6. failed \subseteq Entries(queue) /\ Entries(subscriber_queue') \subseteq Entries(queue)
  <2>1. 1 .. n \subseteq DOMAIN queue /\ n + 2 .. Len(queue) \subseteq DOMAIN queue
    BY <1>3
  <2> QED
    BY <1>4, <2>1 DEF Entries
<1>7. failed \cap Entries(subscriber_queue') = {}
  <2>1. \A i \in 1 .. n, j \in n + 2 .. Len(queue) :
          i \in DOMAIN queue /\ j \in DOMAIN queue /\ i # j
    BY <1>3
  <2>2. \A i \in 1 .. n, j \in n + 2 .. Len(queue) : queue[i] # queue[j]
    BY ONLY <1>5, <2>1
  <2> QED
    BY <1>4, <2>2
<1>8. next \in Entries(queue) \cup {Nil} /\ next \notin failed
         /\ next \notin Entries(subscriber_queue')
  <2>1. Nil \notin Entries(queue)
    BY <1>3, StreamingAssumption DEF Entries
  <2>2. ~(n < Len(queue)) => next = Nil
    OBVIOUS
  <2>3. n < Len(queue) => next \in Entries(queue) /\ next \notin failed
                            /\ next \notin Entries(subscriber_queue')
    <3> SUFFICES ASSUME n < Len(queue)
                 PROVE  next \in Entries(queue) /\ next \notin failed
                          /\ next \notin Entries(subscriber_queue')
      OBVIOUS
    <3>1. n + 1 \in DOMAIN queue /\ next = queue[n + 1]
      BY <1>3
    <3>2. next \in Entries(queue)
      BY <3>1 DEF Entries
    <3>3. next \notin failed /\ next \notin Entries(subscriber_queue')
      <4>1. \A i \in 1 .. n : i \in DOMAIN queue /\ i # n + 1
        BY <1>3
      <4>2. \A i \in n + 2 .. Len(queue) : i \in DOMAIN queue /\ i # n + 1
        BY <1>3
      <4> QED
        BY <1>4, <1>5, <3>1, <4>1, <4>2
    <3> QED
      BY <3>2, <3>3
  <2> QED
    BY <1>6, <2>1, <2>2, <2>3
<1> HIDE DEF failed, next
<1>9. \A r \in Calls : view'[r] = IF r \in failed THEN Ends(views[r], "error") ELSE views[r]
  BY <1>2
<1>10. view' \in [Calls -> Views]
  BY <1>2, EndsEnds
<1> QED
  BY <1>2, <1>4, <1>6, <1>7, <1>8, <1>9, <1>10

-----------------------------------------------------------------------------
(***************************************************************************)
(* The mailbox.                                                           *)
(***************************************************************************)

\* What a caller adds to its mail.
LEMMA MailGrows ==
  ASSUME NEW b
  PROVE  /\ b \in Mail("subscribed") =>
              /\ Append(b, "send_message") = <<"send_message">>
              /\ Append(b, "DOWN") = <<"DOWN">>
         /\ \A m \in {"unsubscribe", "DOWN"} : b \in Mail("reading") =>
              \/ b = << >> /\ Append(b, m) = <<m>>
              \/ b = <<"send_message">> /\ Append(b, m) = <<"send_message", m>>
<1>1. Append(<< >>, "send_message") = <<"send_message">>
  OBVIOUS
<1>2. Append(<< >>, "unsubscribe") = <<"unsubscribe">> /\ Append(<< >>, "DOWN") = <<"DOWN">>
  OBVIOUS
<1>3. ASSUME NEW m \in {"unsubscribe", "DOWN"}
      PROVE  Append(<<"send_message">>, m) = <<"send_message", m>>
  <2> DEFINE S == {"send_message", "unsubscribe", "DOWN"}
             s == Append(<<"send_message">>, m)
             t == <<"send_message", m>>
  <2>1. s \in Seq(S) /\ t \in Seq(S) /\ Len(s) = 2 /\ Len(t) = 2
    OBVIOUS
  <2>2. s[1] = t[1] /\ s[2] = t[2]
    OBVIOUS
  <2> HIDE DEF s, t, S
  <2>3. \A i \in 1 .. Len(s) : s[i] = t[i]
    BY <2>1, <2>2
  <2>4. s = t
    BY <2>1, <2>3, SeqEqual
  <2> QED
    BY <2>4 DEF s, t
<1> QED
  BY <1>1, <1>2, <1>3 DEF Mail

\* The mail the session can take, and what it leaves.
LEMMA MailShrinks ==
  ASSUME NEW c \in {"idle", "subscribed", "reading", "left"}, NEW b \in Mail(c), b # << >>
  PROVE  /\ Head(b) = "send_message" =>
              \/ c = "reading" /\ Tail(b) = << >>
              \/ c = "left" /\ Tail(b) \in {<<"unsubscribe">>, <<"DOWN">>}
         /\ Head(b) \in {"unsubscribe", "DOWN"} => c = "left" /\ Tail(b) = << >>
         /\ NoDown(b) => NoDown(Tail(b))
         /\ Head(b) = "DOWN" => ~NoDown(b)
<1>1. /\ Head(<<"send_message">>) = "send_message" /\ Tail(<<"send_message">>) = << >>
      /\ Head(<<"unsubscribe">>) = "unsubscribe" /\ Tail(<<"unsubscribe">>) = << >>
      /\ Head(<<"DOWN">>) = "DOWN" /\ Tail(<<"DOWN">>) = << >>
      /\ \A m : /\ Head(<<"send_message", m>>) = "send_message"
                /\ Tail(<<"send_message", m>>) = <<m>>
  OBVIOUS
<1>2. /\ NoDown(<< >>) /\ NoDown(<<"unsubscribe">>) /\ ~NoDown(<<"DOWN">>)
      /\ ~NoDown(<<"send_message", "DOWN">>)
  BY DEF NoDown
<1> QED
  BY <1>1, <1>2 DEF Mail

-----------------------------------------------------------------------------
(***************************************************************************)
(* The steps of the callers.                                               *)
(***************************************************************************)

LEMMA SubscribeKeeps ==
  ASSUME IInv, NEW r \in Calls, Subscribe(r)
  PROVE  IInv'
<1> USE StreamingAssumption
<1>1. /\ session = "up" /\ session' = "up"
      /\ caller[r] = "idle"
      /\ caller' = [caller EXCEPT ![r] = "subscribed"]
      /\ subscribers' = subscribers \cup {r}
      /\ active_subscriber' = IF active_subscriber = Nil THEN r ELSE active_subscriber
      /\ UNCHANGED <<subscriber_queue, stop_reason, box, view, cli, stage, rounds, answered, early>>
  BY DEF Subscribe, cliVars
<1>2. /\ TypeOK /\ ReferencesLive /\ QueuedOrSent /\ StageHasTurn /\ TurnsAgree /\ ViewAgrees
      /\ OwnTurnIfPatient
      /\ \A q \in Calls : CallInv(q)
  BY <1>1 DEF IInv
<1>3. TypeOK'
  BY <1>1, <1>2 DEF TypeOK
<1>4. r \notin Entries(subscriber_queue) \cup Entries(cli)
  BY <1>1, <1>2 DEF CallInv, HandledOnce, Unhandled
<1>5. ReferencesLive'
  <2>1. Entries(subscriber_queue)' = Entries(subscriber_queue)
    BY <1>1 DEF Entries
  <2> QED
    BY <1>1, <1>2, <1>4, <2>1 DEF ReferencesLive
<1>6. QueuedOrSent' /\ StageHasTurn' /\ OwnTurnIfPatient'
  BY <1>1, <1>2 DEF QueuedOrSent, StageHasTurn, OwnTurnIfPatient, OwnTurn, Entries
<1>7. ~early /\ cli # << >> => active_subscriber' = active_subscriber
  <2> SUFFICES ASSUME ~early, cli # << >> PROVE active_subscriber # Nil
    BY <1>1
  <2> QED
    BY <1>2 DEF TurnsAgree, TypeOK
<1>8. TurnsAgree' /\ ViewAgrees'
  BY <1>1, <1>2, <1>7 DEF TurnsAgree, ViewAgrees
<1>9. ASSUME NEW q \in Calls PROVE CallInv(q)'
  <2>1. CallInv(q) /\ CallInv(r)
    BY <1>2
  <2>2. Entries(subscriber_queue)' = Entries(subscriber_queue) /\ Entries(cli)' = Entries(cli)
    BY <1>1 DEF Entries
  <2>3. /\ caller'[q] = IF q = r THEN "subscribed" ELSE caller[q]
        /\ box'[q] = box[q] /\ caller[r] = "idle"
    BY <1>1, <1>2 DEF TypeOK
  <2>4. view[r].ended = "no" \/ early
    BY <1>1, <2>1 DEF CallInv, EndedIsClosed, Unhandled
  <2>5. box'[q] \in Mail(caller'[q])
    BY <2>1, <2>3 DEF CallInv, Mail
  <2>6. SubscribedUntilHandled(q)'
    BY <1>1, <1>4, <2>1, <2>2, <2>3, <2>4 DEF CallInv, SubscribedUntilHandled
  <2>7. HandledOnce(q)'
    BY <1>1, <1>4, <2>1, <2>2, <2>3, <2>4 DEF CallInv, HandledOnce, Unhandled
  <2>8. EndedIsClosed(q)'
    BY <1>1, <1>4, <2>1, <2>2, <2>3, <2>4 DEF CallInv, EndedIsClosed, Unhandled
  <2> QED
    BY <2>5, <2>6, <2>7, <2>8 DEF CallInv
<1> QED
  BY <1>1, <1>2, <1>3, <1>5, <1>6, <1>8, <1>9 DEF IInv

LEMMA CastMessageKeeps ==
  ASSUME IInv, NEW r \in Calls, CastMessage(r)
  PROVE  IInv'
<1> USE StreamingAssumption
<1>1. /\ session = "up" /\ session' = "up"
      /\ caller[r] = "subscribed"
      /\ caller' = [caller EXCEPT ![r] = "reading"]
      /\ box' = [box EXCEPT ![r] = Append(box[r], "send_message")]
      /\ UNCHANGED <<subscribers, subscriber_queue, active_subscriber, stop_reason, view, cli,
                     stage, rounds, answered, early>>
  BY DEF CastMessage, sessionVars, cliVars
<1>2. /\ TypeOK /\ ReferencesLive /\ QueuedOrSent /\ StageHasTurn /\ TurnsAgree /\ ViewAgrees
      /\ OwnTurnIfPatient
      /\ \A q \in Calls : CallInv(q)
  BY <1>1 DEF IInv
<1>3. TypeOK'
  BY <1>1, <1>2 DEF TypeOK
<1>4. /\ ReferencesLive' /\ QueuedOrSent' /\ StageHasTurn' /\ OwnTurnIfPatient'
      /\ TurnsAgree' /\ ViewAgrees'
  BY <1>1, <1>2
  DEF ReferencesLive, QueuedOrSent, StageHasTurn, OwnTurnIfPatient, OwnTurn, Entries,
      TurnsAgree,
      ViewAgrees
<1>5. ASSUME NEW q \in Calls PROVE CallInv(q)'
  <2>1. CallInv(q) /\ CallInv(r)
    BY <1>2
  <2>2. Entries(subscriber_queue)' = Entries(subscriber_queue) /\ Entries(cli)' = Entries(cli)
    BY <1>1 DEF Entries
  <2>3. /\ caller'[q] = IF q = r THEN "reading" ELSE caller[q]
        /\ box'[q] = IF q = r THEN <<"send_message">> ELSE box[q]
    BY <1>1, <1>2, <2>1, MailGrows DEF TypeOK, CallInv
  <2>4. NoDown(<<"send_message">>) /\ <<"send_message">> # << >>
          /\ Head(<<"send_message">>) = "send_message"
    BY DEF NoDown
  <2>5. box'[q] \in Mail(caller'[q])
    BY <2>1, <2>3 DEF CallInv, Mail
  <2>6. SubscribedUntilHandled(q)'
    BY <1>1, <2>1, <2>2, <2>3, <2>4 DEF CallInv, SubscribedUntilHandled
  <2>7. HandledOnce(q)'
    BY <1>1, <2>1, <2>2, <2>3, <2>4 DEF CallInv, HandledOnce, Unhandled
  <2>8. EndedIsClosed(q)'
    BY <1>1, <2>1, <2>2, <2>3, <2>4 DEF CallInv, EndedIsClosed, Unhandled
  <2> QED
    BY <2>5, <2>6, <2>7, <2>8 DEF CallInv
<1> QED
  BY <1>1, <1>2, <1>3, <1>4, <1>5 DEF IInv

LEMMA StreamEndsKeeps ==
  ASSUME IInv, NEW r \in Calls, StreamEnds(r)
  PROVE  IInv'
<1>1. /\ session = "up" /\ session' = "up"
      /\ caller[r] = "reading"
      /\ view[r].ended # "no"
      /\ caller' = [caller EXCEPT ![r] = "left"]
      /\ box' = [box EXCEPT ![r] = Append(box[r], "unsubscribe")]
      /\ UNCHANGED <<subscribers, subscriber_queue, active_subscriber, stop_reason, view, cli,
                     stage, rounds, answered, early>>
  BY DEF StreamEnds, sessionVars, cliVars
<1>2. /\ TypeOK /\ ReferencesLive /\ QueuedOrSent /\ StageHasTurn /\ TurnsAgree /\ ViewAgrees
      /\ OwnTurnIfPatient
      /\ \A q \in Calls : CallInv(q)
  BY <1>1 DEF IInv
<1>3. TypeOK'
  BY <1>1, <1>2 DEF TypeOK
<1>4. /\ ReferencesLive' /\ QueuedOrSent' /\ StageHasTurn' /\ OwnTurnIfPatient'
      /\ TurnsAgree' /\ ViewAgrees'
  BY <1>1, <1>2
  DEF ReferencesLive, QueuedOrSent, StageHasTurn, OwnTurnIfPatient, OwnTurn, Entries,
      TurnsAgree,
      ViewAgrees
<1>5. ASSUME NEW q \in Calls PROVE CallInv(q)'
  <2>1. CallInv(q) /\ CallInv(r)
    BY <1>2
  <2>2. Entries(subscriber_queue)' = Entries(subscriber_queue) /\ Entries(cli)' = Entries(cli)
    BY <1>1 DEF Entries
  <2>3. /\ caller'[q] = IF q = r THEN "left" ELSE caller[q]
        /\ box'[q] = IF q = r THEN Append(box[r], "unsubscribe") ELSE box[q]
    BY <1>1, <1>2 DEF TypeOK
  <2>4. \/ box[r] = << >> /\ Append(box[r], "unsubscribe") = <<"unsubscribe">>
        \/ /\ box[r] = <<"send_message">>
           /\ Append(box[r], "unsubscribe") = <<"send_message", "unsubscribe">>
    BY <1>1, <2>1, MailGrows DEF CallInv
  <2>5. /\ NoDown(<<"unsubscribe">>) /\ NoDown(<<"send_message", "unsubscribe">>)
        /\ Head(<<"unsubscribe">>) = "unsubscribe" /\ Head(<<"send_message">>) = "send_message"
        /\ Head(<<"send_message", "unsubscribe">>) = "send_message"
        /\ <<"unsubscribe">> # << >> /\ <<"send_message", "unsubscribe">> # << >>
        /\ <<"send_message">> # << >>
    BY DEF NoDown
  <2>6. box'[q] \in Mail(caller'[q])
    BY <2>1, <2>3, <2>4 DEF CallInv, Mail
  <2>7. SubscribedUntilHandled(q)'
    BY <1>1, <2>1, <2>3, <2>4, <2>5 DEF CallInv, SubscribedUntilHandled
  <2>8. Unhandled(q)' <=> Unhandled(q)
    BY <1>1, <2>3, <2>4, <2>5 DEF Unhandled
  <2>9. HandledOnce(q)'
    BY <1>1, <2>1, <2>2, <2>3, <2>8 DEF CallInv, HandledOnce
  <2>10. EndedIsClosed(q)'
    BY <1>1, <2>1, <2>2, <2>3, <2>4, <2>5, <2>8 DEF CallInv, EndedIsClosed
  <2> QED
    BY <2>6, <2>7, <2>9, <2>10 DEF CallInv
<1> QED
  BY <1>1, <1>2, <1>3, <1>4, <1>5 DEF IInv

\* Leaving early changes nothing for the session until it handles the farewell.
LEMMA EarlyLeaveKeeps ==
  ASSUME IInv, NEW r \in Calls, Halt(r) \/ Exit(r)
  PROVE  IInv'
<1>1. PICK m \in {"unsubscribe", "DOWN"} :
        /\ session = "up" /\ session' = "up"
        /\ caller[r] = "reading" \/ (caller[r] = "subscribed" /\ m = "DOWN")
        /\ caller' = [caller EXCEPT ![r] = "left"]
        /\ box' = [box EXCEPT ![r] = Append(box[r], m)]
        /\ view' = [view EXCEPT ![r] = Ends(view[r], "left")]
        /\ early' = TRUE
        /\ UNCHANGED <<subscribers, subscriber_queue, active_subscriber, stop_reason, cli,
                       stage, rounds, answered>>
  <2>1. CASE Halt(r)
    BY <2>1 DEF Halt, sessionVars, cliVars
  <2>2. CASE Exit(r)
    BY <2>2 DEF Exit, sessionVars, cliVars
  <2> QED
    BY <2>1, <2>2
<1>2. /\ TypeOK /\ ReferencesLive /\ QueuedOrSent /\ StageHasTurn
      /\ \A q \in Calls : CallInv(q)
  BY <1>1 DEF IInv
<1>3. TypeOK'
  <2>1. view' \in [Calls -> Views]
    BY <1>1, <1>2, EndsEnds DEF TypeOK, Views
  <2>2. box' \in [Calls -> Seq({"send_message", "unsubscribe", "DOWN"})]
    BY <1>1, <1>2 DEF TypeOK
  <2> QED
    BY <1>1, <1>2, <2>1, <2>2 DEF TypeOK, Views
<1>4. /\ ReferencesLive' /\ QueuedOrSent' /\ StageHasTurn' /\ OwnTurnIfPatient'
      /\ TurnsAgree' /\ ViewAgrees'
  BY <1>1, <1>2
  DEF ReferencesLive, QueuedOrSent, StageHasTurn, OwnTurnIfPatient, Entries, TurnsAgree,
      ViewAgrees
<1>5. ASSUME NEW q \in Calls PROVE CallInv(q)'
  <2>1. CallInv(q) /\ CallInv(r)
    BY <1>2
  <2>2. Entries(subscriber_queue)' = Entries(subscriber_queue) /\ Entries(cli)' = Entries(cli)
    BY <1>1 DEF Entries
  <2>3. /\ caller'[q] = IF q = r THEN "left" ELSE caller[q]
        /\ box'[q] = IF q = r THEN Append(box[r], m) ELSE box[q]
    BY <1>1, <1>2 DEF TypeOK
  <2>4. \/ box[r] = << >> /\ Append(box[r], m) = <<m>>
        \/ /\ box[r] = <<"send_message">> /\ caller[r] = "reading"
           /\ Append(box[r], m) = <<"send_message", m>>
    <3>1. CASE caller[r] = "reading"
      BY <2>1, <3>1, MailGrows DEF CallInv
    <3>2. CASE caller[r] = "subscribed"
      BY <1>1, <2>1, <3>2, MailGrows DEF CallInv, Mail
    <3> QED
      BY <1>1, <3>1, <3>2
  <2>5. /\ Head(<<m>>) = m /\ Head(<<"send_message">>) = "send_message"
        /\ Head(<<"send_message", m>>) = "send_message"
        /\ <<m>> # << >> /\ <<"send_message", m>> # << >>
        /\ <<"send_message">> # << >>
    OBVIOUS
  <2>6. box'[q] \in Mail(caller'[q])
    BY <2>1, <2>3, <2>4 DEF CallInv, Mail
  <2>7. SubscribedUntilHandled(q)'
    BY <1>1, <2>1, <2>3, <2>4, <2>5 DEF CallInv, SubscribedUntilHandled
  <2>8. Unhandled(q)' => Unhandled(q)
    BY <1>1, <2>3, <2>4, <2>5 DEF Unhandled
  <2>9. HandledOnce(q)'
    BY <1>1, <2>1, <2>2, <2>3, <2>8 DEF CallInv, HandledOnce
  <2>10. EndedIsClosed(q)'
    BY <1>1 DEF EndedIsClosed
  <2> QED
    BY <2>6, <2>7, <2>9, <2>10 DEF CallInv
<1> QED
  BY <1>1, <1>3, <1>4, <1>5 DEF IInv

LEMMA RuntimeDownKeeps ==
  ASSUME IInv, RuntimeDown
  PROVE  IInv'
<1>1. /\ session' = "down"
      /\ \/ view' = [r \in Calls |-> IF r \in subscribers THEN Ends(view[r], "completed")
                                                        ELSE view[r]]
         \/ view' = view
      /\ box' = [r \in Calls |-> << >>]
      /\ UNCHANGED <<subscribers, subscriber_queue, active_subscriber, stop_reason, caller,
                     cli, stage, rounds, answered, early>>
  BY DEF RuntimeDown, cliVars
<1>2. /\ TypeOK /\ ReferencesLive /\ QueuedOrSent /\ StageHasTurn /\ TurnsAgree
      /\ OwnTurnIfPatient
  BY DEF IInv
<1>3. /\ view' \in [Calls -> Views]
      /\ \A r \in Calls : view'[r].ended = "turn" => view[r].ended = "turn"
  <2>1. view \in [Calls -> Views]
    BY <1>2 DEF TypeOK, Views
  <2>2. ASSUME NEW r \in Calls
        PROVE  /\ Ends(view[r], "completed") \in Views
               /\ Ends(view[r], "completed").ended = "turn" => view[r].ended = "turn"
    BY <2>1, EndsEnds
  <2> QED
    BY <1>1, <2>1, <2>2
<1>4. TypeOK'
  <2>1. << >> \in Seq({"send_message", "unsubscribe", "DOWN"})
    OBVIOUS
  <2> QED
    BY <1>1, <1>2, <1>3, <2>1 DEF TypeOK, Views
<1>5. /\ ReferencesLive' /\ QueuedOrSent' /\ StageHasTurn' /\ OwnTurnIfPatient'
      /\ TurnsAgree' /\ ViewAgrees'
  BY <1>1, <1>2, <1>3
  DEF ReferencesLive, QueuedOrSent, StageHasTurn, OwnTurnIfPatient, OwnTurn, Entries,
      TurnsAgree,
      ViewAgrees
<1> QED
  BY <1>1, <1>4, <1>5 DEF IInv

-----------------------------------------------------------------------------
(***************************************************************************)
(* The handlers.                                                           *)
(***************************************************************************)

\* What taking a message of r does to the mail.
LEMMA TakesMail ==
  ASSUME TypeOK, NEW r \in Calls, NEW m \in {"send_message", "unsubscribe", "DOWN"},
         Takes(r, m), UNCHANGED caller, \A q \in Calls : CallInv(q)
  PROVE  /\ box' \in [Calls -> Seq({"send_message", "unsubscribe", "DOWN"})]
         /\ caller[r] \in {"reading", "left"} /\ r \in subscribers
         /\ m = "send_message" => Unhandled(r) /\ (caller[r] = "left" => box'[r] # << >>)
         /\ m # "send_message" => caller[r] = "left" /\ box'[r] = << >>
         /\ m = "DOWN" => ~NoDown(box[r])
         /\ ~Unhandled(r)'
         /\ box'[r] \in Mail(caller[r])
         /\ NoDown(box[r]) => NoDown(box'[r])
         /\ \A q \in Calls : q # r => box'[q] = box[q] /\ (Unhandled(q)' <=> Unhandled(q))
<1>1. /\ box[r] # << >> /\ Head(box[r]) = m
      /\ box' = [box EXCEPT ![r] = Tail(box[r])]
      /\ box[r] \in Mail(caller[r])
      /\ SubscribedUntilHandled(r)
  BY DEF Takes, CallInv
<1>2. /\ box'[r] = Tail(box[r])
      /\ \A q \in Calls : q # r => box'[q] = box[q]
      /\ caller[r] \in {"idle", "subscribed", "reading", "left"}
  BY <1>1 DEF TypeOK
<1>3. box' \in [Calls -> Seq({"send_message", "unsubscribe", "DOWN"})]
  BY <1>1 DEF TypeOK
<1>4. /\ m = "send_message" =>
           \/ caller[r] = "reading" /\ box'[r] = << >>
           \/ caller[r] = "left" /\ box'[r] \in {<<"unsubscribe">>, <<"DOWN">>}
      /\ m # "send_message" => caller[r] = "left" /\ box'[r] = << >>
      /\ NoDown(box[r]) => NoDown(box'[r])
      /\ m = "DOWN" => ~NoDown(box[r])
  BY <1>1, <1>2, MailShrinks
<1>5. /\ <<"unsubscribe">> # << >> /\ <<"DOWN">> # << >>
      /\ Head(<<"unsubscribe">>) = "unsubscribe" /\ Head(<<"DOWN">>) = "DOWN"
  OBVIOUS
<1>6. box'[r] \in Mail(caller[r])
  BY <1>4 DEF Mail
<1>7. caller[r] \in {"reading", "left"} /\ r \in subscribers
  BY <1>1, <1>4 DEF SubscribedUntilHandled
<1>8. ~Unhandled(r)'
  BY <1>4, <1>5, <1>7 DEF Unhandled
<1>9. m = "send_message" => Unhandled(r) /\ (caller[r] = "left" => box'[r] # << >>)
  BY <1>1, <1>4, <1>5 DEF Unhandled
<1>10. \A q \in Calls : q # r => (Unhandled(q)' <=> Unhandled(q))
  BY <1>2 DEF Unhandled
<1> QED
  BY <1>2, <1>3, <1>4, <1>6, <1>7, <1>8, <1>9, <1>10

\* While nobody leaves early and the active message is not with the CLI, nothing is.
LEMMA NothingOpen ==
  ASSUME TypeOK, TurnsAgree, ~early, active_subscriber \notin Entries(cli)
  PROVE  cli = << >>
<1> SUFFICES ASSUME cli # << >> PROVE FALSE
  OBVIOUS
<1>1. active_subscriber = cli[1] /\ 1 \in DOMAIN cli
  BY DEF TurnsAgree, TypeOK
<1> QED
  BY <1>1 DEF Entries

\* HandleSend, when the message is sent.
LEMMA SendKeeps ==
  ASSUME IInv, session = "up", NEW r \in Calls, Takes(r, "send_message"),
         active_subscriber = r,
         cli' = Append(cli, r),
         UNCHANGED <<session, subscribers, subscriber_queue, active_subscriber, stop_reason,
                     caller, view, stage, rounds, answered, early>>
  PROVE  IInv'
<1>1. /\ TypeOK /\ ReferencesLive /\ QueuedOrSent /\ StageHasTurn /\ TurnsAgree /\ ViewAgrees
      /\ OwnTurnIfPatient
      /\ \A q \in Calls : CallInv(q)
  BY DEF IInv
<1>2. /\ box' \in [Calls -> Seq({"send_message", "unsubscribe", "DOWN"})]
      /\ caller[r] \in {"reading", "left"} /\ r \in subscribers
      /\ Unhandled(r) /\ (caller[r] = "left" => box'[r] # << >>)
      /\ ~Unhandled(r)'
      /\ box'[r] \in Mail(caller[r])
      /\ NoDown(box[r]) => NoDown(box'[r])
      /\ \A q \in Calls : q # r => box'[q] = box[q] /\ (Unhandled(q)' <=> Unhandled(q))
  BY <1>1, TakesMail
<1>3. r \notin Entries(subscriber_queue) \cup Entries(cli)
  BY <1>1, <1>2 DEF CallInv, HandledOnce
<1>4. /\ cli' \in Seq(Calls)
      /\ Entries(cli') = Entries(cli) \cup {r}
      /\ Distinct(cli')
  <2>1. cli \in Seq(Calls) /\ Distinct(cli)
    BY <1>1 DEF TypeOK, ReferencesLive, Distinct
  <2> QED
    BY <1>3, <2>1, AppendFresh
<1>5. TypeOK'
  BY <1>1, <1>2, <1>4 DEF TypeOK
<1>6. ReferencesLive' /\ QueuedOrSent' /\ OwnTurnIfPatient'
  <2>1. Entries(subscriber_queue)' = Entries(subscriber_queue) /\ Entries(cli)' = Entries(cli')
    BY DEF Entries
  <2> QED
    BY <1>1, <1>3, <1>4, <2>1
    DEF ReferencesLive, QueuedOrSent, OwnTurnIfPatient, OwnTurn, Distinct
<1>7. ~early => cli = << >> /\ stage = "idle"
  BY <1>1, <1>3, NothingOpen DEF StageHasTurn
<1>8. StageHasTurn'
  BY <1>1, <1>4 DEF StageHasTurn, Entries
<1>9. TurnsAgree' /\ ViewAgrees'
  <2>1. ~early => cli' = <<r>>
    BY <1>7
  <2> QED
    BY <1>7, <2>1 DEF TurnsAgree, ViewAgrees
<1>10. ASSUME NEW q \in Calls PROVE CallInv(q)'
  <2>1. CallInv(q) /\ CallInv(r)
    BY <1>1
  <2>2. box'[q] \in Mail(caller[q])
    BY <1>2, <2>1 DEF CallInv
  <2>3. SubscribedUntilHandled(q)'
    BY <1>2, <2>1 DEF CallInv, SubscribedUntilHandled
  <2>4. Entries(subscriber_queue)' = Entries(subscriber_queue) /\ Entries(cli)' = Entries(cli')
    BY DEF Entries
  <2>5. HandledOnce(q)'
    BY <1>2, <1>4, <2>1, <2>4 DEF CallInv, HandledOnce
  <2>6. EndedIsClosed(q)'
    BY <1>2, <1>4, <2>1, <2>4 DEF CallInv, EndedIsClosed
  <2> QED
    BY <2>2, <2>3, <2>5, <2>6 DEF CallInv
<1> QED
  BY <1>1, <1>5, <1>6, <1>8, <1>9, <1>10 DEF IInv

\* HandleSend, when another message is active.
LEMMA QueueKeeps ==
  ASSUME IInv, session = "up", NEW r \in Calls, Takes(r, "send_message"),
         active_subscriber # r,
         subscriber_queue' = Append(subscriber_queue, r),
         UNCHANGED <<session, subscribers, cli, active_subscriber, stop_reason,
                     caller, view, stage, rounds, answered, early>>
  PROVE  IInv'
<1>1. /\ TypeOK /\ ReferencesLive /\ QueuedOrSent /\ StageHasTurn /\ TurnsAgree /\ ViewAgrees
      /\ OwnTurnIfPatient
      /\ \A q \in Calls : CallInv(q)
  BY DEF IInv
<1>2. /\ box' \in [Calls -> Seq({"send_message", "unsubscribe", "DOWN"})]
      /\ caller[r] \in {"reading", "left"} /\ r \in subscribers
      /\ Unhandled(r) /\ (caller[r] = "left" => box'[r] # << >>)
      /\ ~Unhandled(r)'
      /\ box'[r] \in Mail(caller[r])
      /\ NoDown(box[r]) => NoDown(box'[r])
      /\ \A q \in Calls : q # r => box'[q] = box[q] /\ (Unhandled(q)' <=> Unhandled(q))
  BY <1>1, TakesMail
<1>3. r \notin Entries(subscriber_queue) \cup Entries(cli)
  BY <1>1, <1>2 DEF CallInv, HandledOnce
<1>4. /\ subscriber_queue' \in Seq(Calls)
      /\ Entries(subscriber_queue') = Entries(subscriber_queue) \cup {r}
      /\ Distinct(subscriber_queue')
  <2>1. subscriber_queue \in Seq(Calls) /\ Distinct(subscriber_queue)
    BY <1>1 DEF TypeOK, ReferencesLive, Distinct
  <2> QED
    BY <1>3, <2>1, AppendFresh
<1>5. TypeOK'
  BY <1>1, <1>2, <1>4 DEF TypeOK
<1>6. Entries(cli)' = Entries(cli) /\ Entries(subscriber_queue)' = Entries(subscriber_queue')
  BY DEF Entries
<1>7. ReferencesLive'
  BY <1>1, <1>2, <1>4, <1>6 DEF ReferencesLive, Distinct
<1>8. QueuedOrSent' /\ StageHasTurn' /\ OwnTurnIfPatient' /\ TurnsAgree' /\ ViewAgrees'
  BY <1>1, <1>3, <1>4, <1>6
  DEF QueuedOrSent, StageHasTurn, OwnTurnIfPatient, OwnTurn, TurnsAgree, ViewAgrees
<1>9. ASSUME NEW q \in Calls PROVE CallInv(q)'
  <2>1. CallInv(q) /\ CallInv(r)
    BY <1>1
  <2>2. box'[q] \in Mail(caller[q])
    BY <1>2, <2>1 DEF CallInv
  <2>3. SubscribedUntilHandled(q)'
    BY <1>2, <2>1 DEF CallInv, SubscribedUntilHandled
  <2>4. HandledOnce(q)'
    BY <1>2, <1>4, <1>6, <2>1 DEF CallInv, HandledOnce
  <2>5. EndedIsClosed(q)'
    BY <1>2, <1>4, <1>6, <2>1 DEF CallInv, EndedIsClosed
  <2> QED
    BY <2>2, <2>3, <2>4, <2>5 DEF CallInv
<1> QED
  BY <1>1, <1>5, <1>7, <1>8, <1>9 DEF IInv

\* Taking the next message keeps every reference live, whatever fails on the way.
LEMMA TakeNextKeeps ==
  ASSUME TypeOK, ReferencesLive, QueuedOrSent,
         NEW queue \in Seq(Calls), Distinct(queue),
         Entries(queue) \subseteq Entries(subscriber_queue),
         Entries(queue) \subseteq subscribers',
         NEW views \in [Calls -> Views],
         NEW open \in Seq(Calls), Distinct(open), Entries(open) \subseteq Entries(cli),
         TakeNext(queue, views, open)
  PROVE  /\ ReferencesLive' /\ QueuedOrSent'
         /\ active_subscriber' \in Entries(queue) \cup {Nil}
         /\ active_subscriber' \in Calls \cup {Nil}
         /\ subscriber_queue' \in Seq(Calls)
         /\ cli' \in Seq(Calls)
         /\ view' \in [Calls -> Views]
         /\ Entries(subscriber_queue)' \subseteq Entries(queue)
         /\ Entries(cli)' \subseteq Entries(open) \cup ({active_subscriber'} \ {Nil})
         /\ cli' = IF active_subscriber' = Nil THEN open ELSE Append(open, active_subscriber')
         /\ \A q \in Calls :
              \/ view'[q] = views[q]
              \/ /\ view'[q] = Ends(views[q], "error")
                 /\ q \in Entries(queue)
                 /\ q \notin Entries(subscriber_queue)'
                 /\ q # active_subscriber'
<1>1. /\ active_subscriber' \in Entries(queue) \cup {Nil}
      /\ subscriber_queue' \in Seq(Calls)
      /\ Distinct(subscriber_queue')
      /\ Entries(subscriber_queue') \subseteq Entries(queue)
      /\ active_subscriber' \notin Entries(subscriber_queue')
      /\ view' \in [Calls -> Views]
      /\ \A q \in Calls :
           \/ view'[q] = views[q]
           \/ /\ view'[q] = Ends(views[q], "error")
              /\ q \in Entries(queue)
              /\ q \notin Entries(subscriber_queue')
              /\ q # active_subscriber'
      /\ cli' = IF active_subscriber' = Nil THEN open ELSE Append(open, active_subscriber')
  BY TakeNextTakes
<1>2. Entries(subscriber_queue)' = Entries(subscriber_queue') /\ Entries(cli)' = Entries(cli')
  BY DEF Entries
<1>3. Entries(queue) \subseteq Calls
  BY DEF Entries
<1>4. /\ cli' \in Seq(Calls) /\ Distinct(cli')
      /\ Entries(cli') = Entries(open) \cup ({active_subscriber'} \ {Nil})
  <2>1. CASE active_subscriber' = Nil
    BY <1>1, <2>1
  <2>2. CASE active_subscriber' # Nil
    <3>1. active_subscriber' \in Calls /\ active_subscriber' \notin Entries(open)
      BY <1>1, <1>3, <2>2 DEF QueuedOrSent
    <3>2. cli' = Append(open, active_subscriber')
      BY <1>1, <2>2
    <3>3. /\ Append(open, active_subscriber') \in Seq(Calls)
          /\ Entries(Append(open, active_subscriber')) = Entries(open) \cup {active_subscriber'}
          /\ Distinct(Append(open, active_subscriber'))
      BY <3>1, AppendFresh
    <3> QED
      BY <2>2, <3>2, <3>3
  <2> QED
    BY <2>1, <2>2
<1>5. ReferencesLive'
  BY <1>1, <1>2, <1>4 DEF ReferencesLive, Distinct
<1>6. QueuedOrSent'
  BY <1>1, <1>2, <1>4 DEF QueuedOrSent
<1>7. /\ active_subscriber' \in Entries(queue) \cup {Nil}
      /\ active_subscriber' \in Calls \cup {Nil}
      /\ Entries(subscriber_queue)' \subseteq Entries(queue)
      /\ Entries(cli)' \subseteq Entries(open) \cup ({active_subscriber'} \ {Nil})
  BY <1>1, <1>2, <1>3, <1>4
<1>8. \A q \in Calls :
        \/ view'[q] = views[q]
        \/ /\ view'[q] = Ends(views[q], "error")
           /\ q \in Entries(queue)
           /\ q \notin Entries(subscriber_queue)'
           /\ q # active_subscriber'
  BY <1>1, <1>2
<1> QED
  BY <1>1, <1>4, <1>5, <1>6, <1>7, <1>8

\* HandleSend, when the message cannot be sent.
LEMMA SendFailsKeeps ==
  ASSUME IInv, session = "up", NEW r \in Calls, Takes(r, "send_message"),
         active_subscriber = r,
         stop_reason' = "none",
         TakeNext(subscriber_queue, [view EXCEPT ![r] = Ends(@, "error")], cli),
         UNCHANGED <<session, subscribers, caller, stage, rounds, answered, early>>
  PROVE  IInv'
<1>1. /\ TypeOK /\ ReferencesLive /\ QueuedOrSent /\ StageHasTurn /\ TurnsAgree /\ ViewAgrees
      /\ OwnTurnIfPatient
      /\ \A q \in Calls : CallInv(q)
  BY DEF IInv
<1>2. /\ box' \in [Calls -> Seq({"send_message", "unsubscribe", "DOWN"})]
      /\ caller[r] \in {"reading", "left"} /\ r \in subscribers
      /\ Unhandled(r) /\ (caller[r] = "left" => box'[r] # << >>)
      /\ ~Unhandled(r)'
      /\ box'[r] \in Mail(caller[r])
      /\ NoDown(box[r]) => NoDown(box'[r])
      /\ \A q \in Calls : q # r => box'[q] = box[q] /\ (Unhandled(q)' <=> Unhandled(q))
  BY <1>1, TakesMail
<1>3. r \notin Entries(subscriber_queue) \cup Entries(cli)
  BY <1>1, <1>2 DEF CallInv, HandledOnce
<1> DEFINE views == [view EXCEPT ![r] = Ends(view[r], "error")]
<1>4. view \in [Calls -> Views]
  BY <1>1 DEF TypeOK, Views
<1>5. /\ views \in [Calls -> Views]
      /\ \A q \in Calls : views[q] = IF q = r THEN Ends(view[r], "error") ELSE view[q]
  BY <1>4, EndsEnds
<1>6. /\ subscriber_queue \in Seq(Calls) /\ Distinct(subscriber_queue)
      /\ cli \in Seq(Calls) /\ Distinct(cli)
      /\ Entries(subscriber_queue) \subseteq subscribers'
  BY <1>1 DEF TypeOK, ReferencesLive, Distinct
<1>7. TakeNext(subscriber_queue, views, cli)
  OBVIOUS
<1> HIDE DEF views
<1>8. /\ ReferencesLive' /\ QueuedOrSent'
      /\ active_subscriber' \in Entries(subscriber_queue) \cup {Nil}
      /\ active_subscriber' \in Calls \cup {Nil}
      /\ subscriber_queue' \in Seq(Calls)
      /\ cli' \in Seq(Calls)
      /\ view' \in [Calls -> Views]
      /\ Entries(subscriber_queue)' \subseteq Entries(subscriber_queue)
      /\ Entries(cli)' \subseteq Entries(cli) \cup ({active_subscriber'} \ {Nil})
      /\ cli' = IF active_subscriber' = Nil THEN cli ELSE Append(cli, active_subscriber')
      /\ \A q \in Calls :
           \/ view'[q] = views[q]
           \/ /\ view'[q] = Ends(views[q], "error")
              /\ q \in Entries(subscriber_queue)
              /\ q \notin Entries(subscriber_queue)'
              /\ q # active_subscriber'
  BY <1>1, <1>5, <1>6, <1>7, TakeNextKeeps
<1>9. TypeOK'
  BY <1>1, <1>2, <1>8 DEF TypeOK, Views
<1>10. ASSUME NEW q \in Calls
       PROVE  /\ view'[q].ended = "turn" => view[q].ended = "turn"
              /\ view[q].ended # "no" => view'[q].ended # "no"
              /\ view'[q].ended # "no" => \/ view[q].ended # "no"
                                          \/ q = r
                                          \/ /\ q \in Entries(subscriber_queue)
                                             /\ q \notin Entries(subscriber_queue)'
                                             /\ q # active_subscriber'
  <2>1. view[q] \in Views /\ views[q] \in Views /\ view[r] \in Views
    BY <1>4, <1>5
  <2> QED
    BY <1>5, <1>8, <2>1, EndsEnds
<1>11. ~early => cli = << >> /\ stage = "idle"
  BY <1>1, <1>3, NothingOpen DEF StageHasTurn
<1>12. StageHasTurn'
  <2>1. cli' = << >> => cli = << >>
    <3>1. CASE active_subscriber' = Nil
      BY <1>8, <3>1
    <3>2. CASE active_subscriber' # Nil
      BY <1>6, <1>8, <3>2
    <3> QED
      BY <3>1, <3>2
  <2> QED
    BY <1>1, <2>1 DEF StageHasTurn
<1>13. TurnsAgree' /\ ViewAgrees'
  <2>1. ~early => cli' = IF active_subscriber' = Nil THEN << >> ELSE <<active_subscriber'>>
    BY <1>8, <1>11
  <2>2. ~early => /\ Len(cli') <= 1
                  /\ cli' # << >> => active_subscriber' = Head(cli')
    <3>1. CASE active_subscriber' = Nil
      BY <2>1, <3>1
    <3>2. CASE active_subscriber' # Nil
      <4> SUFFICES ASSUME ~early
                   PROVE  Len(cli') <= 1 /\ active_subscriber' = Head(cli')
        OBVIOUS
      <4>1. cli' = <<active_subscriber'>>
        BY <2>1, <3>2
      <4>2. Len(cli') = 1
        BY <4>1
      <4>3. Head(cli') = active_subscriber'
        BY <4>1
      <4> QED
        BY <4>2, <4>3
    <3> QED
      BY <3>1, <3>2
  <2> QED
    BY <1>11, <2>2 DEF TurnsAgree, ViewAgrees
<1>14. OwnTurnIfPatient'
  BY <1>1, <1>10 DEF OwnTurnIfPatient, OwnTurn
<1>15. ASSUME NEW q \in Calls PROVE CallInv(q)'
  <2>1. CallInv(q) /\ CallInv(r)
    BY <1>1
  <2>2. box'[q] \in Mail(caller[q])
    BY <1>2, <2>1 DEF CallInv
  <2>3. SubscribedUntilHandled(q)'
    BY <1>2, <2>1 DEF CallInv, SubscribedUntilHandled
  <2>4. Unhandled(q)' => Unhandled(q)
    BY <1>2
  <2>5. HandledOnce(q)'
    <3>1. Unhandled(q)' => q \notin Entries(subscriber_queue) \cup Entries(cli)
      BY <2>1, <2>4 DEF CallInv, HandledOnce
    <3>2. caller[q] = "idle" => q \notin Entries(subscriber_queue)
      BY <2>1 DEF CallInv, HandledOnce, Unhandled
    <3> QED
      BY <1>8, <3>1, <3>2, StreamingAssumption DEF HandledOnce
  <2>6. EndedIsClosed(q)'
    <3> SUFFICES ASSUME ~early PROVE EndedIsClosed(q)'
      BY DEF EndedIsClosed
    <3>1. Entries(cli) = {}
      BY <1>11 DEF Entries
    <3>2. q \in Entries(subscriber_queue) => ~Unhandled(q)
      BY <2>1 DEF CallInv, HandledOnce
    <3>3. view'[q].ended # "no" =>
            /\ q # active_subscriber'
            /\ q \notin Entries(subscriber_queue)' \cup Entries(cli)'
            /\ ~Unhandled(q)'
      <4> SUFFICES ASSUME view'[q].ended # "no"
                   PROVE  /\ q # active_subscriber'
                          /\ q \notin Entries(subscriber_queue)' \cup Entries(cli)'
                          /\ ~Unhandled(q)'
        OBVIOUS
      <4>1. CASE view[q].ended # "no"
        BY <1>8, <2>1, <2>4, <3>1, <4>1, StreamingAssumption DEF CallInv, EndedIsClosed
      <4>2. CASE q = r
        BY <1>2, <1>3, <1>8, <3>1, <4>2, StreamingAssumption
      <4>3. CASE /\ q \in Entries(subscriber_queue)
                 /\ q \notin Entries(subscriber_queue)'
                 /\ q # active_subscriber'
        BY <1>8, <2>4, <3>1, <3>2, <4>3
      <4> QED
        BY <1>10, <4>1, <4>2, <4>3
    <3> QED
      BY <1>2, <1>10, <2>1, <3>3 DEF CallInv, EndedIsClosed
  <2> QED
    BY <2>2, <2>3, <2>5, <2>6 DEF CallInv
<1> QED
  BY <1>1, <1>8, <1>9, <1>12, <1>13, <1>14, <1>15 DEF IInv

LEMMA HandleSendKeeps ==
  ASSUME IInv, NEW r \in Calls, HandleSend(r)
  PROVE  IInv'
<1>1. session = "up" /\ Takes(r, "send_message")
  BY DEF HandleSend, Takes
<1>2. UNCHANGED <<session, subscribers, caller, stage, rounds, answered, early>>
  BY DEF HandleSend
<1>3. \/ /\ active_subscriber = r
         /\ cli' = Append(cli, r)
         /\ UNCHANGED <<subscriber_queue, active_subscriber, view, stop_reason>>
      \/ /\ active_subscriber = r
         /\ stop_reason' = "none"
         /\ TakeNext(subscriber_queue, [view EXCEPT ![r] = Ends(@, "error")], cli)
      \/ /\ active_subscriber # r
         /\ subscriber_queue' = Append(subscriber_queue, r)
         /\ UNCHANGED <<active_subscriber, view, cli, stop_reason>>
  BY DEF HandleSend
<1> QED
  BY <1>1, <1>2, <1>3, SendKeeps, SendFailsKeeps, QueueKeeps

\* What forgetting a subscriber leaves of the others.
LEMMA ForgetKeeps ==
  ASSUME TypeOK, NEW r \in Calls, NEW m \in {"unsubscribe", "DOWN"},
         Takes(r, m), Forget(r), \A q \in Calls : CallInv(q)
  PROVE  \A q \in Calls : /\ box'[q] \in Mail(caller[q])
                          /\ SubscribedUntilHandled(q)'
                          /\ Unhandled(q)' => Unhandled(q)
<1>1. /\ subscribers' = subscribers \ {r}
      /\ UNCHANGED <<session, caller, stage, rounds, answered, early>>
  BY DEF Forget
<1>2. /\ box' \in [Calls -> Seq({"send_message", "unsubscribe", "DOWN"})]
      /\ caller[r] = "left" /\ box'[r] = << >>
      /\ ~Unhandled(r)'
      /\ box'[r] \in Mail(caller[r])
      /\ \A q \in Calls : q # r => box'[q] = box[q] /\ (Unhandled(q)' <=> Unhandled(q))
  BY <1>1, TakesMail
<1> SUFFICES ASSUME NEW q \in Calls
             PROVE  /\ box'[q] \in Mail(caller[q])
                    /\ SubscribedUntilHandled(q)'
                    /\ Unhandled(q)' => Unhandled(q)
  OBVIOUS
<1>3. CallInv(q)
  OBVIOUS
<1>4. SubscribedUntilHandled(q)'
  BY <1>1, <1>2, <1>3 DEF CallInv, SubscribedUntilHandled
<1> QED
  BY <1>2, <1>3, <1>4 DEF CallInv

\* HandleUnsubscribe: while nobody leaves early the active one never does.
LEMMA HandleUnsubscribeKeeps ==
  ASSUME IInv, NEW r \in Calls, HandleUnsubscribe(r)
  PROVE  IInv'
<1>1. /\ session = "up" /\ Takes(r, "unsubscribe") /\ Forget(r)
      /\ subscriber_queue' = Others(r)
      /\ active_subscriber' = IF active_subscriber = r THEN Nil ELSE active_subscriber
      /\ subscribers' = subscribers \ {r}
      /\ UNCHANGED <<session, caller, stage, rounds, answered, early, stop_reason, view, cli>>
  BY DEF HandleUnsubscribe, Takes, Forget
<1>2. /\ TypeOK /\ ReferencesLive /\ QueuedOrSent /\ StageHasTurn /\ TurnsAgree /\ ViewAgrees
      /\ OwnTurnIfPatient
      /\ \A q \in Calls : CallInv(q)
  BY <1>1 DEF IInv
<1>3. /\ box' \in [Calls -> Seq({"send_message", "unsubscribe", "DOWN"})]
      /\ caller[r] = "left" /\ box'[r] = << >>
      /\ NoDown(box[r]) => NoDown(box'[r])
      /\ \A q \in Calls : q # r => box'[q] = box[q]
  BY <1>1, <1>2, TakesMail
<1>4. \A q \in Calls : /\ box'[q] \in Mail(caller[q])
                       /\ SubscribedUntilHandled(q)'
                       /\ Unhandled(q)' => Unhandled(q)
  BY <1>1, <1>2, ForgetKeeps
<1>5. /\ subscriber_queue' \in Seq(Calls)
      /\ Entries(subscriber_queue)' = Entries(subscriber_queue) \ {r}
      /\ Distinct(subscriber_queue')
  <2>1. subscriber_queue \in Seq(Calls) /\ Distinct(subscriber_queue)
    BY <1>2 DEF TypeOK, ReferencesLive, Distinct
  <2>2. Entries(subscriber_queue)' = Entries(Others(r))
    BY <1>1 DEF Entries
  <2> QED
    BY <1>1, <2>1, <2>2, OthersRemoves
<1>6. Entries(cli)' = Entries(cli)
  BY <1>1 DEF Entries
<1>7. TypeOK'
  BY <1>1, <1>2, <1>3, <1>5 DEF TypeOK
<1>8. ReferencesLive' /\ QueuedOrSent'
  <2>1. Nil \notin Entries(subscriber_queue)
    BY <1>2, StreamingAssumption DEF ReferencesLive, TypeOK
  <2> QED
    BY <1>1, <1>2, <1>5, <1>6, <2>1 DEF ReferencesLive, QueuedOrSent, Distinct
<1>9. ~early => active_subscriber' = active_subscriber
  BY <1>1, <1>2, <1>3 DEF CallInv, EndedIsClosed
<1>10. StageHasTurn' /\ OwnTurnIfPatient' /\ TurnsAgree' /\ ViewAgrees'
  BY <1>1, <1>2, <1>9
  DEF StageHasTurn, OwnTurnIfPatient, OwnTurn, TurnsAgree, ViewAgrees
<1>11. ASSUME NEW q \in Calls PROVE CallInv(q)'
  <2>1. CallInv(q)
    BY <1>2
  <2>2. HandledOnce(q)'
    BY <1>1, <1>4, <1>5, <1>6, <2>1, StreamingAssumption DEF CallInv, HandledOnce
  <2>3. EndedIsClosed(q)'
    BY <1>1, <1>3, <1>4, <1>5, <1>6, <1>9, <2>1 DEF CallInv, EndedIsClosed
  <2> QED
    BY <1>1, <1>4, <2>2, <2>3 DEF CallInv
<1> QED
  BY <1>1, <1>2, <1>7, <1>8, <1>10, <1>11 DEF IInv

\* HandleDown: a consumer has exited, so somebody has left early.
LEMMA HandleDownKeeps ==
  ASSUME IInv, NEW r \in Calls, HandleDown(r)
  PROVE  IInv'
<1>1. /\ session = "up" /\ Takes(r, "DOWN") /\ Forget(r)
      /\ subscribers' = subscribers \ {r}
      /\ UNCHANGED <<session, caller, stage, rounds, answered, early>>
  BY DEF HandleDown, Takes, Forget
<1>2. /\ TypeOK /\ ReferencesLive /\ QueuedOrSent /\ StageHasTurn
      /\ \A q \in Calls : CallInv(q)
  BY <1>1 DEF IInv
<1>3. /\ box' \in [Calls -> Seq({"send_message", "unsubscribe", "DOWN"})]
      /\ caller[r] = "left"
      /\ ~NoDown(box[r])
  BY <1>1, <1>2, TakesMail
<1>4. early /\ early'
  BY <1>1, <1>2, <1>3 DEF CallInv, EndedIsClosed
<1>5. \A q \in Calls : /\ box'[q] \in Mail(caller[q])
                       /\ SubscribedUntilHandled(q)'
                       /\ Unhandled(q)' => Unhandled(q)
  BY <1>1, <1>2, ForgetKeeps
<1>6. /\ Others(r) \in Seq(Calls)
      /\ Entries(Others(r)) = Entries(subscriber_queue) \ {r}
      /\ Distinct(Others(r))
      /\ cli \in Seq(Calls) /\ Distinct(cli)
  <2>1. subscriber_queue \in Seq(Calls) /\ Distinct(subscriber_queue)
    BY <1>2 DEF TypeOK, ReferencesLive, Distinct
  <2> QED
    BY <1>2, <2>1, OthersRemoves DEF TypeOK, ReferencesLive, Distinct
<1>7. view \in [Calls -> Views]
  BY <1>2 DEF TypeOK, Views
<1>8. /\ ReferencesLive' /\ QueuedOrSent' /\ StageHasTurn'
      /\ active_subscriber' \in Calls \cup {Nil}
      /\ subscriber_queue' \in Seq(Calls)
      /\ cli' \in Seq(Calls)
      /\ view' \in [Calls -> Views]
      /\ stop_reason' \in {"none", "tool_use", "end_turn"}
      /\ \A q \in Calls : q # active_subscriber /\ q = active_subscriber' =>
           q \in Entries(subscriber_queue)
      /\ Entries(subscriber_queue)' \cup Entries(cli)'
           \subseteq Entries(subscriber_queue) \cup Entries(cli)
  <2>1. CASE /\ active_subscriber = r
             /\ TakeNext(Others(r), view, cli)
             /\ stop_reason' \in {"none", stop_reason}
    <3>1. Entries(Others(r)) \subseteq subscribers'
      BY <1>1, <1>2, <1>6 DEF ReferencesLive
    <3>2. /\ ReferencesLive' /\ QueuedOrSent'
          /\ active_subscriber' \in Entries(Others(r)) \cup {Nil}
          /\ active_subscriber' \in Calls \cup {Nil}
          /\ subscriber_queue' \in Seq(Calls)
          /\ cli' \in Seq(Calls)
          /\ view' \in [Calls -> Views]
          /\ Entries(subscriber_queue)' \subseteq Entries(Others(r))
          /\ Entries(cli)' \subseteq Entries(cli) \cup ({active_subscriber'} \ {Nil})
          /\ cli' = IF active_subscriber' = Nil THEN cli ELSE Append(cli, active_subscriber')
      BY <1>2, <1>6, <1>7, <2>1, <3>1, TakeNextKeeps
    <3>3. cli' = << >> => cli = << >>
      BY <1>6, <3>2
    <3>4. StageHasTurn'
      BY <1>1, <1>2, <3>3 DEF StageHasTurn
    <3> QED
      BY <1>2, <1>6, <2>1, <3>2, <3>4, StreamingAssumption DEF TypeOK
  <2>2. CASE /\ active_subscriber # r
             /\ subscriber_queue' = Others(r)
             /\ UNCHANGED <<active_subscriber, stop_reason, view, cli>>
    <3>1. Entries(subscriber_queue)' = Entries(Others(r)) /\ Entries(cli)' = Entries(cli)
      BY <2>2 DEF Entries
    <3>2. ReferencesLive' /\ QueuedOrSent' /\ StageHasTurn'
      BY <1>1, <1>2, <1>6, <2>2, <3>1
      DEF ReferencesLive, QueuedOrSent, StageHasTurn, Distinct
    <3> QED
      BY <1>2, <1>6, <1>7, <2>2, <3>1, <3>2 DEF TypeOK
  <2> QED
    BY <2>1, <2>2 DEF HandleDown
<1>9. TypeOK'
  BY <1>1, <1>2, <1>3, <1>8 DEF TypeOK, Views
<1>10. OwnTurnIfPatient' /\ TurnsAgree' /\ ViewAgrees'
  BY <1>4 DEF OwnTurnIfPatient, TurnsAgree, ViewAgrees
<1>11. ASSUME NEW q \in Calls PROVE CallInv(q)'
  <2>1. CallInv(q)
    BY <1>2
  <2>2. HandledOnce(q)'
    BY <1>1, <1>5, <1>8, <2>1 DEF CallInv, HandledOnce, Unhandled
  <2>3. EndedIsClosed(q)'
    BY <1>4 DEF EndedIsClosed
  <2> QED
    BY <1>1, <1>5, <2>2, <2>3 DEF CallInv
<1> QED
  BY <1>1, <1>8, <1>9, <1>10, <1>11 DEF IInv

\* What Emits says of the CLI's turn.
LEMMA EmitsTurn ==
  ASSUME TypeOK, ReferencesLive, NEW event \in Events, Emits(event)
  PROVE  LET over == event = "message_stop" /\ stage = "end_turn"
             open == IF over THEN Tail(cli) ELSE cli
         IN  /\ cli # << >>
             /\ open \in Seq(Calls) /\ Distinct(open) /\ Entries(open) \subseteq Entries(cli)
             /\ Head(cli) \in Entries(cli)
             /\ Len(cli) <= 1 /\ over => open = << >>
             /\ open = << >> => stage' = "idle"
             /\ stage' = IF event = "message_stop" THEN "idle" ELSE event
             /\ event = "message_start" => stage = "idle"
             /\ event \in {"tool_use", "end_turn"} => stage = "message_start"
             /\ event = "message_stop" => stage \in {"tool_use", "end_turn"}
             /\ rounds' \in 0 .. MaxRounds
             /\ answered' = IF over THEN answered \cup {Head(cli)} ELSE answered
             /\ Head(cli) \in Calls
<1> DEFINE over == event = "message_stop" /\ stage = "end_turn"
           open == IF over THEN Tail(cli) ELSE cli
<1>1. /\ cli # << >> /\ cli \in Seq(Calls) /\ Distinct(cli)
  BY DEF Emits, TypeOK, ReferencesLive, Distinct
<1>2. /\ Len(cli) \in Nat \ {0} /\ DOMAIN cli = 1 .. Len(cli)
      /\ Head(cli) = cli[1] /\ Head(cli) \in Calls
      /\ Tail(cli) \in Seq(Calls) /\ DOMAIN Tail(cli) = 1 .. Len(cli) - 1
      /\ \A i \in 1 .. Len(cli) - 1 : Tail(cli)[i] = cli[i + 1]
  BY <1>1, HeadTailProperties
<1>3. Head(cli) \in Entries(cli)
  BY <1>2 DEF Entries
<1>4. Distinct(Tail(cli)) /\ Entries(Tail(cli)) \subseteq Entries(cli)
  <2>1. \A i \in DOMAIN Tail(cli) : i + 1 \in DOMAIN cli /\ i \in Int
    BY <1>2
  <2>2. Entries(Tail(cli)) \subseteq Entries(cli)
    BY <1>2, <2>1 DEF Entries
  <2>3. ASSUME NEW i \in DOMAIN Tail(cli), NEW j \in DOMAIN Tail(cli), Tail(cli)[i] = Tail(cli)[j]
        PROVE  i = j
    <3>1. i + 1 = j + 1
      BY <1>1, <1>2, <2>1, <2>3 DEF Distinct
    <3> QED
      BY <2>1, <3>1
  <2> QED
    BY <2>2, <2>3 DEF Distinct
<1>5. open \in Seq(Calls) /\ Distinct(open) /\ Entries(open) \subseteq Entries(cli)
  BY <1>1, <1>2, <1>4
<1>6. Len(cli) <= 1 /\ over => open = << >>
  <2> SUFFICES ASSUME Len(cli) <= 1 PROVE Tail(cli) = << >>
    OBVIOUS
  <2> QED
    BY <1>1, <1>2
<1>7. /\ stage' = IF event = "message_stop" THEN "idle" ELSE event
      /\ event = "message_start" => stage = "idle"
      /\ event \in {"tool_use", "end_turn"} => stage = "message_start"
      /\ event = "message_stop" => stage \in {"tool_use", "end_turn"}
      /\ event = "tool_use" => rounds < MaxRounds
  BY DEF Emits, Events
<1>8. answered' = IF over THEN answered \cup {Head(cli)} ELSE answered
  BY DEF Emits
<1>9. rounds' \in 0 .. MaxRounds
  <2>1. rounds' = 0 \/ rounds' = rounds \/ (rounds' = rounds + 1 /\ event = "tool_use")
    BY DEF Emits
  <2>2. rounds \in 0 .. MaxRounds /\ MaxRounds \in Nat
    BY StreamingAssumption DEF TypeOK
  <2> QED
    BY <1>7, <2>1, <2>2
<1>10. open = << >> => stage' = "idle"
  BY <1>1, <1>7
<1> QED
  BY <1>1, <1>2, <1>3, <1>5, <1>6, <1>7, <1>8, <1>9, <1>10

\* While nobody leaves early, the session, the active stream and the CLI see the same event
\* of the same turn.
LEMMA PatientEvent ==
  ASSUME IInv, session = "up", ~early, NEW event \in Events, Emits(event)
  PROVE  LET a == active_subscriber IN
         /\ a = Head(cli) /\ a \in Calls /\ a \in subscribers /\ Len(cli) <= 1
         /\ view[a].ended = "no"
         /\ Completes(event, stop_reason) <=> event = "message_stop" /\ stage = "end_turn"
         /\ Completes(event, view[a].reason) <=> Completes(event, stop_reason)
         /\ NextReason(event, view[a].reason) = NextReason(event, stop_reason)
         /\ event # "message_stop" =>
              NextReason(event, stop_reason) = IF event = "message_start" THEN "none" ELSE event
<1>1. /\ TypeOK /\ ReferencesLive /\ TurnsAgree /\ ViewAgrees
      /\ \A q \in Calls : CallInv(q)
  BY DEF IInv
<1>2. /\ cli # << >> /\ Head(cli) \in Calls
      /\ event = "message_stop" => stage \in {"tool_use", "end_turn"}
  BY <1>1, EmitsTurn
<1>3. /\ active_subscriber = Head(cli) /\ Len(cli) <= 1
      /\ event = "message_stop" => stop_reason = stage /\ view[active_subscriber].reason = stop_reason
  BY <1>1, <1>2 DEF TurnsAgree, ViewAgrees
<1>4. active_subscriber \in subscribers
  BY <1>1, <1>2, <1>3, StreamingAssumption DEF ReferencesLive
<1>5. view[active_subscriber].ended = "no"
  BY <1>1, <1>2, <1>3 DEF CallInv, EndedIsClosed
<1> QED
  BY <1>2, <1>3, <1>4, <1>5 DEF Completes, NextReason, Events

\* What the streams have seen when the session passes the event on.
LEMMA ViewsSee ==
  ASSUME TypeOK, NEW event \in Events
  PROVE  LET views == IF active_subscriber \in subscribers
                      THEN [view EXCEPT ![active_subscriber] = Sees(@, event)]
                      ELSE view
         IN  /\ views \in [Calls -> Views]
             /\ \A q \in Calls : views[q] = IF q = active_subscriber /\ q \in subscribers
                                            THEN Sees(view[q], event)
                                            ELSE view[q]
<1>1. view \in [Calls -> Views] /\ subscribers \subseteq Calls
  BY DEF TypeOK, Views
<1>2. \A q \in Calls : Sees(view[q], event) \in Views
  BY <1>1, SeesEnds
<1> QED
  BY <1>1, <1>2

\* HandleEvent: the end of a turn takes the next message; any other event changes no turn.
LEMMA HandleEventKeeps ==
  ASSUME IInv, NEW event \in Events, HandleEvent(event)
  PROVE  IInv'
<1> DEFINE over  == event = "message_stop" /\ stage = "end_turn"
           open  == IF over THEN Tail(cli) ELSE cli
           views == IF active_subscriber \in subscribers
                    THEN [view EXCEPT ![active_subscriber] = Sees(@, event)]
                    ELSE view
           a     == active_subscriber
<1>1. /\ session = "up" /\ Emits(event)
      /\ \/ /\ Completes(event, stop_reason)
            /\ stop_reason' = "none"
            /\ TakeNext(subscriber_queue, views, open)
         \/ /\ ~Completes(event, stop_reason)
            /\ stop_reason' = NextReason(event, stop_reason)
            /\ view' = views
            /\ cli' = open
            /\ UNCHANGED <<subscriber_queue, active_subscriber>>
      /\ UNCHANGED <<session, subscribers, caller, box, early>>
  BY DEF HandleEvent
<1>2. /\ TypeOK /\ ReferencesLive /\ QueuedOrSent /\ StageHasTurn /\ TurnsAgree /\ ViewAgrees
      /\ OwnTurnIfPatient
      /\ \A q \in Calls : CallInv(q)
  BY <1>1 DEF IInv
<1>3. /\ cli # << >>
      /\ open \in Seq(Calls) /\ Distinct(open) /\ Entries(open) \subseteq Entries(cli)
      /\ Head(cli) \in Entries(cli)
      /\ Len(cli) <= 1 /\ over => open = << >>
      /\ open = << >> => stage' = "idle"
      /\ stage' = IF event = "message_stop" THEN "idle" ELSE event
      /\ rounds' \in 0 .. MaxRounds
      /\ answered' = IF over THEN answered \cup {Head(cli)} ELSE answered
      /\ Head(cli) \in Calls
  BY <1>1, <1>2, EmitsTurn
<1>4. /\ views \in [Calls -> Views]
      /\ \A q \in Calls : views[q] = IF q = a /\ q \in subscribers
                                     THEN Sees(view[q], event)
                                     ELSE view[q]
  BY <1>2, ViewsSee
<1>5. ~early =>
        /\ a = Head(cli) /\ a \in Calls /\ a \in subscribers /\ Len(cli) <= 1
        /\ view[a].ended = "no"
        /\ Completes(event, stop_reason) <=> over
        /\ Completes(event, view[a].reason) <=> Completes(event, stop_reason)
        /\ NextReason(event, view[a].reason) = NextReason(event, stop_reason)
        /\ event # "message_stop" =>
             NextReason(event, stop_reason) = IF event = "message_start" THEN "none" ELSE event
  BY <1>1, PatientEvent
<1>6. /\ subscriber_queue \in Seq(Calls) /\ Distinct(subscriber_queue)
      /\ Entries(subscriber_queue) \subseteq subscribers'
      /\ stop_reason \in {"none", "tool_use", "end_turn"}
      /\ view \in [Calls -> Views]
      /\ NextReason(event, stop_reason) \in {"none", "tool_use", "end_turn"}
  BY <1>1, <1>2 DEF TypeOK, ReferencesLive, Distinct, Views, NextReason, Events
<1>7. /\ stage' \in {"idle", "message_start", "tool_use", "end_turn"}
      /\ answered' \subseteq Calls
  BY <1>2, <1>3 DEF TypeOK, Events
<1> HIDE DEF over, open, views, a
<1>8. CASE /\ Completes(event, stop_reason)
           /\ stop_reason' = "none"
           /\ TakeNext(subscriber_queue, views, open)
  <2>1. /\ ReferencesLive' /\ QueuedOrSent'
        /\ active_subscriber' \in Entries(subscriber_queue) \cup {Nil}
        /\ active_subscriber' \in Calls \cup {Nil}
        /\ subscriber_queue' \in Seq(Calls)
        /\ cli' \in Seq(Calls)
        /\ view' \in [Calls -> Views]
        /\ Entries(subscriber_queue)' \subseteq Entries(subscriber_queue)
        /\ Entries(cli)' \subseteq Entries(open) \cup ({active_subscriber'} \ {Nil})
        /\ cli' = IF active_subscriber' = Nil THEN open ELSE Append(open, active_subscriber')
        /\ \A q \in Calls :
             \/ view'[q] = views[q]
             \/ /\ view'[q] = Ends(views[q], "error")
                /\ q \in Entries(subscriber_queue)
                /\ q \notin Entries(subscriber_queue)'
                /\ q # active_subscriber'
    BY <1>2, <1>3, <1>4, <1>6, <1>8, TakeNextKeeps
  <2>2. TypeOK'
    BY <1>1, <1>2, <1>3, <1>6, <1>7, <1>8, <2>1 DEF TypeOK, Views
  <2>3. StageHasTurn'
    <3>1. cli' = << >> => open = << >>
      BY <1>3, <2>1
    <3> QED
      BY <1>3, <3>1 DEF StageHasTurn
  <2>4. ~early => over /\ open = << >> /\ stage' = "idle"
    BY <1>3, <1>5, <1>8
  <2>5. TurnsAgree' /\ ViewAgrees'
    <3> SUFFICES ASSUME ~early PROVE TurnsAgree' /\ ViewAgrees'
      BY <1>1 DEF TurnsAgree, ViewAgrees
    <3>1. CASE active_subscriber' = Nil
      <4>1. cli' = << >>
        BY <2>1, <2>4, <3>1
      <4> QED
        BY <4>1 DEF TurnsAgree, ViewAgrees
    <3>2. CASE active_subscriber' # Nil
      <4>1. cli' = <<active_subscriber'>>
        BY <2>1, <2>4, <3>2
      <4>2. Len(cli') = 1 /\ Head(cli') = active_subscriber'
        BY <4>1
      <4> QED
        BY <2>4, <4>2 DEF TurnsAgree, ViewAgrees
    <3> QED
      BY <3>1, <3>2
  <2>6. ASSUME NEW q \in Calls
        PROVE  /\ view[q].ended # "no" => view'[q].ended = view[q].ended
               /\ ~early /\ view'[q].ended # "no" =>
                    \/ view[q].ended # "no"
                    \/ q = a
                    \/ /\ q \in Entries(subscriber_queue)
                       /\ q \notin Entries(subscriber_queue)'
                       /\ q # active_subscriber'
               /\ ~early /\ view'[q].ended = "turn" => view[q].ended = "turn" \/ q = a
    <3>1. view[q] \in Views /\ views[q] \in Views
      BY <1>4, <1>6
    <3>2. view[q].ended # "no" => views[q] = view[q]
      BY <1>4, <3>1, SeesEnds
    <3> QED
      BY <1>4, <2>1, <3>1, <3>2, EndsEnds
  <2>7. OwnTurnIfPatient'
    <3>1. ~early => a \in answered' /\ answered \subseteq answered'
      BY <1>3, <1>5, <2>4
    <3> QED
      BY <1>1, <1>2, <2>6, <3>1 DEF OwnTurnIfPatient, OwnTurn
  <2>8. ASSUME NEW q \in Calls PROVE CallInv(q)'
    <3>1. CallInv(q)
      BY <1>2
    <3>2. /\ box'[q] \in Mail(caller'[q])
          /\ SubscribedUntilHandled(q)'
          /\ Unhandled(q)' <=> Unhandled(q)
      BY <1>1, <3>1 DEF CallInv, SubscribedUntilHandled, Unhandled
    <3>3. caller[q] = "idle" => q \notin Entries(subscriber_queue)
      BY <3>1 DEF CallInv, HandledOnce, Unhandled
    <3>4. HandledOnce(q)'
      BY <1>1, <1>3, <2>1, <3>1, <3>2, <3>3, StreamingAssumption DEF CallInv, HandledOnce
    <3>5. EndedIsClosed(q)'
      <4> SUFFICES ASSUME ~early PROVE EndedIsClosed(q)'
        BY <1>1 DEF EndedIsClosed
      <4>1. Entries(cli)' \subseteq {active_subscriber'} \ {Nil}
        BY <2>1, <2>4 DEF Entries
      <4>2. q \in Entries(subscriber_queue) \cup Entries(cli) => ~Unhandled(q)
        BY <3>1 DEF CallInv, HandledOnce
      <4>3. ASSUME view'[q].ended # "no"
            PROVE  /\ q # active_subscriber'
                   /\ q \notin Entries(subscriber_queue)' \cup Entries(cli)'
                   /\ ~Unhandled(q)'
        <5>1. CASE view[q].ended # "no"
          BY <2>1, <3>1, <3>2, <4>1, <5>1, StreamingAssumption DEF CallInv, EndedIsClosed
        <5>2. CASE q = a
          <6>1. q \notin Entries(subscriber_queue)
            BY <1>2, <5>2 DEF ReferencesLive, a
          <6>2. ~Unhandled(q)
            BY <1>3, <1>5, <4>2, <5>2
          <6> QED
            BY <2>1, <3>2, <4>1, <6>1, <6>2, StreamingAssumption
        <5>3. CASE /\ q \in Entries(subscriber_queue)
                   /\ q \notin Entries(subscriber_queue)'
                   /\ q # active_subscriber'
          BY <3>2, <4>1, <4>2, <5>3
        <5> QED
          BY <2>6, <4>3, <5>1, <5>2, <5>3
      <4>4. view[q].ended # "no" => view'[q].ended # "no"
        BY <2>6
      <4> QED
        BY <1>1, <3>1, <4>3, <4>4 DEF CallInv, EndedIsClosed
    <3> QED
      BY <3>2, <3>4, <3>5 DEF CallInv
  <2> QED
    BY <1>1, <2>1, <2>2, <2>3, <2>5, <2>7, <2>8 DEF IInv
<1>9. CASE /\ ~Completes(event, stop_reason)
           /\ stop_reason' = NextReason(event, stop_reason)
           /\ view' = views
           /\ cli' = open
           /\ UNCHANGED <<subscriber_queue, active_subscriber>>
  <2>1. /\ Entries(subscriber_queue)' = Entries(subscriber_queue)
        /\ Entries(cli)' = Entries(open)
    BY <1>9 DEF Entries
  <2>2. TypeOK'
    BY <1>1, <1>2, <1>3, <1>4, <1>6, <1>7, <1>9 DEF TypeOK, Views
  <2>3. ReferencesLive' /\ QueuedOrSent' /\ StageHasTurn'
    BY <1>1, <1>2, <1>3, <1>9, <2>1
    DEF ReferencesLive, QueuedOrSent, StageHasTurn, Distinct
  <2>4. ~early => ~over /\ cli' = cli /\ answered' = answered
    BY <1>3, <1>5, <1>9 DEF open
  <2>5. ~early => views[a] = [reason |-> stop_reason', ended |-> "no"]
    BY <1>4, <1>5, <1>6, <1>9, SeesEnds
  <2>6. TurnsAgree' /\ ViewAgrees'
    <3> SUFFICES ASSUME ~early PROVE TurnsAgree' /\ ViewAgrees'
      BY <1>1 DEF TurnsAgree, ViewAgrees
    <3>1. stage' # "idle" => stop_reason' = IF stage' = "message_start" THEN "none" ELSE stage'
      BY <1>3, <1>5, <1>9
    <3>2. view'[active_subscriber'].reason = stop_reason'
      BY <1>9, <2>5 DEF a
    <3> QED
      BY <1>2, <1>9, <2>4, <3>1, <3>2 DEF TurnsAgree, ViewAgrees
  <2>7. ASSUME NEW q \in Calls
        PROVE  /\ view[q].ended # "no" => view'[q] = view[q]
               /\ ~early /\ view'[q].ended # "no" => view'[q] = view[q]
    <3>1. view[q] \in Views
      BY <1>6
    <3> QED
      BY <1>4, <1>9, <2>5, <3>1, SeesEnds
  <2>8. OwnTurnIfPatient'
    BY <1>1, <1>2, <2>4, <2>7 DEF OwnTurnIfPatient, OwnTurn
  <2>9. ASSUME NEW q \in Calls PROVE CallInv(q)'
    <3>1. CallInv(q)
      BY <1>2
    <3>2. /\ box'[q] \in Mail(caller'[q])
          /\ SubscribedUntilHandled(q)'
          /\ Unhandled(q)' <=> Unhandled(q)
      BY <1>1, <3>1 DEF CallInv, SubscribedUntilHandled, Unhandled
    <3>3. HandledOnce(q)'
      BY <1>1, <1>3, <1>9, <2>1, <3>1, <3>2 DEF CallInv, HandledOnce
    <3>4. EndedIsClosed(q)'
      BY <1>1, <1>3, <1>9, <2>1, <2>7, <3>1, <3>2 DEF CallInv, EndedIsClosed
    <3> QED
      BY <3>2, <3>3, <3>4 DEF CallInv
  <2> QED
    BY <1>1, <2>2, <2>3, <2>6, <2>8, <2>9 DEF IInv
<1> QED
  BY <1>1, <1>8, <1>9

-----------------------------------------------------------------------------
(***************************************************************************)
(* The theorems.                                                           *)
(***************************************************************************)

LEMMA InitInv == Init => IInv
<1> SUFFICES ASSUME Init PROVE IInv
  OBVIOUS
<1> USE StreamingAssumption DEF Init
<1>1. TypeOK
  <2>1. << >> \in Seq(Calls) /\ << >> \in Seq({"send_message", "unsubscribe", "DOWN"})
    OBVIOUS
  <2>2. caller \in [Calls -> {"idle", "subscribed", "reading", "left"}]
    OBVIOUS
  <2>3. box \in [Calls -> Seq({"send_message", "unsubscribe", "DOWN"})]
    BY <2>1
  <2>4. view \in [Calls -> [reason : {"none", "tool_use", "end_turn"},
                           ended : {"no", "turn", "error", "completed", "left"}]]
    OBVIOUS
  <2>5. rounds \in 0 .. MaxRounds
    OBVIOUS
  <2>6. /\ session \in {"up", "down"}
        /\ subscribers \subseteq Calls
        /\ subscriber_queue \in Seq(Calls)
        /\ active_subscriber \in Calls \cup {Nil}
        /\ stop_reason \in {"none", "tool_use", "end_turn"}
        /\ cli \in Seq(Calls)
        /\ stage \in {"idle", "message_start", "tool_use", "end_turn"}
        /\ answered \subseteq Calls
        /\ early \in BOOLEAN
    BY <2>1
  <2> HIDE DEF Init
  <2> QED
    BY <2>2, <2>3, <2>4, <2>5, <2>6 DEF TypeOK
<1>2. Entries(<< >>) = {} /\ NoDown(<< >>)
  BY DEF Entries, NoDown
<1>3. ReferencesLive /\ QueuedOrSent /\ StageHasTurn
  BY <1>2 DEF ReferencesLive, QueuedOrSent, StageHasTurn
<1>4. TurnsAgree /\ ViewAgrees /\ OwnTurnIfPatient
  BY DEF TurnsAgree, ViewAgrees, OwnTurnIfPatient, OwnTurn
<1>5. \A r \in Calls : CallInv(r)
  BY <1>2 DEF CallInv, Mail, SubscribedUntilHandled, HandledOnce, EndedIsClosed, Unhandled
<1> QED
  BY <1>1, <1>3, <1>4, <1>5 DEF IInv

LEMMA StepInv == IInv /\ [Next]_vars => IInv'
<1> SUFFICES ASSUME IInv, [Next]_vars PROVE IInv'
  OBVIOUS
<1>1. ASSUME NEW r \in Calls, Caller(r) PROVE IInv'
  BY <1>1, SubscribeKeeps, CastMessageKeeps, StreamEndsKeeps, EarlyLeaveKeeps DEF Caller
<1>2. ASSUME NEW r \in Calls, Handle(r) PROVE IInv'
  BY <1>2, HandleSendKeeps, HandleUnsubscribeKeeps, HandleDownKeeps DEF Handle
<1>3. ASSUME NEW event \in Events, HandleEvent(event) PROVE IInv'
  BY <1>3, HandleEventKeeps
<1>4. CASE RuntimeDown
  BY <1>4, RuntimeDownKeeps
<1>5. CASE UNCHANGED vars
  <2>1. /\ session' = session /\ subscribers' = subscribers
        /\ subscriber_queue' = subscriber_queue
        /\ active_subscriber' = active_subscriber /\ stop_reason' = stop_reason
        /\ caller' = caller /\ box' = box /\ view' = view
        /\ cli' = cli /\ stage' = stage /\ rounds' = rounds /\ answered' = answered
        /\ early' = early
    BY <1>5 DEF vars, sessionVars, cliVars
  <2>2. TypeOK'
    BY <2>1 DEF IInv, TypeOK
  <2>3. ReferencesLive' /\ QueuedOrSent' /\ StageHasTurn'
    BY <2>1 DEF IInv, ReferencesLive, QueuedOrSent, StageHasTurn, Entries
  <2>4. TurnsAgree' /\ ViewAgrees' /\ OwnTurnIfPatient'
    BY <2>1 DEF IInv, TurnsAgree, ViewAgrees, OwnTurnIfPatient, OwnTurn
  <2>5. ASSUME NEW r \in Calls, CallInv(r) PROVE CallInv(r)'
    <3>1. box'[r] \in Mail(caller'[r]) /\ SubscribedUntilHandled(r)'
      BY <2>1, <2>5 DEF CallInv, SubscribedUntilHandled
    <3>2. Unhandled(r)' <=> Unhandled(r)
      BY <2>1 DEF Unhandled
    <3>3. HandledOnce(r)' /\ EndedIsClosed(r)'
      BY <2>1, <2>5, <3>2 DEF CallInv, HandledOnce, EndedIsClosed, Entries
    <3> QED
      BY <3>1, <3>3 DEF CallInv
  <2> QED
    BY <2>1, <2>2, <2>3, <2>4, <2>5 DEF IInv
<1> QED
  BY <1>1, <1>2, <1>3, <1>4, <1>5 DEF Next

\* The invariant holds in every state of the session, its consumers and the CLI.
THEOREM Invariance == Spec => []IInv
<1> QED
  BY InitInv, StepInv, PTL DEF Spec

\* The state of the session keeps its shape (session.ex:27).
THEOREM TypeCorrect == Spec => []TypeOK
<1>1. IInv => TypeOK
  BY DEF IInv
<1> QED
  BY <1>1, Invariance, PTL

\* However many calls overlap, leave, crash and fail to be sent: no reference outlives its
\* subscription and no message is queued or sent twice (session.ex:184-198, 436-452, 487-533).
THEOREM LiveReferences == Spec => []ReferencesLive
<1>1. IInv => ReferencesLive
  BY DEF IInv
<1> QED
  BY <1>1, Invariance, PTL

\* While every consumer reads to the end, the session and the CLI agree on whose turn it is.
THEOREM TurnsInStep == Spec => []TurnsAgree
<1>1. IInv => TurnsAgree
  BY DEF IInv
<1> QED
  BY <1>1, Invariance, PTL

\* ... and a stream that ends with a turn ends with its own, as streaming.ex promises.
THEOREM PatientOwnTurn == Spec => []OwnTurnIfPatient
<1>1. IInv => OwnTurnIfPatient
  BY DEF IInv
<1> QED
  BY <1>1, Invariance, PTL

=============================================================================
