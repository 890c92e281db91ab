--------------------------- MODULE Sidecar_proofs ---------------------------
(***************************************************************************)
(* Theorems about Sidecar, for every set of sessions, of calls with their  *)
(* methods and targets, and of requests of the sidecar, and for every      *)
(* number of messages.                                                     *)
(***************************************************************************)
EXTENDS Sidecar, SequencesExt, SequenceTheorems, WellFoundedInduction, TLAPS

-----------------------------------------------------------------------------
(***************************************************************************)
(* The inductive invariant.                                                *)
(***************************************************************************)

\* Node does not outlive the worker, whose port it is behind.
NodeHasWorker == node = "up" => worker = "up"

\* A call and an event are in the mailbox of their own session.
MailIsOwn(s) ==
  \A item \in ToSet(mailbox[s]) :
    /\ item.kind = "call" => Target[item.id] = s
    /\ item.kind \in Events => item.id = s

\* The call for which a session is blocked is its own, is one that its status accepts, and
\* is still pending in the worker.
BusyIsOwn(s) ==
  busy[s] # Nil =>
    /\ Target[busy[s]] = s
    /\ Accepts(s, Method[busy[s]])
    /\ worker = "up" => busy[s] \in pending

\* The ids of the items of a kind.
Ids(items, kind) == {item.id : item \in {x \in ToSet(items) : x.kind = kind}}

Once(items, kind) ==
  \A i, j \in DOMAIN items :
    items[i].kind = kind /\ items[j].kind = kind /\ items[i].id = items[j].id => i = j

\* The RPCs that Node has not read, is working on, and has answered.
Unread == Ids(toNode, "rpc")
Given  == Ids(toElixir, "response")

Outstanding == Unread \cup working \cup Given

\* A session has one RPC under way, at one place, and while it lives it is blocked for it.
OneRpc ==
  /\ Once(toNode, "rpc") /\ Once(toElixir, "response")
  /\ Unread \cap working = {} /\ Unread \cap Given = {} /\ working \cap Given = {}
  /\ \A c, d \in Outstanding : Target[c] = Target[d] => c = d
  /\ \A c \in Outstanding : process[Target[c]] = "up" => busy[Target[c]] = c

\* The map of the main loop holds the queries that were created and not closed.
Mapped(s) == env[s] \notin {"none", "closed"}

MapIsExact == \A s \in Sessions : s \in sessions <=> Mapped(s)

\* An answer under way still says what Node has done.
AnswerIsTrue(item) ==
  item.kind = "response" =>
    /\ Method[item.id] = "close" => ~Mapped(Target[item.id])
    /\ Method[item.id] = "create" /\ item.n = 1 => Mapped(Target[item.id])

\* The answer by which s learns that it was created is under way.
Created(s) ==
  /\ busy[s] # Nil
  /\ Method[busy[s]] = "create"
  /\ Response(busy[s], TRUE) \in ToSet(toElixir)

\* What a live session takes for its status, and what it has yet to hear, is true of Node.
StatusIsTrue(s) ==
  /\ status[s] = "new" => env[s] = "none" \/ Created(s)
  /\ status[s] = "ready" => Mapped(s) \/ Closing(s)
  /\ status[s] = "closed" => env[s] = "done" \/ ~Mapped(s)
  /\ \A item \in ToSet(mailbox[s]) \cup ToSet(toElixir) :
       item.kind = "closed" /\ item.id = s => env[s] \in {"done", "closed"}

NodeInv ==
  /\ OneRpc
  /\ MapIsExact
  /\ \A item \in ToSet(toElixir) : AnswerIsTrue(item)
  /\ \A s \in Sessions : process[s] = "up" => StatusIsTrue(s)

IInv ==
  /\ TypeOK
  /\ NodeHasWorker
  /\ \A s \in Sessions : MailIsOwn(s) /\ BusyIsOwn(s)
  /\ node = "up" => NodeInv
  /\ QuietAfterClose
  /\ MessagesInOrder

-----------------------------------------------------------------------------
(***************************************************************************)
(* Items, and the sequences that carry them.                               *)
(***************************************************************************)

\* What an item of each kind is about.
LEMMA ItemTypes ==
  /\ \A c \in Calls : Item("call", c, 0) \in Items /\ Item("rpc", c, 0) \in Items
  /\ \A c \in Calls, ok \in BOOLEAN : Response(c, ok) \in Items
  /\ \A a \in Asks : Item("ask", a, 0) \in Items /\ Item("answer", a, 0) \in Items
  /\ \A s \in Sessions : \A kind \in {"down"} \cup Events, n \in Nat : Item(kind, s, n) \in Items
BY DEF Item, Response, Items, Events

LEMMA ItemIds ==
  ASSUME NEW item \in Items
  PROVE  /\ item.kind \in {"call", "rpc", "response"} => item.id \in Calls
         /\ item.kind \in {"ask", "answer"} => item.id \in Asks
         /\ item.kind \in {"down"} \cup Events => item.id \in Sessions
         /\ item.n \in Nat
BY DEF Items, Events

\* A sequence after an item was put at its end.
LEMMA AppendItem ==
  ASSUME NEW q \in Seq(Items), NEW x \in Items
  PROVE  /\ Append(q, x) \in Seq(Items)
         /\ ToSet(Append(q, x)) = ToSet(q) \cup {x}
         /\ \A kind : Ids(Append(q, x), kind) = Ids(q, kind) \cup {y.id : y \in {z \in {x} : z.kind = kind}}
         /\ \A kind : Once(q, kind) /\ (x.kind = kind => x.id \notin Ids(q, kind))
                        => Once(Append(q, x), kind)
<1>1. /\ DOMAIN q = 1 .. Len(q)
      /\ DOMAIN Append(q, x) = 1 .. Len(q) + 1
      /\ \A i \in DOMAIN q : Append(q, x)[i] = q[i]
      /\ Append(q, x)[Len(q) + 1] = x
      /\ Len(q) \in Nat
      /\ Append(q, x) \in Seq(Items)
  OBVIOUS
<1>2. \A i \in DOMAIN Append(q, x) : i \in DOMAIN q \/ i = Len(q) + 1
  BY <1>1
<1>3. DOMAIN q \subseteq DOMAIN Append(q, x) /\ Len(q) + 1 \in DOMAIN Append(q, x)
  BY <1>1
<1>4. ToSet(Append(q, x)) = ToSet(q) \cup {x}
  BY <1>1, <1>2, <1>3 DEF ToSet
<1>5. ASSUME NEW kind
      PROVE  Ids(Append(q, x), kind) = Ids(q,
             kind) \cup {y.id : y \in {z \in {x} : z.kind = kind}}
  BY <1>4 DEF Ids
<1>6. ASSUME NEW kind, Once(q, kind), x.kind = kind => x.id \notin Ids(q, kind)
      PROVE  Once(Append(q, x), kind)
  <2>1. \A i \in DOMAIN q : q[i] \in ToSet(q)
    BY DEF ToSet
  <2>2. \A i \in DOMAIN q : q[i].kind = kind => q[i].id \in Ids(q, kind)
    BY <2>1 DEF Ids
  <2>3. \A i \in DOMAIN q : ~(q[i].kind = kind /\ x.kind = kind /\ q[i].id = x.id)
    BY <1>6, <2>2
  <2> QED
    BY <1>1, <1>2, <1>6, <2>3 DEF Once
<1> QED
  BY <1>1, <1>4, <1>5, <1>6

\* A sequence whose first item is taken.
LEMMA TakeItem ==
  ASSUME NEW q \in Seq(Items), q # << >>
  PROVE  /\ Head(q) \in Items
         /\ Tail(q) \in Seq(Items)
         /\ ToSet(q) = ToSet(Tail(q)) \cup {Head(q)}
         /\ \A kind : Ids(q, kind) = Ids(Tail(q), kind) \cup {y.id : y \in {z \in {Head(q)} : z.kind = kind}}
         /\ \A kind : Once(q, kind)
              => Once(Tail(q), kind) /\ (Head(q).kind = kind => Head(q).id \notin Ids(Tail(q), kind))
<1>1. /\ DOMAIN q = 1 .. Len(q)
      /\ Len(q) \in Nat \ {0}
      /\ DOMAIN Tail(q) = 1 .. Len(q) - 1
      /\ \A i \in DOMAIN Tail(q) : Tail(q)[i] = q[i + 1]
      /\ Head(q) = q[1]
      /\ Tail(q) \in Seq(Items) /\ Head(q) \in Items
  OBVIOUS
<1>2. /\ 1 \in DOMAIN q
      /\ \A i \in DOMAIN Tail(q) : i + 1 \in DOMAIN q /\ i + 1 # 1
      /\ \A i \in DOMAIN q : i = 1 \/ (i - 1 \in DOMAIN Tail(q) /\ (i - 1) + 1 = i)
      /\ \A i, j \in DOMAIN Tail(q) : i + 1 = j + 1 => i = j
  BY <1>1
<1>3. ToSet(q) = ToSet(Tail(q)) \cup {Head(q)}
  <2>1. \A i \in DOMAIN q : q[i] = Head(q) \/ q[i] \in ToSet(Tail(q))
    BY <1>1, <1>2 DEF ToSet
  <2>2. \A i \in DOMAIN Tail(q) : Tail(q)[i] \in ToSet(q)
    BY <1>1, <1>2 DEF ToSet
  <2>3. Head(q) \in ToSet(q)
    BY <1>1, <1>2 DEF ToSet
  <2> QED
    BY <2>1, <2>2, <2>3 DEF ToSet
<1>4. ASSUME NEW kind
      PROVE  Ids(q, kind) = Ids(Tail(q),
             kind) \cup {y.id : y \in {z \in {Head(q)} : z.kind = kind}}
  BY <1>3 DEF Ids
<1>5. ASSUME NEW kind, Once(q, kind)
      PROVE  Once(Tail(q),
             kind) /\ (Head(q).kind = kind => Head(q).id \notin Ids(Tail(q), kind))
  <2>1. Once(Tail(q), kind)
    BY <1>1, <1>2, <1>5 DEF Once
  <2>2. ASSUME Head(q).kind = kind, Head(q).id \in Ids(Tail(q), kind) PROVE FALSE
    <3>1. PICK i \in DOMAIN Tail(q) : Tail(q)[i].kind = kind /\ Tail(q)[i].id = Head(q).id
      BY <2>2 DEF Ids, ToSet
    <3> QED
      BY <1>1, <1>2, <1>5, <2>2, <3>1 DEF Once
  <2> QED
    BY <2>1, <2>2
<1> QED
  BY <1>1, <1>3, <1>4, <1>5

LEMMA AnsweredTypes ==
  ASSUME TypeOK, NEW C, NEW a \in Answers
  PROVE  Answered(C, a) \in [Calls -> {"unasked", "waiting"} \cup Answers]
BY DEF TypeOK, Answered

LEMMA DieTypes ==
  ASSUME TypeOK, NEW S, Die(S)
  PROVE  /\ process' \in [Sessions -> {"up", "dead"}]
         /\ busy' \in [Sessions -> Calls \cup {Nil}]
         /\ mailbox' \in [Sessions -> Seq(Items)]
BY DEF TypeOK, Die

-----------------------------------------------------------------------------
(***************************************************************************)
(* The type invariant.                                                     *)
(***************************************************************************)

\* The step of a session that serves the head of its mailbox.
LEMMA ServesTypes ==
  ASSUME TypeOK, NEW s \in Sessions, NEW kinds, Serves(s, kinds)
  PROVE  /\ Head(mailbox[s]) \in Items
         /\ Head(mailbox[s]).kind \in kinds
         /\ Taken(s) \in [Sessions -> Seq(Items)]
         /\ mailbox[s] \in Seq(Items) /\ mailbox[s] # << >>
<1>1. mailbox[s] \in Seq(Items) /\ mailbox[s] # << >> /\ Head(mailbox[s]).kind \in kinds
  BY DEF TypeOK, Serves
<1>2. Head(mailbox[s]) \in Items /\ Tail(mailbox[s]) \in Seq(Items)
  BY <1>1, TakeItem
<1>3. Taken(s) \in [Sessions -> Seq(Items)]
  BY <1>2 DEF Taken, TypeOK
<1> QED
  BY <1>1, <1>2, <1>3

LEMMA ReadsTypes ==
  ASSUME TypeOK, NEW kinds, Reads(kinds)
  PROVE  /\ toElixir \in Seq(Items) /\ toElixir # << >>
         /\ Head(toElixir) \in Items /\ Head(toElixir).kind \in kinds
         /\ toElixir' = Tail(toElixir) /\ toElixir' \in Seq(Items)
<1>1. toElixir \in Seq(Items) /\ toElixir # << >> /\ Head(toElixir).kind \in kinds
      /\ toElixir' = Tail(toElixir)
  BY DEF TypeOK, Reads
<1> QED
  BY <1>1, TakeItem

LEMMA NodeReadsTypes ==
  ASSUME TypeOK, NEW kind, NodeReads(kind)
  PROVE  /\ toNode \in Seq(Items) /\ toNode # << >>
         /\ Head(toNode) \in Items /\ Head(toNode).kind = kind
         /\ toNode' = Tail(toNode) /\ toNode' \in Seq(Items)
<1>1. toNode \in Seq(Items) /\ toNode # << >> /\ Head(toNode).kind = kind
      /\ toNode' = Tail(toNode)
  BY DEF TypeOK, NodeReads
<1> QED
  BY <1>1, TakeItem

LEMMA SessionTypes ==
  ASSUME TypeOK, NEW s \in Sessions, SessionStep(s) \/ RpcTimeout(s) \/ SessionDown(s)
  PROVE  TypeOK'
<1> USE SidecarAssumption
<1>1. CASE Refuse(s)
  <2>1. /\ mailbox' = Taken(s)
        /\ told' \in {Answered({Head(mailbox[s]).id}, a) : a \in {"ok", "bad_status"}}
        /\ UNCHANGED <<workerVars, process, status, busy, seen, pipeVars, nodeVars>>
        /\ Serves(s, {"call"})
    BY <1>1 DEF Refuse
  <2>2. told' \in [Calls -> {"unasked", "waiting"} \cup Answers]
    BY <2>1, AnsweredTypes DEF Answers
  <2> QED
    BY <2>1, <2>2, ServesTypes DEF TypeOK, workerVars, pipeVars, nodeVars
<1>2. CASE Issue(s)
  <2> DEFINE c == Head(mailbox[s]).id
  <2>1. /\ Serves(s, {"call"})
        /\ UNCHANGED <<worker, registered, status, seen, toElixir, nodeVars>>
    BY <1>2 DEF Issue
  <2>2. c \in Calls
    BY <2>1, ServesTypes, ItemIds
  <2>3. CASE /\ busy' = [busy EXCEPT ![s] = c]
             /\ pending' = pending \cup {c}
             /\ toNode' = IF node = "up" THEN Append(toNode, Item("rpc", c, 0)) ELSE toNode
             /\ mailbox' = Taken(s)
             /\ UNCHANGED <<process, told>>
    <3>1. toNode' \in Seq(Items)
      BY <2>2, <2>3, ItemTypes, AppendItem DEF TypeOK
    <3>2. mailbox' \in [Sessions -> Seq(Items)]
      BY <2>1, <2>3, ServesTypes
    <3> QED
      BY <2>1, <2>2, <2>3, <3>1, <3>2 DEF TypeOK, nodeVars
  <2>4. CASE /\ Die({s})
             /\ told' = Answered(CallsOf({s}), "exited")
             /\ UNCHANGED <<pending, toNode>>
    <3>1. told' \in [Calls -> {"unasked", "waiting"} \cup Answers]
      BY <2>4, AnsweredTypes DEF Answers
    <3> QED
      BY <2>1, <2>4, <3>1, DieTypes DEF TypeOK, nodeVars
  <2> QED
    BY <1>2, <2>3, <2>4 DEF Issue
<1>3. CASE Forward(s)
  <2>1. /\ Serves(s, Events)
        /\ mailbox' = Taken(s)
        /\ seen' = IF Head(mailbox[s]).kind = "message"
                   THEN [seen EXCEPT ![s] = Append(@, Head(mailbox[s]).n)] ELSE seen
        /\ status' = IF Head(mailbox[s]).kind = "closed" THEN [status EXCEPT ![s] = "closed"] ELSE status
        /\ UNCHANGED <<workerVars, process, busy, pipeVars, nodeVars, told>>
    BY <1>3 DEF Forward
  <2>2. Head(mailbox[s]).n \in Nat
    BY <2>1, ServesTypes, ItemIds
  <2>3. seen' \in [Sessions -> Seq(Nat)]
    BY <2>1, <2>2 DEF TypeOK
  <2> QED
    BY <2>1, <2>3, ServesTypes DEF TypeOK, workerVars, pipeVars, nodeVars
<1>4. CASE AnswerAsk(s)
  <2>1. /\ Serves(s, {"ask"})
        /\ mailbox' = Taken(s)
        /\ toNode' \in {toNode, Append(toNode, Item("answer", Head(mailbox[s]).id, 0))}
        /\ UNCHANGED <<workerVars, process, status, busy, seen, toElixir, nodeVars, told>>
    BY <1>4 DEF AnswerAsk
  <2>2. toNode' \in Seq(Items)
    <3> DEFINE a == Head(mailbox[s]).id
    <3>1. a \in Asks
      <4>1. Head(mailbox[s]) \in Items /\ Head(mailbox[s]).kind \in {"ask"}
        BY <2>1, ServesTypes
      <4> QED
        BY <4>1, ItemIds
    <3>2. Item("answer", a, 0) \in Items /\ toNode \in Seq(Items)
      BY <3>1, ItemTypes DEF TypeOK
    <3>3. Append(toNode, Item("answer", a, 0)) \in Seq(Items)
      BY <3>2, AppendItem
    <3> QED
      BY <2>1, <3>2, <3>3
  <2> QED
    BY <2>1, <2>2, ServesTypes DEF TypeOK, workerVars, nodeVars
<1>5. CASE SidecarDown(s)
  <2>1. told' \in [Calls -> {"unasked", "waiting"} \cup Answers]
    BY <1>5, AnsweredTypes DEF Answers, SidecarDown
  <2> QED
    BY <1>5, <2>1, DieTypes DEF TypeOK, SidecarDown, workerVars, pipeVars, nodeVars
<1>6. CASE RpcTimeout(s)
  <2>1. told' \in [Calls -> {"unasked", "waiting"} \cup Answers]
    BY <1>6, AnsweredTypes DEF Answers, RpcTimeout
  <2> QED
    BY <1>6, <2>1, DieTypes DEF TypeOK, RpcTimeout, workerVars, pipeVars, nodeVars
<1>7. CASE SessionDown(s)
  BY <1>7 DEF SessionDown, TypeOK, sessionVars, pipeVars, nodeVars
<1> QED
  BY <1>1, <1>2, <1>3, <1>4, <1>5, <1>6, <1>7 DEF SessionStep

LEMMA WorkerTypes ==
  ASSUME TypeOK, WorkerReads \/ ExitStatus \/ WorkerStops
  PROVE  TypeOK'
<1> USE SidecarAssumption
<1>1. CASE ReplyPending
  <2> DEFINE c == Head(toElixir).id
             s == Target[c]
  <2>1. /\ Reads({"response"})
        /\ pending' = pending \ {c}
        /\ \/ Resume(s, c, Head(toElixir).n = 1)
           \/ UNCHANGED <<busy, status, registered, told>>
        /\ UNCHANGED <<worker, process, mailbox, seen, toNode, nodeVars>>
    BY <1>1 DEF ReplyPending
  <2>2. c \in Calls /\ toElixir' \in Seq(Items)
    BY <2>1, ReadsTypes, ItemIds
  <2>3. CASE Resume(s, c, Head(toElixir).n = 1)
    <3>1. /\ busy' = [busy EXCEPT ![s] = Nil]
          /\ registered' \subseteq registered
          /\ status' = status \/ status' = [status EXCEPT ![s] = "ready"]
                      \/ status' = [status EXCEPT ![s] = "closed"]
          /\ told' \in {Answered({c}, a) : a \in {"ok", "error"}}
      BY <2>3 DEF Resume
    <3>2. told' \in [Calls -> {"unasked", "waiting"} \cup Answers]
      BY <3>1, AnsweredTypes DEF Answers
    <3> QED
      BY <2>1, <2>2, <3>1, <3>2 DEF TypeOK, nodeVars
  <2> QED
    BY <2>1, <2>2, <2>3 DEF TypeOK, nodeVars
<1>2. CASE RouteNotification
  <2> DEFINE s == Head(toElixir).id
  <2>1. /\ Reads(Events)
        /\ mailbox' \in {mailbox, [mailbox EXCEPT ![s] = Append(@, Head(toElixir))]}
        /\ UNCHANGED <<workerVars, process, status, busy, seen, toNode, nodeVars, told>>
    BY <1>2 DEF RouteNotification, Routed
  <2>2. s \in Sessions /\ toElixir' \in Seq(Items) /\ Head(toElixir) \in Items
    BY <2>1, ReadsTypes, ItemIds
  <2>3. mailbox' \in [Sessions -> Seq(Items)]
    <3>1. mailbox[s] \in Seq(Items) /\ mailbox \in [Sessions -> Seq(Items)]
      BY <2>2 DEF TypeOK
    <3>2. Append(mailbox[s], Head(toElixir)) \in Seq(Items)
      BY <2>2, <3>1, AppendItem
    <3> QED
      BY <2>1, <2>2, <3>1, <3>2
  <2> QED
    BY <2>1, <2>2, <2>3 DEF TypeOK, workerVars, nodeVars
<1>3. CASE RouteInboundRequest
  <2> DEFINE a == Head(toElixir).id
             s == Target[a]
  <2>1. /\ Reads({"ask"})
        /\ mailbox' \in {mailbox, [mailbox EXCEPT ![s] = Append(@, Head(toElixir))]}
        /\ toNode' \in {toNode, Append(toNode, Item("answer", a, 0))}
        /\ UNCHANGED <<workerVars, process, status, busy, seen, nodeVars, told>>
    BY <1>3 DEF RouteInboundRequest, Routed
  <2>2. a \in Asks /\ s \in Sessions /\ toElixir' \in Seq(Items) /\ Head(toElixir) \in Items
    BY <2>1, ReadsTypes, ItemIds
  <2>3. mailbox' \in [Sessions -> Seq(Items)]
    <3>1. mailbox[s] \in Seq(Items) /\ mailbox \in [Sessions -> Seq(Items)]
      BY <2>2 DEF TypeOK
    <3>2. Append(mailbox[s], Head(toElixir)) \in Seq(Items)
      BY <2>2, <3>1, AppendItem
    <3> QED
      BY <2>1, <2>2, <3>1, <3>2
  <2>4. toNode' \in Seq(Items)
    <3>1. Item("answer", a, 0) \in Items /\ toNode \in Seq(Items)
      BY <2>2, ItemTypes DEF TypeOK
    <3>2. Append(toNode, Item("answer", a, 0)) \in Seq(Items)
      BY <3>1, AppendItem
    <3> QED
      BY <2>1, <3>1, <3>2
  <2> QED
    BY <2>1, <2>2, <2>3, <2>4 DEF TypeOK, workerVars, nodeVars
<1>4. CASE ExitStatus
  <2> DEFINE closing == {s \in Sessions : busy[s] # Nil /\ Method[busy[s]] = "close"}
             told_down == {s \in Sessions \ closing : process[s] = "up" /\ s \in registered}
  <2>1. /\ worker' = "exited"
        /\ pending' = {}
        /\ process' = [s \in Sessions |-> IF s \in closing THEN "dead" ELSE process[s]]
        /\ busy' = [s \in Sessions |-> Nil]
        /\ mailbox' = [s \in Sessions |->
              IF s \in closing THEN << >>
              ELSE IF s \in told_down THEN Append(mailbox[s], Item("down", s, 0))
              ELSE mailbox[s]]
        /\ told' = [c \in Calls |->
              IF told[c] # "waiting" THEN told[c]
              ELSE IF Target[c] \in closing THEN "exited"
              ELSE IF busy[Target[c]] = c THEN "down"
              ELSE "waiting"]
        /\ UNCHANGED <<registered, status, seen, pipeVars, nodeVars>>
    BY <1>4 DEF ExitStatus
  <2>2. \A s \in Sessions : Append(mailbox[s], Item("down", s, 0)) \in Seq(Items)
    BY ItemTypes, AppendItem DEF TypeOK
  <2> HIDE DEF closing, told_down
  <2>3. mailbox' \in [Sessions -> Seq(Items)]
    BY <2>1, <2>2 DEF TypeOK
  <2>4. told' \in [Calls -> {"unasked", "waiting"} \cup Answers]
    BY <2>1 DEF TypeOK, Answers
  <2>5. process' \in [Sessions -> {"up", "dead"}] /\ busy' \in [Sessions -> Calls \cup {Nil}]
    BY <2>1 DEF TypeOK
  <2> QED
    BY <2>1, <2>3, <2>4, <2>5 DEF TypeOK, pipeVars, nodeVars
<1>5. CASE WorkerStops
  <2> DEFINE blocked == {s \in Sessions : busy[s] # Nil}
  <2>1. /\ worker' = "stopped"
        /\ pending' = {}
        /\ Die(blocked)
        /\ told' = Answered(CallsOf(blocked), "exited")
        /\ node' = "down"
        /\ toNode' = << >>
        /\ toElixir' = << >>
        /\ sessions' = {}
        /\ working' = {}
        /\ ask' = [a \in Asks |-> IF ask[a] = "waiting" THEN "lost" ELSE ask[a]]
        /\ UNCHANGED <<registered, status, seen, env, emitted>>
    BY <1>5 DEF WorkerStops
  <2> HIDE DEF blocked
  <2>2. told' \in [Calls -> {"unasked", "waiting"} \cup Answers]
    BY <2>1, AnsweredTypes DEF Answers
  <2>3. ask' \in [Asks -> {"unasked", "waiting"} \cup Ends]
    BY <2>1 DEF TypeOK, Ends
  <2> QED
    BY <2>1, <2>2, <2>3, DieTypes DEF TypeOK
<1> QED
  BY <1>1, <1>2, <1>3, <1>4, <1>5 DEF WorkerReads

\* An answer, an event or a request that Node writes.
LEMMA NodeWrites ==
  ASSUME TypeOK
  PROVE  /\ \A c \in Calls, ok \in BOOLEAN :
              /\ Response(c, ok) \in Items
              /\ Append(toElixir, Response(c, ok)) \in Seq(Items)
         /\ \A s \in Sessions : \A kind \in Events, n \in Nat :
              /\ Item(kind, s, n) \in Items
              /\ Append(toElixir, Item(kind, s, n)) \in Seq(Items)
         /\ \A a \in Asks : Append(toElixir, Item("ask", a, 0)) \in Seq(Items)
<1>1. toElixir \in Seq(Items)
  BY DEF TypeOK
<1>2. \A x \in Items : Append(toElixir, x) \in Seq(Items)
  BY <1>1, AppendItem
<1> QED
  BY <1>2, ItemTypes

\* What the pump of a session that is closing leaves in the pipe.
LEMMA LastWords ==
  ASSUME TypeOK, NEW s \in Sessions, NEW c \in Calls,
         NEW tail \in {<< >>, <<Item("error", s, 0)>>}
  PROVE  toElixir \o tail \o <<Response(c, TRUE)>> \in
           {Append(toElixir, Response(c, TRUE)),
            Append(Append(toElixir, Item("error", s, 0)), Response(c, TRUE))}
<1>1. /\ toElixir \in Seq(Items)
      /\ Response(c, TRUE) \in Items
      /\ Item("error", s, 0) \in Items
  BY ItemTypes DEF TypeOK, Events
<1>2. \A q \in Seq(Items), x \in Items : q \o <<x>> = Append(q, x) /\ Append(q, x) \in Seq(Items)
  BY AppendItem, AppendIsConcat
<1>3. toElixir \o << >> = toElixir
  BY <1>1, ConcatEmptySeq
<1> QED
  BY <1>1, <1>2, <1>3

LEMMA NodeTypes ==
  ASSUME TypeOK,
         \/ \E s \in Sessions : NodeStep(s)
         \/ \E c \in Calls : ControlEnds(c)
         \/ Feed \/ Dispatch \/ NodeExits
         \/ \E a \in Asks : AskElixir(a) \/ AskTimeout(a)
  PROVE  TypeOK'
<1> USE SidecarAssumption
<1>1. ASSUME NEW s \in Sessions, ClosingPumpEnds(s) PROVE TypeOK'
  <2>1. PICK tail \in {<< >>, <<Item("error", s, 0)>>}, d \in working :
          /\ toElixir' = toElixir \o tail \o <<Response(d, TRUE)>>
          /\ working' = working \ {d}
    BY <1>1 DEF ClosingPumpEnds
  <2>2. d \in Calls
    BY DEF TypeOK
  <2>3. toElixir' \in Seq(Items)
    <3>1. toElixir \in Seq(Items) /\ Item("error", s, 0) \in Items /\ Response(d, TRUE) \in Items
      BY <2>2, ItemTypes DEF TypeOK, Events
    <3>2. \A q \in Seq(Items), x \in Items : Append(q, x) \in Seq(Items)
      BY AppendItem
    <3>3. toElixir' \in {Append(toElixir, Response(d, TRUE)),
            Append(Append(toElixir, Item("error", s, 0)), Response(d, TRUE))}
      BY <2>1, <2>2, LastWords
    <3>4. Append(toElixir, Item("error", s, 0)) \in Seq(Items)
      BY <3>1, <3>2
    <3>5. /\ Append(toElixir, Response(d, TRUE)) \in Seq(Items)
          /\ Append(Append(toElixir, Item("error", s, 0)), Response(d, TRUE)) \in Seq(Items)
      BY <3>1, <3>2, <3>4
    <3> QED
      BY <3>3, <3>5
  <2> QED
    BY <1>1, <2>1, <2>3 DEF ClosingPumpEnds, TypeOK, workerVars, sessionVars
<1>2. ASSUME NEW s \in Sessions, PumpMessage(s) PROVE TypeOK'
  <2>1. /\ emitted' = [emitted EXCEPT ![s] = @ + 1]
        /\ emitted[s] \in 0 .. MaxMessages /\ emitted[s] < MaxMessages
        /\ toElixir' = Append(toElixir, Item("message", s, emitted'[s]))
    BY <1>2 DEF PumpMessage, TypeOK
  <2>2. emitted' \in [Sessions -> 0 .. MaxMessages] /\ emitted'[s] \in Nat
    BY <2>1 DEF TypeOK
  <2>3. toElixir' \in Seq(Items)
    BY <2>1, <2>2, NodeWrites DEF Events
  <2> QED
    BY <1>2, <2>2, <2>3 DEF PumpMessage, TypeOK, workerVars, sessionVars
<1>3. ASSUME NEW s \in Sessions, PumpEnds(s) PROVE TypeOK'
  <2>1. \E kind \in Events : toElixir' = Append(toElixir, Item(kind, s, 0))
    <3>1. "closed" \in Events /\ "error" \in Events
      BY DEF Events
    <3> QED
      BY ONLY <1>3, <3>1 DEF PumpEnds
  <2>2. toElixir' \in Seq(Items)
    BY <2>1, NodeWrites
  <2>3. env' \in [Sessions -> {"none", "open", "done", "failed", "closing", "closed"}]
    BY <1>3 DEF PumpEnds, TypeOK
  <2>4. UNCHANGED <<worker, pending, registered, process, status, busy, mailbox, seen,
                    toNode, node, sessions, working, emitted, ask, told>>
    BY <1>3 DEF PumpEnds, workerVars, sessionVars
  <2> QED
    BY <2>2, <2>3, <2>4 DEF TypeOK
<1>4. ASSUME NEW c \in Calls, ControlEnds(c) PROVE TypeOK'
  <2>1. toElixir' \in Seq(Items)
    BY <1>4, NodeWrites DEF ControlEnds
  <2> QED
    BY <1>4, <2>1 DEF ControlEnds, TypeOK, workerVars, sessionVars
<1>5. CASE Feed
  <2>1. /\ NodeReads("answer")
        /\ ask' = [ask EXCEPT ![Head(toNode).id] = IF @ = "waiting" THEN "answered" ELSE @]
        /\ UNCHANGED <<workerVars, sessionVars, toElixir, node, sessions, env, working,
                       emitted, told>>
    BY <1>5 DEF Feed
  <2>2. ask' \in [Asks -> {"unasked", "waiting"} \cup Ends]
    BY <2>1 DEF TypeOK, Ends
  <2> QED
    BY <2>1, <2>2, NodeReadsTypes DEF TypeOK, workerVars, sessionVars
<1>6. CASE Dispatch
  <2> DEFINE d == Head(toNode).id
             t == Target[d]
  <2>1. NodeReads("rpc") /\ UNCHANGED <<workerVars, sessionVars, node, emitted, ask, told>>
    BY <1>6 DEF Dispatch
  <2>2. Head(toNode) \in Items /\ Head(toNode).kind = "rpc" /\ toNode' \in Seq(Items)
    BY <2>1, NodeReadsTypes
  <2>3. d \in Calls /\ t \in Sessions
    BY <2>2, ItemIds
  <2>6. DispatchCreate(d) \/ DispatchSend(d) \/ DispatchControl(d) \/ DispatchClose(d)
    <3>1. Method[d] \in {"create", "send", "control", "close"}
      BY <2>3
    <3> QED
      BY <1>6, <3>1 DEF Dispatch
  <2>4. /\ toElixir' \in {toElixir} \cup {Append(toElixir, Response(d, ok)) : ok \in BOOLEAN}
        /\ sessions' \subseteq Sessions
        /\ env' \in {env} \cup {[env EXCEPT ![t] = e] : e \in {"open", "closing", "closed"}}
        /\ working' \subseteq Calls
    <3>1. CASE DispatchCreate(d)
      <4>1. /\ sessions \subseteq Sessions /\ sessions' \in {sessions, sessions \cup {t}}
            /\ env' \in {env, [env EXCEPT ![t] = "open"]}
            /\ working \subseteq Calls /\ working' = working
        BY <3>1 DEF DispatchCreate, TypeOK
      <4>2. \E ok \in BOOLEAN : toElixir' = Append(toElixir, Response(d, ok))
        BY <3>1 DEF DispatchCreate
      <4> QED
        BY ONLY <2>3, <4>1, <4>2
    <3>2. CASE DispatchSend(d)
      BY <2>3, <3>2 DEF DispatchSend, TypeOK, Usable
    <3>3. CASE DispatchControl(d)
      <4>1. working \subseteq Calls /\ working' \in {working, working \cup {d}}
            /\ sessions \subseteq Sessions /\ sessions' = sessions /\ env' = env
        BY <3>3 DEF DispatchControl, TypeOK
      <4>2. toElixir' = toElixir \/ toElixir' = Append(toElixir, Response(d, FALSE))
        BY <3>3 DEF DispatchControl
      <4> QED
        BY ONLY <2>3, <4>1, <4>2
    <3>4. CASE DispatchClose(d)
      <4>1. /\ sessions \subseteq Sessions /\ sessions' \in {sessions, sessions \ {t}}
            /\ env' \in {env, [env EXCEPT ![t] = "closing"], [env EXCEPT ![t] = "closed"]}
            /\ working \subseteq Calls /\ working' \in {working, working \cup {d}}
        BY <3>4 DEF DispatchClose, TypeOK
      <4>2. \/ toElixir' = toElixir
            \/ \E ok \in BOOLEAN : toElixir' = Append(toElixir, Response(d, ok))
        BY <3>4 DEF DispatchClose
      <4> QED
        BY ONLY <2>3, <4>1, <4>2
    <3> QED
      BY <2>6, <3>1, <3>2, <3>3, <3>4
  <2>5. toElixir' \in Seq(Items)
    <3>1. \A ok \in BOOLEAN : Append(toElixir, Response(d, ok)) \in Seq(Items)
      BY <2>3, NodeWrites
    <3> QED
      BY <2>4, <3>1 DEF TypeOK
  <2>7. env' \in [Sessions -> {"none", "open", "done", "failed", "closing", "closed"}]
    <3>1. env \in [Sessions -> {"none", "open", "done", "failed", "closing", "closed"}]
      BY DEF TypeOK
    <3> HIDE DEF t
    <3> QED
      BY ONLY <2>3, <2>4, <3>1
  <2>8. UNCHANGED <<worker, pending, registered, process, status, busy, mailbox, seen, node,
                    emitted, ask, told>>
    BY <2>1 DEF workerVars, sessionVars
  <2>9. sessions' \subseteq Sessions /\ working' \subseteq Calls
    BY <2>4
  <2> HIDE DEF d, t
  <2>10. toNode' \in Seq(Items)
    BY <2>2
  <2> QED
    BY <2>5, <2>7, <2>8, <2>9, <2>10 DEF TypeOK
<1>7. CASE NodeExits
  <2>1. PICK n \in 0 .. Len(toElixir) : toElixir' = SubSeq(toElixir, 1, n)
    BY <1>7 DEF NodeExits
  <2>2. toElixir' \in Seq(Items)
    BY <2>1 DEF TypeOK
  <2>3. ask' \in [Asks -> {"unasked", "waiting"} \cup Ends]
    BY <1>7 DEF NodeExits, TypeOK, Ends
  <2> QED
    BY <1>7, <2>2, <2>3 DEF NodeExits, TypeOK, workerVars, sessionVars
<1>8. ASSUME NEW a \in Asks, AskElixir(a) PROVE TypeOK'
  <2>1. toElixir' \in Seq(Items)
    BY <1>8, NodeWrites DEF AskElixir
  <2> QED
    BY <1>8, <2>1 DEF AskElixir, TypeOK, workerVars, sessionVars
<1>9. ASSUME NEW a \in Asks, AskTimeout(a) PROVE TypeOK'
  BY <1>9 DEF AskTimeout, TypeOK, Ends, workerVars, sessionVars, pipeVars
<1> QED
  BY <1>1, <1>2, <1>3, <1>4, <1>5, <1>6, <1>7, <1>8, <1>9 DEF NodeStep

LEMMA CallerTypes ==
  ASSUME TypeOK, NEW c \in Calls, ApiCall(c) \/ ApiTimeout(c)
  PROVE  TypeOK'
<1> USE SidecarAssumption
<1>1. CASE ApiCall(c)
  <2>1. /\ told' \in {[told EXCEPT ![c] = "waiting"], [told EXCEPT ![c] = "exited"]}
        /\ mailbox' \in {mailbox, [mailbox EXCEPT ![Target[c]] = Append(@, Item("call", c, 0))]}
        /\ UNCHANGED <<workerVars, process, status, busy, seen, pipeVars, nodeVars>>
    BY <1>1 DEF ApiCall
  <2>2. mailbox[Target[c]] \in Seq(Items) /\ Item("call", c, 0) \in Items
    BY ItemTypes DEF TypeOK
  <2>3. Append(mailbox[Target[c]], Item("call", c, 0)) \in Seq(Items)
    BY <2>2, AppendItem
  <2>4. mailbox' \in [Sessions -> Seq(Items)]
    <3>1. mailbox \in [Sessions -> Seq(Items)]
      BY DEF TypeOK
    <3> QED
      BY ONLY <2>1, <2>3, <3>1
  <2>5. told' \in [Calls -> {"unasked", "waiting"} \cup Answers]
    BY <2>1 DEF TypeOK, Answers
  <2> QED
    BY <2>1, <2>4, <2>5 DEF TypeOK, workerVars, pipeVars, nodeVars
<1>2. CASE ApiTimeout(c)
  BY <1>2 DEF ApiTimeout, TypeOK, Answers, workerVars, sessionVars, pipeVars, nodeVars
<1> QED
  BY <1>1, <1>2

LEMMA TypeStep == ASSUME TypeOK, [Next]_vars PROVE TypeOK'
<1>1. CASE UNCHANGED vars
  BY <1>1 DEF TypeOK, vars, workerVars, sessionVars, pipeVars, nodeVars
<1>2. CASE Next
  <2>1. ASSUME NEW c \in Calls, ApiCall(c) \/ ApiTimeout(c) PROVE TypeOK'
    BY <2>1, CallerTypes
  <2>2. ASSUME NEW s \in Sessions, SessionStep(s) \/ RpcTimeout(s) \/ SessionDown(s)
        PROVE  TypeOK'
    BY <2>2, SessionTypes
  <2>3. CASE WorkerReads \/ ExitStatus \/ WorkerStops
    BY <2>3, WorkerTypes
  <2>4. CASE \/ \E s \in Sessions : NodeStep(s)
             \/ \E c \in Calls : ControlEnds(c)
             \/ Feed \/ Dispatch \/ NodeExits
             \/ \E a \in Asks : AskElixir(a) \/ AskTimeout(a)
    BY <2>4, NodeTypes
  <2>5. \/ \E c \in Calls : ApiCall(c) \/ ApiTimeout(c)
        \/ \E s \in Sessions : SessionStep(s) \/ RpcTimeout(s) \/ SessionDown(s)
        \/ WorkerReads \/ ExitStatus \/ WorkerStops
        \/ \/ \E s \in Sessions : NodeStep(s)
           \/ \E c \in Calls : ControlEnds(c)
           \/ Feed \/ Dispatch \/ NodeExits
           \/ \E a \in Asks : AskElixir(a) \/ AskTimeout(a)
    BY <1>2 DEF Next
  <2> QED
    BY <2>1, <2>2, <2>3, <2>4, <2>5
<1> QED
  BY <1>1, <1>2

-----------------------------------------------------------------------------
(***************************************************************************)
(* The mailboxes and the calls for which the sessions are blocked.         *)
(***************************************************************************)

\* A mailbox loses items, or gains one of its session's own.
MailGains(s, item) ==
  \/ item.kind = "call" /\ Target[item.id] = s
  \/ item.kind \in {"ask", "down"}
  \/ item.kind \in Events /\ item.id = s /\ item \in ToSet(toElixir)

MailMoves(s) ==
  \A item \in ToSet(mailbox'[s]) : item \in ToSet(mailbox[s]) \/ MailGains(s, item)

LEMMA TakenMoves ==
  ASSUME TypeOK, NEW s \in Sessions, NEW kinds, Serves(s, kinds), mailbox' = Taken(s)
  PROVE  \A t \in Sessions : MailMoves(t)
<1>1. ToSet(Tail(mailbox[s])) \subseteq ToSet(mailbox[s])
  BY ServesTypes, TakeItem
<1>2. \A t \in Sessions : mailbox'[t] = IF t = s THEN Tail(mailbox[s]) ELSE mailbox[t]
  BY DEF Taken, TypeOK
<1> QED
  BY <1>1, <1>2 DEF MailMoves

LEMMA DieMoves ==
  ASSUME TypeOK, NEW S, Die(S)
  PROVE  \A s \in Sessions : MailMoves(s)
<1>1. \A s \in Sessions : mailbox'[s] = << >> \/ mailbox'[s] = mailbox[s]
  BY DEF Die
<1>2. ToSet(<< >>) = {}
  BY DEF ToSet
<1> QED
  BY <1>1, <1>2 DEF MailMoves

LEMMA PutMoves ==
  ASSUME TypeOK, NEW s \in Sessions, NEW item \in Items, MailGains(s, item),
         mailbox' \in {mailbox, [mailbox EXCEPT ![s] = Append(@, item)]}
  PROVE  \A t \in Sessions : MailMoves(t)
<1>1. mailbox[s] \in Seq(Items)
  BY DEF TypeOK
<1>2. ToSet(Append(mailbox[s], item)) = ToSet(mailbox[s]) \cup {item}
  BY <1>1, AppendItem
<1>3. \A t \in Sessions : \/ mailbox'[t] = mailbox[t]
                          \/ t = s /\ mailbox'[t] = Append(mailbox[s], item)
  BY DEF TypeOK
<1> QED
  BY <1>2, <1>3 DEF MailMoves

LEMMA MailStep ==
  ASSUME TypeOK, [Next]_vars
  PROVE  \A s \in Sessions : MailMoves(s)
<1> USE SidecarAssumption
<1>1. ASSUME mailbox' = mailbox PROVE \A s \in Sessions : MailMoves(s)
  BY <1>1 DEF MailMoves
<1>2. ASSUME NEW c \in Calls, ApiCall(c) PROVE \A s \in Sessions : MailMoves(s)
  <2>1. /\ mailbox' \in {mailbox, [mailbox EXCEPT ![Target[c]] = Append(@, Item("call", c, 0))]}
        /\ Item("call", c, 0) \in Items
        /\ Target[c] \in Sessions
    BY <1>2, ItemTypes DEF ApiCall
  <2>2. MailGains(Target[c], Item("call", c, 0))
    BY DEF MailGains, Item
  <2> QED
    BY <2>1, <2>2, PutMoves
<1>3. ASSUME NEW s \in Sessions, SessionStep(s) \/ RpcTimeout(s)
      PROVE  \A t \in Sessions : MailMoves(t)
  <2>1. \/ \E kinds : Serves(s, kinds) /\ mailbox' = Taken(s)
        \/ Die({s})
    <3>1. CASE Refuse(s)
      BY <3>1 DEF Refuse
    <3>2. CASE Issue(s)
      BY <3>2 DEF Issue
    <3>3. CASE Forward(s)
      BY <3>3 DEF Forward
    <3>4. CASE AnswerAsk(s)
      BY <3>4 DEF AnswerAsk
    <3>5. CASE SidecarDown(s)
      BY <3>5 DEF SidecarDown
    <3>6. CASE RpcTimeout(s)
      BY <3>6 DEF RpcTimeout
    <3> QED
      BY <1>3, <3>1, <3>2, <3>3, <3>4, <3>5, <3>6 DEF SessionStep
  <2> QED
    BY <2>1, TakenMoves, DieMoves
<1>4. ASSUME RouteNotification PROVE \A s \in Sessions : MailMoves(s)
  <2> DEFINE item == Head(toElixir)
             s == item.id
  <2>1. /\ Reads(Events)
        /\ mailbox' \in {mailbox, [mailbox EXCEPT ![s] = Append(@, item)]}
    BY <1>4 DEF RouteNotification, Routed
  <2>2. item \in Items /\ item.kind \in Events /\ item \in ToSet(toElixir)
    BY <2>1, ReadsTypes, TakeItem
  <2>3. s \in Sessions
    BY <2>2, ItemIds
  <2>4. MailGains(s, item)
    BY <2>2 DEF MailGains
  <2> QED
    BY <2>1, <2>2, <2>3, <2>4, PutMoves
<1>5. ASSUME RouteInboundRequest PROVE \A s \in Sessions : MailMoves(s)
  <2> DEFINE item == Head(toElixir)
             s == Target[item.id]
  <2>1. /\ Reads({"ask"})
        /\ mailbox' \in {mailbox, [mailbox EXCEPT ![s] = Append(@, item)]}
    BY <1>5 DEF RouteInboundRequest, Routed
  <2>2. item \in Items /\ item.kind = "ask"
    BY <2>1, ReadsTypes
  <2>3. s \in Sessions
    BY <2>2, ItemIds
  <2>4. MailGains(s, item)
    BY <2>2 DEF MailGains
  <2> QED
    BY <2>1, <2>2, <2>3, <2>4, PutMoves
<1>6. ASSUME ExitStatus PROVE \A s \in Sessions : MailMoves(s)
  <2>1. \A s \in Sessions : mailbox'[s] \in {<< >>, mailbox[s], Append(mailbox[s], Item("down", s, 0))}
    BY <1>6 DEF ExitStatus
  <2>2. \A s \in Sessions : mailbox[s] \in Seq(Items) /\ Item("down", s, 0) \in Items
    BY ItemTypes DEF TypeOK
  <2>3. \A s \in Sessions : ToSet(Append(mailbox[s], Item("down", s, 0))) =
          ToSet(mailbox[s]) \cup {Item("down", s, 0)}
    BY <2>2, AppendItem
  <2>4. ToSet(<< >>) = {}
    BY DEF ToSet
  <2>5. \A s \in Sessions : MailGains(s, Item("down", s, 0))
    BY DEF MailGains, Item
  <2> QED
    BY <2>1, <2>3, <2>4, <2>5 DEF MailMoves
<1>7. ASSUME WorkerStops PROVE \A s \in Sessions : MailMoves(s)
  BY <1>7, DieMoves DEF WorkerStops
<1>8. \/ mailbox' = mailbox
      \/ \E c \in Calls : ApiCall(c)
      \/ \E s \in Sessions : SessionStep(s) \/ RpcTimeout(s)
      \/ RouteNotification \/ RouteInboundRequest \/ ExitStatus \/ WorkerStops
  <2>1. CASE UNCHANGED vars
    BY <2>1 DEF vars, sessionVars
  <2>2. ASSUME NEW c \in Calls, ApiTimeout(c) \/ ControlEnds(c) PROVE mailbox' = mailbox
    BY <2>2 DEF ApiTimeout, ControlEnds, sessionVars
  <2>3. ASSUME NEW s \in Sessions, SessionDown(s) \/ NodeStep(s) PROVE mailbox' = mailbox
    BY <2>3 DEF SessionDown, NodeStep, ClosingPumpEnds, PumpMessage, PumpEnds, sessionVars
  <2>4. ASSUME ReplyPending \/ Feed \/ Dispatch \/ NodeExits PROVE mailbox' = mailbox
    BY <2>4 DEF ReplyPending, Feed, Dispatch, NodeExits, sessionVars
  <2>5. ASSUME NEW a \in Asks, AskElixir(a) \/ AskTimeout(a) PROVE mailbox' = mailbox
    BY <2>5 DEF AskElixir, AskTimeout, sessionVars
  <2> QED
    BY <2>1, <2>2, <2>3, <2>4, <2>5 DEF Next, WorkerReads
<1> QED
  BY <1>1, <1>2, <1>3, <1>4, <1>5, <1>6, <1>7, <1>8

LEMMA OwnStep ==
  ASSUME TypeOK, [Next]_vars, NEW s \in Sessions, MailIsOwn(s)
  PROVE  MailIsOwn(s)'
BY MailStep DEF MailIsOwn, MailMoves, MailGains, Events

\* A session is blocked for the call that it has taken from its mailbox, and changes
\* neither that nor its status until it is no longer blocked.
LEMMA BusyStep ==
  ASSUME TypeOK, [Next]_vars, NEW s \in Sessions, MailIsOwn(s), BusyIsOwn(s)
  PROVE  BusyIsOwn(s)'
<1> USE SidecarAssumption
<1>1. ASSUME busy'[s] = Nil PROVE BusyIsOwn(s)'
  BY <1>1 DEF BusyIsOwn
<1>2. ASSUME busy'[s] = busy[s], status'[s] = status[s],
             worker' = "up" => worker = "up" /\ pending \subseteq pending' \cup {c \in Calls : busy[s] # c}
      PROVE  BusyIsOwn(s)'
  BY <1>2 DEF BusyIsOwn, Accepts, TypeOK
<1>3. ASSUME NEW t \in Sessions, Issue(t) PROVE BusyIsOwn(s)'
  <2> DEFINE c == Head(mailbox[t]).id
  <2>1. /\ Serves(t, {"call"}) /\ Accepts(t, Method[c])
        /\ UNCHANGED <<worker, registered, status, seen, toElixir, nodeVars>>
    BY <1>3 DEF Issue
  <2>2. CASE busy' = [busy EXCEPT ![t] = c] /\ pending' = pending \cup {c}
    <3>1. CASE t = s
      <4>1. /\ Head(mailbox[s]) \in ToSet(mailbox[s]) /\ Head(mailbox[s]).kind = "call"
            /\ Head(mailbox[s]) \in Items
        BY <2>1, <3>1, ServesTypes, TakeItem
      <4>2. Target[c] = s /\ c \in Calls
        BY <3>1, <4>1, ItemIds DEF MailIsOwn
      <4>3. busy'[s] = c /\ status'[s] = status[s] /\ c \in pending'
        BY <2>1, <2>2, <3>1 DEF TypeOK
      <4> QED
        BY <2>1, <3>1, <4>2, <4>3 DEF BusyIsOwn, Accepts
    <3>2. CASE t # s
      <4>1. busy'[s] = busy[s] /\ status'[s] = status[s] /\ worker' = worker
            /\ pending \subseteq pending'
        BY <2>1, <2>2, <3>2 DEF TypeOK
      <4> QED
        BY <1>2, <4>1
    <3> QED
      BY <3>1, <3>2
  <2>3. CASE Die({t}) /\ UNCHANGED pending
    <3>1. busy'[s] \in {Nil, busy[s]} /\ status' = status /\ worker' = worker /\ pending' = pending
      BY <2>1, <2>3 DEF Die
    <3> QED
      BY <1>1, <1>2, <3>1
  <2> QED
    BY <1>3, <2>2, <2>3 DEF Issue
<1>4. ASSUME NEW t \in Sessions, SidecarDown(t) \/ RpcTimeout(t) PROVE BusyIsOwn(s)'
  <2>1. /\ Die({t})
        /\ status'[s] = status[s] \/ s = t
        /\ UNCHANGED workerVars
    BY <1>4 DEF SidecarDown, RpcTimeout, TypeOK
  <2>2. busy'[s] = IF s = t THEN Nil ELSE busy[s]
    BY <2>1 DEF Die
  <2> QED
    BY <1>1, <1>2, <2>1, <2>2 DEF workerVars
<1>5. ASSUME NEW t \in Sessions, Forward(t) PROVE BusyIsOwn(s)'
  <2>1. /\ busy[t] = Nil
        /\ busy' = busy
        /\ status'[s] = status[s] \/ s = t
        /\ UNCHANGED workerVars
    BY <1>5 DEF Forward, Serves, TypeOK
  <2> QED
    BY <1>1, <1>2, <2>1 DEF workerVars
<1>6. ASSUME ReplyPending PROVE BusyIsOwn(s)'
  <2> DEFINE c == Head(toElixir).id
             t == Target[c]
  <2>1. /\ pending' = pending \ {c}
        /\ IF c \in pending /\ busy[t] = c
           THEN Resume(t, c, Head(toElixir).n = 1)
           ELSE UNCHANGED <<busy, status, registered, told>>
        /\ UNCHANGED worker
        /\ Reads({"response"})
    BY <1>6 DEF ReplyPending
  <2>2. Head(toElixir) \in Items /\ Head(toElixir).kind = "response"
    BY <2>1, ReadsTypes
  <2>3. c \in Calls /\ t \in Sessions
    BY <2>2, ItemIds
  <2> HIDE DEF c
  <2>4. CASE c \in pending /\ busy[t] = c
    <3>1. /\ busy' = [busy EXCEPT ![t] = Nil]
          /\ status'[s] = status[s] \/ s = t
      BY <2>1, <2>4 DEF Resume, TypeOK
    <3>2. CASE s = t
      BY <1>1, <2>3, <3>1, <3>2 DEF TypeOK
    <3>3. CASE s # t
      <4>1. busy'[s] = busy[s] /\ status'[s] = status[s]
        BY <3>1, <3>3 DEF TypeOK
      <4>2. busy[s] # c
        BY <2>3, <3>3 DEF BusyIsOwn
      <4> QED
        BY <1>2, <2>1, <2>3, <4>1, <4>2
    <3> QED
      BY <3>2, <3>3
  <2>5. CASE ~(c \in pending /\ busy[t] = c)
    <3>1. busy' = busy /\ status' = status /\ worker' = worker
      BY <2>1, <2>5
    <3>2. CASE worker = "up" /\ busy[s] = c
      <4>1. t = s /\ c \in pending
        BY <2>3, <3>2 DEF BusyIsOwn
      <4> QED
        BY <2>5, <3>2, <4>1
    <3>3. CASE worker # "up"
      BY <1>2, <3>1, <3>3
    <3>4. CASE busy[s] # c
      BY <1>2, <2>1, <2>3, <3>1, <3>4
    <3> QED
      BY <3>2, <3>3, <3>4
  <2> QED
    BY <2>4, <2>5
<1>7. ASSUME ExitStatus PROVE BusyIsOwn(s)'
  BY <1>1, <1>7 DEF ExitStatus
<1>8. ASSUME WorkerStops PROVE BusyIsOwn(s)'
  <2>1. busy'[s] = Nil
    BY <1>8 DEF WorkerStops, Die
  <2> QED
    BY <1>1, <2>1
<1>9. \/ UNCHANGED <<busy, status, worker, pending>>
      \/ \E t \in Sessions : Issue(t) \/ SidecarDown(t) \/ RpcTimeout(t) \/ Forward(t)
      \/ ReplyPending \/ ExitStatus \/ WorkerStops
  <2>1. CASE UNCHANGED vars
    BY <2>1 DEF vars, sessionVars, workerVars
  <2>2. ASSUME NEW c \in Calls, ApiCall(c) \/ ApiTimeout(c) \/ ControlEnds(c)
        PROVE  UNCHANGED <<busy, status, worker, pending>>
    BY <2>2 DEF ApiCall, ApiTimeout, ControlEnds, sessionVars, workerVars
  <2>3. ASSUME NEW t \in Sessions, Refuse(t) \/ AnswerAsk(t) \/ SessionDown(t) \/ NodeStep(t)
        PROVE  UNCHANGED <<busy, status, worker, pending>>
    BY <2>3 DEF Refuse, AnswerAsk, SessionDown, NodeStep, ClosingPumpEnds, PumpMessage,
       PumpEnds,
                sessionVars, workerVars
  <2>4. ASSUME RouteNotification \/ RouteInboundRequest \/ Feed \/ Dispatch \/ NodeExits
        PROVE  UNCHANGED <<busy, status, worker, pending>>
    BY <2>4 DEF RouteNotification, RouteInboundRequest, Feed, Dispatch, NodeExits,
                sessionVars, workerVars
  <2>5. ASSUME NEW a \in Asks, AskElixir(a) \/ AskTimeout(a)
        PROVE  UNCHANGED <<busy, status, worker, pending>>
    BY <2>5 DEF AskElixir, AskTimeout, sessionVars, workerVars
  <2> QED
    BY <2>1, <2>2, <2>3, <2>4, <2>5 DEF Next, WorkerReads, SessionStep
<1>10. ASSUME UNCHANGED <<busy, status, worker, pending>> PROVE BusyIsOwn(s)'
  BY <1>2, <1>10
<1> QED
  BY <1>3, <1>4, <1>5, <1>6, <1>7, <1>8, <1>9, <1>10

-----------------------------------------------------------------------------
(***************************************************************************)
(* One RPC of a session at a time.                                         *)
(***************************************************************************)

LEMMA AppendIds ==
  ASSUME NEW q \in Seq(Items), NEW x \in Items, NEW kind, Once(q, kind),
         x.kind = kind => x.id \notin Ids(q, kind)
  PROVE  /\ Once(Append(q, x), kind)
         /\ Ids(Append(q, x), kind) = IF x.kind = kind THEN Ids(q, kind) \cup {x.id}
                                                       ELSE Ids(q, kind)
<1>1. Once(Append(q, x), kind)
  BY AppendItem
<1>2. Ids(Append(q, x), kind) = Ids(q, kind) \cup {y.id : y \in {z \in {x} : z.kind = kind}}
  BY AppendItem
<1> QED
  BY <1>1, <1>2

LEMMA TakeIds ==
  ASSUME NEW q \in Seq(Items), q # << >>, NEW kind, Once(q, kind)
  PROVE  /\ Once(Tail(q), kind)
         /\ Ids(Tail(q), kind) = IF Head(q).kind = kind THEN Ids(q, kind) \ {Head(q).id}
                                                        ELSE Ids(q, kind)
         /\ Head(q).kind = kind => Head(q).id \in Ids(q, kind)
<1>1. /\ Once(Tail(q), kind)
      /\ Head(q).kind = kind => Head(q).id \notin Ids(Tail(q), kind)
  BY TakeItem
<1>2. Ids(q, kind) = Ids(Tail(q), kind) \cup {y.id : y \in {z \in {Head(q)} : z.kind = kind}}
  BY TakeItem
<1> QED
  BY <1>1, <1>2

\* The RPCs under way keep to this rule when none is added.
LEMMA RpcMoves ==
  ASSUME OneRpc, Once(toNode', "rpc"), Once(toElixir', "response"),
         Unread' \cap working' = {}, Unread' \cap Given' = {}, working' \cap Given' = {},
         Outstanding' \subseteq Outstanding,
         \A c \in Outstanding' :
           process'[Target[c]] = "up" =>
             process[Target[c]] = "up" /\ busy'[Target[c]] = busy[Target[c]]
  PROVE  OneRpc'
BY DEF OneRpc

LEMMA IdTypes ==
  ASSUME TypeOK
  PROVE  Unread \subseteq Calls /\ Given \subseteq Calls /\ working \subseteq Calls
<1>1. ToSet(toNode) \subseteq Items /\ ToSet(toElixir) \subseteq Items
  BY DEF TypeOK, ToSet
<1>2. \A q : ToSet(q) \subseteq Items => Ids(q, "rpc") \subseteq Calls /\ Ids(q, "response") \subseteq Calls
  BY ItemIds DEF Ids
<1> QED
  BY <1>1, <1>2 DEF Unread, Given, TypeOK

\* A handler that answers a call it has read or was working on.
LEMMA AnswerMoves ==
  ASSUME TypeOK, OneRpc, NEW c \in Unread \cup working, NEW ok \in BOOLEAN,
         NEW q \in {toElixir} \cup {Append(toElixir, Item("error", s, 0)) : s \in Sessions},
         toElixir' = Append(q, Response(c, ok)),
         UNCHANGED <<process, busy>>,
         Once(toNode', "rpc"),
         Unread' = Unread \ {c}, working' = working \ {c}
  PROVE  OneRpc'
<1>1. /\ Once(toNode, "rpc") /\ Once(toElixir, "response")
      /\ Unread \cap working = {} /\ Unread \cap Given = {} /\ working \cap Given = {}
  BY DEF OneRpc
<1>2. /\ q \in Seq(Items) /\ Once(q, "response") /\ Ids(q, "response") = Given
  <2>1. toElixir \in Seq(Items) /\ Once(toElixir, "response") /\ Ids(toElixir, "response") = Given
    BY <1>1 DEF TypeOK, Given
  <2>2. ASSUME NEW s \in Sessions, q = Append(toElixir, Item("error", s, 0))
        PROVE  q \in Seq(Items) /\ Once(q, "response") /\ Ids(q, "response") = Given
    <3>1. Item("error", s, 0) \in Items /\ Item("error", s, 0).kind # "response"
      BY ItemTypes DEF Item, Events
    <3> QED
      BY <2>1, <2>2, <3>1, AppendIds, AppendItem
  <2> QED
    BY <2>1, <2>2
<1>3. c \in Calls /\ c \notin Given
  BY <1>1, IdTypes
<1>4. Response(c, ok) \in Items /\ Response(c, ok).kind = "response" /\ Response(c, ok).id = c
  BY <1>3, ItemTypes DEF Response, Item
<1>5. Once(toElixir', "response") /\ Ids(toElixir', "response") = Given \cup {c}
  BY <1>2, <1>3, <1>4, AppendIds
<1>6. Given' = Given \cup {c}
  BY <1>5 DEF Given
<1>7. /\ Unread' \cap working' = {} /\ Unread' \cap Given' = {} /\ working' \cap Given' = {}
      /\ Outstanding' \subseteq Outstanding
  BY <1>1, <1>6 DEF Outstanding
<1> QED
  BY <1>5, <1>7, RpcMoves

LEMMA RpcStep ==
  ASSUME TypeOK, NodeHasWorker, \A s \in Sessions : MailIsOwn(s), OneRpc,
         node = "up", node' = "up", [Next]_vars
  PROVE  OneRpc'
<1> USE SidecarAssumption
<1>1. /\ Once(toNode, "rpc") /\ Once(toElixir, "response")
      /\ Unread \cap working = {} /\ Unread \cap Given = {} /\ working \cap Given = {}
      /\ toNode \in Seq(Items) /\ toElixir \in Seq(Items)
  BY DEF OneRpc, TypeOK
\* Nothing of the RPCs moves, and sessions at most die.
<1>2. ASSUME Unread' = Unread /\ Once(toNode', "rpc"),
             Given' = Given /\ Once(toElixir', "response"),
             working' = working,
             \A s \in Sessions :
               process'[s] = "up" => process[s] = "up" /\ busy'[s] = busy[s]
      PROVE  OneRpc'
  <2>1. Outstanding' = Outstanding
    BY <1>2 DEF Outstanding
  <2>2. \A c \in Outstanding : Target[c] \in Sessions
    BY IdTypes DEF Outstanding
  <2> QED
    BY <1>1, <1>2, <2>1, <2>2, RpcMoves
<1>3. toNode' = toNode => Unread' = Unread /\ Once(toNode', "rpc")
  BY <1>1 DEF Unread
<1>4. toElixir' = toElixir => Given' = Given /\ Once(toElixir', "response")
  BY <1>1 DEF Given
<1>5. ASSUME NEW x \in Items, x.kind # "rpc", toNode' = Append(toNode, x)
      PROVE  Unread' = Unread /\ Once(toNode', "rpc")
  BY <1>1, <1>5, AppendIds DEF Unread
<1>6. ASSUME NEW x \in Items, x.kind # "response", toElixir' = Append(toElixir, x)
      PROVE  Given' = Given /\ Once(toElixir', "response")
  BY <1>1, <1>6, AppendIds DEF Given
<1>7. ASSUME NEW kinds, "response" \notin kinds, Reads(kinds)
      PROVE  Given' = Given /\ Once(toElixir', "response")
  <2>1. toElixir # << >> /\ toElixir' = Tail(toElixir) /\ Head(toElixir).kind # "response"
    BY <1>7, ReadsTypes
  <2> QED
    BY <1>1, <2>1, TakeIds DEF Given
<1>8. ASSUME UNCHANGED <<toNode, toElixir, working, process, busy>> PROVE OneRpc'
  BY <1>2, <1>3, <1>4, <1>8
<1>9. ASSUME NEW s \in Sessions, Issue(s) PROVE OneRpc'
  <2> DEFINE c == Head(mailbox[s]).id
  <2>1. /\ Serves(s, {"call"})
        /\ UNCHANGED <<toElixir, nodeVars>>
    BY <1>9 DEF Issue
  <2>2. worker = "up"
    BY DEF NodeHasWorker
  <2>3. /\ busy' = [busy EXCEPT ![s] = c]
        /\ toNode' = Append(toNode, Item("rpc", c, 0))
        /\ UNCHANGED process
        /\ busy[s] = Nil /\ process[s] = "up"
    BY <1>9, <2>2 DEF Issue, Serves
  <2>4. c \in Calls
    BY <2>1, ServesTypes, ItemIds
  <2>5. \A d \in Outstanding : Target[d] # s /\ d \in Calls
    BY <2>3, IdTypes DEF OneRpc, Outstanding
  <2>6. Target[c] = s
    <3>1. Head(mailbox[s]) \in ToSet(mailbox[s]) /\ Head(mailbox[s]).kind = "call"
      BY <2>1, ServesTypes, TakeItem
    <3> QED
      BY <3>1 DEF MailIsOwn
  <2>7. c \notin Outstanding
    BY <2>5, <2>6
  <2> HIDE DEF c
  <2>8. /\ Item("rpc", c, 0) \in Items
        /\ Item("rpc", c, 0).kind = "rpc" /\ Item("rpc", c, 0).id = c
    BY <2>4, ItemTypes DEF Item
  <2>9. Once(toNode', "rpc") /\ Ids(toNode', "rpc") = Ids(toNode, "rpc") \cup {c}
    BY <1>1, <2>3, <2>7, <2>8, AppendIds DEF Outstanding, Unread
  <2>10. Unread' = Unread \cup {c}
    BY <2>9 DEF Unread
  <2>11. Given' = Given /\ Once(toElixir', "response") /\ working' = working
    BY <1>4, <2>1 DEF nodeVars
  <2>12. Outstanding' = Outstanding \cup {c}
    BY <2>10, <2>11 DEF Outstanding
  <2>13. \A d, e \in Outstanding' : Target[d] = Target[e] => d = e
    BY <2>5, <2>6, <2>12 DEF OneRpc
  <2>14. busy'[s] = c /\ \A t \in Sessions : t # s => busy'[t] = busy[t]
    BY <2>3 DEF TypeOK
  <2>15. \A d \in Outstanding' : process'[Target[d]] = "up" => busy'[Target[d]] = d
    BY <2>3, <2>5, <2>6, <2>12, <2>14 DEF OneRpc
  <2> QED
    BY <1>1, <2>7, <2>9, <2>10, <2>11, <2>13, <2>15 DEF OneRpc, Outstanding
<1>10. ASSUME NEW s \in Sessions, SidecarDown(s) \/ RpcTimeout(s) PROVE OneRpc'
  <2>1. Die({s}) /\ UNCHANGED <<toNode, toElixir, working>>
    BY <1>10 DEF SidecarDown, RpcTimeout, pipeVars, nodeVars
  <2>2. \A t \in Sessions : process'[t] = "up" => process[t] = "up" /\ busy'[t] = busy[t]
    BY <2>1 DEF Die
  <2> QED
    BY <1>2, <1>3, <1>4, <2>1, <2>2
<1>11. ASSUME NEW s \in Sessions, AnswerAsk(s) PROVE OneRpc'
  <2> DEFINE a == Head(mailbox[s]).id
  <2>1. /\ Serves(s, {"ask"})
        /\ toNode' \in {toNode, Append(toNode, Item("answer", a, 0))}
        /\ UNCHANGED <<toElixir, working, process, busy>>
    BY <1>11 DEF AnswerAsk, nodeVars
  <2>2. Head(mailbox[s]) \in Items /\ Head(mailbox[s]).kind \in {"ask"}
    BY <2>1, ServesTypes
  <2>3. Item("answer", a, 0) \in Items /\ Item("answer", a, 0).kind # "rpc"
    BY <2>2, ItemIds, ItemTypes DEF Item
  <2> QED
    BY <1>2, <1>3, <1>4, <1>5, <2>1, <2>3
<1>12. ASSUME ReplyPending PROVE OneRpc'
  <2> DEFINE c == Head(toElixir).id
             s == Target[c]
  <2>1. /\ Reads({"response"})
        /\ busy' \in {busy, [busy EXCEPT ![s] = Nil]}
        /\ UNCHANGED <<process, toNode, working>>
    BY <1>12 DEF ReplyPending, Resume, nodeVars
  <2>2. toElixir # << >> /\ toElixir' = Tail(toElixir) /\ Head(toElixir).kind = "response"
    BY <2>1, ReadsTypes
  <2>3. /\ Once(toElixir', "response") /\ Ids(toElixir', "response") = Ids(toElixir, "response") \ {c}
        /\ c \in Given
    BY <1>1, <2>2, TakeIds DEF Given
  <2>4. Given' = Given \ {c}
    BY <2>3 DEF Given
  <2>5. Unread' = Unread /\ Once(toNode', "rpc")
    BY <1>3, <2>1
  <2>6. Outstanding' \subseteq Outstanding \ {c}
    BY <1>1, <2>1, <2>3, <2>4, <2>5 DEF Outstanding
  <2>7. \A d \in Outstanding' : Target[d] # s /\ Target[d] \in Sessions
    BY <2>3, <2>6, IdTypes DEF OneRpc, Outstanding
  <2>8. \A d \in Outstanding' : busy'[Target[d]] = busy[Target[d]]
    BY <2>1, <2>7 DEF TypeOK
  <2>9. Unread' \cap working' = {} /\ Unread' \cap Given' = {} /\ working' \cap Given' = {}
    BY <1>1, <2>1, <2>4, <2>5
  <2> QED
    BY <2>1, <2>3, <2>5, <2>6, <2>8, <2>9, RpcMoves
<1>13. ASSUME RouteNotification PROVE OneRpc'
  <2>1. /\ Reads(Events)
        /\ UNCHANGED <<toNode, working, process, busy>>
    BY <1>13 DEF RouteNotification, nodeVars
  <2> QED
    BY <1>2, <1>3, <1>7, <2>1 DEF Events
<1>14. ASSUME RouteInboundRequest PROVE OneRpc'
  <2> DEFINE a == Head(toElixir).id
  <2>1. /\ Reads({"ask"})
        /\ toNode' \in {toNode, Append(toNode, Item("answer", a, 0))}
        /\ UNCHANGED <<working, process, busy>>
    BY <1>14 DEF RouteInboundRequest, nodeVars
  <2>2. Head(toElixir) \in Items /\ Head(toElixir).kind \in {"ask"}
    BY <2>1, ReadsTypes
  <2>3. Item("answer", a, 0) \in Items /\ Item("answer", a, 0).kind # "rpc"
    BY <2>2, ItemIds, ItemTypes DEF Item
  <2> QED
    BY <1>2, <1>3, <1>5, <1>7, <2>1, <2>3
<1>15. ASSUME Feed PROVE OneRpc'
  <2>1. NodeReads("answer") /\ UNCHANGED <<toElixir, working, process, busy>>
    BY <1>15 DEF Feed, sessionVars
  <2>2. toNode # << >> /\ toNode' = Tail(toNode) /\ Head(toNode).kind = "answer"
    BY <2>1, NodeReadsTypes
  <2>3. Unread' = Unread /\ Once(toNode', "rpc")
    BY <1>1, <2>2, TakeIds DEF Unread
  <2> QED
    BY <1>2, <1>4, <2>1, <2>3
<1>16. ASSUME NEW s \in Sessions, PumpMessage(s) \/ PumpEnds(s) PROVE OneRpc'
  <2>1. /\ \E kind \in Events, n \in Nat : toElixir' = Append(toElixir, Item(kind, s, n))
        /\ UNCHANGED <<toNode, working, process, busy>>
    <3>1. emitted'[s] \in Nat
      BY TypeStep DEF TypeOK
    <3> QED
      BY <1>16, <3>1 DEF PumpMessage, PumpEnds, Events, sessionVars
  <2>2. \A kind \in Events, n \in Nat :
          Item(kind, s, n) \in Items /\ Item(kind, s, n).kind # "response"
    BY ItemTypes DEF Events, Item
  <2> QED
    BY <1>2, <1>3, <1>6, <2>1, <2>2
<1>17. ASSUME NEW a \in Asks, AskElixir(a) PROVE OneRpc'
  <2>1. /\ toElixir' = Append(toElixir, Item("ask", a, 0))
        /\ UNCHANGED <<toNode, working, process, busy>>
    BY <1>17 DEF AskElixir, sessionVars
  <2>2. Item("ask", a, 0) \in Items /\ Item("ask", a, 0).kind # "response"
    BY ItemTypes DEF Item
  <2> QED
    BY <1>2, <1>3, <1>6, <2>1, <2>2
<1>18. ASSUME Dispatch PROVE OneRpc'
  <2> DEFINE c == Head(toNode).id
  <2>1. NodeReads("rpc") /\ UNCHANGED <<process, busy>>
    BY <1>18 DEF Dispatch, sessionVars
  <2>2. /\ toNode # << >> /\ toNode' = Tail(toNode) /\ Head(toNode).kind = "rpc"
        /\ Head(toNode) \in Items
    BY <2>1, NodeReadsTypes
  <2>3. /\ Once(toNode', "rpc") /\ Ids(toNode', "rpc") = Ids(toNode, "rpc") \ {c}
        /\ c \in Unread
    BY <1>1, <2>2, TakeIds DEF Unread
  <2>4. Unread' = Unread \ {c}
    BY <2>3 DEF Unread
  <2>5. c \in Calls
    BY <2>2, ItemIds
  <2>6. \/ \E ok \in BOOLEAN : toElixir' = Append(toElixir, Response(c, ok)) /\ working' = working
        \/ toElixir' = toElixir /\ working' = working \cup {c}
    <3>1. DispatchCreate(c) \/ DispatchSend(c) \/ DispatchControl(c) \/ DispatchClose(c)
      <4>1. Method[c] \in {"create", "send", "control", "close"}
        BY <2>5
      <4> QED
        BY <1>18, <4>1 DEF Dispatch
    <3>2. CASE DispatchCreate(c)
      BY <3>2 DEF DispatchCreate
    <3>3. CASE DispatchSend(c)
      BY <3>3 DEF DispatchSend, Usable
    <3>4. CASE DispatchControl(c)
      BY <3>4 DEF DispatchControl
    <3>5. CASE DispatchClose(c)
      BY <3>5 DEF DispatchClose
    <3> QED
      BY <3>1, <3>2, <3>3, <3>4, <3>5
  <2> HIDE DEF c
  <2>7. ASSUME NEW ok \in BOOLEAN, toElixir' = Append(toElixir, Response(c, ok)), working' = working
        PROVE  OneRpc'
    <3>1. working' = working \ {c}
      BY <1>1, <2>3, <2>7
    <3> QED
      BY <2>1, <2>3, <2>4, <2>7, <3>1, AnswerMoves
  <2>8. CASE toElixir' = toElixir /\ working' = working \cup {c}
    <3>1. Given' = Given /\ Once(toElixir', "response")
      BY <1>4, <2>8
    <3>2. /\ Unread' \cap working' = {} /\ Unread' \cap Given' = {} /\ working' \cap Given' = {}
          /\ Outstanding' \subseteq Outstanding
      BY <1>1, <2>3, <2>4, <2>8, <3>1 DEF Outstanding
    <3> QED
      BY <2>1, <2>3, <3>1, <3>2, RpcMoves
  <2> QED
    BY <2>6, <2>7, <2>8
<1>19. ASSUME NEW c \in Calls, ControlEnds(c) PROVE OneRpc'
  <2>1. /\ c \in working
        /\ working' = working \ {c}
        /\ \E ok \in BOOLEAN : toElixir' = Append(toElixir, Response(c, ok))
        /\ UNCHANGED <<toNode, process, busy>>
    BY <1>19 DEF ControlEnds, sessionVars
  <2>2. Unread' = Unread \ {c} /\ Once(toNode', "rpc")
    BY <1>1, <1>3, <2>1
  <2> QED
    BY <2>1, <2>2, AnswerMoves
<1>20. ASSUME NEW s \in Sessions, ClosingPumpEnds(s) PROVE OneRpc'
  <2>1. PICK tail \in {<< >>, <<Item("error", s, 0)>>}, c \in working :
          /\ toElixir' = toElixir \o tail \o <<Response(c, TRUE)>>
          /\ working' = working \ {c}
    BY <1>20 DEF ClosingPumpEnds
  <2>2. c \in Calls
    BY IdTypes
  <2>3. \E q \in {toElixir} \cup {Append(toElixir, Item("error", t, 0)) : t \in Sessions} :
          toElixir' = Append(q, Response(c, TRUE))
    BY <2>1, <2>2, LastWords
  <2>4. UNCHANGED <<toNode, process, busy>>
    BY <1>20 DEF ClosingPumpEnds, sessionVars
  <2>5. Unread' = Unread \ {c} /\ Once(toNode', "rpc")
    BY <1>1, <1>3, <2>4
  <2> QED
    BY <2>1, <2>3, <2>4, <2>5, AnswerMoves
<1>21. \/ UNCHANGED <<toNode, toElixir, working, process, busy>>
       \/ \E s \in Sessions : \/ Issue(s) \/ AnswerAsk(s) \/ SidecarDown(s) \/ RpcTimeout(s)
                              \/ NodeStep(s)
       \/ ReplyPending \/ RouteNotification \/ RouteInboundRequest \/ Feed \/ Dispatch
       \/ \E a \in Asks : AskElixir(a)
       \/ \E c \in Calls : ControlEnds(c)
  <2>1. CASE UNCHANGED vars
    BY <2>1 DEF vars, sessionVars, pipeVars, nodeVars
  <2>2. ASSUME NEW c \in Calls, ApiCall(c) \/ ApiTimeout(c)
        PROVE  UNCHANGED <<toNode, toElixir, working, process, busy>>
    BY <2>2 DEF ApiCall, ApiTimeout, sessionVars, pipeVars, nodeVars
  <2>3. ASSUME NEW s \in Sessions, Refuse(s) \/ Forward(s) \/ SessionDown(s)
        PROVE  UNCHANGED <<toNode, toElixir, working, process, busy>>
    BY <2>3 DEF Refuse, Forward, SessionDown, sessionVars, pipeVars, nodeVars
  <2>4. ASSUME NEW a \in Asks, AskTimeout(a)
        PROVE  UNCHANGED <<toNode, toElixir, working, process, busy>>
    BY <2>4 DEF AskTimeout, sessionVars, pipeVars
  <2>5. ~(ExitStatus \/ WorkerStops \/ NodeExits)
    BY DEF ExitStatus, WorkerStops, NodeExits
  <2> QED
    BY <2>1, <2>2, <2>3, <2>4, <2>5 DEF Next, WorkerReads, SessionStep
<1> QED
  BY <1>8, <1>9, <1>10, <1>11, <1>12, <1>13, <1>14, <1>15, <1>16, <1>17, <1>18, <1>19,
     <1>20, <1>21
     DEF NodeStep

-----------------------------------------------------------------------------
(***************************************************************************)
(* What Node has, and what its answers say of it.                          *)
(***************************************************************************)

\* The handler of a request changes the query of its session only, which no answer under
\* way speaks of.
LEMMA OldAnswers ==
  ASSUME TypeOK, OneRpc, NEW c \in Unread \cup working,
         \A s \in Sessions : s # Target[c] => env'[s] = env[s],
         NEW item \in ToSet(toElixir), AnswerIsTrue(item)
  PROVE  AnswerIsTrue(item)'
<1> USE SidecarAssumption
<1> SUFFICES ASSUME item.kind = "response" PROVE AnswerIsTrue(item)'
  BY DEF AnswerIsTrue
<1>1. item.id \in Given
  BY DEF Given, Ids
<1>2. item.id \in Calls /\ Target[item.id] \in Sessions
  BY <1>1, IdTypes
<1>3. Target[item.id] # Target[c]
  BY <1>1 DEF OneRpc, Outstanding
<1>4. Mapped(Target[item.id])' = Mapped(Target[item.id])
  BY <1>2, <1>3 DEF Mapped
<1> QED
  BY <1>4 DEF AnswerIsTrue

\* What a step of Node leaves in the pipe: items of before, and new ones.
LEMMA PipeGains ==
  ASSUME TypeOK, NEW x \in Items, toElixir' = Append(toElixir, x)
  PROVE  ToSet(toElixir') = ToSet(toElixir) \cup {x}
<1>1. toElixir \in Seq(Items)
  BY DEF TypeOK
<1> QED
  BY <1>1, AppendItem

LEMMA PipeLoses ==
  ASSUME TypeOK, NEW kinds, Reads(kinds)
  PROVE  ToSet(toElixir) = ToSet(toElixir') \cup {Head(toElixir)}
BY ReadsTypes, TakeItem

\* The handler at the head of the pipe to Node.
LEMMA DispatchTypes ==
  ASSUME TypeOK, OneRpc, Dispatch
  PROVE  \E c \in Calls, s \in Sessions :
           /\ c \in Unread /\ s = Target[c]
           /\ \/ Method[c] = "create" /\ DispatchCreate(c)
              \/ Method[c] = "send" /\ DispatchSend(c)
              \/ Method[c] = "control" /\ DispatchControl(c)
              \/ Method[c] = "close" /\ DispatchClose(c)
           /\ UNCHANGED <<workerVars, sessionVars, node, emitted, ask, told>>
<1> USE SidecarAssumption
<1> DEFINE c == Head(toNode).id
<1>1. NodeReads("rpc") /\ UNCHANGED <<workerVars, sessionVars, node, emitted, ask, told>>
  BY DEF Dispatch
<1>2. /\ toNode \in Seq(Items) /\ toNode # << >> /\ Head(toNode) \in Items
      /\ Head(toNode).kind = "rpc"
  BY <1>1, NodeReadsTypes
<1>3. c \in Calls
  BY <1>2, ItemIds
<1>4. c \in Unread
  <2>1. Head(toNode) \in ToSet(toNode)
    BY <1>2, TakeItem
  <2> QED
    BY <1>2, <2>1 DEF Unread, Ids
<1>5. Method[c] \in {"create", "send", "control", "close"} /\ Target[c] \in Sessions
  BY <1>3
<1>6. \/ Method[c] = "create" /\ DispatchCreate(c)
      \/ Method[c] = "send" /\ DispatchSend(c)
      \/ Method[c] = "control" /\ DispatchControl(c)
      \/ Method[c] = "close" /\ DispatchClose(c)
  BY <1>5 DEF Dispatch
<1> QED
  BY <1>1, <1>3, <1>4, <1>5, <1>6

\* The close that waits for the pump of s.
LEMMA ClosingTypes ==
  ASSUME TypeOK, NEW s \in Sessions, ClosingPumpEnds(s)
  PROVE  \E c \in working :
           /\ c \in Calls /\ Target[c] = s /\ Method[c] = "close"
           /\ working' = working \ {c}
           /\ ToSet(toElixir') \subseteq
                ToSet(toElixir) \cup {Item("error", s, 0), Response(c, TRUE)}
           /\ ToSet(toElixir) \subseteq ToSet(toElixir')
<1>1. PICK tail \in {<< >>, <<Item("error", s, 0)>>}, c \in working :
        /\ Target[c] = s /\ Method[c] = "close"
        /\ toElixir' = toElixir \o tail \o <<Response(c, TRUE)>>
        /\ working' = working \ {c}
  BY DEF ClosingPumpEnds
<1>2. c \in Calls
  BY IdTypes
<1>3. toElixir' \in {Append(toElixir, Response(c, TRUE)),
                     Append(Append(toElixir, Item("error", s, 0)), Response(c, TRUE))}
  BY <1>1, <1>2, LastWords
<1>4. /\ toElixir \in Seq(Items)
      /\ Response(c, TRUE) \in Items
      /\ Item("error", s, 0) \in Items
  BY <1>2, ItemTypes DEF TypeOK, Events
<1>5. \A q \in Seq(Items), x \in Items :
        Append(q, x) \in Seq(Items) /\ ToSet(Append(q, x)) = ToSet(q) \cup {x}
  BY AppendItem
<1>6. ToSet(toElixir') \in {ToSet(toElixir) \cup {Response(c, TRUE)},
                            ToSet(toElixir) \cup {Item("error", s, 0)} \cup {Response(c, TRUE)}}
  <2>1. ToSet(Append(toElixir, Response(c, TRUE))) = ToSet(toElixir) \cup {Response(c, TRUE)}
    BY <1>4, <1>5
  <2>2. /\ Append(toElixir, Item("error", s, 0)) \in Seq(Items)
        /\ ToSet(Append(toElixir, Item("error", s, 0))) = ToSet(toElixir) \cup {Item("error", s, 0)}
    BY <1>4, <1>5
  <2>3. ToSet(Append(Append(toElixir, Item("error", s, 0)), Response(c, TRUE))) =
          ToSet(toElixir) \cup {Item("error", s, 0)} \cup {Response(c, TRUE)}
    BY <1>4, <1>5, <2>2
  <2> QED
    BY <1>3, <2>1, <2>3
<1> QED
  BY <1>1, <1>2, <1>6

MapInv == MapIsExact /\ \A item \in ToSet(toElixir) : AnswerIsTrue(item)

LEMMA MapStep ==
  ASSUME TypeOK, OneRpc, MapInv, node = "up", node' = "up", [Next]_vars
  PROVE  MapInv'
<1> USE SidecarAssumption
\* Nothing that Node has changes, and no answer is new.
<1>1. ASSUME UNCHANGED <<sessions, env>>,
             \A item \in ToSet(toElixir') : item \in ToSet(toElixir) \/ item.kind # "response"
      PROVE  MapInv'
  <2>1. \A item : AnswerIsTrue(item)' = AnswerIsTrue(item)
    BY <1>1 DEF AnswerIsTrue, Mapped
  <2>2. \A item : item.kind # "response" => AnswerIsTrue(item)
    BY DEF AnswerIsTrue
  <2>3. MapIsExact'
    BY <1>1 DEF MapInv, MapIsExact, Mapped
  <2> QED
    BY <1>1, <2>1, <2>2, <2>3 DEF MapInv
<1>2. ASSUME NEW s \in Sessions, PumpMessage(s) PROVE MapInv'
  <2>1. /\ toElixir' = Append(toElixir, Item("message", s, emitted'[s]))
        /\ UNCHANGED <<sessions, env>>
    BY <1>2 DEF PumpMessage
  <2>2. emitted'[s] \in Nat
    BY TypeStep DEF TypeOK
  <2>3. Item("message", s, emitted'[s]) \in Items
    BY <2>2, ItemTypes DEF Events
  <2>4. Item("message", s, emitted'[s]).kind # "response"
    BY DEF Item
  <2> QED
    BY <1>1, <2>1, <2>3, <2>4, PipeGains
<1>3. ASSUME NEW a \in Asks, AskElixir(a) PROVE MapInv'
  <2>1. toElixir' = Append(toElixir, Item("ask", a, 0)) /\ UNCHANGED <<sessions, env>>
    BY <1>3 DEF AskElixir
  <2>2. Item("ask", a, 0) \in Items /\ Item("ask", a, 0).kind # "response"
    BY ItemTypes DEF Item
  <2> QED
    BY <1>1, <2>1, <2>2, PipeGains
<1>4. ASSUME NEW kinds, Reads(kinds), UNCHANGED <<sessions, env>> PROVE MapInv'
  BY <1>1, <1>4, PipeLoses
<1>5. ASSUME NEW c \in Calls, ControlEnds(c) PROVE MapInv'
  <2>1. PICK ok \in BOOLEAN : toElixir' = Append(toElixir, Response(c, ok))
    BY <1>5 DEF ControlEnds
  <2>2. Method[c] = "control" /\ UNCHANGED <<sessions, env>>
    BY <1>5 DEF ControlEnds
  <2>3. Response(c, ok) \in Items /\ Response(c, ok).id = c
    BY ItemTypes DEF Response, Item
  <2>4. AnswerIsTrue(Response(c, ok))'
    BY <2>2, <2>3 DEF AnswerIsTrue
  <2>5. \A item : AnswerIsTrue(item)' = AnswerIsTrue(item)
    BY <2>2 DEF AnswerIsTrue, Mapped
  <2>6. ToSet(toElixir') = ToSet(toElixir) \cup {Response(c, ok)}
    BY <2>1, <2>3, PipeGains
  <2>7. MapIsExact'
    BY <2>2 DEF MapInv, MapIsExact, Mapped
  <2> QED
    BY <2>4, <2>5, <2>6, <2>7 DEF MapInv
<1>6. ASSUME NEW s \in Sessions, PumpEnds(s) PROVE MapInv'
  <2>1. PICK kind \in {"closed", "error"} : toElixir' = Append(toElixir, Item(kind, s, 0))
    BY <1>6 DEF PumpEnds
  <2>2. /\ env[s] = "open" /\ env'[s] \in {"done", "failed"}
        /\ \A t \in Sessions : t # s => env'[t] = env[t]
        /\ sessions' = sessions
    BY <1>6 DEF PumpEnds, TypeOK
  <2>3. \A t \in Sessions : Mapped(t)' = Mapped(t)
    BY <2>2 DEF Mapped
  <2>4. MapIsExact'
    BY <2>2, <2>3 DEF MapInv, MapIsExact
  <2>5. Item(kind, s, 0) \in Items /\ Item(kind, s, 0).kind # "response"
    BY ItemTypes DEF Item, Events
  <2>6. ToSet(toElixir') = ToSet(toElixir) \cup {Item(kind, s, 0)}
    BY <2>1, <2>5, PipeGains
  <2>7. ASSUME NEW item \in ToSet(toElixir) PROVE AnswerIsTrue(item)'
    <3>1. CASE item.kind = "response"
      <4>1. item.id \in Given
        BY <3>1 DEF Given, Ids
      <4>2. Target[item.id] \in Sessions
        BY <4>1, IdTypes
      <4> QED
        BY <2>3, <4>2 DEF AnswerIsTrue, MapInv
    <3>2. CASE item.kind # "response"
      BY <3>2 DEF AnswerIsTrue
    <3> QED
      BY <3>1, <3>2
  <2>8. AnswerIsTrue(Item(kind, s, 0))'
    BY <2>5 DEF AnswerIsTrue
  <2> QED
    BY <2>4, <2>6, <2>7, <2>8 DEF MapInv
<1>7. ASSUME Dispatch PROVE MapInv'
  <2>1. PICK c \in Calls, s \in Sessions :
          /\ c \in Unread /\ s = Target[c]
          /\ \/ Method[c] = "create" /\ DispatchCreate(c)
             \/ Method[c] = "send" /\ DispatchSend(c)
             \/ Method[c] = "control" /\ DispatchControl(c)
             \/ Method[c] = "close" /\ DispatchClose(c)
    BY <1>7, DispatchTypes
  <2>2. /\ \A t \in Sessions : t # s => env'[t] = env[t] /\ (t \in sessions' <=> t \in sessions)
        /\ s \in sessions' <=> Mapped(s)'
        /\ \/ toElixir' = toElixir
           \/ \E ok \in BOOLEAN :
                /\ toElixir' = Append(toElixir, Response(c, ok))
                /\ Method[c] = "create" /\ ok => Mapped(s)'
                /\ Method[c] = "close" => ~Mapped(s)'
    <3>0. (s \in sessions <=> Mapped(s)) /\ env \in [Sessions -> {"none", "open", "done", "failed", "closing", "closed"}]
      BY <2>1 DEF MapInv, MapIsExact, TypeOK
    <3>1. CASE Method[c] = "create" /\ DispatchCreate(c)
      BY <2>1, <3>0, <3>1 DEF DispatchCreate, Mapped
    <3>2. CASE Method[c] = "send" /\ DispatchSend(c)
      BY <2>1, <3>0, <3>2 DEF DispatchSend, Mapped, Usable
    <3>3. CASE Method[c] = "control" /\ DispatchControl(c)
      BY <2>1, <3>0, <3>3 DEF DispatchControl, Mapped
    <3>4. CASE Method[c] = "close" /\ DispatchClose(c)
      BY <2>1, <3>0, <3>4 DEF DispatchClose, Mapped
    <3> QED
      BY <2>1, <3>1, <3>2, <3>3, <3>4
  <2>3. MapIsExact'
    BY <2>2 DEF MapIsExact, MapInv, Mapped
  <2>4. \A item \in ToSet(toElixir) : AnswerIsTrue(item)'
    BY <2>1, <2>2, OldAnswers DEF MapInv
  <2>5. ASSUME NEW ok \in BOOLEAN, toElixir' = Append(toElixir, Response(c, ok)),
               Method[c] = "create" /\ ok => Mapped(s)', Method[c] = "close" => ~Mapped(s)'
        PROVE  MapInv'
    <3>1. /\ Response(c, ok) \in Items /\ Response(c, ok).id = c
          /\ Response(c, ok).n = 1 => ok
      BY <2>1, ItemTypes DEF Response, Item
    <3>2. ToSet(toElixir') = ToSet(toElixir) \cup {Response(c, ok)}
      BY <2>5, <3>1, PipeGains
    <3>3. AnswerIsTrue(Response(c, ok))'
      BY <2>1, <2>5, <3>1 DEF AnswerIsTrue, Mapped
    <3> QED
      BY <2>3, <2>4, <3>2, <3>3 DEF MapInv
  <2> QED
    BY <2>2, <2>3, <2>4, <2>5 DEF MapInv
<1>8. ASSUME NEW s \in Sessions, ClosingPumpEnds(s) PROVE MapInv'
  <2>1. PICK c \in working :
          /\ c \in Calls /\ Target[c] = s /\ Method[c] = "close"
          /\ ToSet(toElixir') \subseteq
               ToSet(toElixir) \cup {Item("error", s, 0), Response(c, TRUE)}
    BY <1>8, ClosingTypes
  <2>2. /\ env' = [env EXCEPT ![s] = "closed"]
        /\ sessions' = sessions \ {s}
    BY <1>8 DEF ClosingPumpEnds
  <2>3. /\ ~Mapped(s)'
        /\ \A t \in Sessions : t # s => env'[t] = env[t]
    BY <2>2 DEF Mapped, TypeOK
  <2>4. MapIsExact'
    BY <2>2, <2>3 DEF MapIsExact, MapInv, Mapped
  <2>5. \A item \in ToSet(toElixir) : AnswerIsTrue(item)'
    BY <2>1, <2>3, OldAnswers DEF MapInv
  <2>6. AnswerIsTrue(Item("error", s, 0))'
    BY DEF AnswerIsTrue, Item
  <2>7. AnswerIsTrue(Response(c, TRUE))'
    <3>1. Response(c, TRUE).id = c
      BY DEF Response, Item
    <3> QED
      BY <2>1, <2>3, <3>1 DEF AnswerIsTrue
  <2> QED
    BY <2>1, <2>4, <2>5, <2>6, <2>7 DEF MapInv
<1>9. \/ UNCHANGED <<sessions, env, toElixir>>
      \/ \E kinds : Reads(kinds) /\ UNCHANGED <<sessions, env>>
      \/ \E s \in Sessions : NodeStep(s)
      \/ \E a \in Asks : AskElixir(a)
      \/ \E c \in Calls : ControlEnds(c)
      \/ Dispatch
  <2>1. CASE UNCHANGED vars
    BY <2>1 DEF vars, pipeVars, nodeVars
  <2>2. ASSUME NEW c \in Calls, ApiCall(c) \/ ApiTimeout(c)
        PROVE  UNCHANGED <<sessions, env, toElixir>>
    BY <2>2 DEF ApiCall, ApiTimeout, pipeVars, nodeVars
  <2>3. ASSUME NEW s \in Sessions, SessionStep(s) \/ RpcTimeout(s) \/ SessionDown(s)
        PROVE  UNCHANGED <<sessions, env, toElixir>>
    BY <2>3 DEF SessionStep, Refuse, Issue, Forward, AnswerAsk, SidecarDown, RpcTimeout,
                SessionDown, pipeVars, nodeVars
  <2>4. ASSUME WorkerReads PROVE \E kinds : Reads(kinds) /\ UNCHANGED <<sessions, env>>
    BY <2>4 DEF WorkerReads, ReplyPending, RouteNotification, RouteInboundRequest,
       nodeVars
  <2>5. ~(ExitStatus \/ WorkerStops \/ NodeExits)
    BY DEF ExitStatus, WorkerStops, NodeExits
  <2>6. ASSUME NEW a \in Asks, AskTimeout(a) PROVE UNCHANGED <<sessions, env, toElixir>>
    BY <2>6 DEF AskTimeout, pipeVars
  <2>7. ASSUME Feed PROVE UNCHANGED <<sessions, env, toElixir>>
    BY <2>7 DEF Feed
  <2> QED
    BY <2>1, <2>2, <2>3, <2>4, <2>5, <2>6, <2>7 DEF Next
<1> QED
  BY <1>1, <1>2, <1>3, <1>4, <1>5, <1>6, <1>7, <1>8, <1>9 DEF NodeStep

-----------------------------------------------------------------------------
(***************************************************************************)
(* The two ends agree.                                                     *)
(***************************************************************************)

LEMMA ProcessStep ==
  ASSUME TypeOK, [Next]_vars, NEW s \in Sessions, process'[s] = "up"
  PROVE  process[s] = "up"
<1>1. ASSUME NEW S, Die(S) PROVE process[s] = "up"
  BY <1>1 DEF Die
<1>2. ASSUME process' = process PROVE process[s] = "up"
  BY <1>2
<1>3. CASE UNCHANGED vars
  BY <1>2, <1>3 DEF vars, sessionVars
<1>4. ASSUME NEW c \in Calls, ApiCall(c) \/ ApiTimeout(c) \/ ControlEnds(c)
      PROVE  process[s] = "up"
  BY <1>2, <1>4 DEF ApiCall, ApiTimeout, ControlEnds, sessionVars
<1>5. ASSUME NEW t \in Sessions, SessionStep(t) \/ RpcTimeout(t) \/ SessionDown(t) \/ NodeStep(t)
      PROVE  process[s] = "up"
  <2>1. process' = process \/ Die({t})
    BY <1>5 DEF SessionStep, Refuse, Issue, Forward, AnswerAsk, SidecarDown, RpcTimeout,
                SessionDown, NodeStep, ClosingPumpEnds, PumpMessage, PumpEnds, sessionVars
  <2> QED
    BY <1>1, <1>2, <2>1
<1>6. ASSUME WorkerReads \/ Feed \/ Dispatch \/ NodeExits PROVE process[s] = "up"
  BY <1>2, <1>6 DEF WorkerReads, ReplyPending, RouteNotification, RouteInboundRequest,
                    Feed, Dispatch, NodeExits, sessionVars
<1>7. ASSUME ExitStatus PROVE process[s] = "up"
  BY <1>7 DEF ExitStatus
<1>8. ASSUME WorkerStops PROVE process[s] = "up"
  BY <1>1, <1>8 DEF WorkerStops
<1>9. ASSUME NEW a \in Asks, AskElixir(a) \/ AskTimeout(a) PROVE process[s] = "up"
  BY <1>2, <1>9 DEF AskElixir, AskTimeout, sessionVars
<1> QED
  BY <1>3, <1>4, <1>5, <1>6, <1>7, <1>8, <1>9 DEF Next

\* Events that say that the SDK has ended the query of s.
ClosedEventsAreTrue(s) ==
  \A item \in ToSet(mailbox[s]) \cup ToSet(toElixir) :
    item.kind = "closed" /\ item.id = s => env[s] \in {"done", "closed"}

\* Those of before stay true when the query does not open again, and no step but the end of
\* the pump adds one.
LEMMA ClosedEventsKept ==
  ASSUME NEW s \in Sessions, MailMoves(s), ClosedEventsAreTrue(s),
         env[s] \in {"done", "closed"} => env'[s] \in {"done", "closed"},
         \A item \in ToSet(toElixir') :
           \/ item \in ToSet(toElixir)
           \/ ~(item.kind = "closed" /\ item.id = s)
           \/ env'[s] \in {"done", "closed"}
  PROVE  ClosedEventsAreTrue(s)'
BY DEF ClosedEventsAreTrue, MailMoves, MailGains

LEMMA StatusParts ==
  ASSUME NEW s
  PROVE  StatusIsTrue(s) <=>
           /\ status[s] = "new" => env[s] = "none" \/ Created(s)
           /\ status[s] = "ready" => Mapped(s) \/ Closing(s)
           /\ status[s] = "closed" => env[s] = "done" \/ ~Mapped(s)
           /\ ClosedEventsAreTrue(s)
BY DEF StatusIsTrue, ClosedEventsAreTrue

\* What s knows stays true while neither it nor its query changes.
LEMMA StatusKept ==
  ASSUME NEW s \in Sessions, MailMoves(s), StatusIsTrue(s),
         env'[s] = env[s], status'[s] = status[s], busy'[s] = busy[s],
         Created(s) => Response(busy[s], TRUE) \in ToSet(toElixir'),
         \A item \in ToSet(toElixir') :
           item \in ToSet(toElixir) \/ ~(item.kind = "closed" /\ item.id = s)
  PROVE  StatusIsTrue(s)'
<1>1. ClosedEventsAreTrue(s)'
  BY ClosedEventsKept, StatusParts
<1>2. Created(s) => Created(s)'
  BY DEF Created, Response, Item
<1>3. Closing(s)' = Closing(s) /\ Mapped(s)' = Mapped(s)
  BY DEF Closing, Mapped
<1> QED
  BY <1>1, <1>2, <1>3 DEF StatusIsTrue, ClosedEventsAreTrue

StatusInv == \A s \in Sessions : process[s] = "up" => StatusIsTrue(s)

LEMMA StatusStep ==
  ASSUME TypeOK, NodeHasWorker, \A s \in Sessions : MailIsOwn(s) /\ BusyIsOwn(s), OneRpc,
         MapInv,
         StatusInv, node = "up", node' = "up", [Next]_vars
  PROVE  StatusInv'
<1> USE SidecarAssumption
<1> SUFFICES ASSUME NEW s \in Sessions, process'[s] = "up" PROVE StatusIsTrue(s)'
  BY DEF StatusInv
<1>1. process[s] = "up" /\ StatusIsTrue(s) /\ MailMoves(s) /\ worker = "up"
  BY ProcessStep, MailStep DEF StatusInv, NodeHasWorker
<1>2. ASSUME env'[s] = env[s], status'[s] = status[s], busy'[s] = busy[s], toElixir' = toElixir
      PROVE  StatusIsTrue(s)'
  BY <1>1, <1>2, StatusKept DEF Created
<1>3. ASSUME NEW x \in Items, ~(x.kind = "closed" /\ x.id = s), toElixir' = Append(toElixir, x),
             env'[s] = env[s], status'[s] = status[s], busy'[s] = busy[s]
      PROVE  StatusIsTrue(s)'
  <2>1. ToSet(toElixir') = ToSet(toElixir) \cup {x}
    BY <1>3, PipeGains
  <2> QED
    BY <1>1, <1>3, <2>1, StatusKept DEF Created
<1>4. ASSUME NEW kinds, "response" \notin kinds, Reads(kinds),
             env'[s] = env[s], status'[s] = status[s], busy'[s] = busy[s]
      PROVE  StatusIsTrue(s)'
  <2>1. ToSet(toElixir) = ToSet(toElixir') \cup {Head(toElixir)} /\ Head(toElixir).kind # "response"
    BY <1>4, PipeLoses, ReadsTypes
  <2>2. Response(busy[s], TRUE).kind = "response"
    BY DEF Response, Item
  <2> QED
    BY <1>1, <1>4, <2>1, <2>2, StatusKept DEF Created
<1>5. ASSUME NEW t \in Sessions, Issue(t) PROVE StatusIsTrue(s)'
  <2>1. /\ busy' = [busy EXCEPT ![t] = Head(mailbox[t]).id] /\ busy[t] = Nil
        /\ UNCHANGED <<env, status, toElixir>>
    BY <1>1, <1>5 DEF Issue, Serves, nodeVars
  <2>2. CASE t # s
    BY <1>2, <2>1, <2>2 DEF TypeOK
  <2>3. CASE t = s
    <3>1. ~Created(s) /\ ~Closing(s)
      BY <2>1, <2>3 DEF Created, Closing
    <3>2. Mapped(s)' = Mapped(s)
      BY <2>1 DEF Mapped
    <3>3. ClosedEventsAreTrue(s)'
      BY <1>1, <2>1, StatusParts, ClosedEventsKept
    <3> QED
      BY <1>1, <2>1, <3>1, <3>2, <3>3 DEF StatusIsTrue, ClosedEventsAreTrue
  <2> QED
    BY <2>2, <2>3
<1>6. ASSUME NEW t \in Sessions, Forward(t) PROVE StatusIsTrue(s)'
  <2>1. /\ Serves(t, Events)
        /\ status' = IF Head(mailbox[t]).kind = "closed" THEN [status EXCEPT ![t] = "closed"] ELSE status
        /\ UNCHANGED <<env, busy, toElixir>>
    BY <1>6 DEF Forward, nodeVars, pipeVars
  <2>2. CASE t # s \/ Head(mailbox[t]).kind # "closed"
    <3>1. status'[s] = status[s]
      BY <2>1, <2>2 DEF TypeOK
    <3> QED
      BY <1>2, <2>1, <3>1
  <2>3. CASE t = s /\ Head(mailbox[s]).kind = "closed"
    <3>1. Head(mailbox[s]) \in ToSet(mailbox[s])
      BY <2>1, <2>3, ServesTypes, TakeItem
    <3>2. Head(mailbox[s]).id = s
      BY <2>3, <3>1 DEF MailIsOwn, Events
    <3>3. env[s] \in {"done", "closed"}
      BY <1>1, <2>3, <3>1, <3>2, StatusParts DEF ClosedEventsAreTrue
    <3>4. status'[s] = "closed"
      BY <2>1, <2>3 DEF TypeOK
    <3>5. ClosedEventsAreTrue(s)'
      BY <1>1, <2>1, StatusParts, ClosedEventsKept
    <3> QED
      BY <2>1, <3>3, <3>4, <3>5 DEF StatusIsTrue, ClosedEventsAreTrue, Mapped
  <2> QED
    BY <2>2, <2>3
<1>7. ASSUME NEW t \in Sessions, SidecarDown(t) \/ RpcTimeout(t) PROVE StatusIsTrue(s)'
  <2>1. /\ Die({t})
        /\ status'[s] = status[s] \/ s = t
        /\ UNCHANGED <<env, toElixir>>
    BY <1>7 DEF SidecarDown, RpcTimeout, TypeOK, pipeVars, nodeVars
  <2>2. s # t /\ busy'[s] = busy[s]
    BY <2>1 DEF Die
  <2> QED
    BY <1>2, <2>1, <2>2
<1>8. ASSUME ReplyPending PROVE StatusIsTrue(s)'
  <2>1. PICK c \in Calls, t \in Sessions : c = Head(toElixir).id /\ t = Target[c]
    <3>1. Reads({"response"})
      BY <1>8 DEF ReplyPending
    <3>2. Head(toElixir) \in Items /\ Head(toElixir).kind \in {"response"}
      BY <3>1, ReadsTypes
    <3>3. Head(toElixir).id \in Calls
      BY <3>2, ItemIds
    <3> QED
      BY <3>3
  <2>2. /\ Reads({"response"})
        /\ IF c \in pending /\ busy[t] = c
           THEN Resume(t, c, Head(toElixir).n = 1)
           ELSE UNCHANGED <<busy, status, registered, told>>
        /\ UNCHANGED env
    BY <1>8, <2>1 DEF ReplyPending, nodeVars
  <2>3. /\ toElixir \in Seq(Items) /\ toElixir # << >> /\ toElixir' = Tail(toElixir)
        /\ Head(toElixir).kind = "response"
    BY <2>2, ReadsTypes
  <2>4. ToSet(toElixir) = ToSet(toElixir') \cup {Head(toElixir)}
    BY <2>2, PipeLoses
  <2>5. c \in Given
    BY <2>1, <2>3, <2>4 DEF Given, Ids
  <2>6. c \notin Ids(toElixir', "response")
    BY <2>1, <2>3, TakeItem DEF OneRpc
  <2>7. CASE t # s
    <3>1. busy'[s] = busy[s] /\ status'[s] = status[s]
      BY <2>2, <2>7 DEF Resume, TypeOK
    <3>2. Created(s) => busy[s] # c
      BY <2>1, <2>7 DEF Created, BusyIsOwn
    <3>3. Response(busy[s], TRUE).id = busy[s]
      BY DEF Response, Item
    <3>4. Created(s) => Response(busy[s], TRUE) \in ToSet(toElixir')
      BY <2>1, <2>4, <3>2, <3>3 DEF Created
    <3> QED
      BY <1>1, <2>2, <2>4, <3>1, <3>4, StatusKept
  <2>8. CASE t = s
    <3>1. busy[s] = c /\ c # Nil
      BY <1>1, <2>1, <2>5, <2>8 DEF OneRpc, Outstanding
    <3>2. Accepts(s, Method[c]) /\ c \in pending
      BY <1>1, <3>1 DEF BusyIsOwn
    <3>3. /\ busy' = [busy EXCEPT ![s] = Nil]
          /\ status' = CASE Method[c] = "create" /\ Head(toElixir).n = 1 -> [status EXCEPT ![s] = "ready"]
                         [] Method[c] = "close"        -> [status EXCEPT ![s] = "closed"]
                         [] OTHER                      -> status
      BY <2>2, <2>8, <3>1, <3>2 DEF Resume
    <3>4. AnswerIsTrue(Head(toElixir))
      BY <2>4 DEF MapInv
    <3>5. ClosedEventsAreTrue(s)'
      BY <1>1, <2>2, <2>4, StatusParts, ClosedEventsKept
    <3>6. Mapped(s)' = Mapped(s)
      BY <2>2 DEF Mapped
    <3>7. CASE Method[c] = "create" /\ Head(toElixir).n = 1
      <4>1. status'[s] = "ready"
        BY <3>3, <3>7 DEF TypeOK
      <4>2. Mapped(s)
        BY <2>1, <2>3, <2>8, <3>4, <3>7 DEF AnswerIsTrue
      <4> QED
        BY <3>5, <3>6, <4>1, <4>2 DEF StatusIsTrue, ClosedEventsAreTrue
    <3>8. CASE Method[c] = "create" /\ Head(toElixir).n # 1
      <4>1. status'[s] = "new" /\ status[s] = "new"
        BY <3>2, <3>3, <3>8 DEF Accepts
      <4>2. ~Created(s)
        <5>1. SUFFICES ASSUME Response(c, TRUE) \in ToSet(toElixir) PROVE FALSE
          BY <3>1 DEF Created
        <5>2. /\ Response(c, TRUE).n = 1 /\ Response(c, TRUE).id = c
              /\ Response(c, TRUE).kind = "response"
          BY DEF Response, Item
        <5>3. Response(c, TRUE) \in ToSet(toElixir')
          BY <2>4, <3>8, <5>1, <5>2
        <5> QED
          BY <2>6, <5>2, <5>3 DEF Ids
      <4>3. env[s] = "none"
        BY <1>1, <4>1, <4>2 DEF StatusIsTrue
      <4> QED
        BY <2>2, <3>5, <4>1, <4>3 DEF StatusIsTrue, ClosedEventsAreTrue
    <3>9. CASE Method[c] = "close"
      <4>1. status'[s] = "closed"
        BY <3>3, <3>9 DEF TypeOK
      <4>2. ~Mapped(s)
        BY <2>1, <2>3, <2>8, <3>4, <3>9 DEF AnswerIsTrue
      <4> QED
        BY <3>5, <3>6, <4>1, <4>2 DEF StatusIsTrue, ClosedEventsAreTrue
    <3>10. CASE Method[c] \in {"send", "control"}
      <4>1. status'[s] = "ready" /\ status[s] = "ready"
        BY <3>2, <3>3, <3>10 DEF Accepts
      <4>2. ~Closing(s)
        BY <3>1, <3>10 DEF Closing
      <4>3. Mapped(s)
        BY <1>1, <4>1, <4>2 DEF StatusIsTrue
      <4> QED
        BY <3>5, <3>6, <4>1, <4>3 DEF StatusIsTrue, ClosedEventsAreTrue
    <3>11. Method[c] \in {"create", "send", "control", "close"}
      OBVIOUS
    <3> QED
      BY <3>7, <3>8, <3>9, <3>10, <3>11
  <2> QED
    BY <2>7, <2>8
<1>9. ASSUME Dispatch PROVE StatusIsTrue(s)'
  <2>1. PICK c \in Calls, t \in Sessions :
          /\ c \in Unread /\ t = Target[c]
          /\ \/ Method[c] = "create" /\ DispatchCreate(c)
             \/ Method[c] = "send" /\ DispatchSend(c)
             \/ Method[c] = "control" /\ DispatchControl(c)
             \/ Method[c] = "close" /\ DispatchClose(c)
          /\ UNCHANGED <<workerVars, sessionVars, node, emitted, ask, told>>
    BY <1>9, DispatchTypes
  <2>2. status' = status /\ busy' = busy
    BY <2>1 DEF sessionVars
  <2>3. toElixir' = toElixir \/ \E ok \in BOOLEAN : toElixir' = Append(toElixir, Response(c, ok))
    BY <2>1 DEF DispatchCreate, DispatchSend, DispatchControl, DispatchClose, Usable
  <2>4. \A ok \in BOOLEAN : /\ Response(c, ok) \in Items
                            /\ Response(c, ok).kind # "closed"
    BY ItemTypes DEF Response, Item
  <2>5. ASSUME env'[s] = env[s] PROVE StatusIsTrue(s)'
    BY <1>2, <1>3, <2>2, <2>3, <2>4, <2>5
  <2>6. CASE t # s
    <3>1. env'[s] = env[s]
      BY <2>1, <2>6 DEF DispatchCreate, DispatchSend, DispatchControl, DispatchClose,
         TypeOK
    <3> QED
      BY <2>5, <3>1
  <2>7. CASE t = s
    <3>1. busy[s] = c /\ c # Nil
      BY <1>1, <2>1, <2>7 DEF OneRpc, Outstanding
    <3>2. Accepts(s, Method[c])
      BY <3>1 DEF BusyIsOwn
    <3>3. ~Created(s)
      <4>1. c \notin Given
        BY <2>1 DEF OneRpc
      <4>2. Response(c, TRUE).kind = "response" /\ Response(c, TRUE).id = c
        BY DEF Response, Item
      <4> QED
        BY <3>1, <4>1, <4>2 DEF Created, Given, Ids
    <3>4. \A item \in ToSet(toElixir') : item \in ToSet(toElixir) \/ item.kind # "closed"
      BY <2>3, <2>4, PipeGains
    <3>5. (s \in sessions <=> Mapped(s)) /\ env \in [Sessions -> {"none", "open", "done", "failed", "closing", "closed"}]
      BY DEF MapInv, MapIsExact, TypeOK
    <3>6. CASE Method[c] = "create" /\ DispatchCreate(c)
      <4>1. status[s] = "new" /\ env[s] = "none"
        BY <1>1, <3>2, <3>3, <3>6 DEF Accepts, StatusIsTrue
      <4>2. PICK ok \in BOOLEAN :
              /\ env' = IF ok THEN [env EXCEPT ![s] = "open"] ELSE env
              /\ toElixir' = Append(toElixir, Response(c, ok))
        BY <2>1, <2>7, <3>6 DEF DispatchCreate
      <4>3. CASE ok
        <5>1. ClosedEventsAreTrue(s)'
          BY <1>1, <3>4, <4>1, StatusParts, ClosedEventsKept
        <5>2. Response(c, TRUE) \in ToSet(toElixir')
          BY <2>4, <4>2, <4>3, PipeGains
        <5>3. Created(s)'
          <6>1. Response(busy[s], TRUE)' = Response(c, TRUE)
            BY <2>2, <3>1 DEF Response, Item
          <6> QED
            BY <2>2, <3>1, <3>6, <5>2, <6>1 DEF Created
        <5> QED
          BY <2>2, <4>1, <5>1, <5>3 DEF StatusIsTrue, ClosedEventsAreTrue
      <4>4. CASE ~ok
        BY <2>5, <4>2, <4>4
      <4> QED
        BY <4>3, <4>4
    <3>7. CASE (Method[c] = "send" /\ DispatchSend(c)) \/ (Method[c] = "control" /\ DispatchControl(c))
      <4>1. env' = env
        BY <3>7 DEF DispatchSend, DispatchControl
      <4> QED
        BY <2>5, <4>1
    <3>8. CASE Method[c] = "close" /\ DispatchClose(c)
      <4>1. CASE s \notin sessions
        <5>1. env' = env
          BY <2>1, <2>7, <3>8, <4>1 DEF DispatchClose
        <5> QED
          BY <2>5, <5>1
      <4>2. CASE s \in sessions
        <5>1. status[s] = "ready"
          BY <1>1, <3>2, <3>3, <3>5, <3>8, <4>2 DEF Accepts, StatusIsTrue, TypeOK, Mapped
        <5>2. Closing(s)'
          BY <2>2, <3>1, <3>8 DEF Closing
        <5>3. env[s] \in {"done", "closed"} => env'[s] \in {"done", "closed"}
          BY <2>1, <2>7, <3>5, <3>8, <4>2 DEF DispatchClose
        <5>4. ClosedEventsAreTrue(s)'
          BY <1>1, <3>4, <5>3, StatusParts, ClosedEventsKept
        <5> QED
          BY <2>2, <5>1, <5>2, <5>4 DEF StatusIsTrue, ClosedEventsAreTrue
      <4> QED
        BY <4>1, <4>2
    <3> QED
      BY <2>1, <3>6, <3>7, <3>8
  <2> QED
    BY <2>6, <2>7
<1>10. ASSUME NEW c \in Calls, ControlEnds(c) PROVE StatusIsTrue(s)'
  <2>1. /\ \E ok \in BOOLEAN : toElixir' = Append(toElixir, Response(c, ok))
        /\ UNCHANGED <<env, status, busy>>
    BY <1>10 DEF ControlEnds, sessionVars
  <2>2. \A ok \in BOOLEAN : Response(c, ok) \in Items /\ Response(c, ok).kind # "closed"
    BY ItemTypes DEF Response, Item
  <2> QED
    BY <1>3, <2>1, <2>2
<1>11. ASSUME NEW t \in Sessions, ClosingPumpEnds(t) PROVE StatusIsTrue(s)'
  <2>1. PICK c \in working :
          /\ c \in Calls /\ Target[c] = t /\ Method[c] = "close"
          /\ ToSet(toElixir') \subseteq
               ToSet(toElixir) \cup {Item("error", t, 0), Response(c, TRUE)}
          /\ ToSet(toElixir) \subseteq ToSet(toElixir')
    BY <1>11, ClosingTypes
  <2>2. /\ env[t] = "closing" /\ env' = [env EXCEPT ![t] = "closed"]
        /\ UNCHANGED <<status, busy>>
    BY <1>11 DEF ClosingPumpEnds, sessionVars
  <2>3. \A item \in ToSet(toElixir') : item \in ToSet(toElixir) \/ item.kind # "closed"
    <3>1. Item("error", t, 0).kind # "closed" /\ Response(c, TRUE).kind # "closed"
      BY DEF Item, Response
    <3> QED
      BY <2>1, <3>1
  <2>4. CASE t # s
    <3>1. env'[s] = env[s]
      BY <2>2, <2>4 DEF TypeOK
    <3>2. Created(s) => Response(busy[s], TRUE) \in ToSet(toElixir')
      BY <2>1 DEF Created
    <3> QED
      BY <1>1, <2>2, <2>3, <3>1, <3>2, StatusKept
  <2>5. CASE t = s
    <3>1. busy[s] = c /\ c # Nil
      BY <1>1, <2>1, <2>5 DEF OneRpc, Outstanding
    <3>2. status[s] # "closed"
      BY <2>1, <3>1 DEF BusyIsOwn, Accepts
    <3>3. status[s] # "new"
      BY <1>1, <2>1, <2>2, <2>5, <3>1 DEF StatusIsTrue, Created
    <3>4. Closing(s)'
      BY <2>1, <2>2, <3>1 DEF Closing
    <3>5. env'[s] = "closed"
      BY <2>2, <2>5 DEF TypeOK
    <3>6. ClosedEventsAreTrue(s)'
      BY <1>1, <2>3, <3>5, StatusParts, ClosedEventsKept
    <3> QED
      BY <2>2, <3>2, <3>3, <3>4, <3>6 DEF StatusIsTrue, ClosedEventsAreTrue
  <2> QED
    BY <2>4, <2>5
<1>12. ASSUME NEW t \in Sessions, PumpMessage(t) PROVE StatusIsTrue(s)'
  <2>1. /\ toElixir' = Append(toElixir, Item("message", t, emitted'[t]))
        /\ UNCHANGED <<env, status, busy>>
    BY <1>12 DEF PumpMessage, sessionVars
  <2>2. emitted'[t] \in Nat
    BY TypeStep DEF TypeOK
  <2>3. /\ Item("message", t, emitted'[t]) \in Items
        /\ Item("message", t, emitted'[t]).kind # "closed"
    BY <2>2, ItemTypes DEF Events, Item
  <2> QED
    BY <1>3, <2>1, <2>3
<1>13. ASSUME NEW a \in Asks, AskElixir(a) PROVE StatusIsTrue(s)'
  <2>1. toElixir' = Append(toElixir, Item("ask", a, 0)) /\ UNCHANGED <<env, status, busy>>
    BY <1>13 DEF AskElixir, sessionVars
  <2>2. Item("ask", a, 0) \in Items /\ Item("ask", a, 0).kind # "closed"
    BY ItemTypes DEF Item
  <2> QED
    BY <1>3, <2>1, <2>2
<1>14. ASSUME NEW t \in Sessions, PumpEnds(t) PROVE StatusIsTrue(s)'
  <2>1. /\ env[t] = "open"
        /\ \/ env' = [env EXCEPT ![t] = "done"] /\ toElixir' = Append(toElixir, Item("closed", t, 0))
           \/ env' = [env EXCEPT ![t] = "failed"] /\ toElixir' = Append(toElixir, Item("error", t, 0))
        /\ UNCHANGED <<status, busy>>
    BY <1>14 DEF PumpEnds, sessionVars
  <2>2. /\ Item("closed", t, 0) \in Items /\ Item("closed", t, 0).id = t
        /\ Item("error", t, 0) \in Items /\ Item("error", t, 0).kind # "closed"
    BY ItemTypes DEF Events, Item
  <2>3. CASE t # s
    <3>1. env'[s] = env[s]
      BY <2>1, <2>3 DEF TypeOK
    <3> QED
      BY <1>3, <2>1, <2>2, <2>3, <3>1
  <2>4. CASE t = s
    <3>1. /\ env'[s] \in {"done", "failed"}
          /\ \/ env'[s] = "done" /\ ToSet(toElixir') = ToSet(toElixir) \cup {Item("closed", s, 0)}
             \/ ToSet(toElixir') = ToSet(toElixir) \cup {Item("error", s, 0)}
      BY <2>1, <2>2, <2>4, PipeGains DEF TypeOK
    <3>2. ClosedEventsAreTrue(s)'
      BY <1>1, <2>1, <2>2, <2>4, <3>1, StatusParts, ClosedEventsKept
    <3>3. Mapped(s)' /\ Mapped(s)
      BY <2>1, <2>4, <3>1 DEF Mapped
    <3>4. status[s] # "closed"
      BY <1>1, <2>1, <2>4, <3>3 DEF StatusIsTrue
    <3>5. status[s] = "new" => Created(s)'
      <4>1. status[s] = "new" => Created(s)
        BY <1>1, <2>1, <2>4 DEF StatusIsTrue
      <4>2. Response(busy[s], TRUE)' = Response(busy[s], TRUE)
        BY <2>1 DEF Response, Item
      <4> QED
        BY <2>1, <3>1, <4>1, <4>2 DEF Created
    <3> QED
      BY <2>1, <3>2, <3>3, <3>4, <3>5 DEF StatusIsTrue, ClosedEventsAreTrue
  <2> QED
    BY <2>3, <2>4
<1>15. ASSUME RouteNotification \/ RouteInboundRequest PROVE StatusIsTrue(s)'
  <2>1. /\ Reads(Events) \/ Reads({"ask"})
        /\ UNCHANGED <<env, status, busy>>
    BY <1>15 DEF RouteNotification, RouteInboundRequest, nodeVars
  <2> QED
    BY <1>4, <2>1 DEF Events
<1>16. \/ UNCHANGED <<env, status, busy, toElixir>>
       \/ \E t \in Sessions : \/ Issue(t) \/ Forward(t) \/ SidecarDown(t) \/ RpcTimeout(t)
                              \/ NodeStep(t)
       \/ ReplyPending \/ RouteNotification \/ RouteInboundRequest \/ Dispatch
       \/ \E a \in Asks : AskElixir(a)
       \/ \E c \in Calls : ControlEnds(c)
  <2>1. CASE UNCHANGED vars
    BY <2>1 DEF vars, sessionVars, pipeVars, nodeVars
  <2>2. ASSUME NEW c \in Calls, ApiCall(c) \/ ApiTimeout(c)
        PROVE  UNCHANGED <<env, status, busy, toElixir>>
    BY <2>2 DEF ApiCall, ApiTimeout, sessionVars, pipeVars, nodeVars
  <2>3. ASSUME NEW t \in Sessions, Refuse(t) \/ AnswerAsk(t) \/ SessionDown(t)
        PROVE  UNCHANGED <<env, status, busy, toElixir>>
    BY <2>3 DEF Refuse, AnswerAsk, SessionDown, sessionVars, pipeVars, nodeVars
  <2>4. ASSUME NEW a \in Asks, AskTimeout(a)
        PROVE  UNCHANGED <<env, status, busy, toElixir>>
    BY <2>4 DEF AskTimeout, sessionVars, pipeVars
  <2>5. ~(ExitStatus \/ WorkerStops \/ NodeExits)
    BY DEF ExitStatus, WorkerStops, NodeExits
  <2>6. ASSUME Feed PROVE UNCHANGED <<env, status, busy, toElixir>>
    BY <2>6 DEF Feed, sessionVars
  <2> QED
    BY <2>1, <2>2, <2>3, <2>4, <2>5, <2>6 DEF Next, WorkerReads, SessionStep
<1> QED
  BY <1>2, <1>5, <1>6, <1>7, <1>8, <1>9, <1>10, <1>11, <1>12, <1>13, <1>14, <1>15, <1>16
     DEF NodeStep

-----------------------------------------------------------------------------
(***************************************************************************)
(* Nothing follows the answer to session.close.                            *)
(***************************************************************************)

\* x is the answer to a session.close, and y is an event of the session that it closed.
Ended(x, y) ==
  /\ x.kind = "response" /\ x.n = 1
  /\ Method[x.id] = "close"
  /\ y.kind \in Events
  /\ y.id = Target[x.id]

QuietIn(q) == \A i, j \in DOMAIN q : i < j => ~Ended(q[i], q[j])

LEMMA QuietIs == QuietAfterClose <=> QuietIn(toElixir)
BY DEF QuietAfterClose, QuietIn, Ended

LEMMA QuietAppend ==
  ASSUME NEW q \in Seq(Items), NEW x \in Items, QuietIn(q), \A y \in ToSet(q) : ~Ended(y,
         x)
  PROVE  QuietIn(Append(q, x))
<1>1. /\ DOMAIN q = 1 .. Len(q) /\ Len(q) \in Nat
      /\ DOMAIN Append(q, x) = 1 .. Len(q) + 1
      /\ \A i \in DOMAIN q : Append(q, x)[i] = q[i]
      /\ Append(q, x)[Len(q) + 1] = x
  OBVIOUS
<1>2. ASSUME NEW i \in DOMAIN Append(q, x), NEW j \in DOMAIN Append(q, x), i < j
      PROVE  ~Ended(Append(q, x)[i], Append(q, x)[j])
  <2>1. i \in DOMAIN q
    BY <1>1, <1>2
  <2>2. CASE j \in DOMAIN q
    BY <1>1, <1>2, <2>1, <2>2 DEF QuietIn
  <2>3. CASE j = Len(q) + 1
    BY <1>1, <2>1, <2>3 DEF ToSet
  <2> QED
    BY <1>1, <2>2, <2>3
<1> QED
  BY <1>2 DEF QuietIn

LEMMA QuietTail ==
  ASSUME NEW q \in Seq(Items), q # << >>, QuietIn(q)
  PROVE  QuietIn(Tail(q))
<1>1. /\ DOMAIN q = 1 .. Len(q) /\ Len(q) \in Nat
      /\ DOMAIN Tail(q) = 1 .. Len(q) - 1
      /\ \A i \in DOMAIN Tail(q) : Tail(q)[i] = q[i + 1]
  OBVIOUS
<1>2. \A i, j \in DOMAIN Tail(q) : i < j => i + 1 < j + 1 /\ i + 1 \in DOMAIN q /\ j + 1 \in DOMAIN q
  BY <1>1
<1> QED
  BY <1>1, <1>2 DEF QuietIn

LEMMA QuietPrefix ==
  ASSUME NEW q \in Seq(Items), NEW n \in 0 .. Len(q), QuietIn(q)
  PROVE  QuietIn(SubSeq(q, 1, n))
<1>1. /\ DOMAIN SubSeq(q, 1, n) \subseteq DOMAIN q
      /\ \A i \in DOMAIN SubSeq(q, 1, n) : SubSeq(q, 1, n)[i] = q[i]
  OBVIOUS
<1> QED
  BY <1>1 DEF QuietIn

LEMMA QuietStep ==
  ASSUME TypeOK, QuietAfterClose, node = "up" => MapInv, [Next]_vars
  PROVE  QuietAfterClose'
<1> USE SidecarAssumption
<1>1. toElixir \in Seq(Items) /\ QuietIn(toElixir)
  BY QuietIs DEF TypeOK
<1> SUFFICES QuietIn(toElixir')
  BY DEF QuietAfterClose, QuietIn, Ended
\* An event is that of a query that Node has.
<1>2. ASSUME NEW x \in Items, x.kind \in Events => node = "up" /\ Mapped(x.id)
      PROVE  \A y \in ToSet(toElixir) : ~Ended(y, x)
  <2> SUFFICES ASSUME NEW y \in ToSet(toElixir), Ended(y, x) PROVE FALSE
    OBVIOUS
  <2>1. MapInv /\ Mapped(x.id)
    BY <1>2 DEF Ended
  <2>2. AnswerIsTrue(y)
    BY <2>1 DEF MapInv
  <2> QED
    BY <2>1, <2>2 DEF AnswerIsTrue, Ended
<1>3. ASSUME NEW x \in Items, x.kind \in Events => node = "up" /\ Mapped(x.id),
             toElixir' = Append(toElixir, x)
      PROVE  QuietIn(toElixir')
  BY <1>1, <1>2, <1>3, QuietAppend
<1>4. ASSUME NEW kinds, Reads(kinds) PROVE QuietIn(toElixir')
  BY <1>1, <1>4, QuietTail, ReadsTypes
<1>5. ASSUME NEW c \in Calls, NEW ok \in BOOLEAN, toElixir' = Append(toElixir, Response(c, ok))
      PROVE  QuietIn(toElixir')
  <2>1. Response(c, ok) \in Items /\ Response(c, ok).kind \notin Events
    BY ItemTypes DEF Response, Item, Events
  <2> QED
    BY <1>3, <1>5, <2>1
<1>6. ASSUME NEW c \in Calls, ControlEnds(c) PROVE QuietIn(toElixir')
  BY <1>5, <1>6 DEF ControlEnds
<1>7. ASSUME NEW s \in Sessions, PumpMessage(s) \/ PumpEnds(s) PROVE QuietIn(toElixir')
  <2>1. /\ node = "up" /\ env[s] = "open"
        /\ \E kind \in Events, n \in Nat : toElixir' = Append(toElixir, Item(kind, s, n))
    <3>1. emitted'[s] \in Nat
      BY TypeStep DEF TypeOK
    <3> QED
      BY <1>7, <3>1 DEF PumpMessage, PumpEnds, Events
  <2>2. \A kind \in Events, n \in Nat : Item(kind, s, n) \in Items /\ Item(kind, s, n).id = s
    BY ItemTypes DEF Item
  <2>3. Mapped(s)
    BY <2>1 DEF Mapped
  <2> QED
    BY <1>3, <2>1, <2>2, <2>3
<1>8. ASSUME NEW s \in Sessions, ClosingPumpEnds(s) PROVE QuietIn(toElixir')
  <2>1. PICK tail \in {<< >>, <<Item("error", s, 0)>>}, c \in working :
          toElixir' = toElixir \o tail \o <<Response(c, TRUE)>>
    BY <1>8 DEF ClosingPumpEnds
  <2>2. c \in Calls
    BY IdTypes
  <2>3. toElixir' \in {Append(toElixir, Response(c, TRUE)),
                       Append(Append(toElixir, Item("error", s, 0)), Response(c, TRUE))}
    BY <2>1, <2>2, LastWords
  <2>4. node = "up" /\ Mapped(s)
    BY <1>8 DEF ClosingPumpEnds, Mapped
  <2>5. /\ Item("error", s, 0) \in Items /\ Item("error", s, 0).id = s
        /\ Response(c, TRUE) \in Items /\ Response(c, TRUE).kind \notin Events
    BY <2>2, ItemTypes DEF Response, Item, Events
  <2>6. Append(toElixir, Item("error", s, 0)) \in Seq(Items)
    BY <1>1, <2>5, AppendItem
  <2>7. QuietIn(Append(toElixir, Item("error", s, 0)))
    BY <1>1, <1>2, <2>4, <2>5, QuietAppend
  <2>8. \A y : ~Ended(y, Response(c, TRUE))
    BY <2>5 DEF Ended
  <2>9. /\ QuietIn(Append(toElixir, Response(c, TRUE)))
        /\ QuietIn(Append(Append(toElixir, Item("error", s, 0)), Response(c, TRUE)))
    BY <1>1, <2>5, <2>6, <2>7, <2>8, QuietAppend
  <2> QED
    BY <2>3, <2>9
<1>9. ASSUME NEW a \in Asks, AskElixir(a) PROVE QuietIn(toElixir')
  <2>1. Item("ask", a, 0) \in Items /\ Item("ask", a, 0).kind \notin Events
    BY ItemTypes DEF Item, Events
  <2> QED
    BY <1>3, <1>9, <2>1 DEF AskElixir
<1>10. ASSUME Dispatch PROVE QuietIn(toElixir')
  <2>1. PICK c \in Calls : DispatchCreate(c) \/ DispatchSend(c) \/ DispatchControl(c) \/ DispatchClose(c)
    <3>1. NodeReads("rpc")
      BY <1>10 DEF Dispatch
    <3>2. Head(toNode) \in Items /\ Head(toNode).kind = "rpc"
      BY <3>1, NodeReadsTypes
    <3>3. Head(toNode).id \in Calls
      BY <3>2, ItemIds
    <3>4. Method[Head(toNode).id] \in {"create", "send", "control", "close"}
      BY <3>3
    <3> QED
      BY <1>10, <3>3, <3>4 DEF Dispatch
  <2>2. toElixir' = toElixir \/ \E ok \in BOOLEAN : toElixir' = Append(toElixir, Response(c, ok))
    BY <2>1 DEF DispatchCreate, DispatchSend, DispatchControl, DispatchClose, Usable
  <2> QED
    BY <1>1, <1>5, <2>2
<1>11. ASSUME NodeExits PROVE QuietIn(toElixir')
  BY <1>1, <1>11, QuietPrefix DEF NodeExits
<1>12. ASSUME WorkerStops PROVE QuietIn(toElixir')
  BY <1>12 DEF WorkerStops, QuietIn
<1>13. \/ toElixir' = toElixir
       \/ WorkerReads \/ WorkerStops \/ Dispatch \/ NodeExits
       \/ \E s \in Sessions : NodeStep(s)
       \/ \E a \in Asks : AskElixir(a)
       \/ \E c \in Calls : ControlEnds(c)
  <2>1. CASE UNCHANGED vars
    BY <2>1 DEF vars, pipeVars
  <2>2. ASSUME NEW c \in Calls, ApiCall(c) \/ ApiTimeout(c) PROVE toElixir' = toElixir
    BY <2>2 DEF ApiCall, ApiTimeout, pipeVars
  <2>3. ASSUME NEW s \in Sessions, SessionStep(s) \/ RpcTimeout(s) \/ SessionDown(s)
        PROVE  toElixir' = toElixir
    BY <2>3 DEF SessionStep, Refuse, Issue, Forward, AnswerAsk, SidecarDown, RpcTimeout,
                SessionDown, pipeVars
  <2>4. ASSUME NEW a \in Asks, AskTimeout(a) PROVE toElixir' = toElixir
    BY <2>4 DEF AskTimeout, pipeVars
  <2>5. ASSUME ExitStatus \/ Feed PROVE toElixir' = toElixir
    BY <2>5 DEF ExitStatus, Feed, pipeVars
  <2> QED
    BY <2>1, <2>2, <2>3, <2>4, <2>5 DEF Next
<1>14. ASSUME WorkerReads PROVE QuietIn(toElixir')
  BY <1>4, <1>14 DEF WorkerReads, ReplyPending, RouteNotification, RouteInboundRequest
<1> QED
  BY <1>1, <1>6, <1>7, <1>8, <1>9, <1>10, <1>11, <1>12, <1>13, <1>14 DEF NodeStep

-----------------------------------------------------------------------------
(***************************************************************************)
(* The messages of a session.                                              *)
(***************************************************************************)

IsMessage(item, s) == item.kind = "message" /\ item.id = s

CarriesParts(q, s, from, to) ==
  /\ \A i \in DOMAIN q : IsMessage(q[i], s) => q[i].n \in from + 1 .. to
  /\ \A n \in from + 1 .. to : \E i \in DOMAIN q : IsMessage(q[i], s) /\ q[i].n = n
  /\ \A i, j \in DOMAIN q :
       IsMessage(q[i], s) /\ IsMessage(q[j], s) /\ i < j => q[i].n < q[j].n

LEMMA CarriesIs ==
  ASSUME NEW q, NEW s, NEW from, NEW to
  PROVE  Carries(q, s, from, to) <=> CarriesParts(q, s, from, to)
BY DEF Carries, CarriesParts, IsMessage

LEMMA CarriesNothing ==
  ASSUME NEW s, NEW from \in Nat
  PROVE  Carries(<< >>, s, from, from)
BY DEF Carries

\* An item at the end: another's, or the next message.
LEMMA CarriesAppend ==
  ASSUME NEW q \in Seq(Items), NEW x \in Items, NEW s, NEW from \in Nat, NEW to \in Nat,
         Carries(q, s, from, to)
  PROVE  /\ ~IsMessage(x, s) => Carries(Append(q, x), s, from, to)
         /\ IsMessage(x, s) /\ x.n = to + 1 /\ from <= to => Carries(Append(q, x), s, from, to + 1)
<1>1. /\ DOMAIN q = 1 .. Len(q) /\ Len(q) \in Nat
      /\ DOMAIN Append(q, x) = 1 .. Len(q) + 1
      /\ \A i \in DOMAIN q : Append(q, x)[i] = q[i]
      /\ Append(q, x)[Len(q) + 1] = x
  OBVIOUS
<1> DEFINE r == Append(q, x)
<1>2. /\ \A i \in DOMAIN r : (i \in DOMAIN q /\ r[i] = q[i]) \/ (i = Len(q) + 1 /\ r[i] = x)
      /\ \A i \in DOMAIN q : i \in DOMAIN r /\ r[i] = q[i] /\ i < Len(q) + 1
      /\ Len(q) + 1 \in DOMAIN r /\ r[Len(q) + 1] = x
      /\ \A i \in DOMAIN r : ~(Len(q) + 1 < i)
  <2>1. DOMAIN r = 1 .. Len(q) + 1
    BY <1>1
  <2>2. \A i \in 1 .. Len(q) + 1 : i \in 1 .. Len(q) \/ i = Len(q) + 1
    BY <1>1
  <2>3. ASSUME NEW i \in DOMAIN r
        PROVE  (i \in DOMAIN q /\ r[i] = q[i]) \/ (i = Len(q) + 1 /\ r[i] = x)
    <3>1. i \in DOMAIN q \/ i = Len(q) + 1
      BY <1>1, <2>1, <2>2
    <3> QED
      BY <1>1, <3>1
  <2>4. \A i \in DOMAIN q : i \in DOMAIN r /\ r[i] = q[i] /\ i < Len(q) + 1
    BY <1>1
  <2>5. /\ Len(q) + 1 \in DOMAIN r /\ r[Len(q) + 1] = x
        /\ \A i \in DOMAIN r : ~(Len(q) + 1 < i)
    BY <1>1
  <2> QED
    BY <2>3, <2>4, <2>5
<1>3. /\ \A i \in DOMAIN q : IsMessage(q[i], s) => q[i].n \in from + 1 .. to
      /\ \A n \in from + 1 .. to : \E i \in DOMAIN q : IsMessage(q[i], s) /\ q[i].n = n
      /\ \A i, j \in DOMAIN q :
           IsMessage(q[i], s) /\ IsMessage(q[j], s) /\ i < j => q[i].n < q[j].n
  BY CarriesIs DEF CarriesParts
<1> HIDE DEF r
<1>4. ASSUME ~IsMessage(x, s) PROVE Carries(r, s, from, to)
  <2>1. \A i \in DOMAIN r : IsMessage(r[i], s) => i \in DOMAIN q /\ r[i] = q[i]
    BY <1>2, <1>4
  <2>2. \A i \in DOMAIN r : IsMessage(r[i], s) => r[i].n \in from + 1 .. to
    BY <1>3, <2>1
  <2>3. \A n \in from + 1 .. to : \E i \in DOMAIN r : IsMessage(r[i], s) /\ r[i].n = n
    BY <1>2, <1>3
  <2>4. \A i, j \in DOMAIN r :
          IsMessage(r[i], s) /\ IsMessage(r[j], s) /\ i < j => r[i].n < r[j].n
    BY <1>3, <2>1
  <2> QED
    BY <2>2, <2>3, <2>4, CarriesIs DEF CarriesParts
<1>5. ASSUME IsMessage(x, s), x.n = to + 1, from <= to PROVE Carries(r, s, from, to + 1)
  <2>1. \A i \in DOMAIN r : IsMessage(r[i], s) => r[i].n \in from + 1 .. to + 1
    BY <1>2, <1>3, <1>5
  <2>2. \A n \in from + 1 .. to + 1 : \E i \in DOMAIN r : IsMessage(r[i], s) /\ r[i].n = n
    <3>1. \A n \in from + 1 .. to + 1 : n \in from + 1 .. to \/ n = to + 1
      OBVIOUS
    <3>2. \E i \in DOMAIN r : IsMessage(r[i], s) /\ r[i].n = to + 1
      <4> DEFINE k == Len(q) + 1
      <4>1. k \in DOMAIN r /\ r[k] = x
        BY ONLY <1>2
      <4> HIDE DEF k
      <4> QED
        BY ONLY <1>5, <4>1
    <3>3. ASSUME NEW n \in from + 1 .. to
          PROVE  \E i \in DOMAIN r : IsMessage(r[i], s) /\ r[i].n = n
      <4>1. PICK i \in DOMAIN q : IsMessage(q[i], s) /\ q[i].n = n
        BY ONLY <1>3, <3>3, Zenon
      <4>2. i \in DOMAIN r /\ r[i] = q[i]
        BY ONLY <1>2, <4>1, Zenon
      <4> QED
        BY ONLY <4>1, <4>2
    <3> QED
      BY ONLY <3>1, <3>2, <3>3, Zenon
  <2>3. \A i, j \in DOMAIN r :
          IsMessage(r[i], s) /\ IsMessage(r[j], s) /\ i < j => r[i].n < r[j].n
    <3>1. \A i \in DOMAIN q : IsMessage(q[i], s) => q[i].n < to + 1
      BY <1>3
    <3> SUFFICES ASSUME NEW i \in DOMAIN r, NEW j \in DOMAIN r,
                        IsMessage(r[i], s), IsMessage(r[j], s), i < j
                 PROVE  r[i].n < r[j].n
      OBVIOUS
    <3>2. i \in DOMAIN q /\ r[i] = q[i]
      BY <1>2
    <3>3. CASE j \in DOMAIN q /\ r[j] = q[j]
      BY <1>3, <3>2, <3>3
    <3>4. CASE j = Len(q) + 1 /\ r[j] = x
      BY <1>5, <3>1, <3>2, <3>4
    <3> QED
      BY <1>2, <3>3, <3>4
  <2>4. CarriesParts(r, s, from, to + 1)
    BY <2>1, <2>2, <2>3 DEF CarriesParts
  <2> QED
    BY <2>4, CarriesIs
<1> QED
  BY <1>4, <1>5 DEF r

\* The item at the head: another's, or the first message.
LEMMA CarriesTail ==
  ASSUME NEW q \in Seq(Items), q # << >>, NEW s, NEW from \in Nat, NEW to \in Nat,
         Carries(q, s, from, to)
  PROVE  /\ ~IsMessage(Head(q), s) => Carries(Tail(q), s, from, to)
         /\ IsMessage(Head(q), s) =>
              Head(q).n = from + 1 /\ from < to /\ Carries(Tail(q), s, from + 1, to)
<1>1. /\ DOMAIN q = 1 .. Len(q) /\ Len(q) \in Nat \ {0}
      /\ DOMAIN Tail(q) = 1 .. Len(q) - 1
      /\ \A i \in DOMAIN Tail(q) : Tail(q)[i] = q[i + 1]
      /\ Head(q) = q[1]
  OBVIOUS
<1> DEFINE r == Tail(q)
<1>2. /\ 1 \in DOMAIN q /\ q[1] = Head(q)
      /\ \A i \in DOMAIN r : i + 1 \in DOMAIN q /\ r[i] = q[i + 1] /\ 1 < i + 1
      /\ \A i \in DOMAIN q : i = 1 \/ (1 < i /\ i - 1 \in DOMAIN r /\ r[i - 1] = q[i])
      /\ \A i, j \in DOMAIN r : i < j => i + 1 < j + 1
  BY <1>1
<1>3. /\ \A i \in DOMAIN q : IsMessage(q[i], s) => q[i].n \in from + 1 .. to
      /\ \A n \in from + 1 .. to : \E i \in DOMAIN q : IsMessage(q[i], s) /\ q[i].n = n
      /\ \A i, j \in DOMAIN q :
           IsMessage(q[i], s) /\ IsMessage(q[j], s) /\ i < j => q[i].n < q[j].n
  BY CarriesIs DEF CarriesParts
<1> HIDE DEF r
<1>4. \A i, j \in DOMAIN r :
        IsMessage(r[i], s) /\ IsMessage(r[j], s) /\ i < j => r[i].n < r[j].n
  BY <1>2, <1>3
<1>5. ASSUME ~IsMessage(Head(q), s) PROVE Carries(r, s, from, to)
  <2>1. \A i \in DOMAIN r : IsMessage(r[i], s) => r[i].n \in from + 1 .. to
    BY <1>2, <1>3
  <2>2. \A n \in from + 1 .. to : \E i \in DOMAIN r : IsMessage(r[i], s) /\ r[i].n = n
    <3>1. \A i \in DOMAIN q : IsMessage(q[i], s) => i - 1 \in DOMAIN r /\ r[i - 1] = q[i]
      BY <1>2, <1>5
    <3> QED
      BY <1>3, <3>1
  <2> QED
    BY <1>4, <2>1, <2>2, CarriesIs DEF CarriesParts
<1>6. ASSUME IsMessage(Head(q), s)
      PROVE  Head(q).n = from + 1 /\ from < to /\ Carries(r, s, from + 1, to)
  <2>1. Head(q).n \in from + 1 .. to
    BY <1>2, <1>3, <1>6
  <2>2. \A i \in DOMAIN q : IsMessage(q[i], s) => i = 1 \/ Head(q).n < q[i].n
    BY <1>2, <1>3, <1>6
  <2>3. from + 1 \in from + 1 .. to
    BY <2>1
  <2>4. PICK k \in DOMAIN q : IsMessage(q[k], s) /\ q[k].n = from + 1
    BY <1>3, <2>3
  <2>5. Head(q).n = from + 1
    BY <1>2, <2>1, <2>2, <2>4
  <2>6. \A i \in DOMAIN r : IsMessage(r[i], s) => r[i].n \in from + 1 + 1 .. to
    <3>1. ASSUME NEW i \in DOMAIN r, IsMessage(r[i], s) PROVE r[i].n \in from + 1 + 1 .. to
      <4>1. q[i + 1].n \in from + 1 .. to /\ Head(q).n < q[i + 1].n
        BY <1>2, <1>3, <1>6, <3>1
      <4> QED
        BY <1>2, <2>5, <4>1
    <3> QED
      BY <3>1
  <2>7. \A n \in from + 1 + 1 .. to : \E i \in DOMAIN r : IsMessage(r[i], s) /\ r[i].n = n
    <3>1. ASSUME NEW n \in from + 1 + 1 .. to
          PROVE  \E i \in DOMAIN r : IsMessage(r[i], s) /\ r[i].n = n
      <4>1. n \in from + 1 .. to /\ n # from + 1
        OBVIOUS
      <4>2. PICK i \in DOMAIN q : IsMessage(q[i], s) /\ q[i].n = n
        BY <1>3, <4>1
      <4>3. i # 1
        BY <1>2, <2>5, <4>1, <4>2
      <4> QED
        BY <1>2, <4>2, <4>3
    <3> QED
      BY <3>1
  <2>8. CarriesParts(r, s, from + 1, to)
    BY <1>4, <2>6, <2>7 DEF CarriesParts
  <2>9. Carries(r, s, from + 1, to)
    BY <2>8, CarriesIs
  <2>10. from < to
    BY <2>1
  <2> QED
    BY <2>5, <2>9, <2>10
<1> QED
  BY <1>5, <1>6 DEF r

\* A set of numbers below a bound has a largest one, or is below any other lower bound.
LEMMA Largest ==
  ASSUME NEW from \in Nat, NEW to \in Nat, from <= to, NEW P \in SUBSET (from + 1 .. to)
  PROVE  \E k \in from .. to : (\A p \in P : p <= k) /\ (k = from \/ k \in P)
<1> DEFINE T == {k \in Nat : from <= k /\ \A p \in P : p <= k}
<1>1. to \in T
  OBVIOUS
<1>2. PICK k \in T : \A y \in T : ~ (<<y, k>> \in OpToRel(<, Nat))
  <2>1. T \subseteq Nat /\ T # {}
    BY <1>1
  <2> HIDE DEF T
  <2> QED
    BY <2>1, NatLessThanWellFounded, WFMin
<1>3. \A y \in T : ~(y < k)
  BY <1>2 DEF OpToRel
<1>4. k \in Nat /\ from <= k /\ \A p \in P : p <= k
  OBVIOUS
<1>5. k <= to
  BY <1>1, <1>3, <1>4
<1>6. k = from \/ k \in P
  <2>1. SUFFICES ASSUME k # from, k \notin P PROVE FALSE
    OBVIOUS
  <2>2. k - 1 \in Nat /\ from <= k - 1 /\ k - 1 < k
    BY <1>4, <2>1
  <2>3. \A p \in P : p \in Nat /\ p # k /\ p <= k
    BY <1>4, <2>1
  <2>4. \A p \in P : p <= k - 1
    BY <1>4, <2>3
  <2> QED
    BY <1>3, <2>2, <2>4
<1> QED
  BY <1>4, <1>5, <1>6

\* What is left when the end is lost.
LEMMA CarriesPrefix ==
  ASSUME NEW q \in Seq(Items), NEW m \in 0 .. Len(q), NEW s, NEW from \in Nat,
         NEW to \in Nat,
         from <= to, Carries(q, s, from, to)
  PROVE  \E k \in from .. to : Carries(SubSeq(q, 1, m), s, from, k)
<1> DEFINE r == SubSeq(q, 1, m)
<1>1. /\ DOMAIN q = 1 .. Len(q) /\ Len(q) \in Nat
      /\ DOMAIN r = 1 .. m /\ m \in Nat
      /\ \A i \in DOMAIN r : i \in DOMAIN q /\ r[i] = q[i]
      /\ \A i \in DOMAIN q : i \in DOMAIN r \/ \A j \in DOMAIN r : j < i
  OBVIOUS
<1>2. /\ \A i \in DOMAIN q : IsMessage(q[i], s) => q[i].n \in from + 1 .. to
      /\ \A n \in from + 1 .. to : \E i \in DOMAIN q : IsMessage(q[i], s) /\ q[i].n = n
      /\ \A i, j \in DOMAIN q :
           IsMessage(q[i], s) /\ IsMessage(q[j], s) /\ i < j => q[i].n < q[j].n
  BY CarriesIs DEF CarriesParts
<1> HIDE DEF r
<1> DEFINE P == {r[i].n : i \in {j \in DOMAIN r : IsMessage(r[j], s)}}
<1>3. P \in SUBSET (from + 1 .. to)
  BY <1>1, <1>2
<1>4. \A i \in DOMAIN r : IsMessage(r[i], s) => r[i].n \in P
  OBVIOUS
<1>5. \A p \in P : \E i \in DOMAIN r : IsMessage(r[i], s) /\ r[i].n = p
  OBVIOUS
<1> HIDE DEF P
<1>6. PICK k \in from .. to : (\A p \in P : p <= k) /\ (k = from \/ k \in P)
  <2>1. \A Q \in SUBSET (from + 1 .. to) :
          \E k \in from .. to : (\A p \in Q : p <= k) /\ (k = from \/ k \in Q)
    BY Largest
  <2> QED
    BY <1>3, <2>1
<1>7. \A i \in DOMAIN r : IsMessage(r[i], s) => r[i].n \in from + 1 .. k
  <2>1. \A p \in P : p \in from + 1 .. k
    BY <1>3, <1>6
  <2> QED
    BY <1>4, <2>1
<1>8. ASSUME NEW n \in from + 1 .. k
      PROVE  \E i \in DOMAIN r : IsMessage(r[i], s) /\ r[i].n = n
  <2>1. n \in from + 1 .. to /\ k # from
    BY <1>6
  <2>2. PICK j \in DOMAIN r : IsMessage(r[j], s) /\ r[j].n = k
    BY <1>5, <1>6, <2>1
  <2>3. PICK i \in DOMAIN q : IsMessage(q[i], s) /\ q[i].n = n
    BY <1>2, <2>1
  <2>4. i \in DOMAIN r
    <3>1. SUFFICES ASSUME i \notin DOMAIN r PROVE FALSE
      OBVIOUS
    <3>2. j < i /\ j \in DOMAIN q /\ r[j] = q[j]
      BY <1>1, <2>2, <3>1
    <3>3. k < n
      BY <1>2, <2>2, <2>3, <3>2
    <3> QED
      BY <3>3
  <2> QED
    BY <1>1, <2>3, <2>4
<1>9. \A i, j \in DOMAIN r :
        IsMessage(r[i], s) /\ IsMessage(r[j], s) /\ i < j => r[i].n < r[j].n
  BY <1>1, <1>2
<1>10. Carries(r, s, from, k)
  BY <1>7, <1>8, <1>9, CarriesIs DEF CarriesParts
<1> QED
  BY <1>10 DEF r

\* The stream of s: what its subscribers have seen, its mailbox and the pipe.
InOrder(s, saw, mail, pipe, n, live) ==
  /\ \A i \in DOMAIN saw : saw[i] = i
  /\ \E routed \in Len(saw) .. n : \E sent \in routed .. n :
       /\ Carries(mail, s, Len(saw), routed)
       /\ Carries(pipe, s, routed, sent)
       /\ live => sent = n

Live == worker = "up" /\ node = "up"

LEMMA MessagesAre ==
  MessagesInOrder <=>
    \A s \in registered :
      process[s] = "up" => InOrder(s, seen[s], mailbox[s], toElixir, emitted[s], Live)
BY DEF MessagesInOrder, InOrder, Live

\* Other items come and go.
LEMMA InOrderPut ==
  ASSUME NEW s, NEW saw \in Seq(Nat), NEW mail \in Seq(Items), NEW pipe \in Seq(Items),
         NEW n \in Nat, NEW live \in BOOLEAN, InOrder(s, saw, mail, pipe, n, live),
         NEW x \in Items, ~IsMessage(x, s)
  PROVE  /\ InOrder(s, saw, Append(mail, x), pipe, n, live)
         /\ InOrder(s, saw, mail, Append(pipe, x), n, live)
<1>1. /\ Len(saw) \in Nat
      /\ \A i \in DOMAIN saw : saw[i] = i
      /\ \E routed \in Len(saw) .. n : \E sent \in routed .. n :
           /\ Carries(mail, s, Len(saw), routed)
           /\ Carries(pipe, s, routed, sent)
           /\ live => sent = n
  BY DEF InOrder
<1>2. PICK routed \in Len(saw) .. n : \E sent \in routed .. n :
        /\ Carries(mail, s, Len(saw), routed)
        /\ Carries(pipe, s, routed, sent)
        /\ live => sent = n
  BY <1>1
<1>3. PICK sent \in routed .. n :
        /\ Carries(mail, s, Len(saw), routed)
        /\ Carries(pipe, s, routed, sent)
        /\ live => sent = n
  BY <1>2
<1>4. /\ routed \in Nat /\ sent \in Nat
      /\ Len(saw) <= routed /\ routed <= sent /\ sent <= n
  BY <1>1
<1>5. /\ Carries(Append(mail, x), s, Len(saw), routed)
      /\ Carries(Append(pipe, x), s, routed, sent)
  BY <1>1, <1>3, <1>4, CarriesAppend
<1> QED
  BY <1>1, <1>3, <1>5 DEF InOrder

\* The next message of the SDK.
LEMMA InOrderNext ==
  ASSUME NEW s, NEW saw \in Seq(Nat), NEW mail \in Seq(Items), NEW pipe \in Seq(Items),
         NEW n \in Nat, NEW live \in BOOLEAN, InOrder(s, saw, mail, pipe, n, live),
         NEW x \in Items, IsMessage(x, s), x.n = n + 1, live
  PROVE  InOrder(s, saw, mail, Append(pipe, x), n + 1, live)
<1>1. /\ Len(saw) \in Nat
      /\ \A i \in DOMAIN saw : saw[i] = i
      /\ \E routed \in Len(saw) .. n : \E sent \in routed .. n :
           /\ Carries(mail, s, Len(saw), routed)
           /\ Carries(pipe, s, routed, sent)
           /\ live => sent = n
  BY DEF InOrder
<1>2. PICK routed \in Len(saw) .. n : \E sent \in routed .. n :
        /\ Carries(mail, s, Len(saw), routed)
        /\ Carries(pipe, s, routed, sent)
        /\ live => sent = n
  BY <1>1
<1>3. PICK sent \in routed .. n :
        /\ Carries(mail, s, Len(saw), routed)
        /\ Carries(pipe, s, routed, sent)
        /\ live => sent = n
  BY <1>2
<1>4. /\ routed \in Nat /\ sent \in Nat
      /\ Len(saw) <= routed /\ routed <= sent /\ sent <= n
  BY <1>1
<1>5. sent = n
  BY <1>3
<1>6. Carries(Append(pipe, x), s, routed, n + 1)
  BY <1>3, <1>4, <1>5, CarriesAppend
<1>7. routed \in Len(saw) .. n + 1 /\ n + 1 \in routed .. n + 1
  BY <1>1, <1>4
<1> QED
  BY <1>1, <1>3, <1>6, <1>7 DEF InOrder

\* The end of the pipe is lost with Node, the pipe with the worker.
LEMMA InOrderLost ==
  ASSUME NEW s, NEW saw \in Seq(Nat), NEW mail \in Seq(Items), NEW pipe \in Seq(Items),
         NEW n \in Nat, NEW live \in BOOLEAN, InOrder(s, saw, mail, pipe, n, live)
  PROVE  /\ InOrder(s, saw, mail, pipe, n, FALSE)
         /\ InOrder(s, saw, mail, << >>, n, FALSE)
         /\ \A m \in 0 .. Len(pipe) : InOrder(s, saw, mail, SubSeq(pipe, 1, m), n, FALSE)
<1>1. /\ Len(saw) \in Nat
      /\ \A i \in DOMAIN saw : saw[i] = i
      /\ \E routed \in Len(saw) .. n : \E sent \in routed .. n :
           /\ Carries(mail, s, Len(saw), routed)
           /\ Carries(pipe, s, routed, sent)
           /\ live => sent = n
  BY DEF InOrder
<1>2. PICK routed \in Len(saw) .. n : \E sent \in routed .. n :
        /\ Carries(mail, s, Len(saw), routed)
        /\ Carries(pipe, s, routed, sent)
        /\ live => sent = n
  BY <1>1
<1>3. PICK sent \in routed .. n :
        /\ Carries(mail, s, Len(saw), routed)
        /\ Carries(pipe, s, routed, sent)
        /\ live => sent = n
  BY <1>2
<1>4. /\ routed \in Nat /\ sent \in Nat
      /\ Len(saw) <= routed /\ routed <= sent /\ sent <= n
  BY <1>1
<1>5. InOrder(s, saw, mail, pipe, n, FALSE)
  BY <1>1, <1>3 DEF InOrder
<1>6. InOrder(s, saw, mail, << >>, n, FALSE)
  <2>1. routed \in routed .. n /\ Carries(<< >>, s, routed, routed)
    BY <1>4, CarriesNothing
  <2> QED
    BY <1>1, <1>3, <2>1 DEF InOrder
<1>7. ASSUME NEW m \in 0 .. Len(pipe)
      PROVE  InOrder(s, saw, mail, SubSeq(pipe, 1, m), n, FALSE)
  <2>1. PICK k \in routed .. sent : Carries(SubSeq(pipe, 1, m), s, routed, k)
    BY <1>3, <1>4, CarriesPrefix
  <2>2. k \in routed .. n
    BY <1>4
  <2> QED
    BY <1>1, <1>3, <2>1, <2>2 DEF InOrder
<1> QED
  BY <1>5, <1>6, <1>7

\* The session takes the head of its mailbox.
LEMMA InOrderServed ==
  ASSUME NEW s, NEW saw \in Seq(Nat), NEW mail \in Seq(Items), NEW pipe \in Seq(Items),
         NEW n \in Nat, NEW live \in BOOLEAN, InOrder(s, saw, mail, pipe, n, live),
         mail # << >>
  PROVE  /\ IsMessage(Head(mail), s) =>
              InOrder(s, Append(saw, Head(mail).n), Tail(mail), pipe, n, live)
         /\ ~IsMessage(Head(mail), s) => InOrder(s, saw, Tail(mail), pipe, n, live)
<1>1. /\ Len(saw) \in Nat
      /\ \A i \in DOMAIN saw : saw[i] = i
      /\ \E routed \in Len(saw) .. n : \E sent \in routed .. n :
           /\ Carries(mail, s, Len(saw), routed)
           /\ Carries(pipe, s, routed, sent)
           /\ live => sent = n
  BY DEF InOrder
<1>2. PICK routed \in Len(saw) .. n : \E sent \in routed .. n :
        /\ Carries(mail, s, Len(saw), routed)
        /\ Carries(pipe, s, routed, sent)
        /\ live => sent = n
  BY <1>1
<1>3. PICK sent \in routed .. n :
        /\ Carries(mail, s, Len(saw), routed)
        /\ Carries(pipe, s, routed, sent)
        /\ live => sent = n
  BY <1>2
<1>4. /\ routed \in Nat /\ sent \in Nat
      /\ Len(saw) <= routed /\ routed <= sent /\ sent <= n
  BY <1>1
<1>5. ASSUME IsMessage(Head(mail), s)
      PROVE  InOrder(s, Append(saw, Head(mail).n), Tail(mail), pipe, n, live)
  <2>1. /\ Head(mail).n = Len(saw) + 1 /\ Len(saw) < routed
        /\ Carries(Tail(mail), s, Len(saw) + 1, routed)
    BY <1>1, <1>3, <1>4, <1>5, CarriesTail
  <2> DEFINE new == Append(saw, Head(mail).n)
  <2>2. Len(new) = Len(saw) + 1 /\ \A i \in DOMAIN new : new[i] = i
    <3>1. /\ DOMAIN saw = 1 .. Len(saw) /\ Len(saw) \in Nat
          /\ Len(new) = Len(saw) + 1 /\ DOMAIN new = 1 .. Len(saw) + 1
          /\ \A i \in DOMAIN saw : new[i] = saw[i]
          /\ new[Len(saw) + 1] = Head(mail).n
      OBVIOUS
    <3> HIDE DEF new
    <3>2. \A i \in DOMAIN new : i \in DOMAIN saw \/ i = Len(saw) + 1
      BY ONLY <3>1
    <3> QED
      BY <1>1, <2>1, <3>1, <3>2
  <2>3. routed \in Len(saw) + 1 .. n
    BY <1>1, <1>4, <2>1
  <2> HIDE DEF new
  <2>4. InOrder(s, new, Tail(mail), pipe, n, live)
    BY <1>3, <2>1, <2>2, <2>3 DEF InOrder
  <2> QED
    BY <2>4 DEF new
<1>6. ASSUME ~IsMessage(Head(mail), s) PROVE InOrder(s, saw, Tail(mail), pipe, n, live)
  <2>1. Carries(Tail(mail), s, Len(saw), routed)
    BY <1>1, <1>3, <1>4, <1>6, CarriesTail
  <2> QED
    BY <1>1, <1>3, <2>1 DEF InOrder
<1> QED
  BY <1>5, <1>6

\* The worker takes the head of the pipe; a message goes to the mailbox.
LEMMA InOrderRouted ==
  ASSUME NEW s, NEW saw \in Seq(Nat), NEW mail \in Seq(Items), NEW pipe \in Seq(Items),
         NEW n \in Nat, NEW live \in BOOLEAN, InOrder(s, saw, mail, pipe, n, live),
         pipe # << >>
  PROVE  /\ IsMessage(Head(pipe), s) =>
              InOrder(s, saw, Append(mail, Head(pipe)), Tail(pipe), n, live)
         /\ ~IsMessage(Head(pipe), s) => InOrder(s, saw, mail, Tail(pipe), n, live)
<1>1. /\ Len(saw) \in Nat
      /\ \A i \in DOMAIN saw : saw[i] = i
      /\ \E routed \in Len(saw) .. n : \E sent \in routed .. n :
           /\ Carries(mail, s, Len(saw), routed)
           /\ Carries(pipe, s, routed, sent)
           /\ live => sent = n
  BY DEF InOrder
<1>2. PICK routed \in Len(saw) .. n : \E sent \in routed .. n :
        /\ Carries(mail, s, Len(saw), routed)
        /\ Carries(pipe, s, routed, sent)
        /\ live => sent = n
  BY <1>1
<1>3. PICK sent \in routed .. n :
        /\ Carries(mail, s, Len(saw), routed)
        /\ Carries(pipe, s, routed, sent)
        /\ live => sent = n
  BY <1>2
<1>4. /\ routed \in Nat /\ sent \in Nat
      /\ Len(saw) <= routed /\ routed <= sent /\ sent <= n
  BY <1>1
<1>5. ASSUME IsMessage(Head(pipe), s)
      PROVE  InOrder(s, saw, Append(mail, Head(pipe)), Tail(pipe), n, live)
  <2>1. Head(pipe).n = routed + 1 /\ routed < sent /\ Carries(Tail(pipe), s, routed + 1, sent)
    BY <1>3, <1>4, <1>5, CarriesTail
  <2>2. Head(pipe) \in Items
    BY TakeItem
  <2>3. Carries(Append(mail, Head(pipe)), s, Len(saw), routed + 1)
    BY <1>1, <1>3, <1>4, <1>5, <2>1, <2>2, CarriesAppend
  <2>4. routed + 1 \in Len(saw) .. n /\ sent \in routed + 1 .. n
    BY <1>1, <1>4, <2>1
  <2> QED
    BY <1>1, <1>3, <2>1, <2>3, <2>4 DEF InOrder
<1>6. ASSUME ~IsMessage(Head(pipe), s) PROVE InOrder(s, saw, mail, Tail(pipe), n, live)
  <2>1. Carries(Tail(pipe), s, routed, sent)
    BY <1>3, <1>4, <1>6, CarriesTail
  <2> QED
    BY <1>1, <1>3, <2>1 DEF InOrder
<1> QED
  BY <1>5, <1>6

\* Nobody is registered again.
LEMMA RegisteredStep ==
  ASSUME [Next]_vars
  PROVE  registered' \subseteq registered
<1>1. CASE UNCHANGED vars
  BY <1>1 DEF vars, workerVars
<1>2. ASSUME NEW c \in Calls, ApiCall(c) \/ ApiTimeout(c) \/ ControlEnds(c)
      PROVE  registered' = registered
  BY <1>2 DEF ApiCall, ApiTimeout, ControlEnds, workerVars
<1>3. ASSUME NEW s \in Sessions, SessionStep(s) \/ RpcTimeout(s) \/ NodeStep(s)
      PROVE  registered' = registered
  BY <1>3 DEF SessionStep, Refuse, Issue, Forward, AnswerAsk, SidecarDown, RpcTimeout,
              NodeStep, ClosingPumpEnds, PumpMessage, PumpEnds, workerVars
<1>4. ASSUME NEW s \in Sessions, SessionDown(s) PROVE registered' \subseteq registered
  BY <1>4 DEF SessionDown
<1>5. ASSUME ReplyPending PROVE registered' \subseteq registered
  BY <1>5 DEF ReplyPending, Resume
<1>6. ASSUME RouteNotification \/ RouteInboundRequest \/ ExitStatus \/ WorkerStops \/ Feed
             \/ Dispatch \/ NodeExits
      PROVE  registered' = registered
  BY <1>6 DEF RouteNotification, RouteInboundRequest, ExitStatus, WorkerStops, Feed,
     Dispatch,
              NodeExits, workerVars
<1>7. ASSUME NEW a \in Asks, AskElixir(a) \/ AskTimeout(a) PROVE registered' = registered
  BY <1>7 DEF AskElixir, AskTimeout, workerVars
<1> QED
  BY <1>1, <1>2, <1>3, <1>4, <1>5, <1>6, <1>7 DEF Next, WorkerReads

\* The worker is up until it exits or stops, which is after or together with Node; neither
\* comes back.
LEMMA LiveStep ==
  ASSUME TypeOK, NodeHasWorker, [Next]_vars
  PROVE  NodeHasWorker' /\ (Live' => Live) /\ (node' = "up" => node = "up" /\ worker' = worker)
<1>1. CASE UNCHANGED vars
  BY <1>1 DEF vars, workerVars, nodeVars, Live, NodeHasWorker
<1>2. ASSUME UNCHANGED <<worker, node>>
      PROVE  NodeHasWorker' /\ (Live' => Live) /\ (node' = "up" => node = "up" /\ worker' = worker)
  BY <1>2 DEF Live, NodeHasWorker
<1>3. ASSUME NEW c \in Calls, ApiCall(c) \/ ApiTimeout(c) \/ ControlEnds(c)
      PROVE  UNCHANGED <<worker, node>>
  BY <1>3 DEF ApiCall, ApiTimeout, ControlEnds, workerVars, nodeVars
<1>4. ASSUME NEW s \in Sessions, SessionStep(s) \/ RpcTimeout(s) \/ SessionDown(s) \/ NodeStep(s)
      PROVE  UNCHANGED <<worker, node>>
  BY <1>4 DEF SessionStep, Refuse, Issue, Forward, AnswerAsk, SidecarDown, RpcTimeout,
              SessionDown, NodeStep, ClosingPumpEnds, PumpMessage, PumpEnds, workerVars, nodeVars
<1>5. ASSUME WorkerReads \/ Feed \/ Dispatch PROVE UNCHANGED <<worker, node>>
  BY <1>5 DEF WorkerReads, ReplyPending, RouteNotification, RouteInboundRequest, Feed,
     Dispatch,
              workerVars, nodeVars
<1>6. ASSUME NEW a \in Asks, AskElixir(a) \/ AskTimeout(a) PROVE UNCHANGED <<worker, node>>
  BY <1>6 DEF AskElixir, AskTimeout, workerVars
<1>7. ASSUME ExitStatus \/ WorkerStops \/ NodeExits PROVE node' = "down"
  BY <1>7 DEF ExitStatus, WorkerStops, NodeExits, nodeVars
<1>8. ASSUME node' = "down"
      PROVE  NodeHasWorker' /\ (Live' => Live) /\ (node' = "up" => node = "up" /\ worker' = worker)
  BY <1>8 DEF Live, NodeHasWorker
<1> QED
  BY <1>1, <1>2, <1>3, <1>4, <1>5, <1>6, <1>7, <1>8 DEF Next

LEMMA MessagesStep ==
  ASSUME TypeOK, NodeHasWorker, \A s \in Sessions : MailIsOwn(s), MessagesInOrder,
         [Next]_vars
  PROVE  MessagesInOrder'
<1> USE SidecarAssumption
<1> DEFINE Ok(s) == InOrder(s, seen'[s], mailbox'[s], toElixir', emitted'[s], Live')
<1>1. TypeOK'
  BY TypeStep
<1> SUFFICES ASSUME NEW s \in Sessions, s \in registered, process'[s] = "up",
                    process[s] = "up", InOrder(s, seen[s], mailbox[s], toElixir, emitted[s], Live)
             PROVE  Ok(s)
  <2>1. registered' \subseteq Sessions /\ registered' \subseteq registered
    BY <1>1, RegisteredStep DEF TypeOK
  <2>2. \A s \in Sessions : process'[s] = "up" => process[s] = "up"
    BY ProcessStep
  <2>3. \A s \in registered :
          process[s] = "up" => InOrder(s, seen[s], mailbox[s], toElixir, emitted[s], Live)
    BY MessagesAre
  <2>4. \A s \in registered' : process'[s] = "up" => Ok(s)
    BY <2>1, <2>2, <2>3
  <2> QED
    BY <2>4 DEF MessagesInOrder, InOrder, Live
<1>2. /\ seen[s] \in Seq(Nat) /\ mailbox[s] \in Seq(Items) /\ toElixir \in Seq(Items)
      /\ emitted[s] \in Nat /\ Live \in BOOLEAN
      /\ InOrder(s, seen[s], mailbox[s], toElixir, emitted[s], Live)
  BY DEF TypeOK, Live
\* What the step takes out and puts in, when the stream is whole or Node is gone.
<1>3. \A x \in Items : ~IsMessage(x, s) =>
        /\ InOrder(s, seen[s], Append(mailbox[s], x), toElixir, emitted[s], Live)
        /\ InOrder(s, seen[s], mailbox[s], Append(toElixir, x), emitted[s], Live)
  BY <1>2, InOrderPut
<1>4. /\ InOrder(s, seen[s], mailbox[s], toElixir, emitted[s], FALSE)
      /\ InOrder(s, seen[s], mailbox[s], << >>, emitted[s], FALSE)
      /\ \A m \in 0 .. Len(toElixir) :
           InOrder(s, seen[s], mailbox[s], SubSeq(toElixir, 1, m), emitted[s], FALSE)
  BY <1>2, InOrderLost
<1>5. ASSUME mailbox[s] # << >>
      PROVE
        /\ IsMessage(Head(mailbox[s]), s) =>
             InOrder(s, Append(seen[s], Head(mailbox[s]).n), Tail(mailbox[s]), toElixir, emitted[s], Live)
        /\ ~IsMessage(Head(mailbox[s]), s) =>
             InOrder(s, seen[s], Tail(mailbox[s]), toElixir, emitted[s], Live)
  BY ONLY <1>2, <1>5, InOrderServed, Zenon
<1>6. ASSUME toElixir # << >>
      PROVE
        /\ IsMessage(Head(toElixir), s) =>
             InOrder(s, seen[s], Append(mailbox[s], Head(toElixir)), Tail(toElixir), emitted[s], Live)
        /\ ~IsMessage(Head(toElixir), s) =>
             InOrder(s, seen[s], mailbox[s], Tail(toElixir), emitted[s], Live)
  BY ONLY <1>2, <1>6, InOrderRouted, SMT
<1>7. Live' = Live \/ Live' = FALSE
  <2>1. Live' => Live
    BY LiveStep
  <2>2. Live \in BOOLEAN /\ Live' \in BOOLEAN
    BY DEF Live
  <2> QED
    BY <2>1, <2>2

<1> HIDE DEF Ok
<1>8. ASSUME UNCHANGED <<seen[s], emitted[s], mailbox[s], toElixir>> PROVE Ok(s)
  <2>1. InOrder(s, seen[s], mailbox[s], toElixir, emitted[s], Live')
    BY <1>4, <1>7
  <2> QED
    BY <1>8, <2>1 DEF Ok
\* An item of another kind, or of another session, at the end of the pipe.
<1>9. ASSUME NEW x \in Items, ~IsMessage(x, s), toElixir' = Append(toElixir, x),
             UNCHANGED <<seen[s], emitted[s], mailbox[s], worker, node>>
      PROVE  Ok(s)
  <2>1. InOrder(s, seen[s], mailbox[s], Append(toElixir, x), emitted[s], Live)
    BY <1>3, <1>9
  <2>2. Live' = Live
    BY <1>9 DEF Live
  <2> QED
    BY <1>9, <2>1, <2>2 DEF Ok
<1>10. ASSUME NEW c \in Calls, ApiCall(c) PROVE Ok(s)
  <2>1. UNCHANGED <<seen[s], emitted[s], toElixir, worker, node>>
    BY <1>10 DEF ApiCall, workerVars, pipeVars, nodeVars
  <2>2. mailbox'[s] = mailbox[s] \/ mailbox'[s] = Append(mailbox[s], Item("call", c, 0))
    BY <1>10 DEF ApiCall, TypeOK
  <2>3. Item("call", c, 0) \in Items /\ ~IsMessage(Item("call", c, 0), s)
    BY ItemTypes DEF IsMessage, Item
  <2>4. CASE mailbox'[s] = mailbox[s]
    BY <1>8, <2>1, <2>4
  <2>5. CASE mailbox'[s] = Append(mailbox[s], Item("call", c, 0))
    <3>1. InOrder(s, seen[s], mailbox'[s], toElixir, emitted[s], Live)
      BY <1>3, <2>3, <2>5
    <3>2. Live' = Live
      BY <2>1 DEF Live
    <3> QED
      BY <2>1, <3>1, <3>2 DEF Ok
  <2> QED
    BY <2>2, <2>4, <2>5
\* A session serves the head of its mailbox.
<1>11. ASSUME NEW t \in Sessions, NEW kinds, Serves(t, kinds), "message" \notin kinds,
              mailbox' = Taken(t), UNCHANGED <<seen, emitted, toElixir, worker, node>>
       PROVE  Ok(s)
  <2>1. CASE t # s
    <3>1. mailbox'[s] = mailbox[s]
      BY <1>11, <2>1 DEF Taken, TypeOK
    <3> QED
      BY <1>8, <1>11, <3>1
  <2>2. CASE t = s
    <3>1. /\ mailbox[s] # << >> /\ ~IsMessage(Head(mailbox[s]), s)
          /\ mailbox'[s] = Tail(mailbox[s])
      BY <1>11, <2>2 DEF Taken, TypeOK, Serves, IsMessage
    <3>2. InOrder(s, seen[s], mailbox'[s], toElixir, emitted[s], Live)
      BY <1>5, <3>1
    <3>3. Live' = Live
      BY <1>11 DEF Live
    <3> QED
      BY <1>11, <3>2, <3>3 DEF Ok
  <2> QED
    BY <2>1, <2>2
<1>12. ASSUME NEW t \in Sessions, Die({t}), UNCHANGED <<seen, emitted, toElixir>> PROVE Ok(s)
  <2>1. t # s
    BY <1>12 DEF Die
  <2>2. mailbox'[s] = mailbox[s]
    BY <1>12, <2>1 DEF Die
  <2> QED
    BY <1>8, <1>12, <2>2
<1>13. ASSUME NEW t \in Sessions, Refuse(t) \/ Issue(t) \/ AnswerAsk(t) PROVE Ok(s)
  <2>1. CASE Refuse(t)
    BY <1>11, <2>1 DEF Refuse, workerVars, pipeVars, nodeVars
  <2>2. CASE AnswerAsk(t)
    BY <1>11, <2>2 DEF AnswerAsk, workerVars, pipeVars, nodeVars
  <2>3. CASE Issue(t)
    <3>1. /\ Serves(t, {"call"}) /\ UNCHANGED <<seen, emitted, toElixir, worker, node>>
          /\ mailbox' = Taken(t) \/ Die({t})
      BY <2>3 DEF Issue, nodeVars
    <3> QED
      BY <1>11, <1>12, <3>1
  <2> QED
    BY <1>13, <2>1, <2>2, <2>3
<1>14. ASSUME NEW t \in Sessions, SidecarDown(t) \/ RpcTimeout(t) PROVE Ok(s)
  BY <1>12, <1>14 DEF SidecarDown, RpcTimeout, pipeVars, nodeVars
<1>15. ASSUME NEW t \in Sessions, Forward(t) PROVE Ok(s)
  <2>1. /\ Serves(t, Events)
        /\ mailbox' = Taken(t)
        /\ seen' = IF Head(mailbox[t]).kind = "message"
                   THEN [seen EXCEPT ![t] = Append(@, Head(mailbox[t]).n)] ELSE seen
        /\ UNCHANGED <<emitted, toElixir, worker, node>>
    BY <1>15 DEF Forward, workerVars, pipeVars, nodeVars
  <2>2. CASE t # s
    <3>1. mailbox'[s] = mailbox[s] /\ seen'[s] = seen[s]
      BY <2>1, <2>2 DEF Taken, TypeOK
    <3> QED
      BY <1>8, <2>1, <3>1
  <2>3. CASE t = s
    <3>1. mailbox[s] # << >> /\ mailbox'[s] = Tail(mailbox[s])
      BY <2>1, <2>3 DEF Serves, Taken, TypeOK
    <3>2. Head(mailbox[s]).kind = "message" => Head(mailbox[s]).id = s
      <4>1. Head(mailbox[s]) \in ToSet(mailbox[s])
        BY <1>2, <3>1, TakeItem
      <4> QED
        BY <4>1 DEF MailIsOwn, Events
    <3>3. seen'[s] = IF IsMessage(Head(mailbox[s]), s)
                     THEN Append(seen[s], Head(mailbox[s]).n) ELSE seen[s]
      BY <2>1, <2>3, <3>2 DEF TypeOK, IsMessage
    <3>4. InOrder(s, seen'[s], mailbox'[s], toElixir, emitted[s], Live)
      BY <1>5, <3>1, <3>3
    <3>5. Live' = Live
      BY <2>1 DEF Live
    <3> QED
      BY <2>1, <3>4, <3>5 DEF Ok
  <2> QED
    BY <2>2, <2>3

\* The worker reads the pipe.
<1>16. ASSUME NEW kinds, Reads(kinds), UNCHANGED <<seen, emitted, worker, node>>,
              ~IsMessage(Head(toElixir), s),
              \/ mailbox'[s] = mailbox[s]
              \/ mailbox'[s] = Append(mailbox[s], Head(toElixir))
       PROVE  Ok(s)
  <2>1. /\ toElixir # << >> /\ Head(toElixir) \in Items
        /\ toElixir' = Tail(toElixir) /\ toElixir' \in Seq(Items)
    BY <1>16, ReadsTypes
  <2>2. InOrder(s, seen[s], mailbox[s], toElixir', emitted[s], Live)
    BY <1>6, <1>16, <2>1
  <2>3. InOrder(s, seen[s], Append(mailbox[s], Head(toElixir)), toElixir', emitted[s], Live)
    BY ONLY <1>2, <1>16, <2>1, <2>2, InOrderPut
  <2>4. Live' = Live
    BY <1>16 DEF Live
  <2> QED
    BY <1>16, <2>2, <2>3, <2>4 DEF Ok
<1>17. ASSUME ReplyPending PROVE Ok(s)
  <2>1. Reads({"response"}) /\ UNCHANGED <<seen, emitted, worker, node, mailbox>>
    BY <1>17 DEF ReplyPending, nodeVars
  <2>2. ~IsMessage(Head(toElixir), s)
    BY <2>1 DEF Reads, IsMessage
  <2> QED
    BY <1>16, <2>1, <2>2
<1>18. ASSUME RouteInboundRequest PROVE Ok(s)
  <2>1. Reads({"ask"}) /\ UNCHANGED <<seen, emitted, worker, node>>
    BY <1>18 DEF RouteInboundRequest, nodeVars, workerVars
  <2>2. ~IsMessage(Head(toElixir), s)
    BY <2>1 DEF Reads, IsMessage
  <2>3. mailbox'[s] = mailbox[s] \/ mailbox'[s] = Append(mailbox[s], Head(toElixir))
    <3> DEFINE u == Target[Head(toElixir).id]
    <3>1. mailbox' \in {mailbox, [mailbox EXCEPT ![u] = Append(@, Head(toElixir))]}
      BY <1>18 DEF RouteInboundRequest, Routed
    <3>2. mailbox \in [Sessions -> Seq(Items)]
      BY DEF TypeOK
    <3> QED
      BY <3>1, <3>2
  <2> QED
    BY <1>16, <2>1, <2>2, <2>3
<1>19. ASSUME RouteNotification PROVE Ok(s)
  <2>1. Reads(Events) /\ UNCHANGED <<seen, emitted, worker, node>>
    BY <1>19 DEF RouteNotification, nodeVars, workerVars
  <2>2. mailbox'[s] = mailbox[s] \/ mailbox'[s] = Append(mailbox[s], Head(toElixir))
    BY <1>19 DEF RouteNotification, Routed, TypeOK
  <2>3. CASE ~IsMessage(Head(toElixir), s)
    BY <1>16, <2>1, <2>2, <2>3
  <2>4. CASE IsMessage(Head(toElixir), s)
    <3>1. mailbox'[s] = Append(mailbox[s], Head(toElixir))
      BY <1>19, <2>4 DEF RouteNotification, Routed, TypeOK, IsMessage
    <3>2. toElixir # << >> /\ toElixir' = Tail(toElixir)
      BY <2>1, ReadsTypes
    <3>3. InOrder(s, seen[s], mailbox'[s], toElixir', emitted[s], Live)
      BY <1>6, <2>4, <3>1, <3>2
    <3>4. Live' = Live
      BY <2>1 DEF Live
    <3> QED
      BY <2>1, <3>3, <3>4 DEF Ok
  <2> QED
    BY <2>3, <2>4
\* Node writes.
<1>20. ASSUME NEW c \in Calls, NEW ok \in BOOLEAN, toElixir' = Append(toElixir, Response(c, ok)),
              UNCHANGED <<seen, emitted, mailbox, worker, node>>
       PROVE  Ok(s)
  <2>1. Response(c, ok) \in Items /\ ~IsMessage(Response(c, ok), s)
    BY ItemTypes DEF Response, Item, IsMessage
  <2> QED
    BY <1>9, <1>20, <2>1
<1>21. ASSUME NEW c \in Calls, ControlEnds(c) PROVE Ok(s)
  BY <1>20, <1>21 DEF ControlEnds, sessionVars, workerVars
<1>22. ASSUME Dispatch PROVE Ok(s)
  <2>1. UNCHANGED <<seen, emitted, mailbox, worker, node>>
    BY <1>22 DEF Dispatch, sessionVars, workerVars
  <2>2. PICK c \in Calls : DispatchCreate(c) \/ DispatchSend(c) \/ DispatchControl(c) \/ DispatchClose(c)
    <3>1. NodeReads("rpc")
      BY <1>22 DEF Dispatch
    <3>2. Head(toNode) \in Items /\ Head(toNode).kind = "rpc"
      BY <3>1, NodeReadsTypes
    <3>3. Head(toNode).id \in Calls
      BY <3>2, ItemIds
    <3>4. Method[Head(toNode).id] \in {"create", "send", "control", "close"}
      BY <3>3
    <3> QED
      BY <1>22, <3>3, <3>4 DEF Dispatch
  <2>3. toElixir' = toElixir \/ \E ok \in BOOLEAN : toElixir' = Append(toElixir, Response(c, ok))
    BY <2>2 DEF DispatchCreate, DispatchSend, DispatchControl, DispatchClose, Usable
  <2> QED
    BY <1>8, <1>20, <2>1, <2>3
<1>23. ASSUME NEW t \in Sessions, ClosingPumpEnds(t) PROVE Ok(s)
  <2>1. PICK tail \in {<< >>, <<Item("error", t, 0)>>}, c \in working :
          toElixir' = toElixir \o tail \o <<Response(c, TRUE)>>
    BY <1>23 DEF ClosingPumpEnds
  <2>2. c \in Calls
    BY IdTypes
  <2> DEFINE x == Item("error", t, 0)
  <2>3. toElixir' \in {Append(toElixir, Response(c, TRUE)),
                       Append(Append(toElixir, x), Response(c, TRUE))}
    BY <2>1, <2>2, LastWords
  <2>4. UNCHANGED <<seen, emitted, mailbox, worker, node>>
    BY <1>23 DEF ClosingPumpEnds, sessionVars, workerVars
  <2>5. CASE toElixir' = Append(toElixir, Response(c, TRUE))
    BY <1>20, <2>2, <2>4, <2>5
  <2>6. CASE toElixir' = Append(Append(toElixir, x), Response(c, TRUE))
    <3>1. /\ x \in Items /\ ~IsMessage(x, s)
          /\ Response(c, TRUE) \in Items /\ ~IsMessage(Response(c, TRUE), s)
      BY <2>2, ItemTypes DEF Response, Item, IsMessage, Events
    <3>2. Append(toElixir, x) \in Seq(Items)
      BY <1>2, <3>1, AppendItem
    <3> HIDE DEF x
    <3>3. InOrder(s, seen[s], mailbox[s], Append(toElixir, x), emitted[s], Live)
      BY <1>3, <3>1
    <3>4. InOrder(s, seen[s], mailbox[s], Append(Append(toElixir, x), Response(c, TRUE)),
                  emitted[s], Live)
      BY ONLY <1>2, <3>1, <3>2, <3>3, InOrderPut
    <3>5. Live' = Live
      BY <2>4 DEF Live
    <3> QED
      BY <2>4, <2>6, <3>4, <3>5 DEF Ok
  <2> QED
    BY <2>3, <2>5, <2>6

<1>24. ASSUME NEW t \in Sessions, PumpEnds(t) PROVE Ok(s)
  <2>1. UNCHANGED <<seen, emitted, mailbox, worker, node>>
    BY <1>24 DEF PumpEnds, sessionVars, workerVars
  <2>2. \E kind \in {"closed", "error"} : toElixir' = Append(toElixir, Item(kind, t, 0))
    BY <1>24 DEF PumpEnds
  <2>3. \A kind \in {"closed", "error"} :
          Item(kind, t, 0) \in Items /\ ~IsMessage(Item(kind, t, 0), s)
    BY ItemTypes DEF Item, IsMessage, Events
  <2> QED
    BY <1>9, <2>1, <2>2, <2>3
<1>25. ASSUME NEW a \in Asks, AskElixir(a) PROVE Ok(s)
  <2>1. Item("ask", a, 0) \in Items /\ ~IsMessage(Item("ask", a, 0), s)
    BY ItemTypes DEF Item, IsMessage
  <2> QED
    BY <1>9, <1>25, <2>1 DEF AskElixir, sessionVars, workerVars
<1>26. ASSUME NEW t \in Sessions, PumpMessage(t) PROVE Ok(s)
  <2> DEFINE x == Item("message", t, emitted[t] + 1)
  <2>1. /\ UNCHANGED <<seen, mailbox, worker, node>>
        /\ emitted' = [emitted EXCEPT ![t] = @ + 1]
        /\ toElixir' = Append(toElixir, Item("message", t, emitted'[t]))
        /\ node = "up"
    BY <1>26 DEF PumpMessage, sessionVars, workerVars
  <2>2. emitted'[t] = emitted[t] + 1 /\ emitted[t] \in Nat
    BY <2>1 DEF TypeOK
  <2>3. toElixir' = Append(toElixir, x)
    BY <2>1, <2>2
  <2>4. x \in Items /\ (IsMessage(x, s) <=> t = s) /\ x.n = emitted[t] + 1
    BY <2>2, ItemTypes DEF Item, IsMessage, Events
  <2> HIDE DEF x
  <2>5. CASE t # s
    <3>1. emitted'[s] = emitted[s]
      BY <2>1, <2>5 DEF TypeOK
    <3> QED
      BY <1>9, <2>1, <2>3, <2>4, <2>5, <3>1
  <2>6. CASE t = s
    <3>1. Live /\ Live'
      BY <2>1 DEF Live, NodeHasWorker
    <3>2. InOrder(s, seen[s], mailbox[s], Append(toElixir, x), emitted[s] + 1, Live)
      BY ONLY <1>2, <2>4, <2>6, <3>1, InOrderNext
    <3>3. Live' = Live
      BY <2>1 DEF Live
    <3> QED
      BY <2>1, <2>2, <2>3, <2>6, <3>2, <3>3 DEF Ok
  <2> QED
    BY <2>5, <2>6
\* The ends.
<1>27. ASSUME NodeExits PROVE Ok(s)
  <2>1. PICK m \in 0 .. Len(toElixir) : toElixir' = SubSeq(toElixir, 1, m)
    BY <1>27 DEF NodeExits
  <2>2. UNCHANGED <<seen, emitted, mailbox>> /\ Live' = FALSE
    BY <1>27 DEF NodeExits, sessionVars, Live
  <2> QED
    BY <1>4, <2>1, <2>2 DEF Ok
<1>28. ASSUME WorkerStops PROVE Ok(s)
  <2>1. UNCHANGED <<seen, emitted>> /\ toElixir' = << >> /\ Live' = FALSE
    BY <1>28 DEF WorkerStops, Live
  <2>2. mailbox'[s] = mailbox[s]
    BY <1>28 DEF WorkerStops, Die
  <2> QED
    BY <1>4, <2>1, <2>2 DEF Ok
<1>29. ASSUME ExitStatus PROVE Ok(s)
  <2>1. UNCHANGED <<seen, emitted, toElixir>> /\ Live = FALSE /\ Live' = FALSE
    BY <1>29 DEF ExitStatus, pipeVars, nodeVars, Live
  <2>2. mailbox'[s] = mailbox[s] \/ mailbox'[s] = Append(mailbox[s], Item("down", s, 0))
    BY <1>29 DEF ExitStatus
  <2>3. Item("down", s, 0) \in Items /\ ~IsMessage(Item("down", s, 0), s)
    BY ItemTypes DEF Item, IsMessage
  <2>4. InOrder(s, seen[s], Append(mailbox[s], Item("down", s, 0)), toElixir, emitted[s], Live)
    BY <1>3, <2>3
  <2>5. InOrder(s, seen[s], mailbox'[s], toElixir, emitted[s], FALSE)
    BY <1>4, <2>1, <2>2, <2>4
  <2> QED
    BY <2>1, <2>5 DEF Ok
\* The others leave the stream alone.
<1>30. CASE UNCHANGED vars
  BY <1>8, <1>30 DEF vars, sessionVars, nodeVars, pipeVars
<1>31. ASSUME NEW c \in Calls, ApiTimeout(c) PROVE Ok(s)
  BY <1>8, <1>31 DEF ApiTimeout, sessionVars, nodeVars, pipeVars
<1>32. ASSUME NEW t \in Sessions, SessionDown(t) PROVE Ok(s)
  BY <1>8, <1>32 DEF SessionDown, sessionVars, nodeVars, pipeVars
<1>33. ASSUME NEW a \in Asks, AskTimeout(a) PROVE Ok(s)
  BY <1>8, <1>33 DEF AskTimeout, sessionVars, pipeVars
<1>34. ASSUME Feed PROVE Ok(s)
  BY <1>8, <1>34 DEF Feed, sessionVars
<1> QED
  BY ONLY <1>10, <1>13, <1>14, <1>15, <1>17, <1>18, <1>19, <1>21, <1>22, <1>23, <1>24,
     <1>25,
          <1>26, <1>27, <1>28, <1>29, <1>30, <1>31, <1>32, <1>33, <1>34, [Next]_vars
     DEF Next, WorkerReads, SessionStep, NodeStep

-----------------------------------------------------------------------------
(***************************************************************************)
(* The theorems.                                                           *)
(***************************************************************************)

LEMMA InitInv == Init => IInv
<1> SUFFICES ASSUME Init PROVE IInv
  OBVIOUS
<1> USE SidecarAssumption
<1>1. TypeOK
  BY DEF Init, TypeOK
<1>2. NodeHasWorker
  BY DEF Init, NodeHasWorker
<1>3. ToSet(<< >>) = {}
  BY DEF ToSet
<1>4. \A s \in Sessions : MailIsOwn(s) /\ BusyIsOwn(s)
  BY <1>3 DEF Init, MailIsOwn, BusyIsOwn
<1>5. OneRpc
  <2>1. \A kind : Ids(<< >>, kind) = {} /\ Once(<< >>, kind)
    BY <1>3 DEF Ids, Once
  <2>2. Unread = {} /\ Given = {} /\ working = {} /\ Once(toNode, "rpc") /\ Once(toElixir, "response")
    BY <2>1 DEF Init, Unread, Given
  <2> QED
    BY <2>2 DEF OneRpc, Outstanding
<1>6. MapIsExact /\ \A item \in ToSet(toElixir) : AnswerIsTrue(item)
  BY <1>3 DEF Init, MapIsExact, Mapped
<1>7. \A s \in Sessions : StatusIsTrue(s)
  BY <1>3 DEF Init, StatusIsTrue
<1>8. QuietAfterClose
  BY DEF Init, QuietAfterClose
<1>9. MessagesInOrder
  <2>1. ASSUME NEW s \in Sessions
        PROVE  InOrder(s, seen[s], mailbox[s], toElixir, emitted[s], Live)
    <3>1. seen[s] = << >> /\ mailbox[s] = << >> /\ toElixir = << >> /\ emitted[s] = 0
      BY DEF Init
    <3>2. Carries(<< >>, s, 0, 0) /\ 0 \in 0 .. 0
      BY CarriesNothing
    <3>3. InOrder(s, << >>, << >>, << >>, 0, Live)
      <4>1. Len(<< >>) = 0 /\ DOMAIN << >> = {}
        OBVIOUS
      <4> QED
        BY <3>2, <4>1 DEF InOrder
    <3> QED
      BY <3>1, <3>3
  <2> QED
    BY <2>1, MessagesAre DEF Init
<1> QED
  BY <1>1, <1>2, <1>4, <1>5, <1>6, <1>7, <1>8, <1>9 DEF IInv, NodeInv

LEMMA StepInv == IInv /\ [Next]_vars => IInv'
<1> SUFFICES ASSUME IInv, [Next]_vars PROVE IInv'
  OBVIOUS
<1>1. /\ TypeOK /\ NodeHasWorker /\ QuietAfterClose /\ MessagesInOrder
      /\ \A s \in Sessions : MailIsOwn(s) /\ BusyIsOwn(s)
      /\ node = "up" => OneRpc /\ MapInv /\ StatusInv
  BY DEF IInv, NodeInv, MapInv, StatusInv
<1>2. TypeOK'
  BY <1>1, TypeStep
<1>3. NodeHasWorker' /\ (node' = "up" => node = "up")
  BY <1>1, LiveStep
<1>4. \A s \in Sessions : MailIsOwn(s)' /\ BusyIsOwn(s)'
  BY <1>1, OwnStep, BusyStep
<1>5. ASSUME node' = "up" PROVE NodeInv'
  <2>1. node = "up" /\ OneRpc /\ MapInv /\ StatusInv
    BY <1>1, <1>3, <1>5
  <2>2. OneRpc'
    BY <1>1, <1>5, <2>1, RpcStep
  <2>3. MapInv'
    BY <1>1, <1>5, <2>1, MapStep
  <2>4. StatusInv'
    BY <1>1, <1>5, <2>1, StatusStep
  <2> QED
    BY <2>2, <2>3, <2>4 DEF NodeInv, MapInv, StatusInv
<1>6. QuietAfterClose'
  BY <1>1, QuietStep
<1>7. MessagesInOrder'
  BY <1>1, MessagesStep
<1> QED
  BY <1>2, <1>3, <1>4, <1>5, <1>6, <1>7 DEF IInv

\* The invariant holds in every state of the sessions, the worker and Node.
THEOREM Invariance == Spec => []IInv
<1> QED
  BY InitInv, StepInv, PTL DEF Spec

\* The State structs, the two maps of the worker and those of the sidecar keep their shape
\* (worker.ex:25, sidecar_session.ex:20).
THEOREM TypeCorrect == Spec => []TypeOK
<1>1. IInv => TypeOK
  BY DEF IInv
<1> QED
  BY <1>1, Invariance, PTL

\* A session that takes itself for ready has its query in Node and one that is closed has
\* none left there to close, through timeouts of callers, refused RPCs and answers that
\* overtake or miss their callers (sidecar_session.ex:171-215): each knows of at most one
\* RPC under way, and the answer to it still says what Node has done.
THEOREM StatusHolds == Spec => []StatusAgrees
<1>1. IInv => StatusAgrees
  BY DEF IInv, NodeInv, MapIsExact, StatusIsTrue, StatusAgrees, Mapped
<1> QED
  BY <1>1, Invariance, PTL

\* The worker's demultiplexing neither loses, doubles nor reorders the messages of a
\* session that lives (worker.ex, route_notification; sidecar_session.ex,
\* {:sidecar_notification, ..}).
THEOREM MessagesHold == Spec => []MessagesInOrder
<1>1. IInv => MessagesInOrder
  BY DEF IInv
<1> QED
  BY <1>1, Invariance, PTL

\* After the answer to session.close nothing comes of that session (session.ts awaits the
\* pump before it answers), so the session may unregister.
THEOREM QuietHolds == Spec => []QuietAfterClose
<1>1. IInv => QuietAfterClose
  BY DEF IInv
<1> QED
  BY <1>1, Invariance, PTL

-----------------------------------------------------------------------------
(***************************************************************************)
(* The refinements: what becomes of one request in one step.               *)
(***************************************************************************)

LEMMA AnsweredMoves ==
  ASSUME NEW C, NEW a \in Answers, NEW d \in Calls, told' = Answered(C, a)
  PROVE  Call!Moves(told[d], told'[d])
BY DEF Answered, Call!Moves

\* Only an unanswered call is told anything, and it is told an answer.
LEMMA CallMoves ==
  ASSUME TypeOK, [Next]_vars, NEW d \in Calls
  PROVE  Call!Moves(told[d], told'[d])
<1> USE SidecarAssumption
<1>1. ASSUME told' = told PROVE Call!Moves(told[d], told'[d])
  BY <1>1 DEF Call!Moves
<1>2. \A a \in {"ok", "error", "bad_status", "down", "exited", "timeout"} : a \in Answers
  BY DEF Answers
<1>3. ASSUME NEW c \in Calls, ApiCall(c) \/ ApiTimeout(c) PROVE Call!Moves(told[d], told'[d])
  BY <1>2, <1>3 DEF ApiCall, ApiTimeout, Call!Moves, TypeOK
<1>4. ASSUME NEW s \in Sessions, SessionStep(s) \/ RpcTimeout(s) PROVE Call!Moves(told[d], told'[d])
  <2>1. told' = told \/ \E C : \E a \in Answers : told' = Answered(C, a)
    BY <1>2, <1>4 DEF SessionStep, Refuse, Issue, Forward, AnswerAsk, SidecarDown,
       RpcTimeout
  <2> QED
    BY <1>1, <2>1, AnsweredMoves
<1>5. ASSUME WorkerReads PROVE Call!Moves(told[d], told'[d])
  <2>1. told' = told \/ \E C : \E a \in Answers : told' = Answered(C, a)
    <3>1. CASE ReplyPending
      <4>1. ASSUME NEW s, NEW c, NEW ok, Resume(s, c, ok)
            PROVE  \E C : \E a \in Answers : told' = Answered(C, a)
        <5>1. PICK a \in {"ok", "error"} : told' = Answered({c}, a)
          BY <4>1 DEF Resume
        <5> QED
          BY <1>2, <5>1
      <4>2. told' = told \/ \E s, c, ok : Resume(s, c, ok)
        BY <3>1 DEF ReplyPending
      <4> QED
        BY <4>1, <4>2
    <3>2. CASE RouteNotification \/ RouteInboundRequest
      BY <3>2 DEF RouteNotification, RouteInboundRequest
    <3> QED
      BY <1>5, <3>1, <3>2 DEF WorkerReads
  <2> QED
    BY <1>1, <2>1, AnsweredMoves
<1>6. ASSUME ExitStatus PROVE Call!Moves(told[d], told'[d])
  <2>1. told'[d] \in {told[d], "exited", "down"} /\ (told[d] # "waiting" => told'[d] = told[d])
    BY <1>6 DEF ExitStatus
  <2> QED
    BY <1>2, <2>1 DEF Call!Moves
<1>7. ASSUME WorkerStops PROVE Call!Moves(told[d], told'[d])
  BY <1>2, <1>7, AnsweredMoves DEF WorkerStops
<1>8. ASSUME NEW s \in Sessions, NodeStep(s) \/ SessionDown(s) PROVE told' = told
  BY <1>8 DEF NodeStep, ClosingPumpEnds, PumpMessage, PumpEnds, SessionDown
<1>9. ASSUME Feed \/ Dispatch \/ NodeExits \/ (\E c \in Calls : ControlEnds(c)) PROVE told' = told
  BY <1>9 DEF Feed, Dispatch, NodeExits, ControlEnds
<1>10. ASSUME NEW a \in Asks, AskElixir(a) \/ AskTimeout(a) PROVE told' = told
  BY <1>10 DEF AskElixir, AskTimeout
<1>11. CASE UNCHANGED vars
  BY <1>1, <1>11 DEF vars
<1> QED
  BY <1>1, <1>3, <1>4, <1>5, <1>6, <1>7, <1>8, <1>9, <1>10, <1>11 DEF Next

\* create/2, send_message/2, control/3 and close/1 are deferred replies: the answer of the
\* RPC, the end of the sidecar, the exit of the session or the caller's own timeout,
\* whichever is first, and no second one (worker.ex, reply_pending).
THEOREM CallRefinement == Spec => CallsAreDeferred
<1>1. Init => Call!Init
  BY DEF Init, Call!Init
<1>2. IInv /\ [Next]_vars => [Call!Next]_told
  <2> SUFFICES ASSUME IInv, [Next]_vars PROVE Call!Next
    OBVIOUS
  <2>1. TypeOK /\ TypeOK'
    BY TypeStep DEF IInv
  <2>2. told' \in [Calls -> Call!Status]
    BY <2>1 DEF TypeOK, Call!Status
  <2> QED
    BY <2>1, <2>2, CallMoves DEF Call!Next
<1> QED
  BY <1>1, <1>2, Invariance, PTL DEF Spec, CallsAreDeferred, Call!Spec

\* A request of the sidecar ends once, and only if it was made.
LEMMA AskMoves ==
  ASSUME TypeOK, [Next]_vars, NEW b \in Asks
  PROVE  Ask!Moves(ask[b], ask'[b])
<1>1. ASSUME ask' = ask PROVE Ask!Moves(ask[b], ask'[b])
  BY <1>1 DEF Ask!Moves
<1>2. ASSUME NEW c \in Calls, ApiCall(c) \/ ApiTimeout(c) \/ ControlEnds(c) PROVE ask' = ask
  BY <1>2 DEF ApiCall, ApiTimeout, ControlEnds, nodeVars
<1>3. ASSUME NEW s \in Sessions, SessionStep(s) \/ RpcTimeout(s) \/ SessionDown(s) \/ NodeStep(s)
      PROVE  ask' = ask
  BY <1>3 DEF SessionStep, Refuse, Issue, Forward, AnswerAsk, SidecarDown, RpcTimeout,
              SessionDown, NodeStep, ClosingPumpEnds, PumpMessage, PumpEnds, nodeVars
<1>4. ASSUME WorkerReads \/ ExitStatus \/ Dispatch PROVE ask' = ask
  BY <1>4 DEF WorkerReads, ReplyPending, RouteNotification, RouteInboundRequest,
     ExitStatus,
              Dispatch, nodeVars
<1>5. ASSUME WorkerStops \/ NodeExits PROVE Ask!Moves(ask[b], ask'[b])
  BY <1>5 DEF WorkerStops, NodeExits, Ask!Moves, Ends
<1>6. ASSUME Feed PROVE Ask!Moves(ask[b], ask'[b])
  <2>1. ask' = [ask EXCEPT ![Head(toNode).id] = IF @ = "waiting" THEN "answered" ELSE @]
    BY <1>6 DEF Feed
  <2>2. ask'[b] = ask[b] \/ (ask[b] = "waiting" /\ ask'[b] = "answered")
    BY <2>1 DEF TypeOK
  <2> QED
    BY <2>2 DEF Ask!Moves, Ends
<1>7. ASSUME NEW a \in Asks, AskElixir(a) \/ AskTimeout(a) PROVE Ask!Moves(ask[b], ask'[b])
  BY <1>7 DEF AskElixir, AskTimeout, TypeOK, Ask!Moves, Ends
<1>8. CASE UNCHANGED vars
  BY <1>1, <1>8 DEF vars, nodeVars
<1> QED
  BY <1>1, <1>2, <1>3, <1>4, <1>5, <1>6, <1>7, <1>8 DEF Next

\* hook.fire, mcp.call and can_use_tool are deferred replies: an answer that comes after the
\* timeout, or after another end, changes nothing (rpc.ts:76).
THEOREM AskRefinement == Spec => AsksAreDeferred
<1>1. Init => Ask!Init
  BY DEF Init, Ask!Init
<1>2. IInv /\ [Next]_vars => [Ask!Next]_ask
  <2> SUFFICES ASSUME IInv, [Next]_vars PROVE Ask!Next
    OBVIOUS
  <2>1. TypeOK /\ TypeOK'
    BY TypeStep DEF IInv
  <2>2. ask' \in [Asks -> Ask!Status]
    BY <2>1 DEF TypeOK, Ask!Status
  <2> QED
    BY <2>1, <2>2, AskMoves DEF Ask!Next
<1> QED
  BY <1>1, <1>2, Invariance, PTL DEF Spec, AsksAreDeferred, Ask!Spec

=============================================================================
