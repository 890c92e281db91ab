------------------------ MODULE QuerySession_proofs ------------------------
(***************************************************************************)
(* Theorems about QuerySession, for every set of requests and ids, any     *)
(* number of resumes and closes of one id, and callers that give up.       *)
(***************************************************************************)
EXTENDS QuerySession, SequenceTheorems, TLAPS

-----------------------------------------------------------------------------
(***************************************************************************)
(* The input channel: what its operators do to a channel that is as it     *)
(* should be (session.ts:139-176).                                         *)
(***************************************************************************)

\* next() takes the message that was pushed first, and waits only if there is none.
LEMMA NextKeeps ==
  ASSUME NEW M, NEW ch \in Channels(M), NobodyStarves(ch)
  PROVE  /\ NextOf(ch) \in Channels(M)
         /\ Pushed(NextOf(ch)) = Pushed(ch)
         /\ NobodyStarves(NextOf(ch))
<1>1. CASE ch.queue # << >>
  <2>1. /\ Head(ch.queue) \in M /\ Tail(ch.queue) \in Seq(M)
        /\ Append(ch.taken, Head(ch.queue)) \in Seq(M)
    BY <1>1 DEF Channels
  <2>2. NextOf(ch) = [ch EXCEPT !.queue = Tail(ch.queue),
                                !.taken = Append(ch.taken, Head(ch.queue))]
    BY <1>1 DEF NextOf
  <2>3. Append(ch.taken, Head(ch.queue)) \o Tail(ch.queue) = ch.taken \o ch.queue
    BY <1>1 DEF Channels
  <2>4. /\ NextOf(ch).queue = Tail(ch.queue)
        /\ NextOf(ch).taken = Append(ch.taken, Head(ch.queue))
        /\ NextOf(ch).resolvers = ch.resolvers
        /\ NextOf(ch).closed = ch.closed
    BY <2>2 DEF Channels
  <2>5. NextOf(ch) \in Channels(M)
    BY <2>1, <2>2 DEF Channels
  <2>6. ~(ch.resolvers > 0)
    BY <1>1 DEF NobodyStarves
  <2> QED
    BY <2>3, <2>4, <2>5, <2>6 DEF Pushed, NobodyStarves
<1>2. CASE ch.queue = << >>
  BY <1>2 DEF NextOf, Channels, Pushed, NobodyStarves
<1> QED
  BY <1>1, <1>2

\* push() adds its message at the end of what was pushed, whether somebody waits or not.
LEMMA PushAppends ==
  ASSUME NEW M, NEW m \in M, NEW ch \in Channels(M), NobodyStarves(ch), ~ch.closed
  PROVE  /\ Push(ch, m) \in Channels(M)
         /\ Pushed(Push(ch, m)) = Append(Pushed(ch), m)
         /\ NobodyStarves(Push(ch, m))
<1>1. CASE ch.resolvers > 0
  <2>1. ch.queue = << >>
    BY <1>1 DEF NobodyStarves
  <2>2. Append(ch.taken, m) \o ch.queue = Append(ch.taken \o ch.queue, m)
    BY <2>1 DEF Channels
  <2>3. Push(ch, m) = [ch EXCEPT !.resolvers = ch.resolvers - 1,
                                 !.taken = Append(ch.taken, m)]
    BY <1>1 DEF Push
  <2>4. /\ Push(ch, m).queue = ch.queue
        /\ Push(ch, m).taken = Append(ch.taken, m)
        /\ Push(ch, m).closed = ch.closed
    BY <2>3 DEF Channels
  <2>5. Push(ch, m) \in Channels(M)
    <3>1. ch.resolvers - 1 \in Nat /\ Append(ch.taken, m) \in Seq(M)
      BY <1>1 DEF Channels
    <3> QED
      BY <2>3, <3>1 DEF Channels
  <2>6. Pushed(Push(ch, m)) = Append(Pushed(ch), m)
    BY ONLY <2>2, <2>4 DEF Pushed
  <2>7. NobodyStarves(Push(ch, m))
    BY <2>1, <2>4 DEF NobodyStarves
  <2> QED
    BY ONLY <2>5, <2>6, <2>7
<1>2. CASE ~(ch.resolvers > 0)
  <2>1. ch.taken \o Append(ch.queue, m) = Append(ch.taken \o ch.queue, m)
    <3> DEFINE old == ch.taken
               new == ch.queue
    <3>1. m \in M /\ old \in Seq(M) /\ new \in Seq(M)
      BY DEF Channels
    <3> HIDE DEF old, new
    <3>2. old \o Append(new, m) = Append(old \o new, m)
      BY ONLY <3>1
    <3> QED
      BY ONLY <3>2 DEF old, new
  <2>2. Push(ch, m) = [ch EXCEPT !.queue = Append(ch.queue, m)]
    BY <1>2 DEF Push
  <2>3. /\ Push(ch, m).queue = Append(ch.queue, m)
        /\ Push(ch, m).taken = ch.taken
        /\ Push(ch, m).closed = ch.closed
        /\ Push(ch, m).resolvers = ch.resolvers
    BY <2>2 DEF Channels
  <2>4. Push(ch, m) \in Channels(M)
    <3>1. ch.queue \in Seq(M) /\ Append(ch.queue, m) \in Seq(M)
      BY DEF Channels
    <3> QED
      BY <2>2, <3>1 DEF Channels
  <2>5. Pushed(Push(ch, m)) = Append(Pushed(ch), m)
    BY ONLY <2>1, <2>3 DEF Pushed
  <2>6. NobodyStarves(Push(ch, m))
    BY <1>2, <2>3 DEF NobodyStarves
  <2> QED
    BY ONLY <2>4, <2>5, <2>6
<1> QED
  BY <1>1, <1>2

\* close() loses nothing that was pushed, and leaves nobody waiting.
LEMMA CloseKeeps ==
  ASSUME NEW M, NEW ch \in Channels(M)
  PROVE  /\ Close(ch) \in Channels(M)
         /\ Pushed(Close(ch)) = Pushed(ch)
         /\ NobodyStarves(Close(ch))
<1>1. /\ Close(ch).queue = ch.queue
      /\ Close(ch).taken = ch.taken
      /\ Close(ch).closed
      /\ Close(ch).resolvers = 0
  BY DEF Close, Channels
<1>2. Close(ch) \in Channels(M)
  BY DEF Close, Channels
<1> QED
  BY <1>1, <1>2 DEF Pushed, NobodyStarves

\* A channel is made empty, with nobody waiting.
LEMMA NewIsEmpty ==
  ASSUME NEW M
  PROVE  /\ NewChannel \in Channels(M)
         /\ Pushed(NewChannel) = << >>
         /\ NobodyStarves(NewChannel)
  BY DEF NewChannel, Channels, Pushed, NobodyStarves

-----------------------------------------------------------------------------
(***************************************************************************)
(* The inductive invariant.                                                *)
(***************************************************************************)

\* A request that was not asked has made neither a session nor a query.
Fresh(r) ==
  told[r] = "unasked" =>
    /\ r \in Envs => query[r] = Nil /\ ~closed[r]
    /\ r \in Queries => pump[r] = "none"
    /\ \A e \in Envs : query[e] # r
    /\ \A q \in Queries : owner[q] # r

\* A session of the map was made for its id.
SessionIsKeyed(s) ==
  sessions[s] # Nil => Id(sessions[s]) = s /\ told[sessions[s]] # "unasked"

\* A session's query is pumped by itself.
QueryIsOwn(e) == query[e] # Nil => owner[query[e]] = e

\* A session.close whose caller still waits awaits the query of whoever has its id.
AwaitsTheQuery(r) ==
  Method(r) = "session.close" /\ Waiting(r) /\ r \notin abandoned /\ sessions[Id(r)] # Nil =>
    awaits[r] = query[sessions[Id(r)]]

\* Why a session of the map is closed: its query has ended, a former one has, or a
\* session.close is on its way.
ClosedForReason(e) ==
  closed[e] /\ sessions[Id(e)] = e =>
    \/ Ended(query[e])
    \/ CloseOvertaken(Id(e))
    \/ ClosedByFormerQuery(e)
    \/ \E r \in Requests : /\ Method(r) = "session.close"
                           /\ Id(r) = Id(e)
                           /\ Waiting(r)
                           /\ r \notin abandoned

\* PumpIsKnown and OpenIsPumped, of one session.
Known(e) ==
  query[e] # Nil /\ pump[query[e]] \in {"running", "breaking"} =>
    sessions[Id(e)] = e \/ CloseOvertaken(Id(e)) \/ ClosedByFormerQuery(e)

Pumped(e) ==
  query[e] # Nil /\ ~closed[e] => pump[query[e]] \in {"running", "breaking", "failed"}

EnvInv(e) == QueryIsOwn(e) /\ ClosedForReason(e) /\ Known(e) /\ Pumped(e)

SessionInv ==
  /\ \A r \in Requests : Fresh(r) /\ AwaitsTheQuery(r)
  /\ \A s \in SessionIds : SessionIsKeyed(s)
  /\ \A e \in Envs : EnvInv(e)

IInv == TypeOK /\ InputIsFifo /\ SessionInv

-----------------------------------------------------------------------------
\* Sessions and queries are named by requests, and each request has an id.
LEMMA Names ==
  /\ Envs \subseteq Queries
  /\ Queries \subseteq Requests
  /\ \A r \in Requests : Id(r) \in SessionIds
  /\ Nil \notin Requests
  BY QuerySessionAssumption DEF Envs, Queries, Id, Frames

\* A query's close changes that query only, and only if it runs (session.ts:243-259).
LEMMA ClosingKeeps ==
  ASSUME TypeOK, NEW q
  PROVE  Closing(q) \in [Queries -> {"none", "running", "closed", "done", "failed"}]
  BY DEF Closing, TypeOK

\* What a request finds under its id has a query and a channel of its own, or none yet.
LEMMA Lookup ==
  ASSUME TypeOK, NEW r \in Requests, sessions[Id(r)] # Nil
  PROVE  /\ sessions[Id(r)] \in Envs
         /\ input[sessions[Id(r)]] \in Queries \cup {Nil}
         /\ query[sessions[Id(r)]] \in Queries \cup {Nil}
<1>1. sessions[Id(r)] \in Envs
  BY Names DEF TypeOK
<1> QED
  BY <1>1 DEF TypeOK

\* Of the session's channels the operators make channels.
LEMMA ChannelTypes ==
  ASSUME TypeOK, InputIsFifo, NEW q \in Queries
  PROVE  /\ Close(channel[q]) \in Channels(Requests)
         /\ NextOf(channel[q]) \in Channels(Requests)
         /\ ~channel[q].closed => \A r \in Requests : Push(channel[q], r) \in Channels(Requests)
<1>1. channel[q] \in Channels(Requests) /\ NobodyStarves(channel[q])
  BY DEF TypeOK, InputIsFifo
<1> QED
  BY <1>1, CloseKeeps, NextKeeps, PushAppends

\* The state keeps the shape of the fields of QuerySession and of the map
\* (session.ts:178-185, index.ts:49).
LEMMA TypeStep == ASSUME TypeOK, InputIsFifo, [Next]_vars PROVE TypeOK'
<1> USE Names DEF TypeOK, envVars, queryVars, clientVars, Answer
<1>1. ASSUME NEW r \in Requests, Create(r)
      PROVE  TypeOK'
  <2>1. ASSUME NEW code \in {"INVALID_PARAMS", "INTERNAL"}, Refuse(r, code)
        PROVE  TypeOK'
    BY <2>1 DEF Refuse, Outcomes, ErrorCodes
  <2>2. r \in Envs
    BY <1>1 DEF Create, Dispatchable, Envs
  <2>3. ASSUME StartQuery(r, r),
               sessions' = [sessions EXCEPT ![Id(r)] = r],
               input' = [input EXCEPT ![r] = r],
               query' = [query EXCEPT ![r] = r],
               Answer(r, "result"),
               UNCHANGED <<closed, channel, awaits, abandoned, sent>>
        PROVE  TypeOK'
    <3>1. /\ sdk' \in [Queries -> {"none", "running", "closed", "done", "failed"}]
          /\ owner' \in [Queries -> Envs \cup {Nil}]
          /\ pump' \in [Queries -> {"none", "running", "breaking", "done", "failed"}]
      BY <2>2, <2>3 DEF StartQuery
    <3>2. told' \in [Requests -> {"unasked", "waiting"} \cup Outcomes]
      BY <2>3 DEF Outcomes
    <3>3. /\ sessions' \in [SessionIds -> Envs \cup {Nil}]
          /\ input' \in [Envs -> Queries \cup {Nil}]
          /\ query' \in [Envs -> Queries \cup {Nil}]
      BY <2>2, <2>3
    <3> QED
      BY <2>3, <3>1, <3>2, <3>3
  <2> QED
    BY <1>1, <2>1, <2>3 DEF Create
<1>2. ASSUME NEW r \in Requests, Unknown(r)
      PROVE  TypeOK'
  BY <1>2 DEF Unknown, Refuse, Outcomes, ErrorCodes
<1>3. ASSUME NEW r \in Requests, Send(r)
      PROVE  TypeOK'
  <2> DEFINE q == input[sessions[Id(r)]]
  <2>1. CASE Refuse(r, "INTERNAL")
    BY <2>1 DEF Refuse, Outcomes, ErrorCodes
  <2>2. CASE /\ ~channel[q].closed
             /\ channel' = [channel EXCEPT ![q] = Push(@, r)]
             /\ sent' = [sent EXCEPT ![q] = Append(@, r)]
             /\ Answer(r, "result")
             /\ UNCHANGED <<envVars, queryVars, awaits, abandoned>>
    <3>1. q \in Queries => Push(channel[q], r) \in Channels(Requests)
                           /\ Append(sent[q], r) \in Seq(Requests)
      BY <2>2, ChannelTypes
    <3> QED
      BY <2>2, <3>1 DEF Outcomes
  <2> QED
    BY <1>3, <2>1, <2>2 DEF Send
<1>4. ASSUME NEW r \in Requests, Control(r)
      PROVE  TypeOK'
  <2>1. CASE Refuse(r, "CONTROL_FAILED")
    BY <2>1 DEF Refuse, Outcomes, ErrorCodes
  <2>2. CASE ~Refuse(r, "CONTROL_FAILED")
    <3>1. /\ sessions[Id(r)] # Nil
          /\ awaits' = [awaits EXCEPT ![r] = query[sessions[Id(r)]]]
          /\ Answer(r, "waiting")
          /\ UNCHANGED <<envVars, channel, queryVars, abandoned, sent>>
      BY <1>4, <2>2 DEF Control
    <3> QED
      BY <3>1, Lookup
  <2> QED
    BY <2>1, <2>2
<1>5. ASSUME NEW r \in Requests, Resume(r)
      PROVE  TypeOK'
  <2> DEFINE e == sessions[Id(r)]
  <2>1. /\ r \in Queries
        /\ e # Nil
        /\ channel' = [channel EXCEPT ![input[e]] = Close(channel[input[e]])]
        /\ input' = [input EXCEPT ![e] = r]
        /\ UNCHANGED <<sessions, awaits, abandoned, sent>>
    BY <1>5 DEF Resume, Dispatchable, Queries
  <2>2. e \in Envs
    BY <2>1, Lookup
  <2>3. channel' \in [Queries -> Channels(Requests)]
    BY <2>1, ChannelTypes
  <2>4. input' \in [Envs -> Queries \cup {Nil}]
    BY <2>1, <2>2
  <2> HIDE DEF e
  <2>5. CASE /\ sdk' = [Closing(query[e]) EXCEPT ![r] = "running"]
             /\ owner' = [owner EXCEPT ![r] = e]
             /\ pump' = [pump EXCEPT ![r] = "running"]
             /\ query' = [query EXCEPT ![e] = r]
             /\ closed' = [closed EXCEPT ![e] = FALSE]
             /\ Answer(r, "result")
    <3>1. sdk' \in [Queries -> {"none", "running", "closed", "done", "failed"}]
      BY <2>5, <2>1, ClosingKeeps
    <3>2. owner' \in [Queries -> Envs \cup {Nil}]
      BY <2>5, <2>2
    <3>3. told' \in [Requests -> {"unasked", "waiting"} \cup Outcomes]
      BY <2>5 DEF Outcomes
    <3> QED
      BY <2>1, <2>2, <2>3, <2>4, <2>5, <3>1, <3>2, <3>3
  <2>6. CASE /\ sdk' = Closing(query[e])
             /\ Answer(r, "INTERNAL")
             /\ UNCHANGED <<owner, pump, query, closed>>
    <3>1. told' \in [Requests -> {"unasked", "waiting"} \cup Outcomes]
      BY <2>6 DEF Outcomes, ErrorCodes
    <3> QED
      BY <2>1, <2>3, <2>4, <2>6, <3>1, ClosingKeeps
  <2> QED
    BY <1>5, <2>5, <2>6 DEF Resume, e
<1>6. ASSUME NEW r \in Requests, CloseSession(r)
      PROVE  TypeOK'
  <2> DEFINE e == sessions[Id(r)]
  <2>1. e # Nil /\ UNCHANGED <<input, query, owner, pump, abandoned, sent>>
    BY <1>6 DEF CloseSession
  <2>2. e \in Envs /\ query[e] \in Queries \cup {Nil}
    BY <2>1, Lookup
  <2> HIDE DEF e
  <2>3. CASE /\ sessions' = [sessions EXCEPT ![Id(r)] = Nil]
             /\ Answer(r, "result")
             /\ UNCHANGED <<closed, channel, sdk, awaits>>
    BY <2>1, <2>3 DEF Outcomes
  <2>4. CASE /\ closed' = [closed EXCEPT ![e] = TRUE]
             /\ channel' = [channel EXCEPT ![input[e]] = Close(@)]
             /\ sdk' = Closing(query[e])
             /\ awaits' = [awaits EXCEPT ![r] = query[e]]
             /\ Answer(r, "waiting")
             /\ UNCHANGED sessions
    <3>1. channel' \in [Queries -> Channels(Requests)]
      BY <2>4, ChannelTypes
    <3>2. awaits' \in [Requests -> Queries \cup {Nil}]
      BY <2>2, <2>4
    <3> QED
      BY <2>1, <2>2, <2>4, <3>1, <3>2, ClosingKeeps
  <2> QED
    BY <1>6, <2>3, <2>4 DEF CloseSession, e
<1>7. ASSUME NEW r \in Requests, ControlSettles(r) \/ CloseGoesOn(r) \/ GiveUp(r)
      PROVE  TypeOK'
  <2>1. CASE ControlSettles(r)
    BY <2>1 DEF ControlSettles, Outcomes, ErrorCodes
  <2>2. CASE CloseGoesOn(r)
    BY <2>2 DEF CloseGoesOn, Outcomes
  <2>3. CASE GiveUp(r)
    BY <2>3 DEF GiveUp
  <2> QED
    BY <1>7, <2>1, <2>2, <2>3
<1>8. ASSUME NEW q \in Queries, SdkReads(q) \/ SdkStopsReading(q)
      PROVE  TypeOK'
  <2>1. \/ channel' = [channel EXCEPT ![q] = NextOf(channel[q])]
        \/ channel' = [channel EXCEPT ![q] = Close(channel[q])]
    BY <1>8 DEF SdkReads, SdkStopsReading
  <2>2. NextOf(channel[q]) \in Channels(Requests) /\ Close(channel[q]) \in Channels(Requests)
    BY ChannelTypes
  <2>3. channel' \in [Queries -> Channels(Requests)]
    BY <2>1, <2>2
  <2> QED
    BY <1>8, <2>3 DEF SdkReads, SdkStopsReading
<1>9. ASSUME NEW q \in Queries, SdkEnds(q) \/ PumpBreaks(q) \/ PumpStep(q)
      PROVE  TypeOK'
  <2>1. CASE SdkEnds(q)
    BY <2>1 DEF SdkEnds
  <2>2. CASE PumpBreaks(q)
    BY <2>2, ClosingKeeps DEF PumpBreaks
  <2>3. CASE PumpEnds(q)
    BY <2>3 DEF PumpEnds
  <2>4. CASE PumpFails(q)
    BY <2>4 DEF PumpFails
  <2> QED
    BY <1>9, <2>1, <2>2, <2>3, <2>4 DEF PumpStep
<1>10. CASE UNCHANGED vars
  BY <1>10 DEF vars
<1> QED
  BY <1>1, <1>2, <1>3, <1>4, <1>5, <1>6, <1>7, <1>8, <1>9, <1>10 DEF Next, Dispatch

\* Messages stay in order: only the operators of the channel touch it (session.ts:139-176).
LEMMA FifoStep == ASSUME TypeOK, InputIsFifo, [Next]_vars PROVE InputIsFifo'
<1> SUFFICES ASSUME NEW q \in Queries
             PROVE  Pushed(channel'[q]) = sent'[q] /\ NobodyStarves(channel'[q])
  BY DEF InputIsFifo
<1>1. /\ channel[q] \in Channels(Requests)
      /\ Pushed(channel[q]) = sent[q]
      /\ NobodyStarves(channel[q])
  BY DEF TypeOK, InputIsFifo
<1>2. ASSUME sent' = sent, channel'[q] \in {channel[q], Close(channel[q]), NextOf(channel[q])}
      PROVE  Pushed(channel'[q]) = sent'[q] /\ NobodyStarves(channel'[q])
  BY <1>1, <1>2, NextKeeps, CloseKeeps
<1>3. ASSUME NEW r \in Requests, Send(r), ~Refuse(r, "INTERNAL")
      PROVE  Pushed(channel'[q]) = sent'[q] /\ NobodyStarves(channel'[q])
  <2> DEFINE p == input[sessions[Id(r)]]
  <2>1. /\ ~channel[p].closed
        /\ channel' = [channel EXCEPT ![p] = Push(@, r)]
        /\ sent' = [sent EXCEPT ![p] = Append(@, r)]
    BY <1>3 DEF Send
  <2>2. CASE p = q
    BY <1>1, <2>1, <2>2, PushAppends DEF TypeOK
  <2>3. CASE p # q
    BY <1>1, <2>1, <2>3 DEF TypeOK
  <2> QED
    BY <2>2, <2>3
<1>4. ASSUME NEW r \in Requests, Resume(r) \/ CloseSession(r)
      PROVE  sent' = sent /\ channel'[q] \in {channel[q], Close(channel[q])}
  BY <1>4 DEF Resume, CloseSession, TypeOK
<1>5. ASSUME NEW p \in Queries, SdkReads(p) \/ SdkStopsReading(p)
      PROVE  sent' = sent /\ channel'[q] \in {channel[q], Close(channel[q]), NextOf(channel[q])}
  BY <1>5 DEF SdkReads, SdkStopsReading, TypeOK
<1>6. ASSUME NEW r \in Requests,
             \/ Create(r) \/ Unknown(r) \/ Control(r) \/ Refuse(r, "INTERNAL")
             \/ ControlSettles(r) \/ CloseGoesOn(r) \/ GiveUp(r)
      PROVE  sent' = sent /\ channel' = channel
  BY <1>6 DEF Create, Unknown, Control, Refuse, ControlSettles, CloseGoesOn, GiveUp
<1>7. ASSUME NEW p \in Queries, SdkEnds(p) \/ PumpBreaks(p) \/ PumpStep(p)
      PROVE  sent' = sent /\ channel' = channel
  BY <1>7 DEF SdkEnds, PumpBreaks, PumpStep, PumpEnds, PumpFails
<1>8. CASE UNCHANGED vars
  BY <1>2, <1>8 DEF vars
<1> QED
  BY <1>2, <1>3, <1>4, <1>5, <1>6, <1>7, <1>8 DEF Next, Dispatch
-----------------------------------------------------------------------------
(***************************************************************************)
(* How the actions change what SessionInv speaks of.                       *)
(***************************************************************************)

\* A request that is answered, or is put to a query, and touches no session.
OnlyTells(r, outcome) ==
  /\ told' = [told EXCEPT ![r] = outcome]
  /\ outcome # "unasked"
  /\ Method(r) = "session.close" => told[r] = "unasked" /\ outcome # "waiting"
  /\ awaits' = awaits \/ \E q : awaits' = [awaits EXCEPT ![r] = q]
  /\ UNCHANGED <<sessions, closed, query, owner, pump, abandoned>>

\* Answers that touch no session disturb nothing.
LEMMA TellingKeeps ==
  ASSUME TypeOK, SessionInv, NEW r \in Requests, NEW outcome, OnlyTells(r, outcome)
  PROVE  SessionInv'
<1> USE DEF OnlyTells, TypeOK, SessionInv
<1>1. ASSUME NEW x \in Requests
      PROVE  (Fresh(x) /\ AwaitsTheQuery(x))'
  BY DEF Fresh, AwaitsTheQuery, Waiting
<1>2. ASSUME NEW s \in SessionIds
      PROVE  SessionIsKeyed(s)'
  BY DEF SessionIsKeyed
<1>3. ASSUME NEW e \in Envs
      PROVE  EnvInv(e)'
  <2>1. QueryIsOwn(e)' /\ Pumped(e)'
    BY DEF EnvInv, QueryIsOwn, Pumped
  <2>2. Known(e)'
    BY DEF EnvInv, Known, CloseOvertaken, ClosedByFormerQuery
  <2>3. /\ ClosedByFormerQuery(e) => ClosedByFormerQuery(e)'
        /\ CloseOvertaken(Id(e)) => CloseOvertaken(Id(e))'
        /\ Ended(query[e]) => Ended(query[e])'
    BY DEF ClosedByFormerQuery, CloseOvertaken, Ended
  <2>4. ASSUME NEW x \in Requests, Method(x) = "session.close", Waiting(x)
        PROVE  Waiting(x)'
    BY <2>4 DEF Waiting
  <2>5. ClosedForReason(e)'
    BY <2>3, <2>4 DEF EnvInv, ClosedForReason
  <2> QED
    BY <2>1, <2>2, <2>5 DEF EnvInv
<1> QED
  BY <1>1, <1>2, <1>3

\* A caller that gives up only adds to the exceptions.
LEMMA GiveUpKeeps ==
  ASSUME TypeOK, SessionInv, NEW r \in Requests, GiveUp(r)
  PROVE  SessionInv'
<1> USE DEF GiveUp, TypeOK, SessionInv, envVars, queryVars
<1>1. ASSUME NEW x \in Requests
      PROVE  (Fresh(x) /\ AwaitsTheQuery(x))'
  BY DEF Fresh, AwaitsTheQuery, Waiting
<1>2. ASSUME NEW s \in SessionIds
      PROVE  SessionIsKeyed(s)'
  BY DEF SessionIsKeyed
<1>3. ASSUME NEW e \in Envs
      PROVE  EnvInv(e)'
  <2>1. QueryIsOwn(e)' /\ Pumped(e)'
    BY DEF EnvInv, QueryIsOwn, Pumped
  <2>2. Known(e)'
    BY DEF EnvInv, Known, CloseOvertaken, ClosedByFormerQuery
  <2>3. /\ ClosedByFormerQuery(e) => ClosedByFormerQuery(e)'
        /\ CloseOvertaken(Id(e)) => CloseOvertaken(Id(e))'
        /\ Method(r) = "session.close" /\ Id(r) = Id(e) => CloseOvertaken(Id(e))'
    BY DEF ClosedByFormerQuery, CloseOvertaken
  <2>4. ClosedForReason(e)'
    BY <2>3 DEF EnvInv, ClosedForReason, Ended, Waiting
  <2> QED
    BY <2>1, <2>2, <2>4 DEF EnvInv
<1> QED
  BY <1>1, <1>2, <1>3

\* A new session enters the map under an id that was free, with a query that is new.
LEMMA CreateKeeps ==
  ASSUME TypeOK, SessionInv, NEW r \in Requests,
         Dispatchable(r, "session.create"),
         sessions[Id(r)] = Nil,
         StartQuery(r, r),
         sessions' = [sessions EXCEPT ![Id(r)] = r],
         query' = [query EXCEPT ![r] = r],
         Answer(r, "result"),
         UNCHANGED <<closed, awaits, abandoned>>
  PROVE  SessionInv'
<1> USE Names DEF TypeOK, SessionInv, StartQuery, Answer
<1>1. r \in Envs /\ r \in Queries /\ told[r] = "unasked" /\ Method(r) = "session.create"
  BY DEF Dispatchable, Envs, Queries
<1>2. /\ query[r] = Nil
      /\ ~closed[r]
      /\ \A e \in Envs : query[e] # r
      /\ \A q \in Queries : owner[q] # r
      /\ pump[r] = "none"
  BY <1>1 DEF Fresh
<1>3. ASSUME NEW x \in Requests
      PROVE  (Fresh(x) /\ AwaitsTheQuery(x))'
  <2>1. Fresh(x)'
    BY <1>1 DEF Fresh
  <2>2. AwaitsTheQuery(x)'
    <3>1. CASE x = r
      BY <1>1, <3>1 DEF AwaitsTheQuery, Waiting
    <3>2. CASE x # r /\ Id(x) = Id(r)
      BY <3>2 DEF AwaitsTheQuery, Waiting, Dispatchable
    <3>3. CASE x # r /\ Id(x) # Id(r)
      BY <1>1, <3>3 DEF AwaitsTheQuery, Waiting, SessionIsKeyed
    <3> QED
      BY <3>1, <3>2, <3>3
  <2> QED
    BY <2>1, <2>2
<1>4. ASSUME NEW s \in SessionIds
      PROVE  SessionIsKeyed(s)'
  BY <1>1 DEF SessionIsKeyed
<1>5. ASSUME NEW e \in Envs
      PROVE  EnvInv(e)'
  <2>1. QueryIsOwn(e)' /\ Pumped(e)'
    BY <1>1, <1>2 DEF EnvInv, QueryIsOwn, Pumped
  <2>2. ClosedByFormerQuery(e) => ClosedByFormerQuery(e)'
    BY <1>1, <1>2 DEF ClosedByFormerQuery
  <2>3. CloseOvertaken(Id(e)) => CloseOvertaken(Id(e))'
    BY DEF CloseOvertaken
  <2>4. Known(e)'
    BY <1>1, <1>2, <2>2, <2>3 DEF EnvInv, Known
  <2>5. ClosedForReason(e)'
    BY <1>1, <1>2, <2>2, <2>3 DEF EnvInv, ClosedForReason, Ended, Waiting
  <2> QED
    BY <2>1, <2>4, <2>5 DEF EnvInv
<1> QED
  BY <1>3, <1>4, <1>5

\* A resumed session has a query that is new, and is open.
LEMMA ResumeKeeps ==
  ASSUME TypeOK, SessionInv, NEW r \in Requests, NEW e \in Envs,
         Dispatchable(r, "session.resume"),
         sessions[Id(r)] = e,
         owner' = [owner EXCEPT ![r] = e],
         pump' = [pump EXCEPT ![r] = "running"],
         query' = [query EXCEPT ![e] = r],
         closed' = [closed EXCEPT ![e] = FALSE],
         Answer(r, "result"),
         UNCHANGED <<sessions, awaits, abandoned>>
  PROVE  SessionInv'
<1> USE Names DEF TypeOK, SessionInv, Answer
<1>1. r \in Queries /\ r \notin Envs /\ told[r] = "unasked" /\ Method(r) = "session.resume"
  BY DEF Dispatchable, Envs, Queries
<1>2. /\ \A d \in Envs : query[d] # r
      /\ pump[r] = "none"
      /\ e # Nil
      /\ Id(e) = Id(r)
      /\ told[e] # "unasked"
  BY <1>1 DEF Fresh, SessionIsKeyed
<1>3. ASSUME NEW x \in Requests
      PROVE  (Fresh(x) /\ AwaitsTheQuery(x))'
  <2>1. Fresh(x)'
    BY <1>1, <1>2 DEF Fresh
  <2>2. AwaitsTheQuery(x)'
    BY <1>1, <1>2 DEF AwaitsTheQuery, Waiting, Dispatchable, SessionIsKeyed
  <2> QED
    BY <2>1, <2>2
<1>4. ASSUME NEW s \in SessionIds
      PROVE  SessionIsKeyed(s)'
  BY <1>1 DEF SessionIsKeyed
<1>5. ASSUME NEW d \in Envs
      PROVE  EnvInv(d)'
  <2>1. QueryIsOwn(d)' /\ Pumped(d)'
    BY <1>1, <1>2 DEF EnvInv, QueryIsOwn, Pumped
  <2>2. ClosedByFormerQuery(d) => ClosedByFormerQuery(d)'
    BY <1>1, <1>2 DEF ClosedByFormerQuery
  <2>3. CloseOvertaken(Id(d)) => CloseOvertaken(Id(d))'
    BY DEF CloseOvertaken
  <2>4. Known(d)'
    BY <1>1, <1>2, <2>2, <2>3 DEF EnvInv, Known
  <2>5. ClosedForReason(d)'
    BY <1>1, <1>2, <2>2, <2>3 DEF EnvInv, ClosedForReason, Ended, Waiting
  <2> QED
    BY <2>1, <2>4, <2>5 DEF EnvInv
<1> QED
  BY <1>3, <1>4, <1>5

\* A session.close that finds its session closed takes it off the map: its query has
\* ended, unless one of the exceptions holds, for no other close can be on its way.
LEMMA CloseClosedKeeps ==
  ASSUME TypeOK, SessionInv, NEW r \in Requests, NEW e \in Envs,
         Dispatchable(r, "session.close"),
         sessions[Id(r)] = e,
         closed[e],
         sessions' = [sessions EXCEPT ![Id(r)] = Nil],
         Answer(r, "result"),
         UNCHANGED <<closed, query, owner, pump, awaits, abandoned>>
  PROVE  SessionInv'
<1> USE Names DEF TypeOK, SessionInv, Answer
<1>1. told[r] = "unasked" /\ Id(e) = Id(r) /\ e # Nil
  BY DEF Dispatchable, SessionIsKeyed
<1>2. Ended(query[e]) \/ CloseOvertaken(Id(e)) \/ ClosedByFormerQuery(e)
  BY <1>1 DEF EnvInv, ClosedForReason, Dispatchable
<1>3. ASSUME NEW x \in Requests
      PROVE  (Fresh(x) /\ AwaitsTheQuery(x))'
  BY <1>1 DEF Fresh, AwaitsTheQuery, Waiting
<1>4. ASSUME NEW s \in SessionIds
      PROVE  SessionIsKeyed(s)'
  BY <1>1 DEF SessionIsKeyed
<1>5. ASSUME NEW d \in Envs
      PROVE  EnvInv(d)'
  <2>1. QueryIsOwn(d)' /\ Pumped(d)'
    BY DEF EnvInv, QueryIsOwn, Pumped
  <2>2. /\ ClosedByFormerQuery(d) => ClosedByFormerQuery(d)'
        /\ CloseOvertaken(Id(d)) => CloseOvertaken(Id(d))'
    BY DEF ClosedByFormerQuery, CloseOvertaken
  <2>3. Known(d)'
    BY <1>1, <1>2, <2>2 DEF EnvInv, Known, Ended
  <2>4. ClosedForReason(d)'
    BY <1>1, <2>2 DEF EnvInv, ClosedForReason, Ended, Waiting
  <2> QED
    BY <2>1, <2>3, <2>4 DEF EnvInv
<1> QED
  BY <1>3, <1>4, <1>5

\* A session.close that finds its session open waits for the query it closes.
LEMMA CloseOpenKeeps ==
  ASSUME TypeOK, SessionInv, NEW r \in Requests, NEW e \in Envs,
         Dispatchable(r, "session.close"),
         sessions[Id(r)] = e,
         closed' = [closed EXCEPT ![e] = TRUE],
         awaits' = [awaits EXCEPT ![r] = query[e]],
         Answer(r, "waiting"),
         UNCHANGED <<sessions, query, owner, pump, abandoned>>
  PROVE  SessionInv'
<1> USE Names DEF TypeOK, SessionInv, Answer
<1>1. /\ told[r] = "unasked"
      /\ Method(r) = "session.close"
      /\ Id(e) = Id(r)
      /\ told[e] # "unasked"
  BY DEF Dispatchable, SessionIsKeyed
<1>2. ASSUME NEW x \in Requests
      PROVE  (Fresh(x) /\ AwaitsTheQuery(x))'
  BY <1>1 DEF Fresh, AwaitsTheQuery, Waiting
<1>3. ASSUME NEW s \in SessionIds
      PROVE  SessionIsKeyed(s)'
  BY <1>1 DEF SessionIsKeyed
<1>4. ASSUME NEW d \in Envs
      PROVE  EnvInv(d)'
  <2>1. QueryIsOwn(d)' /\ Pumped(d)'
    BY DEF EnvInv, QueryIsOwn, Pumped
  <2>2. /\ ClosedByFormerQuery(d) => ClosedByFormerQuery(d)'
        /\ CloseOvertaken(Id(d)) => CloseOvertaken(Id(d))'
    BY DEF ClosedByFormerQuery, CloseOvertaken
  <2>3. Known(d)'
    BY <2>2 DEF EnvInv, Known
  <2>4. ASSUME d = e
        PROVE  ClosedForReason(d)'
    BY <1>1, <2>4 DEF ClosedForReason, CloseOvertaken, Waiting
  <2>5. ASSUME d # e
        PROVE  ClosedForReason(d)'
    BY <1>1, <2>2, <2>5 DEF EnvInv, ClosedForReason, Ended, Waiting
  <2> QED
    BY <2>1, <2>3, <2>4, <2>5 DEF EnvInv
<1> QED
  BY <1>2, <1>3, <1>4

\* A session.close that goes on takes the session whose query it awaited off the map,
\* unless its caller gave up.
LEMMA CloseGoesOnKeeps ==
  ASSUME TypeOK, SessionInv, NEW r \in Requests, CloseGoesOn(r)
  PROVE  SessionInv'
<1> USE Names DEF TypeOK, SessionInv, CloseGoesOn, Answer, queryVars
<1>1. ASSUME NEW x \in Requests
      PROVE  (Fresh(x) /\ AwaitsTheQuery(x))'
  BY DEF Fresh, AwaitsTheQuery, Waiting
<1>2. ASSUME NEW s \in SessionIds
      PROVE  SessionIsKeyed(s)'
  BY DEF SessionIsKeyed
<1>3. ASSUME NEW d \in Envs
      PROVE  EnvInv(d)'
  <2>1. QueryIsOwn(d)' /\ Pumped(d)'
    BY DEF EnvInv, QueryIsOwn, Pumped
  <2>2. /\ ClosedByFormerQuery(d) => ClosedByFormerQuery(d)'
        /\ CloseOvertaken(Id(d)) => CloseOvertaken(Id(d))'
    BY DEF ClosedByFormerQuery, CloseOvertaken
  <2>3. CASE sessions[Id(r)] = d /\ Id(d) = Id(r) /\ r \notin abandoned
    <3>1. awaits[r] = query[d]
      BY <2>3 DEF AwaitsTheQuery
    <3> QED
      BY <2>1, <2>2, <2>3, <3>1 DEF EnvInv, Known, ClosedForReason, Ended
  <2>4. CASE r \in abandoned /\ Id(d) = Id(r)
    <3>1. CloseOvertaken(Id(d))'
      BY <2>4 DEF CloseOvertaken
    <3> QED
      BY <2>1, <3>1 DEF EnvInv, Known, ClosedForReason
  <2>5. CASE Id(d) # Id(r) \/ sessions[Id(r)] # d
    <3>1. Known(d)'
      BY <2>2, <2>5 DEF EnvInv, Known
    <3>2. ClosedForReason(d)'
      BY <2>2, <2>5 DEF EnvInv, ClosedForReason, Ended, Waiting
    <3> QED
      BY <2>1, <3>1, <3>2 DEF EnvInv
  <2> QED
    BY <2>3, <2>4, <2>5
<1> QED
  BY <1>1, <1>2, <1>3

\* A pump that ends closes the session that started it.
LEMMA PumpKeeps ==
  ASSUME TypeOK, SessionInv, NEW q \in Queries, PumpBreaks(q) \/ PumpStep(q)
  PROVE  SessionInv'
<1> USE Names DEF TypeOK, SessionInv, envVars, clientVars
<1>1. /\ pump[q] \in {"running", "breaking"}
      /\ \E new \in {"breaking", "done", "failed"} : pump' = [pump EXCEPT ![q] = new]
      /\ closed' = closed \/ closed' = [closed EXCEPT ![owner[q]] = TRUE]
      /\ closed' = closed \/ pump'[q] = "done"
      /\ pump'[q] = "done" => closed' = [closed EXCEPT ![owner[q]] = TRUE]
      /\ UNCHANGED <<sessions, query, owner, awaits, told, abandoned>>
  BY DEF PumpBreaks, PumpStep, PumpEnds, PumpFails
<1>2. ASSUME NEW x \in Requests
      PROVE  (Fresh(x) /\ AwaitsTheQuery(x))'
  BY <1>1 DEF Fresh, AwaitsTheQuery, Waiting
<1>3. ASSUME NEW s \in SessionIds
      PROVE  SessionIsKeyed(s)'
  BY <1>1 DEF SessionIsKeyed
<1>4. ASSUME NEW d \in Envs
      PROVE  EnvInv(d)'
  <2>1. QueryIsOwn(d)'
    BY <1>1 DEF EnvInv, QueryIsOwn
  <2>2. Pumped(d)'
    <3>1. CASE query[d] = q
      BY <1>1, <3>1 DEF EnvInv, QueryIsOwn, Pumped
    <3>2. CASE query[d] # q
      <4>1. query[d] # Nil => pump'[query[d]] = pump[query[d]]
        BY <1>1, <3>2
      <4> QED
        BY <1>1, <4>1 DEF EnvInv, Pumped
    <3> QED
      BY <3>1, <3>2
  <2>3. /\ ClosedByFormerQuery(d) => ClosedByFormerQuery(d)'
        /\ CloseOvertaken(Id(d)) => CloseOvertaken(Id(d))'
    BY <1>1 DEF ClosedByFormerQuery, CloseOvertaken
  <2>4. Known(d)'
    BY <1>1, <2>3 DEF EnvInv, Known
  <2>5. closed'[d] /\ ~closed[d] => Ended(query[d])' \/ ClosedByFormerQuery(d)'
    BY <1>1 DEF Ended, ClosedByFormerQuery
  <2>6. Ended(query[d]) => Ended(query[d])'
    BY <1>1 DEF Ended
  <2>7. ClosedForReason(d)'
    BY <1>1, <2>3, <2>5, <2>6 DEF EnvInv, ClosedForReason, Waiting
  <2> QED
    BY <2>1, <2>2, <2>4, <2>7 DEF EnvInv
<1> QED
  BY <1>2, <1>3, <1>4
-----------------------------------------------------------------------------
\* Every step of a handler, a query or a pump keeps SessionInv.
LEMMA SessionStep == ASSUME TypeOK, SessionInv, [Next]_vars PROVE SessionInv'
<1>1. ASSUME NEW r \in Requests, NEW code \in ErrorCodes, Refuse(r, code), told[r] = "unasked"
      PROVE  SessionInv'
  <2>1. OnlyTells(r, code)
    BY <1>1 DEF Refuse, OnlyTells, Answer, envVars, queryVars, ErrorCodes
  <2> QED
    BY <2>1, TellingKeeps
<1>2. ASSUME NEW r \in Requests, Create(r)
      PROVE  SessionInv'
  <2>1. told[r] = "unasked"
    BY <1>2 DEF Create, Dispatchable
  <2>2. Refuse(r, "INVALID_PARAMS") \/ Refuse(r, "INTERNAL") => SessionInv'
    BY <1>1, <2>1 DEF ErrorCodes
  <2> QED
    BY <1>2, <2>2, CreateKeeps DEF Create
<1>3. ASSUME NEW r \in Requests, Unknown(r)
      PROVE  SessionInv'
  BY <1>1, <1>3 DEF Unknown, Dispatchable, ErrorCodes
<1>4. ASSUME NEW r \in Requests, Send(r)
      PROVE  SessionInv'
  <2>1. told[r] = "unasked" /\ Method(r) = "session.send"
    BY <1>4 DEF Send, Dispatchable
  <2>2. CASE Refuse(r, "INTERNAL")
    BY <1>1, <2>1, <2>2 DEF ErrorCodes
  <2>3. CASE ~Refuse(r, "INTERNAL")
    <3>1. OnlyTells(r, "result")
      BY <1>4, <2>1, <2>3 DEF Send, OnlyTells, Answer, envVars, queryVars
    <3> QED
      BY <3>1, TellingKeeps
  <2> QED
    BY <2>2, <2>3
<1>5. ASSUME NEW r \in Requests, Control(r)
      PROVE  SessionInv'
  <2>1. told[r] = "unasked" /\ Method(r) = "session.control"
    BY <1>5 DEF Control, Dispatchable
  <2>2. CASE Refuse(r, "CONTROL_FAILED")
    BY <1>1, <2>1, <2>2 DEF ErrorCodes
  <2>3. CASE ~Refuse(r, "CONTROL_FAILED")
    <3>1. OnlyTells(r, "waiting")
      BY <1>5, <2>1, <2>3 DEF Control, OnlyTells, Answer, envVars, queryVars
    <3> QED
      BY <3>1, TellingKeeps
  <2> QED
    BY <2>2, <2>3
<1>6. ASSUME NEW r \in Requests, Resume(r)
      PROVE  SessionInv'
  <2>1. /\ Dispatchable(r, "session.resume")
        /\ Method(r) = "session.resume"
        /\ sessions[Id(r)] # Nil
        /\ UNCHANGED <<sessions, awaits, abandoned>>
    BY <1>6 DEF Resume, Dispatchable
  <2>2. sessions[Id(r)] \in Envs
    BY <2>1, Lookup
  <2>3. CASE Answer(r, "INTERNAL") /\ UNCHANGED <<owner, pump, query, closed>>
    <3>1. OnlyTells(r, "INTERNAL")
      BY <2>1, <2>3 DEF OnlyTells, Answer
    <3> QED
      BY <3>1, TellingKeeps
  <2>4. CASE ~(Answer(r, "INTERNAL") /\ UNCHANGED <<owner, pump, query, closed>>)
    <3>1. /\ owner' = [owner EXCEPT ![r] = sessions[Id(r)]]
          /\ pump' = [pump EXCEPT ![r] = "running"]
          /\ query' = [query EXCEPT ![sessions[Id(r)]] = r]
          /\ closed' = [closed EXCEPT ![sessions[Id(r)]] = FALSE]
          /\ Answer(r, "result")
      BY <1>6, <2>4 DEF Resume
    <3> QED
      BY <2>1, <2>2, <3>1, ResumeKeeps
  <2> QED
    BY <2>3, <2>4
<1>7. ASSUME NEW r \in Requests, CloseSession(r)
      PROVE  SessionInv'
  <2>1. /\ Dispatchable(r, "session.close")
        /\ sessions[Id(r)] # Nil
        /\ UNCHANGED <<query, owner, pump, abandoned>>
    BY <1>7 DEF CloseSession
  <2>2. sessions[Id(r)] \in Envs
    BY <2>1, Lookup
  <2>3. CASE closed[sessions[Id(r)]]
    <3>1. /\ sessions' = [sessions EXCEPT ![Id(r)] = Nil]
          /\ Answer(r, "result")
          /\ UNCHANGED <<closed, awaits>>
      BY <1>7, <2>3 DEF CloseSession
    <3> QED
      BY <2>1, <2>2, <2>3, <3>1, CloseClosedKeeps
  <2>4. CASE ~closed[sessions[Id(r)]]
    <3>1. /\ closed' = [closed EXCEPT ![sessions[Id(r)]] = TRUE]
          /\ awaits' = [awaits EXCEPT ![r] = query[sessions[Id(r)]]]
          /\ Answer(r, "waiting")
          /\ UNCHANGED sessions
      BY <1>7, <2>4 DEF CloseSession
    <3> QED
      BY <2>1, <2>2, <3>1, CloseOpenKeeps
  <2> QED
    BY <2>3, <2>4
<1>8. ASSUME NEW r \in Requests, ControlSettles(r)
      PROVE  SessionInv'
  <2>1. PICK outcome \in {"result", "CONTROL_FAILED"} : Answer(r, outcome)
    BY <1>8 DEF ControlSettles
  <2>2. OnlyTells(r, outcome)
    BY <1>8, <2>1 DEF ControlSettles, OnlyTells, Answer, envVars, queryVars
  <2> QED
    BY <2>2, TellingKeeps
<1>9. ASSUME NEW q \in Queries, SdkReads(q) \/ SdkStopsReading(q) \/ SdkEnds(q)
      PROVE  UNCHANGED <<sessions, closed, query, owner, pump, awaits, told, abandoned>>
  BY <1>9 DEF SdkReads, SdkStopsReading, SdkEnds, envVars, queryVars, clientVars
<1>10. ASSUME UNCHANGED <<sessions, closed, query, owner, pump, awaits, told, abandoned>>
       PROVE  SessionInv'
  BY <1>10 DEF SessionInv, Fresh, AwaitsTheQuery, SessionIsKeyed, EnvInv, QueryIsOwn, Pumped,
               Known, ClosedForReason, CloseOvertaken, ClosedByFormerQuery, Ended, Waiting
<1>11. CASE UNCHANGED vars
  BY <1>10, <1>11 DEF vars, envVars, queryVars, clientVars
<1> QED
  BY <1>2, <1>3, <1>4, <1>5, <1>6, <1>7, <1>8, <1>9, <1>10, <1>11,
     GiveUpKeeps, CloseGoesOnKeeps, PumpKeeps DEF Next, Dispatch

\* At the start the map is empty and no query runs.
LEMMA InitInv == Init => IInv
<1> SUFFICES ASSUME Init PROVE IInv
  OBVIOUS
<1>1. TypeOK /\ InputIsFifo
  BY NewIsEmpty DEF Init, TypeOK, InputIsFifo, Outcomes
<1>2. SessionInv
  BY QuerySessionAssumption, Names
  DEF Init, SessionInv, Fresh, AwaitsTheQuery, SessionIsKeyed, EnvInv, QueryIsOwn, Pumped,
      Known, ClosedForReason, Waiting
<1> QED
  BY <1>1, <1>2 DEF IInv

LEMMA StepInv == IInv /\ [Next]_vars => IInv'
  BY TypeStep, FifoStep, SessionStep DEF IInv

\* The invariant holds in every state of the sidecar's sessions.
THEOREM Invariance == Spec => []IInv
<1> QED
  BY InitInv, StepInv, PTL DEF Spec

\* The state keeps the shape of the classes and the map it models (session.ts:178-185,
\* index.ts:49).
THEOREM TypeCorrect == Spec => []TypeOK
<1>1. IInv => TypeOK
  BY DEF IInv
<1> QED
  BY <1>1, Invariance, PTL

\* A message that session.send accepted is taken once, and in order, from the channel it
\* was pushed into, and no reader waits beside a queue (session.ts:139-176).
THEOREM FifoInput == Spec => []InputIsFifo
<1>1. IInv => InputIsFifo
  BY DEF IInv
<1> QED
  BY <1>1, Invariance, PTL

\* A query that is pumped belongs to a session that session.close can reach, with two
\* exceptions: a close whose caller gave up, and a former query that closed the session
\* (index.ts:181-188).
THEOREM PumpsAreKnown == Spec => []PumpIsKnown
<1>1. IInv => PumpIsKnown
  BY DEF IInv, SessionInv, EnvInv, Known, PumpIsKnown
<1> QED
  BY <1>1, Invariance, PTL

\* A session that accepts messages has a pump that reports its end, or has reported it with
\* session.error (session.ts:267-295).
THEOREM OpenSessionsArePumped == Spec => []OpenIsPumped
<1>1. IInv => OpenIsPumped
  BY DEF IInv, SessionInv, EnvInv, Pumped, OpenIsPumped
<1> QED
  BY <1>1, Invariance, PTL
=============================================================================
