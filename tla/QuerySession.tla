---------------------------- MODULE QuerySession ----------------------------
(***************************************************************************)
(* The sessions inside the Node sidecar: the session.* handlers of         *)
(* priv/ts_sidecar/src/index.ts and the class QuerySession of session.ts.  *)
(* The handlers run on one event loop: a step is a run to the next await.  *)
(* What is interleaved is a handler that awaits the SDK or a pump, the     *)
(* pumps (one for each query, also for one that a resume has replaced),    *)
(* and the queries, which belong to the npm SDK.                           *)
(*                                                                         *)
(* A QuerySession is named by the session.create that made it, a query and *)
(* its input channel by the session.create or session.resume that made     *)
(* them.  Left out: what a pump forwards (Sidecar has the stream), turn     *)
(* ids and times, which are only given out, and the options of a query.    *)
(***************************************************************************)
EXTENDS InputChannel, Protocol

CONSTANTS
  Requests,    \* requests of Elixir, by id
  Request,     \* the frame of each
  SessionIds,
  Impatient,   \* bound: requests whose caller may give up
  Follows,     \* bound: of a request, the one it is made after, or Nil
  Nil

ASSUME QuerySessionAssumption ==
  /\ Request \in [Requests -> Frames(SessionIds)]
  /\ Impatient \subseteq Requests
  /\ Follows \in [Requests -> Requests \cup {Nil}]
  /\ Nil \notin Requests

Method(r) == Request[r].method
Id(r)     == Request[r].sessionId

Envs    == {r \in Requests : Method(r) = "session.create"}
Queries == {r \in Requests : Method(r) \in {"session.create", "session.resume"}}

VARIABLES
  sessions,   \* the map of index.ts: of each id, its QuerySession or Nil
  closed,     \* the fields of each QuerySession: `closed',
  input,      \*   the input channel
  query,      \*   and the query, both by the request that made them
  channel,    \* each input channel
  sdk,        \* each query: "none", "running", "closed" by close(), or how its iterator ended
  owner,      \* the QuerySession whose pump reads the query
  pump,       \* "none", "running", "breaking" out of its loop, "done" or "failed"
  awaits,     \* of a handler at an await: the query it waits for
  told,       \* of each request: "unasked", "waiting", or its outcome
  abandoned,  \* requests whose caller has given up
  sent        \* for the properties: the sends accepted into each channel, in order

envVars    == <<sessions, closed, input, query>>
queryVars  == <<sdk, owner, pump>>
clientVars == <<told, abandoned>>
vars       == <<envVars, channel, queryVars, awaits, clientVars, sent>>

Waiting(r) == told[r] = "waiting"
Ended(q)   == pump[q] \in {"done", "failed"}

Answer(r, outcome) == told' = [told EXCEPT ![r] = outcome]

-----------------------------------------------------------------------------
(***************************************************************************)
(* The handlers.  A session process of Elixir blocks in its RPC, so that   *)
(* the requests for an id come one at a time, unless one was given up: its *)
(* session process then exits, and another may be started with the id.     *)
(***************************************************************************)

Dispatchable(r, method) ==
  /\ Method(r) = method
  /\ told[r] = "unasked"
  /\ Follows[r] # Nil => told[Follows[r]] # "unasked"
  /\ \A other \in Requests : Waiting(other) /\ Id(other) = Id(r) => other \in abandoned

GiveUp(r) ==
  /\ r \in Impatient
  /\ Waiting(r)
  /\ r \notin abandoned
  /\ abandoned' = abandoned \cup {r}
  /\ UNCHANGED <<envVars, channel, queryVars, awaits, told, sent>>

\* A request that its handler refuses before it changes anything.
Refuse(r, code) ==
  /\ Answer(r, code)
  /\ UNCHANGED <<envVars, channel, queryVars, awaits, abandoned, sent>>

\* this.sdk.query(..) and this.pump(), for the QuerySession e.
StartQuery(r, e) ==
  /\ sdk' = [sdk EXCEPT ![r] = "running"]
  /\ owner' = [owner EXCEPT ![r] = e]
  /\ pump' = [pump EXCEPT ![r] = "running"]

\* session.create: refused if the id is in use; an error if the SDK throws.
Create(r) ==
  /\ Dispatchable(r, "session.create")
  /\ \/ sessions[Id(r)] # Nil /\ Refuse(r, "INVALID_PARAMS")
     \/ sessions[Id(r)] = Nil /\ Refuse(r, "INTERNAL")
     \/ /\ sessions[Id(r)] = Nil
        /\ StartQuery(r, r)
        /\ sessions' = [sessions EXCEPT ![Id(r)] = r]
        /\ input' = [input EXCEPT ![r] = r]
        /\ query' = [query EXCEPT ![r] = r]
        /\ Answer(r, "result")
        /\ UNCHANGED <<closed, channel, awaits, abandoned, sent>>

\* lookup(ctx, sessionId), of a session method other than create.
Unknown(r) ==
  /\ \E method \in SessionMethods \ {"session.create"} : Dispatchable(r, method)
  /\ sessions[Id(r)] = Nil
  /\ Refuse(r, "SESSION_UNKNOWN")

\* session.send: refused by a session or a channel that is closed.
Send(r) ==
  LET e == sessions[Id(r)]
      q == input[e]
  IN  /\ Dispatchable(r, "session.send")
      /\ e # Nil
      /\ \/ (closed[e] \/ channel[q].closed) /\ Refuse(r, "INTERNAL")
         \/ /\ ~closed[e]
            /\ ~channel[q].closed
            /\ channel' = [channel EXCEPT ![q] = Push(@, r)]
            /\ sent' = [sent EXCEPT ![q] = Append(@, r)]
            /\ Answer(r, "result")
            /\ UNCHANGED <<envVars, queryVars, awaits, abandoned>>

\* session.control: refused by a session that is closed, and for a method that the query
\* has not; else it awaits the method of the query.
Control(r) ==
  LET e == sessions[Id(r)]
  IN  /\ Dispatchable(r, "session.control")
      /\ e # Nil
      /\ \/ Refuse(r, "CONTROL_FAILED")
         \/ /\ ~closed[e]
            /\ awaits' = [awaits EXCEPT ![r] = query[e]]
            /\ Answer(r, "waiting")
            /\ UNCHANGED <<envVars, channel, queryVars, abandoned, sent>>

\* The method of the query settles, or it never does.
ControlSettles(r) ==
  /\ Method(r) = "session.control"
  /\ Waiting(r)
  /\ \E outcome \in {"result", "CONTROL_FAILED"} : Answer(r, outcome)
  /\ awaits' = [awaits EXCEPT ![r] = Nil]
  /\ UNCHANGED <<envVars, channel, queryVars, abandoned, sent>>

\* query.close(): the iterator ends some time later.
Closing(q) == IF sdk[q] = "running" THEN [sdk EXCEPT ![q] = "closed"] ELSE sdk

\* session.resume: the old query is closed and its pump is left to itself; if the SDK
\* throws, the session is left with the old query and the new channel.
Resume(r) ==
  LET e == sessions[Id(r)]
  IN  /\ Dispatchable(r, "session.resume")
      /\ e # Nil
      /\ channel' = [channel EXCEPT ![input[e]] = Close(@)]
      /\ input' = [input EXCEPT ![e] = r]
      /\ \/ /\ sdk' = [Closing(query[e]) EXCEPT ![r] = "running"]
            /\ owner' = [owner EXCEPT ![r] = e]
            /\ pump' = [pump EXCEPT ![r] = "running"]
            /\ query' = [query EXCEPT ![e] = r]
            /\ closed' = [closed EXCEPT ![e] = FALSE]
            /\ Answer(r, "result")
         \/ /\ sdk' = Closing(query[e])
            /\ Answer(r, "INTERNAL")
            /\ UNCHANGED <<owner, pump, query, closed>>
      /\ UNCHANGED <<sessions, awaits, abandoned, sent>>

\* Mutant: close() does not wait for its pump.
CloseAtOnce(r) ==
  LET e == sessions[Id(r)]
  IN  /\ Dispatchable(r, "session.close")
      /\ e # Nil
      /\ closed' = [closed EXCEPT ![e] = TRUE]
      /\ channel' = [channel EXCEPT ![input[e]] = Close(@)]
      /\ sdk' = Closing(query[e])
      /\ sessions' = [sessions EXCEPT ![Id(r)] = Nil]
      /\ Answer(r, "result")
      /\ UNCHANGED <<input, query, owner, pump, awaits, abandoned, sent>>

\* session.close: a session that is closed already, or that another session.close is
\* closing, leaves the map at once; else close() awaits the pump.
CloseSession(r) ==
  LET e == sessions[Id(r)]
  IN  /\ Dispatchable(r, "session.close")
      /\ e # Nil
      /\ \/ /\ closed[e]
            /\ sessions' = [sessions EXCEPT ![Id(r)] = Nil]
            /\ Answer(r, "result")
            /\ UNCHANGED <<closed, channel, sdk, awaits>>
         \/ /\ ~closed[e]
            /\ closed' = [closed EXCEPT ![e] = TRUE]
            /\ channel' = [channel EXCEPT ![input[e]] = Close(@)]
            /\ sdk' = Closing(query[e])
            /\ awaits' = [awaits EXCEPT ![r] = query[e]]
            /\ Answer(r, "waiting")
            /\ UNCHANGED sessions
      /\ UNCHANGED <<input, query, owner, pump, abandoned, sent>>

\* Mutant: the second await of close() is lost.
NeverGoesOn(r) == FALSE

\* The pump that close() awaits has ended: whoever has the id now leaves the map.
CloseGoesOn(r) ==
  /\ Method(r) = "session.close"
  /\ Waiting(r)
  /\ Ended(awaits[r])
  /\ sessions' = [sessions EXCEPT ![Id(r)] = Nil]
  /\ awaits' = [awaits EXCEPT ![r] = Nil]
  /\ Answer(r, "result")
  /\ UNCHANGED <<closed, input, query, channel, queryVars, abandoned, sent>>

-----------------------------------------------------------------------------
(***************************************************************************)
(* The queries (external) and their pumps.                                 *)
(***************************************************************************)

\* The SDK reads its input with `for await': one next() at a time.
SdkReads(q) ==
  /\ sdk[q] = "running"
  /\ channel[q].resolvers = 0
  /\ channel' = [channel EXCEPT ![q] = NextOf(@)]
  /\ UNCHANGED <<envVars, queryVars, awaits, clientVars, sent>>

\* It leaves that loop before the input has ended: return().
SdkStopsReading(q) ==
  /\ sdk[q] = "running"
  /\ channel' = [channel EXCEPT ![q] = Close(@)]
  /\ UNCHANGED <<envVars, queryVars, awaits, clientVars, sent>>

\* The iterator of the query is done, or throws; it may at any time, and must once closed.
SdkEnds(q) ==
  /\ sdk[q] \in {"running", "closed"}
  /\ \E end \in {"done", "failed"} : sdk' = [sdk EXCEPT ![q] = end]
  /\ UNCHANGED <<envVars, channel, owner, pump, awaits, clientVars, sent>>

\* A message reaches the pump of a session that was closed: it breaks out of the loop,
\* which calls return() of the query and awaits it.
PumpBreaks(q) ==
  /\ pump[q] = "running"
  /\ sdk[q] \in {"running", "closed"}
  /\ closed[owner[q]]
  /\ pump' = [pump EXCEPT ![q] = "breaking"]
  /\ sdk' = Closing(q)
  /\ UNCHANGED <<envVars, channel, owner, awaits, clientVars, sent>>

\* Mutant: session.closed is sent and the session remains open.
PumpEndsOpen(q) ==
  /\ pump[q] \in {"running", "breaking"}
  /\ sdk[q] = "done"
  /\ pump' = [pump EXCEPT ![q] = "done"]
  /\ UNCHANGED <<envVars, channel, sdk, owner, awaits, clientVars, sent>>

\* After the loop: session.closed is sent unless the session is closed, and closes it.
PumpEnds(q) ==
  /\ pump[q] \in {"running", "breaking"}
  /\ sdk[q] = "done"
  /\ pump' = [pump EXCEPT ![q] = "done"]
  /\ closed' = [closed EXCEPT ![owner[q]] = TRUE]
  /\ UNCHANGED <<sessions, input, query, channel, sdk, owner, awaits, clientVars, sent>>

\* The loop, or the return() of the query, throws: session.error.  The session stays open.
PumpFails(q) ==
  /\ pump[q] \in {"running", "breaking"}
  /\ sdk[q] = "failed"
  /\ pump' = [pump EXCEPT ![q] = "failed"]
  /\ UNCHANGED <<envVars, channel, sdk, owner, awaits, clientVars, sent>>

-----------------------------------------------------------------------------
Init ==
  /\ sessions = [s \in SessionIds |-> Nil]
  /\ closed = [e \in Envs |-> FALSE]
  /\ input = [e \in Envs |-> Nil]
  /\ query = [e \in Envs |-> Nil]
  /\ channel = [q \in Queries |-> NewChannel]
  /\ sdk = [q \in Queries |-> "none"]
  /\ owner = [q \in Queries |-> Nil]
  /\ pump = [q \in Queries |-> "none"]
  /\ awaits = [r \in Requests |-> Nil]
  /\ told = [r \in Requests |-> "unasked"]
  /\ abandoned = {}
  /\ sent = [q \in Queries |-> << >>]

Dispatch(r) ==
  Create(r) \/ Unknown(r) \/ Send(r) \/ Control(r) \/ Resume(r) \/ CloseSession(r)

PumpStep(q) == PumpEnds(q) \/ PumpFails(q)

Next ==
  \/ \E r \in Requests : Dispatch(r) \/ ControlSettles(r) \/ CloseGoesOn(r) \/ GiveUp(r)
  \/ \E q \in Queries : SdkReads(q) \/ SdkStopsReading(q) \/ SdkEnds(q)
  \/ \E q \in Queries : PumpBreaks(q) \/ PumpStep(q)

Spec == Init /\ [][Next]_vars

\* The event loop goes on with what has settled, and a query that was closed ends.  Nothing
\* is assumed of a query that was not closed.
Fairness ==
  /\ \A r \in Requests : WF_vars(CloseGoesOn(r))
  /\ \A q \in Queries : WF_vars(PumpStep(q)) /\ WF_vars(sdk[q] = "closed" /\ SdkEnds(q))

FairSpec == Spec /\ Fairness

-----------------------------------------------------------------------------
(***************************************************************************)
(* Properties.                                                             *)
(***************************************************************************)

\* The state is of the shape of the fields of QuerySession (session.ts:178-185), of the
\* map of sessions (index.ts:49) and of the frames of protocol.ts.
TypeOK ==
  /\ sessions \in [SessionIds -> Envs \cup {Nil}]
  /\ closed \in [Envs -> BOOLEAN]
  /\ input \in [Envs -> Queries \cup {Nil}]
  /\ query \in [Envs -> Queries \cup {Nil}]
  /\ channel \in [Queries -> Channels(Requests)]
  /\ sdk \in [Queries -> {"none", "running", "closed", "done", "failed"}]
  /\ owner \in [Queries -> Envs \cup {Nil}]
  /\ pump \in [Queries -> {"none", "running", "breaking", "done", "failed"}]
  /\ awaits \in [Requests -> Queries \cup {Nil}]
  /\ told \in [Requests -> {"unasked", "waiting"} \cup Outcomes]
  /\ abandoned \subseteq Requests
  /\ sent \in [Queries -> Seq(Requests)]

\* A turn that session.send has answered is with the query of that moment: its messages are
\* taken from the channel in the order they were accepted, none is lost or doubled between
\* the queue and the resolvers, and no reader waits beside a queue (session.ts:139-176).
InputIsFifo ==
  \A q \in Queries : Pushed(channel[q]) = sent[q] /\ NobodyStarves(channel[q])

\* The close of an id whose caller has given up is still on its way.
CloseOvertaken(s) ==
  \E r \in abandoned : Method(r) = "session.close" /\ Id(r) = s

\* A query that was replaced by a resume has ended, and its pump closed the session.
ClosedByFormerQuery(e) ==
  \E q \in Queries : owner[q] = e /\ q # query[e] /\ pump[q] = "done"

\* A query that is pumped belongs to a session of the map, so that its notifications are
\* of a known id, session.close reaches it and the end of the process waits for it: closing,
\* resuming and creating the same id anew do not part them (index.ts:181-188).  There are
\* two exceptions.  After the caller of a session.close gave up, a second one answers without
\* waiting, and when the first goes on it removes whoever has the id by then.  And when
\* the former query of a resumed session closes it, session.close does not close the new one.
PumpIsKnown ==
  \A e \in Envs :
    query[e] # Nil /\ pump[query[e]] \in {"running", "breaking"} =>
      sessions[Id(e)] = e \/ CloseOvertaken(Id(e)) \/ ClosedByFormerQuery(e)

\* A session that accepts messages has a pump that will report its end, or has reported
\* it with session.error (session.ts:267-295); resuming does not leave it without one.
OpenIsPumped ==
  \A e \in Envs :
    query[e] # Nil /\ ~closed[e] => pump[query[e]] \in {"running", "breaking", "failed"}

\* session.close ends when the SDK ends the query it closes, also when the session was
\* resumed, closed again or created anew in the meantime.
CloseEnds ==
  \A r \in Requests : Method(r) = "session.close" => (Waiting(r) ~> ~Waiting(r))

=============================================================================
