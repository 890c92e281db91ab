----------------------------- MODULE SidecarLoop -----------------------------
(***************************************************************************)
(* The Node process as a whole: the main loop of priv/ts_sidecar/src/      *)
(* index.ts over the frames that framing.ts reads from stdin, its end by   *)
(* shutdown or by the end of stdin, and the requests to Elixir of rpc.ts.  *)
(*                                                                         *)
(* stdin is a sequence of symbols, the text of a line (none if it is       *)
(* blank) and newlines, and arrives in chunks of any size.  A step is a    *)
(* run of the event loop to the next await; what a handler does after      *)
(* awaits that are settled already happens before the next frame is taken  *)
(* (its microtasks are due first), so that session.create and shutdown are *)
(* single steps.  A session is created once here: QuerySession has the     *)
(* handlers in full.                                                       *)
(***************************************************************************)
EXTENDS Naturals, Sequences, FiniteSets, SequencesExt, Protocol

CONSTANTS
  Lines,     \* the lines Elixir may write
  Kind,      \* of each: the method of a request, "answer", "notification", "blank" or "garbage"
  Sessions,
  Asks,      \* requests to Elixir: hook.fire, mcp.call, can_use_tool
  Target,    \* the session of a session method or of a request to Elixir, the Ask of an answer
  Follows,   \* bound: of a line, the one it is written after, or Nil
  PipeSize,  \* bound: symbols in the pipe
  Nil

ASSUME SidecarLoopAssumption ==
  /\ Kind \in [Lines -> ElixirMethods \cup {"unknown", "answer", "notification",
                                            "blank", "garbage"}]
  /\ \A l \in Lines : Kind[l] \notin {"session.send", "session.resume"}
  /\ \A l \in Lines : Kind[l] = "answer" => Target[l] \in Asks
  /\ \A l \in Lines : Kind[l] \in SessionMethods => Target[l] \in Sessions
  /\ \A l, m \in Lines :
       Kind[l] = "session.create" /\ Kind[m] = "session.create" /\ Target[l] = Target[m] => l = m
  /\ \A a \in Asks : Target[a] \in Sessions
  /\ Follows \in [Lines -> Lines \cup {Nil}]
  /\ PipeSize \in Nat
  /\ Nil \notin Lines \cup Sessions

RequestLines == {l \in Lines : Kind[l] \in ElixirMethods \cup {"unknown"}}

VARIABLES
  written,       \* the lines Elixir has written, in order
  stdin,         \* the symbols in the pipe
  eof,           \* Elixir has closed the pipe
  buffer,        \* of readFrames
  loop,          \* "starting", "reading", "closing" the sessions, "finished" without exiting,
                 \* "exited" by process.exit(0), or "crashed"
  shuttingDown,
  handled,       \* the frames the loop has been given, in order
  sessions,      \* the map
  closed,        \* of each session
  pump,          \* of each session: "none", "running" or "ended"
  visited,       \* sessions the closing loop has come to
  closing,       \* the one whose close() it awaits, or Nil
  told,          \* of each request: "unasked", "waiting", or its answer
  ask            \* of each request to Elixir: "unasked", "waiting", or its end

stdinVars   == <<written, stdin, eof>>
frameVars   == <<buffer, handled>>
sessionVars == <<sessions, closed, pump>>
endVars     == <<visited, closing>>
vars        == <<stdinVars, frameVars, loop, shuttingDown, sessionVars, endVars, told, ask>>

Up == loop \notin {"exited", "crashed"}

Told == {"result", "error", "lost"}
Ends == {"answered", "timeout", "drained", "lost"}

-----------------------------------------------------------------------------
(***************************************************************************)
(* Framing.                                                                *)
(***************************************************************************)

Newline == Nil
Text(l) == IF Kind[l] = "blank" THEN << >> ELSE <<l>>
Symbols == Lines \cup {Newline}

\* send() of the other peer: the text of the lines, each with its newline.
Encoded(lines) == FlattenSeq([i \in DOMAIN lines |-> Append(Text(lines[i]), Newline)])

\* JSON.parse of a line: the line it is the whole text of, or none.
Parsed(text) == {l \in Lines : Kind[l] \notin {"blank", "garbage"} /\ text = Text(l)}

HasLine == \E i \in DOMAIN buffer : buffer[i] = Newline

\* buffer.indexOf("\n")
LineEnd == CHOOSE i \in DOMAIN buffer :
             buffer[i] = Newline /\ \A j \in 1 .. i - 1 : buffer[j] # Newline

\* Mutant: a chunk replaces what was left of the one before.
ChunkOnly(chunk) == buffer' = chunk

\* buffer += chunk
AddChunk(chunk) == buffer' = buffer \o chunk

\* The next chunk, when the lines of the last one have been taken.
ReadChunk ==
  /\ loop = "reading"
  /\ ~HasLine
  /\ \E n \in 1 .. Len(stdin) :
        /\ AddChunk(SubSeq(stdin, 1, n))
        /\ stdin' = SubSeq(stdin, n + 1, Len(stdin))
  /\ UNCHANGED <<written, eof, handled, loop, shuttingDown, sessionVars, endVars, told, ask>>

\* The stream ends: what is left in the buffer is dropped.
EndOfStdin ==
  /\ loop = "reading"
  /\ ~HasLine
  /\ stdin = << >>
  /\ eof
  /\ loop' = "closing"
  /\ UNCHANGED <<stdinVars, frameVars, shuttingDown, sessionVars, endVars, told, ask>>

-----------------------------------------------------------------------------
(***************************************************************************)
(* The body of the loop, for the frame of a line.                          *)
(***************************************************************************)

Answered(l, answer) == told' = [told EXCEPT ![l] = answer]

\* OutboundRpc.feed: an answer to a request that is pending; any other is no request either.
Feed(l) ==
  /\ Kind[l] = "answer"
  /\ ask' = [ask EXCEPT ![Target[l]] = IF @ = "waiting" THEN "answered" ELSE @]
  /\ UNCHANGED <<shuttingDown, sessionVars, told>>

Ignore(l) ==
  /\ Kind[l] = "notification"
  /\ UNCHANGED <<shuttingDown, sessionVars, told, ask>>

DispatchCreate(l) ==
  LET s == Target[l]
  IN  /\ Kind[l] = "session.create"
      /\ \/ /\ s \notin sessions
            /\ sessions' = sessions \cup {s}
            /\ pump' = [pump EXCEPT ![s] = "running"]
            /\ Answered(l, "result")
            /\ UNCHANGED closed
         \/ Answered(l, "error") /\ UNCHANGED sessionVars
      /\ UNCHANGED <<shuttingDown, ask>>

DispatchClose(l) ==
  LET s == Target[l]
  IN  /\ Kind[l] = "session.close"
      /\ \/ s \notin sessions /\ Answered(l, "error") /\ UNCHANGED <<sessions, closed>>
         \/ /\ s \in sessions /\ closed[s]
            /\ sessions' = sessions \ {s}
            /\ Answered(l, "result")
            /\ UNCHANGED closed
         \/ /\ s \in sessions /\ ~closed[s]
            /\ closed' = [closed EXCEPT ![s] = TRUE]
            /\ Answered(l, "waiting")
            /\ UNCHANGED sessions
      /\ UNCHANGED <<pump, shuttingDown, ask>>

DispatchControl(l) ==
  /\ Kind[l] = "session.control"
  /\ \/ Answered(l, "error")
     \/ Target[l] \in sessions /\ ~closed[Target[l]] /\ Answered(l, "waiting")
  /\ UNCHANGED <<sessionVars, shuttingDown, ask>>

DispatchOther(l) ==
  /\ Kind[l] \in {"ping", "shutdown", "unknown"}
  /\ Answered(l, IF Kind[l] = "unknown" THEN "error" ELSE "result")
  /\ shuttingDown' = (shuttingDown \/ Kind[l] = "shutdown")
  /\ UNCHANGED <<sessionVars, ask>>

\* Mutant: the loop goes on after a shutdown.
NeverBreaks(l) == UNCHANGED loop

\* `if (shuttingDown) break', which only a request comes to, and before its own shutdown
\* is answered.
BreakAfter(l) == loop' = IF shuttingDown /\ l \in RequestLines THEN "closing" ELSE loop

Body(l) ==
  /\ handled' = Append(handled, l)
  /\ \/ Feed(l) \/ Ignore(l)
     \/ DispatchCreate(l) \/ DispatchClose(l) \/ DispatchControl(l) \/ DispatchOther(l)
  /\ BreakAfter(l)

\* One line of the buffer: its frame, or nothing when it is blank or does not parse.
NextLine ==
  /\ loop = "reading"
  /\ HasLine
  /\ buffer' = SubSeq(buffer, LineEnd + 1, Len(buffer))
  /\ LET frames == Parsed(SubSeq(buffer, 1, LineEnd - 1))
     IN  \/ \E l \in frames : Body(l)
         \/ frames = {} /\ UNCHANGED <<handled, loop, shuttingDown, sessionVars, told, ask>>
  /\ UNCHANGED <<stdinVars, endVars>>

-----------------------------------------------------------------------------
(***************************************************************************)
(* Handlers that go on, the SDK (external), and requests to Elixir.        *)
(***************************************************************************)

\* session.close after its await.
CloseGoesOn(l) ==
  /\ Up
  /\ Kind[l] = "session.close"
  /\ told[l] = "waiting"
  /\ pump[Target[l]] = "ended"
  /\ sessions' = sessions \ {Target[l]}
  /\ Answered(l, "result")
  /\ UNCHANGED <<stdinVars, frameVars, loop, shuttingDown, closed, pump, endVars, ask>>

ControlSettles(l) ==
  /\ Up
  /\ Kind[l] = "session.control"
  /\ told[l] = "waiting"
  /\ \E answer \in {"result", "error"} : Answered(l, answer)
  /\ UNCHANGED <<stdinVars, frameVars, loop, shuttingDown, sessionVars, endVars, ask>>

\* A query ends: by itself, which closes the session or, if it throws, does not, or because
\* the session was closed.
PumpEnds(s) ==
  /\ Up
  /\ pump[s] = "running"
  /\ pump' = [pump EXCEPT ![s] = "ended"]
  /\ closed' \in {closed, [closed EXCEPT ![s] = TRUE]}
  /\ UNCHANGED <<stdinVars, frameVars, loop, shuttingDown, sessions, endVars, told, ask>>

\* OutboundRpc.call, by a query that runs, also while it is being closed.
CallElixir(a) ==
  /\ Up
  /\ ask[a] = "unasked"
  /\ pump[Target[a]] = "running"
  /\ ask' = [ask EXCEPT ![a] = "waiting"]
  /\ UNCHANGED <<stdinVars, frameVars, loop, shuttingDown, sessionVars, endVars, told>>

\* Mutant: no request has a timer.
NoTimer(a) == FALSE

\* The timer of the request.
CallTimeout(a) ==
  /\ Up
  /\ ask[a] = "waiting"
  /\ ask' = [ask EXCEPT ![a] = "timeout"]
  /\ UNCHANGED <<stdinVars, frameVars, loop, shuttingDown, sessionVars, endVars, told>>

-----------------------------------------------------------------------------
(***************************************************************************)
(* The beginning and the end of the process.                               *)
(***************************************************************************)

\* buildSession has loaded the SDK, and sidecar.ready is sent.
Ready ==
  /\ loop = "starting"
  /\ loop' = "reading"
  /\ UNCHANGED <<stdinVars, frameVars, shuttingDown, sessionVars, endVars, told, ask>>

\* Nothing that waits survives the process.
Lost(f) == [x \in DOMAIN f |-> IF f[x] = "waiting" THEN "lost" ELSE f[x]]

\* main rejects (the SDK is missing), or a write to a pipe that Elixir has closed fails.
Crash ==
  /\ loop = "starting" \/ (eof /\ Up)
  /\ loop' = "crashed"
  /\ told' = Lost(told)
  /\ ask' = Lost(ask)
  /\ UNCHANGED <<stdinVars, frameVars, shuttingDown, sessionVars, endVars>>

\* Mutant: the sessions are told to close, and nobody waits for them.
CloseWithoutAwait(s) ==
  /\ closed' = [closed EXCEPT ![s] = TRUE]
  /\ UNCHANGED closing

\* Mutant: waits for the query and does not close it.
AwaitOnly(s) ==
  /\ closing' = IF closed[s] THEN Nil ELSE s
  /\ UNCHANGED closed

\* await env.close(): of a session that is closed already, also by a session.close that
\* still waits, it returns at once.
AwaitClose(s) ==
  /\ closed' = [closed EXCEPT ![s] = TRUE]
  /\ closing' = IF closed[s] THEN Nil ELSE s

\* for (const [, env] of sessions)
CloseNext(s) ==
  /\ loop = "closing"
  /\ closing = Nil
  /\ s \in sessions \ visited
  /\ visited' = visited \cup {s}
  /\ AwaitClose(s)
  /\ UNCHANGED <<stdinVars, frameVars, loop, shuttingDown, sessions, pump, told, ask>>

CloseReturns ==
  /\ closing # Nil
  /\ pump[closing] = "ended"
  /\ Up
  /\ closing' = Nil
  /\ UNCHANGED <<stdinVars, frameVars, loop, shuttingDown, sessionVars, visited, told, ask>>

\* rpc.drain, and after a shutdown process.exit(0): a handler at an await is not waited for.
Drain ==
  /\ loop = "closing"
  /\ closing = Nil
  /\ sessions \subseteq visited
  /\ ask' = [a \in Asks |-> IF ask[a] = "waiting" THEN "drained" ELSE ask[a]]
  /\ IF shuttingDown
     THEN loop' = "exited" /\ told' = Lost(told)
     ELSE loop' = "finished" /\ UNCHANGED told
  /\ UNCHANGED <<stdinVars, frameVars, shuttingDown, sessionVars, endVars>>

-----------------------------------------------------------------------------
(***************************************************************************)
(* Elixir.                                                                 *)
(***************************************************************************)

\* A line is written whole; an answer only to what was asked.
Write(l) ==
  /\ Up
  /\ ~eof
  /\ l \notin ToSet(written)
  /\ Follows[l] # Nil => Follows[l] \in ToSet(written)
  /\ Kind[l] = "answer" => ask[Target[l]] # "unasked"
  /\ Len(stdin) + Len(Encoded(<<l>>)) <= PipeSize
  /\ written' = Append(written, l)
  /\ stdin' = stdin \o Encoded(<<l>>)
  /\ UNCHANGED <<eof, frameVars, loop, shuttingDown, sessionVars, endVars, told, ask>>

\* The port closes: what it had not yet passed on is lost, also in the middle of a line.
CloseStdin ==
  /\ Up
  /\ ~eof
  /\ eof' = TRUE
  /\ \E n \in 0 .. Len(stdin) : stdin' = SubSeq(stdin, 1, n)
  /\ UNCHANGED <<written, frameVars, loop, shuttingDown, sessionVars, endVars, told, ask>>

-----------------------------------------------------------------------------
Init ==
  /\ written = << >>
  /\ stdin = << >>
  /\ eof = FALSE
  /\ buffer = << >>
  /\ loop = "starting"
  /\ shuttingDown = FALSE
  /\ handled = << >>
  /\ sessions = {}
  /\ closed = [s \in Sessions |-> FALSE]
  /\ pump = [s \in Sessions |-> "none"]
  /\ visited = {}
  /\ closing = Nil
  /\ told = [l \in RequestLines |-> "unasked"]
  /\ ask = [a \in Asks |-> "unasked"]

LoopStep == ReadChunk \/ NextLine \/ EndOfStdin \/ CloseReturns \/ Drain
              \/ \E s \in Sessions : CloseNext(s)

Next ==
  \/ Ready \/ Crash \/ LoopStep
  \/ \E l \in RequestLines : CloseGoesOn(l) \/ ControlSettles(l)
  \/ \E s \in Sessions : PumpEnds(s)
  \/ \E a \in Asks : CallElixir(a) \/ CallTimeout(a)
  \/ \E l \in Lines : Write(l)
  \/ CloseStdin

Spec == Init /\ [][Next]_vars

\* The event loop goes on, timers fire, and a query that was closed ends.  Nothing is
\* assumed of Elixir, nor of a query that was not closed.
Fairness ==
  /\ WF_vars(Ready)
  /\ WF_vars(LoopStep)
  /\ \A l \in RequestLines : WF_vars(CloseGoesOn(l))
  /\ \A s \in Sessions : WF_vars(closed[s] /\ PumpEnds(s))
  /\ \A a \in Asks : WF_vars(CallTimeout(a))

FairSpec == Spec /\ Fairness

-----------------------------------------------------------------------------
(***************************************************************************)
(* Properties.                                                             *)
(***************************************************************************)

\* The state is of the shape of the locals of main and readFrames (index.ts:46-99,
\* framing.ts:24-48) and of OutboundRpc.pending.
TypeOK ==
  /\ written \in Seq(Lines)
  /\ stdin \in Seq(Symbols)
  /\ eof \in BOOLEAN
  /\ buffer \in Seq(Symbols)
  /\ loop \in {"starting", "reading", "closing", "finished", "exited", "crashed"}
  /\ shuttingDown \in BOOLEAN
  /\ handled \in Seq(Lines)
  /\ sessions \subseteq Sessions
  /\ closed \in [Sessions -> BOOLEAN]
  /\ pump \in [Sessions -> {"none", "running", "ended"}]
  /\ visited \subseteq Sessions
  /\ closing \in Sessions \cup {Nil}
  /\ told \in [RequestLines -> {"unasked", "waiting"} \cup Told]
  /\ ask \in [Asks -> {"unasked", "waiting"} \cup Ends]

IsFrame(l) == Kind[l] \notin {"blank", "garbage"}

\* However stdin is cut into chunks, the loop is given the frames that were written, each
\* once and in order; only blank and malformed lines and an incomplete last one are dropped,
\* and a malformed line costs none of its neighbours (framing.ts:24-48).
FramesAreWhole ==
  \E k \in 0 .. Len(written) :
    LET rest == Encoded(SubSeq(written, k + 1, Len(written)))
    IN  /\ IsPrefix(buffer \o stdin, rest)
        /\ ~eof => buffer \o stdin = rest
        /\ ToSet(handled) = {written[p] : p \in {q \in 1 .. k : IsFrame(written[q])}}
        /\ \A i, j \in DOMAIN handled : i < j =>
             \A p \in 1 .. k : handled[i] = written[p] =>
               \A q \in 1 .. k : handled[j] = written[q] => p < q

\* After a shutdown has been answered the loop still waits for a frame, and dispatches it
\* if it is a request, but no second one (index.ts:80-84); answers to its own requests
\* are taken all the while.
OneRequestAfterShutdown ==
  \A i, j \in DOMAIN handled :
    Kind[handled[i]] = "shutdown" /\ i < j /\ handled[j] \in RequestLines =>
      \A k \in j + 1 .. Len(handled) : handled[k] \notin RequestLines

\* A session.close of s was at its await when the process exited.
CloseOvertaken(s) ==
  \E l \in RequestLines : Kind[l] = "session.close" /\ Target[l] = s /\ told[l] = "lost"

\* When the process exits by itself, no query runs and nobody waits for Elixir, also for a
\* session that was created after the shutdown (index.ts:87-98).  The exception is a
\* session that a session.close is closing at that moment: main does not wait for it, and
\* its answer is lost.
ExitIsClean ==
  loop = "exited" =>
    /\ \A s \in Sessions : pump[s] = "running" => CloseOvertaken(s)
    /\ \A a \in Asks : ask[a] # "waiting"

\* When Elixir closes the pipe, the process closes every session and drains its requests, even
\* if hooks that wait for Elixir's answers hold the queries.
StdinEnds == eof ~> loop \in {"finished", "exited", "crashed"}

\* rpc.ts:9: "timeout + abort so a dead Elixir doesn't leak promises": every request to
\* Elixir settles, in every phase of the process, also after stdin is no longer read.
NoLeakedPromise == \A a \in Asks : ask[a] = "waiting" ~> ask[a] # "waiting"
=============================================================================
