---------------------------- MODULE InputChannel ----------------------------
(***************************************************************************)
(* makeInputChannel (priv/ts_sidecar/src/session.ts): the pushable async   *)
(* iterable through which a session feeds user messages to its query.  A   *)
(* channel is a value: its queue, how many next() calls wait for a         *)
(* resolver, whether it is closed, and, for the properties, the messages   *)
(* that next() has resolved with so far.                                   *)
(***************************************************************************)
EXTENDS Naturals, Sequences

NewChannel == [queue |-> << >>, resolvers |-> 0, closed |-> FALSE, taken |-> << >>]

Channels(Messages) ==
  [queue : Seq(Messages), resolvers : Nat, closed : BOOLEAN, taken : Seq(Messages)]

\* next(): a queued message at once, {done: true} at once, or a promise.
NextOf(ch) ==
  IF ch.queue # << >>
  THEN [ch EXCEPT !.queue = Tail(@), !.taken = Append(@, Head(ch.queue))]
  ELSE IF ch.closed THEN ch ELSE [ch EXCEPT !.resolvers = @ + 1]

\* Mutant: push queues the message although somebody waits for it.
PushBehind(ch, m) == [ch EXCEPT !.queue = Append(@, m)]

\* push(), of a channel that is not closed: to the first resolver, or to the queue.
Push(ch, m) ==
  IF ch.resolvers > 0
  THEN [ch EXCEPT !.resolvers = @ - 1, !.taken = Append(@, m)]
  ELSE [ch EXCEPT !.queue = Append(@, m)]

\* close() and the iterator's return(): every resolver is told {done: true}; what is
\* queued can still be taken.
Close(ch) == [ch EXCEPT !.closed = TRUE, !.resolvers = 0]

(***************************************************************************)
(* What a channel promises: nobody waits for a message that is there, and  *)
(* nobody waits for ever once it is closed.                                *)
(***************************************************************************)
NobodyStarves(ch) ==
  /\ ch.resolvers > 0 => ch.queue = << >>
  /\ ch.closed => ch.resolvers = 0

\* The messages that were pushed, in order: those taken, then those that are queued.
Pushed(ch) == ch.taken \o ch.queue
=============================================================================
