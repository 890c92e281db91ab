---------------------------- MODULE MCQuerySession ----------------------------
EXTENDS QuerySession, TLC

CONSTANTS id1, create1, create2, send1, send2, control1, resume1, close1, close2, nil

\* One id that is created, used, resumed, closed twice and created again, in any order that
\* its clients can produce; the caller of the first close may give up.  To bound the
\* orders, the resume comes between the two messages, and the control request after them.
MCSessionIds == {id1}
MCImpatient == {close1}

Frame(method) == [method |-> method, sessionId |-> id1]

MCFrames ==
  create1 :> Frame("session.create") @@ create2 :> Frame("session.create")
    @@ send1 :> Frame("session.send") @@ send2 :> Frame("session.send")
    @@ control1 :> Frame("session.control") @@ resume1 :> Frame("session.resume")
    @@ close1 :> Frame("session.close") @@ close2 :> Frame("session.close")

MCFollows ==
  create1 :> nil @@ create2 :> close1 @@ send1 :> create1 @@ send2 :> resume1
    @@ control1 :> send2 @@ resume1 :> send1 @@ close1 :> create1 @@ close2 :> close1

MCRequests == DOMAIN MCFrames
MCRequest == MCFrames
===============================================================================
