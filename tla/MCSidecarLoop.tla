---------------------------- MODULE MCSidecarLoop ----------------------------
EXTENDS SidecarLoop, TLC

CONSTANTS s1, create1, close1, control1, shutdown1, ping1, answer1, note1, blank1,
          garbage1, hook1, nil

MCKinds ==
  create1 :> "session.create" @@ close1 :> "session.close" @@ control1 :> "session.control"
    @@ shutdown1 :> "shutdown" @@ ping1 :> "ping"
    @@ answer1 :> "answer" @@ note1 :> "notification" @@ blank1 :> "blank"
    @@ garbage1 :> "garbage"

MCLines == DOMAIN MCKinds
MCSessions == {s1}
MCAsks == {hook1}

MCTarget ==
  create1 :> s1 @@ close1 :> s1 @@ control1 :> s1 @@ hook1 :> s1 @@ answer1 :> hook1

\* The lines that are no frames come first, so that their neighbours are frames; requests of
\* one session in their order.  shutdown and the hook's answer come anywhere.
MCFollows ==
  garbage1 :> nil @@ create1 :> garbage1 @@ blank1 :> create1 @@ control1 :> blank1
    @@ close1 :> control1 @@ answer1 :> create1
    @@ shutdown1 :> nil @@ note1 :> shutdown1 @@ ping1 :> note1
==============================================================================
