----------------------------- MODULE MCSidecar -----------------------------
EXTENDS Sidecar, TLC

CONSTANTS s1, s2, create1, send1, control1, close1, hook1, nil

\* One session that is created, used and closed while the sidecar asks it something, beside
\* one that is registered and must not be given what belongs to the first.
MCSessions == {s1, s2}
MCAsks == {hook1}
MCImpatient == {close1}
MCMethods == create1 :> "create" @@ send1 :> "send" @@ control1 :> "control"
             @@ close1 :> "close"

\* All calls for the safety properties; without send/2, which blocks like control/3 but
\* briefly, for the liveness properties.
MCCalls == {create1, send1, control1, close1}
MCFewCalls == {create1, control1, close1}

MCMethod == [c \in Calls |-> MCMethods[c]]
MCTarget == [x \in Calls \cup Asks |-> s1]
============================================================================
