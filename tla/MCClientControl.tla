--------------------------- MODULE MCClientControl ---------------------------
EXTENDS ClientControl, TLC

CONSTANTS m1, m2, p1, p2, o1, u1, u2, w1, s1, init, nil

\* Two changes of each kind, which must not overlap (the run of the settings), or one
\* request of no setting beside the messages and the waiters (the run of the handshake).
MCModelRequests == {m1, m2}
MCModeRequests == {p1, p2}
MCOtherRequests == {o1}
MCPayloads == {u1, u2}
MCInitWaiters == {w1}
MCSentWaiters == {s1}

\* Two requests of a kind are interchangeable; only the run of the settings, which checks
\* no liveness, uses it.
MCSymmetry == Permutations(MCModelRequests) \cup Permutations(MCModeRequests)
==============================================================================
