------------------------- MODULE MCClientCallbacks -------------------------
EXTENDS ClientCallbacks

CONSTANTS r1, r2, r3

\* Two requests that run a callback and one that is answered at once.
MCRequests == {r1, r2, r3}
MCRegistered == {r1, r2}
=============================================================================
