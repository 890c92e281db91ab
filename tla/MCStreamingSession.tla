------------------------- MODULE MCStreamingSession -------------------------
EXTENDS StreamingSession

CONSTANTS a, b, c, nil

\* Three overlapping messages: one active, one queued, and one that finds the queue.
MCCalls == {a, b, c}
=============================================================================
