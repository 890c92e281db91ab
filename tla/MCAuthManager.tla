---------------------------- MODULE MCAuthManager ----------------------------
EXTENDS AuthManager

CONSTANTS c1, e1, nil

\* An explicit and an implicit setup that may join or follow one another, and a third task
\* for an automatic refresh.
MCSetups == {c1}
MCEnsures == {e1}
==============================================================================
