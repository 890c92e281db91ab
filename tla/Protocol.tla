------------------------------ MODULE Protocol ------------------------------
(***************************************************************************)
(* The wire protocol of the sidecar, priv/ts_sidecar/src/protocol.ts: the  *)
(* methods that Elixir may call, the error codes by name, and the frames   *)
(* of session methods as records.  Of the parameters a frame keeps what    *)
(* the Node side decides by, the session id.                               *)
(***************************************************************************)

SessionMethods == {"session.create", "session.send", "session.control",
                   "session.resume", "session.close"}

ElixirMethods == SessionMethods \cup {"ping", "shutdown"}

ErrorCodes == {"METHOD_NOT_FOUND", "INVALID_PARAMS", "INTERNAL", "SESSION_UNKNOWN",
               "CONTROL_FAILED"}

\* What a request can be told: a result, or an error with one of the codes.
Outcomes == {"result"} \cup ErrorCodes

Frames(Ids) == [method : SessionMethods, sessionId : Ids]
=============================================================================
