--------------------------- MODULE MCRuntimeGuard ---------------------------
(***************************************************************************)
(* One strategy cycle job against the token, poll, cancel and health jobs. *)
(***************************************************************************)
EXTENDS RuntimeGuard

OneCycle == {"cycle"}
NoCycle == {}
TokenAndPoll == {"token", "poll"}
PollHealthCancel == {"poll", "health", "cancel"}
=============================================================================
