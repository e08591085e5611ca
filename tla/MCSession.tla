------------------------------- MODULE MCSession -------------------------------
(* Session with a poll and the logout. *)
EXTENDS Session

CONSTANTS poll, logout

==============================================================================
