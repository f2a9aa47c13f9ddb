----------------------------- MODULE MCEventFeed -----------------------------
(* An instance of EventFeed for TLC. *)
EXTENDS EventFeed
==============================================================================
