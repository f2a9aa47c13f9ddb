---------------------------- MODULE MCHookRebuild ----------------------------
(* The instance of HookRebuild for TLC: three git events.  A builder, an event *)
(* that finds the lock taken and one that comes while it is released are       *)
(* three; so are a build that lost its subshell, the hook that clears its lock *)
(* and the hook that comes between.                                            *)
EXTENDS HookRebuild
==============================================================================
