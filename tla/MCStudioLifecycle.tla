-------------------------- MODULE MCStudioLifecycle --------------------------
(***************************************************************************)
(* Model checking of StudioLifecycle: one room, one child process, and few *)
(* enough requests and events of jackdbus to see them all interleave.      *)
(***************************************************************************)
EXTENDS StudioLifecycle

CONSTANT room
=============================================================================
