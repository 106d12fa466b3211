--------------------------- MODULE MCAppSupervisor ---------------------------
(***************************************************************************)
(* Model checking of AppSupervisor: few apps, processes and requests, and  *)
(* enough events of JACK for it to stop and come back.                     *)
(***************************************************************************)
EXTENDS AppSupervisor
=============================================================================
