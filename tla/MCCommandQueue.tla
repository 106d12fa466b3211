--------------------------- MODULE MCCommandQueue ---------------------------
(***************************************************************************)
(* Model checking of CommandQueue: a request of one command, one of two    *)
(* ("load project") and two of three and four ("new studio", "load studio" *)
(* with autostart), and the refinement of SerialRequests.                  *)
(***************************************************************************)
EXTENDS CommandQueueSerial, TLC

CONSTANTS start, load, renew, reload

MCRequests == {start, load, renew, reload}
MCParts == start :> 1 @@ load :> 2 @@ renew :> 3 @@ reload :> 4
=============================================================================
