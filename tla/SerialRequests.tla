--------------------------- MODULE SerialRequests ---------------------------
(***************************************************************************)
(* What the command queue promises to the clients of the ladish daemon,    *)
(* without saying how a request is split into commands: the accepted       *)
(* requests are served one at a time in the order they were accepted, and  *)
(* a request that fails takes everything accepted after it with it.        *)
(***************************************************************************)
CONSTANT Requests

VARIABLES
  phase,   \* what became of each request
  ahead    \* <<r, s>>: both did not end yet, and r was accepted before s

vars == <<phase, ahead>>

Phase == {"idle", "refused", "queued", "active", "completed", "aborted"}

Pending == { r \in Requests : phase[r] \in {"queued", "active"} }

First(r) == r \in Pending /\ \A s \in Requests : <<s, r>> \notin ahead

Without(S) == { p \in ahead : p[1] \notin S /\ p[2] \notin S }

Init ==
  /\ phase = [r \in Requests |-> "idle"]
  /\ ahead = {}

Accept(r) ==
  /\ phase[r] = "idle"
  /\ phase' = [phase EXCEPT ![r] = "queued"]
  /\ ahead' = ahead \cup Pending \X {r}

Refuse(r) ==
  /\ phase[r] = "idle"
  /\ phase' = [phase EXCEPT ![r] = "refused"]
  /\ UNCHANGED ahead

Begin(r) ==
  /\ First(r) /\ phase[r] = "queued"
  /\ phase' = [phase EXCEPT ![r] = "active"]
  /\ UNCHANGED ahead

Complete(r) ==
  /\ First(r)
  /\ phase' = [phase EXCEPT ![r] = "completed"]
  /\ ahead' = Without({r})

Abort ==
  /\ phase' = [r \in Requests |-> IF r \in Pending THEN "aborted" ELSE phase[r]]
  /\ ahead' = Without(Pending)

Next ==
  \/ \E r \in Requests : Accept(r) \/ Refuse(r) \/ Begin(r) \/ Complete(r)
  \/ Abort

Spec == Init /\ [][Next]_vars
=============================================================================
