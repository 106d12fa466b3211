------------------------- MODULE CommandQueueSerial -------------------------
(***************************************************************************)
(* How the command queue implements SerialRequests.  A request has ended   *)
(* when its last command has left the queue, and is being served when its  *)
(* first command was run.                                                  *)
(***************************************************************************)
EXTENDS CommandQueue

LastPart(r) == <<r, Parts[r]>>

\* r and s wait, and the last command of r stands in front of that of s.
InFront(r, s) ==
  \E i, j \in 1..Len(queue) : i < j /\ queue[i] = LastPart(r) /\ queue[j] = LastPart(s)

AbstractAhead == { p \in Requests \X Requests : InFront(p[1], p[2]) }

AbstractPhase ==
  [r \in Requests |->
     CASE Untouched(r) -> "idle"
       [] state[LastPart(r)] = "REFUSED" -> "refused"
       [] state[LastPart(r)] = "DONE" -> "completed"
       [] state[LastPart(r)] \in {"FAILED", "DISCARDED"} -> "aborted"
       [] OTHER -> IF Ran(<<r, 1>>) THEN "active" ELSE "queued"]

Abstract == INSTANCE SerialRequests WITH phase <- AbstractPhase,
                                         ahead <- AbstractAhead

\* The command queue implements SerialRequests: whatever fails or is cleared,
\* requests are served one at a time and in order, and nothing
\* accepted behind a failure is ever served.
ImplementsSerialRequests == Abstract!Spec
=============================================================================
