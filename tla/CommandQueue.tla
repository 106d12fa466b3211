---------------------------- MODULE CommandQueue ----------------------------
(***************************************************************************)
(* The command queue of the ladish daemon, src/daemon/cqueue.c.            *)
(*                                                                         *)
(* A D-Bus request is turned into a sequence of commands: "unload studio"  *)
(* queues "stop" and "unload", "load studio" with autostart queues "stop", *)
(* "unload", "load" and "start".  The main loop runs the queue after every *)
(* dispatch: the head command runs until it is done; a command that has to *)
(* wait for the world is run again in the next iteration of the main loop; *)
(* a command that fails throws away everything queued behind it.           *)
(*                                                                         *)
(* A command is <<r, k>>, the k-th command of request r.  What its run     *)
(* callback answers is chosen nondeterministically from the answers that   *)
(* ladish_cqueue_run distinguishes.  Nothing calls ladish_cqueue_cancel,   *)
(* so that the flags named cancel are never set and are left out.          *)
(***************************************************************************)
EXTENDS Naturals, Sequences

CONSTANTS
  Requests,   \* the requests clients may make, each at most once
  Parts       \* how many commands a request consists of

ASSUME PartsAssumption == Parts \in [Requests -> Nat \ {0}]

VARIABLES
  queue,      \* ladish_cqueue.queue
  state,      \* ladish_command.state; FAILED, DISCARDED and REFUSED are ghosts
              \* that remember what became of a command whose memory is freed
  running,    \* the main loop is inside ladish_cqueue_run
  aborted     \* an assertion, or the allocator, has ended the daemon

vars == <<queue, state, running, aborted>>

Command == UNION {{r} \X (1..Parts[r]) : r \in Requests}

Queued == {"PENDING", "WAITING"}

CommandState == {"PREPARE", "DONE", "FAILED", "DISCARDED", "REFUSED"} \cup Queued

\* a command whose run callback has been called at least once
Ran(c) == state[c] \in {"WAITING", "DONE", "FAILED"}

InQueue == {queue[i] : i \in 1..Len(queue)}

Init ==
  /\ queue = <<>>
  /\ state = [c \in Command |-> "PREPARE"]
  /\ running = FALSE
  /\ aborted = FALSE

(***************************************************************************)
(* Requests.  The handler allocates and adds the commands one after the    *)
(* other, between two runs of the queue.                                   *)
(***************************************************************************)
Untouched(r) == \A k \in 1..Parts[r] : state[<<r, k>>] = "PREPARE"

Dispatching == ~running /\ ~aborted

\* the queue after the first n commands of r were added to it
Added(r, n) == queue \o [k \in 1..n |-> <<r, k>>]

\* state of the commands once the handler of r left q queued
Answer(r, q) ==
  [c \in Command |->
     IF \E i \in 1..Len(q) : q[i] = c
     THEN IF c[1] = r THEN "PENDING" ELSE state[c]
     ELSE IF c[1] = r \/ c \in InQueue THEN "REFUSED" ELSE state[c]]

\* slip: the commands are put at the front, list_add for list_add_tail
SubmitInFront(r) ==
  /\ Dispatching
  /\ Untouched(r)
  /\ queue' = [k \in 1..Parts[r] |-> <<r, k>>] \o queue
  /\ state' = Answer(r, queue')
  /\ UNCHANGED <<running, aborted>>

Submit(r) ==
  /\ Dispatching
  /\ Untouched(r)
  /\ queue' = Added(r, Parts[r])
  /\ state' = Answer(r, queue')
  /\ UNCHANGED <<running, aborted>>

\* slip: the error path of a command that was not added drops a command
UnwindsOneMore(k) == IF k <= 2 THEN 1 ELSE k - 2

(***************************************************************************)
(* The allocation of command k fails.  ladish_command_unload_studio drops  *)
(* the "stop" it added when "unload" cannot be added; its callers drop the *)
(* commands they know of with ladish_cqueue_drop_command, "load" and       *)
(* "unload", never the "stop" in front of them.  When "start" cannot be    *)
(* added "load" is freed by the drop and once more behind it               *)
(* (cmd_load_studio.c:1094), which the allocator may or may not notice.    *)
(***************************************************************************)
Unwinds(k) == IF k = 1 THEN 0 ELSE IF k = 2 THEN 1 ELSE k - 2

SubmitFails(r, k) ==
  /\ Dispatching
  /\ Untouched(r)
  /\ queue' = SubSeq(Added(r, k - 1), 1, Len(Added(r, k - 1)) - Unwinds(k))
  /\ state' = Answer(r, queue')
  /\ aborted' \in IF k >= 4 THEN BOOLEAN ELSE {FALSE}
  /\ UNCHANGED running

(***************************************************************************)
(* ladish_cqueue_run: one action per iteration of its loop.                *)
(***************************************************************************)
BeginRun ==
  /\ Dispatching
  /\ queue # <<>>
  /\ running' = TRUE
  /\ UNCHANGED <<queue, state, aborted>>

HeadRuns == running /\ ~aborted /\ queue # <<>>

\* run() returned true and left the command DONE; the loop goes on
HeadDone ==
  /\ HeadRuns
  /\ queue' = Tail(queue)
  /\ state' = [state EXCEPT ![Head(queue)] = "DONE"]
  /\ running' = (Tail(queue) # <<>>)
  /\ UNCHANGED aborted

\* run() returned true and left the command WAITING
HeadWaits ==
  /\ HeadRuns
  /\ state' = [state EXCEPT ![Head(queue)] = "WAITING"]
  /\ running' = FALSE
  /\ UNCHANGED <<queue, aborted>>

\* run() returned true and left the command PENDING, as that of
\* cmd_change_app_state.c may: ASSERT_NO_PASS comes before the clearing
HeadStrays ==
  /\ HeadRuns
  /\ state[Head(queue)] = "PENDING"
  /\ aborted' = TRUE
  /\ UNCHANGED <<queue, state, running>>

\* slip: only the head is freed
DiscardHeadOnly(fate) == [state EXCEPT ![Head(queue)] = fate]

\* ladish_cqueue_clear; fate is what becomes of the head
Discard(fate) ==
  [c \in Command |->
     IF c \notin InQueue THEN state[c]
     ELSE IF c = Head(queue) THEN fate ELSE "DISCARDED"]

\* slip: only the failed command is dropped
HeadFailsAlone ==
  /\ HeadRuns
  /\ queue' = Tail(queue)
  /\ state' = [state EXCEPT ![Head(queue)] = "FAILED"]
  /\ running' = FALSE
  /\ UNCHANGED aborted

\* run() returned false: the queue is cleared and ControlQueueExecutionHalted
\* is emitted
HeadFails ==
  /\ HeadRuns
  /\ queue' = <<>>
  /\ state' = Discard("FAILED")
  /\ running' = FALSE
  /\ UNCHANGED aborted

(***************************************************************************)
(* ladish_cqueue_clear called by ladish_studio_run when JACK appeared or   *)
(* vanished behind its back.                                               *)
(***************************************************************************)
Clear ==
  /\ Dispatching
  /\ queue # <<>>
  /\ queue' = <<>>
  /\ state' = Discard(IF Ran(Head(queue)) THEN "FAILED" ELSE "DISCARDED")
  /\ UNCHANGED <<running, aborted>>

Next ==
  \/ \E r \in Requests : Submit(r)
  \/ \E r \in Requests : \E k \in 1..Parts[r] : SubmitFails(r, k)
  \/ BeginRun \/ HeadDone \/ HeadWaits \/ HeadStrays \/ HeadFails
  \/ Clear

Spec == Init /\ [][Next]_vars

-----------------------------------------------------------------------------
(***************************************************************************)
(* Properties.                                                             *)
(***************************************************************************)

\* The variables have the types of the C declarations.
TypeOK ==
  /\ queue \in Seq(Command)
  /\ state \in [Command -> CommandState]
  /\ running \in BOOLEAN
  /\ aborted \in BOOLEAN

\* A command is linked into the queue exactly while it is PENDING or WAITING,
\* once, and only the head of the queue can be WAITING: the assertion at the
\* top of the loop of ladish_cqueue_run and the one in
\* ladish_cqueue_drop_command never fire.
QueueConsistent ==
  /\ InQueue = {c \in Command : state[c] \in Queued}
  /\ \A i, j \in 1..Len(queue) : queue[i] = queue[j] => i = j
  /\ \A i \in 1..Len(queue) : state[queue[i]] = "WAITING" => i = 1

\* A command of a request is run only when everything the request queued in
\* front of it is done: "unload" never runs when its "stop" failed, "load"
\* never runs on a studio that was not unloaded.  The run callbacks of
\* cmd_new_studio.c and cmd_load_studio.c rely on it.
PartsInSequence ==
  \A r \in Requests : \A k \in 2..Parts[r] :
     Ran(<<r, k>>) => state[<<r, k - 1>>] = "DONE"

\* A request that could not be queued whole leaves at most its first command
\* behind, the "stop" that the callers of ladish_command_unload_studio do not
\* drop, and nobody else's commands are dropped for it: what was accepted
\* leaves the queue by being run, or by a failure or a clearing.
RefusedAlone ==
  \A r \in Requests : \A j, k \in 2..Parts[r] :
     state[<<r, j>>] = "REFUSED" => state[<<r, k>>] = "REFUSED"
=============================================================================
