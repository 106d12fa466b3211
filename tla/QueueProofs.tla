----------------------------- MODULE QueueProofs -----------------------------
(***************************************************************************)
(* Proofs about the two queues that put things in order: the daemon's      *)
(* queue of commands (CommandQueue) and gladish's queue of signals, with   *)
(* what gladish shows and listens to (FrontEnd).  The two share no state,  *)
(* and each theorem speaks of the specification of one of them.            *)
(*                                                                         *)
(* CommandQueue, for any set of requests of any lengths.  The invariants   *)
(* of the specification are not inductive by themselves: that a command    *)
(* runs after its predecessor is done follows from where the two stand in  *)
(* the queue, next to each other, until the predecessor leaves it          *)
(* (Neighbours).                                                           *)
(*                                                                         *)
(* FrontEnd, for any rooms and names and any bound on what is done.  Which *)
(* hooks there are says nothing of the next step without what is still on  *)
(* its way: the invariant (GuiInv) follows rooms and the life of the       *)
(* daemon through the signals that wait, and hooks and views through the   *)
(* steps gladish has yet to take.                                          *)
(***************************************************************************)
EXTENDS CommandQueueSerial, FrontEnd, FiniteSetTheorems, SequenceTheorems, TLAPS

(***************************************************************************)
(* The queue of commands.                                                  *)
(***************************************************************************)
Neighbours ==
  \A i \in 1..Len(queue) :
     queue[i][2] > 1 =>
       LET pred == <<queue[i][1], queue[i][2] - 1>>
       IN  IF i = 1 THEN state[pred] = "DONE" ELSE queue[i - 1] = pred

IInv ==
  /\ TypeOK
  /\ QueueConsistent
  /\ Neighbours
  /\ PartsInSequence
  /\ RefusedAlone
  /\ running => queue # <<>>

-----------------------------------------------------------------------------
\* Commands are the pairs of a request and the position of a part of it.
LEMMA CommandForm ==
  /\ \A r \in Requests : \A k \in 1..Parts[r] : <<r, k>> \in Command
  /\ \A c \in Command : /\ c[1] \in Requests
                        /\ c[2] \in 1..Parts[c[1]]
                        /\ c = <<c[1], c[2]>>
BY DEF Command

\* Every request has at least one command.
LEMMA PartsNat == \A r \in Requests : Parts[r] \in Nat \ {0}
BY PartsAssumption

\* What the elements of a queue look like, position by position.
LEMMA QueueElements ==
  ASSUME TypeOK
  PROVE  /\ Len(queue) \in Nat
         /\ \A i \in 1..Len(queue) : queue[i] \in Command
BY DEF TypeOK

\* The inductive invariant holds when ladish_cqueue_init has run.
LEMMA InitIInv == Init => IInv
<1> SUFFICES ASSUME Init PROVE IInv
  OBVIOUS
<1>1. TypeOK
  <2>1. queue \in Seq(Command)
    BY DEF Init
  <2>2. state \in [Command -> CommandState]
    BY DEF Init, CommandState
  <2> QED
    BY <2>1, <2>2 DEF Init, TypeOK
<1>2. QueueConsistent /\ Neighbours
  BY DEF Init, QueueConsistent, Neighbours, InQueue, Queued
<1>3. PartsInSequence
  BY CommandForm DEF Init, PartsInSequence, Ran
<1>4. RefusedAlone
  BY PartsNat, CommandForm DEF Init, RefusedAlone
<1> QED
  BY <1>1, <1>2, <1>3, <1>4 DEF Init, IInv

-----------------------------------------------------------------------------
(***************************************************************************)
(* The requests.                                                           *)
(***************************************************************************)

\* The commands of an untouched request of which the first n get into the queue.
\* Both ways of submitting are of this form: all of them, none, or the "stop".
AddFirst(r, n) ==
  /\ n \in {0, 1, Parts[r]}
  /\ Untouched(r)
  /\ queue' = Added(r, n)
  /\ state' = Answer(r, queue')
  /\ aborted' \in BOOLEAN
  /\ UNCHANGED running

\* What the queue looks like behind its old tail when commands were added.
LEMMA AddedForm ==
  ASSUME TypeOK, NEW r \in Requests, NEW n \in 0..Parts[r]
  PROVE  /\ Added(r, n) \in Seq(Command)
         /\ Len(Added(r, n)) = Len(queue) + n
         /\ \A i \in 1..Len(queue) : Added(r, n)[i] = queue[i]
         /\ \A i \in Len(queue) + 1 .. Len(queue) + n :
               Added(r, n)[i] = <<r, i - Len(queue)>>
<1>1. Parts[r] \in Nat
  BY PartsNat
<1> DEFINE added == [k \in 1..n |-> <<r, k>>]
           q == Added(r, n)
<1>2. \A k \in 1..n : <<r, k>> \in Command
  BY <1>1, CommandForm
<1>3. added \in Seq(Command) /\ Len(added) = n
  BY <1>1, <1>2
<1>4. queue \in Seq(Command)
  BY DEF TypeOK
<1>5. q = queue \o added
  BY DEF Added
<1>9. \A k \in 1..n : added[k] = <<r, k>>
  OBVIOUS
<1> HIDE DEF added, q
<1>6. q \in Seq(Command) /\ Len(q) = Len(queue) + n
  <2>1. queue \o added \in Seq(Command)
    BY <1>3, <1>4, ConcatProperties
  <2>2. Len(queue \o added) = Len(queue) + n
    BY <1>3, <1>4, ConcatProperties
  <2> QED
    BY <1>5, <2>1, <2>2
<1>7. \A i \in 1..Len(queue) : q[i] = queue[i]
  BY <1>3, <1>4, <1>5
<1>8. \A i \in Len(queue) + 1 .. Len(queue) + n :
         q[i] = added[i - Len(queue)]
  BY <1>1, <1>3, <1>4, <1>5
<1>10. \A i \in Len(queue) + 1 .. Len(queue) + n : i - Len(queue) \in 1..n
  BY <1>1, <1>4
<1>11. \A i \in Len(queue) + 1 .. Len(queue) + n : q[i] = <<r, i - Len(queue)>>
  BY <1>8, <1>9, <1>10
<1> QED
  BY <1>6, <1>7, <1>11 DEF q

\* The same of the next state.
LEMMA AddFirstQueue ==
  ASSUME TypeOK, NEW r \in Requests, NEW n \in 0..Parts[r], AddFirst(r, n)
  PROVE  /\ queue' \in Seq(Command)
         /\ Len(queue') = Len(queue) + n
         /\ \A i \in 1..Len(queue) : queue'[i] = queue[i]
         /\ \A i \in Len(queue) + 1 .. Len(queue) + n :
               queue'[i] = <<r, i - Len(queue)>>
BY AddedForm DEF AddFirst

\* What becomes of the commands: nobody else's are touched.
LEMMA AddFirstState ==
  ASSUME TypeOK, QueueConsistent, NEW r \in Requests, NEW n \in 0..Parts[r], AddFirst(r, n)
  PROVE  \A c \in Command :
            state'[c] = IF c[1] # r THEN state[c]
                        ELSE IF c[2] \in 1..n THEN "PENDING" ELSE "REFUSED"
<1> SUFFICES ASSUME NEW c \in Command
             PROVE  state'[c] = IF c[1] # r THEN state[c]
                                ELSE IF c[2] \in 1..n THEN "PENDING" ELSE "REFUSED"
  OBVIOUS
<1> DEFINE L == Len(queue)
           In == \E i \in 1..Len(queue') : queue'[i] = c
<1>1. state'[c] = IF In THEN IF c[1] = r THEN "PENDING" ELSE state[c]
                  ELSE IF c[1] = r \/ c \in InQueue THEN "REFUSED" ELSE state[c]
  BY DEF AddFirst, Answer
<1>2. /\ Len(queue') = L + n
      /\ \A i \in 1..L : queue'[i] = queue[i]
      /\ \A i \in L + 1 .. L + n : queue'[i] = <<r, i - L>>
  BY AddFirstQueue
<1>3. L \in Nat /\ n \in Nat
  BY PartsNat DEF TypeOK
<1>4. c \in InQueue => In
  <2>1. HAVE c \in InQueue
  <2>2. PICK i \in 1..L : queue[i] = c
    BY <2>1 DEF InQueue
  <2>3. i \in 1..Len(queue') /\ queue'[i] = c
    BY <1>2, <1>3, <2>2
  <2> QED BY <2>3
<1>5. CASE c[1] # r
  BY <1>1, <1>4, <1>5
<1>6. CASE c[1] = r
  <2>1. c = <<r, c[2]>> /\ c[2] \in Nat
    BY <1>6, CommandForm, PartsNat
  <2>2. c \notin InQueue
    BY <1>6, <2>1, CommandForm DEF AddFirst, Untouched, QueueConsistent, Queued
  <2>3. c[2] \in 1..n => In
    <3>1. HAVE c[2] \in 1..n
    <3>2. L + c[2] \in L + 1 .. L + n /\ L + c[2] \in 1..Len(queue') /\ (L + c[2]) - L = c[2]
      BY <1>2, <1>3, <2>1, <3>1
    <3>3. queue'[L + c[2]] = c
      BY <1>2, <2>1, <3>2
    <3> QED BY <3>2, <3>3
  <2>4. In => c[2] \in 1..n
    <3>1. HAVE In
    <3>2. PICK i \in 1..Len(queue') : queue'[i] = c
      BY <3>1
    <3>3. CASE i \in 1..L
      BY <1>2, <2>2, <3>2, <3>3 DEF InQueue
    <3>4. CASE i \in L + 1 .. L + n
      <4>1. queue'[i] = <<r, i - L>>
        BY <1>2, <3>4
      <4>3. c[2] = i - L
        BY <3>2, <4>1
      <4>2. i - L \in 1..n
        BY <1>3, <3>4
      <4> QED BY <4>2, <4>3
    <3> QED BY <1>2, <1>3, <3>2, <3>3, <3>4
  <2> HIDE DEF In
  <2> QED BY <1>1, <1>6, <2>3, <2>4
<1> QED BY <1>5, <1>6

-----------------------------------------------------------------------------
(***************************************************************************)
(* Facts used for every action.                                            *)
(***************************************************************************)
Pred(c) == <<c[1], c[2] - 1>>

\* The predecessor of the head of the queue is done.
LEMMA HeadReady ==
  ASSUME IInv, queue # <<>>
  PROVE  /\ Head(queue) = queue[1]
         /\ 1 \in 1..Len(queue)
         /\ Head(queue) \in Command
         /\ state[Head(queue)] \in Queued
         /\ Head(queue)[2] > 1 => state[Pred(Head(queue))] = "DONE"
<1>1. queue \in Seq(Command)
  BY DEF IInv, TypeOK
<1>2. Head(queue) = queue[1] /\ 1 \in 1..Len(queue)
  BY <1>1
<1>3. Head(queue) \in Command
  BY <1>1, <1>2
<1>4. Head(queue) \in InQueue
  BY <1>2 DEF InQueue
<1>5. state[Head(queue)] \in Queued
  BY <1>4 DEF IInv, QueueConsistent
<1>6. Head(queue)[2] > 1 => state[Pred(Head(queue))] = "DONE"
  BY <1>2 DEF IInv, Neighbours, Pred
<1> QED
  BY <1>2, <1>3, <1>5, <1>6

\* PartsInSequence survives a step that leaves what is done done and runs
\* nothing whose predecessor is not done.
LEMMA SequenceKept ==
  ASSUME PartsInSequence,
         \A c \in Command : state[c] = "DONE" => state'[c] = "DONE",
         \A c \in Command :
            Ran(c)' => \/ Ran(c)
                       \/ c[2] > 1 => state[Pred(c)] = "DONE"
  PROVE  PartsInSequence'
<1> SUFFICES ASSUME NEW r \in Requests, NEW k \in 2..Parts[r], Ran(<<r, k>>)'
             PROVE  state'[<<r, k - 1>>] = "DONE"
  BY DEF PartsInSequence
<1>1. k \in 1..Parts[r] /\ k - 1 \in 1..Parts[r] /\ k > 1
  BY PartsNat
<1>2. <<r, k>> \in Command /\ <<r, k - 1>> \in Command
  BY <1>1, CommandForm
<1>3. Pred(<<r, k>>) = <<r, k - 1>>
  BY DEF Pred
<1>4. state[<<r, k - 1>>] = "DONE"
  <2>1. CASE Ran(<<r, k>>)
    BY <2>1 DEF PartsInSequence
  <2>2. CASE ~Ran(<<r, k>>)
    BY <1>1, <1>2, <1>3, <2>2
  <2> QED
    BY <2>1, <2>2
<1> QED
  BY <1>2, <1>4

-----------------------------------------------------------------------------
\* Adding the first n commands of a request at the tail keeps the invariant.
LEMMA AddFirstIInv ==
  ASSUME IInv, NEW r \in Requests, NEW n \in 0..Parts[r], AddFirst(r, n), ~running
  PROVE  IInv'
<1> DEFINE L == Len(queue)
<1>1. /\ queue' \in Seq(Command)
      /\ Len(queue') = L + n
      /\ \A i \in 1..L : queue'[i] = queue[i]
      /\ \A i \in L + 1 .. L + n : queue'[i] = <<r, i - L>>
  BY AddFirstQueue DEF IInv
<1>2. L \in Nat /\ Parts[r] \in Nat /\ n \in Nat
  BY PartsNat DEF IInv, TypeOK
<1>3. \A c \in Command :
         state'[c] = IF c[1] # r THEN state[c]
                     ELSE IF c[2] \in 1..n THEN "PENDING" ELSE "REFUSED"
  BY AddFirstState DEF IInv
<1>4. \A c \in Command : c[1] = r => state[c] = "PREPARE"
  BY CommandForm DEF AddFirst, Untouched
<1>5. \A i \in 1..L : queue[i] \in Command /\ state[queue[i]] \in Queued
  BY DEF IInv, TypeOK, QueueConsistent, InQueue
<1>6. \A i \in 1..L : queue[i][1] # r
  BY <1>4, <1>5 DEF Queued
<1>7. TypeOK'
  <2>1. state' \in [Command -> CommandState]
    <3>1. state' = Answer(r, queue')
      BY DEF AddFirst
    <3>2. \A c \in Command : state[c] \in CommandState
      BY DEF IInv, TypeOK
    <3> QED
      BY <3>1, <3>2 DEF Answer, CommandState, Queued
  <2> QED
    BY <1>1, <2>1 DEF TypeOK, AddFirst, IInv
<1>8. QueueConsistent'
  <2>1. InQueue' = {c \in Command : state'[c] \in Queued}
    <3>1. \A c \in InQueue' : c \in Command /\ state'[c] \in Queued
      <4> SUFFICES ASSUME NEW i \in 1..Len(queue')
                   PROVE  queue'[i] \in Command /\ state'[queue'[i]] \in Queued
        BY DEF InQueue
      <4>1. CASE i \in 1..L
        BY <4>1, <1>1, <1>3, <1>5, <1>6
      <4>2. CASE i \in L + 1 .. L + n
        <5>1. queue'[i] = <<r, i - L>> /\ i - L \in 1..n /\ i - L \in 1..Parts[r]
          BY <4>2, <1>1, <1>2
        <5>2. <<r, i - L>> \in Command
          BY <5>1, CommandForm
        <5> QED
          BY <5>1, <5>2, <1>3 DEF Queued
      <4> QED
        BY <4>1, <4>2, <1>1, <1>2
    <3>2. ASSUME NEW c \in Command, state'[c] \in Queued
          PROVE  c \in InQueue'
      <4>1. CASE c[1] # r
        <5>1. state[c] \in Queued
          BY <4>1, <1>3, <3>2
        <5>2. PICK i \in 1..L : queue[i] = c
          BY <5>1 DEF IInv, QueueConsistent, InQueue
        <5>3. i \in 1..Len(queue') /\ queue'[i] = c
          BY <5>2, <1>1, <1>2
        <5> QED
          BY <5>3 DEF InQueue
      <4>2. CASE c[1] = r
        <5>1. c[2] \in 1..n
          BY <4>2, <1>3, <3>2 DEF Queued
        <5>2. c = <<r, c[2]>>
          BY <4>2, CommandForm
        <5>3. L + c[2] \in 1..Len(queue') /\ L + c[2] \in L + 1 .. L + n
          BY <5>1, <1>1, <1>2
        <5>4. queue'[L + c[2]] = <<r, (L + c[2]) - L>>
          BY <5>3, <1>1
        <5>5. (L + c[2]) - L = c[2]
          BY <5>1, <1>2
        <5>6. queue'[L + c[2]] = c
          BY <5>2, <5>4, <5>5
        <5> QED
          BY <5>3, <5>6 DEF InQueue
      <4> QED
        BY <4>1, <4>2
    <3> QED
      BY <3>1, <3>2
  <2>2. ASSUME NEW i \in 1..Len(queue'), NEW j \in 1..Len(queue'),
               queue'[i] = queue'[j]
        PROVE  i = j
    <3>1. CASE i \in 1..L /\ j \in 1..L
      BY <3>1, <2>2, <1>1 DEF IInv, QueueConsistent
    <3>2. CASE i \in 1..L /\ j \in L + 1 .. L + n
      BY <3>2, <2>2, <1>1, <1>6
    <3>3. CASE i \in L + 1 .. L + n /\ j \in 1..L
      BY <3>3, <2>2, <1>1, <1>6
    <3>4. CASE i \in L + 1 .. L + n /\ j \in L + 1 .. L + n
      BY <3>4, <2>2, <1>1, <1>2
    <3> QED
      BY <3>1, <3>2, <3>3, <3>4, <1>1, <1>2
  <2>3. ASSUME NEW i \in 1..Len(queue'), state'[queue'[i]] = "WAITING"
        PROVE  i = 1
    <3>1. CASE i \in 1..L
      BY <3>1, <2>3, <1>1, <1>3, <1>5, <1>6 DEF IInv, QueueConsistent
    <3>2. CASE i \in L + 1 .. L + n
      <4>1. queue'[i] = <<r, i - L>> /\ i - L \in 1..Parts[r]
        BY <3>2, <1>1, <1>2
      <4>2. <<r, i - L>> \in Command
        BY <4>1, CommandForm
      <4> QED
        BY <4>1, <4>2, <2>3, <1>3
    <3> QED
      BY <3>1, <3>2, <1>1, <1>2
  <2> QED
    BY <2>1, <2>2, <2>3 DEF QueueConsistent
<1>9. Neighbours'
  <2> SUFFICES ASSUME NEW i \in 1..Len(queue'), queue'[i][2] > 1
               PROVE  IF i = 1 THEN state'[Pred(queue'[i])] = "DONE"
                               ELSE queue'[i - 1] = Pred(queue'[i])
    BY DEF Neighbours, Pred
  <2>1. CASE i \in 1..L
    <3>1. queue'[i] = queue[i] /\ queue[i] \in Command /\ queue[i][1] # r
      BY <2>1, <1>1, <1>5, <1>6
    <3>2. IF i = 1 THEN state[Pred(queue[i])] = "DONE"
                   ELSE queue[i - 1] = Pred(queue[i])
      BY <2>1, <3>1 DEF IInv, Neighbours, Pred
    <3>3. Pred(queue[i]) \in Command /\ Pred(queue[i])[1] # r
      <4>1. /\ queue[i][1] \in Requests
            /\ queue[i][2] \in 1..Parts[queue[i][1]]
            /\ Parts[queue[i][1]] \in Nat
        BY <3>1, CommandForm, PartsNat
      <4>2. queue[i][2] - 1 \in 1..Parts[queue[i][1]]
        BY <4>1, <3>1
      <4> QED
        BY <4>1, <4>2, <3>1, CommandForm DEF Pred
    <3>4. i # 1 => queue'[i - 1] = queue[i - 1]
      BY <2>1, <1>1, <1>2
    <3> QED
      BY <3>1, <3>2, <3>3, <3>4, <1>3
  <2>2. CASE i \in L + 1 .. L + n
    <3>1. queue'[i] = <<r, i - L>> /\ i - L > 1
      BY <2>2, <1>1
    <3>2. i - 1 \in L + 1 .. L + n /\ i # 1
      BY <2>2, <3>1, <1>2
    <3>3. queue'[i - 1] = <<r, i - 1 - L>>
      BY <3>2, <1>1
    <3> QED
      BY <3>1, <3>2, <3>3, <1>2 DEF Pred
  <2> QED
    BY <2>1, <2>2, <1>1, <1>2
<1>10. PartsInSequence'
  <2>1. PartsInSequence
    BY DEF IInv
  <2>2. \A c \in Command : state[c] = "DONE" => state'[c] = "DONE"
    BY <1>3, <1>4
  <2>3. \A c \in Command : Ran(c)' => Ran(c)
    BY <1>3 DEF Ran
  <2> QED
    BY <2>1, <2>2, <2>3, SequenceKept
<1>11. RefusedAlone'
  <2> SUFFICES ASSUME NEW q \in Requests, NEW j \in 2..Parts[q], NEW k \in 2..Parts[q],
                      state'[<<q, j>>] = "REFUSED"
               PROVE  state'[<<q, k>>] = "REFUSED"
    BY DEF RefusedAlone
  <2>1. /\ Parts[q] \in Nat /\ j \in Nat /\ k \in Nat /\ j >= 2 /\ k >= 2
        /\ <<q, j>> \in Command /\ <<q, k>> \in Command
    BY PartsNat, CommandForm
  <2>2. CASE q # r
    BY <1>3, <2>1, <2>2 DEF IInv, RefusedAlone
  <2>3. CASE q = r
    <3>1. j \notin 1..n
      BY <1>3, <2>1, <2>3
    <3>2. n \in {0, 1}
      BY <1>2, <2>1, <2>3, <3>1 DEF AddFirst
    <3>3. k \notin 1..n
      BY <2>1, <3>2
    <3> QED BY <1>3, <2>1, <2>3, <3>3
  <2> QED BY <2>2, <2>3
<1> QED
  BY <1>7, <1>8, <1>9, <1>10, <1>11 DEF IInv, AddFirst

\* An accepted request: ladish_cqueue_add_command for every command of it.
LEMMA SubmitIInv ==
  ASSUME IInv, NEW r \in Requests, Submit(r)
  PROVE  IInv'
<1>1. Parts[r] \in 0..Parts[r]
  BY PartsNat
<1>2. AddFirst(r, Parts[r])
  BY DEF Submit, AddFirst, IInv, TypeOK
<1> QED
  BY <1>1, <1>2, AddFirstIInv DEF Submit, Dispatching

\* The drops take back what was added, but for the first of three or more.
LEMMA SubmitFailsAdds ==
  ASSUME IInv, NEW r \in Requests, NEW k \in 1..Parts[r], SubmitFails(r, k)
  PROVE  \E n \in 0..Parts[r] : AddFirst(r, n)
<1> DEFINE n == IF k >= 3 THEN 1 ELSE 0
           L == Len(queue)
           full == Added(r, k - 1)
<1>1. Parts[r] \in Nat /\ k \in Nat /\ k <= Parts[r] /\ 1 <= k
  BY PartsNat
<1>2. n \in 0..Parts[r] /\ n \in {0, 1} /\ k - 1 \in 0..Parts[r] /\ n <= k - 1
  BY <1>1
<1>3. Unwinds(k) = (k - 1) - n
  BY <1>1 DEF Unwinds
<1>4. /\ full \in Seq(Command) /\ Len(full) = L + (k - 1) /\ L \in Nat
      /\ \A i \in 1..L : full[i] = queue[i]
      /\ \A i \in L + 1 .. L + (k - 1) : full[i] = <<r, i - L>>
  <2>1. TypeOK /\ k - 1 \in 0..Parts[r] /\ L \in Nat
    BY <1>2 DEF IInv, TypeOK
  <2> QED BY <2>1, AddedForm
<1>5. /\ Added(r, n) \in Seq(Command) /\ Len(Added(r, n)) = L + n
      /\ \A i \in 1..L : Added(r, n)[i] = queue[i]
      /\ \A i \in L + 1 .. L + n : Added(r, n)[i] = <<r, i - L>>
  BY <1>2, AddedForm DEF IInv
<1>6. Len(full) - Unwinds(k) = L + n
  BY <1>1, <1>2, <1>3, <1>4
<1>7. queue' = SubSeq(full, 1, L + n)
  BY <1>6 DEF SubmitFails
<1> HIDE DEF full, n
<1>8. queue' = Added(r, n)
  <2> DEFINE sub == SubSeq(full, 1, L + n)
  <2>1. L + n \in Nat /\ L + n <= Len(full)
    BY <1>1, <1>2, <1>4
  <2>2. sub \in Seq(Command) /\ Len(sub) = L + n /\ \A i \in 1..L + n : sub[i] = full[i]
    BY <1>4, <2>1
  <2>3. \A i \in 1..L + n : full[i] = Added(r, n)[i]
    <3> SUFFICES ASSUME NEW i \in 1..L + n PROVE full[i] = Added(r, n)[i]
      OBVIOUS
    <3>1. CASE i \in 1..L
      BY <1>4, <1>5, <3>1
    <3>2. CASE i \in L + 1 .. L + n
      <4>1. i \in L + 1 .. L + (k - 1)
        BY <1>1, <1>2, <1>4, <3>2
      <4> QED BY <1>4, <1>5, <3>2, <4>1
    <3> QED BY <1>2, <1>4, <3>1, <3>2
  <2> HIDE DEF sub
  <2>4. sub = Added(r, n)
    BY <1>5, <2>1, <2>2, <2>3, SeqEqual
  <2> QED BY <1>7, <2>4 DEF sub
<1>9. n \in {0, 1, Parts[r]} /\ n \in 0..Parts[r]
  BY <1>2
<1>10. aborted' \in BOOLEAN
  BY DEF SubmitFails
<1>11. AddFirst(r, n)
  BY <1>8, <1>9, <1>10 DEF SubmitFails, AddFirst
<1> QED BY <1>9, <1>11

\* A request that runs out of memory is dropped from its end (cqueue.c:194).
LEMMA SubmitFailsIInv ==
  ASSUME IInv, NEW r \in Requests, NEW k \in 1..Parts[r], SubmitFails(r, k)
  PROVE  IInv'
<1>1. PICK n \in 0..Parts[r] : AddFirst(r, n)
  BY SubmitFailsAdds
<1> QED
  BY <1>1, AddFirstIInv DEF SubmitFails, Dispatching

\* Running and discarding refuse nothing.
LEMMA RefusedKept ==
  ASSUME RefusedAlone,
         \A c \in Command : state'[c] = "REFUSED" <=> state[c] = "REFUSED"
  PROVE  RefusedAlone'
<1> SUFFICES ASSUME NEW r \in Requests, NEW j \in 2..Parts[r], NEW k \in 2..Parts[r],
                    state'[<<r, j>>] = "REFUSED"
             PROVE  state'[<<r, k>>] = "REFUSED"
  BY DEF RefusedAlone
<1>1. <<r, j>> \in Command /\ <<r, k>> \in Command
  BY PartsNat, CommandForm
<1> QED BY <1>1 DEF RefusedAlone

-----------------------------------------------------------------------------
(***************************************************************************)
(* The iterations of ladish_cqueue_run.                                    *)
(***************************************************************************)
LEMMA HeadDoneIInv ==
  ASSUME IInv, HeadDone
  PROVE  IInv'
<1> DEFINE L == Len(queue)
           h == Head(queue)
<1>1. /\ queue \in Seq(Command) /\ queue # <<>>
      /\ queue' = Tail(queue)
      /\ state' = [state EXCEPT ![h] = "DONE"]
      /\ state \in [Command -> CommandState]
  BY DEF HeadDone, HeadRuns, IInv, TypeOK
<1>2. /\ h = queue[1] /\ 1 \in 1..L /\ h \in Command
      /\ state[h] \in Queued
      /\ h[2] > 1 => state[Pred(h)] = "DONE"
  BY <1>1, HeadReady
<1>3. /\ L \in Nat \ {0}
      /\ queue' \in Seq(Command) /\ Len(queue') = L - 1
      /\ \A i \in 1..L - 1 : i + 1 \in 1..L /\ queue'[i] = queue[i + 1]
  BY <1>1
<1>4. \A c \in Command : state'[c] = IF c = h THEN "DONE" ELSE state[c]
  BY <1>1
<1>5. \A i \in 1..L - 1 : queue'[i] # h /\ queue'[i] \in Command
  <2> SUFFICES ASSUME NEW i \in 1..L - 1
               PROVE  queue'[i] # h /\ queue'[i] \in Command
    OBVIOUS
  <2>1. i + 1 \in 1..L /\ queue'[i] = queue[i + 1] /\ i + 1 # 1
    BY <1>3
  <2> QED
    BY <2>1, <1>1, <1>2 DEF IInv, QueueConsistent
<1>6. TypeOK'
  <2>1. state' \in [Command -> CommandState]
    BY <1>1 DEF CommandState
  <2>2. aborted' \in BOOLEAN /\ running' \in BOOLEAN
    BY DEF HeadDone, IInv, TypeOK
  <2> QED
    BY <1>3, <2>1, <2>2 DEF TypeOK
<1>7. QueueConsistent'
  <2>1. \A c \in InQueue' : c \in Command /\ state'[c] \in Queued
    <3> SUFFICES ASSUME NEW i \in 1..L - 1
                 PROVE  queue'[i] \in Command /\ state'[queue'[i]] \in Queued
      BY <1>3 DEF InQueue
    <3>1. queue'[i] \in InQueue
      BY <1>3 DEF InQueue
    <3> QED
      BY <3>1, <1>4, <1>5 DEF IInv, QueueConsistent
  <2>2. ASSUME NEW c \in Command, state'[c] \in Queued
        PROVE  c \in InQueue'
    <3>1. c # h /\ state[c] \in Queued
      BY <2>2, <1>4 DEF Queued
    <3>2. PICK i \in 1..L : queue[i] = c
      BY <3>1 DEF IInv, QueueConsistent, InQueue
    <3>3. i # 1
      BY <3>1, <3>2, <1>2
    <3>4. i - 1 \in 1..L - 1 /\ (i - 1) + 1 = i
      BY <3>3, <1>3
    <3>5. queue'[i - 1] = c
      BY <3>2, <3>4, <1>3
    <3> QED
      BY <3>4, <3>5, <1>3 DEF InQueue
  <2>3. ASSUME NEW i \in 1..L - 1, NEW j \in 1..L - 1, queue'[i] = queue'[j]
        PROVE  i = j
    <3>1. i + 1 = j + 1
      BY <2>3, <1>3 DEF IInv, QueueConsistent
    <3> QED
      BY <3>1
  <2>4. \A i \in 1..L - 1 : state'[queue'[i]] # "WAITING"
    <3> SUFFICES ASSUME NEW i \in 1..L - 1
                 PROVE  state'[queue'[i]] # "WAITING"
      OBVIOUS
    <3>1. state'[queue'[i]] = state[queue[i + 1]]
      BY <1>3, <1>4, <1>5
    <3>2. i + 1 # 1
      OBVIOUS
    <3> QED
      BY <3>1, <3>2, <1>3 DEF IInv, QueueConsistent
  <2>5. InQueue' = {c \in Command : state'[c] \in Queued}
    BY <2>1, <2>2
  <2> QED
    BY <2>3, <2>4, <2>5, <1>3 DEF QueueConsistent
<1>8. Neighbours'
  <2> SUFFICES ASSUME NEW i \in 1..L - 1, queue'[i][2] > 1
               PROVE  IF i = 1 THEN state'[Pred(queue'[i])] = "DONE"
                               ELSE queue'[i - 1] = Pred(queue'[i])
    BY <1>3 DEF Neighbours, Pred
  <2>1. i + 1 \in 1..L /\ queue'[i] = queue[i + 1] /\ i + 1 # 1
        /\ (i + 1) - 1 = i
    BY <1>3
  <2>2. queue[i] = Pred(queue'[i])
    BY <2>1 DEF IInv, Neighbours, Pred
  <2>3. CASE i = 1
    BY <2>2, <2>3, <1>2, <1>4
  <2>4. CASE i # 1
    <3>1. i - 1 \in 1..L - 1 /\ (i - 1) + 1 = i
      BY <2>4, <1>3
    <3> QED
      BY <3>1, <2>2, <2>4, <1>3
  <2> QED
    BY <2>3, <2>4
<1>9. PartsInSequence'
  <2>1. \A c \in Command : state[c] = "DONE" => state'[c] = "DONE"
    BY <1>4
  <2>2. \A c \in Command :
           Ran(c)' => Ran(c) \/ (c[2] > 1 => state[Pred(c)] = "DONE")
    BY <1>2, <1>4 DEF Ran
  <2> QED
    BY <2>1, <2>2, SequenceKept DEF IInv
<1>10. running' => queue' # <<>>
  BY DEF HeadDone
<1>11. RefusedAlone'
  BY <1>2, <1>4, RefusedKept DEF IInv, Queued
<1> QED
  BY <1>6, <1>7, <1>8, <1>9, <1>10, <1>11 DEF IInv

\* The run callback of the head goes to the waiting state.
LEMMA HeadWaitsIInv ==
  ASSUME IInv, HeadWaits
  PROVE  IInv'
<1> DEFINE h == Head(queue)
<1>1. /\ queue \in Seq(Command) /\ queue # <<>>
      /\ queue' = queue
      /\ state' = [state EXCEPT ![h] = "WAITING"]
      /\ state \in [Command -> CommandState]
  BY DEF HeadWaits, HeadRuns, IInv, TypeOK
<1>2. /\ h = queue[1] /\ 1 \in 1..Len(queue) /\ h \in Command
      /\ state[h] \in Queued
      /\ h[2] > 1 => state[Pred(h)] = "DONE"
  BY <1>1, HeadReady
<1>3. \A c \in Command : state'[c] = IF c = h THEN "WAITING" ELSE state[c]
  BY <1>1
<1>4. \A i \in 1..Len(queue) : queue[i] \in Command /\ (queue[i] = h => i = 1)
  BY <1>1, <1>2 DEF IInv, QueueConsistent
<1>5. TypeOK'
  BY <1>1 DEF HeadWaits, IInv, TypeOK, CommandState, Queued
<1>6. QueueConsistent'
  <2>1. InQueue' = {c \in Command : state'[c] \in Queued}
    BY <1>1, <1>2, <1>3 DEF IInv, QueueConsistent, InQueue, Queued
  <2>2. \A i \in 1..Len(queue) : state'[queue[i]] = "WAITING" => i = 1
    BY <1>3, <1>4 DEF IInv, QueueConsistent
  <2> QED
    BY <1>1, <2>1, <2>2 DEF IInv, QueueConsistent
<1>7. \A c \in Command : state[c] = "DONE" => state'[c] = "DONE"
  BY <1>2, <1>3 DEF Queued
<1>8. Neighbours'
  <2>1. \A c : state[c] = "DONE" => state'[c] = "DONE"
    BY <1>1, <1>2 DEF Queued
  <2> QED
    BY <1>1, <2>1 DEF IInv, Neighbours
<1>9. PartsInSequence'
  <2>1. \A c \in Command :
           Ran(c)' => Ran(c) \/ (c[2] > 1 => state[Pred(c)] = "DONE")
    BY <1>2, <1>3 DEF Ran
  <2> QED
    BY <2>1, <1>7, SequenceKept DEF IInv
<1>10. RefusedAlone'
  BY <1>2, <1>3, RefusedKept DEF IInv, Queued
<1> QED
  BY <1>1, <1>5, <1>6, <1>8, <1>9, <1>10 DEF IInv, HeadWaits

-----------------------------------------------------------------------------
(***************************************************************************)
(* Emptying the queue.                                                     *)
(***************************************************************************)
LEMMA DiscardIInv ==
  ASSUME IInv, queue # <<>>,
         NEW fate \in {"FAILED", "DISCARDED"},
         state' = Discard(fate),
         queue' = <<>>,
         aborted' = aborted,
         running' = FALSE
  PROVE  IInv'
<1> DEFINE h == Head(queue)
<1>1. /\ queue \in Seq(Command) /\ state \in [Command -> CommandState]
      /\ InQueue = {c \in Command : state[c] \in Queued}
  BY DEF IInv, TypeOK, QueueConsistent
<1>2. /\ h = queue[1] /\ 1 \in 1..Len(queue) /\ h \in Command
      /\ state[h] \in Queued
      /\ h[2] > 1 => state[Pred(h)] = "DONE"
  BY HeadReady
<1>3. \A c \in Command :
         state'[c] = IF c \notin InQueue THEN state[c]
                     ELSE IF c = h THEN fate ELSE "DISCARDED"
  BY DEF Discard
<1>4. TypeOK'
  <2>1. state' \in [Command -> CommandState]
    BY <1>1 DEF Discard, CommandState, Queued
  <2>2. queue' \in Seq(Command)
    BY <1>2
  <2> QED
    BY <2>1, <2>2 DEF TypeOK, IInv
<1>5. QueueConsistent' /\ Neighbours'
  <2>1. Len(queue') = 0
    OBVIOUS
  <2>2. InQueue' = {}
    BY <2>1 DEF InQueue
  <2>3. {c \in Command : state'[c] \in Queued} = {}
    BY <1>1, <1>3 DEF Queued
  <2> QED
    BY <2>1, <2>2, <2>3 DEF QueueConsistent, Neighbours
<1>6. PartsInSequence'
  <2>1. \A c \in Command : state[c] = "DONE" => state'[c] = "DONE"
    BY <1>1, <1>3 DEF Queued
  <2>2. \A c \in Command :
           Ran(c)' => Ran(c) \/ (c[2] > 1 => state[Pred(c)] = "DONE")
    BY <1>2, <1>3 DEF Ran
  <2> QED
    BY <2>1, <2>2, SequenceKept DEF IInv
<1>7. RefusedAlone'
  BY <1>1, <1>3, RefusedKept DEF IInv, Queued
<1> QED
  BY <1>4, <1>5, <1>6, <1>7 DEF IInv

-----------------------------------------------------------------------------
\* Every step keeps the inductive invariant.
LEMMA NextIInv ==
  ASSUME IInv, [Next]_vars
  PROVE  IInv'
<1>1. CASE \E r \in Requests : Submit(r)
  BY <1>1, SubmitIInv
<1>2. CASE HeadStrays
  BY <1>2 DEF HeadStrays, IInv, TypeOK, QueueConsistent, Neighbours, InQueue,
              PartsInSequence, Ran, RefusedAlone
<1>3. CASE \E r \in Requests : \E k \in 1..Parts[r] : SubmitFails(r, k)
  BY <1>3, SubmitFailsIInv
<1>4. CASE BeginRun
  BY <1>4 DEF BeginRun, IInv, TypeOK, QueueConsistent, Neighbours, InQueue,
              PartsInSequence, Ran, RefusedAlone
<1>5. CASE HeadDone
  BY <1>5, HeadDoneIInv
<1>6. CASE HeadWaits
  BY <1>6, HeadWaitsIInv
<1>7. CASE HeadFails
  BY <1>7, DiscardIInv DEF HeadFails, HeadRuns
<1>8. CASE Clear
  <2>1. running' = FALSE
    BY <1>8 DEF Clear, Dispatching, IInv, TypeOK
  <2>2. CASE Ran(Head(queue))
    BY <1>8, <2>1, <2>2, DiscardIInv DEF Clear
  <2>3. CASE ~Ran(Head(queue))
    BY <1>8, <2>1, <2>3, DiscardIInv DEF Clear
  <2> QED
    BY <2>2, <2>3
<1>10. CASE UNCHANGED vars
  BY <1>10 DEF vars, IInv, TypeOK, QueueConsistent, Neighbours, InQueue,
               PartsInSequence, Ran, RefusedAlone
<1> QED
  BY <1>1, <1>2, <1>3, <1>4, <1>5, <1>6, <1>7, <1>8, <1>10 DEF Next

\* The inductive invariant holds in every reachable state.
THEOREM Invariance == Spec => []IInv
<1>1. Init => IInv
  BY InitIInv
<1>2. IInv /\ [Next]_vars => IInv'
  BY NextIInv
<1> QED
  BY <1>1, <1>2, PTL DEF Spec

\* The variables of cqueue.c keep their types.
THEOREM TypeCorrect == Spec => []TypeOK
<1>1. IInv => TypeOK
  BY DEF IInv
<1> QED
  BY <1>1, Invariance, PTL

\* No assertion of cqueue.c about the state of a queued command ever fires,
\* whatever the run callbacks answer: only the head can be WAITING.
THEOREM QueueIsConsistent == Spec => []QueueConsistent
<1>1. IInv => QueueConsistent
  BY DEF IInv
<1> QED
  BY <1>1, Invariance, PTL

\* A command never runs before everything its request queued in front of it
\* is done, for requests of any length and any interleaving of clients.
THEOREM RunsInSequence == Spec => []PartsInSequence
<1>1. IInv => PartsInSequence
  BY DEF IInv
<1> QED
  BY <1>1, Invariance, PTL

\* A request that cannot be queued costs no other request a command, for
\* requests of any lengths and however many of them fail.
THEOREM RefusalIsAlone == Spec => []RefusedAlone
<1>1. IInv => RefusedAlone
  BY DEF IInv
<1> QED
  BY <1>1, Invariance, PTL

-----------------------------------------------------------------------------
(***************************************************************************)
(* The refinement of SerialRequests.  Beyond the invariant it needs that   *)
(* the commands of a request stand next to each other, that a request has  *)
(* begun when any of its commands was run, and that a request is untouched *)
(* as a whole or not at all.                                               *)
(***************************************************************************)
Contiguous ==
  \A i, m, j \in 1..Len(queue) :
     i < m /\ m < j /\ queue[i][1] = queue[j][1] => queue[m][1] = queue[i][1]

Begun == \A c \in Command : Ran(c) => Ran(<<c[1], 1>>)

AllOrNone == \A c \in Command : state[c] = "PREPARE" => Untouched(c[1])

RInv == IInv /\ Contiguous /\ Begun /\ AllOrNone

\* The first and the last command of a request.
LEMMA FirstAndLast ==
  ASSUME NEW r \in Requests
  PROVE  /\ <<r, 1>> \in Command /\ LastPart(r) \in Command
         /\ Parts[r] \in Nat /\ 1 \in 1..Parts[r] /\ Parts[r] \in 1..Parts[r]
         /\ \A s \in Requests : LastPart(r) = LastPart(s) => r = s
BY PartsNat, CommandForm DEF LastPart

\* A request waits exactly while its last command is queued.
LEMMA PendingIsQueued ==
  ASSUME RInv, NEW r \in Requests
  PROVE  /\ r \in Abstract!Pending <=> LastPart(r) \in InQueue
         /\ LastPart(r) \in InQueue <=> state[LastPart(r)] \in Queued
         /\ state[LastPart(r)] = "PREPARE" <=> Untouched(r)
<1>1. LastPart(r) \in Command /\ LastPart(r)[1] = r /\ Parts[r] \in 1..Parts[r]
  BY FirstAndLast DEF LastPart
<1>2. state[LastPart(r)] = "PREPARE" <=> Untouched(r)
  BY <1>1 DEF RInv, AllOrNone, Untouched, LastPart
<1>3. LastPart(r) \in InQueue <=> state[LastPart(r)] \in Queued
  BY <1>1 DEF RInv, IInv, QueueConsistent
<1>4. state[LastPart(r)] \in CommandState
  BY <1>1 DEF RInv, IInv, TypeOK
<1>5. AbstractPhase[r] \in {"queued", "active"} <=> state[LastPart(r)] \in Queued
  BY <1>2, <1>4 DEF AbstractPhase, CommandState, Queued
<1> QED BY <1>2, <1>3, <1>5 DEF Abstract!Pending

\* The phase of a request, read off its last and its first command.
PhaseOf(r) ==
  /\ state[LastPart(r)] = "PREPARE" => AbstractPhase[r] = "idle"
  /\ state[LastPart(r)] = "REFUSED" => AbstractPhase[r] = "refused"
  /\ state[LastPart(r)] = "DONE" => AbstractPhase[r] = "completed"
  /\ state[LastPart(r)] \in {"FAILED", "DISCARDED"} => AbstractPhase[r] = "aborted"
  /\ state[LastPart(r)] \in Queued /\ Ran(<<r, 1>>) => AbstractPhase[r] = "active"
  /\ state[LastPart(r)] \in Queued /\ ~Ran(<<r, 1>>) => AbstractPhase[r] = "queued"

\* RInv says of every request which of its phases it is in.
LEMMA PhaseCases == RInv => \A r \in Requests : PhaseOf(r)
<1> SUFFICES ASSUME RInv, NEW r \in Requests PROVE PhaseOf(r)
  OBVIOUS
<1>1. state[LastPart(r)] = "PREPARE" <=> Untouched(r)
  BY PendingIsQueued
<1>2. AbstractPhase[r] =
        CASE Untouched(r) -> "idle"
          [] state[LastPart(r)] = "REFUSED" -> "refused"
          [] state[LastPart(r)] = "DONE" -> "completed"
          [] state[LastPart(r)] \in {"FAILED", "DISCARDED"} -> "aborted"
          [] OTHER -> IF Ran(<<r, 1>>) THEN "active" ELSE "queued"
  BY DEF AbstractPhase
<1> QED BY <1>1, <1>2 DEF Queued, PhaseOf

\* The same of the next state.
LEMMA PhaseCasesNext == (RInv => \A r \in Requests : PhaseOf(r))'
BY PhaseCases, PTL

\* What the phase of a request depends on.
LEMMA PhaseSame ==
  ASSUME RInv, RInv', NEW r \in Requests,
         \/ state'[LastPart(r)] = state[LastPart(r)]
         \/ state'[LastPart(r)] \in Queued /\ state[LastPart(r)] \in Queued,
         state[LastPart(r)] \in Queued => (Ran(<<r, 1>>)' <=> Ran(<<r, 1>>))
  PROVE  AbstractPhase'[r] = AbstractPhase[r]
<1>1. LastPart(r) \in Command
  BY FirstAndLast
<1>2. state[LastPart(r)] = "PREPARE" <=> Untouched(r)
  BY PendingIsQueued
<1>3. state'[LastPart(r)] = "PREPARE" <=> Untouched(r)'
  <2>1. LastPart(r)[1] = r /\ Parts[r] \in 1..Parts[r]
    BY FirstAndLast DEF LastPart
  <2> QED BY <1>1, <2>1 DEF RInv, AllOrNone, Untouched, LastPart
<1>4. state[LastPart(r)] \in CommandState /\ state'[LastPart(r)] \in CommandState
  BY <1>1 DEF RInv, IInv, TypeOK
<1> QED BY <1>2, <1>3, <1>4 DEF AbstractPhase, CommandState, Queued

\* A step that changes the phase of one request.
LEMMA PhaseOnly ==
  ASSUME NEW r \in Requests, NEW x,
         \A s \in Requests : s # r => AbstractPhase'[s] = AbstractPhase[s],
         AbstractPhase'[r] = x
  PROVE  AbstractPhase' = [AbstractPhase EXCEPT ![r] = x]
<1>1. /\ AbstractPhase = [s \in Requests |-> AbstractPhase[s]]
      /\ AbstractPhase' = [s \in Requests |-> AbstractPhase'[s]]
  BY DEF AbstractPhase
<1> QED BY <1>1

\* The position of a command in the queue.
LEMMA Place ==
  ASSUME RInv, NEW i \in 1..Len(queue), NEW j \in 1..Len(queue), queue[i] = queue[j]
  PROVE  i = j
BY DEF RInv, IInv, QueueConsistent

\* Whoever has the head of the queue is first.
LEMMA HeadIsFirst ==
  ASSUME RInv, queue # <<>>, NEW r \in Requests, Head(queue)[1] = r
  PROVE  \A s \in Requests : ~InFront(s, r)
<1> SUFFICES ASSUME NEW s \in Requests, NEW i \in 1..Len(queue), NEW j \in 1..Len(queue),
                    i < j, queue[i] = LastPart(s), queue[j] = LastPart(r)
             PROVE  FALSE
  BY DEF InFront
<1>1. /\ Head(queue) = queue[1] /\ 1 \in 1..Len(queue) /\ Len(queue) \in Nat
  BY HeadReady, QueueElements DEF RInv, IInv
<1>2. queue[i] # queue[j]
  BY Place
<1>3. s # r
  BY <1>2
<1>4. queue[i][1] = s /\ queue[j][1] = r /\ queue[1][1] = r
  BY <1>1 DEF LastPart
<1>5. CASE i = 1
  BY <1>3, <1>4, <1>5
<1>6. CASE i # 1
  <2>1. 1 < i
    BY <1>1, <1>6
  <2>2. queue[i][1] = queue[1][1]
    BY <1>1, <1>4, <2>1 DEF RInv, Contiguous
  <2> QED BY <1>3, <1>4, <2>2
<1> QED BY <1>5, <1>6

-----------------------------------------------------------------------------
(***************************************************************************)
(* Accepting and refusing.                                                 *)
(***************************************************************************)
LEMMA AddFirstFacts ==
  ASSUME RInv, NEW r \in Requests, NEW n \in 0..Parts[r], AddFirst(r, n)
  PROVE  /\ \A c \in Command :
               state'[c] = IF c[1] # r THEN state[c]
                           ELSE IF c[2] \in 1..n THEN "PENDING" ELSE "REFUSED"
         /\ \A c \in Command : c[1] = r => state[c] = "PREPARE"
         /\ \A i \in 1..Len(queue) : queue[i][1] # r
<1>1. \A c \in Command : c[1] = r => state[c] = "PREPARE"
  BY CommandForm DEF AddFirst, Untouched
<1>2. \A i \in 1..Len(queue) : queue[i] \in Command /\ state[queue[i]] \in Queued
  BY DEF RInv, IInv, TypeOK, QueueConsistent, InQueue
<1>3. \A c \in Command : state'[c] = IF c[1] # r THEN state[c]
                                     ELSE IF c[2] \in 1..n THEN "PENDING" ELSE "REFUSED"
  BY AddFirstState DEF RInv, IInv
<1> QED BY <1>1, <1>2, <1>3 DEF Queued

\* Adding the first n commands of a request keeps the requests in order.
LEMMA AddFirstRInv ==
  ASSUME RInv, IInv', NEW r \in Requests, NEW n \in 0..Parts[r], AddFirst(r, n)
  PROVE  RInv'
<1> DEFINE L == Len(queue)
<1>1. /\ queue' \in Seq(Command)
      /\ Len(queue') = L + n
      /\ \A i \in 1..L : queue'[i] = queue[i]
      /\ \A i \in L + 1 .. L + n : queue'[i] = <<r, i - L>>
  BY AddFirstQueue DEF RInv, IInv
<1>2. L \in Nat /\ n \in Nat /\ Parts[r] \in Nat
  BY PartsNat DEF RInv, IInv, TypeOK
<1>3. /\ \A c \in Command :
            state'[c] = IF c[1] # r THEN state[c]
                        ELSE IF c[2] \in 1..n THEN "PENDING" ELSE "REFUSED"
      /\ \A i \in 1..L : queue[i][1] # r
  BY AddFirstFacts
<1>4. Contiguous'
  <2> SUFFICES ASSUME NEW i \in 1..L + n, NEW m \in 1..L + n, NEW j \in 1..L + n,
                      i < m, m < j, queue'[i][1] = queue'[j][1]
               PROVE  queue'[m][1] = queue'[i][1]
    BY <1>1 DEF Contiguous
  <2>1. CASE i \in 1..L
    <3>1. queue'[i][1] # r
      BY <1>1, <1>3, <2>1
    <3>2. j \in 1..L
      <4>1. CASE j \in L + 1 .. L + n
        <5>1. queue'[j][1] = r
          BY <1>1, <4>1
        <5> QED BY <3>1, <5>1
      <4> QED BY <1>2, <4>1
    <3>3. m \in 1..L
      BY <1>2, <3>2
    <3> QED BY <1>1, <2>1, <3>2, <3>3 DEF RInv, Contiguous
  <2>2. CASE i \in L + 1 .. L + n
    <3>1. m \in L + 1 .. L + n
      BY <1>2, <2>2
    <3> QED BY <1>1, <2>2, <3>1
  <2> QED BY <1>2, <2>1, <2>2
<1>5. Begun'
  <2> SUFFICES ASSUME NEW c \in Command, Ran(c)' PROVE Ran(<<c[1], 1>>)'
    BY DEF Begun
  <2>1. c[1] # r /\ Ran(c)
    BY <1>3 DEF Ran
  <2>2. Ran(<<c[1], 1>>) /\ <<c[1], 1>> \in Command
    BY <2>1, CommandForm, FirstAndLast DEF RInv, Begun
  <2> QED BY <2>1, <2>2, <1>3 DEF Ran
<1>6. AllOrNone'
  <2> SUFFICES ASSUME NEW c \in Command, state'[c] = "PREPARE" PROVE Untouched(c[1])'
    BY DEF AllOrNone
  <2>1. c[1] # r /\ state[c] = "PREPARE"
    BY <1>3
  <2>2. Untouched(c[1]) /\ c[1] \in Requests
    BY <2>1, CommandForm DEF RInv, AllOrNone
  <2> QED BY <2>1, <2>2, <1>3, CommandForm DEF Untouched
<1> QED BY <1>4, <1>5, <1>6 DEF RInv

\* Only a request that was added whole comes to stand behind the others.
LEMMA AddFirstInFront ==
  ASSUME RInv, NEW r \in Requests, NEW n \in 0..Parts[r], AddFirst(r, n),
         NEW s \in Requests, NEW t \in Requests
  PROVE  InFront(s, t)' <=> \/ InFront(s, t)
                            \/ n = Parts[r] /\ t = r /\ LastPart(s) \in InQueue
<1> DEFINE L == Len(queue)
<1>1. /\ Len(queue') = L + n
      /\ \A i \in 1..L : queue'[i] = queue[i]
      /\ \A i \in L + 1 .. L + n : queue'[i] = <<r, i - L>>
  BY AddFirstQueue DEF RInv, IInv
<1>2. L \in Nat /\ n \in Nat /\ Parts[r] \in Nat
  BY PartsNat DEF RInv, IInv, TypeOK
<1>3. \A i \in 1..L : queue[i][1] # r
  BY AddFirstFacts
<1>4. ASSUME NEW i \in L + 1 .. L + n, NEW q \in Requests, queue'[i] = LastPart(q)
      PROVE  q = r /\ n = Parts[r] /\ i = L + n
  <2>1. <<r, i - L>> = <<q, Parts[q]>>
    BY <1>1, <1>4 DEF LastPart
  <2>2. q = r /\ i - L = Parts[r]
    BY <2>1
  <2> QED BY <1>2, <2>2
<1>5. ASSUME InFront(s, t)' PROVE InFront(s, t) \/ (n = Parts[r] /\ t = r /\ LastPart(s) \in InQueue)
  <2>1. PICK i \in 1..L + n, j \in 1..L + n : i < j /\ queue'[i] = LastPart(s) /\ queue'[j] = LastPart(t)
    BY <1>1, <1>5 DEF InFront
  <2>2. CASE j \in 1..L
    <3>1. i \in 1..L
      BY <1>2, <2>1, <2>2
    <3> QED BY <1>1, <2>1, <2>2, <3>1 DEF InFront
  <2>3. CASE j \in L + 1 .. L + n
    <3>1. t = r /\ n = Parts[r] /\ j = L + n
      BY <1>4, <2>1, <2>3
    <3>2. CASE i \in L + 1 .. L + n
      <4>1. i = L + n
        BY <1>4, <2>1, <3>2
      <4> QED BY <1>2, <2>1, <3>1, <4>1
    <3>3. CASE i \in 1..L
      BY <1>1, <2>1, <3>1, <3>3 DEF InQueue
    <3> QED BY <1>2, <3>2, <3>3
  <2> QED BY <1>2, <2>2, <2>3
<1>6. ASSUME InFront(s, t) PROVE InFront(s, t)'
  <2>1. PICK i \in 1..L, j \in 1..L : i < j /\ queue[i] = LastPart(s) /\ queue[j] = LastPart(t)
    BY <1>6 DEF InFront
  <2>2. i \in 1..Len(queue') /\ j \in 1..Len(queue')
    BY <1>1, <1>2
  <2> QED BY <1>1, <2>1, <2>2 DEF InFront
<1>7. n = Parts[r] /\ t = r /\ LastPart(s) \in InQueue => InFront(s, t)'
  <2>1. HAVE n = Parts[r] /\ t = r /\ LastPart(s) \in InQueue
  <2>2. PICK i \in 1..L : queue[i] = LastPart(s)
    BY <2>1 DEF InQueue
  <2>3. n >= 1
    <3>1. Parts[r] >= 1
      BY PartsNat
    <3> QED BY <2>1, <3>1
  <2>4. /\ i \in 1..Len(queue') /\ L + n \in 1..Len(queue') /\ i < L + n
        /\ L + n \in L + 1 .. L + n
    BY <1>1, <1>2, <2>3
  <2>5. queue'[L + n] = <<r, (L + n) - L>> /\ (L + n) - L = Parts[r]
    BY <1>1, <1>2, <2>1, <2>4
  <2> QED BY <1>1, <2>1, <2>2, <2>4, <2>5 DEF InFront, LastPart
<1> HIDE DEF L
<1> QED BY <1>5, <1>6, <1>7

\* The phases of the requests that are not asked stay.
LEMMA AddFirstPhase ==
  ASSUME RInv, RInv', NEW r \in Requests, NEW n \in 0..Parts[r], AddFirst(r, n)
  PROVE  /\ AbstractPhase[r] = "idle"
         /\ AbstractPhase' = [AbstractPhase EXCEPT ![r] = IF n = Parts[r] THEN "queued" ELSE "refused"]
<1>1. /\ \A c \in Command :
            state'[c] = IF c[1] # r THEN state[c]
                        ELSE IF c[2] \in 1..n THEN "PENDING" ELSE "REFUSED"
  BY AddFirstFacts
<1>2. AbstractPhase[r] = "idle"
  <2>1. state[LastPart(r)] = "PREPARE"
    BY FirstAndLast DEF AddFirst, Untouched, LastPart
  <2> QED BY <2>1, PhaseCases DEF PhaseOf
<1>3. ASSUME NEW s \in Requests, s # r PROVE AbstractPhase'[s] = AbstractPhase[s]
  <2>1. state'[LastPart(s)] = state[LastPart(s)] /\ state'[<<s, 1>>] = state[<<s, 1>>]
    BY <1>1, <1>3, FirstAndLast DEF LastPart
  <2> QED BY <2>1, PhaseSame DEF Ran
<1>4. AbstractPhase'[r] = IF n = Parts[r] THEN "queued" ELSE "refused"
  <2>1. /\ LastPart(r) \in Command /\ LastPart(r)[1] = r /\ LastPart(r)[2] = Parts[r]
        /\ <<r, 1>> \in Command
    BY FirstAndLast DEF LastPart
  <2>2. CASE n = Parts[r]
    <3>1. Parts[r] \in 1..n /\ 1 \in 1..n
      BY <2>2, FirstAndLast
    <3>2. state'[LastPart(r)] = "PENDING" /\ state'[<<r, 1>>] = "PENDING"
      BY <1>1, <2>1, <3>1
    <3>3. state'[LastPart(r)] \in Queued /\ ~Ran(<<r, 1>>)'
      BY <3>2 DEF Ran, Queued
    <3> QED BY <2>2, <3>3, PhaseCasesNext DEF PhaseOf
  <2>3. CASE n # Parts[r]
    <3>1. Parts[r] \notin 1..n
      BY <2>3, FirstAndLast
    <3>2. state'[LastPart(r)] = "REFUSED"
      BY <1>1, <2>1, <3>1
    <3> QED BY <2>3, <3>2, PhaseCasesNext DEF PhaseOf
  <2> QED BY <2>2, <2>3
<1> QED BY <1>2, <1>3, <1>4, PhaseOnly

\* Adding a request whole is Accept, dropping what was added is Refuse.
LEMMA AddFirstMaps ==
  ASSUME RInv, RInv', NEW r \in Requests, NEW n \in 0..Parts[r], AddFirst(r, n)
  PROVE  Abstract!Accept(r) \/ Abstract!Refuse(r)
<1>1. ASSUME NEW s \in Requests, NEW t \in Requests
      PROVE  InFront(s, t)' <=> \/ InFront(s, t)
                                \/ n = Parts[r] /\ t = r /\ LastPart(s) \in InQueue
  BY AddFirstInFront
<1>2. CASE n = Parts[r]
  <2>1. AbstractAhead' = AbstractAhead \cup Abstract!Pending \X {r}
    <3>1. ASSUME NEW p \in AbstractAhead' PROVE p \in AbstractAhead \cup Abstract!Pending \X {r}
      <4>1. p \in Requests \X Requests /\ InFront(p[1], p[2])'
        BY <3>1 DEF AbstractAhead
      <4>2. CASE InFront(p[1], p[2])
        BY <4>1, <4>2 DEF AbstractAhead
      <4>3. CASE p[2] = r /\ LastPart(p[1]) \in InQueue
        BY <4>1, <4>3, PendingIsQueued
      <4> QED BY <4>1, <4>2, <4>3, <1>1
    <3>2. ASSUME NEW p \in AbstractAhead PROVE p \in AbstractAhead'
      BY <1>1, <3>2 DEF AbstractAhead
    <3>3. ASSUME NEW p \in Abstract!Pending \X {r} PROVE p \in AbstractAhead'
      <4>1. p[1] \in Requests /\ p[2] = r /\ p \in Requests \X Requests
        BY <3>3 DEF Abstract!Pending
      <4>2. LastPart(p[1]) \in InQueue
        BY <3>3, <4>1, PendingIsQueued
      <4> QED BY <1>1, <1>2, <4>1, <4>2 DEF AbstractAhead
    <3> QED BY <3>1, <3>2, <3>3
  <2> QED BY <1>2, <2>1, AddFirstPhase DEF Abstract!Accept
<1>3. CASE n # Parts[r]
  <2>1. AbstractAhead' = AbstractAhead
    BY <1>1, <1>3 DEF AbstractAhead
  <2> QED BY <1>3, <2>1, AddFirstPhase DEF Abstract!Refuse
<1> QED BY <1>2, <1>3

-----------------------------------------------------------------------------
(***************************************************************************)
(* Serving and giving up.                                                  *)
(***************************************************************************)

\* The request that owns the head of the queue.
LEMMA HeadFacts ==
  ASSUME RInv, queue # <<>>
  PROVE  /\ Head(queue) = queue[1] /\ 1 \in 1..Len(queue) /\ Len(queue) \in Nat
         /\ Head(queue) \in Command /\ Head(queue)[1] \in Requests
         /\ Head(queue) = <<Head(queue)[1], Head(queue)[2]>>
         /\ state[Head(queue)] \in Queued
BY HeadReady, QueueElements, CommandForm DEF RInv, IInv

\* A step that touches no request for the first time keeps AllOrNone.
LEMMA AllOrNoneKept ==
  ASSUME AllOrNone, \A c \in Command : state'[c] = "PREPARE" <=> state[c] = "PREPARE"
  PROVE  AllOrNone'
<1> SUFFICES ASSUME NEW c \in Command, state'[c] = "PREPARE" PROVE Untouched(c[1])'
  BY DEF AllOrNone
<1>1. Untouched(c[1]) /\ c[1] \in Requests
  BY CommandForm DEF AllOrNone
<1> QED BY <1>1, CommandForm DEF Untouched

\* A step that runs nothing but the head of the queue keeps Begun.
LEMMA BegunKept ==
  ASSUME RInv, queue # <<>>,
         \A c \in Command : Ran(c) => Ran(c)',
         \A c \in Command : Ran(c)' => Ran(c) \/ c = Head(queue)
  PROVE  Begun'
<1> SUFFICES ASSUME NEW c \in Command, Ran(c)' PROVE Ran(<<c[1], 1>>)'
  BY DEF Begun
<1>1. c[1] \in Requests /\ <<c[1], 1>> \in Command /\ c = <<c[1], c[2]>>
  BY CommandForm, FirstAndLast
<1>2. CASE Ran(c)
  BY <1>1, <1>2 DEF RInv, Begun
<1>3. CASE c = Head(queue)
  <2>1. CASE c[2] > 1
    <3>1. state[Pred(c)] = "DONE"
      BY <1>3, <2>1, HeadReady DEF RInv
    <3>2. Pred(c) \in Command /\ Pred(c)[1] = c[1]
      <4>1. c[2] \in 1..Parts[c[1]] /\ Parts[c[1]] \in Nat
        BY <1>1, CommandForm, PartsNat
      <4>2. c[2] - 1 \in 1..Parts[c[1]]
        BY <2>1, <4>1
      <4> QED BY <1>1, <4>2, CommandForm DEF Pred
    <3>3. Ran(<<c[1], 1>>)
      BY <3>1, <3>2 DEF RInv, Begun, Ran
    <3> QED BY <1>1, <3>3
  <2>2. CASE ~(c[2] > 1)
    <3>1. c[2] = 1
      <4>1. c[2] \in 1..Parts[c[1]] /\ Parts[c[1]] \in Nat
        BY <1>1, CommandForm, PartsNat
      <4> QED BY <2>2, <4>1
    <3> QED BY <1>1, <3>1
  <2> QED BY <2>1, <2>2
<1> QED BY <1>2, <1>3

\* What is still in front of what when the head has left.
LEMMA InFrontTail ==
  ASSUME RInv, queue # <<>>, queue' = Tail(queue), NEW s \in Requests, NEW t \in Requests
  PROVE  InFront(s, t)' <=> InFront(s, t) /\ LastPart(s) # Head(queue) /\ LastPart(t) # Head(queue)
<1> DEFINE L == Len(queue)
<1>1. Head(queue) = queue[1] /\ 1 \in 1..L /\ L \in Nat
  BY HeadFacts
<1>2. Len(queue') \in Nat /\ Len(queue') = L - 1 /\ \A i \in 1..Len(queue') : queue'[i] = queue[i + 1]
  BY DEF RInv, IInv, TypeOK
<1>3. ASSUME InFront(s, t)'
      PROVE  InFront(s, t) /\ LastPart(s) # Head(queue) /\ LastPart(t) # Head(queue)
  <2>1. PICK i \in 1..Len(queue'), j \in 1..Len(queue') :
           i < j /\ queue'[i] = LastPart(s) /\ queue'[j] = LastPart(t)
    BY <1>3 DEF InFront
  <2>2. i + 1 \in 1..L /\ j + 1 \in 1..L /\ i + 1 < j + 1 /\ i + 1 # 1 /\ j + 1 # 1
    BY <1>1, <1>2, <2>1
  <2>3. queue[i + 1] = LastPart(s) /\ queue[j + 1] = LastPart(t)
    BY <1>2, <2>1
  <2>4. queue[i + 1] # queue[1] /\ queue[j + 1] # queue[1]
    BY <1>1, <2>2, Place
  <2>5. InFront(s, t)
    BY <2>2, <2>3 DEF InFront
  <2> QED BY <1>1, <2>3, <2>4, <2>5
<1>4. InFront(s, t) /\ LastPart(s) # Head(queue) /\ LastPart(t) # Head(queue) => InFront(s, t)'
  <2>1. HAVE InFront(s, t) /\ LastPart(s) # Head(queue) /\ LastPart(t) # Head(queue)
  <2>2. PICK i \in 1..L, j \in 1..L : i < j /\ queue[i] = LastPart(s) /\ queue[j] = LastPart(t)
    BY <2>1 DEF InFront
  <2>3. i # 1 /\ j # 1
    BY <1>1, <2>1, <2>2
  <2>4. /\ i - 1 \in 1..Len(queue') /\ j - 1 \in 1..Len(queue') /\ i - 1 < j - 1
        /\ (i - 1) + 1 = i /\ (j - 1) + 1 = j
    BY <1>1, <1>2, <2>2, <2>3
  <2>5. queue'[i - 1] = LastPart(s) /\ queue'[j - 1] = LastPart(t)
    BY <1>2, <2>2, <2>4
  <2> QED BY <2>4, <2>5 DEF InFront
<1> HIDE DEF L
<1> QED BY <1>3, <1>4

\* Both of two requests one in front of the other are pending, and differ.
LEMMA InFrontFacts ==
  ASSUME RInv, NEW s \in Requests, NEW t \in Requests, InFront(s, t)
  PROVE  s # t /\ LastPart(s) \in InQueue /\ LastPart(t) \in InQueue
<1>1. PICK i \in 1..Len(queue), j \in 1..Len(queue) :
         i < j /\ queue[i] = LastPart(s) /\ queue[j] = LastPart(t)
  BY DEF InFront
<1>2. queue[i] # queue[j]
  <2>1. i # j
    BY <1>1, QueueElements DEF RInv, IInv
  <2> QED BY <2>1, Place
<1> QED BY <1>1, <1>2 DEF InQueue

\* The command at the head is run and its request is not over yet.
LEMMA Serves ==
  ASSUME RInv, RInv', queue # <<>>, NEW x \in {"DONE", "WAITING"},
         NEW h \in Command, h = Head(queue), NEW q \in Requests, q = h[1],
         state' = [state EXCEPT ![h] = x],
         h = LastPart(q) => x = "WAITING",
         AbstractAhead' = AbstractAhead
  PROVE  Abstract!Begin(q) \/ UNCHANGED Abstract!vars
<1>1. h = <<q, h[2]>> /\ state[h] \in Queued
  BY HeadFacts
<1>2. \A c \in Command : state'[c] = IF c = h THEN x ELSE state[c]
  BY <1>1 DEF RInv, IInv, TypeOK
<1>3. ASSUME NEW s \in Requests, s # q PROVE AbstractPhase'[s] = AbstractPhase[s]
  <2>1. LastPart(s) \in Command /\ <<s, 1>> \in Command /\ LastPart(s) # h /\ <<s, 1>> # h
    BY <1>1, <1>3, FirstAndLast DEF LastPart
  <2>2. state'[LastPart(s)] = state[LastPart(s)] /\ state'[<<s, 1>>] = state[<<s, 1>>]
    BY <1>2, <2>1
  <2> QED BY <2>2, PhaseSame DEF Ran
<1>4. Ran(<<q, 1>>)'
  <2>1. Ran(h)'
    BY <1>1, <1>2 DEF Ran
  <2> QED BY <1>1, <2>1 DEF RInv, Begun
<1>5. LastPart(q) \in Command
  BY <1>1, FirstAndLast
<1>6. \/ state'[LastPart(q)] = state[LastPart(q)]
      \/ state'[LastPart(q)] \in Queued /\ state[LastPart(q)] \in Queued
  BY <1>1, <1>2, <1>5 DEF Queued
<1>7. CASE state[LastPart(q)] \in Queued /\ ~Ran(<<q, 1>>)
  <2>1. AbstractPhase[q] = "queued"
    BY <1>1, <1>7, PhaseCases DEF PhaseOf
  <2>2. state'[LastPart(q)] \in Queued
    BY <1>6, <1>7
  <2>3. AbstractPhase'[q] = "active"
    BY <1>1, <1>4, <2>2, PhaseCasesNext DEF PhaseOf
  <2>4. Abstract!First(q)
    <3>1. q \in Abstract!Pending
      BY <1>1, <2>1 DEF Abstract!Pending
    <3>2. \A s \in Requests : ~InFront(s, q)
      BY <1>1, HeadIsFirst
    <3> QED BY <3>1, <3>2 DEF Abstract!First, AbstractAhead
  <2>5. AbstractPhase' = [AbstractPhase EXCEPT ![q] = "active"]
    BY <1>1, <1>3, <2>3, PhaseOnly
  <2> QED BY <2>1, <2>4, <2>5 DEF Abstract!Begin
<1>8. CASE ~(state[LastPart(q)] \in Queued /\ ~Ran(<<q, 1>>))
  <2>1. AbstractPhase'[q] = AbstractPhase[q]
    BY <1>1, <1>4, <1>6, <1>8, PhaseSame
  <2>2. AbstractPhase' = AbstractPhase
    <3>1. /\ AbstractPhase = [s \in Requests |-> AbstractPhase[s]]
          /\ AbstractPhase' = [s \in Requests |-> AbstractPhase'[s]]
      BY DEF AbstractPhase
    <3>2. \A s \in Requests : AbstractPhase'[s] = AbstractPhase[s]
      BY <1>3, <2>1
    <3> QED BY <3>1, <3>2
  <2> QED BY <2>2 DEF Abstract!vars
<1> QED BY <1>7, <1>8

\* The head of the queue is done: it begins or completes a request.
LEMMA HeadDoneMaps ==
  ASSUME RInv, IInv', HeadDone
  PROVE  RInv' /\ (Abstract!Next \/ UNCHANGED Abstract!vars)
<1>1. PICK h \in Command, q \in Requests : h = Head(queue) /\ q = h[1]
  BY HeadFacts DEF HeadDone, HeadRuns
<1>2. /\ queue # <<>> /\ queue' = Tail(queue)
      /\ h = <<q, h[2]>> /\ state[h] \in Queued
      /\ state' = [state EXCEPT ![h] = "DONE"]
  BY <1>1, HeadFacts DEF HeadDone, HeadRuns
<1>3. \A c \in Command : state'[c] = IF c = h THEN "DONE" ELSE state[c]
  BY <1>2 DEF RInv, IInv, TypeOK
<1>4. RInv'
  <2>1. Contiguous'
    <3>1. /\ Len(queue) \in Nat /\ Len(queue') \in Nat /\ Len(queue') = Len(queue) - 1
          /\ \A i \in 1..Len(queue') : queue'[i] = queue[i + 1]
      BY <1>2 DEF RInv, IInv, TypeOK
    <3> SUFFICES ASSUME NEW i \in 1..Len(queue'), NEW m \in 1..Len(queue'),
                        NEW j \in 1..Len(queue'),
                        i < m, m < j, queue'[i][1] = queue'[j][1]
                 PROVE  queue'[m][1] = queue'[i][1]
      BY DEF Contiguous
    <3>2. /\ i + 1 \in 1..Len(queue) /\ m + 1 \in 1..Len(queue) /\ j + 1 \in 1..Len(queue)
          /\ i + 1 < m + 1 /\ m + 1 < j + 1
      BY <3>1
    <3>3. queue'[i] = queue[i + 1] /\ queue'[m] = queue[m + 1] /\ queue'[j] = queue[j + 1]
      BY <3>1
    <3>4. queue[i + 1][1] = queue[j + 1][1]
      BY <3>3
    <3>5. queue[m + 1][1] = queue[i + 1][1]
      BY <3>2, <3>4 DEF RInv, Contiguous
    <3> QED BY <3>3, <3>5
  <2>2. Begun'
    BY <1>1, <1>2, <1>3, BegunKept DEF Ran
  <2>3. AllOrNone'
    BY <1>2, <1>3, AllOrNoneKept DEF RInv, Queued
  <2> QED BY <2>1, <2>2, <2>3 DEF RInv
<1>5. \A s, t \in Requests :
         InFront(s, t)' <=> InFront(s, t) /\ LastPart(s) # h /\ LastPart(t) # h
  BY <1>1, <1>2, InFrontTail
<1>6. CASE h = LastPart(q)
  <2>1. AbstractPhase'[q] = "completed"
    <3>1. state'[LastPart(q)] = "DONE"
      BY <1>3, <1>6
    <3> QED BY <1>4, <3>1, PhaseCasesNext DEF PhaseOf
  <2>2. ASSUME NEW s \in Requests, s # q PROVE AbstractPhase'[s] = AbstractPhase[s]
    <3>1. LastPart(s) \in Command /\ <<s, 1>> \in Command /\ LastPart(s) # h /\ <<s, 1>> # h
      BY <1>2, <2>2, FirstAndLast DEF LastPart
    <3>2. state'[LastPart(s)] = state[LastPart(s)] /\ state'[<<s, 1>>] = state[<<s, 1>>]
      BY <1>3, <3>1
    <3> QED BY <1>4, <3>2, PhaseSame DEF Ran
  <2>3. AbstractPhase' = [AbstractPhase EXCEPT ![q] = "completed"]
    BY <2>1, <2>2, PhaseOnly
  <2>4. Abstract!First(q)
    <3>1. q \in Abstract!Pending
      BY <1>2, <1>6, PendingIsQueued
    <3>2. \A s \in Requests : ~InFront(s, q)
      BY <1>1, <1>2, HeadIsFirst
    <3> QED BY <3>1, <3>2 DEF Abstract!First, AbstractAhead
  <2>5. \A s \in Requests : LastPart(s) = h <=> s = q
    BY <1>6, FirstAndLast
  <2>6. AbstractAhead' = Abstract!Without({q})
    BY <1>5, <2>5 DEF AbstractAhead, Abstract!Without
  <2> QED BY <1>4, <2>3, <2>4, <2>6 DEF Abstract!Next, Abstract!Complete
<1>7. CASE h # LastPart(q)
  <2>1. \A s \in Requests : LastPart(s) # h
    BY <1>2, <1>7 DEF LastPart
  <2>2. AbstractAhead' = AbstractAhead
    BY <1>5, <2>1 DEF AbstractAhead
  <2>3. Abstract!Begin(q) \/ UNCHANGED Abstract!vars
    BY <1>1, <1>2, <1>4, <1>7, <2>2, Serves
  <2> QED BY <1>4, <2>3 DEF Abstract!Next
<1> QED BY <1>6, <1>7

\* The head of the queue waits: its request has begun.
LEMMA HeadWaitsMaps ==
  ASSUME RInv, IInv', HeadWaits
  PROVE  RInv' /\ (Abstract!Next \/ UNCHANGED Abstract!vars)
<1>1. PICK h \in Command, q \in Requests : h = Head(queue) /\ q = h[1]
  BY HeadFacts DEF HeadWaits, HeadRuns
<1>2. /\ queue # <<>> /\ queue' = queue /\ state[h] \in Queued
      /\ state' = [state EXCEPT ![h] = "WAITING"]
  BY <1>1, HeadFacts DEF HeadWaits, HeadRuns
<1>3. \A c \in Command : state'[c] = IF c = h THEN "WAITING" ELSE state[c]
  BY <1>2 DEF RInv, IInv, TypeOK
<1>4. RInv'
  <2>1. Contiguous'
    BY <1>2 DEF RInv, Contiguous
  <2>2. Begun'
    BY <1>1, <1>2, <1>3, BegunKept DEF Ran
  <2>3. AllOrNone'
    BY <1>2, <1>3, AllOrNoneKept DEF RInv, Queued
  <2> QED BY <2>1, <2>2, <2>3 DEF RInv
<1>5. AbstractAhead' = AbstractAhead
  BY <1>2 DEF AbstractAhead, InFront
<1>6. Abstract!Begin(q) \/ UNCHANGED Abstract!vars
  BY <1>1, <1>2, <1>4, <1>5, Serves
<1> QED BY <1>4, <1>6 DEF Abstract!Next

\* The queue is cleared.
LEMMA DiscardMaps ==
  ASSUME RInv, IInv', queue # <<>>,
         NEW fate \in {"FAILED", "DISCARDED"},
         fate = "DISCARDED" => ~Ran(Head(queue)),
         state' = Discard(fate),
         queue' = <<>>
  PROVE  RInv' /\ Abstract!Abort
<1>1. PICK h \in Command, q \in Requests : h = Head(queue) /\ q = h[1]
  BY HeadFacts
<1>2. h = queue[1] /\ h = <<q, h[2]>> /\ state[h] \in Queued /\ h \in InQueue /\ Len(queue) \in Nat
  BY <1>1, HeadFacts DEF InQueue
<1>3. \A c \in Command : state'[c] = IF c \notin InQueue THEN state[c]
                                     ELSE IF c = h THEN fate ELSE "DISCARDED"
  BY <1>1 DEF Discard
<1>4. \A c \in Command : c \in InQueue <=> state[c] \in Queued
  BY DEF RInv, IInv, QueueConsistent
<1>5. \A c \in Command : state[c] = "WAITING" => c = h
  <2> SUFFICES ASSUME NEW c \in Command, state[c] = "WAITING" PROVE c = h
    OBVIOUS
  <2>1. c \in InQueue
    BY <1>4 DEF Queued
  <2>2. PICK i \in 1..Len(queue) : queue[i] = c
    BY <2>1 DEF InQueue
  <2>3. i = 1
    BY <2>2 DEF RInv, IInv, QueueConsistent
  <2> QED BY <1>2, <2>2, <2>3
<1>6. RInv'
  <2>1. Contiguous'
    <3>1. Len(queue') = 0
      OBVIOUS
    <3> QED BY <3>1 DEF Contiguous
  <2>2. \A c \in Command : Ran(c) => Ran(c)'
    <3> SUFFICES ASSUME NEW c \in Command, Ran(c) PROVE Ran(c)'
      OBVIOUS
    <3>1. CASE state[c] = "WAITING"
      BY <1>1, <1>2, <1>3, <1>5, <3>1 DEF Ran
    <3>2. CASE state[c] \in {"DONE", "FAILED"}
      BY <1>3, <1>4, <3>2 DEF Ran, Queued
    <3> QED BY <3>1, <3>2 DEF Ran
  <2>3. \A c \in Command : Ran(c)' => Ran(c) \/ c = Head(queue)
    BY <1>1, <1>3 DEF Ran
  <2>4. Begun'
    BY <2>2, <2>3, BegunKept
  <2>5. AllOrNone'
    BY <1>3, <1>4, AllOrNoneKept DEF RInv, Queued
  <2> QED BY <2>1, <2>4, <2>5 DEF RInv
<1>7. \A s, t \in Requests : ~InFront(s, t)'
  <2>1. Len(queue') = 0
    OBVIOUS
  <2> QED BY <2>1 DEF InFront
<1>8. \A r \in Requests : LastPart(r) \in Command
  BY FirstAndLast
<1>9. ASSUME NEW r \in Requests, LastPart(r) \notin InQueue
      PROVE  AbstractPhase'[r] = AbstractPhase[r]
  <2>1. state'[LastPart(r)] = state[LastPart(r)] /\ state[LastPart(r)] \notin Queued
    BY <1>3, <1>4, <1>8, <1>9
  <2> QED BY <1>6, <2>1, PhaseSame
<1>10. ASSUME NEW r \in Requests, LastPart(r) \in InQueue
       PROVE  AbstractPhase'[r] = "aborted"
  <2>1. state'[LastPart(r)] \in {"FAILED", "DISCARDED"}
    BY <1>3, <1>8, <1>10
  <2> QED BY <1>6, <2>1, PhaseCasesNext DEF PhaseOf
<1>11. /\ AbstractPhase' = [r \in Requests |-> AbstractPhase'[r]]
       /\ AbstractAhead' = {}
  BY <1>7 DEF AbstractPhase, AbstractAhead
<1>12. \A r \in Requests : r \in Abstract!Pending <=> LastPart(r) \in InQueue
  BY PendingIsQueued
<1>13. \A s, t \in Requests :
          InFront(s, t) => s # t /\ LastPart(s) \in InQueue /\ LastPart(t) \in InQueue
  BY InFrontFacts
<1>14. AbstractPhase' = [r \in Requests |-> IF r \in Abstract!Pending THEN "aborted"
                                             ELSE AbstractPhase[r]]
  BY <1>9, <1>10, <1>11, <1>12
<1>15. Abstract!Without(Abstract!Pending) = {}
  BY <1>12, <1>13 DEF Abstract!Without, AbstractAhead
<1> QED BY <1>6, <1>11, <1>14, <1>15 DEF Abstract!Abort

-----------------------------------------------------------------------------
\* No request is touched and none waits when ladish_cqueue_init has run.
LEMMA InitMaps == Init => RInv /\ Abstract!Init
<1> SUFFICES ASSUME Init PROVE RInv /\ Abstract!Init
  OBVIOUS
<1>1. IInv
  BY InitIInv
<1>2. \A r \in Requests : Untouched(r)
  BY CommandForm DEF Init, Untouched
<1>3. Contiguous /\ Begun /\ AllOrNone
  BY <1>2, CommandForm DEF Init, Contiguous, Begun, Ran, AllOrNone
<1>4. AbstractPhase = [r \in Requests |-> "idle"]
  <2>1. AbstractPhase = [r \in Requests |-> AbstractPhase[r]]
    BY DEF AbstractPhase
  <2>2. \A r \in Requests : AbstractPhase[r] = "idle"
    BY <1>1, <1>2, <1>3, FirstAndLast, PhaseCases DEF PhaseOf, RInv, Untouched, LastPart
  <2> QED BY <2>1, <2>2
<1>5. AbstractAhead = {}
  BY DEF Init, AbstractAhead, InFront
<1> QED BY <1>1, <1>3, <1>4, <1>5 DEF RInv, Abstract!Init

\* Every step of the queue is a step of SerialRequests or hidden from it.
LEMMA StepMaps == RInv /\ [Next]_vars => RInv' /\ (Abstract!Next \/ UNCHANGED Abstract!vars)
<1> SUFFICES ASSUME RInv, [Next]_vars
             PROVE  RInv' /\ (Abstract!Next \/ UNCHANGED Abstract!vars)
  OBVIOUS
<1>1. IInv'
  BY NextIInv DEF RInv
<1>2. ASSUME NEW r \in Requests, NEW n \in 0..Parts[r], AddFirst(r, n)
      PROVE  RInv' /\ Abstract!Next
  <2>1. RInv'
    BY <1>1, <1>2, AddFirstRInv
  <2>2. Abstract!Accept(r) \/ Abstract!Refuse(r)
    BY <1>2, <2>1, AddFirstMaps
  <2> QED BY <2>1, <2>2 DEF Abstract!Next
<1>3. ASSUME NEW r \in Requests, Submit(r) PROVE RInv' /\ Abstract!Next
  <2>1. Parts[r] \in 0..Parts[r]
    BY PartsNat
  <2>2. AddFirst(r, Parts[r])
    BY <1>3 DEF Submit, AddFirst, RInv, IInv, TypeOK
  <2> QED BY <1>2, <2>1, <2>2
<1>5. ASSUME NEW r \in Requests, NEW k \in 1..Parts[r], SubmitFails(r, k)
      PROVE  RInv' /\ Abstract!Next
  <2>1. PICK n \in 0..Parts[r] : AddFirst(r, n)
    BY <1>5, SubmitFailsAdds DEF RInv
  <2> QED BY <1>2, <2>1
<1>6. CASE BeginRun \/ HeadStrays \/ UNCHANGED vars
  <2>1. queue' = queue /\ state' = state
    BY <1>6 DEF BeginRun, HeadStrays, vars
  <2>2. RInv'
    BY <1>1, <2>1 DEF RInv, Contiguous, Begun, AllOrNone, Ran, Untouched
  <2>3. UNCHANGED Abstract!vars
    BY <2>1 DEF Abstract!vars, AbstractPhase, AbstractAhead, InFront, Untouched, Ran
  <2> QED BY <2>2, <2>3
<1>7. CASE HeadDone
  BY <1>1, <1>7, HeadDoneMaps
<1>8. CASE HeadWaits
  BY <1>1, <1>8, HeadWaitsMaps
<1>9. CASE HeadFails
  <2>1. RInv' /\ Abstract!Abort
    BY <1>1, <1>9, DiscardMaps DEF HeadFails, HeadRuns
  <2> QED BY <2>1 DEF Abstract!Next
<1>10. CASE Clear
  <2>1. RInv' /\ Abstract!Abort
    <3>1. CASE Ran(Head(queue))
      BY <1>1, <1>10, <3>1, DiscardMaps DEF Clear
    <3>2. CASE ~Ran(Head(queue))
      BY <1>1, <1>10, <3>2, DiscardMaps DEF Clear
    <3> QED BY <3>1, <3>2
  <2> QED BY <2>1 DEF Abstract!Next
<1> QED BY <1>3, <1>5, <1>6, <1>7, <1>8, <1>9, <1>10 DEF Next

\* The queue of cqueue.c keeps the promise of SerialRequests for any number of
\* requests of any lengths: they are served one at a time, in the order they
\* were accepted, and nothing accepted behind a failure is ever served.
THEOREM Refinement == Spec => ImplementsSerialRequests
<1>1. Init => RInv /\ Abstract!Init
  BY InitMaps
<1>2. RInv /\ [Next]_vars => RInv' /\ [Abstract!Next]_(Abstract!vars)
  BY StepMaps
<1> QED BY <1>1, <1>2, PTL DEF Spec, ImplementsSerialRequests, Abstract!Spec

-----------------------------------------------------------------------------
(***************************************************************************)
(* The queue of signals.                                                   *)
(***************************************************************************)
\* Sets of numbers have least elements.
Numbers == \A T \in SUBSET Nat : T # {} => \E n \in T : \A m \in T : n <= m

\* A set of numbers that is not empty has a least element.
LEMMA LeastNumber == Numbers
<1> SUFFICES ASSUME NEW T \in SUBSET Nat, T # {} PROVE \E n \in T : \A m \in T : n <= m BY DEF Numbers
<1>1. PICK n \in T : \A m \in T : <<m, n>> \notin OpToRel(<, Nat)
  BY NatLessThanWellFounded, WFMin, Zenon
<1>2. \A m \in Nat, k \in Nat : m < k => <<m, k>> \in OpToRel(<, Nat) BY Zenon DEF OpToRel
<1>3. ASSUME NEW m \in T PROVE n <= m
  <2>1. m \in Nat /\ n \in Nat OBVIOUS
  <2>2. ~(m < n) BY <1>1, <1>2, <2>1, Zenon
  <2> QED BY <2>1, <2>2
<1> QED BY <1>3

-----------------------------------------------------------------------------
(***************************************************************************)
(* Places.  Whether a room exists, and whether there is no daemon, is      *)
(* followed through the signals on their way: some fill a place, some free *)
(* it, and some are sent only while it is free.  A list of signals is      *)
(* orderly between what is so before it and what is so behind it when      *)
(* every signal is where it can be.                                        *)
(***************************************************************************)

PlaceFor(fills, frees, needs) == [fills |-> fills, frees |-> frees, needs |-> needs]

\* st says after how many signals the place may be taken.
Goes(k, seq, st) ==
  /\ st \in [0..Len(seq) -> BOOLEAN]
  /\ \A i \in 1..Len(seq) :
       /\ seq[i] \in k.fills => st[i]
       /\ st[i-1] /\ seq[i] \notin k.frees => st[i]
       /\ seq[i] \in k.needs => ~st[i-1]

\* From taken or not before to taken or not after.
Orderly(k, before, seq, after) ==
  \E st : Goes(k, seq, st) /\ (before => st[0]) /\ (st[Len(seq)] => after)

\* Without signals the place stays as it is.
LEMMA OrderlyEmpty ==
  ASSUME NEW k, NEW before, NEW after, before => after
  PROVE  Orderly(k, before, << >>, after)
<1> DEFINE st == [i \in 0..0 |-> IF before THEN TRUE ELSE FALSE]
<1>1. Len(<< >>) = 0 /\ 1..0 = {} /\ 0 \in 0..0 OBVIOUS
<1>2. st \in [0..0 -> BOOLEAN] /\ (st[0] <=> before) BY <1>1
<1> HIDE DEF st
<1>3. Goes(k, << >>, st) BY <1>1, <1>2 DEF Goes
<1> QED BY <1>1, <1>2, <1>3 DEF Orderly

\* Less may be taken before, and more after.
LEMMA OrderlyWeaker ==
  ASSUME NEW k, NEW seq, NEW before, NEW after, Orderly(k, before, seq, after),
         NEW b, NEW a, b => before, after => a
  PROVE  Orderly(k, b, seq, a)
BY DEF Orderly

\* Signals that have nothing to do with the place.
LEMMA OrderlyOthers ==
  ASSUME NEW k, NEW S, NEW seq \in Seq(S), NEW before, NEW after, before => after,
         \A x \in Elements(seq) : x \notin k.fills /\ (before => x \notin k.needs)
  PROVE  Orderly(k, before, seq, after)
<1> DEFINE n == Len(seq)
           st == [i \in 0..n |-> IF before THEN TRUE ELSE FALSE]
<1>1. n \in Nat /\ 0 \in 0..n /\ n \in 0..n /\ DOMAIN seq = 1..n OBVIOUS
<1>2. st \in [0..n -> BOOLEAN] /\ \A i \in 0..n : st[i] <=> before OBVIOUS
<1>3. \A i \in 1..n : seq[i] \in Elements(seq) /\ i \in 0..n /\ i - 1 \in 0..n BY <1>1 DEF Elements
<1> HIDE DEF st
<1>4. Goes(k, seq, st) BY <1>1, <1>2, <1>3 DEF Goes
<1> QED BY <1>1, <1>2, <1>4 DEF Orderly

\* A single signal.
LEMMA OrderlyOne ==
  ASSUME NEW k, NEW x, NEW before, NEW after,
         x \in k.fills => after,
         before /\ x \notin k.frees => after,
         x \in k.needs => ~before
  PROVE  Orderly(k, before, <<x>>, after)
<1> DEFINE st == [i \in 0..1 |-> IF i = 0 THEN (IF before THEN TRUE ELSE FALSE) ELSE IF after THEN TRUE ELSE FALSE]
<1>1. Len(<<x>>) = 1 /\ 1..1 = {1} /\ <<x>>[1] = x OBVIOUS
<1>2. st \in [0..1 -> BOOLEAN] /\ (st[0] <=> before) /\ (st[1] <=> after) OBVIOUS
<1> HIDE DEF st
<1>3. \A i \in 1..1 : i = 1 /\ i - 1 = 0 OBVIOUS
<1>4. Goes(k, <<x>>, st) BY <1>1, <1>2, <1>3 DEF Goes
<1> QED BY <1>1, <1>2, <1>4 DEF Orderly

\* Signals behind signals, where the first end as the others begin.
LEMMA OrderlyConcat ==
  ASSUME NEW k, NEW S, NEW seq \in Seq(S), NEW rest \in Seq(S), NEW before, NEW between, NEW after,
         Orderly(k, before, seq, between), Orderly(k, between, rest, after)
  PROVE  Orderly(k, before, seq \o rest, after)
<1> DEFINE n == Len(seq)
           m == Len(rest)
           all == seq \o rest
<1>1. n \in Nat /\ m \in Nat OBVIOUS
<1>2. Len(all) = n + m /\ \A i \in 1..n+m : all[i] = IF i <= n THEN seq[i] ELSE rest[i - n]
  BY ConcatProperties
<1>3. PICK f : Goes(k, seq, f) /\ (before => f[0]) /\ (f[n] => between) BY DEF Orderly
<1>4. PICK g : Goes(k, rest, g) /\ (between => g[0]) /\ (g[m] => after) BY DEF Orderly
<1> DEFINE st == [i \in 0..n+m |-> IF i < n THEN f[i] ELSE g[i - n]]
<1>5. f \in [0..n -> BOOLEAN] /\ g \in [0..m -> BOOLEAN] BY <1>3, <1>4 DEF Goes
<1>6. \A i \in 0..n+m : /\ i < n => st[i] = f[i]
                        /\ i >= n => st[i] = g[i - n]
  OBVIOUS
<1>7. st \in [0..n+m -> BOOLEAN] BY <1>1, <1>5
<1> HIDE DEF st, all
<1>8. \A i \in 0..n : f[i] => st[i] BY <1>1, <1>3, <1>4, <1>6
<1>9. ASSUME NEW i \in 1..n+m
      PROVE  /\ all[i] \in k.fills => st[i]
             /\ st[i-1] /\ all[i] \notin k.frees => st[i]
             /\ all[i] \in k.needs => ~st[i-1]
  <2>1. CASE i <= n
    <3>1. i \in 1..n /\ i - 1 \in 0..n+m /\ i - 1 < n /\ i \in 0..n BY <1>1, <2>1
    <3>2. all[i] = seq[i] /\ st[i-1] = f[i-1] BY <3>1, <1>2, <1>6, <2>1
    <3> QED BY <3>1, <3>2, <1>3, <1>8 DEF Goes
  <2>2. CASE i > n
    <3>1. i - n \in 1..m /\ i - 1 \in 0..n+m /\ i - 1 >= n /\ i \in 0..n+m /\ i >= n /\ (i - 1) - n = (i - n) - 1
      BY <1>1, <2>2
    <3>2. all[i] = rest[i - n] /\ st[i-1] = g[(i-n)-1] /\ st[i] = g[i-n] BY <3>1, <1>2, <1>6, <2>2
    <3> QED BY <3>1, <3>2, <1>4 DEF Goes
  <2> QED BY <1>1, <2>1, <2>2
<1>10. Goes(k, all, st) BY <1>2, <1>7, <1>9 DEF Goes
<1>11. (before => st[0]) /\ (st[n + m] => after)
  <2>1. 0 \in 0..n /\ n + m \in 0..n+m /\ n + m >= n /\ (n + m) - n = m BY <1>1
  <2> QED BY <2>1, <1>3, <1>4, <1>6, <1>8
<1> QED BY <1>2, <1>10, <1>11 DEF Orderly, all

\* The first signal is taken off.
LEMMA OrderlyTail ==
  ASSUME NEW k, NEW S, NEW seq \in Seq(S), seq # << >>, NEW before, NEW after, Orderly(k, before, seq, after),
         NEW now, now => (before /\ Head(seq) \notin k.frees) \/ Head(seq) \in k.fills
  PROVE  Orderly(k, now, Tail(seq), after)
<1> DEFINE n == Len(seq)
           rest == Tail(seq)
<1>1. n \in Nat /\ n >= 1 /\ Head(seq) = seq[1] OBVIOUS
<1>2. Len(rest) = n - 1 /\ \A i \in 1..n-1 : rest[i] = seq[i+1] BY HeadTailProperties
<1>3. PICK f : Goes(k, seq, f) /\ (before => f[0]) /\ (f[n] => after) BY DEF Orderly
<1> DEFINE st == [i \in 0..n-1 |-> f[i+1]]
<1>4. st \in [0..n-1 -> BOOLEAN] /\ st[n-1] = f[n] /\ st[0] = f[1] BY <1>1, <1>3 DEF Goes
<1>5. \A i \in 1..n-1 : st[i] = f[i+1] /\ st[i-1] = f[(i+1)-1] /\ i + 1 \in 1..n BY <1>1
<1> HIDE DEF st, rest
<1>6. Goes(k, rest, st) BY <1>2, <1>3, <1>4, <1>5 DEF Goes
<1>7. now => st[0] BY <1>1, <1>3, <1>4 DEF Goes
<1> QED BY <1>2, <1>3, <1>4, <1>6, <1>7 DEF Orderly, rest

\* A signal that needs the place free finds it free.
LEMMA OrderlyHead ==
  ASSUME NEW k, NEW S, NEW seq \in Seq(S), seq # << >>, NEW before, NEW after, Orderly(k, before, seq, after),
         Head(seq) \in k.needs
  PROVE  ~before
<1>1. Len(seq) \in Nat /\ 1 \in 1..Len(seq) /\ Head(seq) = seq[1] /\ 1 - 1 = 0 OBVIOUS
<1> QED BY <1>1 DEF Orderly, Goes

\* Members are found one after the other.
OpMembers(c, acc, x) == IF x \in c THEN Append(acc, x) ELSE acc

\* What is known of the members among the first i elements.
MembersUpTo(c, acc, list, i) ==
  /\ acc \in Seq(Elements(list))
  /\ \A x : (\E k \in 1..Len(acc) : acc[k] = x) <=> (x \in c /\ \E k \in 1..i : list[k] = x)
  /\ IsInjective(list) => IsInjective(acc)

MembersFold == INSTANCE FoldFacts WITH Op <- OpMembers, Inv <- MembersUpTo

\* One element further the members are still those of the part gone through.
LEMMA MembersStep ==
  ASSUME NEW R, NEW list \in Seq(R), NEW S, NEW a, NEW i \in 1..Len(list), MembersUpTo(S, a, list, i - 1)
  PROVE  MembersUpTo(S, OpMembers(S, a, list[i]), list, i)
<1> DEFINE x == list[i]
           E == Elements(list)
<1>1. Len(list) \in Nat /\ DOMAIN list = 1..Len(list) OBVIOUS
<1>5. i \in DOMAIN list /\ x \in E BY <1>1 DEF Elements
<1>2. a \in Seq(E) /\ Len(a) \in Nat /\ DOMAIN a = 1..Len(a) BY DEF MembersUpTo
<1>3. i \in Nat /\ i \in 1..i /\ \A k \in 1..i : k \in 1..(i-1) \/ k = i BY <1>1
<1>4. \A k \in 1..(i-1) : k \in 1..i /\ k \in DOMAIN list /\ k # i BY <1>1
<1> HIDE DEF E
<1>6. CASE x \notin S
  <2>1. OpMembers(S, a, x) = a BY <1>6 DEF OpMembers
  <2> QED BY <2>1, <1>3, <1>4, <1>6 DEF MembersUpTo
<1>7. CASE x \in S
  <2> DEFINE b == OpMembers(S, a, x)
  <2>1. b = Append(a, x) BY <1>7 DEF OpMembers
  <2>2. /\ b \in Seq(E) /\ Len(b) = Len(a) + 1 /\ b[Len(a) + 1] = x
        /\ \A k \in 1..Len(a) : b[k] = a[k]
    BY <1>5, <1>2, <2>1, AppendProperties
  <2>3. DOMAIN b = 1..(Len(a) + 1) BY <2>2
  <2> HIDE DEF b
  <2>4. \A k \in 1..Len(b) : k \in 1..Len(a) \/ k = Len(a) + 1 BY <1>2, <2>2
  <2>5. \A k \in 1..Len(a) : k \in 1..Len(b) BY <1>2, <2>2
  <2>6. Len(a) + 1 \in 1..Len(b) BY <1>2, <2>2
  <2>7. ASSUME NEW y
        PROVE  (\E k \in 1..Len(b) : b[k] = y) <=> (y \in S /\ \E k \in 1..i : list[k] = y)
    <3>1. (\E k \in 1..Len(b) : b[k] = y) <=> y = x \/ \E k \in 1..Len(a) : a[k] = y
      BY <2>2, <2>4, <2>5, <2>6, Zenon
    <3>2. (\E k \in 1..Len(a) : a[k] = y) <=> (y \in S /\ \E k \in 1..(i-1) : list[k] = y)
      BY Zenon DEF MembersUpTo
    <3>3. (\E k \in 1..i : list[k] = y) <=> y = x \/ \E k \in 1..(i-1) : list[k] = y
      BY <1>3, <1>4, Zenon
    <3> QED BY <3>1, <3>2, <3>3, <1>7
  <2>8. IsInjective(list) => IsInjective(b)
    <3> SUFFICES ASSUME IsInjective(list), NEW k \in DOMAIN b, NEW l \in DOMAIN b, b[k] = b[l]
                 PROVE  k = l
      BY DEF IsInjective
    <3>1. x \notin { a[m] : m \in 1..Len(a) }
      <4> SUFFICES ASSUME NEW m \in 1..Len(a), a[m] = x PROVE FALSE OBVIOUS
      <4>1. PICK n \in 1..(i-1) : list[n] = x BY Zenon DEF MembersUpTo
      <4> QED BY <4>1, <1>4, <1>5 DEF IsInjective
    <3>2. CASE k \in 1..Len(a) /\ l \in 1..Len(a)
      BY <3>2, <2>2, <1>2 DEF MembersUpTo, IsInjective
    <3>3. CASE k = Len(a) + 1 /\ l \in 1..Len(a) BY <3>1, <3>3, <2>2
    <3>4. CASE l = Len(a) + 1 /\ k \in 1..Len(a) BY <3>1, <3>4, <2>2
    <3> QED BY <3>2, <3>3, <3>4, <2>3, <1>2
  <2> QED BY <2>2, <2>7, <2>8 DEF MembersUpTo, b, E
<1> QED BY <1>6, <1>7

\* Select returns the elements that are in the set, none twice if the list has none twice.
LEMMA MembersFacts ==
  ASSUME NEW R, NEW list \in Seq(R), NEW S
  PROVE  /\ Members(list, S) \in Seq(R)
         /\ Elements(Members(list, S)) = Elements(list) \cap S
         /\ IsInjective(list) => IsInjective(Members(list, S))
<1> DEFINE r == Members(list, S)
           n == Len(list)
<1>1. r = MembersFold!Recursed(S, << >>, list)
  BY Zenon DEF Members, MembersFold!Recursed, OpMembers
<1> HIDE DEF r
<1>2. n \in Nat /\ DOMAIN list = 1..n OBVIOUS
<1>3. MembersUpTo(S, << >>, list, 0)
  <2>1. Len(<< >>) = 0 /\ DOMAIN << >> = {} /\ 1..0 = {} OBVIOUS
  <2>2. << >> \in Seq(Elements(list)) OBVIOUS
  <2> QED BY <2>1, <2>2 DEF MembersUpTo, IsInjective
<1>4. MembersFold!Kept(S, list) BY MembersStep DEF MembersFold!Kept
<1>n. MembersFold!LeastNumbers BY LeastNumber DEF Numbers, MembersFold!LeastNumbers
<1>5. MembersUpTo(S, r, list, n) BY <1>1, <1>3, <1>4, <1>n, MembersFold!RecursionKeeps
<1>6. r \in Seq(Elements(list)) /\ DOMAIN r = 1..Len(r) BY <1>5 DEF MembersUpTo
<1>7. r \in Seq(R)
  <2>1. \A x \in Elements(list) : x \in R BY DEF Elements
  <2> QED BY <1>6, <2>1
<1>8. Elements(r) = Elements(list) \cap S
  <2> SUFFICES ASSUME NEW x PROVE x \in Elements(r) <=> x \in Elements(list) /\ x \in S OBVIOUS
  <2>1. (\E k \in 1..Len(r) : r[k] = x) <=> (x \in S /\ \E k \in 1..n : list[k] = x)
    BY <1>5, Zenon DEF MembersUpTo
  <2> QED BY <2>1, <1>2, <1>6 DEF Elements
<1> QED BY <1>5, <1>7, <1>8 DEF MembersUpTo, r

\* Some signals are kept, one after the other.
OpKept(p, acc, x) == IF x \in p[1] THEN Append(acc, x) ELSE acc

KeptUpTo(p, acc, list, i) ==
  /\ acc \in Seq(Elements(list))
  /\ \E f : Goes(p[2], acc, f) /\ (p[3][0] => f[0]) /\ (f[Len(acc)] => p[3][i])

KeptFold == INSTANCE FoldFacts WITH Op <- OpKept, Inv <- KeptUpTo

\* What is left of a list of signals when none that frees the place is lost.
LEMMA OrderlyMembers ==
  ASSUME NEW k, NEW R, NEW list \in Seq(R), NEW before, NEW after, Orderly(k, before, list, after),
         NEW S, \A x \in Elements(list) : x \notin S => x \notin k.frees
  PROVE  Orderly(k, before, Members(list, S), after)
<1> DEFINE n == Len(list)
<1>1. PICK st : Goes(k, list, st) /\ (before => st[0]) /\ (st[n] => after) BY DEF Orderly
<1> DEFINE p == <<S, k, st>>
           r == Members(list, S)
<1>2. r = KeptFold!Recursed(p, << >>, list) BY Zenon DEF Members, KeptFold!Recursed, OpKept
<1>3. n \in Nat /\ DOMAIN list = 1..n /\ list \in Seq(Elements(list)) BY DEF Elements
<1>4. KeptUpTo(p, << >>, list, 0)
  <2>1. Orderly(k, st[0], << >>, st[0]) BY OrderlyEmpty
  <2>2. << >> \in Seq(Elements(list)) OBVIOUS
  <2> QED BY <2>1, <2>2 DEF KeptUpTo, Orderly
<1>5. ASSUME NEW i \in 1..n, NEW acc, KeptUpTo(p, acc, list, i - 1)
      PROVE  KeptUpTo(p, OpKept(p, acc, list[i]), list, i)
  <2>1. list[i] \in Elements(list) BY <1>3 DEF Elements
  <2>2. acc \in Seq(Elements(list)) /\ Orderly(k, st[0], acc, st[i-1]) BY <1>5 DEF KeptUpTo, Orderly
  <2>3. /\ list[i] \in k.fills => st[i]
        /\ st[i-1] /\ list[i] \notin k.frees => st[i]
        /\ list[i] \in k.needs => ~st[i-1]
    BY <1>1 DEF Goes
  <2>4. CASE list[i] \notin S
    <3>1. st[i-1] => st[i] BY <2>1, <2>3, <2>4
    <3>2. Orderly(k, st[0], acc, st[i]) BY <2>2, <3>1, OrderlyWeaker
    <3> QED BY <2>2, <2>4, <3>2 DEF KeptUpTo, Orderly, OpKept
  <2>5. CASE list[i] \in S
    <3>1. Orderly(k, st[i-1], <<list[i]>>, st[i]) BY <2>3, OrderlyOne
    <3>2. Append(acc, list[i]) = acc \o <<list[i]>> /\ <<list[i]>> \in Seq(Elements(list))
      BY <2>1, <2>2, AppendIsConcat
    <3>3. Append(acc, list[i]) \in Seq(Elements(list)) BY <2>1, <2>2
    <3>4. Orderly(k, st[0], Append(acc, list[i]), st[i]) BY <2>2, <3>1, <3>2, OrderlyConcat
    <3> QED BY <2>5, <3>3, <3>4 DEF KeptUpTo, Orderly, OpKept
  <2> QED BY <2>4, <2>5
<1>6. KeptFold!Kept(p, list) BY <1>5 DEF KeptFold!Kept
<1>7. KeptFold!LeastNumbers BY LeastNumber DEF Numbers, KeptFold!LeastNumbers
<1>8. KeptUpTo(p, r, list, n) BY <1>2, <1>3, <1>4, <1>6, <1>7, KeptFold!RecursionKeeps
<1>9. Orderly(k, st[0], r, st[n]) BY <1>8 DEF KeptUpTo, Orderly
<1> QED BY <1>1, <1>9, OrderlyWeaker

\* The members of a finite set as a list.
LEMMA SetAsList ==
  ASSUME NEW S, IsFiniteSet(S)
  PROVE  /\ SetToSeq(S) \in Seq(S)
         /\ Elements(SetToSeq(S)) = S
         /\ IsInjective(SetToSeq(S))
<1> DEFINE n == Cardinality(S)
<1>1. n \in Nat BY FS_CardinalityType
<1>2. PICK f : ExistsBijection(1..n, S) /\ f \in Bijection(1..n, S) BY FS_CardinalityType DEF ExistsBijection
<1>3. f \in [1..n -> S] /\ IsInjective(f)
  BY <1>2 DEF Bijection, Injection, IsInjective
<1> DEFINE g == SetToSeq(S)
<1>4. g \in [1..n -> S] /\ IsInjective(g) BY <1>3 DEF SetToSeq
<1> HIDE DEF g
<1>5. g \in Seq(S) /\ DOMAIN g = 1..n BY <1>1, <1>4
<1>6. g \in Injection(1..n, S) BY <1>4 DEF Injection, IsInjective
<1>7. IsFiniteSet(1..n) /\ Cardinality(1..n) = n BY <1>1, FS_Interval
<1>8. g \in Surjection(1..n, S)
  BY <1>4, <1>6, <1>7, FS_Injection
<1> QED BY <1>4, <1>5, <1>8 DEF Elements, Surjection, g

-----------------------------------------------------------------------------
(***************************************************************************)
(* The daemon.  What it can be, the signals it sends, and what it means    *)
(* that it changes: its signals are orderly for each room and for the      *)
(* daemon itself.  Everything its commands do is put together from such    *)
(* changes.                                                                *)
(***************************************************************************)

Texts == Names \cup {None}
AppRecs == [id : Nat, name : Texts, runs : BOOLEAN, zombie : BOOLEAN]
AppLists == [version : Nat, next : Nat, list : Seq(AppRecs)]
RoomRecs == [name : Texts, project : Texts, version : Nat, saves : Seq(Texts), apps : AppLists]
RunStates == {"stopped", "started", "crashed"}
Daemons ==
  [ up : BOOLEAN, loaded : BOOLEAN, name : Texts, runs : RunStates,
    rooms : [Rooms -> RoomRecs], apps : AppLists ]

OnApps == { "AppAdded2", "AppRemoved", "AppStateChanged2" }
Signals ==
  { OfControl(is) : is \in {"StudioAppeared", "StudioDisappeared", "CleanExit"} }
  \cup { OfBus(is) : is \in {"appeared", "disappeared"} }
  \cup { OfStudio(is, None) : is \in {"StudioStarted", "StudioStopped", "StudioCrashed"} }
  \cup { OfStudio("StudioRenamed", name) : name \in Names }
  \cup { OfRoom(is, r, name) : is \in {"RoomAppeared", "RoomDisappeared"}, r \in Rooms, name \in Names }
  \cup { OfProject(r, x) : r \in Rooms, x \in RoomRecs }
  \cup { OfApp(o, is, a, n) : o \in Objects, is \in OnApps, a \in AppRecs, n \in Nat }

\* The kinds of signals.
SignalFields(s) ==
  /\ s.is \in {"RoomAppeared", "RoomDisappeared"} =>
       s.room \in Rooms /\ s.name \in Names /\ s.on = Studio /\ s.face = "studio"
  /\ s.is \in {"appeared", "disappeared"} <=> s.face = "life"
  /\ s.face = "life" => s.on = "bus"
  /\ s.face = "control" => s.on = "control"
  /\ s.face = "studio" => s.on = Studio
  /\ s.is = "StudioRenamed" => s.name \in Names
  /\ s.face = "apps" => s.on \in Objects /\ s.is \in OnApps /\ s.app \in AppRecs /\ s.version \in Nat
  /\ s.face = "room" => s.on \in Rooms /\ s.is = "ProjectPropertiesChanged" /\ s.name \in Texts /\ s.version \in Nat
  /\ s.face \in {"control", "life", "studio", "room", "apps"}

\* What each kind of signal has.
LEMMA SignalFacts ==
  ASSUME NEW s \in Signals
  PROVE  SignalFields(s)
<1>1. CASE \E is \in {"StudioAppeared", "StudioDisappeared", "CleanExit"} : s = OfControl(is)
  BY <1>1 DEF SignalFields, OfControl, Signal
<1>2. CASE \E is \in {"appeared", "disappeared"} : s = OfBus(is)
  BY <1>2 DEF SignalFields, OfBus, Signal
<1>3. CASE \E is \in {"StudioStarted", "StudioStopped", "StudioCrashed"} : s = OfStudio(is, None)
  BY <1>3 DEF SignalFields, OfStudio, Signal
<1>4. CASE \E name \in Names : s = OfStudio("StudioRenamed", name)
  BY <1>4 DEF SignalFields, OfStudio, Signal
<1>5. CASE \E is \in {"RoomAppeared", "RoomDisappeared"}, r \in Rooms, name \in Names : s = OfRoom(is, r, name)
  BY <1>5 DEF SignalFields, OfRoom, Signal
<1>6. CASE \E r \in Rooms, x \in RoomRecs : s = OfProject(r, x)
  BY <1>6 DEF SignalFields, OfProject, Signal, RoomRecs
<1>7. CASE \E o \in Objects, is \in OnApps, a \in AppRecs, n \in Nat : s = OfApp(o, is, a, n)
  BY <1>7 DEF SignalFields, OfApp, Signal, OnApps
<1> QED BY <1>1, <1>2, <1>3, <1>4, <1>5, <1>6, <1>7 DEF Signals

\* Whether a room exists, and whether there is no daemon.
RoomPlace(r) ==
  PlaceFor({ s \in Signals : s.is = "RoomAppeared" /\ s.room = r },
        { s \in Signals : (s.is = "RoomDisappeared" /\ s.room = r) \/ s.is = "disappeared" },
        { s \in Signals : s.is = "RoomAppeared" /\ s.room = r })

StateSignals == {"StudioAppeared", "StudioDisappeared", "StudioStarted", "StudioStopped", "StudioCrashed"}
LifePlace ==
  PlaceFor({ s \in Signals : s.is = "disappeared" },
        { s \in Signals : s.is = "appeared" },
        { s \in Signals : s.is = "disappeared" \/ s.is \in StateSignals })

\* What is true of the daemon at all times.
Sound(d) ==
  /\ d \in Daemons
  /\ d.up \/ d = Down
  /\ IsFiniteSet(There(d))
  /\ d.loaded => d.name \in Names

\* The daemon becomes and sends what x says.
Changes(d, x) ==
  /\ x = <<x[1], x[2]>>
  /\ Sound(x[1])
  /\ x[2] \in Seq(Signals)
  /\ \A r \in Rooms : Orderly(RoomPlace(r), r \in There(d), x[2], r \in There(x[1]))
  /\ Orderly(LifePlace, ~d.up, x[2], ~x[1].up)

\* Nothing but apps is different.
Same(d, e) ==
  /\ e.up = d.up /\ e.loaded = d.loaded /\ e.name = d.name /\ e.runs = d.runs
  /\ There(e) = There(d)
  /\ \A r \in Rooms : e.rooms[r].name = d.rooms[r].name

\* Nothing happens.
LEMMA NoChange ==
  ASSUME NEW d, Sound(d)
  PROVE  Changes(d, <<d, << >> >>)
<1>1. << >> \in Seq(Signals) OBVIOUS
<1> QED BY <1>1, OrderlyEmpty DEF Changes

\* What is sent by two changes, one after the other.
LEMMA ChangesThen ==
  ASSUME NEW d, NEW x, Changes(d, x), NEW y, Changes(x[1], y)
  PROVE  Changes(d, <<y[1], x[2] \o y[2]>>)
<1> DEFINE z == <<y[1], x[2] \o y[2]>>
<1>1. x[2] \in Seq(Signals) /\ y[2] \in Seq(Signals) BY DEF Changes
<1>2. z[1] = y[1] /\ z[2] = x[2] \o y[2] /\ z = <<z[1], z[2]>> OBVIOUS
<1> HIDE DEF z
<1>3. z[2] \in Seq(Signals) BY <1>1, <1>2
<1>4. \A r \in Rooms : Orderly(RoomPlace(r), r \in There(d), z[2], r \in There(z[1]))
  <2> SUFFICES ASSUME NEW r \in Rooms PROVE Orderly(RoomPlace(r), r \in There(d), z[2], r \in There(z[1])) OBVIOUS
  <2>1. Orderly(RoomPlace(r), r \in There(d), x[2], r \in There(x[1])) BY DEF Changes
  <2>2. Orderly(RoomPlace(r), r \in There(x[1]), y[2], r \in There(y[1])) BY DEF Changes
  <2> QED BY <1>1, <1>2, <2>1, <2>2, OrderlyConcat
<1>5. Orderly(LifePlace, ~d.up, z[2], ~z[1].up)
  <2>1. Orderly(LifePlace, ~d.up, x[2], ~x[1].up) BY DEF Changes
  <2>2. Orderly(LifePlace, ~x[1].up, y[2], ~y[1].up) BY DEF Changes
  <2> QED BY <1>1, <1>2, <2>1, <2>2, OrderlyConcat
<1>6. Sound(z[1]) BY <1>2 DEF Changes
<1> QED BY <1>2, <1>3, <1>4, <1>5, <1>6 DEF Changes, z

\* A change that is told in one signal.
LEMMA ChangesOne ==
  ASSUME NEW d, NEW e, Sound(e), NEW s \in Signals,
         s.is = "RoomAppeared" => s.room \notin There(d) /\ s.room \in There(e),
         s.is \in StateSignals => d.up,
         s.is = "disappeared" => d.up /\ ~e.up,
         \A r \in There(d) : r \in There(e) \/ s.is = "disappeared" \/ (s.is = "RoomDisappeared" /\ s.room = r),
         ~d.up => ~e.up \/ s.is = "appeared"
  PROVE  Changes(d, <<e, <<s>> >>)
<1> DEFINE x == <<e, <<s>> >>
<1>1. x[1] = e /\ x[2] = <<s>> /\ <<s>> \in Seq(Signals) OBVIOUS
<1>2. ASSUME NEW r \in Rooms PROVE Orderly(RoomPlace(r), r \in There(d), <<s>>, r \in There(e))
  <2> DEFINE k == RoomPlace(r)
             b == r \in There(d)
             a == r \in There(e)
  <2>1. s \in k.fills <=> s.is = "RoomAppeared" /\ s.room = r BY DEF RoomPlace, PlaceFor
  <2>2. s \in k.frees <=> ((s.is = "RoomDisappeared" /\ s.room = r) \/ s.is = "disappeared") BY DEF RoomPlace, PlaceFor
  <2>3. s \in k.needs <=> s.is = "RoomAppeared" /\ s.room = r BY DEF RoomPlace, PlaceFor
  <2>4. s \in k.fills => a BY <2>1
  <2>5. b /\ s \notin k.frees => a BY <2>2
  <2>6. s \in k.needs => ~b BY <2>3
  <2> HIDE DEF k, a, b
  <2>7. Orderly(k, b, <<s>>, a) BY <2>4, <2>5, <2>6, OrderlyOne
  <2> QED BY <2>7 DEF k, b, a
<1>3. Orderly(LifePlace, ~d.up, <<s>>, ~e.up)
  <2> DEFINE k == LifePlace
             b == ~d.up
             a == ~e.up
  <2>1. s \in k.fills <=> s.is = "disappeared" BY DEF LifePlace, PlaceFor
  <2>2. s \in k.frees <=> s.is = "appeared" BY DEF LifePlace, PlaceFor
  <2>3. s \in k.needs <=> s.is = "disappeared" \/ s.is \in StateSignals BY DEF LifePlace, PlaceFor
  <2>4. s \in k.fills => a BY <2>1
  <2>5. b /\ s \notin k.frees => a BY <2>2
  <2>6. s \in k.needs => ~b BY <2>3
  <2> HIDE DEF k, a, b
  <2>7. Orderly(k, b, <<s>>, a) BY <2>4, <2>5, <2>6, OrderlyOne
  <2> QED BY <2>7 DEF k, b, a
<1> QED BY <1>1, <1>2, <1>3 DEF Changes

\* A change that is told to nobody who counts.
LEMMA ChangesSilently ==
  ASSUME NEW d, NEW e, Sound(e), There(d) \subseteq There(e), ~d.up => ~e.up
  PROVE  Changes(d, <<e, << >> >>)
<1>1. << >> \in Seq(Signals) OBVIOUS
<1> QED BY <1>1, OrderlyEmpty DEF Changes

\* What is known of a daemon whose list of apps of o becomes l.
LEMMA SupervisedFacts ==
  ASSUME NEW d, Sound(d), d.up, NEW o \in Objects, NEW l \in AppLists
  PROVE  /\ Supervisor(d, o) \in AppLists
         /\ Sound(Supervised(d, o, l))
         /\ Same(d, Supervised(d, o, l))
         /\ Supervisor(Supervised(d, o, l), o) = l
<1> DEFINE e == Supervised(d, o, l)
<1>0. d \in Daemons /\ d.rooms \in [Rooms -> RoomRecs] BY DEF Sound, Daemons
<1>1. CASE o = Studio
  <2>1. e = [d EXCEPT !.apps = l] BY <1>1 DEF Supervised
  <2>2. /\ e \in Daemons /\ e.up = d.up /\ e.loaded = d.loaded /\ e.name = d.name /\ e.runs = d.runs
        /\ e.rooms = d.rooms /\ e.apps = l
    BY <1>0, <2>1 DEF Daemons
  <2> HIDE DEF e
  <2>3. There(e) = There(d) BY <2>2 DEF There
  <2> QED BY <1>0, <1>1, <2>2, <2>3 DEF Sound, Same, Supervisor, Daemons, e
<1>2. CASE o # Studio
  <2>0. o \in Rooms BY <1>2 DEF Objects
  <2> DEFINE x == [d.rooms[o] EXCEPT !.apps = l]
  <2>1. e = [d EXCEPT !.rooms = [d.rooms EXCEPT ![o] = x]] BY <1>2 DEF Supervised
  <2>2. x \in RoomRecs /\ x.name = d.rooms[o].name /\ x.apps = l BY <1>0, <2>0 DEF RoomRecs
  <2> HIDE DEF x
  <2>3. /\ e \in Daemons /\ e.up = d.up /\ e.loaded = d.loaded /\ e.name = d.name /\ e.runs = d.runs
        /\ e.rooms = [d.rooms EXCEPT ![o] = x]
    BY <1>0, <2>0, <2>1, <2>2 DEF Daemons
  <2>4. \A r \in Rooms : e.rooms[r].name = d.rooms[r].name BY <1>0, <2>0, <2>2, <2>3
  <2>5. e.rooms[o].apps = l BY <1>0, <2>0, <2>2, <2>3
  <2> HIDE DEF e
  <2>6. There(e) = There(d) BY <2>4 DEF There
  <2>7. Supervisor(d, o) \in AppLists BY <1>0, <1>2, <2>0 DEF Supervisor, RoomRecs
  <2> QED BY <1>2, <2>3, <2>4, <2>5, <2>6, <2>7 DEF Sound, Same, Supervisor, e
<1> QED BY <1>1, <1>2

\* One that changed apps after one that changed apps.
LEMMA SameFacts ==
  ASSUME NEW d, NEW e, NEW f, Same(d, e), Same(e, f)
  PROVE  Same(d, f)
BY DEF Same

\* Another list under the next version.
LEMMA ListChanged ==
  ASSUME NEW s \in AppLists, NEW t \in Seq(AppRecs)
  PROVE  [s EXCEPT !.version = @ + 1, !.list = t] \in AppLists
<1> DEFINE u == [s EXCEPT !.version = @ + 1]
<1>1. u \in AppLists BY DEF AppLists
<1>2. [s EXCEPT !.version = @ + 1, !.list = t] = [u EXCEPT !.list = t] OBVIOUS
<1> HIDE DEF u
<1>3. [u EXCEPT !.list = t] \in AppLists BY <1>1 DEF AppLists
<1> QED BY <1>2, <1>3

\* One signal about an app.
LEMMA AppTold ==
  ASSUME NEW d, Sound(d), d.up, NEW o \in Objects, NEW l \in AppLists,
         NEW is \in OnApps, NEW a \in AppRecs, NEW n \in Nat
  PROVE  LET e == Supervised(d, o, l)
         IN  Changes(d, <<e, <<OfApp(o, is, a, n)>> >>) /\ Same(d, e)
<1> DEFINE e == Supervised(d, o, l)
           s == OfApp(o, is, a, n)
<1>1. Sound(e) /\ Same(d, e) BY SupervisedFacts
<1>2. s \in Signals BY DEF Signals
<1>3. s.is = is BY DEF OfApp, Signal
<1> HIDE DEF e, s
<1>4. s.is \notin {"RoomAppeared", "appeared", "disappeared"} \cup StateSignals
  BY <1>3 DEF OnApps, StateSignals
<1>5. e.up /\ There(e) = There(d) BY <1>1 DEF Same
<1>7. s.is # "RoomAppeared" /\ s.is # "disappeared" /\ s.is \notin StateSignals BY <1>4
<1>6. Changes(d, <<e, <<s>> >>)
  <2>1. s.is = "RoomAppeared" => s.room \notin There(d) /\ s.room \in There(e) BY <1>7
  <2>2. s.is \in StateSignals => d.up BY <1>7
  <2>3. s.is = "disappeared" => d.up /\ ~e.up BY <1>7
  <2>4. \A r \in There(d) : r \in There(e) \/ s.is = "disappeared" \/ (s.is = "RoomDisappeared" /\ s.room = r) BY <1>5
  <2>5. ~d.up => ~e.up \/ s.is = "appeared" OBVIOUS
  <2> QED BY <1>1, <1>2, <2>1, <2>2, <2>3, <2>4, <2>5, ChangesOne
<1> QED BY <1>1, <1>6 DEF e, s

\* AppAdded is a change.
LEMMA AppAddedChanges ==
  ASSUME NEW d, Sound(d), d.up, NEW o \in Objects, NEW name \in Names
  PROVE  Changes(d, AppAdded(d, o, name)) /\ Same(d, AppAdded(d, o, name)[1])
<1> DEFINE s == Supervisor(d, o)
           a == App(s.next, name)
           l == [version |-> s.version + 1, next |-> s.next + 1, list |-> Append(s.list, a)]
<1>1. s \in AppLists 
  <2>1. PICK z : z \in AppLists
    <3>1. [version |-> 0, next |-> 1, list |-> << >>] \in AppLists BY DEF AppLists
    <3> QED BY <3>1
  <2> QED BY <2>1, SupervisedFacts
<1>2. a \in AppRecs BY <1>1 DEF App, AppRecs, AppLists, Texts
<1>3. l \in AppLists BY <1>1, <1>2 DEF AppLists
<1>4. s.version + 1 \in Nat /\ "AppAdded2" \in OnApps BY <1>1 DEF AppLists, OnApps
<1>5. AppAdded(d, o, name) = <<Supervised(d, o, l), <<OfApp(o, "AppAdded2", a, s.version + 1)>> >> BY DEF AppAdded
<1> HIDE DEF s, a, l
<1> QED BY <1>2, <1>3, <1>4, <1>5, AppTold

\* AppRemoved is a change.
LEMMA AppRemovedChanges ==
  ASSUME NEW d, Sound(d), d.up, NEW o \in Objects, NEW a \in AppRecs
  PROVE  Changes(d, AppRemoved(d, o, a)) /\ Same(d, AppRemoved(d, o, a)[1])
<1> DEFINE s == Supervisor(d, o)
           t == Select(s.list, LAMBDA b : b # a)
           l == [s EXCEPT !.version = @ + 1, !.list = t]
<1>1. s \in AppLists 
  <2>1. PICK z : z \in AppLists
    <3>1. [version |-> 0, next |-> 1, list |-> << >>] \in AppLists BY DEF AppLists
    <3> QED BY <3>1
  <2> QED BY <2>1, SupervisedFacts
<1>2. t \in Seq(AppRecs)
  <2>1. s.list \in Seq(AppRecs) BY <1>1 DEF AppLists
  <2> QED BY <2>1, MembersFacts DEF Select
<1>0. AppRemoved(d, o, a) = <<Supervised(d, o, l), <<OfApp(o, "AppRemoved", a, s.version + 1)>> >> BY DEF AppRemoved
<1> HIDE DEF s, t
<1>3. l \in AppLists BY <1>1, <1>2, ListChanged
<1>4. s.version + 1 \in Nat /\ "AppRemoved" \in OnApps BY <1>1 DEF AppLists, OnApps
<1> HIDE DEF l
<1> QED BY <1>0, <1>3, <1>4, AppTold

\* AppChanged is a change.
LEMMA AppChangedChanges ==
  ASSUME NEW d, Sound(d), d.up, NEW o \in Objects, NEW i \in DOMAIN Supervisor(d, o).list, NEW a \in AppRecs
  PROVE  Changes(d, AppChanged(d, o, i, a)) /\ Same(d, AppChanged(d, o, i, a)[1])
<1> DEFINE s == Supervisor(d, o)
           t == [s.list EXCEPT ![i] = a]
           l == [s EXCEPT !.version = @ + 1, !.list = t]
<1>1. s \in AppLists 
  <2>1. PICK z : z \in AppLists
    <3>1. [version |-> 0, next |-> 1, list |-> << >>] \in AppLists BY DEF AppLists
    <3> QED BY <3>1
  <2> QED BY <2>1, SupervisedFacts
<1>2. t \in Seq(AppRecs)
  <2>1. s.list \in Seq(AppRecs) BY <1>1 DEF AppLists
  <2> QED BY <2>1
<1>0. AppChanged(d, o, i, a) = <<Supervised(d, o, l), <<OfApp(o, "AppStateChanged2", a, s.version + 1)>> >>
  BY DEF AppChanged
<1> HIDE DEF s, t
<1>3. l \in AppLists BY <1>1, <1>2, ListChanged
<1>4. s.version + 1 \in Nat /\ "AppStateChanged2" \in OnApps BY <1>1 DEF AppLists, OnApps
<1> HIDE DEF l
<1> QED BY <1>0, <1>3, <1>4, AppTold

\* One app is removed, or left to end.
ClearOne(p, x, a) ==
  IF a.runs
    THEN LET i == CHOOSE j \in DOMAIN Supervisor(x[1], p[2]).list : Supervisor(x[1], p[2]).list[j] = a
         IN <<Supervised(x[1], p[2], [Supervisor(x[1], p[2]) EXCEPT !.list[i].zombie = TRUE]), x[2]>>
    ELSE Then(x, LAMBDA e : AppRemoved(e, p[2], a))
ClearedUpTo(p, x, list, i) == Changes(p[1], x) /\ Same(p[1], x[1])
ClearFold == INSTANCE FoldFacts WITH Op <- ClearOne, Inv <- ClearedUpTo

\* The list of apps of an object.
LEMMA SupervisorType ==
  ASSUME NEW d, Sound(d), d.up, NEW o \in Objects
  PROVE  Supervisor(d, o) \in AppLists
<1>1. PICK z : z \in AppLists
  <2>1. [version |-> 0, next |-> 1, list |-> << >>] \in AppLists BY DEF AppLists
  <2> QED BY <2>1
<1> QED BY <1>1, SupervisedFacts

\* Clearing goes on with one app.
LEMMA ClearOneKeeps ==
  ASSUME NEW d, Sound(d), d.up, NEW o \in Objects, NEW a \in AppRecs,
         NEW x, Changes(d, x), Same(d, x[1])
  PROVE  LET y == ClearOne(<<d, o>>, x, a) IN Changes(d, y) /\ Same(d, y[1])
<1> DEFINE y == ClearOne(<<d, o>>, x, a)
           e == x[1]
<1>1. Sound(e) /\ e.up BY DEF Changes, Same
<1>2. CASE ~a.runs
  <2>1. y = Then(x, LAMBDA f : AppRemoved(f, o, a)) BY <1>2 DEF ClearOne
  <2>2. y = <<AppRemoved(e, o, a)[1], x[2] \o AppRemoved(e, o, a)[2]>> BY <2>1 DEF Then
  <2>3. Changes(e, AppRemoved(e, o, a)) /\ Same(e, AppRemoved(e, o, a)[1]) BY <1>1, AppRemovedChanges
  <2> DEFINE z == AppRemoved(e, o, a)
  <2> HIDE DEF z
  <2>4. Changes(d, <<z[1], x[2] \o z[2]>>)  BY <2>3, ChangesThen DEF z
  <2>5. Same(d, z[1]) BY <2>3, SameFacts DEF z
  <2>6. y = <<z[1], x[2] \o z[2]>> BY <2>2 DEF z
  <2> HIDE DEF y
  <2>7. Changes(d, y) /\ Same(d, y[1]) BY <2>4, <2>5, <2>6
  <2> QED BY <2>7 DEF y
<1>3. CASE a.runs
  <2> DEFINE s == Supervisor(e, o)
             i == CHOOSE j \in DOMAIN s.list : s.list[j] = a
             l == [s EXCEPT !.list[i].zombie = TRUE]
             f == Supervised(e, o, l)
  <2>1. y = <<f, x[2]>> BY <1>3 DEF ClearOne
  <2>2. s \in AppLists BY <1>1, SupervisorType
  <2> HIDE DEF i, s
  <2>3. l \in AppLists
    <3> DEFINE t == [s.list EXCEPT ![i].zombie = TRUE]
    <3>1. t \in Seq(AppRecs)
      <4>1. s.list \in Seq(AppRecs) BY <2>2 DEF AppLists
      <4>2. CASE i \notin DOMAIN s.list
        <5>1. t = s.list BY <4>1, <4>2
        <5> QED BY <4>1, <5>1
      <4>3. CASE i \in DOMAIN s.list
        <5>1. s.list[i] \in AppRecs BY <4>1, <4>3
        <5> DEFINE b == [s.list[i] EXCEPT !.zombie = TRUE]
        <5>2. b \in AppRecs BY <5>1 DEF AppRecs
        <5>3. t = [s.list EXCEPT ![i] = b] OBVIOUS
        <5> HIDE DEF b, t, l, f
        <5> QED BY <4>1, <4>3, <5>2, <5>3
      <4> QED BY <4>2, <4>3
    <3>2. l = [s EXCEPT !.list = t] OBVIOUS
    <3> HIDE DEF t
    <3> QED BY <2>2, <3>1, <3>2 DEF AppLists
  <2> HIDE DEF l
  <2>4. Sound(f) /\ Same(e, f) BY <1>1, <2>3, SupervisedFacts
  <2> HIDE DEF f
  <2>5. Changes(e, <<f, << >> >>)
    <3>1. There(e) \subseteq There(f) /\ f.up /\ e.up BY <1>1, <2>4 DEF Same
    <3>2. ~e.up => ~f.up BY <3>1
    <3> HIDE DEF e
    <3> QED BY <2>4, <3>1, <3>2, ChangesSilently
  <2> DEFINE z == <<f, << >> >>
  <2>6. Changes(d, <<z[1], x[2] \o z[2]>>)
    <3> HIDE DEF z
    <3>1. Changes(e, z) BY <2>5 DEF z
    <3> QED BY <3>1, ChangesThen
  <2>7. x[2] \o << >> = x[2]
    <3>1. x[2] \in Seq(Signals) BY DEF Changes
    <3> QED BY <3>1
  <2>8. Changes(d, <<f, x[2]>>) BY <2>6, <2>7
  <2>9. Same(d, f) BY <2>4, SameFacts
  <2> QED BY <2>1, <2>8, <2>9
<1> QED BY <1>2, <1>3

\* Clearing goes through the list.
LEMMA AppsClearedIsFold ==
  ASSUME NEW p
  PROVE  AppsCleared(p[1], p[2]) = ClearFold!Folded(p, <<p[1], << >> >>, Supervisor(p[1], p[2]).list)
BY Zenon DEF AppsCleared, ClearFold!Folded, ClearOne, FoldLeft, MapThenFoldSet,
             ClearFold!MapThenFoldSet, Max, ClearFold!Greatest

\* AppsCleared is a change.
LEMMA AppsClearedChanges ==
  ASSUME NEW d, Sound(d), d.up, NEW o \in Objects
  PROVE  Changes(d, AppsCleared(d, o)) /\ Same(d, AppsCleared(d, o)[1])
<1> DEFINE p == <<d, o>>
           list == Supervisor(d, o).list
           r == AppsCleared(d, o)
           base == <<d, << >> >>
<1>p. p[1] = d /\ p[2] = o OBVIOUS
<1>1. r = ClearFold!Folded(p, base, list)
  <2> HIDE DEF p
  <2>1. AppsCleared(p[1], p[2]) = ClearFold!Folded(p, <<p[1], << >> >>, Supervisor(p[1], p[2]).list) BY AppsClearedIsFold
  <2> QED BY <1>p, <2>1, Zenon
<1>2. list \in Seq(AppRecs) BY SupervisorType DEF AppLists
<1> HIDE DEF list, r
<1>3. ClearedUpTo(p, base, list, 0)
  <2>1. Changes(d, base) BY NoChange
  <2> QED BY <2>1 DEF ClearedUpTo, Same
<1>4. ASSUME NEW i \in 1..Len(list), NEW x, ClearedUpTo(p, x, list, i - 1)
      PROVE  ClearedUpTo(p, ClearOne(p, x, list[i]), list, i)
  <2>1. list[i] \in AppRecs BY <1>2
  <2>2. Changes(d, x) /\ Same(d, x[1]) BY <1>4 DEF ClearedUpTo
  <2> DEFINE y == ClearOne(p, x, list[i])
  <2>3. Changes(d, y) /\ Same(d, y[1]) BY <2>1, <2>2, ClearOneKeeps
  <2> HIDE DEF y
  <2> QED BY <2>3 DEF ClearedUpTo, y
<1>5. ClearFold!Kept(p, list) BY <1>4 DEF ClearFold!Kept
<1>6. ClearFold!LeastNumbers BY LeastNumber DEF Numbers, ClearFold!LeastNumbers
<1> HIDE DEF p, base
<1>7. ClearedUpTo(p, r, list, Len(list)) BY <1>1, <1>2, <1>3, <1>5, <1>6, ClearFold!FoldKeeps
<1> QED BY <1>7 DEF ClearedUpTo, p, r

\* The record of one room becomes another.
WithRoom(d, r, x) == [d EXCEPT !.rooms[r] = x]

\* The daemon with another record for a room.
LEMMA RoomBecomes ==
  ASSUME NEW d, Sound(d), d.up, NEW r \in Rooms, NEW x \in RoomRecs
  PROVE  /\ Sound(WithRoom(d, r, x)) /\ WithRoom(d, r, x).up
         /\ WithRoom(d, r, x).loaded = d.loaded /\ WithRoom(d, r, x).name = d.name
         /\ There(WithRoom(d, r, x)) = IF x.name = None THEN There(d) \ {r} ELSE There(d) \cup {r}
         /\ \A q \in Rooms \ {r} : WithRoom(d, r, x).rooms[q] = d.rooms[q]
         /\ WithRoom(d, r, x).rooms[r] = x
<1> DEFINE e == WithRoom(d, r, x)
           f == [d.rooms EXCEPT ![r] = x]
<1>1. d \in Daemons /\ d.rooms \in [Rooms -> RoomRecs] BY DEF Sound, Daemons
<1>2. e = [d EXCEPT !.rooms = f] BY DEF WithRoom
<1>3. f \in [Rooms -> RoomRecs] /\ f[r] = x /\ \A q \in Rooms \ {r} : f[q] = d.rooms[q] BY <1>1
<1> HIDE DEF f
<1>4. e \in Daemons /\ e.up = d.up /\ e.loaded = d.loaded /\ e.name = d.name /\ e.rooms = f
  BY <1>1, <1>2, <1>3 DEF Daemons
<1> HIDE DEF e
<1>5. There(e) = IF x.name = None THEN There(d) \ {r} ELSE There(d) \cup {r} BY <1>3, <1>4 DEF There
<1>6. IsFiniteSet(There(d)) BY DEF Sound
<1>7. IsFiniteSet(There(d) \ {r}) BY <1>6, FS_RemoveElement
<1>8. IsFiniteSet(There(d) \cup {r}) BY <1>6, FS_AddElement
<1>9. IsFiniteSet(There(e)) BY <1>5, <1>7, <1>8
<1>10. Sound(e) BY <1>4, <1>9 DEF Sound
<1> QED BY <1>3, <1>4, <1>5, <1>10 DEF e

\* The record of a room that is not there.
LEMMA NoRoomType == NoRoom \in RoomRecs /\ NoRoom.name = None /\ NoApps \in AppLists
<1>1. NoApps \in AppLists BY DEF NoApps, AppLists
<1> QED BY <1>1 DEF NoRoom, RoomRecs, Texts

\* Names of objects and of rooms are not mistaken for each other.
LEMMA NamesDiffer == None \notin Names /\ Studio \notin Rooms /\ None \notin Rooms
BY FrontEndAssumption

\* RoomCreated is a change.
LEMMA RoomCreatedChanges ==
  ASSUME NEW d, Sound(d), d.up, NEW r \in Rooms, r \notin There(d), NEW name \in Names
  PROVE  LET x == RoomCreated(d, r, name)
         IN  Changes(d, x) /\ x[1].up /\ x[1].loaded = d.loaded
<1> DEFINE q == [NoRoom EXCEPT !.name = name, !.version = 1]
           e == WithRoom(d, r, q)
           s == OfRoom("RoomAppeared", r, name)
<1>1. q \in RoomRecs /\ q.name = name
  <2>1. q = [NoRoom EXCEPT !.name = name, !.version = 1] OBVIOUS
  <2> QED BY NoRoomType DEF NoRoom, RoomRecs, Texts
<1>2. q.name # None BY <1>1, NamesDiffer
<1>3. RoomCreated(d, r, name) = <<e, <<s>> >> BY DEF RoomCreated, WithRoom
<1> HIDE DEF q
<1>4. Sound(e) /\ e.up /\ e.loaded = d.loaded /\ There(e) = There(d) \cup {r}
  <2>1. There(e) = IF q.name = None THEN There(d) \ {r} ELSE There(d) \cup {r} BY <1>1, RoomBecomes
  <2>2. Sound(e) /\ e.up /\ e.loaded = d.loaded BY <1>1, RoomBecomes
  <2> HIDE DEF e
  <2> QED BY <1>2, <2>1, <2>2
<1>5. s \in Signals /\ s.is = "RoomAppeared" /\ s.room = r BY DEF Signals, OfRoom, Signal
<1> HIDE DEF e, s
<1>6. "RoomAppeared" \notin StateSignals BY DEF StateSignals
<1>7. Changes(d, <<e, <<s>> >>) BY <1>4, <1>5, <1>6, ChangesOne
<1> QED BY <1>3, <1>4, <1>7

\* RoomDestroyed is a change.
LEMMA RoomDestroyedChanges ==
  ASSUME NEW d, Sound(d), d.up, NEW r \in There(d)
  PROVE  LET x == RoomDestroyed(d, r)
         IN  Changes(d, x) /\ x[1].up /\ x[1].loaded = d.loaded /\ There(x[1]) = There(d) \ {r}
<1> DEFINE x == AppsCleared(d, r)
           f == x[1]
           e == WithRoom(f, r, NoRoom)
           s == OfRoom("RoomDisappeared", r, d.rooms[r].name)
<1>1. r \in Rooms /\ r \in Objects BY DEF There, Objects
<1>2. Changes(d, x) /\ Same(d, f) BY <1>1, AppsClearedChanges
<1>3. RoomDestroyed(d, r) = <<e, Append(x[2], s)>> BY DEF RoomDestroyed, WithRoom
<1>4. d.rooms[r].name \in Names
  <2>1. d.rooms[r].name \in Texts BY <1>1 DEF Sound, Daemons, RoomRecs
  <2> QED BY <2>1 DEF There, Texts
<1>5. s \in Signals /\ s.is = "RoomDisappeared" /\ s.room = r BY <1>1, <1>4 DEF Signals, OfRoom, Signal
<1> HIDE DEF x, s
<1>6. Sound(f) /\ f.up /\ There(f) = There(d) /\ f.loaded = d.loaded BY <1>2 DEF Changes, Same
<1> HIDE DEF f
<1>7. Sound(e) /\ e.up /\ e.loaded = f.loaded /\ There(e) = There(f) \ {r}
  <2>1. There(e) = IF NoRoom.name = None THEN There(f) \ {r} ELSE There(f) \cup {r} BY <1>1, <1>6, NoRoomType, RoomBecomes
  <2>2. Sound(e) /\ e.up /\ e.loaded = f.loaded BY <1>1, <1>6, NoRoomType, RoomBecomes
  <2> HIDE DEF e
  <2> QED BY <2>1, <2>2, NoRoomType
<1> HIDE DEF e
<1>8. "RoomDisappeared" \notin StateSignals BY DEF StateSignals
<1>9. \A q \in There(f) : q \in There(e) \/ q = r BY <1>7
<1>10. Changes(f, <<e, <<s>> >>) BY <1>5, <1>6, <1>7, <1>8, <1>9, ChangesOne
<1>11. Changes(d, <<e, x[2] \o <<s>> >>)
  <2> DEFINE z == <<e, <<s>> >>
  <2>1. z[1] = e /\ z[2] = <<s>> OBVIOUS
  <2> HIDE DEF z
  <2>2. Changes(f, z) BY <1>10 DEF z
  <2>3. Changes(d, <<z[1], x[2] \o z[2]>>)
    <3>1. Changes(x[1], z) BY <2>2 DEF f
    <3> HIDE DEF z
    <3> QED BY <3>1, <1>2, ChangesThen
  <2> QED BY <2>1, <2>3
<1>12. Append(x[2], s) = x[2] \o <<s>>
  <2>1. x[2] \in Seq(Signals) BY <1>2 DEF Changes
  <2> QED BY <2>1, <1>5, AppendIsConcat
<1> QED BY <1>3, <1>6, <1>7, <1>11, <1>12

\* The rooms stay as they are.
LEMMA RoomsStay ==
  ASSUME NEW d, Sound(d), NEW e \in Daemons, e.up, e.rooms = d.rooms, e.loaded => e.name \in Names
  PROVE  Sound(e) /\ There(e) = There(d)
<1>1. There(e) = There(d) BY DEF There
<1> QED BY <1>1 DEF Sound

\* One signal, and the rooms stay.
LEMMA OneSignal ==
  ASSUME NEW d, Sound(d), d.up, NEW e \in Daemons, e.up, e.rooms = d.rooms, e.loaded => e.name \in Names,
         NEW s \in Signals, s.is \notin {"RoomAppeared", "disappeared"}
  PROVE  Changes(d, <<e, <<s>> >>)
<1>1. Sound(e) /\ There(e) = There(d) BY RoomsStay
<1>2. \A r \in There(d) : r \in There(e) \/ s.is = "disappeared" \/ (s.is = "RoomDisappeared" /\ s.room = r) BY <1>1
<1>3. s.is # "RoomAppeared" /\ s.is # "disappeared" OBVIOUS
<1> QED BY <1>1, <1>2, <1>3, ChangesOne

\* Published is a change.
LEMMA PublishedChanges ==
  ASSUME NEW d, Sound(d), d.up, NEW name \in Names
  PROVE  Changes(d, Published(d, name)) /\ Published(d, name)[1].up /\ Published(d, name)[1].loaded
<1> DEFINE e == [d EXCEPT !.loaded = TRUE, !.name = name, !.runs = "stopped"]
           s == OfControl("StudioAppeared")
<1>1. e \in Daemons /\ e.up /\ e.loaded /\ e.name = name /\ e.rooms = d.rooms
  <2> DEFINE f == [d EXCEPT !.loaded = TRUE]
             g == [f EXCEPT !.name = name]
  <2>1. f \in Daemons /\ f.up /\ f.loaded /\ f.rooms = d.rooms BY DEF Sound, Daemons
  <2>2. g \in Daemons /\ g.up /\ g.loaded /\ g.rooms = d.rooms /\ g.name = name BY <2>1 DEF Daemons, Texts
  <2>3. e = [g EXCEPT !.runs = "stopped"] OBVIOUS
  <2> HIDE DEF f, g, e
  <2> QED BY <2>2, <2>3 DEF Daemons, RunStates
<1>2. s \in Signals /\ s.is = "StudioAppeared" BY DEF Signals, OfControl, Signal
<1>3. Published(d, name) = <<e, <<s>> >> BY DEF Published
<1> HIDE DEF e, s
<1>4. Changes(d, <<e, <<s>> >>) BY <1>1, <1>2, OneSignal
<1> QED BY <1>1, <1>3, <1>4

\* A signal about the studio while there is one.
LEMMA StudioTold ==
  ASSUME NEW d, Sound(d), d.up, NEW runs \in RunStates,
         NEW is \in {"StudioStarted", "StudioStopped", "StudioCrashed"}
  PROVE  Changes(d, <<[d EXCEPT !.runs = runs], <<OfStudio(is, None)>> >>)
<1> DEFINE e == [d EXCEPT !.runs = runs]
           s == OfStudio(is, None)
<1>1. e \in Daemons /\ e.up /\ e.loaded = d.loaded /\ e.name = d.name /\ e.rooms = d.rooms
  BY DEF Sound, Daemons
<1>2. e.loaded => e.name \in Names BY <1>1 DEF Sound
<1>3. s \in Signals /\ s.is = is BY DEF Signals, OfStudio, Signal
<1>4. s.is \notin {"RoomAppeared", "disappeared"} BY <1>3
<1> HIDE DEF e, s
<1>5. Changes(d, <<e, <<s>> >>) BY <1>1, <1>2, <1>3, <1>4, OneSignal
<1> QED BY <1>5 DEF e, s

\* Renaming the studio is a change.
LEMMA RenamedChanges ==
  ASSUME NEW d, Sound(d), d.up, NEW name \in Names
  PROVE  Changes(d, <<[d EXCEPT !.name = name], <<OfStudio("StudioRenamed", name)>> >>)
<1> DEFINE e == [d EXCEPT !.name = name]
           s == OfStudio("StudioRenamed", name)
<1>1. e \in Daemons /\ e.up /\ e.name = name /\ e.rooms = d.rooms BY DEF Sound, Daemons, Texts
<1>3. s \in Signals /\ s.is = "StudioRenamed" BY DEF Signals, OfStudio, Signal
<1> HIDE DEF e, s
<1>5. Changes(d, <<e, <<s>> >>) BY <1>1, <1>3, OneSignal
<1> QED BY <1>5 DEF e, s

\* One change after the other.
LEMMA ThenChanges ==
  ASSUME NEW d, NEW x, Changes(d, x), NEW y, Changes(x[1], y), NEW z, z = <<y[1], x[2] \o y[2]>>
  PROVE  Changes(d, z) /\ z[1] = y[1]
<1>1. Changes(d, <<y[1], x[2] \o y[2]>>) BY ChangesThen
<1> QED BY <1>1

\* Read is a change.
LEMMA ReadChanges ==
  ASSUME NEW d, Sound(d), d.up, NEW r \in Rooms, r \notin There(d), NEW name \in Names
  PROVE  Changes(d, Read(d, name, r)) /\ Read(d, name, r)[1].up /\ Read(d, name, r)[1].loaded = d.loaded
<1> DEFINE x == RoomCreated(d, r, name)
           y == AppAdded(x[1], r, name)
           z == Then(x, LAMBDA e : AppAdded(e, r, name))
           u == AppAdded(z[1], Studio, name)
           v == Read(d, name, r)
<1>1. Changes(d, x) /\ x[1].up /\ x[1].loaded = d.loaded BY RoomCreatedChanges
<1>2. r \in Objects /\ Studio \in Objects BY DEF Objects
<1>3. z = <<y[1], x[2] \o y[2]>> BY DEF Then
<1>4. v = <<u[1], z[2] \o u[2]>> BY DEF Read, Then
<1> HIDE DEF x, v
<1>5. Sound(x[1]) BY <1>1 DEF Changes
<1>6. Changes(x[1], y) /\ Same(x[1], y[1]) BY <1>1, <1>2, <1>5, AppAddedChanges
<1> HIDE DEF y, z
<1>7. Changes(d, z) /\ z[1] = y[1] BY <1>1, <1>3, <1>6, ThenChanges
<1>8. Sound(z[1]) /\ z[1].up /\ z[1].loaded = d.loaded BY <1>1, <1>6, <1>7 DEF Changes, Same
<1>9. Changes(z[1], u) /\ Same(z[1], u[1]) BY <1>2, <1>8, AppAddedChanges
<1> HIDE DEF u
<1>10. Changes(d, v) /\ v[1] = u[1] BY <1>4, <1>7, <1>9, ThenChanges
<1>11. v[1].up /\ v[1].loaded = d.loaded BY <1>8, <1>9, <1>10 DEF Same
<1> QED BY <1>10, <1>11 DEF v

\* LoadedFrom is a change.
LEMMA LoadedChanges ==
  ASSUME NEW d, Sound(d), d.up, NEW r \in Rooms, r \notin There(d), NEW name \in Names
  PROVE  Changes(d, LoadedFrom(d, name, r))
<1> DEFINE x == Read(d, name, r)
           y == Published(x[1], name)
           z == LoadedFrom(d, name, r)
<1>1. Changes(d, x) /\ x[1].up BY ReadChanges
<1>3. z = <<y[1], x[2] \o y[2]>> BY DEF LoadedFrom, Then
<1> HIDE DEF x, z
<1>5. Sound(x[1]) BY <1>1 DEF Changes
<1>6. Changes(x[1], y) BY <1>1, <1>5, PublishedChanges
<1> HIDE DEF y
<1> QED BY <1>1, <1>3, <1>6, ThenChanges DEF z

\* One room is removed.
OpDestroy(p, x, r) == Then(x, LAMBDA e : RoomDestroyed(e, r))
DestroyedUpTo(d, x, list, i) ==
  /\ Changes(d, x) /\ x[1].up /\ x[1].loaded = d.loaded
  /\ There(x[1]) = There(d) \ { list[k] : k \in 1..i }
DestroyFold == INSTANCE FoldFacts WITH Op <- OpDestroy, Inv <- DestroyedUpTo

\* Removing all rooms, one after the other, is a change.
LEMMA RoomsGoneChanges ==
  ASSUME NEW d, Sound(d), d.up
  PROVE  LET x == FoldLeft(LAMBDA x, r : Then(x, LAMBDA e : RoomDestroyed(e, r)), <<d, <<>> >>, SetToSeq(There(d)))
         IN  Changes(d, x) /\ x[1].up /\ x[1].loaded = d.loaded
<1> DEFINE list == SetToSeq(There(d))
           base == <<d, << >> >>
           x == FoldLeft(LAMBDA x, r : Then(x, LAMBDA e : RoomDestroyed(e, r)), <<d, <<>> >>, SetToSeq(There(d)))
<1>1. x = DestroyFold!Folded(d, base, list)
  BY Zenon DEF DestroyFold!Folded, OpDestroy, FoldLeft, MapThenFoldSet,
             DestroyFold!MapThenFoldSet, Max, DestroyFold!Greatest
<1>2. list \in Seq(There(d)) /\ Elements(list) = There(d) /\ IsInjective(list)
  <2>1. IsFiniteSet(There(d)) BY DEF Sound
  <2> QED BY <2>1, SetAsList
<1> HIDE DEF x, list
<1>3. DestroyedUpTo(d, base, list, 0)
  <2>1. Changes(d, base) BY NoChange
  <2>2. { list[k] : k \in 1..0 } = {} OBVIOUS
  <2> QED BY <2>1, <2>2 DEF DestroyedUpTo
<1>4. ASSUME NEW i \in 1..Len(list), NEW y, DestroyedUpTo(d, y, list, i - 1)
      PROVE  DestroyedUpTo(d, OpDestroy(d, y, list[i]), list, i)
  <2> DEFINE r == list[i]
             u == RoomDestroyed(y[1], r)
             z == OpDestroy(d, y, r)
             gone == { list[k] : k \in 1..(i-1) }
  <2>1. DOMAIN list = 1..Len(list) /\ Len(list) \in Nat /\ i \in DOMAIN list /\ r \in There(d) BY <1>2
  <2>2. r \notin gone BY <1>2, <2>1 DEF IsInjective
  <2>3. { list[k] : k \in 1..i } = gone \cup {r}
    <3>1. \A k \in 1..i : k \in 1..(i-1) \/ k = i BY <2>1
    <3>2. i \in 1..i /\ \A k \in 1..(i-1) : k \in 1..i BY <2>1
    <3> QED BY <3>1, <3>2
  <2>4. z = <<u[1], y[2] \o u[2]>> BY DEF OpDestroy, Then
  <2> HIDE DEF z
  <2>5. Changes(d, y) /\ y[1].up /\ y[1].loaded = d.loaded /\ There(y[1]) = There(d) \ gone
    BY <1>4 DEF DestroyedUpTo
  <2> HIDE DEF gone, r
  <2>6. Sound(y[1]) /\ r \in There(y[1]) BY <2>1, <2>2, <2>5 DEF Changes
  <2>7. Changes(y[1], u) /\ u[1].up /\ u[1].loaded = y[1].loaded /\ There(u[1]) = There(y[1]) \ {r}
    BY <2>5, <2>6, RoomDestroyedChanges
  <2> HIDE DEF u
  <2>8. Changes(d, z) /\ z[1] = u[1] BY <2>4, <2>5, <2>7, ThenChanges
  <2>9. There(z[1]) = There(d) \ (gone \cup {r}) BY <2>5, <2>7, <2>8
  <2>10. DestroyedUpTo(d, z, list, i) BY <2>3, <2>5, <2>7, <2>8, <2>9 DEF DestroyedUpTo
  <2> QED BY <2>10 DEF z, r
<1>5. DestroyFold!Kept(d, list) BY <1>4 DEF DestroyFold!Kept
<1>6. DestroyFold!LeastNumbers BY LeastNumber DEF Numbers, DestroyFold!LeastNumbers
<1> HIDE DEF base
<1>7. DestroyedUpTo(d, x, list, Len(list)) BY <1>1, <1>2, <1>3, <1>5, <1>6, DestroyFold!FoldKeeps
<1>8. Changes(d, x) /\ x[1].up /\ x[1].loaded = d.loaded BY <1>7 DEF DestroyedUpTo
<1> QED BY <1>8 DEF x

\* Cleared is a change.
LEMMA ClearedChanges ==
  ASSUME NEW d, Sound(d), d.up
  PROVE  Changes(d, Cleared(d))
<1> DEFINE x == FoldLeft(LAMBDA x, r : Then(x, LAMBDA e : RoomDestroyed(e, r)), <<d, <<>> >>, SetToSeq(There(d)))
           y == AppsCleared(x[1], Studio)
           z == Then(x, LAMBDA e : AppsCleared(e, Studio))
           f == z[1]
           e == [f EXCEPT !.loaded = FALSE, !.name = None, !.runs = "stopped"]
           u == <<e, IF f.loaded THEN <<OfControl("StudioDisappeared")>> ELSE <<>> >>
           v == Cleared(d)
<1>1. Changes(d, x) /\ x[1].up BY RoomsGoneChanges
<1>2. Sound(x[1]) /\ Studio \in Objects BY <1>1 DEF Changes, Objects
<1>3. v = Then(z, LAMBDA ee : <<[ee EXCEPT !.loaded = FALSE, !.name = None, !.runs = "stopped"],
                                 IF ee.loaded THEN <<OfControl("StudioDisappeared")>> ELSE <<>> >>)
  BY DEF Cleared
<1>4. z = <<y[1], x[2] \o y[2]>> BY DEF Then
<1> HIDE DEF x, v
<1>5. Changes(x[1], y) /\ Same(x[1], y[1]) BY <1>1, <1>2, AppsClearedChanges
<1> HIDE DEF y, z
<1>6. Changes(d, z) /\ f = y[1] BY <1>1, <1>4, <1>5, ThenChanges
<1>7. v = <<u[1], z[2] \o u[2]>> BY <1>3 DEF Then
<1>8. Sound(f) /\ f.up BY <1>1, <1>5, <1>6 DEF Changes, Same
<1> HIDE DEF f
<1>9. e \in Daemons /\ e.up /\ ~e.loaded /\ e.rooms = f.rooms
  <2> DEFINE g == [f EXCEPT !.loaded = FALSE]
             h == [g EXCEPT !.name = None]
  <2>1. g \in Daemons /\ g.up /\ ~g.loaded /\ g.rooms = f.rooms BY <1>8 DEF Sound, Daemons
  <2>2. h \in Daemons /\ h.up /\ ~h.loaded /\ h.rooms = f.rooms BY <2>1 DEF Daemons, Texts
  <2>3. e = [h EXCEPT !.runs = "stopped"] OBVIOUS
  <2> HIDE DEF g, h, e
  <2> QED BY <2>2, <2>3 DEF Daemons, RunStates
<1>10. Changes(f, u)
  <2> DEFINE s == OfControl("StudioDisappeared")
  <2>1. s \in Signals /\ s.is = "StudioDisappeared" BY DEF Signals, OfControl, Signal
  <2> HIDE DEF s, e
  <2>2. Changes(f, <<e, <<s>> >>) BY <1>8, <1>9, <2>1, OneSignal
  <2>3. Sound(e) /\ There(e) = There(f) BY <1>8, <1>9, RoomsStay
  <2>4. Changes(f, <<e, << >> >>) BY <1>8, <2>3, ChangesSilently
  <2> QED BY <2>2, <2>4 DEF s
<1> HIDE DEF u
<1>11. Changes(z[1], u) BY <1>10 DEF f
<1> QED BY <1>6, <1>7, <1>11, ThenChanges DEF v

\* The daemon that is not there, and one that just started.
LEMMA DownFacts == Sound(Down) /\ Sound(Started) /\ ~Down.up /\ Started.up /\ There(Down) = {} /\ There(Started) = {}
<1> DEFINE f == [r \in Rooms |-> NoRoom]
<1>1. f \in [Rooms -> RoomRecs] /\ \A r \in Rooms : f[r].name = None BY NoRoomType
<1>2. NoApps \in AppLists BY NoRoomType
<1>3. Down = [up |-> FALSE, loaded |-> FALSE, name |-> None, runs |-> "stopped", rooms |-> f, apps |-> NoApps]
  BY DEF Down
<1> HIDE DEF f
<1>4. Down \in Daemons /\ ~Down.up /\ ~Down.loaded /\ Down.rooms = f BY <1>1, <1>2, <1>3 DEF Daemons, Texts, RunStates
<1>5. Started = [Down EXCEPT !.up = TRUE] BY DEF Started
<1>6. Started \in Daemons /\ Started.up /\ ~Started.loaded /\ Started.rooms = f BY <1>4, <1>5 DEF Daemons
<1>7. There(Down) = {} /\ There(Started) = {} BY <1>1, <1>4, <1>6 DEF There
<1>8. IsFiniteSet({}) BY FS_EmptySet
<1> QED BY <1>4, <1>6, <1>7, <1>8 DEF Sound

\* The start of the daemon is a change.
LEMMA BeginsChanges ==
  ASSUME NEW d, Sound(d), ~d.up
  PROVE  Changes(d, <<Started, <<OfBus("appeared")>> >>)
<1> DEFINE s == OfBus("appeared")
<1>1. d = Down BY DEF Sound
<1>2. s \in Signals /\ s.is = "appeared" BY DEF Signals, OfBus, Signal
<1> HIDE DEF s
<1>3. s.is # "RoomAppeared" /\ s.is # "disappeared" /\ s.is \notin StateSignals BY <1>2 DEF StateSignals
<1>4. There(d) = {} BY <1>1, DownFacts
<1>5. \A r \in There(d) : r \in There(Started) \/ s.is = "disappeared" \/ (s.is = "RoomDisappeared" /\ s.room = r) BY <1>4
<1>6. Changes(d, <<Started, <<s>> >>) BY <1>2, <1>3, <1>5, DownFacts, ChangesOne
<1> QED BY <1>6 DEF s

\* What a call meets or does.
LEMMA AnswersChange ==
  ASSUME Sound(daemon), NEW x \in Answers
  PROVE  Changes(daemon, x)
<1>1. CASE daemon.up
  <2>1. x = <<daemon, << >> >> BY <1>1 DEF Answers
  <2> QED BY <2>1, NoChange
<1>2. CASE ~daemon.up
  <2>1. daemon = Down BY <1>2 DEF Sound
  <2>2. x = <<Started, <<OfBus("appeared")>> >> \/ x = <<daemon, << >> >> BY <1>2, <2>1 DEF Answers
  <2> QED BY <1>2, <2>2, BeginsChanges, NoChange
<1> QED BY <1>1, <1>2

\* The end of the daemon is a change, told or not.
LEMMA EndsChanges ==
  ASSUME NEW d, Sound(d), d.up
  PROVE  /\ Changes(d, <<Down, <<OfBus("disappeared")>> >>)
         /\ Changes(d, <<Down, <<OfControl("CleanExit"), OfBus("disappeared")>> >>)
<1> DEFINE s == OfBus("disappeared")
           t == OfControl("CleanExit")
<1>1. s \in Signals /\ s.is = "disappeared" BY DEF Signals, OfBus, Signal
<1>2. t \in Signals /\ t.is = "CleanExit" BY DEF Signals, OfControl, Signal
<1> HIDE DEF s, t
<1>3. s.is # "RoomAppeared" /\ s.is \notin StateSignals BY <1>1 DEF StateSignals
<1>4. Changes(d, <<Down, <<s>> >>) BY <1>1, <1>3, DownFacts, ChangesOne
<1>5. t.is # "RoomAppeared" /\ t.is # "disappeared" /\ t.is \notin StateSignals BY <1>2 DEF StateSignals
<1>6. Changes(d, <<d, <<t>> >>) BY <1>2, <1>5, ChangesOne
<1>7. Changes(d, <<Down, <<t, s>> >>)
  <2> DEFINE x == <<d, <<t>> >>
             y == <<Down, <<s>> >>
  <2>0. <<t>> \o <<s>> = <<t, s>>
    <3>1. <<t>> \in Seq(Signals) /\ s \in Signals BY <1>1, <1>2
    <3>2. Append(<<t>>, s) = <<t>> \o <<s>> BY <3>1, AppendIsConcat
    <3>3. Append(<<t>>, s) = <<t, s>>
      <4> DEFINE u == Append(<<t>>, s)
                 v == <<t, s>>
      <4>1. Len(<<t>>) = 1 /\ <<t>>[1] = t OBVIOUS
      <4>2. u \in Seq(Signals) /\ Len(u) = 2 /\ u[1] = t /\ u[2] = s BY <3>1, <4>1, AppendProperties
      <4>3. v \in Seq(Signals) /\ Len(v) = 2 /\ v[1] = t /\ v[2] = s BY <3>1
      <4> HIDE DEF u, v
      <4>4. \A i \in 1..Len(u) : i = 1 \/ i = 2 BY <4>2
      <4>5. \A i \in 1..Len(u) : u[i] = v[i] BY <4>2, <4>3, <4>4
      <4>6. u = v BY <4>2, <4>3, <4>5, SeqEqual
      <4> QED BY <4>6 DEF u, v
    <3> QED BY <3>2, <3>3
  <2>1. x[1] = d /\ y[1] = Down /\ x[2] \o y[2] = <<t, s>> BY <2>0, Zenon
  <2> HIDE DEF x, y
  <2>2. Changes(d, x) /\ Changes(x[1], y) BY <1>4, <1>6, <2>1 DEF x, y
  <2>3. Changes(d, <<y[1], x[2] \o y[2]>>) BY <2>2, ChangesThen
  <2> QED BY <2>1, <2>3
<1> QED BY <1>4, <1>7 DEF s, t

\* A change of a room's properties.
LEMMA PropertiesChange ==
  ASSUME NEW d, Sound(d), d.up, NEW r \in There(d), NEW x \in RoomRecs, x.name = d.rooms[r].name
  PROVE  /\ Changes(d, <<[d EXCEPT !.rooms[r] = x], <<OfProject(r, x)>> >>)
         /\ Changes(d, <<[d EXCEPT !.rooms[r] = x], << >> >>)
<1> DEFINE e == WithRoom(d, r, x)
           s == OfProject(r, x)
<1>0. e = [d EXCEPT !.rooms[r] = x] BY DEF WithRoom
<1>1. r \in Rooms /\ x.name # None BY DEF There
<1>2. Sound(e) /\ e.up BY <1>1, RoomBecomes
<1>3. There(e) = There(d)
  <2>1. There(e) = IF x.name = None THEN There(d) \ {r} ELSE There(d) \cup {r} BY <1>1, RoomBecomes
  <2> HIDE DEF e
  <2> QED BY <1>1, <2>1
<1>4. s \in Signals /\ s.is = "ProjectPropertiesChanged" BY <1>1 DEF Signals, OfProject, Signal
<1> HIDE DEF e, s
<1>5. s.is # "RoomAppeared" /\ s.is # "disappeared" /\ s.is \notin StateSignals BY <1>4 DEF StateSignals
<1>6. \A q \in There(d) : q \in There(e) \/ s.is = "disappeared" \/ (s.is = "RoomDisappeared" /\ s.room = q) BY <1>3
<1>7. Changes(d, <<e, <<s>> >>) BY <1>2, <1>4, <1>5, <1>6, ChangesOne
<1>8. Changes(d, <<e, << >> >>) BY <1>2, <1>3, ChangesSilently
<1> QED BY <1>0, <1>7, <1>8 DEF s

\* The daemon does something that is a change.
DaemonChange == \E x : Changes(daemon, x) /\ Does(x)

\* Projects are loaded, saved and described anew by changes.
LEMMA ProjectsChange ==
  ASSUME Sound(daemon), NEW r \in Rooms, ChangesProject(r)
  PROVE  DaemonChange
<1> DEFINE d == daemon
           x == d.rooms[r]
<1>1. d.up /\ r \in There(d) BY DEF ChangesProject
<1>2. x \in RoomRecs BY DEF Sound, Daemons
<1>3. ASSUME NEW p \in Names \cup {None}, Does(Properties(r, [x EXCEPT !.project = p, !.version = @ + 1]))
      PROVE  DaemonChange
  <2> DEFINE y == [x EXCEPT !.project = p, !.version = @ + 1]
  <2>1. y \in RoomRecs /\ y.name = x.name
    <3> DEFINE z == [x EXCEPT !.project = p]
    <3>1. z \in RoomRecs /\ z.name = x.name BY <1>2 DEF RoomRecs, Texts
    <3>2. y = [z EXCEPT !.version = @ + 1] OBVIOUS
    <3> HIDE DEF z, y
    <3> QED BY <3>1, <3>2 DEF RoomRecs
  <2> HIDE DEF y, x
  <2>2. Changes(d, <<[d EXCEPT !.rooms[r] = y], <<OfProject(r, y)>> >>) BY <1>1, <2>1, PropertiesChange DEF x
  <2> QED BY <1>3, <2>2 DEF Properties, DaemonChange, y
<1>4. ASSUME NEW p \in Names,
             Does(<<[daemon EXCEPT !.rooms[r].project = p, !.rooms[r].saves = <<x.project>>], <<>> >>)
      PROVE  DaemonChange
  <2> DEFINE y == [x EXCEPT !.project = p, !.saves = <<x.project>>]
  <2>1. y \in RoomRecs /\ y.name = x.name
    <3> DEFINE z == [x EXCEPT !.project = p]
    <3>1. z \in RoomRecs /\ z.name = x.name BY <1>2 DEF RoomRecs, Texts
    <3>2. y = [z EXCEPT !.saves = <<x.project>>] OBVIOUS
    <3>3. <<x.project>> \in Seq(Texts) BY <1>2 DEF RoomRecs
    <3> HIDE DEF z, y
    <3> QED BY <3>1, <3>2, <3>3 DEF RoomRecs
  <2>3. [daemon EXCEPT !.rooms[r].project = p, !.rooms[r].saves = <<x.project>>] = [d EXCEPT !.rooms[r] = y]
    <3>1. d \in Daemons /\ d.rooms \in [Rooms -> RoomRecs] BY DEF Sound, Daemons
    <3> QED BY <3>1 DEF Daemons
  <2> HIDE DEF y, x
  <2>2. Changes(d, <<[d EXCEPT !.rooms[r] = y], << >> >>) BY <1>1, <2>1, PropertiesChange DEF x
  <2> QED BY <1>4, <2>2, <2>3 DEF DaemonChange, y
<1>5. ASSUME Does(Properties(r, [x EXCEPT !.version = @ + 1, !.saves = <<>>]))
      PROVE  DaemonChange
  <2> DEFINE y == [x EXCEPT !.version = @ + 1, !.saves = << >>]
  <2>1. y \in RoomRecs /\ y.name = x.name
    <3> DEFINE z == [x EXCEPT !.version = @ + 1]
    <3>1. z \in RoomRecs /\ z.name = x.name BY <1>2 DEF RoomRecs
    <3>2. y = [z EXCEPT !.saves = << >>] OBVIOUS
    <3>3. << >> \in Seq(Texts) OBVIOUS
    <3> HIDE DEF z, y
    <3> QED BY <3>1, <3>2, <3>3 DEF RoomRecs
  <2> HIDE DEF y, x
  <2>2. Changes(d, <<[d EXCEPT !.rooms[r] = y], <<OfProject(r, y)>> >>) BY <1>1, <2>1, PropertiesChange DEF x
  <2> QED BY <1>5, <2>2 DEF Properties, DaemonChange, y
<1>6. ASSUME x.saves # <<>>,
             Does(<<[daemon EXCEPT !.rooms[r].project = Head(x.saves), !.rooms[r].saves = <<>>], <<>> >>)
      PROVE  DaemonChange
  <2> DEFINE p == Head(x.saves)
             y == [x EXCEPT !.project = p, !.saves = << >>]
  <2>0. p \in Texts
    <3>1. x.saves \in Seq(Texts) BY <1>2 DEF RoomRecs
    <3> QED BY <3>1, <1>6
  <2> HIDE DEF p
  <2>1. y \in RoomRecs /\ y.name = x.name
    <3> DEFINE z == [x EXCEPT !.project = p]
    <3>1. z \in RoomRecs /\ z.name = x.name BY <1>2, <2>0 DEF RoomRecs
    <3>2. y = [z EXCEPT !.saves = << >>] OBVIOUS
    <3>3. << >> \in Seq(Texts) OBVIOUS
    <3> HIDE DEF z, y
    <3> QED BY <3>1, <3>2, <3>3 DEF RoomRecs
  <2>3. [daemon EXCEPT !.rooms[r].project = p, !.rooms[r].saves = << >>] = [d EXCEPT !.rooms[r] = y]
    <3>1. d \in Daemons /\ d.rooms \in [Rooms -> RoomRecs] BY DEF Sound, Daemons
    <3> QED BY <3>1 DEF Daemons
  <2> HIDE DEF y, x
  <2>2. Changes(d, <<[d EXCEPT !.rooms[r] = y], << >> >>) BY <1>1, <2>1, PropertiesChange DEF x
  <2> QED BY <1>6, <2>2, <2>3 DEF DaemonChange, y, p, x
<1> HIDE DEF DaemonChange
<1> QED BY <1>3, <1>4, <1>5, <1>6 DEF ChangesProject

\* Apps are started, described, removed and end by changes.
LEMMA AppsChangeToo ==
  ASSUME Sound(daemon), NEW o \in Objects, NEW i \in DOMAIN Supervisor(daemon, o).list,
         StartsApp(o, i) \/ RemovesApp(o, i) \/ AppEnds(o, i) \/ \E name \in Names : SetsProperties(o, i, name)
  PROVE  DaemonChange
<1> DEFINE a == TheApp(o, i)
<1>1. daemon.up BY DEF StartsApp, RemovesApp, AppEnds, SetsProperties, Exists
<1>2. a \in AppRecs
  <2>1. Supervisor(daemon, o) \in AppLists BY <1>1, SupervisorType
  <2>2. Supervisor(daemon, o).list \in Seq(AppRecs) BY <2>1 DEF AppLists
  <2> QED BY <2>2 DEF TheApp
<1> HIDE DEF a
<1>3. ASSUME NEW b \in AppRecs, Does(AppChanged(daemon, o, i, b)) PROVE DaemonChange
  BY <1>1, <1>3, AppChangedChanges DEF DaemonChange
<1>4. ASSUME Does(AppRemoved(daemon, o, a)) PROVE DaemonChange
  BY <1>1, <1>2, <1>4, AppRemovedChanges DEF DaemonChange
<1>5. [a EXCEPT !.runs = TRUE] \in AppRecs /\ [a EXCEPT !.runs = FALSE] \in AppRecs BY <1>2 DEF AppRecs
<1>6. \A name \in Names : [a EXCEPT !.name = name] \in AppRecs BY <1>2 DEF AppRecs, Texts
<1>7. CASE StartsApp(o, i) BY <1>3, <1>5, <1>7 DEF StartsApp, a
<1>8. CASE RemovesApp(o, i) BY <1>4, <1>8 DEF RemovesApp, a
<1>9. CASE AppEnds(o, i)
  <2>1. CASE a.zombie BY <1>4, <1>9, <2>1 DEF AppEnds, a
  <2>2. CASE ~a.zombie BY <1>3, <1>5, <1>9, <2>2 DEF AppEnds, a
  <2> QED BY <2>1, <2>2
<1>10. ASSUME NEW name \in Names, SetsProperties(o, i, name) PROVE DaemonChange
  BY <1>3, <1>6, <1>10 DEF SetsProperties, a
<1> QED BY <1>7, <1>8, <1>9, <1>10

\* Loading, also when it fails after all, is a change.
LEMMA LoadsChange ==
  ASSUME Sound(daemon), NEW r \in Rooms, NEW name \in Names, LoadsStudio(name, r)
  PROVE  DaemonChange
<1> DEFINE d == daemon
           x == Read(d, name, r)
           y == Cleared(x[1])
           z == Then(x, Cleared)
<1>1. d.up /\ r \notin There(d) BY DEF LoadsStudio
<1>2. CASE Does(LoadedFrom(d, name, r)) BY <1>1, <1>2, LoadedChanges DEF DaemonChange
<1>3. CASE Does(z)
  <2>1. Changes(d, x) /\ x[1].up BY <1>1, ReadChanges
  <2>2. z = <<y[1], x[2] \o y[2]>> BY DEF Then
  <2> HIDE DEF x, z
  <2>3. Sound(x[1]) BY <2>1 DEF Changes
  <2>4. Changes(x[1], y) BY <2>1, <2>3, ClearedChanges
  <2> HIDE DEF y
  <2>5. Changes(d, z) BY <2>1, <2>2, <2>4, ThenChanges
  <2> QED BY <1>3, <2>5 DEF DaemonChange
<1> QED BY <1>2, <1>3 DEF LoadsStudio

\* A studio that is there because JACK is, is a change.
LEMMA AutomaticChanges ==
  ASSUME Sound(daemon), NEW name \in Names, AutomaticStudio(name)
  PROVE  DaemonChange
<1> DEFINE d == daemon
           x == Published(d, name)
           y == <<[x[1] EXCEPT !.runs = "started"], <<OfStudio("StudioStarted", None)>> >>
           z == Then(x, LAMBDA e : <<[e EXCEPT !.runs = "started"], <<OfStudio("StudioStarted", None)>> >>)
<1>1. d.up /\ Does(z) BY DEF AutomaticStudio
<1>2. Changes(d, x) /\ x[1].up BY <1>1, PublishedChanges
<1>3. z = <<y[1], x[2] \o y[2]>> BY DEF Then
<1> HIDE DEF x, z
<1>4. Sound(x[1]) /\ "started" \in RunStates BY <1>2 DEF Changes, RunStates
<1>5. Changes(x[1], y) BY <1>2, <1>4, StudioTold
<1> HIDE DEF y
<1>6. Changes(d, z) BY <1>2, <1>3, <1>5, ThenChanges
<1> QED BY <1>1, <1>6 DEF DaemonChange

\* Starting, stopping and crashing are changes.
LEMMA StartsOrStopsChanges ==
  ASSUME Sound(daemon), StartsOrStops
  PROVE  DaemonChange
<1>1. ASSUME NEW from, NEW to \in RunStates, NEW is \in {"StudioStarted", "StudioStopped", "StudioCrashed"},
             Runs(from, to, is)
      PROVE  DaemonChange
  <2>1. daemon.up /\ Does(<<[daemon EXCEPT !.runs = to], <<OfStudio(is, None)>> >>) BY <1>1 DEF Runs
  <2>2. Changes(daemon, <<[daemon EXCEPT !.runs = to], <<OfStudio(is, None)>> >>) BY <2>1, StudioTold
  <2> QED BY <2>1, <2>2 DEF DaemonChange
<1>2. "started" \in RunStates /\ "stopped" \in RunStates /\ "crashed" \in RunStates BY DEF RunStates
<1> QED BY <1>1, <1>2 DEF StartsOrStops

\* All that the daemon does is a change of this kind.
LEMMA DaemonChanges ==
  ASSUME Sound(daemon), Daemon
  PROVE  DaemonChange
<1>1. ASSUME NEW name \in Names, NewStudio(name) PROVE DaemonChange
  BY <1>1, PublishedChanges DEF NewStudio, DaemonChange
<1>2. ASSUME NEW name \in Names, AutomaticStudio(name) PROVE DaemonChange BY <1>2, AutomaticChanges
<1>3. ASSUME NEW name \in Names, RenamesStudio(name) PROVE DaemonChange
  BY <1>3, RenamedChanges DEF RenamesStudio, DaemonChange
<1>4. ASSUME NEW r \in Rooms, NEW name \in Names, LoadsStudio(name, r) PROVE DaemonChange BY <1>4, LoadsChange
<1>5. ASSUME NEW r \in Rooms, NEW name \in Names, CreatesRoom(r, name) PROVE DaemonChange
  BY <1>5, RoomCreatedChanges DEF CreatesRoom, DaemonChange
<1>6. ASSUME NEW r \in Rooms, DeletesRoom(r) PROVE DaemonChange
  BY <1>6, RoomDestroyedChanges DEF DeletesRoom, DaemonChange
<1>7. ASSUME NEW r \in Rooms, ChangesProject(r) PROVE DaemonChange BY <1>7, ProjectsChange
<1>8. ASSUME NEW o \in Objects, NEW name \in Names, AddsApp(o, name) PROVE DaemonChange
  BY <1>8, AppAddedChanges DEF AddsApp, DaemonChange
<1>9. ASSUME NEW o \in Objects, NEW i \in DOMAIN Supervisor(daemon, o).list,
         StartsApp(o, i) \/ RemovesApp(o, i) \/ AppEnds(o, i) \/ \E name \in Names : SetsProperties(o, i, name)
      PROVE  DaemonChange
  BY <1>9, AppsChangeToo
<1>10. CASE UnloadsStudio BY <1>10, ClearedChanges DEF UnloadsStudio, DaemonChange
<1>11. CASE StartsOrStops BY <1>11, StartsOrStopsChanges
<1>12. CASE DaemonEnds BY <1>12, EndsChanges DEF DaemonEnds, DaemonChange
<1>13. CASE DaemonBegins BY <1>13, BeginsChanges DEF DaemonBegins, DaemonChange
<1> QED BY <1>1, <1>2, <1>3, <1>4, <1>5, <1>6, <1>7, <1>8, <1>9, <1>10, <1>11, <1>12, <1>13 DEF Daemon

-----------------------------------------------------------------------------
(***************************************************************************)
(* The steps of gladish.  Whatever it is in the middle of is a program: it *)
(* registers no hook twice, the steps for a view follow each other, a view *)
(* that is opened is wired to its graph (and a room to its project) before *)
(* the next one, the list of rooms is asked for last, and the daemon is    *)
(* asked for first if at all.                                              *)
(***************************************************************************)

Lasting == {<<"bus", "life">>, <<"control", "control">>, <<Studio, "studio">>}
ViewHooks == { <<o, f>> : o \in Objects, f \in ViewFaces } \ {<<Studio, "room">>}

Ask == Step("ask", "control", "control", None)
IsStarted == Step("is_started", Studio, "studio", None)
GetName == Step("get_name", Studio, "studio", None)
ListRooms == Step("list_rooms", Studio, "studio", None)
Beginning == <<Ask, Hook(Studio, "studio"), ListRooms>>

Steps ==
  { Step("open", o, "apps", n) : o \in Objects, n \in Names }
  \cup { Step("list_apps", o, "apps", None) : o \in Objects }
  \cup { Hook(r, "room") : r \in Rooms } \cup { Step("get_project", r, "room", None) : r \in Rooms }
  \cup { Hook(o, "graph") : o \in Objects }
  \cup {Ask, LifetimeHook, Hook("control", "control"), Hook(Studio, "studio"), IsStarted, GetName, ListRooms}

OnView(x) == x.face \in ViewFaces
Hooking(x) == x.do \in {"hook", "open"}
Key(x) == <<x.on, x.face>>

StepFields(x) ==
  /\ x.do \in {"open", "list_apps", "get_project", "hook", "ask", "is_started", "get_name", "list_rooms"}
  /\ x.do = "open" => x.face = "apps" /\ x.on \in Objects /\ x.name \in Names
  /\ x.do = "list_apps" => x.face = "apps" /\ x.on \in Objects
  /\ x.do = "get_project" => x.face = "room" /\ x.on \in Rooms
  /\ x.do = "hook" /\ OnView(x) => x.on \in Objects /\ (x.face = "graph" \/ (x.face = "room" /\ x.on \in Rooms))
  /\ x.do = "hook" /\ ~OnView(x) => Key(x) \in Lasting
  /\ x.do \in {"ask", "is_started", "get_name", "list_rooms"} => ~OnView(x)
  /\ Hooking(x) => Key(x) \in Lasting \cup ViewHooks
  /\ Hooking(x) => (OnView(x) <=> Key(x) \in ViewHooks)
  /\ x.do = "list_rooms" => x = ListRooms
  /\ OnView(x) => x.on \in Objects

\* The fields of a step that registers a hook.
LEMMA HookFields == \A o, f : Hook(o, f).do = "hook" /\ Hook(o, f).on = o /\ Hook(o, f).face = f
BY DEF Hook, Step

\* The fields of a step.
LEMMA StepIs ==
  \A do, o, f, n : Step(do, o, f, n).do = do /\ Step(do, o, f, n).on = o
                 /\ Step(do, o, f, n).face = f /\ Step(do, o, f, n).name = n
BY DEF Step

\* Which hooks are for views.
LEMMA ViewHookFacts ==
  /\ \A o, f : <<o, f>> \in ViewHooks <=> o \in Objects /\ f \in ViewFaces /\ ~(o = Studio /\ f = "room")
  /\ \A h \in ViewHooks : h = <<h[1], h[2]>> /\ h[1] \in Objects /\ h[2] \in ViewFaces
  /\ Lasting \cap ViewHooks = {}
  /\ \A o, f : <<o, f>> \in Lasting => f \notin ViewFaces
<1>1. \A o, f : <<o, f>> \in ViewHooks <=> o \in Objects /\ f \in ViewFaces /\ ~(o = Studio /\ f = "room")
  BY DEF ViewHooks
<1>2. \A h \in ViewHooks : h = <<h[1], h[2]>> /\ h[1] \in Objects /\ h[2] \in ViewFaces
  <2> SUFFICES ASSUME NEW h \in ViewHooks PROVE h = <<h[1], h[2]>> /\ h[1] \in Objects /\ h[2] \in ViewFaces OBVIOUS
  <2>1. PICK o \in Objects, f \in ViewFaces : h = <<o, f>> BY DEF ViewHooks
  <2> QED BY <2>1
<1>3. \A o, f : <<o, f>> \in Lasting => f \notin ViewFaces BY DEF Lasting, ViewFaces
<1>4. ASSUME NEW h \in Lasting PROVE h \notin ViewHooks
  <2>1. h[2] \notin ViewFaces BY DEF Lasting, ViewFaces
  <2> QED BY <2>1, <1>2
<1> QED BY <1>1, <1>2, <1>3, <1>4

\* What each kind of step has.
LEMMA StepFacts ==
  ASSUME NEW x \in Steps
  PROVE  StepFields(x)
<1>0. Studio \notin Rooms /\ Studio \in Objects /\ Rooms \subseteq Objects BY NamesDiffer DEF Objects
<1>v. "apps" \in ViewFaces /\ "room" \in ViewFaces /\ "graph" \in ViewFaces BY DEF ViewFaces
<1>k. Key(x) = <<x.on, x.face>> BY DEF Key
<1>1. CASE \E o \in Objects, n \in Names : x = Step("open", o, "apps", n)
  <2>1. x.do = "open" /\ x.face = "apps" /\ x.on \in Objects /\ x.name \in Names BY <1>1, StepIs
  <2>2. Key(x) \in ViewHooks BY <1>k, <1>v, <2>1, ViewHookFacts
  <2> QED BY <1>v, <2>1, <2>2 DEF StepFields, OnView, Hooking
<1>2. CASE \E o \in Objects : x = Step("list_apps", o, "apps", None)
  <2>1. x.do = "list_apps" /\ x.face = "apps" /\ x.on \in Objects BY <1>2, StepIs
  <2> QED BY <1>v, <2>1 DEF StepFields, OnView, Hooking
<1>3. CASE \E r \in Rooms : x = Hook(r, "room")
  <2>1. x.do = "hook" /\ x.face = "room" /\ x.on \in Rooms BY <1>3, HookFields
  <2>2. Key(x) \in ViewHooks BY <1>k, <1>v, <1>0, <2>1, ViewHookFacts
  <2> QED BY <1>v, <1>0, <2>1, <2>2 DEF StepFields, OnView, Hooking
<1>4. CASE \E r \in Rooms : x = Step("get_project", r, "room", None)
  <2>1. x.do = "get_project" /\ x.face = "room" /\ x.on \in Rooms BY <1>4, StepIs
  <2> QED BY <1>v, <1>0, <2>1 DEF StepFields, OnView, Hooking
<1>5. CASE \E o \in Objects : x = Hook(o, "graph")
  <2>1. x.do = "hook" /\ x.face = "graph" /\ x.on \in Objects BY <1>5, HookFields
  <2>2. Key(x) \in ViewHooks BY <1>k, <1>v, <1>0, <2>1, ViewHookFacts
  <2> QED BY <1>v, <1>0, <2>1, <2>2 DEF StepFields, OnView, Hooking
<1>6. CASE x \in {Ask, IsStarted, GetName, ListRooms}
  <2>1. x.face \notin ViewFaces BY <1>6, StepIs DEF Ask, IsStarted, GetName, ListRooms, ViewFaces
  <2>2. x.do \in {"ask", "is_started", "get_name", "list_rooms"} BY <1>6, StepIs DEF Ask, IsStarted, GetName, ListRooms
  <2>3. x.do = "list_rooms" => x = ListRooms BY <1>6, StepIs DEF Ask, IsStarted, GetName
  <2> QED BY <2>1, <2>2, <2>3 DEF StepFields, OnView, Hooking
<1>7. CASE x \in {LifetimeHook, Hook("control", "control"), Hook(Studio, "studio")}
  <2>1. x.do = "hook" /\ ~OnView(x) /\ Key(x) \in Lasting
    BY <1>7 DEF LifetimeHook, Hook, Step, OnView, Key, ViewFaces, Lasting
  <2>2. Key(x) \notin ViewHooks BY <2>1, ViewHookFacts
  <2> QED BY <2>1, <2>2 DEF StepFields, Hooking, OnView
<1> QED BY <1>1, <1>2, <1>3, <1>4, <1>5, <1>6, <1>7 DEF Steps

\* The hooks that are still to be registered, and the views still to be opened.
Pend(t) == { Key(x) : x \in { y \in Elements(t) : Hooking(y) } }
Opens(t) == { x.on : x \in { y \in Elements(t) : y.do = "open" } }
Listing(t) == \E x \in Elements(t) : x.do = "list_rooms"
Once(x) == x.do \in {"is_started", "get_name"}

\* The parts of what makes a list of steps a program.
Differ(t) == \A i, j \in DOMAIN t : i < j /\ Hooking(t[i]) /\ Hooking(t[j]) => Key(t[i]) # Key(t[j])
Together(t) == \A i \in DOMAIN t : i > 1 /\ OnView(t[i]) /\ t[i].do # "open" =>
                 OnView(t[i-1]) /\ t[i-1].on = t[i].on /\ t[i-1].face # "graph"
Wired(t) == \A i \in DOMAIN t : t[i].do = "open" =>
               /\ \E j \in DOMAIN t : j > i /\ t[j] = Hook(t[i].on, "graph")
               /\ t[i].on # Studio => \E j \in DOMAIN t : j > i /\ t[j] = Hook(t[i].on, "room")
ProjectsEnd(t) == \A i \in DOMAIN t : t[i].do = "get_project" => i + 1 \in DOMAIN t /\ t[i+1] = Hook(t[i].on, "graph")
Asks(t) == \A i \in DOMAIN t : t[i].do = "ask" => t = Beginning
ListsLater(t) == \A i \in DOMAIN t : t[i].do = "is_started" => \E j \in DOMAIN t : j > i /\ t[j].do = "list_rooms"
RoomsLast(t) == \A i \in DOMAIN t : t[i].do = "list_rooms" =>
             i = Len(t) /\ \A j \in DOMAIN t : OnView(t[j]) => t[j].on = Studio
Apart(t) == \A i \in DOMAIN t : Once(t[i]) => \A j \in DOMAIN t : ~OnView(t[j]) /\ (Once(t[j]) => j = i)

Program(t) ==
  /\ t \in Seq(Steps)
  /\ Differ(t) /\ Together(t) /\ Wired(t) /\ ProjectsEnd(t) /\ Asks(t) /\ ListsLater(t) /\ RoomsLast(t) /\ Apart(t)

\* The first element and the others.
LEMMA ElementsTail ==
  ASSUME NEW S, NEW t \in Seq(S), t # << >>
  PROVE  Elements(t) = {Head(t)} \cup Elements(Tail(t)) /\ Head(t) \in S /\ Tail(t) \in Seq(S)
<1>1. Len(t) \in Nat /\ Len(t) >= 1 /\ DOMAIN t = 1..Len(t) /\ Head(t) = t[1] /\ t[1] \in S OBVIOUS
<1>2. Tail(t) \in Seq(S) /\ Len(Tail(t)) = Len(t) - 1 /\ \A i \in 1..Len(t)-1 : Tail(t)[i] = t[i+1]
  BY HeadTailProperties
<1>3. DOMAIN Tail(t) = 1..Len(t)-1 BY <1>2
<1>4. \A i \in 1..Len(t) : i = 1 \/ (i - 1 \in 1..Len(t)-1 /\ (i - 1) + 1 = i) BY <1>1
<1>5. \A i \in 1..Len(t)-1 : i + 1 \in 1..Len(t) BY <1>1
<1>6. 1 \in 1..Len(t) BY <1>1
<1> DEFINE r == Tail(t)
           h == Head(t)
<1> HIDE DEF r, h
<1>7. \A x \in Elements(t) : x = h \/ x \in Elements(r)
  <2> SUFFICES ASSUME NEW i \in 1..Len(t) PROVE t[i] = h \/ t[i] \in Elements(r) BY <1>1 DEF Elements
  <2>1. CASE i = 1 BY <1>1, <2>1 DEF h
  <2>2. CASE i # 1
    <3>1. i - 1 \in DOMAIN r /\ r[i-1] = t[i] BY <1>2, <1>3, <1>4, <2>2 DEF r
    <3> QED BY <3>1 DEF Elements
  <2> QED BY <2>1, <2>2
<1>8. h \in Elements(t) BY <1>1, <1>6 DEF Elements, h
<1>9. \A x \in Elements(r) : x \in Elements(t)
  <2> SUFFICES ASSUME NEW i \in DOMAIN r PROVE r[i] \in Elements(t) BY DEF Elements
  <2>1. i + 1 \in DOMAIN t /\ r[i] = t[i+1] BY <1>1, <1>2, <1>3, <1>5 DEF r
  <2> QED BY <2>1 DEF Elements
<1>10. Elements(t) = {h} \cup Elements(r) BY <1>7, <1>8, <1>9
<1> QED BY <1>1, <1>2, <1>10 DEF r, h

\* The elements of two lists in one.
LEMMA ElementsConcat ==
  ASSUME NEW S, NEW s \in Seq(S), NEW t \in Seq(S)
  PROVE  Elements(s \o t) = Elements(s) \cup Elements(t)
<1> DEFINE n == Len(s)
           m == Len(t)
           u == s \o t
<1>1. n \in Nat /\ m \in Nat /\ DOMAIN s = 1..n /\ DOMAIN t = 1..m OBVIOUS
<1>2. u \in Seq(S) /\ Len(u) = n + m /\ \A i \in 1..n+m : u[i] = IF i <= n THEN s[i] ELSE t[i - n]
  BY ConcatProperties
<1>3. DOMAIN u = 1..n+m BY <1>1, <1>2
<1> HIDE DEF u
<1>4. \A i \in 1..n+m : i \in 1..n \/ (i - n \in 1..m /\ ~(i <= n)) BY <1>1
<1>5. \A i \in 1..n : i \in 1..n+m /\ i <= n BY <1>1
<1>6. \A i \in 1..m : n + i \in 1..n+m /\ ~(n + i <= n) /\ (n + i) - n = i BY <1>1
<1>7. Elements(u) = Elements(s) \cup Elements(t)
  <2>1. \A x \in Elements(u) : x \in Elements(s) \/ x \in Elements(t)
    <3> SUFFICES ASSUME NEW i \in 1..n+m PROVE u[i] \in Elements(s) \/ u[i] \in Elements(t) BY <1>3 DEF Elements
    <3>1. CASE i \in 1..n
      <4>1. u[i] = s[i] BY <1>1, <1>2, <3>1
      <4> QED BY <1>1, <3>1, <4>1 DEF Elements
    <3>2. CASE i - n \in 1..m /\ ~(i <= n)
      <4>1. u[i] = t[i - n] BY <1>2, <3>2
      <4> QED BY <1>1, <3>2, <4>1 DEF Elements
    <3> QED BY <1>4, <3>1, <3>2
  <2>2. \A x \in Elements(s) : x \in Elements(u) BY <1>1, <1>2, <1>3, <1>5 DEF Elements
  <2>3. \A x \in Elements(t) : x \in Elements(u)
    <3> SUFFICES ASSUME NEW i \in 1..m PROVE t[i] \in Elements(u) BY <1>1 DEF Elements
    <3>1. u[n + i] = t[i] /\ n + i \in DOMAIN u BY <1>2, <1>3, <1>6
    <3> QED BY <3>1 DEF Elements
  <2> QED BY <2>1, <2>2, <2>3
<1> QED BY <1>7 DEF u

\* What is left when the first step is done.
LEMMA ProgramTail ==
  ASSUME NEW t, Program(t), t # << >>
  PROVE  /\ Program(Tail(t))
         /\ Head(t) \in Steps
         /\ Hooking(Head(t)) => Key(Head(t)) \notin Pend(Tail(t)) /\ Pend(t) = {Key(Head(t))} \cup Pend(Tail(t))
         /\ ~Hooking(Head(t)) => Pend(t) = Pend(Tail(t))
         /\ Opens(t) = (IF Head(t).do = "open" THEN {Head(t).on} ELSE {}) \cup Opens(Tail(t))
         /\ Head(t).do # "list_rooms" => (Listing(t) <=> Listing(Tail(t)))
         /\ Head(t).do = "list_rooms" => Tail(t) = << >>
         /\ Tail(t) # << >> /\ OnView(Head(Tail(t))) /\ Head(Tail(t)).do # "open" =>
              OnView(Head(t)) /\ Head(t).on = Head(Tail(t)).on /\ Head(t).face # "graph"
<1> DEFINE n == Len(t)
           s == Tail(t)
           E == Elements(s)
<1>1. t \in Seq(Steps) BY DEF Program
<1>2. n \in Nat /\ n >= 1 /\ DOMAIN t = 1..n /\ Head(t) = t[1] /\ 1 \in 1..n BY <1>1
<1>3. s \in Seq(Steps) /\ Len(s) = n - 1 /\ \A i \in 1..n-1 : s[i] = t[i+1] BY <1>1, HeadTailProperties
<1>4. DOMAIN s = 1..n-1 BY <1>2, <1>3
<1>5. \A i \in 1..n-1 : i + 1 \in 1..n /\ i + 1 > 1 /\ (i + 1) - 1 = i BY <1>2
<1>6. Elements(t) = {Head(t)} \cup E BY <1>1, ElementsTail
<1>7. \A j \in 1..n : j > 1 => j - 1 \in 1..n-1 /\ s[j-1] = t[j] BY <1>2, <1>3
<1>8. s = << >> \/ (1 \in 1..n-1 /\ Head(s) = s[1]) BY <1>2, <1>3
<1> HIDE DEF s, n
<1>n. n \in Nat /\ Len(s) = n - 1 BY <1>2, <1>3 DEF n
<1>p. \A i \in Nat : (i + 1 = n => i = Len(s)) /\ ((i + 1) + 1 \in 1..n => i + 1 \in 1..n-1)
  <2> SUFFICES ASSUME NEW i \in Nat PROVE (i + 1 = n => i = Len(s)) /\ ((i + 1) + 1 \in 1..n => i + 1 \in 1..n-1) OBVIOUS
  <2>1. i + 1 = n => i = n - 1 BY <1>n
  <2>2. (i + 1) + 1 \in 1..n => i + 1 \in 1..n-1 BY <1>n
  <2> QED BY <1>n, <2>1, <2>2
<1>i. \A i \in DOMAIN s : i \in Nat /\ i + 1 \in DOMAIN t /\ s[i] = t[i+1] BY <1>2, <1>3, <1>4, <1>5
<1>j. \A i \in Nat : \A j \in DOMAIN t : j > i + 1 => j - 1 \in DOMAIN s /\ j - 1 > i /\ s[j-1] = t[j]
  <2> SUFFICES ASSUME NEW i \in Nat, NEW j \in DOMAIN t, j > i + 1
               PROVE  j - 1 \in DOMAIN s /\ j - 1 > i /\ s[j-1] = t[j] OBVIOUS
  <2>1. j \in 1..n /\ j > 1 BY <1>2
  <2> QED BY <1>4, <1>7, <2>1
<1>9. Differ(s)
  <2> SUFFICES ASSUME NEW i \in DOMAIN s, NEW j \in DOMAIN s, i < j, Hooking(s[i]), Hooking(s[j])
               PROVE  Key(s[i]) # Key(s[j]) BY DEF Differ
  <2>1. i + 1 \in DOMAIN t /\ j + 1 \in DOMAIN t /\ i + 1 < j + 1 BY <1>2, <1>4, <1>5
  <2> QED BY <2>1, <1>3, <1>4 DEF Program, Differ
<1>10. Together(s)
  <2> SUFFICES ASSUME NEW i \in DOMAIN s, i > 1, OnView(s[i]), s[i].do # "open"
               PROVE  OnView(s[i-1]) /\ s[i-1].on = s[i].on /\ s[i-1].face # "graph" BY DEF Together
  <2>1. i + 1 \in DOMAIN t /\ i + 1 > 1 /\ i - 1 \in 1..n-1 /\ (i - 1) + 1 = (i + 1) - 1 BY <1>2, <1>4, <1>5
  <2>2. s[i-1] = t[(i+1)-1] /\ s[i] = t[i+1] BY <2>1, <1>3, <1>4
  <2> QED BY <2>1, <2>2 DEF Program, Together
<1>11. Wired(s)
  <2> SUFFICES ASSUME NEW i \in DOMAIN s, s[i].do = "open"
               PROVE /\ \E j \in DOMAIN s : j > i /\ s[j] = Hook(s[i].on, "graph")
                     /\ s[i].on # Studio => \E j \in DOMAIN s : j > i /\ s[j] = Hook(s[i].on, "room")
    BY DEF Wired
  <2>1. i + 1 \in DOMAIN t /\ s[i] = t[i+1] /\ i \in Nat BY <1>i, Zenon
  <2>2. \A j \in DOMAIN t : j > i + 1 => j - 1 \in DOMAIN s /\ j - 1 > i /\ s[j-1] = t[j] BY <1>j, <2>1, Zenon
  <2> QED BY <2>1, <2>2 DEF Program, Wired
<1>12. ProjectsEnd(s)
  <2> SUFFICES ASSUME NEW i \in DOMAIN s, s[i].do = "get_project"
               PROVE i + 1 \in DOMAIN s /\ s[i+1] = Hook(s[i].on, "graph") BY DEF ProjectsEnd
  <2>1. i + 1 \in DOMAIN t /\ s[i] = t[i+1] /\ i \in Nat BY <1>i, Zenon
  <2>2. (i + 1) + 1 \in DOMAIN t /\ t[(i+1)+1] = Hook(s[i].on, "graph") BY <2>1 DEF Program, ProjectsEnd
  <2>3. i + 1 \in 1..n-1
    <3>1. (i + 1) + 1 \in 1..n BY <1>2, <2>2, Zenon
    <3> QED BY <1>p, <2>1, <3>1, Zenon
  <2> QED BY <2>2, <2>3, <1>3, <1>4
<1>13. Asks(s)
  <2> SUFFICES ASSUME NEW i \in DOMAIN s, s[i].do = "ask" PROVE FALSE BY DEF Asks
  <2>1. i + 1 \in DOMAIN t /\ s[i] = t[i+1] /\ i \in Nat /\ i + 1 > 1 BY <1>2, <1>3, <1>4, <1>5
  <2>2. t = Beginning /\ t[i+1].do = "ask" BY <2>1 DEF Program, Asks
  <2>3. i + 1 = 2 \/ i + 1 = 3 BY <2>1, <2>2 DEF Beginning
  <2>4. t[2].do = "hook" /\ t[3].do = "list_rooms" BY <2>2 DEF Beginning, Hook, ListRooms, Step
  <2> QED BY <2>2, <2>3, <2>4
<1>14. ListsLater(s)
  <2> SUFFICES ASSUME NEW i \in DOMAIN s, s[i].do = "is_started"
               PROVE \E j \in DOMAIN s : j > i /\ s[j].do = "list_rooms" BY DEF ListsLater
  <2>1. i + 1 \in DOMAIN t /\ s[i] = t[i+1] /\ i \in Nat BY <1>i, Zenon
  <2>2. \A j \in DOMAIN t : j > i + 1 => j - 1 \in DOMAIN s /\ j - 1 > i /\ s[j-1] = t[j] BY <1>j, <2>1, Zenon
  <2> QED BY <2>1, <2>2 DEF Program, ListsLater
<1>15. RoomsLast(s)
  <2> SUFFICES ASSUME NEW i \in DOMAIN s, s[i].do = "list_rooms"
               PROVE i = Len(s) /\ \A j \in DOMAIN s : OnView(s[j]) => s[j].on = Studio BY DEF RoomsLast
  <2>1. i + 1 \in DOMAIN t /\ s[i] = t[i+1] /\ i \in Nat BY <1>i, Zenon
  <2>2. i + 1 = n /\ \A j \in DOMAIN t : OnView(t[j]) => t[j].on = Studio BY <2>1 DEF Program, RoomsLast, n
  <2>3. i = Len(s) BY <1>p, <2>1, <2>2, Zenon
  <2>4. \A j \in DOMAIN s : OnView(s[j]) => s[j].on = Studio
    <3> SUFFICES ASSUME NEW j \in DOMAIN s, OnView(s[j]) PROVE s[j].on = Studio OBVIOUS
    <3>1. j + 1 \in DOMAIN t /\ s[j] = t[j+1] BY <1>i
    <3> QED BY <2>2, <3>1, Zenon
  <2> QED BY <2>3, <2>4
<1>16. Apart(s)
  <2> SUFFICES ASSUME NEW i \in DOMAIN s, Once(s[i]), NEW j \in DOMAIN s
               PROVE ~OnView(s[j]) /\ (Once(s[j]) => j = i) BY DEF Apart
  <2>1. i + 1 \in DOMAIN t /\ s[i] = t[i+1] /\ i \in Nat BY <1>i, Zenon
  <2>2. j + 1 \in DOMAIN t /\ s[j] = t[j+1] /\ j \in Nat BY <1>i, Zenon
  <2>3. ~OnView(t[j+1]) /\ (Once(t[j+1]) => j + 1 = i + 1) BY <2>1, <2>2 DEF Program, Apart
  <2> QED BY <2>1, <2>2, <2>3
<1>17. Program(s) BY <1>3, <1>9, <1>10, <1>11, <1>12, <1>13, <1>14, <1>15, <1>16 DEF Program
<1>18. Head(t) \in Steps BY <1>1, <1>2
<1>19. ASSUME Hooking(Head(t)) PROVE Key(Head(t)) \notin Pend(s) /\ Pend(t) = {Key(Head(t))} \cup Pend(s)
  <2>1. Pend(t) = {Key(Head(t))} \cup Pend(s) BY <1>6, <1>19 DEF Pend
  <2>2. ASSUME NEW x \in E, Hooking(x) PROVE Key(Head(t)) # Key(x)
    <3>1. PICK i \in DOMAIN s : x = s[i] BY DEF Elements
    <3>2. i + 1 \in DOMAIN t /\ s[i] = t[i+1] /\ i + 1 > 1 BY <1>2, <1>3, <1>4, <1>5
    <3>3. 1 \in DOMAIN t /\ 1 < i + 1 BY <1>2, <1>4, <3>2
    <3> QED BY <1>2, <1>19, <2>2, <3>1, <3>2, <3>3 DEF Program, Differ
  <2> QED BY <2>1, <2>2 DEF Pend
<1>20. ~Hooking(Head(t)) => Pend(t) = Pend(s) BY <1>6 DEF Pend
<1>21. Opens(t) = (IF Head(t).do = "open" THEN {Head(t).on} ELSE {}) \cup Opens(s) BY <1>6 DEF Opens
<1>22. Head(t).do # "list_rooms" => (Listing(t) <=> Listing(s)) BY <1>6 DEF Listing
<1>23. Head(t).do = "list_rooms" => s = << >>
  <2> SUFFICES ASSUME Head(t).do = "list_rooms" PROVE s = << >> OBVIOUS
  <2>1. 1 \in DOMAIN t /\ t[1].do = "list_rooms" BY <1>2
  <2>2. 1 = n BY <2>1 DEF Program, RoomsLast, n
  <2>3. 0 + 1 = n /\ 0 \in Nat BY <2>2
  <2>4. 0 = Len(s) BY <1>p, <2>3
  <2>5. s \in Seq(Steps) BY <1>3
  <2> HIDE DEF s
  <2> QED BY <2>4, <2>5
<1>24. ASSUME s # << >>, OnView(Head(s)), Head(s).do # "open"
       PROVE OnView(Head(t)) /\ Head(t).on = Head(s).on /\ Head(t).face # "graph"
  <2>1. 1 \in 1..n-1 /\ Head(s) = t[2] BY <1>3, <1>8, <1>24
  <2>2. 2 \in DOMAIN t /\ 2 > 1 /\ 2 - 1 = 1 BY <1>2, <2>1
  <2> QED BY <1>2, <1>24, <2>1, <2>2 DEF Program, Together
<1> QED BY <1>17, <1>18, <1>19, <1>20, <1>21, <1>22, <1>23, <1>24 DEF s

\* What may follow steps for views of other objects.
LEMMA ProgramConcat ==
  ASSUME NEW s, Program(s), \A x \in Elements(s) : OnView(x),
         NEW t, Program(t), \A x \in Elements(t) : x.do # "ask" /\ ~Once(x),
         t = << >> \/ ~OnView(Head(t)) \/ Head(t).do = "open",
         \A x \in Elements(s), y \in Elements(t) : OnView(y) => x.on # y.on,
         Listing(t) => \A x \in Elements(s) : x.on = Studio
  PROVE  Program(s \o t)
<1> DEFINE n == Len(s)
           m == Len(t)
           u == s \o t
<1>1. s \in Seq(Steps) /\ t \in Seq(Steps) BY DEF Program
<1>2. n \in Nat /\ m \in Nat /\ DOMAIN s = 1..n /\ DOMAIN t = 1..m BY <1>1
<1>3. u \in Seq(Steps) /\ Len(u) = n + m /\ \A i \in 1..n+m : u[i] = IF i <= n THEN s[i] ELSE t[i - n]
  BY <1>1, ConcatProperties
<1>4. DOMAIN u = 1..n+m BY <1>2, <1>3
<1>5. t = << >> \/ (1 \in DOMAIN t /\ Head(t) = t[1])
  <2>1. t # << >> => Len(t) >= 1 BY <1>1
  <2> QED BY <1>1, <1>2, <2>1
<1>h. \A x \in Elements(s) \cup Elements(t) : StepFields(x)
  BY <1>1, StepFacts DEF Elements
<1> HIDE DEF u, n, m
<1>6. \A i \in DOMAIN s : i \in DOMAIN u /\ u[i] = s[i] /\ s[i] \in Elements(s) /\ i \in Nat /\ i <= n
  BY <1>2, <1>3, <1>4 DEF Elements
<1>7. \A i \in DOMAIN t : n + i \in DOMAIN u /\ u[n + i] = t[i] /\ t[i] \in Elements(t) /\ i \in Nat /\ i >= 1
  <2> SUFFICES ASSUME NEW i \in 1..m
               PROVE  n + i \in DOMAIN u /\ u[n + i] = t[i] /\ t[i] \in Elements(t) /\ i \in Nat /\ i >= 1
    BY <1>2
  <2>1. n + i \in 1..n+m /\ ~(n + i <= n) /\ (n + i) - n = i BY <1>2
  <2> QED BY <1>2, <1>3, <1>4, <2>1 DEF Elements
<1>8. \A i \in DOMAIN u : i \in DOMAIN s \/ \E j \in DOMAIN t : i = n + j
  <2> SUFFICES ASSUME NEW i \in 1..n+m, ~(i \in 1..n) PROVE \E j \in 1..m : i = n + j BY <1>2, <1>4
  <2>1. i - n \in 1..m /\ i = n + (i - n) BY <1>2
  <2> QED BY <2>1
<1>9. Differ(u)
  <2> SUFFICES ASSUME NEW i \in DOMAIN u, NEW j \in DOMAIN u, i < j, Hooking(u[i]), Hooking(u[j])
               PROVE  Key(u[i]) # Key(u[j]) BY DEF Differ
  <2>1. CASE i \in DOMAIN s /\ j \in DOMAIN s
    BY <1>6, <2>1 DEF Program, Differ
  <2>2. ASSUME i \in DOMAIN s, NEW k \in DOMAIN t, j = n + k PROVE Key(u[i]) # Key(u[j])
    <3>1. u[i] \in Elements(s) /\ u[j] \in Elements(t) BY <1>6, <1>7, <2>2
    <3>2. OnView(u[i]) BY <3>1
    <3>3. CASE OnView(u[j]) BY <3>1, <3>3 DEF Key
    <3>4. CASE ~OnView(u[j]) BY <3>2, <3>4 DEF Key, OnView
    <3> QED BY <3>3, <3>4
  <2>3. ASSUME NEW k \in DOMAIN t, i = n + k, j \in DOMAIN s PROVE FALSE
    <3>1. k \in Nat /\ k >= 1 /\ j \in Nat /\ j <= n BY <1>6, <1>7, <2>3
    <3> QED BY <1>2, <3>1, <2>3
  <2>4. ASSUME NEW k \in DOMAIN t, i = n + k, NEW l \in DOMAIN t, j = n + l PROVE Key(u[i]) # Key(u[j])
    <3>1. u[i] = t[k] /\ u[j] = t[l] /\ k \in Nat /\ l \in Nat BY <1>7, <2>4
    <3>2. k < l BY <1>2, <2>4, <3>1
    <3> QED BY <3>1, <3>2 DEF Program, Differ
  <2> QED BY <1>8, <2>1, <2>2, <2>3, <2>4
<1>10. Together(u)
  <2> SUFFICES ASSUME NEW i \in DOMAIN u, i > 1, OnView(u[i]), u[i].do # "open"
               PROVE  OnView(u[i-1]) /\ u[i-1].on = u[i].on /\ u[i-1].face # "graph" BY DEF Together
  <2>1. CASE i \in DOMAIN s
    <3>1. i - 1 \in DOMAIN s /\ u[i] = s[i] BY <1>2, <1>6, <2>1
    <3>2. u[i-1] = s[i-1] BY <1>6, <3>1
    <3> QED BY <2>1, <3>1, <3>2 DEF Program, Together
  <2>2. ASSUME NEW k \in DOMAIN t, i = n + k
        PROVE  OnView(u[i-1]) /\ u[i-1].on = u[i].on /\ u[i-1].face # "graph"
    <3>1. u[i] = t[k] /\ k \in Nat /\ k >= 1 BY <1>7, <2>2
    <3>2. k # 1 BY <1>5, <2>2, <3>1
    <3>3. k > 1 /\ k - 1 \in DOMAIN t /\ i - 1 = n + (k - 1) BY <1>2, <2>2, <3>1, <3>2
    <3>4. u[i-1] = t[k-1] BY <1>7, <3>3
    <3> QED BY <2>2, <3>1, <3>3, <3>4 DEF Program, Together
  <2> QED BY <1>8, <2>1, <2>2
<1>11. Wired(u)
  <2> SUFFICES ASSUME NEW i \in DOMAIN u, u[i].do = "open"
               PROVE /\ \E j \in DOMAIN u : j > i /\ u[j] = Hook(u[i].on, "graph")
                     /\ u[i].on # Studio => \E j \in DOMAIN u : j > i /\ u[j] = Hook(u[i].on, "room")
    BY DEF Wired
  <2>1. CASE i \in DOMAIN s BY <1>6, <2>1 DEF Program, Wired
  <2>2. ASSUME NEW k \in DOMAIN t, i = n + k
        PROVE /\ \E j \in DOMAIN u : j > i /\ u[j] = Hook(u[i].on, "graph")
              /\ u[i].on # Studio => \E j \in DOMAIN u : j > i /\ u[j] = Hook(u[i].on, "room")
    <3>1. u[i] = t[k] /\ k \in Nat BY <1>7, <2>2
    <3>2. ASSUME NEW j \in DOMAIN t, j > k PROVE n + j \in DOMAIN u /\ n + j > i /\ u[n+j] = t[j]
      <4>1. j \in Nat BY <1>7
      <4> QED BY <1>2, <1>7, <2>2, <3>1, <3>2, <4>1
    <3> QED BY <2>2, <3>1, <3>2 DEF Program, Wired
  <2> QED BY <1>8, <2>1, <2>2
<1>12. ProjectsEnd(u)
  <2> SUFFICES ASSUME NEW i \in DOMAIN u, u[i].do = "get_project"
               PROVE i + 1 \in DOMAIN u /\ u[i+1] = Hook(u[i].on, "graph") BY DEF ProjectsEnd
  <2>1. CASE i \in DOMAIN s
    <3>1. i + 1 \in DOMAIN s /\ s[i+1] = Hook(s[i].on, "graph") /\ u[i] = s[i] BY <1>6, <2>1 DEF Program, ProjectsEnd
    <3> QED BY <1>6, <3>1
  <2>2. ASSUME NEW k \in DOMAIN t, i = n + k PROVE i + 1 \in DOMAIN u /\ u[i+1] = Hook(u[i].on, "graph")
    <3>1. u[i] = t[k] /\ k \in Nat BY <1>7, <2>2
    <3>2. k + 1 \in DOMAIN t /\ t[k+1] = Hook(t[k].on, "graph") BY <2>2, <3>1 DEF Program, ProjectsEnd
    <3>3. i + 1 = n + (k + 1) BY <1>2, <2>2, <3>1
    <3>4. n + (k + 1) \in DOMAIN u /\ u[n + (k + 1)] = t[k + 1] BY <1>7, <3>2
    <3> QED BY <3>1, <3>2, <3>3, <3>4
  <2> QED BY <1>8, <2>1, <2>2
<1>13. \A i \in DOMAIN u : u[i].do # "ask" /\ ~Once(u[i])
  <2> SUFFICES ASSUME NEW i \in DOMAIN u PROVE u[i].do # "ask" /\ ~Once(u[i]) OBVIOUS
  <2>1. CASE i \in DOMAIN s
    <3>1. u[i] \in Elements(s) BY <1>6, <2>1
    <3> QED BY <1>h, <3>1 DEF StepFields, Once
  <2>2. ASSUME NEW k \in DOMAIN t, i = n + k PROVE u[i].do # "ask" /\ ~Once(u[i]) BY <1>7, <2>2
  <2> QED BY <1>8, <2>1, <2>2
<1>14. Asks(u) /\ ListsLater(u) /\ Apart(u) BY <1>13 DEF Asks, ListsLater, Apart, Once
<1>15. RoomsLast(u)
  <2> SUFFICES ASSUME NEW i \in DOMAIN u, u[i].do = "list_rooms"
               PROVE i = Len(u) /\ \A j \in DOMAIN u : OnView(u[j]) => u[j].on = Studio BY DEF RoomsLast
  <2>1. i \notin DOMAIN s
    <3> SUFFICES ASSUME i \in DOMAIN s PROVE FALSE OBVIOUS
    <3>1. u[i] \in Elements(s) BY <1>6
    <3> QED BY <1>h, <3>1 DEF StepFields
  <2>2. PICK k \in DOMAIN t : i = n + k BY <1>8, <2>1
  <2>3. u[i] = t[k] /\ t[k] \in Elements(t) BY <1>7, <2>2
  <2>4. k = m /\ \A j \in DOMAIN t : OnView(t[j]) => t[j].on = Studio BY <2>3 DEF Program, RoomsLast, m
  <2>5. Listing(t) BY <2>3 DEF Listing
  <2>6. ASSUME NEW j \in DOMAIN u, OnView(u[j]) PROVE u[j].on = Studio
    <3>1. CASE j \in DOMAIN s BY <1>6, <2>5, <3>1
    <3>2. ASSUME NEW l \in DOMAIN t, j = n + l PROVE u[j].on = Studio BY <1>7, <2>4, <2>6, <3>2
    <3> QED BY <1>8, <3>1, <3>2
  <2> QED BY <1>3, <2>2, <2>4, <2>6
<1> QED BY <1>3, <1>9, <1>10, <1>11, <1>12, <1>14, <1>15 DEF Program, u

\* To have nothing to do is a program.
LEMMA NoProgram == Program(<< >>)
<1>1. << >> \in Seq(Steps) /\ DOMAIN << >> = {} OBVIOUS
<1> QED BY <1>1 DEF Program, Differ, Together, Wired, ProjectsEnd, Asks, ListsLater, RoomsLast, Apart

\* The hook a step registers.
LEMMA HookKey == \A o, f : Key(Hook(o, f)) = <<o, f>> /\ Hooking(Hook(o, f)) BY HookFields DEF Key, Hooking

\* The steps that open a view.
LEMMA OpeningFacts ==
  ASSUME NEW o \in Objects, NEW name \in Names
  PROVE  LET t == Opening(o, name)
         IN  /\ Program(t) /\ t # << >> /\ Head(t).do = "open"
             /\ \A x \in Elements(t) : OnView(x) /\ x.on = o
             /\ Opens(t) = {o}
             /\ \A h \in Pend(t) : h \in ViewHooks /\ h[1] = o
             /\ ~Listing(t)
<1> DEFINE a == Step("open", o, "apps", name)
           b == Step("list_apps", o, "apps", None)
           c == Hook(o, "room")
           d == Step("get_project", o, "room", None)
           e == Hook(o, "graph")
           t == Opening(o, name)
<1>1. /\ a.do = "open" /\ a.on = o /\ a.face = "apps"
      /\ b.do = "list_apps" /\ b.on = o /\ b.face = "apps"
      /\ c.do = "hook" /\ c.on = o /\ c.face = "room"
      /\ d.do = "get_project" /\ d.on = o /\ d.face = "room"
      /\ e.do = "hook" /\ e.on = o /\ e.face = "graph"
  BY StepIs, HookFields
<1>2. a \in Steps /\ b \in Steps /\ e \in Steps /\ (o # Studio => c \in Steps /\ d \in Steps) BY DEF Steps, Objects
<1>3. t = (<<a, b>> \o (IF o = Studio THEN << >> ELSE <<c, d>>)) \o <<e>> BY DEF Opening
<1>c. c = Hook(o, "room") /\ e = Hook(o, "graph") OBVIOUS
<1> HIDE DEF a, b, c, d, e, t
<1>v. "apps" \in ViewFaces /\ "room" \in ViewFaces /\ "graph" \in ViewFaces BY DEF ViewFaces
<1>4. CASE o = Studio
  <2>1. t = (<<a, b>> \o << >>) \o <<e>> BY <1>3, <1>4
  <2>2. <<a, b>> \in Seq(Steps) /\ <<e>> \in Seq(Steps) /\ Len(<<a, b>>) = 2 /\ Len(<<e>>) = 1 BY <1>2
  <2>3. <<a, b>> \o << >> = <<a, b>> BY <2>2
  <2>4. t = <<a, b>> \o <<e>> BY <2>1, <2>3
  <2>5. t \in Seq(Steps) /\ Len(t) = 3 /\ t[1] = a /\ t[2] = b /\ t[3] = e
    <3>1. t \in Seq(Steps) /\ Len(t) = 2 + 1 /\ \A i \in 1..2+1 : t[i] = IF i <= 2 THEN <<a, b>>[i] ELSE <<e>>[i - 2]
      BY <2>2, <2>4, ConcatProperties
    <3> QED BY <3>1
  <2>6. DOMAIN t = 1..3 /\ t # << >> /\ Head(t) = a
    <3>1. DOMAIN t = 1..3 BY <2>5
    <3>2. t # << >>
      <4>1. Len(t) = 3 /\ Len(<< >>) = 0 BY <2>5
      <4> QED BY <4>1
    <3>3. Head(t) = t[1] BY <2>5
    <3> QED BY <2>5, <3>1, <3>2, <3>3
  <2>7. \A i \in DOMAIN t : i = 1 \/ i = 2 \/ i = 3 BY <2>6
  <2>7a. 1 \in DOMAIN t /\ 2 \in DOMAIN t /\ 3 \in DOMAIN t BY <2>6
  <2>8. Elements(t) = {a, b, e} BY <2>5, <2>7, <2>7a DEF Elements
  <2>9. Differ(t)
    <3>1. <<o, "apps">> # <<o, "graph">> OBVIOUS
    <3>2. Key(a) # Key(e) BY <1>1, <3>1 DEF Key
    <3>3. ~Hooking(b) BY <1>1 DEF Hooking
    <3> QED BY <2>5, <2>7, <3>2, <3>3 DEF Differ
  <2>10. Together(t)
    <3>1. \A i \in DOMAIN t : i > 1 => OnView(t[i-1]) /\ t[i-1].on = o /\ t[i-1].face # "graph" /\ t[i].on = o
      <4>1. t[2-1] = a /\ t[3-1] = b BY <2>5
      <4>2. \A i \in DOMAIN t : i > 1 => i = 2 \/ i = 3 BY <2>7
      <4> QED BY <1>1, <1>v, <2>5, <4>1, <4>2 DEF OnView
    <3> QED BY <3>1 DEF Together
  <2>11. Wired(t)
    <3>1. \A i \in DOMAIN t : t[i].do = "open" => i = 1 BY <1>1, <2>5, <2>7
    <3>2. 3 > 1 /\ t[3] = Hook(t[1].on, "graph") /\ t[1].on = Studio BY <1>1, <1>c, <1>4, <2>5
    <3> QED BY <2>7a, <3>1, <3>2 DEF Wired
  <2>12. \A i \in DOMAIN t : t[i].do \notin {"get_project", "ask", "is_started", "get_name", "list_rooms"}
    BY <1>1, <2>5, <2>7
  <2>13. Program(t) BY <2>5, <2>9, <2>10, <2>11, <2>12 DEF Program, ProjectsEnd, Asks, ListsLater, RoomsLast, Apart, Once
  <2>14. \A x \in Elements(t) : OnView(x) /\ x.on = o BY <1>1, <1>v, <2>8 DEF OnView
  <2>15. Opens(t) = {o} BY <1>1, <2>8 DEF Opens
  <2>16. \A h \in Pend(t) : h \in ViewHooks /\ h[1] = o
    <3>1. <<o, "apps">> \in ViewHooks /\ <<o, "graph">> \in ViewHooks BY <1>v, ViewHookFacts
    <3>2. \A h \in Pend(t) : h = <<o, "apps">> \/ h = <<o, "graph">> BY <1>1, <2>8 DEF Pend, Key, Hooking
    <3> QED BY <3>1, <3>2
  <2>17. ~Listing(t) BY <1>1, <2>8 DEF Listing
  <2> QED BY <1>1, <2>6, <2>13, <2>14, <2>15, <2>16, <2>17 DEF t
<1>5. CASE o # Studio
  <2>1. t = (<<a, b>> \o <<c, d>>) \o <<e>> BY <1>3, <1>5
  <2>2. <<a, b>> \in Seq(Steps) /\ <<c, d>> \in Seq(Steps) /\ <<e>> \in Seq(Steps)
        /\ Len(<<a, b>>) = 2 /\ Len(<<c, d>>) = 2 /\ Len(<<e>>) = 1
    BY <1>2, <1>5
  <2> DEFINE s == <<a, b>> \o <<c, d>>
  <2>3. s \in Seq(Steps) /\ Len(s) = 4 /\ s[1] = a /\ s[2] = b /\ s[3] = c /\ s[4] = d
    <3>1. s \in Seq(Steps) /\ Len(s) = 2 + 2 /\ \A i \in 1..2+2 : s[i] = IF i <= 2 THEN <<a, b>>[i] ELSE <<c, d>>[i - 2]
      BY <2>2, ConcatProperties
    <3> HIDE DEF s
    <3> QED BY <3>1
  <2> HIDE DEF s
  <2>4. t = s \o <<e>> BY <2>1 DEF s
  <2>5. t \in Seq(Steps) /\ Len(t) = 5 /\ t[1] = a /\ t[2] = b /\ t[3] = c /\ t[4] = d /\ t[5] = e
    <3> DEFINE f == <<e>>
    <3>0. f \in Seq(Steps) /\ Len(f) = 1 /\ f[1] = e BY <2>2
    <3>1. t = s \o f BY <2>4
    <3> HIDE DEF f
    <3>2. t \in Seq(Steps) /\ Len(t) = Len(s) + Len(f)
          /\ \A i \in 1..Len(s)+Len(f) : t[i] = IF i <= Len(s) THEN s[i] ELSE f[i - Len(s)]
      BY <2>3, <3>0, <3>1, ConcatProperties
    <3> QED BY <2>3, <3>0, <3>2
  <2>6. DOMAIN t = 1..5 /\ t # << >> /\ Head(t) = a BY <2>5
  <2>7. \A i \in DOMAIN t : i = 1 \/ i = 2 \/ i = 3 \/ i = 4 \/ i = 5 BY <2>6
  <2>7a. 1 \in DOMAIN t /\ 2 \in DOMAIN t /\ 3 \in DOMAIN t /\ 4 \in DOMAIN t /\ 5 \in DOMAIN t BY <2>6
  <2>8. Elements(t) = {a, b, c, d, e} BY <2>5, <2>7, <2>7a DEF Elements
  <2>9. Differ(t)
    <3>1. <<o, "apps">> # <<o, "graph">> /\ <<o, "apps">> # <<o, "room">> /\ <<o, "room">> # <<o, "graph">> OBVIOUS
    <3>2. Key(a) # Key(e) /\ Key(a) # Key(c) /\ Key(c) # Key(e) BY <1>1, <3>1 DEF Key
    <3>3. ~Hooking(b) /\ ~Hooking(d) BY <1>1 DEF Hooking
    <3> QED BY <2>5, <2>7, <3>2, <3>3 DEF Differ
  <2>10. Together(t)
    <3>1. \A i \in DOMAIN t : i > 1 => OnView(t[i-1]) /\ t[i-1].on = o /\ t[i-1].face # "graph" /\ t[i].on = o
      <4>1. t[2-1] = a /\ t[3-1] = b /\ t[4-1] = c /\ t[5-1] = d BY <2>5
      <4>2. \A i \in DOMAIN t : i > 1 => i = 2 \/ i = 3 \/ i = 4 \/ i = 5 BY <2>7
      <4> QED BY <1>1, <1>v, <2>5, <4>1, <4>2 DEF OnView
    <3> QED BY <3>1 DEF Together
  <2>11. Wired(t)
    <3>1. \A i \in DOMAIN t : t[i].do = "open" => i = 1 BY <1>1, <2>5, <2>7
    <3>2. 5 > 1 /\ t[5] = Hook(t[1].on, "graph") /\ 3 > 1 /\ t[3] = Hook(t[1].on, "room") BY <1>1, <1>c, <2>5
    <3> QED BY <2>7a, <3>1, <3>2 DEF Wired
  <2>12. \A i \in DOMAIN t : t[i].do \notin {"ask", "is_started", "get_name", "list_rooms"}
    BY <1>1, <2>5, <2>7
  <2>12a. ProjectsEnd(t)
    <3>1. \A i \in DOMAIN t : t[i].do = "get_project" => i = 4 BY <1>1, <2>5, <2>7
    <3>2. 4 + 1 = 5 /\ t[5] = Hook(t[4].on, "graph") BY <1>1, <1>c, <2>5
    <3> QED BY <2>7a, <3>1, <3>2 DEF ProjectsEnd
  <2>13. Program(t) BY <2>5, <2>9, <2>10, <2>11, <2>12, <2>12a DEF Program, Asks, ListsLater, RoomsLast, Apart, Once
  <2>14. \A x \in Elements(t) : OnView(x) /\ x.on = o BY <1>1, <1>v, <2>8 DEF OnView
  <2>15. Opens(t) = {o} BY <1>1, <2>8 DEF Opens
  <2>16. \A h \in Pend(t) : h \in ViewHooks /\ h[1] = o
    <3>1. <<o, "apps">> \in ViewHooks /\ <<o, "graph">> \in ViewHooks /\ <<o, "room">> \in ViewHooks
      BY <1>v, <1>5, ViewHookFacts
    <3>2. \A h \in Pend(t) : h = <<o, "apps">> \/ h = <<o, "graph">> \/ h = <<o, "room">>
      BY <1>1, <2>8 DEF Pend, Key, Hooking
    <3> QED BY <3>1, <3>2
  <2>17. ~Listing(t) BY <1>1, <2>8 DEF Listing
  <2> QED BY <1>1, <2>6, <2>13, <2>14, <2>15, <2>16, <2>17 DEF t
<1> QED BY <1>4, <1>5

\* The views of rooms are opened one after the other.
OpOpening(d, steps, r) == steps \o Opening(r, d.rooms[r].name)
OpenedUpTo(d, t, list, i) ==
  /\ Program(t)
  /\ \A x \in Elements(t) : OnView(x) /\ x.on \in { list[k] : k \in 1..i }
  /\ Opens(t) = { list[k] : k \in 1..i }
  /\ \A h \in Pend(t) : h \in ViewHooks /\ h[1] \in { list[k] : k \in 1..i }
  /\ t # << >> => Head(t).do = "open"
OpeningFold == INSTANCE FoldFacts WITH Op <- OpOpening, Inv <- OpenedUpTo

\* Elements of what is appended, and the hooks and views they are for.
LEMMA StepsConcat ==
  ASSUME NEW s \in Seq(Steps), NEW t \in Seq(Steps)
  PROVE  /\ s \o t \in Seq(Steps)
         /\ Elements(s \o t) = Elements(s) \cup Elements(t)
         /\ Opens(s \o t) = Opens(s) \cup Opens(t)
         /\ Pend(s \o t) = Pend(s) \cup Pend(t)
         /\ Listing(s \o t) <=> Listing(s) \/ Listing(t)
         /\ s # << >> => s \o t # << >> /\ Head(s \o t) = Head(s)
<1>1. s \o t \in Seq(Steps) /\ Elements(s \o t) = Elements(s) \cup Elements(t) BY ElementsConcat
<1>2. Opens(s \o t) = Opens(s) \cup Opens(t) BY <1>1 DEF Opens
<1>3. Pend(s \o t) = Pend(s) \cup Pend(t) BY <1>1 DEF Pend
<1>4. Listing(s \o t) <=> Listing(s) \/ Listing(t) BY <1>1 DEF Listing
<1>5. s # << >> => s \o t # << >> /\ Head(s \o t) = Head(s)
  <2> SUFFICES ASSUME s # << >> PROVE s \o t # << >> /\ Head(s \o t) = Head(s) OBVIOUS
  <2>1. Len(s) \in Nat /\ Len(s) >= 1 /\ Len(t) \in Nat OBVIOUS
  <2>2. Len(s \o t) = Len(s) + Len(t) /\ (s \o t)[1] = s[1] BY <2>1, ConcatProperties
  <2> DEFINE u == s \o t
  <2>3. u \in Seq(Steps) /\ Len(u) >= 1 /\ u[1] = s[1] BY <1>1, <2>1, <2>2
  <2> HIDE DEF u
  <2>4. u # << >> /\ Head(u) = u[1] BY <2>3
  <2> QED BY <2>3, <2>4 DEF u
<1> QED BY <1>1, <1>2, <1>3, <1>4, <1>5

\* With nothing to do there are no hooks or views to come.
LEMMA NothingToDo == Elements(<< >>) = {} /\ Opens(<< >>) = {} /\ Pend(<< >>) = {} /\ ~Listing(<< >>)
<1>1. Elements(<< >>) = {} BY DEF Elements
<1> QED BY <1>1 DEF Opens, Pend, Listing

\* The steps that open the views of rooms.
Openings(d, list) == FoldLeft(LAMBDA steps, r : steps \o Opening(r, d.rooms[r].name), << >>, list)

\* The steps that open the views of rooms, one after the other.
LEMMA OpeningsFacts ==
  ASSUME NEW d, NEW list \in Seq(Rooms), IsInjective(list), \A r \in Elements(list) : d.rooms[r].name \in Names
  PROVE  LET t == Openings(d, list)
         IN  /\ Program(t)
             /\ \A x \in Elements(t) : OnView(x)
             /\ Opens(t) = Elements(list)
             /\ \A h \in Pend(t) : h \in ViewHooks /\ h[1] \in Elements(list)
             /\ t # << >> => Head(t).do = "open"
             /\ ~Listing(t)
<1> DEFINE t == Openings(d, list)
<1>1. t = OpeningFold!Folded(d, << >>, list)
  BY Zenon DEF Openings, OpeningFold!Folded, OpOpening, FoldLeft, MapThenFoldSet,
             OpeningFold!MapThenFoldSet, Max, OpeningFold!Greatest
<1> HIDE DEF t
<1>2. OpenedUpTo(d, << >>, list, 0)
  <2>1. { list[k] : k \in 1..0 } = {} OBVIOUS
  <2> QED BY <2>1, NoProgram, NothingToDo DEF OpenedUpTo
<1>3. ASSUME NEW i \in 1..Len(list), NEW s, OpenedUpTo(d, s, list, i - 1)
      PROVE  OpenedUpTo(d, OpOpening(d, s, list[i]), list, i)
  <2> DEFINE r == list[i]
             E == { list[k] : k \in 1..(i-1) }
             F == { list[k] : k \in 1..i }
             v == Opening(r, d.rooms[r].name)
             u == s \o v
  <2>1. DOMAIN list = 1..Len(list) /\ Len(list) \in Nat /\ i \in DOMAIN list /\ r \in Rooms /\ r \in Elements(list) BY DEF Elements
  <2>2. r \notin E BY <2>1 DEF IsInjective
  <2>3. F = E \cup {r}
    <3>1. \A k \in 1..i : k \in 1..(i-1) \/ k = i BY <2>1
    <3>2. i \in 1..i /\ \A k \in 1..(i-1) : k \in 1..i BY <2>1
    <3> QED BY <3>1, <3>2
  <2>4. Program(s) /\ (\A x \in Elements(s) : OnView(x) /\ x.on \in E) /\ Opens(s) = E
        /\ (\A h \in Pend(s) : h \in ViewHooks /\ h[1] \in E) /\ (s # << >> => Head(s).do = "open")
    BY <1>3 DEF OpenedUpTo
  <2>5. r \in Objects /\ r # Studio BY <2>1, NamesDiffer DEF Objects
  <2>6. d.rooms[r].name \in Names BY <2>1
  <2>9. OpOpening(d, s, r) = u BY DEF OpOpening
  <2> HIDE DEF r, E, F
  <2>7. Program(v) /\ v # << >> /\ Head(v).do = "open" /\ (\A x \in Elements(v) : OnView(x) /\ x.on = r)
        /\ Opens(v) = {r} /\ (\A h \in Pend(v) : h \in ViewHooks /\ h[1] = r) /\ ~Listing(v)
    BY <2>5, <2>6, OpeningFacts
  <2> HIDE DEF v
  <2>8. s \in Seq(Steps) /\ v \in Seq(Steps) BY <2>4, <2>7 DEF Program
  <2>10. \A x \in Elements(v) : x.do # "ask" /\ ~Once(x)
    <3> SUFFICES ASSUME NEW x \in Elements(v) PROVE x.do # "ask" /\ ~Once(x) OBVIOUS
    <3>1. x \in Steps BY <2>8 DEF Elements
    <3>2. StepFields(x) /\ OnView(x) BY <2>7, <3>1, StepFacts
    <3> QED BY <3>2 DEF StepFields, Once
  <2>11. \A x \in Elements(s), y \in Elements(v) : x.on # y.on BY <2>2, <2>4, <2>7
  <2>12. Program(u) BY <2>4, <2>7, <2>10, <2>11, ProgramConcat
  <2>13. /\ Elements(u) = Elements(s) \cup Elements(v) /\ Opens(u) = Opens(s) \cup Opens(v)
         /\ Pend(u) = Pend(s) \cup Pend(v)
         /\ (s # << >> => u # << >> /\ Head(u) = Head(s))
    BY <2>8, StepsConcat
  <2>14. u # << >> => Head(u).do = "open"
    <3>1. CASE s # << >> BY <2>4, <2>13, <3>1
    <3>2. CASE s = << >>
      <4>1. u = v BY <2>8, <3>2
      <4> QED BY <2>7, <4>1
    <3> QED BY <3>1, <3>2
  <2> HIDE DEF u
  <2>15. (\A x \in Elements(u) : OnView(x) /\ x.on \in F) /\ Opens(u) = F /\ (\A h \in Pend(u) : h \in ViewHooks /\ h[1] \in F)
    BY <2>3, <2>4, <2>7, <2>13
  <2>16. OpenedUpTo(d, u, list, i) BY <2>12, <2>14, <2>15 DEF OpenedUpTo, F
  <2> QED BY <2>9, <2>16 DEF r
<1>4. OpeningFold!Kept(d, list) BY <1>3 DEF OpeningFold!Kept
<1>5. OpeningFold!LeastNumbers BY LeastNumber DEF Numbers, OpeningFold!LeastNumbers
<1>6. OpenedUpTo(d, t, list, Len(list)) BY <1>1, <1>2, <1>4, <1>5, OpeningFold!FoldKeeps
<1>7. { list[k] : k \in 1..Len(list) } = Elements(list) BY DEF Elements
<1>8. /\ Program(t) /\ (\A x \in Elements(t) : OnView(x)) /\ Opens(t) = Elements(list)
      /\ (\A h \in Pend(t) : h \in ViewHooks /\ h[1] \in Elements(list)) /\ (t # << >> => Head(t).do = "open")
  BY <1>6, <1>7 DEF OpenedUpTo
<1>9. ~Listing(t)
  <2> SUFFICES ASSUME NEW x \in Elements(t) PROVE x.do # "list_rooms" BY DEF Listing
  <2>1. x \in Steps BY <1>8 DEF Program, Elements
  <2> QED BY <1>8, <2>1, StepFacts DEF StepFields
<1> QED BY <1>8, <1>9 DEF t

-----------------------------------------------------------------------------
(***************************************************************************)
(* The invariant.  The hooks of views are those of the views that are      *)
(* open, without those that are still to be registered (Regular), unless   *)
(* something was missed or told twice and the next step is the one that    *)
(* ends gladish (Doomed).  A room whose view is open, or about to be,      *)
(* exists when the signals on their way begin, and they are orderly from   *)
(* there to what the daemon has (RoomsApart); the same holds for the       *)
(* daemon and the timer (Life).  What is queued of the control object, the *)
(* studio and the bus is heard (HooksHeard).                               *)
(***************************************************************************)

IsView(v) ==
  v = [name |-> v.name, version |-> v.version, rows |-> v.rows, project |-> v.project,
       pversion |-> v.pversion, doubt |-> v.doubt]
IsGladish(g) ==
  /\ g = [on |-> g.on, state |-> g.state, views |-> [o \in Objects |-> g.views[o]], todo |-> g.todo,
          clean |-> g.clean, timers |-> g.timers, aborted |-> g.aborted]
  /\ g.on \in BOOLEAN /\ g.aborted \in BOOLEAN
  /\ \A o \in Objects : IsView(g.views[o])

Gone(g) == g.state \in {"na", "sick"}
Bad == missed \/ twice

\* Views O are open, steps t are to come, and hooks hk are registered.
Regular(O, t, hk) ==
  /\ \A h \in ViewHooks : h \in hk <=> h[1] \in O /\ h \notin Pend(t)
  /\ Opens(t) \cap O = {}
  /\ hk \cap Pend(t) = {}
  /\ t # << >> /\ OnView(Head(t)) /\ Head(t).do # "open" => Head(t).on \in O
  /\ Listing(t) => O \subseteq {Studio}
Doomed(t, hk, bad) == bad /\ ~Listing(t) /\ t # << >> /\ Head(t).do = "open" /\ <<Head(t).on, "apps">> \in hk

HooksHeard(hk, inb) == \A s \in Elements(inb) : s.face \in {"life", "control", "studio"} => <<s.on, s.face>> \in hk
Life(gone, timers, hk, inb, up, t) ==
  /\ timers = IF gone THEN 1 ELSE 0
  /\ IF <<"bus", "life">> \in hk THEN Orderly(LifePlace, gone, inb, ~up) ELSE ~gone
  /\ Listing(t) => ~gone
RoomsApart(O, t, inb, d, bad) ==
  ~bad => IF Listing(t) THEN \A s \in Elements(inb) : s.is # "RoomAppeared"
          ELSE \A r \in Rooms : Orderly(RoomPlace(r), r \in O \cup Opens(t), inb, r \in There(d))

Core(d, t, O, gone, timers, hk, inb, bad) ==
  /\ Sound(d) /\ inb \in Seq(Signals) /\ hk \subseteq Lasting \cup ViewHooks /\ O \subseteq Objects
  /\ Program(t)
  /\ Regular(O, t, hk) \/ Doomed(t, hk, bad)
  /\ Life(gone, timers, hk, inb, d.up, t)
  /\ RoomsApart(O, t, inb, d, bad)
  /\ HooksHeard(hk, inb)
  /\ t = Beginning => hk = {}

GuiInv ==
  /\ IsGladish(gladish)
  /\ Core(daemon, gladish.todo, Opened(gladish), Gone(gladish), gladish.timers, hooks, inbox, Bad)
  /\ gladish.on => ~gladish.aborted
  /\ gladish.aborted => Bad
  /\ ~gladish.on => gladish.todo = << >> /\ hooks = {} /\ inbox = << >> /\ Opened(gladish) = {} /\ ~Gone(gladish)

\* What a change adds to the queue keeps its order.
LEMMA QueuesKeep ==
  ASSUME Sound(daemon), gladish.on, NEW x, Changes(daemon, x), NEW rest \in Seq(Signals), HooksHeard(hooks, rest), Queues(x, rest)
  PROVE  /\ Sound(daemon') /\ daemon' = x[1]
         /\ inbox' \in Seq(Signals)
         /\ Bad => Bad'
         /\ HooksHeard(hooks, inbox')
         /\ <<"bus", "life">> \in hooks =>
              \A gone : Orderly(LifePlace, gone, rest, ~daemon.up) => Orderly(LifePlace, gone, inbox', ~daemon'.up)
         /\ ~Bad' => \A r \in Rooms : \A before :
              Orderly(RoomPlace(r), before, rest, r \in There(daemon)) => Orderly(RoomPlace(r), before, inbox', r \in There(daemon'))
         /\ ~Bad' /\ Listing(gladish.todo) /\ (\A s \in Elements(rest) : s.is # "RoomAppeared") =>
              \A s \in Elements(inbox') : s.is # "RoomAppeared"
<1> DEFINE S == { s \in Elements(x[2]) : <<s.on, s.face>> \in hooks }
           new == Members(x[2], S)
<1>1. x[2] \in Seq(Signals) /\ Sound(x[1]) BY DEF Changes
<1>2. daemon' = x[1] /\ inbox' = rest \o new BY DEF Queues, Select
<1>3. missed' = (missed \/ \E s \in Elements(x[2]) : s.face \in {"life", "control", "studio"} /\ <<s.on, s.face>> \notin hooks)
  BY DEF Queues
<1>4. twice' = (twice \/ (Listing(gladish.todo) /\ \E s \in Elements(x[2]) : s.is = "RoomAppeared" /\ <<s.on, s.face>> \in hooks))
  BY DEF Queues, Listing, Elements
<1>5. new \in Seq(Signals) /\ Elements(new) = Elements(x[2]) \cap S BY <1>1, MembersFacts
<1>6. \A s \in Elements(x[2]) : s \in S <=> <<s.on, s.face>> \in hooks OBVIOUS
<1>7. \A s \in Elements(x[2]) : SignalFields(s) BY <1>1, SignalFacts DEF Elements
<1> HIDE DEF S, new
<1>8. Elements(inbox') = Elements(rest) \cup Elements(new) /\ inbox' \in Seq(Signals) BY <1>2, <1>5, ElementsConcat
<1>9. Bad => Bad' BY <1>3, <1>4 DEF Bad
<1>10. HooksHeard(hooks, inbox') BY <1>5, <1>6, <1>8 DEF HooksHeard
<1>11. ASSUME <<"bus", "life">> \in hooks, NEW gone, Orderly(LifePlace, gone, rest, ~daemon.up)
       PROVE  Orderly(LifePlace, gone, inbox', ~daemon'.up)
  <2>1. Orderly(LifePlace, ~daemon.up, x[2], ~x[1].up) BY DEF Changes
  <2>2. \A s \in Elements(x[2]) : s \notin S => s \notin LifePlace.frees
    <3> SUFFICES ASSUME NEW s \in Elements(x[2]), s \in LifePlace.frees PROVE s \in S OBVIOUS
    <3>1. s.is = "appeared" BY DEF LifePlace, PlaceFor
    <3>2. s.face = "life" /\ s.on = "bus" BY <1>7, <3>1 DEF SignalFields
    <3> QED BY <1>6, <1>11, <3>2
  <2>3. Orderly(LifePlace, ~daemon.up, new, ~x[1].up) BY <1>1, <2>1, <2>2, OrderlyMembers DEF new
  <2>4. Orderly(LifePlace, gone, rest \o new, ~x[1].up) BY <1>5, <1>11, <2>3, OrderlyConcat
  <2> QED BY <1>2, <2>4
<1>12. ASSUME ~Bad', NEW r \in Rooms, NEW before, Orderly(RoomPlace(r), before, rest, r \in There(daemon))
       PROVE  Orderly(RoomPlace(r), before, inbox', r \in There(daemon'))
  <2>1. Orderly(RoomPlace(r), r \in There(daemon), x[2], r \in There(x[1])) BY DEF Changes
  <2>2. \A s \in Elements(x[2]) : s \notin S => s \notin RoomPlace(r).frees
    <3> SUFFICES ASSUME NEW s \in Elements(x[2]), s \in RoomPlace(r).frees PROVE s \in S OBVIOUS
    <3>1. s.is = "RoomDisappeared" \/ s.is = "disappeared" BY DEF RoomPlace, PlaceFor
    <3>2. s.face \in {"life", "studio"} BY <1>7, <3>1 DEF SignalFields
    <3>3. <<s.on, s.face>> \in hooks BY <1>3, <1>12, <3>2 DEF Bad
    <3> QED BY <1>6, <3>3
  <2>3. Orderly(RoomPlace(r), r \in There(daemon), new, r \in There(x[1])) BY <1>1, <2>1, <2>2, OrderlyMembers DEF new
  <2>4. Orderly(RoomPlace(r), before, rest \o new, r \in There(x[1])) BY <1>5, <1>12, <2>3, OrderlyConcat
  <2> QED BY <1>2, <2>4
<1>13. ASSUME ~Bad', Listing(gladish.todo), \A s \in Elements(rest) : s.is # "RoomAppeared"
       PROVE \A s \in Elements(inbox') : s.is # "RoomAppeared"
  <2>1. \A s \in Elements(new) : s.is # "RoomAppeared" BY <1>4, <1>5, <1>6, <1>13 DEF Bad
  <2> QED BY <1>8, <1>13, <2>1
<1> QED BY <1>1, <1>2, <1>8, <1>9, <1>10, <1>11, <1>12, <1>13

\* A step of the start before others.
LEMMA PrependStep ==
  ASSUME NEW e \in Steps, ~OnView(e), e.do \notin {"ask", "list_rooms"},
         NEW t, Program(t), \A x \in Elements(t) : x.do # "ask",
         t = << >> \/ ~OnView(Head(t)) \/ Head(t).do = "open",
         Hooking(e) => Key(e) \notin Pend(t),
         Once(e) => \A x \in Elements(t) : ~OnView(x) /\ ~Once(x),
         e.do = "is_started" => Listing(t)
  PROVE  /\ Program(<<e>> \o t)
         /\ \A x \in Elements(<<e>> \o t) : x.do # "ask"
         /\ <<e>> \o t # << >> /\ ~OnView(Head(<<e>> \o t))
         /\ Elements(<<e>> \o t) = {e} \cup Elements(t)
         /\ Pend(<<e>> \o t) = (IF Hooking(e) THEN {Key(e)} ELSE {}) \cup Pend(t)
         /\ Opens(<<e>> \o t) = Opens(t)
         /\ Listing(<<e>> \o t) <=> Listing(t)
         /\ <<e>> \o t # Beginning
<1> DEFINE m == Len(t)
           s == <<e>>
           u == <<e>> \o t
<1>1. t \in Seq(Steps) /\ s \in Seq(Steps) /\ Len(s) = 1 /\ s[1] = e /\ s # << >> /\ Head(s) = e BY DEF Program
<1>2. m \in Nat /\ DOMAIN t = 1..m BY <1>1
<1>f. StepFields(e) BY StepFacts
<1>e. Elements(s) = {e} BY DEF Elements
<1>c. u = s \o t OBVIOUS
<1> HIDE DEF s, u, m
<1>3. u \in Seq(Steps) /\ Len(u) = 1 + m /\ \A i \in 1..1+m : u[i] = IF i <= 1 THEN s[i] ELSE t[i - 1]
  BY <1>1, <1>2, <1>c, ConcatProperties DEF m
<1>4. DOMAIN u = 1..1+m BY <1>2, <1>3
<1>5. t = << >> \/ (1 \in DOMAIN t /\ Head(t) = t[1])
  <2>1. t # << >> => Len(t) >= 1 BY <1>1
  <2> QED BY <1>1, <1>2, <2>1
<1>6. 1 \in DOMAIN u /\ u[1] = e BY <1>1, <1>2, <1>3, <1>4
<1>7. \A i \in DOMAIN t : i + 1 \in DOMAIN u /\ u[i+1] = t[i] /\ t[i] \in Elements(t) /\ i \in Nat /\ i >= 1
  <2> SUFFICES ASSUME NEW i \in 1..m
               PROVE  i + 1 \in DOMAIN u /\ u[i+1] = t[i] /\ t[i] \in Elements(t) /\ i \in Nat /\ i >= 1
    BY <1>2
  <2>1. i + 1 \in 1..1+m /\ ~(i + 1 <= 1) /\ (i + 1) - 1 = i /\ i \in Nat /\ i >= 1 BY <1>2
  <2>2. u[i+1] = t[i] BY <1>3, <2>1
  <2>3. t[i] \in Elements(t) BY <1>2 DEF Elements
  <2> QED BY <1>4, <2>1, <2>2, <2>3
<1>8. \A i \in DOMAIN u : i = 1 \/ \E j \in DOMAIN t : i = j + 1
  <2> SUFFICES ASSUME NEW i \in 1..1+m, i # 1 PROVE \E j \in 1..m : i = j + 1 BY <1>2, <1>4
  <2>1. i - 1 \in 1..m /\ i = (i - 1) + 1 BY <1>2
  <2> QED BY <2>1
<1>9. Differ(u)
  <2> SUFFICES ASSUME NEW i \in DOMAIN u, NEW j \in DOMAIN u, i < j, Hooking(u[i]), Hooking(u[j])
               PROVE  Key(u[i]) # Key(u[j]) BY DEF Differ
  <2>1. ASSUME i = 1, NEW k \in DOMAIN t, j = k + 1 PROVE Key(u[i]) # Key(u[j])
    <3>1. u[i] = e /\ u[j] = t[k] /\ t[k] \in Elements(t) BY <1>6, <1>7, <2>1
    <3> QED BY <3>1 DEF Pend
  <2>2. ASSUME NEW k \in DOMAIN t, i = k + 1, j = 1 PROVE FALSE
    <3>1. k \in Nat /\ k >= 1 BY <1>7
    <3> QED BY <2>2, <3>1
  <2>3. i = 1 /\ j = 1 => FALSE OBVIOUS
  <2>4. ASSUME NEW k \in DOMAIN t, i = k + 1, NEW l \in DOMAIN t, j = l + 1 PROVE Key(u[i]) # Key(u[j])
    <3>1. u[i] = t[k] /\ u[j] = t[l] /\ k \in Nat /\ l \in Nat BY <1>7, <2>4
    <3>2. k < l BY <2>4, <3>1
    <3> QED BY <3>1, <3>2 DEF Program, Differ
  <2> QED BY <1>8, <2>1, <2>2, <2>3, <2>4
<1>10. Together(u)
  <2> SUFFICES ASSUME NEW i \in DOMAIN u, i > 1, OnView(u[i]), u[i].do # "open"
               PROVE  OnView(u[i-1]) /\ u[i-1].on = u[i].on /\ u[i-1].face # "graph" BY DEF Together
  <2>1. PICK k \in DOMAIN t : i = k + 1 BY <1>8
  <2>2. u[i] = t[k] /\ k \in Nat /\ k >= 1 /\ i - 1 = k BY <1>7, <2>1
  <2>3. k # 1 BY <1>5, <2>2
  <2>4. k > 1 /\ k - 1 \in DOMAIN t /\ (k - 1) + 1 = k BY <1>2, <2>2, <2>3
  <2>5. u[k] = t[k-1] BY <1>7, <2>4
  <2> QED BY <2>2, <2>4, <2>5 DEF Program, Together
<1>11. Wired(u)
  <2> SUFFICES ASSUME NEW i \in DOMAIN u, u[i].do = "open"
               PROVE /\ \E j \in DOMAIN u : j > i /\ u[j] = Hook(u[i].on, "graph")
                     /\ u[i].on # Studio => \E j \in DOMAIN u : j > i /\ u[j] = Hook(u[i].on, "room")
    BY DEF Wired
  <2>1. i # 1 BY <1>6, <1>f DEF StepFields, OnView, ViewFaces
  <2>2. PICK k \in DOMAIN t : i = k + 1 BY <1>8, <2>1
  <2>3. u[i] = t[k] /\ k \in Nat BY <1>7, <2>2
  <2>4. \A j \in DOMAIN t : j > k => j + 1 \in DOMAIN u /\ j + 1 > i /\ u[j+1] = t[j]
    <3> SUFFICES ASSUME NEW j \in DOMAIN t, j > k PROVE j + 1 \in DOMAIN u /\ j + 1 > i /\ u[j+1] = t[j] OBVIOUS
    <3>1. j \in Nat BY <1>7
    <3> QED BY <1>7, <2>2, <2>3, <3>1
  <2> QED BY <2>3, <2>4 DEF Program, Wired
<1>12. ProjectsEnd(u)
  <2> SUFFICES ASSUME NEW i \in DOMAIN u, u[i].do = "get_project"
               PROVE i + 1 \in DOMAIN u /\ u[i+1] = Hook(u[i].on, "graph") BY DEF ProjectsEnd
  <2>1. i # 1 BY <1>6, <1>f DEF StepFields, OnView, ViewFaces
  <2>2. PICK k \in DOMAIN t : i = k + 1 BY <1>8, <2>1
  <2>3. u[i] = t[k] /\ k \in Nat BY <1>7, <2>2
  <2>4. k + 1 \in DOMAIN t /\ t[k+1] = Hook(t[k].on, "graph") BY <2>3 DEF Program, ProjectsEnd
  <2>5. (k + 1) + 1 \in DOMAIN u /\ u[(k+1)+1] = t[k+1] BY <1>7, <2>4
  <2> QED BY <2>2, <2>3, <2>4, <2>5
<1>s. Elements(u) = {e} \cup Elements(t) /\ Opens(u) = Opens(s) \cup Opens(t) /\ Pend(u) = Pend(s) \cup Pend(t)
      /\ (Listing(u) <=> Listing(s) \/ Listing(t)) /\ u # << >> /\ Head(u) = e
  BY <1>1, <1>c, <1>e, StepsConcat
<1>13. \A x \in Elements(u) : x.do # "ask" BY <1>s
<1>14. Asks(u)
  <2> SUFFICES ASSUME NEW i \in DOMAIN u PROVE u[i].do # "ask" BY DEF Asks
  <2>1. u[i] \in Elements(u) BY DEF Elements
  <2> QED BY <1>13, <2>1
<1>15. ListsLater(u)
  <2> SUFFICES ASSUME NEW i \in DOMAIN u, u[i].do = "is_started"
               PROVE \E j \in DOMAIN u : j > i /\ u[j].do = "list_rooms" BY DEF ListsLater
  <2>1. CASE i = 1
    <3>1. PICK x \in Elements(t) : x.do = "list_rooms" BY <1>6, <2>1 DEF Listing
    <3>2. PICK j \in DOMAIN t : x = t[j] BY DEF Elements
    <3>3. j + 1 \in DOMAIN u /\ u[j+1] = t[j] /\ j + 1 > 1 BY <1>7
    <3> QED BY <2>1, <3>1, <3>2, <3>3
  <2>2. ASSUME NEW k \in DOMAIN t, i = k + 1 PROVE \E j \in DOMAIN u : j > i /\ u[j].do = "list_rooms"
    <3>1. u[i] = t[k] /\ k \in Nat BY <1>7, <2>2
    <3>2. PICK j \in DOMAIN t : j > k /\ t[j].do = "list_rooms" BY <3>1 DEF Program, ListsLater
    <3>3. j + 1 \in DOMAIN u /\ u[j+1] = t[j] /\ j \in Nat BY <1>7
    <3>4. j + 1 > i BY <2>2, <3>1, <3>2, <3>3
    <3> QED BY <3>2, <3>3, <3>4
  <2> QED BY <1>8, <2>1, <2>2
<1>16. RoomsLast(u)
  <2> SUFFICES ASSUME NEW i \in DOMAIN u, u[i].do = "list_rooms"
               PROVE i = Len(u) /\ \A j \in DOMAIN u : OnView(u[j]) => u[j].on = Studio BY DEF RoomsLast
  <2>1. i # 1 BY <1>6
  <2>2. PICK k \in DOMAIN t : i = k + 1 BY <1>8, <2>1
  <2>3. u[i] = t[k] /\ k \in Nat BY <1>7, <2>2
  <2>4. k = m /\ \A j \in DOMAIN t : OnView(t[j]) => t[j].on = Studio BY <2>3 DEF Program, RoomsLast, m
  <2>5. ASSUME NEW j \in DOMAIN u, OnView(u[j]) PROVE u[j].on = Studio
    <3>1. j # 1 BY <1>6, <2>5
    <3>2. PICK l \in DOMAIN t : j = l + 1 BY <1>8, <3>1
    <3> QED BY <1>7, <2>4, <2>5, <3>2
  <2>6. i = Len(u) BY <1>2, <1>3, <2>2, <2>4
  <2> QED BY <2>5, <2>6
<1>17. Apart(u)
  <2> SUFFICES ASSUME NEW i \in DOMAIN u, Once(u[i]), NEW j \in DOMAIN u
               PROVE ~OnView(u[j]) /\ (Once(u[j]) => j = i) BY DEF Apart
  <2>1. CASE i = 1 /\ j = 1 BY <1>6, <2>1
  <2>2. ASSUME i = 1, NEW l \in DOMAIN t, j = l + 1 PROVE ~OnView(u[j]) /\ (Once(u[j]) => j = i)
    <3>1. u[j] = t[l] /\ t[l] \in Elements(t) BY <1>7, <2>2
    <3> QED BY <1>6, <2>2, <3>1
  <2>3. ASSUME NEW k \in DOMAIN t, i = k + 1, j = 1 PROVE ~OnView(u[j]) /\ (Once(u[j]) => j = i)
    <3>1. u[i] = t[k] /\ t[k] \in Elements(t) BY <1>7, <2>3
    <3> QED BY <1>6, <2>3, <3>1
  <2>4. ASSUME NEW k \in DOMAIN t, i = k + 1, NEW l \in DOMAIN t, j = l + 1
        PROVE ~OnView(u[j]) /\ (Once(u[j]) => j = i)
    <3>1. u[i] = t[k] /\ u[j] = t[l] BY <1>7, <2>4
    <3>2. ~OnView(t[l]) /\ (Once(t[l]) => l = k) BY <3>1 DEF Program, Apart
    <3> QED BY <2>4, <3>1, <3>2
  <2> QED BY <1>8, <2>1, <2>2, <2>3, <2>4
<1>18. Program(u) BY <1>3, <1>9, <1>10, <1>11, <1>12, <1>14, <1>15, <1>16, <1>17 DEF Program
<1>19. Pend(s) = IF Hooking(e) THEN {Key(e)} ELSE {} BY <1>e DEF Pend
<1>20. Opens(s) = {} BY <1>e, <1>f DEF Opens, StepFields, OnView, ViewFaces
<1>21. ~Listing(s) BY <1>e DEF Listing
<1>22. u # Beginning
  <2>1. Beginning[1] = Ask /\ Ask.do = "ask" BY StepIs DEF Beginning, Ask
  <2> QED BY <1>6, <2>1
<1> QED BY <1>18, <1>13, <1>s, <1>19, <1>20, <1>21, <1>22 DEF u

\* Only the first step asks for the daemon.
LEMMA TailAsksNot ==
  ASSUME NEW t, Program(t), t # << >>
  PROVE  (\A x \in Elements(Tail(t)) : x.do # "ask") /\ Tail(t) # Beginning
<1>1. t \in Seq(Steps) BY DEF Program
<1>2. Tail(t) \in Seq(Steps) /\ Len(Tail(t)) = Len(t) - 1 /\ \A i \in 1..Len(t)-1 : Tail(t)[i] = t[i+1]
  BY <1>1, HeadTailProperties
<1> DEFINE s == Tail(t)
<1>3. DOMAIN s = 1..Len(t)-1 /\ DOMAIN t = 1..Len(t) /\ Len(t) \in Nat BY <1>1, <1>2
<1> HIDE DEF s
<1>4. \A i \in DOMAIN s : s[i].do # "ask"
  <2> SUFFICES ASSUME NEW i \in DOMAIN s, s[i].do = "ask" PROVE FALSE OBVIOUS
  <2>1. i \in Nat /\ i >= 1 /\ i + 1 \in DOMAIN t /\ s[i] = t[i+1] BY <1>2, <1>3 DEF s
  <2>2. t = Beginning BY <2>1 DEF Program, Asks
  <2>3. Len(t) = 3 BY <2>2 DEF Beginning
  <2>4. i = 1 \/ i = 2 BY <1>3, <2>1, <2>3
  <2>5. t[2].do = "hook" /\ t[3].do = "list_rooms" BY <2>2, HookFields, StepIs DEF Beginning, ListRooms
  <2>6. CASE i = 1 BY <2>1, <2>5, <2>6
  <2>7. CASE i = 2 BY <2>1, <2>5, <2>7
  <2> QED BY <2>4, <2>6, <2>7
<1>5. s # Beginning
  <2>1. Beginning[1] = Ask /\ Ask.do = "ask" /\ 1 \in DOMAIN Beginning BY StepIs DEF Beginning, Ask
  <2> QED BY <1>4, <2>1
<1> QED BY <1>4, <1>5 DEF Elements, s

\* The daemon does something, and what it sends is queued.
LEMMA CoreQueues ==
  ASSUME gladish.on, NEW O, NEW gone, NEW timers, NEW rest,
         Core(daemon, gladish.todo, O, gone, timers, hooks, rest, Bad),
         NEW x, Changes(daemon, x), Queues(x, rest)
  PROVE  Core(daemon', gladish.todo, O, gone, timers, hooks, inbox', Bad')
<1> DEFINE t == gladish.todo
<1>1. /\ Sound(daemon) /\ rest \in Seq(Signals) /\ hooks \subseteq Lasting \cup ViewHooks /\ O \subseteq Objects
      /\ Program(t) /\ (Regular(O, t, hooks) \/ Doomed(t, hooks, Bad))
      /\ Life(gone, timers, hooks, rest, daemon.up, t) /\ RoomsApart(O, t, rest, daemon, Bad)
      /\ HooksHeard(hooks, rest) /\ (t = Beginning => hooks = {})
  BY DEF Core
<1>2. /\ Sound(daemon') /\ daemon' = x[1] /\ inbox' \in Seq(Signals) /\ (Bad => Bad') /\ HooksHeard(hooks, inbox')
      /\ <<"bus", "life">> \in hooks =>
           \A b : Orderly(LifePlace, b, rest, ~daemon.up) => Orderly(LifePlace, b, inbox', ~daemon'.up)
      /\ ~Bad' => \A r \in Rooms : \A before :
           Orderly(RoomPlace(r), before, rest, r \in There(daemon)) => Orderly(RoomPlace(r), before, inbox', r \in There(daemon'))
      /\ ~Bad' /\ Listing(t) /\ (\A s \in Elements(rest) : s.is # "RoomAppeared") =>
           \A s \in Elements(inbox') : s.is # "RoomAppeared"
  BY <1>1, QueuesKeep
<1> HIDE DEF t
<1>3. Regular(O, t, hooks) \/ Doomed(t, hooks, Bad') BY <1>1, <1>2 DEF Doomed
<1>4. Life(gone, timers, hooks, inbox', daemon'.up, t) BY <1>1, <1>2 DEF Life
<1>5. RoomsApart(O, t, inbox', daemon', Bad') BY <1>1, <1>2 DEF RoomsApart
<1> QED BY <1>1, <1>2, <1>3, <1>4, <1>5 DEF Core, t

\* Other steps take the place of those there were.
LEMMA CoreSteps ==
  ASSUME NEW d, NEW t, NEW O, NEW gone, NEW timers, NEW hk, NEW inb, NEW bad,
         Core(d, t, O, gone, timers, hk, inb, bad),
         NEW u, Program(u), Regular(O, u, hk), u # Beginning, Listing(u) <=> Listing(t),
         \A r \in Rooms : r \in Opens(u) <=> r \in Opens(t)
  PROVE  Core(d, u, O, gone, timers, hk, inb, bad)
<1>1. Life(gone, timers, hk, inb, d.up, u) BY DEF Core, Life
<1>2. RoomsApart(O, u, inb, d, bad)
  <2>1. \A r \in Rooms : (r \in O \cup Opens(u)) <=> (r \in O \cup Opens(t)) OBVIOUS
  <2>2. RoomsApart(O, t, inb, d, bad) BY DEF Core
  <2>3. ASSUME ~bad, ~Listing(t), NEW r \in Rooms PROVE Orderly(RoomPlace(r), r \in O \cup Opens(u), inb, r \in There(d))
    <3>1. Orderly(RoomPlace(r), r \in O \cup Opens(t), inb, r \in There(d)) BY <2>2, <2>3 DEF RoomsApart
    <3> QED BY <2>1, <3>1, OrderlyWeaker
  <2> QED BY <2>2, <2>3 DEF RoomsApart
<1> QED BY <1>1, <1>2 DEF Core

\* A step that registers nothing is done.
LEMMA CoreDone ==
  ASSUME NEW d, NEW t, NEW O, NEW gone, NEW timers, NEW hk, NEW inb, NEW bad,
         Core(d, t, O, gone, timers, hk, inb, bad),
         t # << >>, Head(t).do \notin {"hook", "open", "list_rooms"}
  PROVE  /\ Core(d, Tail(t), O, gone, timers, hk, inb, bad)
         /\ Regular(O, Tail(t), hk) /\ Regular(O, t, hk)
<1> DEFINE u == Tail(t)
           h == Head(t)
<1>1. Program(t) BY DEF Core
<1>2. /\ Program(u) /\ h \in Steps
      /\ ~Hooking(h) => Pend(t) = Pend(u)
      /\ Opens(t) = (IF h.do = "open" THEN {h.on} ELSE {}) \cup Opens(u)
      /\ h.do # "list_rooms" => (Listing(t) <=> Listing(u))
      /\ u # << >> /\ OnView(Head(u)) /\ Head(u).do # "open" => OnView(h) /\ h.on = Head(u).on /\ h.face # "graph"
  BY <1>1, ProgramTail
<1>3. u # Beginning BY <1>1, TailAsksNot
<1> HIDE DEF u, h
<1>4. h.do \notin {"hook", "open", "list_rooms"} BY DEF h
<1>5. Pend(u) = Pend(t) /\ Opens(u) = Opens(t) /\ (Listing(u) <=> Listing(t)) BY <1>2, <1>4 DEF Hooking
<1>6. Regular(O, t, hk) BY <1>4 DEF Core, Doomed, h
<1>7. Regular(O, u, hk)
  <2>1. ASSUME u # << >>, OnView(Head(u)), Head(u).do # "open" PROVE Head(u).on \in O
    <3>1. OnView(h) /\ h.on = Head(u).on BY <1>2, <2>1
    <3> QED BY <1>4, <1>6, <3>1 DEF Regular, h
  <2> QED BY <1>5, <1>6, <2>1 DEF Regular
<1>8. Core(d, u, O, gone, timers, hk, inb, bad) BY <1>2, <1>3, <1>5, <1>7, CoreSteps
<1> QED BY <1>6, <1>7, <1>8 DEF u

\* Nothing is registered yet: whatever was missed, the rest is as it was.
LEMMA CoreFresh ==
  ASSUME NEW d, NEW t, NEW O, NEW gone, NEW timers, NEW inb, NEW bad, Core(d, t, O, gone, timers, {}, inb, bad),
         Listing(t), NEW e, Sound(e), NEW worse
  PROVE  Core(e, t, O, gone, timers, {}, inb, worse) /\ Regular(O, t, {})
<1>1. Regular(O, t, {}) BY DEF Core, Doomed
<1>2. Life(gone, timers, {}, inb, e.up, t) BY DEF Core, Life
<1>3. RoomsApart(O, t, inb, e, worse)
  <2>1. ASSUME NEW s \in Elements(inb) PROVE s.is # "RoomAppeared"
    <3>1. s \in Signals BY <2>1 DEF Core, Elements
    <3>2. s.face \notin {"life", "control", "studio"} BY <2>1 DEF Core, HooksHeard
    <3> QED BY <3>1, <3>2, SignalFacts DEF SignalFields
  <2> QED BY <2>1 DEF RoomsApart
<1> QED BY <1>1, <1>2, <1>3 DEF Core

\* gladish is not there, or has not begun.
LEMMA CoreOff ==
  ASSUME NEW d, Sound(d), NEW bad
  PROVE  /\ Core(d, << >>, {}, FALSE, 0, {}, << >>, bad)
         /\ Core(d, Beginning, {}, FALSE, 0, {}, << >>, bad)
<1>1. << >> \in Seq(Signals) /\ Elements(<< >>) = {} BY DEF Elements
<1>2. Program(<< >>) BY NoProgram
<1>3. Beginning = <<Ask, Hook(Studio, "studio"), ListRooms>> BY DEF Beginning
<1>a. Ask.do = "ask" /\ Ask.face = "control" /\ Hook(Studio, "studio").do = "hook" /\ Hook(Studio, "studio").on = Studio
      /\ Hook(Studio, "studio").face = "studio" /\ ListRooms.do = "list_rooms" /\ ListRooms.face = "studio"
  BY HookFields, StepIs DEF Ask, ListRooms
<1> DEFINE b == Hook(Studio, "studio")
           t == <<Ask, b, ListRooms>>
<1>4. Ask \in Steps /\ b \in Steps /\ ListRooms \in Steps BY DEF Steps
<1>5. b.do = "hook" /\ b.face = "studio" BY <1>a
<1> HIDE DEF b
<1>6. t \in Seq(Steps) /\ DOMAIN t = 1..3 /\ Len(t) = 3 /\ t[1] = Ask /\ t[2] = b /\ t[3] = ListRooms /\ Head(t) = Ask /\ t # << >>
  BY <1>4
<1>7. t = Beginning BY <1>3 DEF b
<1> HIDE DEF t
<1>8. \A i \in DOMAIN t : i = 1 \/ i = 2 \/ i = 3 BY <1>6
<1>9. \A i \in DOMAIN t : ~OnView(t[i]) BY <1>5, <1>6, <1>8, <1>a DEF OnView, ViewFaces
<1>10. \A i \in DOMAIN t : Hooking(t[i]) => i = 2 BY <1>6, <1>8, <1>a DEF Hooking
<1>11. \A i \in DOMAIN t : t[i].do \notin {"open", "get_project", "is_started", "get_name"} BY <1>5, <1>6, <1>8, <1>a
<1>12. \A i \in DOMAIN t : t[i].do = "list_rooms" => i = Len(t) BY <1>5, <1>6, <1>8, <1>a
<1>13. Program(t)
  <2>1. Differ(t) BY <1>10 DEF Differ
  <2>2. Together(t) BY <1>9 DEF Together
  <2>3. Wired(t) /\ ProjectsEnd(t) /\ ListsLater(t) /\ Apart(t) BY <1>11 DEF Wired, ProjectsEnd, ListsLater, Apart, Once
  <2>4. Asks(t) BY <1>7 DEF Asks
  <2>5. RoomsLast(t) BY <1>9, <1>12 DEF RoomsLast
  <2> QED BY <1>6, <2>1, <2>2, <2>3, <2>4, <2>5 DEF Program
<1>14. Listing(t)
  <2>1. 3 \in DOMAIN t /\ t[3].do = "list_rooms" BY <1>6, <1>a
  <2> QED BY <2>1 DEF Listing, Elements
<1>15. \A v : Opens(v) \cap {} = {} /\ {} \cap Pend(v) = {} OBVIOUS
<1>16. Regular({}, t, {}) /\ Regular({}, << >>, {})
  <2>1. ~OnView(Head(t)) BY <1>6, <1>a DEF OnView, ViewFaces
  <2> QED BY <2>1 DEF Regular
<1>17. ASSUME NEW v PROVE Life(FALSE, 0, {}, << >>, d.up, v) BY DEF Life
<1>18. RoomsApart({}, << >>, << >>, d, bad)
  <2>1. Opens(<< >>) = {} /\ ~Listing(<< >>) BY NothingToDo
  <2>2. \A r \in Rooms : Orderly(RoomPlace(r), r \in {} \cup Opens(<< >>), << >>, r \in There(d)) BY <2>1, OrderlyEmpty
  <2> QED BY <2>1, <2>2 DEF RoomsApart
<1>19. RoomsApart({}, t, << >>, d, bad) BY <1>1, <1>14 DEF RoomsApart
<1>20. HooksHeard({}, << >>) BY <1>1 DEF HooksHeard
<1>21. Core(d, << >>, {}, FALSE, 0, {}, << >>, bad) BY <1>1, <1>2, <1>16, <1>17, <1>18, <1>20 DEF Core
<1>22. Core(d, t, {}, FALSE, 0, {}, << >>, bad) BY <1>1, <1>13, <1>16, <1>17, <1>19, <1>20 DEF Core
<1> QED BY <1>7, <1>21, <1>22

\* A view that is not open is about to be opened, before the rest of the start.
LEMMA OpensFirst ==
  ASSUME NEW O, NEW hk, NEW w, Program(w), Regular(O, w, hk), \A x \in Elements(w) : ~OnView(x) /\ x.do # "ask" /\ ~Once(x),
         NEW o \in Objects, o \notin O, NEW name \in Names, Listing(w) => o = Studio
  PROVE  LET u == Opening(o, name) \o w
         IN  /\ Program(u) /\ Regular(O, u, hk) /\ u # Beginning
             /\ (Listing(u) <=> Listing(w)) /\ Opens(u) = {o} \cup Opens(w)
             /\ u # << >> /\ Head(u).do = "open"
<1> DEFINE v == Opening(o, name)
           u == v \o w
<1>1. /\ Program(v) /\ v # << >> /\ Head(v).do = "open"
      /\ \A x \in Elements(v) : OnView(x) /\ x.on = o
      /\ Opens(v) = {o}
      /\ \A h \in Pend(v) : h \in ViewHooks /\ h[1] = o
      /\ ~Listing(v)
  BY OpeningFacts
<1> HIDE DEF v
<1>2. v \in Seq(Steps) /\ w \in Seq(Steps) BY <1>1 DEF Program
<1>3. w = << >> \/ ~OnView(Head(w))
  <2>1. w # << >> => Head(w) \in Elements(w) BY <1>2, ElementsTail
  <2> QED BY <2>1
<1>4. Program(u) BY <1>1, <1>3, ProgramConcat
<1>5. /\ Opens(u) = {o} \cup Opens(w) /\ Pend(u) = Pend(v) \cup Pend(w) /\ (Listing(u) <=> Listing(w))
      /\ u # << >> /\ Head(u) = Head(v)
  BY <1>1, <1>2, StepsConcat
<1> HIDE DEF u
<1>6. \A h \in Pend(v) : h \notin hk /\ h[1] \notin O BY <1>1 DEF Regular
<1>7. Regular(O, u, hk)
  <2>1. \A h \in ViewHooks : h \in hk <=> h[1] \in O /\ h \notin Pend(u) BY <1>5, <1>6 DEF Regular
  <2>2. Opens(u) \cap O = {} /\ hk \cap Pend(u) = {} BY <1>5, <1>6 DEF Regular
  <2> QED BY <1>1, <1>5, <2>1, <2>2 DEF Regular
<1>8. u # Beginning
  <2>1. Head(Beginning).do = "ask" BY StepIs DEF Beginning, Ask
  <2> QED BY <1>1, <1>5, <2>1
<1> QED BY <1>1, <1>4, <1>5, <1>7, <1>8 DEF u, v

\* The views of the rooms the daemon listed are about to be opened.
LEMMA CoreRooms ==
  ASSUME NEW d, NEW t, NEW O, NEW gone, NEW timers, NEW hk, NEW inb, NEW bad,
         Core(d, t, O, gone, timers, hk, inb, bad), t # << >>, Head(t).do = "list_rooms",
         NEW rooms, rooms = There(d) \/ rooms = {},
         NEW u, Program(u), Opens(u) = rooms, \A h \in Pend(u) : h \in ViewHooks /\ h[1] \in rooms,
         u # << >> => Head(u).do = "open", ~Listing(u)
  PROVE  Core(d, u, O, gone, timers, hk, inb, bad)
<1>1. t \in Seq(Steps) /\ Regular(O, t, hk) BY DEF Core, Program, Doomed
<1>2. Head(t) \in Elements(t) /\ Tail(t) = << >> /\ Elements(t) = {Head(t)} \cup Elements(Tail(t))
  BY <1>1, ElementsTail, ProgramTail DEF Core
<1>3. Listing(t) BY <1>2 DEF Listing
<1>4. Pend(t) = {} BY <1>2, NothingToDo DEF Pend, Hooking
<1>5. O \subseteq {Studio} /\ rooms \subseteq Rooms BY <1>1, <1>3 DEF Regular, There
<1>6. O \cap rooms = {} BY <1>5, NamesDiffer
<1>7. \A h \in Pend(u) : h \notin hk /\ h[1] \notin O BY <1>1, <1>6 DEF Regular
<1>8. Regular(O, u, hk)
  <2>1. \A h \in ViewHooks : h \in hk <=> h[1] \in O /\ h \notin Pend(u) BY <1>1, <1>4, <1>7 DEF Regular
  <2>2. Opens(u) \cap O = {} /\ hk \cap Pend(u) = {} BY <1>6, <1>7
  <2> QED BY <2>1, <2>2 DEF Regular
<1>9. RoomsApart(O, u, inb, d, bad)
  <2> SUFFICES ASSUME ~bad, NEW r \in Rooms PROVE Orderly(RoomPlace(r), r \in O \cup Opens(u), inb, r \in There(d))
    BY DEF RoomsApart
  <2>1. \A s \in Elements(inb) : s.is # "RoomAppeared" BY <1>3 DEF Core, RoomsApart
  <2>2. \A s \in Elements(inb) : s \notin RoomPlace(r).fills /\ s \notin RoomPlace(r).needs BY <2>1 DEF RoomPlace, PlaceFor
  <2>3. r \in O \cup Opens(u) => r \in There(d) BY <1>5, NamesDiffer
  <2>4. inb \in Seq(Signals) BY DEF Core
  <2> QED BY <2>2, <2>3, <2>4, OrderlyOthers
<1>10. Life(gone, timers, hk, inb, d.up, u) BY <1>3 DEF Core, Life
<1>11. u # Beginning
  <2>1. Head(Beginning).do = "ask" /\ Beginning # << >> BY StepIs DEF Beginning, Ask
  <2> QED BY <2>1
<1> QED BY <1>8, <1>9, <1>10, <1>11 DEF Core

\* A step that registers a hook for a view or for good.
LEMMA CoreHooks ==
  ASSUME NEW d, NEW t, NEW O, NEW gone, NEW timers, NEW hk, NEW inb, NEW bad,
         Core(d, t, O, gone, timers, hk, inb, bad), t # << >>, Head(t).do = "hook"
  PROVE  /\ Key(Head(t)) \notin hk
         /\ Core(d, Tail(t), O, gone, timers, hk \cup {Key(Head(t))}, inb, bad)
<1> DEFINE u == Tail(t)
           x == Head(t)
           h == Key(x)
           more == hk \cup {h}
<1>1. Program(t) /\ Regular(O, t, hk) BY DEF Core, Doomed
<1>2. /\ Program(u) /\ x \in Steps
      /\ Hooking(x) => Key(x) \notin Pend(u) /\ Pend(t) = {Key(x)} \cup Pend(u)
      /\ Opens(t) = (IF x.do = "open" THEN {x.on} ELSE {}) \cup Opens(u)
      /\ x.do # "list_rooms" => (Listing(t) <=> Listing(u))
      /\ u # << >> /\ OnView(Head(u)) /\ Head(u).do # "open" => OnView(x) /\ x.on = Head(u).on /\ x.face # "graph"
  BY <1>1, ProgramTail
<1>3. u # Beginning BY <1>1, TailAsksNot
<1>4. x.do = "hook" /\ Hooking(x) BY DEF Hooking
<1>5. StepFields(x) BY <1>2, StepFacts
<1>6. OnView(x) => x.on \in O BY <1>1, <1>4 DEF Regular
<1> HIDE DEF u, x
<1>7. h \notin Pend(u) /\ Pend(t) = {h} \cup Pend(u) /\ Opens(t) = Opens(u) /\ (Listing(u) <=> Listing(t)) BY <1>2, <1>4
<1>8. h \notin hk /\ h \in Lasting \cup ViewHooks /\ (h \in ViewHooks => h[1] \in O)
  <2>1. h \notin hk BY <1>1, <1>7 DEF Regular
  <2>2. h \in Lasting \cup ViewHooks /\ (OnView(x) <=> h \in ViewHooks) BY <1>4, <1>5 DEF StepFields
  <2>3. h[1] = x.on BY DEF Key
  <2> QED BY <1>6, <2>1, <2>2, <2>3
<1> HIDE DEF h
<1>9. Regular(O, u, more)
  <2>1. \A k \in ViewHooks : k \in more <=> k[1] \in O /\ k \notin Pend(u) BY <1>1, <1>7, <1>8 DEF Regular
  <2>2. more \cap Pend(u) = {} BY <1>1, <1>7 DEF Regular
  <2>3. ASSUME u # << >>, OnView(Head(u)), Head(u).do # "open" PROVE Head(u).on \in O BY <1>2, <1>6, <2>3
  <2> QED BY <1>1, <1>7, <2>1, <2>2, <2>3 DEF Regular
<1>10. Life(gone, timers, more, inb, d.up, u)
  <2>1. CASE <<"bus", "life">> \in hk BY <1>7, <2>1 DEF Core, Life
  <2>2. CASE <<"bus", "life">> \notin hk
    <3>1. ~gone BY <2>2 DEF Core, Life
    <3>2. \A s \in Elements(inb) : s \notin LifePlace.fills
      <4> SUFFICES ASSUME NEW s \in Elements(inb), s \in LifePlace.fills PROVE FALSE OBVIOUS
      <4>1. s \in Signals /\ s.is = "disappeared" BY DEF LifePlace, PlaceFor
      <4>2. s.face = "life" /\ s.on = "bus" BY <4>1, SignalFacts DEF SignalFields
      <4> QED BY <2>2, <4>2 DEF Core, HooksHeard
    <3>3. Orderly(LifePlace, gone, inb, ~d.up) BY <3>1, <3>2, OrderlyOthers DEF Core
    <3> QED BY <1>7, <2>2, <3>1, <3>3 DEF Core, Life
  <2> QED BY <2>1, <2>2
<1>11. RoomsApart(O, u, inb, d, bad) BY <1>7 DEF Core, RoomsApart
<1>12. HooksHeard(more, inb) BY DEF Core, HooksHeard
<1>13. Core(d, u, O, gone, timers, more, inb, bad)
  BY <1>2, <1>3, <1>8, <1>9, <1>10, <1>11, <1>12 DEF Core
<1> QED BY <1>8, <1>13 DEF u, h, x

\* The step that opens a view: gladish ends if it has the hook, and then
\* something was missed or was told twice.
LEMMA CoreViews ==
  ASSUME NEW d, NEW t, NEW O, NEW gone, NEW timers, NEW hk, NEW inb, NEW bad,
         Core(d, t, O, gone, timers, hk, inb, bad), t # << >>, Head(t).do = "open"
  PROVE  LET h == <<Head(t).on, "apps">>
         IN  /\ h \in hk => bad
             /\ h \notin hk => Core(d, Tail(t), O \cup {Head(t).on}, gone, timers, hk \cup {h}, inb, bad)
             /\ Head(t).on \in Objects /\ Head(t).name \in Names
<1> DEFINE u == Tail(t)
           x == Head(t)
           o == x.on
           h == <<o, "apps">>
           more == hk \cup {h}
           P == O \cup {o}
<1>1. Program(t) BY DEF Core
<1>2. /\ Program(u) /\ x \in Steps
      /\ Hooking(x) => Key(x) \notin Pend(u) /\ Pend(t) = {Key(x)} \cup Pend(u)
      /\ Opens(t) = (IF x.do = "open" THEN {x.on} ELSE {}) \cup Opens(u)
      /\ x.do # "list_rooms" => (Listing(t) <=> Listing(u))
      /\ u # << >> /\ OnView(Head(u)) /\ Head(u).do # "open" => OnView(x) /\ x.on = Head(u).on /\ x.face # "graph"
  BY <1>1, ProgramTail
<1>3. u # Beginning BY <1>1, TailAsksNot
<1>4. x.do = "open" /\ Hooking(x) BY DEF Hooking
<1>5. StepFields(x) /\ x.face = "apps" /\ o \in Objects /\ x.name \in Names /\ Key(x) = h
  BY <1>2, <1>4, StepFacts DEF StepFields, Key
<1>t. t \in Seq(Steps) /\ DOMAIN t = 1..Len(t) /\ Len(t) \in Nat /\ Len(t) >= 1 /\ x = t[1] BY <1>1 DEF Program
<1>w. /\ Hook(o, "graph") \in Elements(u)
      /\ o # Studio => Hook(o, "room") \in Elements(u)
  <2>1. 1 \in DOMAIN t /\ t[1].do = "open" /\ t[1].on = o BY <1>t, <1>4
  <2>2. u \in Seq(Steps) /\ Len(u) = Len(t) - 1 /\ \A i \in 1..Len(t)-1 : u[i] = t[i+1] BY <1>t, HeadTailProperties
  <2>3. DOMAIN u = 1..Len(t)-1 BY <1>t, <2>2
  <2> HIDE DEF u, x, o
  <2>4. ASSUME NEW j \in DOMAIN t, j > 1 PROVE t[j] \in Elements(u)
    <3>1. j - 1 \in 1..Len(t)-1 /\ (j - 1) + 1 = j BY <1>t, <2>4
    <3>2. u[j-1] = t[j] /\ j - 1 \in DOMAIN u BY <2>2, <2>3, <3>1
    <3> QED BY <3>2 DEF Elements
  <2>5. PICK j \in DOMAIN t : j > 1 /\ t[j] = Hook(o, "graph") BY <1>1, <2>1 DEF Program, Wired
  <2>6. o # Studio => \E i \in DOMAIN t : i > 1 /\ t[i] = Hook(o, "room") BY <1>1, <2>1 DEF Program, Wired
  <2> QED BY <2>4, <2>5, <2>6
<1>8. CASE h \in hk
  <2>1. ~Regular(O, t, hk) BY <1>2, <1>4, <1>5, <1>8 DEF Regular
  <2>2. bad BY <2>1 DEF Core, Doomed
  <2> QED BY <1>5, <1>8, <2>2
<1>9. CASE h \notin hk
  <2>1. Regular(O, t, hk) BY <1>9 DEF Core, Doomed
  <2>i. \A y \in Elements(u) : y \in Steps BY <1>2 DEF Program, Elements
  <2>l. Listing(t) => o = Studio
    <3> SUFFICES ASSUME Listing(t) PROVE o = Studio OBVIOUS
    <3>1. PICK i \in DOMAIN t : t[i].do = "list_rooms" BY DEF Listing, Elements
    <3>2. \A j \in DOMAIN t : OnView(t[j]) => t[j].on = Studio BY <1>1, <3>1 DEF Program, RoomsLast
    <3>3. 1 \in DOMAIN t /\ OnView(t[1]) BY <1>t, <1>5 DEF OnView, ViewFaces
    <3> QED BY <1>t, <3>2, <3>3
  <2> HIDE DEF u, x, o
  <2>2. h \notin Pend(u) /\ Pend(t) = {h} \cup Pend(u) /\ Opens(t) = {o} \cup Opens(u) /\ (Listing(u) <=> Listing(t))
    BY <1>2, <1>4, <1>5 DEF o
  <2>3. o \notin O BY <2>1, <2>2 DEF Regular
  <2>4. h \in ViewHooks /\ h[1] = o BY <1>5, ViewHookFacts DEF ViewFaces
  <2>5. <<o, "graph">> \in Pend(u) /\ (o # Studio => <<o, "room">> \in Pend(u)) BY <1>w, HookKey DEF Pend
  <2>6. \A k \in ViewHooks : k[1] = o => k = h \/ k \in Pend(u)
    <3> SUFFICES ASSUME NEW k \in ViewHooks, k[1] = o, k # h PROVE k \in Pend(u) OBVIOUS
    <3>1. k = <<o, k[2]>> /\ k[2] \in ViewFaces /\ ~(o = Studio /\ k[2] = "room") BY ViewHookFacts
    <3> QED BY <2>5, <3>1 DEF ViewFaces
  <2>7. o \notin Opens(u)
    <3> SUFFICES ASSUME NEW y \in Elements(u), y.do = "open", y.on = o PROVE FALSE BY DEF Opens
    <3>1. y.face = "apps" BY <2>i, StepFacts DEF StepFields
    <3>2. Key(y) = h /\ Hooking(y) BY <3>1 DEF Key, Hooking
    <3> QED BY <2>2, <3>2 DEF Pend
  <2> HIDE DEF h
  <2>8. Regular(P, u, more)
    <3>1. ASSUME NEW k \in ViewHooks PROVE k \in more <=> k[1] \in P /\ k \notin Pend(u)
      <4>1. CASE k[1] = o
        <5>1. k \notin hk BY <2>1, <2>3, <4>1 DEF Regular
        <5>2. k = h \/ k \in Pend(u) BY <2>6, <4>1
        <5> QED BY <2>2, <4>1, <5>1, <5>2
      <4>2. CASE k[1] # o
        <5>1. k # h BY <2>4, <4>2
        <5> QED BY <2>1, <2>2, <4>2, <5>1 DEF Regular
      <4> QED BY <4>1, <4>2
    <3>2. more \cap Pend(u) = {} /\ Opens(u) \cap P = {} BY <2>1, <2>2, <2>7 DEF Regular
    <3>3. ASSUME u # << >>, OnView(Head(u)), Head(u).do # "open" PROVE Head(u).on \in P BY <1>2, <3>3 DEF o
    <3>4. Listing(u) => P \subseteq {Studio} BY <2>1, <2>2, <2>l DEF Regular
    <3> QED BY <3>1, <3>2, <3>3, <3>4 DEF Regular
  <2>9. Life(gone, timers, more, inb, d.up, u)
    <3>1. <<"bus", "life">> \in Lasting BY DEF Lasting
    <3>2. <<"bus", "life">> # h BY <2>4, <3>1, ViewHookFacts
    <3> QED BY <2>2, <3>2 DEF Core, Life
  <2>10. RoomsApart(P, u, inb, d, bad)
    <3>1. P \cup Opens(u) = O \cup Opens(t) BY <2>2
    <3> HIDE DEF P
    <3> QED BY <2>2, <3>1 DEF Core, RoomsApart
  <2>11. HooksHeard(more, inb) BY DEF Core, HooksHeard
  <2>12. P \subseteq Objects /\ more \subseteq Lasting \cup ViewHooks BY <1>5, <2>4 DEF Core
  <2>13. Core(d, u, P, gone, timers, more, inb, bad)
    BY <1>2, <1>3, <2>8, <2>9, <2>10, <2>11, <2>12 DEF Core
  <2> QED BY <1>5, <1>9, <2>13 DEF u, h, o, x
<1> QED BY <1>8, <1>9

\* The hooks that stay when the views of C are closed.
HooksLeft(hk, C) == { h \in hk : h[1] \notin C \/ h[2] \notin ViewFaces }

\* Which hooks are left.
LEMMA HooksLeftFacts ==
  ASSUME NEW hk, NEW C
  PROVE  /\ \A h \in ViewHooks : h \in HooksLeft(hk, C) <=> h \in hk /\ h[1] \notin C
         /\ \A o, f : f \notin ViewFaces => (<<o, f>> \in HooksLeft(hk, C) <=> <<o, f>> \in hk)
         /\ <<"bus", "life">> \in HooksLeft(hk, C) <=> <<"bus", "life">> \in hk
         /\ HooksLeft(hk, C) \subseteq hk
<1>1. \A h \in ViewHooks : h \in HooksLeft(hk, C) <=> h \in hk /\ h[1] \notin C BY ViewHookFacts DEF HooksLeft
<1>2. \A o, f : f \notin ViewFaces => (<<o, f>> \in HooksLeft(hk, C) <=> <<o, f>> \in hk) BY DEF HooksLeft
<1>3. "life" \notin ViewFaces BY DEF ViewFaces
<1> QED BY <1>1, <1>2, <1>3 DEF HooksLeft

\* What lasts is still heard.
LEMMA HooksLeftHeard ==
  ASSUME NEW hk, NEW inb, HooksHeard(hk, inb), NEW C
  PROVE  HooksHeard(HooksLeft(hk, C), inb)
<1> SUFFICES ASSUME NEW s \in Elements(inb), s.face \in {"life", "control", "studio"}
             PROVE  <<s.on, s.face>> \in HooksLeft(hk, C) BY DEF HooksHeard
<1>1. <<s.on, s.face>> \in hk BY DEF HooksHeard
<1>2. s.face \notin ViewFaces BY DEF ViewFaces
<1> QED BY <1>1, <1>2, HooksLeftFacts

\* The view of a room whose project cannot be asked for is taken apart.
LEMMA CoreCloses ==
  ASSUME NEW d, NEW t, NEW O, NEW gone, NEW timers, NEW hk, NEW inb, NEW bad,
         Core(d, t, O, gone, timers, hk, inb, bad), t # << >>, Head(t).do = "get_project"
  PROVE  Core(d, Tail(Tail(t)), O \ {Head(t).on}, gone, timers, HooksLeft(hk, {Head(t).on}), inb, bad)
<1> DEFINE v == Tail(t)
           u == Tail(v)
           x == Head(t)
           r == x.on
           y == Head(v)
           P == O \ {r}
           less == HooksLeft(hk, {r})
<1>1. Program(t) BY DEF Core
<1>2. /\ Program(v) /\ x \in Steps
      /\ ~Hooking(x) => Pend(t) = Pend(v)
      /\ Opens(t) = (IF x.do = "open" THEN {x.on} ELSE {}) \cup Opens(v)
      /\ x.do # "list_rooms" => (Listing(t) <=> Listing(v))
  BY <1>1, ProgramTail
<1>3. t \in Seq(Steps) /\ DOMAIN t = 1..Len(t) /\ Len(t) \in Nat /\ Len(t) >= 1 /\ x = t[1] BY <1>1 DEF Program
<1>4. v \in Seq(Steps) /\ Len(v) = Len(t) - 1 /\ \A i \in 1..Len(t)-1 : v[i] = t[i+1] BY <1>3, HeadTailProperties
<1>5. v # << >> /\ y = Hook(r, "graph")
  <2>1. 1 \in DOMAIN t /\ t[1].do = "get_project" /\ t[1].on = r BY <1>3
  <2>2. 1 + 1 \in DOMAIN t /\ t[1 + 1] = Hook(r, "graph") BY <1>1, <2>1 DEF Program, ProjectsEnd
  <2> HIDE DEF v, r, x
  <2>3. 1 \in 1..Len(t)-1 /\ Len(v) >= 1 BY <1>3, <1>4, <2>2
  <2>4. v # << >> /\ Head(v) = v[1] BY <1>4, <2>3
  <2> QED BY <1>4, <2>2, <2>3, <2>4
<1>6. /\ Program(u)
      /\ Hooking(y) => Key(y) \notin Pend(u) /\ Pend(v) = {Key(y)} \cup Pend(u)
      /\ Opens(v) = (IF y.do = "open" THEN {y.on} ELSE {}) \cup Opens(u)
      /\ y.do # "list_rooms" => (Listing(v) <=> Listing(u))
      /\ u # << >> /\ OnView(Head(u)) /\ Head(u).do # "open" => OnView(y) /\ y.on = Head(u).on /\ y.face # "graph"
  BY <1>2, <1>5, ProgramTail
<1>7. u # Beginning BY <1>2, <1>5, TailAsksNot
<1>8. x.do = "get_project" OBVIOUS
<1>9. StepFields(x) BY <1>2, StepFacts
<1>10. Regular(O, t, hk) BY DEF Core, Doomed
<1>11. OnView(x) BY <1>8, <1>9 DEF StepFields, OnView, ViewFaces
<1>12. r \in O BY <1>8, <1>10, <1>11 DEF Regular
<1> HIDE DEF u, v, x, y
<1>13. y.do = "hook" /\ y.face = "graph" /\ Key(y) = <<r, "graph">> /\ Hooking(y) BY <1>5, HookFields, HookKey
<1>14. Pend(t) = {<<r, "graph">>} \cup Pend(u) /\ Opens(t) = Opens(u) /\ (Listing(t) <=> Listing(u))
  BY <1>2, <1>6, <1>8, <1>13 DEF Hooking
<1> HIDE DEF r, less
<1>15. Regular(P, u, less)
  <2>1. ASSUME NEW h \in ViewHooks PROVE h \in less <=> h[1] \in P /\ h \notin Pend(u)
    <3>1. h \in less <=> h \in hk /\ h[1] # r BY HooksLeftFacts DEF less
    <3>2. h[1] # r => h # <<r, "graph">> OBVIOUS
    <3> QED BY <1>10, <1>14, <3>1, <3>2 DEF Regular
  <2>2. Opens(u) \cap P = {} /\ less \cap Pend(u) = {} BY <1>10, <1>14, HooksLeftFacts DEF Regular, less
  <2>3. ~(u # << >> /\ OnView(Head(u)) /\ Head(u).do # "open") BY <1>6, <1>13
  <2>4. Listing(u) => P \subseteq {Studio} BY <1>10, <1>14 DEF Regular
  <2> QED BY <2>1, <2>2, <2>3, <2>4 DEF Regular
<1>16. Life(gone, timers, less, inb, d.up, u) BY <1>14, HooksLeftFacts DEF Core, Life, less
<1>17. RoomsApart(P, u, inb, d, bad)
  <2>1. RoomsApart(O, t, inb, d, bad) BY DEF Core
  <2>2. ASSUME ~bad, ~Listing(u), NEW q \in Rooms PROVE Orderly(RoomPlace(q), q \in P \cup Opens(u), inb, q \in There(d))
    <3>1. Orderly(RoomPlace(q), q \in O \cup Opens(t), inb, q \in There(d)) BY <1>14, <2>1, <2>2 DEF RoomsApart
    <3>2. q \in P \cup Opens(u) => q \in O \cup Opens(t) BY <1>14
    <3> DEFINE b == q \in P \cup Opens(u)
               c == q \in O \cup Opens(t)
               a == q \in There(d)
    <3>3. Orderly(RoomPlace(q), c, inb, a) /\ (b => c) BY <3>1, <3>2
    <3> HIDE DEF a, b, c
    <3>4. Orderly(RoomPlace(q), b, inb, a) BY <3>3 DEF Orderly
    <3> QED BY <3>4 DEF a, b
  <2> QED BY <1>14, <2>1, <2>2 DEF RoomsApart
<1>18. HooksHeard(less, inb) BY HooksLeftHeard DEF Core, less
<1>19. P \subseteq Objects /\ less \subseteq Lasting \cup ViewHooks BY HooksLeftFacts DEF Core, less
<1>20. Core(d, u, P, gone, timers, less, inb, bad)
  BY <1>6, <1>7, <1>15, <1>16, <1>17, <1>18, <1>19 DEF Core
<1> QED BY <1>20 DEF u, v, r, x, less

\* A signal is taken: views of some objects are closed, and the life of the
\* daemon is followed.
LEMMA CoreTakes ==
  ASSUME NEW d, NEW O, NEW gone, NEW timers, NEW hk, NEW inb, NEW bad,
         Core(d, << >>, O, gone, timers, hk, inb, bad), inb # << >>,
         NEW C, \A r \in Rooms : Head(inb) \in RoomPlace(r).frees => r \in C,
         NEW now, NEW timers2, timers2 = (IF now THEN 1 ELSE 0),
         now => (gone /\ Head(inb) \notin LifePlace.frees) \/ (Head(inb) \in LifePlace.fills /\ <<"bus", "life">> \in hk)
  PROVE  Core(d, << >>, O \ C, now, timers2, HooksLeft(hk, C), Tail(inb), bad)
<1> DEFINE s == Head(inb)
           rest == Tail(inb)
           P == O \ C
           less == HooksLeft(hk, C)
<1>1. inb \in Seq(Signals) /\ rest \in Seq(Signals) /\ Elements(inb) = {s} \cup Elements(rest) BY ElementsTail DEF Core
<1>2. Regular(O, << >>, hk) BY DEF Core, Doomed
<1>3. Opens(<< >>) = {} /\ Pend(<< >>) = {} /\ ~Listing(<< >>) BY NothingToDo
<1> HIDE DEF rest, s, less
<1>4. Regular(P, << >>, less)
  <2>1. \A h \in ViewHooks : h \in less <=> h[1] \in P BY <1>2, <1>3, HooksLeftFacts DEF Regular, less
  <2> QED BY <1>3, <2>1 DEF Regular
<1>5. Life(now, timers2, less, rest, d.up, << >>)
  <2>1. Life(gone, timers, hk, inb, d.up, << >>) BY DEF Core
  <2>2. CASE <<"bus", "life">> \in hk
    <3>1. Orderly(LifePlace, gone, inb, ~d.up) BY <2>1, <2>2 DEF Life
    <3>2. Orderly(LifePlace, now, rest, ~d.up) BY <1>1, <3>1, OrderlyTail DEF rest, s
    <3> QED BY <1>3, <2>2, <3>2, HooksLeftFacts DEF Life, less
  <2>3. CASE <<"bus", "life">> \notin hk
    <3>1. ~gone BY <2>1, <2>3 DEF Life
    <3>2. ~now BY <2>3, <3>1
    <3> QED BY <1>3, <2>3, <3>2, HooksLeftFacts DEF Life, less
  <2> QED BY <2>2, <2>3
<1>6. RoomsApart(P, << >>, rest, d, bad)
  <2> SUFFICES ASSUME ~bad, NEW r \in Rooms PROVE Orderly(RoomPlace(r), r \in P \cup Opens(<< >>), rest, r \in There(d))
    BY <1>3 DEF RoomsApart
  <2>1. Orderly(RoomPlace(r), r \in O \cup Opens(<< >>), inb, r \in There(d)) BY <1>3 DEF Core, RoomsApart
  <2>2. r \in P \cup Opens(<< >>) => (r \in O \cup Opens(<< >>) /\ s \notin RoomPlace(r).frees) BY <1>3 DEF s
  <2>3. inb # << >> OBVIOUS
  <2> QED BY <1>1, <2>1, <2>2, <2>3, OrderlyTail DEF rest, s
<1>7. HooksHeard(less, rest)
  <2>1. HooksHeard(hk, rest) BY <1>1 DEF Core, HooksHeard
  <2> QED BY <2>1, HooksLeftHeard DEF less
<1>8. P \subseteq Objects /\ less \subseteq Lasting \cup ViewHooks BY HooksLeftFacts DEF Core, less
<1>9. << >> # Beginning BY DEF Beginning
<1> QED BY <1>1, <1>4, <1>5, <1>6, <1>7, <1>8, <1>9 DEF Core, rest, less

\* What the daemon says of a studio or of its end finds it there.
LEMMA NotGone ==
  ASSUME NEW d, NEW O, NEW gone, NEW timers, NEW hk, NEW inb, NEW bad,
         Core(d, << >>, O, gone, timers, hk, inb, bad), inb # << >>,
         Head(inb).is \in StateSignals \cup {"disappeared"}
  PROVE  ~gone /\ timers = 0
<1>1. Life(gone, timers, hk, inb, d.up, << >>) /\ inb \in Seq(Signals) BY DEF Core
<1>2. ~gone
  <2>1. CASE <<"bus", "life">> \in hk
    <3>1. Orderly(LifePlace, gone, inb, ~d.up) BY <1>1, <2>1 DEF Life
    <3>2. Head(inb) \in Signals BY <1>1, ElementsTail
    <3>3. Head(inb) \in LifePlace.needs BY <3>2 DEF LifePlace, PlaceFor
    <3> QED BY <1>1, <3>1, <3>3, OrderlyHead
  <2>2. CASE <<"bus", "life">> \notin hk BY <1>1, <2>2 DEF Life
  <2> QED BY <2>1, <2>2
<1> QED BY <1>1, <1>2 DEF Life

\* A room appears: its view is about to be opened, unless there is one.
LEMMA CoreAppears ==
  ASSUME NEW d, NEW O, NEW gone, NEW timers, NEW hk, NEW inb, NEW bad,
         Core(d, << >>, O, gone, timers, hk, inb, bad), inb # << >>, Head(inb).is = "RoomAppeared"
  PROVE  Core(d, Opening(Head(inb).room, Head(inb).name), O, gone, timers, hk, Tail(inb), bad)
<1> DEFINE s == Head(inb)
           rest == Tail(inb)
           r == s.room
           u == Opening(r, s.name)
<1>1. inb \in Seq(Signals) /\ rest \in Seq(Signals) /\ s \in Signals /\ Elements(inb) = {s} \cup Elements(rest)
  BY ElementsTail DEF Core
<1>2. r \in Rooms /\ s.name \in Names /\ s.is = "RoomAppeared" BY <1>1, SignalFacts DEF SignalFields
<1>3. r \in Objects /\ r # Studio BY <1>2, NamesDiffer DEF Objects
<1>4. Regular(O, << >>, hk) BY DEF Core, Doomed
<1>5. Opens(<< >>) = {} /\ Pend(<< >>) = {} /\ ~Listing(<< >>) /\ Elements(<< >>) = {} BY NothingToDo
<1>n. inb # << >> OBVIOUS
<1> HIDE DEF s, rest, r
<1>6. /\ Program(u) /\ u # << >> /\ Head(u).do = "open"
      /\ \A x \in Elements(u) : OnView(x) /\ x.on = r
      /\ Opens(u) = {r}
      /\ \A h \in Pend(u) : h \in ViewHooks /\ h[1] = r
      /\ ~Listing(u)
  BY <1>2, <1>3, OpeningFacts
<1>7. u # Beginning
  <2>1. Head(Beginning).do = "ask" BY StepIs DEF Beginning, Ask
  <2> QED BY <1>6, <2>1
<1> HIDE DEF u
<1>8. Regular(O, u, hk) \/ Doomed(u, hk, bad)
  <2>1. CASE r \notin O
    <3>1. \A h \in Pend(u) : h \notin hk /\ h[1] \notin O BY <1>4, <1>6, <2>1 DEF Regular
    <3>2. \A h \in ViewHooks : h \in hk <=> h[1] \in O /\ h \notin Pend(u) BY <1>4, <1>5, <3>1 DEF Regular
    <3>3. Opens(u) \cap O = {} /\ hk \cap Pend(u) = {} BY <1>6, <2>1, <3>1
    <3> QED BY <1>6, <3>2, <3>3 DEF Regular
  <2>2. CASE r \in O
    <3>1. bad
      <4> SUFFICES ASSUME ~bad PROVE FALSE OBVIOUS
      <4>1. Orderly(RoomPlace(r), r \in O \cup Opens(<< >>), inb, r \in There(d)) BY <1>2, <1>5 DEF Core, RoomsApart
      <4>2. s \in RoomPlace(r).needs BY <1>1, <1>2 DEF RoomPlace, PlaceFor, r
      <4>3. ~(r \in O \cup Opens(<< >>)) BY <1>1, <1>n, <4>1, <4>2, OrderlyHead DEF s
      <4> QED BY <2>2, <4>3
    <3>2. <<r, "apps">> \in ViewHooks BY <1>3, ViewHookFacts DEF ViewFaces
    <3>3. <<r, "apps">> \in hk BY <1>4, <1>5, <2>2, <3>2 DEF Regular
    <3>4. Head(u).on = r
      <4>1. u \in Seq(Steps) BY <1>6 DEF Program
      <4>2. Head(u) \in Elements(u) BY <1>6, <4>1, ElementsTail
      <4> QED BY <1>6, <4>2
    <3> QED BY <1>6, <3>1, <3>3, <3>4 DEF Doomed
  <2> QED BY <2>1, <2>2
<1>9. Life(gone, timers, hk, rest, d.up, u)
  <2>1. Life(gone, timers, hk, inb, d.up, << >>) BY DEF Core
  <2>2. s \notin LifePlace.frees BY <1>2 DEF LifePlace, PlaceFor
  <2>3. ASSUME <<"bus", "life">> \in hk PROVE Orderly(LifePlace, gone, rest, ~d.up)
    <3>1. Orderly(LifePlace, gone, inb, ~d.up) BY <2>1, <2>3 DEF Life
    <3> QED BY <1>1, <1>n, <2>2, <3>1, OrderlyTail DEF rest, s
  <2> QED BY <1>6, <2>1, <2>3 DEF Life
<1>10. RoomsApart(O, u, rest, d, bad)
  <2> SUFFICES ASSUME ~bad, NEW q \in Rooms PROVE Orderly(RoomPlace(q), q \in O \cup Opens(u), rest, q \in There(d))
    BY <1>6 DEF RoomsApart
  <2>1. Orderly(RoomPlace(q), q \in O \cup Opens(<< >>), inb, q \in There(d)) BY <1>5 DEF Core, RoomsApart
  <2>2. s \notin RoomPlace(q).frees BY <1>2 DEF RoomPlace, PlaceFor
  <2>3. q = r => s \in RoomPlace(q).fills BY <1>1, <1>2 DEF RoomPlace, PlaceFor, r
  <2>4. q \in O \cup Opens(u) => (q \in O \cup Opens(<< >>) /\ s \notin RoomPlace(q).frees) \/ s \in RoomPlace(q).fills
    BY <1>6, <2>2, <2>3
  <2> QED BY <1>1, <1>n, <2>1, <2>4, OrderlyTail DEF rest, s
<1>11. HooksHeard(hk, rest) BY <1>1 DEF Core, HooksHeard
<1>12. Core(d, u, O, gone, timers, hk, rest, bad)
  BY <1>1, <1>6, <1>7, <1>8, <1>9, <1>10, <1>11 DEF Core
<1> QED BY <1>12 DEF u, rest, r, s

\* gladish, field by field.
Rec(on, mode, views, todo, clean, timers, over) ==
  [on |-> on, state |-> mode, views |-> views, todo |-> todo, clean |-> clean, timers |-> timers, aborted |-> over]
AreViews(w) == w = [o \in Objects |-> w[o]] /\ \A o \in Objects : IsView(w[o])
Shown(w) == { o \in Objects : w[o].name # None }

\* gladish goes on with these steps, open views, state and timers.
Becomes(h, g, t, O, gone, timers) ==
  /\ IsGladish(h) /\ h.on = g.on /\ h.aborted = g.aborted
  /\ h.todo = t /\ Opened(h) = O /\ (Gone(h) <=> gone) /\ h.timers = timers

\* gladish, field by field.
LEMMA GladishIsRec ==
  ASSUME NEW g, IsGladish(g)
  PROVE  /\ g = Rec(g.on, g.state, g.views, g.todo, g.clean, g.timers, g.aborted)
         /\ AreViews(g.views) /\ g.on \in BOOLEAN /\ g.aborted \in BOOLEAN
         /\ Opened(g) = Shown(g.views)
<1> DEFINE w == [o \in Objects |-> g.views[o]]
<1>1. g = Rec(g.on, g.state, w, g.todo, g.clean, g.timers, g.aborted) BY DEF IsGladish, Rec
<1>2. g.views = w BY <1>1 DEF Rec
<1>3. AreViews(g.views) BY <1>2 DEF AreViews, IsGladish
<1> QED BY <1>1, <1>2, <1>3 DEF IsGladish, Opened, Shown

\* What a record with these fields says of gladish.
LEMMA RecFacts ==
  ASSUME NEW on \in BOOLEAN, NEW mode, NEW w, AreViews(w), NEW todo, NEW clean, NEW timers, NEW over \in BOOLEAN
  PROVE  LET g == Rec(on, mode, w, todo, clean, timers, over)
         IN  /\ IsGladish(g) /\ g.on = on /\ g.aborted = over /\ g.todo = todo /\ g.timers = timers
             /\ g.state = mode /\ g.views = w /\ Opened(g) = Shown(w) /\ (Gone(g) <=> mode \in {"na", "sick"})
<1> DEFINE g == Rec(on, mode, w, todo, clean, timers, over)
<1>1. /\ g.on = on /\ g.aborted = over /\ g.todo = todo /\ g.timers = timers /\ g.state = mode /\ g.views = w
      /\ g.clean = clean
  BY DEF Rec
<1>2. g = Rec(g.on, g.state, g.views, g.todo, g.clean, g.timers, g.aborted) BY <1>1
<1> HIDE DEF g
<1>3. g.views = [o \in Objects |-> g.views[o]] BY <1>1 DEF AreViews
<1>4. g = Rec(g.on, g.state, [o \in Objects |-> g.views[o]], g.todo, g.clean, g.timers, g.aborted) BY <1>2, <1>3
<1>5. IsGladish(g) BY <1>1, <1>4 DEF IsGladish, Rec, AreViews
<1> QED BY <1>1, <1>5 DEF Opened, Shown, Gone, g

\* A view changes, or some are closed.
LEMMA ViewsPut ==
  ASSUME NEW w, AreViews(w), NEW o \in Objects, NEW v, IsView(v)
  PROVE  /\ AreViews([w EXCEPT ![o] = v])
         /\ v.name = w[o].name => Shown([w EXCEPT ![o] = v]) = Shown(w)
         /\ v.name # None => Shown([w EXCEPT ![o] = v]) = Shown(w) \cup {o}
<1> DEFINE x == [w EXCEPT ![o] = v]
<1>1. DOMAIN w = Objects BY DEF AreViews
<1>2. x = [p \in Objects |-> IF p = o THEN v ELSE w[p]] BY <1>1
<1>3. x[o] = v /\ \A p \in Objects \ {o} : x[p] = w[p] BY <1>2
<1>4. x = [p \in Objects |-> x[p]] BY <1>2
<1> HIDE DEF x
<1>5. AreViews(x) BY <1>3, <1>4 DEF AreViews
<1>6. v.name = w[o].name => Shown(x) = Shown(w) BY <1>3 DEF Shown
<1>7. v.name # None => Shown(x) = Shown(w) \cup {o} BY <1>3 DEF Shown
<1> QED BY <1>5, <1>6, <1>7 DEF x

\* A view that is not open.
LEMMA NoViewIs == IsView(NoView) /\ NoView.name = None BY DEF IsView, NoView

\* Some views are closed.
LEMMA ViewsClosed ==
  ASSUME NEW w, AreViews(w), NEW C
  PROVE  LET x == [o \in Objects |-> IF o \in C THEN NoView ELSE w[o]]
         IN  AreViews(x) /\ Shown(x) = Shown(w) \ C
<1> DEFINE x == [o \in Objects |-> IF o \in C THEN NoView ELSE w[o]]
<1>1. x = [p \in Objects |-> x[p]] OBVIOUS
<1>2. \A o \in Objects : x[o] = IF o \in C THEN NoView ELSE w[o] OBVIOUS
<1> HIDE DEF x
<1>3. AreViews(x) BY <1>1, <1>2, NoViewIs DEF AreViews
<1>4. Shown(x) = Shown(w) \ C BY <1>2, NoViewIs DEF Shown
<1> QED BY <1>3, <1>4 DEF x

\* gladish with other steps.
LEMMA NewTodo ==
  ASSUME NEW g, IsGladish(g), NEW t
  PROVE  LET h == [g EXCEPT !.todo = t]
         IN  /\ Becomes(h, g, t, Opened(g), Gone(g), g.timers)
             /\ h = Rec(g.on, g.state, g.views, t, g.clean, g.timers, g.aborted)
<1> DEFINE h == Rec(g.on, g.state, g.views, t, g.clean, g.timers, g.aborted)
<1>1. g = Rec(g.on, g.state, g.views, g.todo, g.clean, g.timers, g.aborted) /\ AreViews(g.views)
      /\ g.on \in BOOLEAN /\ g.aborted \in BOOLEAN /\ Opened(g) = Shown(g.views)
  BY GladishIsRec
<1>2. [g EXCEPT !.todo = t] = h BY <1>1 DEF Rec
<1> HIDE DEF h
<1>3. IsGladish(h) /\ h.on = g.on /\ h.aborted = g.aborted /\ h.todo = t /\ h.timers = g.timers
      /\ Opened(h) = Opened(g) /\ (Gone(h) <=> Gone(g))
  BY <1>1, RecFacts DEF h, Gone
<1>4. Becomes(h, g, t, Opened(g), Gone(g), g.timers) BY <1>3 DEF Becomes
<1> QED BY <1>2, <1>4 DEF h

\* What keeps the invariant while gladish runs.
LEMMA GoesOn ==
  ASSUME gladish.on, ~gladish.aborted, NEW t, NEW O, NEW gone, NEW timers,
         Becomes(gladish', gladish, t, O, gone, timers),
         Core(daemon', t, O, gone, timers, hooks', inbox', Bad')
  PROVE  GuiInv'
<1>1. IsGladish(gladish') /\ gladish'.on /\ ~gladish'.aborted /\ gladish'.todo = t /\ Opened(gladish') = O
      /\ (Gone(gladish') <=> gone) /\ gladish'.timers = timers
  BY DEF Becomes
<1>2. Life(gone, timers, hooks', inbox', daemon'.up, t) BY DEF Core
<1>3. Life(Gone(gladish'), timers, hooks', inbox', daemon'.up, t)
  <2>1. CASE gone
    <3>1. Gone(gladish') BY <1>1, <2>1
    <3> QED BY <1>2, <2>1, <3>1 DEF Life, Orderly
  <2>2. CASE ~gone
    <3>1. ~Gone(gladish') BY <1>1, <2>2
    <3> QED BY <1>2, <2>2, <3>1 DEF Life, Orderly
  <2> QED BY <2>1, <2>2
<1>4. Core(daemon', gladish'.todo, Opened(gladish'), Gone(gladish'), gladish'.timers, hooks', inbox', Bad')
  BY <1>1, <1>3 DEF Core
<1> QED BY <1>1, <1>4 DEF GuiInv

-----------------------------------------------------------------------------
(***************************************************************************)
(* Each action keeps the invariant: what the daemon does, the steps of     *)
(* gladish, and the signals it takes.                                      *)
(***************************************************************************)

\* What is known while gladish is in the middle of something.
LEMMA Busy ==
  ASSUME GuiInv, gladish.on
  PROVE  /\ IsGladish(gladish) /\ ~gladish.aborted
         /\ Core(daemon, gladish.todo, Opened(gladish), Gone(gladish), gladish.timers, hooks, inbox, Bad)
         /\ Sound(daemon) /\ Program(gladish.todo) /\ (Listing(gladish.todo) => ~Gone(gladish))
         /\ hooks \subseteq Lasting \cup ViewHooks
BY DEF GuiInv, Core, Life

\* gladish runs while it does something.
LEMMA DoingIsOn ==
  ASSUME GuiInv, NEW what, Doing(what)
  PROVE  gladish.on /\ gladish.todo # << >> /\ Head(gladish.todo).do = what
BY DEF GuiInv, Doing

\* An answer, or something the daemon does, while gladish stays as it is.
LEMMA DaemonMoves ==
  ASSUME GuiInv, NEW x, Changes(daemon, x), Queues(x, inbox), gladish' = gladish, hooks' = hooks
  PROVE  GuiInv'
<1>1. CASE gladish.on
  <2>1. Core(daemon', gladish.todo, Opened(gladish), Gone(gladish), gladish.timers, hooks', inbox', Bad')
    BY <1>1, Busy, CoreQueues
  <2>2. Becomes(gladish', gladish, gladish.todo, Opened(gladish), Gone(gladish), gladish.timers) BY DEF GuiInv, Becomes
  <2> QED BY <1>1, <2>1, <2>2, Busy, GoesOn
<1>2. CASE ~gladish.on
  <2>1. gladish.todo = << >> /\ hooks = {} /\ inbox = << >> /\ Opened(gladish) = {} /\ ~Gone(gladish) BY <1>2 DEF GuiInv
  <2>2. inbox' = << >> BY <1>2, <2>1 DEF Queues
  <2>3. daemon' = x[1] /\ Sound(x[1]) BY DEF Queues, Changes
  <2>4. Core(daemon', << >>, {}, FALSE, 0, {}, << >>, Bad') BY <2>3, CoreOff
  <2>5. gladish.timers = 0 BY <2>1 DEF GuiInv, Core, Life
  <2>6. Core(daemon', << >>, {}, Gone(gladish'), 0, {}, << >>, Bad')
    <3>1. ~Gone(gladish') BY <2>1
    <3>2. Life(Gone(gladish'), 0, {}, << >>, daemon'.up, << >>) BY <2>4, <3>1 DEF Core, Life
    <3> QED BY <2>4, <3>2 DEF Core
  <2>7. Bad => Bad' BY DEF Queues, Bad
  <2>8. Opened(gladish') = {} /\ gladish'.todo = << >> /\ gladish'.timers = 0 /\ ~Gone(gladish') BY <2>1, <2>5
  <2>9. IsGladish(gladish') /\ (gladish'.aborted => Bad') /\ ~gladish'.on BY <1>2, <2>7 DEF GuiInv
  <2>10. hooks' = {} BY <2>1
  <2> QED BY <2>2, <2>6, <2>8, <2>9, <2>10 DEF GuiInv
<1> QED BY <1>1, <1>2

\* Whatever the daemon does keeps the invariant.
LEMMA DaemonKeeps ==
  ASSUME GuiInv, Daemon
  PROVE  GuiInv'
<1>1. Sound(daemon) BY DEF GuiInv, Core
<1>2. DaemonChange BY <1>1, DaemonChanges
<1>3. PICK x : Changes(daemon, x) /\ Does(x) BY <1>2 DEF DaemonChange
<1>4. Queues(x, inbox) /\ gladish' = gladish /\ hooks' = hooks BY <1>3 DEF Does
<1> QED BY <1>3, <1>4, DaemonMoves

\* The timer of gladish keeps the invariant.
LEMMA PollsKeeps ==
  ASSUME GuiInv, Polls
  PROVE  GuiInv'
<1>1. Sound(daemon) BY DEF GuiInv, Core
<1>2. PICK x \in Answers : Queues(x, inbox) BY DEF Polls
<1>3. Changes(daemon, x) BY <1>1, <1>2, AnswersChange
<1>4. gladish' = gladish /\ hooks' = hooks BY DEF Polls
<1> QED BY <1>2, <1>3, <1>4, DaemonMoves

\* The answer comes, with what the daemon sent; the step is still there.
LEMMA Answered ==
  ASSUME GuiInv, gladish.on, NEW x \in Answers, Queues(x, inbox)
  PROVE  /\ Core(daemon', gladish.todo, Opened(gladish), Gone(gladish), gladish.timers, hooks, inbox', Bad')
         /\ daemon' = x[1] /\ Sound(x[1])
<1>1. Changes(daemon, x) BY Busy, AnswersChange
<1>2. daemon' = x[1] /\ Sound(x[1]) BY <1>1 DEF Queues, Changes
<1> QED BY <1>1, <1>2, Busy, CoreQueues

\* gladish when it does not run, field by field.
LEMMA OffIs ==
  /\ Off = Rec(FALSE, "unknown", [o \in Objects |-> NoView], << >>, FALSE, 0, FALSE)
  /\ AreViews([o \in Objects |-> NoView]) /\ Shown([o \in Objects |-> NoView]) = {}
<1> DEFINE w == [o \in Objects |-> NoView]
<1>1. AreViews(w) BY NoViewIs DEF AreViews
<1>2. Shown(w) = {} BY NoViewIs DEF Shown
<1> QED BY <1>1, <1>2 DEF Off, Rec

\* gladish ends, or is there no more.
LEMMA Ended ==
  ASSUME NEW over \in BOOLEAN, gladish' = Rec(FALSE, "unknown", [o \in Objects |-> NoView], << >>, FALSE, 0, over),
         hooks' = {}, inbox' = << >>, Sound(daemon'), over => Bad'
  PROVE  GuiInv'
<1> DEFINE w == [o \in Objects |-> NoView]
           no == FALSE
           h == Rec(no, "unknown", w, << >>, no, 0, over)
<1>a. AreViews(w) /\ Shown(w) = {} BY OffIs
<1>z. no \in BOOLEAN OBVIOUS
<1> HIDE DEF w, no
<1>b. /\ IsGladish(h) /\ h.on = no /\ h.aborted = over /\ h.todo = << >>
      /\ h.timers = 0 /\ Opened(h) = Shown(w) /\ (Gone(h) <=> "unknown" \in {"na", "sick"})
  BY <1>a, <1>z, RecFacts
<1>c. gladish' = h BY DEF w, no
<1> HIDE DEF h
<1>1. /\ IsGladish(gladish') /\ gladish'.on = FALSE /\ gladish'.aborted = over /\ gladish'.todo = << >>
      /\ gladish'.timers = 0 /\ Opened(gladish') = {} /\ (Gone(gladish') <=> "unknown" \in {"na", "sick"})
  BY <1>a, <1>b, <1>c DEF no
<1>2. ~Gone(gladish') BY <1>1
<1>3. Core(daemon', << >>, {}, FALSE, 0, {}, << >>, Bad') BY CoreOff
<1>4. Life(Gone(gladish'), 0, {}, << >>, daemon'.up, << >>) BY <1>2, <1>3 DEF Core, Life
<1>5. Core(daemon', << >>, {}, Gone(gladish'), 0, {}, << >>, Bad') BY <1>3, <1>4 DEF Core
<1> QED BY <1>1, <1>2, <1>5 DEF GuiInv

\* The end of gladish keeps the invariant.
LEMMA GladishQuitsKeeps ==
  ASSUME GuiInv, GladishQuits
  PROVE  GuiInv'
<1> DEFINE fails == <<"control", "control">> \notin hooks
<1>1. hooks' = {} /\ inbox' = << >> /\ daemon' = daemon BY DEF GladishQuits
<1>2. gladish' = [Off EXCEPT !.aborted = fails] BY DEF GladishQuits
<1>3. gladish' = Rec(FALSE, "unknown", [o \in Objects |-> NoView], << >>, FALSE, 0, fails) BY <1>2, OffIs DEF Rec
<1>4. fails => Bad' BY DEF GladishQuits, Bad
<1>5. Sound(daemon') BY <1>1 DEF GuiInv, Core
<1>6. fails \in BOOLEAN OBVIOUS
<1> HIDE DEF fails
<1> QED BY <1>1, <1>3, <1>4, <1>5, <1>6, Ended

\* The start of gladish keeps the invariant.
LEMMA GladishStartsKeeps ==
  ASSUME GuiInv, GladishStarts
  PROVE  GuiInv'
<1> DEFINE w == [o \in Objects |-> NoView]
           yes == TRUE
           no == FALSE
           h == Rec(yes, "unknown", w, Beginning, no, 0, no)
<1>1. ~gladish.on /\ daemon' = daemon /\ hooks' = hooks /\ inbox' = inbox BY DEF GladishStarts
<1>2. gladish' = [Off EXCEPT !.on = TRUE, !.todo = Beginning] BY DEF GladishStarts, Beginning, Ask, ListRooms
<1>3. gladish' = h BY <1>2, OffIs DEF Rec
<1>4. hooks' = {} /\ inbox' = << >> BY <1>1 DEF GuiInv
<1>a. AreViews(w) /\ Shown(w) = {} BY OffIs
<1>z. yes \in BOOLEAN /\ no \in BOOLEAN OBVIOUS
<1> HIDE DEF w, yes, no
<1>5. /\ IsGladish(h) /\ h.on = yes /\ h.aborted = no /\ h.todo = Beginning
      /\ h.timers = 0 /\ Opened(h) = Shown(w) /\ (Gone(h) <=> "unknown" \in {"na", "sick"})
  BY <1>a, <1>z, RecFacts
<1>6. ~Gone(h) BY <1>5
<1>7. Core(daemon', Beginning, {}, FALSE, 0, {}, << >>, Bad') BY <1>1, CoreOff DEF GuiInv, Core
<1> HIDE DEF h
<1>8. Life(Gone(gladish'), 0, {}, << >>, daemon'.up, Beginning) BY <1>3, <1>6, <1>7 DEF Core, Life
<1>9. Core(daemon', Beginning, {}, Gone(gladish'), 0, {}, << >>, Bad') BY <1>7, <1>8 DEF Core
<1> QED BY <1>3, <1>4, <1>5, <1>9, <1>a DEF GuiInv, yes, no

\* A step that asks is done, whatever the answer.
LEMMA Asked ==
  ASSUME GuiInv, gladish.on, NEW x \in Answers, Queues(x, inbox), hooks' = hooks,
         gladish.todo # << >>, Head(gladish.todo).do \notin {"hook", "open", "list_rooms"},
         Becomes(gladish', gladish, Tail(gladish.todo), Opened(gladish), Gone(gladish), gladish.timers)
  PROVE  GuiInv'
<1>1. Core(daemon', gladish.todo, Opened(gladish), Gone(gladish), gladish.timers, hooks', inbox', Bad') BY Answered
<1>2. Core(daemon', Tail(gladish.todo), Opened(gladish), Gone(gladish), gladish.timers, hooks', inbox', Bad')
  BY <1>1, CoreDone
<1> QED BY <1>2, Busy, GoesOn

\* A new list of steps, and a new state of a daemon that is there.
LEMMA NewStepsAndState ==
  ASSUME NEW g, IsGladish(g), ~Gone(g), NEW t, NEW mode, mode \notin {"na", "sick"}
  PROVE  Becomes([[g EXCEPT !.todo = t] EXCEPT !.state = mode], g, t, Opened(g), Gone(g), g.timers)
<1> DEFINE h == Rec(g.on, mode, g.views, t, g.clean, g.timers, g.aborted)
<1>1. g = Rec(g.on, g.state, g.views, g.todo, g.clean, g.timers, g.aborted) /\ AreViews(g.views)
      /\ g.on \in BOOLEAN /\ g.aborted \in BOOLEAN /\ Opened(g) = Shown(g.views)
  BY GladishIsRec
<1>2. [g EXCEPT !.todo = t] = Rec(g.on, g.state, g.views, t, g.clean, g.timers, g.aborted) BY NewTodo
<1> DEFINE k == [g EXCEPT !.todo = t]
<1>k. k = Rec(g.on, g.state, g.views, t, g.clean, g.timers, g.aborted) BY <1>2
<1> HIDE DEF k
<1>l. [k EXCEPT !.state = mode] = h BY <1>k DEF Rec
<1>3. [[g EXCEPT !.todo = t] EXCEPT !.state = mode] = h BY <1>l DEF k
<1> HIDE DEF h
<1>4. IsGladish(h) /\ h.on = g.on /\ h.aborted = g.aborted /\ h.todo = t /\ h.timers = g.timers
      /\ Opened(h) = Opened(g) /\ (Gone(h) <=> mode \in {"na", "sick"})
  BY <1>1, RecFacts DEF h
<1>5. Becomes(h, g, t, Opened(g), Gone(g), g.timers) BY <1>4 DEF Becomes
<1> QED BY <1>3, <1>5

\* After a question that is asked once there is nothing of a view.
LEMMA OnceAlone ==
  ASSUME NEW t, Program(t), t # << >>, Once(Head(t))
  PROVE  \A x \in Elements(Tail(t)) : ~OnView(x) /\ ~Once(x) /\ x.do # "ask"
<1> DEFINE u == Tail(t)
<1>1. t \in Seq(Steps) BY DEF Program
<1>2. DOMAIN t = 1..Len(t) /\ Len(t) \in Nat /\ Len(t) >= 1 /\ Head(t) = t[1] BY <1>1
<1>3. u \in Seq(Steps) /\ Len(u) = Len(t) - 1 /\ \A i \in 1..Len(t)-1 : u[i] = t[i+1] BY <1>1, HeadTailProperties
<1>4. DOMAIN u = 1..Len(t)-1 BY <1>2, <1>3
<1>5. \A x \in Elements(u) : x.do # "ask" BY TailAsksNot
<1> HIDE DEF u
<1>6. ASSUME NEW i \in DOMAIN u PROVE ~OnView(u[i]) /\ ~Once(u[i])
  <2>1. i + 1 \in DOMAIN t /\ 1 \in DOMAIN t /\ i + 1 # 1 /\ u[i] = t[i+1] BY <1>2, <1>3, <1>4
  <2>2. Once(t[1]) BY <1>2
  <2>3. ~OnView(t[i+1]) /\ (Once(t[i+1]) => i + 1 = 1) BY <2>1, <2>2 DEF Program, Apart
  <2> QED BY <2>1, <2>3
<1> QED BY <1>5, <1>6 DEF Elements, u

\* A step of the start before others that fit the hooks.
LEMMA RegularPrepend ==
  ASSUME NEW O, NEW hk, NEW w, Program(w), Regular(O, w, hk), \A x \in Elements(w) : ~OnView(x) /\ x.do # "ask",
         NEW e \in Steps, ~OnView(e), e.do \notin {"ask", "list_rooms"},
         Hooking(e) => Key(e) \notin hk /\ Key(e) \notin Pend(w) /\ Key(e) \notin ViewHooks,
         Once(e) => \A x \in Elements(w) : ~Once(x),
         e.do = "is_started" => Listing(w)
  PROVE  LET u == <<e>> \o w
         IN  /\ Program(u) /\ Regular(O, u, hk) /\ u # Beginning
             /\ (Listing(u) <=> Listing(w)) /\ Opens(u) = Opens(w)
             /\ \A x \in Elements(u) : ~OnView(x) /\ x.do # "ask"
             /\ Elements(u) = {e} \cup Elements(w)
             /\ Pend(u) = (IF Hooking(e) THEN {Key(e)} ELSE {}) \cup Pend(w)
<1> DEFINE u == <<e>> \o w
<1>1. w = << >> \/ ~OnView(Head(w))
  <2>1. w \in Seq(Steps) BY DEF Program
  <2>2. w # << >> => Head(w) \in Elements(w) BY <2>1, ElementsTail
  <2> QED BY <2>2
<1>2. /\ Program(u) /\ (\A x \in Elements(u) : x.do # "ask") /\ u # << >> /\ ~OnView(Head(u))
      /\ Elements(u) = {e} \cup Elements(w)
      /\ Pend(u) = (IF Hooking(e) THEN {Key(e)} ELSE {}) \cup Pend(w)
      /\ Opens(u) = Opens(w) /\ (Listing(u) <=> Listing(w)) /\ u # Beginning
  BY <1>1, PrependStep
<1> HIDE DEF u
<1>3. Regular(O, u, hk)
  <2>1. \A h \in ViewHooks : h \in Pend(u) <=> h \in Pend(w) BY <1>2
  <2>2. hk \cap Pend(u) = {} BY <1>2 DEF Regular
  <2> QED BY <1>2, <2>1, <2>2 DEF Regular
<1> QED BY <1>2, <1>3 DEF u

\* Asking whether the studio is started keeps the invariant.
LEMMA AsksIfStartedKeeps ==
  ASSUME GuiInv, AsksIfStarted
  PROVE  GuiInv'
<1> DEFINE t == gladish.todo
           O == Opened(gladish)
           w == Tail(t)
<1>1. gladish.on /\ t # << >> /\ Head(t).do = "is_started" BY DoingIsOn DEF AsksIfStarted
<1>2. PICK x \in Answers :
        /\ Queues(x, inbox)
        /\ gladish' = IF Studio \notin Registered(x[1]) THEN [Onward(gladish) EXCEPT !.state = "stopped"]
                      ELSE [Instead(gladish, <<GetName>>) EXCEPT !.state = IF x[1].runs = "started" THEN "started" ELSE "stopped"]
  BY DEF AsksIfStarted, GetName
<1>3. hooks' = hooks BY DEF AsksIfStarted
<1>4. IsGladish(gladish) /\ ~gladish.aborted /\ Program(t) /\ (Listing(t) => ~Gone(gladish)) BY <1>1, Busy
<1>5. Listing(t)
  <2>1. t \in Seq(Steps) BY <1>4 DEF Program
  <2>2. 1 \in DOMAIN t /\ t[1].do = "is_started" BY <1>1, <2>1
  <2> QED BY <1>4, <2>2 DEF Program, ListsLater, Listing, Elements
<1>6. ~Gone(gladish) BY <1>4, <1>5
<1>7. Core(daemon', t, O, Gone(gladish), gladish.timers, hooks', inbox', Bad') BY <1>1, <1>2, <1>3, Answered
<1>8. Core(daemon', w, O, Gone(gladish), gladish.timers, hooks', inbox', Bad') /\ Regular(O, w, hooks')
  BY <1>1, <1>7, CoreDone
<1>9. CASE Studio \notin Registered(x[1])
  <2>1. gladish' = [[gladish EXCEPT !.todo = w] EXCEPT !.state = "stopped"] BY <1>2, <1>9 DEF Onward
  <2>2. Becomes(gladish', gladish, w, O, Gone(gladish), gladish.timers) BY <1>4, <1>6, <2>1, NewStepsAndState
  <2> QED BY <1>1, <1>4, <1>8, <2>2, GoesOn
<1>10. CASE Studio \in Registered(x[1])
  <2> DEFINE mode == IF x[1].runs = "started" THEN "started" ELSE "stopped"
             u == <<GetName>> \o w
  <2>1. gladish' = [[gladish EXCEPT !.todo = u] EXCEPT !.state = mode] BY <1>2, <1>10 DEF Instead
  <2>2. mode \notin {"na", "sick"} OBVIOUS
  <2> HIDE DEF mode, u
  <2>3. Becomes(gladish', gladish, u, O, Gone(gladish), gladish.timers) BY <1>4, <1>6, <2>1, <2>2, NewStepsAndState
  <2>4. \A y \in Elements(w) : ~OnView(y) /\ ~Once(y) /\ y.do # "ask" BY <1>1, <1>4, OnceAlone DEF Once
  <2>5. GetName \in Steps BY DEF Steps
  <2>6. GetName.do = "get_name" /\ GetName.face = "studio" BY StepIs DEF GetName
  <2>7. ~OnView(GetName) /\ ~Hooking(GetName) BY <2>6 DEF OnView, ViewFaces, Hooking
  <2>8. Program(w) BY <1>8 DEF Core
  <2> HIDE DEF w
  <2>9. Program(u) /\ Regular(O, u, hooks') /\ u # Beginning /\ (Listing(u) <=> Listing(w)) /\ Opens(u) = Opens(w)
    BY <1>8, <2>4, <2>5, <2>6, <2>7, <2>8, RegularPrepend DEF u
  <2>10. Core(daemon', u, O, Gone(gladish), gladish.timers, hooks', inbox', Bad') BY <1>8, <2>9, CoreSteps
  <2> QED BY <1>1, <1>4, <2>3, <2>10, GoesOn
<1> QED BY <1>9, <1>10

\* The name a studio that can be called has.
LEMMA StudioIsNamed ==
  ASSUME NEW d, Sound(d), Studio \in Registered(d)
  PROVE  d.name \in Names
<1>1. Studio \notin There(d) BY NamesDiffer DEF There
<1>2. d.loaded BY <1>1 DEF Registered
<1> QED BY <1>2 DEF Sound

\* Asking for the name of the studio keeps the invariant.
LEMMA AsksForNameKeeps ==
  ASSUME GuiInv, AsksForName
  PROVE  GuiInv'
<1> DEFINE t == gladish.todo
           O == Opened(gladish)
           w == Tail(t)
<1>1. gladish.on /\ t # << >> /\ Head(t).do = "get_name" BY DoingIsOn DEF AsksForName
<1>2. PICK x \in Answers : Queues(x, inbox) /\ gladish' = Instead(gladish, OpensStudio(gladish, x[1]))
  BY DEF AsksForName
<1>3. hooks' = hooks BY DEF AsksForName
<1>4. IsGladish(gladish) /\ ~gladish.aborted /\ Program(t) BY <1>1, Busy
<1>5. Core(daemon', t, O, Gone(gladish), gladish.timers, hooks', inbox', Bad') /\ Sound(x[1])
  BY <1>1, <1>2, <1>3, Answered
<1>6. Core(daemon', w, O, Gone(gladish), gladish.timers, hooks', inbox', Bad') /\ Regular(O, w, hooks')
  BY <1>1, <1>5, CoreDone
<1> DEFINE steps == OpensStudio(gladish, x[1])
           u == steps \o w
<1>7. gladish' = [gladish EXCEPT !.todo = u] BY <1>2 DEF Instead
<1> HIDE DEF u
<1>8. Becomes(gladish', gladish, u, O, Gone(gladish), gladish.timers) BY <1>4, <1>7, NewTodo
<1>9. Program(w) BY <1>6 DEF Core
<1>10. Core(daemon', u, O, Gone(gladish), gladish.timers, hooks', inbox', Bad')
  <2>1. CASE Studio \in Registered(x[1]) /\ Studio \notin O
    <3>1. steps = Opening(Studio, x[1].name) BY <2>1 DEF OpensStudio
    <3>2. x[1].name \in Names BY <1>5, <2>1, StudioIsNamed
    <3>3. \A y \in Elements(w) : ~OnView(y) /\ ~Once(y) /\ y.do # "ask" BY <1>1, <1>4, OnceAlone DEF Once
    <3>4. Studio \in Objects BY DEF Objects
    <3> DEFINE name == x[1].name
    <3>n. u = Opening(Studio, name) \o w /\ name \in Names BY <3>1, <3>2 DEF u
    <3> HIDE DEF w, steps, name
    <3>5. Program(u) /\ Regular(O, u, hooks') /\ u # Beginning /\ (Listing(u) <=> Listing(w)) /\ Opens(u) = {Studio} \cup Opens(w)
      BY <1>6, <1>9, <2>1, <3>n, <3>3, <3>4, OpensFirst
    <3>6. \A r \in Rooms : r \in Opens(u) <=> r \in Opens(w) BY <3>5, NamesDiffer
    <3> QED BY <1>6, <3>5, <3>6, CoreSteps
  <2>2. CASE ~(Studio \in Registered(x[1]) /\ Studio \notin O)
    <3>1. steps = << >> BY <2>2 DEF OpensStudio
    <3>2. w \in Seq(Steps) BY <1>9 DEF Program
    <3> HIDE DEF w
    <3>3. u = w BY <3>1, <3>2 DEF u
    <3> QED BY <1>6, <3>3 DEF w
  <2> QED BY <2>1, <2>2
<1> QED BY <1>1, <1>4, <1>8, <1>10, GoesOn

\* Asking for the rooms keeps the invariant.
LEMMA ListsRoomsKeeps ==
  ASSUME GuiInv, ListsRooms
  PROVE  GuiInv'
<1> DEFINE t == gladish.todo
           O == Opened(gladish)
<1>1. gladish.on /\ t # << >> /\ Head(t).do = "list_rooms" BY DoingIsOn DEF ListsRooms
<1>2. PICK x \in Answers :
        /\ Queues(x, inbox)
        /\ gladish' = Instead(gladish, FoldLeft(LAMBDA steps, r : steps \o Opening(r, x[1].rooms[r].name), << >>,
                                                IF x[1].loaded THEN SetToSeq(There(x[1])) ELSE << >>))
  BY DEF ListsRooms
<1>3. hooks' = hooks BY DEF ListsRooms
<1>4. IsGladish(gladish) /\ ~gladish.aborted /\ Program(t) BY <1>1, Busy
<1>5. Core(daemon', t, O, Gone(gladish), gladish.timers, hooks', inbox', Bad') /\ Sound(x[1]) /\ daemon' = x[1]
  BY <1>1, <1>2, <1>3, Answered
<1> DEFINE d == x[1]
           list == IF d.loaded THEN SetToSeq(There(d)) ELSE << >>
           rooms == IF d.loaded THEN There(d) ELSE {}
           u == Openings(d, list)
<1>6. list \in Seq(Rooms) /\ Elements(list) = rooms /\ IsInjective(list)
  <2>1. IsFiniteSet(There(d)) /\ There(d) \subseteq Rooms BY <1>5 DEF Sound, There
  <2>2. CASE d.loaded
    <3>1. SetToSeq(There(d)) \in Seq(There(d)) /\ Elements(SetToSeq(There(d))) = There(d) /\ IsInjective(SetToSeq(There(d)))
      BY <2>1, SetAsList
    <3>2. SetToSeq(There(d)) \in Seq(Rooms) BY <2>1, <3>1
    <3> QED BY <2>2, <3>1, <3>2
  <2>3. CASE ~d.loaded
    <3>1. << >> \in Seq(Rooms) /\ DOMAIN << >> = {} OBVIOUS
    <3> QED BY <2>3, <3>1 DEF Elements, IsInjective
  <2> QED BY <2>2, <2>3
<1>7. \A r \in rooms : d.rooms[r].name \in Names BY <1>5, NamesDiffer DEF There, Sound, Daemons, RoomRecs, Texts
<1>8. rooms = There(d) \/ rooms = {} OBVIOUS
<1>9. gladish' = Instead(gladish, u) BY <1>2 DEF Openings
<1> HIDE DEF list, rooms, d
<1>10. /\ Program(u) /\ Opens(u) = rooms /\ (\A h \in Pend(u) : h \in ViewHooks /\ h[1] \in rooms)
       /\ (u # << >> => Head(u).do = "open") /\ ~Listing(u)
  BY <1>6, <1>7, OpeningsFacts
<1> HIDE DEF u
<1>11. Tail(t) = << >> BY <1>1, <1>4, ProgramTail
<1>12. u \o Tail(t) = u
  <2>1. u \in Seq(Steps) BY <1>10 DEF Program
  <2>2. u \o << >> = u BY <2>1
  <2> QED BY <1>11, <2>2
<1>13. gladish' = [gladish EXCEPT !.todo = u] BY <1>9, <1>12 DEF Instead
<1>14. Becomes(gladish', gladish, u, O, Gone(gladish), gladish.timers) BY <1>4, <1>13, NewTodo
<1>15. rooms = There(daemon') \/ rooms = {} BY <1>5, <1>8 DEF d
<1>16. Core(daemon', u, O, Gone(gladish), gladish.timers, hooks', inbox', Bad')
  BY <1>1, <1>5, <1>10, <1>15, CoreRooms
<1> QED BY <1>1, <1>4, <1>14, <1>16, GoesOn

\* A step is done and a view is different.
LEMMA NewView ==
  ASSUME NEW g, IsGladish(g), NEW t, NEW o \in Objects, NEW v, IsView(v)
  PROVE  LET h == [[g EXCEPT !.todo = t] EXCEPT !.views[o] = v]
         IN  /\ v.name = g.views[o].name => Becomes(h, g, t, Opened(g), Gone(g), g.timers)
             /\ v.name # None => Becomes(h, g, t, Opened(g) \cup {o}, Gone(g), g.timers)
<1> DEFINE w == [g.views EXCEPT ![o] = v]
           h == Rec(g.on, g.state, w, t, g.clean, g.timers, g.aborted)
           k == [g EXCEPT !.todo = t]
<1>1. g = Rec(g.on, g.state, g.views, g.todo, g.clean, g.timers, g.aborted) /\ AreViews(g.views)
      /\ g.on \in BOOLEAN /\ g.aborted \in BOOLEAN /\ Opened(g) = Shown(g.views)
  BY GladishIsRec
<1>2. k = Rec(g.on, g.state, g.views, t, g.clean, g.timers, g.aborted) BY NewTodo
<1> HIDE DEF k
<1>3. [k EXCEPT !.views[o] = v] = h
  <2>1. k.views = g.views BY <1>2 DEF Rec
  <2>2. [k EXCEPT !.views[o] = v] = [k EXCEPT !.views = w] BY <1>2, <2>1 DEF Rec
  <2> HIDE DEF w
  <2>3. [k EXCEPT !.views = w] = h BY <1>2 DEF Rec
  <2> QED BY <2>2, <2>3
<1>4. /\ AreViews(w) /\ (v.name = g.views[o].name => Shown(w) = Shown(g.views))
      /\ (v.name # None => Shown(w) = Shown(g.views) \cup {o})
  BY <1>1, ViewsPut
<1> HIDE DEF h, w
<1>5. IsGladish(h) /\ h.on = g.on /\ h.aborted = g.aborted /\ h.todo = t /\ h.timers = g.timers
      /\ Opened(h) = Shown(w) /\ (Gone(h) <=> Gone(g))
  BY <1>1, <1>4, RecFacts DEF h, Gone
<1>6. v.name = g.views[o].name => Becomes(h, g, t, Opened(g), Gone(g), g.timers) BY <1>1, <1>4, <1>5 DEF Becomes
<1>7. v.name # None => Becomes(h, g, t, Opened(g) \cup {o}, Gone(g), g.timers) BY <1>1, <1>4, <1>5 DEF Becomes
<1> QED BY <1>3, <1>6, <1>7 DEF k

\* Views are closed.
LEMMA NewClosed ==
  ASSUME NEW g, IsGladish(g), NEW t, NEW C
  PROVE  Becomes(Closed([g EXCEPT !.todo = t], C), g, t, Opened(g) \ C, Gone(g), g.timers)
<1> DEFINE w == [o \in Objects |-> IF o \in C THEN NoView ELSE g.views[o]]
           h == Rec(g.on, g.state, w, t, g.clean, g.timers, g.aborted)
           k == [g EXCEPT !.todo = t]
<1>1. g = Rec(g.on, g.state, g.views, g.todo, g.clean, g.timers, g.aborted) /\ AreViews(g.views)
      /\ g.on \in BOOLEAN /\ g.aborted \in BOOLEAN /\ Opened(g) = Shown(g.views)
  BY GladishIsRec
<1>2. k = Rec(g.on, g.state, g.views, t, g.clean, g.timers, g.aborted) BY NewTodo
<1> HIDE DEF k
<1>3. Closed(k, C) = h
  <2>1. k.views = g.views /\ "views" \in DOMAIN k BY <1>2 DEF Rec
  <2>2. Closed(k, C) = [k EXCEPT !.views = w] BY <2>1 DEF Closed
  <2> HIDE DEF w
  <2>3. [k EXCEPT !.views = w] = h BY <1>2 DEF Rec
  <2> QED BY <2>2, <2>3
<1>4. AreViews(w) /\ Shown(w) = Shown(g.views) \ C BY <1>1, ViewsClosed
<1> HIDE DEF h, w
<1>5. IsGladish(h) /\ h.on = g.on /\ h.aborted = g.aborted /\ h.todo = t /\ h.timers = g.timers
      /\ Opened(h) = Shown(w) /\ (Gone(h) <=> Gone(g))
  BY <1>1, <1>4, RecFacts DEF h, Gone
<1>6. Becomes(h, g, t, Opened(g) \ C, Gone(g), g.timers) BY <1>1, <1>4, <1>5 DEF Becomes
<1> QED BY <1>3, <1>6 DEF k

\* What is asked for and followed changes no name.
LEMMA ViewsKeepNames ==
  ASSUME NEW v, IsView(v)
  PROVE  /\ \A s : IsView(Refreshed(v, s)) /\ Refreshed(v, s).name = v.name
         /\ \A p, n, b : IsView(Described(v, p, n, b)) /\ Described(v, p, n, b).name = v.name
         /\ \A s : IsView(Followed(v, s)) /\ Followed(v, s).name = v.name
<1>1. ASSUME NEW s PROVE IsView(Refreshed(v, s)) /\ Refreshed(v, s).name = v.name
  <2> DEFINE rows == v.rows \o [i \in DOMAIN s.list |-> Row(s.list[i])]
             n == s.version
             x == [v EXCEPT !.version = n]
  <2>1. Refreshed(v, s) = [[v EXCEPT !.version = n] EXCEPT !.rows = rows] BY DEF Refreshed, IsView
  <2> HIDE DEF rows, n
  <2>2. IsView(x) /\ x.name = v.name BY DEF IsView
  <2> HIDE DEF x
  <2>3. IsView([x EXCEPT !.rows = rows]) /\ [x EXCEPT !.rows = rows].name = x.name BY <2>2 DEF IsView
  <2> QED BY <2>1, <2>2, <2>3 DEF x
<1>2. ASSUME NEW p, NEW n, NEW b PROVE IsView(Described(v, p, n, b)) /\ Described(v, p, n, b).name = v.name
  <2> DEFINE x == [v EXCEPT !.project = p]
             y == [x EXCEPT !.pversion = n]
             z == [y EXCEPT !.doubt = b]
  <2>1. Described(v, p, n, b) = z BY DEF Described, IsView
  <2>2. IsView(x) /\ x.name = v.name BY DEF IsView
  <2> HIDE DEF x
  <2>3. IsView(y) /\ y.name = x.name BY <2>2 DEF IsView
  <2> HIDE DEF y
  <2>4. IsView(z) /\ z.name = y.name BY <2>3 DEF IsView
  <2> HIDE DEF z
  <2> QED BY <2>1, <2>2, <2>3, <2>4
<1>3. ASSUME NEW s PROVE IsView(Followed(v, s)) /\ Followed(v, s).name = v.name
  <2>1. CASE s.version <= v.version BY <2>1 DEF Followed
  <2>2. CASE ~(s.version <= v.version)
    <3> DEFINE rows == CASE s.is = "AppAdded2" -> Append(v.rows, Row(s.app))
                         [] s.is = "AppRemoved" -> Select(v.rows, LAMBDA a : a.id # s.app.id)
                         [] s.is = "AppStateChanged2" ->
                              [i \in DOMAIN v.rows |-> IF v.rows[i].id = s.app.id THEN Row(s.app) ELSE v.rows[i]]
               n == s.version
               x == [v EXCEPT !.version = n]
    <3>1. Followed(v, s) = [[v EXCEPT !.version = n] EXCEPT !.rows = rows] BY <2>2 DEF Followed, IsView
    <3> HIDE DEF rows, n
    <3>2. IsView(x) /\ x.name = v.name BY DEF IsView
    <3> HIDE DEF x
    <3>3. IsView([x EXCEPT !.rows = rows]) /\ [x EXCEPT !.rows = rows].name = x.name BY <3>2 DEF IsView
    <3> QED BY <3>1, <3>2, <3>3 DEF x
  <2> QED BY <2>1, <2>2
<1> QED BY <1>1, <1>2, <1>3

\* Registering a hook keeps the invariant: it is not there yet.
LEMMA RegistersHookKeeps ==
  ASSUME GuiInv, RegistersHook
  PROVE  GuiInv'
<1> DEFINE t == gladish.todo
           O == Opened(gladish)
           h == Key(Head(t))
<1>1. gladish.on /\ t # << >> /\ Head(t).do = "hook" BY DoingIsOn DEF RegistersHook
<1>2. AddsHook(h, Onward(gladish)) BY DEF RegistersHook, Now, Key
<1>3. IsGladish(gladish) /\ ~gladish.aborted
      /\ Core(daemon, t, O, Gone(gladish), gladish.timers, hooks, inbox, Bad)
  BY <1>1, Busy
<1>4. h \notin hooks /\ Core(daemon, Tail(t), O, Gone(gladish), gladish.timers, hooks \cup {h}, inbox, Bad)
  BY <1>1, <1>3, CoreHooks
<1>5. gladish' = Onward(gladish) /\ hooks' = hooks \cup {h} /\ inbox' = inbox /\ daemon' = daemon
      /\ missed' = missed /\ twice' = twice
  BY <1>2, <1>4 DEF AddsHook
<1>6. Core(daemon', Tail(t), O, Gone(gladish), gladish.timers, hooks', inbox', Bad') BY <1>4, <1>5 DEF Bad
<1>7. Becomes(gladish', gladish, Tail(t), O, Gone(gladish), gladish.timers) BY <1>3, <1>5, NewTodo DEF Onward
<1> QED BY <1>1, <1>3, <1>6, <1>7, GoesOn

\* Opening a view keeps the invariant, also when gladish ends over it.
LEMMA OpensViewKeeps ==
  ASSUME GuiInv, OpensView
  PROVE  GuiInv'
<1> DEFINE t == gladish.todo
           O == Opened(gladish)
           o == Head(t).on
           h == <<o, "apps">>
           v == [NoView EXCEPT !.name = Head(t).name]
           g == [Onward(gladish) EXCEPT !.views[o] = v]
<1>1. gladish.on /\ t # << >> /\ Head(t).do = "open" BY DoingIsOn DEF OpensView
<1>2. AddsHook(h, g) BY DEF OpensView, Now
<1>3. IsGladish(gladish) /\ ~gladish.aborted /\ Sound(daemon)
      /\ Core(daemon, t, O, Gone(gladish), gladish.timers, hooks, inbox, Bad)
  BY <1>1, Busy
<1>4. /\ h \in hooks => Bad
      /\ h \notin hooks => Core(daemon, Tail(t), O \cup {o}, Gone(gladish), gladish.timers, hooks \cup {h}, inbox, Bad)
      /\ o \in Objects /\ Head(t).name \in Names
  BY <1>1, <1>3, CoreViews
<1>5. daemon' = daemon /\ missed' = missed /\ twice' = twice BY <1>2 DEF AddsHook
<1>6. Bad' <=> Bad BY <1>5 DEF Bad
<1>7. CASE h \in hooks
  <2>1. gladish' = [Off EXCEPT !.aborted = TRUE] /\ hooks' = {} /\ inbox' = << >> BY <1>2, <1>7 DEF AddsHook
  <2>2. gladish' = Rec(FALSE, "unknown", [p \in Objects |-> NoView], << >>, FALSE, 0, TRUE) BY <2>1, OffIs DEF Rec
  <2>3. Bad' BY <1>4, <1>6, <1>7
  <2> DEFINE yes == TRUE
  <2>4. yes \in BOOLEAN /\ gladish' = Rec(FALSE, "unknown", [p \in Objects |-> NoView], << >>, FALSE, 0, yes) BY <2>2
  <2> HIDE DEF yes
  <2> QED BY <1>3, <1>5, <2>1, <2>3, <2>4, Ended
<1>8. CASE h \notin hooks
  <2>1. gladish' = g /\ hooks' = hooks \cup {h} /\ inbox' = inbox BY <1>2, <1>8 DEF AddsHook
  <2> DEFINE name == Head(t).name
  <2>n. v = [NoView EXCEPT !.name = name] OBVIOUS
  <2> HIDE DEF v, name
  <2>m. IsView(v) /\ v.name = name BY <2>n, NoViewIs DEF IsView
  <2>2. IsView(v) /\ v.name = Head(t).name BY <2>m DEF name
  <2> USE DEF v
  <2>3. v.name # None BY <1>4, <2>2, NamesDiffer
  <2>4. gladish' = [[gladish EXCEPT !.todo = Tail(t)] EXCEPT !.views[o] = v] BY <2>1 DEF Onward
  <2> HIDE DEF v, o
  <2>5. Becomes(gladish', gladish, Tail(t), O \cup {o}, Gone(gladish), gladish.timers)
    BY <1>3, <1>4, <2>2, <2>3, <2>4, NewView
  <2>6. Core(daemon', Tail(t), O \cup {o}, Gone(gladish), gladish.timers, hooks', inbox', Bad')
    BY <1>4, <1>5, <1>8, <2>1 DEF Bad
  <2> QED BY <1>1, <1>3, <2>5, <2>6, GoesOn
<1> QED BY <1>7, <1>8

\* The object of a step for a view.
LEMMA StepsObject ==
  ASSUME NEW t, Program(t), t # << >>
  PROVE  /\ Head(t).do \in {"list_apps", "get_project"} => Head(t).on \in Objects
         /\ Head(t).do = "get_project" => Head(t).on \in Rooms
<1>1. StepFields(Head(t)) BY ProgramTail, StepFacts
<1> QED BY <1>1 DEF StepFields, Objects

\* Asking for the apps keeps the invariant.
LEMMA ListsAppsKeeps ==
  ASSUME GuiInv, ListsApps
  PROVE  GuiInv'
<1> DEFINE t == gladish.todo
           o == Head(t).on
<1>1. gladish.on /\ t # << >> /\ Head(t).do = "list_apps" BY DoingIsOn DEF ListsApps
<1>2. PICK x \in Answers :
        /\ Queues(x, inbox)
        /\ gladish' = IF o \in Registered(x[1])
                        THEN [Onward(gladish) EXCEPT !.views[o] = Refreshed(@, Supervisor(x[1], o))]
                        ELSE Onward(gladish)
  BY DEF ListsApps, Now
<1>3. hooks' = hooks BY DEF ListsApps
<1>4. IsGladish(gladish) /\ Program(t) BY <1>1, Busy
<1>5. o \in Objects BY <1>1, <1>4, StepsObject
<1>6. Becomes(gladish', gladish, Tail(t), Opened(gladish), Gone(gladish), gladish.timers)
  <2>1. CASE o \in Registered(x[1])
    <3> DEFINE k == [gladish EXCEPT !.todo = Tail(t)]
               v == Refreshed(gladish.views[o], Supervisor(x[1], o))
    <3>1. k.views = gladish.views BY <1>4, NewTodo DEF Rec
    <3>2. gladish' = [k EXCEPT !.views[o] = Refreshed(k.views[o], Supervisor(x[1], o))] BY <1>2, <2>1 DEF Onward
    <3> HIDE DEF k
    <3>3. gladish' = [k EXCEPT !.views[o] = v] BY <3>1, <3>2
    <3>4. IsView(v) /\ v.name = gladish.views[o].name BY <1>4, <1>5, ViewsKeepNames DEF IsGladish
    <3> HIDE DEF v
    <3>5. gladish' = [[gladish EXCEPT !.todo = Tail(t)] EXCEPT !.views[o] = v] BY <3>3 DEF k
    <3> QED BY <1>4, <1>5, <3>4, <3>5, NewView
  <2>2. CASE o \notin Registered(x[1]) BY <1>2, <1>4, <2>2, NewTodo DEF Onward
  <2> QED BY <2>1, <2>2
<1> QED BY <1>1, <1>2, <1>3, <1>6, Asked

\* Asking for the project keeps the invariant, also when the room is gone.
LEMMA GetsProjectKeeps ==
  ASSUME GuiInv, GetsProject
  PROVE  GuiInv'
<1> DEFINE t == gladish.todo
           o == Head(t).on
<1>1. gladish.on /\ t # << >> /\ Head(t).do = "get_project" BY DoingIsOn DEF GetsProject
<1>2. PICK x \in Answers :
        /\ Queues(x, inbox)
        /\ IF o \in Registered(x[1])
             THEN /\ gladish' = [Onward(gladish) EXCEPT !.views[o] =
                       Described(@, x[1].rooms[o].project, x[1].rooms[o].version, x[1].rooms[o].saves # <<>>)]
                  /\ hooks' = hooks
             ELSE /\ gladish' = Closed(Onward(Onward(gladish)), {o})
                  /\ hooks' = Unhooked({o})
  BY DEF GetsProject, Now
<1>4. IsGladish(gladish) /\ Program(t) /\ ~gladish.aborted BY <1>1, Busy
<1>5. o \in Objects BY <1>1, <1>4, StepsObject
<1>6. CASE o \in Registered(x[1])
  <2> DEFINE k == [gladish EXCEPT !.todo = Tail(t)]
             p == x[1].rooms[o].project
             n == x[1].rooms[o].version
             b == x[1].rooms[o].saves # <<>>
             v == Described(gladish.views[o], p, n, b)
  <2>1. k.views = gladish.views BY <1>4, NewTodo DEF Rec
  <2>2. gladish' = [k EXCEPT !.views[o] = Described(k.views[o], p, n, b)] BY <1>2, <1>6 DEF Onward
  <2> HIDE DEF k, p, n, b
  <2>3. gladish' = [k EXCEPT !.views[o] = v] BY <2>1, <2>2
  <2>4. IsView(v) /\ v.name = gladish.views[o].name BY <1>4, <1>5, ViewsKeepNames DEF IsGladish
  <2> HIDE DEF v
  <2>5. gladish' = [[gladish EXCEPT !.todo = Tail(t)] EXCEPT !.views[o] = v] BY <2>3 DEF k
  <2>6. Becomes(gladish', gladish, Tail(t), Opened(gladish), Gone(gladish), gladish.timers) BY <1>4, <1>5, <2>4, <2>5, NewView
  <2> QED BY <1>1, <1>2, <1>6, <2>6, Asked
<1>7. CASE o \notin Registered(x[1])
  <2>1. gladish' = Closed(Onward(Onward(gladish)), {o}) /\ hooks' = HooksLeft(hooks, {o})
    BY <1>2, <1>7 DEF Unhooked, HooksLeft
  <2> DEFINE k == Onward(gladish)
             u == Tail(Tail(t))
  <2>2. k = Rec(gladish.on, gladish.state, gladish.views, Tail(t), gladish.clean, gladish.timers, gladish.aborted)
    BY <1>4, NewTodo DEF Onward
  <2>3. Onward(k) = [gladish EXCEPT !.todo = u]
    <3>1. [gladish EXCEPT !.todo = u] = Rec(gladish.on, gladish.state, gladish.views, u, gladish.clean, gladish.timers, gladish.aborted)
      BY <1>4, NewTodo
    <3> HIDE DEF k
    <3>2. k.todo = Tail(t) BY <2>2 DEF Rec
    <3>3. Onward(k) = [k EXCEPT !.todo = u] BY <2>2, <3>2 DEF Onward, Rec
    <3> HIDE DEF u
    <3>4. [k EXCEPT !.todo = u] = Rec(gladish.on, gladish.state, gladish.views, u, gladish.clean, gladish.timers, gladish.aborted)
      BY <2>2 DEF Rec
    <3> QED BY <3>1, <3>3, <3>4
  <2>4. Becomes(gladish', gladish, u, Opened(gladish) \ {o}, Gone(gladish), gladish.timers)
    BY <1>4, <2>1, <2>3, NewClosed
  <2>5. Core(daemon', t, Opened(gladish), Gone(gladish), gladish.timers, hooks, inbox', Bad') BY <1>1, <1>2, Answered
  <2>6. Core(daemon', u, Opened(gladish) \ {o}, Gone(gladish), gladish.timers, hooks', inbox', Bad')
    BY <1>1, <2>1, <2>5, CoreCloses
  <2> QED BY <1>1, <1>4, <2>4, <2>6, GoesOn
<1> QED BY <1>6, <1>7

\* What is left of the start after the first question.
LEMMA AfterAsk ==
  LET w == Tail(Beginning)
  IN  Elements(w) = {Hook(Studio, "studio"), ListRooms} /\ w \in Seq(Steps)
<1> DEFINE b == Hook(Studio, "studio")
           w == <<b, ListRooms>>
           l == ListRooms
<1>1. Tail(Beginning) = <<b, l>> BY DEF Beginning
<1> HIDE DEF b, l
<1>2. b \in Steps /\ l \in Steps BY DEF Steps, b, l
<1> DEFINE v == <<b, l>>
<1>3. v \in Seq(Steps) /\ DOMAIN v = 1..2 /\ v[1] = b /\ v[2] = l BY <1>2
<1> HIDE DEF v
<1>4. 1 \in 1..2 /\ 2 \in 1..2 /\ \A i \in 1..2 : i = 1 \/ i = 2 OBVIOUS
<1>5. Elements(v) = {b, l} BY <1>3, <1>4 DEF Elements
<1> QED BY <1>1, <1>3, <1>5 DEF v, b, l

\* Lists of steps one behind the other.
LEMMA Associates ==
  ASSUME NEW s \in Seq(Steps), NEW t \in Seq(Steps), NEW v \in Seq(Steps)
  PROVE  (s \o t) \o v = s \o (t \o v)
BY ConcatAssociative

\* What gladish has to do when the daemon answers its first question.
LEMMA BeginningGoesOn ==
  ASSUME NEW O, NEW w, w = Tail(Beginning), Program(w), Regular(O, w, {}), Listing(w), NEW loaded \in BOOLEAN
  PROVE  LET u == (<<LifetimeHook>> \o (IF loaded THEN <<IsStarted>> ELSE << >>) \o <<Hook("control", "control")>>) \o w
         IN  Program(u) /\ Regular(O, u, {}) /\ u # Beginning /\ Listing(u) /\ Opens(u) = Opens(w)
<1> DEFINE c == Hook("control", "control")
           b == Hook(Studio, "studio")
           l == LifetimeHook
           i == IsStarted
           u == (<<l>> \o (IF loaded THEN <<i>> ELSE << >>) \o <<c>>) \o w
<1>1. w \in Seq(Steps) /\ Elements(w) = {b, ListRooms} BY AfterAsk
<1>2. /\ b.do = "hook" /\ b.on = Studio /\ b.face = "studio" /\ ListRooms.do = "list_rooms" /\ ListRooms.face = "studio"
      /\ c.do = "hook" /\ c.on = "control" /\ c.face = "control"
      /\ l.do = "hook" /\ l.on = "bus" /\ l.face = "life"
      /\ i.do = "is_started" /\ i.face = "studio"
  BY HookFields, StepIs DEF ListRooms, LifetimeHook, IsStarted
<1>3. c \in Steps /\ l \in Steps /\ i \in Steps BY DEF Steps
<1> HIDE DEF c, b, l, i
<1>k. Key(c) = <<"control", "control">> /\ Key(l) = <<"bus", "life">> /\ Key(b) = <<Studio, "studio">> BY <1>2 DEF Key
<1>v. Key(c) \notin ViewHooks /\ Key(l) \notin ViewHooks
  <2>1. Key(c) \in Lasting /\ Key(l) \in Lasting BY <1>k DEF Lasting
  <2> QED BY <2>1, ViewHookFacts
<1>d. Key(c) # Key(b) /\ Key(l) # Key(b) /\ Key(l) # Key(c) BY <1>k
<1>4. \A x \in Elements(w) : ~OnView(x) /\ x.do # "ask" /\ ~Once(x) BY <1>1, <1>2 DEF OnView, ViewFaces, Once
<1>5. Pend(w) = {Key(b)} BY <1>1, <1>2 DEF Pend, Hooking
<1>6. ~OnView(c) /\ ~OnView(l) /\ ~OnView(i) /\ ~Once(c) /\ ~Once(l) /\ Hooking(c) /\ Hooking(l) /\ ~Hooking(i)
  BY <1>2 DEF OnView, ViewFaces, Once, Hooking
<1> DEFINE u1 == <<c>> \o w
           u2 == <<i>> \o u1
<1>7. /\ Program(u1) /\ Regular(O, u1, {}) /\ Listing(u1) /\ Opens(u1) = Opens(w)
      /\ (\A x \in Elements(u1) : ~OnView(x) /\ x.do # "ask")
      /\ Elements(u1) = {c} \cup Elements(w) /\ Pend(u1) = {Key(c)} \cup Pend(w)
  <2>1. Key(c) \notin {} /\ Key(c) \notin Pend(w) BY <1>d, <1>5
  <2> QED BY <1>2, <1>3, <1>4, <1>6, <1>v, <2>1, RegularPrepend
<1> HIDE DEF u1
<1>8. Key(l) \notin {} /\ Key(l) \notin Pend(u1) BY <1>5, <1>7, <1>d
<1>9. \A x \in Elements(u1) : ~Once(x) BY <1>4, <1>6, <1>7
<1>10. CASE loaded
  <2>1. /\ Program(u2) /\ Regular(O, u2, {}) /\ Listing(u2) /\ Opens(u2) = Opens(u1)
        /\ (\A x \in Elements(u2) : ~OnView(x) /\ x.do # "ask") /\ Pend(u2) = Pend(u1)
    BY <1>2, <1>3, <1>6, <1>7, <1>9, RegularPrepend
  <2> HIDE DEF u2
  <2> DEFINE u3 == <<l>> \o u2
  <2>2. Program(u3) /\ Regular(O, u3, {}) /\ Listing(u3) /\ Opens(u3) = Opens(u2) /\ u3 # Beginning
    BY <1>2, <1>3, <1>6, <1>8, <1>v, <2>1, RegularPrepend
  <2>3. u = u3
    <3>1. u = ((<<l>> \o <<i>>) \o <<c>>) \o w BY <1>10
    <3>2. <<l>> \in Seq(Steps) /\ <<i>> \in Seq(Steps) /\ <<c>> \in Seq(Steps) BY <1>3
    <3> DEFINE L == <<l>>
               I == <<i>>
               C == <<c>>
    <3>3. u = ((L \o I) \o C) \o w /\ u3 = L \o (I \o (C \o w)) BY <3>1 DEF u1, u2
    <3> HIDE DEF L, I, C, u, u3
    <3>4. L \in Seq(Steps) /\ I \in Seq(Steps) /\ C \in Seq(Steps) BY <3>2 DEF L, I, C
    <3>5. L \o I \in Seq(Steps) /\ C \o w \in Seq(Steps) BY <1>1, <3>4
    <3> DEFINE K == L \o I
    <3>k. K \in Seq(Steps) BY <3>5
    <3> HIDE DEF K
    <3>l. (K \o C) \o w = K \o (C \o w) BY <1>1, <3>4, <3>k, Associates
    <3>6. ((L \o I) \o C) \o w = (L \o I) \o (C \o w) BY <3>l DEF K
    <3>7. (L \o I) \o (C \o w) = L \o (I \o (C \o w)) BY <3>4, <3>5, Associates
    <3> QED BY <3>3, <3>6, <3>7
  <2> HIDE DEF u3
  <2>4. Program(u) /\ Regular(O, u, {}) /\ Listing(u) /\ Opens(u) = Opens(w) /\ u # Beginning
    BY <1>7, <2>1, <2>2, <2>3
  <2> QED BY <2>4 DEF u, c, l, i
<1>11. CASE ~loaded
  <2> DEFINE u3 == <<l>> \o u1
  <2>2. Program(u3) /\ Regular(O, u3, {}) /\ Listing(u3) /\ Opens(u3) = Opens(u1) /\ u3 # Beginning
    BY <1>2, <1>3, <1>6, <1>8, <1>v, <1>7, RegularPrepend
  <2>3. u = u3
    <3>1. u = ((<<l>> \o << >>) \o <<c>>) \o w BY <1>11
    <3>2. <<l>> \in Seq(Steps) /\ <<c>> \in Seq(Steps) BY <1>3
    <3> DEFINE L == <<l>>
               C == <<c>>
    <3>3. u = ((L \o << >>) \o C) \o w /\ u3 = L \o (C \o w) BY <3>1 DEF u1
    <3> HIDE DEF L, C, u, u3
    <3>4. L \in Seq(Steps) /\ C \in Seq(Steps) BY <3>2 DEF L, C
    <3>5. L \o << >> = L BY <3>4
    <3>6. (L \o C) \o w = L \o (C \o w) BY <1>1, <3>4, Associates
    <3> QED BY <3>3, <3>5, <3>6
  <2> HIDE DEF u3
  <2>4. Program(u) /\ Regular(O, u, {}) /\ Listing(u) /\ Opens(u) = Opens(w) /\ u # Beginning
    BY <1>7, <2>2, <2>3
  <2> QED BY <2>4 DEF u, c, l, i
<1> QED BY <1>10, <1>11

\* The first question keeps the invariant, whether it is answered or not.
LEMMA AsksForStudioKeeps ==
  ASSUME GuiInv, AsksForStudio
  PROVE  GuiInv'
<1> DEFINE t == gladish.todo
           O == Opened(gladish)
           w == Tail(t)
<1>1. gladish.on /\ t # << >> /\ Head(t).do = "ask" BY DoingIsOn DEF AsksForStudio
<1>2. IsGladish(gladish) /\ ~gladish.aborted /\ Program(t) /\ Sound(daemon)
      /\ Core(daemon, t, O, Gone(gladish), gladish.timers, hooks, inbox, Bad)
  BY <1>1, Busy
<1>3. t = Beginning
  <2>1. t \in Seq(Steps) BY <1>2 DEF Program
  <2>2. 1 \in DOMAIN t /\ t[1].do = "ask" BY <1>1, <2>1
  <2> QED BY <1>2, <2>2 DEF Program, Asks
<1>4. hooks = {} BY <1>2, <1>3 DEF Core
<1>5. PICK x \in Answers :
        /\ daemon' = x[1]
        /\ gladish' =
             IF ~x[1].up THEN Onward(gladish)
             ELSE [Instead(gladish, <<LifetimeHook>> \o (IF x[1].loaded THEN <<IsStarted>> ELSE <<>>)
                                    \o <<Hook("control", "control")>>) EXCEPT !.state = "unloaded"]
  BY DEF AsksForStudio, StudioIsLoaded, IsStarted
<1>6. hooks' = hooks /\ inbox' = inbox BY DEF AsksForStudio
<1>7. Sound(daemon') BY <1>2, <1>5, AnswersChange DEF Changes
<1>8. Listing(t)
  <2>1. 3 \in DOMAIN t /\ t[3].do = "list_rooms" BY <1>3, StepIs DEF Beginning, ListRooms
  <2> QED BY <2>1 DEF Listing, Elements
<1>9. Core(daemon', t, O, Gone(gladish), gladish.timers, {}, inbox', Bad')
  <2>1. Core(daemon, t, O, Gone(gladish), gladish.timers, {}, inbox, Bad) BY <1>2, <1>4
  <2> HIDE DEF t, O
  <2>2. Core(daemon', t, O, Gone(gladish), gladish.timers, {}, inbox, Bad') BY <1>7, <1>8, <2>1, CoreFresh
  <2> QED BY <1>6, <2>2
<1>10. Core(daemon', w, O, Gone(gladish), gladish.timers, {}, inbox', Bad') /\ Regular(O, w, {})
  BY <1>1, <1>9, CoreDone
<1>11. Listing(w) BY <1>1, <1>2, <1>8, ProgramTail
<1>12. ~Gone(gladish) BY <1>2, <1>8 DEF Core, Life
<1>13. hooks' = {} BY <1>4, <1>6
<1>14. CASE ~x[1].up
  <2>1. Becomes(gladish', gladish, w, O, Gone(gladish), gladish.timers) BY <1>2, <1>5, <1>14, NewTodo DEF Onward
  <2> QED BY <1>1, <1>2, <1>10, <1>13, <2>1, GoesOn
<1>15. CASE x[1].up
  <2> DEFINE loaded == x[1].loaded
             steps == <<LifetimeHook>> \o (IF loaded THEN <<IsStarted>> ELSE <<>>) \o <<Hook("control", "control")>>
             u == steps \o w
  <2>1. gladish' = [[gladish EXCEPT !.todo = u] EXCEPT !.state = "unloaded"] BY <1>5, <1>15 DEF Instead
  <2>2. loaded \in BOOLEAN BY <1>5, <1>7 DEF Sound, Daemons
  <2>3. Program(w) /\ w = Tail(Beginning) BY <1>3, <1>10 DEF Core
  <2> HIDE DEF loaded, w
  <2>4. Program(u) /\ Regular(O, u, {}) /\ u # Beginning /\ Listing(u) /\ Opens(u) = Opens(w)
    BY <1>10, <1>11, <2>2, <2>3, BeginningGoesOn
  <2> HIDE DEF u
  <2>5. Core(daemon', u, O, Gone(gladish), gladish.timers, {}, inbox', Bad') BY <1>10, <1>11, <2>4, CoreSteps
  <2>6. "unloaded" \notin {"na", "sick"} OBVIOUS
  <2>7. Becomes(gladish', gladish, u, O, Gone(gladish), gladish.timers) BY <1>2, <1>12, <2>1, <2>6, NewStepsAndState
  <2> QED BY <1>1, <1>2, <1>13, <2>5, <2>7, GoesOn
<1> QED BY <1>14, <1>15

\* What gladish becomes, from its fields.
LEMMA RecBecomes ==
  ASSUME NEW g, IsGladish(g), NEW w, AreViews(w), NEW t, NEW mode, NEW clean, NEW timers,
         NEW h, h = Rec(g.on, mode, w, t, clean, timers, g.aborted),
         NEW gone, gone <=> mode \in {"na", "sick"}, NEW O, O = Shown(w)
  PROVE  Becomes(h, g, t, O, gone, timers)
<1>1. g.on \in BOOLEAN /\ g.aborted \in BOOLEAN BY GladishIsRec
<1>2. IsGladish(h) /\ h.on = g.on /\ h.aborted = g.aborted /\ h.todo = t /\ h.timers = timers
      /\ Opened(h) = O /\ (Gone(h) <=> mode \in {"na", "sick"})
  BY <1>1, RecFacts
<1> QED BY <1>2 DEF Becomes

\* gladish with some views closed, field by field.
LEMMA ClosedIs ==
  ASSUME NEW g, IsGladish(g), NEW C
  PROVE  LET w == [o \in Objects |-> IF o \in C THEN NoView ELSE g.views[o]]
         IN  /\ Closed(g, C) = Rec(g.on, g.state, w, g.todo, g.clean, g.timers, g.aborted)
             /\ AreViews(w) /\ Shown(w) = Opened(g) \ C
<1> DEFINE w == [o \in Objects |-> IF o \in C THEN NoView ELSE g.views[o]]
<1>1. g = Rec(g.on, g.state, g.views, g.todo, g.clean, g.timers, g.aborted) /\ AreViews(g.views)
      /\ Opened(g) = Shown(g.views)
  BY GladishIsRec
<1>2. AreViews(w) /\ Shown(w) = Shown(g.views) \ C BY <1>1, ViewsClosed
<1>3. Closed(g, C) = [g EXCEPT !.views = w] BY <1>1 DEF Closed, Rec
<1> HIDE DEF w
<1>4. [g EXCEPT !.views = w] = Rec(g.on, g.state, w, g.todo, g.clean, g.timers, g.aborted) BY <1>1 DEF Rec
<1> QED BY <1>1, <1>2, <1>3, <1>4 DEF w

\* What is known when a signal is taken.
LEMMA Taking ==
  ASSUME GuiInv, Idle, inbox # << >>
  PROVE  /\ gladish.on /\ ~gladish.aborted /\ IsGladish(gladish) /\ gladish.todo = << >>
         /\ Core(daemon, << >>, Opened(gladish), Gone(gladish), gladish.timers, hooks, inbox, Bad)
         /\ Head(inbox) \in Signals /\ SignalFields(Head(inbox)) /\ Head(inbox) \in Elements(inbox)
         /\ HooksHeard(hooks, inbox) /\ Opened(gladish) \subseteq Objects
         /\ AreViews(gladish.views) /\ Opened(gladish) = Shown(gladish.views)
         /\ gladish = Rec(gladish.on, gladish.state, gladish.views, gladish.todo, gladish.clean, gladish.timers, gladish.aborted)
<1>1. gladish.on /\ gladish.todo = << >> BY DEF Idle
<1>2. /\ ~gladish.aborted /\ IsGladish(gladish)
      /\ Core(daemon, << >>, Opened(gladish), Gone(gladish), gladish.timers, hooks, inbox, Bad)
  BY <1>1, Busy
<1>3. inbox \in Seq(Signals) BY <1>2 DEF Core
<1>4. Head(inbox) \in Signals /\ Head(inbox) \in Elements(inbox) BY <1>3, ElementsTail
<1>5. HooksHeard(hooks, inbox) BY <1>2 DEF Core
<1> QED BY <1>1, <1>2, <1>4, <1>5, SignalFacts, GladishIsRec DEF Opened

\* Closing no view.
LEMMA Nothing ==
  /\ \A hk : HooksLeft(hk, {}) = hk
  /\ \A O : O \ {} = O
BY DEF HooksLeft

\* Which signals make room.
LEMMA Frees ==
  /\ \A s, r : s \in RoomPlace(r).frees => (s.is = "RoomDisappeared" /\ s.room = r) \/ s.is = "disappeared"
  /\ \A s : s \in LifePlace.frees <=> s \in Signals /\ s.is = "appeared"
  /\ \A s : s \in LifePlace.fills <=> s \in Signals /\ s.is = "disappeared"
BY DEF RoomPlace, LifePlace, PlaceFor

\* A signal is taken: which views are closed, which stay, whether there is no
\* daemon after it, and the timer.
Follows(C, O, now, timers) ==
  /\ hooks' = HooksLeft(hooks, C) /\ O = Opened(gladish) \ C
  /\ \A r \in Rooms : Head(inbox) \in RoomPlace(r).frees => r \in C
  /\ timers = IF now THEN 1 ELSE 0
  /\ now => \/ Gone(gladish) /\ Head(inbox) \notin LifePlace.frees
            \/ Head(inbox) \in LifePlace.fills /\ <<"bus", "life">> \in hooks
Onwards ==
  /\ Idle /\ inbox # << >> /\ daemon' = daemon /\ inbox' = Tail(inbox) /\ missed' = missed /\ twice' = twice

\* A signal is taken and nothing else happens.
LEMMA SignalTaken ==
  ASSUME GuiInv, Onwards, NEW C, NEW O, NEW now, NEW timers, Follows(C, O, now, timers),
         Becomes(gladish', gladish, << >>, O, now, timers)
  PROVE  GuiInv'
<1> USE DEF Onwards, Follows
<1>1. /\ gladish.on /\ ~gladish.aborted
      /\ Core(daemon, << >>, Opened(gladish), Gone(gladish), gladish.timers, hooks, inbox, Bad)
  BY Taking
<1>2. Core(daemon, << >>, O, now, timers, HooksLeft(hooks, C), Tail(inbox), Bad)
  BY <1>1, CoreTakes
<1>3. Core(daemon', << >>, O, now, timers, hooks', inbox', Bad') BY <1>2 DEF Bad
<1> QED BY <1>1, <1>3, GoesOn

\* The same when views stay and the daemon is as alive as it was.
LEMMA SignalFollowed ==
  ASSUME GuiInv, Idle, inbox # << >>, daemon' = daemon, inbox' = Tail(inbox), missed' = missed, twice' = twice, hooks' = hooks,
         Head(inbox).is \notin {"appeared", "disappeared", "RoomDisappeared"},
         Becomes(gladish', gladish, << >>, Opened(gladish), Gone(gladish), gladish.timers)
  PROVE  GuiInv'
<1> DEFINE C == {}
           O == Opened(gladish)
           now == Gone(gladish)
           timers == gladish.timers
<1>1. hooks' = HooksLeft(hooks, C) /\ O = Opened(gladish) \ C BY Nothing
<1>2. \A r \in Rooms : Head(inbox) \in RoomPlace(r).frees => r \in C BY Frees
<1>3. Head(inbox) \notin LifePlace.frees BY Frees
<1>4. Life(Gone(gladish), gladish.timers, hooks, inbox, daemon.up, << >>) BY Taking DEF Core
<1>5. timers = (IF now THEN 1 ELSE 0) BY <1>4 DEF Life
<1>6. Becomes(gladish', gladish, << >>, O, now, timers) OBVIOUS
<1>7. now => Gone(gladish) OBVIOUS
<1> HIDE DEF C, O, now, timers
<1>98. Onwards BY DEF Onwards
<1>99. Follows(C, O, now, timers) BY <1>1, <1>2, <1>3, <1>5, <1>6, <1>7 DEF Follows
<1> QED BY <1>98, <1>99, <1>6, SignalTaken

\* Dropping a signal keeps the invariant: it is one of a view.
LEMMA DropsKeeps ==
  ASSUME GuiInv, Drops
  PROVE  GuiInv'
<1>1. /\ Idle /\ inbox # << >> /\ gladish' = gladish /\ daemon' = daemon /\ inbox' = Tail(inbox) /\ missed' = missed /\ twice' = twice
      /\ hooks' = hooks /\ <<Head(inbox).on, Head(inbox).face>> \notin hooks
  BY DEF Drops, Just, Taken
<1>2. Head(inbox).face \notin {"life", "control", "studio"} BY <1>1, Taking DEF HooksHeard
<1>3. Head(inbox).is \notin {"appeared", "disappeared", "RoomDisappeared"} BY <1>1, <1>2, Taking DEF SignalFields
<1>4. Becomes(gladish', gladish, << >>, Opened(gladish), Gone(gladish), gladish.timers) BY <1>1, Taking DEF Becomes
<1> QED BY <1>1, <1>3, <1>4, SignalFollowed

\* The announced end of the daemon keeps the invariant.
LEMMA CleanExitKeeps ==
  ASSUME GuiInv, CleanExit
  PROVE  GuiInv'
<1> DEFINE g == gladish
           yes == TRUE
           w == g.views
           O == Opened(g)
           gone == Gone(g)
           timers == g.timers
<1>1. /\ Idle /\ inbox # << >> /\ gladish' = [gladish EXCEPT !.clean = yes] /\ daemon' = daemon /\ inbox' = Tail(inbox)
      /\ missed' = missed /\ twice' = twice /\ hooks' = hooks /\ Head(inbox).is = "CleanExit"
  BY DEF CleanExit, Just, Takes
<1> HIDE DEF yes
<1>2. g = Rec(g.on, g.state, w, << >>, g.clean, timers, g.aborted) /\ IsGladish(g) /\ AreViews(w) /\ O = Shown(w)
  BY <1>1, Taking
<1>3. gladish' = Rec(g.on, g.state, w, << >>, yes, timers, g.aborted) BY <1>1, <1>2 DEF Rec
<1>4. gone <=> g.state \in {"na", "sick"} BY DEF Gone
<1> HIDE DEF w, O, gone, timers
<1>5. Becomes(gladish', gladish, << >>, O, gone, timers) BY <1>2, <1>3, <1>4, RecBecomes
<1>6. Becomes(gladish', gladish, << >>, Opened(gladish), Gone(gladish), gladish.timers) BY <1>5 DEF O, gone, timers
<1> QED BY <1>1, <1>6, SignalFollowed

\* The appearance of a daemon keeps the invariant: the timer that stops is the one that runs.
LEMMA DaemonAppearsKeeps ==
  ASSUME GuiInv, DaemonAppears
  PROVE  GuiInv'
<1> DEFINE g == gladish
           timers == IF Gone(g) THEN g.timers - 1 ELSE g.timers
           no == FALSE
           C == {}
           w == g.views
           O == Opened(g)
           mode == "unloaded"
<1>1. /\ Idle /\ inbox # << >> /\ daemon' = daemon /\ inbox' = Tail(inbox)
      /\ missed' = missed /\ twice' = twice /\ hooks' = hooks /\ Head(inbox).is = "appeared"
      /\ gladish' = [gladish EXCEPT !.state = mode, !.clean = no, !.timers = IF gladish.state \in {"na", "sick"} THEN @ - 1 ELSE @]
  BY DEF DaemonAppears, Just, Takes
<1>2. g = Rec(g.on, g.state, w, << >>, g.clean, g.timers, g.aborted) /\ IsGladish(g) /\ AreViews(w) /\ O = Shown(w)
  BY <1>1, Taking
<1>3. Life(Gone(g), g.timers, hooks, inbox, daemon.up, << >>) BY <1>1, Taking DEF Core
<1>4. timers = 0 BY <1>3 DEF Life
<1>5. gladish' = [gladish EXCEPT !.state = mode, !.clean = no, !.timers = timers] BY <1>1, <1>2 DEF Gone, Rec
<1>6. no <=> mode \in {"na", "sick"} OBVIOUS
<1>7. ~no OBVIOUS
<1>8. O = Opened(gladish) \ C /\ hooks' = HooksLeft(hooks, C) BY <1>1, Nothing
<1>9. \A r \in Rooms : Head(inbox) \in RoomPlace(r).frees => r \in C BY <1>1, Frees
<1> HIDE DEF timers, no, C, w, O, mode
<1>10. gladish' = Rec(g.on, mode, w, << >>, no, timers, g.aborted)
  <2> DEFINE q == [g EXCEPT !.state = mode]
             p == [q EXCEPT !.clean = no]
  <2>1. gladish' = [p EXCEPT !.timers = timers] BY <1>5
  <2>2. q = Rec(g.on, mode, w, << >>, g.clean, g.timers, g.aborted) BY <1>2 DEF Rec
  <2> HIDE DEF q
  <2>3. p = Rec(g.on, mode, w, << >>, no, g.timers, g.aborted) BY <2>2 DEF Rec
  <2> HIDE DEF p
  <2> QED BY <2>1, <2>3 DEF Rec
<1>11. Becomes(gladish', gladish, << >>, O, no, timers) BY <1>2, <1>6, <1>10, RecBecomes
<1>12. timers = (IF no THEN 1 ELSE 0) BY <1>4, <1>7
<1>98. Onwards BY <1>1 DEF Onwards
<1>99. Follows(C, O, no, timers) BY <1>1, <1>7, <1>8, <1>9, <1>11, <1>12 DEF Follows
<1> QED BY <1>98, <1>99, <1>11, SignalTaken

\* The disappearance of the daemon keeps the invariant: no timer runs when one starts.
LEMMA DaemonDisappearsKeeps ==
  ASSUME GuiInv, DaemonDisappears
  PROVE  GuiInv'
<1> DEFINE g == gladish
           mode == IF g.clean THEN "na" ELSE "sick"
           no == FALSE
           w == [o \in Objects |-> IF o \in Objects THEN NoView ELSE g.views[o]]
           k == Closed(g, Objects)
           O == Opened(g) \ Objects
           now == TRUE
           timers == 1
<1>1. /\ Idle /\ inbox # << >> /\ daemon' = daemon /\ inbox' = Tail(inbox)
      /\ missed' = missed /\ twice' = twice /\ hooks' = HooksLeft(hooks, Objects) /\ Head(inbox).is = "disappeared"
      /\ <<Head(inbox).on, "life">> \in hooks /\ Head(inbox).face = "life"
      /\ gladish' = [k EXCEPT !.state = mode, !.clean = no, !.timers = @ + 1]
  BY DEF DaemonDisappears, Just, Takes, Unhooked, HooksLeft, AllClosed
<1>2. IsGladish(g) /\ g.todo = << >>
      /\ Core(daemon, << >>, Opened(g), Gone(g), g.timers, hooks, inbox, Bad)
      /\ Head(inbox) \in Signals /\ SignalFields(Head(inbox))
  BY <1>1, Taking
<1>3. k = Rec(g.on, g.state, w, << >>, g.clean, g.timers, g.aborted) /\ AreViews(w) /\ O = Shown(w)
  BY <1>2, ClosedIs
<1>4. g.timers = 0 BY <1>1, <1>2, NotGone
<1>5. now /\ (now <=> mode \in {"na", "sick"}) OBVIOUS
<1>6. \A r \in Rooms : Head(inbox) \in RoomPlace(r).frees => r \in Objects BY DEF Objects
<1>7. Head(inbox) \in LifePlace.fills /\ <<"bus", "life">> \in hooks BY <1>1, <1>2, Frees DEF SignalFields
<1>8. timers = (IF now THEN 1 ELSE 0) OBVIOUS
<1>9. gladish' = [k EXCEPT !.state = mode, !.clean = no, !.timers = timers] BY <1>1, <1>3, <1>4 DEF Rec
<1>O. O = Opened(gladish) \ Objects OBVIOUS
<1> HIDE DEF k, w, mode, no, O, now, timers
<1>10. gladish' = Rec(g.on, mode, w, << >>, no, timers, g.aborted) BY <1>3, <1>9 DEF Rec
<1>11. Becomes(gladish', gladish, << >>, O, now, timers) BY <1>2, <1>3, <1>5, <1>10, RecBecomes
<1>98. Onwards BY <1>1 DEF Onwards
<1>99. Follows(Objects, O, now, timers) BY <1>1, <1>6, <1>7, <1>8, <1>11, <1>O DEF Follows
<1> QED BY <1>98, <1>99, <1>11, SignalTaken

\* The disappearance of the studio keeps the invariant.
LEMMA StudioDisappearsKeeps ==
  ASSUME GuiInv, StudioDisappears
  PROVE  GuiInv'
<1> DEFINE g == gladish
           C == {Studio}
           w == [o \in Objects |-> IF o \in C THEN NoView ELSE g.views[o]]
           k == Closed(g, C)
           O == Opened(g) \ C
           no == FALSE
           timers == g.timers
           mode == "unloaded"
<1>1. /\ Idle /\ inbox # << >> /\ daemon' = daemon /\ inbox' = Tail(inbox)
      /\ missed' = missed /\ twice' = twice /\ hooks' = HooksLeft(hooks, C) /\ Head(inbox).is = "StudioDisappeared"
      /\ gladish' = [k EXCEPT !.state = mode]
  BY DEF StudioDisappears, Just, Takes, Unhooked, HooksLeft
<1> HIDE DEF C
<1>2. IsGladish(g) /\ g.todo = << >>
      /\ Core(daemon, << >>, Opened(g), Gone(g), g.timers, hooks, inbox, Bad)
  BY <1>1, Taking
<1>3. k = Rec(g.on, g.state, w, << >>, g.clean, timers, g.aborted) /\ AreViews(w) /\ O = Shown(w)
  BY <1>2, ClosedIs
<1>4. g.timers = 0 BY <1>1, <1>2, NotGone DEF StateSignals
<1>5. ~no /\ (no <=> mode \in {"na", "sick"}) OBVIOUS
<1>6. \A r \in Rooms : Head(inbox) \in RoomPlace(r).frees => r \in C BY <1>1, Frees
<1>8. timers = (IF no THEN 1 ELSE 0) BY <1>4
<1>O. O = Opened(gladish) \ C OBVIOUS
<1> HIDE DEF k, w, mode, no, O, timers
<1>10. gladish' = Rec(g.on, mode, w, << >>, g.clean, timers, g.aborted) BY <1>1, <1>3 DEF Rec
<1>11. Becomes(gladish', gladish, << >>, O, no, timers) BY <1>2, <1>3, <1>5, <1>10, RecBecomes
<1>98. Onwards BY <1>1 DEF Onwards
<1>99. Follows(C, O, no, timers) BY <1>1, <1>5, <1>6, <1>8, <1>11, <1>O DEF Follows
<1> QED BY <1>98, <1>99, <1>11, SignalTaken

\* The disappearance of a room keeps the invariant.
LEMMA RoomDisappearsKeeps ==
  ASSUME GuiInv, RoomDisappears
  PROVE  GuiInv'
<1> DEFINE g == gladish
           C == {Head(inbox).room}
           w == [o \in Objects |-> IF o \in C THEN NoView ELSE g.views[o]]
           O == Opened(g) \ C
           now == Gone(g)
           timers == g.timers
<1>1. /\ Idle /\ inbox # << >> /\ daemon' = daemon /\ inbox' = Tail(inbox)
      /\ missed' = missed /\ twice' = twice /\ hooks' = HooksLeft(hooks, C) /\ Head(inbox).is = "RoomDisappeared"
      /\ gladish' = Closed(g, C)
  BY DEF RoomDisappears, Just, Takes, Unhooked, HooksLeft, Taken
<1>2. IsGladish(g) /\ g.todo = << >> /\ Life(Gone(g), g.timers, hooks, inbox, daemon.up, << >>)
  BY <1>1, Taking DEF Core
<1>6. \A r \in Rooms : Head(inbox) \in RoomPlace(r).frees => r \in C BY <1>1, Frees
<1> HIDE DEF C
<1>3. gladish' = Rec(g.on, g.state, w, << >>, g.clean, timers, g.aborted) /\ AreViews(w) /\ O = Shown(w)
  BY <1>1, <1>2, ClosedIs
<1>4. timers = (IF now THEN 1 ELSE 0) BY <1>2 DEF Life
<1>5. now <=> g.state \in {"na", "sick"} BY DEF Gone
<1>7. Head(inbox) \notin LifePlace.frees BY <1>1, Frees
<1>8. now => Gone(gladish) OBVIOUS
<1>O. O = Opened(gladish) \ C OBVIOUS
<1> HIDE DEF w, O, now, timers
<1>11. Becomes(gladish', gladish, << >>, O, now, timers) BY <1>2, <1>3, <1>5, RecBecomes
<1>98. Onwards BY <1>1 DEF Onwards
<1>99. Follows(C, O, now, timers) BY <1>1, <1>4, <1>6, <1>7, <1>8, <1>11, <1>O DEF Follows
<1> QED BY <1>98, <1>99, <1>11, SignalTaken

\* Nothing is different but one view, which stays open or closed.
LEMMA ViewFollows ==
  ASSUME GuiInv, Onwards, hooks' = hooks,
         Head(inbox).is \notin {"appeared", "disappeared", "RoomDisappeared"},
         NEW o \in Objects, NEW v, IsView(v),
         v.name = gladish.views[o].name \/ (o \in Opened(gladish) /\ v.name # None),
         gladish' = [gladish EXCEPT !.views[o] = v]
  PROVE  GuiInv'
<1> DEFINE g == gladish
           w == [g.views EXCEPT ![o] = v]
           O == Opened(g)
           gone == Gone(g)
           timers == g.timers
<1>1. /\ Idle /\ inbox # << >> /\ daemon' = daemon /\ inbox' = Tail(inbox) /\ missed' = missed /\ twice' = twice
  BY DEF Onwards
<1>2. IsGladish(g) /\ AreViews(g.views) /\ O = Shown(g.views)
      /\ g = Rec(g.on, g.state, g.views, << >>, g.clean, timers, g.aborted)
  BY <1>1, Taking
<1>3. AreViews(w) /\ O = Shown(w)
  <2>1. AreViews(w) /\ (v.name = g.views[o].name => Shown(w) = Shown(g.views))
        /\ (v.name # None => Shown(w) = Shown(g.views) \cup {o})
    BY <1>2, ViewsPut
  <2> QED BY <1>2, <2>1
<1>4. gladish' = [g EXCEPT !.views = w] BY <1>2 DEF Rec
<1>5. gone <=> g.state \in {"na", "sick"} BY DEF Gone
<1> HIDE DEF w, O, gone, timers
<1>6. gladish' = Rec(g.on, g.state, w, << >>, g.clean, timers, g.aborted) BY <1>2, <1>4 DEF Rec
<1>7. Becomes(gladish', gladish, << >>, O, gone, timers) BY <1>2, <1>3, <1>5, <1>6, RecBecomes
<1>8. Becomes(gladish', gladish, << >>, Opened(gladish), Gone(gladish), gladish.timers) BY <1>7 DEF O, gone, timers
<1> QED BY <1>1, <1>8, SignalFollowed

\* Nothing is different.
LEMMA SameFollows ==
  ASSUME GuiInv, Onwards, hooks' = hooks, gladish' = gladish,
         Head(inbox).is \notin {"appeared", "disappeared", "RoomDisappeared"}
  PROVE  GuiInv'
<1>1. Idle /\ inbox # << >> BY DEF Onwards
<1>2. Becomes(gladish', gladish, << >>, Opened(gladish), Gone(gladish), gladish.timers) BY <1>1, Taking DEF Becomes
<1> QED BY <1>2, SignalFollowed DEF Onwards

\* A new name of the studio keeps the invariant.
LEMMA StudioRenamedKeeps ==
  ASSUME GuiInv, StudioRenamed
  PROVE  GuiInv'
<1> DEFINE name == Head(inbox).name
           o == Studio
           v == [gladish.views[o] EXCEPT !.name = name]
<1>1. /\ Onwards /\ hooks' = hooks /\ Head(inbox).is = "StudioRenamed"
      /\ gladish' = IF o \in Opened(gladish) THEN [gladish EXCEPT !.views[o].name = name] ELSE gladish
  BY DEF StudioRenamed, Just, Takes, Taken, Onwards
<1>2. IsGladish(gladish) /\ SignalFields(Head(inbox)) BY <1>1, Taking DEF Onwards
<1>3. name \in Names /\ name # None BY <1>1, <1>2, NamesDiffer DEF SignalFields
<1>4. o \in Objects BY DEF Objects
<1>5. CASE o \in Opened(gladish)
  <2>1. gladish' = [gladish EXCEPT !.views[o] = v] BY <1>1, <1>5
  <2>2. IsView(gladish.views[o]) BY <1>2, <1>4 DEF IsGladish
  <2> HIDE DEF name, o
  <2>3. IsView(v) /\ v.name = name BY <2>2 DEF IsView
  <2> HIDE DEF v
  <2> QED BY <1>1, <1>3, <1>4, <1>5, <2>1, <2>3, ViewFollows
<1>6. CASE o \notin Opened(gladish) BY <1>1, <1>6, SameFollows
<1> QED BY <1>5, <1>6

\* A change of apps keeps the invariant.
LEMMA AppsChangeKeeps ==
  ASSUME GuiInv, AppsChange
  PROVE  GuiInv'
<1> DEFINE o == Head(inbox).on
           v == Followed(gladish.views[o], Head(inbox))
<1>1. /\ Onwards /\ hooks' = hooks /\ Head(inbox).face = "apps"
      /\ Head(inbox).is \in {"AppAdded2", "AppRemoved", "AppStateChanged2"}
      /\ gladish' = [gladish EXCEPT !.views[o] = v]
  BY DEF AppsChange, Just, Takes, Taken, Onwards
<1>2. IsGladish(gladish) /\ SignalFields(Head(inbox)) BY <1>1, Taking DEF Onwards
<1>3. o \in Objects BY <1>1, <1>2 DEF SignalFields
<1>4. IsView(v) /\ v.name = gladish.views[o].name BY <1>2, <1>3, ViewsKeepNames DEF IsGladish
<1>5. Head(inbox).is \notin {"appeared", "disappeared", "RoomDisappeared"} BY <1>1
<1> HIDE DEF o, v
<1> QED BY <1>1, <1>3, <1>4, <1>5, ViewFollows

\* A change of a project keeps the invariant.
LEMMA ProjectChangesKeeps ==
  ASSUME GuiInv, ProjectChanges
  PROVE  GuiInv'
<1> DEFINE o == Head(inbox).on
           name == Head(inbox).name
           n == Head(inbox).version
           no == FALSE
           v == Described(gladish.views[o], name, n, no)
<1>1. /\ Onwards /\ hooks' = hooks /\ Head(inbox).face = "room"
      /\ Head(inbox).is = "ProjectPropertiesChanged"
      /\ gladish' = gladish \/ gladish' = [gladish EXCEPT !.views[o] = v]
  BY DEF ProjectChanges, Just, Takes, Taken, Onwards
<1>2. IsGladish(gladish) /\ SignalFields(Head(inbox)) BY <1>1, Taking DEF Onwards
<1>3. o \in Objects BY <1>1, <1>2 DEF SignalFields, Objects
<1> HIDE DEF no, name, n
<1>4. IsView(v) /\ v.name = gladish.views[o].name BY <1>2, <1>3, ViewsKeepNames DEF IsGladish
<1>5. Head(inbox).is \notin {"appeared", "disappeared", "RoomDisappeared"} BY <1>1
<1> HIDE DEF o, v
<1>6. CASE gladish' = gladish BY <1>1, <1>5, <1>6, SameFollows
<1>7. CASE gladish' = [gladish EXCEPT !.views[o] = v] BY <1>1, <1>3, <1>4, <1>5, <1>7, ViewFollows
<1> QED BY <1>1, <1>6, <1>7

\* The appearance of a room keeps the invariant: its view is not open, or something was missed.
LEMMA RoomAppearsKeeps ==
  ASSUME GuiInv, RoomAppears
  PROVE  GuiInv'
<1> DEFINE u == Opening(Head(inbox).room, Head(inbox).name)
<1>1. /\ Idle /\ inbox # << >> /\ daemon' = daemon /\ inbox' = Tail(inbox)
      /\ missed' = missed /\ twice' = twice /\ hooks' = hooks /\ Head(inbox).is = "RoomAppeared"
      /\ gladish' = [gladish EXCEPT !.todo = u]
  BY DEF RoomAppears, Just, Takes, Taken
<1>2. gladish.on /\ ~gladish.aborted /\ IsGladish(gladish)
      /\ Core(daemon, << >>, Opened(gladish), Gone(gladish), gladish.timers, hooks, inbox, Bad)
  BY <1>1, Taking
<1>3. Core(daemon, u, Opened(gladish), Gone(gladish), gladish.timers, hooks, Tail(inbox), Bad)
  BY <1>1, <1>2, CoreAppears
<1> HIDE DEF u
<1>4. Core(daemon', u, Opened(gladish), Gone(gladish), gladish.timers, hooks', inbox', Bad')
  BY <1>1, <1>3 DEF Bad
<1>5. Becomes(gladish', gladish, u, Opened(gladish), Gone(gladish), gladish.timers) BY <1>1, <1>2, NewTodo
<1> QED BY <1>2, <1>4, <1>5, GoesOn

\* A signal of the studio's state is taken, the daemon is asked, and then
\* something else can happen.
LEMMA AsksAgain ==
  ASSUME GuiInv, Idle, inbox # << >>, Head(inbox).is \in {"StudioAppeared", "StudioStarted", "StudioStopped", "StudioCrashed"},
         NEW x \in Answers, Queues(x, Tail(inbox)), hooks' = hooks
  PROVE  /\ gladish.on /\ ~gladish.aborted /\ IsGladish(gladish) /\ ~Gone(gladish) /\ Sound(x[1])
         /\ Core(daemon', << >>, Opened(gladish), Gone(gladish), gladish.timers, hooks', inbox', Bad')
<1> DEFINE C == {}
           O == Opened(gladish)
           now == Gone(gladish)
           timers == gladish.timers
<1>1. gladish.on /\ ~gladish.aborted /\ IsGladish(gladish) /\ gladish.todo = << >>
      /\ Core(daemon, << >>, O, now, timers, hooks, inbox, Bad)
  BY Taking
<1>2. ~now /\ timers = 0 BY <1>1, NotGone DEF StateSignals
<1>3. hooks = HooksLeft(hooks, C) /\ O = O \ C BY Nothing
<1>4. \A r \in Rooms : Head(inbox) \in RoomPlace(r).frees => r \in C BY Frees
<1>5. timers = (IF now THEN 1 ELSE 0) BY <1>2
<1> HIDE DEF C, O, now, timers
<1>6. Core(daemon, << >>, O \ C, now, timers, HooksLeft(hooks, C), Tail(inbox), Bad) BY <1>1, <1>2, <1>4, <1>5, CoreTakes
<1>7. Core(daemon, gladish.todo, O, now, timers, hooks, Tail(inbox), Bad) BY <1>1, <1>3, <1>6
<1>8. Changes(daemon, x) BY <1>1, AnswersChange DEF Core
<1>9. Core(daemon', gladish.todo, O, now, timers, hooks, inbox', Bad') BY <1>1, <1>7, <1>8, CoreQueues
<1>10. Sound(x[1]) BY <1>8 DEF Changes
<1> QED BY <1>1, <1>2, <1>9, <1>10 DEF O, now, timers

\* A change of the state of the studio keeps the invariant.
LEMMA StudioChangesKeeps ==
  ASSUME GuiInv, StudioChanges
  PROVE  GuiInv'
<1> DEFINE mode == NewState(Head(inbox).is)
           none == << >>
<1>1. PICK x \in Answers : Queues(x, Tail(inbox)) /\ gladish' = [gladish EXCEPT !.state = mode]
  BY DEF StudioChanges, Taken
<1>2. Idle /\ inbox # << >> /\ hooks' = hooks /\ Head(inbox).is \in {"StudioStarted", "StudioStopped", "StudioCrashed"}
  BY DEF StudioChanges, Takes
<1>3. mode \notin {"na", "sick"} BY <1>2 DEF NewState
<1>4. /\ gladish.on /\ ~gladish.aborted /\ IsGladish(gladish) /\ ~Gone(gladish)
      /\ Core(daemon', none, Opened(gladish), Gone(gladish), gladish.timers, hooks', inbox', Bad')
  BY <1>1, <1>2, AsksAgain
<1>5. gladish = Rec(gladish.on, gladish.state, gladish.views, none, gladish.clean, gladish.timers, gladish.aborted)
  BY <1>2, Taking
<1> DEFINE q == [gladish EXCEPT !.todo = none]
<1>q. q = gladish BY <1>5 DEF Rec
<1> HIDE DEF q
<1>s. gladish' = [q EXCEPT !.state = mode] BY <1>1, <1>q
<1>6. gladish' = [[gladish EXCEPT !.todo = none] EXCEPT !.state = mode] BY <1>s DEF q
<1> HIDE DEF mode, none
<1>7. Becomes(gladish', gladish, none, Opened(gladish), Gone(gladish), gladish.timers) BY <1>3, <1>4, <1>6, NewStepsAndState
<1> QED BY <1>4, <1>7, GoesOn

\* The appearance of the studio keeps the invariant.
LEMMA StudioAppearsKeeps ==
  ASSUME GuiInv, StudioAppears
  PROVE  GuiInv'
<1> DEFINE mode == "stopped"
           O == Opened(gladish)
<1>1. PICK x \in Answers : Queues(x, Tail(inbox))
                           /\ gladish' = [gladish EXCEPT !.state = mode, !.todo = OpensStudio(gladish, x[1])]
  BY DEF StudioAppears
<1>2. Idle /\ inbox # << >> /\ hooks' = hooks /\ Head(inbox).is = "StudioAppeared"
  BY DEF StudioAppears, Takes
<1>3. mode \notin {"na", "sick"} OBVIOUS
<1>4. /\ gladish.on /\ ~gladish.aborted /\ IsGladish(gladish) /\ ~Gone(gladish) /\ Sound(x[1])
      /\ Core(daemon', << >>, O, Gone(gladish), gladish.timers, hooks', inbox', Bad')
  BY <1>1, <1>2, AsksAgain
<1>5. gladish = Rec(gladish.on, gladish.state, gladish.views, gladish.todo, gladish.clean, gladish.timers, gladish.aborted)
  BY <1>4, GladishIsRec
<1> DEFINE u == OpensStudio(gladish, x[1])
<1>6. Core(daemon', u, O, Gone(gladish), gladish.timers, hooks', inbox', Bad')
  <2>1. CASE Studio \in Registered(x[1]) /\ Studio \notin O
    <3> DEFINE name == x[1].name
    <3>1. u = Opening(Studio, name) BY <2>1 DEF OpensStudio
    <3>2. name \in Names BY <1>4, <2>1, StudioIsNamed
    <3>3. Regular(O, << >>, hooks') BY <1>4 DEF Core, Doomed
    <3>4. Studio \in Objects BY DEF Objects
    <3>5. \A y \in Elements(<< >>) : ~OnView(y) /\ y.do # "ask" /\ ~Once(y) BY NothingToDo
    <3> DEFINE p == Opening(Studio, name)
    <3>6. p \o << >> = p
      <4>1. Program(p) BY <3>2, <3>4, OpeningFacts
      <4>2. p \in Seq(Steps) BY <4>1 DEF Program
      <4> HIDE DEF p
      <4> QED BY <4>2
    <3> HIDE DEF name
    <3> DEFINE e == << >>
               q == Opening(Studio, name) \o e
    <3>e. Program(e) /\ Regular(O, e, hooks') /\ ~Listing(e) /\ \A y \in Elements(e) : ~OnView(y) /\ y.do # "ask" /\ ~Once(y)
      BY <3>3, <3>5, NoProgram, NothingToDo
    <3> HIDE DEF e
    <3>7. Program(q) /\ Regular(O, q, hooks') /\ q # Beginning /\ (Listing(q) <=> Listing(e)) /\ Opens(q) = {Studio} \cup Opens(e)
      BY <2>1, <3>2, <3>4, <3>e, OpensFirst
    <3>8. Program(p) /\ Regular(O, p, hooks') /\ p # Beginning /\ (Listing(p) <=> Listing(<< >>)) /\ Opens(p) = {Studio} \cup Opens(<< >>)
      BY <3>6, <3>7 DEF e
    <3> HIDE DEF p
    <3>9. \A r \in Rooms : r \in Opens(p) <=> r \in Opens(<< >>) BY <3>8, NamesDiffer
    <3>10. Core(daemon', p, O, Gone(gladish), gladish.timers, hooks', inbox', Bad') BY <1>4, <3>8, <3>9, CoreSteps
    <3> QED BY <3>1, <3>10 DEF p
  <2>2. CASE ~(Studio \in Registered(x[1]) /\ Studio \notin O)
    <3>1. u = << >> BY <2>2 DEF OpensStudio
    <3> QED BY <1>4, <3>1
  <2> QED BY <2>1, <2>2
<1> HIDE DEF u, mode
<1>7. gladish' = [[gladish EXCEPT !.todo = u] EXCEPT !.state = mode]
  <2>1. gladish' = [[gladish EXCEPT !.state = mode] EXCEPT !.todo = u] BY <1>1 DEF u
  <2> QED BY <1>5, <2>1 DEF Rec
<1>8. Becomes(gladish', gladish, u, O, Gone(gladish), gladish.timers) BY <1>3, <1>4, <1>7, NewStepsAndState
<1> QED BY <1>4, <1>6, <1>8, GoesOn

\* The invariant holds at first.
LEMMA InitKeeps == InitGui => GuiInv
<1> SUFFICES ASSUME InitGui PROVE GuiInv OBVIOUS
<1>1. Sound(daemon)
  <2>1. CASE daemon \in {Down, Started} BY <2>1, DownFacts
  <2>2. CASE daemon \in { LoadedFrom(Started, name, r)[1] : name \in Names, r \in Rooms }
    <3>1. PICK name \in Names, r \in Rooms : daemon = LoadedFrom(Started, name, r)[1] BY <2>2
    <3>2. Changes(Started, LoadedFrom(Started, name, r)) BY <3>1, DownFacts, LoadedChanges
    <3> QED BY <3>1, <3>2 DEF Changes
  <2> QED BY <2>1, <2>2 DEF InitGui
<1> DEFINE w == [o \in Objects |-> NoView]
           no == FALSE
           h == Rec(no, "unknown", w, << >>, no, 0, no)
<1>2. gladish = h /\ hooks = {} /\ inbox = << >> BY OffIs DEF InitGui
<1>a. AreViews(w) /\ Shown(w) = {} BY OffIs
<1>z. no \in BOOLEAN /\ ~no OBVIOUS
<1> HIDE DEF w, no
<1>3. /\ IsGladish(h) /\ h.on = no /\ h.aborted = no /\ h.todo = << >>
      /\ h.timers = 0 /\ Opened(h) = Shown(w) /\ (Gone(h) <=> "unknown" \in {"na", "sick"})
  BY <1>a, <1>z, RecFacts
<1> HIDE DEF h
<1>4. ~Gone(gladish) BY <1>2, <1>3
<1>5. Core(daemon, << >>, {}, FALSE, 0, {}, << >>, Bad) BY <1>1, CoreOff
<1>6. Life(Gone(gladish), 0, {}, << >>, daemon.up, << >>) BY <1>4, <1>5 DEF Core, Life
<1>7. Core(daemon, << >>, {}, Gone(gladish), 0, {}, << >>, Bad) BY <1>5, <1>6 DEF Core
<1> QED BY <1>2, <1>3, <1>4, <1>7, <1>a, <1>z DEF GuiInv

\* The invariant says what is promised.
LEMMA InvariantPromises == GuiInv => HooksMatchViews
<1> SUFFICES ASSUME GuiInv PROVE HooksMatchViews OBVIOUS
<1>1. gladish.aborted => twice \/ missed BY DEF GuiInv, Bad
<1>2. ASSUME Idle
      PROVE  /\ { h \in hooks : h[1] \in Objects /\ h[2] \in ViewFaces }
                  = { <<o, f>> : o \in Opened(gladish), f \in ViewFaces } \ {<<Studio, "room">>}
             /\ gladish.timers = IF gladish.state \in {"na", "sick"} THEN 1 ELSE 0
  <2> DEFINE O == Opened(gladish)
  <2>1. gladish.on /\ gladish.todo = << >> BY <1>2 DEF Idle
  <2>2. Core(daemon, << >>, O, Gone(gladish), gladish.timers, hooks, inbox, Bad) BY <2>1, Busy
  <2>3. Regular(O, << >>, hooks) /\ O \subseteq Objects /\ hooks \subseteq Lasting \cup ViewHooks BY <2>2 DEF Core, Doomed
  <2>4. \A h \in ViewHooks : h \in hooks <=> h[1] \in O BY <2>3, NothingToDo DEF Regular
  <2>5. gladish.timers = IF gladish.state \in {"na", "sick"} THEN 1 ELSE 0 BY <2>2 DEF Core, Life, Gone
  <2> HIDE DEF O
  <2>6. { h \in hooks : h[1] \in Objects /\ h[2] \in ViewFaces } = { <<o, f>> : o \in O, f \in ViewFaces } \ {<<Studio, "room">>}
    BY <2>3, <2>4 DEF ViewHooks, Lasting, ViewFaces
  <2> QED BY <2>5, <2>6 DEF O
<1> QED BY <1>1, <1>2 DEF HooksMatchViews

\* The invariant holds on if nothing changes.
LEMMA StaysKeeps ==
  ASSUME GuiInv, UNCHANGED guiVars
  PROVE  GuiInv'
<1>1. daemon' = daemon /\ gladish' = gladish /\ hooks' = hooks /\ inbox' = inbox /\ missed' = missed /\ twice' = twice
  BY DEF guiVars
<1> QED BY <1>1 DEF GuiInv, Core, Bad, Opened, Gone, IsGladish

\* Whatever gladish does keeps the invariant.
LEMMA GladishKeeps ==
  ASSUME GuiInv, Gladish
  PROVE  GuiInv'
<1>1. CASE GladishStarts BY <1>1, GladishStartsKeeps
<1>2. CASE GladishQuits BY <1>2, GladishQuitsKeeps
<1>3. CASE AsksForStudio BY <1>3, AsksForStudioKeeps
<1>4. CASE AsksIfStarted BY <1>4, AsksIfStartedKeeps
<1>5. CASE AsksForName BY <1>5, AsksForNameKeeps
<1>6. CASE ListsRooms BY <1>6, ListsRoomsKeeps
<1>7. CASE RegistersHook BY <1>7, RegistersHookKeeps
<1>8. CASE OpensView BY <1>8, OpensViewKeeps
<1>9. CASE ListsApps BY <1>9, ListsAppsKeeps
<1>10. CASE GetsProject BY <1>10, GetsProjectKeeps
<1>11. CASE Drops BY <1>11, DropsKeeps
<1>12. CASE DaemonAppears BY <1>12, DaemonAppearsKeeps
<1>13. CASE DaemonDisappears BY <1>13, DaemonDisappearsKeeps
<1>14. CASE CleanExit BY <1>14, CleanExitKeeps
<1>15. CASE StudioAppears BY <1>15, StudioAppearsKeeps
<1>16. CASE StudioDisappears BY <1>16, StudioDisappearsKeeps
<1>17. CASE StudioChanges BY <1>17, StudioChangesKeeps
<1>18. CASE StudioRenamed BY <1>18, StudioRenamedKeeps
<1>19. CASE RoomAppears BY <1>19, RoomAppearsKeeps
<1>20. CASE RoomDisappears BY <1>20, RoomDisappearsKeeps
<1>21. CASE AppsChange BY <1>21, AppsChangeKeeps
<1>22. CASE ProjectChanges BY <1>22, ProjectChangesKeeps
<1>23. CASE Polls BY <1>23, PollsKeeps
<1> QED BY <1>1, <1>2, <1>3, <1>4, <1>5, <1>6, <1>7, <1>8, <1>9, <1>10, <1>11, <1>12, <1>13, <1>14, <1>15, <1>16,
           <1>17, <1>18, <1>19, <1>20, <1>21, <1>22, <1>23 DEF Gladish

\* Whatever the daemon does while gladish asks, follows its signals, quits and
\* starts again: between two signals the hooks of views are those of the views
\* that are open, the timer runs exactly while the daemon is known to be gone,
\* and no hook is registered twice, unless a room appeared while the rooms
\* were about to be listed or a signal was sent before the hook for it.
THEOREM FrontEndHooksMatchViews == SpecGui => []HooksMatchViews
<1>1. InitGui => GuiInv BY InitKeeps
<1>2. GuiInv /\ [NextGui]_guiVars => GuiInv'
  <2> SUFFICES ASSUME GuiInv, [NextGui]_guiVars PROVE GuiInv' OBVIOUS
  <2>1. CASE Gladish BY <2>1, GladishKeeps
  <2>2. CASE Daemon BY <2>2, DaemonKeeps
  <2>3. CASE UNCHANGED guiVars BY <2>3, StaysKeeps
  <2> QED BY <2>1, <2>2, <2>3 DEF NextGui
<1>3. GuiInv => HooksMatchViews BY InvariantPromises
<1> QED BY <1>1, <1>2, <1>3, PTL DEF SpecGui
=============================================================================
