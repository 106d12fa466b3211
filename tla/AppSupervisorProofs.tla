------------------------ MODULE AppSupervisorProofs ------------------------
(***************************************************************************)
(* Proofs about AppSupervisor, for any number of apps, processes, requests *)
(* and events of JACK.                                                     *)
(***************************************************************************)
EXTENDS AppSupervisor, SequenceTheorems, TLAPS

(***************************************************************************)
(* The inductive invariant.  AppTypes and OtherTypes are TypeOK, parted by *)
(* what the proof needs them for; Matched says of each app and each child  *)
(* what ChildrenHaveApps says of their sets.  What has to be added is that *)
(* pids are not used again, that a child is in one stage of its life, that *)
(* an app out of the list has no process, and that an app that is being    *)
(* forked is stopped until its pid is known.                               *)
(***************************************************************************)
AppTypes ==
  /\ listed \subseteq Ids /\ zombie \subseteq listed /\ autorun \subseteq listed
  /\ nextId \in Nat \ {0} /\ \A a \in listed : a < nextId
  /\ pid \in [Ids -> Pids \cup {0}]
  /\ watched \subseteq Pids /\ dead \subseteq watched
  /\ nextPid \in Nat \ {0}
  /\ alive \subseteq Pids /\ exited \subseteq Pids /\ told \subseteq Pids
  /\ forked \in {NotForked} \cup [app : listed, pid : Pids]
  /\ forked # NotForked <=> pc = "forked"

OtherTypes ==
  /\ tracked \subseteq Ids /\ stale \subseteq Ids
  /\ queue \in Seq(CommandRecord)
  /\ caller \in {"none", "command", "start", "event"}

\* the command that has an app started, or the studio, is at the head
Callers ==
  /\ pc = "autorun" => caller \in {"start", "event"}
  /\ pc = "forked" => caller # "none"
  /\ pc = "forked" /\ caller = "command" =>
       queue # <<>> /\ Head(queue).kind \in {"new app", "start app"}
  /\ pc \in {"autorun", "forked"} /\ caller = "start" =>
       queue # <<>> /\ Head(queue).kind = "start"

Matched ==
  /\ \A a \in listed : pid[a] # 0 => pid[a] \in watched
  /\ \A p \in watched : \E a \in listed : pid[a] = p
  /\ \A a, b \in listed : pid[a] # 0 /\ pid[a] = pid[b] => a = b
  /\ alive \cup exited \subseteq watched \cup {forked.pid}

Lives ==
  /\ \A p \in watched \cup alive \cup exited : p < nextPid
  /\ dead \cap (alive \cup exited) = {}
  /\ alive \cap exited = {}
  /\ \A a \in Ids \ listed : pid[a] = 0

Forking ==
  pc = "forked" =>
    /\ forked.pid < nextPid /\ forked.pid \notin watched
    /\ pid[forked.app] = 0 /\ forked.app \notin zombie

AppInv == AppTypes /\ Matched /\ Lives /\ Forking /\ ZombiesAreDying

IInv == AppInv /\ OtherTypes /\ Callers

-----------------------------------------------------------------------------
\* the invariant holds of a studio without apps
LEMMA InitInv == Init => IInv
<1> SUFFICES ASSUME Init PROVE IInv
  OBVIOUS
<1>1. AppTypes
  <2>1. pid \in [Ids -> Pids \cup {0}]
    BY DEF Init
  <2>2. /\ listed = {} /\ zombie = {} /\ autorun = {} /\ nextId = 1
        /\ watched = {} /\ dead = {} /\ alive = {} /\ exited = {} /\ told = {}
        /\ nextPid = 1 /\ forked = NotForked /\ pc = "dispatch"
    BY DEF Init
  <2> QED
    BY <2>1, <2>2 DEF AppTypes
<1>2. OtherTypes
  <2>1. <<>> \in Seq(CommandRecord)
    OBVIOUS
  <2> QED
    BY <2>1 DEF Init, OtherTypes
<1>3. Matched /\ Lives /\ Forking /\ ZombiesAreDying
  BY DEF Init, Matched, Lives, Forking, ZombiesAreDying, NotForked, Ids
<1>4. Callers
  BY DEF Init, Callers
<1> QED
  BY <1>1, <1>2, <1>3, <1>4 DEF IInv, AppInv

\* the running apps have the pids of children, which are processes
LEMMA RunningPidsTypes ==
  ASSUME AppInv
  PROVE  RunningPids \subseteq Pids /\ Running \subseteq listed
BY DEF AppInv, AppTypes, RunningPids, Running, Ids, Pids

(***************************************************************************)
(* Steps that leave the apps, the children and the processes alone, or     *)
(* only tell apps to terminate.                                            *)
(***************************************************************************)
\* nothing of the invariant can change but who was told
LEMMA QuietStep ==
  ASSUME AppInv,
         UNCHANGED <<listed, nextId, pid, zombie, watched, dead, forked, nextPid,
                     alive, exited>>,
         autorun' \subseteq listed,
         told \subseteq told', told' \subseteq Pids,
         pc' = "forked" <=> pc = "forked"
  PROVE  AppInv'
<1>1. AppTypes'
  BY DEF AppInv, AppTypes, Ids, Pids
<1>2. Matched' /\ Lives' /\ Forking'
  BY DEF AppInv, Matched, Lives, Forking, Ids
<1>3. ZombiesAreDying'
  BY DEF AppInv, ZombiesAreDying
<1> QED
  BY <1>1, <1>2, <1>3 DEF AppInv

\* a process exits, or the handler of SIGCHLD takes notice of it
LEMMA ProcessStep ==
  ASSUME AppInv, Processes
  PROVE  AppInv'
<1>1. ASSUME NEW p \in Pids, ProcessExits(p) PROVE AppInv'
  <2>1. AppTypes'
    BY <1>1 DEF AppInv, AppTypes, ProcessExits, appVars, childVars, Ids, Pids
  <2>2. Matched' /\ Lives' /\ Forking' /\ ZombiesAreDying'
    BY <1>1 DEF AppInv, Matched, Lives, Forking, ZombiesAreDying, ProcessExits,
                appVars, childVars, Ids
  <2> QED
    BY <2>1, <2>2 DEF AppInv
<1>2. ASSUME SigchldHandler PROVE AppInv'
  <2>1. AppTypes'
    BY <1>2 DEF AppInv, AppTypes, SigchldHandler, appVars, Ids, Pids
  <2>2. Matched' /\ Lives' /\ Forking' /\ ZombiesAreDying'
    BY <1>2 DEF AppInv, Matched, Lives, Forking, ZombiesAreDying, SigchldHandler,
                appVars, Ids
  <2> QED
    BY <2>1, <2>2 DEF AppInv
<1> QED
  BY <1>1, <1>2 DEF Processes

\* the loader buries the dead children
LEMMA BuryStep ==
  ASSUME AppInv, Bury
  PROVE  AppInv'
<1> DEFINE B == {a \in listed : pid[a] \in dead}
<1>1. /\ pid' = [a \in Ids |-> IF a \in B THEN 0 ELSE pid[a]]
      /\ listed' = listed \ (B \cap zombie)
      /\ zombie' = zombie \ B
      /\ autorun' = autorun \ (B \cap zombie)
      /\ watched' = watched \ dead /\ dead' = {}
      /\ UNCHANGED <<nextId, forked, nextPid, alive, exited, told>>
      /\ pc = "loader" /\ pc' = "cqueue"
  BY DEF Bury, BuryApps, procVars
<1>2. forked = NotForked
  BY <1>1 DEF AppInv, AppTypes
<1> HIDE DEF B
<1>3. /\ \A a \in B : a \in listed /\ pid[a] \in dead
      /\ \A a \in listed \ B : pid[a] \notin dead
  BY DEF B
<1>4. \A a \in Ids : pid'[a] = IF a \in B THEN 0 ELSE pid[a]
  BY <1>1
<1>5. AppTypes'
  BY <1>1, <1>2 DEF AppInv, AppTypes, Ids, Pids
<1>6. Matched'
  <2>1. \A a \in listed' : pid'[a] # 0 => pid'[a] \in watched'
    BY <1>1, <1>3, <1>4 DEF AppInv, AppTypes, Matched
  <2>2. ASSUME NEW p \in watched' PROVE \E a \in listed' : pid'[a] = p
    <3>1. PICK a \in listed : pid[a] = p
      BY <1>1 DEF AppInv, Matched
    <3> QED
      BY <1>1, <1>3, <1>4, <3>1 DEF AppInv, AppTypes
  <2>3. \A a, b \in listed' : pid'[a] # 0 /\ pid'[a] = pid'[b] => a = b
    BY <1>1, <1>4 DEF AppInv, AppTypes, Matched
  <2>4. (alive \cup exited \subseteq watched \cup {forked.pid})'
    BY <1>1 DEF AppInv, Matched, Lives
  <2> QED
    BY <2>1, <2>2, <2>3, <2>4 DEF Matched
<1>7. Lives' /\ Forking'
  BY <1>1, <1>3, <1>4 DEF AppInv, AppTypes, Lives, Forking
<1>8. ZombiesAreDying'
  BY <1>1, <1>3, <1>4 DEF AppInv, AppTypes, ZombiesAreDying
<1> QED
  BY <1>5, <1>6, <1>7, <1>8 DEF AppInv

(***************************************************************************)
(* Starting an app.                                                        *)
(***************************************************************************)
\* a stopped app is forked, by whatever added it or cleared its marks before
LEMMA ForkStep ==
  ASSUME AppInv, NEW a \in Ids, NEW by,
         Fork(a, by), pc # "forked", pid[a] = 0,
         pid' = pid,
         listed' = listed \cup {a},
         zombie' = zombie \ {a},
         autorun' \subseteq listed',
         nextId' \in Nat \ {0}, \A b \in listed' : b < nextId'
  PROVE  AppInv'
<1>1. /\ nextPid \in Pids /\ nextPid' = nextPid + 1
      /\ alive' = alive \cup {nextPid}
      /\ forked' = [app |-> a, pid |-> nextPid] /\ pc' = "forked"
      /\ UNCHANGED <<watched, dead, exited, told>>
  BY DEF Fork, childVars
<1>2. forked = NotForked /\ NotForked.pid = 0
  BY DEF AppInv, AppTypes, NotForked
<1>3. nextPid \in Nat \ {0} /\ Pids \subseteq Nat \ {0}
  BY DEF AppInv, AppTypes, Pids
<1>4. forked' \in [app : listed', pid : Pids] /\ forked'.app = a /\ forked'.pid = nextPid
  BY <1>1
<1>5. forked' # NotForked
  BY <1>2, <1>3, <1>4
<1>6. AppTypes'
  BY <1>1, <1>3, <1>4, <1>5 DEF AppInv, AppTypes
<1>7. nextPid \notin watched \cup alive \cup exited
  BY <1>3 DEF AppInv, Lives
<1>8. Matched'
  BY <1>1, <1>2, <1>4, <1>3 DEF AppInv, AppTypes, Matched
<1>9. Lives' /\ Forking'
  BY <1>1, <1>3, <1>4, <1>7 DEF AppInv, AppTypes, Lives, Forking
<1>10. ZombiesAreDying'
  BY <1>1 DEF AppInv, ZombiesAreDying
<1> QED
  BY <1>6, <1>8, <1>9, <1>10 DEF AppInv

\* the pid of the new process becomes known
LEMMA ForkedStep ==
  ASSUME AppInv, Forked
  PROVE  AppInv'
<1> DEFINE a == forked.app
           p == forked.pid
<1>1. /\ pid' = [pid EXCEPT ![a] = p]
      /\ watched' = watched \cup {p}
      /\ forked' = NotForked /\ pc = "forked" /\ pc' # "forked"
      /\ UNCHANGED <<listed, nextId, zombie, autorun, dead, nextPid, alive, exited, told>>
  BY DEF Forked, procVars
<1>2. /\ a \in listed /\ a \in Ids /\ p \in Pids /\ p # 0
      /\ p < nextPid /\ p \notin watched /\ pid[a] = 0 /\ a \notin zombie
  BY <1>1 DEF AppInv, AppTypes, Forking, Pids
<1>3. \A b \in Ids : pid'[b] = IF b = a THEN p ELSE pid[b]
  BY <1>1, <1>2 DEF AppInv, AppTypes
<1>4. pid' \in [Ids -> Pids \cup {0}]
  BY <1>1, <1>2 DEF AppInv, AppTypes
<1> HIDE DEF a, p
<1>5. AppTypes'
  BY <1>1, <1>2, <1>4 DEF AppInv, AppTypes
<1>6. Matched'
  <2>1. \A b \in listed : b \in Ids
    BY DEF AppInv, AppTypes
  <2>2. \A b \in listed' : pid'[b] # 0 => pid'[b] \in watched'
    BY <1>1, <1>3, <2>1 DEF AppInv, Matched
  <2>3. ASSUME NEW q \in watched' PROVE \E b \in listed' : pid'[b] = q
    <3>1. CASE q = p
      BY <3>1, <1>1, <1>2, <1>3
    <3>2. CASE q \in watched
      <4>1. PICK b \in listed : pid[b] = q
        BY <3>2 DEF AppInv, Matched
      <4>2. b # a
        BY <4>1, <3>2, <1>2 DEF AppInv, AppTypes, Pids
      <4> QED
        BY <4>1, <4>2, <2>1, <1>1, <1>3
    <3> QED
      BY <3>1, <3>2, <1>1
  <2>4. \A b, c \in listed' : pid'[b] # 0 /\ pid'[b] = pid'[c] => b = c
    BY <1>1, <1>2, <1>3, <2>1 DEF AppInv, Matched
  <2>5. (alive \cup exited \subseteq watched \cup {forked.pid})'
    BY <1>1 DEF AppInv, Matched, p
  <2> QED
    BY <2>2, <2>3, <2>4, <2>5 DEF Matched
<1>7. Lives' /\ Forking'
  BY <1>1, <1>2, <1>3 DEF AppInv, AppTypes, Lives, Forking
<1>8. ZombiesAreDying'
  BY <1>1, <1>2, <1>3 DEF AppInv, AppTypes, ZombiesAreDying
<1> QED
  BY <1>5, <1>6, <1>7, <1>8 DEF AppInv

\* the next app of the loop is started, cannot be, or runs already
LEMMA AutorunStep ==
  ASSUME AppInv, NEW a \in Ids, AutorunNext(a)
  PROVE  AppInv'
<1>1. a \in listed /\ pc = "autorun"
  BY DEF AutorunNext, AppInv, AppTypes
<1>2. CASE pid[a] # 0
  <2>1. Dies("app_supervisor.c:984")
    BY <1>2 DEF AutorunNext
  <2> QED
    BY <2>1, <1>1, QuietStep DEF Dies, appVars, childVars, procVars, AppInv, AppTypes
<1>3. CASE pid[a] = 0
  <2>1. /\ autorun' = autorun \ {a} /\ zombie' = zombie \ {a}
        /\ UNCHANGED <<listed, nextId, pid>>
        /\ Fork(a, caller) \/ AutorunOver
    BY <1>3 DEF AutorunNext
  <2>2. CASE Fork(a, caller)
    BY <2>1, <2>2, <1>1, <1>3, ForkStep DEF AppInv, AppTypes
  <2>3. CASE AutorunOver
    <3>1. a \notin zombie
      BY <1>3 DEF AppInv, AppTypes, ZombiesAreDying, Pids
    <3>2. zombie' = zombie
      BY <3>1, <2>1
    <3>3. pc' # "forked" /\ UNCHANGED <<watched, dead, forked, nextPid, alive, exited, told>>
      BY <2>3 DEF AutorunOver, childVars, procVars
    <3> QED
      BY <3>2, <3>3, <2>1, <1>1, QuietStep DEF AppInv, AppTypes
  <2> QED
    BY <2>1, <2>2, <2>3
<1> QED
  BY <1>2, <1>3

(***************************************************************************)
(* The commands of apps.                                                   *)
(***************************************************************************)
\* the id of a new app is not in the list, and its app has no process
LEMMA FreshId ==
  ASSUME AppInv, nextId \in Ids
  PROVE  nextId \notin listed /\ pid[nextId] = 0
BY DEF AppInv, AppTypes, Lives

\* an app with a new id joins the list, stopped
LEMMA AddStep ==
  ASSUME AppInv, nextId \in Ids,
         listed' = listed \cup {nextId}, nextId' = nextId + 1,
         autorun' \subseteq autorun \cup {nextId},
         UNCHANGED <<pid, zombie, watched, dead, forked, nextPid, alive, exited, told>>,
         pc # "forked", pc' # "forked"
  PROVE  AppInv'
<1>1. AppTypes'
  BY DEF AppInv, AppTypes
<1>2. Matched'
  BY FreshId DEF AppInv, AppTypes, Matched
<1>3. Lives' /\ Forking' /\ ZombiesAreDying'
  BY DEF AppInv, Lives, Forking, ZombiesAreDying
<1> QED
  BY <1>1, <1>2, <1>3 DEF AppInv

\* an app that could not be added or executed leaves nothing but its id behind
LEMMA FailedAddStep ==
  ASSUME AppInv, pc = "cqueue", pc' = "events",
         nextId' = nextId \/ nextId' = nextId + 1,
         UNCHANGED <<listed, pid, zombie, autorun, watched, dead, forked, nextPid,
                     alive, exited, told>>
  PROVE  AppInv'
<1>1. AppTypes'
  BY DEF AppInv, AppTypes, Ids, Pids
<1> QED
  BY <1>1 DEF AppInv, Matched, Lives, Forking, ZombiesAreDying

\* a stopped app leaves the list
LEMMA RemoveStep ==
  ASSUME AppInv, NEW a \in listed, pid[a] = 0,
         listed' = listed \ {a}, zombie' = zombie \ {a}, autorun' = autorun \ {a},
         UNCHANGED <<nextId, pid, watched, dead, forked, nextPid, alive, exited, told>>,
         pc # "forked", pc' # "forked"
  PROVE  AppInv'
<1>1. AppTypes'
  BY DEF AppInv, AppTypes
<1>2. Matched'
  <2>1. \A p \in watched : p # 0
    BY DEF AppInv, AppTypes, Pids
  <2> QED
    BY <2>1 DEF AppInv, Matched
<1>3. Lives' /\ Forking' /\ ZombiesAreDying'
  BY DEF AppInv, Lives, Forking, ZombiesAreDying
<1> QED
  BY <1>1, <1>2, <1>3 DEF AppInv

\* the commands that create, start, stop and remove an app
LEMMA AppCommandStep ==
  ASSUME AppInv, AppCommands
  PROVE  AppInv'
<1> DEFINE a == Head(queue).app
<1>1. ASSUME NewApp PROVE AppInv'
  <2>1. /\ nextId \in Ids /\ pc = "cqueue"
        /\ listed' = listed \cup {nextId} /\ nextId' = nextId + 1
        /\ autorun' = autorun \cup {nextId}
        /\ UNCHANGED <<pid, zombie>>
    BY <1>1 DEF NewApp, Pending
  <2>2. CASE started
    <3>1. Fork(nextId, "command")
      BY <1>1, <2>2 DEF NewApp
    <3>2. nextId \notin zombie /\ pid[nextId] = 0
      BY <2>1, FreshId DEF AppInv, AppTypes
    <3>3. autorun' \subseteq listed' /\ nextId' \in Nat \ {0} /\ \A b \in listed' : b < nextId'
      BY <2>1 DEF AppInv, AppTypes
    <3>4. zombie' = zombie \ {nextId}
      BY <2>1, <3>2
    <3> QED
      BY <2>1, <3>1, <3>2, <3>3, <3>4, ForkStep
  <2>3. CASE ~started
    <3>1. pc' # "forked" /\ UNCHANGED <<watched, dead, forked, nextPid, alive, exited, told>>
      BY <1>1, <2>3 DEF NewApp, Done, childVars, procVars
    <3> QED
      BY <2>1, <3>1, AddStep
  <2> QED
    BY <2>2, <2>3
<1>2. ASSUME NewAppFails PROVE AppInv'
  BY <1>2, FailedAddStep DEF NewAppFails, Pending, Fail, childVars, procVars
<1>3. ASSUME StartApp PROVE AppInv'
  <2>1. /\ a \in listed /\ pid[a] = 0 /\ pc = "cqueue"
        /\ zombie' = zombie \ {a} /\ Fork(a, "command")
        /\ UNCHANGED <<listed, nextId, pid, autorun>>
    BY <1>3 DEF StartApp, Pending, Running
  <2> QED
    BY <2>1, ForkStep DEF AppInv, AppTypes
<1>4. ASSUME StartAppFails PROVE AppInv'
  <2>1. /\ pc = "cqueue" /\ pc' = "events"
        /\ zombie' = zombie \/ (a \in listed \ Running /\ zombie' = zombie \ {a})
        /\ UNCHANGED <<listed, nextId, pid, autorun, watched, dead, forked, nextPid,
                       alive, exited, told>>
    BY <1>4 DEF StartAppFails, Pending, Fail, childVars, procVars
  <2>2. zombie' = zombie
    BY <2>1 DEF Running, AppInv, AppTypes, ZombiesAreDying, Pids
  <2> QED
    BY <2>1, <2>2, QuietStep DEF AppInv, AppTypes
<1>5. ASSUME StopApp PROVE AppInv'
  <2>1. /\ a \in Running /\ told' = told \cup {pid[a]} /\ pc = "cqueue" /\ pc' = "events"
        /\ UNCHANGED <<appVars, childVars, forked, procVars>>
    BY <1>5 DEF StopApp, Pending, Wait, AppUnchanged
  <2>2. pid[a] \in Pids
    BY <2>1, RunningPidsTypes DEF RunningPids
  <2> QED
    BY <2>1, <2>2, QuietStep DEF AppInv, AppTypes, appVars, childVars, procVars
<1>6. ASSUME RemoveApp PROVE AppInv'
  <2>1. /\ a \in listed /\ pid[a] = 0 /\ pc = "cqueue" /\ pc' = "cqueue"
        /\ listed' = listed \ {a} /\ zombie' = zombie \ {a} /\ autorun' = autorun \ {a}
        /\ UNCHANGED <<nextId, pid, watched, dead, forked, nextPid, alive, exited, told>>
    BY <1>6 DEF RemoveApp, Pending, Running, Done, childVars, procVars
  <2> QED
    BY <2>1, RemoveStep
<1>7. ASSUME AppNotFound \/ StopAppAwaits \/ StopAppUnexpected \/ AppStopped PROVE AppInv'
  <2>1. /\ pc = "cqueue" /\ pc' # "forked"
        /\ UNCHANGED <<appVars, childVars, forked, procVars, told>>
    BY <1>7 DEF AppNotFound, StopAppAwaits, StopAppUnexpected, AppStopped, Pending,
                Awaiting, Fail, StillWait, Dies, Done, AppUnchanged
  <2> QED
    BY <2>1, QuietStep DEF AppInv, AppTypes, appVars, childVars, procVars
<1> QED
  BY <1>1, <1>2, <1>3, <1>4, <1>5, <1>6, <1>7 DEF AppCommands

(***************************************************************************)
(* The commands of the studio.                                             *)
(***************************************************************************)
\* unloading keeps the apps that run, and tells them to terminate
LEMMA ClearStep ==
  ASSUME AppInv, Clear, pc # "forked", pc' # "forked",
         UNCHANGED <<nextId, watched, dead, forked, nextPid, alive, exited>>
  PROVE  AppInv'
<1>1. /\ listed' = Running /\ zombie' = Running /\ autorun' = autorun \cap Running
      /\ told' = told \cup RunningPids /\ pid' = pid
  BY DEF Clear
<1>2. Running \subseteq listed /\ RunningPids \subseteq Pids
  BY RunningPidsTypes
<1>3. \A p \in watched : p # 0
  BY DEF AppInv, AppTypes, Pids
<1>4. AppTypes'
  BY <1>1, <1>2 DEF AppInv, AppTypes, NotForked
<1>5. Matched'
  BY <1>1, <1>3 DEF AppInv, Matched, Running
<1>6. Lives' /\ Forking'
  BY <1>1 DEF AppInv, AppTypes, Lives, Forking, Running
<1>7. ZombiesAreDying'
  BY <1>1 DEF AppInv, Matched, ZombiesAreDying, Running, RunningPids
<1> QED
  BY <1>4, <1>5, <1>6, <1>7 DEF AppInv

\* the commands that start, stop, load and unload the studio
LEMMA StudioCommandStep ==
  ASSUME AppInv, StudioCommands
  PROVE  AppInv'
<1>1. ASSUME StopInitiated PROVE AppInv'
  <2>1. /\ autorun' = autorun \cup Running /\ told' = told \cup RunningPids /\ pc' = pc
        /\ UNCHANGED <<listed, nextId, pid, zombie, watched, dead, forked, nextPid,
                       alive, exited>>
    BY <1>1 DEF StopInitiated, FallThrough, childVars, procVars
  <2> QED
    BY <2>1, RunningPidsTypes, QuietStep DEF AppInv, AppTypes
<1>2. ASSUME Unload PROVE AppInv'
  <2>1. /\ Clear /\ pc = "cqueue" /\ pc' = "cqueue"
        /\ UNCHANGED <<nextId, watched, dead, forked, nextPid, alive, exited>>
    BY <1>2 DEF Unload, Pending, Done, childVars, procVars
  <2> QED
    BY <2>1, ClearStep
<1>3. ASSUME Load PROVE AppInv'
  <2>1. /\ pc = "cqueue" /\ pc' = "cqueue"
        /\ UNCHANGED <<pid, zombie, watched, dead, forked, nextPid, alive, exited, told>>
    BY <1>3 DEF Load, Pending, Done, childVars, procVars
  <2>2. CASE UNCHANGED <<listed, nextId, autorun>>
    BY <2>1, <2>2, QuietStep DEF AppInv, AppTypes
  <2>3. CASE /\ nextId \in Ids
             /\ listed' = listed \cup {nextId}
             /\ autorun' \in {autorun, autorun \cup {nextId}}
             /\ nextId' = nextId + 1
    <3>1. autorun' \subseteq autorun \cup {nextId}
      BY <2>3
    <3> QED
      BY <2>1, <2>3, <3>1, AddStep
  <2> QED
    BY <1>3, <2>2, <2>3 DEF Load
<1>4. ASSUME \/ StopIgnored \/ StopAwaitsClients \/ StopClientsGone
             \/ StopAwaitsChildren \/ StudioStopped
             \/ StartIgnored \/ StartFails \/ StartStudio
      PROVE  AppInv'
  <2>1. /\ pc = "cqueue" /\ pc' # "forked"
        /\ UNCHANGED <<appVars, childVars, forked, procVars, told>>
    BY <1>4 DEF StopIgnored, StopAwaitsClients, StopClientsGone, StopAwaitsChildren,
                StudioStopped, StartIgnored, StartFails, StartStudio,
                Pending, Awaiting, Done, Fail, StillWait, FallThrough, AppUnchanged
  <2> QED
    BY <2>1, QuietStep DEF AppInv, AppTypes, appVars, childVars, procVars
<1>5. ASSUME LoadFails PROVE AppInv'
  BY <1>5, FailedAddStep DEF LoadFails, Pending, Fail, childVars, procVars
<1> QED
  BY <1>1, <1>2, <1>3, <1>4, <1>5 DEF StudioCommands

(***************************************************************************)
(* The other variables.                                                    *)
(***************************************************************************)
\* the queue after its head was done, or goes on in another state
LEMMA QueueGoesOn ==
  ASSUME queue \in Seq(CommandRecord), queue # <<>>,
         NEW s \in {"PENDING", "WAITING", "children"}
  PROVE  /\ Tail(queue) \in Seq(CommandRecord)
         /\ <<[Head(queue) EXCEPT !.state = s]>> \o Tail(queue) \in Seq(CommandRecord)
<1>1. Head(queue) \in CommandRecord /\ Tail(queue) \in Seq(CommandRecord)
  OBVIOUS
<1>2. [Head(queue) EXCEPT !.state = s] \in CommandRecord
  BY <1>1 DEF CommandRecord
<1> QED
  BY <1>1, <1>2

\* requests queue commands
LEMMA RequestsAreCommands ==
  /\ \A k \in Kinds, a \in Ids \cup {0} : Cmd(k, a) \in CommandRecord
  /\ Unloading \in Seq(CommandRecord)
<1>1. \A k \in Kinds, a \in Ids \cup {0} : Cmd(k, a) \in CommandRecord
  BY DEF Cmd, CommandRecord
<1>2. Cmd("stop", 0) \in CommandRecord /\ Cmd("unload", 0) \in CommandRecord
  BY <1>1 DEF Kinds
<1> QED
  BY <1>1, <1>2 DEF Unloading

\* what requests queue, once its commands are known to be commands
LEMMA CommandLists ==
  ASSUME NEW c \in CommandRecord, NEW d \in CommandRecord
  PROVE  /\ <<c>> \in Seq(CommandRecord)
         /\ <<c, d>> \in Seq(CommandRecord)
         /\ Append(Unloading, c) \in Seq(CommandRecord)
BY RequestsAreCommands

\* a request leaves the queue well typed and everything else but pc alone
LEMMA RequestStep ==
  ASSUME OtherTypes, Requested
  PROVE  /\ queue' \in Seq(CommandRecord)
         /\ pc = "dispatch" /\ pc' = "loader"
         /\ UNCHANGED <<appVars, childVars, forked, procVars, told, graphVars,
                        studioVars, caller, fault, jackEvents>>
<1>1. ASSUME NEW c \in Seq(CommandRecord), Request(c)
      PROVE  /\ queue' \in Seq(CommandRecord)
             /\ pc = "dispatch" /\ pc' = "loader"
             /\ UNCHANGED <<appVars, childVars, forked, procVars, told, graphVars,
                            studioVars, caller, fault, jackEvents>>
  BY <1>1 DEF Request, Dispatch, OtherTypes
<1>2. /\ <<Cmd("new app", 0)>> \in Seq(CommandRecord)
      /\ <<Cmd("start", 0)>> \in Seq(CommandRecord)
      /\ <<Cmd("stop", 0)>> \in Seq(CommandRecord)
      /\ Append(Unloading, Cmd("load", 0)) \in Seq(CommandRecord)
  <2>1. \A k \in {"new app", "start", "stop", "load"} : Cmd(k, 0) \in CommandRecord
    BY RequestsAreCommands DEF Kinds
  <2> QED
    BY <2>1, CommandLists
<1>3. \A a \in Ids :
        /\ <<Cmd("start app", a)>> \in Seq(CommandRecord)
        /\ <<Cmd("stop app", a)>> \in Seq(CommandRecord)
        /\ <<Cmd("stop app", a), Cmd("remove app", a)>> \in Seq(CommandRecord)
  <2> TAKE a \in Ids
  <2>1. /\ Cmd("start app", a) \in CommandRecord /\ Cmd("stop app", a) \in CommandRecord
        /\ Cmd("remove app", a) \in CommandRecord
    BY RequestsAreCommands DEF Kinds
  <2> QED
    BY <2>1, CommandLists
<1>4. \E c \in Seq(CommandRecord) : Request(c)
  BY <1>2, <1>3, RequestsAreCommands
     DEF Requested, RequestNewApp, RequestStartApp, RequestStopApp, RequestRemoveApp,
         RequestStart, RequestStop, RequestUnload, RequestLoad
<1> QED
  BY <1>1, <1>4

\* Every step keeps the types of the graph, the queue and the caller.
LEMMA OtherTypesStep ==
  ASSUME IInv, [Next]_vars
  PROVE  OtherTypes'
<1> USE DEF IInv, OtherTypes
<1>0. queue \in Seq(CommandRecord) /\ <<>> \in Seq(CommandRecord)
  OBVIOUS
<1>1. CASE UNCHANGED vars \/ Ended
  BY <1>1 DEF Ended, vars, graphVars
<1>2. CASE Processes
  BY <1>2 DEF Processes, ProcessExits, SigchldHandler, graphVars
<1>3. CASE Messages
  <2>1. CASE Requested
    BY <2>1, RequestStep DEF graphVars
  <2>2. CASE DispatchNothing
    BY <2>2 DEF DispatchNothing, graphVars
  <2>3. ASSUME NEW a \in Ids, ClientAppears(a) \/ ClientDisappears(a) PROVE OtherTypes'
    BY <2>3 DEF ClientAppears, ClientDisappears
  <2> QED
    BY <1>3, <2>1, <2>2, <2>3 DEF Messages
<1>4. CASE AppCommands
  <2>1. /\ queue # <<>>
        /\ \/ queue' \in {queue, <<>>, Tail(queue)}
           \/ queue' = <<[Head(queue) EXCEPT !.state = "WAITING"]>> \o Tail(queue)
    BY <1>4 DEF AppCommands, NewApp, NewAppFails, StartApp, StartAppFails, AppNotFound,
                StopApp, StopAppAwaits, StopAppUnexpected, AppStopped, RemoveApp,
                Pending, Awaiting, Fork, Done, Fail, Wait, StillWait, As, Dies
  <2>2. caller' \in {caller, "command"}
    BY <1>4 DEF AppCommands, NewApp, NewAppFails, StartApp, StartAppFails, AppNotFound,
                StopApp, StopAppAwaits, StopAppUnexpected, AppStopped, RemoveApp,
                Fork, Done, Fail, Wait, StillWait, Dies
  <2>3. tracked' \subseteq tracked /\ stale' \subseteq stale
    BY <1>4 DEF AppCommands, NewApp, NewAppFails, StartApp, StartAppFails, AppNotFound,
                StopApp, StopAppAwaits, StopAppUnexpected, AppStopped, RemoveApp,
                Fork, Dies, AppUnchanged, graphVars
  <2>4. queue' \in Seq(CommandRecord)
    BY <1>0, <2>1, QueueGoesOn
  <2> QED
    BY <2>2, <2>3, <2>4
<1>5. CASE StudioCommands
  <2>1. /\ queue # <<>>
        /\ \/ queue' \in {queue, <<>>, Tail(queue)}
           \/ queue' = <<[Head(queue) EXCEPT !.state = "WAITING"]>> \o Tail(queue)
           \/ queue' = <<[Head(queue) EXCEPT !.state = "children"]>> \o Tail(queue)
    BY <1>5 DEF StudioCommands, StopIgnored, StopInitiated, StopAwaitsClients,
                StopClientsGone, StopAwaitsChildren, StudioStopped, StartIgnored,
                StartFails, StartStudio, Unload, Load, LoadFails, Pending, Awaiting,
                Done, Fail, StillWait, FallThrough, As
  <2>2. caller' \in {caller, "start"}
    BY <1>5 DEF StudioCommands, StopIgnored, StopInitiated, StopAwaitsClients,
                StopClientsGone, StopAwaitsChildren, StudioStopped, StartIgnored,
                StartFails, StartStudio, Unload, Load, LoadFails,
                Done, Fail, StillWait, FallThrough
  <2>3. tracked' \subseteq tracked /\ stale' \subseteq stale
    BY <1>5 DEF StudioCommands, StopIgnored, StopInitiated, StopAwaitsClients,
                StopClientsGone, StopAwaitsChildren, StudioStopped, StartIgnored,
                StartFails, StartStudio, Unload, Load, LoadFails, AppUnchanged, graphVars
  <2>4. queue' \in Seq(CommandRecord)
    BY <1>0, <2>1, QueueGoesOn
  <2> QED
    BY <2>2, <2>3, <2>4
<1>6. CASE Bury \/ QueueRan \/ NothingLearned
  BY <1>6 DEF Bury, QueueRan, NothingLearned, graphVars
<1>7. CASE Forked \/ AutorunEnds \/ \E a \in Ids : AutorunNext(a)
  <2>1. /\ queue' = queue \/ (queue # <<>> /\ queue' = Tail(queue))
        /\ caller' \in {caller, "none"}
        /\ UNCHANGED <<tracked, stale>>
    <3>1. CASE Forked
      BY <3>1 DEF Forked, Callers, graphVars
    <3>2. CASE AutorunEnds
      BY <3>2 DEF AutorunEnds, AutorunOver, Callers, graphVars
    <3>3. ASSUME NEW a \in Ids, AutorunNext(a)
          PROVE  /\ queue' = queue \/ (queue # <<>> /\ queue' = Tail(queue))
                 /\ caller' \in {caller, "none"}
                 /\ UNCHANGED <<tracked, stale>>
      BY <3>3 DEF AutorunNext, AutorunOver, Fork, Dies, Callers, graphVars
    <3> QED
      BY <1>7, <3>1, <3>2, <3>3
  <2>2. queue' \in Seq(CommandRecord)
    BY <1>0, <2>1, QueueGoesOn
  <2> QED
    BY <2>1, <2>2
<1>8. CASE JackStarted
  BY <1>8 DEF JackStarted, graphVars
<1>9. CASE JackStopped
  <2>1. queue' = <<>> \/ queue' = Unloading
    BY <1>9 DEF JackStopped
  <2>2. queue' \in Seq(CommandRecord)
    BY <1>0, <2>1, RequestsAreCommands
  <2>3. caller' = caller /\ tracked' = {} /\ stale' = stale \cup tracked
    BY <1>9 DEF JackStopped
  <2> QED
    BY <2>2, <2>3
<1> QED
  BY <1>1, <1>2, <1>3, <1>4, <1>5, <1>6, <1>7, <1>8, <1>9 DEF Next, Daemon

\* Every step keeps the command that waits for a fork or for JACK at the head.
LEMMA CallersStep ==
  ASSUME IInv, [Next]_vars
  PROVE  Callers'
<1> USE DEF IInv, Callers
<1>1. CASE UNCHANGED vars \/ Ended
  BY <1>1 DEF Ended, vars
<1>2. CASE Processes
  BY <1>2 DEF Processes, ProcessExits, SigchldHandler
<1>3. CASE Messages
  <2>1. pc' = "loader"
    BY <1>3, RequestStep
       DEF Messages, DispatchNothing, ClientAppears, ClientDisappears, Dispatch
  <2> QED
    BY <2>1
<1>4. CASE AppCommands
  <2>1. CASE NewApp \/ StartApp
    <3>1. /\ queue # <<>> /\ Head(queue).kind \in {"new app", "start app"}
          /\ \/ pc' = "cqueue"
             \/ pc' = "forked" /\ caller' = "command" /\ queue' = queue
      BY <2>1 DEF NewApp, StartApp, Pending, Fork, Done
    <3> QED
      BY <3>1
  <2>2. CASE ~(NewApp \/ StartApp)
    <3>1. pc' \in {"cqueue", "events", "aborted"}
      BY <1>4, <2>2
         DEF AppCommands, NewAppFails, StartAppFails, AppNotFound, StopApp, StopAppAwaits,
             StopAppUnexpected, AppStopped, RemoveApp, Done, Fail, Wait, StillWait, Dies
    <3> QED
      BY <3>1
  <2> QED
    BY <2>1, <2>2
<1>5. CASE StudioCommands
  <2>1. CASE StartStudio
    BY <2>1 DEF StartStudio, Pending
  <2>2. CASE ~StartStudio
    <3>1. pc' \in {"cqueue", "events"}
      BY <1>5, <2>2
         DEF StudioCommands, StopIgnored, StopInitiated, StopAwaitsClients, StopClientsGone,
             StopAwaitsChildren, StudioStopped, StartIgnored, StartFails, Unload, Load,
             LoadFails, Pending, Awaiting, Done, Fail, StillWait, FallThrough
    <3> QED
      BY <3>1
  <2> QED
    BY <2>1, <2>2
<1>6. CASE Bury \/ QueueRan \/ NothingLearned
  BY <1>6 DEF Bury, QueueRan, NothingLearned
<1>7. CASE Forked
  BY <1>7 DEF Forked, OtherTypes
<1>8. CASE AutorunEnds
  BY <1>8 DEF AutorunEnds, AutorunOver
<1>9. ASSUME NEW a \in Ids, AutorunNext(a) PROVE Callers'
  BY <1>9 DEF AutorunNext, AutorunOver, Fork, Dies
<1>10. CASE JackStarted \/ JackStopped
  BY <1>10 DEF JackStarted, JackStopped
<1> QED
  BY <1>1, <1>2, <1>3, <1>4, <1>5, <1>6, <1>7, <1>8, <1>9, <1>10 DEF Next, Daemon

-----------------------------------------------------------------------------
\* every step keeps the invariant
LEMMA InvStep ==
  ASSUME IInv, [Next]_vars
  PROVE  IInv'
<1> SUFFICES AppInv'
  BY OtherTypesStep, CallersStep DEF IInv
<1>1. AppInv /\ OtherTypes /\ autorun \subseteq listed /\ told \subseteq Pids
  BY DEF IInv, AppInv, AppTypes
<1>2. CASE UNCHANGED vars \/ Ended
  BY <1>1, <1>2, QuietStep DEF Ended, vars, appVars, childVars, procVars
<1>3. CASE Messages
  <2>1. /\ pc = "dispatch" /\ pc' = "loader"
        /\ UNCHANGED <<appVars, childVars, forked, procVars, told>>
    BY <1>1, <1>3, RequestStep
       DEF Messages, DispatchNothing, ClientAppears, ClientDisappears, Dispatch
  <2> QED
    BY <1>1, <2>1, QuietStep DEF appVars, childVars, procVars
<1>4. CASE \/ QueueRan \/ NothingLearned \/ AutorunEnds \/ JackStarted \/ JackStopped
  <2>1. /\ pc # "forked" /\ pc' # "forked"
        /\ UNCHANGED <<appVars, childVars, forked, procVars, told>>
    BY <1>4 DEF QueueRan, NothingLearned, AutorunEnds, AutorunOver, JackStarted, JackStopped
  <2> QED
    BY <1>1, <2>1, QuietStep DEF appVars, childVars, procVars
<1> QED
  BY <1>1, <1>2, <1>3, <1>4, ProcessStep, BuryStep, ForkedStep, AutorunStep,
     AppCommandStep, StudioCommandStep DEF Next, Daemon

\* The inductive invariant holds in every state.
THEOREM Invariant == Spec => []IInv
BY InitInv, InvStep, PTL DEF Spec

\* AppSupervisor is type correct: what is marked on an app or on a child is
\* marked on one in the list, whenever SIGCHLD comes.
THEOREM TypeCorrect == Spec => []TypeOK
<1>1. IInv => TypeOK
  BY DEF IInv, AppInv, AppTypes, OtherTypes, TypeOK
<1> QED
  BY <1>1, Invariant, PTL

\* The running apps are the children of the loader, one to one, and every
\* process is one of them: no app is forgotten while its process is there.
THEOREM AppsAreChildren == Spec => []ChildrenHaveApps
<1>1. ASSUME IInv PROVE ChildrenHaveApps
  <2>1. RunningPids = watched
    <3>1. RunningPids \subseteq watched
      BY <1>1 DEF IInv, AppInv, Matched, RunningPids, Running
    <3>2. ASSUME NEW p \in watched PROVE p \in RunningPids
      <4>1. PICK a \in listed : pid[a] = p
        BY <1>1, <3>2 DEF IInv, AppInv, Matched
      <4>2. p # 0
        BY <1>1, <3>2, AppAssumption DEF IInv, AppInv, AppTypes, Pids
      <4> QED
        BY <4>1, <4>2 DEF RunningPids, Running
    <3> QED
      BY <3>1, <3>2
  <2>2. \A a, b \in Running : pid[a] = pid[b] => a = b
    BY <1>1 DEF IInv, AppInv, Matched, Running
  <2> QED
    BY <1>1, <2>1, <2>2 DEF IInv, AppInv, Matched, ChildrenHaveApps
<1> QED
  BY <1>1, Invariant, PTL

\* The apps of an unloaded studio were told to terminate and are not buried.
THEOREM ZombiesDie == Spec => []ZombiesAreDying
<1>1. IInv => ZombiesAreDying
  BY DEF IInv, AppInv
<1> QED
  BY <1>1, Invariant, PTL

\* JACK is stopped by the daemon only after the last of its processes: when
\* the loader has no children there is no process, since the stop command is
\* never run between a fork and the assignment of the pid.
THEOREM ServerIsLast == Spec => ServerOutlivesApps
<1>1. ASSUME IInv, [Next]_vars
      PROVE  [pc = "cqueue" /\ started /\ ~started' => alive \cup exited = {}]_vars
  <2> SUFFICES ASSUME Next, pc = "cqueue", started, ~started'
               PROVE  alive \cup exited = {}
    BY <1>1
  <2>1. StudioStopped
    <3>1. \/ StudioStopped \/ started' = started
      BY <1>1, RequestStep
         DEF Next, Processes, ProcessExits, SigchldHandler, Messages, DispatchNothing,
             ClientAppears, ClientDisappears, Dispatch, IInv, Daemon, Bury, QueueRan,
             NothingLearned, Forked, AutorunEnds, AutorunNext, AutorunOver, Fork, Dies,
             AppCommands, NewApp, NewAppFails, StartApp, StartAppFails, AppNotFound,
             StopApp, StopAppAwaits, StopAppUnexpected, AppStopped, RemoveApp,
             StudioCommands, StopIgnored, StopInitiated, StopAwaitsClients,
             StopClientsGone, StopAwaitsChildren, StartIgnored, StartFails, StartStudio,
             Unload, Load, LoadFails, AppUnchanged, JackStarted, JackStopped, Ended,
             studioVars, vars
    <3> QED
      BY <3>1
  <2>2. watched = {} /\ forked.pid = 0
    BY <1>1, <2>1 DEF StudioStopped, IInv, AppInv, AppTypes, NotForked
  <2>3. alive \subseteq Pids /\ exited \subseteq Pids /\ 0 \notin Pids
    BY <1>1 DEF IInv, AppInv, AppTypes, Pids
  <2> QED
    BY <1>1, <2>2, <2>3 DEF IInv, AppInv, Matched
<1> QED
  BY <1>1, Invariant, PTL DEF Spec, ServerOutlivesApps
-----------------------------------------------------------------------------
(***************************************************************************)
(* RemoveFindsStopped.  A "remove app" is queued right behind the "stop    *)
(* app" of the same app and is never parted from it; when it has become    *)
(* the head, the stop was done in the same run of the queue, and nothing   *)
(* but SIGCHLD comes between the two.                                      *)
(***************************************************************************)
InOrder(q) ==
  \A i \in 1..(Len(q) - 1) :
    q[i + 1].kind = "remove app" => q[i].kind = "stop app" /\ q[i].app = q[i + 1].app

Removes(q) == q # <<>> /\ Head(q).kind = "remove app"

Gone(a) == a \in listed => a \notin Running /\ Hidden(a)

Removal ==
  /\ InOrder(queue)
  /\ Removes(queue) => pc = "cqueue" /\ Gone(Head(queue).app)

\* the two places of neighbours in a queue
LEMMA Places ==
  /\ \A n \in Nat : \A i \in 1..(n - 1) : i \in 1..n /\ i + 1 \in 1..n
  /\ 1..(0 - 1) = {} /\ 1..(1 - 1) = {} /\ \A i \in 1..(2 - 1) : i = 1 /\ i + 1 = 2
  /\ \A i \in 1..(3 - 1) : (i = 1 /\ i + 1 = 2) \/ (i = 2 /\ i + 1 = 3)
OBVIOUS

\* queues that are too short to have two commands
LEMMA ShortInOrder ==
  ASSUME NEW q, Len(q) = 0 \/ Len(q) = 1
  PROVE  InOrder(q)
BY Places DEF InOrder

\* queues of two commands
LEMMA PairInOrder ==
  ASSUME NEW q, Len(q) = 2,
         q[2].kind = "remove app" => q[1].kind = "stop app" /\ q[1].app = q[2].app
  PROVE  InOrder(q)
<1>1. ASSUME NEW i \in 1..(2 - 1), q[i + 1].kind = "remove app"
      PROVE  q[i].kind = "stop app" /\ q[i].app = q[i + 1].app
  <2>1. i = 1 /\ i + 1 = 2
    BY Places
  <2> QED
    BY <1>1, <2>1
<1> QED
  BY <1>1 DEF InOrder

\* a command queued behind others, and behind two
LEMMA Appended ==
  ASSUME NEW q \in Seq(CommandRecord), NEW c \in CommandRecord
  PROVE  /\ Append(q, c) \in Seq(CommandRecord) /\ Len(Append(q, c)) = Len(q) + 1
         /\ \A i \in 1..Len(q) : Append(q, c)[i] = q[i]
         /\ Append(q, c)[Len(q) + 1] = c
BY AppendProperties

\* The three commands of a request to remove an app, spelled out.
LEMMA AppendedToPair ==
  ASSUME NEW q \in Seq(CommandRecord), NEW c \in CommandRecord, Len(q) = 2
  PROVE  /\ Append(q, c) \in Seq(CommandRecord) /\ Len(Append(q, c)) = 3
         /\ Append(q, c)[1] = q[1] /\ Append(q, c)[2] = q[2] /\ Append(q, c)[3] = c
<1>1. /\ Append(q, c) \in Seq(CommandRecord) /\ Len(Append(q, c)) = Len(q) + 1
      /\ \A i \in 1..Len(q) : Append(q, c)[i] = q[i]
      /\ Append(q, c)[Len(q) + 1] = c
  BY Appended, Zenon
<1>2. Len(q) + 1 = 3 /\ 1 \in 1..Len(q) /\ 2 \in 1..Len(q)
  OBVIOUS
<1> QED
  BY <1>1, <1>2

\* the first command of a queue
LEMMA HeadIsFirst ==
  ASSUME NEW q \in Seq(CommandRecord), q # <<>>
  PROVE  Head(q) = q[1] /\ Len(q) \in Nat \ {0}
OBVIOUS

\* the queue behind a command that is done
LEMMA OrderOfTail ==
  ASSUME NEW q \in Seq(CommandRecord), q # <<>>, InOrder(q)
  PROVE  /\ InOrder(Tail(q))
         /\ Removes(Tail(q)) =>
              Head(q).kind = "stop app" /\ Head(q).app = Head(Tail(q)).app
<1>1. /\ Tail(q) \in Seq(CommandRecord) /\ Len(Tail(q)) = Len(q) - 1
      /\ \A i \in 1..Len(Tail(q)) : Tail(q)[i] = q[i + 1]
  BY HeadTailProperties
<1>2. Head(q) = q[1] /\ Len(q) \in Nat \ {0}
  BY HeadIsFirst
<1>3. ASSUME NEW i \in 1..(Len(Tail(q)) - 1), Tail(q)[i + 1].kind = "remove app"
      PROVE  Tail(q)[i].kind = "stop app" /\ Tail(q)[i].app = Tail(q)[i + 1].app
  <2>1. /\ i \in 1..Len(Tail(q)) /\ i + 1 \in 1..Len(Tail(q)) /\ i + 1 \in 1..(Len(q) - 1)
    BY <1>1, <1>2
  <2>2. Tail(q)[i] = q[i + 1] /\ Tail(q)[i + 1] = q[(i + 1) + 1]
    BY <1>1, <2>1
  <2> QED
    BY <1>3, <2>1, <2>2 DEF InOrder
<1>4. ASSUME Removes(Tail(q))
      PROVE  Head(q).kind = "stop app" /\ Head(q).app = Head(Tail(q)).app
  <2>1. Head(Tail(q)) = Tail(q)[1] /\ Len(Tail(q)) \in Nat \ {0}
    BY <1>1, <1>4, HeadIsFirst DEF Removes
  <2>2. 1 \in 1..(Len(q) - 1) /\ Tail(q)[1] = q[1 + 1]
    BY <1>1, <1>2, <2>1
  <2>3. q[1 + 1].kind = "remove app"
    BY <1>4, <2>1, <2>2 DEF Removes
  <2>4. q[1].kind = "stop app" /\ q[1].app = q[1 + 1].app
    BY <2>2, <2>3 DEF InOrder
  <2> QED
    BY <1>2, <2>1, <2>2, <2>4
<1> QED
  BY <1>3, <1>4 DEF InOrder

\* the queue when its head goes on in another state
LEMMA OrderOfWaiting ==
  ASSUME NEW q \in Seq(CommandRecord), q # <<>>, InOrder(q), ~Removes(q),
         NEW h \in CommandRecord, h.kind = Head(q).kind, h.app = Head(q).app
  PROVE  InOrder(<<h>> \o Tail(q)) /\ ~Removes(<<h>> \o Tail(q))
<1> DEFINE r == <<h>> \o Tail(q)
<1>1. /\ Tail(q) \in Seq(CommandRecord) /\ Len(Tail(q)) = Len(q) - 1
      /\ \A i \in 1..Len(Tail(q)) : Tail(q)[i] = q[i + 1]
  BY HeadTailProperties
<1>2. Head(q) = q[1] /\ Len(q) \in Nat \ {0}
  BY HeadIsFirst
<1>3. <<h>> \in Seq(CommandRecord) /\ Len(<<h>>) = 1 /\ <<h>>[1] = h
  OBVIOUS
<1>4. /\ r \in Seq(CommandRecord) /\ Len(r) = 1 + Len(Tail(q))
      /\ \A i \in 1..(1 + Len(Tail(q))) :
           r[i] = IF i <= 1 THEN <<h>>[i] ELSE Tail(q)[i - 1]
  BY <1>1, <1>3, ConcatProperties
<1>5. r[1] = h /\ \A i \in 2..Len(q) : r[i] = q[i]
  BY <1>1, <1>2, <1>3, <1>4
<1> HIDE DEF r
<1>6. \A i \in 1..Len(q) : r[i].kind = q[i].kind /\ r[i].app = q[i].app
  BY <1>2, <1>5
<1>7. Len(r) = Len(q) /\ r # <<>> /\ Head(r) = h
  <2>1. Len(r) = Len(q) /\ Len(r) # 0
    BY <1>1, <1>2, <1>4
  <2>2. r # <<>>
    BY <2>1
  <2> QED
    BY <1>4, <1>5, <2>1, <2>2, HeadIsFirst
<1>8. InOrder(r)
  <2> SUFFICES ASSUME NEW i \in 1..(Len(q) - 1), r[i + 1].kind = "remove app"
               PROVE  r[i].kind = "stop app" /\ r[i].app = r[i + 1].app
    BY <1>7 DEF InOrder
  <2>1. i \in 1..Len(q) /\ i + 1 \in 1..Len(q)
    <3>1. Len(q) \in Nat
      BY <1>2
    <3> QED
      BY <3>1, Places
  <2>2. q[i + 1].kind = "remove app"
    BY <1>6, <2>1
  <2>3. q[i].kind = "stop app" /\ q[i].app = q[i + 1].app
    BY <2>2 DEF InOrder
  <2> QED
    BY <1>6, <2>1, <2>3
<1>9. ~Removes(r)
  BY <1>7 DEF Removes
<1> QED
  BY <1>8, <1>9 DEF r

\* the queue behind which a request queues its commands
LEMMA OrderOfAppended ==
  ASSUME NEW q \in Seq(CommandRecord), NEW c \in Seq(CommandRecord),
         InOrder(q), InOrder(c), c # <<>>, ~Removes(c), ~Removes(q)
  PROVE  InOrder(q \o c) /\ ~Removes(q \o c)
<1> DEFINE r == q \o c
<1>1. /\ r \in Seq(CommandRecord) /\ Len(r) = Len(q) + Len(c)
      /\ \A i \in 1..(Len(q) + Len(c)) :
           r[i] = IF i <= Len(q) THEN q[i] ELSE c[i - Len(q)]
  BY ConcatProperties
<1>2. Head(c) = c[1] /\ Len(c) \in Nat \ {0} /\ Len(q) \in Nat
  BY HeadIsFirst, LenProperties
<1> HIDE DEF r
<1>3. c[1].kind # "remove app"
  BY <1>2 DEF Removes
<1>4. ASSUME NEW i \in 1..(Len(r) - 1), r[i + 1].kind = "remove app"
      PROVE  r[i].kind = "stop app" /\ r[i].app = r[i + 1].app
  <2>1. CASE i < Len(q)
    <3>1. r[i] = q[i] /\ r[i + 1] = q[i + 1] /\ i \in 1..(Len(q) - 1)
      BY <1>1, <1>2, <2>1
    <3> QED
      BY <1>4, <3>1 DEF InOrder
  <2>2. CASE i = Len(q)
    <3>1. r[i + 1] = c[1]
      BY <1>1, <1>2, <2>2
    <3> QED
      BY <1>3, <1>4, <3>1
  <2>3. CASE i > Len(q)
    <3> DEFINE j == i - Len(q)
    <3>1. r[i] = c[j] /\ r[i + 1] = c[j + 1] /\ j \in 1..(Len(c) - 1)
      BY <1>1, <1>2, <2>3
    <3> QED
      BY <1>4, <3>1 DEF InOrder
  <2>4. i < Len(q) \/ i = Len(q) \/ i > Len(q)
    BY <1>1, <1>2
  <2> QED
    BY <2>1, <2>2, <2>3, <2>4
<1>5. InOrder(r)
  BY <1>4 DEF InOrder
<1>6. ~Removes(r)
  <2>1. r # <<>> /\ Head(r) = r[1]
    <3>1. Len(r) # 0
      BY <1>1, <1>2
    <3>2. r # <<>>
      BY <3>1
    <3> QED
      BY <1>1, <3>2, HeadIsFirst
  <2>2. CASE q = <<>>
    <3>1. Len(q) = 0
      BY <2>2
    <3>2. r[1] = c[1]
      BY <1>1, <1>2, <3>1
    <3> QED
      BY <1>3, <2>1, <3>2 DEF Removes
  <2>3. CASE q # <<>>
    <3>1. Head(q) = q[1] /\ Len(q) \in Nat \ {0}
      BY <2>3, HeadIsFirst
    <3>2. r[1] = q[1]
      BY <1>1, <1>2, <3>1
    <3> QED
      BY <2>1, <2>3, <3>1, <3>2 DEF Removes
  <2> QED
    BY <2>2, <2>3
<1> QED
  BY <1>5, <1>6 DEF r

\* nothing to be removed is at the head of what requests queue
LEMMA RequestsInOrder ==
  ASSUME OtherTypes, Requested, InOrder(queue), ~Removes(queue)
  PROVE  InOrder(queue') /\ ~Removes(queue')
<1>1. ASSUME NEW c \in Seq(CommandRecord), Request(c), InOrder(c), c # <<>>, ~Removes(c)
      PROVE  InOrder(queue') /\ ~Removes(queue')
  BY <1>1, OrderOfAppended DEF Request, OtherTypes
<1>2. ASSUME NEW c \in CommandRecord, c.kind # "remove app", Request(<<c>>)
      PROVE  InOrder(queue') /\ ~Removes(queue')
  <2>1. /\ <<c>> \in Seq(CommandRecord) /\ <<c>> # <<>> /\ Head(<<c>>) = c
        /\ Len(<<c>>) = 1
    OBVIOUS
  <2>2. InOrder(<<c>>)
    BY <2>1, ShortInOrder
  <2>3. ~Removes(<<c>>)
    BY <1>2, <2>1 DEF Removes
  <2> QED
    BY <1>1, <1>2, <2>1, <2>2, <2>3
<1>3. ASSUME NEW c \in CommandRecord, NEW d \in CommandRecord, Request(<<c, d>>),
             c.kind # "remove app",
             d.kind = "remove app" => c.kind = "stop app" /\ c.app = d.app
      PROVE  InOrder(queue') /\ ~Removes(queue')
  <2>1. /\ <<c, d>> \in Seq(CommandRecord) /\ <<c, d>> # <<>> /\ Head(<<c, d>>) = c
        /\ Len(<<c, d>>) = 2 /\ <<c, d>>[1] = c /\ <<c, d>>[2] = d
    OBVIOUS
  <2>2. InOrder(<<c, d>>)
    BY <1>3, <2>1, PairInOrder
  <2> QED
    BY <1>1, <1>3, <2>1, <2>2 DEF Removes
<1>4. ASSUME NEW c \in CommandRecord, c.kind # "remove app", Request(Append(Unloading, c))
      PROVE  InOrder(queue') /\ ~Removes(queue')
  <2> DEFINE l == Append(Unloading, c)
  <2>1. Cmd("stop", 0) \in CommandRecord /\ Cmd("unload", 0) \in CommandRecord
    BY RequestsAreCommands DEF Kinds
  <2>2. Cmd("stop", 0).kind = "stop" /\ Cmd("unload", 0).kind = "unload"
    BY DEF Cmd
  <2>3. /\ Unloading \in Seq(CommandRecord) /\ Len(Unloading) = 2
        /\ Unloading[1] = Cmd("stop", 0) /\ Unloading[2] = Cmd("unload", 0)
    BY <2>1 DEF Unloading
  <2>4. /\ l \in Seq(CommandRecord) /\ Len(l) = 3
        /\ l[1] = Cmd("stop", 0) /\ l[2] = Cmd("unload", 0) /\ l[3] = c
    <3>1. c \in CommandRecord /\ Unloading \in Seq(CommandRecord)
      BY <1>4, <2>3
    <3> QED
      BY <2>3, <3>1, AppendedToPair
  <2> HIDE DEF l
  <2>5. InOrder(l)
    <3> SUFFICES ASSUME NEW i \in 1..(Len(l) - 1) PROVE l[i + 1].kind # "remove app"
      BY DEF InOrder
    <3>1. (i = 1 /\ i + 1 = 2) \/ (i = 2 /\ i + 1 = 3)
      BY <2>4, Places
    <3> QED
      BY <1>4, <2>2, <2>4, <3>1
  <2>6. l # <<>> /\ ~Removes(l)
    <3>1. Len(l) # 0
      BY <2>4
    <3>2. l # <<>>
      BY <3>1
    <3> QED
      BY <2>2, <2>4, <3>2, HeadIsFirst DEF Removes
  <2> QED
    BY <1>1, <1>4, <2>4, <2>5, <2>6 DEF l
<1>5. \A k \in Kinds, a \in Ids \cup {0} :
        Cmd(k, a) \in CommandRecord /\ Cmd(k, a).kind = k /\ Cmd(k, a).app = a
  BY RequestsAreCommands DEF Cmd
<1>6. CASE RequestNewApp \/ RequestStart \/ RequestStop
  BY <1>2, <1>5, <1>6 DEF RequestNewApp, RequestStart, RequestStop, Kinds
<1>7. CASE RequestUnload
  <2>1. /\ Cmd("stop", 0) \in CommandRecord /\ Cmd("unload", 0) \in CommandRecord
        /\ Cmd("stop", 0).kind = "stop" /\ Cmd("unload", 0).kind = "unload"
    BY <1>5 DEF Kinds
  <2>2. Request(<<Cmd("stop", 0), Cmd("unload", 0)>>)
    BY <1>7 DEF RequestUnload, Unloading
  <2> QED
    BY <1>3, <2>1, <2>2
<1>8. CASE RequestLoad
  BY <1>4, <1>5, <1>8 DEF RequestLoad, Kinds
<1>9. ASSUME NEW a \in Ids, RequestStartApp(a) \/ RequestStopApp(a)
      PROVE  InOrder(queue') /\ ~Removes(queue')
  BY <1>2, <1>5, <1>9 DEF RequestStartApp, RequestStopApp, Kinds
<1>10. ASSUME NEW a \in Ids, RequestRemoveApp(a)
       PROVE  InOrder(queue') /\ ~Removes(queue')
  <2>1. /\ Cmd("stop app", a) \in CommandRecord /\ Cmd("remove app", a) \in CommandRecord
        /\ Cmd("stop app", a).kind = "stop app" /\ Cmd("stop app", a).app = a
        /\ Cmd("remove app", a).app = a
    BY <1>5 DEF Kinds
  <2>2. Request(<<Cmd("stop app", a), Cmd("remove app", a)>>)
    BY <1>10 DEF RequestRemoveApp
  <2> QED
    BY <1>3, <2>1, <2>2
<1> QED
  BY <1>6, <1>7, <1>8, <1>9, <1>10 DEF Requested

\* The queue is as it was, behind or without its head, or its head goes on: no
\* "remove app" comes to the head but behind its stop.
LEMMA NothingToRemove ==
  ASSUME OtherTypes, InOrder(queue), ~Removes(queue),
         \/ queue' \in {queue, <<>>}
         \/ queue # <<>> /\ Head(queue).kind # "stop app" /\ queue' = Tail(queue)
         \/ queue # <<>> /\ \E s \in {"WAITING", "children"} : As(s)
  PROVE  InOrder(queue') /\ ~Removes(queue')
<1>1. CASE queue' = queue
  BY <1>1
<1>2. CASE queue' = <<>>
  <2>1. Len(<<>>) = 0
    OBVIOUS
  <2>2. InOrder(<<>>)
    BY <2>1, ShortInOrder
  <2> QED
    BY <1>2, <2>2 DEF Removes
<1>3. CASE queue # <<>> /\ Head(queue).kind # "stop app" /\ queue' = Tail(queue)
  BY <1>3, OrderOfTail DEF OtherTypes
<1>4. ASSUME queue # <<>>, NEW s \in {"WAITING", "children"}, As(s)
      PROVE  InOrder(queue') /\ ~Removes(queue')
  <2>1. Head(queue) \in CommandRecord
    <3>1. queue \in Seq(CommandRecord)
      BY DEF OtherTypes
    <3> QED
      BY <1>4, <3>1, HeadTailProperties
  <2>2. /\ [Head(queue) EXCEPT !.state = s] \in CommandRecord
        /\ [Head(queue) EXCEPT !.state = s].kind = Head(queue).kind
        /\ [Head(queue) EXCEPT !.state = s].app = Head(queue).app
    BY <2>1 DEF CommandRecord
  <2> QED
    BY <1>4, <2>2, OrderOfWaiting DEF As, OtherTypes
<1> QED
  BY <1>1, <1>2, <1>3, <1>4

\* A command that is done, or that goes on, while another than "stop app" or
\* "remove app" is at the head, and the steps that do not run commands.
LEMMA OtherCommandsStep ==
  ASSUME IInv, Removal, Daemon \/ JackStarted, ~Removes(queue), ~AppStopped
  PROVE  InOrder(queue') /\ ~Removes(queue')
<1>1. OtherTypes /\ InOrder(queue)
  BY DEF IInv, Removal
<1>2. \/ queue' \in {queue, <<>>}
      \/ queue # <<>> /\ Head(queue).kind # "stop app" /\ queue' = Tail(queue)
      \/ queue # <<>> /\ \E s \in {"WAITING", "children"} : As(s)
  <2>1. CASE AppCommands
    BY <2>1 DEF AppCommands, NewApp, NewAppFails, StartApp, StartAppFails, AppNotFound,
                StopApp, StopAppAwaits, StopAppUnexpected, AppStopped, RemoveApp,
                Pending, Awaiting, Fork, Done, Fail, Wait, StillWait, Dies
  <2>2. CASE StudioCommands
    BY <2>2 DEF StudioCommands, StopIgnored, StopInitiated, StopAwaitsClients,
                StopClientsGone, StopAwaitsChildren, StudioStopped, StartIgnored,
                StartFails, StartStudio, Unload, Load, LoadFails, Pending, Awaiting,
                Done, Fail, StillWait, FallThrough
  <2>3. CASE Forked
    BY <2>3 DEF Forked, IInv, Callers
  <2>4. CASE AutorunEnds
    BY <2>4 DEF AutorunEnds, AutorunOver, IInv, Callers
  <2>5. ASSUME NEW a \in Ids, AutorunNext(a)
        PROVE  \/ queue' = queue
               \/ queue # <<>> /\ Head(queue).kind # "stop app" /\ queue' = Tail(queue)
    <3>1. caller = "start" => queue # <<>> /\ Head(queue).kind = "start"
      BY <2>5 DEF AutorunNext, IInv, Callers
    <3>2. queue' = queue \/ (caller = "start" /\ queue' = Tail(queue))
      BY <2>5 DEF AutorunNext, AutorunOver, Dies
    <3> QED
      BY <3>1, <3>2
  <2>6. CASE Bury \/ QueueRan \/ NothingLearned \/ JackStarted
    BY <2>6 DEF Bury, QueueRan, NothingLearned, JackStarted
  <2> QED
    BY <2>1, <2>2, <2>3, <2>4, <2>5, <2>6 DEF Daemon
<1> QED
  BY <1>1, <1>2, NothingToRemove

\* Every step keeps a "remove app" behind its stop until the stop is done.
LEMMA RemovalStep ==
  ASSUME IInv, Removal, [Next]_vars
  PROVE  Removal'
<1>1. OtherTypes /\ InOrder(queue) /\ queue \in Seq(CommandRecord)
  BY DEF IInv, OtherTypes, Removal
<1>2. CASE UNCHANGED vars \/ Ended \/ Processes
  <2>1. UNCHANGED <<listed, pid, tracked, stale, queue, pc>>
    BY <1>2 DEF Ended, vars, appVars, graphVars, Processes, ProcessExits, SigchldHandler
  <2> QED
    BY <2>1 DEF Removal, Removes, InOrder, Gone, Running, Hidden
<1>3. CASE Messages
  <2>1. pc = "dispatch"
    BY <1>1, <1>3, RequestStep
       DEF Messages, DispatchNothing, ClientAppears, ClientDisappears, Dispatch
  <2>2. ~Removes(queue)
    BY <2>1 DEF Removal
  <2>3. CASE Requested
    BY <1>1, <2>2, <2>3, RequestsInOrder DEF Removal
  <2>4. CASE ~Requested
    <3>1. queue' = queue
      BY <1>3, <2>4 DEF Messages, DispatchNothing, ClientAppears, ClientDisappears
    <3> QED
      BY <1>1, <2>2, <3>1 DEF Removal, Removes, InOrder
  <2> QED
    BY <2>3, <2>4
<1>4. CASE JackStopped
  <2>1. queue' = <<>> \/ queue' = Unloading
    BY <1>4 DEF JackStopped
  <2>2. CASE queue' = <<>>
    <3>1. Len(<<>>) = 0
      OBVIOUS
    <3>2. InOrder(<<>>)
      BY <3>1, ShortInOrder
    <3> QED
      BY <2>2, <3>2 DEF Removal, Removes
  <2>3. CASE queue' = Unloading
    <3>1. Cmd("stop", 0).kind = "stop" /\ Cmd("unload", 0).kind = "unload"
      BY DEF Cmd
    <3>2. /\ Len(Unloading) = 2 /\ Head(Unloading) = Cmd("stop", 0)
          /\ Unloading[2] = Cmd("unload", 0)
      BY DEF Unloading
    <3>3. InOrder(Unloading) /\ ~Removes(Unloading)
      BY <3>1, <3>2, PairInOrder DEF Removes
    <3> QED
      BY <2>3, <3>3 DEF Removal
  <2> QED
    BY <2>1, <2>2, <2>3
<1>5. CASE AppStopped
  <2>1. /\ queue # <<>> /\ queue' = Tail(queue) /\ pc' = "cqueue"
        /\ Gone(Head(queue).app)
        /\ UNCHANGED <<listed, pid, tracked, stale>>
    BY <1>5 DEF AppStopped, Pending, Awaiting, Done, Gone, AppUnchanged, appVars, graphVars
  <2>2. /\ InOrder(queue')
        /\ Removes(queue') => Head(queue).app = Head(queue').app
    BY <1>1, <2>1, OrderOfTail
  <2> QED
    BY <2>1, <2>2 DEF Removal, Gone, Running, Hidden
<1>6. CASE (Daemon \/ JackStarted) /\ ~Removes(queue) /\ ~AppStopped
  BY <1>6, OtherCommandsStep DEF Removal
<1>7. CASE (Daemon \/ JackStarted) /\ Removes(queue) /\ ~AppStopped
  <2>1. pc = "cqueue" /\ queue # <<>> /\ Head(queue).kind = "remove app"
    BY <1>7 DEF Removal, Removes
  <2>2. RemoveApp \/ AppNotFound
    BY <1>7, <2>1
       DEF Daemon, Bury, QueueRan, NothingLearned, Forked, AutorunEnds, AutorunNext,
           AppCommands, NewApp, NewAppFails, StartApp, StartAppFails, StopApp,
           StopAppAwaits, StopAppUnexpected, StudioCommands, StopIgnored, StopInitiated,
           StopAwaitsClients, StopClientsGone, StopAwaitsChildren, StudioStopped,
           StartIgnored, StartFails, StartStudio, Unload, Load, LoadFails, Pending,
           Awaiting, JackStarted
  <2>3. queue' = Tail(queue) \/ queue' = <<>>
    BY <2>2 DEF RemoveApp, AppNotFound, Done, Fail
  <2>4. CASE queue' = Tail(queue)
    <3>1. InOrder(queue') /\ ~Removes(queue')
      BY <1>1, <2>1, <2>4, OrderOfTail
    <3> QED
      BY <3>1 DEF Removal
  <2>5. CASE queue' = <<>>
    <3>1. Len(<<>>) = 0
      OBVIOUS
    <3>2. InOrder(<<>>)
      BY <3>1, ShortInOrder
    <3> QED
      BY <2>5, <3>2 DEF Removal, Removes
  <2> QED
    BY <2>3, <2>4, <2>5
<1> QED
  BY <1>2, <1>3, <1>4, <1>5, <1>6, <1>7 DEF Next

\* The command that removes an app finds it stopped and its client hidden, or
\* does not find it: the stop it was queued with was done right before.
THEOREM RemovedAppIsStopped == Spec => []RemoveFindsStopped
<1>1. Init => Removal
  <2>1. Len(<<>>) = 0
    OBVIOUS
  <2>2. InOrder(<<>>)
    BY <2>1, ShortInOrder
  <2> QED
    BY <2>2 DEF Init, Removal, Removes
<1>2. IInv /\ Removal /\ [Next]_vars => Removal'
  BY RemovalStep
<1>3. Removal => RemoveFindsStopped
  BY DEF Removal, Removes, RemoveFindsStopped, Pending, Gone
<1> QED
  BY <1>1, <1>2, <1>3, Invariant, PTL DEF Spec
=============================================================================
