------------------------ MODULE StudioLifecycleProofs ------------------------
(***************************************************************************)
(* Proofs about StudioLifecycle, for any rooms, faults and bounds.         *)
(***************************************************************************)
EXTENDS StudioLifecycle, SequenceTheorems, TLAPS

\* the head of the queue is a command, and stays one when its state changes
LEMMA HeadIsCommand ==
  ASSUME queue \in Seq(CommandRecord), queue # <<>>
  PROVE  /\ Head(queue) \in CommandRecord
         /\ Tail(queue) \in Seq(CommandRecord)
OBVIOUS

\* a command that waits, or reaches another stage of stopping, is a command
LEMMA CommandGoesOn ==
  ASSUME NEW c \in CommandRecord, NEW s \in StopStage
  PROVE  /\ [c EXCEPT !.state = "WAITING"] \in CommandRecord
         /\ [c EXCEPT !.stage = s] \in CommandRecord
         /\ [c EXCEPT !.state = "WAITING", !.stage = s] \in CommandRecord
         /\ [c EXCEPT !.stage = s, !.deadline = TRUE] \in CommandRecord
BY DEF CommandRecord

\* the queue a command leaves
LEMMA QueueGoesOn ==
  ASSUME queue \in Seq(CommandRecord), queue # <<>>,
         NEW c \in CommandRecord
  PROVE  <<c>> \o Tail(queue) \in Seq(CommandRecord)
BY HeadIsCommand

\* requests queue commands
LEMMA RequestsAreCommands ==
  /\ \A k \in Kinds \ {"create room", "delete room"} : Plain(k) \in CommandRecord
  /\ \A k \in Kinds : \A r \in Rooms : Cmd(k, r) \in CommandRecord
BY DEF Plain, Cmd, CommandRecord, StopStage

\* the commands queued in front of exit, new studio and load studio
LEMMA UnloadingTypes == Unloading \in Seq(CommandRecord)
<1>1. Plain("stop") \in CommandRecord /\ Plain("unload") \in CommandRecord
  BY RequestsAreCommands DEF Kinds
<1> QED
  BY <1>1 DEF Unloading

\* the head of the queue may be replaced by any later state of itself
LEMMA StopHeadGoesOn ==
  ASSUME queue \in Seq(CommandRecord), queue # <<>>, NEW s \in StopStage
  PROVE  /\ <<[Head(queue) EXCEPT !.state = "WAITING"]>> \o Tail(queue) \in Seq(CommandRecord)
         /\ <<[Head(queue) EXCEPT !.stage = s]>> \o Tail(queue) \in Seq(CommandRecord)
         /\ <<[Head(queue) EXCEPT !.state = "WAITING", !.stage = s]>> \o Tail(queue) \in Seq(CommandRecord)
         /\ <<[Head(queue) EXCEPT !.stage = s, !.deadline = TRUE]>> \o Tail(queue) \in Seq(CommandRecord)
<1>1. Head(queue) \in CommandRecord
  BY HeadIsCommand
<1> DEFINE c == Head(queue)
<1>2. /\ [c EXCEPT !.state = "WAITING"] \in CommandRecord
      /\ [c EXCEPT !.stage = s] \in CommandRecord
      /\ [c EXCEPT !.state = "WAITING", !.stage = s] \in CommandRecord
      /\ [c EXCEPT !.stage = s, !.deadline = TRUE] \in CommandRecord
  BY <1>1, CommandGoesOn
<1> QED
  BY <1>2, QueueGoesOn

-----------------------------------------------------------------------------
(***************************************************************************)
(* Type correctness, one step per action.                                  *)
(***************************************************************************)
USE DEF vars, jackVars, studioVars, graphVars, roomVars, childVars, loopVars,
        Unbounded, Returned, Uncalled

\* how a command leaves the queue
LEMMA QueueTypes ==
  ASSUME TypeOK, queue # <<>>, Done \/ Fail \/ Wait
  PROVE  queue' \in Seq(CommandRecord)
<1>1. CASE Done
  BY <1>1, HeadIsCommand DEF Done, TypeOK
<1>2. CASE Fail
  BY <1>2 DEF Fail
<1>3. CASE Wait
  BY <1>3, StopHeadGoesOn DEF Wait, WaitAs, TypeOK, StopStage
<1> QED
  BY <1>1, <1>2, <1>3

\* the environment store stays one
LEMMA EnvTypes ==
  ASSUME NEW e \in EnvStore, NEW b \in Bits
  PROVE  /\ EnvSet(e, b) \in EnvStore
         /\ EnvReset(e, b) \in EnvStore
         /\ EnvResetStealth(e, b) \in EnvStore
         /\ EnvConsume(e, b) \in EnvStore
BY DEF EnvStore, EnvSet, EnvReset, EnvResetStealth, EnvConsume

\* calls to jackdbus send signals
LEMMA InboxTypes ==
  ASSUME inbox \in Seq(Signals), NEW call \in {<<>>, <<"started">>, <<"stopped">>}
  PROVE  inbox \o Activated(call) \in Seq(Signals)
<1>1. /\ <<>> \in Seq(Signals)
      /\ <<"started">> \in Seq(Signals)
      /\ <<"stopped">> \in Seq(Signals)
      /\ <<"appeared">> \in Seq(Signals)
  BY DEF Signals
<1>2. call \in Seq(Signals)
  BY <1>1, Zenon
<1>3. Activated(call) \in Seq(Signals)
  BY <1>1, <1>2 DEF Activated
<1> QED
  BY <1>3

\* consuming a change, by stealth or not, leaves an environment store
LEMMA ConsumedTypes ==
  ASSUME TypeOK
  PROVE  /\ Consumed \in EnvStore
         /\ AllConsumed \in EnvStore
         /\ EnvResetStealth(AllConsumed, "started") \in EnvStore
<1>1. "started" \in Bits /\ "present" \in Bits
  BY DEF Bits
<1>2. Consumed \in EnvStore
  BY <1>1, EnvTypes DEF Consumed, TypeOK
<1>3. AllConsumed \in EnvStore
  BY <1>1, <1>2, EnvTypes DEF AllConsumed
<1> QED
  BY <1>1, <1>2, <1>3, EnvTypes

\* a call to jackdbus, made or failed, leaves it in one of its states
LEMMA CalledTypes ==
  ASSUME TypeOK, Called \/ Uncalled
  PROVE  jack' \in {"gone", "idle", "running"} /\ inbox' \in Seq(Signals)
<1>1. CASE Called
  BY <1>1, InboxTypes DEF Called, TypeOK
<1>2. CASE Uncalled
  BY <1>2 DEF TypeOK
<1> QED
  BY <1>1, <1>2

\* ladish_studio_on_event_jack_started
LEMMA JackStartedTypes ==
  ASSUME TypeOK, NEW S, JackStarted(S)
  PROVE  /\ jack' \in {"gone", "idle", "running"} /\ inbox' \in Seq(Signals)
         /\ proxy' \in BOOLEAN /\ virtualizer' \in BOOLEAN /\ told' \in BOOLEAN
         /\ children' \in 0..MaxChildren
<1>1. /\ proxy' \in BOOLEAN /\ virtualizer' \in BOOLEAN
      /\ jack' \in {"gone", "idle", "running"} /\ inbox' \in Seq(Signals)
  <2>1. proxy' \in BOOLEAN
    BY DEF JackStarted, SettingsUnread, GraphStarted, TypeOK
  <2>2. virtualizer' \in BOOLEAN
    BY DEF JackStarted, SettingsUnread, GraphStarted, TypeOK
  <2>3. Called \/ Uncalled
    BY DEF JackStarted, SettingsUnread, GraphStarted
  <2> QED
    BY <2>1, <2>2, <2>3, CalledTypes
<1>2. CASE Autorun
  <2>1. told' \in BOOLEAN
    BY <1>2 DEF Autorun
  <2>2. children \in 0..MaxChildren /\ MaxChildren \in Nat
    BY StudioAssumption DEF TypeOK
  <2>3. children' \in children..MaxChildren
    BY <1>2 DEF Autorun
  <2>4. children' \in 0..MaxChildren
    BY <2>2, <2>3
  <2> QED
    BY <1>1, <2>1, <2>4
<1>3. CASE UNCHANGED <<children, told>>
  BY <1>1, <1>3 DEF TypeOK
<1> QED
  BY <1>2, <1>3 DEF JackStarted, SettingsUnread, GraphStarted

\* a daemon that died keeps its variables
LEMMA DyingTypes ==
  ASSUME TypeOK, NEW line, Dies(line)
  PROVE  TypeOK'
BY DEF Dies, TypeOK

\* the stop command
LEMMA StopTypes ==
  ASSUME TypeOK, StopStudio
  PROVE  TypeOK'
<1>1. CASE StopIgnored
  BY <1>1, QueueTypes
  DEF StopIgnored, Stopping, Pending, Waiting, TypeOK, Done, Fail, Wait,
      WaitAs
<1>2. CASE StopInitiated
  BY <1>2, StopHeadGoesOn
  DEF StopInitiated, Stopping, Pending, Waiting, TypeOK, FallThrough,
      StopStage
<1>3. CASE StopAwaitsRooms
  BY <1>3, QueueTypes
  DEF StopAwaitsRooms, Stopping, Pending, Waiting, TypeOK, Done, Fail, Wait,
      WaitAs
<1>4. CASE StopRoomsStopped
  BY <1>4, StopHeadGoesOn
  DEF StopRoomsStopped, Stopping, Pending, Waiting, TypeOK, FallThrough,
      StopStage
<1>5. CASE StopAwaitsClients
  BY <1>5, QueueTypes
  DEF StopAwaitsClients, Stopping, Pending, Waiting, TypeOK, Done, Fail, Wait,
      WaitAs
<1>6. CASE StopClientsGone
  BY <1>6, StopHeadGoesOn
  DEF StopClientsGone, Stopping, Pending, Waiting, TypeOK, FallThrough,
      StopStage
<1>7. CASE StopWithoutVirtualizer
  BY <1>7
  DEF StopWithoutVirtualizer, Stopping, Pending, Waiting, TypeOK, Dies
<1>8. CASE StopAwaitsChildren
  BY <1>8, QueueTypes
  DEF StopAwaitsChildren, Stopping, Pending, Waiting, TypeOK, Done, Fail,
      Wait, WaitAs
<1>9. CASE StopServer
  BY <1>9, StopHeadGoesOn, InboxTypes
  DEF StopServer, Stopping, Pending, Waiting, TypeOK, FallThrough, StopStage
<1>10. CASE StopServerFails
  BY <1>10, StopHeadGoesOn
  DEF StopServerFails, Stopping, Pending, Waiting, TypeOK, WaitAs, StopStage
<1>11. CASE StopPollStopped
  BY <1>11, QueueTypes, EnvTypes, CalledTypes
  DEF StopPollStopped, Stopping, Pending, Waiting, TypeOK, StopDone,
      GraphDown, Done, Bits
<1>12. CASE StopPollWaits
  BY <1>12, QueueTypes
  DEF StopPollWaits, Stopping, Pending, Waiting, TypeOK, Done, Fail, Wait,
      WaitAs
<1>13. CASE StopExpires
  BY <1>13, QueueTypes
  DEF StopExpires, Stopping, Pending, Waiting, TypeOK, Done, Fail, Wait,
      WaitAs
<1>14. CASE StopSignalled
  <2>1. CASE IsStarted
    BY <1>14, <2>1, DyingTypes DEF StopSignalled, Asserted
  <2>2. CASE ~IsStarted
    BY <1>14, <2>2, QueueTypes, EnvTypes
    DEF StopSignalled, Asserted, ServerStopped, Stopping, Waiting, TypeOK,
        StopDone, GraphDown, Done, Bits
  <2> QED
    BY <2>1, <2>2
<1>15. CASE StopAwaitsSignal
  <2>1. CASE IsStarted
    BY <1>15, <2>1, QueueTypes
    DEF StopAwaitsSignal, Asserted, GoOnWaiting, Stopping, Waiting, TypeOK,
        Wait, WaitAs
  <2>2. CASE ~IsStarted
    BY <1>15, <2>2, DyingTypes DEF StopAwaitsSignal, Asserted
  <2> QED
    BY <2>1, <2>2
<1> QED
  BY <1>1, <1>2, <1>3, <1>4, <1>5, <1>6, <1>7, <1>8, <1>9, <1>10, <1>11,
      <1>12, <1>13, <1>14, <1>15 DEF StopStudio

\* the start command
LEMMA StartTypes ==
  ASSUME TypeOK, StartStudio
  PROVE  TypeOK'
<1>1. CASE StartIgnored
  BY <1>1, QueueTypes
  DEF StartIgnored, Pending, Waiting, TypeOK, Done, Fail, Wait, WaitAs
<1>2. CASE StartRefused
  BY <1>2, QueueTypes
  DEF StartRefused, Pending, Waiting, TypeOK, Done, Fail, Wait, WaitAs
<1>3. CASE StartServer
  BY <1>3, StopHeadGoesOn, InboxTypes
  DEF StartServer, Pending, Waiting, TypeOK, FallThrough, StopStage
<1>4. CASE StartAwaitsSignal
  BY <1>4, QueueTypes
  DEF StartAwaitsSignal, Pending, Waiting, TypeOK, Done, Fail, Wait, WaitAs
<1>5. CASE StartExpires
  BY <1>5, QueueTypes
  DEF StartExpires, Pending, Waiting, TypeOK, Done, Fail, Wait, WaitAs
<1>6. CASE StartSignalled
  <2>1. PICK S \in Startable : JackStarted(S) /\ RoomsStarted(S)
    BY <1>6 DEF StartSignalled
  <2>2. started' \subseteq rooms' /\ busy' \subseteq rooms' /\ rooms' = rooms
    BY <2>1 DEF Startable, RoomsStarted, TypeOK
  <2>3. queue' \in Seq(CommandRecord) /\ env' \in EnvStore
    BY <1>6, QueueTypes, EnvTypes DEF StartSignalled, Waiting, TypeOK, Bits
  <2>4. UNCHANGED <<studioVars, clients, quit>>
    BY <1>6 DEF StartSignalled, Done
  <2> QED
    BY <2>1, <2>2, <2>3, <2>4, JackStartedTypes DEF TypeOK
<1>7. CASE StartAssertions
  BY <1>7
  DEF StartAssertions, Pending, Waiting, TypeOK, Dies
<1> QED
  BY <1>1, <1>2, <1>3, <1>4, <1>5, <1>6, <1>7 DEF StartStudio

\* the other commands
LEMMA CommandTypes ==
  ASSUME TypeOK, OtherCommands
  PROVE  TypeOK'
<1>1. CASE Unload
  BY <1>1, QueueTypes
  DEF Unload, Pending, Waiting, TypeOK, Cleared, Done, Fail, Wait, WaitAs
<1>2. CASE UnloadAssertion
  BY <1>2
  DEF UnloadAssertion, Pending, Waiting, TypeOK, Dies
<1>3. CASE NewStudio /\ ~name
  BY <1>3, QueueTypes
  DEF NewStudio, Asserted, Made, Pending, TypeOK, Done, Fail
<1>4. CASE NewStudio /\ name
  BY <1>4, DyingTypes DEF NewStudio, Asserted
<1>5. CASE LoadStudio
  BY <1>5, QueueTypes, CalledTypes
  DEF LoadStudio, Pending, Waiting, TypeOK, Done, Fail, Wait, WaitAs
<1>6. CASE LoadFails
  <2>1. jack' \in {"gone", "idle", "running"} /\ inbox' \in Seq(Signals)
    BY <1>6, CalledTypes DEF LoadFails
  <2>2. queue' \in Seq(CommandRecord)
    BY <1>6, QueueTypes DEF LoadFails, Pending
  <2>4. UNCHANGED <<env, graphVars, quit>>
    BY <1>6 DEF LoadFails, Fail
  <2>3. \/ name' = TRUE /\ UNCHANGED <<loaded, automatic, roomVars, childVars>>
        \/ UNCHANGED <<studioVars, roomVars, childVars>>
        \/ Cleared
    BY <1>6 DEF LoadFails
  <2> QED
    BY <2>1, <2>2, <2>3, <2>4 DEF TypeOK, Cleared
<1>7. CASE CreateRoom
  BY <1>7, QueueTypes, HeadIsCommand
  DEF CreateRoom, Pending, Waiting, TypeOK, Done, Fail, Wait, WaitAs,
      CommandRecord
<1>8. CASE CreateRoomFails
  BY <1>8, QueueTypes
  DEF CreateRoomFails, Pending, Waiting, TypeOK, Done, Fail, Wait, WaitAs
<1>9. CASE DeleteRoomInitiated
  BY <1>9, QueueTypes
  DEF DeleteRoomInitiated, Pending, Waiting, TypeOK, Done, Fail, Wait, WaitAs
<1>10. CASE DeleteRoomAwaits
  BY <1>10, QueueTypes
  DEF DeleteRoomAwaits, Pending, Waiting, TypeOK, Done, Fail, Wait, WaitAs
<1>11. CASE RoomDeleted
  BY <1>11, QueueTypes
  DEF RoomDeleted, Pending, Waiting, TypeOK, Done, Fail, Wait, WaitAs
<1>12. CASE DeleteRoomUnknown
  BY <1>12, QueueTypes
  DEF DeleteRoomUnknown, Pending, Waiting, TypeOK, Done, Fail, Wait, WaitAs
<1>13. CASE NewApp
  <2>1. queue' \in Seq(CommandRecord)
    BY <1>13, QueueTypes DEF NewApp, Pending
  <2>2. UNCHANGED <<jack, inbox, env, studioVars, graphVars, rooms, started, clients, quit>>
    BY <1>13 DEF NewApp, Done
  <2>3. children \in 0..MaxChildren /\ MaxChildren \in Nat
    BY StudioAssumption DEF TypeOK
  <2>4. \/ children' = children
        \/ children < MaxChildren /\ children' = children + 1
    BY <1>13 DEF NewApp
  <2>5. children' \in 0..MaxChildren
    BY <2>3, <2>4
  <2>6. told' \in BOOLEAN /\ busy' \subseteq rooms
    BY <1>13 DEF NewApp, TypeOK
  <2> QED
    BY <2>1, <2>2, <2>5, <2>6 DEF TypeOK
<1>14. CASE NewAppFails
  BY <1>14, QueueTypes
  DEF NewAppFails, Pending, Waiting, TypeOK, Done, Fail, Wait, WaitAs
<1>15. CASE Exit
  BY <1>15
  DEF Exit, Pending, Waiting, TypeOK
<1> QED
  BY <1>1, <1>2, <1>3, <1>4, <1>5, <1>6, <1>7, <1>8, <1>9, <1>10, <1>11,
      <1>12, <1>13, <1>14, <1>15 DEF OtherCommands

\* what the daemon learned
LEMMA EventTypes ==
  ASSUME TypeOK, Events
  PROVE  TypeOK'
<1>1. CASE NothingLearned
  BY <1>1, ConsumedTypes
  DEF NothingLearned, TypeOK, Event
<1>2. CASE JackLost
  <2>1. queue' \in Seq(CommandRecord)
    BY <1>2 DEF JackLost
  <2>2. env' \in EnvStore
    BY <1>2, ConsumedTypes DEF JackLost
  <2>3. proxy' \in BOOLEAN /\ virtualizer' \in BOOLEAN /\ clients' \in BOOLEAN
    BY <1>2 DEF JackLost, GraphDown
  <2>4. UNCHANGED <<jack, inbox, roomVars, quit>>
    BY <1>2 DEF JackLost, Event
  <2>5. name' \in BOOLEAN /\ loaded' \in BOOLEAN /\ automatic' \in BOOLEAN
    BY <1>2 DEF JackLost, TypeOK
  <2>6. children' \in 0..MaxChildren /\ told' \in BOOLEAN
    BY <1>2 DEF JackLost, TypeOK
  <2> QED
    BY <2>1, <2>2, <2>3, <2>4, <2>5, <2>6 DEF TypeOK
<1>3. CASE AlreadyKnown
  BY <1>3, ConsumedTypes
  DEF AlreadyKnown, TypeOK, Event
<1>4. CASE AutomaticStudio
  <2>1. queue' \in Seq(CommandRecord)
    BY <1>4 DEF AutomaticStudio
  <2>2. env' \in EnvStore
    BY <1>4, ConsumedTypes DEF AutomaticStudio
  <2>3. proxy' \in BOOLEAN /\ virtualizer' \in BOOLEAN /\ clients' \in BOOLEAN
    BY <1>4, JackStartedTypes DEF AutomaticStudio, TypeOK
  <2>4. UNCHANGED <<roomVars, quit>>
    BY <1>4 DEF AutomaticStudio, Event
  <2>5. name' \in BOOLEAN /\ loaded' \in BOOLEAN /\ automatic' \in BOOLEAN
    BY <1>4 DEF AutomaticStudio, TypeOK
  <2>6. /\ children' \in 0..MaxChildren /\ told' \in BOOLEAN
        /\ jack' \in {"gone", "idle", "running"} /\ inbox' \in Seq(Signals)
    BY <1>4, JackStartedTypes DEF AutomaticStudio, TypeOK
  <2> QED
    BY <2>1, <2>2, <2>3, <2>4, <2>5, <2>6 DEF TypeOK
<1>5. CASE AutomaticAssertion
  BY <1>5
  DEF AutomaticAssertion, TypeOK, Dies
<1>6. CASE StartedExternally
  BY <1>6, ConsumedTypes, JackStartedTypes
  DEF StartedExternally, TypeOK, Event
<1>7. CASE AutomaticStudioStopped
  <2>1. queue' \in Seq(CommandRecord)
    BY <1>7, UnloadingTypes DEF AutomaticStudioStopped
  <2>2. env' \in EnvStore
    BY <1>7, ConsumedTypes DEF AutomaticStudioStopped
  <2>3. proxy' \in BOOLEAN /\ virtualizer' \in BOOLEAN /\ clients' \in BOOLEAN
    BY <1>7 DEF AutomaticStudioStopped, GraphDown
  <2>4. UNCHANGED <<jack, inbox, roomVars, quit>>
    BY <1>7 DEF AutomaticStudioStopped, Event
  <2>5. name' \in BOOLEAN /\ loaded' \in BOOLEAN /\ automatic' \in BOOLEAN
    BY <1>7 DEF AutomaticStudioStopped, TypeOK
  <2>6. children' \in 0..MaxChildren /\ told' \in BOOLEAN
    BY <1>7 DEF AutomaticStudioStopped, TypeOK
  <2> QED
    BY <2>1, <2>2, <2>3, <2>4, <2>5, <2>6 DEF TypeOK
<1>8. CASE StoppedUnexpectedly
  <2>1. queue' \in Seq(CommandRecord)
    BY <1>8 DEF StoppedUnexpectedly
  <2>2. env' \in EnvStore
    BY <1>8, ConsumedTypes DEF StoppedUnexpectedly
  <2>3. proxy' \in BOOLEAN /\ virtualizer' \in BOOLEAN /\ clients' \in BOOLEAN
    BY <1>8 DEF StoppedUnexpectedly, GraphDown
  <2>4. UNCHANGED <<jack, inbox, roomVars, quit>>
    BY <1>8 DEF StoppedUnexpectedly, Event
  <2>5. name' \in BOOLEAN /\ loaded' \in BOOLEAN /\ automatic' \in BOOLEAN
    BY <1>8 DEF StoppedUnexpectedly, TypeOK
  <2>6. children' \in 0..MaxChildren /\ told' \in BOOLEAN
    BY <1>8 DEF StoppedUnexpectedly, TypeOK
  <2> QED
    BY <2>1, <2>2, <2>3, <2>4, <2>5, <2>6 DEF TypeOK
<1> QED
  BY <1>1, <1>2, <1>3, <1>4, <1>5, <1>6, <1>7, <1>8 DEF Events

\* jackdbus and the apps
LEMMA WorldTypes ==
  ASSUME TypeOK, Jackdbus \/ Apps
  PROVE  TypeOK'
<1>1. CASE Jackdbus
  <2>1. PICK to \in {"gone", "idle", "running"}, signal \in Signals,
             from \in SUBSET {"gone", "idle", "running"} : JackEvent(from, to, signal)
    BY <1>1 DEF Jackdbus, JackStarts, JackStops, JackCrashes, JackAppears, Signals
  <2>2. inbox' \in Seq(Signals)
    BY <2>1 DEF JackEvent, TypeOK
  <2> QED
    BY <2>1, <2>2 DEF JackEvent, TypeOK
<1>2. CASE ChildExits
  <2>1. children \in 0..MaxChildren /\ MaxChildren \in Nat
    BY StudioAssumption DEF TypeOK
  <2>2. children > 0 /\ children' = children - 1
    BY <1>2 DEF ChildExits
  <2>3. children' \in 0..MaxChildren
    BY <2>1, <2>2
  <2> QED
    BY <1>2, <2>3 DEF ChildExits, TypeOK
<1>3. CASE ClientsAppear
  BY <1>3 DEF ClientsAppear, TypeOK
<1>4. CASE ClientsDisappear
  BY <1>4 DEF ClientsDisappear, TypeOK
<1>5. CASE \E r \in Rooms : RoomEmpties(r)
  BY <1>5 DEF RoomEmpties, TypeOK
<1> QED
  BY <1>1, <1>2, <1>3, <1>4, <1>5 DEF Apps

\* a queue that commands are added to is a queue
LEMMA QueueGrows ==
  ASSUME NEW s \in Seq(CommandRecord), NEW c \in CommandRecord
  PROVE  Append(s, c) \in Seq(CommandRecord) /\ <<c>> \in Seq(CommandRecord)
OBVIOUS

\* requests queue commands and may clear the automatic flag
LEMMA RequestTypes ==
  ASSUME TypeOK, Requested
  PROVE  TypeOK'
<1>1. ASSUME NEW commands \in Seq(CommandRecord), Queued(commands), quit' \in BOOLEAN,
             name' = name, loaded' = loaded, automatic' \in BOOLEAN
      PROVE  TypeOK'
  <2>1. queue' \in Seq(CommandRecord)
    BY <1>1 DEF Queued, TypeOK
  <2> QED
    BY <1>1, <2>1 DEF Queued, TypeOK
<1> USE DEF Request
<1>2. \A k \in Kinds \ {"create room", "delete room"} :
        Append(Unloading, Plain(k)) \in Seq(CommandRecord)
  <2> SUFFICES ASSUME NEW k \in Kinds \ {"create room", "delete room"}
               PROVE  Append(Unloading, Plain(k)) \in Seq(CommandRecord)
    OBVIOUS
  <2>1. Plain(k) \in CommandRecord
    BY RequestsAreCommands
  <2> QED
    BY <2>1, UnloadingTypes, QueueGrows
<1>3. Plain("start") \in CommandRecord /\ Plain("load") \in CommandRecord
  BY RequestsAreCommands DEF Kinds
<1>4. Unloading \o <<Plain("load"), Plain("start")>> \in Seq(CommandRecord)
  BY <1>3, UnloadingTypes
<1>5. /\ \A k \in Kinds \ {"create room", "delete room"} :
           <<Plain(k)>> \in Seq(CommandRecord)
      /\ \A k \in Kinds : \A r \in Rooms : <<Cmd(k, r)>> \in Seq(CommandRecord)
  <2>1. ASSUME NEW k \in Kinds \ {"create room", "delete room"}
        PROVE  <<Plain(k)>> \in Seq(CommandRecord)
    <3>1. Plain(k) \in CommandRecord
      BY RequestsAreCommands
    <3> QED
      BY <3>1, QueueGrows, UnloadingTypes
  <2>2. ASSUME NEW k \in Kinds, NEW r \in Rooms
        PROVE  <<Cmd(k, r)>> \in Seq(CommandRecord)
    <3>1. Cmd(k, r) \in CommandRecord
      BY RequestsAreCommands
    <3> QED
      BY <3>1, QueueGrows, UnloadingTypes
  <2> QED
    BY <2>1, <2>2
<1>6. CASE RequestNew \/ RequestLoad \/ RequestExit
  <2>1. {"new", "load", "exit"} \subseteq Kinds \ {"create room", "delete room"}
    BY DEF Kinds
  <2>2. PICK k \in {"new", "load", "exit"} : Request(Append(Unloading, Plain(k)))
    BY <1>6 DEF RequestNew, RequestLoad, RequestExit
  <2>3. UNCHANGED studioVars
    BY <1>6 DEF RequestNew, RequestLoad, RequestExit
  <2> QED
    BY <1>1, <1>2, <2>1, <2>2, <2>3 DEF TypeOK
<1>7. CASE RequestLoadAutostart
  BY <1>1, <1>4, <1>7 DEF RequestLoadAutostart, TypeOK
<1>8. CASE RequestUnload
  BY <1>1, <1>8, UnloadingTypes DEF RequestUnload, TypeOK
<1>9. CASE RequestStart \/ RequestStop \/ RequestApp
  BY <1>1, <1>5, <1>9 DEF RequestStart, RequestStop, RequestApp, Kinds, TypeOK
<1>10. CASE \E r \in Rooms : RequestCreateRoom(r) \/ RequestDeleteRoom(r)
  BY <1>1, <1>5, <1>10 DEF RequestCreateRoom, RequestDeleteRoom, Kinds, TypeOK
<1>11. CASE RequestExitForced
  <2>1. PICK left \in {<<>>, <<Plain("stop")>>} : Queued(left)
    BY <1>11 DEF RequestExitForced
  <2>2. <<>> \in Seq(CommandRecord) /\ <<Plain("stop")>> \in Seq(CommandRecord)
    <3>1. "stop" \in Kinds \ {"create room", "delete room"}
      BY DEF Kinds
    <3>2. <<Plain("stop")>> \in Seq(CommandRecord)
      BY <1>5, <3>1
    <3>3. <<>> \in Seq(CommandRecord)
      OBVIOUS
    <3> QED
      BY <3>2, <3>3
  <2>3. left \in Seq(CommandRecord)
    BY <2>1, <2>2, Zenon
  <2> QED
    BY <1>1, <1>11, <2>1, <2>3 DEF RequestExitForced, TypeOK
<1> QED
  BY <1>6, <1>7, <1>8, <1>9, <1>10, <1>11 DEF Requested

\* signals of jackdbus and idle iterations of the main loop
LEMMA DispatchTypes ==
  ASSUME TypeOK, DispatchSignal \/ DispatchNothing \/ Terminate
  PROVE  TypeOK'
<1>1. CASE DispatchSignal
  <2>1. Head(inbox) \in Signals /\ Tail(inbox) \in Seq(Signals)
    BY <1>1 DEF DispatchSignal, TypeOK
  <2>2. env' \in EnvStore
    BY <1>1, <2>1, EnvTypes DEF DispatchSignal, Signals, Bits, TypeOK
  <2> QED
    BY <1>1, <2>1, <2>2 DEF DispatchSignal, TypeOK
<1>2. CASE DispatchNothing \/ Terminate
  BY <1>2 DEF DispatchNothing, Terminate, TypeOK
<1> QED
  BY <1>1, <1>2

\* the daemon starts with typed variables
LEMMA InitTypes == Init => TypeOK
<1> SUFFICES ASSUME Init PROVE TypeOK
  OBVIOUS
<1>1. /\ jack \in {"gone", "idle", "running"}
      /\ inbox \in {<<>>, <<"appeared">>}
      /\ queue = <<>>
      /\ rooms = {} /\ started = {} /\ busy = {}
  BY DEF Init
<1>2. PICK known \in SUBSET Bits : env = [state |-> known, changed |-> known]
  BY DEF Init, Bits
<1>3. /\ name \in BOOLEAN /\ loaded \in BOOLEAN /\ automatic \in BOOLEAN
      /\ proxy \in BOOLEAN /\ virtualizer \in BOOLEAN
      /\ clients \in BOOLEAN /\ told \in BOOLEAN /\ quit \in BOOLEAN
  BY DEF Init
<1>4. env \in EnvStore
  BY <1>2 DEF EnvStore
<1>5. <<>> \in Seq(Signals) /\ <<"appeared">> \in Seq(Signals)
  BY DEF Signals
<1>6. inbox \in Seq(Signals)
  BY <1>1, <1>5, Zenon
<1>7. children \in 0..MaxChildren
  <2>1. children = 0
    BY DEF Init
  <2>2. MaxChildren \in Nat
    BY StudioAssumption
  <2> QED
    BY <2>1, <2>2
<1>8. queue \in Seq(CommandRecord)
  BY <1>1
<1> QED
  BY <1>1, <1>3, <1>4, <1>6, <1>7, <1>8 DEF TypeOK

\* every step of the specification keeps the types
LEMMA NextTypes == TypeOK /\ [Next]_vars => TypeOK'
<1> SUFFICES ASSUME TypeOK, [Next]_vars PROVE TypeOK'
  OBVIOUS
<1>1. CASE UNCHANGED vars \/ Ended \/ QueueRan
  BY <1>1 DEF Ended, QueueRan, TypeOK
<1>2. CASE RunQueue
  BY <1>1, <1>2, StopTypes, StartTypes, CommandTypes DEF RunQueue
<1> QED
  BY <1>1, <1>2, WorldTypes, RequestTypes, DispatchTypes, EventTypes DEF Next

\* StudioLifecycle is type correct: the queue only holds commands the daemon
\* knows, and only rooms of the list are marked as started.
THEOREM TypeCorrect == Spec => []TypeOK
BY InitTypes, NextTypes, PTL DEF Spec

-----------------------------------------------------------------------------
(***************************************************************************)
(* The graph proxy follows the JACK server.  Between the dispatch of the   *)
(* signal that the server stopped and the end of the iteration the proxy   *)
(* is still there, and the change is not consumed: whoever consumes it     *)
(* takes the proxy down.                                                   *)
(***************************************************************************)
Unlearned ==
  /\ virtualizer => proxy
  /\ proxy /\ ~IsStarted => pc # "dispatch" /\ "started" \in env.changed

IInv == TypeOK /\ Unlearned

\* a step that does not look at the JACK server
LEMMA Aside ==
  ASSUME Unlearned, UNCHANGED <<env, proxy, virtualizer>>,
         pc' = pc \/ pc' # "dispatch"
  PROVE  Unlearned'
BY DEF Unlearned, IsStarted

\* a step that takes the graph down (ladish_studio_on_jack_stopped_internal)
LEMMA DownFollows ==
  ASSUME proxy' = FALSE, virtualizer' = FALSE
  PROVE  Unlearned'
BY DEF Unlearned

\* a step that puts the graph up while the server is known to run
LEMMA UpFollows ==
  ASSUME IInv, NEW S, JackStarted(S), IsStarted, "started" \in env'.state
  PROVE  Unlearned'
<1>1. IsStarted'
  BY DEF IsStarted
<1>2. virtualizer' => proxy'
  <2>1. CASE proxy' = TRUE
    BY <2>1
  <2>2. CASE UNCHANGED graphVars
    BY <2>2 DEF IInv, Unlearned
  <2> QED
    BY <2>1, <2>2 DEF JackStarted, SettingsUnread, GraphStarted
<1> QED
  BY <1>1, <1>2 DEF Unlearned

\* no way through the stop command loses track of the graph proxy
LEMMA StopFollows ==
  ASSUME IInv, StopStudio
  PROVE  Unlearned'
<1>1. CASE StopPollStopped \/ (StopSignalled /\ ~IsStarted)
  BY <1>1, DownFollows DEF StopPollStopped, StopSignalled, Asserted,
     ServerStopped, StopDone, GraphDown
<1>2. CASE StopIgnored \/ StopInitiated \/ StopRoomsStopped \/ StopClientsGone
           \/ StopServer
  BY <1>2, Aside DEF StopIgnored, StopInitiated, StopRoomsStopped,
     StopClientsGone, StopServer, Done, FallThrough, IInv
<1>3. CASE \/ StopAwaitsRooms \/ StopAwaitsClients \/ StopAwaitsChildren
           \/ StopServerFails \/ StopPollWaits \/ StopExpires
           \/ (StopAwaitsSignal /\ IsStarted)
  BY <1>3, Aside DEF StopAwaitsRooms, StopAwaitsClients, StopAwaitsChildren,
     StopServerFails, StopPollWaits, StopAwaitsSignal, Asserted, GoOnWaiting,
     StopExpires, Wait, WaitAs, Fail, IInv
<1>4. CASE \/ StopWithoutVirtualizer
           \/ StopAwaitsSignal /\ ~IsStarted
           \/ StopSignalled /\ IsStarted
  BY <1>4, Aside DEF StopWithoutVirtualizer, StopAwaitsSignal, StopSignalled,
     Asserted, Dies, IInv
<1> QED
  BY <1>1, <1>2, <1>3, <1>4 DEF StopStudio

\* no way through the start command does
LEMMA StartFollows ==
  ASSUME IInv, StartStudio
  PROVE  Unlearned'
<1>1. CASE StartSignalled
  <2>1. env'.state = env.state
    BY <1>1 DEF StartSignalled, EnvConsume, IInv, TypeOK, EnvStore
  <2> QED
    BY <1>1, <2>1, UpFollows DEF StartSignalled, IsStarted
<1>2. CASE StartIgnored \/ StartServer
  BY <1>2, Aside DEF StartIgnored, StartServer, Done, FallThrough, IInv
<1>3. CASE StartRefused \/ StartAwaitsSignal \/ StartExpires
  BY <1>3, Aside DEF StartRefused, StartAwaitsSignal, StartExpires, Wait,
     WaitAs, Fail, IInv
<1>4. CASE StartAssertions
  BY <1>4, Aside DEF StartAssertions, Dies, IInv
<1> QED
  BY <1>1, <1>2, <1>3, <1>4 DEF StartStudio

\* the other commands leave graph and server alone
LEMMA CommandFollows ==
  ASSUME IInv, OtherCommands
  PROVE  Unlearned'
<1>1. CASE UnloadAssertion \/ (NewStudio /\ name) \/ Exit
  BY <1>1, Aside DEF UnloadAssertion, NewStudio, Asserted, Exit, Dies, IInv
<1>2. CASE Unload \/ (NewStudio /\ ~name) \/ LoadStudio \/ LoadFails
  BY <1>2, Aside DEF Unload, NewStudio, Asserted, Made, LoadStudio, LoadFails,
     Done, Fail, IInv
<1>3. CASE \/ CreateRoom \/ CreateRoomFails \/ RoomDeleted
           \/ DeleteRoomInitiated \/ DeleteRoomAwaits \/ DeleteRoomUnknown
  BY <1>3, Aside DEF CreateRoom, CreateRoomFails, RoomDeleted,
     DeleteRoomInitiated, DeleteRoomAwaits, DeleteRoomUnknown, Done, Fail,
     Wait, WaitAs, IInv
<1>4. CASE NewApp \/ NewAppFails
  BY <1>4, Aside DEF NewApp, NewAppFails, Done, Fail, IInv
<1> QED
  BY <1>1, <1>2, <1>3, <1>4 DEF OtherCommands

\* every way through the second half of ladish_studio_run
LEMMA EventFollows ==
  ASSUME IInv, Events
  PROVE  Unlearned'
<1> USE DEF EnvStore
<1>1. /\ Consumed.state = env.state
      /\ AllConsumed.state = env.state
  BY DEF Consumed, AllConsumed, EnvConsume, IInv, TypeOK
<1>2. CASE JackLost \/ AutomaticStudioStopped \/ StoppedUnexpectedly
  BY <1>2, DownFollows DEF JackLost, AutomaticStudioStopped,
     StoppedUnexpectedly, GraphDown
<1>3. CASE AutomaticStudio \/ StartedExternally
  <2>1. JackStarted({}) /\ IsStarted /\ env' = AllConsumed
    BY <1>3 DEF AutomaticStudio, StartedExternally
  <2> QED
    BY <1>1, <2>1, UpFollows DEF IsStarted
<1>4. CASE NothingLearned
  <2>1. "started" \notin env.changed /\ env' = AllConsumed /\ UNCHANGED graphVars
    BY <1>4 DEF NothingLearned, Event
  <2>2. proxy => IsStarted
    BY <2>1 DEF IInv, Unlearned
  <2> QED
    BY <1>1, <2>1, <2>2 DEF IInv, Unlearned, IsStarted
<1>5. CASE AlreadyKnown /\ IsStarted
  <2>1. IsStarted /\ env' = AllConsumed /\ UNCHANGED graphVars
    BY <1>5 DEF AlreadyKnown
  <2> QED
    BY <1>1, <2>1 DEF IInv, Unlearned, IsStarted
<1>6. CASE AlreadyKnown /\ ~IsStarted
  BY <1>6 DEF AlreadyKnown, IInv, Unlearned
<1>7. CASE AutomaticAssertion
  BY <1>7, Aside DEF AutomaticAssertion, Dies, IInv
<1> QED
  BY <1>2, <1>3, <1>4, <1>5, <1>6, <1>7 DEF Events

\* a signal is dispatched: what it says of the server is not consumed yet
LEMMA SignalFollows ==
  ASSUME IInv, DispatchSignal
  PROVE  Unlearned'
<1>1. /\ pc' = "cqueue" /\ UNCHANGED graphVars
      /\ proxy => IsStarted
  BY DEF DispatchSignal, IInv, Unlearned
<1>2. Head(inbox) \in Signals
  BY DEF DispatchSignal, IInv, TypeOK
<1>3. "started" \in env'.state \/ "started" \in env'.changed \/ ~IsStarted
  <2>1. CASE Head(inbox) = "appeared"
    BY <2>1 DEF DispatchSignal, EnvSet, IsStarted
  <2>2. CASE Head(inbox) = "disappeared"
    BY <2>2 DEF DispatchSignal, EnvReset, IsStarted
  <2>3. CASE Head(inbox) = "started"
    BY <2>3 DEF DispatchSignal, EnvSet
  <2>4. CASE Head(inbox) = "stopped"
    BY <2>4 DEF DispatchSignal, EnvReset
  <2> QED
    BY <1>2, <2>1, <2>2, <2>3, <2>4 DEF Signals
<1> QED
  BY <1>1, <1>3 DEF IInv, Unlearned, IsStarted

\* every step keeps the second half of the inductive invariant
LEMMA NextFollows == IInv /\ [Next]_vars => Unlearned'
<1> SUFFICES ASSUME IInv, [Next]_vars PROVE Unlearned'
  OBVIOUS
<1>1. CASE UNCHANGED vars \/ Ended \/ QueueRan
  BY <1>1, Aside DEF Ended, QueueRan, IInv
<1>2. CASE Jackdbus
  BY <1>2, Aside DEF Jackdbus, JackStarts, JackStops, JackCrashes, JackAppears,
     JackEvent, IInv
<1>3. CASE Apps
  BY <1>3, Aside DEF Apps, ChildExits, ClientsAppear, ClientsDisappear,
     RoomEmpties, AppStep, IInv
<1>4. CASE DispatchNothing \/ Terminate
  BY <1>4, Aside DEF DispatchNothing, Terminate, IInv
<1>5. CASE Requested
  <2>1. PICK commands : Queued(commands)
    BY <1>5 DEF Requested, RequestNew, RequestLoad, RequestLoadAutostart,
       RequestExit, RequestExitForced, RequestUnload, RequestStart, RequestStop,
       RequestApp, RequestCreateRoom, RequestDeleteRoom, Request
  <2> QED
    BY <2>1, Aside DEF Queued, IInv
<1>6. CASE RunQueue
  BY <1>1, <1>6, StopFollows, StartFollows, CommandFollows DEF RunQueue
<1> QED
  BY <1>1, <1>2, <1>3, <1>4, <1>5, <1>6, SignalFollows, EventFollows DEF Next

\* IInv is an invariant: the main loop learns of every stop it is told of
LEMMA Invariance == Spec => []IInv
<1>1. Init => IInv
  <2>1. Init => Unlearned
    BY DEF Init, Unlearned
  <2> QED
    BY <2>1, InitTypes DEF IInv
<1>2. IInv /\ [Next]_vars => IInv'
  BY NextTypes, NextFollows DEF IInv
<1> QED
  BY <1>1, <1>2, PTL DEF Spec

\* Whatever the calls to jackdbus answer and in whatever order its signals
\* come in, the main loop is entered with a graph proxy only while the daemon
\* takes the JACK server to be running.
THEOREM ProxyFollows == Spec => []ProxyFollowsServer
<1>1. IInv => ProxyFollowsServer
  BY DEF IInv, Unlearned, ProxyFollowsServer
<1> QED
  BY <1>1, Invariance, PTL

-----------------------------------------------------------------------------
(***************************************************************************)
(* What the commands rely on while they wait.                              *)
(*                                                                         *)
(* The signals on their way lead, one after the other, to the state that   *)
(* jackdbus is in.                                                         *)
(***************************************************************************)
After(signal) ==
  CASE signal = "started" -> "running"
    [] signal = "stopped" -> "idle"
    [] signal = "appeared" -> "idle"
    [] signal = "disappeared" -> "gone"

Sendable(state) ==
  CASE state = "gone" -> {"appeared"}
    [] state = "idle" -> {"started", "disappeared"}
    [] state = "running" -> {"stopped", "disappeared"}

Leads(signals, state) ==
  /\ \A i \in 1 .. Len(signals) - 1 : signals[i + 1] \in Sendable(After(signals[i]))
  /\ signals # <<>> => After(signals[Len(signals)]) = state

\* what the next signal, if there is one on its way, does not say
NotIdle(signals, state) == IF signals = <<>> THEN state # "idle" ELSE Head(signals) # "started"
Runs(signals, state) ==
  IF signals = <<>> THEN state = "running" ELSE Head(signals) \in {"stopped", "disappeared"}

\* a change that was not consumed yet is the last one dispatched; the graph is
\* up only as long as no second start can be learned without something between
Heard ==
  /\ proxy /\ "started" \in env.changed => ~IsStarted
  /\ IsStarted /\ "started" \in env.changed => NotIdle(inbox, jack)
  /\ pc = "dispatch" /\ "started" \in env.changed => Runs(inbox, jack)
  /\ proxy /\ ~NotIdle(inbox, jack) =>
       pc # "dispatch" /\ ("present" \in env.changed \/ "started" \in env.changed)

\* only the command that runs waits; what it found is still true
HeadWaits(kind) == queue # <<>> /\ Head(queue).kind = kind /\ Head(queue).state = "WAITING"

Staged ==
  /\ \A i \in 2 .. Len(queue) : queue[i].state = "PENDING"
  /\ HeadWaits("stop") /\ Head(queue).stage \in {"clients", "children", "server"} => started = {}
  /\ HeadWaits("stop") /\ Head(queue).stage \in {"children", "server"} => proxy
  /\ HeadWaits("start") => "started" \in env.changed \/ ~IsStarted

\* the commands that are queued behind an unload command, and run right after it
Fresh == {"exit", "new", "load"}
ExitFollows ==
  \A i \in 1 .. Len(queue) :
    queue[i].kind \in Fresh =>
      IF i = 1 THEN pc = "cqueue" /\ ~loaded /\ ~name /\ rooms = {} ELSE queue[i - 1].kind = "unload"

USE DEF Fresh

WInv == Leads(inbox, jack) /\ Heard /\ Staged /\ ExitFollows /\ jackEvents \in Nat /\ NobodyElseConsumes

\* signals that are one after the other in a queue: what is read, what is sent
LEMMA SignalSent ==
  ASSUME NEW q \in Seq(Signals), NEW j \in {"gone", "idle", "running"}, Leads(q, j),
         NEW s \in Signals, s \in Sendable(j)
  PROVE  /\ Append(q, s) \in Seq(Signals) /\ Leads(Append(q, s), After(s))
         /\ NotIdle(q, j) => NotIdle(Append(q, s), After(s))
         /\ Runs(q, j) => Runs(Append(q, s), After(s))
<1> DEFINE r == Append(q, s)
           n == Len(q)
<1>1. /\ n \in Nat /\ Len(r) = n + 1 /\ r[n + 1] = s /\ r \in Seq(Signals)
      /\ \A i \in 1 .. n : r[i] = q[i]
      /\ q # <<>> => n > 0 /\ Head(r) = Head(q)
      /\ q = <<>> => n = 0 /\ Head(r) = s
      /\ r # <<>>
  OBVIOUS
<1>2. \A i \in 1 .. n - 1 : q[i + 1] \in Sendable(After(q[i]))
  BY DEF Leads
<1>3. n > 0 => After(q[n]) = j
  BY <1>1 DEF Leads
<1> HIDE DEF r, n
<1>4. Leads(r, After(s))
  <2>1. ASSUME NEW i \in 1 .. Len(r) - 1 PROVE r[i + 1] \in Sendable(After(r[i]))
    <3>1. CASE i < n
      <4>1. i \in 1 .. n - 1 /\ i \in 1 .. n /\ i + 1 \in 1 .. n
        BY <1>1, <2>1, <3>1
      <4> QED BY <1>1, <1>2, <4>1
    <3>2. CASE i = n
      <4>1. n > 0 /\ r[i] = q[n] /\ r[i + 1] = s
        BY <1>1, <2>1, <3>2
      <4> QED BY <1>3, <4>1
    <3> QED BY <1>1, <2>1, <3>1, <3>2
  <2> QED BY <1>1, <2>1 DEF Leads
<1>5. NotIdle(q, j) => NotIdle(r, After(s))
  <2>1. CASE q = <<>>
    BY <1>1, <2>1 DEF NotIdle, Sendable
  <2>2. CASE q # <<>>
    BY <1>1, <2>2 DEF NotIdle
  <2> QED BY <2>1, <2>2
<1>6. Runs(q, j) => Runs(r, After(s))
  <2>1. CASE q = <<>>
    BY <1>1, <2>1 DEF Runs, Sendable
  <2>2. CASE q # <<>>
    BY <1>1, <2>2 DEF Runs
  <2> QED BY <2>1, <2>2
<1> QED BY <1>1, <1>4, <1>5, <1>6 DEF r

\* Taking the first signal leaves what the others lead to.
LEMMA SignalRead ==
  ASSUME NEW q \in Seq(Signals), NEW j, Leads(q, j), q # <<>>
  PROVE  /\ Head(q) \in Signals /\ Leads(Tail(q), j)
         /\ Head(q) \in {"started", "disappeared"} => NotIdle(Tail(q), j)
<1> DEFINE r == Tail(q)
           n == Len(q)
<1>1. /\ n \in Nat /\ n > 0 /\ Len(r) = n - 1 /\ Head(q) = q[1] /\ r \in Seq(Signals)
      /\ \A i \in 1 .. n - 1 : r[i] = q[i + 1]
      /\ r # <<>> => n > 1 /\ Head(r) = q[2]
      /\ r = <<>> => n = 1
      /\ q[1] \in Signals
  <2>1. n \in Nat /\ n > 0 /\ Len(r) = n - 1 /\ r \in Seq(Signals)
    BY EmptySeq, HeadTailProperties
  <2>6. r = << >> <=> Len(r) = 0
    BY <2>1, EmptySeq
  <2>2. Head(q) = q[1] /\ q[1] \in Signals
    OBVIOUS
  <2>3. \A i \in 1 .. n - 1 : r[i] = q[i + 1]
    OBVIOUS
  <2>4. ASSUME r # <<>> PROVE n > 1 /\ Head(r) = q[2]
    <3>1. Len(r) # 0
      BY <2>1, <2>4
    <3>2. n > 1 /\ Head(r) = r[1]
      BY <2>1, <3>1
    <3> QED BY <2>3, <3>2
  <2>5. r = <<>> => n = 1
    <3> HIDE DEF r
    <3> QED BY <2>1, <2>6
  <2> QED BY <2>1, <2>2, <2>3, <2>4, <2>5
<1>2. /\ \A i \in 1 .. n - 1 : q[i + 1] \in Sendable(After(q[i]))
      /\ After(q[n]) = j
  BY DEF Leads
<1> HIDE DEF r, n
<1>3. Leads(r, j)
  <2>1. ASSUME NEW i \in 1 .. Len(r) - 1 PROVE r[i + 1] \in Sendable(After(r[i]))
    <3>1. i + 1 \in 1 .. n - 1 /\ i \in 1 .. n - 1 /\ r[i] = q[i + 1] /\ r[i + 1] = q[i + 1 + 1]
      BY <1>1, <2>1
    <3> QED BY <1>2, <3>1
  <2>2. r # <<>> => r[Len(r)] = q[n]
    BY <1>1
  <2> QED BY <1>2, <2>1, <2>2 DEF Leads
<1>4. ASSUME q[1] \in {"started", "disappeared"} PROVE NotIdle(r, j)
  <2>1. CASE r = <<>>
    <3>1. After(q[1]) = j
      BY <1>1, <1>2, <2>1
    <3> QED BY <1>4, <2>1, <3>1 DEF NotIdle, After
  <2>2. CASE r # <<>>
    <3>1. Head(r) \in Sendable(After(q[1]))
      <4>1. 1 \in 1 .. n - 1 /\ 1 + 1 = 2
        BY <1>1, <2>2
      <4> QED BY <1>1, <1>2, <2>2, <4>1
    <3>2. Head(r) # "started"
      BY <1>4, <3>1 DEF Sendable, After
    <3> QED BY <2>2, <3>2 DEF NotIdle
  <2> QED BY <2>1, <2>2
<1> QED BY <1>1, <1>3, <1>4 DEF r

\* a step of jackdbus, or a call to it
Sends ==
  /\ Leads(inbox, jack)'
  /\ NotIdle(inbox, jack) => NotIdle(inbox, jack)'
  /\ Runs(inbox, jack) => Runs(inbox, jack)'

\* Whatever a call does to jackdbus is among what Sends allows.
LEMMA CallsSend ==
  ASSUME TypeOK, Leads(inbox, jack),
         \/ UNCHANGED <<jack, inbox>>
         \/ \E s \in Signals : s \in Sendable(jack) /\ jack' = After(s) /\ inbox' = Append(inbox, s)
         \/ /\ jack' = "idle"
            /\ inbox' = inbox \o Activated(IF jack = "running" THEN <<"stopped">> ELSE <<>>)
         \/ Called
         \/ /\ jack' = "running"
            /\ inbox' = inbox \o Activated(IF jack # "running" THEN <<"started">> ELSE <<>>)
  PROVE  Sends
<1>1. /\ inbox \in Seq(Signals) /\ jack \in {"gone", "idle", "running"}
      /\ "stopped" \in Signals /\ "started" \in Signals /\ "appeared" \in Signals
  BY DEF TypeOK, Signals
<1>2. ASSUME UNCHANGED <<jack, inbox>> PROVE Sends
  BY <1>2 DEF Sends
<1>3. ASSUME NEW s \in Signals, s \in Sendable(jack), jack' = After(s), inbox' = Append(inbox, s)
      PROVE  Sends
  BY <1>1, <1>3, SignalSent DEF Sends
<1>4. /\ inbox \o <<>> = inbox
      /\ inbox \o <<"stopped">> = Append(inbox, "stopped")
      /\ inbox \o <<"started">> = Append(inbox, "started")
      /\ inbox \o <<"appeared">> = Append(inbox, "appeared")
  BY <1>1
<1>5. inbox \o (<<"appeared">> \o <<"started">>) = Append(Append(inbox, "appeared"), "started")
  BY <1>1
<1>6. <<"appeared">> \o <<>> = <<"appeared">>
  OBVIOUS
<1>7. CASE /\ jack' = "idle"
           /\ inbox' = inbox \o Activated(IF jack = "running" THEN <<"stopped">> ELSE <<>>)
  <2>1. CASE jack = "running"
    <3>1. inbox' = Append(inbox, "stopped") /\ "stopped" \in Sendable(jack) /\ After("stopped") = "idle"
      BY <1>4, <1>7, <2>1 DEF Activated, Sendable, After
    <3> QED BY <1>1, <1>3, <1>7, <3>1
  <2>2. CASE jack = "idle"
    <3>1. inbox' = inbox
      BY <1>4, <1>7, <2>2 DEF Activated
    <3> QED BY <1>2, <1>7, <2>2, <3>1
  <2>3. CASE jack = "gone"
    <3>1. inbox' = Append(inbox, "appeared") /\ "appeared" \in Sendable(jack) /\ After("appeared") = "idle"
      BY <1>4, <1>6, <1>7, <2>3 DEF Activated, Sendable, After
    <3> QED BY <1>1, <1>3, <1>7, <3>1
  <2> QED BY <1>1, <2>1, <2>2, <2>3
<1>8. CASE Called
  <2>1. CASE jack = "gone"
    BY <1>7, <1>8, <2>1 DEF Called
  <2>2. CASE jack # "gone"
    BY <1>2, <1>4, <1>8, <2>2 DEF Called, Activated
  <2> QED BY <2>1, <2>2
<1>9. CASE /\ jack' = "running"
           /\ inbox' = inbox \o Activated(IF jack # "running" THEN <<"started">> ELSE <<>>)
  <2>1. CASE jack = "running"
    <3>1. inbox' = inbox
      BY <1>4, <1>9, <2>1 DEF Activated
    <3> QED BY <1>2, <1>9, <2>1, <3>1
  <2>2. CASE jack = "idle"
    <3>1. inbox' = Append(inbox, "started") /\ "started" \in Sendable(jack) /\ After("started") = "running"
      BY <1>4, <1>9, <2>2 DEF Activated, Sendable, After
    <3> QED BY <1>1, <1>3, <1>9, <3>1
  <2>3. CASE jack = "gone"
    <3> DEFINE q == Append(inbox, "appeared")
    <3>1. inbox' = Append(q, "started")
      BY <1>5, <1>9, <2>3 DEF Activated
    <3>2. /\ "appeared" \in Sendable(jack) /\ After("appeared") = "idle"
          /\ "started" \in Sendable("idle") /\ After("started") = "running"
      BY <2>3 DEF Sendable, After
    <3>3. /\ q \in Seq(Signals) /\ Leads(q, "idle")
          /\ NotIdle(inbox, jack) => NotIdle(q, "idle")
          /\ Runs(inbox, jack) => Runs(q, "idle")
      BY <1>1, <3>2, SignalSent
    <3> HIDE DEF q
    <3>4. /\ Leads(Append(q, "started"), "running")
          /\ NotIdle(q, "idle") => NotIdle(Append(q, "started"), "running")
          /\ Runs(q, "idle") => Runs(Append(q, "started"), "running")
      BY <1>1, <3>2, <3>3, SignalSent
    <3> QED BY <1>9, <3>1, <3>3, <3>4 DEF Sends
  <2> QED BY <1>1, <2>1, <2>2, <2>3
<1> QED BY <1>2, <1>3, <1>7, <1>8, <1>9

-----------------------------------------------------------------------------
(***************************************************************************)
(* Leads and Heard: what the daemon was told, and what is on its way.      *)
(***************************************************************************)

\* a step that does not look at what was learned
LEMMA HeardAside ==
  ASSUME Leads(inbox, jack), Heard, Sends, UNCHANGED <<env, proxy>>,
         pc' = pc \/ pc' # "dispatch"
  PROVE  Leads(inbox, jack)' /\ Heard'
BY DEF Heard, Sends, IsStarted

\* nor does jackdbus do anything
LEMMA HeardStill ==
  ASSUME TypeOK, Leads(inbox, jack), Heard, UNCHANGED <<jack, inbox, env, proxy>>,
         pc' = pc \/ pc' # "dispatch"
  PROVE  Leads(inbox, jack)' /\ Heard'
BY HeardAside, CallsSend

\* the change is consumed
LEMMA HeardConsumed ==
  ASSUME TypeOK, Leads(inbox, jack), Called \/ Uncalled,
         "started" \notin env'.changed, proxy' => NotIdle(inbox, jack)
  PROVE  Leads(inbox, jack)' /\ Heard'
<1>1. Sends
  BY CallsSend
<1> QED
  BY <1>1 DEF Heard, Sends

\* consuming a change touches no other
LEMMA Consumes ==
  ASSUME TypeOK
  PROVE  /\ Consumed.state = env.state /\ AllConsumed.state = env.state
         /\ "started" \notin Consumed.changed /\ "started" \notin AllConsumed.changed
         /\ "started" \notin EnvResetStealth(AllConsumed, "started").changed
<1>1. \A e \in EnvStore : \A b \in Bits :
         /\ EnvConsume(e, b).state = e.state /\ b \notin EnvConsume(e, b).changed
         /\ EnvConsume(e, b).changed \subseteq e.changed
         /\ EnvResetStealth(e, b).changed = e.changed
  BY DEF EnvStore, EnvConsume, EnvResetStealth
<1>2. "started" \in Bits /\ "present" \in Bits /\ env \in EnvStore
  BY DEF Bits, TypeOK
<1>3. Consumed \in EnvStore /\ AllConsumed \in EnvStore
  BY ConsumedTypes
<1> QED
  BY <1>1, <1>2, <1>3 DEF Consumed, AllConsumed

\* a signal is dispatched
LEMMA SignalHeard ==
  ASSUME IInv, Leads(inbox, jack), Heard, DispatchSignal
  PROVE  Leads(inbox, jack)' /\ Heard'
<1> DEFINE s == Head(inbox)
<1>1. /\ inbox \in Seq(Signals) /\ inbox # <<>> /\ pc = "dispatch" /\ pc' = "cqueue"
      /\ inbox' = Tail(inbox) /\ UNCHANGED <<jack, proxy>>
  BY DEF DispatchSignal, IInv, TypeOK
<1>2. /\ s \in Signals /\ Leads(inbox', jack')
      /\ s \in {"started", "disappeared"} => NotIdle(inbox', jack')
  BY <1>1, SignalRead, Zenon
<1>3. proxy => IsStarted /\ "started" \notin env.changed /\ s # "started"
  BY <1>1 DEF Heard, IInv, Unlearned, NotIdle
<1>4. "started" \in env.changed => s \in {"stopped", "disappeared"}
  BY <1>1 DEF Heard, Runs
<1>5. \A e \in EnvStore :
        /\ EnvSet(e, "present").changed = e.changed \cup {"present"}
        /\ EnvReset(e, "present").changed = e.changed \cup {"present"}
        /\ EnvReset(e, "started").changed = e.changed \cup {"started"}
        /\ EnvReset(e, "started").state = e.state \ {"started"}
  BY DEF EnvStore, EnvSet, EnvReset
<1>6. env \in EnvStore
  BY DEF IInv, TypeOK
<1>7. CASE s = "appeared"
  <2>1. env' = EnvSet(env, "present")
    BY <1>7 DEF DispatchSignal
  <2>2. "started" \notin env.changed
    BY <1>4, <1>7
  <2> QED BY <1>1, <1>2, <1>5, <1>6, <2>1, <2>2 DEF Heard
<1>8. CASE s = "disappeared"
  <2>1. env' = EnvReset(env, "present")
    BY <1>8 DEF DispatchSignal
  <2>2. env'.changed = env.changed \cup {"present"}
    BY <1>5, <1>6, <2>1
  <2> QED BY <1>1, <1>2, <1>3, <1>8, <2>2 DEF Heard
<1>9. CASE s = "started"
  BY <1>1, <1>2, <1>3, <1>9 DEF Heard
<1>10. CASE s = "stopped"
  <2>1. env' = EnvReset(env, "started")
    BY <1>10 DEF DispatchSignal
  <2> QED BY <1>1, <1>2, <1>5, <1>6, <2>1 DEF Heard, IsStarted
<1> QED BY <1>2, <1>7, <1>8, <1>9, <1>10 DEF Signals

\* the events
LEMMA EventHeard ==
  ASSUME IInv, Leads(inbox, jack), Heard, Events
  PROVE  Leads(inbox, jack)' /\ Heard'
<1>1. CASE AutomaticAssertion
  BY <1>1, HeardStill DEF AutomaticAssertion, Dies, IInv
<1>2. CASE JackLost \/ AutomaticStudioStopped \/ StoppedUnexpectedly
  <2>1. proxy' = FALSE /\ UNCHANGED <<jack, inbox>> /\ "started" \notin env'.changed
    BY <1>2, Consumes DEF JackLost, AutomaticStudioStopped, StoppedUnexpectedly,
       GraphDown, Event, IInv
  <2> QED BY <2>1, HeardConsumed DEF IInv
<1>3. CASE AutomaticStudio \/ StartedExternally
  <2>1. /\ Called \/ Uncalled
        /\ "started" \notin env'.changed
        /\ "started" \in env.changed /\ IsStarted
    BY <1>3, Consumes DEF AutomaticStudio, StartedExternally, JackStarted,
       SettingsUnread, GraphStarted, Event, IInv
  <2> QED BY <2>1, HeardConsumed DEF Heard, IInv
<1>4. CASE AlreadyKnown
  <2>1. /\ UNCHANGED <<jack, inbox, proxy>> /\ "started" \notin env'.changed
        /\ "started" \in env.changed /\ IsStarted = proxy
    BY <1>4, Consumes DEF AlreadyKnown, Event, IInv
  <2> QED BY <2>1, HeardConsumed DEF Heard, IInv
<1>5. CASE NothingLearned
  <2>1. /\ UNCHANGED <<jack, inbox, proxy>> /\ "started" \notin env'.changed
        /\ "started" \notin env.changed /\ ("present" \notin env.changed \/ ~proxy)
    BY <1>5, Consumes DEF NothingLearned, Event, IInv
  <2> QED BY <2>1, HeardConsumed DEF Heard, IInv
<1> QED BY <1>1, <1>2, <1>3, <1>4, <1>5 DEF Events

\* a command
LEMMA CommandHeard ==
  ASSUME IInv, Leads(inbox, jack), Heard, RunQueue
  PROVE  Leads(inbox, jack)' /\ Heard'
<1>1. CASE QueueRan
  BY <1>1, HeardStill DEF QueueRan, IInv
<1>2. CASE OtherCommands
  <2>1. /\ Called \/ Uncalled
        /\ UNCHANGED <<env, proxy>>
        /\ pc' = pc \/ pc' # "dispatch"
    <3>1. CASE UnloadAssertion \/ (NewStudio /\ name) \/ Exit
      BY <3>1 DEF UnloadAssertion, NewStudio, Asserted, Exit, Dies
    <3>2. CASE Unload \/ (NewStudio /\ ~name) \/ LoadStudio \/ LoadFails
      BY <3>2 DEF Unload, NewStudio, Asserted, Made, LoadStudio, LoadFails,
         Done, Fail
    <3>3. CASE \/ CreateRoom \/ CreateRoomFails \/ RoomDeleted
               \/ DeleteRoomInitiated \/ DeleteRoomAwaits \/ DeleteRoomUnknown
      BY <3>3 DEF CreateRoom, CreateRoomFails, RoomDeleted,
         DeleteRoomInitiated, DeleteRoomAwaits, DeleteRoomUnknown, Done, Fail,
         Wait, WaitAs
    <3>4. CASE NewApp \/ NewAppFails
      BY <3>4 DEF NewApp, NewAppFails, Done, Fail
    <3> QED BY <1>2, <3>1, <3>2, <3>3, <3>4 DEF OtherCommands
  <2>2. Sends
    BY <2>1, CallsSend DEF IInv
  <2> QED BY <2>1, <2>2, HeardAside
<1>3. CASE StartStudio
  <2>1. CASE StartSignalled
    <3>1. /\ Called \/ Uncalled
          /\ "started" \notin env'.changed
          /\ "started" \in env.changed /\ IsStarted
      BY <2>1 DEF StartSignalled, JackStarted, SettingsUnread, GraphStarted,
         EnvConsume, IInv, TypeOK, EnvStore
    <3> QED BY <3>1, HeardConsumed DEF Heard, IInv
  <2>2. CASE StartServer
    <3>1. Sends
      BY <2>2, CallsSend DEF StartServer, IInv
    <3> QED BY <2>2, <3>1, HeardAside DEF StartServer, FallThrough
  <2>3. CASE StartIgnored \/ StartRefused \/ StartAwaitsSignal \/ StartExpires \/ StartAssertions
    BY <2>3, HeardStill DEF StartIgnored, StartRefused, StartAwaitsSignal,
       StartExpires, StartAssertions, Done, Fail, Wait, WaitAs, Dies, IInv
  <2> QED BY <1>3, <2>1, <2>2, <2>3 DEF StartStudio
<1>4. CASE StopStudio
  <2>1. CASE \/ StopAwaitsRooms \/ StopAwaitsClients \/ StopAwaitsChildren
             \/ StopServerFails \/ StopPollWaits \/ StopExpires
             \/ (StopAwaitsSignal /\ IsStarted)
    BY <2>1, HeardStill DEF StopAwaitsRooms, StopAwaitsClients,
       StopAwaitsChildren, StopServerFails, StopPollWaits, StopAwaitsSignal,
       Asserted, GoOnWaiting, StopExpires, Wait, WaitAs, Fail, IInv
  <2>2. CASE StopIgnored \/ StopInitiated \/ StopRoomsStopped \/ StopClientsGone
    BY <2>2, HeardStill DEF StopIgnored, StopInitiated, StopRoomsStopped,
       StopClientsGone, Done, FallThrough, IInv
  <2>3. CASE \/ StopWithoutVirtualizer
             \/ StopAwaitsSignal /\ ~IsStarted
             \/ StopSignalled /\ IsStarted
    BY <2>3, HeardStill DEF StopWithoutVirtualizer, StopAwaitsSignal,
       StopSignalled, Asserted, Dies, IInv
  <2>4. CASE StopServer
    <3>1. Sends
      BY <2>4, CallsSend DEF StopServer, IInv
    <3> QED BY <2>4, <3>1, HeardAside DEF StopServer, FallThrough
  <2>5. CASE StopSignalled /\ ~IsStarted
    <3>1. UNCHANGED <<jack, inbox>> /\ "started" \notin env'.changed /\ proxy' = FALSE
      BY <2>5 DEF StopSignalled, Asserted, ServerStopped, StopDone, GraphDown,
         EnvConsume, IInv, TypeOK, EnvStore
    <3> QED BY <3>1, HeardConsumed DEF IInv
  <2>6. CASE StopPollStopped
    <3>1. Sends
      BY <2>6, CallsSend DEF StopPollStopped, IInv
    <3>2. proxy' = FALSE /\ ~IsStarted' /\ pc' = "cqueue"
      BY <2>6 DEF StopPollStopped, StopDone, GraphDown, Done, EnvResetStealth,
         IsStarted, Stopping, Waiting, IInv, TypeOK, EnvStore
    <3> QED BY <3>1, <3>2 DEF Sends, Heard
  <2> QED BY <1>4, <2>1, <2>2, <2>3, <2>4, <2>5, <2>6 DEF StopStudio
<1> QED BY <1>1, <1>2, <1>3, <1>4 DEF RunQueue

\* every step
LEMMA NextHeard ==
  ASSUME IInv, Leads(inbox, jack), Heard, [Next]_vars
  PROVE  Leads(inbox, jack)' /\ Heard'
<1>1. CASE UNCHANGED vars \/ Ended
  BY <1>1, HeardStill DEF Ended, IInv
<1>2. CASE Jackdbus
  <2>1. \E s \in Signals : s \in Sendable(jack) /\ jack' = After(s) /\ inbox' = Append(inbox, s)
    <3>1. CASE JackStarts
      BY <3>1 DEF JackStarts, JackEvent, Sendable, After, Signals
    <3>2. CASE JackStops
      BY <3>2 DEF JackStops, JackEvent, Sendable, After, Signals
    <3>3. CASE JackCrashes
      BY <3>3 DEF JackCrashes, JackEvent, Sendable, After, Signals
    <3>4. CASE JackAppears
      BY <3>4 DEF JackAppears, JackEvent, Sendable, After, Signals
    <3> QED BY <1>2, <3>1, <3>2, <3>3, <3>4 DEF Jackdbus
  <2>2. Sends
    BY <2>1, CallsSend DEF IInv
  <2>3. UNCHANGED <<env, proxy, pc>>
    BY <1>2 DEF Jackdbus, JackStarts, JackStops, JackCrashes, JackAppears, JackEvent
  <2> QED BY <2>2, <2>3, HeardAside
<1>3. CASE Apps
  BY <1>3, HeardStill DEF Apps, ChildExits, ClientsAppear, ClientsDisappear,
     RoomEmpties, AppStep, IInv
<1>4. CASE DispatchNothing \/ Terminate
  BY <1>4, HeardStill DEF DispatchNothing, Terminate, IInv
<1>5. CASE Requested
  <2>1. PICK commands : Queued(commands)
    BY <1>5 DEF Requested, RequestNew, RequestLoad, RequestLoadAutostart,
       RequestExit, RequestExitForced, RequestUnload, RequestStart, RequestStop,
       RequestApp, RequestCreateRoom, RequestDeleteRoom, Request
  <2> QED
    BY <2>1, HeardStill DEF Queued, IInv
<1> QED
  BY <1>1, <1>2, <1>3, <1>4, <1>5, SignalHeard, EventHeard, CommandHeard DEF Next

-----------------------------------------------------------------------------
(***************************************************************************)
(* Staged and ExitFollows: what the queue holds, and what its head found.  *)
(***************************************************************************)
Queues == Staged /\ ExitFollows

\* what the head found in the store is still there, and such a command at the
\* head still finds the studio unloaded
StoreStays ==
  \/ "started" \in env'.changed
  \/ UNCHANGED env
  \/ "started" \notin env.changed /\ UNCHANGED IsStarted
ExitStays ==
  \/ queue = <<>>
  \/ Head(queue).kind \notin Fresh
  \/ UNCHANGED <<pc, loaded, name, rooms>>

\* the queue is not touched
LEMMA QueueStays ==
  ASSUME Queues, UNCHANGED <<queue, started, proxy>>, StoreStays, ExitStays
  PROVE  Queues'
<1>1. Staged'
  BY DEF Queues, Staged, HeadWaits, IsStarted, StoreStays
<1>2. ExitFollows'
  BY DEF Queues, ExitFollows, ExitStays
<1> QED BY <1>1, <1>2 DEF Queues

\* the queue is cleared
LEMMA QueueClears ==
  ASSUME queue' = <<>>
  PROVE  Queues'
<1>1. Len(<<>>) = 0
  OBVIOUS
<1>2. Staged'
  BY <1>1 DEF Staged, HeadWaits
<1>3. ExitFollows'
  BY <1>1 DEF ExitFollows
<1> QED BY <1>2, <1>3 DEF Queues

\* an empty queue holds nothing
LEMMA QueueInitially ==
  ASSUME queue = <<>>
  PROVE  Queues
<1>1. Len(<<>>) = 0
  OBVIOUS
<1> QED BY <1>1 DEF Queues, Staged, ExitFollows, HeadWaits

\* what is behind the head of a queue
LEMMA Behind ==
  ASSUME NEW q \in Seq(CommandRecord), q # <<>>
  PROVE  /\ Len(q) \in Nat /\ Len(q) > 0 /\ Len(Tail(q)) = Len(q) - 1
         /\ \A i \in 1 .. Len(q) - 1 : Tail(q)[i] = q[i + 1]
         /\ Head(q) = q[1]
         /\ Tail(q) # <<>> => Len(q) > 1 /\ Head(Tail(q)) = q[2]
<1>1. /\ Len(q) \in Nat /\ Len(q) > 0 /\ Len(Tail(q)) = Len(q) - 1
      /\ Tail(q) \in Seq(CommandRecord) /\ Head(q) = q[1]
  OBVIOUS
<1>2. \A i \in 1 .. Len(q) - 1 : Tail(q)[i] = q[i + 1]
  OBVIOUS
<1>3. ASSUME Tail(q) # <<>> PROVE Len(q) > 1 /\ Head(Tail(q)) = q[2]
  <2>1. Len(Tail(q)) # 0
    BY <1>1, <1>3
  <2>2. Len(q) > 1 /\ Head(Tail(q)) = Tail(q)[1]
    BY <1>1, <2>1
  <2> QED BY <1>2, <2>2
<1> QED BY <1>1, <1>2, <1>3

\* the command at the head is done and freed
LEMMA QueueAdvances ==
  ASSUME TypeOK, Queues, queue # <<>>, queue' = Tail(queue),
         Head(queue).kind = "unload" => pc' = "cqueue" /\ ~loaded' /\ ~name' /\ rooms' = {}
  PROVE  Queues'
<1> DEFINE n == Len(queue)
<1>1. /\ n \in Nat /\ n > 0 /\ Len(queue') = n - 1
      /\ \A i \in 1 .. n - 1 : queue'[i] = queue[i + 1]
      /\ Head(queue) = queue[1]
      /\ queue' # <<>> => n > 1 /\ Head(queue') = queue[2]
  BY Behind DEF TypeOK
<1> HIDE DEF n
<1>2. \A i \in 2 .. n : queue[i].state = "PENDING"
  BY DEF Queues, Staged, n
<1>3. ASSUME NEW i \in 1 .. n - 1
      PROVE  i \in 1 .. n /\ i + 1 \in 1 .. n /\ i + 1 \in 2 .. n /\ i + 1 # 1 /\ (i + 1) - 1 = i
  BY <1>1, <1>3
<1>4. \A i \in 1 .. n - 1 : queue'[i].state = "PENDING"
  BY <1>1, <1>2, <1>3
<1>5. queue' # <<>> => Head(queue').state # "WAITING"
  <2>1. n > 1 => 2 \in 2 .. n
    BY <1>1
  <2> QED BY <1>1, <1>2, <2>1
<1>6. Staged'
  <2>1. \A i \in 2 .. Len(queue') : i \in 1 .. n - 1
    BY <1>1
  <2> QED BY <1>4, <1>5, <2>1 DEF Staged, HeadWaits
<1>7. ASSUME NEW i \in 1 .. n - 1, queue'[i].kind \in Fresh
      PROVE  IF i = 1 THEN pc' = "cqueue" /\ ~loaded' /\ ~name' /\ rooms' = {}
             ELSE queue'[i - 1].kind = "unload"
  <2>1. queue[i].kind = "unload"
    BY <1>1, <1>3, <1>7 DEF Queues, ExitFollows, n
  <2>2. CASE i = 1
    BY <1>1, <2>1, <2>2
  <2>3. CASE i # 1
    <3>1. i - 1 \in 1 .. n - 1 /\ (i - 1) + 1 = i
      BY <1>1, <2>3
    <3> QED BY <1>1, <2>1, <2>3, <3>1
  <2> QED BY <2>2, <2>3
<1>8. ExitFollows'
  BY <1>1, <1>7 DEF ExitFollows
<1> QED BY <1>6, <1>8 DEF Queues

\* a queue with a command put in front
LEMMA InFront ==
  ASSUME NEW c, NEW q \in Seq(CommandRecord), NEW p, p = <<c>> \o q
  PROVE  /\ Len(p) = Len(q) + 1 /\ p[1] = c /\ Head(p) = c /\ p # <<>>
         /\ \A i \in 2 .. Len(p) : p[i] = q[i - 1]
OBVIOUS

\* the command at the head goes on later
LEMMA QueueWaits ==
  ASSUME TypeOK, Queues, queue # <<>>,
         NEW c, queue' = <<c>> \o Tail(queue), c.kind \notin Fresh, c.kind # "unload",
         c.kind = Head(queue).kind,
         c.kind = "stop" /\ c.stage \in {"clients", "children", "server"} => started' = {},
         c.kind = "stop" /\ c.stage \in {"children", "server"} => proxy',
         c.kind = "start" => "started" \in env'.changed \/ ~IsStarted'
  PROVE  Queues'
<1> DEFINE n == Len(queue)
<1>1. /\ n \in Nat /\ n > 0 /\ Len(queue') = n /\ queue'[1] = c /\ queue' # <<>>
      /\ Head(queue') = c /\ Head(queue) = queue[1]
      /\ \A i \in 2 .. n : queue'[i] = queue[i]
  <2>1. /\ Len(queue) \in Nat /\ Len(queue) > 0 /\ Head(queue) = queue[1]
        /\ Len(Tail(queue)) = Len(queue) - 1
        /\ \A i \in 1 .. Len(queue) - 1 : Tail(queue)[i] = queue[i + 1]
    BY Behind DEF TypeOK
  <2>2. /\ Len(queue') = Len(Tail(queue)) + 1
        /\ queue'[1] = c /\ Head(queue') = c /\ queue' # <<>>
        /\ \A i \in 2 .. Len(queue') : queue'[i] = Tail(queue)[i - 1]
    BY InFront, HeadIsCommand DEF TypeOK
  <2>3. ASSUME NEW i \in 2 .. n PROVE i - 1 \in 1 .. n - 1 /\ (i - 1) + 1 = i
    BY <2>1, <2>3
  <2> QED BY <2>1, <2>2, <2>3
<1> HIDE DEF n
<1>2. Staged'
  <2>1. \A i \in 2 .. n : queue[i].state = "PENDING"
    BY DEF Queues, Staged, n
  <2> QED BY <1>1, <2>1 DEF Staged, HeadWaits
<1>3. ASSUME NEW i \in 1 .. n, queue'[i].kind \in Fresh
      PROVE  i # 1 /\ queue'[i - 1].kind = "unload"
  <2>1. i \in 2 .. n /\ i # 1
    BY <1>1, <1>3
  <2>2. queue[i].kind \in Fresh
    BY <1>1, <1>3, <2>1
  <2>3. queue[i - 1].kind = "unload"
    BY <2>1, <2>2 DEF Queues, ExitFollows, n
  <2>4. i - 1 # 1
    BY <1>1, <2>1, <2>3
  <2>5. i - 1 \in 2 .. n
    BY <1>1, <2>1, <2>4
  <2> QED BY <1>1, <2>1, <2>3, <2>5
<1>4. ExitFollows'
  BY <1>1, <1>3 DEF ExitFollows
<1> QED BY <1>2, <1>4 DEF Queues

\* commands that a request may add: none waits, exit comes right after unload
Prepared(commands) ==
  /\ commands \in Seq(CommandRecord)
  /\ \A i \in 1 .. Len(commands) :
       /\ commands[i].state = "PENDING"
       /\ commands[i].kind \in Fresh => i > 1 /\ commands[i - 1].kind = "unload"

\* The commands of a request, spelled out.
LEMMA Spelled ==
  ASSUME NEW a \in CommandRecord, NEW b \in CommandRecord,
         NEW c \in CommandRecord, NEW d \in CommandRecord
  PROVE  Append(<<a, b>>, c) = <<a, b, c>> /\ <<a, b>> \o <<c, d>> = <<a, b, c, d>>
<1>1. /\ Append(<<a, b>>, c) \in Seq(CommandRecord) /\ <<a, b, c>> \in Seq(CommandRecord)
      /\ Len(Append(<<a, b>>, c)) = Len(<<a, b, c>>)
  OBVIOUS
<1>2. \A i \in 1 .. Len(Append(<<a, b>>, c)) : Append(<<a, b>>, c)[i] = <<a, b, c>>[i]
  OBVIOUS
<1>3. /\ <<a, b>> \o <<c, d>> \in Seq(CommandRecord) /\ <<a, b, c, d>> \in Seq(CommandRecord)
      /\ Len(<<a, b>> \o <<c, d>>) = Len(<<a, b, c, d>>)
  OBVIOUS
<1>4. \A i \in 1 .. Len(<<a, b>> \o <<c, d>>) : (<<a, b>> \o <<c, d>>)[i] = <<a, b, c, d>>[i]
  OBVIOUS
<1> QED BY <1>1, <1>2, <1>3, <1>4, SeqEqual

\* Every request queues commands that have not run yet.
LEMMA CommandsPrepared ==
  ASSUME Requested
  PROVE  \E commands : Queued(commands) /\ Prepared(commands)
<1>1. /\ \A k \in Kinds \ {"create room", "delete room"} :
           /\ Plain(k) \in CommandRecord
           /\ Plain(k).state = "PENDING" /\ Plain(k).kind = k
      /\ \A k \in Kinds : \A r \in Rooms :
           /\ Cmd(k, r) \in CommandRecord
           /\ Cmd(k, r).state = "PENDING" /\ Cmd(k, r).kind = k
  BY RequestsAreCommands DEF Plain, Cmd
<1>2. ASSUME NEW c \in CommandRecord, c.state = "PENDING", c.kind \notin Fresh
      PROVE  Prepared(<<c>>)
  BY <1>2 DEF Prepared
<1>3. ASSUME NEW c \in CommandRecord, NEW d \in CommandRecord,
             c.state = "PENDING", c.kind \notin Fresh, d.state = "PENDING", d.kind \notin Fresh
      PROVE  Prepared(<<c, d>>)
  BY <1>3 DEF Prepared
<1>4. ASSUME NEW c \in CommandRecord, NEW d \in CommandRecord, NEW e \in CommandRecord,
             c.state = "PENDING", c.kind \notin Fresh, d.state = "PENDING", d.kind = "unload",
             e.state = "PENDING"
      PROVE  Prepared(<<c, d, e>>)
  <2>1. <<c, d, e>> \in Seq(CommandRecord) /\ Len(<<c, d, e>>) = 3
    OBVIOUS
  <2>2. ASSUME NEW i \in 1 .. 3
        PROVE  /\ <<c, d, e>>[i].state = "PENDING"
               /\ <<c, d, e>>[i].kind \in Fresh => i > 1 /\ <<c, d, e>>[i - 1].kind = "unload"
    <3>1. i = 1 \/ i = 2 \/ i = 3
      BY <2>2
    <3> QED BY <1>4, <3>1
  <2> QED BY <2>1, <2>2 DEF Prepared
<1>5. ASSUME NEW c \in CommandRecord, NEW d \in CommandRecord, NEW e \in CommandRecord,
             NEW f \in CommandRecord,
             c.state = "PENDING", c.kind \notin Fresh, d.state = "PENDING", d.kind = "unload",
             e.state = "PENDING", f.state = "PENDING", f.kind \notin Fresh
      PROVE  Prepared(<<c, d, e, f>>)
  <2>1. <<c, d, e, f>> \in Seq(CommandRecord) /\ Len(<<c, d, e, f>>) = 4
    OBVIOUS
  <2>2. ASSUME NEW i \in 1 .. 4
        PROVE  /\ <<c, d, e, f>>[i].state = "PENDING"
               /\ <<c, d, e, f>>[i].kind \in Fresh =>
                    i > 1 /\ <<c, d, e, f>>[i - 1].kind = "unload"
    <3>1. i = 1 \/ i = 2 \/ i = 3 \/ i = 4
      BY <2>2
    <3> QED BY <1>5, <3>1
  <2> QED BY <2>1, <2>2 DEF Prepared
<1>6. {"stop", "unload", "new", "load", "start", "exit", "app"}
        \subseteq Kinds \ {"create room", "delete room"}
  BY DEF Kinds
<1>15. \A k \in {"stop", "unload", "new", "load", "start", "exit", "app"} :
         Plain(k) \in CommandRecord /\ Plain(k).state = "PENDING" /\ Plain(k).kind = k
  BY <1>1, <1>6
<1>7. /\ Append(Unloading, Plain("new")) = <<Plain("stop"), Plain("unload"), Plain("new")>>
      /\ Append(Unloading, Plain("load")) = <<Plain("stop"), Plain("unload"), Plain("load")>>
      /\ Append(Unloading, Plain("exit")) = <<Plain("stop"), Plain("unload"), Plain("exit")>>
      /\ Unloading \o <<Plain("load"), Plain("start")>>
           = <<Plain("stop"), Plain("unload"), Plain("load"), Plain("start")>>
  <2>1. /\ Plain("stop") \in CommandRecord /\ Plain("unload") \in CommandRecord
        /\ Plain("load") \in CommandRecord /\ Plain("start") \in CommandRecord
        /\ Plain("new") \in CommandRecord /\ Plain("exit") \in CommandRecord
    BY <1>15
  <2>2. \A c, d \in CommandRecord :
          /\ Append(Unloading, c) = <<Plain("stop"), Plain("unload"), c>>
          /\ Unloading \o <<c, d>> = <<Plain("stop"), Plain("unload"), c, d>>
    BY <2>1, Spelled, Zenon DEF Unloading
  <2> QED BY <2>1, <2>2, Zenon
<1>16. ASSUME NEW k \in {"stop", "unload", "new", "load", "start", "exit", "app"}
       PROVE  Prepared(<<Plain("stop"), Plain("unload"), Plain(k)>>)
  <2>1. /\ Plain("stop") \in CommandRecord /\ Plain("unload") \in CommandRecord
        /\ Plain(k) \in CommandRecord
        /\ Plain("stop").state = "PENDING" /\ Plain("stop").kind \notin Fresh
        /\ Plain("unload").state = "PENDING" /\ Plain("unload").kind = "unload"
        /\ Plain(k).state = "PENDING"
    BY <1>15
  <2> QED BY <1>4, <2>1, Zenon
<1>8. /\ Prepared(Append(Unloading, Plain("new")))
      /\ Prepared(Append(Unloading, Plain("load")))
      /\ Prepared(Append(Unloading, Plain("exit")))
  BY <1>7, <1>16
<1>9. Prepared(Unloading \o <<Plain("load"), Plain("start")>>)
  <2>1. /\ Plain("stop") \in CommandRecord /\ Plain("unload") \in CommandRecord
        /\ Plain("load") \in CommandRecord /\ Plain("start") \in CommandRecord
        /\ Plain("stop").state = "PENDING" /\ Plain("stop").kind \notin Fresh
        /\ Plain("unload").state = "PENDING" /\ Plain("unload").kind = "unload"
        /\ Plain("load").state = "PENDING"
        /\ Plain("start").state = "PENDING" /\ Plain("start").kind \notin Fresh
    BY <1>15
  <2>2. Prepared(<<Plain("stop"), Plain("unload"), Plain("load"), Plain("start")>>)
    BY <1>5, <2>1, Zenon
  <2> QED BY <1>7, <2>2
<1>10. /\ Prepared(<<Plain("start")>>) /\ Prepared(<<Plain("stop")>>)
       /\ Prepared(<<Plain("app")>>)
  BY <1>1, <1>2, <1>6
<1>11. Prepared(Unloading)
  BY <1>1, <1>3, <1>6 DEF Unloading
<1>12. \A r \in Rooms : /\ Prepared(<<Cmd("create room", r)>>)
                        /\ Prepared(<<Cmd("delete room", r)>>)
  <2>1. "create room" \in Kinds /\ "delete room" \in Kinds
    BY DEF Kinds
  <2> QED BY <1>1, <1>2, <2>1
<1>13. Prepared(<<>>)
  BY DEF Prepared
<1>14. CASE RequestExitForced
  BY <1>10, <1>13, <1>14 DEF RequestExitForced
<1> QED
  BY <1>8, <1>9, <1>10, <1>11, <1>12, <1>14
  DEF Requested, Request, RequestNew, RequestLoad, RequestLoadAutostart,
      RequestExit, RequestUnload, RequestStart, RequestStop, RequestApp,
      RequestCreateRoom, RequestDeleteRoom

\* a queue with commands put behind
LEMMA InBack ==
  ASSUME NEW q \in Seq(CommandRecord), NEW r \in Seq(CommandRecord), NEW p, p = q \o r
  PROVE  /\ Len(p) = Len(q) + Len(r) /\ Len(q) \in Nat /\ Len(r) \in Nat
         /\ \A i \in 1 .. Len(q) : p[i] = q[i]
         /\ \A i \in Len(q) + 1 .. Len(p) : p[i] = r[i - Len(q)]
         /\ q # <<>> => Head(p) = q[1] /\ Head(q) = q[1] /\ Len(q) > 0
OBVIOUS

\* a client makes a request
LEMMA QueueExtended ==
  ASSUME TypeOK, Queues, NEW commands, Prepared(commands), Queued(commands)
  PROVE  Queues'
<1> DEFINE n == Len(queue)
           m == Len(commands)
<1>1. /\ n \in Nat /\ m \in Nat /\ Len(queue') = n + m
      /\ \A i \in 1 .. n : queue'[i] = queue[i]
      /\ \A i \in n + 1 .. n + m : queue'[i] = commands[i - n]
      /\ queue # <<>> => Head(queue') = queue[1] /\ Head(queue) = queue[1] /\ n > 0
  BY InBack DEF TypeOK, Prepared, Queued
<1>2. /\ pc = "dispatch" /\ UNCHANGED <<env, started, proxy>>
  BY DEF Queued
<1>3. \A i \in 1 .. m :
        /\ commands[i].state = "PENDING"
        /\ commands[i].kind \in Fresh => i > 1 /\ commands[i - 1].kind = "unload"
  BY DEF Prepared
<1> HIDE DEF n, m
<1>4. /\ \A i \in 2 .. n : queue[i].state = "PENDING"
      /\ \A i \in 1 .. n : queue[i].kind \in Fresh => i # 1 /\ queue[i - 1].kind = "unload"
  BY <1>2 DEF Queues, Staged, ExitFollows, n
<1>5. ASSUME NEW i \in n + 1 .. n + m
      PROVE  i - n \in 1 .. m /\ (i - n > 1 => i - 1 \in n + 1 .. n + m /\ (i - 1) - n = (i - n) - 1)
             /\ (i - n > 1 => i # 1)
  BY <1>1, <1>5
<1>6. ASSUME NEW i \in 1 .. n + m
      PROVE  i \in 1 .. n \/ i \in n + 1 .. n + m
  BY <1>1, <1>6
<1>7. ASSUME NEW i \in 2 .. n + m PROVE queue'[i].state = "PENDING"
  <2>1. CASE i \in 2 .. n
    <3>1. i \in 1 .. n
      BY <1>1, <2>1
    <3> QED BY <1>1, <1>4, <2>1, <3>1
  <2>2. CASE i \in n + 1 .. n + m
    BY <1>1, <1>3, <1>5, <2>2
  <2> QED BY <1>1, <1>7, <2>1, <2>2
<1>8. queue = <<>> => queue' = commands
  BY DEF Queued, Prepared
<1>9. commands # <<>> => Head(commands).state = "PENDING"
  <2>1. commands # <<>> => 1 \in 1 .. m /\ Head(commands) = commands[1]
    BY DEF m, Prepared
  <2> QED BY <1>3, <2>1
<1>10. Staged'
  <2>1. CASE queue = <<>>
    <3>1. queue' # <<>> => Head(queue').state # "WAITING"
      BY <1>8, <1>9, <2>1
    <3> QED BY <1>1, <1>7, <3>1 DEF Staged, HeadWaits
  <2>2. CASE queue # <<>>
    <3>1. Head(queue') = Head(queue) /\ IsStarted' = IsStarted
      BY <1>1, <1>2, <2>2 DEF IsStarted
    <3>2. /\ HeadWaits("stop") /\ Head(queue).stage \in {"clients", "children", "server"} => started = {}
          /\ HeadWaits("stop") /\ Head(queue).stage \in {"children", "server"} => proxy
          /\ HeadWaits("start") => "started" \in env.changed \/ ~IsStarted
      BY DEF Queues, Staged
    <3> QED BY <1>1, <1>2, <1>7, <2>2, <3>1, <3>2 DEF Staged, HeadWaits
  <2> QED BY <2>1, <2>2
<1>11. ASSUME NEW i \in 1 .. n + m, queue'[i].kind \in Fresh
       PROVE  i # 1 /\ queue'[i - 1].kind = "unload"
  <2>1. CASE i \in 1 .. n
    <3>1. i # 1 /\ queue[i - 1].kind = "unload"
      BY <1>1, <1>4, <1>11, <2>1
    <3>2. i - 1 \in 1 .. n
      BY <1>1, <2>1, <3>1
    <3> QED BY <1>1, <3>1, <3>2
  <2>2. CASE i \in n + 1 .. n + m
    <3>1. /\ i - n \in 1 .. m
          /\ i - n > 1 => i - 1 \in n + 1 .. n + m /\ (i - 1) - n = (i - n) - 1 /\ i # 1
      BY <1>5, <2>2
    <3>2. commands[i - n].kind \in Fresh
      BY <1>1, <1>11, <2>2
    <3>3. i - n > 1 /\ commands[(i - n) - 1].kind = "unload"
      BY <1>3, <3>1, <3>2
    <3> QED BY <1>1, <3>1, <3>3
  <2> QED BY <1>6, <2>1, <2>2
<1>12. ExitFollows'
  BY <1>1, <1>11 DEF ExitFollows
<1> QED BY <1>10, <1>12 DEF Queues

\* the stop command
LEMMA StopQueues ==
  ASSUME IInv, Queues, StopStudio
  PROVE  Queues'
<1> DEFINE h == Head(queue)
<1>1. TypeOK /\ queue \in Seq(CommandRecord) /\ (virtualizer => proxy)
  BY DEF IInv, TypeOK, Unlearned
<1>2. queue # <<>> /\ h.kind = "stop" /\ h \in CommandRecord
  BY <1>1, HeadIsCommand DEF StopStudio, StopIgnored, StopInitiated,
     StopAwaitsRooms, StopRoomsStopped, StopAwaitsClients, StopClientsGone,
     StopWithoutVirtualizer, StopAwaitsChildren, StopServer, StopServerFails,
     StopPollStopped, StopPollWaits, StopExpires, StopSignalled,
     StopAwaitsSignal, Pending, Waiting, Stopping
<1>3. /\ h.state = "WAITING" /\ h.stage \in {"clients", "children", "server"} => started = {}
      /\ h.state = "WAITING" /\ h.stage \in {"children", "server"} => proxy
  BY <1>2 DEF Queues, Staged, HeadWaits
<1>4. \A c \in CommandRecord : \A t \in StopStage :
        LET w == [c EXCEPT !.state = "WAITING"]
            v == [c EXCEPT !.stage = t]
            x == [c EXCEPT !.state = "WAITING", !.stage = t]
            y == [c EXCEPT !.stage = t, !.deadline = TRUE]
        IN  /\ w.kind = c.kind /\ w.stage = c.stage
            /\ v.kind = c.kind /\ v.stage = t
            /\ x.kind = c.kind /\ x.stage = t
            /\ y.kind = c.kind /\ y.stage = t
  BY DEF CommandRecord
<1>5. {"rooms", "clients", "children", "server"} \subseteq StopStage
  BY DEF StopStage
<1> HIDE DEF h
<1>6. ASSUME NEW c, queue' = <<c>> \o Tail(queue), c.kind = h.kind,
             c.stage \in {"clients", "children", "server"} => started' = {},
             c.stage \in {"children", "server"} => proxy'
      PROVE  Queues'
  BY <1>1, <1>2, <1>6, QueueWaits DEF h
<1>7. ASSUME Done PROVE Queues'
  BY <1>1, <1>2, <1>7, QueueAdvances DEF Done, h
<1>8. CASE StopIgnored
  BY <1>7, <1>8 DEF StopIgnored
<1>9. CASE StopInitiated
  <2> DEFINE c == [h EXCEPT !.state = "WAITING", !.stage = "rooms"]
  <2>1. queue' = <<c>> \o Tail(queue)
    BY <1>9 DEF StopInitiated, FallThrough, h
  <2>2. c.kind = h.kind /\ c.stage = "rooms"
    BY <1>2, <1>4, <1>5
  <2> HIDE DEF c
  <2> QED BY <1>6, <2>1, <2>2
<1>10. ASSUME Wait, Waiting("stop"), started' \subseteq started, proxy' = proxy PROVE Queues'
  <2> DEFINE c == [h EXCEPT !.state = "WAITING"]
  <2>1. queue' = <<c>> \o Tail(queue) /\ h.state = "WAITING"
    BY <1>10 DEF Wait, WaitAs, Waiting, h
  <2>2. c.kind = h.kind /\ c.stage = h.stage
    BY <1>2, <1>4, <1>5
  <2> HIDE DEF c
  <2> QED BY <1>3, <1>6, <1>10, <2>1, <2>2
<1>11. CASE \/ StopAwaitsRooms \/ StopAwaitsClients \/ StopAwaitsChildren \/ StopPollWaits
            \/ StopAwaitsSignal /\ IsStarted
  <2>1. Wait /\ Waiting("stop") /\ started' \subseteq started /\ proxy' = proxy
    BY <1>11 DEF StopAwaitsRooms, StopAwaitsClients, StopAwaitsChildren,
       StopPollWaits, StopAwaitsSignal, Asserted, GoOnWaiting, Stopping
  <2> QED BY <1>10, <2>1
<1>12. CASE StopRoomsStopped
  <2> DEFINE c == [h EXCEPT !.stage = "clients"]
  <2>1. queue' = <<c>> \o Tail(queue) /\ started' = {}
    BY <1>12 DEF StopRoomsStopped, FallThrough, h
  <2>2. c.kind = h.kind /\ c.stage = "clients"
    BY <1>2, <1>4, <1>5
  <2> HIDE DEF c
  <2> QED BY <1>6, <2>1, <2>2
<1>13. CASE StopClientsGone
  <2> DEFINE c == [h EXCEPT !.stage = "children"]
  <2>1. /\ queue' = <<c>> \o Tail(queue) /\ started' = started /\ proxy'
        /\ h.state = "WAITING" /\ h.stage = "clients"
    BY <1>1, <1>13 DEF StopClientsGone, FallThrough, Stopping, Waiting, h
  <2>2. c.kind = h.kind /\ c.stage = "children"
    BY <1>2, <1>4, <1>5
  <2> HIDE DEF c
  <2> QED BY <1>3, <1>6, <2>1, <2>2
<1>14. CASE StopServer
  <2> DEFINE c == [h EXCEPT !.stage = "server"]
  <2>1. /\ queue' = <<c>> \o Tail(queue) /\ UNCHANGED <<started, proxy>>
        /\ h.state = "WAITING" /\ h.stage = "children"
    BY <1>14 DEF StopServer, FallThrough, Stopping, Waiting, h
  <2>2. c.kind = h.kind /\ c.stage = "server"
    BY <1>2, <1>4, <1>5
  <2> HIDE DEF c
  <2> QED BY <1>3, <1>6, <2>1, <2>2
<1>15. CASE StopServerFails
  <2> DEFINE c == [h EXCEPT !.stage = "server", !.deadline = TRUE]
  <2>1. /\ queue' = <<c>> \o Tail(queue) /\ UNCHANGED <<started, proxy>>
        /\ h.state = "WAITING" /\ h.stage = "children"
    BY <1>15 DEF StopServerFails, WaitAs, Stopping, Waiting, h
  <2>2. c.kind = h.kind /\ c.stage = "server"
    BY <1>2, <1>4, <1>5
  <2> HIDE DEF c
  <2> QED BY <1>3, <1>6, <2>1, <2>2
<1>16. CASE StopPollStopped \/ (StopSignalled /\ ~IsStarted)
  <2>1. Done
    BY <1>16 DEF StopPollStopped, StopSignalled, Asserted, ServerStopped, StopDone
  <2> QED BY <1>7, <2>1
<1>17. CASE StopExpires
  BY <1>17, QueueClears DEF StopExpires, Fail
<1>18. CASE \/ StopWithoutVirtualizer
            \/ StopAwaitsSignal /\ ~IsStarted
            \/ StopSignalled /\ IsStarted
  <2>1. UNCHANGED <<queue, started, proxy, env>>
    BY <1>18 DEF StopWithoutVirtualizer, StopAwaitsSignal, StopSignalled, Asserted, Dies
  <2> QED BY <1>2, <2>1, QueueStays DEF h, StoreStays, ExitStays
<1>19. CASE StopSignalled \/ StopAwaitsSignal
  BY <1>11, <1>16, <1>18, <1>19
<1>20. CASE StopIgnored \/ StopInitiated \/ StopRoomsStopped \/ StopClientsGone
  BY <1>8, <1>9, <1>12, <1>13, <1>20
<1>21. CASE \/ StopAwaitsRooms \/ StopAwaitsClients \/ StopAwaitsChildren
            \/ StopPollWaits \/ StopWithoutVirtualizer
  BY <1>11, <1>18, <1>21
<1>22. CASE StopServer \/ StopServerFails \/ StopPollStopped \/ StopExpires
  BY <1>14, <1>15, <1>16, <1>17, <1>22
<1> QED
  BY <1>19, <1>20, <1>21, <1>22 DEF StopStudio

\* the start command
LEMMA StartQueues ==
  ASSUME IInv, Queues, StartStudio
  PROVE  Queues'
<1> DEFINE c == [Head(queue) EXCEPT !.state = "WAITING"]
<1>1. TypeOK /\ queue \in Seq(CommandRecord)
  BY DEF IInv, TypeOK
<1>2. queue # <<>> /\ Head(queue).kind = "start" /\ Head(queue) \in CommandRecord
  BY <1>1, HeadIsCommand DEF StartStudio, StartIgnored, StartRefused,
     StartServer, StartAwaitsSignal, StartExpires, StartSignalled,
     StartAssertions, Pending, Waiting
<1>3. c.kind = "start"
  BY <1>2 DEF CommandRecord
<1>4. CASE StartIgnored \/ StartSignalled
  BY <1>1, <1>2, <1>4, QueueAdvances DEF StartIgnored, StartSignalled, Done
<1>5. CASE StartRefused \/ StartExpires
  BY <1>5, QueueClears DEF StartRefused, StartExpires, Fail
<1>6. CASE StartServer \/ StartAwaitsSignal
  <2>1. queue' = <<c>> \o Tail(queue) /\ env' = env /\ ~IsStarted
    BY <1>6 DEF StartServer, StartAwaitsSignal, FallThrough, Wait, WaitAs
  <2>2. ~IsStarted'
    BY <2>1 DEF IsStarted
  <2> HIDE DEF c
  <2> QED BY <1>1, <1>2, <1>3, <2>1, <2>2, QueueWaits
<1>7. CASE StartAssertions
  BY <1>2, <1>7, QueueStays DEF StartAssertions, Dies, StoreStays, ExitStays
<1> QED BY <1>4, <1>5, <1>6, <1>7 DEF StartStudio

\* the other commands
LEMMA CommandQueues ==
  ASSUME IInv, Queues, OtherCommands
  PROVE  Queues'
<1>1. TypeOK /\ queue \in Seq(CommandRecord)
  BY DEF IInv, TypeOK
<1>2. CASE Unload
  <2>1. queue # <<>> /\ queue' = Tail(queue) /\ pc' = "cqueue"
        /\ ~loaded' /\ ~name' /\ rooms' = {}
    BY <1>2 DEF Unload, Pending, Cleared, Done
  <2> QED BY <1>1, <2>1, QueueAdvances
<1>3. CASE \/ (NewStudio /\ ~name /\ Done) \/ LoadStudio \/ CreateRoom \/ RoomDeleted \/ NewApp
  <2>1. queue # <<>> /\ queue' = Tail(queue) /\ Head(queue).kind # "unload"
    BY <1>3 DEF NewStudio, LoadStudio, CreateRoom, RoomDeleted, NewApp,
       Pending, Waiting, Done
  <2> QED BY <1>1, <2>1, QueueAdvances
<1>4. CASE \/ (NewStudio /\ ~name /\ Fail) \/ LoadFails \/ CreateRoomFails \/ NewAppFails
           \/ DeleteRoomUnknown \/ Exit
  BY <1>4, QueueClears DEF LoadFails, CreateRoomFails, NewAppFails,
     DeleteRoomUnknown, Exit, Fail
<1>5. CASE DeleteRoomInitiated \/ DeleteRoomAwaits
  <2> DEFINE c == [Head(queue) EXCEPT !.state = "WAITING"]
  <2>1. queue # <<>> /\ queue' = <<c>> \o Tail(queue) /\ Head(queue).kind = "delete room"
    BY <1>5 DEF DeleteRoomInitiated, DeleteRoomAwaits, Wait, WaitAs, Pending, Waiting
  <2>2. c.kind = "delete room"
    BY <1>1, <2>1, HeadIsCommand DEF CommandRecord
  <2> HIDE DEF c
  <2> QED BY <1>1, <2>1, <2>2, QueueWaits
<1>6. CASE UnloadAssertion
  <2>1. UNCHANGED <<queue, started, proxy, env>> /\ Head(queue).kind \notin Fresh
    BY <1>6 DEF UnloadAssertion, Dies, Pending
  <2> QED BY <2>1, QueueStays DEF StoreStays, ExitStays
<1>8. ~(NewStudio /\ name)
  <2>1. NewStudio => queue # <<>> /\ Head(queue).kind = "new"
    BY DEF NewStudio, Pending
  <2>2. queue # <<>> => 1 \in 1 .. Len(queue) /\ Head(queue) = queue[1]
    BY <1>1
  <2> QED BY <2>1, <2>2 DEF Queues, ExitFollows
<1>7. NewStudio /\ ~name => Done \/ Fail
  BY DEF NewStudio, Asserted, Made
<1> QED BY <1>2, <1>3, <1>4, <1>5, <1>6, <1>7, <1>8 DEF OtherCommands

\* the events
LEMMA EventQueues ==
  ASSUME IInv, Queues, Events
  PROVE  Queues'
<1>1. CASE \/ JackLost \/ AutomaticStudio \/ StartedExternally \/ AlreadyKnown
           \/ StoppedUnexpectedly
  BY <1>1, QueueClears DEF JackLost, AutomaticStudio, StartedExternally,
     AlreadyKnown, StoppedUnexpectedly
<1>2. CASE NothingLearned
  <2>1. /\ UNCHANGED <<queue, started, proxy>> /\ pc = "events"
        /\ "started" \notin env.changed /\ IsStarted' = IsStarted
    BY <1>2, Consumes DEF NothingLearned, Event, IInv, IsStarted
  <2>2. queue = <<>> \/ Head(queue).kind \notin Fresh
    <3>1. queue # <<>> => 1 \in 1 .. Len(queue) /\ Head(queue) = queue[1]
      BY DEF IInv, TypeOK
    <3> QED BY <2>1, <3>1 DEF Queues, ExitFollows
  <2> QED BY <2>1, <2>2, QueueStays DEF StoreStays, ExitStays
<1>3. CASE AutomaticStudioStopped
  <2>1. queue' = <<Plain("stop"), Plain("unload")>>
    BY <1>3 DEF AutomaticStudioStopped, Unloading
  <2>2. /\ Plain("stop").state = "PENDING" /\ Plain("unload").state = "PENDING"
        /\ Plain("stop").kind \notin Fresh /\ Plain("unload").kind \notin Fresh
    BY DEF Plain, Cmd
  <2>3. /\ \A i \in 1 .. Len(queue') : queue'[i].state = "PENDING" /\ queue'[i].kind \notin Fresh
        /\ Len(queue') = 2 /\ Head(queue').state = "PENDING"
    <3> DEFINE a == Plain("stop")
               b == Plain("unload")
    <3>1. /\ a.state = "PENDING" /\ b.state = "PENDING" /\ a.kind \notin Fresh /\ b.kind \notin Fresh
          /\ queue' = <<a, b>>
      BY <2>1, <2>2
    <3> HIDE DEF a, b
    <3> QED BY <3>1
  <2> QED BY <2>3 DEF Queues, Staged, HeadWaits, ExitFollows
<1>4. CASE AutomaticAssertion
  <2>1. /\ UNCHANGED <<queue, started, proxy, env>> /\ pc = "events"
    BY <1>4 DEF AutomaticAssertion, Dies
  <2>2. queue = <<>> \/ Head(queue).kind \notin Fresh
    <3>1. queue # <<>> => 1 \in 1 .. Len(queue) /\ Head(queue) = queue[1]
      BY DEF IInv, TypeOK
    <3> QED BY <2>1, <3>1 DEF Queues, ExitFollows
  <2> QED BY <2>1, <2>2, QueueStays DEF StoreStays, ExitStays
<1> QED BY <1>1, <1>2, <1>3, <1>4 DEF Events

\* every step
LEMMA NextQueues ==
  ASSUME IInv, Queues, [Next]_vars
  PROVE  Queues'
<1>1. pc = "cqueue" \/ queue = <<>> \/ Head(queue).kind \notin Fresh
  <2>1. queue # <<>> => 1 \in 1 .. Len(queue) /\ Head(queue) = queue[1]
    BY DEF IInv, TypeOK
  <2> QED BY <2>1 DEF Queues, ExitFollows
<1>2. CASE UNCHANGED vars \/ Ended \/ Jackdbus \/ Apps
  <2>1. UNCHANGED <<queue, started, proxy, env, pc, loaded, name, rooms>>
    BY <1>2 DEF Ended, Jackdbus, JackStarts, JackStops, JackCrashes,
       JackAppears, JackEvent, Apps, ChildExits, ClientsAppear,
       ClientsDisappear, RoomEmpties, AppStep
  <2> QED BY <2>1, QueueStays DEF StoreStays, ExitStays
<1>3. CASE DispatchSignal
  <2>1. UNCHANGED <<queue, started, proxy>> /\ pc = "dispatch"
    BY <1>3 DEF DispatchSignal
  <2>2. \/ "started" \in env'.changed
        \/ "started" \notin env.changed /\ UNCHANGED IsStarted
    <3>1. \A e \in EnvStore :
            /\ EnvSet(e, "present").changed = e.changed \cup {"present"}
            /\ EnvReset(e, "present").changed = e.changed \cup {"present"}
            /\ EnvSet(e, "present").state = e.state \cup {"present"}
            /\ EnvReset(e, "present").state = e.state \ {"present"}
            /\ "started" \in EnvSet(e, "started").changed
            /\ "started" \in EnvReset(e, "started").changed
      BY DEF EnvStore, EnvSet, EnvReset
    <3>2. env \in EnvStore
      BY DEF IInv, TypeOK
    <3>3. env' \in {EnvSet(env, "present"), EnvReset(env, "present"),
                    EnvSet(env, "started"), EnvReset(env, "started")}
      <4>1. Head(inbox) \in Signals
        BY <1>3 DEF DispatchSignal, IInv, TypeOK
      <4> QED BY <1>3, <4>1 DEF DispatchSignal, Signals
    <3> QED BY <3>1, <3>2, <3>3 DEF IsStarted
  <2> QED BY <1>1, <2>1, <2>2, QueueStays DEF StoreStays, ExitStays
<1>4. CASE DispatchNothing \/ Terminate \/ QueueRan
  <2>1. UNCHANGED <<queue, started, proxy, env>> /\ (pc = "dispatch" \/ queue = <<>>)
    BY <1>4 DEF DispatchNothing, Terminate, QueueRan
  <2> QED BY <1>1, <2>1, QueueStays DEF StoreStays, ExitStays
<1>5. CASE Requested
  BY <1>5, CommandsPrepared, QueueExtended DEF IInv
<1>6. CASE RunQueue
  BY <1>4, <1>6, StopQueues, StartQueues, CommandQueues DEF RunQueue
<1> QED
  BY <1>2, <1>3, <1>4, <1>5, <1>6, EventQueues DEF Next

-----------------------------------------------------------------------------
(***************************************************************************)
(* The assertions of the commands, and the theorems.                       *)
(***************************************************************************)
Assertions == {"cmd_stop_studio.c:169", "cmd_stop_studio.c:178", "cmd_start_studio.c:103"}

\* No step consumes the change that somebody else waits for.
LEMMA NextFaults ==
  ASSUME IInv, WInv, [Next]_vars
  PROVE  NobodyElseConsumes'
<1>1. fault' = fault \/ fault' \notin Assertions
  <2>1. CASE UNCHANGED vars \/ Ended \/ Jackdbus \/ Apps
    BY <2>1 DEF Ended, Jackdbus, JackStarts, JackStops, JackCrashes,
       JackAppears, JackEvent, Apps, ChildExits, ClientsAppear,
       ClientsDisappear, RoomEmpties, AppStep
  <2>2. CASE DispatchSignal \/ DispatchNothing \/ Terminate \/ QueueRan
    BY <2>2 DEF DispatchSignal, DispatchNothing, Terminate, QueueRan
  <2>3. CASE Requested
    BY <2>3, CommandsPrepared DEF Queued
  <2>4. CASE Events
    BY <2>4 DEF Events, NothingLearned, JackLost, AlreadyKnown,
       AutomaticStudio, AutomaticAssertion, StartedExternally,
       AutomaticStudioStopped, StoppedUnexpectedly, Event, Dies, Assertions
  <2>5. CASE OtherCommands
    BY <2>5 DEF OtherCommands, Unload, UnloadAssertion, NewStudio, Made,
       Asserted, LoadStudio, LoadFails, CreateRoom, CreateRoomFails,
       DeleteRoomInitiated, DeleteRoomAwaits, RoomDeleted, DeleteRoomUnknown,
       NewApp, NewAppFails, Exit, Done, Fail, Wait, WaitAs, Dies, Assertions
  <2>6. CASE StartStudio
    <3>1. ~(Waiting("start") /\ "started" \notin env.changed /\ IsStarted)
      BY DEF WInv, Staged, HeadWaits, Waiting
    <3> QED BY <2>6, <3>1 DEF StartStudio, StartIgnored, StartRefused,
       StartServer, StartAwaitsSignal, StartExpires, StartSignalled,
       StartAssertions, Done, Fail, Wait, WaitAs, FallThrough, Dies, Assertions
  <2>7. CASE StopStudio
    <3>1. Stopping("server") => proxy
      BY DEF WInv, Staged, HeadWaits, Stopping, Waiting
    <3>2. proxy => (("started" \in env.changed) <=> ~IsStarted)
      BY DEF WInv, Heard, IInv, Unlearned
    <3>3. ~(StopSignalled /\ IsStarted) /\ ~(StopAwaitsSignal /\ ~IsStarted)
      BY <3>1, <3>2 DEF StopSignalled, StopAwaitsSignal
    <3> QED BY <2>7, <3>3 DEF StopStudio, StopIgnored, StopInitiated,
       StopAwaitsRooms, StopRoomsStopped, StopAwaitsClients, StopClientsGone,
       StopWithoutVirtualizer, StopAwaitsChildren, StopServer, StopServerFails,
       StopPollStopped, StopPollWaits, StopExpires, StopSignalled,
       StopAwaitsSignal, Asserted, GoOnWaiting, ServerStopped, StopDone, Done,
       Fail, Wait, WaitAs, FallThrough, Dies, Assertions
  <2> QED BY <2>1, <2>2, <2>3, <2>4, <2>5, <2>6, <2>7 DEF Next, RunQueue
<1> QED BY <1>1 DEF WInv, NobodyElseConsumes, Assertions

\* the bound of the events is a number
LEMMA NextEvents ==
  ASSUME jackEvents \in Nat, [Next]_vars
  PROVE  jackEvents' \in Nat
<1>1. jackEvents' \in {jackEvents, jackEvents + 1}
  <2>1. CASE UNCHANGED vars \/ Ended \/ Jackdbus \/ Apps
    BY <2>1 DEF Ended, Jackdbus, JackStarts, JackStops, JackCrashes,
       JackAppears, JackEvent, Apps, ChildExits, ClientsAppear,
       ClientsDisappear, RoomEmpties, AppStep
  <2>2. CASE DispatchSignal \/ DispatchNothing \/ Terminate \/ QueueRan
    BY <2>2 DEF DispatchSignal, DispatchNothing, Terminate, QueueRan
  <2>3. CASE Requested
    BY <2>3, CommandsPrepared DEF Queued
  <2>4. CASE Events
    BY <2>4 DEF Events, NothingLearned, JackLost, AlreadyKnown,
       AutomaticStudio, AutomaticAssertion, StartedExternally,
       AutomaticStudioStopped, StoppedUnexpectedly, Event, Dies
  <2>5. CASE OtherCommands
    BY <2>5 DEF OtherCommands, Unload, UnloadAssertion, NewStudio, Made,
       Asserted, LoadStudio, LoadFails, CreateRoom, CreateRoomFails,
       DeleteRoomInitiated, DeleteRoomAwaits, RoomDeleted, DeleteRoomUnknown,
       NewApp, NewAppFails, Exit, Done, Fail, Wait, WaitAs, Dies
  <2>6. CASE StartStudio
    BY <2>6 DEF StartStudio, StartIgnored, StartRefused,
       StartServer, StartAwaitsSignal, StartExpires, StartSignalled,
       StartAssertions, Done, Fail, Wait, WaitAs, FallThrough, Dies
  <2>7. CASE StopStudio
    BY <2>7 DEF StopStudio, StopIgnored, StopInitiated,
       StopAwaitsRooms, StopRoomsStopped, StopAwaitsClients, StopClientsGone,
       StopWithoutVirtualizer, StopAwaitsChildren, StopServer, StopServerFails,
       StopPollStopped, StopPollWaits, StopExpires, StopSignalled,
       StopAwaitsSignal, Asserted, GoOnWaiting, ServerStopped, StopDone, Done,
       Fail, Wait, WaitAs, FallThrough, Dies
  <2> QED BY <2>1, <2>2, <2>3, <2>4, <2>5, <2>6, <2>7 DEF Next, RunQueue
<1> QED BY <1>1

\* at the start nothing waits, and the one signal there may be is a fresh one
LEMMA InitWaits == Init => WInv
<1> SUFFICES ASSUME Init PROVE WInv
  OBVIOUS
<1>1. Queues
  BY QueueInitially DEF Init
<1>2. Leads(inbox, jack)
  <2>1. CASE inbox = <<>>
    <3>1. Len(<<>>) = 0
      OBVIOUS
    <3> QED BY <2>1, <3>1 DEF Leads
  <2>2. CASE inbox = <<"appeared">> /\ jack = "idle"
    <3>1. After("appeared") = "idle"
      BY DEF After
    <3>2. Len(inbox) = 1 /\ inbox[1] = "appeared" /\ 1 .. Len(inbox) - 1 = {}
      BY <2>2
    <3> QED BY <2>2, <3>1, <3>2 DEF Leads
  <2> QED BY <2>1, <2>2 DEF Init
<1>3. Heard
  <2>1. CASE jack = "running"
    <3>1. inbox = <<>> /\ proxy = FALSE
      BY <2>1 DEF Init
    <3> QED BY <2>1, <3>1 DEF Heard, NotIdle, Runs
  <2>2. CASE jack # "running"
    <3>1. env.changed \in {{}, {"present"}} /\ proxy = FALSE
      BY <2>2 DEF Init
    <3> QED BY <3>1 DEF Heard
  <2> QED BY <2>1, <2>2
<1>4. jackEvents \in Nat /\ NobodyElseConsumes
  BY DEF Init, NobodyElseConsumes
<1> QED BY <1>1, <1>2, <1>3, <1>4 DEF WInv, Queues

\* WInv is an invariant: what a command found is true when it goes on
LEMMA Waiters == Spec => [](IInv /\ WInv)
<1>1. Init => IInv /\ WInv
  <2>1. Init => Unlearned
    BY DEF Init, Unlearned
  <2> QED BY <2>1, InitTypes, InitWaits DEF IInv
<1>2. IInv /\ WInv /\ [Next]_vars => (IInv /\ WInv)'
  <2> SUFFICES ASSUME IInv, WInv, [Next]_vars PROVE IInv' /\ WInv'
    OBVIOUS
  <2>1. IInv'
    BY NextTypes, NextFollows DEF IInv
  <2>2. Queues'
    BY NextQueues DEF WInv, Queues
  <2>3. Leads(inbox, jack)' /\ Heard'
    BY NextHeard DEF WInv
  <2>4. jackEvents' \in Nat /\ NobodyElseConsumes'
    BY NextEvents, NextFaults DEF WInv
  <2> QED BY <2>1, <2>2, <2>3, <2>4 DEF WInv, Queues
<1> QED BY <1>1, <1>2, PTL DEF Spec

\* For any number of requests and any behaviour of jackdbus, the change that a
\* waiting stop or start command waits for is there when it looks: the
\* assertions at cmd_stop_studio.c:169 and 178 and at cmd_start_studio.c:103
\* hold.  The one at cmd_start_studio.c:117 is none of them and can fail.
THEOREM NobodyElseConsumesTheorem == Spec => []NobodyElseConsumes
<1>1. WInv => NobodyElseConsumes
  BY DEF WInv
<1> QED BY <1>1, Waiters, PTL

\* The daemon itself stops a running JACK server only when no app it started
\* is alive and no room is started.
THEOREM ServerStoppedLastTheorem == Spec => ServerStoppedLast
<1>1. ASSUME IInv, WInv, [Next]_vars, pc = "cqueue", jackEvents' = jackEvents,
             jack = "running", jack' = "idle"
      PROVE  children = 0 /\ started = {}
  <2>1. StopServer
    <3>1. CASE UNCHANGED vars \/ Ended \/ Apps
      BY <1>1, <3>1 DEF Ended, Apps, ChildExits, ClientsAppear,
         ClientsDisappear, RoomEmpties, AppStep
    <3>2. CASE Jackdbus
      <4>1. jackEvents' = jackEvents + 1 /\ jackEvents \in Nat
        BY <1>1, <3>2 DEF Jackdbus, JackStarts, JackStops, JackCrashes,
           JackAppears, JackEvent, WInv
      <4> QED BY <1>1, <4>1
    <3>3. CASE DispatchSignal \/ DispatchNothing \/ Terminate \/ QueueRan
      BY <1>1, <3>3 DEF DispatchSignal, DispatchNothing, Terminate, QueueRan
    <3>4. CASE Requested
      BY <1>1, <3>4, CommandsPrepared DEF Queued
    <3>5. CASE Events
      BY <1>1, <3>5 DEF Events, NothingLearned, JackLost, AlreadyKnown,
         AutomaticStudio, AutomaticAssertion, StartedExternally,
         AutomaticStudioStopped, StoppedUnexpectedly, Event, JackStarted,
         SettingsUnread, GraphStarted, Called, Dies
    <3>6. CASE OtherCommands
      BY <1>1, <3>6 DEF OtherCommands, Unload, UnloadAssertion, NewStudio, Made,
         Asserted, LoadStudio, LoadFails, CreateRoom, CreateRoomFails,
         DeleteRoomInitiated, DeleteRoomAwaits, RoomDeleted, DeleteRoomUnknown,
         NewApp, NewAppFails, Exit, Called, Dies
    <3>7. CASE StartStudio
      BY <1>1, <3>7 DEF StartStudio, StartIgnored, StartRefused,
         StartServer, StartAwaitsSignal, StartExpires, StartSignalled,
         StartAssertions, JackStarted, SettingsUnread, GraphStarted, Called, Dies
    <3>8. CASE StopStudio
      BY <1>1, <3>8 DEF StopStudio, StopIgnored, StopInitiated,
         StopAwaitsRooms, StopRoomsStopped, StopAwaitsClients, StopClientsGone,
         StopWithoutVirtualizer, StopAwaitsChildren, StopServerFails,
         StopPollStopped, StopPollWaits, StopExpires, StopSignalled,
         StopAwaitsSignal, Asserted, GoOnWaiting, ServerStopped, Called, Dies
    <3> QED BY <1>1, <3>1, <3>2, <3>3, <3>4, <3>5, <3>6, <3>7, <3>8 DEF Next, RunQueue
  <2>2. children = 0 /\ HeadWaits("stop") /\ Head(queue).stage = "children"
    BY <2>1 DEF StopServer, Stopping, Waiting, HeadWaits
  <2> QED BY <1>1, <2>2 DEF WInv, Staged
<1>2. IInv /\ WInv /\ [Next]_vars =>
        [pc = "cqueue" /\ jackEvents' = jackEvents /\ jack = "running" /\ jack' = "idle"
         => children = 0 /\ started = {}]_vars
  BY <1>1
<1> QED BY <1>2, Waiters, PTL DEF Spec, ServerStoppedLast

\* Whenever the exit command makes the main loop end, the studio is unloaded
\* and its rooms are gone.
THEOREM ExitUnloadsTheorem == Spec => ExitUnloads
<1>1. ASSUME IInv, WInv, [Next]_vars, pc = "cqueue", ~quit, quit'
      PROVE  ~loaded /\ ~name /\ rooms = {}
  <2>1. Exit
    <3>1. CASE UNCHANGED vars \/ Ended \/ Apps \/ Jackdbus
      BY <1>1, <3>1 DEF Ended, Apps, ChildExits, ClientsAppear,
         ClientsDisappear, RoomEmpties, AppStep, Jackdbus, JackStarts,
         JackStops, JackCrashes, JackAppears, JackEvent
    <3>2. CASE DispatchSignal \/ DispatchNothing \/ Terminate \/ QueueRan
      BY <1>1, <3>2 DEF DispatchSignal, DispatchNothing, Terminate, QueueRan
    <3>3. CASE Requested
      BY <1>1, <3>3, CommandsPrepared DEF Queued
    <3>4. CASE Events
      BY <1>1, <3>4 DEF Events, NothingLearned, JackLost, AlreadyKnown,
         AutomaticStudio, AutomaticAssertion, StartedExternally,
         AutomaticStudioStopped, StoppedUnexpectedly, Event, Dies
    <3>5. CASE OtherCommands
      BY <1>1, <3>5 DEF OtherCommands, Unload, UnloadAssertion, NewStudio, Made,
         Asserted, LoadStudio, LoadFails, CreateRoom, CreateRoomFails,
         DeleteRoomInitiated, DeleteRoomAwaits, RoomDeleted, DeleteRoomUnknown,
         NewApp, NewAppFails, Done, Fail, Wait, WaitAs, Dies
    <3>6. CASE StartStudio
      BY <1>1, <3>6 DEF StartStudio, StartIgnored, StartRefused,
         StartServer, StartAwaitsSignal, StartExpires, StartSignalled,
         StartAssertions, Done, Fail, Wait, WaitAs, FallThrough, Dies
    <3>7. CASE StopStudio
      BY <1>1, <3>7 DEF StopStudio, StopIgnored, StopInitiated,
         StopAwaitsRooms, StopRoomsStopped, StopAwaitsClients, StopClientsGone,
         StopWithoutVirtualizer, StopAwaitsChildren, StopServer, StopServerFails,
         StopPollStopped, StopPollWaits, StopExpires, StopSignalled,
         StopAwaitsSignal, Asserted, GoOnWaiting, ServerStopped, StopDone, Done,
         Fail, Wait, WaitAs, FallThrough, Dies
    <3> QED BY <1>1, <3>1, <3>2, <3>3, <3>4, <3>5, <3>6, <3>7 DEF Next, RunQueue
  <2>2. 1 \in 1 .. Len(queue) /\ queue[1].kind = "exit"
    BY <1>1, <2>1 DEF Exit, Pending, IInv, TypeOK
  <2> QED BY <1>1, <2>2 DEF WInv, ExitFollows
<1>2. IInv /\ WInv /\ [Next]_vars =>
        [pc = "cqueue" /\ ~quit /\ quit' => ~loaded /\ ~name /\ rooms = {}]_vars
  BY <1>1
<1> QED BY <1>2, Waiters, PTL DEF Spec, ExitUnloads

\* A studio is created or loaded only where nothing is left of the one before:
\* the assertion of the new studio command holds, and no load is merged into a
\* studio that an earlier request left behind.
THEOREM StudioReplacedTheorem == Spec => []StudioReplaced
<1>1. IInv /\ WInv => StudioReplaced
  <2> SUFFICES ASSUME IInv, WInv, Pending("new") \/ Pending("load")
               PROVE  ~name /\ ~loaded /\ rooms = {}
    BY DEF StudioReplaced
  <2>1. 1 \in 1 .. Len(queue) /\ queue[1].kind \in Fresh
    BY DEF Pending, IInv, TypeOK
  <2> QED BY <2>1 DEF WInv, ExitFollows
<1> QED BY <1>1, Waiters, PTL

=============================================================================
