----------------------------- MODULE RoomsProofs -----------------------------
(***************************************************************************)
(* Theorems about Rooms, for any names, ports and failures, and any number *)
(* of rooms, requests and waiting commands.                                *)
(***************************************************************************)
EXTENDS Rooms, SequenceTheorems, TLAPS

Apps == [there : BOOLEAN, pid : BOOLEAN, asked : BOOLEAN, visible : BOOLEAN, autorun : BOOLEAN]

RoomRecords ==
  [there : BOOLEAN, name : Names \cup {""}, index : Nat, started : BOOLEAN, handlers : BOOLEAN,
   state : {"unloaded", "loaded", "disconnecting", "ending apps"},
   strings : {"none", "own", "freed"}, app : Apps, wired : {"no", "yes", "changing"}]

Commands ==
  [kind : {"create", "delete", "load", "unload", "save", "save as", "app", "start", "stop"},
   room : Ids \cup {0}, name : Names \cup {""}, phase : {"pending", "waiting", "rooms", "clients"}]

TypeOK ==
  /\ rooms \in [Ids -> RoomRecords]
  /\ made \in Nat /\ count \in Nat
  /\ queue \in Seq(Commands)

(***************************************************************************)
(* Every index in use was given and not taken back: it is not above the    *)
(* last one given, and no two rooms have the same.                         *)
(***************************************************************************)
Identified ==
  /\ \A r \in Existing : rooms[r].index \in 1 .. count
  /\ RoomsDiffer

IInv == TypeOK /\ Identified

(***************************************************************************)
(* Only the command that runs waits, and says what the rooms are in: while *)
(* the studio stops no room has handlers, and the room that is deleted has *)
(* none.                                                                   *)
(***************************************************************************)
OnlyHeadWaits == \A i \in 1 .. Len(queue) : queue[i].phase # "pending" => i = 1

Unlinked(r) == rooms[r].started => ~rooms[r].handlers

Phases ==
  queue # << >> =>
    /\ Head1.phase = "rooms" => \A r \in Ids : Unlinked(r)
    /\ Head1.phase = "clients" => \A r \in Ids : ~rooms[r].started
    /\ Head1.kind = "delete" /\ ~Pending => \A r \in Named(Head1.name) : Unlinked(r)

(***************************************************************************)
(* A room is started while it exists and the studio is, and the pairs that *)
(* are dead are those of rooms whose start failed in the middle.           *)
(***************************************************************************)
Linked ==
  /\ \A x \in pairs : x \in [room : Ids, port : Ports, dead : BOOLEAN] /\ (x.dead => x.room \in leaky)
  /\ \A r \in Ids : rooms[r].started => rooms[r].there /\ jack
  /\ LinksBelong

LInv == OnlyHeadWaits /\ Phases /\ Linked

-----------------------------------------------------------------------------
(***************************************************************************)
(* What starts, stops, asks and loads in a room leaves its identity alone. *)
(***************************************************************************)
Same(x, y) ==
  y \in RoomRecords /\ y.there = x.there /\ (x.there => y.name = x.name /\ y.index = x.index)

\* What starts, asks or restarts an app gives an app.
LEMMA AppsStayApps ==
  ASSUME NEW app \in Apps
  PROVE  Runs(app) \in Apps /\ Autorun(app) \in Apps /\ Asked(app) \in Apps
BY DEF Apps, Runs, Autorun, Asked

\* No app has the type of an app.
LEMMA NoAppIsApp == NoApp \in Apps
BY DEF NoApp, Apps

\* Starting and stopping leave the identity of a room alone.
LEMMA StartingIsSame ==
  ASSUME NEW x \in RoomRecords
  PROVE  Same(x, StartedRoom(x)) /\ Same(x, StoppingRoom(x))
BY AppsStayApps DEF RoomRecords, Same, StartedRoom, StoppingRoom

\* So do unloading and loading its project.
LEMMA ClearingIsSame ==
  ASSUME NEW x \in RoomRecords
  PROVE  Same(x, Cleared(x)) /\ \A y \in Loads(x) : Same(x, y)
<1>1. Same(x, Cleared(x))
  BY NoAppIsApp DEF RoomRecords, Same, Cleared
<1>2. ASSUME NEW app \in Apps PROVE Same(x, LoadedWith(x, app))
  <2> Autorun(app) \in Apps
    BY AppsStayApps
  <2> QED
    BY <1>1 DEF RoomRecords, Same, LoadedWith
<1>3. [NoApp EXCEPT !.there = TRUE] \in Apps /\ [NoApp EXCEPT !.there = TRUE, !.autorun = TRUE] \in Apps
  BY DEF NoApp, Apps
<1> QED
  BY <1>1, <1>2, <1>3, NoAppIsApp DEF Loads

\* A deleted room has the type of a room.
LEMMA GoneIsRoom == Gone \in RoomRecords /\ ~Gone.there
BY NoAppIsApp DEF Gone, RoomRecords

\* There is always a next index.
LEMMA NextIndex == TypeOK => count + 1 \in Nat
BY DEF TypeOK

\* A new room has the name asked for and the next index (room.c).
LEMMA NewIsRoom ==
  ASSUME TypeOK, NEW n \in Names \cup {""}
  PROVE  NewRoom(n) \in RoomRecords /\ NewRoom(n).there /\ NewRoom(n).name = n /\ NewRoom(n).index = count + 1
BY NextIndex, GoneIsRoom DEF NewRoom, RoomRecords

(***************************************************************************)
(* A step that keeps the identities of all rooms keeps them different.     *)
(***************************************************************************)
LEMMA SameIdentities ==
  ASSUME IInv, rooms' \in [Ids -> RoomRecords],
         \A r \in Ids : Same(rooms[r], rooms'[r]), count' = count
  PROVE  Identified'
BY DEF IInv, TypeOK, Identified, RoomsDiffer, Existing, Same

\* A change of one room that leaves its identity alone leaves all identities alone.
LEMMA OneChanges ==
  ASSUME IInv, NEW r, NEW x, rooms' = [rooms EXCEPT ![r] = x],
         r \in Ids => Same(rooms[r], x), count' = count
  PROVE  rooms' \in [Ids -> RoomRecords] /\ Identified'
<1>1. \A q \in Ids : Same(rooms[q], rooms[q])
  BY DEF IInv, TypeOK, Same
<1>2. /\ rooms' \in [Ids -> RoomRecords]
      /\ \A q \in Ids : Same(rooms[q], rooms'[q])
  BY <1>1 DEF IInv, TypeOK, Same
<1> QED
  BY <1>2, SameIdentities

(***************************************************************************)
(* A new room gets the next index; the index of a destroyed room is taken  *)
(* back only if no room can have a greater one.                            *)
(***************************************************************************)
LEMMA CreationKeeps ==
  ASSUME IInv, NEW r, NEW n, Named(n) = {}, count' = count + 1,
         NEW x \in RoomRecords, x.there, x.name = n, x.index = count + 1,
         rooms' = [rooms EXCEPT ![r] = x]
  PROVE  rooms' \in [Ids -> RoomRecords] /\ count' \in Nat /\ Identified'
<1>1. count \in Nat /\ count' \in Nat
  BY NextIndex DEF IInv, TypeOK
<1>2. rooms' \in [Ids -> RoomRecords]
  BY DEF IInv, TypeOK
<1>3. \A q \in Ids : rooms'[q] = IF q = r THEN x ELSE rooms[q]
  BY DEF IInv, TypeOK
<1>4. \A q \in Existing : rooms[q].index \in 1 .. count /\ rooms[q].name # n
  BY DEF IInv, Identified, Named
<1>5. \A q \in Existing' : q = r \/ (q \in Existing /\ rooms'[q] = rooms[q])
  BY <1>3 DEF Existing
<1>6. r \in Existing' => rooms'[r] = x
  BY <1>3 DEF Existing
<1>7. count + 1 \in 1 .. count' /\ \A i \in 1 .. count : i \in 1 .. count' /\ i # count + 1
  BY <1>1
<1>8. \A q \in Existing' : rooms'[q].index \in 1 .. count'
  BY <1>4, <1>5, <1>6, <1>7
<1>9. RoomsDiffer'
  BY <1>4, <1>5, <1>6, <1>7 DEF RoomsDiffer, IInv, Identified
<1> QED
  BY <1>1, <1>2, <1>8, <1>9 DEF Identified

\* Giving back the index of a destroyed room leaves no index in use above the count.
LEMMA DestructionKeeps ==
  ASSUME IInv, NEW r \in Existing, Destroy(r)
  PROVE  rooms' \in [Ids -> RoomRecords] /\ count' \in Nat /\ Identified'
<1>1. rooms' \in [Ids -> RoomRecords]
  BY GoneIsRoom DEF Destroy, IInv, TypeOK
<1>2. \A q \in Existing' : q \in Existing /\ q # r /\ rooms'[q] = rooms[q]
  BY GoneIsRoom DEF Destroy, IInv, TypeOK, Existing
<1>3. \A q \in Existing : rooms[q].index \in 1 .. count /\ (q # r => rooms[q].index # rooms[r].index)
  BY DEF IInv, Identified, RoomsDiffer
<1>4. count' \in Nat /\ \A q \in Existing : q # r => rooms[q].index \in 1 .. count'
  BY <1>3 DEF Destroy, Released, IInv, TypeOK
<1>5. RoomsDiffer'
  BY <1>2 DEF RoomsDiffer, IInv, Identified
<1> QED
  BY <1>1, <1>2, <1>4, <1>5 DEF Identified

-----------------------------------------------------------------------------
(***************************************************************************)
(* The queue.                                                              *)
(***************************************************************************)
LEMMA HeadIsCommand ==
  ASSUME TypeOK, queue # << >>
  PROVE  Head1 \in Commands
BY HeadTailProperties DEF TypeOK, Head1

\* The queue goes on consisting of commands.
LEMMA QueueStays ==
  ASSUME TypeOK
  PROVE  /\ Fails => queue' \in Seq(Commands)
         /\ queue # << >> /\ Done => queue' \in Seq(Commands)
         /\ \A phase \in {"pending", "waiting", "rooms", "clients"} :
              queue # << >> /\ Waits(phase) => queue' \in Seq(Commands)
<1>1. Fails => queue' \in Seq(Commands)
  BY EmptySeq DEF Fails
<1>2. queue # << >> => Tail(queue) \in Seq(Commands)
  BY HeadTailProperties DEF TypeOK
<1>3. ASSUME NEW phase \in {"pending", "waiting", "rooms", "clients"}, queue # << >>, Waits(phase)
      PROVE  queue' \in Seq(Commands)
  <2>1. [Head1 EXCEPT !.phase = phase] \in Commands
    BY <1>3, HeadIsCommand DEF Commands
  <2>2. << [Head1 EXCEPT !.phase = phase] >> \in Seq(Commands)
    BY <2>1
  <2> QED
    BY <1>2, <1>3, <2>2, ConcatProperties DEF Waits
<1> QED
  BY <1>1, <1>2, <1>3 DEF Done

(***************************************************************************)
(* A step that changes no room.                                            *)
(***************************************************************************)
LEMMA RoomsRest ==
  ASSUME IInv, UNCHANGED <<rooms, made, count>>, queue' \in Seq(Commands)
  PROVE  IInv'
BY DEF IInv, TypeOK, Identified, RoomsDiffer, Existing

\* A refused request keeps IInv.
LEMMA RefusedKeeps == ASSUME IInv, Refused PROVE IInv'
BY QueueStays, RoomsRest DEF Refused, IInv

\* A failed assertion keeps IInv.
LEMMA AssertsKeeps == ASSUME IInv, NEW line, Asserts(line) PROVE IInv'
<1>1. queue' \in Seq(Commands)
  BY DEF Asserts, IInv, TypeOK
<1> QED
  BY <1>1, RoomsRest DEF Asserts

\* A step that leaves the identity of one room alone keeps IInv.
LEMMA OneStep ==
  ASSUME IInv, NEW r, NEW x, rooms' = [rooms EXCEPT ![r] = x], r \in Ids => Same(rooms[r], x),
         UNCHANGED <<made, count>>, queue' \in Seq(Commands)
  PROVE  IInv'
BY OneChanges DEF IInv, TypeOK

\* A step that leaves all identities alone keeps IInv.
LEMMA ManyStep ==
  ASSUME IInv, rooms' \in [Ids -> RoomRecords], \A r \in Ids : Same(rooms[r], rooms'[r]),
         UNCHANGED <<made, count>>, queue' \in Seq(Commands)
  PROVE  IInv'
BY SameIdentities DEF IInv, TypeOK

-----------------------------------------------------------------------------
(***************************************************************************)
(* The steps.                                                              *)
(***************************************************************************)
LEMMA RequestKeeps == ASSUME IInv, Request PROVE IInv'
<1>1. ASSUME NEW kind \in {"create", "delete", "load", "unload", "save", "save as", "app", "start", "stop"},
             NEW room \in Ids \cup {0}, NEW name \in Names \cup {""}, Ask(kind, room, name)
      PROVE  IInv'
  <2>1. [kind |-> kind, room |-> room, name |-> name, phase |-> "pending"] \in Commands
    BY DEF Commands
  <2>2. queue' \in Seq(Commands)
    BY <1>1, <2>1, AppendProperties DEF Ask, IInv, TypeOK
  <2> QED
    BY <1>1, <2>2, RoomsRest DEF Ask
<1>2. AskOfRoom => IInv'
  BY <1>1 DEF AskOfRoom
<1>3. AskOfProject => IInv'
  BY <1>1 DEF AskOfProject, Existing
<1>4. AskOfStudio => IInv'
  BY <1>1 DEF AskOfStudio
<1> QED
  BY <1>2, <1>3, <1>4 DEF Request

\* RunCreate keeps IInv.
LEMMA CreateKeeps == ASSUME IInv, RunCreate PROVE IInv'
<1> DEFINE r == made + 1
           n == Head1.name
           new == IF jack THEN StartedRoom(NewRoom(n)) ELSE NewRoom(n)
<1>1. CASE Refused
  BY <1>1, RefusedKeeps
<1>2. CASE /\ Named(n) = {} /\ Done /\ made' = r /\ count' = count + 1
           /\ rooms' = [rooms EXCEPT ![r] = new]
  <2>1. queue # << >> /\ n \in Names \cup {""}
    BY HeadIsCommand DEF RunCreate, IsNext, IInv, Commands
  <2>2. new \in RoomRecords /\ new.there /\ new.name = n /\ new.index = count + 1
    <3>1. /\ NewRoom(n) \in RoomRecords /\ NewRoom(n).there
          /\ NewRoom(n).name = n /\ NewRoom(n).index = count + 1
      BY <2>1, NewIsRoom DEF IInv
    <3>2. Same(NewRoom(n), StartedRoom(NewRoom(n)))
      BY <3>1, StartingIsSame
    <3> HIDE DEF n
    <3> QED
      BY <3>1, <3>2 DEF Same
  <2>3. rooms' \in [Ids -> RoomRecords] /\ count' \in Nat /\ Identified'
    <3> HIDE DEF r, n, new
    <3> QED
      BY <1>2, <2>2, CreationKeeps
  <2>4. queue' \in Seq(Commands)
    BY <1>2, <2>1, QueueStays DEF IInv
  <2>5. made' \in Nat
    BY <1>2 DEF IInv, TypeOK
  <2> QED
    BY <2>3, <2>4, <2>5 DEF IInv, TypeOK
<1>3. CASE Fails /\ made' = r /\ UNCHANGED <<rooms, count>>
  <2>1. queue' \in Seq(Commands)
    BY <1>3, QueueStays DEF IInv
  <2>2. made' \in Nat
    BY <1>3 DEF IInv, TypeOK
  <2> QED
    BY <1>3, <2>1, <2>2 DEF IInv, TypeOK, Identified, RoomsDiffer, Existing
<1> QED
  BY <1>1, <1>2, <1>3 DEF RunCreate

\* RunDelete keeps IInv.
LEMMA DeleteKeeps == ASSUME IInv, RunDelete PROVE IInv'
<1> queue # << >>
  BY DEF RunDelete, IsNext
<1>1. CASE Refused
  BY <1>1, RefusedKeeps
<1>2. ASSUME NEW r \in Named(Head1.name), Waits("waiting"), rooms' = [rooms EXCEPT ![r] = StoppingRoom(@)],
             UNCHANGED <<made, count>>
      PROVE  IInv'
  <2>1. r \in Ids /\ rooms[r] \in RoomRecords
    BY DEF Named, Existing, IInv, TypeOK
  <2>2. Same(rooms[r], StoppingRoom(rooms[r]))
    BY <2>1, StartingIsSame
  <2>3. queue' \in Seq(Commands)
    BY <1>2, QueueStays DEF IInv
  <2>4. rooms' = [rooms EXCEPT ![r] = StoppingRoom(rooms[r])]
    BY <1>2
  <2> HIDE <1>2
  <2> QED
    BY <1>2, <2>2, <2>3, <2>4, OneStep
<1>3. ASSUME NEW r \in Named(Head1.name), Done, Destroy(r), made' = made
      PROVE  IInv'
  <2>1. queue' \in Seq(Commands)
    BY <1>3, QueueStays DEF IInv
  <2>2. r \in Existing
    BY DEF Named
  <2> QED
    BY <1>3, <2>1, <2>2, DestructionKeeps DEF IInv, TypeOK
<1> QED
  BY <1>1, <1>2, <1>3 DEF RunDelete

\* RunStart keeps IInv.
LEMMA StartKeeps == ASSUME IInv, RunStart PROVE IInv'
<1> queue # << >>
  BY DEF RunStart, IsNext
<1>1. \A r \in Ids : rooms[r] \in RoomRecords
  BY DEF IInv, TypeOK
<1>2. \A x \in RoomRecords : Same(x, StartedRoom(x)) /\ (~x.there => Same(x, Gone))
  <2>1. \A x \in RoomRecords : x.there \in BOOLEAN
    BY DEF RoomRecords
  <2>2. Gone \in RoomRecords /\ Gone.there = FALSE
    BY GoneIsRoom, <2>1
  <2> QED
    BY <2>1, <2>2, StartingIsSame DEF Same
<1>3. Done => queue' \in Seq(Commands)
  BY QueueStays DEF IInv
<1>4. CASE Done /\ UNCHANGED <<rooms, made, count>>
  BY <1>3, <1>4, RoomsRest
<1>5. CASE Refused
  BY <1>5, RefusedKeeps
<1>6. ASSUME Done, UNCHANGED <<made, count>>,
             rooms' = [r \in Ids |-> IF rooms[r].there THEN StartedRoom(rooms[r]) ELSE Gone]
      PROVE  IInv'
  <2>1. \A r \in Ids : Same(rooms[r], rooms'[r])
    BY <1>1, <1>2, <1>6
  <2>2. rooms' \in [Ids -> RoomRecords]
    BY <1>6, <2>1 DEF Same
  <2> QED
    BY <1>3, <1>6, <2>1, <2>2, ManyStep
<1>7. ASSUME NEW bad \in Existing, NEW before, Done, UNCHANGED <<made, count>>,
             rooms' = [r \in Ids |-> IF r \in before THEN StartedRoom(rooms[r])
                                     ELSE [rooms[r] EXCEPT !.handlers = rooms[r].there]]
      PROVE  IInv'
  <2>1. \A r \in Ids : Same(rooms[r], [rooms[r] EXCEPT !.handlers = rooms[r].there])
    BY <1>1 DEF Same, RoomRecords
  <2>2. \A r \in Ids : Same(rooms[r], rooms'[r])
    BY <1>1, <1>2, <1>7, <2>1
  <2>3. rooms' \in [Ids -> RoomRecords]
    BY <1>7, <2>2 DEF Same
  <2> QED
    BY <1>3, <1>7, <2>2, <2>3, ManyStep
<1> QED
  BY <1>4, <1>5, <1>6, <1>7 DEF RunStart

\* RunStop keeps IInv.
LEMMA StopKeeps == ASSUME IInv, RunStop PROVE IInv'
<1> queue # << >>
  BY DEF RunStop, IsNext
<1>1. \A r \in Ids : rooms[r] \in RoomRecords
  BY DEF IInv, TypeOK
<1>2. Done => queue' \in Seq(Commands)
  BY QueueStays DEF IInv
<1>3. Waits("rooms") \/ Waits("clients") => queue' \in Seq(Commands)
  BY QueueStays DEF IInv
<1>4. CASE Done /\ UNCHANGED <<rooms, made, count>>
  BY <1>2, <1>4, RoomsRest
<1>5. CASE /\ Waits("rooms") /\ UNCHANGED <<made, count>>
           /\ rooms' = [r \in Ids |-> [StoppingRoom(rooms[r]) EXCEPT !.app = Asked(@)]]
  <2>1. ASSUME NEW x \in RoomRecords
        PROVE  Same(x, [StoppingRoom(x) EXCEPT !.app = Asked(@)])
    <3>1. StoppingRoom(x) \in RoomRecords /\ Same(x, StoppingRoom(x))
      BY StartingIsSame DEF Same
    <3>2. ASSUME NEW y \in RoomRecords PROVE Same(y, [y EXCEPT !.app = Asked(@)])
      <4>1. y.app \in Apps
        BY DEF RoomRecords
      <4> QED
        BY <4>1, AppsStayApps DEF Same, RoomRecords
    <3> QED
      BY <3>1, <3>2 DEF Same
  <2>2. \A r \in Ids : Same(rooms[r], rooms'[r])
    BY <1>1, <1>5, <2>1
  <2>3. rooms' \in [Ids -> RoomRecords]
    BY <1>5, <2>2 DEF Same
  <2> QED
    BY <1>3, <1>5, <2>2, <2>3, ManyStep
<1>6. CASE /\ Waits(IF FoundStopped = Existing THEN "clients" ELSE "rooms") /\ UNCHANGED <<made, count>>
           /\ rooms' = [r \in Ids |-> IF r \in FoundStopped THEN [rooms[r] EXCEPT !.started = FALSE] ELSE rooms[r]]
  <2>1. \A r \in Ids : Same(rooms[r], rooms[r]) /\ Same(rooms[r], [rooms[r] EXCEPT !.started = FALSE])
    BY <1>1 DEF Same, RoomRecords
  <2>2. \A r \in Ids : Same(rooms[r], rooms'[r])
    BY <1>6, <2>1
  <2>3. rooms' \in [Ids -> RoomRecords]
    BY <1>6, <2>2 DEF Same
  <2>4. queue' \in Seq(Commands)
    BY <1>3, <1>6
  <2> QED
    BY <1>6, <2>2, <2>3, <2>4, ManyStep
<1> QED
  BY <1>4, <1>5, <1>6 DEF RunStop

(***************************************************************************)
(* What changes one room and keeps its identity.                           *)
(***************************************************************************)
LEMMA ChangeKeeps ==
  ASSUME IInv, NEW r, NEW x, ChangesRoom(r, x), r \in Ids => Same(rooms[r], x), queue' \in Seq(Commands)
  PROVE  IInv'
BY OneStep DEF ChangesRoom

\* What the list holds are rooms.
LEMMA RoomIsRecord == ASSUME IInv, NEW r \in Ids PROVE rooms[r] \in RoomRecords /\ Same(rooms[r], rooms[r])
BY DEF IInv, TypeOK, Same

\* The end of an unload keeps IInv.
LEMMA UnloadEndsKeeps == ASSUME IInv, queue # << >>, NEW r, UnloadEnds(r) PROVE IInv'
<1>1. r \in Ids => Same(rooms[r], Cleared(rooms[r])) /\ \A y \in Loads(rooms[r]) : Same(rooms[r], y)
  BY RoomIsRecord, ClearingIsSame
<1>2. queue' \in Seq(Commands)
  BY QueueStays DEF UnloadEnds, IInv
<1>3. \/ ChangesRoom(r, Cleared(rooms[r]))
      \/ \E x \in Loads(rooms[r]) : ChangesRoom(r, x)
  BY DEF UnloadEnds
<1> QED
  BY <1>1, <1>2, <1>3, ChangeKeeps

\* A command that goes on keeps IInv.
LEMMA ContinuesKeeps ==
  ASSUME IInv, queue # << >>, NEW r, NEW x, Continues(r, x), r \in Ids => Same(rooms[r], x)
  PROVE  IInv'
<1>1. queue' \in Seq(Commands)
  BY QueueStays DEF Continues, IInv
<1> QED
  BY <1>1, ChangeKeeps DEF Continues

\* RunUnload keeps IInv.
LEMMA UnloadKeeps == ASSUME IInv, RunUnload PROVE IInv'
<1> queue # << >>
  BY DEF RunUnload, IsNext
<1> DEFINE r == Head1.room
           x == rooms[r]
           Taken == [x EXCEPT !.state = "disconnecting", !.wired = IF x.wired = "yes" THEN "changing" ELSE @]
           Ending == [x EXCEPT !.state = "ending apps", !.app = Asked(@)]
<1>1. r \in Ids => Same(x, Taken) /\ Same(x, Ending)
  <2>1. ASSUME NEW y \in RoomRecords
        PROVE  /\ Same(y, [y EXCEPT !.state = "disconnecting",
                                    !.wired = IF y.wired = "yes" THEN "changing" ELSE @])
               /\ Same(y, [y EXCEPT !.state = "ending apps", !.app = Asked(@)])
    <3>1. y.app \in Apps
      BY DEF RoomRecords
    <3>2. Asked(y.app) \in Apps
      BY <3>1, AppsStayApps
    <3> QED
      BY <3>2 DEF Same, RoomRecords
  <2> QED
    BY <2>1, RoomIsRecord
<1>2. CASE Refused
  BY <1>2, RefusedKeeps
<1>3. CASE UnloadEnds(r)
  BY <1>3, UnloadEndsKeeps
<1>4. CASE Continues(r, Taken) \/ Continues(r, Ending)
  <2> HIDE DEF Taken, Ending
  <2> QED
    BY <1>1, <1>4, ContinuesKeeps
<1>5. CASE Asserts("graph.c:2377")
  BY <1>5, AssertsKeeps
<1> QED
  BY <1>2, <1>3, <1>4, <1>5 DEF RunUnload, UnloadAt

\* RunSave keeps IInv.
LEMMA SaveKeeps == ASSUME IInv, RunSave PROVE IInv'
<1> queue # << >>
  BY DEF RunSave, IsNext
<1> DEFINE r == Head1.room
           x == rooms[r]
           Saved == [x EXCEPT !.state = "loaded", !.strings = "own"]
           Failed == IF x.strings = "own" /\ Head1.kind = "save as" THEN [x EXCEPT !.strings = "freed"] ELSE x
<1>1. r \in Ids => Same(x, Saved) /\ Same(x, Failed)
  <2>1. ASSUME NEW y \in RoomRecords
        PROVE  Same(y, [y EXCEPT !.state = "loaded", !.strings = "own"]) /\ Same(y, [y EXCEPT !.strings = "freed"])
    BY DEF Same, RoomRecords
  <2> QED
    BY <2>1, RoomIsRecord
<1>2. Done \/ Fails => queue' \in Seq(Commands)
  BY QueueStays DEF IInv
<1>3. CASE Refused
  BY <1>3, RefusedKeeps
<1>4. CASE Asserts("room_save.c:454")
  BY <1>4, AssertsKeeps
<1>5. CASE (Done \/ Fails) /\ (ChangesRoom(r, Saved) \/ ChangesRoom(r, Failed))
  <2> HIDE DEF Saved, Failed
  <2> QED
    BY <1>1, <1>2, <1>5, ChangeKeeps
<1> QED
  BY <1>3, <1>4, <1>5 DEF RunSave

\* RunApp keeps IInv.
LEMMA AppKeeps == ASSUME IInv, RunApp PROVE IInv'
<1> queue # << >>
  BY DEF RunApp, IsNext
<1> DEFINE r == Head1.room
           new == [NoApp EXCEPT !.there = TRUE, !.autorun = TRUE]
           x == IF rooms[r].app.there THEN rooms[r] ELSE [rooms[r] EXCEPT !.app = IF jack THEN Runs(new) ELSE new]
<1>1. new \in Apps
  BY DEF NoApp, Apps
<1>2. \A app \in Apps, y \in RoomRecords : Same(y, [y EXCEPT !.app = app])
  BY DEF Same, RoomRecords
<1>3. r \in Ids => Same(rooms[r], x)
  <2>1. (IF jack THEN Runs(new) ELSE new) \in Apps
    BY <1>1, AppsStayApps
  <2> HIDE DEF new
  <2> QED
    BY <1>2, <2>1, RoomIsRecord
<1>4. CASE Refused
  BY <1>4, RefusedKeeps
<1>5. CASE Done /\ ChangesRoom(r, x)
  <2>1. queue' \in Seq(Commands)
    BY <1>5, QueueStays DEF IInv
  <2> HIDE DEF x
  <2> QED
    BY <1>3, <1>5, <2>1, ChangeKeeps
<1> QED
  BY <1>4, <1>5 DEF RunApp

\* What users, apps, jmcore and JACK do keeps IInv.
LEMMA WorldKeeps == ASSUME IInv, World PROVE IInv'
<1>1. queue \in Seq(Commands)
  BY DEF IInv, TypeOK
<1>2. ASSUME NEW r \in Ids, NEW x, Becomes(r, x), Same(rooms[r], x)
      PROVE  IInv'
  BY <1>1, <1>2, OneStep DEF Becomes
<1>3. ASSUME NEW y \in RoomRecords
      PROVE  /\ Same(y, [y EXCEPT !.app.visible = TRUE])
             /\ Same(y, [y EXCEPT !.app.pid = FALSE, !.app.asked = FALSE])
             /\ Same(y, [y EXCEPT !.app.visible = FALSE, !.wired = "no"])
             /\ Same(y, [y EXCEPT !.wired = "yes"])
             /\ Same(y, [y EXCEPT !.wired = "no"])
  <2>1. y.app \in Apps
    BY DEF RoomRecords
  <2>2. /\ [y.app EXCEPT !.visible = TRUE] \in Apps
        /\ [y.app EXCEPT !.pid = FALSE, !.asked = FALSE] \in Apps
        /\ [y.app EXCEPT !.visible = FALSE] \in Apps
    BY <2>1 DEF Apps
  <2> QED
    BY <2>2 DEF Same, RoomRecords
<1>4. CASE AppAppears
  BY <1>2, <1>3, <1>4, RoomIsRecord DEF AppAppears, Existing
<1>5. CASE AppExits
  BY <1>2, <1>3, <1>5, RoomIsRecord DEF AppExits, Existing
<1>6. CASE AppDisappears
  BY <1>2, <1>3, <1>6, RoomIsRecord DEF AppDisappears, Existing
<1>7. CASE UserConnects
  BY <1>2, <1>3, <1>7, RoomIsRecord DEF UserConnects, Existing
<1>8. CASE PortsDisconnected
  BY <1>2, <1>3, <1>8, RoomIsRecord DEF PortsDisconnected, Existing
<1>9. CASE LostExits \/ LinkAppeared \/ LinkDisappeared \/ BuryZombiePairs
  <2>1. UNCHANGED <<rooms, made, count, queue>>
    BY <1>9 DEF LostExits, LinkAppeared, LinkDisappeared, LinkSignal, BuryZombiePairs
  <2> QED
    BY <1>1, <2>1, RoomsRest
<1> QED
  BY <1>4, <1>5, <1>6, <1>7, <1>8, <1>9 DEF World

-----------------------------------------------------------------------------
\* IInv holds when the daemon starts.
LEMMA InitIsSound == Init => IInv
<1> SUFFICES ASSUME Init PROVE IInv
  OBVIOUS
<1>1. rooms \in [Ids -> RoomRecords] /\ \A r \in Ids : ~rooms[r].there
  BY GoneIsRoom DEF Init
<1>2. made \in Nat /\ count \in Nat
  BY DEF Init
<1>3. queue \in Seq(Commands)
  BY EmptySeq DEF Init
<1> QED
  BY <1>1, <1>2, <1>3 DEF IInv, TypeOK, Identified, RoomsDiffer, Existing

\* Every step keeps IInv.
LEMMA StepsAreSound == IInv /\ [Next]_vars => IInv'
<1> SUFFICES ASSUME IInv, [Next]_vars PROVE IInv'
  OBVIOUS
<1>1. CASE Request
  BY <1>1, RequestKeeps
<1>2. CASE Run
  BY <1>2, CreateKeeps, DeleteKeeps, StartKeeps, StopKeeps, UnloadKeeps, SaveKeeps, AppKeeps DEF Run
<1>3. CASE World
  BY <1>3, WorldKeeps
<1>4. CASE UNCHANGED vars
  BY <1>4, RoomsRest DEF vars, IInv, TypeOK
<1> QED
  BY <1>1, <1>2, <1>3, <1>4 DEF Next

(***************************************************************************)
(* Rooms keep their shape, and whatever is made, deleted, started, loaded  *)
(* or fails, the object path and the name of a room are those of no other  *)
(* (cmd_create_room.c, studio.c: ladish_studio_release_room_index).        *)
(***************************************************************************)
THEOREM Identities == Spec => [](TypeOK /\ RoomsDiffer)
<1>1. IInv => TypeOK /\ RoomsDiffer
  BY DEF IInv, Identified
<1> QED
  BY InitIsSound, StepsAreSound, <1>1, PTL DEF Spec

-----------------------------------------------------------------------------
(***************************************************************************)
(* The links.                                                              *)
(***************************************************************************)

\* The command that waits is the one that waited.
StillWaits ==
  /\ queue # << >>
  /\ Head(queue').phase = Head1.phase /\ Head(queue').kind = Head1.kind /\ Head(queue').name = Head1.name

\* When the head leaves, the new one has not run yet.
LEMMA QueueFrees ==
  ASSUME TypeOK, OnlyHeadWaits, Fails \/ (queue # << >> /\ Done)
  PROVE  OnlyHeadWaits' /\ (queue' # << >> => Head(queue').phase = "pending")
<1>1. CASE Fails
  BY <1>1 DEF Fails, OnlyHeadWaits
<1>2. CASE queue # << >> /\ Done
  <2>1. /\ queue \in Seq(Commands) /\ queue' = Tail(queue)
        /\ Len(queue) \in Nat /\ Len(queue) > 0
    BY <1>2 DEF TypeOK, Done
  <2>2. Len(queue') = Len(queue) - 1 /\ \A i \in 1 .. Len(queue') : queue'[i] = queue[i + 1]
    BY <1>2, <2>1
  <2>3. \A i \in 1 .. Len(queue') : queue'[i].phase = "pending"
    <3> TAKE i \in 1 .. Len(queue')
    <3>1. i + 1 \in 1 .. Len(queue) /\ i + 1 # 1
      BY <2>1, <2>2
    <3> QED BY <2>2, <3>1 DEF OnlyHeadWaits
  <2>4. queue' # << >> => 1 \in 1 .. Len(queue') /\ Head(queue') = queue'[1]
    BY <1>2, <2>1
  <2> QED BY <2>3, <2>4 DEF OnlyHeadWaits
<1> QED BY <1>1, <1>2

\* A new command changes the head only if the queue was empty.
LEMMA QueueGrows ==
  ASSUME TypeOK, OnlyHeadWaits, NEW c \in Commands, c.phase = "pending", queue' = Append(queue, c)
  PROVE  OnlyHeadWaits' /\ (StillWaits \/ Head(queue').phase = "pending")
<1>1. queue \in Seq(Commands) /\ Len(queue) \in Nat
  BY DEF TypeOK
<1>2. /\ Len(queue') = Len(queue) + 1 /\ queue'[Len(queue) + 1] = c
      /\ \A i \in 1 .. Len(queue) : queue'[i] = queue[i]
  BY <1>1
<1>3. OnlyHeadWaits'
  <2> SUFFICES ASSUME NEW i \in 1 .. Len(queue'), queue'[i].phase # "pending" PROVE i = 1
    BY DEF OnlyHeadWaits
  <2>1. i \in 1 .. Len(queue)
    BY <1>1, <1>2
  <2> QED BY <1>2, <2>1 DEF OnlyHeadWaits
<1>4. CASE queue = << >>
  <2>1. Head(queue') = c
    BY <1>4
  <2> QED BY <1>3, <2>1
<1>5. CASE queue # << >>
  <2>1. Head(queue') = Head(queue)
    BY <1>1, <1>5
  <2> QED BY <1>3, <1>5, <2>1 DEF StillWaits, Head1
<1> QED BY <1>4, <1>5

\* A head that waits stays the head.
LEMMA QueueWaits ==
  ASSUME TypeOK, OnlyHeadWaits, queue # << >>,
         NEW phase \in {"pending", "waiting", "rooms", "clients"}, Waits(phase)
  PROVE  /\ OnlyHeadWaits' /\ queue' # << >>
         /\ Head(queue').phase = phase /\ Head(queue').kind = Head1.kind /\ Head(queue').name = Head1.name
<1> DEFINE h == [Head1 EXCEPT !.phase = phase]
<1>1. h \in Commands /\ h.phase = phase /\ h.kind = Head1.kind /\ h.name = Head1.name
  BY HeadIsCommand DEF Commands
<1>2. queue' = << h >> \o Tail(queue)
  BY DEF Waits
<1> HIDE DEF h
<1>3. queue \in Seq(Commands) /\ Tail(queue) \in Seq(Commands) /\ Len(Tail(queue)) = Len(queue) - 1
      /\ Len(queue) \in Nat /\ \A i \in 1 .. Len(Tail(queue)) : Tail(queue)[i] = queue[i + 1]
  BY DEF TypeOK
<1>4. << h >> \in Seq(Commands) /\ Len(<< h >>) = 1 /\ << h >>[1] = h
  BY <1>1
<1>5. /\ Len(queue') = Len(queue)
      /\ \A i \in 1 .. Len(queue) : queue'[i] = IF i = 1 THEN h ELSE queue[i]
  <2>1. /\ Len(queue') = Len(<< h >>) + Len(Tail(queue))
        /\ \A i \in 1 .. Len(<< h >>) + Len(Tail(queue)) :
              queue'[i] = IF i <= Len(<< h >>) THEN << h >>[i] ELSE Tail(queue)[i - Len(<< h >>)]
    BY <1>2, <1>3, <1>4, ConcatProperties
  <2> QED BY <1>3, <1>4, <2>1
<1>6. OnlyHeadWaits'
  BY <1>5 DEF OnlyHeadWaits
<1>7. queue' # << >> /\ Head(queue') = h
  BY <1>1, <1>2, <1>3, <1>4
<1> QED BY <1>1, <1>6, <1>7

-----------------------------------------------------------------------------
(***************************************************************************)
(* Steps that start and stop no room and make no link.                     *)
(***************************************************************************)
LinksRest ==
  /\ \A r \in Ids : /\ rooms'[r].there = rooms[r].there /\ rooms'[r].name = rooms[r].name
                    /\ rooms'[r].started = rooms[r].started /\ rooms'[r].handlers = rooms[r].handlers
  /\ pairs' \in {pairs, { x \in pairs : ~x.dead }}
  /\ jack' = jack /\ leaky' = leaky

\* Links are right as long as neither they nor the rooms change.
LEMMA LinkedRests == ASSUME Linked, LinksRest PROVE Linked'
<1>1. pairs' \subseteq pairs /\ \A x \in pairs : ~x.dead => x \in pairs'
  BY DEF LinksRest
<1>2. ASSUME NEW r \in Ids \ leaky'
      PROVE  { x \in pairs' : x.room = r /\ ~x.dead } = { x \in pairs : x.room = r /\ ~x.dead }
  BY <1>1
<1>3. LinksBelong'
  BY <1>2 DEF LinksBelong, Linked, LinksRest
<1> QED BY <1>1, <1>3 DEF Linked, LinksRest

\* A step that leaves links and rooms alone keeps LInv if the head has not come further.
LEMMA LinksRestStep ==
  ASSUME LInv, LinksRest, OnlyHeadWaits',
         queue' # << >> =>
           \/ StillWaits
           \/ Head(queue').phase = "pending"
           \/ Head(queue').phase = "waiting" /\ Head(queue').kind # "delete"
  PROVE  LInv'
<1>1. Linked'
  BY LinkedRests DEF LInv
<1>2. \A r \in Ids : Unlinked(r)' <=> Unlinked(r)
  BY DEF Unlinked, LinksRest
<1>3. \A n : Named(n)' = Named(n)
  BY DEF Named, Existing, LinksRest
<1>4. Phases'
  BY <1>2, <1>3 DEF Phases, Head1, Pending, StillWaits, LInv, LinksRest, Named, Existing
<1> QED BY <1>1, <1>4 DEF LInv

\* No command waits any longer.
LEMMA FreedStep ==
  ASSUME Linked', OnlyHeadWaits', queue' # << >> => Head(queue').phase = "pending"
  PROVE  LInv'
BY DEF LInv, Phases, Head1, Pending

(***************************************************************************)
(* Making and unmaking links.                                              *)
(***************************************************************************)
LinksOf(r) == { x \in pairs : x.room = r /\ ~x.dead }

\* The pairs of a room are live and its own.
LEMMA PairsForm ==
  ASSUME NEW r \in Ids
  PROVE  /\ PairsOf(r) \subseteq [room : Ids, port : Ports, dead : BOOLEAN]
         /\ \A x \in PairsOf(r) : ~x.dead /\ x.room = r
<1>1. \A p \in Ports : /\ Pair(r, p) \in [room : Ids, port : Ports, dead : BOOLEAN]
                        /\ ~Pair(r, p).dead /\ Pair(r, p).room = r
  BY DEF Pair
<1> QED BY <1>1 DEF PairsOf

\* The links of a room that is not leaky are all or none.
LEMMA LinksForm ==
  ASSUME Linked, NEW r \in Ids \ leaky
  PROVE  LinksOf(r) = IF rooms[r].started /\ rooms[r].handlers THEN PairsOf(r) ELSE {}
BY DEF Linked, LinksBelong, LinksOf

\* Linked, said of each pair and each room.
LEMMA LinkedForm ==
  ASSUME \A x \in pairs : x \in [room : Ids, port : Ports, dead : BOOLEAN] /\ (x.dead => x.room \in leaky),
         \A r \in Ids : rooms[r].started => rooms[r].there /\ jack,
         \A r \in Ids \ leaky : LinksOf(r) = IF rooms[r].started /\ rooms[r].handlers THEN PairsOf(r) ELSE {}
  PROVE  Linked
BY DEF Linked, LinksBelong, LinksOf

\* Unmaking the links of some rooms leaves those of the others.
LEMMA LinksUnmadeForm ==
  ASSUME Linked, NEW rs, LinksUnmade(rs)
  PROVE  /\ pairs' \subseteq pairs
         /\ \A r \in Ids \ leaky :
              { x \in pairs' : x.room = r /\ ~x.dead } = IF r \in rs THEN {} ELSE LinksOf(r)
<1> DEFINE named == { x \in pairs : x.room \in rs }
           first == { x \in named : x.dead \/ [x EXCEPT !.dead = TRUE] \notin pairs }
<1>1. pairs' = pairs \ first
  BY DEF LinksUnmade
<1>2. ASSUME NEW r \in Ids \ leaky
      PROVE  { x \in pairs' : x.room = r /\ ~x.dead } = IF r \in rs THEN {} ELSE LinksOf(r)
  <2>1. CASE r \in rs
    <3> SUFFICES ASSUME NEW x \in pairs, x.room = r, ~x.dead PROVE x \in first
      BY <1>1, <2>1
    <3> DEFINE y == [x EXCEPT !.dead = TRUE]
    <3>1. x \in [room : Ids, port : Ports, dead : BOOLEAN]
      BY DEF Linked
    <3>2. y.dead /\ y.room = r
      BY <3>1
    <3>3. y \notin pairs
      BY <3>2 DEF Linked
    <3> QED BY <2>1, <3>3
  <2>2. CASE r \notin rs
    BY <1>1, <2>2 DEF LinksOf
  <2> QED BY <2>1, <2>2
<1> QED BY <1>1, <1>2

\* What a start, a stop and a load do with whether a room is linked.
LEMMA StartForm ==
  ASSUME NEW x \in RoomRecords
  PROVE  /\ StartedRoom(x).started /\ StartedRoom(x).handlers
         /\ StartedRoom(x).there = x.there /\ StartedRoom(x).name = x.name
BY DEF StartedRoom, RoomRecords

\* A room that is being stopped has no handlers for its graph.
LEMMA StopForm ==
  ASSUME NEW x \in RoomRecords
  PROVE  LET y == StoppingRoom(x)
         IN  /\ y \in RoomRecords /\ y.there = x.there /\ y.name = x.name /\ y.started = x.started
             /\ (y.started => ~y.handlers)
<1>1. StoppingRoom(x) \in RoomRecords
  BY StartingIsSame DEF Same
<1>2. CASE x.started
  BY <1>1, <1>2 DEF StoppingRoom, RoomRecords
<1>3. CASE ~x.started
  BY <1>3 DEF StoppingRoom
<1> QED BY <1>1, <1>2, <1>3

SameLinks(x, y) ==
  /\ y.there = x.there /\ y.name = x.name
  /\ y.started = x.started /\ y.handlers = x.handlers

\* Loading and unloading leave what links depend on alone.
LEMMA ClearForm ==
  ASSUME NEW x \in RoomRecords
  PROVE  SameLinks(x, Cleared(x)) /\ \A y \in Loads(x) : SameLinks(x, y)
<1>1. SameLinks(x, Cleared(x)) /\ Cleared(x) \in RoomRecords
  BY ClearingIsSame DEF SameLinks, Cleared, RoomRecords, Same
<1>2. \A app : SameLinks(x, LoadedWith(x, app))
  BY <1>1 DEF SameLinks, LoadedWith, RoomRecords
<1> QED BY <1>1, <1>2 DEF Loads

\* One room changes, in nothing that concerns its links.
LEMMA OneRoomRests ==
  ASSUME IInv, NEW r, NEW x, rooms' = [rooms EXCEPT ![r] = x], r \in Ids => SameLinks(rooms[r], x),
         UNCHANGED <<pairs, jack, leaky>>
  PROVE  LinksRest
BY DEF LinksRest, SameLinks, IInv, TypeOK

-----------------------------------------------------------------------------
(***************************************************************************)
(* The steps, and the links.                                               *)
(***************************************************************************)
LEMMA RefusedLinks == ASSUME IInv, LInv, Refused PROVE LInv'
<1>1. LinksRest
  BY DEF Refused, LinksRest
<1>2. Linked'
  BY <1>1, LinkedRests DEF LInv
<1> QED BY <1>2, QueueFrees, FreedStep DEF Refused, IInv, LInv

\* A failed assertion keeps LInv.
LEMMA AssertsLinks == ASSUME IInv, LInv, NEW line, Asserts(line) PROVE LInv'
<1>1. LinksRest
  BY DEF Asserts, LinksRest
<1>2. OnlyHeadWaits' /\ (queue' # << >> => StillWaits)
  BY DEF Asserts, LInv, OnlyHeadWaits, StillWaits, Head1
<1> QED BY <1>1, <1>2, LinksRestStep, Zenon

\* A request keeps LInv.
LEMMA RequestLinks == ASSUME IInv, LInv, Request PROVE LInv'
<1>1. ASSUME NEW kind \in {"create", "delete", "load", "unload", "save", "save as", "app", "start", "stop"},
             NEW room \in Ids \cup {0}, NEW name \in Names \cup {""}, Ask(kind, room, name)
      PROVE  LInv'
  <2> DEFINE c == [kind |-> kind, room |-> room, name |-> name, phase |-> "pending"]
  <2>1. c \in Commands /\ c.phase = "pending" /\ queue' = Append(queue, c)
    BY <1>1 DEF Commands, Ask
  <2> HIDE DEF c
  <2>2. OnlyHeadWaits' /\ (StillWaits \/ Head(queue').phase = "pending")
    BY <2>1, QueueGrows DEF IInv, LInv
  <2>3. LinksRest
    BY <1>1 DEF Ask, LinksRest
  <2> QED BY <2>2, <2>3, LinksRestStep, Zenon
<1>2. AskOfRoom => LInv'
  BY <1>1 DEF AskOfRoom
<1>3. AskOfProject => LInv'
  BY <1>1 DEF AskOfProject, Existing
<1>4. AskOfStudio => LInv'
  BY <1>1 DEF AskOfStudio
<1> QED BY <1>2, <1>3, <1>4 DEF Request

\* A room is made: its number was not used, or it belonged to a room whose start failed.
LEMMA CreateLinks == ASSUME IInv, LInv, RunCreate PROVE LInv'
<1> DEFINE r == made + 1
           n == Head1.name
           new == IF jack THEN StartedRoom(NewRoom(n)) ELSE NewRoom(n)
<1>1. CASE Refused
  BY <1>1, RefusedLinks
<1>2. /\ queue # << >> /\ n \in Names \cup {""} /\ r \in Ids
      /\ Linked /\ rooms \in [Ids -> RoomRecords]
  <2>1. queue # << >> /\ made < MaxRooms /\ made \in Nat
    BY DEF RunCreate, IsNext, IInv, TypeOK
  <2>2. MaxRooms \in Nat
    BY RoomsAssumption
  <2>3. n \in Names \cup {""}
    BY <2>1, HeadIsCommand DEF IInv, Commands
  <2>4. r \in Ids
    BY <2>1, <2>2 DEF Ids
  <2> QED BY <2>1, <2>3, <2>4 DEF IInv, LInv, TypeOK
<1>3. /\ new \in RoomRecords /\ new.there
      /\ jack => new.started /\ new.handlers
      /\ ~jack => ~new.started
  <2>1. /\ NewRoom(n) \in RoomRecords /\ NewRoom(n).there
    BY <1>2, NewIsRoom DEF IInv
  <2>2. Same(NewRoom(n), StartedRoom(NewRoom(n)))
    BY <2>1, StartingIsSame
  <2>3. ~NewRoom(n).started
    BY DEF NewRoom, Gone
  <2> HIDE DEF n
  <2> QED BY <2>1, <2>2, <2>3, StartForm DEF Same
<1> HIDE DEF r, new
<1>4. PairsOf(r) \subseteq [room : Ids, port : Ports, dead : BOOLEAN] /\ \A x \in PairsOf(r) : ~x.dead /\ x.room = r
  BY <1>2, PairsForm
<1>5. CASE /\ Done /\ rooms' = [rooms EXCEPT ![r] = new] /\ jack' = jack /\ leaky' = leaky
           /\ pairs' = pairs \cup (IF jack THEN PairsOf(r) ELSE {})
  <2>1. \A x \in pairs' : x \in [room : Ids, port : Ports, dead : BOOLEAN] /\ (x.dead => x.room \in leaky')
    BY <1>2, <1>4, <1>5 DEF Linked
  <2>2. \A q \in Ids : rooms'[q].started => rooms'[q].there /\ jack'
    BY <1>2, <1>3, <1>5 DEF Linked
  <2>3. ASSUME NEW q \in Ids \ leaky'
        PROVE  LinksOf(q)' = IF rooms'[q].started /\ rooms'[q].handlers THEN PairsOf(q) ELSE {}
    <3>1. LinksOf(q) = IF rooms[q].started /\ rooms[q].handlers THEN PairsOf(q) ELSE {}
      BY <1>2, <1>5, <2>3, LinksForm
    <3>2. CASE q # r
      <4>1. LinksOf(q)' = LinksOf(q)
        BY <1>4, <1>5, <3>2 DEF LinksOf
      <4>2. rooms'[q] = rooms[q]
        BY <1>2, <1>5, <3>2
      <4> QED BY <3>1, <4>1, <4>2
    <3>3. CASE q = r /\ jack
      <4>1. LinksOf(q)' = LinksOf(q) \cup PairsOf(r)
        BY <1>4, <1>5, <3>3 DEF LinksOf
      <4>2. rooms'[q] = new
        BY <1>2, <1>5, <3>3
      <4> QED BY <1>3, <3>1, <3>3, <4>1, <4>2
    <3>4. CASE q = r /\ ~jack
      <4>1. LinksOf(q)' = LinksOf(q) /\ ~rooms[q].started
        BY <1>2, <1>5, <3>4 DEF LinksOf, Linked
      <4>2. rooms'[q] = new
        BY <1>2, <1>5, <3>4
      <4> QED BY <1>3, <3>1, <3>4, <4>1, <4>2
    <3> QED BY <3>2, <3>3, <3>4
  <2>4. Linked'
    BY <2>1, <2>2, <2>3 DEF Linked, LinksBelong, LinksOf
  <2> QED BY <1>2, <1>5, <2>4, QueueFrees, FreedStep DEF IInv, LInv
<1>6. ASSUME NEW ps \in SUBSET PairsOf(r), Fails, rooms' = rooms, jack' = jack, pairs' = pairs \cup ps,
             leaky' = IF ps # {} THEN leaky \cup {r} ELSE leaky
      PROVE  LInv'
  <2>1. \A x \in pairs' : x \in [room : Ids, port : Ports, dead : BOOLEAN] /\ (x.dead => x.room \in leaky')
    BY <1>2, <1>4, <1>6 DEF Linked
  <2>2. ASSUME NEW q \in Ids \ leaky'
        PROVE  LinksOf(q)' = IF rooms'[q].started /\ rooms'[q].handlers THEN PairsOf(q) ELSE {}
    <3>1. q \notin leaky /\ LinksOf(q) = IF rooms[q].started /\ rooms[q].handlers THEN PairsOf(q) ELSE {}
      BY <1>2, <1>6, <2>2, LinksForm
    <3>2. q = r => ps = {}
      BY <1>6, <2>2
    <3>3. LinksOf(q)' = LinksOf(q)
      BY <1>4, <1>6, <3>2 DEF LinksOf
    <3> QED BY <1>6, <3>1, <3>3
  <2>3. Linked'
    BY <1>2, <1>6, <2>1, <2>2 DEF Linked, LinksBelong, LinksOf
  <2> QED BY <1>2, <1>6, <2>3, QueueFrees, FreedStep DEF IInv, LInv
<1> QED BY <1>1, <1>5, <1>6 DEF RunCreate, LinksMade, r, new

\* What is known of a waiting command when another phase begins.
LEMMA WaitsStep ==
  ASSUME IInv, LInv, Linked', queue # << >>,
         NEW phase \in {"waiting", "rooms", "clients"}, Waits(phase),
         phase = "rooms" => \A r \in Ids : Unlinked(r)',
         phase = "clients" => \A r \in Ids : ~rooms'[r].started,
         Head1.kind = "delete" =>
           \A r \in Ids : rooms'[r].there /\ rooms'[r].name = Head1.name => Unlinked(r)'
  PROVE  LInv'
<1>1. /\ OnlyHeadWaits' /\ queue' # << >>
      /\ Head(queue').phase = phase /\ Head(queue').kind = Head1.kind /\ Head(queue').name = Head1.name
  BY QueueWaits DEF IInv, LInv
<1>2. Phases'
  BY <1>1 DEF Phases, Head1, Pending, Named, Existing
<1> QED BY <1>1, <1>2 DEF LInv

\* Rooms stop: none of them is linked any more.
LEMMA StoppingLinks ==
  ASSUME IInv, Linked, NEW rs, LinksUnmade({ r \in rs : rooms[r].started }),
         UNCHANGED <<jack, leaky>>, rooms' \in [Ids -> RoomRecords],
         \A r \in Ids \cap rs : /\ rooms'[r].there = rooms[r].there /\ rooms'[r].started = rooms[r].started
                               /\ Unlinked(r)',
         \A r \in Ids \ rs : rooms'[r] = rooms[r]
  PROVE  Linked'
<1>1. /\ pairs' \subseteq pairs
      /\ \A r \in Ids \ leaky :
           { x \in pairs' : x.room = r /\ ~x.dead }
             = IF r \in { q \in rs : rooms[q].started } THEN {} ELSE LinksOf(r)
  BY LinksUnmadeForm
<1>2. ASSUME NEW r \in Ids \ leaky'
      PROVE  LinksOf(r)' = IF rooms'[r].started /\ rooms'[r].handlers THEN PairsOf(r) ELSE {}
  <2>1. LinksOf(r) = IF rooms[r].started /\ rooms[r].handlers THEN PairsOf(r) ELSE {}
    BY <1>2, LinksForm
  <2>2. LinksOf(r)' = IF r \in rs /\ rooms[r].started THEN {} ELSE LinksOf(r)
    BY <1>1, <1>2 DEF LinksOf
  <2>3. CASE r \in rs
    BY <2>1, <2>2, <2>3 DEF Unlinked
  <2>4. CASE r \notin rs
    BY <2>1, <2>2, <2>4
  <2> QED BY <2>3, <2>4
<1>3. \A r \in Ids : rooms'[r].started => rooms'[r].there /\ jack'
  <2> TAKE r \in Ids
  <2>1. rooms[r].started => rooms[r].there /\ jack
    BY DEF Linked
  <2> QED BY <2>1
<1> QED BY <1>1, <1>2, <1>3 DEF Linked, LinksBelong, LinksOf

\* A room that waited to be deleted is not linked.
LEMMA DestroyLinks ==
  ASSUME IInv, Linked, NEW r \in Ids, Unlinked(r), rooms' = [rooms EXCEPT ![r] = Gone],
         UNCHANGED <<jack, pairs, leaky>>
  PROVE  Linked'
<1>1. \A q \in Ids : rooms'[q] = IF q = r THEN Gone ELSE rooms[q]
  BY DEF IInv, TypeOK
<1>2. ~Gone.started
  BY DEF Gone
<1>3. ASSUME NEW q \in Ids \ leaky'
      PROVE  LinksOf(q)' = IF rooms'[q].started /\ rooms'[q].handlers THEN PairsOf(q) ELSE {}
  <2>1. LinksOf(q) = IF rooms[q].started /\ rooms[q].handlers THEN PairsOf(q) ELSE {}
    BY <1>3, LinksForm
  <2>2. LinksOf(q)' = LinksOf(q)
    BY DEF LinksOf
  <2> QED BY <1>1, <1>2, <2>1, <2>2 DEF Unlinked
<1> QED BY <1>1, <1>2, <1>3 DEF Linked, LinksBelong, LinksOf

\* RunDelete keeps LInv.
LEMMA DeleteLinks == ASSUME IInv, LInv, RunDelete PROVE LInv'
<1>1. queue # << >> /\ Head1.kind = "delete" /\ Linked /\ rooms \in [Ids -> RoomRecords]
  BY DEF RunDelete, IsNext, LInv, IInv, TypeOK
<1>2. CASE Refused
  BY <1>2, RefusedLinks
<1>3. ASSUME NEW r \in Named(Head1.name), Waits("waiting"), rooms' = [rooms EXCEPT ![r] = StoppingRoom(@)],
             LinksUnmade(IF rooms[r].started THEN {r} ELSE {}), UNCHANGED <<jack, leaky>>
      PROVE  LInv'
  <2>1. r \in Ids /\ rooms[r] \in RoomRecords /\ rooms[r].there /\ rooms[r].name = Head1.name
    BY <1>1 DEF Named, Existing
  <2>2. LET y == StoppingRoom(rooms[r])
        IN  /\ y \in RoomRecords /\ y.there = rooms[r].there /\ y.name = rooms[r].name
            /\ y.started = rooms[r].started /\ (y.started => ~y.handlers)
    BY <2>1, StopForm
  <2>3. \A q \in Ids : rooms'[q] = IF q = r THEN StoppingRoom(rooms[r]) ELSE rooms[q]
    BY <1>1, <1>3
  <2>4. rooms' \in [Ids -> RoomRecords]
    BY <1>1, <1>3, <2>2
  <2>5. LinksUnmade({ q \in {r} : rooms[q].started })
    <3>1. { q \in {r} : rooms[q].started } = IF rooms[r].started THEN {r} ELSE {}
      OBVIOUS
    <3> QED BY <1>3, <3>1
  <2>6. /\ \A q \in Ids \cap {r} : /\ rooms'[q].there = rooms[q].there /\ rooms'[q].started = rooms[q].started
                                 /\ Unlinked(q)'
        /\ \A q \in Ids \ {r} : rooms'[q] = rooms[q]
    BY <2>1, <2>2, <2>3 DEF Unlinked
  <2>7. Linked'
    BY <1>1, <1>3, <2>4, <2>5, <2>6, StoppingLinks
  <2>8. ASSUME NEW q \in Ids, rooms'[q].there, rooms'[q].name = Head1.name PROVE q = r
    BY <2>1, <2>3, <2>8 DEF Existing, IInv, Identified, RoomsDiffer
  <2>9. \A q \in Ids : rooms'[q].there /\ rooms'[q].name = Head1.name => Unlinked(q)'
    BY <2>1, <2>6, <2>8
  <2> QED BY <1>1, <1>3, <2>7, <2>9, WaitsStep
<1>4. ASSUME NEW r \in Named(Head1.name), ~Pending, Done, Destroy(r), UNCHANGED <<jack, pairs, leaky>>
      PROVE  LInv'
  <2>1. r \in Ids /\ Unlinked(r)
    BY <1>1, <1>4 DEF Named, Existing, LInv, Phases
  <2>2. Linked'
    BY <1>1, <1>4, <2>1, DestroyLinks DEF Destroy
  <2> QED BY <1>1, <1>4, <2>2, QueueFrees, FreedStep DEF IInv, LInv
<1> QED BY <1>2, <1>3, <1>4 DEF RunDelete

\* The rooms in all start, and of the room bad some ports, ps, are linked.
Starting(all, bad, ps) ==
  /\ all \subseteq Existing
  /\ pairs' = pairs \cup (ps \cup UNION { PairsOf(r) : r \in all })
  /\ ps \subseteq (IF bad \in Ids THEN PairsOf(bad) ELSE {})
  /\ leaky' = IF ps # {} THEN leaky \cup {bad} ELSE leaky
  /\ \A r \in all : rooms'[r] = StartedRoom(rooms[r])
  /\ \A r \in Ids \ all : ~rooms'[r].started

\* The studio starts: before, no room was.
LEMMA StartLinks == ASSUME IInv, LInv, RunStart PROVE LInv'
<1>1. queue # << >> /\ Linked /\ rooms \in [Ids -> RoomRecords]
  BY DEF RunStart, IsNext, LInv, IInv, TypeOK
<1>2. CASE Refused
  BY <1>2, RefusedLinks
<1>3. Done => OnlyHeadWaits' /\ (queue' # << >> => Head(queue').phase = "pending")
  BY <1>1, QueueFrees DEF IInv, LInv
<1>4. CASE Done /\ UNCHANGED <<rooms, jack, pairs, leaky>>
  <2>1. LinksRest
    BY <1>4 DEF LinksRest
  <2> QED BY <1>3, <1>4, <2>1, LinkedRests, FreedStep DEF LInv
<1>5. ASSUME ~jack, jack' = TRUE, Done, NEW all, NEW bad, NEW ps, Starting(all, bad, ps)
      PROVE  LInv'
  <2> /\ all \subseteq Existing
      /\ pairs' = pairs \cup (ps \cup UNION { PairsOf(r) : r \in all })
      /\ ps \subseteq (IF bad \in Ids THEN PairsOf(bad) ELSE {})
      /\ leaky' = IF ps # {} THEN leaky \cup {bad} ELSE leaky
      /\ \A r \in all : rooms'[r] = StartedRoom(rooms[r])
      /\ \A r \in Ids \ all : ~rooms'[r].started
    BY <1>5 DEF Starting
  <2>1. \A r \in Ids : ~rooms[r].started
    BY <1>1, <1>5 DEF Linked
  <2>2. \A x \in ps : x \in [room : Ids, port : Ports, dead : BOOLEAN] /\ ~x.dead /\ x.room = bad
    BY PairsForm
  <2>3. \A r \in all : /\ r \in Ids /\ rooms'[r].started /\ rooms'[r].handlers
                       /\ rooms'[r].there
    <3> TAKE r \in all
    <3>1. r \in Ids /\ rooms[r].there /\ rooms[r] \in RoomRecords
      BY <1>1 DEF Existing
    <3> QED BY <1>5, <3>1, StartForm
  <2>4. \A x \in UNION { PairsOf(r) : r \in all } :
           /\ x \in [room : Ids, port : Ports, dead : BOOLEAN] /\ ~x.dead
           /\ x.room \in all /\ x \in PairsOf(x.room)
    BY <2>3, PairsForm
  <2>5. \A x \in pairs' : x \in [room : Ids, port : Ports, dead : BOOLEAN] /\ (x.dead => x.room \in leaky')
    BY <1>1, <1>5, <2>2, <2>4 DEF Linked
  <2>6. ASSUME NEW r \in Ids \ leaky'
        PROVE  LinksOf(r)' = IF rooms'[r].started /\ rooms'[r].handlers THEN PairsOf(r) ELSE {}
    <3>1. LinksOf(r) = {} /\ r \notin leaky
      BY <1>1, <1>5, <2>1, <2>6, LinksForm
    <3>2. \A x \in ps : x.room # r
      BY <1>5, <2>2, <2>6
    <3>3. LinksOf(r)' = { x \in UNION { PairsOf(q) : q \in all } : x.room = r }
      BY <1>5, <2>4, <3>1, <3>2 DEF LinksOf
    <3>4. CASE r \in all
      <4>1. \A x \in PairsOf(r) : x.room = r
        BY PairsForm
      <4> QED BY <2>3, <2>4, <3>3, <3>4, <4>1
    <3>5. CASE r \notin all
      BY <1>5, <2>4, <3>3, <3>5
    <3> QED BY <3>4, <3>5
  <2>7. \A r \in Ids : rooms'[r].started => rooms'[r].there /\ jack'
    BY <1>5, <2>3
  <2>8. Linked'
    BY <2>5, <2>6, <2>7 DEF Linked, LinksBelong, LinksOf
  <2> QED BY <1>3, <1>5, <2>8, FreedStep
<1>6. CASE /\ ~jack /\ jack' = TRUE /\ Done
           /\ rooms' = [r \in Ids |-> IF rooms[r].there THEN StartedRoom(rooms[r]) ELSE Gone]
           /\ pairs' = pairs \cup UNION { PairsOf(r) : r \in Existing }
           /\ leaky' = leaky
  <2>1. /\ \A r \in Existing : rooms'[r] = StartedRoom(rooms[r])
        /\ \A r \in Ids \ Existing : ~rooms'[r].started
    BY <1>6 DEF Existing, Gone
  <2>2. Starting(Existing, 0, {})
    BY <1>6, <2>1 DEF Starting
  <2> QED BY <1>5, <1>6, <2>2
<1>7. ASSUME ~jack, jack' = TRUE, Done, NEW bad \in Existing, NEW ps \in SUBSET PairsOf(bad),
             rooms' = [r \in Ids |->
                         IF r \in { q \in Existing : q < bad } THEN StartedRoom(rooms[r])
                         ELSE [rooms[r] EXCEPT !.handlers = rooms[r].there]],
             pairs' = pairs \cup (ps \cup UNION { PairsOf(r) : r \in { q \in Existing : q < bad } }),
             leaky' = IF ps # {} THEN leaky \cup {bad} ELSE leaky
      PROVE  LInv'
  <2> DEFINE before == { q \in Existing : q < bad }
  <2>1. \A r \in before : rooms'[r] = StartedRoom(rooms[r])
    BY <1>7 DEF Existing
  <2>2. ASSUME NEW r \in Ids \ before PROVE ~rooms'[r].started
    <3>1. ~rooms[r].started /\ rooms[r] \in RoomRecords
      BY <1>1, <1>7 DEF Linked
    <3>2. rooms'[r] = [rooms[r] EXCEPT !.handlers = rooms[r].there]
      BY <1>7, <2>2
    <3> QED BY <3>1, <3>2 DEF RoomRecords
  <2>3. before \in SUBSET Existing /\ bad \in Ids
    BY DEF Existing
  <2> HIDE DEF before
  <2>4. pairs' = pairs \cup (ps \cup UNION { PairsOf(r) : r \in before })
    BY <1>7 DEF before
  <2>5. Starting(before, bad, ps)
    BY <1>7, <2>1, <2>2, <2>3, <2>4 DEF Starting
  <2> QED BY <1>5, <1>7, <2>5
<1> QED BY <1>2, <1>4, <1>6, <1>7 DEF RunStart, LinksMade

\* The studio stops: the rooms first, then the apps, then JACK.
LEMMA StopLinks == ASSUME IInv, LInv, RunStop PROVE LInv'
<1>1. queue # << >> /\ Linked /\ rooms \in [Ids -> RoomRecords] /\ Head1.kind = "stop"
  BY DEF RunStop, IsNext, LInv, IInv, TypeOK
<1>2. Done => OnlyHeadWaits' /\ (queue' # << >> => Head(queue').phase = "pending")
  BY <1>1, QueueFrees DEF IInv, LInv
<1>3. CASE Done /\ UNCHANGED <<rooms, jack, pairs, leaky>>
  <2>1. LinksRest
    BY <1>3 DEF LinksRest
  <2> QED BY <1>2, <1>3, <2>1, LinkedRests, FreedStep DEF LInv
<1>4. CASE /\ Waits("rooms") /\ LinksUnmade({ r \in Ids : rooms[r].started }) /\ UNCHANGED <<jack, leaky>>
           /\ rooms' = [r \in Ids |-> [StoppingRoom(rooms[r]) EXCEPT !.app = Asked(@)]]
  <2>1. ASSUME NEW r \in Ids
        PROVE  /\ rooms'[r] \in RoomRecords /\ rooms'[r].there = rooms[r].there
               /\ rooms'[r].started = rooms[r].started /\ Unlinked(r)'
    <3>1. LET y == StoppingRoom(rooms[r])
          IN  /\ y \in RoomRecords /\ y.there = rooms[r].there /\ y.started = rooms[r].started
              /\ (y.started => ~y.handlers)
      BY <1>1, StopForm
    <3>2. \A y \in RoomRecords : LET z == [y EXCEPT !.app = Asked(@)]
                                IN  /\ z \in RoomRecords /\ z.there = y.there
                                    /\ z.started = y.started /\ z.handlers = y.handlers
      BY AppsStayApps DEF RoomRecords
    <3> DEFINE y == StoppingRoom(rooms[r])
    <3>3. rooms'[r] = [y EXCEPT !.app = Asked(@)]
      BY <1>4
    <3> HIDE DEF y
    <3>4. /\ rooms'[r] \in RoomRecords /\ rooms'[r].there = y.there
          /\ rooms'[r].started = y.started /\ rooms'[r].handlers = y.handlers
      BY <3>1, <3>2, <3>3 DEF y
    <3> QED BY <3>1, <3>4 DEF y, Unlinked
  <2>2. rooms' \in [Ids -> RoomRecords]
    BY <1>4, <2>1
  <2>3. Linked'
    BY <1>1, <1>4, <2>1, <2>2, StoppingLinks
  <2> QED BY <1>1, <1>4, <2>1, <2>3, WaitsStep
<1>5. CASE /\ Head1.phase = "rooms"
           /\ Waits(IF FoundStopped = Existing THEN "clients" ELSE "rooms")
           /\ rooms' = [r \in Ids |-> IF r \in FoundStopped THEN [rooms[r] EXCEPT !.started = FALSE] ELSE rooms[r]]
           /\ UNCHANGED <<jack, pairs, leaky>>
  <2>1. \A r \in Ids : Unlinked(r)
    BY <1>1, <1>5 DEF LInv, Phases
  <2>2. ASSUME NEW r \in Ids
        PROVE  /\ rooms'[r].started = (rooms[r].started /\ r \notin FoundStopped)
               /\ rooms'[r].there = rooms[r].there /\ Unlinked(r)'
    <3>1. rooms'[r] = IF r \in FoundStopped THEN [rooms[r] EXCEPT !.started = FALSE] ELSE rooms[r]
      BY <1>5
    <3>2. rooms[r] \in RoomRecords
      BY <1>1
    <3>3. CASE r \in FoundStopped
      BY <2>1, <3>1, <3>2, <3>3 DEF RoomRecords, Unlinked
    <3>4. CASE r \notin FoundStopped
      BY <2>1, <3>1, <3>2, <3>4 DEF RoomRecords, Unlinked
    <3> QED BY <3>3, <3>4
  <2>3. Linked'
    <3>1. ASSUME NEW r \in Ids \ leaky'
          PROVE  LinksOf(r)' = IF rooms'[r].started /\ rooms'[r].handlers THEN PairsOf(r) ELSE {}
      <4>1. LinksOf(r)' = {}
        BY <1>1, <1>5, <2>1, <3>1, LinksForm DEF Unlinked, LinksOf
      <4> QED BY <2>2, <4>1 DEF Unlinked
    <3>2. \A r \in Ids : rooms'[r].started => rooms'[r].there /\ jack'
      BY <1>1, <1>5, <2>2 DEF Linked
    <3> QED BY <1>1, <1>5, <3>1, <3>2 DEF Linked, LinksBelong, LinksOf
  <2>4. FoundStopped = Existing => \A r \in Ids : ~rooms'[r].started
    BY <1>1, <2>2 DEF Existing, Linked
  <2>5. CASE FoundStopped = Existing
    BY <1>1, <1>5, <2>3, <2>4, <2>5, WaitsStep
  <2>6. CASE FoundStopped # Existing
    BY <1>1, <1>5, <2>2, <2>3, <2>6, WaitsStep
  <2> QED BY <2>5, <2>6
<1>6. CASE /\ Head1.phase = "clients" /\ Done /\ jack' = FALSE
           /\ pairs' = { [x EXCEPT !.dead = TRUE] : x \in pairs }
           /\ UNCHANGED <<rooms, leaky>>
  <2>1. \A r \in Ids : ~rooms[r].started
    BY <1>1, <1>6 DEF LInv, Phases
  <2>2. ASSUME NEW x \in pairs
        PROVE  LET y == [x EXCEPT !.dead = TRUE]
               IN  y \in [room : Ids, port : Ports, dead : BOOLEAN] /\ y.dead /\ y.room \in leaky
    <3>1. x \in [room : Ids, port : Ports, dead : BOOLEAN] /\ (x.dead => x.room \in leaky)
      BY <1>1 DEF Linked
    <3>2. x.room \in leaky
      <4> SUFFICES ASSUME x.room \notin leaky, ~x.dead PROVE FALSE
        BY <3>1
      <4>1. LinksOf(x.room) = {}
        BY <1>1, <2>1, <3>1, LinksForm
      <4> QED BY <4>1 DEF LinksOf
    <3> QED BY <3>1, <3>2
  <2>3. \A y \in pairs' : y \in [room : Ids, port : Ports, dead : BOOLEAN] /\ y.dead /\ y.room \in leaky'
    BY <1>6, <2>2
  <2>4. Linked'
    BY <1>6, <2>1, <2>3 DEF Linked, LinksBelong
  <2> QED BY <1>2, <1>6, <2>4, FreedStep
<1> QED BY <1>3, <1>4, <1>5, <1>6 DEF RunStop

(***************************************************************************)
(* What a project does in its room leaves the links alone.                 *)
(***************************************************************************)
LEMMA ChangesAndFrees ==
  ASSUME IInv, LInv, queue # << >>, Done \/ Fails, NEW r, NEW x, ChangesRoom(r, x),
         r \in Ids => SameLinks(rooms[r], x)
  PROVE  LInv'
<1>1. LinksRest
  BY OneRoomRests DEF ChangesRoom
<1> QED BY <1>1, LinkedRests, QueueFrees, FreedStep DEF IInv, LInv

\* A command that goes on keeps LInv.
LEMMA ContinuesLinks ==
  ASSUME IInv, LInv, queue # << >>, Head1.kind # "delete", NEW r, NEW x, Continues(r, x),
         r \in Ids => SameLinks(rooms[r], x)
  PROVE  LInv'
<1>1. LinksRest
  BY OneRoomRests DEF Continues, ChangesRoom
<1>2. Linked'
  BY <1>1, LinkedRests DEF LInv
<1>3. Waits("waiting")
  BY DEF Continues
<1> QED BY <1>2, <1>3, WaitsStep

\* RunUnload keeps LInv.
LEMMA UnloadLinks == ASSUME IInv, LInv, RunUnload PROVE LInv'
<1> DEFINE r == Head1.room
           x == rooms[r]
           Taken == [x EXCEPT !.state = "disconnecting", !.wired = IF x.wired = "yes" THEN "changing" ELSE @]
           Ending == [x EXCEPT !.state = "ending apps", !.app = Asked(@)]
<1>1. queue # << >> /\ Head1.kind # "delete"
  BY DEF RunUnload, IsNext
<1>2. \A y \in RoomRecords :
         /\ SameLinks(y, [y EXCEPT !.state = "disconnecting",
                                   !.wired = IF y.wired = "yes" THEN "changing" ELSE @])
         /\ SameLinks(y, [y EXCEPT !.state = "ending apps", !.app = Asked(@)])
  BY DEF SameLinks, RoomRecords
<1>3. r \in Ids => SameLinks(x, Taken) /\ SameLinks(x, Ending)
  BY <1>2, RoomIsRecord
<1>4. r \in Ids => SameLinks(x, Cleared(x)) /\ \A y \in Loads(x) : SameLinks(x, y)
  BY ClearForm, RoomIsRecord
<1>5. CASE Refused
  BY <1>5, RefusedLinks
<1>6. CASE UnloadEnds(r)
  <2>1. (Done \/ Fails) /\ \E y \in Loads(x) \cup {Cleared(x)} : ChangesRoom(r, y)
    BY <1>6 DEF UnloadEnds
  <2> HIDE DEF r, x
  <2> QED BY <1>1, <1>4, <2>1, ChangesAndFrees DEF x
<1>7. CASE Continues(r, Taken) \/ Continues(r, Ending)
  <2> HIDE DEF Taken, Ending
  <2> QED BY <1>1, <1>3, <1>7, ContinuesLinks
<1>8. CASE Asserts("graph.c:2377")
  BY <1>8, AssertsLinks
<1> QED BY <1>5, <1>6, <1>7, <1>8 DEF RunUnload, UnloadAt

\* RunSave keeps LInv.
LEMMA SaveLinks == ASSUME IInv, LInv, RunSave PROVE LInv'
<1> DEFINE r == Head1.room
           x == rooms[r]
           Saved == [x EXCEPT !.state = "loaded", !.strings = "own"]
           Failed == IF x.strings = "own" /\ Head1.kind = "save as" THEN [x EXCEPT !.strings = "freed"] ELSE x
<1>1. queue # << >>
  BY DEF RunSave, IsNext
<1>2. \A y \in RoomRecords : /\ SameLinks(y, [y EXCEPT !.state = "loaded", !.strings = "own"])
                            /\ SameLinks(y, [y EXCEPT !.strings = "freed"]) /\ SameLinks(y, y)
  BY DEF SameLinks, RoomRecords
<1>3. r \in Ids => SameLinks(x, Saved) /\ SameLinks(x, Failed)
  BY <1>2, RoomIsRecord
<1>4. CASE Refused
  BY <1>4, RefusedLinks
<1>5. CASE Asserts("room_save.c:454")
  BY <1>5, AssertsLinks
<1>6. CASE (Done \/ Fails) /\ (ChangesRoom(r, Saved) \/ ChangesRoom(r, Failed))
  <2> HIDE DEF Saved, Failed
  <2> QED BY <1>1, <1>3, <1>6, ChangesAndFrees
<1> QED BY <1>4, <1>5, <1>6 DEF RunSave

\* RunApp keeps LInv.
LEMMA AppLinks == ASSUME IInv, LInv, RunApp PROVE LInv'
<1> DEFINE r == Head1.room
           new == [NoApp EXCEPT !.there = TRUE, !.autorun = TRUE]
           x == IF rooms[r].app.there THEN rooms[r] ELSE [rooms[r] EXCEPT !.app = IF jack THEN Runs(new) ELSE new]
<1>1. queue # << >>
  BY DEF RunApp, IsNext
<1>2. r \in Ids => SameLinks(rooms[r], x)
  <2>1. \A app : \A y \in RoomRecords : SameLinks(y, [y EXCEPT !.app = app]) /\ SameLinks(y, y)
    BY DEF SameLinks, RoomRecords
  <2> HIDE DEF new
  <2> QED BY <2>1, RoomIsRecord
<1>3. CASE Refused
  BY <1>3, RefusedLinks
<1>4. CASE Done /\ ChangesRoom(r, x)
  <2> HIDE DEF x
  <2> QED BY <1>1, <1>2, <1>4, ChangesAndFrees
<1> QED BY <1>3, <1>4 DEF RunApp

\* What users, apps, jmcore and JACK do keeps LInv.
LEMMA WorldLinks == ASSUME IInv, LInv, World PROVE LInv'
<1>1. queue' = queue => OnlyHeadWaits' /\ (queue' # << >> => StillWaits)
  BY DEF LInv, OnlyHeadWaits, StillWaits, Head1
<1>2. ASSUME LinksRest, queue' = queue PROVE LInv'
  BY <1>1, <1>2, LinksRestStep, Zenon
<1>3. ASSUME NEW r \in Ids, NEW x, Becomes(r, x), SameLinks(rooms[r], x)
      PROVE  LInv'
  <2>1. LinksRest
    BY <1>3, OneRoomRests DEF Becomes
  <2> QED BY <1>2, <1>3, <2>1 DEF Becomes
<1>4. ASSUME NEW y \in RoomRecords
      PROVE  /\ SameLinks(y, [y EXCEPT !.app.visible = TRUE])
             /\ SameLinks(y, [y EXCEPT !.app.pid = FALSE, !.app.asked = FALSE])
             /\ SameLinks(y, [y EXCEPT !.app.visible = FALSE, !.wired = "no"])
             /\ SameLinks(y, [y EXCEPT !.wired = "yes"])
             /\ SameLinks(y, [y EXCEPT !.wired = "no"])
  BY DEF SameLinks, RoomRecords
<1>5. CASE AppAppears
  BY <1>3, <1>4, <1>5, RoomIsRecord DEF AppAppears, Existing
<1>6. CASE AppExits
  BY <1>3, <1>4, <1>6, RoomIsRecord DEF AppExits, Existing
<1>7. CASE AppDisappears
  BY <1>3, <1>4, <1>7, RoomIsRecord DEF AppDisappears, Existing
<1>8. CASE UserConnects
  BY <1>3, <1>4, <1>8, RoomIsRecord DEF UserConnects, Existing
<1>9. CASE PortsDisconnected
  BY <1>3, <1>4, <1>9, RoomIsRecord DEF PortsDisconnected, Existing
<1>10. CASE LostExits \/ LinkAppeared \/ LinkDisappeared \/ BuryZombiePairs
  <2>1. LinksRest /\ queue' = queue
    BY <1>10 DEF LostExits, LinkAppeared, LinkDisappeared, LinkSignal, BuryZombiePairs, LinksRest
  <2> QED BY <1>2, <2>1
<1> QED BY <1>5, <1>6, <1>7, <1>8, <1>9, <1>10 DEF World

\* LInv holds when the daemon starts.
LEMMA InitIsLinked == Init => LInv
<1> SUFFICES ASSUME Init PROVE LInv
  OBVIOUS
<1>1. OnlyHeadWaits /\ Phases
  BY DEF Init, OnlyHeadWaits, Phases
<1>2. \A r \in Ids : ~rooms[r].started
  BY DEF Init, Gone
<1>3. pairs = {}
  BY DEF Init
<1> QED BY <1>1, <1>2, <1>3 DEF LInv, Linked, LinksBelong

\* Every step keeps LInv.
LEMMA StepsKeepLinks == IInv /\ LInv /\ [Next]_vars => LInv'
<1> SUFFICES ASSUME IInv, LInv, [Next]_vars PROVE LInv'
  OBVIOUS
<1>1. CASE Request
  BY <1>1, RequestLinks
<1>2. CASE Run
  BY <1>2, CreateLinks, DeleteLinks, StartLinks, StopLinks, UnloadLinks, SaveLinks, AppLinks DEF Run
<1>3. CASE World
  BY <1>3, WorldLinks
<1>4. CASE UNCHANGED vars
  <2>1. LinksRest
    BY <1>4 DEF vars, LinksRest
  <2>2. OnlyHeadWaits' /\ (queue' # << >> => StillWaits)
    BY <1>4 DEF vars, LInv, OnlyHeadWaits, StillWaits, Head1
  <2> QED BY <2>1, <2>2, LinksRestStep, Zenon
<1> QED BY <1>1, <1>2, <1>3, <1>4 DEF Next

(***************************************************************************)
(* jmcore links the ports of exactly the rooms that are started and not    *)
(* yet stopping, whatever fails, and however deletions, starts and stops   *)
(* of the studio follow each other (room.c: ladish_room_start,             *)
(* ladish_room_initiate_stop; jmcore.c), but for rooms whose start failed. *)
(***************************************************************************)
THEOREM LinksBelongTheorem == Spec => []LinksBelong
<1>1. LInv => LinksBelong
  BY DEF LInv, Linked
<1> QED
  BY InitIsSound, StepsAreSound, InitIsLinked, StepsKeepLinks, <1>1, PTL DEF Spec

-----------------------------------------------------------------------------
(***************************************************************************)
(* The signals.  What is on its way about an end of a link alternates: it  *)
(* begins where the daemon is (shown) and ends where jmcore is (pairs).    *)
(* The ends of a room that is gone are not shown, and never will be.  The  *)
(* ends of a room that is not started are at rest, unless the studio is    *)
(* being stopped: then JACK is told last and rest comes with it.           *)
(***************************************************************************)
AllEnds == Ids \X Ports \X Sides

Batch == [what : {"appeared", "disappeared"}, ends : SUBSET AllEnds]

PairRecord == [room : Ids, port : Ports, dead : BOOLEAN]

About(e) == { i \in 1 .. Len(signals) : e \in signals[i].ends }

Comes(i) == signals[i].what = "appeared"

IsLinked(e) == Pair(e[1], e[2]) \in pairs

Follows(e) ==
  /\ \A i \in About(e) : (\A j \in About(e) : i <= j) => (Comes(i) <=> e \notin shown)
  /\ \A i, j \in About(e) : i < j /\ (\A k \in About(e) : k <= i \/ j <= k) => (Comes(i) <=> ~Comes(j))
  /\ \A i \in About(e) : (\A j \in About(e) : j <= i) => (Comes(i) <=> IsLinked(e))
  /\ About(e) = {} => (e \in shown <=> IsLinked(e))

StopRuns == queue # << >> /\ Head1.phase \in {"rooms", "clients"}

Rests(r) == rooms[r].there /\ ~rooms[r].started /\ ~StopRuns

Heard(r) ==
  /\ r > made => \A e \in Ends(r) : About(e) = {}
  /\ rooms[r].there => \A e \in Ends(r) : Follows(e)
  /\ ~rooms[r].there => \A e \in Ends(r) : e \notin shown
  /\ Rests(r) => \A e \in Ends(r) : About(e) = {} /\ e \notin shown

Meets == fault \in {"virtualizer.c:999", "graph.c:1148"}

SInv ==
  /\ signals \in Seq(Batch) /\ \A i \in 1 .. Len(signals) : signals[i].ends # {}
  /\ shown \subseteq AllEnds /\ known \subseteq AllEnds
  /\ \A e \in known : e \in shown \/ e[1] \in leaky
  /\ \A r \in Ids : rooms[r].there => r <= made
  /\ StopRuns => Head1.kind = "stop"
  /\ Meets => leaky # {}
  /\ \A r \in Ids \ leaky : Heard(r)

\* The ends of a room.
LEMMA EndsForm ==
  /\ \A r \in Ids : Ends(r) \subseteq AllEnds /\ \A e \in Ends(r) : e[1] = r /\ e[2] \in Ports
  /\ \A e \in AllEnds : e[1] \in Ids /\ e[2] \in Ports /\ e \in Ends(e[1])
BY DEF Ends, AllEnds

\* Telling of ends adds a batch behind all others.
LEMMA ToldForm ==
  ASSUME SInv, NEW what \in {"appeared", "disappeared"}, NEW ps \in SUBSET PairRecord,
         signals' = Told(what, ps)
  PROVE  /\ signals' \in Seq(Batch) /\ \A i \in 1 .. Len(signals') : signals'[i].ends # {}
         /\ Len(signals) \in Nat
         /\ \A e \in AllEnds :
              LET told == \E x \in ps : x.room = e[1] /\ x.port = e[2] IN
              /\ ~told => About(e)' = About(e)
              /\ told => About(e)' = About(e) \cup {Len(signals) + 1}
              /\ told => (signals'[Len(signals) + 1].what = what)
         /\ \A i \in 1 .. Len(signals) : Comes(i)' <=> Comes(i)
<1> DEFINE b == [what |-> what, ends |-> { <<x.room, x.port, s>> : x \in ps, s \in Sides }]
           n == Len(signals)
<1>1. signals \in Seq(Batch) /\ n \in Nat /\ \A i \in 1 .. n : signals[i].ends # {}
  BY DEF SInv
<1>2. CASE ps = {}
  <2>1. signals' = signals
    BY <1>2 DEF Told
  <2> QED BY <1>1, <1>2, <2>1 DEF About, Comes
<1>3. CASE ps # {}
  <2>1. b \in Batch
    <3>1. \A x \in ps : \A s \in Sides : <<x.room, x.port, s>> \in AllEnds
      BY DEF AllEnds, PairRecord
    <3>2. b.ends \in SUBSET AllEnds
      BY <3>1
    <3> QED BY <3>2 DEF Batch
  <2>2. ASSUME NEW e \in AllEnds
        PROVE  e \in b.ends <=> \E x \in ps : x.room = e[1] /\ x.port = e[2]
    BY <2>2 DEF AllEnds
  <2>3. b.ends # {} /\ b.what = what
    <3>1. PICK x \in ps : TRUE
      BY <1>3
    <3> DEFINE e == <<x.room, x.port, "room">>
    <3>2. e \in AllEnds /\ e[1] = x.room /\ e[2] = x.port
      BY <3>1 DEF AllEnds, PairRecord, Sides
    <3> HIDE DEF e
    <3>3. e \in b.ends
      BY <2>2, <3>2
    <3> QED BY <3>3
  <2>4. signals' = Append(signals, b)
    BY <1>3 DEF Told
  <2> HIDE DEF b
  <2>5. /\ signals' \in Seq(Batch) /\ Len(signals') = n + 1 /\ signals'[n + 1] = b
        /\ \A i \in 1 .. n : signals'[i] = signals[i]
    BY <1>1, <2>1, <2>4
  <2>6. \A i \in 1 .. n + 1 : i \in 1 .. n \/ i = n + 1
    BY <1>1
  <2>7. \A i \in 1 .. Len(signals') : signals'[i].ends # {}
    BY <1>1, <2>3, <2>5, <2>6
  <2>8. ASSUME NEW e \in AllEnds
        PROVE  About(e)' = IF e \in b.ends THEN About(e) \cup {n + 1} ELSE About(e)
    <3>1. \A i \in 1 .. n : i \in 1 .. n + 1
      BY <1>1
    <3>2. n + 1 \in 1 .. n + 1
      BY <1>1
    <3>3. \A i : i \in About(e)' <=> i \in 1 .. n + 1 /\ e \in signals'[i].ends
      BY <2>5 DEF About
    <3>4. \A i : i \in About(e) <=> i \in 1 .. n /\ e \in signals[i].ends
      BY DEF About
    <3> HIDE DEF n
    <3>5. \A i : i \in About(e)' <=> i \in About(e) \/ (i = n + 1 /\ e \in b.ends)
      BY <2>5, <2>6, <3>1, <3>2, <3>3, <3>4, Zenon
    <3> QED BY <3>5
  <2>9. \A i \in 1 .. n : Comes(i)' <=> Comes(i)
    BY <2>5 DEF Comes
  <2>10. signals'[n + 1].what = what
    BY <2>3, <2>5
  <2> QED BY <1>1, <2>2, <2>5, <2>7, <2>8, <2>9, <2>10
<1> QED BY <1>2, <1>3

\* An end goes on alternating when what is told last is what jmcore did.
LEMMA FollowsGrows ==
  ASSUME NEW e, Follows(e), NEW n \in Nat, About(e) \subseteq 1 .. n,
         About(e)' = About(e) \cup {n + 1},
         \A i \in 1 .. n : Comes(i)' <=> Comes(i),
         \A i \in {n + 1} : Comes(i)' <=> IsLinked(e)',
         IsLinked(e)' # IsLinked(e),
         shown' = shown
  PROVE  Follows(e)'
<1> DEFINE A == About(e)
           B == About(e)'
<1>1. IsLinked(e)' <=> ~IsLinked(e)
  BY DEF IsLinked
<1>2. /\ \A i \in A : i \in Nat /\ i <= n /\ i \in 1 .. n /\ i \in B
      /\ \A i \in B : i \in A \/ i = n + 1
      /\ n + 1 \in B /\ n + 1 \notin A
  OBVIOUS
<1>3. /\ \A i \in A : (\A j \in A : i <= j) => (Comes(i) <=> e \notin shown)
      /\ \A i, j \in A : i < j /\ (\A k \in A : k <= i \/ j <= k) => (Comes(i) <=> ~Comes(j))
      /\ \A i \in A : (\A j \in A : j <= i) => (Comes(i) <=> IsLinked(e))
      /\ A = {} => (e \in shown <=> IsLinked(e))
  BY DEF Follows
<1> HIDE DEF A, B
<1>4. ASSUME NEW i \in B, \A j \in B : i <= j PROVE Comes(i)' <=> e \notin shown'
  <2>1. CASE i \in A
    BY <1>2, <1>3, <1>4, <2>1
  <2>2. CASE i = n + 1
    <3>1. A = {}
      BY <1>2, <1>4, <2>2
    <3> QED BY <1>1, <1>3, <2>2, <3>1
  <2> QED BY <1>2, <2>1, <2>2
<1>5. ASSUME NEW i \in B, NEW j \in B, i < j, \A k \in B : k <= i \/ j <= k PROVE Comes(i)' <=> ~Comes(j)'
  <2>1. i \in A
    BY <1>2, <1>5
  <2>2. CASE j \in A
    BY <1>2, <1>3, <1>5, <2>1, <2>2
  <2>3. CASE j = n + 1
    <3>1. \A k \in A : k <= i
      BY <1>2, <1>5, <2>3
    <3> QED BY <1>1, <1>2, <1>3, <2>1, <2>3, <3>1
  <2> QED BY <1>2, <2>2, <2>3
<1>6. ASSUME NEW i \in B, \A j \in B : j <= i PROVE Comes(i)' <=> IsLinked(e)'
  BY <1>2, <1>6
<1>7. B # {}
  BY <1>2
<1> QED BY <1>4, <1>5, <1>6, <1>7 DEF Follows, B

\* What is about e moves up by d, and the first of it goes if it was heard.
Moved(e, d, first) ==
  /\ About(e) \subseteq Nat \ {0} /\ About(e)' \subseteq Nat \ {0}
  /\ \A i \in About(e)' : i + d \in About(e) /\ (first => i + d # 1) /\ (Comes(i)' <=> Comes(i + d))
  /\ \A j \in About(e) : (first /\ j = 1) \/ \E i \in About(e)' : j = i + d
  /\ first => 1 \in About(e)
  /\ e \in shown' <=> IF first THEN Comes(1) ELSE e \in shown
  /\ IsLinked(e)' <=> IsLinked(e)

\* An end goes on alternating when the daemon hears what is told first.
LEMMA FollowsMoves ==
  ASSUME NEW e, Follows(e), NEW d \in {0, 1}, NEW first \in BOOLEAN, Moved(e, d, first)
  PROVE  Follows(e)'
<1> DEFINE A == About(e)
           B == About(e)'
<1>1. /\ A \subseteq Nat \ {0} /\ B \subseteq Nat \ {0}
      /\ \A i \in B : i + d \in A /\ (first => i + d # 1) /\ (Comes(i)' <=> Comes(i + d))
      /\ \A j \in A : (first /\ j = 1) \/ \E i \in B : j = i + d
      /\ first => 1 \in A
      /\ e \in shown' <=> IF first THEN Comes(1) ELSE e \in shown
      /\ IsLinked(e)' <=> IsLinked(e)
  BY DEF Moved
<1>2. /\ \A i \in A : (\A j \in A : i <= j) => (Comes(i) <=> e \notin shown)
      /\ \A i, j \in A : i < j /\ (\A k \in A : k <= i \/ j <= k) => (Comes(i) <=> ~Comes(j))
      /\ \A i \in A : (\A j \in A : j <= i) => (Comes(i) <=> IsLinked(e))
      /\ A = {} => (e \in shown <=> IsLinked(e))
  BY DEF Follows
<1> HIDE DEF A, B
<1>3. ASSUME NEW i \in B, \A j \in B : i <= j PROVE Comes(i)' <=> e \notin shown'
  <2>1. i + d \in A
    BY <1>1
  <2>2. CASE first
    <3>1. 1 \in A /\ 1 < i + d
      BY <1>1, <2>1, <2>2
    <3>2. \A k \in A : k <= 1 \/ i + d <= k
      BY <1>1, <1>3
    <3>3. Comes(1) <=> ~Comes(i + d)
      BY <1>2, <2>1, <3>1, <3>2
    <3> QED BY <1>1, <2>2, <3>3
  <2>3. CASE ~first
    <3>1. \A k \in A : i + d <= k
      BY <1>1, <1>3, <2>3
    <3> QED BY <1>1, <1>2, <2>1, <2>3, <3>1
  <2> QED BY <2>2, <2>3
<1>4. ASSUME NEW i \in B, NEW j \in B, i < j, \A k \in B : k <= i \/ j <= k PROVE Comes(i)' <=> ~Comes(j)'
  <2>1. i + d \in A /\ j + d \in A /\ i + d < j + d
    BY <1>1, <1>4
  <2>2. ASSUME NEW k \in A PROVE k <= i + d \/ j + d <= k
    <3>1. CASE first /\ k = 1
      BY <1>1, <2>1, <3>1
    <3>2. CASE \E l \in B : k = l + d
      BY <1>1, <1>4, <3>2
    <3> QED BY <1>1, <3>1, <3>2
  <2> QED BY <1>1, <1>2, <2>1, <2>2
<1>5. ASSUME NEW i \in B, \A j \in B : j <= i PROVE Comes(i)' <=> IsLinked(e)'
  <2>1. i + d \in A
    BY <1>1
  <2>2. ASSUME NEW k \in A PROVE k <= i + d
    BY <1>1, <1>5, <2>1
  <2> QED BY <1>1, <1>2, <2>1, <2>2
<1>6. ASSUME B = {} PROVE e \in shown' <=> IsLinked(e)'
  <2>1. CASE first
    <3>1. 1 \in A /\ \A k \in A : k <= 1
      BY <1>1, <1>6, <2>1
    <3> QED BY <1>1, <1>2, <2>1, <3>1
  <2>2. CASE ~first
    <3>1. A = {}
      BY <1>1, <1>6, <2>2
    <3> QED BY <1>1, <1>2, <2>2, <3>1
  <2> QED BY <2>1, <2>2
<1> QED BY <1>3, <1>4, <1>5, <1>6 DEF Follows, B

-----------------------------------------------------------------------------
(***************************************************************************)
(* Steps that destroy no room and hear no signal: what they do to links    *)
(* they tell, once of each.                                                *)
(***************************************************************************)
RoomTells(r, what, ps) ==
  /\ rooms[r].there => rooms'[r].there
  /\ rooms'[r].there => rooms[r].there \/ r > made
  /\ \A p \in Ports :
       IF Pair(r, p) \in ps
       THEN /\ rooms'[r].there
            /\ Pair(r, p) \in pairs' <=> what = "appeared"
            /\ Pair(r, p) \in pairs <=> what # "appeared"
       ELSE Pair(r, p) \in pairs' <=> Pair(r, p) \in pairs
  /\ Rests(r)' => (\A p \in Ports : Pair(r, p) \notin ps) /\ (r > made \/ Rests(r))

Tells(what, ps) ==
  /\ \A x \in ps : ~x.dead
  /\ signals' = Told(what, ps) /\ shown' = shown /\ known' = known
  /\ made' \in Nat /\ made <= made' /\ leaky \subseteq leaky'
  /\ \A r \in Ids : rooms'[r].there => r <= made'
  /\ StopRuns' => Head(queue').kind = "stop"
  /\ fault' = fault \/ ~Meets'
  /\ \A r \in Ids \ leaky' : RoomTells(r, what, ps)

\* The ends of a room follow, and those of one that was never made have nothing to follow.
LEMMA EndsFollow ==
  ASSUME IInv, LInv, SInv, NEW r \in Ids \ leaky, rooms[r].there \/ r > made, NEW e \in Ends(r)
  PROVE  Follows(e)
<1>1. Heard(r) /\ (rooms[r].there => r <= made) /\ made \in Nat
  BY DEF SInv, IInv, TypeOK
<1>2. CASE rooms[r].there
  BY <1>1, <1>2 DEF Heard
<1>3. CASE ~rooms[r].there /\ r > made
  <2>1. About(e) = {} /\ e \notin shown
    BY <1>1, <1>3 DEF Heard
  <2>2. LinksOf(r) = {}
    BY <1>3, LinksForm DEF LInv, Linked
  <2>3. e[1] = r
    BY EndsForm
  <2>4. ~IsLinked(e)
    BY <2>2, <2>3 DEF IsLinked, LinksOf, Pair
  <2> QED BY <2>1, <2>4 DEF Follows
<1> QED BY <1>2, <1>3

\* What is told of a room is heard in the end.
LEMMA RoomTellsHeard ==
  ASSUME IInv, LInv, SInv, NEW what \in {"appeared", "disappeared"}, NEW ps \in SUBSET PairRecord,
         Tells(what, ps), NEW r \in Ids \ leaky'
  PROVE  Heard(r)'
<1>1. /\ r \in Ids \ leaky /\ RoomTells(r, what, ps) /\ Heard(r)
      /\ made \in Nat /\ made' \in Nat /\ made <= made' /\ r \in Nat
      /\ shown' = shown /\ (rooms'[r].there => r <= made') /\ signals' = Told(what, ps)
  BY DEF Tells, SInv, IInv, TypeOK, Ids
<1>2. /\ Len(signals) \in Nat
      /\ \A e \in AllEnds :
           LET told == \E x \in ps : x.room = e[1] /\ x.port = e[2] IN
           /\ ~told => About(e)' = About(e)
           /\ told => About(e)' = About(e) \cup {Len(signals) + 1}
           /\ told => (signals'[Len(signals) + 1].what = what)
      /\ \A i \in 1 .. Len(signals) : Comes(i)' <=> Comes(i)
  BY <1>1, ToldForm
<1>3. ASSUME NEW e \in Ends(r)
      PROVE  /\ e \in AllEnds /\ e[1] = r /\ e[2] \in Ports
             /\ (\E x \in ps : x.room = e[1] /\ x.port = e[2]) <=> Pair(r, e[2]) \in ps
  <2>1. e \in AllEnds /\ e[1] = r /\ e[2] \in Ports
    BY EndsForm
  <2>2. \A x \in ps : x.room = r /\ x.port = e[2] => x = Pair(r, e[2])
    BY DEF Tells, PairRecord, Pair
  <2>3. Pair(r, e[2]).room = r /\ Pair(r, e[2]).port = e[2]
    BY DEF Pair
  <2> QED BY <2>1, <2>2, <2>3
<1>4. ASSUME NEW e \in Ends(r), Pair(r, e[2]) \notin ps
      PROVE  About(e)' = About(e) /\ (IsLinked(e)' <=> IsLinked(e))
  <2>1. About(e)' = About(e)
    BY <1>2, <1>3, <1>4
  <2> QED BY <1>1, <1>3, <1>4, <2>1 DEF RoomTells, IsLinked
<1>5. ASSUME NEW e \in Ends(r), rooms'[r].there PROVE Follows(e)'
  <2>1. Follows(e)
    BY <1>1, <1>5, EndsFollow DEF RoomTells
  <2>2. About(e) \subseteq 1 .. Len(signals)
    BY DEF About
  <2>3. CASE Pair(r, e[2]) \in ps
    <3>1. /\ About(e)' = About(e) \cup {Len(signals) + 1}
          /\ signals'[Len(signals) + 1].what = what
      BY <1>2, <1>3, <2>3
    <3>2. /\ IsLinked(e)' <=> what = "appeared"
          /\ IsLinked(e) <=> what # "appeared"
      BY <1>1, <1>3, <2>3 DEF RoomTells, IsLinked
    <3>3. IsLinked(e)' # IsLinked(e)
      BY <3>2 DEF IsLinked
    <3>4. \A i \in {Len(signals) + 1} : Comes(i)' <=> IsLinked(e)'
      BY <3>1, <3>2 DEF Comes
    <3> QED BY <1>1, <1>2, <2>1, <2>2, <3>1, <3>3, <3>4, FollowsGrows
  <2>4. CASE Pair(r, e[2]) \notin ps
    <3>1. About(e)' = About(e) /\ (IsLinked(e)' <=> IsLinked(e))
      BY <1>4, <2>4
    <3>2. \A i \in About(e) : Comes(i)' <=> Comes(i)
      BY <1>2, <2>2
    <3> QED BY <1>1, <2>1, <3>1, <3>2 DEF Follows
  <2> QED BY <2>3, <2>4
<1>6. ASSUME ~rooms'[r].there, NEW e \in Ends(r) PROVE e \notin shown'
  BY <1>1, <1>6 DEF RoomTells, Heard
<1>7. ASSUME r > made', NEW e \in Ends(r) PROVE About(e)' = {}
  <2>1. r > made /\ ~rooms'[r].there
    BY <1>1, <1>7
  <2>2. Pair(r, e[2]) \notin ps
    BY <1>1, <1>3, <2>1 DEF RoomTells
  <2> QED BY <1>1, <1>4, <2>1, <2>2 DEF Heard
<1>8. ASSUME Rests(r)', NEW e \in Ends(r) PROVE About(e)' = {} /\ e \notin shown'
  <2>1. Pair(r, e[2]) \notin ps /\ (r > made \/ Rests(r))
    BY <1>1, <1>3, <1>8 DEF RoomTells
  <2>2. About(e)' = About(e)
    BY <1>4, <2>1
  <2>3. CASE Rests(r)
    BY <1>1, <2>2, <2>3 DEF Heard
  <2>4. CASE r > made
    <3>1. ~rooms[r].there
      BY <1>1, <2>4 DEF SInv
    <3> QED BY <1>1, <2>2, <2>4, <3>1 DEF Heard
  <2> QED BY <2>1, <2>3, <2>4
<1> QED BY <1>5, <1>6, <1>7, <1>8 DEF Heard

\* Steps of this kind keep SInv.
LEMMA TellsStep ==
  ASSUME IInv, LInv, SInv, NEW what \in {"appeared", "disappeared"}, NEW ps \in SUBSET PairRecord,
         Tells(what, ps)
  PROVE  SInv'
<1>1. signals' \in Seq(Batch) /\ \A i \in 1 .. Len(signals') : signals'[i].ends # {}
  BY ToldForm DEF Tells
<1>2. \A r \in Ids \ leaky' : Heard(r)'
  BY RoomTellsHeard
<1>3. Meets' => leaky' # {}
  BY DEF Tells, SInv, Meets
<1>4. \A e \in known' : e \in shown' \/ e[1] \in leaky'
  BY DEF Tells, SInv
<1>5. StopRuns' => Head1' = Head(queue')
  BY DEF Head1
<1>6. shown' \subseteq AllEnds /\ known' \subseteq AllEnds /\ \A r \in Ids : rooms'[r].there => r <= made'
  BY DEF Tells, SInv
<1>7. (StopRuns => Head1.kind = "stop")'
  BY <1>5 DEF Tells
<1> QED BY <1>1, <1>2, <1>3, <1>4, <1>6, <1>7 DEF SInv

-----------------------------------------------------------------------------
(***************************************************************************)
(* Steps that tell nothing.                                                *)
(***************************************************************************)
StopGoesOn == (StopRuns' => Head(queue').kind = "stop") /\ (StopRuns => StopRuns')

\* No room is made, no link, and nothing is heard.
LEMMA SilentStep ==
  ASSUME IInv, LInv, SInv, LinksRest, StopGoesOn, UNCHANGED <<made, signals, shown, known>>,
         fault' = fault \/ ~Meets'
  PROVE  SInv'
<1>1. /\ signals' = Told("appeared", {}) /\ made \in Nat
      /\ \A r \in Ids : rooms[r].there => r <= made
  BY DEF Told, SInv, IInv, TypeOK
<1>2. \A x : ~x.dead => (x \in pairs' <=> x \in pairs)
  BY DEF LinksRest
<1>3. \A r \in Ids, p \in Ports : ~Pair(r, p).dead
  BY DEF Pair
<1>4. ASSUME NEW r \in Ids PROVE RoomTells(r, "appeared", {})
  <2>1. Rests(r)' => Rests(r)
    BY DEF Rests, LinksRest, StopGoesOn
  <2> QED BY <1>2, <1>3, <2>1 DEF RoomTells, LinksRest
<1>5. Tells("appeared", {})
  <2>1. leaky' = leaky /\ \A r \in Ids : rooms'[r].there = rooms[r].there
    BY DEF LinksRest
  <2> QED BY <1>1, <1>4, <2>1 DEF Tells, StopGoesOn
<1> QED BY <1>5, TellsStep

\* A command that is not "stop" ends or waits.
LEMMA NoStop ==
  ASSUME IInv, LInv, SInv, queue # << >>, Head1.kind # "stop", Done \/ Fails \/ Waits("waiting")
  PROVE  ~StopRuns /\ ~StopRuns'
<1>1. ~StopRuns
  BY DEF SInv
<1>2. CASE Done \/ Fails
  <2>1. queue' # << >> => Head(queue').phase = "pending"
    BY <1>2, QueueFrees DEF IInv, LInv
  <2> QED BY <1>1, <2>1 DEF StopRuns, Head1
<1>3. CASE Waits("waiting")
  <2>1. Head(queue').phase = "waiting"
    BY <1>3, QueueWaits DEF IInv, LInv
  <2> QED BY <1>1, <2>1 DEF StopRuns, Head1
<1> QED BY <1>2, <1>3

\* The same head goes on.
LEMMA SameHead ==
  ASSUME SInv, queue' = queue \/ (queue' # << >> /\ StillWaits)
  PROVE  StopGoesOn
BY DEF SInv, StopGoesOn, StopRuns, StillWaits, Head1

\* A command changes one room, in nothing that concerns its links.
LEMMA CommandSilent ==
  ASSUME IInv, LInv, SInv, queue # << >>, Head1.kind # "stop", Done \/ Fails \/ Waits("waiting"),
         NEW r, NEW x, ChangesRoom(r, x), r \in Ids => SameLinks(rooms[r], x),
         fault' = fault \/ ~Meets'
  PROVE  SInv'
<1>1. LinksRest
  BY OneRoomRests DEF ChangesRoom
<1>2. StopGoesOn
  BY NoStop DEF StopGoesOn
<1> QED BY <1>1, <1>2, SilentStep DEF ChangesRoom

\* A refused command tells nothing.
LEMMA RefusedHeard == ASSUME IInv, LInv, SInv, queue # << >>, Head1.kind # "stop", Refused PROVE SInv'
<1>1. LinksRest
  BY DEF Refused, LinksRest
<1>2. StopGoesOn
  BY NoStop DEF StopGoesOn, Refused
<1> QED BY <1>1, <1>2, SilentStep DEF Refused

\* Neither does a failed assertion.
LEMMA AssertsHeard ==
  ASSUME IInv, LInv, SInv, NEW line \in {"graph.c:2377", "room_save.c:454"}, Asserts(line)
  PROVE  SInv'
<1>1. LinksRest /\ queue' = queue /\ ~Meets'
  BY DEF Asserts, LinksRest, Meets
<1> QED BY <1>1, SameHead, SilentStep DEF Asserts

\* A command that is added stops no stop.
LEMMA StopWaits ==
  ASSUME SInv, TypeOK, OnlyHeadWaits, NEW c \in Commands, c.phase = "pending", queue' = Append(queue, c)
  PROVE  StopGoesOn
<1>1. queue \in Seq(Commands) /\ queue' # << >>
  BY DEF TypeOK
<1>2. CASE queue = << >>
  <2>1. Head(queue') = c
    BY <1>2
  <2> QED BY <1>2, <2>1 DEF StopGoesOn, StopRuns, Head1
<1>3. CASE queue # << >>
  <2>1. Head(queue') = Head(queue)
    BY <1>1, <1>3
  <2> QED BY <1>1, <1>3, <2>1 DEF SInv, StopGoesOn, StopRuns, Head1
<1> QED BY <1>2, <1>3

\* A request only adds a command.
LEMMA RequestHeard == ASSUME IInv, LInv, SInv, Request PROVE SInv'
<1>1. ASSUME NEW kind \in {"create", "delete", "load", "unload", "save", "save as", "app", "start", "stop"},
             NEW room \in Ids \cup {0}, NEW name \in Names \cup {""}, Ask(kind, room, name)
      PROVE  SInv'
  <2> DEFINE c == [kind |-> kind, room |-> room, name |-> name, phase |-> "pending"]
  <2>1. c \in Commands /\ c.phase = "pending" /\ queue' = Append(queue, c)
    BY <1>1 DEF Commands, Ask
  <2> HIDE DEF c
  <2>2. StopGoesOn
    BY <2>1, StopWaits DEF IInv, LInv
  <2>3. LinksRest /\ UNCHANGED <<made, signals, shown, known, fault>>
    BY <1>1 DEF Ask, LinksRest
  <2> QED BY <2>2, <2>3, SilentStep
<1>2. AskOfRoom => SInv'
  BY <1>1 DEF AskOfRoom
<1>3. AskOfProject => SInv'
  BY <1>1 DEF AskOfProject, Existing
<1>4. AskOfStudio => SInv'
  BY <1>1 DEF AskOfStudio
<1> QED BY <1>2, <1>3, <1>4 DEF Request

\* Nothing that an unload does is told.
LEMMA UnloadHeard == ASSUME IInv, LInv, SInv, RunUnload PROVE SInv'
<1> DEFINE r == Head1.room
           x == rooms[r]
           Taken == [x EXCEPT !.state = "disconnecting", !.wired = IF x.wired = "yes" THEN "changing" ELSE @]
           Ending == [x EXCEPT !.state = "ending apps", !.app = Asked(@)]
<1>1. queue # << >> /\ Head1.kind # "stop"
  BY DEF RunUnload, IsNext
<1>2. \A y \in RoomRecords :
         /\ SameLinks(y, [y EXCEPT !.state = "disconnecting",
                                   !.wired = IF y.wired = "yes" THEN "changing" ELSE @])
         /\ SameLinks(y, [y EXCEPT !.state = "ending apps", !.app = Asked(@)])
  BY DEF SameLinks, RoomRecords
<1>3. r \in Ids => SameLinks(x, Taken) /\ SameLinks(x, Ending)
  BY <1>2, RoomIsRecord
<1>4. r \in Ids => SameLinks(x, Cleared(x)) /\ \A y \in Loads(x) : SameLinks(x, y)
  BY ClearForm, RoomIsRecord
<1>5. CASE Refused
  BY <1>1, <1>5, RefusedHeard
<1>6. CASE UnloadEnds(r)
  <2>1. (Done \/ Fails) /\ \E y \in Loads(x) \cup {Cleared(x)} : ChangesRoom(r, y)
    BY <1>6 DEF UnloadEnds
  <2>2. fault' = fault \/ ~Meets'
    BY <1>6 DEF UnloadEnds, Meets
  <2> HIDE DEF r, x
  <2> QED BY <1>1, <1>4, <2>1, <2>2, CommandSilent DEF x
<1>7. CASE Continues(r, Taken) \/ Continues(r, Ending)
  <2> HIDE DEF Taken, Ending
  <2> QED BY <1>1, <1>3, <1>7, CommandSilent DEF Continues
<1>8. CASE Asserts("graph.c:2377")
  BY <1>8, AssertsHeard
<1> QED BY <1>5, <1>6, <1>7, <1>8 DEF RunUnload, UnloadAt

\* Nothing that a save does is told.
LEMMA SaveHeard == ASSUME IInv, LInv, SInv, RunSave PROVE SInv'
<1> DEFINE r == Head1.room
           x == rooms[r]
           Saved == [x EXCEPT !.state = "loaded", !.strings = "own"]
           Failed == IF x.strings = "own" /\ Head1.kind = "save as" THEN [x EXCEPT !.strings = "freed"] ELSE x
<1>1. queue # << >> /\ Head1.kind # "stop"
  BY DEF RunSave, IsNext
<1>2. \A y \in RoomRecords : /\ SameLinks(y, [y EXCEPT !.state = "loaded", !.strings = "own"])
                            /\ SameLinks(y, [y EXCEPT !.strings = "freed"]) /\ SameLinks(y, y)
  BY DEF SameLinks, RoomRecords
<1>3. r \in Ids => SameLinks(x, Saved) /\ SameLinks(x, Failed)
  BY <1>2, RoomIsRecord
<1>4. CASE Refused
  BY <1>1, <1>4, RefusedHeard
<1>5. CASE Asserts("room_save.c:454")
  BY <1>5, AssertsHeard
<1>6. CASE (Done \/ Fails) /\ (ChangesRoom(r, Saved) \/ ChangesRoom(r, Failed)) /\ fault' = fault
  <2> HIDE DEF Saved, Failed
  <2> QED BY <1>1, <1>3, <1>6, CommandSilent
<1> QED BY <1>4, <1>5, <1>6 DEF RunSave

\* Nothing that an app command does is told.
LEMMA AppHeard == ASSUME IInv, LInv, SInv, RunApp PROVE SInv'
<1> DEFINE r == Head1.room
           new == [NoApp EXCEPT !.there = TRUE, !.autorun = TRUE]
           x == IF rooms[r].app.there THEN rooms[r] ELSE [rooms[r] EXCEPT !.app = IF jack THEN Runs(new) ELSE new]
<1>1. queue # << >> /\ Head1.kind # "stop"
  BY DEF RunApp, IsNext
<1>2. r \in Ids => SameLinks(rooms[r], x)
  <2>1. \A app : \A y \in RoomRecords : SameLinks(y, [y EXCEPT !.app = app]) /\ SameLinks(y, y)
    BY DEF SameLinks, RoomRecords
  <2> HIDE DEF new
  <2> QED BY <2>1, RoomIsRecord
<1>3. CASE Refused
  BY <1>1, <1>3, RefusedHeard
<1>4. CASE Done /\ ChangesRoom(r, x) /\ fault' = fault
  <2> HIDE DEF x
  <2> QED BY <1>1, <1>2, <1>4, CommandSilent
<1> QED BY <1>3, <1>4 DEF RunApp

-----------------------------------------------------------------------------
(***************************************************************************)
(* The daemon hears of an end.                                             *)
(***************************************************************************)
\* Of what is on its way, that of one end goes, and the rest moves up.
Hears(d, e) ==
  /\ \A i \in About(e) \cup About(e)' : i \in Nat \ {0}
  /\ \A i \in About(e)' : i + d \in About(e) /\ (e = NextEnd => i + d # 1) /\ (Comes(i)' <=> Comes(i + d))
  /\ \A j \in About(e) : (e = NextEnd /\ j = 1) \/ \E i \in About(e)' : j = i + d

LEMMA SignalForm ==
  ASSUME SInv, NEW what \in {"appeared", "disappeared"}, LinkSignal(what)
  PROVE  /\ signals' \in Seq(Batch) /\ \A i \in 1 .. Len(signals') : signals'[i].ends # {}
         /\ NextEnd \in AllEnds /\ 1 \in About(NextEnd) /\ (Comes(1) <=> what = "appeared")
         /\ \E d \in {0, 1} : \A e \in AllEnds : Hears(d, e)
<1> DEFINE b == signals[1]
           n == Len(signals)
           x == NextEnd
<1>1. /\ signals \in Seq(Batch) /\ n \in Nat /\ n > 0 /\ 1 \in 1 .. n /\ Head(signals) = b /\ b \in Batch
      /\ b.what = what /\ \A i \in 1 .. n : signals[i].ends # {}
  BY DEF SInv, LinkSignal
<1>2. x \in b.ends
  BY <1>1 DEF NextEnd
<1>3. x \in AllEnds /\ 1 \in About(x) /\ (Comes(1) <=> what = "appeared")
  BY <1>1, <1>2 DEF Batch, About, Comes
<1> HIDE DEF x
<1>4. \A e : About(e) \subseteq 1 .. n
  BY DEF About
<1>5. CASE b.ends = {x}
  <2>1. signals' = Tail(signals)
    BY <1>1, <1>5 DEF LinkSignal, x
  <2>2. /\ signals' \in Seq(Batch) /\ Len(signals') = n - 1
        /\ \A i \in 1 .. n - 1 : signals'[i] = signals[i + 1] /\ i + 1 \in 1 .. n
    BY <1>1, <2>1
  <2>3. ASSUME NEW e \in AllEnds PROVE Hears(1, e)
    <3>1. ASSUME NEW i \in About(e)' PROVE i + 1 \in About(e) /\ i + 1 # 1 /\ (Comes(i)' <=> Comes(i + 1)) /\ i \in Nat \ {0}
      <4>1. i \in 1 .. n - 1 /\ e \in signals'[i].ends
        BY <2>2 DEF About
      <4>2. i \in Nat \ {0}
        BY <1>1, <4>1
      <4> QED BY <1>1, <2>2, <4>1, <4>2 DEF About, Comes
    <3>2. ASSUME NEW j \in About(e) PROVE j \in Nat \ {0} /\ ((e = x /\ j = 1) \/ \E i \in About(e)' : j = i + 1)
      <4>1. j \in 1 .. n /\ e \in signals[j].ends
        BY DEF About
      <4>2. CASE j = 1
        BY <1>5, <4>1, <4>2
      <4>3. CASE j # 1
        <5>1. j - 1 \in 1 .. n - 1 /\ j = (j - 1) + 1
          BY <1>1, <4>1, <4>3
        <5>2. j - 1 \in About(e)'
          BY <2>2, <4>1, <5>1 DEF About
        <5> QED BY <4>1, <5>1, <5>2
      <4> QED BY <4>2, <4>3
    <3> QED BY <3>1, <3>2 DEF Hears, x
  <2>4. \A i \in 1 .. Len(signals') : signals'[i].ends # {}
    BY <1>1, <2>2
  <2> QED BY <1>3, <2>2, <2>3, <2>4 DEF x
<1>6. CASE b.ends # {x}
  <2>1. signals' = [signals EXCEPT ![1].ends = @ \ {x}]
    BY <1>1, <1>6 DEF LinkSignal, x
  <2> DEFINE c == [b EXCEPT !.ends = @ \ {x}]
  <2>2. c \in Batch /\ c.what = b.what /\ c.ends = b.ends \ {x}
    BY <1>1 DEF Batch
  <2>3. signals' = [signals EXCEPT ![1] = c]
    BY <2>1
  <2> HIDE DEF c
  <2>4. /\ signals' \in Seq(Batch) /\ Len(signals') = n
        /\ \A i \in 1 .. n : signals'[i] = IF i = 1 THEN c ELSE signals[i]
    BY <1>1, <2>2, <2>3
  <2>5. ASSUME NEW e \in AllEnds PROVE Hears(0, e)
    <3>1. ASSUME NEW i \in About(e)' PROVE i \in About(e) /\ (e = x => i # 1) /\ (Comes(i)' <=> Comes(i)) /\ i \in Nat \ {0}
      <4>1. i \in 1 .. n /\ e \in signals'[i].ends
        BY <2>4 DEF About
      <4> QED BY <1>1, <2>2, <2>4, <4>1 DEF About, Comes
    <3>2. ASSUME NEW j \in About(e) PROVE j \in Nat \ {0} /\ ((e = x /\ j = 1) \/ j \in About(e)')
      <4>1. j \in 1 .. n /\ e \in signals[j].ends
        BY DEF About
      <4> QED BY <1>1, <2>2, <2>4, <4>1 DEF About
    <3>3. \A i \in Nat : i + 0 = i
      OBVIOUS
    <3> QED BY <3>1, <3>2, <3>3 DEF Hears, x
  <2>6. \A i \in 1 .. Len(signals') : signals'[i].ends # {}
    <3>1. c.ends # {}
      BY <1>2, <1>6, <2>2
    <3> QED BY <1>1, <2>4, <3>1
  <2> QED BY <1>3, <2>4, <2>5, <2>6 DEF x
<1> QED BY <1>5, <1>6

\* What the daemon hears, it shows.
HearingShows ==
  /\ \A e : e # NextEnd => (e \in shown' <=> e \in shown)
  /\ IF rooms[NextEnd[1]].there THEN NextEnd \in shown' <=> Comes(1) ELSE NextEnd \in shown' => NextEnd \in shown

\* A room goes on following what is on its way.
LEMMA HearingHeard ==
  ASSUME IInv, LInv, SInv, NEW what \in {"appeared", "disappeared"}, LinkSignal(what), HearingShows,
         NEW r \in Ids \ leaky
  PROVE  Heard(r)'
<1> DEFINE x == NextEnd
<1>1. x \in AllEnds /\ 1 \in About(x) /\ \E d \in {0, 1} : \A e \in AllEnds : Hears(d, e)
  BY SignalForm
<1>2. PICK d \in {0, 1} : \A e \in AllEnds : Hears(d, e)
  BY <1>1
<1>3. UNCHANGED <<rooms, made, queue, pairs, leaky>> /\ Heard(r)
  BY DEF LinkSignal, SInv
<1>4. \A e \in Ends(r) : e \in AllEnds /\ e[1] = r
  BY EndsForm
<1>5. /\ \A e : e # x => (e \in shown' <=> e \in shown)
      /\ rooms[x[1]].there => (x \in shown' <=> Comes(1))
      /\ ~rooms[x[1]].there => (x \in shown' => x \in shown)
  BY DEF HearingShows
<1> HIDE DEF x
<1>6. ASSUME NEW e \in Ends(r), About(e) = {} PROVE About(e)' = {} /\ e # x
  BY <1>1, <1>2, <1>4, <1>6 DEF Hears
<1>7. ASSUME NEW e \in Ends(r), rooms[r].there PROVE Follows(e)'
  <2> DEFINE first == (e = x)
  <2>1. Follows(e) /\ Hears(d, e) /\ first \in BOOLEAN
    BY <1>2, <1>3, <1>4, <1>7 DEF Heard
  <2>2. IsLinked(e)' <=> IsLinked(e)
    BY <1>3 DEF IsLinked
  <2>3. e \in shown' <=> IF first THEN Comes(1) ELSE e \in shown
    BY <1>4, <1>5, <1>7
  <2>4. Moved(e, d, first)
    <3>1. first => 1 \in About(e)
      BY <1>1
    <3> QED BY <2>1, <2>2, <2>3, <3>1 DEF Hears, Moved, x
  <2> HIDE DEF first
  <2> QED BY <2>1, <2>4, FollowsMoves
<1>8. ASSUME NEW e \in Ends(r), ~rooms[r].there PROVE e \notin shown'
  BY <1>3, <1>4, <1>5, <1>8 DEF Heard
<1>9. Rests(r)' <=> Rests(r)
  BY <1>3 DEF Rests, StopRuns, Head1
<1>10. Rests(r) => \A e \in Ends(r) : About(e)' = {} /\ e \notin shown'
  BY <1>3, <1>5, <1>6 DEF Heard
<1>11. r > made => \A e \in Ends(r) : About(e)' = {}
  BY <1>3, <1>6 DEF Heard
<1> QED BY <1>3, <1>7, <1>8, <1>9, <1>10, <1>11 DEF Heard

\* An end that is heard of was not where it comes to be, if its room is not leaky.
LEMMA HeardIsNew ==
  ASSUME SInv, NEW what \in {"appeared", "disappeared"}, LinkSignal(what), leaky = {},
         rooms[NextEnd[1]].there
  PROVE  what = "appeared" <=> NextEnd \notin shown
<1> DEFINE x == NextEnd
<1>1. x \in AllEnds /\ 1 \in About(x) /\ (Comes(1) <=> what = "appeared")
  BY SignalForm
<1>2. x[1] \in Ids /\ x \in Ends(x[1])
  BY <1>1, EndsForm
<1>3. Follows(x)
  BY <1>2 DEF SInv, Heard
<1>4. \A j \in About(x) : 1 <= j
  BY DEF About, SInv
<1> HIDE DEF x
<1> QED BY <1>1, <1>3, <1>4 DEF Follows, x

\* What the daemon hears keeps SInv.
LEMMA HearingStep == ASSUME IInv, LInv, SInv, LinkAppeared \/ LinkDisappeared PROVE SInv'
<1> DEFINE x == NextEnd
           what == IF LinkAppeared THEN "appeared" ELSE "disappeared"
<1>1. what \in {"appeared", "disappeared"} /\ LinkSignal(what)
  BY DEF LinkAppeared, LinkDisappeared
<1> HIDE DEF what
<1>2. /\ signals' \in Seq(Batch) /\ \A i \in 1 .. Len(signals') : signals'[i].ends # {}
      /\ x \in AllEnds /\ (Comes(1) <=> what = "appeared")
  BY <1>1, SignalForm
<1>3. LinkAppeared => what = "appeared"
  BY DEF what
<1>4. LinkDisappeared => what = "disappeared"
  BY DEF what, LinkAppeared, LinkDisappeared, LinkSignal
<1>5. UNCHANGED <<rooms, made, queue, leaky>>
  BY <1>1 DEF LinkSignal
<1> HIDE DEF x
<1>6. HearingShows
  BY <1>2, <1>3, <1>4 DEF HearingShows, LinkAppeared, LinkDisappeared, x
<1>7. \A r \in Ids \ leaky' : Heard(r)'
  BY <1>1, <1>5, <1>6, HearingHeard
<1>8. /\ shown' \subseteq AllEnds /\ known' \subseteq AllEnds
      /\ \A e \in known' : e \in shown' \/ e[1] \in leaky'
  BY <1>2, <1>5 DEF SInv, LinkAppeared, LinkDisappeared, x
<1>9. Meets' => leaky' # {}
  <2> SUFFICES ASSUME leaky = {} PROVE ~Meets'
    BY <1>5
  <2>1. ~Meets
    BY DEF SInv
  <2>2. CASE LinkAppeared
    <3>1. rooms[x[1]].there => x \notin shown
      BY <1>1, <1>3, <2>2, HeardIsNew DEF x
    <3> QED BY <2>1, <2>2, <3>1 DEF LinkAppeared, Meets, x
  <2>3. CASE LinkDisappeared
    <3>1. ~rooms[x[1]].there => x \notin shown
      BY <1>2, EndsForm DEF SInv, Heard
    <3>2. x \in known => x \in shown
      BY DEF SInv
    <3> QED BY <2>1, <2>3, <3>1, <3>2 DEF LinkDisappeared, Meets, x
  <2> QED BY <2>2, <2>3
<1>10. StopRuns' => Head1' = Head1 /\ StopRuns
  BY <1>5 DEF StopRuns, Head1
<1> QED BY <1>2, <1>5, <1>7, <1>8, <1>9, <1>10 DEF SInv

\* What users, apps, jmcore and JACK do keeps SInv.
LEMMA WorldHeard == ASSUME IInv, LInv, SInv, World PROVE SInv'
<1>1. ASSUME LinksRest, UNCHANGED <<queue, made, signals, shown, known, fault>> PROVE SInv'
  BY <1>1, SameHead, SilentStep
<1>2. ASSUME NEW r \in Ids, NEW x, Becomes(r, x), SameLinks(rooms[r], x)
      PROVE  SInv'
  <2>1. LinksRest
    BY <1>2, OneRoomRests DEF Becomes
  <2> QED BY <1>1, <1>2, <2>1 DEF Becomes
<1>3. ASSUME NEW y \in RoomRecords
      PROVE  /\ SameLinks(y, [y EXCEPT !.app.visible = TRUE])
             /\ SameLinks(y, [y EXCEPT !.app.pid = FALSE, !.app.asked = FALSE])
             /\ SameLinks(y, [y EXCEPT !.app.visible = FALSE, !.wired = "no"])
             /\ SameLinks(y, [y EXCEPT !.wired = "yes"])
             /\ SameLinks(y, [y EXCEPT !.wired = "no"])
  BY DEF SameLinks, RoomRecords
<1>4. CASE AppAppears
  BY <1>2, <1>3, <1>4, RoomIsRecord DEF AppAppears, Existing
<1>5. CASE AppExits
  BY <1>2, <1>3, <1>5, RoomIsRecord DEF AppExits, Existing
<1>6. CASE AppDisappears
  BY <1>2, <1>3, <1>6, RoomIsRecord DEF AppDisappears, Existing
<1>7. CASE UserConnects
  BY <1>2, <1>3, <1>7, RoomIsRecord DEF UserConnects, Existing
<1>8. CASE PortsDisconnected
  BY <1>2, <1>3, <1>8, RoomIsRecord DEF PortsDisconnected, Existing
<1>9. CASE LostExits \/ BuryZombiePairs
  <2>1. LinksRest /\ UNCHANGED <<queue, made, signals, shown, known, fault>>
    BY <1>9 DEF LostExits, BuryZombiePairs, LinksRest
  <2> QED BY <1>1, <2>1
<1> QED BY <1>4, <1>5, <1>6, <1>7, <1>8, <1>9, HearingStep DEF World

-----------------------------------------------------------------------------
(***************************************************************************)
(* Steps that make links, unmake them, or destroy a room.                  *)
(***************************************************************************)
\* A pair is one of the pairs of its room, and live.
LEMMA PairForm ==
  ASSUME NEW r \in Ids, NEW p \in Ports
  PROVE  /\ Pair(r, p) \in PairsOf(r)
         /\ \A q \in Ids : Pair(r, p) \in PairsOf(q) => q = r
         /\ Pair(r, p) \in LinksOf(r) <=> Pair(r, p) \in pairs
         /\ ~Pair(r, p).dead /\ Pair(r, p).room = r
<1>1. ~Pair(r, p).dead /\ Pair(r, p).room = r
  BY DEF Pair
<1>2. Pair(r, p) \in PairsOf(r)
  BY DEF PairsOf
<1>3. \A q \in Ids : Pair(r, p) \in PairsOf(q) => q = r
  BY <1>1, PairsForm
<1> QED BY <1>1, <1>2, <1>3 DEF LinksOf

\* A room that is not started has no links.
LEMMA UnstartedForm ==
  ASSUME LInv, NEW r \in Ids \ leaky, ~rooms[r].started \/ ~rooms[r].there, NEW p \in Ports
  PROVE  Pair(r, p) \notin pairs
<1>1. ~rooms[r].started
  BY DEF LInv, Linked
<1>2. LinksOf(r) = {}
  BY <1>1, LinksForm DEF LInv
<1> QED BY <1>2, PairForm

\* What is told of rooms whose links are unmade.
LEMMA UnmadeForm ==
  ASSUME Linked, NEW rs, LinksUnmade(rs)
  PROVE  \E ps \in SUBSET PairRecord :
           /\ signals' = Told("disappeared", ps) /\ \A x \in ps : ~x.dead
           /\ \A r \in Ids \ leaky, p \in Ports :
                /\ Pair(r, p) \in ps <=> r \in rs /\ Pair(r, p) \in pairs
                /\ Pair(r, p) \in pairs' <=> Pair(r, p) \in pairs /\ Pair(r, p) \notin ps
<1> DEFINE named == { x \in pairs : x.room \in rs }
           first == { x \in named : x.dead \/ [x EXCEPT !.dead = TRUE] \notin pairs }
           ps == { x \in first : ~x.dead }
<1>1. pairs' = pairs \ first /\ signals' = Told("disappeared", ps)
  BY DEF LinksUnmade
<1>2. ps \in SUBSET PairRecord /\ \A x \in ps : ~x.dead
  BY DEF Linked, PairRecord
<1>3. ASSUME NEW r \in Ids \ leaky, NEW p \in Ports
      PROVE  /\ Pair(r, p) \in ps <=> r \in rs /\ Pair(r, p) \in pairs
             /\ Pair(r, p) \in first <=> Pair(r, p) \in ps
  <2> DEFINE x == Pair(r, p)
             y == [x EXCEPT !.dead = TRUE]
  <2>1. ~x.dead /\ x.room = r /\ y.dead /\ y.room = r
    BY DEF Pair
  <2>2. y \notin pairs
    BY <2>1 DEF Linked
  <2> QED BY <2>1, <2>2
<1> HIDE DEF ps, first
<1>4. \A r \in Ids \ leaky, p \in Ports :
        /\ Pair(r, p) \in ps <=> r \in rs /\ Pair(r, p) \in pairs
        /\ Pair(r, p) \in pairs' <=> Pair(r, p) \in pairs /\ Pair(r, p) \notin ps
  BY <1>1, <1>3
<1> QED BY <1>1, <1>2, <1>4

\* A room is made.
LEMMA CreateHeard == ASSUME IInv, LInv, SInv, RunCreate PROVE SInv'
<1> DEFINE r == made + 1
           n == Head1.name
           new == IF jack THEN StartedRoom(NewRoom(n)) ELSE NewRoom(n)
<1>1. /\ queue # << >> /\ Head1.kind # "stop" /\ n \in Names \cup {""} /\ r \in Ids /\ made \in Nat
      /\ rooms \in [Ids -> RoomRecords]
  <2>1. queue # << >> /\ Head1.kind = "create" /\ made < MaxRooms /\ made \in Nat
    BY DEF RunCreate, IsNext, IInv, TypeOK
  <2>2. MaxRooms \in Nat
    BY RoomsAssumption
  <2>3. n \in Names \cup {""}
    BY <2>1, HeadIsCommand DEF IInv, Commands
  <2>4. r \in Ids
    BY <2>1, <2>2 DEF Ids
  <2> QED BY <2>1, <2>3, <2>4 DEF IInv, TypeOK
<1>0. made \in Nat
  BY DEF IInv, TypeOK
<1>2. /\ new.there
      /\ jack => new.started
      /\ ~jack => ~new.started
  <2>1. /\ NewRoom(n) \in RoomRecords /\ NewRoom(n).there
    BY <1>1, NewIsRoom DEF IInv
  <2>2. ~NewRoom(n).started
    BY DEF NewRoom, Gone
  <2> HIDE DEF n
  <2> QED BY <2>1, <2>2, StartForm
<1>3. r = made + 1 /\ ~rooms[r].there /\ \A q \in Ids : rooms[q].there => q <= made /\ q \in Nat
  <2>1. \A q \in Ids : rooms[q].there => q <= made
    BY DEF SInv
  <2>2. ~(r <= made)
    BY <1>0
  <2>3. MaxRooms \in Nat
    BY RoomsAssumption
  <2>4. Ids \subseteq Nat
    BY <2>3 DEF Ids
  <2> QED BY <1>1, <2>1, <2>2, <2>4
<1> HIDE DEF new, r
<1>4. CASE Refused
  BY <1>1, <1>4, RefusedHeard
<1>5. ASSUME NEW ps \in SUBSET PairsOf(r), Done \/ Fails, LinksMade(ps), made' = r,
             UNCHANGED <<shown, known, fault>>,
             \/ ps # {} /\ leaky' = leaky \cup {r} /\ rooms' = rooms
             \/ ps = {} /\ leaky' = leaky /\ rooms' = rooms
             \/ ps = (IF jack THEN PairsOf(r) ELSE {}) /\ leaky' = leaky /\ rooms' = [rooms EXCEPT ![r] = new]
      PROVE  SInv'
  <2>1. ps \in SUBSET PairRecord /\ \A x \in ps : ~x.dead /\ x.room = r
    BY <1>1, <1>5, PairsForm DEF PairRecord
  <2>2. ~StopRuns /\ ~StopRuns'
    BY <1>1, <1>5, NoStop
  <2>3. \A q \in Ids : q # r => rooms'[q] = rooms[q]
    BY <1>1, <1>5
  <2>4. signals' = Told("appeared", ps) /\ pairs' = pairs \cup ps
    BY <1>5 DEF LinksMade
  <2>5. ASSUME NEW q \in Ids \ leaky' PROVE RoomTells(q, "appeared", ps)
    <3>1. CASE q # r \/ (ps = {} /\ rooms' = rooms)
      <4>1. rooms'[q] = rooms[q] /\ \A p \in Ports : Pair(q, p) \notin ps
        BY <2>1, <2>3, <3>1, PairForm
      <4> QED BY <2>2, <2>4, <4>1 DEF RoomTells, Rests
    <3>2. CASE q = r /\ ps = (IF jack THEN PairsOf(r) ELSE {}) /\ leaky' = leaky /\ rooms' = [rooms EXCEPT ![r] = new]
      <4>1. rooms'[q] = new
        BY <1>1, <3>2
      <4>4. ~rooms[q].there
        BY <1>3, <3>2
      <4>5. q > made
        BY <1>3, <1>0, <3>2
      <4>2. \A p \in Ports : Pair(q, p) \notin pairs
        BY <3>2, <4>4, UnstartedForm
      <4>3. \A p \in Ports : Pair(q, p) \in ps <=> jack
        BY <3>2, PairForm
      <4> QED BY <1>2, <2>4, <4>1, <4>2, <4>3, <4>4, <4>5 DEF RoomTells, Rests
    <3>3. CASE ps # {} /\ leaky' = leaky \cup {r} /\ rooms' = rooms
      BY <3>1, <3>3
    <3>4. CASE ps = {} /\ leaky' = leaky /\ rooms' = rooms
      BY <3>1, <3>4
    <3>5. CASE ps = (IF jack THEN PairsOf(r) ELSE {}) /\ leaky' = leaky /\ rooms' = [rooms EXCEPT ![r] = new]
      BY <3>1, <3>2, <3>5
    <3> QED BY <1>5, <3>3, <3>4, <3>5
  <2>6. \A q \in Ids : rooms'[q].there => q <= made'
    <3> TAKE q \in Ids
    <3>1. CASE q = r
      BY <1>3, <1>5, <1>0, <3>1
    <3>2. CASE q # r
      BY <1>3, <1>5, <1>0, <2>3, <3>2
    <3> QED BY <3>1, <3>2
  <2>7. made' \in Nat /\ made <= made'
    <3>1. made' = made + 1
      BY <1>3, <1>5
    <3> QED BY <1>0, <3>1
  <2>9. leaky \subseteq leaky'
    BY <1>5
  <2>8. Tells("appeared", ps)
    BY <1>5, <2>1, <2>2, <2>4, <2>5, <2>6, <2>7, <2>9 DEF Tells
  <2> QED BY <2>1, <2>8, TellsStep
<1>6. CASE /\ Done /\ made' = r /\ rooms' = [rooms EXCEPT ![r] = new]
           /\ LinksMade(IF jack THEN PairsOf(r) ELSE {}) /\ UNCHANGED <<leaky, shown, known, fault>>
  BY <1>5, <1>6
<1>7. ASSUME NEW ps \in SUBSET PairsOf(r), Fails, LinksMade(ps), made' = r,
             leaky' = IF ps # {} THEN leaky \cup {r} ELSE leaky, UNCHANGED <<rooms, shown, known, fault>>
      PROVE  SInv'
  BY <1>5, <1>7
<1> QED BY <1>4, <1>6, <1>7 DEF RunCreate, new, r

\* The studio starts.
LEMMA StartHeard == ASSUME IInv, LInv, SInv, RunStart PROVE SInv'
<1>1. queue # << >> /\ Head1.kind # "stop" /\ Linked /\ rooms \in [Ids -> RoomRecords] /\ made \in Nat
  BY DEF RunStart, IsNext, LInv, IInv, TypeOK
<1>2. CASE Refused
  BY <1>1, <1>2, RefusedHeard
<1>3. CASE Done /\ UNCHANGED <<rooms, made, jack, pairs, signals, shown, known, leaky, fault>>
  <2>1. LinksRest /\ StopGoesOn
    BY <1>1, <1>3, NoStop DEF LinksRest, StopGoesOn
  <2> QED BY <1>3, <2>1, SilentStep
<1>4. ASSUME ~jack, Done, NEW all, NEW bad, NEW ps, Starting(all, bad, ps),
             signals' = Told("appeared", ps \cup UNION { PairsOf(r) : r \in all }),
             \A r \in Ids : rooms'[r].there <=> rooms[r].there,
             UNCHANGED <<made, shown, known, fault>>
      PROVE  SInv'
  <2> DEFINE told == ps \cup UNION { PairsOf(r) : r \in all }
  <2>1. /\ all \subseteq Existing /\ all \subseteq Ids
        /\ pairs' = pairs \cup told /\ signals' = Told("appeared", told)
        /\ ps \subseteq (IF bad \in Ids THEN PairsOf(bad) ELSE {})
        /\ leaky' = IF ps # {} THEN leaky \cup {bad} ELSE leaky
        /\ \A r \in all : rooms'[r] = StartedRoom(rooms[r])
        /\ \A r \in Ids \ all : ~rooms'[r].started
    BY <1>4 DEF Starting, Existing
  <2>2. /\ \A x \in ps : x \in PairRecord /\ ~x.dead /\ x.room = bad
        /\ \A x \in UNION { PairsOf(r) : r \in all } : x \in PairRecord /\ ~x.dead /\ x.room \in all
    BY <2>1, PairsForm DEF PairRecord
  <2>3. \A r \in all, p \in Ports : Pair(r, p) \in told
    BY <2>1, PairForm
  <2>4. told \in SUBSET PairRecord /\ \A x \in told : ~x.dead
    BY <2>2
  <2>5. \A x \in told : (x \in ps /\ x.room = bad) \/ x.room \in all
    BY <2>2
  <2> HIDE DEF told
  <2>6. ~StopRuns /\ ~StopRuns'
    BY <1>1, <1>4, NoStop
  <2>7. ASSUME NEW r \in Ids \ leaky' PROVE RoomTells(r, "appeared", told)
    <3>1. r \in Ids \ leaky /\ ~rooms[r].started
      BY <1>1, <1>4, <2>1, <2>7 DEF Linked
    <3>2. CASE r \in all
      <4>1. rooms'[r].started /\ rooms[r].there
        BY <1>1, <2>1, <3>2, StartForm DEF Existing
      <4>2. \A p \in Ports : Pair(r, p) \notin pairs /\ Pair(r, p) \in told
        BY <2>3, <3>1, <3>2, UnstartedForm
      <4> QED BY <1>4, <2>1, <4>1, <4>2 DEF RoomTells, Rests
    <3>3. CASE r \notin all
      <4>1. \A p \in Ports : Pair(r, p) \notin told
        <5> SUFFICES ASSUME NEW p \in Ports, Pair(r, p) \in told PROVE FALSE
          OBVIOUS
        <5>1. ps # {} /\ r = bad
          BY <2>5, <3>3, PairForm
        <5> QED BY <2>1, <2>7, <5>1
      <4>2. Rests(r)' => Rests(r)
        BY <1>4, <2>6, <3>1 DEF Rests
      <4> QED BY <1>4, <2>1, <4>1, <4>2 DEF RoomTells
    <3> QED BY <3>2, <3>3
  <2>8. \A r \in Ids : rooms'[r].there => r <= made'
    BY <1>4 DEF SInv
  <2>9. Tells("appeared", told)
    BY <1>1, <1>4, <2>1, <2>4, <2>6, <2>7, <2>8 DEF Tells
  <2> QED BY <2>4, <2>9, TellsStep
<1>5. CASE /\ ~jack /\ Done /\ UNCHANGED <<made, shown, known, leaky, fault>>
           /\ rooms' = [r \in Ids |-> IF rooms[r].there THEN StartedRoom(rooms[r]) ELSE Gone]
           /\ LinksMade(UNION { PairsOf(r) : r \in Existing })
  <2>1. /\ \A r \in Existing : rooms'[r] = StartedRoom(rooms[r])
        /\ \A r \in Ids \ Existing : ~rooms'[r].started
        /\ \A r \in Ids : rooms'[r].there <=> rooms[r].there
    BY <1>1, <1>5, StartForm DEF Existing, Gone
  <2> DEFINE told == {} \cup UNION { PairsOf(r) : r \in Existing }
  <2>2. told = UNION { PairsOf(r) : r \in Existing }
    OBVIOUS
  <2> HIDE DEF told
  <2>3. pairs' = pairs \cup told /\ signals' = Told("appeared", told)
    BY <1>5, <2>2 DEF LinksMade
  <2>4. Starting(Existing, 0, {})
    BY <1>5, <2>1, <2>3 DEF Starting, told
  <2> QED BY <1>4, <1>5, <2>1, <2>3, <2>4 DEF told
<1>6. ASSUME ~jack, Done, NEW bad \in Existing, NEW ps \in SUBSET PairsOf(bad),
             rooms' = [r \in Ids |->
                         IF r \in { q \in Existing : q < bad } THEN StartedRoom(rooms[r])
                         ELSE [rooms[r] EXCEPT !.handlers = rooms[r].there]],
             LinksMade(ps \cup UNION { PairsOf(r) : r \in { q \in Existing : q < bad } }),
             leaky' = IF ps # {} THEN leaky \cup {bad} ELSE leaky,
             UNCHANGED <<made, shown, known, fault>>
      PROVE  SInv'
  <2> DEFINE before == { q \in Existing : q < bad }
  <2>1. /\ \A r \in before : rooms'[r] = StartedRoom(rooms[r])
        /\ \A r \in Ids \ before : rooms'[r] = [rooms[r] EXCEPT !.handlers = rooms[r].there]
        /\ before \in SUBSET Existing /\ bad \in Ids
    BY <1>6 DEF Existing
  <2> HIDE DEF before
  <2>2. \A r \in Ids : rooms[r] \in RoomRecords /\ ~rooms[r].started
    BY <1>1, <1>6 DEF Linked
  <2>3. \A r \in Ids \ before : ~rooms'[r].started /\ (rooms'[r].there <=> rooms[r].there)
    BY <2>1, <2>2 DEF RoomRecords
  <2>4. \A r \in before : r \in Ids /\ (rooms'[r].there <=> rooms[r].there)
    BY <2>1, <2>2, StartForm DEF Existing
  <2>5. /\ pairs' = pairs \cup (ps \cup UNION { PairsOf(r) : r \in before })
        /\ signals' = Told("appeared", ps \cup UNION { PairsOf(r) : r \in before })
    BY <1>6 DEF LinksMade, before
  <2>6. Starting(before, bad, ps)
    BY <1>6, <2>1, <2>3, <2>5 DEF Starting
  <2> QED BY <1>4, <1>6, <2>3, <2>4, <2>5, <2>6
<1> QED BY <1>2, <1>3, <1>5, <1>6 DEF RunStart

\* A room that is found stopped shows nothing any more.
LEMMA StoppedShowsNothing ==
  ASSUME SInv, NEW r \in Ids \ leaky, rooms[r].there, ~StopRuns, Stopped(r), NEW e \in Ends(r)
  PROVE  e \notin shown
<1>1. CASE rooms[r].started
  <2>1. \A p \in Ports : <<r, p, "room">> \notin shown /\ <<r, p, "owner">> \notin shown
    BY <1>1 DEF Stopped, LooksEmpty, OwnerSideEmpty
  <2>2. PICK p \in Ports, s \in Sides : e = <<r, p, s>>
    BY DEF Ends
  <2> QED BY <2>1, <2>2 DEF Sides
<1>2. CASE ~rooms[r].started
  BY <1>2 DEF SInv, Heard, Rests
<1> QED BY <1>1, <1>2

\* A room is destroyed when nothing of it is shown.
LEMMA DestroyHeard ==
  ASSUME IInv, LInv, SInv, NEW r \in Ids, rooms[r].there, ~StopRuns, ~StopRuns', Stopped(r), Destroy(r),
         UNCHANGED <<made, pairs, signals, leaky>>, Meets' => Meets
  PROVE  SInv'
<1>1. /\ \A q \in Ids : rooms'[q] = IF q = r THEN Gone ELSE rooms[q]
      /\ ~Gone.there /\ shown' = shown \ Ends(r) /\ known' \subseteq known
  BY DEF Destroy, IInv, TypeOK, Gone
<1>2. \A e \in known' : e \in shown' \/ e[1] \in leaky'
  <2> SUFFICES ASSUME NEW e \in known', e[1] \notin leaky PROVE e \in shown'
    OBVIOUS
  <2>1. e \in shown
    BY <1>1 DEF SInv
  <2>2. ASSUME e \in Ends(r) PROVE FALSE
    <3>1. e[1] = r
      BY <2>2, EndsForm
    <3> QED BY <2>1, <2>2, <3>1, StoppedShowsNothing
  <2> QED BY <1>1, <2>1, <2>2
<1>3. ASSUME NEW q \in Ids \ leaky' PROVE Heard(q)'
  <2>1. Heard(q)
    BY <1>3 DEF SInv
  <2>2. \A e \in Ends(q) : About(e)' = About(e)
    BY DEF About
  <2>3. CASE q = r
    <3>1. ~rooms'[q].there /\ \A e \in Ends(q) : e \notin shown'
      BY <1>1, <2>3
    <3> QED BY <2>1, <2>2, <3>1 DEF Heard, Rests
  <2>4. CASE q # r
    <3>1. \A e \in Ends(q) : e \notin Ends(r)
      BY <2>4, EndsForm
    <3>2. \A e \in Ends(q) : e \in shown' <=> e \in shown
      BY <1>1, <3>1
    <3>3. ASSUME NEW e \in Ends(q), Follows(e) PROVE Follows(e)'
      <4>1. (IsLinked(e)' <=> IsLinked(e)) /\ \A i : Comes(i)' <=> Comes(i)
        BY DEF IsLinked, Comes
      <4> QED BY <2>2, <3>2, <3>3, <4>1 DEF Follows
    <3>4. rooms'[q] = rooms[q]
      BY <1>1, <2>4
    <3>5. Rests(q)' => Rests(q)
      BY <3>4 DEF Rests
    <3> QED BY <2>1, <2>2, <3>2, <3>3, <3>4, <3>5 DEF Heard
  <2> QED BY <2>3, <2>4
<1>4. /\ signals' \in Seq(Batch) /\ \A i \in 1 .. Len(signals') : signals'[i].ends # {}
      /\ shown' \subseteq AllEnds /\ known' \subseteq AllEnds
      /\ \A q \in Ids : rooms'[q].there => q <= made'
      /\ (StopRuns' => Head1'.kind = "stop")
      /\ (Meets' => leaky' # {})
  BY <1>1 DEF SInv
<1> QED BY <1>2, <1>3, <1>4 DEF SInv

\* A room is deleted.
LEMMA DeleteHeard == ASSUME IInv, LInv, SInv, RunDelete PROVE SInv'
<1>1. /\ queue # << >> /\ Head1.kind # "stop" /\ Linked /\ rooms \in [Ids -> RoomRecords]
      /\ ~StopRuns
  BY DEF RunDelete, IsNext, LInv, IInv, TypeOK, SInv
<1>2. CASE Refused
  BY <1>1, <1>2, RefusedHeard
<1>3. ASSUME NEW r \in Named(Head1.name), Waits("waiting"), rooms' = [rooms EXCEPT ![r] = StoppingRoom(@)],
             LinksUnmade(IF rooms[r].started THEN {r} ELSE {}),
             UNCHANGED <<made, shown, known, leaky, fault>>
      PROVE  SInv'
  <2>1. r \in Ids /\ rooms[r] \in RoomRecords /\ rooms[r].there
    BY <1>1 DEF Named, Existing
  <2>2. \A q \in Ids : rooms'[q] = IF q = r THEN StoppingRoom(rooms[r]) ELSE rooms[q]
    BY <1>1, <1>3
  <2>3. ASSUME NEW q \in Ids
        PROVE  (rooms'[q].there <=> rooms[q].there) /\ (rooms'[q].started <=> rooms[q].started)
    BY <2>1, <2>2, StopForm
  <2> DEFINE rs == IF rooms[r].started THEN {r} ELSE {}
  <2>4. \A q \in rs : rooms[q].there /\ rooms[q].started
    BY <2>1
  <2>5. LinksUnmade(rs)
    BY <1>3
  <2> HIDE DEF rs
  <2>6. PICK ps \in SUBSET PairRecord :
           /\ signals' = Told("disappeared", ps) /\ \A x \in ps : ~x.dead
           /\ \A q \in Ids \ leaky, p \in Ports :
                /\ Pair(q, p) \in ps <=> q \in rs /\ Pair(q, p) \in pairs
                /\ Pair(q, p) \in pairs' <=> Pair(q, p) \in pairs /\ Pair(q, p) \notin ps
    BY <1>1, <2>5, UnmadeForm
  <2>7. ~StopRuns'
    BY <1>1, <1>3, NoStop
  <2>8. ASSUME NEW q \in Ids \ leaky' PROVE RoomTells(q, "disappeared", ps)
    <3>1. q \in Ids \ leaky
      BY <1>3
    <3>2. Rests(q)' => Rests(q) /\ q \notin rs
      BY <1>1, <2>3, <2>4 DEF Rests
    <3> QED BY <2>3, <2>4, <2>6, <3>1, <3>2 DEF RoomTells
  <2>9. made \in Nat /\ \A q \in Ids : rooms'[q].there => q <= made'
    BY <1>3, <2>3 DEF SInv, IInv, TypeOK
  <2>10. Tells("disappeared", ps)
    BY <1>3, <2>6, <2>7, <2>8, <2>9 DEF Tells
  <2> QED BY <2>10, TellsStep
<1>4. ASSUME NEW r \in Named(Head1.name), Stopped(r), Done, Destroy(r),
             UNCHANGED <<made, pairs, signals, leaky>>, fault' = fault \/ ~Meets'
      PROVE  SInv'
  <2>1. r \in Ids /\ rooms[r].there
    BY DEF Named, Existing
  <2>2. ~StopRuns'
    BY <1>1, <1>4, NoStop
  <2>3. Meets' => Meets
    BY <1>4 DEF Meets
  <2> QED BY <1>1, <1>4, <2>1, <2>2, <2>3, DestroyHeard
<1>5. fault' = (IF FALSE THEN "room.c:387" ELSE fault) \/ fault' = "room.c:387" => fault' = fault \/ ~Meets'
  BY DEF Meets
<1>6. ASSUME NEW r \in Named(Head1.name), ~Pending, Stopped(r), Done, Destroy(r),
             fault' = IF rooms[r].strings = "freed" THEN "room.c:387" ELSE fault,
             UNCHANGED <<made, jack, pairs, signals, leaky, ops>>
      PROVE  SInv'
  BY <1>4, <1>5, <1>6
<1> QED BY <1>2, <1>3, <1>6 DEF RunDelete

\* The studio stops.
LEMMA StopHeard == ASSUME IInv, LInv, SInv, RunStop PROVE SInv'
<1>1. queue # << >> /\ Linked /\ rooms \in [Ids -> RoomRecords] /\ Head1.kind = "stop"
  BY DEF RunStop, IsNext, LInv, IInv, TypeOK
<1>2. \A phase \in {"rooms", "clients"} : Waits(phase) => StopRuns' /\ Head(queue').kind = "stop"
  BY <1>1, QueueWaits DEF StopRuns, Head1, IInv, LInv
<1>3. Done => ~StopRuns'
  BY <1>1, QueueFrees DEF StopRuns, Head1, IInv, LInv
<1>4. made \in Nat /\ \A r \in Ids : rooms[r].there => r <= made
  BY DEF SInv, IInv, TypeOK
<1>5. CASE Pending /\ Done /\ UNCHANGED <<rooms, made, jack, pairs, signals, shown, known, leaky, fault>>
  <2>1. LinksRest
    BY <1>5 DEF LinksRest
  <2>2. StopGoesOn
    BY <1>3, <1>5 DEF StopGoesOn, StopRuns, Pending
  <2> QED BY <1>5, <2>1, <2>2, SilentStep
<1>6. CASE /\ Waits("rooms") /\ LinksUnmade({ r \in Ids : rooms[r].started })
           /\ rooms' = [r \in Ids |-> [StoppingRoom(rooms[r]) EXCEPT !.app = Asked(@)]]
           /\ UNCHANGED <<made, shown, known, leaky, fault>>
  <2> DEFINE rs == { r \in Ids : rooms[r].started }
  <2>1. ASSUME NEW r \in Ids PROVE rooms'[r].there <=> rooms[r].there
    <3> DEFINE y == StoppingRoom(rooms[r])
    <3>1. y \in RoomRecords /\ y.there = rooms[r].there
      BY <1>1, StopForm
    <3>2. rooms'[r] = [y EXCEPT !.app = Asked(@)]
      BY <1>6
    <3> HIDE DEF y
    <3> QED BY <3>1, <3>2 DEF RoomRecords
  <2>2. \A r \in rs : rooms[r].there
    BY <1>1 DEF Linked
  <2>3. LinksUnmade(rs)
    BY <1>6
  <2> HIDE DEF rs
  <2>4. PICK ps \in SUBSET PairRecord :
           /\ signals' = Told("disappeared", ps) /\ \A x \in ps : ~x.dead
           /\ \A r \in Ids \ leaky, p \in Ports :
                /\ Pair(r, p) \in ps <=> r \in rs /\ Pair(r, p) \in pairs
                /\ Pair(r, p) \in pairs' <=> Pair(r, p) \in pairs /\ Pair(r, p) \notin ps
    BY <1>1, <2>3, UnmadeForm
  <2>5. StopRuns' /\ Head(queue').kind = "stop"
    BY <1>2, <1>6
  <2>6. ASSUME NEW r \in Ids \ leaky' PROVE RoomTells(r, "disappeared", ps)
    <3>1. r \in Ids \ leaky /\ ~Rests(r)'
      BY <1>6, <2>5 DEF Rests
    <3> QED BY <2>1, <2>2, <2>4, <3>1 DEF RoomTells
  <2>7. \A r \in Ids : rooms'[r].there => r <= made'
    BY <1>4, <1>6, <2>1
  <2>8. Tells("disappeared", ps)
    BY <1>4, <1>6, <2>4, <2>5, <2>6, <2>7 DEF Tells
  <2> QED BY <2>8, TellsStep
<1>7. CASE /\ Waits(IF FoundStopped = Existing THEN "clients" ELSE "rooms")
           /\ rooms' = [r \in Ids |-> IF r \in FoundStopped THEN [rooms[r] EXCEPT !.started = FALSE] ELSE rooms[r]]
           /\ UNCHANGED <<made, pairs, signals, shown, known, leaky, fault>>
  <2>1. ASSUME NEW r \in Ids PROVE rooms'[r].there <=> rooms[r].there
    <3>1. rooms[r] \in RoomRecords
      BY <1>1
    <3>2. rooms'[r] = IF r \in FoundStopped THEN [rooms[r] EXCEPT !.started = FALSE] ELSE rooms[r]
      BY <1>7
    <3> QED BY <3>1, <3>2 DEF RoomRecords
  <2>2. StopRuns' /\ Head(queue').kind = "stop"
    BY <1>2, <1>7
  <2>3. ASSUME NEW r \in Ids PROVE RoomTells(r, "appeared", {})
    BY <1>7, <2>1, <2>2 DEF RoomTells, Rests
  <2>4. signals' = Told("appeared", {}) /\ \A r \in Ids : rooms'[r].there => r <= made'
    BY <1>4, <1>7, <2>1 DEF Told
  <2>5. Tells("appeared", {})
    BY <1>4, <1>7, <2>2, <2>3, <2>4 DEF Tells
  <2> QED BY <2>5, TellsStep
<1>8. CASE /\ Head1.phase = "clients" /\ signals = << >> /\ Done
           /\ pairs' = { [x EXCEPT !.dead = TRUE] : x \in pairs } /\ known' = {}
           /\ UNCHANGED <<rooms, made, signals, shown, leaky, fault>>
  <2>1. \A r \in Ids : ~rooms[r].started
    BY <1>1, <1>8 DEF LInv, Phases
  <2>2. \A e : About(e) = {} /\ About(e)' = {}
    BY <1>8 DEF About
  <2>3. \A x \in pairs' : x.dead
    BY <1>1, <1>8 DEF Linked
  <2>4. ASSUME NEW r \in Ids \ leaky', NEW e \in Ends(r) PROVE e \notin shown /\ ~IsLinked(e)'
    <3>1. Heard(r) /\ e[1] = r /\ e[2] \in Ports /\ r \in Ids \ leaky
      BY <1>8, EndsForm DEF SInv
    <3>2. ~IsLinked(e)
      BY <2>1, <3>1, UnstartedForm DEF IsLinked
    <3>3. ~IsLinked(e)'
      BY <2>3 DEF IsLinked, Pair
    <3> QED BY <2>2, <3>1, <3>2, <3>3 DEF Heard, Follows
  <2>5. ASSUME NEW r \in Ids \ leaky' PROVE Heard(r)'
    BY <1>8, <2>2, <2>4 DEF Heard, Follows
  <2>6. ~StopRuns'
    BY <1>3, <1>8
  <2>7. signals' \in Seq(Batch) /\ \A i \in 1 .. Len(signals') : signals'[i].ends # {}
    BY <1>8 DEF SInv
  <2>8. Meets' => leaky' # {}
    BY <1>8 DEF SInv, Meets
  <2>9. shown' \subseteq AllEnds /\ known' \subseteq AllEnds /\ \A e \in known' : e \in shown' \/ e[1] \in leaky'
    BY <1>8 DEF SInv
  <2>10. \A r \in Ids : rooms'[r].there => r <= made'
    BY <1>4, <1>8
  <2> QED BY <2>5, <2>6, <2>7, <2>8, <2>9, <2>10 DEF SInv
<1> QED BY <1>5, <1>6, <1>7, <1>8 DEF RunStop

\* SInv holds when the daemon starts.
LEMMA InitIsHeard == Init => SInv
<1> SUFFICES ASSUME Init PROVE SInv
  OBVIOUS
<1>1. /\ \A r \in Ids : ~rooms[r].there
      /\ shown = {} /\ known = {} /\ fault = "none" /\ queue = << >>
  BY DEF Init, Gone
<1>2. signals \in Seq(Batch) /\ Len(signals) = 0 /\ 1 .. Len(signals) = {}
  BY DEF Init
<1>3. \A e : About(e) = {}
  BY <1>2 DEF About
<1>4. ~Meets /\ ~StopRuns
  BY <1>1 DEF Meets, StopRuns
<1>5. \A r \in Ids : Heard(r)
  BY <1>1, <1>3 DEF Heard, Rests
<1> QED BY <1>1, <1>2, <1>4, <1>5 DEF SInv

\* Every step keeps SInv.
LEMMA StepsAreHeard == IInv /\ LInv /\ SInv /\ [Next]_vars => SInv'
<1> SUFFICES ASSUME IInv, LInv, SInv, [Next]_vars PROVE SInv'
  OBVIOUS
<1>1. CASE Request
  BY <1>1, RequestHeard
<1>2. CASE Run
  BY <1>2, CreateHeard, DeleteHeard, StartHeard, StopHeard, UnloadHeard, SaveHeard, AppHeard DEF Run
<1>3. CASE World
  BY <1>3, WorldHeard
<1>4. CASE UNCHANGED vars
  <2>1. LinksRest /\ UNCHANGED <<queue, made, signals, shown, known, fault>>
    BY <1>4 DEF vars, LinksRest
  <2> QED BY <2>1, SameHead, SilentStep
<1> QED BY <1>1, <1>2, <1>3, <1>4 DEF Next

(***************************************************************************)
(* A signal about a JACK port of a link finds the graph of its room, and   *)
(* finds it as the signal before left it: a room is destroyed only when    *)
(* nothing of it is shown, and nothing that comes later shows it again     *)
(* (virtualizer.c:999, graph.c:1148), but for rooms whose start failed.    *)
(***************************************************************************)
THEOREM SignalsFindRoomsTheorem == Spec => []SignalsFindRooms
<1>1. IInv /\ SInv => SignalsFindRooms
  <2> SUFFICES ASSUME IInv, SInv PROVE SignalsFindRooms
    OBVIOUS
  <2>1. fault \in {"virtualizer.c:999", "graph.c:1148"} => leaky # {}
    BY DEF SInv, Meets
  <2>2. ASSUME NEW e \in known, e[1] \notin leaky PROVE rooms[e[1]].there
    <3>1. e \in shown /\ e[1] \in Ids /\ e \in Ends(e[1])
      BY <2>2, EndsForm DEF SInv
    <3> QED BY <2>2, <3>1 DEF SInv, Heard
  <2> QED BY <2>1, <2>2 DEF SignalsFindRooms
<1> QED
  BY InitIsSound, StepsAreSound, InitIsLinked, StepsKeepLinks, InitIsHeard, StepsAreHeard, <1>1, PTL
  DEF Spec

=============================================================================
