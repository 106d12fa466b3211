------------------------- MODULE PersistenceProofs --------------------------
(***************************************************************************)
(* Proofs about what ladish keeps on the disk: the project of JACK session *)
(* apps (SessionSave), the studios (StudioFiles) and the settings          *)
(* (Configuration).  The three share no state, and a theorem about one of  *)
(* them speaks of its own specification only.                              *)
(***************************************************************************)
EXTENDS SessionSave, StudioFiles, Configuration,
        FiniteSetTheorems, SequenceTheorems, TLAPS

-----------------------------------------------------------------------------
(***************************************************************************)
(* Proofs about the saving of JACK session apps.  The save waits for the   *)
(* apps that have not answered because each of them is counted once, and a *)
(* session survives because a rotation moves every directory up by one     *)
(* place at most, wherever it breaks off, and because the number of a new  *)
(* session is one that no command line has yet.                            *)
(***************************************************************************)

App == [started : BOOLEAN, line : Nat, js : Nat]
Dir == [there : BOOLEAN, n : Nat, has : SUBSET Apps]
Dirs == [0 .. MaxBackups -> Dir]
File == [ok : BOOLEAN, lines : [Apps -> Nat]]
Disk == [dirs : Dirs, file : File]

Ages == [1 .. MaxSaves -> 0 .. Lost]

Refers(as, d, a, s) == as[a].line = s \/ as[a].js = s \/ d.file.lines[a] = s

\* Session s is in js_apps or one of its first k backups.
Found(as, d, s, k) ==
  \E i \in 0 .. k :
    /\ d.dirs[i].n = s
    /\ \A a \in Apps : Refers(as, d, a, s) => a \in d.dirs[i].has

\* Command lines, folder and ages of sessions up to number m.
Typed(as, d, ages) == as \in [Apps -> App] /\ d \in Disk /\ ages \in Ages

Numbered(as, d, ages, m) ==
  /\ \A a \in Apps : as[a].line <= m /\ as[a].js <= m /\ d.file.lines[a] <= m
  /\ \A s \in 1 .. MaxSaves : s > m => ages[s] = Lost

AllFound(as, d, ages) ==
  \A s \in 1 .. MaxSaves : ages[s] # Lost => Found(as, d, s, ages[s])

Kept(as, d, ages, m) == Typed(as, d, ages) /\ Numbered(as, d, ages, m) /\ AllFound(as, d, ages)

\* The session being made has the state of the apps that answered, and
\* nothing else refers to it yet.
Making(as, d, t) ==
  /\ saves \in 1 .. MaxSaves
  /\ t.n = saves
  /\ age[saves] = Lost
  /\ \A a \in Apps :
       /\ as[a].line # saves /\ d.file.lines[a] # saves
       /\ as[a].js = saves => a \in t.has

Sessions ==
  /\ saves \in 0 .. MaxSaves
  /\ temp \in Dir
  /\ Kept(apps, folder, age, saves)
  /\ temp.there => Making(apps, folder, temp)

\* Every app that is waited for is counted once.
AllCounted ==
  /\ flight \subseteq Apps /\ mute \subseteq Apps
  /\ flight \cap mute = {}
  /\ pending = Cardinality(flight \cup mute)

\* The supervisor has a directory and somebody to tell while it waits.
Busy ==
  /\ callback \in BOOLEAN
  /\ callback <=> pending > 0
  /\ temp.there <=> pending > 0
  /\ command = "waiting" => pending > 0

SavesInv == Sessions /\ (Alive => AllCounted /\ Busy)

-----------------------------------------------------------------------------
(***************************************************************************)
(* A rotation.                                                             *)
(***************************************************************************)
LEMMA NoDirType == NoDir \in Dir
BY DEF NoDir, Dir

\* What a crash leaves of a directory is a directory.
LEMMA HalfRemovedType == HalfRemoved \in Dir
BY DEF HalfRemoved, NoDir, Dir

\* Lost is an age beyond that of every backup.
LEMMA LostType == Lost \in Nat /\ MaxBackups \in Nat /\ Lost = MaxBackups + 1 /\ MaxBackups >= 1 /\ MaxSaves \in Nat
BY SessionSaveAssumption DEF Lost

\* A rotation leaves the project file alone and moves a directory up by one
\* place or not at all.
LEMMA ShiftedMoves ==
  ASSUME NEW d \in Disk, NEW b \in 0 .. MaxBackups + 1
  PROVE  /\ Shifted(d, b) \in Disk
         /\ Shifted(d, b).file = d.file
         /\ \A i \in 0 .. MaxBackups : i < MaxBackups =>
              \E j \in i .. i + 1 : Shifted(d, b).dirs[j] = d.dirs[i]
<1> DEFINE D == [i \in 0 .. MaxBackups |->
                   IF i < b THEN d.dirs[i] ELSE IF i = b THEN NoDir ELSE d.dirs[i - 1]]
<1>1. MaxBackups \in Nat
  BY LostType
<1>2. Shifted(d, b) = [d EXCEPT !.dirs = D]
  BY DEF Shifted
<1>3. d.dirs \in Dirs /\ d.file \in File
  BY DEF Disk
<1>4. ASSUME NEW i \in 0 .. MaxBackups PROVE D[i] \in Dir
  BY <1>1, <1>3, NoDirType DEF Dirs
<1>5. D \in Dirs
  BY <1>4 DEF Dirs
<1>6. /\ Shifted(d, b) \in Disk
      /\ Shifted(d, b).file = d.file
      /\ Shifted(d, b).dirs = D
  <2> HIDE DEF D
  <2> QED BY <1>2, <1>3, <1>5 DEF Disk
<1>7. ASSUME NEW i \in 0 .. MaxBackups, i < MaxBackups
      PROVE \E j \in i .. i + 1 : D[j] = d.dirs[i]
  <2>1. CASE i < b
    BY <2>1, <1>1
  <2>2. CASE ~(i < b)
    <3>1. i + 1 \in 0 .. MaxBackups /\ ~(i + 1 < b) /\ i + 1 # b /\ (i + 1) - 1 = i
      BY <2>2, <1>1, <1>7
    <3>2. D[i + 1] = d.dirs[i]
      BY <3>1
    <3>3. i + 1 \in i .. i + 1
      BY <1>1
    <3> HIDE DEF D
    <3> QED BY <3>2, <3>3
  <2> QED BY <2>1, <2>2
<1> QED BY <1>6, <1>7

\* A rotation that stops half-way has moved each directory by at most one.
LEMMA HalfwayMoves ==
  ASSUME NEW d \in Disk, NEW e \in Halfway(d)
  PROVE  /\ e \in Disk
         /\ e.file = d.file
         /\ \A i \in 0 .. MaxBackups : i < MaxBackups =>
              \E j \in i .. i + 1 : e.dirs[j] = d.dirs[i]
<1>1. CASE \E b \in 0 .. MaxBackups + 1 : e = Shifted(d, b)
  BY <1>1, ShiftedMoves
<1>2. CASE e = [d EXCEPT !.dirs[MaxBackups] = HalfRemoved]
  <2>1. e \in Disk /\ e.file = d.file /\ e.dirs = [d.dirs EXCEPT ![MaxBackups] = HalfRemoved]
    BY <1>2, HalfRemovedType DEF Disk, Dirs
  <2>2. ASSUME NEW i \in 0 .. MaxBackups, i < MaxBackups
        PROVE \E j \in i .. i + 1 : e.dirs[j] = d.dirs[i]
    <3>1. e.dirs[i] = d.dirs[i]
      BY <2>1, <2>2, LostType DEF Disk, Dirs
    <3>2. i \in i .. i + 1
      BY LostType
    <3> QED BY <3>1, <3>2
  <2> QED BY <2>1, <2>2
<1> QED BY <1>1, <1>2 DEF Halfway

\* A rotation that ends has the new session first and the rest moved by one.
LEMMA InPlaceMoves ==
  ASSUME NEW d \in Disk, NEW t \in Dir
  PROVE  /\ InPlace(d, t) \in Disk
         /\ InPlace(d, t).file = d.file
         /\ InPlace(d, t).dirs[0] = t
         /\ \A i \in 0 .. MaxBackups : i < MaxBackups =>
              \E j \in i .. i + 1 : InPlace(d, t).dirs[j] = d.dirs[i]
<1> DEFINE s == Shifted(d, 0)
<1>1. 0 \in 0 .. MaxBackups + 1
  BY LostType
<1>2. s \in Disk /\ s.file = d.file
  BY <1>1, ShiftedMoves
<1>3. ASSUME NEW i \in 0 .. MaxBackups, i < MaxBackups
      PROVE  s.dirs[i + 1] = d.dirs[i]
  <2>1. s.dirs = [k \in 0 .. MaxBackups |->
                   IF k < 0 THEN d.dirs[k] ELSE IF k = 0 THEN NoDir ELSE d.dirs[k - 1]]
    BY DEF Shifted, Disk
  <2>2. i + 1 \in 0 .. MaxBackups /\ ~(i + 1 < 0) /\ i + 1 # 0 /\ (i + 1) - 1 = i
    BY <1>3, LostType
  <2> QED BY <2>1, <2>2
<1>4. InPlace(d, t) = [s EXCEPT !.dirs[0] = t]
  BY DEF InPlace
<1> HIDE DEF s
<1>5. /\ InPlace(d, t) \in Disk
      /\ InPlace(d, t).file = d.file
      /\ InPlace(d, t).dirs = [s.dirs EXCEPT ![0] = t]
  BY <1>2, <1>4 DEF Disk, Dirs
<1>6. InPlace(d, t).dirs[0] = t
  BY <1>5, <1>2, LostType DEF Disk, Dirs
<1>7. ASSUME NEW i \in 0 .. MaxBackups, i < MaxBackups
      PROVE  \E j \in i .. i + 1 : InPlace(d, t).dirs[j] = d.dirs[i]
  <2>1. i + 1 \in 0 .. MaxBackups /\ i + 1 # 0 /\ i + 1 \in i .. i + 1
    BY <1>7, LostType
  <2>2. InPlace(d, t).dirs[i + 1] = s.dirs[i + 1]
    BY <2>1, <1>5, <1>2 DEF Disk, Dirs
  <2> QED BY <2>1, <2>2, <1>3, <1>7
<1> QED BY <1>5, <1>6, <1>7

-----------------------------------------------------------------------------
(***************************************************************************)
(* What follows for the sessions.                                          *)
(***************************************************************************)
\* Every directory but the last moves up by one place at most.
Moves(d, e) ==
  \A i \in 0 .. MaxBackups : i < MaxBackups => \E j \in i .. i + 1 : e.dirs[j] = d.dirs[i]

\* An app refers to no session it did not refer to before.
Derived(as, d, as2, e) ==
  \A a \in Apps :
    /\ as2[a].line \in {0, as[a].line, as[a].js, d.file.lines[a]}
    /\ as2[a].js \in {0, as[a].js}
    /\ e.file.lines[a] \in {0, d.file.lines[a], as[a].line, as[a].js}

\* Nothing derived from apps and file refers to more sessions than they did.
LEMMA DerivedRefers ==
  ASSUME NEW as, NEW d, NEW as2, NEW e, NEW s, s # 0, Derived(as, d, as2, e)
  PROVE  \A a \in Apps : Refers(as2, e, a, s) => Refers(as, d, a, s)
<1>1. TAKE a \in Apps
<1>2. /\ as2[a].line \in {0, as[a].line, as[a].js, d.file.lines[a]}
      /\ as2[a].js \in {0, as[a].js}
      /\ e.file.lines[a] \in {0, d.file.lines[a], as[a].line, as[a].js}
  BY DEF Derived
<1>3. CASE as2[a].line = s
  BY <1>2, <1>3 DEF Refers
<1>4. CASE as2[a].js = s
  BY <1>2, <1>4 DEF Refers
<1>5. CASE e.file.lines[a] = s
  BY <1>2, <1>5 DEF Refers
<1> QED BY <1>3, <1>4, <1>5 DEF Refers

\* A session is still found where directories stay.
LEMMA FoundStays ==
  ASSUME NEW as, NEW d, NEW as2, NEW e, NEW s \in 1 .. MaxSaves, NEW k,
         Derived(as, d, as2, e), e.dirs = d.dirs, Found(as, d, s, k)
  PROVE  Found(as2, e, s, k)
<1>1. s # 0
  BY LostType
<1>2. \A a \in Apps : Refers(as2, e, a, s) => Refers(as, d, a, s)
  BY <1>1, DerivedRefers
<1> QED BY <1>2 DEF Found

\* A session is found one further where directories move.
LEMMA FoundMoves ==
  ASSUME NEW as, NEW d, NEW as2, NEW e, NEW s \in 1 .. MaxSaves, NEW k \in 0 .. MaxBackups,
         k < MaxBackups, Derived(as, d, as2, e), Moves(d, e), Found(as, d, s, k)
  PROVE  Found(as2, e, s, k + 1)
<1>1. s # 0
  BY LostType
<1>2. \A a \in Apps : Refers(as2, e, a, s) => Refers(as, d, a, s)
  BY <1>1, DerivedRefers
<1>3. PICK i \in 0 .. k : d.dirs[i].n = s /\ \A a \in Apps : Refers(as, d, a, s) => a \in d.dirs[i].has
  BY DEF Found
<1>4. i \in 0 .. MaxBackups /\ i < MaxBackups
  BY LostType
<1>5. PICK j \in i .. i + 1 : e.dirs[j] = d.dirs[i]
  BY <1>4 DEF Moves
<1>6. j \in 0 .. k + 1
  BY <1>3, <1>5, LostType
<1> QED BY <1>2, <1>3, <1>5, <1>6 DEF Found

\* Nothing derived refers to sessions of the future.
LEMMA NumberedDerived ==
  ASSUME NEW as, NEW d, NEW as2, NEW e, NEW ages, NEW m \in Nat,
         Typed(as, d, ages), Numbered(as, d, ages, m), Derived(as, d, as2, e)
  PROVE  \A a \in Apps : as2[a].line <= m /\ as2[a].js <= m /\ e.file.lines[a] <= m
<1>1. TAKE a \in Apps
<1>2. as[a].line <= m /\ as[a].js <= m /\ d.file.lines[a] <= m
  BY DEF Numbered
<1>4. 0 <= m
  OBVIOUS
<1>3. /\ as2[a].line \in {0, as[a].line, as[a].js, d.file.lines[a]}
      /\ as2[a].js \in {0, as[a].js}
      /\ e.file.lines[a] \in {0, d.file.lines[a], as[a].line, as[a].js}
  BY DEF Derived
<1> QED BY <1>2, <1>3, <1>4

\* Sessions are kept where directories stay.
LEMMA KeptStays ==
  ASSUME NEW as, NEW d, NEW as2, NEW e, NEW ages, NEW m \in Nat,
         Kept(as, d, ages, m), Typed(as2, e, ages),
         Derived(as, d, as2, e), e.dirs = d.dirs
  PROVE  Kept(as2, e, ages, m)
<1>1. Numbered(as2, e, ages, m)
  BY NumberedDerived DEF Kept, Numbered
<1>2. ASSUME NEW s \in 1 .. MaxSaves, ages[s] # Lost PROVE Found(as2, e, s, ages[s])
  <2>1. Found(as, d, s, ages[s])
    BY <1>2 DEF Kept, AllFound
  <2> QED BY <2>1, FoundStays
<1> QED BY <1>1, <1>2 DEF Kept, AllFound

\* Older makes every session older by one, and the last one lost.
LEMMA OlderType ==
  ASSUME age \in Ages
  PROVE  /\ Older \in Ages
         /\ \A s \in 1 .. MaxSaves : Older[s] # Lost =>
              age[s] # Lost /\ age[s] \in 0 .. MaxBackups /\ age[s] < MaxBackups /\ Older[s] = age[s] + 1
         /\ \A s \in 1 .. MaxSaves : age[s] = Lost => Older[s] = Lost
<1>1. ASSUME NEW s \in 1 .. MaxSaves
      PROVE  /\ Older[s] \in 0 .. Lost
             /\ Older[s] # Lost =>
                  age[s] # Lost /\ age[s] \in 0 .. MaxBackups /\ age[s] < MaxBackups /\ Older[s] = age[s] + 1
             /\ age[s] = Lost => Older[s] = Lost
  <2>1. Older[s] = IF age[s] = Lost THEN Lost ELSE age[s] + 1
    BY DEF Older
  <2>2. age[s] \in 0 .. Lost
    BY DEF Ages
  <2> QED BY <2>1, <2>2, LostType
<1>2. Older \in Ages
  <2>1. Older = [s \in 1 .. MaxSaves |-> Older[s]]
    BY DEF Older
  <2> QED BY <2>1, <1>1 DEF Ages
<1> QED BY <1>1, <1>2

\* Sessions are kept, each a step older, where directories move.
LEMMA KeptMoves ==
  ASSUME NEW as, NEW d, NEW as2, NEW e, NEW m \in Nat,
         Kept(as, d, age, m), Typed(as2, e, age),
         Derived(as, d, as2, e), Moves(d, e)
  PROVE  Kept(as2, e, Older, m)
<1>1. age \in Ages /\ Typed(as2, e, Older)
  BY OlderType DEF Typed
<1>2. \A a \in Apps : as2[a].line <= m /\ as2[a].js <= m /\ e.file.lines[a] <= m
  BY NumberedDerived DEF Kept
<1>3. Numbered(as2, e, Older, m)
  BY <1>1, <1>2, OlderType DEF Kept, Numbered
<1>4. AllFound(as2, e, Older)
  BY <1>1, OlderType, FoundMoves DEF Kept, AllFound
<1> QED BY <1>1, <1>3, <1>4 DEF Kept

\* Sessions are kept by a rotation that fails.
LEMMA KeptHalfway ==
  ASSUME NEW as, NEW d, NEW m \in Nat, Kept(as, d, age, m), NEW e \in Halfway(d)
  PROVE  Kept(as, e, Older, m)
<1>1. d \in Disk
  BY DEF Kept, Typed
<1>2. e \in Disk /\ e.file = d.file /\ Moves(d, e)
  BY <1>1, HalfwayMoves DEF Moves
<1>3. Derived(as, d, as, e)
  BY <1>2 DEF Derived
<1>4. Typed(as, e, age)
  BY <1>2 DEF Kept, Typed
<1> QED BY <1>2, <1>3, <1>4, KeptMoves

\* Sessions are kept by writing the file, whether or not it works.
LEMMA KeptWritten ==
  ASSUME NEW as, NEW d, NEW ages, NEW m \in Nat, Kept(as, d, ages, m), NEW o \in FileWritten(as, d, ages)
  PROVE  Kept(o.apps, o.folder, o.age, m)
<1>1. d \in Disk /\ as \in [Apps -> App] /\ ages \in Ages
  BY DEF Kept, Typed
<1>2. CASE o = Outcome(as, d, FALSE, ages)
  BY <1>2 DEF Outcome
<1>3. CASE o = Outcome(as, [d EXCEPT !.file = BrokenFile], FALSE, ages)
  <2> DEFINE e == [d EXCEPT !.file = BrokenFile]
  <2>1. o.apps = as /\ o.folder = e /\ o.age = ages
    BY <1>3 DEF Outcome
  <2>2. BrokenFile \in File /\ \A a \in Apps : BrokenFile.lines[a] = 0
    BY DEF BrokenFile, File
  <2>3. e \in Disk /\ e.dirs = d.dirs /\ e.file = BrokenFile
    BY <1>1, <2>2 DEF Disk
  <2> HIDE DEF e
  <2>4. Derived(as, d, as, e) /\ Typed(as, e, ages)
    BY <2>2, <2>3, <1>1 DEF Derived, Typed
  <2> QED BY <2>1, <2>3, <2>4, KeptStays
<1>4. CASE o = Outcome(as, [d EXCEPT !.file = [ok |-> TRUE, lines |-> Lines(as)]], TRUE, ages)
  <2> DEFINE f == [ok |-> TRUE, lines |-> Lines(as)]
             e == [d EXCEPT !.file = f]
  <2>1. o.apps = as /\ o.folder = e /\ o.age = ages
    BY <1>4 DEF Outcome
  <2>2. f \in File /\ \A a \in Apps : f.lines[a] = as[a].line
    BY <1>1 DEF File, Lines, App
  <2> HIDE DEF f
  <2>3. e \in Disk /\ e.dirs = d.dirs /\ e.file = f
    BY <1>1, <2>2 DEF Disk
  <2> HIDE DEF e
  <2>4. Derived(as, d, as, e) /\ Typed(as, e, ages)
    BY <2>2, <2>3, <1>1 DEF Derived, Typed
  <2> QED BY <2>1, <2>3, <2>4, KeptStays
<1> QED BY <1>2, <1>3, <1>4 DEF FileWritten

\* Sessions are kept by a rotation that succeeds.
LEMMA KeptInPlace ==
  ASSUME NEW as, NEW d, NEW t \in Dir, NEW m \in Nat, Kept(as, d, age, m)
  PROVE  Kept(as, InPlace(d, t), Older, m) /\ Kept(Adopted(as), InPlace(d, t), Older, m)
<1> DEFINE e == InPlace(d, t)
<1>1. d \in Disk /\ as \in [Apps -> App] /\ age \in Ages
  BY DEF Kept, Typed
<1>2. e \in Disk /\ e.file = d.file /\ Moves(d, e)
  BY <1>1, InPlaceMoves DEF Moves
<1> HIDE DEF e
<1>3. Derived(as, d, as, e) /\ Typed(as, e, age)
  BY <1>1, <1>2 DEF Derived, Typed
<1>4. ASSUME NEW a \in Apps
      PROVE  /\ Adopted(as)[a] \in App
             /\ Adopted(as)[a].line \in {as[a].line, as[a].js}
             /\ Adopted(as)[a].js \in {0, as[a].js}
  BY <1>1 DEF Adopted, App
<1>5. Adopted(as) \in [Apps -> App]
  <2>1. Adopted(as) = [a \in Apps |-> Adopted(as)[a]]
    BY DEF Adopted
  <2> QED BY <2>1, <1>4
<1>6. Derived(as, d, Adopted(as), e) /\ Typed(Adopted(as), e, age)
  BY <1>1, <1>2, <1>4, <1>5 DEF Derived, Typed
<1> QED BY <1>2, <1>3, <1>6, KeptMoves DEF e

\* The session that was made has the state of every app whose command line
\* restores it.
LEMMA KeptPlaced ==
  ASSUME NEW as, NEW d, NEW t \in Dir, Kept(as, d, age, saves), Making(as, d, t)
  PROVE  Kept(Adopted(as), InPlace(d, t), [Older EXCEPT ![saves] = 0], saves)
<1> DEFINE e == InPlace(d, t)
           bs == Adopted(as)
           ages == [Older EXCEPT ![saves] = 0]
<1>a. saves \in 1 .. MaxSaves
  BY DEF Making
<1>0. saves \in Nat /\ saves # 0
  BY <1>a, LostType
<1>1. /\ d \in Disk /\ as \in [Apps -> App] /\ age \in Ages
      /\ saves \in 1 .. MaxSaves /\ saves \in Nat /\ saves # 0
  BY <1>a, <1>0 DEF Kept, Typed
<1>2. Kept(bs, e, Older, saves)
  BY <1>1, KeptInPlace
<1>3. e.file = d.file /\ e.dirs[0] = t
  BY <1>1, InPlaceMoves
<1>4. ages \in Ages /\ ages[saves] = 0
  BY <1>1, OlderType, LostType DEF Ages
<1>5. ASSUME NEW s \in 1 .. MaxSaves, s # saves PROVE ages[s] = Older[s]
  BY <1>1, <1>5, OlderType DEF Ages
<1>6. ASSUME NEW a \in Apps, Refers(bs, e, a, saves) PROVE a \in t.has
  <2>1. bs[a] = IF as[a].started THEN [as[a] EXCEPT !.line = as[a].js, !.js = 0] ELSE as[a]
    BY DEF Adopted
  <2>2. bs[a].line = saves => as[a].js = saves \/ as[a].line = saves
    BY <2>1, <1>1 DEF App
  <2>3. bs[a].js = saves => as[a].js = saves
    BY <2>1, <1>1 DEF App
  <2>4. e.file.lines[a] # saves
    BY <1>3 DEF Making
  <2>5. as[a].js = saves
    BY <1>6, <2>2, <2>3, <2>4 DEF Refers, Making
  <2> QED BY <2>5 DEF Making
<1> HIDE DEF ages, e, bs
<1>7. Found(bs, e, saves, 0)
  <2>1. 0 \in 0 .. 0 /\ e.dirs[0].n = saves
    BY <1>3 DEF Making
  <2> QED BY <2>1, <1>3, <1>6 DEF Found
<1>8. AllFound(bs, e, ages)
  <2>1. ASSUME NEW s \in 1 .. MaxSaves, ages[s] # Lost PROVE Found(bs, e, s, ages[s])
    <3>1. CASE s = saves
      BY <3>1, <1>4, <1>7
    <3>2. CASE s # saves
      BY <3>2, <2>1, <1>5, <1>2 DEF Kept, AllFound
    <3> QED BY <3>1, <3>2
  <2> QED BY <2>1 DEF AllFound
<1>9. Numbered(bs, e, ages, saves)
  <2>1. ASSUME NEW s \in 1 .. MaxSaves, s > saves PROVE ages[s] = Lost
    <3>1. s # saves
      BY <2>1, <1>1
    <3> QED BY <3>1, <2>1, <1>5, <1>2 DEF Kept, Numbered
  <2> QED BY <2>1, <1>2 DEF Kept, Numbered
<1>10. Typed(bs, e, ages)
  BY <1>2, <1>4 DEF Kept, Typed
<1> QED BY <1>8, <1>9, <1>10 DEF Kept, ages, e, bs

\* Forgetting the pending command lines adds no reference.
LEMMA ForgottenDerived ==
  ASSUME NEW as \in [Apps -> App], NEW d
  PROVE  Forgotten(as) \in [Apps -> App] /\ Derived(as, d, Forgotten(as), d)
<1>1. ASSUME NEW a \in Apps
      PROVE  /\ Forgotten(as)[a] \in App
             /\ Forgotten(as)[a].line = as[a].line
             /\ Forgotten(as)[a].js = 0
  BY DEF Forgotten, App
<1>2. Forgotten(as) = [a \in Apps |-> Forgotten(as)[a]]
  BY DEF Forgotten
<1>3. Forgotten(as) \in [Apps -> App]
  BY <1>1, <1>2
<1>4. Derived(as, d, Forgotten(as), d)
  BY <1>1 DEF Derived
<1> QED BY <1>3, <1>4

\* Sessions are kept when pending command lines are forgotten.
LEMMA KeptForgotten ==
  ASSUME NEW as, NEW d, NEW ages, NEW m \in Nat, Kept(as, d, ages, m)
  PROVE  Kept(Forgotten(as), d, ages, m)
<1>1. as \in [Apps -> App] /\ Typed(Forgotten(as), d, ages)
  BY ForgottenDerived DEF Kept, Typed
<1> QED BY <1>1, ForgottenDerived, KeptStays

\* Whatever a save ends with, the sessions are kept.
LEMMA KeptOutcomes ==
  ASSUME NEW as, NEW d, NEW t \in Dir, Kept(as, d, age, saves), Making(as, d, t),
         NEW o \in SaveOutcomes(as, d, t)
  PROVE  Kept(o.apps, o.folder, o.age, saves)
<1>1. saves \in Nat
  BY LostType DEF Making
<1>2. CASE o = Outcome(Forgotten(as), d, FALSE, age)
  BY <1>1, <1>2, KeptForgotten DEF Outcome
<1>3. ASSUME NEW e \in Halfway(d), o = Outcome(as, e, FALSE, Older)
      PROVE  Kept(o.apps, o.folder, o.age, saves)
  BY <1>1, <1>3, KeptHalfway DEF Outcome
<1>4. CASE o \in FileWritten(Adopted(as), InPlace(d, t), [Older EXCEPT ![saves] = 0])
  BY <1>1, <1>4, KeptPlaced, KeptWritten
<1>5. CASE ~AllSaved(as)
  BY <1>2, <1>5 DEF SaveOutcomes
<1>6. CASE AllSaved(as)
  <2>1. \/ o \in { Outcome(as, e, FALSE, Older) : e \in Halfway(d) }
        \/ o \in FileWritten(Adopted(as), InPlace(d, t), [Older EXCEPT ![saves] = 0])
    BY <1>6 DEF SaveOutcomes
  <2> QED BY <2>1, <1>3, <1>4
<1> QED BY <1>5, <1>6

\* Sessions are kept when the project file is broken: it then refers to none.
LEMMA KeptBroken ==
  ASSUME NEW as, NEW d, NEW ages, NEW m \in Nat, Kept(as, d, ages, m)
  PROVE  Kept(as, [d EXCEPT !.file = BrokenFile], ages, m)
<1> DEFINE e == [d EXCEPT !.file = BrokenFile]
           o == Outcome(as, e, FALSE, ages)
<1>1. o \in FileWritten(as, d, ages)
  BY DEF FileWritten
<1>2. o.apps = as /\ o.folder = e /\ o.age = ages
  <2> HIDE DEF e
  <2> QED BY DEF Outcome
<1> HIDE DEF e, o
<1>3. Kept(o.apps, o.folder, o.age, m)
  BY <1>1, KeptWritten
<1>4. Kept(as, e, ages, m)
  BY <1>2, <1>3
<1> QED BY <1>4 DEF e

\* Sessions are kept wherever in a save the daemon dies.
LEMMA KeptCrash ==
  ASSUME NEW as, NEW d, NEW t \in Dir, NEW m \in Nat, Kept(as, d, age, m),
         NEW e \in CrashPoints(as, d, t)
  PROVE  e = d \/ Kept(as, e, Older, m)
<1>1. CASE ~AllSaved(as)
  BY <1>1 DEF CrashPoints
<1>2. CASE AllSaved(as)
  <2>1. \/ e \in Halfway(d)
        \/ e = InPlace(d, t)
        \/ e = [InPlace(d, t) EXCEPT !.file = BrokenFile]
    BY <1>2 DEF CrashPoints
  <2>2. CASE e \in Halfway(d)
    BY <2>2, KeptHalfway
  <2>3. Kept(as, InPlace(d, t), Older, m)
    BY KeptInPlace
  <2>4. Kept(as, [InPlace(d, t) EXCEPT !.file = BrokenFile], Older, m)
    BY <2>3, KeptBroken
  <2> QED BY <2>1, <2>2, <2>3, <2>4
<1> QED BY <1>1, <1>2

\* The answer of an app belongs to the session being made.
LEMMA KeptAnswered ==
  ASSUME NEW a \in Apps, NEW ok \in BOOLEAN, temp \in Dir,
         Kept(apps, folder, age, saves), Making(apps, folder, temp)
  PROVE  /\ Kept(Answered(a, ok), folder, age, saves)
         /\ Making(Answered(a, ok), folder, InTemp(a, ok))
         /\ InTemp(a, ok) \in Dir
         /\ InTemp(a, ok).there = temp.there
<1> DEFINE as == Answered(a, ok)
           t == InTemp(a, ok)
<1>1. apps \in [Apps -> App] /\ folder \in Disk /\ age \in Ages
  BY DEF Kept, Typed
<1>2. saves \in 1 .. MaxSaves /\ saves \in Nat /\ temp.n = saves /\ age[saves] = Lost
  BY LostType DEF Making
<1>3. t \in Dir /\ t.there = temp.there /\ t.n = temp.n /\ temp.has \subseteq t.has /\ (ok => a \in t.has)
  BY DEF InTemp, Dir
<1>4. as = [apps EXCEPT ![a].js = IF ok THEN saves ELSE @]
  BY <1>2 DEF Answered
<1>5. as \in [Apps -> App]
  BY <1>1, <1>2, <1>4 DEF App
<1>6. ASSUME NEW b \in Apps
      PROVE  /\ as[b].line = apps[b].line
             /\ as[b].js = (IF ok /\ a = b THEN saves ELSE apps[b].js)
  BY <1>1, <1>4 DEF App
<1> HIDE DEF as, t
<1>7. Typed(as, folder, age)
  BY <1>1, <1>5 DEF Typed
<1>8. Numbered(as, folder, age, saves)
  <2>1. ASSUME NEW b \in Apps PROVE as[b].line <= saves /\ as[b].js <= saves /\ folder.file.lines[b] <= saves
    <3>1. apps[b].line <= saves /\ apps[b].js <= saves /\ folder.file.lines[b] <= saves
      BY DEF Kept, Numbered
    <3>2. saves <= saves
      BY <1>2
    <3> QED BY <3>1, <3>2, <1>6
  <2> QED BY <2>1 DEF Kept, Numbered
<1>9. ASSUME NEW s \in 1 .. MaxSaves, age[s] # Lost PROVE Found(as, folder, s, age[s])
  <2>1. s # saves /\ Found(apps, folder, s, age[s])
    BY <1>2, <1>9 DEF Kept, AllFound
  <2>2. \A b \in Apps : Refers(as, folder, b, s) => Refers(apps, folder, b, s)
    BY <2>1, <1>6 DEF Refers
  <2> QED BY <2>1, <2>2 DEF Found
<1>10. ASSUME NEW b \in Apps, as[b].js = saves PROVE b \in t.has
  BY <1>3, <1>6, <1>10 DEF Making
<1>11. Making(as, folder, t)
  BY <1>2, <1>3, <1>6, <1>10 DEF Making
<1> QED BY <1>3, <1>7, <1>8, <1>9, <1>11 DEF Kept, AllFound, as, t

-----------------------------------------------------------------------------
(***************************************************************************)
(* The steps.                                                              *)
(***************************************************************************)
LEMMA InitSavesInv == InitSaves => SavesInv
<1> SUFFICES ASSUME InitSaves PROVE SavesInv
  OBVIOUS
<1>1. apps \in [Apps -> App] /\ \A a \in Apps : apps[a].line = 0 /\ apps[a].js = 0
  BY DEF InitSaves, App
<1>2. /\ folder \in Disk
      /\ \A a \in Apps : folder.file.lines[a] = 0
  BY NoDirType DEF InitSaves, Disk, Dirs, File, BrokenFile
<1>3. age \in Ages /\ (\A s \in 1 .. MaxSaves : age[s] = Lost) /\ saves = 0
  BY LostType DEF InitSaves, Ages
<1>4. temp \in Dir /\ ~temp.there
  BY NoDirType DEF InitSaves, NoDir
<1>5. Kept(apps, folder, age, saves)
  BY <1>1, <1>2, <1>3 DEF Kept, Typed, Numbered, AllFound
<1>6. Sessions
  BY <1>3, <1>4, <1>5, LostType DEF Sessions
<1>7. AllCounted
  BY FS_EmptySet DEF InitSaves, AllCounted
<1>8. Busy
  <2>1. pending = 0 /\ callback = FALSE /\ command = "none"
    BY DEF InitSaves
  <2>2. ~(pending > 0)
    BY <2>1
  <2>3. command # "waiting"
    BY <2>1
  <2> QED BY <1>4, <2>1, <2>2, <2>3, Zenon DEF Busy
<1> QED BY <1>6, <1>7, <1>8 DEF SavesInv

\* Those that are waited for can be counted.
LEMMA WaitedFinite ==
  ASSUME AllCounted
  PROVE  /\ IsFiniteSet(flight \cup mute)
         /\ pending \in Nat
         /\ pending = 0 => flight \cup mute = {}
<1>1. flight \cup mute \subseteq Apps /\ IsFiniteSet(Apps)
  BY SessionSaveAssumption DEF AllCounted
<1>2. IsFiniteSet(flight \cup mute)
  BY <1>1, FS_Subset
<1> QED BY <1>2, FS_CardinalityType, FS_EmptySet DEF AllCounted

\* A save that asks some app waits for more than none.
LEMMA SomeAsked ==
  ASSUME NEW S, S \subseteq Apps, S # {}
  PROVE  Cardinality(S) \in Nat /\ Cardinality(S) > 0
<1>1. IsFiniteSet(S)
  BY FS_Subset, SessionSaveAssumption
<1>2. Cardinality(S) \in Nat /\ Cardinality(S) # 0
  BY <1>1, FS_CardinalityType, FS_EmptySet
<1> QED BY <1>2

\* Nothing the sessions depend on changes, or only what an app is doing.
LEMMA SessionsStay ==
  ASSUME Sessions, UNCHANGED <<temp, folder, saves, age>>,
         apps' \in [Apps -> App],
         \A a \in Apps : apps'[a].line = apps[a].line /\ apps'[a].js = apps[a].js
  PROVE  Sessions'
<1>1. Derived(apps, folder, apps', folder)
  BY DEF Derived
<1>2. saves \in Nat
  BY LostType DEF Sessions
<1>3. Kept(apps', folder, age, saves)
  BY <1>1, <1>2, KeptStays DEF Sessions, Kept, Typed
<1>4. Making(apps, folder, temp) => Making(apps', folder, temp)
  BY DEF Making
<1>5. /\ Kept(apps', folder, age, saves) = Kept(apps, folder, age, saves)'
      /\ temp.there => Making(apps', folder, temp) = Making(apps, folder, temp)'
  BY DEF Kept, Typed, Numbered, AllFound, Found, Refers, Making
<1> QED BY <1>3, <1>4, <1>5 DEF Sessions

\* SaveBegins keeps SavesInv.
LEMMA SaveBeginsSavesInv ==
  ASSUME SavesInv, SaveBegins
  PROVE  SavesInv'
<1> DEFINE asked == Started(apps)
<1>1. /\ saves' = saves + 1 /\ saves < MaxSaves /\ pending = 0 /\ mute' = mute
      /\ Alive /\ AllCounted /\ Busy /\ Sessions
      /\ \A a \in asked : apps[a].js = 0
  BY DEF SaveBegins, Clean, SavesInv
<1>2. flight = {} /\ mute = {}
  BY <1>1, WaitedFinite
<1>3. saves \in Nat /\ saves' \in 1 .. MaxSaves
  BY <1>1, LostType DEF Sessions
<1>4. ASSUME NEW as, NEW d, NEW ages, Kept(as, d, ages, saves) PROVE Kept(as, d, ages, saves')
  <2>1. saves' = saves + 1 /\ saves \in Nat
    BY <1>1, <1>3
  <2>2. as \in [Apps -> App] /\ d \in Disk
    BY <1>4 DEF Kept, Typed
  <2>3. ASSUME NEW a \in Apps
        PROVE  as[a].line <= saves' /\ as[a].js <= saves' /\ d.file.lines[a] <= saves'
    <3>1. as[a].line \in Nat /\ as[a].js \in Nat /\ d.file.lines[a] \in Nat
      BY <2>2 DEF App, Disk, File
    <3>2. as[a].line <= saves /\ as[a].js <= saves /\ d.file.lines[a] <= saves
      BY <1>4 DEF Kept, Numbered
    <3>3. ASSUME NEW x \in Nat, x <= saves PROVE x <= saves'
      BY <2>1, <3>3
    <3> QED BY <3>1, <3>2, <3>3
  <2>4. ASSUME NEW s \in 1 .. MaxSaves, s > saves' PROVE ages[s] = Lost
    <3>1. s > saves
      BY <2>1, <2>4, LostType
    <3> QED BY <3>1, <1>4 DEF Kept, Numbered
  <2>5. Numbered(as, d, ages, saves')
    BY <2>3, <2>4 DEF Numbered
  <2> QED BY <2>5, <1>4 DEF Kept
<1>5. CASE /\ asked # {}
           /\ \E failed \in SUBSET asked :
                /\ failed # asked
                /\ flight' = flight \cup (asked \ failed)
                /\ pending' = Cardinality(asked \ failed)
           /\ callback' = TRUE /\ command' = "waiting"
           /\ temp' = [there |-> TRUE, n |-> saves', has |-> {}]
           /\ UNCHANGED <<apps, folder, fault, age>>
  <2>1. PICK failed \in SUBSET asked :
           failed # asked /\ flight' = flight \cup (asked \ failed) /\ pending' = Cardinality(asked \ failed)
    BY <1>5
  <2>2. asked \subseteq Apps /\ asked \ failed # {} /\ asked \ failed \subseteq Apps
    BY <2>1 DEF Started
  <2>3. pending' \in Nat /\ pending' > 0
    BY <2>1, <2>2, SomeAsked
  <2>4. AllCounted'
    <3>1. flight' = asked \ failed /\ mute' = {} /\ flight' \cup mute' = asked \ failed
      BY <2>1, <1>1, <1>2
    <3> QED BY <3>1, <2>1, <2>2 DEF AllCounted
  <2>5. temp' \in Dir /\ temp'.there /\ temp'.n = saves' /\ temp'.has = {}
    BY <1>3, <1>5, LostType DEF Dir
  <2>6. Busy'
    BY <1>5, <2>3, <2>5, Zenon DEF Busy
  <2>7. Kept(apps, folder, age, saves)
    BY <1>1 DEF Sessions
  <2>8. Kept(apps, folder, age, saves')
    BY <1>4, <2>7
  <2>9. age[saves'] = Lost
    <3>1. saves' > saves
      BY <1>1, <1>3
    <3> QED BY <3>1, <1>3, <2>7 DEF Kept, Numbered
  <2>10. ASSUME NEW a \in Apps
         PROVE  apps[a].line # saves' /\ folder.file.lines[a] # saves' /\ apps[a].js # saves'
    <3>1. apps[a].line \in Nat /\ apps[a].js \in Nat /\ folder.file.lines[a] \in Nat
      BY <2>7 DEF Kept, Typed, App, Disk, File
    <3>2. apps[a].line <= saves /\ apps[a].js <= saves /\ folder.file.lines[a] <= saves
      BY <2>7 DEF Kept, Numbered
    <3> QED BY <3>1, <3>2, <1>1, <1>3
  <2>11. /\ saves' \in 0 .. MaxSaves
         /\ Kept(apps', folder', age', saves')
    BY <1>3, <1>5, <2>8, LostType
  <2>12. /\ saves' \in 1 .. MaxSaves
         /\ temp'.n = saves'
         /\ age'[saves'] = Lost
         /\ \A a \in Apps :
              /\ apps'[a].line # saves' /\ folder'.file.lines[a] # saves'
              /\ apps'[a].js = saves' => a \in temp'.has
    BY <1>3, <1>5, <2>5, <2>9, <2>10
  <2>13. Sessions'
    BY <2>5, <2>11, <2>12 DEF Sessions, Making, Kept, Typed, Numbered, AllFound, Found, Refers
  <2> QED BY <2>4, <2>6, <2>13 DEF SavesInv
<1>6. ASSUME NEW o, Kept(o.apps, o.folder, o.age, saves), Ended(o), command' # "waiting", flight' = flight
      PROVE  SavesInv'
  <2>1. AllCounted'
    <3>1. flight' \cup mute' = {} /\ flight' = {} /\ mute' = {} /\ pending' = 0
      BY <1>1, <1>2, <1>6 DEF Ended
    <3> QED BY <3>1, FS_EmptySet DEF AllCounted
  <2>2. ~temp'.there /\ temp' \in Dir /\ callback' = FALSE /\ pending' = 0
    BY <1>6, NoDirType DEF Ended, NoDir
  <2>3. ~(pending' > 0)
    BY <2>2
  <2>4. Busy'
    BY <2>2, <2>3, <1>6, Zenon DEF Busy
  <2>5. Kept(apps', folder', age', saves')
    BY <1>4, <1>6 DEF Ended
  <2>6. saves' \in 0 .. MaxSaves
    BY <1>3, LostType
  <2>7. Sessions'
    BY <2>2, <2>5, <2>6 DEF Sessions, Kept, Typed, Numbered, AllFound, Found, Refers
  <2> QED BY <2>1, <2>4, <2>7 DEF SavesInv
<1>7. Kept(apps, folder, age, saves)
  BY <1>1 DEF Sessions
<1>8. CASE /\ asked = {}
           /\ \E o \in FileWritten(apps, folder, age) :
                Ended(o) /\ command' = IF o.ok THEN "done" ELSE "failed"
           /\ UNCHANGED <<flight, fault>>
  <2>1. PICK o \in FileWritten(apps, folder, age) :
           Ended(o) /\ command' = IF o.ok THEN "done" ELSE "failed"
    BY <1>8
  <2>2. Kept(o.apps, o.folder, o.age, saves)
    BY <1>3, <1>7, KeptWritten
  <2>3. command' # "waiting" /\ flight' = flight
    BY <1>8, <2>1
  <2> QED BY <2>1, <2>2, <2>3, <1>6
<1>9. CASE /\ asked # {}
           /\ \E as \in {apps, Forgotten(apps)} : Ended(Outcome(as, folder, FALSE, age))
           /\ command' = "failed"
           /\ UNCHANGED <<flight, fault>>
  <2>1. PICK as \in {apps, Forgotten(apps)} : Ended(Outcome(as, folder, FALSE, age))
    BY <1>9
  <2>2. Kept(as, folder, age, saves)
    BY <1>3, <1>7, <2>1, KeptForgotten
  <2> DEFINE o == Outcome(as, folder, FALSE, age)
  <2>3. Kept(o.apps, o.folder, o.age, saves)
    BY <2>2 DEF Outcome
  <2>4. command' # "waiting" /\ flight' = flight
    BY <1>9
  <2> HIDE DEF o
  <2>5. Ended(o)
    BY <2>1 DEF o
  <2> QED BY <2>3, <2>4, <2>5, <1>6
<1> QED BY <1>5, <1>8, <1>9 DEF SaveBegins

\* One app less to wait for.
LEMMA OneFewer ==
  ASSUME AllCounted, NEW a \in flight, flight' = flight \ {a}, mute' = mute
  PROVE  /\ flight' \subseteq Apps /\ mute' \subseteq Apps
         /\ flight' \cap mute' = {}
         /\ pending \in Nat /\ pending # 0
         /\ Cardinality(flight' \cup mute') = pending - 1
<1> DEFINE S == flight \cup mute
<1>1. IsFiniteSet(S) /\ a \in S /\ pending = Cardinality(S)
  BY WaitedFinite DEF AllCounted
<1>2. flight' \cup mute' = S \ {a}
  BY DEF AllCounted
<1>3. IsFiniteSet(S \ {a}) /\ Cardinality(S \ {a}) = Cardinality(S) - 1
  BY <1>1, FS_RemoveElement
<1>4. Cardinality(S) \in Nat /\ Cardinality(S) # 0
  BY <1>1, FS_CardinalityType, FS_EmptySet
<1> QED BY <1>1, <1>2, <1>3, <1>4 DEF AllCounted

\* Answer keeps SavesInv.
LEMMA AnswerSavesInv ==
  ASSUME SavesInv, Answer
  PROVE  SavesInv'
<1>1. PICK a \in flight, ok \in BOOLEAN :
        /\ Alive
        /\ flight' = flight \ {a}
        /\ \/ /\ pending > 1 \/ Deducted(ok) = 0
              /\ pending' = pending - Deducted(ok)
              /\ apps' = Answered(a, ok) /\ temp' = InTemp(a, ok)
              /\ UNCHANGED <<callback, command, folder, fault, age>>
           \/ /\ pending = 1 /\ Deducted(ok) = 1
              /\ \E o \in SaveOutcomes(Answered(a, ok), folder, InTemp(a, ok)) : Ended(o) /\ CommandTold(o)
        /\ UNCHANGED <<mute, saves, events>>
  BY DEF Answer
<1>2. Sessions /\ AllCounted /\ Busy
  BY <1>1 DEF SavesInv
<1>3. a \in Apps
  BY <1>2 DEF AllCounted
<1>4. /\ flight' \subseteq Apps /\ mute' \subseteq Apps
      /\ flight' \cap mute' = {}
      /\ pending \in Nat /\ pending # 0
      /\ Cardinality(flight' \cup mute') = pending - 1
  BY <1>1, <1>2, OneFewer
<1>5. pending > 0
  BY <1>4
<1>6. temp.there
  BY <1>2, <1>5 DEF Busy
<1>7. Kept(apps, folder, age, saves) /\ Making(apps, folder, temp) /\ temp \in Dir /\ saves \in Nat
  BY <1>2, <1>6, LostType DEF Sessions
<1>8. /\ Kept(Answered(a, ok), folder, age, saves)
      /\ Making(Answered(a, ok), folder, InTemp(a, ok))
      /\ InTemp(a, ok) \in Dir
      /\ InTemp(a, ok).there = temp.there
  BY <1>3, <1>7, KeptAnswered
<1>9. CASE /\ pending > 1 \/ Deducted(ok) = 0
           /\ pending' = pending - Deducted(ok)
           /\ apps' = Answered(a, ok) /\ temp' = InTemp(a, ok)
           /\ UNCHANGED <<callback, command, folder, fault, age>>
  <2>1. pending' = pending - 1 /\ pending > 1
    BY <1>9 DEF Deducted
  <2>2. AllCounted'
    BY <1>4, <2>1 DEF AllCounted
  <2>3. pending' > 0
    BY <1>4, <2>1
  <2>4. callback' = callback /\ command' = command /\ temp'.there
    BY <1>6, <1>8, <1>9
  <2>5. Busy'
    BY <1>2, <1>5, <2>3, <2>4, Zenon DEF Busy
  <2>6. Kept(apps', folder, age, saves) /\ Making(apps', folder, temp')
    BY <1>8, <1>9
  <2>7. saves' = saves /\ folder' = folder /\ age' = age /\ temp' \in Dir
    BY <1>1, <1>8, <1>9
  <2>8. Sessions'
    BY <1>2, <2>6, <2>7 DEF Sessions, Making, Kept, Typed, Numbered, AllFound, Found, Refers
  <2> QED BY <2>2, <2>5, <2>8 DEF SavesInv
<1>10. CASE /\ pending = 1
            /\ \E o \in SaveOutcomes(Answered(a, ok), folder, InTemp(a, ok)) : Ended(o) /\ CommandTold(o)
  <2>1. PICK o \in SaveOutcomes(Answered(a, ok), folder, InTemp(a, ok)) : Ended(o) /\ CommandTold(o)
    BY <1>10
  <2>2. Kept(o.apps, o.folder, o.age, saves)
    BY <1>8, <2>1, KeptOutcomes
  <2>3. Kept(apps', folder', age', saves') /\ saves' = saves
    BY <1>1, <2>1, <2>2 DEF Ended
  <2>4. ~temp'.there /\ temp' \in Dir /\ callback' = FALSE /\ pending' = 0
    BY <2>1, NoDirType DEF Ended, NoDir
  <2>5. Sessions'
    BY <1>2, <2>3, <2>4 DEF Sessions, Kept, Typed, Numbered, AllFound, Found, Refers
  <2>6. AllCounted'
    BY <1>4, <1>10, <2>4 DEF AllCounted
  <2>7. ASSUME Alive' PROVE command' # "waiting"
    <3>1. CASE command = "waiting"
      BY <2>1, <3>1 DEF CommandTold
    <3>2. CASE command # "waiting"
      BY <2>1, <2>7, <3>2 DEF CommandTold, Alive, NoFault
    <3> QED BY <3>1, <3>2
  <2>8. ~(pending' > 0)
    BY <2>4
  <2>9. Alive' => Busy'
    BY <2>4, <2>7, <2>8, Zenon DEF Busy
  <2> QED BY <2>5, <2>6, <2>9 DEF SavesInv
<1> QED BY <1>1, <1>9, <1>10

\* The sessions do not notice.
LEMMA SessionsSame ==
  ASSUME Sessions, UNCHANGED <<apps, temp, folder, saves, age>>
  PROVE  Sessions'
BY DEF Sessions, Making, Kept, Typed, Numbered, AllFound, Found, Refers

\* Asserts keeps SavesInv.
LEMMA AssertsSavesInv ==
  ASSUME SavesInv, NEW line, line # NoFault, Asserts(line)
  PROVE  SavesInv'
<1>1. Sessions'
  BY SessionsSame DEF SavesInv, Asserts
<1>2. ~Alive'
  BY DEF Asserts, Alive
<1> QED BY <1>1, <1>2 DEF SavesInv

\* SaveAsserts keeps SavesInv.
LEMMA SaveAssertsSavesInv ==
  ASSUME SavesInv, SaveAsserts
  PROVE  SavesInv'
<1>1. "app_supervisor.c:1196" # NoFault /\ "app_supervisor.c:1204" # NoFault
  BY DEF NoFault
<1> QED BY <1>1, AssertsSavesInv DEF SaveAsserts

\* AnswerIsUnusable keeps SavesInv.
LEMMA AnswerIsUnusableSavesInv ==
  ASSUME SavesInv, AnswerIsUnusable
  PROVE  SavesInv'
<1>1. PICK a \in flight : flight' = flight \ {a} /\ mute' = mute \cup {a}
  BY DEF AnswerIsUnusable
<1>2. Alive /\ UNCHANGED <<apps, pending, callback, command, temp, folder, fault, saves, age>>
  BY DEF AnswerIsUnusable
<1>3. flight' \cup mute' = flight \cup mute
  BY <1>1
<1>4. AllCounted'
  BY <1>1, <1>2, <1>3 DEF SavesInv, AllCounted
<1>5. Busy'
  BY <1>2 DEF SavesInv, Busy
<1>6. Sessions'
  BY <1>2, SessionsSame DEF SavesInv
<1> QED BY <1>4, <1>5, <1>6 DEF SavesInv

\* The supervisor does not notice.
LEMMA SupervisorSame ==
  ASSUME SavesInv, Alive' => Alive, UNCHANGED <<pending, callback, flight, mute, temp, folder, saves, age>>,
         command' # "waiting" \/ command' = command,
         apps' \in [Apps -> App],
         \A a \in Apps : apps'[a].line = apps[a].line /\ apps'[a].js = apps[a].js
  PROVE  SavesInv'
<1>1. Sessions'
  BY SessionsStay DEF SavesInv
<1>2. AllCounted => AllCounted'
  BY DEF AllCounted
<1>3. Busy => Busy'
  BY Zenon DEF Busy
<1> QED BY <1>1, <1>2, <1>3 DEF SavesInv

\* CommandIsRemoved keeps SavesInv.
LEMMA CommandIsRemovedSavesInv ==
  ASSUME SavesInv, CommandIsRemoved
  PROVE  SavesInv'
<1>1. apps \in [Apps -> App]
  BY DEF SavesInv, Sessions, Kept, Typed
<1>2. command' # "waiting"
  BY DEF CommandIsRemoved
<1>3. apps' = apps /\ UNCHANGED <<pending, callback, flight, mute, temp, folder, saves, age, fault>>
  BY DEF CommandIsRemoved
<1> QED BY <1>1, <1>2, <1>3, SupervisorSame DEF Alive

\* JackStops keeps SavesInv.
LEMMA JackStopsSavesInv ==
  ASSUME SavesInv, JackStops
  PROVE  SavesInv'
<1>1. apps \in [Apps -> App]
  BY DEF SavesInv, Sessions, Kept, Typed
<1>2. command' # "waiting"
  BY DEF JackStops
<1>3. apps' = apps /\ UNCHANGED <<pending, callback, flight, mute, temp, folder, saves, age, fault>>
  BY DEF JackStops
<1> QED BY <1>1, <1>2, <1>3, SupervisorSame DEF Alive

\* Apps that exit and start keep SavesInv.
LEMMA AppSavesInv ==
  ASSUME SavesInv, AppExits \/ AppStarts
  PROVE  SavesInv'
<1>1. PICK a \in Apps, on \in BOOLEAN : apps' = [apps EXCEPT ![a].started = on]
  BY DEF AppExits, AppStarts, Started
<1>2. UNCHANGED <<pending, callback, flight, mute, command, temp, folder, fault, saves, age>>
  BY DEF AppExits, AppStarts
<1>3. apps \in [Apps -> App]
  BY DEF SavesInv, Sessions, Kept, Typed
<1>4. /\ apps' \in [Apps -> App]
      /\ \A b \in Apps : apps'[b].line = apps[b].line /\ apps'[b].js = apps[b].js
  BY <1>1, <1>3 DEF App
<1> QED BY <1>2, <1>4, SupervisorSame DEF Alive

\* Restarts keeps SavesInv.
LEMMA RestartsSavesInv ==
  ASSUME SavesInv, Restarts
  PROVE  SavesInv'
<1> DEFINE AsWritten(d) == [a \in Apps |-> [started |-> TRUE, line |-> d.file.lines[a], js |-> 0]]
<1>1. PICK d \in {folder} \cup LastAnswers :
        /\ folder' = d
        /\ age' = IF d = folder THEN age ELSE Older
        /\ apps' = AsWritten(d)
  BY DEF Restarts
<1>2. /\ temp' = NoDir /\ pending' = 0 /\ callback' = FALSE /\ flight' = {} /\ mute' = {}
      /\ command' = "none" /\ saves' = saves
  BY DEF Restarts
<1>3. Sessions /\ Kept(apps, folder, age, saves) /\ saves \in Nat /\ temp \in Dir
  BY LostType DEF SavesInv, Sessions
<1>4. \E as : Kept(as, d, IF d = folder THEN age ELSE Older, saves)
  <2>1. CASE d = folder
    BY <2>1, <1>3
  <2>2. CASE d # folder
    <3>1. PICK a \in flight, ok \in BOOLEAN :
             /\ pending = 1 /\ Alive
             /\ d \in CrashPoints(Answered(a, ok), folder, InTemp(a, ok))
      BY <1>1, <2>2 DEF LastAnswers
    <3>2. AllCounted /\ Busy
      BY <3>1 DEF SavesInv
    <3>3. a \in Apps /\ temp.there
      <4>1. pending > 0
        BY <3>1
      <4> QED BY <4>1, <3>2 DEF AllCounted, Busy
    <3>4. Making(apps, folder, temp)
      BY <1>3, <3>3 DEF Sessions
    <3>5. Kept(Answered(a, ok), folder, age, saves) /\ InTemp(a, ok) \in Dir
      BY <1>3, <3>3, <3>4, KeptAnswered
    <3>6. Kept(Answered(a, ok), d, Older, saves)
      BY <1>3, <2>2, <3>1, <3>5, KeptCrash
    <3> QED BY <2>2, <3>6
  <2> QED BY <2>1, <2>2
<1>5. PICK as : Kept(as, d, age', saves)
  BY <1>1, <1>4
<1>6. /\ apps' \in [Apps -> App]
      /\ \A a \in Apps : apps'[a].line = d.file.lines[a] /\ apps'[a].js = 0
  <2>1. d \in Disk
    BY <1>5 DEF Kept, Typed
  <2>2. ASSUME NEW a \in Apps PROVE d.file.lines[a] \in Nat
    BY <2>1 DEF Disk, File
  <2> QED BY <1>1, <2>2 DEF App
<1>7. Typed(apps', d, age') /\ Derived(as, d, apps', d)
  BY <1>5, <1>6 DEF Kept, Typed, Derived
<1>8. Kept(apps', d, age', saves)
  BY <1>3, <1>5, <1>7, KeptStays
<1>9. Kept(apps', folder', age', saves')
  BY <1>1, <1>2, <1>8
<1>10. temp' \in Dir /\ ~temp'.there
  BY <1>2, NoDirType DEF NoDir
<1>11. Sessions'
  BY <1>2, <1>3, <1>9, <1>10 DEF Sessions, Kept, Typed, Numbered, AllFound, Found, Refers
<1>12. AllCounted'
  BY <1>2, FS_EmptySet DEF AllCounted
<1>13. Busy'
  <2>1. ~(pending' > 0)
    BY <1>2
  <2>2. command' # "waiting"
    BY <1>2
  <2> QED BY <1>2, <1>10, <2>1, <2>2, Zenon DEF Busy
<1> QED BY <1>11, <1>12, <1>13 DEF SavesInv

\* A step of nobody keeps SavesInv.
LEMMA StutterSavesInv ==
  ASSUME SavesInv, UNCHANGED saveVars
  PROVE  SavesInv'
<1>1. apps \in [Apps -> App]
  BY DEF SavesInv, Sessions, Kept, Typed
<1> QED BY <1>1, SupervisorSame DEF Alive, saveVars

-----------------------------------------------------------------------------
(***************************************************************************)
(* The theorems.                                                           *)
(***************************************************************************)
\* The invariant of every save, whatever fails, is cleared or dies.
THEOREM SavesInvariance == SpecSaves => []SavesInv
<1>1. SavesInv /\ [NextSaves]_saveVars => SavesInv'
  <2> SUFFICES ASSUME SavesInv, [NextSaves]_saveVars PROVE SavesInv'
    OBVIOUS
  <2>1. CASE SaveBegins
    BY <2>1, SaveBeginsSavesInv
  <2>2. CASE SaveAsserts
    BY <2>2, SaveAssertsSavesInv
  <2>3. CASE Answer
    BY <2>3, AnswerSavesInv
  <2>4. CASE AnswerIsUnusable
    BY <2>4, AnswerIsUnusableSavesInv
  <2>5. CASE CommandIsRemoved
    BY <2>5, CommandIsRemovedSavesInv
  <2>6. CASE AppExits \/ AppStarts
    BY <2>6, AppSavesInv
  <2>7. CASE JackStops
    BY <2>7, JackStopsSavesInv
  <2>8. CASE Restarts
    BY <2>8, RestartsSavesInv
  <2>9. CASE UNCHANGED saveVars
    BY <2>9, StutterSavesInv
  <2> QED BY <2>1, <2>2, <2>3, <2>4, <2>5, <2>6, <2>7, <2>8, <2>9 DEF NextSaves, Daemon, World
<1> QED BY <1>1, InitSavesInv, PTL DEF SpecSaves

\* The supervisor waits for exactly the apps that have not answered.
THEOREM WaitsTheorem == SpecSaves => []Waits
<1>1. SavesInv => Waits
  BY DEF SavesInv, AllCounted, Busy, Waits
<1> QED BY <1>1, SavesInvariance, PTL

\* A session that was put in place is found in as many rotations as there
\* are backups, with the state of all apps that are restored from it.
THEOREM SessionSurvivesTheorem == SpecSaves => []SessionSurvives
<1>1. ASSUME SavesInv PROVE SessionSurvives
  <2> SUFFICES ASSUME NEW s \in 1 .. MaxSaves, age[s] # Lost
               PROVE  \E i \in 0 .. age[s] :
                        folder.dirs[i].n = s /\ Users(s) \subseteq folder.dirs[i].has
    BY DEF SessionSurvives
  <2>1. Found(apps, folder, s, age[s])
    BY <1>1 DEF SavesInv, Sessions, Kept, AllFound
  <2> QED BY <2>1 DEF Found, Refers, Users
<1> QED BY <1>1, SavesInvariance, PTL

\* While a command waits, an app that runs has no command line but that of
\* the session being made: it was asked with none, and no app is started.
OwnLines ==
  command = "waiting" => \A a \in Started(apps) : apps[a].js \in {0, saves}

WholeInv == SavesInv /\ (Alive => OwnLines)

\* A waiting command has a session that is being made.
LEMMA WaitingMakes ==
  ASSUME SavesInv, Alive, command = "waiting"
  PROVE  Making(apps, folder, temp) /\ Kept(apps, folder, age, saves) /\ temp \in Dir
<1>1. Busy
  BY DEF SavesInv
<1> QED BY <1>1, Zenon DEF SavesInv, Busy, Sessions

\* Saving keeps the lines of the apps its own.
LEMMA OwnLinesNext ==
  ASSUME WholeInv, [NextSaves]_saveVars, Alive'
  PROVE  OwnLines'
<1> SUFFICES ASSUME command' = "waiting"
             PROVE  \A a \in Started(apps') : apps'[a].js \in {0, saves'}
  BY DEF OwnLines
<1>1. CASE SaveBegins
  <2>1. apps' = apps
    BY <1>1 DEF SaveBegins
  <2> QED BY <1>1, <2>1 DEF SaveBegins, Clean
<1>2. CASE SaveAsserts
  BY <1>2 DEF SaveAsserts, Asserts, Alive, NoFault
<1>3. CASE Answer
  <2>1. PICK a \in flight, ok \in BOOLEAN :
          /\ Alive
          /\ \/ apps' = Answered(a, ok) /\ command' = command
             \/ \E o \in SaveOutcomes(Answered(a, ok), folder, InTemp(a, ok)) : CommandTold(o)
          /\ saves' = saves
    BY <1>3 DEF Answer
  <2>2. apps' = Answered(a, ok) /\ command = "waiting"
    BY <2>1 DEF CommandTold, Alive, NoFault
  <2>3. temp.n = saves /\ apps \in [Apps -> App]
    BY <2>1, <2>2, WaitingMakes DEF WholeInv, Making, Kept, Typed
  <2>4. ASSUME NEW b \in Started(apps') PROVE apps'[b].js \in {0, saves}
    <3>1. b \in Started(apps)
      BY <2>2, <2>3, <2>4 DEF Started, Answered, App
    <3>2. apps[b].js \in {0, saves} /\ b \in Apps
      BY <2>1, <2>2, <3>1 DEF WholeInv, OwnLines, Started
    <3> QED BY <2>2, <2>3, <3>2 DEF Answered, App
  <2> QED BY <2>1, <2>4
<1>4. CASE AnswerIsUnusable \/ UNCHANGED saveVars
  BY <1>4 DEF AnswerIsUnusable, saveVars, WholeInv, OwnLines, Alive
<1>5. CASE CommandIsRemoved \/ JackStops \/ Restarts \/ AppStarts
  BY <1>5 DEF CommandIsRemoved, JackStops, Restarts, AppStarts
<1>6. CASE AppExits
  <2>1. PICK a \in Apps : apps' = [apps EXCEPT ![a].started = FALSE]
    BY <1>6 DEF AppExits, Started
  <2>2. apps \in [Apps -> App]
    BY DEF WholeInv, SavesInv, Sessions, Kept, Typed
  <2>3. ASSUME NEW b \in Started(apps') PROVE b \in Started(apps) /\ apps'[b].js = apps[b].js
    BY <2>1, <2>2, <2>3 DEF Started, App
  <2> QED BY <1>6, <2>3 DEF AppExits, WholeInv, OwnLines
<1> QED BY <1>1, <1>2, <1>3, <1>4, <1>5, <1>6 DEF NextSaves, Daemon, World

Whole(o, as, d) ==
  /\ o.apps = as
  /\ o.folder.dirs = d.dirs
  /\ o.folder.file.ok /\ o.folder.file.lines = Lines(as)

\* The project file is written as a whole when writing succeeds.
LEMMA WrittenWhole ==
  ASSUME NEW as, NEW d \in Disk, NEW ages, NEW o \in FileWritten(as, d, ages), o.ok
  PROVE  Whole(o, as, d)
<1> DEFINE f == [ok |-> TRUE, lines |-> Lines(as)]
           e == [d EXCEPT !.file = f]
<1>1. ASSUME NEW x, o = Outcome(as, x, FALSE, ages) PROVE FALSE
  BY <1>1 DEF Outcome
<1>2. o = Outcome(as, e, TRUE, ages)
  BY <1>1 DEF FileWritten
<1>3. f.ok /\ f.lines = Lines(as)
  OBVIOUS
<1> HIDE DEF f
<1>4. e.dirs = d.dirs /\ e.file = f
  BY DEF Disk
<1> HIDE DEF e
<1>5. o.apps = as /\ o.folder = e
  BY <1>2 DEF Outcome
<1> QED BY <1>3, <1>4, <1>5 DEF Whole

\* What the last answer leaves when the save succeeds.
LEMMA SuccessOutcome ==
  ASSUME NEW as \in [Apps -> App], NEW t \in Dir, folder \in Disk,
         Making(as, folder, t),
         \A a \in Started(as) : as[a].js \in {0, saves},
         NEW o \in SaveOutcomes(as, folder, t), o.ok
  PROVE  /\ o.folder.file.ok
         /\ \A a \in Started(o.apps) :
              /\ o.folder.file.lines[a] = saves
              /\ o.folder.dirs[0].n = saves
              /\ a \in o.folder.dirs[0].has
<1> DEFINE d == InPlace(folder, t)
           ages == [Older EXCEPT ![saves] = 0]
<1>1. AllSaved(as) /\ o \in FileWritten(Adopted(as), d, ages)
  <2>1. ASSUME NEW x, NEW e, NEW g, o = Outcome(x, e, FALSE, g) PROVE FALSE
    BY <2>1 DEF Outcome
  <2>2. AllSaved(as)
    BY <2>1 DEF SaveOutcomes
  <2>3. \/ o \in { Outcome(as, e, FALSE, Older) : e \in Halfway(folder) }
        \/ o \in FileWritten(Adopted(as), d, ages)
    BY <2>2 DEF SaveOutcomes
  <2> QED BY <2>1, <2>2, <2>3
<1>2. Shifted(folder, 0) \in Disk
  <2>1. 0 \in 0 .. MaxBackups + 1
    BY LostType
  <2> QED BY <2>1, ShiftedMoves
<1>3. d = [Shifted(folder, 0) EXCEPT !.dirs = [@ EXCEPT ![0] = t]] /\ 0 \in 0 .. MaxBackups
  BY LostType DEF InPlace
<1>4. d.dirs[0] = t /\ d \in Disk
  <2> DEFINE e == Shifted(folder, 0)
             x == [e.dirs EXCEPT ![0] = t]
  <2>1. e.dirs \in Dirs
    BY <1>2 DEF Disk
  <2>2. x \in Dirs /\ x[0] = t
    BY <1>3, <2>1 DEF Dirs
  <2> HIDE DEF e
  <2>3. d = [e EXCEPT !.dirs = x]
    BY <1>3 DEF e
  <2> HIDE DEF x, d
  <2> QED BY <1>2, <2>2, <2>3 DEF Disk, e
<1> HIDE DEF d, ages
<1>5. /\ o.apps = Adopted(as)
      /\ o.folder.dirs[0] = t
      /\ o.folder.file.ok /\ o.folder.file.lines = Lines(Adopted(as))
  <2>1. Whole(o, Adopted(as), d)
    BY <1>1, <1>4, WrittenWhole
  <2> QED BY <1>4, <2>1 DEF Whole
<1>6. ASSUME NEW a \in Started(o.apps)
      PROVE  o.folder.file.lines[a] = saves /\ t.n = saves /\ a \in t.has
  <2>1. a \in Apps /\ o.apps[a].started
    BY DEF Started
  <2>2. o.apps[a] = IF as[a].started THEN [as[a] EXCEPT !.line = as[a].js, !.js = 0] ELSE as[a]
    BY <1>5, <2>1, Zenon DEF Adopted
  <2>3. as[a] \in App
    BY <2>1
  <2>4. as[a].started
    BY <2>1, <2>2
  <2>5. o.apps[a].line = as[a].js
    BY <2>2, <2>3, <2>4 DEF App
  <2>6. a \in Started(as)
    BY <2>1, <2>4 DEF Started
  <2>7. as[a].js = saves
    BY <1>1, <2>6 DEF AllSaved
  <2>8. o.folder.file.lines[a] = saves
    BY <1>5, <2>1, <2>5, <2>7 DEF Lines
  <2> QED BY <2>1, <2>7, <2>8 DEF Making
<1> QED BY <1>5, <1>6

\* When the command of a save is told that it succeeded, the project file and
\* js_apps have the session of every app that runs, whatever else happened
\* while the apps were asked (room_save.c, app_supervisor.c:270-336).
THEOREM SuccessIsWholeTheorem == SpecSaves => SuccessIsWhole
<1>1. InitSaves => WholeInv
  BY InitSavesInv DEF WholeInv, OwnLines, InitSaves
<1>2. WholeInv /\ [NextSaves]_saveVars /\ SavesInv' => WholeInv'
  BY OwnLinesNext DEF WholeInv
<1>3. WholeInv /\ [NextSaves]_saveVars
        => [command # "done" /\ command' = "done" =>
              folder'.file.ok /\ \A a \in Started(apps') : Restorable(a)']_saveVars
  <2> SUFFICES ASSUME WholeInv, NextSaves, command # "done", command' = "done"
               PROVE  folder'.file.ok /\ \A a \in Started(apps') : Restorable(a)'
    BY DEF saveVars
  <2>1. CASE SaveBegins
    <3>1. Started(apps) = {} /\ \E o \in FileWritten(apps, folder, age) : Ended(o) /\ o.ok
      BY <2>1 DEF SaveBegins
    <3>2. PICK o \in FileWritten(apps, folder, age) : Ended(o) /\ o.ok
      BY <3>1
    <3>3. folder \in Disk
      BY DEF WholeInv, SavesInv, Sessions, Kept, Typed
    <3>4. o.apps = apps /\ o.folder.file.ok
      <4>1. Whole(o, apps, folder)
        BY <3>2, <3>3, WrittenWhole
      <4> QED BY <4>1 DEF Whole
    <3>5. apps' = apps /\ folder' = o.folder
      BY <3>2, <3>4 DEF Ended
    <3>6. Started(apps') = {}
      BY <3>1, <3>5
    <3> QED BY <3>4, <3>5, <3>6
  <2>2. CASE Answer
    <3>1. PICK a \in flight, ok \in BOOLEAN :
            /\ Alive
            /\ \/ command' = command
               \/ \E o \in SaveOutcomes(Answered(a, ok), folder, InTemp(a, ok)) : Ended(o) /\ CommandTold(o)
            /\ saves' = saves
      BY <2>2 DEF Answer
    <3>2. PICK o \in SaveOutcomes(Answered(a, ok), folder, InTemp(a, ok)) : Ended(o) /\ CommandTold(o)
      BY <3>1
    <3>3. command = "waiting" /\ o.ok
      BY <3>2 DEF CommandTold
    <3>4. Making(apps, folder, temp) /\ Kept(apps, folder, age, saves) /\ temp \in Dir
      BY <3>1, <3>3, WaitingMakes DEF WholeInv
    <3>5. a \in Apps /\ saves \in Nat
      BY <3>1, LostType DEF WholeInv, SavesInv, AllCounted, Sessions
    <3> DEFINE as == Answered(a, ok)
               t == InTemp(a, ok)
    <3>6. Making(as, folder, t) /\ t \in Dir /\ Kept(as, folder, age, saves)
      BY <3>4, <3>5, KeptAnswered
    <3>7. as \in [Apps -> App] /\ folder \in Disk
      BY <3>6 DEF Kept, Typed
    <3>8. ASSUME NEW b \in Started(as) PROVE as[b].js \in {0, saves}
      <4>1. apps \in [Apps -> App] /\ temp.n = saves
        BY <3>4 DEF Kept, Typed, Making
      <4>2. b \in Started(apps)
        BY <3>8, <4>1 DEF Started, Answered, App
      <4>3. apps[b].js \in {0, saves} /\ b \in Apps
        BY <3>1, <3>3, <4>2 DEF WholeInv, OwnLines, Started
      <4> QED BY <4>1, <4>3 DEF Answered, App
    <3> HIDE DEF as, t
    <3>9. o \in SaveOutcomes(as, folder, t)
      BY <3>2 DEF as, t
    <3>10. /\ o.folder.file.ok
           /\ \A b \in Started(o.apps) :
                /\ o.folder.file.lines[b] = saves
                /\ o.folder.dirs[0].n = saves
                /\ b \in o.folder.dirs[0].has
      BY <3>3, <3>6, <3>7, <3>8, <3>9, SuccessOutcome
    <3>11. apps' = o.apps /\ folder' = o.folder /\ saves' = saves
      BY <3>1, <3>2 DEF Ended
    <3> QED BY <3>10, <3>11 DEF Restorable
  <2>3. CASE SaveAsserts \/ AnswerIsUnusable \/ CommandIsRemoved \/ World
    BY <2>3 DEF SaveAsserts, Asserts, AnswerIsUnusable, CommandIsRemoved, World,
                AppExits, AppStarts, JackStops, Restarts
  <2> QED BY <2>1, <2>2, <2>3 DEF NextSaves, Daemon
<1> QED BY <1>1, <1>2, <1>3, SavesInvariance, PTL DEF SpecSaves, SuccessIsWhole

-----------------------------------------------------------------------------
(***************************************************************************)
(* Proofs about StudioFiles for any names, any number of studios and       *)
(* whatever the daemon finds on the disk when it is started.               *)
(*                                                                         *)
(* SavedIsKept is not inductive: a save may move the only copy of what is  *)
(* kept, and a second save may overwrite where the first one moved it.     *)
(* What makes it work is where the copy is while the studio is loaded, in  *)
(* the file the studio names (Place): whichever file the save sets aside,  *)
(* it is that one or another one than the file of the studio.              *)
(***************************************************************************)

Contents == [origin : Nat, rev : Nat]

Command ==
  [kind : {"new", "load", "save", "save as"}, name : Names]
    \cup [kind : {"start", "unload"}, name : Names \cup {NoName}]

FilesTypeOK ==
  /\ disk \in [Paths -> Contents]
  /\ studio \in [name : Names \cup {NoName}, file : Names \cup {NoName},
                 holds : Contents, started : BOOLEAN]
  /\ queue \in Seq(Command)
  /\ kept \in Contents
  /\ strayed \in BOOLEAN
  /\ made \in Nat

\* What is kept of a loaded studio is in the file the studio names.
Place ==
  Loaded /\ kept # Absent /\ ~strayed =>
    studio.file # NoName /\ disk[Xml(studio.file)] = kept

\* The file a loaded studio names holds a revision of it, if anything.
OwnFile ==
  Loaded /\ studio.file # NoName /\ ~strayed =>
    disk[Xml(studio.file)].origin \in {0, studio.holds.origin}

FilesInv == FilesTypeOK /\ SavedIsKept /\ Place /\ OwnFile

-----------------------------------------------------------------------------
\* The files of a studio.
LEMMA PathForm ==
  /\ \A n \in Names : Xml(n) \in Paths /\ Bak(n) \in Paths
  /\ \A n, m : Xml(n) # Bak(m)
  /\ \A n, m : (Xml(n) = Xml(m) <=> n = m) /\ (Bak(n) = Bak(m) <=> n = m)
  /\ \A n : Xml(n)[1] = n /\ Bak(n)[1] = n
BY DEF Paths, Xml, Bak

\* A file that is absent or broken belongs to no studio.
LEMMA ContentForm ==
  /\ Absent \in Contents /\ Broken \in Contents
  /\ Absent.origin = 0 /\ Broken.origin = 0 /\ Absent # Broken
BY DEF Absent, Broken, Contents

\* The commands that write or read a file carry the name of a studio.
LEMMA HeadNamed ==
  ASSUME FilesTypeOK, queue # << >>
  PROVE  /\ Head(queue) \in Command
         /\ Tail(queue) \in Seq(Command)
         /\ Head(queue).kind \in {"new", "load", "save", "save as"} => Head(queue).name \in Names
<1>1. Head(queue) \in Command /\ Tail(queue) \in Seq(Command)
  BY DEF FilesTypeOK
<1>2. \A c \in Command : c.kind \in {"new", "load", "save", "save as"} => c.name \in Names
  BY DEF Command
<1> QED BY <1>1, <1>2

-----------------------------------------------------------------------------
(***************************************************************************)
(* What a save does to the disk.                                           *)
(***************************************************************************)

\* The file a save of a loaded studio sets aside is the file of the studio or
\* that of the name it saves under.
LEMMA OldFileForm ==
  ASSUME FilesTypeOK, NEW t \in Names
  PROVE  /\ OldFile(t) \in {studio.file, t}
         /\ studio.file \in {NoName, t} => OldFile(t) = studio.file
BY DEF OldFile, FilesTypeOK

\* The disk after the old file was set aside.
LEMMA SetAsideForm ==
  ASSUME FilesTypeOK, NEW t \in Names
  PROVE  /\ SetAside(t) \in [Paths -> Contents]
         /\ HasBackup(t) => /\ OldFile(t) \in Names
                            /\ \A p \in Paths :
                                 SetAside(t)[p] = IF p = Xml(OldFile(t)) THEN Absent
                                                  ELSE IF p = Bak(t) THEN disk[Xml(OldFile(t))]
                                                  ELSE disk[p]
         /\ ~HasBackup(t) => SetAside(t) = disk
<1>1. disk \in [Paths -> Contents] /\ studio.file \in Names \cup {NoName}
  BY DEF FilesTypeOK
<1>2. CASE HasBackup(t)
  <2> DEFINE o == OldFile(t)
  <2>1. o \in Names
    BY <1>1, <1>2, OldFileForm DEF HasBackup
  <2>2. SetAside(t) = [disk EXCEPT ![Bak(t)] = disk[Xml(o)], ![Xml(o)] = Absent]
    BY <1>2 DEF SetAside, Move
  <2>3. Xml(o) \in Paths /\ Bak(t) \in Paths /\ Xml(o) # Bak(t)
    BY <2>1, PathForm
  <2> HIDE DEF o
  <2>4. \A p \in Paths : SetAside(t)[p] = IF p = Xml(o) THEN Absent
                                          ELSE IF p = Bak(t) THEN disk[Xml(o)] ELSE disk[p]
    BY <1>1, <2>2, <2>3
  <2>5. SetAside(t) \in [Paths -> Contents]
    BY <1>1, <2>2, <2>3, ContentForm
  <2> QED BY <1>2, <2>1, <2>4, <2>5 DEF o
<1>3. CASE ~HasBackup(t)
  BY <1>1, <1>3 DEF SetAside
<1> QED BY <1>2, <1>3

\* The disk after the new file was written.
LEMMA WrittenForm ==
  ASSUME FilesTypeOK, NEW t \in Names, NEW c \in Contents
  PROVE  /\ Written(t, c) \in [Paths -> Contents]
         /\ \A p \in Paths : Written(t, c)[p] = IF p = Xml(t) THEN c ELSE SetAside(t)[p]
<1>1. SetAside(t) \in [Paths -> Contents] /\ Xml(t) \in Paths
  BY SetAsideForm, PathForm
<1> QED BY <1>1 DEF Written

\* The disk after the backup was moved back.
LEMMA MovedBackForm ==
  ASSUME FilesTypeOK, NEW t \in Names, NEW d \in [Paths -> Contents]
  PROVE  /\ MovedBack(d, t) \in [Paths -> Contents]
         /\ HasBackup(t) => \A p \in Paths :
              MovedBack(d, t)[p] = IF p = Bak(t) THEN Absent
                                   ELSE IF p = Xml(OldFile(t)) THEN d[Bak(t)] ELSE d[p]
         /\ ~HasBackup(t) => MovedBack(d, t) = d
<1>1. CASE HasBackup(t)
  <2> DEFINE o == OldFile(t)
  <2>1. o \in Names
    BY <1>1, SetAsideForm
  <2>2. MovedBack(d, t) = [d EXCEPT ![Xml(o)] = d[Bak(t)], ![Bak(t)] = Absent]
    BY <1>1 DEF MovedBack, Move
  <2>3. Xml(o) \in Paths /\ Bak(t) \in Paths /\ Xml(o) # Bak(t)
    BY <2>1, PathForm
  <2> HIDE DEF o
  <2>4. \A p \in Paths : MovedBack(d, t)[p] = IF p = Bak(t) THEN Absent
                                              ELSE IF p = Xml(o) THEN d[Bak(t)] ELSE d[p]
    BY <2>2, <2>3
  <2>5. MovedBack(d, t) \in [Paths -> Contents]
    BY <2>2, <2>3, ContentForm
  <2> QED BY <1>1, <2>4, <2>5 DEF o
<1>2. CASE ~HasBackup(t)
  BY <1>2 DEF MovedBack
<1> QED BY <1>1, <1>2

\* The disks a save under the name t may leave, finished, failed or cut off.
Outcomes(t) ==
  Stages(t) \cup { Written(t, studio.holds), MovedBack(SetAside(t), t),
                   MovedBack(Written(t, Broken), t) }

\* A save that ends anywhere leaves files.
LEMMA OutcomesTyped ==
  ASSUME FilesTypeOK, NEW t \in Names, NEW d \in Outcomes(t)
  PROVE  d \in [Paths -> Contents]
<1>1. disk \in [Paths -> Contents] /\ studio.holds \in Contents
  BY DEF FilesTypeOK
<1>2. SetAside(t) \in [Paths -> Contents]
  BY SetAsideForm
<1>3. Written(t, Broken) \in [Paths -> Contents] /\ Written(t, studio.holds) \in [Paths -> Contents]
  BY <1>1, ContentForm, WrittenForm
<1>4. MovedBack(SetAside(t), t) \in [Paths -> Contents]
  BY <1>2, MovedBackForm
<1>5. MovedBack(Written(t, Broken), t) \in [Paths -> Contents]
  BY <1>3, MovedBackForm
<1> QED BY <1>1, <1>2, <1>3, <1>4, <1>5 DEF Outcomes, Stages

\* A save touches the file it sets aside and the two files of its name.
LEMMA OutcomesTouch ==
  ASSUME FilesTypeOK, NEW t \in Names, NEW d \in Outcomes(t), NEW p \in Paths, d[p] # disk[p]
  PROVE  p[1] = t \/ (HasBackup(t) /\ p = Xml(OldFile(t)))
<1> SUFFICES ASSUME p # Xml(t), p # Bak(t), ~(HasBackup(t) /\ p = Xml(OldFile(t)))
             PROVE  d[p] = disk[p]
  BY PathForm
<1>1. SetAside(t)[p] = disk[p]
  BY SetAsideForm
<1>2. \A c \in Contents : Written(t, c)[p] = disk[p]
  BY <1>1, WrittenForm
<1>3. /\ studio.holds \in Contents /\ Broken \in Contents
      /\ SetAside(t) \in [Paths -> Contents] /\ Written(t, Broken) \in [Paths -> Contents]
  BY ContentForm, SetAsideForm, WrittenForm DEF FilesTypeOK
<1>4. \A e \in [Paths -> Contents] : e[p] = disk[p] => MovedBack(e, t)[p] = disk[p]
  BY MovedBackForm
<1> QED BY <1>1, <1>2, <1>3, <1>4 DEF Outcomes, Stages

\* While a loaded studio is saved what is kept of it is somewhere on the disk.
LEMMA StagesKeep ==
  ASSUME FilesInv, Loaded, NEW t \in Names, NEW d \in Stages(t), kept # Absent, ~strayed
  PROVE  \E p \in Paths : d[p] = kept
<1>1. studio.file \in Names /\ disk[Xml(studio.file)] = kept
  BY DEF FilesInv, FilesTypeOK, Place
<1>2. OldFile(t) \in {studio.file, t} /\ Xml(studio.file) \in Paths /\ Bak(t) \in Paths
  BY <1>1, OldFileForm, PathForm DEF FilesInv
<1>3. \A n \in Names : /\ Bak(t) # Xml(n) /\ (Xml(n) = Xml(t) <=> n = t)
                        /\ (Xml(studio.file) = Xml(n) <=> studio.file = n)
  BY <1>1, PathForm
<1>4. CASE OldFile(t) = studio.file
  <2>1. HasBackup(t)
    <3>1. studio.file # NoName /\ disk[Xml(studio.file)] # Absent
      BY <1>1, StudioFilesAssumption
    <3> QED BY <1>4, <3>1 DEF HasBackup
  <2>2. SetAside(t)[Bak(t)] = kept
    BY <1>1, <1>2, <1>3, <1>4, <2>1, SetAsideForm DEF FilesInv
  <2>3. Written(t, Broken)[Bak(t)] = kept
    BY <1>2, <1>3, <2>2, WrittenForm, ContentForm DEF FilesInv
  <2> QED BY <1>1, <1>2, <2>2, <2>3 DEF Stages
<1>5. CASE OldFile(t) = t /\ studio.file # t
  <2>1. SetAside(t)[Xml(studio.file)] = kept
    BY <1>1, <1>2, <1>3, <1>5, SetAsideForm DEF FilesInv
  <2>2. Written(t, Broken)[Xml(studio.file)] = kept
    BY <1>1, <1>2, <1>3, <1>5, <2>1, WrittenForm, ContentForm DEF FilesInv
  <2> QED BY <1>1, <1>2, <2>1, <2>2 DEF Stages
<1> QED BY <1>2, <1>4, <1>5

\* What a failed save leaves that did not stray: the file of the studio is
\* what it was, or there was none and there is half a file now.
LEMMA FailureKeeps ==
  ASSUME FilesTypeOK, studio.file \in Names,
         NEW d \in {disk, MovedBack(SetAside(studio.file), studio.file),
                    MovedBack(Written(studio.file, Broken), studio.file)}
                   \cup IF HasBackup(studio.file) THEN {} ELSE {Written(studio.file, Broken)}
  PROVE  \/ d[Xml(studio.file)] = disk[Xml(studio.file)]
         \/ disk[Xml(studio.file)] = Absent /\ d[Xml(studio.file)] = Broken
<1> DEFINE t == studio.file
<1>1. OldFile(t) = t /\ Xml(t) \in Paths /\ Bak(t) \in Paths /\ Xml(t) # Bak(t)
  BY OldFileForm, PathForm
<1>2. HasBackup(t) <=> disk[Xml(t)] # Absent
  <2>1. t # NoName
    BY StudioFilesAssumption
  <2> QED BY <1>1, <2>1 DEF HasBackup
<1>3. /\ SetAside(t) \in [Paths -> Contents] /\ Written(t, Broken) \in [Paths -> Contents]
      /\ Written(t, Broken)[Bak(t)] = SetAside(t)[Bak(t)]
      /\ Written(t, Broken)[Xml(t)] = Broken
  BY <1>1, SetAsideForm, WrittenForm, ContentForm
<1>4. CASE HasBackup(t)
  <2>1. SetAside(t)[Bak(t)] = disk[Xml(t)]
    BY <1>1, <1>4, SetAsideForm
  <2>2. \A e \in [Paths -> Contents] : MovedBack(e, t)[Xml(t)] = e[Bak(t)]
    BY <1>1, <1>4, MovedBackForm
  <2> QED BY <1>3, <1>4, <2>1, <2>2
<1>5. CASE ~HasBackup(t)
  <2>1. SetAside(t) = disk
    BY <1>5, SetAsideForm
  <2>2. \A e \in [Paths -> Contents] : MovedBack(e, t) = e
    BY <1>5, MovedBackForm
  <2> QED BY <1>2, <1>3, <1>5, <2>1, <2>2
<1> QED BY <1>4, <1>5

-----------------------------------------------------------------------------
(***************************************************************************)
(* Types.                                                                  *)
(***************************************************************************)
LEMMA NoStudioTyped ==
  /\ NoStudio \in [name : Names \cup {NoName}, file : Names \cup {NoName},
                   holds : Contents, started : BOOLEAN]
  /\ NoStudio.name = NoName
BY ContentForm DEF NoStudio

\* Queueing commands changes the queue only.
LEMMA QueuedTyped ==
  ASSUME FilesTypeOK, NEW commands \in Seq(Command), Queued(commands)
  PROVE  FilesTypeOK' /\ UNCHANGED <<disk, studio, kept, strayed>>
BY DEF FilesTypeOK, Queued

\* A request changes the queue only.
LEMMA AskTyped ==
  ASSUME FilesTypeOK, AskNew \/ AskLoad \/ AskStart \/ AskUnload \/ AskSave \/ AskSaveAs
  PROVE  FilesTypeOK' /\ UNCHANGED <<disk, studio, kept, strayed>>
<1>1. \A n \in Names : \A kind \in {"new", "load", "save", "save as"} : Cmd(kind, n) \in Command
  BY DEF Cmd, Command
<1>2. \A n \in Names \cup {NoName} : \A kind \in {"start", "unload"} : Cmd(kind, n) \in Command
  BY DEF Cmd, Command
<1>3. \A c, d \in Command : << c >> \in Seq(Command) /\ << c, d >> \in Seq(Command)
  OBVIOUS
<1>4. CASE AskNew
  <2>1. PICK n \in Names : Queued(<< Cmd("new", n) >>)
    BY <1>4 DEF AskNew
  <2> QED BY <1>1, <1>3, <2>1, QueuedTyped
<1>5. CASE AskLoad
  <2>1. PICK n \in Names :
           Queued(<< Cmd("load", n), Cmd("start", n) >>) \/ Queued(<< Cmd("load", n) >>)
    BY <1>5 DEF AskLoad
  <2> QED BY <1>1, <1>2, <1>3, <2>1, QueuedTyped
<1>6. CASE AskStart \/ AskUnload
  <2>1. PICK kind \in {"start", "unload"} : Queued(<< Cmd(kind, NoName) >>)
    BY <1>6 DEF AskStart, AskUnload
  <2> QED BY <1>2, <1>3, <2>1, QueuedTyped
<1>7. CASE AskSave
  <2>1. studio.name \in Names /\ Queued(<< Cmd("save", studio.name) >>)
    BY <1>7 DEF AskSave, Loaded, FilesTypeOK
  <2> QED BY <1>1, <1>3, <2>1, QueuedTyped
<1>8. CASE AskSaveAs
  <2>1. PICK n \in Names : Queued(<< Cmd("save as", n) >>)
    BY <1>8 DEF AskSaveAs
  <2> QED BY <1>1, <1>3, <2>1, QueuedTyped
<1> QED BY <1>4, <1>5, <1>6, <1>7, <1>8

\* A command that is run is removed, one that fails removes all the others.
LEMMA RunTyped ==
  ASSUME FilesTypeOK, queue # << >>, Runs \/ Fails
  PROVE  queue' \in Seq(Command)
<1>1. Tail(queue) \in Seq(Command)
  BY HeadNamed
<1>2. << >> \in Seq(Command)
  OBVIOUS
<1>3. queue' = Tail(queue) \/ queue' = << >>
  BY DEF Runs, Fails
<1> QED BY <1>1, <1>2, <1>3

-----------------------------------------------------------------------------
(***************************************************************************)
(* The steps.                                                              *)
(***************************************************************************)

\* A step that leaves the disk and what is kept alone, and the studio too or
\* its file and its origin.
LEMMA QuietStep ==
  ASSUME FilesInv, FilesTypeOK', UNCHANGED <<disk, kept, strayed>>,
         Loaded' => /\ Loaded /\ studio'.file = studio.file
                    /\ studio'.holds.origin = studio.holds.origin
  PROVE  FilesInv'
BY DEF FilesInv, SavedIsKept, Place, OwnFile

\* A request keeps FilesInv.
LEMMA RequestStep ==
  ASSUME FilesInv, Request
  PROVE  FilesInv'
<1>1. CASE AskNew \/ AskLoad \/ AskStart \/ AskUnload \/ AskSave \/ AskSaveAs
  <2>1. FilesTypeOK' /\ UNCHANGED <<disk, studio, kept, strayed>>
    BY <1>1, AskTyped DEF FilesInv
  <2>2. Loaded' <=> Loaded
    BY <2>1 DEF Loaded
  <2> QED BY <2>1, <2>2, QuietStep
<1>2. CASE Rename
  <2>1. FilesTypeOK'
    BY <1>2 DEF Rename, FilesInv, FilesTypeOK
  <2>2. Loaded /\ studio'.file = studio.file /\ studio'.holds = studio.holds
    BY <1>2 DEF Rename, FilesInv, FilesTypeOK
  <2> QED BY <1>2, <2>1, <2>2, QuietStep DEF Rename
<1>3. CASE Edit
  <2>1. /\ studio'.holds = [origin |-> studio.holds.origin, rev |-> studio.holds.rev + 1]
        /\ studio'.file = studio.file /\ studio'.name = studio.name
        /\ studio'.started = studio.started
        /\ studio' \in [name : Names \cup {NoName}, file : Names \cup {NoName},
                        holds : Contents, started : BOOLEAN]
    <3>1. /\ studio \in [name : Names \cup {NoName}, file : Names \cup {NoName},
                           holds : Contents, started : BOOLEAN]
          /\ studio.holds \in [origin : Nat, rev : Nat]
      BY DEF FilesInv, FilesTypeOK, Contents
    <3>2. studio' = [studio EXCEPT !.holds = [studio.holds EXCEPT !.rev = @ + 1]]
      BY <1>3 DEF Edit
    <3> DEFINE c == [studio.holds EXCEPT !.rev = @ + 1]
    <3>3. /\ c = [origin |-> studio.holds.origin, rev |-> studio.holds.rev + 1]
          /\ c \in Contents
      BY <3>1 DEF Contents
    <3> HIDE DEF c
    <3>4. studio' = [studio EXCEPT !.holds = c]
      BY <3>2 DEF c
    <3> QED BY <3>1, <3>3, <3>4
  <2>2. FilesTypeOK'
    BY <1>3, <2>1 DEF Edit, FilesInv, FilesTypeOK
  <2>3. Loaded' => Loaded
    BY <2>1 DEF Loaded
  <2> QED BY <1>3, <2>1, <2>2, <2>3, QuietStep DEF Edit
<1>4. CASE Delete
  <2>1. PICK n \in Names :
           /\ disk' = [disk EXCEPT ![Xml(n)] = Absent, ![Bak(n)] = Absent]
           /\ kept' = IF kept \in {disk[Xml(n)], disk[Bak(n)]} THEN Absent ELSE kept
           /\ UNCHANGED <<studio, queue, recent, recentFile, strayed, made>>
    BY <1>4 DEF Delete
  <2>2. Xml(n) \in Paths /\ Bak(n) \in Paths /\ Xml(n) # Bak(n)
    BY PathForm
  <2>3. /\ disk \in [Paths -> Contents] /\ disk' \in [Paths -> Contents]
        /\ \A p \in Paths : disk'[p] = IF p \in {Xml(n), Bak(n)} THEN Absent ELSE disk[p]
    BY <2>1, <2>2, ContentForm DEF FilesInv, FilesTypeOK
  <2>4. FilesTypeOK'
    BY <2>1, <2>3, ContentForm DEF FilesInv, FilesTypeOK
  <2>5. kept' # Absent => kept' = kept /\ kept # disk[Xml(n)] /\ kept # disk[Bak(n)]
    BY <2>1
  <2>6. SavedIsKept'
    BY <2>1, <2>3, <2>5 DEF FilesInv, SavedIsKept
  <2>7. Loaded' <=> Loaded
    BY <2>1 DEF Loaded
  <2>8. Loaded => studio.file \in Names \cup {NoName}
    BY DEF FilesInv, FilesTypeOK
  <2>9. Place'
    <3> SUFFICES ASSUME Loaded', kept' # Absent, ~strayed'
                 PROVE  studio'.file # NoName /\ disk'[Xml(studio'.file)] = kept'
      BY DEF Place
    <3>1. studio.file # NoName /\ disk[Xml(studio.file)] = kept /\ studio'.file = studio.file
      BY <2>1, <2>5, <2>7 DEF FilesInv, Place
    <3>2. Xml(studio.file) \in Paths /\ Xml(studio.file) # Bak(n) /\ Xml(studio.file) # Xml(n)
      BY <2>5, <2>7, <2>8, <3>1, PathForm
    <3> QED BY <2>3, <2>5, <3>1, <3>2
  <2>10. OwnFile'
    <3> SUFFICES ASSUME Loaded', studio'.file # NoName, ~strayed'
                 PROVE  disk'[Xml(studio'.file)].origin \in {0, studio'.holds.origin}
      BY DEF OwnFile
    <3>1. /\ studio.file # NoName /\ studio'.file = studio.file /\ studio'.holds = studio.holds
          /\ disk[Xml(studio.file)].origin \in {0, studio.holds.origin}
      BY <2>1, <2>7 DEF FilesInv, OwnFile
    <3>2. Xml(studio.file) \in Paths
      BY <2>7, <2>8, <3>1, PathForm
    <3> QED BY <2>3, <3>1, <3>2, ContentForm
  <2> QED BY <2>4, <2>6, <2>9, <2>10 DEF FilesInv
<1> QED BY <1>1, <1>2, <1>3, <1>4 DEF Request

\* Commands that write no file keep FilesInv.
LEMMA MakeStep ==
  ASSUME FilesInv, RunNew \/ RunStart \/ RunUnload \/ RunLoad \/ LoadFails \/ JackFails
  PROVE  FilesInv'
<1>1. CASE RunNew
  <2>1. Head(queue).name \in Names /\ queue' \in Seq(Command) /\ made' \in Nat
    <3>1. queue # << >> /\ Head(queue).kind = "new" /\ Runs /\ made' = made + 1
      BY <1>1 DEF RunNew, IsNext
    <3>2. Head(queue).name \in Names /\ queue' \in Seq(Command)
      BY <3>1, HeadNamed, RunTyped DEF FilesInv
    <3>3. made \in Nat
      BY DEF FilesInv, FilesTypeOK
    <3> QED BY <3>1, <3>2, <3>3
  <2>2. /\ studio' \in [name : Names \cup {NoName}, file : Names \cup {NoName},
                         holds : Contents, started : BOOLEAN]
        /\ studio'.file = NoName /\ kept' = Absent
    BY <1>1, <2>1, NoStudioTyped DEF RunNew, NoStudio, Contents, FilesInv, FilesTypeOK
  <2>3. FilesTypeOK'
    BY <1>1, <2>1, <2>2, ContentForm DEF RunNew, FilesInv, FilesTypeOK
  <2> QED BY <2>2, <2>3 DEF FilesInv, SavedIsKept, Place, OwnFile
<1>2. CASE RunLoad
  <2> DEFINE n == Head(queue).name
             content == disk[Xml(Head(queue).name)]
  <2>1. n \in Names /\ queue' \in Seq(Command)
    BY <1>2, HeadNamed, RunTyped DEF RunLoad, IsNext, FilesInv
  <2>2. Xml(n) \in Paths /\ content \in Contents /\ n # NoName
    BY <2>1, PathForm, StudioFilesAssumption DEF FilesInv, FilesTypeOK
  <2>3. /\ studio' = [NoStudio EXCEPT !.name = n, !.file = n, !.holds = content]
        /\ kept' = content /\ strayed' = FALSE /\ disk' = disk /\ made' = made
    BY <1>2 DEF RunLoad
  <2>4. /\ studio' \in [name : Names \cup {NoName}, file : Names \cup {NoName},
                         holds : Contents, started : BOOLEAN]
        /\ studio'.file = n /\ studio'.holds = content
    BY <2>1, <2>2, <2>3, NoStudioTyped DEF NoStudio
  <2>5. FilesTypeOK'
    BY <2>1, <2>2, <2>3, <2>4 DEF FilesInv, FilesTypeOK
  <2>6. SavedIsKept'
    BY <2>2, <2>3 DEF SavedIsKept
  <2>7. disk'[Xml(studio'.file)] = content /\ studio'.file # NoName
    BY <2>2, <2>3, <2>4
  <2>8. Place'
    BY <2>3, <2>7 DEF Place
  <2>9. OwnFile'
    BY <2>4, <2>7 DEF OwnFile
  <2> QED BY <2>5, <2>6, <2>8, <2>9 DEF FilesInv
<1>3. CASE RunStart
  <2>1. queue' \in Seq(Command)
    BY <1>3, RunTyped DEF RunStart, IsNext, FilesInv
  <2>2. studio' = [studio EXCEPT !.started = TRUE]
    BY <1>3 DEF RunStart
  <2>3. /\ studio' \in [name : Names \cup {NoName}, file : Names \cup {NoName},
                         holds : Contents, started : BOOLEAN]
        /\ studio'.file = studio.file /\ studio'.holds = studio.holds /\ studio'.name = studio.name
    BY <2>2 DEF FilesInv, FilesTypeOK
  <2>4. FilesTypeOK'
    BY <1>3, <2>1, <2>3 DEF RunStart, FilesInv, FilesTypeOK
  <2> QED BY <1>3, <2>3, <2>4, QuietStep DEF RunStart, Loaded
<1>4. CASE RunUnload \/ LoadFails
  <2>1. queue' \in Seq(Command)
    BY <1>4, RunTyped DEF RunUnload, LoadFails, IsNext, FilesInv
  <2>2. studio' = NoStudio /\ UNCHANGED <<disk, kept, strayed, made>>
    BY <1>4 DEF RunUnload, LoadFails
  <2>3. FilesTypeOK' /\ ~Loaded'
    BY <2>1, <2>2, NoStudioTyped DEF FilesInv, FilesTypeOK, Loaded
  <2> QED BY <2>2, <2>3, QuietStep
<1>5. CASE JackFails
  <2>1. queue' \in Seq(Command)
    BY <1>5, RunTyped DEF JackFails, IsNext, FilesInv
  <2>2. FilesTypeOK'
    BY <1>5, <2>1 DEF JackFails, FilesInv, FilesTypeOK
  <2> QED BY <1>5, <2>2, QuietStep DEF JackFails, Loaded
<1> QED BY <1>1, <1>2, <1>3, <1>4, <1>5

\* The command a save is about.
LEMMA SaveNamed ==
  ASSUME FilesInv, Saves
  PROVE  queue # << >> /\ Head(queue).name \in Names
<1>1. queue # << >> /\ Head(queue).kind \in {"save", "save as"}
  BY DEF Saves, IsNext
<1> QED BY <1>1, HeadNamed DEF FilesInv

\* How a save that fails ends.
LEMMA FailedSave ==
  ASSUME FilesInv, SaveFails, NEW t, t = Head(queue).name
  PROVE  /\ Writes /\ Fails /\ studio' = [studio EXCEPT !.file = t] /\ kept' = kept /\ made' = made
         /\ strayed' \in BOOLEAN
         /\ ~strayed' => ~strayed /\ studio.file = t
         /\ \/ disk' \in {disk, MovedBack(SetAside(t), t), MovedBack(Written(t, Broken), t)}
            \/ disk' = Written(t, Broken) /\ (~strayed' => ~HasBackup(t))
<1> DEFINE ends == { <<disk, TRUE>>, <<MovedBack(SetAside(t), t), TRUE>>,
                     <<MovedBack(Written(t, Broken), t), TRUE>>,
                     <<Written(t, Broken), ~HasBackup(t)>> }
<1>1. /\ Writes /\ Fails /\ studio' = [studio EXCEPT !.file = t] /\ kept' = kept /\ made' = made
      /\ \E end \in ends : disk' = end[1] /\ strayed' = (strayed \/ studio.file # t \/ ~end[2])
  BY DEF SaveFails
<1>2. PICK end \in ends : disk' = end[1] /\ strayed' = (strayed \/ studio.file # t \/ ~end[2])
  BY <1>1
<1>3. strayed' \in BOOLEAN /\ (~strayed' => ~strayed /\ studio.file = t /\ end[2])
  BY <1>2, Zenon
<1>4. \/ end[1] \in {disk, MovedBack(SetAside(t), t), MovedBack(Written(t, Broken), t)}
      \/ end[1] = Written(t, Broken) /\ end[2] = ~HasBackup(t)
  <2>1. \A x, y : <<x, y>>[1] = x /\ <<x, y>>[2] = y
    OBVIOUS
  <2>2. CASE end = <<disk, TRUE>>
    BY <2>1, <2>2, Zenon
  <2>3. CASE end = <<MovedBack(SetAside(t), t), TRUE>>
    BY <2>1, <2>3, Zenon
  <2>4. CASE end = <<MovedBack(Written(t, Broken), t), TRUE>>
    BY <2>1, <2>4, Zenon
  <2>5. CASE end = <<Written(t, Broken), ~HasBackup(t)>>
    BY <2>1, <2>5, Zenon
  <2> QED BY <2>2, <2>3, <2>4, <2>5, Zenon
<1> HIDE DEF ends
<1> QED BY <1>1, <1>2, <1>3, <1>4

\* A save keeps FilesInv, wherever it fails.
LEMMA SaveStep ==
  ASSUME FilesInv, Save \/ SaveRefused \/ SaveFails \/ SaveOfNothing
  PROVE  FilesInv'
<1>1. CASE SaveRefused
  <2>1. queue' \in Seq(Command)
    BY <1>1, SaveNamed, RunTyped DEF SaveRefused, FilesInv
  <2>2. FilesTypeOK'
    BY <1>1, <2>1 DEF SaveRefused, FilesInv, FilesTypeOK
  <2> QED BY <1>1, <2>2, QuietStep DEF SaveRefused, Loaded
<1>2. CASE SaveOfNothing
  <2>1. queue' \in Seq(Command)
    BY <1>2, SaveNamed, RunTyped DEF SaveOfNothing, FilesInv
  <2>2. studio' = NoStudio /\ UNCHANGED <<disk, kept, strayed, made>>
    BY <1>2 DEF SaveOfNothing
  <2>3. FilesTypeOK' /\ ~Loaded'
    BY <2>1, <2>2, NoStudioTyped DEF FilesInv, FilesTypeOK, Loaded
  <2> QED BY <2>2, <2>3, QuietStep
<1>3. CASE Save
  <2>1. PICK t \in Names, c \in Contents : t = Head(queue).name /\ c = studio.holds
    BY <1>3, SaveNamed DEF Save, Writes, FilesInv, FilesTypeOK
  <2>2. /\ disk' = Written(t, c) /\ studio' = [studio EXCEPT !.name = t, !.file = t]
        /\ kept' = c /\ strayed' = FALSE /\ made' = made
    BY <1>3, <2>1 DEF Save
  <2>3. Xml(t) \in Paths /\ t # NoName
    BY PathForm, StudioFilesAssumption
  <2>4. disk' \in [Paths -> Contents] /\ disk'[Xml(t)] = c
    BY <2>2, <2>3, WrittenForm DEF FilesInv
  <2>5. /\ studio' \in [name : Names \cup {NoName}, file : Names \cup {NoName},
                         holds : Contents, started : BOOLEAN]
        /\ studio'.file = t /\ studio'.holds = c
    BY <2>1, <2>2 DEF FilesInv, FilesTypeOK
  <2>6. queue' \in Seq(Command)
    BY <1>3, SaveNamed, RunTyped DEF Save, Writes, FilesInv
  <2>7. FilesTypeOK'
    BY <2>2, <2>4, <2>5, <2>6 DEF FilesInv, FilesTypeOK
  <2>8. SavedIsKept'
    BY <2>2, <2>3, <2>4 DEF SavedIsKept
  <2>9. Place' /\ OwnFile'
    BY <2>2, <2>3, <2>4, <2>5 DEF Place, OwnFile
  <2> QED BY <2>7, <2>8, <2>9 DEF FilesInv
<1>4. CASE SaveFails
  <2>1. PICK t \in Names : t = Head(queue).name
    BY <1>4, SaveNamed DEF SaveFails, Writes
  <2>2. /\ Loaded /\ studio' = [studio EXCEPT !.file = t] /\ kept' = kept /\ made' = made
        /\ strayed' \in BOOLEAN
        /\ ~strayed' => ~strayed /\ studio.file = t
        /\ \/ disk' \in {disk, MovedBack(SetAside(t), t), MovedBack(Written(t, Broken), t)}
           \/ disk' = Written(t, Broken) /\ (~strayed' => ~HasBackup(t))
    BY <1>4, <2>1, FailedSave DEF Writes
  <2>3. /\ studio' \in [name : Names \cup {NoName}, file : Names \cup {NoName},
                         holds : Contents, started : BOOLEAN]
        /\ studio'.file = t /\ studio'.holds = studio.holds
    BY <2>2 DEF FilesInv, FilesTypeOK
  <2>4. disk' \in Outcomes(t)
    BY <2>2 DEF Outcomes, Stages
  <2>5. queue' \in Seq(Command)
    BY <1>4, SaveNamed, RunTyped DEF SaveFails, Writes, FilesInv
  <2>6. FilesTypeOK'
    <3>1. disk' \in [Paths -> Contents]
      BY <2>4, OutcomesTyped DEF FilesInv
    <3> QED BY <2>2, <2>3, <2>5, <3>1 DEF FilesInv, FilesTypeOK
  <2>7. CASE strayed'
    BY <2>6, <2>7 DEF FilesInv, SavedIsKept, Place, OwnFile
  <2>8. CASE ~strayed'
    <3>1. /\ ~strayed /\ studio.file = t
          /\ disk' \in {disk, MovedBack(SetAside(t), t), MovedBack(Written(t, Broken), t)}
                      \cup IF HasBackup(t) THEN {} ELSE {Written(t, Broken)}
      BY <2>2, <2>8
    <3>2. \/ disk'[Xml(t)] = disk[Xml(t)]
          \/ disk[Xml(t)] = Absent /\ disk'[Xml(t)] = Broken
      BY <3>1, FailureKeeps DEF FilesInv
    <3>3. t # NoName /\ Xml(t) \in Paths
      BY PathForm, StudioFilesAssumption
    <3>4. kept # Absent => disk'[Xml(t)] = kept
      BY <2>2, <3>1, <3>2 DEF FilesInv, Place
    <3>5. SavedIsKept'
      BY <2>2, <3>3, <3>4 DEF SavedIsKept
    <3>6. Place'
      BY <2>2, <2>3, <3>3, <3>4 DEF Place
    <3>7. OwnFile'
      BY <2>2, <2>3, <3>1, <3>2, <3>3, ContentForm DEF FilesInv, OwnFile
    <3> QED BY <2>6, <3>5, <3>6, <3>7 DEF FilesInv
  <2> QED BY <2>7, <2>8
<1> QED BY <1>1, <1>2, <1>3, <1>4

\* The death of the daemon keeps FilesInv, wherever in a save it comes.
LEMMA CrashStep ==
  ASSUME FilesInv, Crash
  PROVE  FilesInv'
<1>1. studio' = NoStudio /\ queue' = << >> /\ UNCHANGED <<kept, strayed, made>>
  BY DEF Crash
<1>2. ~Loaded'
  BY <1>1, NoStudioTyped DEF Loaded
<1>3. CASE Writes
  <2>1. PICK t \in Names : t = Head(queue).name
    BY <1>3, SaveNamed DEF Writes
  <2>2. disk' \in Stages(t) /\ Loaded
    BY <1>3, <2>1 DEF Crash, Writes
  <2>3. disk' \in [Paths -> Contents]
    BY <2>2, OutcomesTyped DEF FilesInv, Outcomes
  <2>4. FilesTypeOK'
    BY <1>1, <2>3, NoStudioTyped DEF FilesInv, FilesTypeOK
  <2>5. SavedIsKept'
    BY <1>1, <2>2, StagesKeep DEF SavedIsKept
  <2> QED BY <1>2, <2>4, <2>5 DEF FilesInv, Place, OwnFile
<1>4. CASE ~Writes
  <2>1. disk' = disk
    BY <1>4 DEF Crash
  <2>2. FilesTypeOK'
    BY <1>1, <2>1, NoStudioTyped DEF FilesInv, FilesTypeOK
  <2> QED BY <1>1, <1>2, <2>1, <2>2, QuietStep
<1> QED BY <1>3, <1>4

-----------------------------------------------------------------------------
\* FilesInv holds when the daemon starts, whatever is on the disk.
LEMMA InitFilesInv == Init => FilesInv
<1> SUFFICES ASSUME Init PROVE FilesInv
  OBVIOUS
<1>1. disk \in [Paths -> Contents] /\ made \in Nat
  <2>1. made \in Nat /\ disk \in [Paths -> Content]
    BY DEF Init
  <2>2. Content \subseteq Contents
    BY <2>1, ContentForm DEF Content, Contents
  <2> QED BY <2>1, <2>2
<1>2. FilesTypeOK
  <2>1. queue \in Seq(Command)
    BY DEF Init
  <2> QED BY <1>1, <2>1, NoStudioTyped, ContentForm DEF Init, FilesTypeOK
<1> QED BY <1>2, NoStudioTyped DEF Init, FilesInv, SavedIsKept, Place, OwnFile, Loaded

\* Every step keeps FilesInv.
LEMMA NextFilesInv == FilesInv /\ [Next]_vars => FilesInv'
<1> SUFFICES ASSUME FilesInv, [Next]_vars PROVE FilesInv'
  OBVIOUS
<1>1. CASE Request
  BY <1>1, RequestStep
<1>2. CASE Run
  BY <1>2, MakeStep, SaveStep DEF Run
<1>3. CASE Crash
  BY <1>3, CrashStep
<1>4. CASE UNCHANGED vars
  BY <1>4, QuietStep DEF vars, FilesInv, FilesTypeOK, Loaded
<1> QED BY <1>1, <1>2, <1>3, <1>4 DEF Next

\* The inductive invariant holds in every reachable state.
THEOREM FilesInvariance == Spec => []FilesInv
<1>1. Init => FilesInv
  BY InitFilesInv
<1>2. FilesInv /\ [Next]_vars => FilesInv'
  BY NextFilesInv
<1> QED BY <1>1, <1>2, PTL DEF Spec

\* What was last saved of the studio, or loaded into it, is on the disk, as its
\* file or as a backup, at every point where a save may be cut off.
THEOREM SavedIsKeptTheorem == Spec => []SavedIsKept
<1>1. FilesInv => SavedIsKept
  BY DEF FilesInv
<1> QED BY <1>1, FilesInvariance, PTL

-----------------------------------------------------------------------------
(***************************************************************************)
(* What a step leaves alone.                                               *)
(***************************************************************************)
LEMMA OutcomesSpareStrangers ==
  ASSUME FilesInv, Writes, ~strayed, NEW d \in Outcomes(Head(queue).name),
         NEW p \in Paths, Foreign(p), d[p] # disk[p]
  PROVE  p[1] = Head(queue).name
<1>1. PICK t \in Names : t = Head(queue).name
  BY SaveNamed DEF Writes
<1>2. CASE p[1] = t
  BY <1>1, <1>2
<1>3. CASE HasBackup(t) /\ p = Xml(OldFile(t))
  <2>1. CASE OldFile(t) = t
    BY <1>1, <1>3, <2>1, PathForm
  <2>2. CASE OldFile(t) = studio.file
    <3>1. Loaded /\ studio.file # NoName
      BY <1>3, <2>2 DEF Writes, HasBackup
    <3>2. disk[p].origin \in {0, studio.holds.origin}
      BY <1>3, <2>2, <3>1 DEF FilesInv, OwnFile
    <3> QED BY <3>2 DEF Foreign
  <2> QED BY <2>1, <2>2, OldFileForm DEF FilesInv
<1>4. p[1] = t \/ (HasBackup(t) /\ p = Xml(OldFile(t)))
  BY <1>1, OutcomesTouch DEF FilesInv
<1> QED BY <1>2, <1>3, <1>4

\* Only a save, one that is cut off too, and a deletion change a file.
LEMMA WhoWrites ==
  ASSUME FilesInv, [Next]_vars, ~Delete
  PROVE  disk' = disk \/ (Writes /\ disk' \in Outcomes(Head(queue).name))
<1>1. CASE AskNew \/ AskLoad \/ AskStart \/ AskUnload \/ AskSave \/ AskSaveAs
  BY <1>1, AskTyped DEF FilesInv
<1>2. CASE Rename \/ Edit
  BY <1>2 DEF Rename, Edit
<1>3. CASE RunNew \/ RunStart \/ RunUnload \/ RunLoad \/ LoadFails \/ JackFails
  BY <1>3 DEF RunNew, RunStart, RunUnload, RunLoad, LoadFails, JackFails
<1>4. CASE Save
  BY <1>4 DEF Save, Outcomes
<1>5. CASE SaveRefused \/ SaveOfNothing
  BY <1>5 DEF SaveRefused, SaveOfNothing
<1>6. CASE SaveFails
  BY <1>6, FailedSave DEF Outcomes, Stages
<1>7. CASE Crash
  BY <1>7 DEF Crash, Outcomes
<1>8. CASE UNCHANGED vars
  BY <1>8 DEF vars
<1> QED BY <1>1, <1>2, <1>3, <1>4, <1>5, <1>6, <1>7, <1>8 DEF Next, Request, Run

\* A save leaves alone what belongs to other studios, but for the files of the
\* name it saves under.
THEOREM StrangersUntouchedTheorem == Spec => StrangersUntouched
<1> DEFINE Spares == \A p \in Paths : Foreign(p) /\ disk'[p] # disk[p] => p[1] = Head(queue).name
<1>1. FilesInv /\ [Next]_vars => [Delete \/ strayed \/ Spares]_vars
  <2> SUFFICES ASSUME FilesInv, [Next]_vars, ~Delete, ~strayed PROVE Spares
    OBVIOUS
  <2> QED BY WhoWrites, OutcomesSpareStrangers
<1> QED BY <1>1, FilesInvariance, PTL DEF Spec, StrangersUntouched
-----------------------------------------------------------------------------
(***************************************************************************)
(* Proofs about Configuration for any clients, any values and any number   *)
(* of deaths, failures and calls.                                          *)
(*                                                                         *)
(* ConfAgrees speaks of clients that have heard everything.  The invariant *)
(* (Follows) is about the signals that are still to come: the last of them *)
(* that changes the value has the right one, and when the client will take *)
(* none of them, it has that value already, from a reply that overtook     *)
(* them.                                                                   *)
(***************************************************************************)

AnyValue == Values \cup {Unknown, Empty}

Signal == [is : {"changed", "died"}, value : AnyValue, version : Nat]

Service0 == [up : BOOLEAN, value : AnyValue, version : Nat, stored : BOOLEAN]

Copy == [running : BOOLEAN, registered : BOOLEAN, answered : BOOLEAN, value : AnyValue, version : Nat]

\* The value that the clients should have.
Target == IF conf.value # Unknown THEN conf.value ELSE file

Change(s) == s.is = "changed"

\* From i to j nothing but changes, the service did not die in between.
Unbroken(q, i, j) == \A l \in i..j : Change(q[l])

\* Each service numbers its changes upwards.
Rising(q) ==
  /\ \A i \in 1..Len(q) : Change(q[i]) => 1 <= q[i].version
  /\ \A i, j \in 1..Len(q) : i < j /\ Unbroken(q, i, j) => q[i].version < q[j].version

\* The changes of the service that is alive now have numbers up to m.
UpTo(q, m) == \A i \in 1..Len(q) : Unbroken(q, i, Len(q)) => q[i].version <= m

\* The last change has the value v.
EndsWith(q, v) ==
  \A i \in 1..Len(q) :
    Change(q[i]) /\ (\A l \in i + 1 .. Len(q) : ~Change(q[l])) => q[i].value = v

\* A client at version n takes none of the changes that it will hear.
Settled(q, n) ==
  \A i \in 1..Len(q) : Change(q[i]) => Unbroken(q, 1, i) /\ q[i].version <= n

\* What is true of a client with copy c that will hear q, when the service is
\* at version m and the right value is t; l: a value was lost.
Follows(c, q, m, t, l) ==
  /\ Rising(q)
  /\ UpTo(q, m)
  /\ ~c.running => q = <<>> /\ c.version = 0
  /\ c.answered => c.registered
  /\ c.registered => c.running
  /\ Unbroken(q, 1, Len(q)) => c.version <= m
  /\ ~l => EndsWith(q, t)
  /\ c.answered /\ ~l /\ Settled(q, c.version) => c.value = t

ConfTypeOK ==
  /\ conf \in Service0
  /\ file \in AnyValue
  /\ copies \in [Clients -> Copy]
  /\ changes \in [Clients -> Seq(Signal)]
  /\ lost \in BOOLEAN
  /\ steps \in Nat

ConfInv ==
  /\ ConfTypeOK
  /\ ~conf.up => conf = Dead
  /\ conf.value = Unknown => conf.version = 0
  /\ \A p \in Clients : Follows(copies[p], changes[p], conf.version, Target, lost)

-----------------------------------------------------------------------------
(***************************************************************************)
(* One more signal.                                                        *)
(***************************************************************************)
LEMMA AppendFacts ==
  ASSUME NEW q \in Seq(Signal), NEW s \in Signal
  PROVE  /\ Append(q, s) \in Seq(Signal)
         /\ Len(q) \in Nat
         /\ Len(Append(q, s)) = Len(q) + 1
         /\ \A i \in 1..Len(q) : Append(q, s)[i] = q[i]
         /\ Append(q, s)[Len(q) + 1] = s
OBVIOUS

\* A change with a number that is higher than those before.
LEMMA OneMoreChange ==
  ASSUME NEW q \in Seq(Signal), NEW s \in Signal, Change(s),
         NEW m \in Nat, m < s.version, Rising(q), UpTo(q, m)
  PROVE  /\ Rising(Append(q, s))
         /\ UpTo(Append(q, s), s.version)
         /\ EndsWith(Append(q, s), s.value)
         /\ \A n \in Nat : (Unbroken(q, 1, Len(q)) => n <= m) => ~Settled(Append(q, s), n)
<1> DEFINE r == Append(q, s)
           k == Len(q)
<1>1. /\ k \in Nat /\ Len(r) = k + 1 /\ r[k + 1] = s
      /\ \A i \in 1..k : r[i] = q[i]
  BY AppendFacts
<1>2. s.version \in Nat /\ \A i \in 1..k : q[i].version \in Nat
  <2>1. \A x \in Signal : x.version \in Nat
    BY DEF Signal
  <2>2. \A i \in 1..k : q[i] \in Signal
    OBVIOUS
  <2> QED BY <2>1, <2>2
<1> HIDE DEF r, k
<1>3. \A i, j \in 1..k : Unbroken(r, i, j) <=> Unbroken(q, i, j)
  BY <1>1 DEF Unbroken
<1>4. ASSUME NEW i \in 1..k, Unbroken(r, i, k + 1) PROVE Unbroken(q, i, k) /\ q[i].version <= m
  <2>1. Unbroken(q, i, k)
    BY <1>1, <1>4 DEF Unbroken
  <2> QED BY <2>1 DEF UpTo, k
<1>5. Rising(r)
  <2>1. \A i \in 1..Len(r) : Change(r[i]) => 1 <= r[i].version
    <3> SUFFICES ASSUME NEW i \in 1..k + 1, Change(r[i]) PROVE 1 <= r[i].version
      BY <1>1
    <3>1. CASE i \in 1..k
      BY <1>1, <3>1 DEF Rising, k
    <3>2. CASE i = k + 1
      BY <1>1, <1>2, <3>2
    <3> QED BY <1>1, <3>1, <3>2
  <2>2. ASSUME NEW i \in 1..k + 1, NEW j \in 1..k + 1, i < j, Unbroken(r, i, j)
        PROVE  r[i].version < r[j].version
    <3>1. i \in 1..k
      BY <1>1, <2>2
    <3>2. CASE j \in 1..k
      <4>1. Unbroken(q, i, j)
        BY <1>3, <2>2, <3>1, <3>2
      <4>2. q[i].version < q[j].version
        BY <2>2, <3>1, <3>2, <4>1 DEF Rising, k
      <4> QED BY <1>1, <3>1, <3>2, <4>2
    <3>3. CASE j = k + 1
      <4>1. q[i].version <= m
        BY <1>4, <2>2, <3>1, <3>3
      <4> QED BY <1>1, <1>2, <3>1, <3>3, <4>1
    <3> QED BY <1>1, <3>2, <3>3
  <2> QED BY <1>1, <2>1, <2>2 DEF Rising
<1>6. UpTo(r, s.version)
  <2> SUFFICES ASSUME NEW i \in 1..k + 1, Unbroken(r, i, k + 1) PROVE r[i].version <= s.version
    BY <1>1 DEF UpTo
  <2>1. CASE i \in 1..k
    <3>1. q[i].version <= m
      BY <1>4, <2>1
    <3> QED BY <1>1, <1>2, <2>1, <3>1
  <2>2. CASE i = k + 1
    BY <1>1, <1>2, <2>2
  <2> QED BY <1>1, <2>1, <2>2
<1>7. EndsWith(r, s.value)
  <2> SUFFICES ASSUME NEW i \in 1..k + 1, \A l \in i + 1 .. k + 1 : ~Change(r[l])
               PROVE  r[i].value = s.value
    BY <1>1 DEF EndsWith
  <2>1. ~(k + 1 \in i + 1 .. k + 1)
    BY <1>1
  <2>2. i = k + 1
    BY <1>1, <2>1
  <2> QED BY <1>1, <2>2
<1>8. ASSUME NEW n \in Nat, Unbroken(q, 1, k) => n <= m, Settled(r, n) PROVE FALSE
  <2>1. k + 1 \in 1..Len(r)
    BY <1>1
  <2>2. Unbroken(r, 1, k + 1) /\ s.version <= n
    BY <1>1, <1>8, <2>1 DEF Settled
  <2>3. Unbroken(q, 1, k)
    BY <1>1, <2>2 DEF Unbroken
  <2> QED BY <1>2, <1>8, <2>2, <2>3
<1> QED BY <1>5, <1>6, <1>7, <1>8 DEF r, k

\* The death of the service.
LEMMA OneMoreDeath ==
  ASSUME NEW q \in Seq(Signal), NEW s \in Signal, ~Change(s), Rising(q)
  PROVE  /\ Rising(Append(q, s))
         /\ \A m : UpTo(Append(q, s), m)
         /\ ~Unbroken(Append(q, s), 1, Len(Append(q, s)))
         /\ \A v : EndsWith(q, v) => EndsWith(Append(q, s), v)
         /\ \A n : Settled(Append(q, s), n) => Settled(q, n)
<1> DEFINE r == Append(q, s)
           k == Len(q)
<1>1. /\ k \in Nat /\ Len(r) = k + 1 /\ r[k + 1] = s
      /\ \A i \in 1..k : r[i] = q[i]
  BY AppendFacts
<1> HIDE DEF r, k
<1>2. \A i, j \in 1..k : Unbroken(r, i, j) <=> Unbroken(q, i, j)
  BY <1>1 DEF Unbroken
<1>3. \A i \in 1..k + 1 : ~Unbroken(r, i, k + 1)
  BY <1>1 DEF Unbroken
<1>4. Rising(r)
  <2>1. \A i \in 1..k + 1 : Change(r[i]) => i \in 1..k
    BY <1>1
  <2>2. \A i \in 1..k + 1 : Change(r[i]) => 1 <= r[i].version
    BY <1>1, <2>1 DEF Rising, k
  <2>3. ASSUME NEW i \in 1..k + 1, NEW j \in 1..k + 1, i < j, Unbroken(r, i, j)
        PROVE  r[i].version < r[j].version
    <3>1. j # k + 1
      BY <1>3, <2>3
    <3>2. i \in 1..k /\ j \in 1..k
      BY <1>1, <2>3, <3>1
    <3>3. Unbroken(q, i, j)
      BY <1>2, <2>3, <3>2
    <3>4. q[i].version < q[j].version
      BY <2>3, <3>2, <3>3 DEF Rising, k
    <3> QED BY <1>1, <3>2, <3>4
  <2> QED BY <1>1, <2>2, <2>3 DEF Rising
<1>5. \A m : UpTo(r, m)
  BY <1>1, <1>3 DEF UpTo
<1>6. ~Unbroken(r, 1, Len(r))
  <2>1. 1 \in 1..k + 1
    BY <1>1
  <2> QED BY <1>1, <1>3, <2>1
<1>7. ASSUME NEW v, EndsWith(q, v) PROVE EndsWith(r, v)
  <2> SUFFICES ASSUME NEW i \in 1..k + 1, Change(r[i]),
                      \A l \in i + 1 .. k + 1 : ~Change(r[l])
               PROVE  r[i].value = v
    BY <1>1 DEF EndsWith
  <2>1. i \in 1..k
    <3>1. i # k + 1
      BY <1>1
    <3> QED BY <1>1, <3>1
  <2>2. \A l \in i + 1 .. k : ~Change(q[l])
    <3> SUFFICES ASSUME NEW l \in i + 1 .. k PROVE ~Change(q[l])
      OBVIOUS
    <3>1. l \in i + 1 .. k + 1 /\ l \in 1..k
      BY <1>1, <2>1
    <3> QED BY <1>1, <3>1
  <2>3. Change(q[i])
    BY <1>1, <2>1
  <2>4. q[i].value = v
    BY <1>7, <2>1, <2>2, <2>3 DEF EndsWith, k
  <2> QED BY <1>1, <2>1, <2>4
<1>8. ASSUME NEW n, Settled(r, n) PROVE Settled(q, n)
  <2> SUFFICES ASSUME NEW i \in 1..k, Change(q[i]) PROVE Unbroken(q, 1, i) /\ q[i].version <= n
    BY DEF Settled, k
  <2>1. i \in 1..k + 1 /\ 1 \in 1..k
    BY <1>1
  <2>2. Unbroken(r, 1, i) /\ r[i].version <= n
    BY <1>1, <1>8, <2>1 DEF Settled
  <2> QED BY <1>1, <1>2, <2>1, <2>2
<1> QED BY <1>4, <1>5, <1>6, <1>7, <1>8 DEF r

-----------------------------------------------------------------------------
(***************************************************************************)
(* One signal less.                                                        *)
(***************************************************************************)
LEMMA TailFacts ==
  ASSUME NEW q \in Seq(Signal), q # <<>>
  PROVE  /\ Tail(q) \in Seq(Signal)
         /\ Len(q) \in Nat /\ 1 <= Len(q)
         /\ Len(Tail(q)) = Len(q) - 1
         /\ \A i \in 1..Len(q) - 1 : Tail(q)[i] = q[i + 1]
         /\ Head(q) = q[1] /\ Head(q) \in Signal
OBVIOUS

\* Hearing the first signal takes nothing from what the rest say.
LEMMA OneLess ==
  ASSUME NEW q \in Seq(Signal), q # <<>>, Rising(q)
  PROVE  /\ Rising(Tail(q))
         /\ \A m : UpTo(q, m) => UpTo(Tail(q), m)
         /\ \A v : EndsWith(q, v) => EndsWith(Tail(q), v)
         /\ Unbroken(Tail(q), 1, Len(Tail(q))) /\ Change(Head(q)) => Unbroken(q, 1, Len(q))
<1> DEFINE r == Tail(q)
           k == Len(q)
<1>1. /\ k \in Nat /\ 1 <= k /\ Len(r) = k - 1 /\ Head(q) = q[1]
      /\ \A i \in 1..k - 1 : r[i] = q[i + 1]
  BY TailFacts
<1> HIDE DEF r, k
<1>2. ASSUME NEW i \in 1..k - 1, NEW j \in 1..k - 1
      PROVE  Unbroken(r, i, j) => Unbroken(q, i + 1, j + 1)
  <2> SUFFICES ASSUME Unbroken(r, i, j), NEW l \in i + 1 .. j + 1 PROVE Change(q[l])
    BY DEF Unbroken
  <2>1. l - 1 \in i..j /\ l - 1 \in 1..k - 1 /\ (l - 1) + 1 = l
    BY <1>1
  <2> QED BY <1>1, <2>1 DEF Unbroken
<1>3. Rising(r)
  <2>1. ASSUME NEW i \in 1..k - 1, Change(r[i]) PROVE 1 <= r[i].version
    <3>1. i + 1 \in 1..k
      BY <1>1
    <3> QED BY <1>1, <2>1, <3>1 DEF Rising, k
  <2>2. ASSUME NEW i \in 1..k - 1, NEW j \in 1..k - 1, i < j, Unbroken(r, i, j)
        PROVE  r[i].version < r[j].version
    <3>1. i + 1 \in 1..k /\ j + 1 \in 1..k /\ i + 1 < j + 1
      BY <1>1, <2>2
    <3>2. q[i + 1].version < q[j + 1].version
      BY <1>2, <2>2, <3>1 DEF Rising, k
    <3> QED BY <1>1, <3>2
  <2> QED BY <1>1, <2>1, <2>2 DEF Rising
<1>4. ASSUME NEW m, UpTo(q, m) PROVE UpTo(r, m)
  <2> SUFFICES ASSUME NEW i \in 1..k - 1, Unbroken(r, i, k - 1) PROVE r[i].version <= m
    BY <1>1 DEF UpTo
  <2>1. i + 1 \in 1..k /\ k - 1 \in 1..k - 1 /\ (k - 1) + 1 = k
    BY <1>1
  <2>2. Unbroken(q, i + 1, k)
    BY <1>2, <2>1
  <2>3. q[i + 1].version <= m
    BY <1>4, <2>1, <2>2 DEF UpTo, k
  <2> QED BY <1>1, <2>3
<1>5. ASSUME NEW v, EndsWith(q, v) PROVE EndsWith(r, v)
  <2> SUFFICES ASSUME NEW i \in 1..k - 1, Change(r[i]),
                      \A l \in i + 1 .. k - 1 : ~Change(r[l])
               PROVE  r[i].value = v
    BY <1>1 DEF EndsWith
  <2>1. i + 1 \in 1..k /\ r[i] = q[i + 1]
    BY <1>1
  <2>2. ASSUME NEW l \in (i + 1) + 1 .. k PROVE ~Change(q[l])
    <3>1. l - 1 \in i + 1 .. k - 1 /\ l - 1 \in 1..k - 1 /\ (l - 1) + 1 = l
      BY <1>1
    <3> QED BY <1>1, <3>1
  <2>3. q[i + 1].value = v
    BY <1>5, <2>1, <2>2 DEF EndsWith, k
  <2> QED BY <2>1, <2>3
<1>6. ASSUME Unbroken(r, 1, Len(r)), Change(Head(q)) PROVE Unbroken(q, 1, k)
  <2> SUFFICES ASSUME NEW l \in 1..k PROVE Change(q[l])
    BY DEF Unbroken
  <2>1. CASE l = 1
    BY <1>1, <1>6, <2>1
  <2>2. CASE l # 1
    <3>1. l - 1 \in 1..k - 1 /\ (l - 1) + 1 = l
      BY <1>1, <2>2
    <3> QED BY <1>1, <1>6, <3>1 DEF Unbroken
  <2> QED BY <2>1, <2>2
<1> QED BY <1>3, <1>4, <1>5, <1>6 DEF r, k

\* A client that settles down when it has heard the first signal.
LEMMA SettlesAfter ==
  ASSUME NEW q \in Seq(Signal), q # <<>>, Rising(q), NEW n \in Nat, Settled(Tail(q), n)
  PROVE  /\ Change(Head(q)) /\ Head(q).version <= n => Settled(q, n)
         /\ Change(Head(q)) /\ n <= Head(q).version
              => \A v : EndsWith(q, v) => Head(q).value = v
         /\ ~Change(Head(q)) /\ n = 0 => \A i \in 1..Len(q) : ~Change(q[i])
<1> DEFINE r == Tail(q)
           k == Len(q)
<1>1. /\ k \in Nat /\ 1 <= k /\ Len(r) = k - 1 /\ Head(q) = q[1]
      /\ \A i \in 1..k - 1 : r[i] = q[i + 1]
  BY TailFacts
<1>2. \A i \in 1..k : q[i].version \in Nat
  <2>1. \A x \in Signal : x.version \in Nat
    BY DEF Signal
  <2>2. \A i \in 1..k : q[i] \in Signal
    OBVIOUS
  <2> QED BY <2>1, <2>2
<1>3. Settled(r, n)
  OBVIOUS
<1> HIDE DEF r, k
<1>4. ASSUME NEW i \in 1..k, i # 1, Change(q[i])
      PROVE  /\ \A l \in 2..i : Change(q[l])
             /\ q[i].version <= n
  <2>1. i - 1 \in 1..k - 1 /\ (i - 1) + 1 = i
    BY <1>1, <1>4
  <2>2. Unbroken(r, 1, i - 1) /\ r[i - 1].version <= n
    BY <1>1, <1>3, <1>4, <2>1 DEF Settled
  <2>3. ASSUME NEW l \in 2..i PROVE Change(q[l])
    <3>1. l - 1 \in 1..i - 1 /\ l - 1 \in 1..k - 1 /\ (l - 1) + 1 = l
      BY <1>1
    <3> QED BY <1>1, <2>2, <3>1 DEF Unbroken
  <2> QED BY <1>1, <2>1, <2>2, <2>3
<1>5. ASSUME Change(q[1]), NEW i \in 1..k, i # 1, Change(q[i])
      PROVE  Unbroken(q, 1, i) /\ q[1].version < q[i].version
  <2>1. Unbroken(q, 1, i)
    <3> SUFFICES ASSUME NEW l \in 1..i PROVE Change(q[l])
      BY DEF Unbroken
    <3>1. CASE l = 1
      BY <1>5, <3>1
    <3>2. CASE l # 1
      <4>1. l \in 2..i
        BY <3>2
      <4> QED BY <1>4, <1>5, <4>1
    <3> QED BY <3>1, <3>2
  <2>2. 1 \in 1..k /\ 1 < i
    BY <1>1, <1>5
  <2> QED BY <2>1, <2>2 DEF Rising, k
<1>6. ASSUME Change(q[1]), q[1].version <= n PROVE Settled(q, n)
  <2> SUFFICES ASSUME NEW i \in 1..k, Change(q[i]) PROVE Unbroken(q, 1, i) /\ q[i].version <= n
    BY DEF Settled, k
  <2>1. CASE i = 1
    BY <1>6, <2>1 DEF Unbroken
  <2>2. CASE i # 1
    BY <1>4, <1>5, <1>6, <2>2
  <2> QED BY <2>1, <2>2
<1>7. ASSUME Change(q[1]), n <= q[1].version, NEW v, EndsWith(q, v) PROVE q[1].value = v
  <2>1. ASSUME NEW l \in 2..k, Change(q[l]) PROVE FALSE
    <3>1. l \in 1..k /\ l # 1
      BY <1>1
    <3>2. q[l].version <= n /\ q[1].version < q[l].version
      BY <1>4, <1>5, <1>7, <2>1, <3>1
    <3>3. 1 \in 1..k
      BY <1>1
    <3> QED BY <1>2, <1>7, <3>1, <3>2, <3>3
  <2>2. 1 \in 1..k /\ 1 + 1 = 2
    BY <1>1
  <2> QED BY <1>7, <2>1, <2>2 DEF EndsWith, k
<1>8. ASSUME ~Change(q[1]), n = 0, NEW i \in 1..k, Change(q[i]) PROVE FALSE
  <2>1. i # 1
    BY <1>8
  <2>2. q[i].version <= n /\ 1 <= q[i].version
    BY <1>4, <1>8, <2>1 DEF Rising, k
  <2> QED BY <1>2, <1>8, <2>2
<1> QED BY <1>1, <1>6, <1>7, <1>8 DEF k

-----------------------------------------------------------------------------
(***************************************************************************)
(* What can happen to a client.                                            *)
(***************************************************************************)

\* Nothing, while the service goes on or starts again.
LEMMA StillFollows ==
  ASSUME NEW c \in Copy, NEW q \in Seq(Signal), NEW m \in Nat, NEW t, NEW l, Follows(c, q, m, t, l),
         NEW n \in Nat, m <= n, NEW u, NEW k, ~k => ~l /\ u = t
  PROVE  Follows(c, q, n, u, k)
<1>1. c.version \in Nat
  BY DEF Copy
<1>2. UpTo(q, n)
  <2>1. \A i \in 1..Len(q) : q[i].version \in Nat
    <3>1. \A x \in Signal : x.version \in Nat
      BY DEF Signal
    <3>2. \A i \in 1..Len(q) : q[i] \in Signal
      OBVIOUS
    <3> QED BY <3>1, <3>2
  <2>2. \A i \in 1..Len(q) : Unbroken(q, i, Len(q)) => q[i].version <= m
    BY DEF Follows, UpTo
  <2> QED BY <2>1, <2>2 DEF UpTo
<1>3. Unbroken(q, 1, Len(q)) => c.version <= n
  <2>1. Unbroken(q, 1, Len(q)) => c.version <= m
    BY DEF Follows
  <2> QED BY <1>1, <2>1
<1> QED BY <1>2, <1>3 DEF Follows

\* The service died.
LEMMA FollowsDeath ==
  ASSUME NEW c \in Copy, NEW q \in Seq(Signal), NEW m, NEW t, NEW l, Follows(c, q, m, t, l),
         c.running, NEW s \in Signal, ~Change(s), NEW n, NEW u, NEW k, ~k => ~l /\ u = t
  PROVE  Follows(c, Append(q, s), n, u, k)
<1>1. /\ Rising(Append(q, s)) /\ UpTo(Append(q, s), n)
      /\ ~Unbroken(Append(q, s), 1, Len(Append(q, s)))
      /\ EndsWith(q, t) => EndsWith(Append(q, s), t)
      /\ Settled(Append(q, s), c.version) => Settled(q, c.version)
  BY OneMoreDeath DEF Follows
<1> QED BY <1>1 DEF Follows

\* The service has a new value.
LEMMA FollowsChange ==
  ASSUME NEW c \in Copy, NEW q \in Seq(Signal), NEW m \in Nat, NEW t, NEW l, Follows(c, q, m, t, l),
         c.running, NEW s \in Signal, Change(s), m < s.version, NEW k
  PROVE  Follows(c, Append(q, s), s.version, s.value, k)
<1>1. c.version \in Nat /\ s.version \in Nat
  BY DEF Copy, Signal
<1>2. Unbroken(q, 1, Len(q)) => c.version <= m
  BY DEF Follows
<1>3. /\ Rising(Append(q, s)) /\ UpTo(Append(q, s), s.version) /\ EndsWith(Append(q, s), s.value)
      /\ ~Settled(Append(q, s), c.version)
  BY <1>1, <1>2, OneMoreChange DEF Follows
<1>4. Unbroken(Append(q, s), 1, Len(Append(q, s))) => c.version <= s.version
  <2>1. Unbroken(Append(q, s), 1, Len(Append(q, s))) => Unbroken(q, 1, Len(q))
    <3>1. \A i \in 1..Len(q) : i \in 1..Len(Append(q, s)) /\ Append(q, s)[i] = q[i]
      BY AppendFacts
    <3> QED BY <3>1 DEF Unbroken
  <2> QED BY <1>1, <1>2, <2>1
<1> QED BY <1>3, <1>4 DEF Follows

\* The client got an answer: the right value with the number it has.
LEMMA FollowsAnswer ==
  ASSUME NEW c \in Copy, NEW q \in Seq(Signal), NEW m \in Nat, NEW t, NEW l, Follows(c, q, m, t, l),
         c.running, NEW d \in Copy, d.running, d.registered, d.version = m, d.value = t
  PROVE  Follows(d, q, m, t, l)
BY DEF Follows

\* The client hears a signal.
LEMMA FollowsHeard ==
  ASSUME NEW c \in Copy, NEW q \in Seq(Signal), q # <<>>, NEW m \in Nat, NEW t, NEW l,
         Follows(c, q, m, t, l)
  PROVE  Heard(c, Head(q)) \in Copy /\ Follows(Heard(c, Head(q)), Tail(q), m, t, l)
<1> DEFINE s == Head(q)
           d == Heard(c, Head(q))
           r == Tail(q)
<1>1. /\ s \in Signal /\ r \in Seq(Signal) /\ Len(q) \in Nat /\ 1 \in 1..Len(q) /\ s = q[1]
      /\ c.version \in Nat /\ s.version \in Nat
  <2>1. s \in Signal /\ r \in Seq(Signal) /\ Len(q) \in Nat /\ 1 <= Len(q) /\ s = q[1]
    BY TailFacts
  <2>2. \A x \in Signal : x.version \in Nat
    BY DEF Signal
  <2>3. c.version \in Nat
    BY DEF Copy
  <2> HIDE DEF s, r
  <2> QED BY <2>1, <2>2, <2>3
<1>2. /\ Rising(r) /\ UpTo(r, m) /\ (~l => EndsWith(r, t))
      /\ Unbroken(r, 1, Len(r)) /\ Change(s) => Unbroken(q, 1, Len(q))
  BY OneLess DEF Follows
<1>3. \A n \in Nat : Settled(r, n) =>
         /\ Change(s) /\ s.version <= n => Settled(q, n)
         /\ Change(s) /\ n <= s.version /\ EndsWith(q, t) => s.value = t
         /\ ~Change(s) /\ n = 0 => Settled(q, c.version)
  BY SettlesAfter, <1>1 DEF Follows, Settled
<1>4. /\ c.running /\ (c.answered => c.registered) /\ (c.registered => c.running)
      /\ Unbroken(q, 1, Len(q)) => c.version <= m
      /\ ~l => EndsWith(q, t)
      /\ c.answered /\ ~l /\ Settled(q, c.version) => c.value = t
  BY DEF Follows
<1>5. CASE ~Change(s)
  <2>1. d = [c EXCEPT !.version = 0]
    BY <1>1, <1>5 DEF Heard, Change, Signal
  <2>2. /\ d \in Copy /\ d.version = 0 /\ d.value = c.value
        /\ d.running = c.running /\ d.registered = c.registered /\ d.answered = c.answered
    BY <2>1 DEF Copy
  <2> HIDE DEF d
  <2>3. d.answered /\ ~l /\ Settled(r, d.version) => d.value = t
    BY <1>3, <1>4, <1>5, <2>2
  <2>4. Unbroken(r, 1, Len(r)) => d.version <= m
    BY <2>2
  <2>5. Follows(d, r, m, t, l)
    BY <1>2, <1>4, <2>2, <2>3, <2>4 DEF Follows
  <2> QED BY <2>2, <2>5 DEF d
<1>6. CASE Change(s) /\ (~c.registered \/ c.version >= s.version \/ c.value = s.value)
  <2>1. d = c
    BY <1>1, <1>6 DEF Heard, Change
  <2> HIDE DEF d
  <2>2. d.answered /\ ~l /\ Settled(r, d.version) => d.value = t
    <3> SUFFICES ASSUME c.answered, ~l, Settled(r, c.version) PROVE c.value = t
      BY <2>1
    <3>1. CASE s.version <= c.version
      BY <1>1, <1>3, <1>4, <1>6, <3>1
    <3>2. CASE ~(s.version <= c.version)
      <4>1. c.value = s.value /\ c.version <= s.version
        BY <1>1, <1>4, <1>6, <3>2
      <4> QED BY <1>1, <1>3, <1>4, <1>6, <4>1
    <3> QED BY <3>1, <3>2
  <2> QED BY <1>2, <1>4, <1>6, <2>1, <2>2 DEF Follows, d
<1>7. CASE Change(s) /\ ~(~c.registered \/ c.version >= s.version \/ c.value = s.value)
  <2>1. d = [c EXCEPT !.value = s.value, !.version = s.version]
    BY <1>1, <1>7 DEF Heard, Change
  <2>2. /\ d \in Copy /\ d.version = s.version /\ d.value = s.value
        /\ d.running = c.running /\ d.registered = c.registered /\ d.answered = c.answered
    BY <1>1, <2>1 DEF Copy, Signal
  <2> HIDE DEF d
  <2>3. d.answered /\ ~l /\ Settled(r, d.version) => d.value = t
    BY <1>1, <1>3, <1>4, <1>7, <2>2
  <2>4. Unbroken(r, 1, Len(r)) => d.version <= m
    <3> SUFFICES ASSUME Unbroken(r, 1, Len(r)) PROVE s.version <= m
      BY <2>2
    <3>1. Unbroken(q, 1, Len(q))
      BY <1>2, <1>7
    <3> QED BY <1>1, <3>1 DEF Follows, UpTo
  <2> QED BY <1>2, <1>4, <2>2, <2>3, <2>4 DEF Follows, d
<1> QED BY <1>5, <1>6, <1>7

\* A client that does not run hears nothing.
LEMMA FollowsAbsent ==
  ASSUME NEW c \in Copy, ~c.running, c.version = 0, ~c.answered, ~c.registered,
         NEW n \in Nat, NEW u, NEW k
  PROVE  Follows(c, <<>>, n, u, k)
<1>1. Rising(<<>>) /\ UpTo(<<>>, n) /\ EndsWith(<<>>, u)
  BY DEF Rising, UpTo, EndsWith
<1> QED BY <1>1 DEF Follows

-----------------------------------------------------------------------------
(***************************************************************************)
(* The steps.                                                              *)
(***************************************************************************)
LEMMA ClientForm ==
  ASSUME ConfInv, NEW p \in Clients
  PROVE  /\ copies[p] \in Copy /\ changes[p] \in Seq(Signal)
         /\ conf.version \in Nat
         /\ Follows(copies[p], changes[p], conf.version, Target, lost)
         /\ ~copies[p].running =>
               changes[p] = <<>> /\ copies[p].version = 0 /\ ~copies[p].answered /\ ~copies[p].registered
<1>1. /\ copies[p] \in Copy /\ changes[p] \in Seq(Signal)
      /\ Follows(copies[p], changes[p], conf.version, Target, lost)
  BY DEF ConfInv, ConfTypeOK
<1>2. conf.version \in Nat
  BY DEF ConfInv, ConfTypeOK, Service0
<1> QED BY <1>1, <1>2 DEF Follows

\* What the signals do to the queues of the clients.
LEMMA SentForm ==
  ASSUME ConfInv
  PROVE  /\ Sent(<<>>) = changes
         /\ \A s \in Signal : Sent(<<s>>) =
               [p \in Clients |-> IF copies[p].running THEN Append(changes[p], s) ELSE changes[p]]
         /\ \A s, z \in Signal : Sent(<<s, z>>) =
               [p \in Clients |-> IF copies[p].running THEN Append(Append(changes[p], s), z)
                                  ELSE changes[p]]
<1>1. \A q \in Seq(Signal) :
         /\ q \o <<>> = q
         /\ \A s \in Signal : q \o <<s>> = Append(q, s)
         /\ \A s, z \in Signal : q \o <<s, z>> = Append(Append(q, s), z)
  OBVIOUS
<1>2. changes \in [Clients -> Seq(Signal)]
  BY DEF ConfInv, ConfTypeOK
<1> QED BY <1>1, <1>2 DEF Sent

\* The service dies, after a last change or without one.
LEMMA DeathStep ==
  ASSUME ConfInv, conf' = Dead, file' \in AnyValue, copies' = copies, lost' \in BOOLEAN, steps' \in Nat,
         NEW s \in Signal, Change(s), conf.version < s.version,
         \/ changes' = Sent(<<Died>>) /\ (~lost' => ~lost /\ file' = Target)
         \/ changes' = Sent(<<s, Died>>) /\ lost'
  PROVE  ConfInv'
<1>1. Died \in Signal /\ ~Change(Died)
  BY DEF Died, Signal, Change, AnyValue
<1>2. Dead \in Service0 /\ Dead.version = 0 /\ Dead.value = Unknown /\ ~Dead.up
  BY DEF Dead, Fresh, Service0, AnyValue
<1>3. Target' = file'
  BY <1>2 DEF Target
<1> DEFINE once == [p \in Clients |-> IF copies[p].running THEN Append(changes[p], Died)
                                     ELSE changes[p]]
           twice == [p \in Clients |-> IF copies[p].running THEN Append(Append(changes[p], s), Died)
                                      ELSE changes[p]]
<1>4. \/ changes' = once /\ (~lost' => ~lost /\ file' = Target)
      \/ changes' = twice /\ lost'
  BY <1>1, SentForm
<1>5. ASSUME NEW p \in Clients
      PROVE  changes'[p] \in Seq(Signal) /\ Follows(copies[p], changes'[p], 0, file', lost')
  <2>1. /\ copies[p] \in Copy /\ changes[p] \in Seq(Signal) /\ conf.version \in Nat
        /\ Follows(copies[p], changes[p], conf.version, Target, lost)
    BY ClientForm
  <2>2. CASE ~copies[p].running
    <3>1. /\ changes[p] = <<>> /\ copies[p].version = 0
          /\ ~copies[p].answered /\ ~copies[p].registered
      BY <2>2, ClientForm
    <3>2. changes'[p] = <<>>
      BY <1>4, <2>2, <3>1
    <3> QED BY <2>1, <2>2, <3>1, <3>2, FollowsAbsent
  <2>3. CASE copies[p].running /\ changes' = once /\ (~lost' => ~lost /\ file' = Target)
    <3>1. changes'[p] = Append(changes[p], Died)
      BY <2>3
    <3>2. Follows(copies[p], Append(changes[p], Died), 0, file', lost')
      BY <1>1, <2>1, <2>3, FollowsDeath
    <3> QED BY <1>1, <2>1, <3>1, <3>2
  <2>4. CASE copies[p].running /\ changes' = twice /\ lost'
    <3>1. changes'[p] = Append(Append(changes[p], s), Died)
      BY <2>4
    <3>2. Append(changes[p], s) \in Seq(Signal)
      BY <2>1
    <3>3. Follows(copies[p], Append(changes[p], s), s.version, s.value, lost')
      BY <2>1, <2>4, FollowsChange
    <3>4. Follows(copies[p], Append(Append(changes[p], s), Died), 0, file', lost')
      BY <1>1, <2>1, <2>4, <3>2, <3>3, FollowsDeath
    <3> QED BY <1>1, <3>1, <3>2, <3>4
  <2> QED BY <1>4, <2>2, <2>3, <2>4
<1>6. ConfTypeOK'
  <2>1. changes' \in [Clients -> Seq(Signal)]
    <3>1. changes' = [p \in Clients |-> changes'[p]]
      BY <1>4
    <3> QED BY <1>5, <3>1
  <2> QED BY <1>2, <2>1 DEF ConfInv, ConfTypeOK
<1> QED BY <1>2, <1>3, <1>5, <1>6 DEF ConfInv

\* The service has a new value, and perhaps the one who set it was answered.
LEMMA ChangeStep ==
  ASSUME ConfInv, NEW v \in Values, NEW n \in Nat, conf.version < n,
         conf' \in Service0, conf'.up, conf'.value = v, conf'.version = n,
         file' \in AnyValue, lost' \in BOOLEAN, steps' \in Nat, changes' = Sent(<<Changed(v, n)>>),
         NEW p \in Clients, copies[p].registered,
         copies' \in {copies, [copies EXCEPT ![p].value = v, ![p].version = n]}
  PROVE  ConfInv'
<1> DEFINE s == Changed(v, n)
           d == [copies[p] EXCEPT !.value = v, !.version = n]
<1>1. /\ s \in Signal /\ Change(s) /\ s.version = n /\ s.value = v
  BY DEF Changed, Signal, Change, AnyValue
<1>2. v # Unknown
  BY ConfigurationAssumption
<1>3. Target' = v
  BY <1>2 DEF Target
<1>4. copies \in [Clients -> Copy]
  BY DEF ConfInv, ConfTypeOK
<1>5. /\ d \in Copy /\ d.value = v /\ d.version = n
      /\ d.running = copies[p].running /\ d.registered = copies[p].registered
  <2>1. copies[p] \in Copy /\ v \in AnyValue
    BY <1>4 DEF AnyValue
  <2> QED BY <2>1 DEF Copy
<1>6. \A x \in Clients : copies'[x] = copies[x] \/ (x = p /\ copies'[x] = d)
  BY <1>4
<1>7. copies' \in [Clients -> Copy]
  BY <1>4, <1>5
<1> HIDE DEF s, d
<1>8. changes' = [x \in Clients |-> IF copies[x].running THEN Append(changes[x], s) ELSE changes[x]]
  BY <1>1, SentForm DEF s
<1>9. ASSUME NEW x \in Clients
      PROVE  changes'[x] \in Seq(Signal) /\ Follows(copies'[x], changes'[x], n, v, lost')
  <2>1. /\ copies[x] \in Copy /\ changes[x] \in Seq(Signal) /\ conf.version \in Nat
        /\ Follows(copies[x], changes[x], conf.version, Target, lost)
    BY ClientForm
  <2>2. CASE copies[x].running
    <3>1. changes'[x] = Append(changes[x], s) /\ Append(changes[x], s) \in Seq(Signal)
      BY <1>1, <1>8, <2>1, <2>2
    <3>2. Follows(copies[x], Append(changes[x], s), n, v, lost')
      <4>1. conf.version < s.version
        BY <1>1
      <4>2. Follows(copies[x], Append(changes[x], s), s.version, s.value, lost')
        BY <1>1, <2>1, <2>2, <4>1, FollowsChange
      <4> QED BY <1>1, <4>2
    <3>3. CASE copies'[x] = copies[x]
      BY <3>1, <3>2, <3>3
    <3>4. CASE x = p /\ copies'[x] = d
      <4>1. d.running /\ d.registered /\ d.version = n /\ d.value = v /\ d \in Copy
        BY <1>5, <2>2, <3>4
      <4>2. Follows(d, Append(changes[x], s), n, v, lost')
        BY <2>1, <2>2, <3>1, <3>2, <4>1, FollowsAnswer
      <4> QED BY <3>1, <3>4, <4>2
    <3> QED BY <1>6, <3>3, <3>4
  <2>3. CASE ~copies[x].running
    <3>1. /\ changes[x] = <<>> /\ copies[x].version = 0
          /\ ~copies[x].answered /\ ~copies[x].registered
      BY <2>3, ClientForm
    <3>2. changes'[x] = <<>> /\ copies'[x] = copies[x]
      BY <1>5, <1>6, <1>8, <2>3, <3>1
    <3>3. Follows(copies[x], <<>>, n, v, lost')
      BY <2>1, <2>3, <3>1, FollowsAbsent
    <3>4. <<>> \in Seq(Signal)
      OBVIOUS
    <3> QED BY <3>2, <3>3, <3>4
  <2> QED BY <2>2, <2>3
<1>10. ConfTypeOK'
  <2>1. changes' \in [Clients -> Seq(Signal)]
    BY <1>8, <1>9
  <2> QED BY <1>7, <2>1 DEF ConfInv, ConfTypeOK
<1> QED BY <1>2, <1>3, <1>9, <1>10 DEF ConfInv

\* The service keeps its value and its number, or learns them from the file;
\* one of the clients is answered, or none.
LEMMA AnswerStep ==
  ASSUME ConfInv, conf' \in Service0, conf'.up, conf.version <= conf'.version,
         conf'.value = Unknown => conf'.version = 0,
         Target' = Target, changes' = changes, file' \in AnyValue, lost' = lost, steps' \in Nat,
         NEW p \in Clients, copies[p].running, NEW d \in Copy,
         d.running, d.registered, d.value = Target, d.version = conf'.version,
         copies' \in {copies, [copies EXCEPT ![p] = d]}
  PROVE  ConfInv'
<1>1. copies \in [Clients -> Copy]
  BY DEF ConfInv, ConfTypeOK
<1>2. copies' \in [Clients -> Copy]
  BY <1>1
<1>3. \A x \in Clients : copies'[x] = copies[x] \/ (x = p /\ copies'[x] = d)
  BY <1>1
<1>4. conf'.version \in Nat
  BY DEF Service0
<1>5. ASSUME NEW x \in Clients
      PROVE  Follows(copies'[x], changes[x], conf'.version, Target, lost)
  <2>1. /\ copies[x] \in Copy /\ changes[x] \in Seq(Signal) /\ conf.version \in Nat
        /\ Follows(copies[x], changes[x], conf.version, Target, lost)
    BY ClientForm
  <2>2. Follows(copies[x], changes[x], conf'.version, Target, lost)
    BY <1>4, <2>1, StillFollows
  <2>3. CASE x = p /\ copies'[x] = d
    BY <1>4, <2>1, <2>2, <2>3, FollowsAnswer
  <2> QED BY <1>3, <2>2, <2>3
<1>6. ConfTypeOK'
  BY <1>2 DEF ConfInv, ConfTypeOK
<1> QED BY <1>5, <1>6 DEF ConfInv

\* The bus starts the service when it does not run.
LEMMA ServiceForm ==
  ASSUME ConfInv
  PROVE  /\ Service \in Service0 /\ Service.up /\ Service.version = conf.version
         /\ Service.value = conf.value
         /\ Service.value = Unknown => Service.version = 0
         /\ Service.value # Unknown => Service = conf
<1>1. CASE conf.up
  BY <1>1 DEF Service, ConfInv, ConfTypeOK
<1>2. CASE ~conf.up
  <2>1. conf = Dead /\ Service = Fresh
    BY <1>2 DEF Service, ConfInv
  <2> QED BY <2>1 DEF Dead, Fresh, Service0, AnyValue
<1> QED BY <1>1, <1>2

\* What conf_get answers is the value that everybody should have.
LEMMA LoadedForm ==
  ASSUME ConfInv
  PROVE  LET c == Fetched(Service)
         IN  /\ c \in Service0 /\ c.up /\ conf.version <= c.version /\ c.value = Target
             /\ c.value = Unknown => c.version = 0 /\ file = Unknown
<1>1. /\ Service \in Service0 /\ Service.up /\ Service.version = conf.version
      /\ Service.value = conf.value
      /\ Service.value = Unknown => Service.version = 0
  BY ServiceForm
<1>2. conf.version \in Nat /\ file \in AnyValue
  BY DEF ConfInv, ConfTypeOK, Service0
<1>3. CASE Service.value = Unknown /\ file # Unknown
  <2>1. Fetched(Service) = [Service EXCEPT !.value = file, !.version = 1, !.stored = FALSE]
    BY <1>3 DEF Fetched
  <2>2. /\ Fetched(Service) \in Service0 /\ Fetched(Service).up
        /\ Fetched(Service).value = file /\ Fetched(Service).version = 1
    <3>1. \A m \in Service0 :
            LET x == [m EXCEPT !.value = file, !.version = 1, !.stored = FALSE]
            IN  x \in Service0 /\ x.up = m.up /\ x.value = file /\ x.version = 1
      BY <1>2 DEF Service0
    <3> QED BY <1>1, <2>1, <3>1, Zenon
  <2>3. Target = file
    BY <1>1, <1>3 DEF Target
  <2>4. conf.version <= 1
    BY <1>1, <1>3
  <2> QED BY <1>3, <2>2, <2>3, <2>4
<1>4. CASE ~(Service.value = Unknown /\ file # Unknown)
  <2>1. Fetched(Service) = Service
    BY <1>4 DEF Fetched
  <2> QED BY <1>1, <1>2, <1>4, <2>1 DEF Target
<1> QED BY <1>3, <1>4

\* A registration keeps ConfInv.
LEMMA RegistersStep ==
  ASSUME ConfInv, NEW p \in Clients, Registers(p)
  PROVE  ConfInv'
<1> DEFINE c == Fetched(Service)
           d == [copies[p] EXCEPT !.registered = TRUE, !.answered = TRUE,
                                  !.value = c.value, !.version = c.version]
<1>1. /\ conf' = c /\ copies[p].running /\ UNCHANGED <<file, changes, lost, steps>>
      /\ copies' = [copies EXCEPT ![p].registered = TRUE, ![p].answered = TRUE,
                                  ![p].value = c.value, ![p].version = c.version]
  BY DEF Registers
<1>2. /\ c \in Service0 /\ c.up /\ conf.version <= c.version /\ c.value = Target
      /\ c.value = Unknown => c.version = 0 /\ file = Unknown
  BY LoadedForm
<1>3. c.value \in AnyValue /\ c.version \in Nat
  BY <1>2 DEF Service0
<1> HIDE DEF c
<1>4. copies \in [Clients -> Copy] /\ copies[p] \in Copy
  BY DEF ConfInv, ConfTypeOK
<1>5. d \in Copy /\ d.running /\ d.registered /\ d.value = Target /\ d.version = c.version
  BY <1>1, <1>2, <1>3, <1>4 DEF Copy
<1>6. copies' = [copies EXCEPT ![p] = d]
  BY <1>1, <1>4
<1> HIDE DEF d
<1>7. Target' = Target
  BY <1>1, <1>2 DEF Target
<1>8. file' \in AnyValue /\ steps' \in Nat /\ lost' = lost /\ changes' = changes
  BY <1>1 DEF ConfInv, ConfTypeOK
<1> QED BY <1>1, <1>2, <1>5, <1>6, <1>7, <1>8, AnswerStep

\* How the call to set ends: the service lives, and the caller may have been
\* answered, or it dies with what it was told.
LEMMA SetsForm ==
  ASSUME ConfInv, NEW p \in Clients, NEW v \in Values, Sets(p, v)
  PROVE  /\ steps' \in Nat /\ copies[p].registered /\ file' \in AnyValue
         /\ \/ /\ conf' \in {Assigned(Service, v), [Assigned(Service, v) EXCEPT !.stored = TRUE]}
               /\ changes' = Sent(Tells(Service, v))
               /\ lost' \in BOOLEAN /\ (Service.value = v => lost' = lost)
               /\ copies' \in {copies, [copies EXCEPT ![p].value = v,
                                                  ![p].version = Assigned(Service, v).version]}
            \/ /\ conf' = Dead /\ lost' = TRUE /\ copies' = copies
               /\ \E x \in {<<>>, Tells(Service, v)} : changes' = Sent(Append(x, Died))
<1> DEFINE c == Service
           n == Assigned(c, v)
<1>1. /\ steps' = steps + 1 /\ copies[p].registered
      /\ steps \in Nat /\ file \in AnyValue /\ lost \in BOOLEAN /\ v \in AnyValue /\ Empty \in AnyValue
  BY DEF Sets, Counted, ConfInv, ConfTypeOK, AnyValue
<1>2. Replied(p, v, n.version) \in {copies, [copies EXCEPT ![p].value = v, ![p].version = n.version]}
  BY DEF Replied
<1>3. \A end : FileAfter(end, v) \subseteq AnyValue \/ end \notin Ending
  BY <1>1 DEF FileAfter, Ending
<1>4. PICK end \in EndsOf(c, v) :
          \/ /\ end = "none" /\ conf' = n /\ UNCHANGED <<file, lost>>
             /\ copies' = Replied(p, v, n.version) /\ changes' = Sent(Tells(c, v))
          \/ /\ end = "stored" /\ conf' = [n EXCEPT !.stored = TRUE]
             /\ file' \in FileAfter(end, v) /\ lost' = (lost /\ c.value = v)
             /\ copies' = Replied(p, v, n.version) /\ changes' = Sent(Tells(c, v))
          \/ /\ end \in {"refused", "torn"} /\ conf' = n
             /\ file' \in FileAfter(end, v) /\ lost' = (lost /\ c.value = v)
             /\ changes' = Sent(Tells(c, v)) /\ UNCHANGED copies
          \/ /\ end = "dies" /\ conf' = Dead
             /\ file' \in FileAfter(end, v)
             /\ \E t \in {<<>>, Tells(c, v)} : changes' = Sent(Append(t, Died))
             /\ lost' = TRUE /\ UNCHANGED copies
  BY DEF Sets
<1> HIDE DEF c, n
<1>5. file' \in AnyValue
  BY <1>1, <1>3, <1>4 DEF Ending
<1>6. lost' = (lost /\ c.value = v) => lost' \in BOOLEAN /\ (c.value = v => lost' = lost)
  BY <1>1, Zenon
<1>7. CASE end = "dies"
  <2>1. /\ conf' = Dead /\ lost' = TRUE /\ UNCHANGED copies
        /\ \E t \in {<<>>, Tells(c, v)} : changes' = Sent(Append(t, Died))
    BY <1>4, <1>7
  <2>2. copies' = copies
    BY <2>1
  <2>3. steps' \in Nat
    BY <1>1
  <2> QED BY <1>1, <1>5, <2>1, <2>2, <2>3, Zenon DEF c
<1>8. CASE end # "dies"
  <2>1. /\ conf' \in {n, [n EXCEPT !.stored = TRUE]} /\ changes' = Sent(Tells(c, v))
        /\ copies' \in {copies, [copies EXCEPT ![p].value = v, ![p].version = n.version]}
    BY <1>2, <1>4, <1>8
  <2>2. lost' \in BOOLEAN /\ (c.value = v => lost' = lost)
    <3>1. lost' = lost \/ lost' = (lost /\ c.value = v)
      BY <1>4, <1>8, Zenon
    <3> QED BY <1>1, <1>6, <3>1, Zenon
  <2> QED BY <1>1, <1>5, <2>1, <2>2 DEF c, n
<1> QED BY <1>7, <1>8

\* A call that sets the value keeps ConfInv, however storing it ends.
LEMMA SetsStep ==
  ASSUME ConfInv, NEW p \in Clients, NEW v \in Values, Sets(p, v)
  PROVE  ConfInv'
<1> DEFINE c == Service
           n == Assigned(c, v)
<1>1. /\ steps' \in Nat /\ copies[p].registered /\ file' \in AnyValue
      /\ copies \in [Clients -> Copy] /\ conf.version \in Nat
  BY SetsForm DEF ConfInv, ConfTypeOK, Service0
<1>2. v # Unknown /\ v \in AnyValue
  BY ConfigurationAssumption DEF AnyValue
<1>3. /\ c \in Service0 /\ c.up /\ c.version = conf.version /\ c.value = conf.value
      /\ c.value # Unknown => c = conf
  BY ServiceForm
<1>4. copies[p].running
  BY <1>1, ClientForm
<1>5. Changed(v, conf.version + 1) \in Signal /\ Change(Changed(v, conf.version + 1))
      /\ conf.version < Changed(v, conf.version + 1).version
  BY <1>1, <1>2 DEF Changed, Signal, Change
<1>6. /\ c.value = v => n = c /\ Tells(c, v) = <<>>
      /\ c.value # v => /\ n = [c EXCEPT !.value = v, !.version = @ + 1, !.stored = FALSE]
                        /\ Tells(c, v) = <<Changed(v, n.version)>>
  BY DEF Assigned, Tells
<1> HIDE DEF c
<1>7. c.value # v => n \in Service0 /\ n.up /\ n.value = v /\ n.version = conf.version + 1
  <2>1. \A m \in Service0, k \in Nat :
          LET x == [m EXCEPT !.value = v, !.version = k, !.stored = FALSE]
          IN  x \in Service0 /\ x.up = m.up /\ x.value = v /\ x.version = k
    BY <1>2 DEF Service0
  <2>2. conf.version + 1 \in Nat
    BY <1>1
  <2> DEFINE x == [c EXCEPT !.value = v, !.version = conf.version + 1, !.stored = FALSE]
  <2>3. x \in Service0 /\ x.up = c.up /\ x.value = v /\ x.version = conf.version + 1
    BY <1>3, <2>1, <2>2
  <2>4. c.value # v => n = x
    BY <1>3, <1>6
  <2> HIDE DEF x
  <2> QED BY <1>3, <2>3, <2>4
<1>8. \A m \in Service0 : LET s == [m EXCEPT !.stored = TRUE]
                          IN  s \in Service0 /\ s.up = m.up /\ s.value = m.value /\ s.version = m.version
  BY DEF Service0
<1> HIDE DEF n
<1>9. CASE /\ conf' \in {n, [n EXCEPT !.stored = TRUE]}
           /\ changes' = Sent(Tells(c, v))
           /\ lost' \in BOOLEAN /\ (c.value = v => lost' = lost)
           /\ copies' \in {copies, [copies EXCEPT ![p].value = v, ![p].version = n.version]}
  <2>1. CASE c.value # v
    <3>1. conf' \in Service0 /\ conf'.up /\ conf'.value = v /\ conf'.version = n.version
      BY <1>7, <1>8, <1>9, <2>1
    <3>2. n.version \in Nat /\ conf.version < n.version
      BY <1>1, <1>7, <2>1
    <3>3. changes' = Sent(<<Changed(v, n.version)>>)
      BY <1>6, <1>9, <2>1
    <3> QED BY <1>1, <1>9, <3>1, <3>2, <3>3, ChangeStep
  <2>2. CASE c.value = v
    <3>1. n = conf /\ c = conf /\ conf.value = v /\ conf.up /\ conf \in Service0
      BY <1>2, <1>3, <1>6, <2>2
    <3>2. conf' \in Service0 /\ conf'.up /\ conf'.value = v /\ conf'.version = conf.version
      BY <1>8, <1>9, <3>1
    <3>3. Target = v /\ Target' = v
      BY <1>2, <3>1, <3>2 DEF Target
    <3>4. changes' = changes /\ lost' = lost
      BY <1>6, <1>9, <2>2, SentForm
    <3> DEFINE d == [copies[p] EXCEPT !.value = v, !.version = conf.version]
    <3>5. copies' \in {copies, [copies EXCEPT ![p] = d]}
      BY <1>1, <1>9, <3>1
    <3>6. d \in Copy /\ d.running /\ d.registered /\ d.value = v /\ d.version = conf.version
      <4>1. copies[p] \in Copy
        BY <1>1
      <4> QED BY <1>1, <1>2, <1>4, <4>1 DEF Copy
    <3> HIDE DEF d
    <3>7. conf.version <= conf'.version
      BY <1>1, <3>2
    <3> QED BY <1>1, <1>2, <1>4, <3>2, <3>3, <3>4, <3>5, <3>6, <3>7, AnswerStep
  <2> QED BY <2>1, <2>2
<1>10. CASE /\ conf' = Dead /\ lost' = TRUE /\ copies' = copies
            /\ \E x \in {<<>>, Tells(c, v)} : changes' = Sent(Append(x, Died))
  <2> DEFINE s == Changed(v, conf.version + 1)
  <2>1. s \in Signal /\ Change(s) /\ conf.version < s.version
    BY <1>5
  <2>2. Tells(c, v) \in {<<>>, <<s>>}
    BY <1>6, <1>7
  <2> HIDE DEF s
  <2>3. Append(<<>>, Died) = <<Died>>
    OBVIOUS
  <2>4. Append(<<s>>, Died) = <<s, Died>>
    <3>1. Died \in Signal
      BY DEF Died, Signal, AnyValue
    <3>2. <<s>> \in Seq(Signal) /\ <<s, Died>> \in Seq(Signal)
      BY <2>1, <3>1
    <3>3. Append(<<s>>, Died) \in Seq(Signal) /\ Len(Append(<<s>>, Died)) = 2
      BY <3>1, <3>2, AppendFacts
    <3>4. Append(<<s>>, Died)[1] = s /\ Append(<<s>>, Died)[2] = Died
      BY <3>1, <3>2, AppendFacts
    <3>5. Len(<<s, Died>>) = 2 /\ <<s, Died>>[1] = s /\ <<s, Died>>[2] = Died
      OBVIOUS
    <3> DEFINE a == Append(<<s>>, Died)
               b == <<s, Died>>
    <3>6. a \in Seq(Signal) /\ b \in Seq(Signal) /\ Len(a) = 2 /\ Len(b) = 2 /\ a[1] = b[1] /\ a[2] = b[2]
      BY <3>2, <3>3, <3>4, <3>5
    <3> HIDE DEF a, b
    <3>7. Len(a) = Len(b) /\ \A i \in 1..Len(a) : a[i] = b[i]
      BY <3>6
    <3>8. a = b
      BY <3>6, <3>7, SeqEqual
    <3> QED BY <3>8 DEF a, b
  <2>5. changes' = Sent(<<Died>>) \/ changes' = Sent(<<s, Died>>)
    BY <1>10, <2>2, <2>3, <2>4, Zenon
  <2>6. lost' \in BOOLEAN /\ lost'
    BY <1>10
  <2> QED BY <1>1, <1>10, <2>1, <2>5, <2>6, DeathStep, Zenon
<1> QED BY <1>9, <1>10, SetsForm DEF c, n

\* A step of one client that does not concern the service.
LEMMA ClientStep ==
  ASSUME ConfInv, NEW p \in Clients, UNCHANGED <<conf, file, lost>>, steps' \in Nat,
         NEW d \in Copy, NEW q \in Seq(Signal),
         copies' = [copies EXCEPT ![p] = d], changes' = [changes EXCEPT ![p] = q],
         Follows(d, q, conf.version, Target, lost)
  PROVE  ConfInv'
<1>1. copies \in [Clients -> Copy] /\ changes \in [Clients -> Seq(Signal)]
  BY DEF ConfInv, ConfTypeOK
<1>2. ConfTypeOK'
  BY <1>1 DEF ConfInv, ConfTypeOK
<1>3. Target' = Target
  BY DEF Target
<1>4. ASSUME NEW x \in Clients PROVE Follows(copies'[x], changes'[x], conf.version, Target, lost)
  <2>1. CASE x = p
    BY <1>1, <2>1
  <2>2. CASE x # p
    <3>1. copies'[x] = copies[x] /\ changes'[x] = changes[x]
      BY <1>1, <2>2
    <3> QED BY <3>1 DEF ConfInv
  <2> QED BY <2>1, <2>2
<1> QED BY <1>2, <1>3, <1>4 DEF ConfInv

\* What concerns one client only keeps ConfInv.
LEMMA AloneStep ==
  ASSUME ConfInv, NEW p \in Clients, Starts(p) \/ Leaves(p) \/ RegistersAlone(p) \/ Hears(p)
  PROVE  ConfInv'
<1>1. /\ copies \in [Clients -> Copy] /\ changes \in [Clients -> Seq(Signal)]
      /\ copies[p] \in Copy /\ changes[p] \in Seq(Signal) /\ conf.version \in Nat
      /\ Follows(copies[p], changes[p], conf.version, Target, lost)
      /\ steps \in Nat
  BY ClientForm DEF ConfInv, ConfTypeOK
<1>2. CASE Starts(p)
  <2> DEFINE d == [copies[p] EXCEPT !.running = TRUE]
  <2>1. d \in Copy /\ d.running /\ d.registered = copies[p].registered
        /\ d.answered = copies[p].answered /\ d.version = copies[p].version
    BY <1>1 DEF Copy
  <2>2. copies' = [copies EXCEPT ![p] = d] /\ changes' = [changes EXCEPT ![p] = changes[p]]
    BY <1>1, <1>2 DEF Starts
  <2>3. steps' \in Nat /\ UNCHANGED <<conf, file, lost>> /\ ~copies[p].running
    BY <1>1, <1>2 DEF Starts, Counted
  <2> HIDE DEF d
  <2>4. ~copies[p].answered
    BY <2>3, ClientForm
  <2>5. Follows(d, changes[p], conf.version, Target, lost)
    BY <1>1, <2>1, <2>3, <2>4 DEF Follows
  <2> QED BY <1>1, <2>1, <2>2, <2>3, <2>5, ClientStep
<1>3. CASE Leaves(p)
  <2>1. /\ NotRunning \in Copy /\ ~NotRunning.running /\ NotRunning.version = 0
        /\ ~NotRunning.answered /\ ~NotRunning.registered
    BY DEF NotRunning, Copy, AnyValue
  <2>2. copies' = [copies EXCEPT ![p] = NotRunning] /\ changes' = [changes EXCEPT ![p] = <<>>]
    BY <1>3 DEF Leaves
  <2>3. steps' \in Nat /\ UNCHANGED <<conf, file, lost>>
    BY <1>1, <1>3 DEF Leaves, Counted
  <2>4. Follows(NotRunning, <<>>, conf.version, Target, lost)
    BY <1>1, <2>1, FollowsAbsent
  <2>5. <<>> \in Seq(Signal)
    OBVIOUS
  <2> QED BY <2>1, <2>2, <2>3, <2>4, <2>5, ClientStep
<1>4. CASE RegistersAlone(p)
  <2> DEFINE d == [copies[p] EXCEPT !.registered = TRUE]
  <2>1. d \in Copy /\ d.registered /\ d.running = copies[p].running
        /\ d.answered = copies[p].answered /\ d.version = copies[p].version
    BY <1>1 DEF Copy
  <2>2. copies' = [copies EXCEPT ![p] = d] /\ changes' = [changes EXCEPT ![p] = changes[p]]
    BY <1>1, <1>4 DEF RegistersAlone
  <2>3. /\ steps' \in Nat /\ UNCHANGED <<conf, file, lost>>
        /\ copies[p].running /\ ~copies[p].registered
    BY <1>1, <1>4 DEF RegistersAlone, Counted
  <2> HIDE DEF d
  <2>4. ~copies[p].answered
    BY <1>1, <2>3 DEF Follows
  <2>5. Follows(d, changes[p], conf.version, Target, lost)
    BY <1>1, <2>1, <2>3, <2>4 DEF Follows
  <2> QED BY <1>1, <2>1, <2>2, <2>3, <2>5, ClientStep
<1>5. CASE Hears(p)
  <2> DEFINE d == Heard(copies[p], Head(changes[p]))
             q == Tail(changes[p])
  <2>1. copies' = [copies EXCEPT ![p] = d] /\ changes' = [changes EXCEPT ![p] = q]
    BY <1>1, <1>5 DEF Hears
  <2>2. steps' \in Nat /\ UNCHANGED <<conf, file, lost>> /\ changes[p] # <<>>
    BY <1>1, <1>5 DEF Hears
  <2>3. d \in Copy /\ Follows(d, q, conf.version, Target, lost)
    BY <1>1, <2>2, FollowsHeard
  <2>4. q \in Seq(Signal)
    BY <1>1, <2>2, TailFacts
  <2> HIDE DEF d, q
  <2> QED BY <2>1, <2>2, <2>3, <2>4, ClientStep
<1> QED BY <1>2, <1>3, <1>4, <1>5

\* The death of the service keeps ConfInv.
LEMMA DiesStep ==
  ASSUME ConfInv, Dies
  PROVE  ConfInv'
<1>1. /\ conf' = Dead /\ changes' = Sent(<<Died>>) /\ copies' = copies /\ file' = file
      /\ lost' = (lost \/ conf.value \notin {Unknown, file}) /\ steps' = steps + 1
  BY DEF Dies, Counted
<1>2. file \in AnyValue /\ steps \in Nat /\ lost \in BOOLEAN /\ conf.version \in Nat
  BY DEF ConfInv, ConfTypeOK, Service0
<1>3. lost' \in BOOLEAN /\ (~lost' => ~lost /\ conf.value \in {Unknown, file})
  BY <1>1, <1>2, Zenon
<1>4. ~lost' => ~lost /\ file' = Target
  BY <1>1, <1>3 DEF Target
<1> DEFINE s == Changed(Unknown, conf.version + 1)
<1>5. s \in Signal /\ Change(s) /\ conf.version < s.version
  BY <1>2 DEF Changed, Signal, Change, AnyValue
<1> HIDE DEF s
<1>6. file' \in AnyValue /\ steps' \in Nat
  BY <1>1, <1>2
<1> QED BY <1>1, <1>3, <1>4, <1>5, <1>6, DeathStep, Zenon

-----------------------------------------------------------------------------
\* ConfInv holds when nothing is started.
LEMMA InitConfInv == InitConf => ConfInv
<1> SUFFICES ASSUME InitConf PROVE ConfInv
  OBVIOUS
<1>1. Dead \in Service0 /\ Dead.version = 0 /\ Dead.value = Unknown
  BY DEF Dead, Fresh, Service0, AnyValue
<1>2. /\ NotRunning \in Copy /\ ~NotRunning.running /\ NotRunning.version = 0
      /\ ~NotRunning.answered /\ ~NotRunning.registered
  BY DEF NotRunning, Copy, AnyValue
<1>3. <<>> \in Seq(Signal)
  OBVIOUS
<1>4. ConfTypeOK
  BY <1>1, <1>2, <1>3 DEF InitConf, ConfTypeOK, AnyValue
<1>5. \A p \in Clients : Follows(copies[p], changes[p], conf.version, Target, lost)
  BY <1>1, <1>2, FollowsAbsent DEF InitConf
<1> QED BY <1>1, <1>4, <1>5 DEF InitConf, ConfInv

\* Every step keeps ConfInv.
LEMMA NextConfInv == ConfInv /\ [NextConf]_confVars => ConfInv'
<1> SUFFICES ASSUME ConfInv, [NextConf]_confVars PROVE ConfInv'
  OBVIOUS
<1>1. CASE Dies
  BY <1>1, DiesStep
<1>2. ASSUME NEW p \in Clients, Registers(p) PROVE ConfInv'
  BY <1>2, RegistersStep
<1>3. ASSUME NEW p \in Clients, Starts(p) \/ Leaves(p) \/ RegistersAlone(p) \/ Hears(p) PROVE ConfInv'
  BY <1>3, AloneStep
<1>4. ASSUME NEW p \in Clients, NEW v \in Values, Sets(p, v) PROVE ConfInv'
  BY <1>4, SetsStep
<1>5. CASE UNCHANGED confVars
  BY <1>5 DEF confVars, ConfInv, ConfTypeOK, Target
<1> QED BY <1>1, <1>2, <1>3, <1>4, <1>5 DEF NextConf

\* The inductive invariant holds in every reachable state.
THEOREM ConfInvariance == SpecConf => []ConfInv
<1>1. InitConf => ConfInv
  BY InitConfInv
<1>2. ConfInv /\ [NextConf]_confVars => ConfInv'
  BY NextConfInv
<1> QED BY <1>1, <1>2, PTL DEF SpecConf

\* A client that was answered and has heard everything has the value of the
\* service, or the stored one, unless a value died with the service.
THEOREM ConfAgreesTheorem == SpecConf => []ConfAgrees
<1>1. ConfInv => ConfAgrees
  <2> SUFFICES ASSUME ConfInv, NEW p \in Clients,
                      copies[p].answered, changes[p] = <<>>, ~lost
               PROVE  copies[p].value = Target
    BY DEF ConfAgrees, Target
  <2>1. Follows(copies[p], changes[p], conf.version, Target, lost)
    BY ClientForm
  <2>2. Settled(changes[p], copies[p].version)
    BY DEF Settled
  <2> QED BY <2>1, <2>2 DEF Follows
<1> QED BY <1>1, ConfInvariance, PTL
=============================================================================
