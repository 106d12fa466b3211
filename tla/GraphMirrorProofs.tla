------------------------- MODULE GraphMirrorProofs --------------------------
(***************************************************************************)
(* Proofs about GraphMirror for graphs of any size and any number of       *)
(* operations, views, lost answers and signals on their way, as long as no *)
(* client is joined to one that was hidden meanwhile (StaleIds = FALSE).   *)
(*                                                                         *)
(* What the canvas shows says nothing about the graph while signals are on *)
(* their way.  The invariant is about all that a watcher has yet to hear:  *)
(* from some point on (At) the signals on the bus, and behind them those   *)
(* the operation that runs has emitted so far, lead through views (Walk),  *)
(* each of which fits the next signal, to one that shows the graph; their  *)
(* versions rise (Ordered), and what the watcher shows is the part of the  *)
(* view at that point that belongs to the clients it knows (Restricts).    *)
(* Signals before that point have versions the watcher will not take for   *)
(* news, those behind it versions it will.  The exception is the removal   *)
(* of a port, which has no version of its own (Farewell): it may be taken  *)
(* for old news, and the canvas shows a port that will not come back.      *)
(*                                                                         *)
(* A watcher is the proxy as it is, or as it will be with the answer that  *)
(* is on its way.  Every operation is a sequence of small changes with at  *)
(* most one signal each; each of them keeps Good for every watcher, and    *)
(* lists are gone through by induction (FoldFacts).                        *)
(***************************************************************************)
EXTENDS GraphMirror, FiniteSetTheorems, SequenceTheorems, TLAPS

-----------------------------------------------------------------------------
(***************************************************************************)
(* Lists.  The members of a list are found by induction over it.           *)
(***************************************************************************)

Numbers == \A T \in SUBSET Nat : T # {} => \E n \in T : \A m \in T : n <= m

\* A set of numbers that is not empty has a least element.
LEMMA LeastNumber == Numbers
<1> SUFFICES ASSUME NEW T \in SUBSET Nat, T # {} PROVE \E n \in T : \A m \in T : n <= m BY DEF Numbers
<1>1. PICK n \in T : \A m \in T : <<m, n>> \notin OpToRel(<, Nat)
  BY NatLessThanWellFounded, WFMin, Zenon
<1>2. \A m \in Nat, k \in Nat : m < k => <<m, k>> \in OpToRel(<, Nat) BY Zenon DEF OpToRel
<1>3. ASSUME NEW m \in T PROVE n <= m
  <2>1. m \in Nat /\ n \in Nat OBVIOUS
  <2>2. ~(m < n) BY <1>1, <1>2, <2>1, Zenon
  <2> QED BY <2>1, <2>2
<1> QED BY <1>3

OpMembers(c, acc, x) == IF x \in c THEN Append(acc, x) ELSE acc

\* What is known of the members among the first i elements.
MembersUpTo(c, acc, list, i) ==
  /\ acc \in Seq(Elements(list))
  /\ \A x : (\E k \in 1..Len(acc) : acc[k] = x) <=> (x \in c /\ \E k \in 1..i : list[k] = x)
  /\ IsInjective(list) => IsInjective(acc)

MembersFold == INSTANCE FoldFacts WITH Op <- OpMembers, Inv <- MembersUpTo

\* One element further the members are still those of the part gone through.
LEMMA MembersStep ==
  ASSUME NEW R, NEW list \in Seq(R), NEW S, NEW a, NEW i \in 1..Len(list), MembersUpTo(S, a, list, i - 1)
  PROVE  MembersUpTo(S, OpMembers(S, a, list[i]), list, i)
<1> DEFINE x == list[i]
           E == Elements(list)
<1>1. Len(list) \in Nat /\ DOMAIN list = 1..Len(list) OBVIOUS
<1>5. i \in DOMAIN list /\ x \in E BY <1>1 DEF Elements
<1>2. a \in Seq(E) /\ Len(a) \in Nat /\ DOMAIN a = 1..Len(a) BY DEF MembersUpTo
<1>3. i \in Nat /\ i \in 1..i /\ \A k \in 1..i : k \in 1..(i-1) \/ k = i BY <1>1
<1>4. \A k \in 1..(i-1) : k \in 1..i /\ k \in DOMAIN list /\ k # i BY <1>1
<1> HIDE DEF E
<1>6. CASE x \notin S
  <2>1. OpMembers(S, a, x) = a BY <1>6 DEF OpMembers
  <2> QED BY <2>1, <1>3, <1>4, <1>6 DEF MembersUpTo
<1>7. CASE x \in S
  <2> DEFINE b == OpMembers(S, a, x)
  <2>1. b = Append(a, x) BY <1>7 DEF OpMembers
  <2>2. /\ b \in Seq(E) /\ Len(b) = Len(a) + 1 /\ b[Len(a) + 1] = x
        /\ \A k \in 1..Len(a) : b[k] = a[k]
    BY <1>5, <1>2, <2>1, AppendProperties
  <2>3. DOMAIN b = 1..(Len(a) + 1) BY <2>2
  <2> HIDE DEF b
  <2>4. \A k \in 1..Len(b) : k \in 1..Len(a) \/ k = Len(a) + 1 BY <1>2, <2>2
  <2>5. \A k \in 1..Len(a) : k \in 1..Len(b) BY <1>2, <2>2
  <2>6. Len(a) + 1 \in 1..Len(b) BY <1>2, <2>2
  <2>7. ASSUME NEW y
        PROVE  (\E k \in 1..Len(b) : b[k] = y) <=> (y \in S /\ \E k \in 1..i : list[k] = y)
    <3>1. (\E k \in 1..Len(b) : b[k] = y) <=> y = x \/ \E k \in 1..Len(a) : a[k] = y
      BY <2>2, <2>4, <2>5, <2>6, Zenon
    <3>2. (\E k \in 1..Len(a) : a[k] = y) <=> (y \in S /\ \E k \in 1..(i-1) : list[k] = y)
      BY Zenon DEF MembersUpTo
    <3>3. (\E k \in 1..i : list[k] = y) <=> y = x \/ \E k \in 1..(i-1) : list[k] = y
      BY <1>3, <1>4, Zenon
    <3> QED BY <3>1, <3>2, <3>3, <1>7
  <2>8. IsInjective(list) => IsInjective(b)
    <3> SUFFICES ASSUME IsInjective(list), NEW k \in DOMAIN b, NEW l \in DOMAIN b, b[k] = b[l]
                 PROVE  k = l
      BY DEF IsInjective
    <3>1. x \notin { a[m] : m \in 1..Len(a) }
      <4> SUFFICES ASSUME NEW m \in 1..Len(a), a[m] = x PROVE FALSE OBVIOUS
      <4>1. PICK n \in 1..(i-1) : list[n] = x BY Zenon DEF MembersUpTo
      <4> QED BY <4>1, <1>4, <1>5 DEF IsInjective
    <3>2. CASE k \in 1..Len(a) /\ l \in 1..Len(a)
      BY <3>2, <2>2, <1>2 DEF MembersUpTo, IsInjective
    <3>3. CASE k = Len(a) + 1 /\ l \in 1..Len(a) BY <3>1, <3>3, <2>2
    <3>4. CASE l = Len(a) + 1 /\ k \in 1..Len(a) BY <3>1, <3>4, <2>2
    <3> QED BY <3>2, <3>3, <3>4, <2>3, <1>2
  <2> QED BY <2>2, <2>7, <2>8 DEF MembersUpTo, b, E
<1> QED BY <1>6, <1>7

\* Select returns the elements that are in the set, none twice if the list has none twice.
LEMMA MembersFacts ==
  ASSUME NEW R, NEW list \in Seq(R), NEW S
  PROVE  /\ Members(list, S) \in Seq(R)
         /\ Elements(Members(list, S)) = Elements(list) \cap S
         /\ IsInjective(list) => IsInjective(Members(list, S))
<1> DEFINE r == Members(list, S)
           n == Len(list)
<1>1. r = MembersFold!Recursed(S, << >>, list)
  BY Zenon DEF Members, MembersFold!Recursed, OpMembers
<1> HIDE DEF r
<1>2. n \in Nat /\ DOMAIN list = 1..n OBVIOUS
<1>3. MembersUpTo(S, << >>, list, 0)
  <2>1. Len(<< >>) = 0 /\ DOMAIN << >> = {} /\ 1..0 = {} OBVIOUS
  <2>2. << >> \in Seq(Elements(list)) OBVIOUS
  <2> QED BY <2>1, <2>2 DEF MembersUpTo, IsInjective
<1>4. MembersFold!Kept(S, list) BY MembersStep DEF MembersFold!Kept
<1>n. MembersFold!LeastNumbers BY LeastNumber DEF Numbers, MembersFold!LeastNumbers
<1>5. MembersUpTo(S, r, list, n) BY <1>1, <1>3, <1>4, <1>n, MembersFold!RecursionKeeps
<1>6. r \in Seq(Elements(list)) /\ DOMAIN r = 1..Len(r) BY <1>5 DEF MembersUpTo
<1>7. r \in Seq(R)
  <2>1. \A x \in Elements(list) : x \in R BY DEF Elements
  <2> QED BY <1>6, <2>1
<1>8. Elements(r) = Elements(list) \cap S
  <2> SUFFICES ASSUME NEW x PROVE x \in Elements(r) <=> x \in Elements(list) /\ x \in S OBVIOUS
  <2>1. (\E k \in 1..Len(r) : r[k] = x) <=> (x \in S /\ \E k \in 1..n : list[k] = x)
    BY <1>5, Zenon DEF MembersUpTo
  <2> QED BY <2>1, <1>2, <1>6 DEF Elements
<1> QED BY <1>5, <1>7, <1>8 DEF MembersUpTo, r

-----------------------------------------------------------------------------
(***************************************************************************)
(* Records, and what a signal does to a canvas that shows what it is       *)
(* about.                                                                  *)
(***************************************************************************)

ClientRecs == [id : Nat, hidden : BOOLEAN, name : Nat]
PortRecs == [id : Nat, client : Nat, hidden : BOOLEAN, name : Nat]
ConnRecs == [ends : SUBSET Nat, hidden : BOOLEAN]

Kinds ==
  { "ClientAppeared", "ClientRenamed", "ClientDisappeared", "PortAppeared", "PortRenamed",
    "PortDisappeared", "PortsConnected", "PortsDisconnected" }
SignalRecs ==
  [kind : Kinds \cup {"silent"}, version : Nat, client : Nat, port : Nat, name : Nat, ends : SUBSET Nat]

Graphs ==
  [ version : Nat, nextClient : Nat, nextPort : Nat,
    clients : Seq(ClientRecs), ports : Seq(PortRecs), conns : Seq(ConnRecs), sent : Seq(SignalRecs) ]

-----------------------------------------------------------------------------
\* What a canvas shows: clients with their names, ports with their clients, connections between them.
IsMap(f) == f = [x \in DOMAIN f |-> f[x]]
Shape(w) ==
  /\ w = [clients |-> w.clients, ports |-> w.ports, conns |-> w.conns]
  /\ IsMap(w.clients) /\ IsMap(w.ports)
GoodView(w) ==
  /\ Shape(w)
  /\ \A p \in DOMAIN w.ports : w.ports[p].client \in DOMAIN w.clients
  /\ \A e \in w.conns : e \subseteq DOMAIN w.ports

\* A signal that fits what is shown.
Legal(w, s) ==
  CASE s.kind = "ClientAppeared" -> s.client \notin DOMAIN w.clients
    [] s.kind = "ClientRenamed" -> s.client \in DOMAIN w.clients
    [] s.kind = "ClientDisappeared" -> s.client \in DOMAIN w.clients /\ \A p \in DOMAIN w.ports : w.ports[p].client # s.client
    [] s.kind = "PortAppeared" -> s.port \notin DOMAIN w.ports /\ s.client \in DOMAIN w.clients
    [] s.kind = "PortRenamed" -> s.port \in DOMAIN w.ports /\ w.ports[s.port].client = s.client
    [] s.kind = "PortDisappeared" ->
         /\ s.port \in DOMAIN w.ports /\ w.ports[s.port].client = s.client
         /\ \A e \in w.conns : s.port \notin e
    [] s.kind = "PortsConnected" -> s.ends \subseteq DOMAIN w.ports
    [] s.kind = "PortsDisconnected" -> TRUE
    [] OTHER -> FALSE

PutAt(f, h, x, y) ==
  DOMAIN h = DOMAIN f \cup {x} /\ h[x] = y /\ \A z \in DOMAIN f : z # x => h[z] = f[z]
DroppedFrom(f, h, S) == DOMAIN h = DOMAIN f \ S /\ \A z \in DOMAIN f : z \notin S => h[z] = f[z]

\* Put changes one entry of a map.
LEMMA PutFacts ==
  ASSUME NEW f, NEW x, NEW y
  PROVE  PutAt(f, Put(f, x, y), x, y) /\ IsMap(Put(f, x, y))
BY DEF PutAt, Put, IsMap

\* Drop removes some.
LEMMA DropFacts ==
  ASSUME NEW f, NEW S
  PROVE  DroppedFrom(f, Drop(f, S), S) /\ IsMap(Drop(f, S))
BY DEF DroppedFrom, Drop, IsMap

\* What each signal does to a canvas.
LEMMA CanvasClientAppears ==
  ASSUME NEW w, Shape(w), NEW s, s.kind = "ClientAppeared"
  PROVE  /\ Shape(Canvas(w, s))
         /\ Canvas(w, s).ports = w.ports
         /\ Canvas(w, s).conns = w.conns
         /\ PutAt(w.clients, Canvas(w, s).clients, s.client, s.name)
BY PutFacts, DropFacts DEF Canvas, CanvasAddsClient, Shape

\* A client is renamed if it is known.
LEMMA CanvasClientRenamed ==
  ASSUME NEW w, Shape(w), NEW s, s.kind = "ClientRenamed"
  PROVE  /\ Shape(Canvas(w, s))
         /\ Canvas(w, s).ports = w.ports
         /\ Canvas(w, s).conns = w.conns
         /\ s.client \in DOMAIN w.clients => PutAt(w.clients, Canvas(w, s).clients, s.client, s.name)
         /\ s.client \notin DOMAIN w.clients => Canvas(w, s).clients = w.clients
BY PutFacts, DropFacts DEF Canvas, CanvasRenamesClient, CanvasAddsClient, KnownClient, Shape

\* A client goes with its ports and their connections.
LEMMA CanvasClientDisappears ==
  ASSUME NEW w, Shape(w), NEW s, s.kind = "ClientDisappeared"
  PROVE  /\ Shape(Canvas(w, s))
         /\ DroppedFrom(w.clients, Canvas(w, s).clients, {s.client})
         /\ DroppedFrom(w.ports, Canvas(w, s).ports, { p \in DOMAIN w.ports : w.ports[p].client = s.client })
         /\ Canvas(w, s).conns = Shown(Canvas(w, s).ports, w.conns)
BY PutFacts, DropFacts DEF Canvas, CanvasDropsClient, Keeping, Shape

\* A port of a known client is added.
LEMMA CanvasPortAppears ==
  ASSUME NEW w, Shape(w), NEW s, s.kind = "PortAppeared"
  PROVE  /\ Shape(Canvas(w, s))
         /\ Canvas(w, s).clients = w.clients
         /\ Canvas(w, s).conns = w.conns
         /\ s.client \in DOMAIN w.clients => PutAt(w.ports, Canvas(w, s).ports, s.port, [client |-> s.client, name |-> s.name])
         /\ s.client \notin DOMAIN w.clients => Canvas(w, s).ports = w.ports
BY PutFacts, DropFacts DEF Canvas, CanvasAddsPort, PutPort, KnownClient, Shape

\* A known port is renamed.
LEMMA CanvasPortRenamed ==
  ASSUME NEW w, Shape(w), NEW s, s.kind = "PortRenamed"
  PROVE  /\ Shape(Canvas(w, s))
         /\ Canvas(w, s).clients = w.clients
         /\ Canvas(w, s).conns = w.conns
         /\ KnownPort(w, s) => PutAt(w.ports, Canvas(w, s).ports, s.port, [client |-> s.client, name |-> s.name])
         /\ ~KnownPort(w, s) => Canvas(w, s).ports = w.ports
BY PutFacts, DropFacts DEF Canvas, CanvasRenamesPort, PutPort, Shape

\* A known port goes with its connections.
LEMMA CanvasPortDisappears ==
  ASSUME NEW w, Shape(w), NEW s, s.kind = "PortDisappeared"
  PROVE  /\ Shape(Canvas(w, s))
         /\ Canvas(w, s).clients = w.clients
         /\ KnownPort(w, s) => DroppedFrom(w.ports, Canvas(w, s).ports, {s.port})
         /\ KnownPort(w, s) => Canvas(w, s).conns = Shown(Canvas(w, s).ports, w.conns)
         /\ ~KnownPort(w, s) => Canvas(w, s).ports = w.ports
         /\ ~KnownPort(w, s) => Canvas(w, s).conns = w.conns
BY PutFacts, DropFacts DEF Canvas, CanvasDropsPort, Keeping, Shape

\* A connection is shown between known ports.
LEMMA CanvasConnected ==
  ASSUME NEW w, Shape(w), NEW s, s.kind = "PortsConnected"
  PROVE  /\ Shape(Canvas(w, s))
         /\ Canvas(w, s).clients = w.clients
         /\ Canvas(w, s).ports = w.ports
         /\ Canvas(w, s).conns = Shown(w.ports, w.conns \cup {s.ends})
BY PutFacts, DropFacts DEF Canvas, CanvasConnects, Shape

\* A connection is no longer shown.
LEMMA CanvasDisconnected ==
  ASSUME NEW w, Shape(w), NEW s, s.kind = "PortsDisconnected"
  PROVE  /\ Shape(Canvas(w, s))
         /\ Canvas(w, s).clients = w.clients
         /\ Canvas(w, s).ports = w.ports
         /\ Canvas(w, s).conns = w.conns \ {s.ends}
BY PutFacts, DropFacts DEF Canvas, CanvasDisconnects, Shape

\* A signal that fits a view is of one of the eight kinds.
LEMMA LegalKinds ==
  ASSUME NEW w, NEW s, Legal(w, s)
  PROVE  s.kind \in Kinds
BY DEF Legal, Kinds

-----------------------------------------------------------------------------

\* A signal that fits a view leads to one without dangling ports or connections.
LEMMA CanvasKeepsGood ==
  ASSUME NEW w, GoodView(w), NEW s, Legal(w, s)
  PROVE  GoodView(Canvas(w, s))
<1>0. Shape(w) BY DEF GoodView
<1>1. CASE s.kind = "ClientAppeared"
  BY <1>0, <1>1, CanvasClientAppears DEF GoodView, PutAt, DroppedFrom, Shown, Legal, KnownPort
<1>2. CASE s.kind = "ClientRenamed"
  BY <1>0, <1>2, CanvasClientRenamed DEF GoodView, PutAt, DroppedFrom, Shown, Legal, KnownPort
<1>3. CASE s.kind = "ClientDisappeared"
  BY <1>0, <1>3, CanvasClientDisappears DEF GoodView, PutAt, DroppedFrom, Shown, Legal, KnownPort
<1>4. CASE s.kind = "PortAppeared"
  <2>1. s.client \in DOMAIN w.clients BY <1>4 DEF Legal, KnownPort, GoodView
  <2> DEFINE v == Canvas(w, s)
  <2>2. /\ Shape(v) /\ v.clients = w.clients /\ v.conns = w.conns
        /\ PutAt(w.ports, v.ports, s.port, [client |-> s.client, name |-> s.name])
    BY <1>0, <1>4, <2>1, CanvasPortAppears
  <2> HIDE DEF v
  <2>3. \A p \in DOMAIN v.ports : v.ports[p].client \in DOMAIN v.clients
    BY <2>1, <2>2 DEF GoodView, PutAt
  <2>4. \A e \in v.conns : e \subseteq DOMAIN v.ports
    BY <2>2 DEF GoodView, PutAt
  <2> QED BY <2>2, <2>3, <2>4 DEF GoodView, v
<1>5. CASE s.kind = "PortRenamed"
  <2>1. KnownPort(w, s) /\ s.client \in DOMAIN w.clients BY <1>5 DEF Legal, KnownPort, GoodView
  <2> DEFINE v == Canvas(w, s)
  <2>2. /\ Shape(v) /\ v.clients = w.clients /\ v.conns = w.conns
        /\ PutAt(w.ports, v.ports, s.port, [client |-> s.client, name |-> s.name])
    BY <1>0, <1>5, <2>1, CanvasPortRenamed
  <2> HIDE DEF v
  <2>3. \A p \in DOMAIN v.ports : v.ports[p].client \in DOMAIN v.clients
    BY <2>1, <2>2 DEF GoodView, PutAt
  <2>4. \A e \in v.conns : e \subseteq DOMAIN v.ports
    BY <2>2 DEF GoodView, PutAt
  <2> QED BY <2>2, <2>3, <2>4 DEF GoodView, v
<1>6. CASE s.kind = "PortDisappeared"
  BY <1>0, <1>6, CanvasPortDisappears DEF GoodView, PutAt, DroppedFrom, Shown, Legal, KnownPort
<1>7. CASE s.kind = "PortsConnected"
  BY <1>0, <1>7, CanvasConnected DEF GoodView, PutAt, DroppedFrom, Shown, Legal, KnownPort
<1>8. CASE s.kind = "PortsDisconnected"
  BY <1>0, <1>8, CanvasDisconnected DEF GoodView, PutAt, DroppedFrom, Shown, Legal, KnownPort
<1> QED BY <1>1, <1>2, <1>3, <1>4, <1>5, <1>6, <1>7, <1>8, LegalKinds DEF Kinds

-----------------------------------------------------------------------------
(***************************************************************************)
(* A canvas that shows only some of the clients hears the same signal: it  *)
(* goes on showing the part of the view that belongs to them.              *)
(***************************************************************************)

\* m shows the part of w that belongs to the clients it knows, and ports in "gone" besides.
Restricts(m, w, gone) ==
  /\ Shape(m)
  /\ \A c \in DOMAIN m.clients : c \in DOMAIN w.clients /\ m.clients[c] = w.clients[c]
  /\ \A p \in DOMAIN w.ports :
       w.ports[p].client \in DOMAIN m.clients => p \in DOMAIN m.ports /\ m.ports[p] = w.ports[p]
  /\ \A p \in DOMAIN m.ports :
       /\ m.ports[p].client \in DOMAIN m.clients
       /\ p \in DOMAIN w.ports => m.ports[p] = w.ports[p]
       /\ p \notin DOMAIN w.ports => p \in gone
  /\ m.conns = Shown(m.ports, w.conns)

SameClients(m, w) == DOMAIN m.clients = DOMAIN w.clients

\* The canvas hears ClientAppeared.
LEMMA HearClientAppeared ==
  ASSUME NEW w, GoodView(w), NEW m, NEW gone, Restricts(m, w, gone),
         NEW s, s.kind = "ClientAppeared", Legal(w, s)
  PROVE  /\ Restricts(Canvas(m, s), Canvas(w, s), gone)
         /\ ~Misfits(m, s)
         /\ SameClients(m, w) => SameClients(Canvas(m, s), Canvas(w, s))
<1> DEFINE v == Canvas(w, s)
           n == Canvas(m, s)
<1>0. Shape(w) /\ Shape(m) BY DEF GoodView, Restricts
<1>1. Shape(v) /\ v.ports = w.ports /\ v.conns = w.conns /\ PutAt(w.clients, v.clients, s.client, s.name)
  BY <1>0, CanvasClientAppears
<1>2. Shape(n) /\ n.ports = m.ports /\ n.conns = m.conns /\ PutAt(m.clients, n.clients, s.client, s.name)
  BY <1>0, CanvasClientAppears
<1>3. s.client \notin DOMAIN w.clients /\ s.client \notin DOMAIN m.clients
  BY DEF Legal, Restricts
<1>4. ~Misfits(m, s) BY <1>3 DEF Misfits, KnownClient
<1> HIDE DEF v, n
<1>7. \A c \in DOMAIN n.clients : c \in DOMAIN v.clients /\ n.clients[c] = v.clients[c]
  BY <1>1, <1>2, <1>3 DEF PutAt, DroppedFrom, Restricts
<1>8. \A p \in DOMAIN v.ports :
       v.ports[p].client \in DOMAIN n.clients => p \in DOMAIN n.ports /\ n.ports[p] = v.ports[p]
  BY <1>1, <1>2, <1>3 DEF PutAt, DroppedFrom, Restricts, GoodView
<1>9. \A p \in DOMAIN n.ports : n.ports[p].client \in DOMAIN n.clients
  BY <1>1, <1>2, <1>3 DEF PutAt, DroppedFrom, Restricts
<1>10. \A p \in DOMAIN n.ports : p \in DOMAIN v.ports => n.ports[p] = v.ports[p]
  BY <1>1, <1>2, <1>3 DEF PutAt, DroppedFrom, Restricts
<1>11. \A p \in DOMAIN n.ports : p \notin DOMAIN v.ports => p \in gone
  BY <1>1, <1>2, <1>3 DEF PutAt, DroppedFrom, Restricts
<1>12. n.conns = Shown(n.ports, v.conns)
  BY <1>1, <1>2, <1>3 DEF PutAt, DroppedFrom, Restricts, Shown, GoodView
<1>13. SameClients(m, w) => SameClients(n, v)
  BY <1>1, <1>2, <1>3 DEF SameClients, PutAt, DroppedFrom
<1>14. Restricts(n, v, gone) BY <1>2, <1>7, <1>8, <1>9, <1>10, <1>11, <1>12 DEF Restricts
<1> QED BY <1>4, <1>13, <1>14 DEF v, n

\* The canvas hears ClientRenamed.
LEMMA HearClientRenamed ==
  ASSUME NEW w, GoodView(w), NEW m, NEW gone, Restricts(m, w, gone),
         NEW s, s.kind = "ClientRenamed", Legal(w, s)
  PROVE  /\ Restricts(Canvas(m, s), Canvas(w, s), gone)
         /\ ~Misfits(m, s)
         /\ SameClients(m, w) => SameClients(Canvas(m, s), Canvas(w, s))
<1> DEFINE v == Canvas(w, s)
           n == Canvas(m, s)
<1>0. Shape(w) /\ Shape(m) BY DEF GoodView, Restricts
<1>3. s.client \in DOMAIN w.clients BY DEF Legal
<1>4. ~Misfits(m, s) BY DEF Misfits
<1>1. Shape(v) /\ v.ports = w.ports /\ v.conns = w.conns /\ PutAt(w.clients, v.clients, s.client, s.name)
  BY <1>0, <1>3, CanvasClientRenamed
<1>2. /\ Shape(n) /\ n.ports = m.ports /\ n.conns = m.conns
      /\ \/ s.client \in DOMAIN m.clients /\ PutAt(m.clients, n.clients, s.client, s.name)
         \/ s.client \notin DOMAIN m.clients /\ n.clients = m.clients
  BY <1>0, CanvasClientRenamed
<1> HIDE DEF v, n
<1>7. \A c \in DOMAIN n.clients : c \in DOMAIN v.clients /\ n.clients[c] = v.clients[c]
  BY <1>1, <1>2, <1>3 DEF PutAt, DroppedFrom, Restricts
<1>8. \A p \in DOMAIN v.ports :
       v.ports[p].client \in DOMAIN n.clients => p \in DOMAIN n.ports /\ n.ports[p] = v.ports[p]
  BY <1>1, <1>2, <1>3 DEF PutAt, DroppedFrom, Restricts, GoodView
<1>9. \A p \in DOMAIN n.ports : n.ports[p].client \in DOMAIN n.clients
  BY <1>1, <1>2, <1>3 DEF PutAt, DroppedFrom, Restricts
<1>10. \A p \in DOMAIN n.ports : p \in DOMAIN v.ports => n.ports[p] = v.ports[p]
  BY <1>1, <1>2, <1>3 DEF PutAt, DroppedFrom, Restricts
<1>11. \A p \in DOMAIN n.ports : p \notin DOMAIN v.ports => p \in gone
  BY <1>1, <1>2, <1>3 DEF PutAt, DroppedFrom, Restricts
<1>12. n.conns = Shown(n.ports, v.conns)
  BY <1>1, <1>2, <1>3 DEF PutAt, DroppedFrom, Restricts, Shown, GoodView
<1>13. SameClients(m, w) => SameClients(n, v)
  BY <1>1, <1>2, <1>3 DEF SameClients, PutAt, DroppedFrom
<1>14. Restricts(n, v, gone) BY <1>2, <1>7, <1>8, <1>9, <1>10, <1>11, <1>12 DEF Restricts
<1> QED BY <1>4, <1>13, <1>14 DEF v, n

\* The canvas hears ClientDisappeared.
LEMMA HearClientDisappeared ==
  ASSUME NEW w, GoodView(w), NEW m, NEW gone, Restricts(m, w, gone),
         NEW s, s.kind = "ClientDisappeared", Legal(w, s)
  PROVE  /\ Restricts(Canvas(m, s), Canvas(w, s), gone)
         /\ ~Misfits(m, s)
         /\ SameClients(m, w) => SameClients(Canvas(m, s), Canvas(w, s))
<1> DEFINE v == Canvas(w, s)
           n == Canvas(m, s)
<1>0. Shape(w) /\ Shape(m) BY DEF GoodView, Restricts
<1> DEFINE T == { p \in DOMAIN m.ports : m.ports[p].client = s.client }
<1>3. s.client \in DOMAIN w.clients /\ \A p \in DOMAIN w.ports : w.ports[p].client # s.client
  BY DEF Legal
<1>4. ~Misfits(m, s) BY DEF Misfits
<1>5. { p \in DOMAIN w.ports : w.ports[p].client = s.client } = {} BY <1>3
<1>1. /\ Shape(v) /\ DroppedFrom(w.clients, v.clients, {s.client})
      /\ DroppedFrom(w.ports, v.ports, {}) /\ v.conns = Shown(v.ports, w.conns)
  BY <1>0, <1>5, CanvasClientDisappears
<1>2. /\ Shape(n) /\ DroppedFrom(m.clients, n.clients, {s.client})
      /\ DroppedFrom(m.ports, n.ports, T) /\ n.conns = Shown(n.ports, m.conns)
  BY <1>0, CanvasClientDisappears
<1> HIDE DEF v, n
<1>7. \A c \in DOMAIN n.clients : c \in DOMAIN v.clients /\ n.clients[c] = v.clients[c]
  BY <1>1, <1>2, <1>3 DEF PutAt, DroppedFrom, Restricts
<1>8. \A p \in DOMAIN v.ports :
       v.ports[p].client \in DOMAIN n.clients => p \in DOMAIN n.ports /\ n.ports[p] = v.ports[p]
  BY <1>1, <1>2, <1>3 DEF PutAt, DroppedFrom, Restricts, GoodView
<1>9. \A p \in DOMAIN n.ports : n.ports[p].client \in DOMAIN n.clients
  BY <1>1, <1>2, <1>3 DEF PutAt, DroppedFrom, Restricts
<1>10. \A p \in DOMAIN n.ports : p \in DOMAIN v.ports => n.ports[p] = v.ports[p]
  BY <1>1, <1>2, <1>3 DEF PutAt, DroppedFrom, Restricts
<1>11. \A p \in DOMAIN n.ports : p \notin DOMAIN v.ports => p \in gone
  BY <1>1, <1>2, <1>3 DEF PutAt, DroppedFrom, Restricts
<1>12. n.conns = Shown(n.ports, v.conns)
  BY <1>1, <1>2, <1>3 DEF PutAt, DroppedFrom, Restricts, Shown, GoodView
<1>13. SameClients(m, w) => SameClients(n, v)
  BY <1>1, <1>2, <1>3 DEF SameClients, PutAt, DroppedFrom
<1>14. Restricts(n, v, gone) BY <1>2, <1>7, <1>8, <1>9, <1>10, <1>11, <1>12 DEF Restricts
<1> QED BY <1>4, <1>13, <1>14 DEF v, n

\* The canvas hears PortAppeared.
LEMMA HearPortAppeared ==
  ASSUME NEW w, GoodView(w), NEW m, NEW gone, Restricts(m, w, gone),
         NEW s, s.kind = "PortAppeared", Legal(w, s), s.port \notin gone
  PROVE  /\ Restricts(Canvas(m, s), Canvas(w, s), gone)
         /\ ~Misfits(m, s)
         /\ SameClients(m, w) => SameClients(Canvas(m, s), Canvas(w, s))
<1> DEFINE v == Canvas(w, s)
           n == Canvas(m, s)
<1>0. Shape(w) /\ Shape(m) BY DEF GoodView, Restricts
<1> DEFINE q == [client |-> s.client, name |-> s.name]
<1>3. s.port \notin DOMAIN w.ports /\ s.client \in DOMAIN w.clients /\ s.port \notin DOMAIN m.ports
  BY DEF Legal, Restricts
<1>4. ~Misfits(m, s) BY <1>3 DEF Misfits, KnownPort
<1>1. Shape(v) /\ v.clients = w.clients /\ v.conns = w.conns /\ PutAt(w.ports, v.ports, s.port, q)
  BY <1>0, <1>3, CanvasPortAppears
<1>2. /\ Shape(n) /\ n.clients = m.clients /\ n.conns = m.conns
      /\ \/ s.client \in DOMAIN m.clients /\ PutAt(m.ports, n.ports, s.port, q)
         \/ s.client \notin DOMAIN m.clients /\ n.ports = m.ports
  BY <1>0, CanvasPortAppears
<1>5. q.client = s.client OBVIOUS
<1> HIDE DEF q
<1> HIDE DEF v, n
<1>7. \A c \in DOMAIN n.clients : c \in DOMAIN v.clients /\ n.clients[c] = v.clients[c]
  BY <1>1, <1>2, <1>3, <1>5 DEF PutAt, DroppedFrom, Restricts
<1>8. \A p \in DOMAIN v.ports :
       v.ports[p].client \in DOMAIN n.clients => p \in DOMAIN n.ports /\ n.ports[p] = v.ports[p]
  BY <1>1, <1>2, <1>3, <1>5 DEF PutAt, DroppedFrom, Restricts, GoodView
<1>9. \A p \in DOMAIN n.ports : n.ports[p].client \in DOMAIN n.clients
  BY <1>1, <1>2, <1>3, <1>5 DEF PutAt, DroppedFrom, Restricts
<1>10. \A p \in DOMAIN n.ports : p \in DOMAIN v.ports => n.ports[p] = v.ports[p]
  BY <1>1, <1>2, <1>3, <1>5 DEF PutAt, DroppedFrom, Restricts
<1>11. \A p \in DOMAIN n.ports : p \notin DOMAIN v.ports => p \in gone
  BY <1>1, <1>2, <1>3, <1>5 DEF PutAt, DroppedFrom, Restricts
<1>12. n.conns = Shown(n.ports, v.conns)
  BY <1>1, <1>2, <1>3, <1>5 DEF PutAt, DroppedFrom, Restricts, Shown, GoodView
<1>13. SameClients(m, w) => SameClients(n, v)
  BY <1>1, <1>2, <1>3, <1>5 DEF SameClients, PutAt, DroppedFrom
<1>14. Restricts(n, v, gone) BY <1>2, <1>7, <1>8, <1>9, <1>10, <1>11, <1>12 DEF Restricts
<1> QED BY <1>4, <1>13, <1>14 DEF v, n

\* The canvas hears PortRenamed.
LEMMA HearPortRenamed ==
  ASSUME NEW w, GoodView(w), NEW m, NEW gone, Restricts(m, w, gone),
         NEW s, s.kind = "PortRenamed", Legal(w, s)
  PROVE  /\ Restricts(Canvas(m, s), Canvas(w, s), gone)
         /\ ~Misfits(m, s)
         /\ SameClients(m, w) => SameClients(Canvas(m, s), Canvas(w, s))
<1> DEFINE v == Canvas(w, s)
           n == Canvas(m, s)
<1>0. Shape(w) /\ Shape(m) BY DEF GoodView, Restricts
<1> DEFINE q == [client |-> s.client, name |-> s.name]
<1>3. s.port \in DOMAIN w.ports /\ w.ports[s.port].client = s.client /\ s.client \in DOMAIN w.clients
  BY DEF Legal, GoodView
<1>4. ~Misfits(m, s) BY DEF Misfits
<1>1. Shape(v) /\ v.clients = w.clients /\ v.conns = w.conns /\ PutAt(w.ports, v.ports, s.port, q)
  BY <1>0, <1>3, CanvasPortRenamed DEF KnownPort
<1>6. /\ s.client \in DOMAIN m.clients => KnownPort(m, s)
      /\ s.client \notin DOMAIN m.clients => ~KnownPort(m, s) /\ s.port \notin DOMAIN m.ports
  BY <1>3 DEF KnownPort, Restricts
<1>2. /\ Shape(n) /\ n.clients = m.clients /\ n.conns = m.conns
      /\ \/ s.client \in DOMAIN m.clients /\ s.port \in DOMAIN m.ports /\ PutAt(m.ports, n.ports, s.port, q)
         \/ s.client \notin DOMAIN m.clients /\ s.port \notin DOMAIN m.ports /\ n.ports = m.ports
  BY <1>0, <1>6, CanvasPortRenamed DEF KnownPort
<1>5. q.client = s.client OBVIOUS
<1> HIDE DEF q
<1> HIDE DEF v, n
<1>7. \A c \in DOMAIN n.clients : c \in DOMAIN v.clients /\ n.clients[c] = v.clients[c]
  BY <1>1, <1>2, <1>3, <1>5 DEF PutAt, DroppedFrom, Restricts
<1>8. \A p \in DOMAIN v.ports :
       v.ports[p].client \in DOMAIN n.clients => p \in DOMAIN n.ports /\ n.ports[p] = v.ports[p]
  BY <1>1, <1>2, <1>3, <1>5 DEF PutAt, DroppedFrom, Restricts, GoodView
<1>9. \A p \in DOMAIN n.ports : n.ports[p].client \in DOMAIN n.clients
  BY <1>1, <1>2, <1>3, <1>5 DEF PutAt, DroppedFrom, Restricts
<1>10. \A p \in DOMAIN n.ports : p \in DOMAIN v.ports => n.ports[p] = v.ports[p]
  BY <1>1, <1>2, <1>3, <1>5 DEF PutAt, DroppedFrom, Restricts
<1>11. \A p \in DOMAIN n.ports : p \notin DOMAIN v.ports => p \in gone
  BY <1>1, <1>2, <1>3, <1>5 DEF PutAt, DroppedFrom, Restricts
<1>12. n.conns = Shown(n.ports, v.conns)
  BY <1>1, <1>2, <1>3, <1>5 DEF PutAt, DroppedFrom, Restricts, Shown, GoodView
<1>13. SameClients(m, w) => SameClients(n, v)
  BY <1>1, <1>2, <1>3, <1>5 DEF SameClients, PutAt, DroppedFrom
<1>14. Restricts(n, v, gone) BY <1>2, <1>7, <1>8, <1>9, <1>10, <1>11, <1>12 DEF Restricts
<1> QED BY <1>4, <1>13, <1>14 DEF v, n

\* The canvas hears PortDisappeared.
LEMMA HearPortDisappeared ==
  ASSUME NEW w, GoodView(w), NEW m, NEW gone, Restricts(m, w, gone),
         NEW s, s.kind = "PortDisappeared", Legal(w, s)
  PROVE  /\ Restricts(Canvas(m, s), Canvas(w, s), gone)
         /\ ~Misfits(m, s)
         /\ SameClients(m, w) => SameClients(Canvas(m, s), Canvas(w, s))
<1> DEFINE v == Canvas(w, s)
           n == Canvas(m, s)
<1>0. Shape(w) /\ Shape(m) BY DEF GoodView, Restricts
<1>3. /\ s.port \in DOMAIN w.ports /\ w.ports[s.port].client = s.client /\ s.client \in DOMAIN w.clients
      /\ \A e \in w.conns : s.port \notin e
  BY DEF Legal, GoodView
<1>1. Shape(v) /\ v.clients = w.clients /\ v.conns = Shown(v.ports, w.conns) /\ DroppedFrom(w.ports, v.ports, {s.port})
  BY <1>0, <1>3, CanvasPortDisappears DEF KnownPort
<1>6. /\ s.client \in DOMAIN m.clients => KnownPort(m, s)
      /\ s.client \notin DOMAIN m.clients => ~KnownPort(m, s) /\ s.port \notin DOMAIN m.ports
  BY <1>3 DEF KnownPort, Restricts
<1>4. ~Misfits(m, s) BY <1>6 DEF Misfits, KnownClient
<1>2. /\ Shape(n) /\ n.clients = m.clients
      /\ \/ s.client \in DOMAIN m.clients /\ n.conns = Shown(n.ports, m.conns) /\ DroppedFrom(m.ports, n.ports, {s.port})
         \/ s.client \notin DOMAIN m.clients /\ s.port \notin DOMAIN m.ports /\ n.ports = m.ports /\ n.conns = m.conns
  BY <1>0, <1>6, CanvasPortDisappears
<1> HIDE DEF v, n
<1>7. \A c \in DOMAIN n.clients : c \in DOMAIN v.clients /\ n.clients[c] = v.clients[c]
  BY <1>1, <1>2, <1>3 DEF PutAt, DroppedFrom, Restricts
<1>8. \A p \in DOMAIN v.ports :
       v.ports[p].client \in DOMAIN n.clients => p \in DOMAIN n.ports /\ n.ports[p] = v.ports[p]
  BY <1>1, <1>2, <1>3 DEF PutAt, DroppedFrom, Restricts, GoodView
<1>9. \A p \in DOMAIN n.ports : n.ports[p].client \in DOMAIN n.clients
  BY <1>1, <1>2, <1>3 DEF PutAt, DroppedFrom, Restricts
<1>10. \A p \in DOMAIN n.ports : p \in DOMAIN v.ports => n.ports[p] = v.ports[p]
  BY <1>1, <1>2, <1>3 DEF PutAt, DroppedFrom, Restricts
<1>11. \A p \in DOMAIN n.ports : p \notin DOMAIN v.ports => p \in gone
  BY <1>1, <1>2, <1>3 DEF PutAt, DroppedFrom, Restricts
<1>12. n.conns = Shown(n.ports, v.conns)
  BY <1>1, <1>2, <1>3 DEF PutAt, DroppedFrom, Restricts, Shown, GoodView
<1>13. SameClients(m, w) => SameClients(n, v)
  BY <1>1, <1>2, <1>3 DEF SameClients, PutAt, DroppedFrom
<1>14. Restricts(n, v, gone) BY <1>2, <1>7, <1>8, <1>9, <1>10, <1>11, <1>12 DEF Restricts
<1> QED BY <1>4, <1>13, <1>14 DEF v, n

\* The canvas hears PortsConnected.
LEMMA HearPortsConnected ==
  ASSUME NEW w, GoodView(w), NEW m, NEW gone, Restricts(m, w, gone),
         NEW s, s.kind = "PortsConnected", Legal(w, s)
  PROVE  /\ Restricts(Canvas(m, s), Canvas(w, s), gone)
         /\ ~Misfits(m, s)
         /\ SameClients(m, w) => SameClients(Canvas(m, s), Canvas(w, s))
<1> DEFINE v == Canvas(w, s)
           n == Canvas(m, s)
<1>0. Shape(w) /\ Shape(m) BY DEF GoodView, Restricts
<1>3. s.ends \subseteq DOMAIN w.ports BY DEF Legal
<1>4. ~Misfits(m, s) BY DEF Misfits
<1>1. Shape(v) /\ v.clients = w.clients /\ v.ports = w.ports /\ v.conns = Shown(w.ports, w.conns \cup {s.ends})
  BY <1>0, CanvasConnected
<1>2. Shape(n) /\ n.clients = m.clients /\ n.ports = m.ports /\ n.conns = Shown(m.ports, m.conns \cup {s.ends})
  BY <1>0, CanvasConnected
<1> HIDE DEF v, n
<1>7. \A c \in DOMAIN n.clients : c \in DOMAIN v.clients /\ n.clients[c] = v.clients[c]
  BY <1>1, <1>2, <1>3 DEF PutAt, DroppedFrom, Restricts
<1>8. \A p \in DOMAIN v.ports :
       v.ports[p].client \in DOMAIN n.clients => p \in DOMAIN n.ports /\ n.ports[p] = v.ports[p]
  BY <1>1, <1>2, <1>3 DEF PutAt, DroppedFrom, Restricts, GoodView
<1>9. \A p \in DOMAIN n.ports : n.ports[p].client \in DOMAIN n.clients
  BY <1>1, <1>2, <1>3 DEF PutAt, DroppedFrom, Restricts
<1>10. \A p \in DOMAIN n.ports : p \in DOMAIN v.ports => n.ports[p] = v.ports[p]
  BY <1>1, <1>2, <1>3 DEF PutAt, DroppedFrom, Restricts
<1>11. \A p \in DOMAIN n.ports : p \notin DOMAIN v.ports => p \in gone
  BY <1>1, <1>2, <1>3 DEF PutAt, DroppedFrom, Restricts
<1>12. n.conns = Shown(n.ports, v.conns)
  BY <1>1, <1>2, <1>3 DEF PutAt, DroppedFrom, Restricts, Shown, GoodView
<1>13. SameClients(m, w) => SameClients(n, v)
  BY <1>1, <1>2, <1>3 DEF SameClients, PutAt, DroppedFrom
<1>14. Restricts(n, v, gone) BY <1>2, <1>7, <1>8, <1>9, <1>10, <1>11, <1>12 DEF Restricts
<1> QED BY <1>4, <1>13, <1>14 DEF v, n

\* The canvas hears PortsDisconnected.
LEMMA HearPortsDisconnected ==
  ASSUME NEW w, GoodView(w), NEW m, NEW gone, Restricts(m, w, gone),
         NEW s, s.kind = "PortsDisconnected", Legal(w, s)
  PROVE  /\ Restricts(Canvas(m, s), Canvas(w, s), gone)
         /\ ~Misfits(m, s)
         /\ SameClients(m, w) => SameClients(Canvas(m, s), Canvas(w, s))
<1> DEFINE v == Canvas(w, s)
           n == Canvas(m, s)
<1>0. Shape(w) /\ Shape(m) BY DEF GoodView, Restricts
<1>4. ~Misfits(m, s) BY DEF Misfits
<1>1. Shape(v) /\ v.clients = w.clients /\ v.ports = w.ports /\ v.conns = w.conns \ {s.ends}
  BY <1>0, CanvasDisconnected
<1>2. Shape(n) /\ n.clients = m.clients /\ n.ports = m.ports /\ n.conns = m.conns \ {s.ends}
  BY <1>0, CanvasDisconnected
<1> HIDE DEF v, n
<1>7. \A c \in DOMAIN n.clients : c \in DOMAIN v.clients /\ n.clients[c] = v.clients[c]
  BY <1>1, <1>2 DEF PutAt, DroppedFrom, Restricts
<1>8. \A p \in DOMAIN v.ports :
       v.ports[p].client \in DOMAIN n.clients => p \in DOMAIN n.ports /\ n.ports[p] = v.ports[p]
  BY <1>1, <1>2 DEF PutAt, DroppedFrom, Restricts, GoodView
<1>9. \A p \in DOMAIN n.ports : n.ports[p].client \in DOMAIN n.clients
  BY <1>1, <1>2 DEF PutAt, DroppedFrom, Restricts
<1>10. \A p \in DOMAIN n.ports : p \in DOMAIN v.ports => n.ports[p] = v.ports[p]
  BY <1>1, <1>2 DEF PutAt, DroppedFrom, Restricts
<1>11. \A p \in DOMAIN n.ports : p \notin DOMAIN v.ports => p \in gone
  BY <1>1, <1>2 DEF PutAt, DroppedFrom, Restricts
<1>12. n.conns = Shown(n.ports, v.conns)
  BY <1>1, <1>2 DEF PutAt, DroppedFrom, Restricts, Shown, GoodView
<1>13. SameClients(m, w) => SameClients(n, v)
  BY <1>1, <1>2 DEF SameClients, PutAt, DroppedFrom
<1>14. Restricts(n, v, gone) BY <1>2, <1>7, <1>8, <1>9, <1>10, <1>11, <1>12 DEF Restricts
<1> QED BY <1>4, <1>13, <1>14 DEF v, n

\* A canvas with part of a view follows every signal that fits the view, unless it announces a port that is gone.
LEMMA CanvasHears ==
  ASSUME NEW w, GoodView(w), NEW m, NEW gone, Restricts(m, w, gone),
         NEW s, Legal(w, s), ~(s.kind = "PortAppeared" /\ s.port \in gone)
  PROVE  /\ Restricts(Canvas(m, s), Canvas(w, s), gone)
         /\ ~Misfits(m, s)
         /\ SameClients(m, w) => SameClients(Canvas(m, s), Canvas(w, s))
BY LegalKinds, HearClientAppeared, HearClientRenamed, HearClientDisappeared, HearPortAppeared, HearPortRenamed,
   HearPortDisappeared, HearPortsConnected, HearPortsDisconnected DEF Kinds

\* It may miss the removal of a port that will not come back.
LEMMA CanvasMisses ==
  ASSUME NEW w, GoodView(w), NEW m, NEW gone, Restricts(m, w, gone),
         NEW s, Legal(w, s), s.kind = "PortDisappeared", s.port \in gone
  PROVE  /\ Restricts(m, Canvas(w, s), gone)
         /\ SameClients(m, w) => SameClients(m, Canvas(w, s))
<1> DEFINE v == Canvas(w, s)
<1>0. Shape(w) /\ Shape(m) BY DEF GoodView, Restricts
<1>3. /\ s.port \in DOMAIN w.ports /\ w.ports[s.port].client = s.client /\ s.client \in DOMAIN w.clients
      /\ \A e \in w.conns : s.port \notin e
  BY DEF Legal, GoodView
<1>1. Shape(v) /\ v.clients = w.clients /\ v.conns = Shown(v.ports, w.conns) /\ DroppedFrom(w.ports, v.ports, {s.port})
  BY <1>0, <1>3, CanvasPortDisappears DEF KnownPort
<1> HIDE DEF v
<1>2. m.conns = Shown(m.ports, v.conns) BY <1>1, <1>3 DEF Restricts, Shown, DroppedFrom, GoodView
<1>4. Restricts(m, v, gone) BY <1>0, <1>1, <1>2, <1>3 DEF Restricts, DroppedFrom
<1> QED BY <1>1, <1>4 DEF SameClients, v

-----------------------------------------------------------------------------
(***************************************************************************)
(* The watcher's invariant, and one signal more behind those on their way. *)
(***************************************************************************)

\* A port that was removed and will not come back.
Dead(g, p) == p \in Nat /\ p < g.nextPort /\ p \notin Ids(g.ports)
Buries(g, h) == \A p : Dead(g, p) => Dead(h, p)

\* The dead ports that no signal after the first j announces.
GoneAfter(B, j, g) ==
  { p \in Nat : Dead(g, p) /\ \A k \in (j+1)..Len(B) : ~(B[k].kind = "PortAppeared" /\ B[k].port = p) }
Farewell(B, i, g) == B[i].kind = "PortDisappeared" /\ B[i].port \in GoneAfter(B, i, g)

\* The signals B lead through the views of path.
Walk(B, path) ==
  /\ \A i \in 0..Len(B) : GoodView(path[i])
  /\ \A i \in 1..Len(B) : Legal(path[i-1], B[i]) /\ path[i] = Canvas(path[i-1], B[i])

\* Only the removal of a port has the version of an earlier signal.
Ordered(B, g) ==
  /\ \A i \in 1..Len(B) : B[i].version <= g.version
  /\ \A i, k \in 1..Len(B) : i < k => B[i].version < B[k].version \/ Farewell(B, k, g)

\* The canvas of c shows the view before the signal j + 1, the first one that is news to it.
At(c, B, g, path, j) ==
  /\ j \in 0..Len(B)
  /\ \A i \in 1..j : B[i].version <= c.known
  /\ \A i \in (j+1)..Len(B) : B[i].version > c.known \/ Farewell(B, i, g)
  /\ Restricts(c.mirror, path[j], GoneAfter(B, j, g))
  /\ c.whole => SameClients(c.mirror, path[j])

Trail(c, B, g, path, j) == Walk(B, path) /\ Ordered(B, g) /\ At(c, B, g, path, j)

Tracked(c, g, w) ==
  /\ c.bus \in Seq(SignalRecs)
  /\ c.known \in Nat /\ c.known <= g.version
  /\ \E path, j : Trail(c, c.bus \o g.sent, g, path, j) /\ path[Len(c.bus \o g.sent)] = w

-----------------------------------------------------------------------------

\* More ports may be gone.
LEMMA RestrictsMore ==
  ASSUME NEW m, NEW w, NEW gone, NEW more, Restricts(m, w, gone), gone \subseteq more
  PROVE  Restricts(m, w, more)
BY DEF Restricts

\* What one more signal must be.
NextSignal(g, h, s) ==
  /\ g.version \in Nat /\ h.version \in Nat /\ s.version = h.version
  /\ \/ g.version < h.version /\ ~(s.kind = "PortAppeared" /\ Dead(h, s.port))
     \/ g.version <= h.version /\ s.kind = "PortDisappeared" /\ Dead(h, s.port)

\* Versions are numbers.
LEMMA VersionIsNat == \A s \in SignalRecs : s.version \in Nat
BY DEF SignalRecs

\* One signal more, and the way leads one view further.
LEMMA AppendedTrail ==
  ASSUME NEW c, c.known \in Nat, NEW B \in Seq(SignalRecs), NEW g, NEW path, NEW j, Trail(c, B, g, path, j),
         c.known <= g.version,
         NEW h, Buries(g, h), NEW s \in SignalRecs, NextSignal(g, h, s), Legal(path[Len(B)], s)
  PROVE  \E path2 : /\ Trail(c, Append(B, s), h, path2, j)
                    /\ path2[Len(Append(B, s))] = Canvas(path[Len(B)], s)
<1> DEFINE n == Len(B)
           D == Append(B, s)
           v == Canvas(path[n], s)
           path2 == [i \in 0..n+1 |-> IF i \in 0..n THEN path[i] ELSE v]
<1>1. n \in Nat /\ DOMAIN B = 1..n OBVIOUS
<1>2. D \in Seq(SignalRecs) /\ Len(D) = n + 1 /\ D[n+1] = s /\ \A i \in 1..n : D[i] = B[i]
  BY AppendProperties
<1> HIDE DEF D, n
<1>3. /\ \A i \in 0..n : path2[i] = path[i]
      /\ path2[n+1] = v
  BY <1>1
<1> HIDE DEF path2
<1>4. n \in 0..n /\ n + 1 \in 1..n+1 /\ \A i \in 1..n+1 : i \in 1..n \/ i = n + 1 BY <1>1
<1>5. \A i \in 1..n : i \in 0..n /\ i - 1 \in 0..n BY <1>1
<1>6. \A i \in 0..n+1 : i \in 0..n \/ i = n + 1 BY <1>1
<1>7. Walk(B, path) /\ Ordered(B, g) /\ At(c, B, g, path, j) BY DEF Trail
<1>8. GoodView(path[n]) BY <1>4, <1>7 DEF Walk, n
<1>9. GoodView(v) BY <1>8, CanvasKeepsGood DEF n
<1> HIDE DEF v
<1>10. Walk(D, path2)
  <2>1. \A i \in 0..n+1 : GoodView(path2[i]) BY <1>3, <1>6, <1>7, <1>9 DEF Walk, n
  <2>2. ASSUME NEW i \in 1..n PROVE Legal(path2[i-1], D[i]) /\ path2[i] = Canvas(path2[i-1], D[i])
    BY <1>2, <1>3, <1>5, <1>7 DEF Walk, n
  <2>3. (n + 1) - 1 = n BY <1>1
  <2>4. Legal(path2[(n+1)-1], D[n+1]) /\ path2[n+1] = Canvas(path2[(n+1)-1], D[n+1])
    BY <1>2, <1>3, <1>4, <2>3 DEF v, n
  <2>5. \A i \in 1..n+1 : Legal(path2[i-1], D[i]) /\ path2[i] = Canvas(path2[i-1], D[i])
    BY <2>2, <2>4, <1>4
  <2> QED BY <1>2, <2>1, <2>5 DEF Walk
<1>11. ASSUME NEW l \in 0..n PROVE GoneAfter(B, l, g) \subseteq GoneAfter(D, l, h)
  <2> SUFFICES ASSUME NEW p \in GoneAfter(B, l, g) PROVE p \in GoneAfter(D, l, h) OBVIOUS
  <2>1. p \in Nat /\ Dead(g, p) /\ \A k \in (l+1)..n : ~(B[k].kind = "PortAppeared" /\ B[k].port = p)
    BY DEF GoneAfter, n
  <2>2. Dead(h, p) BY <2>1 DEF Buries
  <2>3. ASSUME NEW k \in (l+1)..(n+1) PROVE ~(D[k].kind = "PortAppeared" /\ D[k].port = p)
    <3>1. CASE k = n + 1 BY <3>1, <1>2, <2>2 DEF NextSignal
    <3>2. CASE k # n + 1
      <4>1. k \in (l+1)..n /\ k \in 1..n BY <3>2, <1>1
      <4> QED BY <4>1, <2>1, <1>2
    <3> QED BY <3>1, <3>2
  <2> QED BY <2>1, <2>2, <2>3, <1>2 DEF GoneAfter
<1>12. ASSUME NEW i \in 1..n, Farewell(B, i, g) PROVE Farewell(D, i, h)
  BY <1>2, <1>5, <1>11, <1>12 DEF Farewell
<1>13. \A k \in ((n+1)+1)..(n+1) : FALSE BY <1>1
<1>14. g.version < s.version \/ Farewell(D, n+1, h)
  <2>1. CASE g.version < h.version BY <2>1 DEF NextSignal
  <2>2. CASE s.kind = "PortDisappeared" /\ Dead(h, s.port)
    BY <2>2, <1>2, <1>13 DEF Farewell, GoneAfter, Dead
  <2> QED BY <2>1, <2>2 DEF NextSignal
<1>15. \A i \in 1..n : B[i].version \in Nat
  BY ElementOfSeq, VersionIsNat DEF n
<1>16. g.version \in Nat /\ h.version \in Nat /\ g.version <= h.version /\ s.version = h.version BY DEF NextSignal
<1>17. Ordered(D, h)
  <2>1. ASSUME NEW i \in 1..n+1 PROVE D[i].version <= h.version
    <3>1. CASE i \in 1..n
      <4>1. B[i].version <= g.version /\ B[i].version \in Nat /\ D[i] = B[i]
        BY <3>1, <1>7, <1>15, <1>2 DEF Ordered, n
      <4> QED BY <4>1, <1>16
    <3>2. CASE i = n + 1 BY <3>2, <1>2, <1>16
    <3> QED BY <3>1, <3>2, <1>4
  <2>2. ASSUME NEW i \in 1..n+1, NEW k \in 1..n+1, i < k
        PROVE  D[i].version < D[k].version \/ Farewell(D, k, h)
    <3>0. i \in 1..n BY <2>2, <1>1
    <3>1. CASE k \in 1..n
      BY <3>0, <3>1, <2>2, <1>2, <1>7, <1>12 DEF Ordered, n
    <3>2. CASE k = n + 1
      <4>1. B[i].version <= g.version /\ B[i].version \in Nat /\ D[i] = B[i]
        BY <3>0, <1>7, <1>15, <1>2 DEF Ordered, n
      <4>2. D[k] = s BY <3>2, <1>2
      <4> QED BY <4>1, <4>2, <3>2, <1>14, <1>16
    <3> QED BY <3>1, <3>2, <1>4
  <2> QED BY <2>1, <2>2, <1>2 DEF Ordered
<1>18. At(c, D, h, path2, j)
  <2>0. j \in 0..n BY <1>7 DEF At, n
  <2>1. j \in 0..n+1 /\ \A i \in 1..j : i \in 1..n BY <2>0, <1>1
  <2>2. \A i \in 1..j : D[i].version <= c.known BY <2>1, <1>2, <1>7 DEF At
  <2>3. ASSUME NEW i \in (j+1)..(n+1) PROVE D[i].version > c.known \/ Farewell(D, i, h)
    <3>1. CASE i = n + 1
      <4>1. D[i] = s BY <3>1, <1>2
      <4> QED BY <4>1, <3>1, <1>14, <1>16
    <3>2. CASE i # n + 1
      <4>1. i \in (j+1)..n /\ i \in 1..n BY <3>2, <2>0, <1>1
      <4> QED BY <4>1, <1>2, <1>7, <1>12 DEF At, n
    <3> QED BY <3>1, <3>2
  <2>4. path2[j] = path[j] BY <2>0, <1>3
  <2>5. Restricts(c.mirror, path2[j], GoneAfter(D, j, h))
    BY <2>0, <2>4, <1>7, <1>11, RestrictsMore DEF At
  <2>6. c.whole => SameClients(c.mirror, path2[j]) BY <2>4, <1>7 DEF At
  <2> QED BY <2>1, <2>2, <2>3, <2>5, <2>6, <1>2 DEF At
<1>19. Trail(c, D, h, path2, j) BY <1>10, <1>17, <1>18 DEF Trail
<1> QED BY <1>2, <1>3, <1>19 DEF D, v, n

-----------------------------------------------------------------------------
(***************************************************************************)
(* What Emit and Say change, and what becomes of a watcher.                *)
(***************************************************************************)

\* Emit changes the signals only.
LEMMA EmitFields ==
  ASSUME NEW g \in Graphs, NEW s \in SignalRecs
  PROVE  /\ Emit(g, s) \in Graphs
         /\ Emit(g, s).version = g.version
         /\ Emit(g, s).nextClient = g.nextClient /\ Emit(g, s).nextPort = g.nextPort
         /\ Emit(g, s).clients = g.clients /\ Emit(g, s).ports = g.ports /\ Emit(g, s).conns = g.conns
         /\ s.kind = "silent" => Emit(g, s).sent = g.sent
         /\ s.kind # "silent" => Emit(g, s).sent = Append(g.sent, [s EXCEPT !.version = g.version])
<1> DEFINE z == [s EXCEPT !.version = g.version]
<1>1. z \in SignalRecs BY DEF Graphs, SignalRecs
<1>2. Append(g.sent, z) \in Seq(SignalRecs) BY <1>1, AppendProperties DEF Graphs
<1> HIDE DEF z
<1>3. CASE s.kind = "silent" BY <1>3 DEF Emit
<1>4. CASE s.kind # "silent"
  <2>1. Emit(g, s) = [g EXCEPT !.sent = Append(@, z)] BY <1>4 DEF Emit, z
  <2> QED BY <2>1, <1>2, <1>4 DEF Graphs, z
<1> QED BY <1>3, <1>4

\* Say changes the version and the signals.
LEMMA SayFields ==
  ASSUME NEW g \in Graphs, NEW s \in SignalRecs
  PROVE  /\ Say(g, s) \in Graphs
         /\ Say(g, s).version = g.version + 1
         /\ Say(g, s).nextClient = g.nextClient /\ Say(g, s).nextPort = g.nextPort
         /\ Say(g, s).clients = g.clients /\ Say(g, s).ports = g.ports /\ Say(g, s).conns = g.conns
         /\ s.kind = "silent" => Say(g, s).sent = g.sent
         /\ s.kind # "silent" => Say(g, s).sent = Append(g.sent, [s EXCEPT !.version = g.version + 1])
<1>1. /\ Bump(g) \in Graphs /\ Bump(g).version = g.version + 1
      /\ Bump(g).nextClient = g.nextClient /\ Bump(g).nextPort = g.nextPort
      /\ Bump(g).clients = g.clients /\ Bump(g).ports = g.ports /\ Bump(g).conns = g.conns
      /\ Bump(g).sent = g.sent
  <2>1. g.version \in Nat /\ g.version + 1 \in Nat BY DEF Graphs
  <2> QED BY <2>1 DEF Bump, Graphs
<1> QED BY <1>1, EmitFields DEF Say

\* The canvas does not look at versions.
LEMMA VersionUnread ==
  ASSUME NEW s \in SignalRecs, NEW n \in Nat, NEW w
  PROVE  /\ [s EXCEPT !.version = n] \in SignalRecs
         /\ [s EXCEPT !.version = n].version = n
         /\ [s EXCEPT !.version = n].kind = s.kind
         /\ [s EXCEPT !.version = n].port = s.port
         /\ Canvas(w, [s EXCEPT !.version = n]) = Canvas(w, s)
         /\ Legal(w, s) => Legal(w, [s EXCEPT !.version = n])
<1> DEFINE z == [s EXCEPT !.version = n]
<1>1. /\ z \in SignalRecs /\ z.version = n /\ z.kind = s.kind /\ z.port = s.port
      /\ z.client = s.client /\ z.name = s.name /\ z.ends = s.ends
  BY DEF SignalRecs
<1> HIDE DEF z
<1>2. Canvas(w, z) = Canvas(w, s)
  <2>1. /\ KnownClient(w, z) <=> KnownClient(w, s)
        /\ KnownPort(w, z) <=> KnownPort(w, s)
        /\ CanvasAddsClient(w, z) = CanvasAddsClient(w, s)
        /\ PutPort(w, z) = PutPort(w, s)
        /\ CanvasDropsClient(w, z) = CanvasDropsClient(w, s)
        /\ CanvasConnects(w, z) = CanvasConnects(w, s)
        /\ CanvasDisconnects(w, z) = CanvasDisconnects(w, s)
    BY <1>1 DEF KnownClient, KnownPort, CanvasAddsClient, PutPort, CanvasDropsClient, CanvasConnects, CanvasDisconnects
  <2>2. CanvasDropsPort(w, z) = CanvasDropsPort(w, s) BY <1>1, <2>1 DEF CanvasDropsPort
  <2> QED BY <1>1, <2>1, <2>2 DEF Canvas, CanvasRenamesClient, CanvasAddsPort, CanvasRenamesPort
<1>3. Legal(w, s) => Legal(w, z) BY <1>1 DEF Legal
<1> QED BY <1>1, <1>2, <1>3 DEF z

\* Appending to the second of two lists.
LEMMA ConcatAppend ==
  ASSUME NEW S, NEW a \in Seq(S), NEW b \in Seq(S), NEW x \in S
  PROVE  a \o Append(b, x) = Append(a \o b, x)
OBVIOUS

-----------------------------------------------------------------------------
\* A change that nobody hears of.
LEMMA TrackedQuietly ==
  ASSUME NEW g \in Graphs, NEW c, NEW w, Tracked(c, g, w),
         NEW h \in Graphs, h.sent = g.sent, g.version <= h.version, Buries(g, h)
  PROVE  Tracked(c, h, w)
<1> DEFINE B == c.bus \o g.sent
<1>0. g.version \in Nat /\ h.version \in Nat /\ g.sent \in Seq(SignalRecs) BY DEF Graphs
<1>1. c.bus \in Seq(SignalRecs) /\ c.known \in Nat /\ c.known <= g.version BY DEF Tracked
<1>2. PICK path, j : Trail(c, B, g, path, j) /\ path[Len(B)] = w BY DEF Tracked
<1>3. B \in Seq(SignalRecs) BY <1>0, <1>1, ConcatProperties
<1> HIDE DEF B
<1>4. ASSUME NEW i PROVE GoneAfter(B, i, g) \subseteq GoneAfter(B, i, h)
  BY DEF GoneAfter, Buries
<1>5. ASSUME NEW i, Farewell(B, i, g) PROVE Farewell(B, i, h)
  BY <1>4, <1>5 DEF Farewell
<1>6. \A i \in 1..Len(B) : B[i].version \in Nat BY <1>3, ElementOfSeq, VersionIsNat
<1>7. Ordered(B, h)
  BY <1>0, <1>2, <1>5, <1>6 DEF Trail, Ordered
<1>8. At(c, B, h, path, j)
  <2>1. Restricts(c.mirror, path[j], GoneAfter(B, j, h))
    BY <1>2, <1>4, RestrictsMore DEF Trail, At
  <2> QED BY <2>1, <1>2, <1>5 DEF Trail, At
<1>9. Trail(c, B, h, path, j) BY <1>2, <1>7, <1>8 DEF Trail
<1>10. c.known <= h.version BY <1>0, <1>1
<1> QED BY <1>1, <1>2, <1>9, <1>10 DEF Tracked, B

\* A change that is told with the next signal.
LEMMA TrackedSent ==
  ASSUME NEW g \in Graphs, NEW c, NEW w, Tracked(c, g, w),
         NEW h \in Graphs, NEW s \in SignalRecs, h.sent = Append(g.sent, s),
         Buries(g, h), NextSignal(g, h, s), Legal(w, s)
  PROVE  Tracked(c, h, Canvas(w, s))
<1> DEFINE B == c.bus \o g.sent
<1>0. g.version \in Nat /\ h.version \in Nat /\ g.sent \in Seq(SignalRecs) BY DEF Graphs
<1>1. c.bus \in Seq(SignalRecs) /\ c.known \in Nat /\ c.known <= g.version BY DEF Tracked
<1>2. PICK path, j : Trail(c, B, g, path, j) /\ path[Len(B)] = w BY DEF Tracked
<1>3. B \in Seq(SignalRecs) BY <1>0, <1>1, ConcatProperties
<1>4. c.bus \o h.sent = Append(B, s)
  <2>1. PICK a \in Seq(SignalRecs) : a = c.bus BY <1>1
  <2>2. PICK b \in Seq(SignalRecs) : b = g.sent BY <1>0
  <2>3. a \o Append(b, s) = Append(a \o b, s) BY ConcatAppend
  <2> QED BY <2>1, <2>2, <2>3
<1> HIDE DEF B
<1>5. PICK path2 : Trail(c, Append(B, s), h, path2, j) /\ path2[Len(Append(B, s))] = Canvas(path[Len(B)], s)
  BY <1>1, <1>2, <1>3, AppendedTrail
<1>6. c.known <= h.version BY <1>0, <1>1 DEF NextSignal
<1>7. \E p, k : Trail(c, c.bus \o h.sent, h, p, k) /\ p[Len(c.bus \o h.sent)] = Canvas(w, s)
  BY <1>2, <1>4, <1>5
<1> QED BY <1>1, <1>6, <1>7 DEF Tracked

\* A change that leads to h, with the signal s and a version of its own.
LEMMA TrackedSay ==
  ASSUME NEW g \in Graphs, NEW c, NEW w, Tracked(c, g, w),
         NEW h \in Graphs, h.sent = g.sent, h.version = g.version, Buries(g, h),
         NEW s \in SignalRecs, s.kind # "silent", Legal(w, s), ~(s.kind = "PortAppeared" /\ Dead(h, s.port))
  PROVE  Tracked(c, Say(h, s), Canvas(w, s))
<1> DEFINE r == Say(h, s)
           z == [s EXCEPT !.version = h.version + 1]
<1>1. g.version \in Nat /\ h.version + 1 \in Nat BY DEF Graphs
<1>2. /\ r \in Graphs /\ r.version = h.version + 1 /\ r.nextPort = h.nextPort /\ r.ports = h.ports
      /\ r.sent = Append(g.sent, z)
  BY SayFields
<1>3. /\ z \in SignalRecs /\ z.version = h.version + 1 /\ z.kind = s.kind /\ z.port = s.port
      /\ Canvas(w, z) = Canvas(w, s) /\ Legal(w, z)
  BY <1>1, VersionUnread
<1> HIDE DEF r, z
<1>4. Buries(g, r) /\ ~(z.kind = "PortAppeared" /\ Dead(r, z.port)) BY <1>2, <1>3 DEF Buries, Dead
<1>5. NextSignal(g, r, z) BY <1>1, <1>2, <1>3, <1>4 DEF NextSignal
<1>6. Tracked(c, r, Canvas(w, z)) BY <1>2, <1>3, <1>4, <1>5, TrackedSent
<1> QED BY <1>3, <1>6 DEF r

\* A change of something hidden is not told.
LEMMA TrackedSilence ==
  ASSUME NEW g \in Graphs, NEW c, NEW w, Tracked(c, g, w),
         NEW h \in Graphs, h.sent = g.sent, h.version = g.version, Buries(g, h),
         NEW s \in SignalRecs, s.kind = "silent"
  PROVE  Tracked(c, Say(h, s), w) /\ Tracked(c, Emit(h, s), w)
<1>1. g.version \in Nat BY DEF Graphs
<1>2. Say(h, s) \in Graphs /\ Say(h, s).sent = g.sent /\ g.version <= Say(h, s).version
  <2>1. Say(h, s) \in Graphs /\ Say(h, s).sent = h.sent /\ Say(h, s).version = h.version + 1 BY SayFields, Zenon
  <2> QED BY <1>1, <2>1
<1>3. Emit(h, s) \in Graphs /\ Emit(h, s).sent = g.sent /\ g.version <= Emit(h, s).version
  <2>1. Emit(h, s) \in Graphs /\ Emit(h, s).sent = h.sent /\ Emit(h, s).version = h.version BY EmitFields, Zenon
  <2> QED BY <1>1, <2>1
<1>4. Buries(g, Say(h, s)) /\ Buries(g, Emit(h, s)) BY SayFields, EmitFields DEF Buries, Dead
<1> QED BY <1>2, <1>3, <1>4, TrackedQuietly

\* The removal of a port has no version of its own.
LEMMA TrackedFarewell ==
  ASSUME NEW g \in Graphs, NEW c, NEW w, Tracked(c, g, w),
         NEW h \in Graphs, h.sent = g.sent, h.version = g.version, Buries(g, h),
         NEW s \in SignalRecs, s.kind = "PortDisappeared", Legal(w, s), Dead(h, s.port)
  PROVE  Tracked(c, Emit(h, s), Canvas(w, s))
<1> DEFINE r == Emit(h, s)
           z == [s EXCEPT !.version = h.version]
<1>1. g.version \in Nat /\ h.version \in Nat BY DEF Graphs
<1>2. /\ r \in Graphs /\ r.version = h.version /\ r.nextPort = h.nextPort /\ r.ports = h.ports
      /\ r.sent = Append(g.sent, z)
  BY EmitFields
<1>3. /\ z \in SignalRecs /\ z.version = h.version /\ z.kind = s.kind /\ z.port = s.port
      /\ Canvas(w, z) = Canvas(w, s) /\ Legal(w, z)
  BY <1>1, VersionUnread
<1> HIDE DEF r, z
<1>4. Buries(g, r) /\ Dead(r, z.port) BY <1>2, <1>3 DEF Buries, Dead
<1>5. NextSignal(g, r, z) BY <1>1, <1>2, <1>3, <1>4 DEF NextSignal
<1>6. Tracked(c, r, Canvas(w, z)) BY <1>2, <1>3, <1>4, <1>5, TrackedSent
<1> QED BY <1>3, <1>6 DEF r

-----------------------------------------------------------------------------
(***************************************************************************)
(* A graph and the view that shows it.                                     *)
(***************************************************************************)

Clients(g) == Elements(g.clients)
Ports(g) == Elements(g.ports)
Conns(g) == Elements(g.conns)

ClientsSound(C, n) == (\A x, y \in C : x.id = y.id => x = y) /\ (\A x \in C : x.id < n)
PortsSound(P, n) == (\A x, y \in P : x.id = y.id => x = y) /\ (\A x \in P : x.id < n)
PortsInside(C, P) == \A p \in P : \E c \in C : c.id = p.client /\ (c.hidden => p.hidden)
ConnsSound(K) ==
  /\ \A x, y \in K : x.ends = y.ends => x = y
  /\ \A k \in K : \E a, b \in Nat : a # b /\ k.ends = {a, b}
ConnsInside(P, K) == \A k \in K : \A e \in k.ends : \E p \in P : p.id = e /\ (p.hidden => k.hidden)

Sound(g) ==
  /\ g \in Graphs /\ g.version # 0
  /\ IsInjective(g.clients) /\ IsInjective(g.ports) /\ IsInjective(g.conns)
  /\ ClientsSound(Clients(g), g.nextClient)
  /\ PortsSound(Ports(g), g.nextPort)
  /\ PortsInside(Clients(g), Ports(g))
  /\ ConnsSound(Conns(g))
  /\ ConnsInside(Ports(g), Conns(g))

ShowsClients(w, C) ==
  /\ \A i : i \in DOMAIN w.clients <=> \E c \in C : c.id = i /\ ~c.hidden
  /\ \A c \in C : ~c.hidden => w.clients[c.id] = c.name
ShowsPorts(w, P) ==
  /\ \A i : i \in DOMAIN w.ports <=> \E p \in P : p.id = i /\ ~p.hidden
  /\ \A p \in P : ~p.hidden => w.ports[p.id] = [client |-> p.client, name |-> p.name]
ShowsConns(w, K) == \A e : e \in w.conns <=> \E k \in K : k.ends = e /\ ~k.hidden

Shows(w, g) ==
  Shape(w) /\ ShowsClients(w, Clients(g)) /\ ShowsPorts(w, Ports(g)) /\ ShowsConns(w, Conns(g))

Good(c, g) == Sound(g) /\ \E w : Shows(w, g) /\ Tracked(c, g, w)

-----------------------------------------------------------------------------

\* Elements and positions of a list.
LEMMA ListFacts ==
  ASSUME NEW R, NEW list \in Seq(R)
  PROVE  Elements(list) \in SUBSET R /\ Len(list) \in Nat /\ DOMAIN list = 1..Len(list)
BY DEF Elements

\* A new element at the end of a list.
LEMMA AppendFacts ==
  ASSUME NEW R, NEW list \in Seq(R), NEW x \in R
  PROVE  /\ Append(list, x) \in Seq(R)
         /\ Elements(Append(list, x)) = Elements(list) \cup {x}
         /\ IsInjective(list) /\ x \notin Elements(list) => IsInjective(Append(list, x))
<1> DEFINE n == Len(list)
           r == Append(list, x)
<1>1. n \in Nat /\ DOMAIN list = 1..n OBVIOUS
<1>2. r \in Seq(R) /\ Len(r) = n + 1 /\ r[n+1] = x /\ \A i \in 1..n : r[i] = list[i]
  BY AppendProperties
<1>3. DOMAIN r = 1..(n+1) BY <1>2
<1> HIDE DEF n, r
<1>4. n + 1 \in 1..(n+1) /\ (\A i \in 1..n : i \in 1..(n+1)) /\ \A i \in 1..(n+1) : i \in 1..n \/ i = n + 1
  BY <1>1
<1>5. Elements(r) = Elements(list) \cup {x}
  BY <1>1, <1>2, <1>3, <1>4 DEF Elements
<1>6. ASSUME IsInjective(list), x \notin Elements(list) PROVE IsInjective(r)
  <2> SUFFICES ASSUME NEW a \in DOMAIN r, NEW b \in DOMAIN r, r[a] = r[b] PROVE a = b
    BY DEF IsInjective
  <2>1. \A i \in 1..n : list[i] # x BY <1>1, <1>6 DEF Elements
  <2> QED BY <2>1, <1>1, <1>2, <1>3, <1>4, <1>6 DEF IsInjective
<1> QED BY <1>2, <1>5, <1>6 DEF r

Swapped(r, list, a, b) == r = [i \in DOMAIN list |-> IF list[i] = a THEN b ELSE list[i]]

\* One element of a list is replaced by another.
LEMMA Replaced ==
  ASSUME NEW R, NEW list \in Seq(R), IsInjective(list), NEW a \in Elements(list), NEW b \in R,
         b \notin Elements(list) \ {a}, NEW r, Swapped(r, list, a, b)
  PROVE  r \in Seq(R) /\ IsInjective(r) /\ Elements(r) = (Elements(list) \ {a}) \cup {b}
<1>1. Len(list) \in Nat /\ DOMAIN list = 1..Len(list) OBVIOUS
<1>2. r \in Seq(R) BY <1>1 DEF Swapped
<1>3. DOMAIN r = DOMAIN list /\ \A i \in DOMAIN list : r[i] = IF list[i] = a THEN b ELSE list[i] BY DEF Swapped
<1>4. IsInjective(r)
  <2> SUFFICES ASSUME NEW i \in DOMAIN list, NEW j \in DOMAIN list, r[i] = r[j] PROVE i = j
    BY <1>3 DEF IsInjective
  <2>1. list[i] \in Elements(list) /\ list[j] \in Elements(list) BY DEF Elements
  <2>2. list[i] = list[j] BY <1>3, <2>1
  <2> QED BY <2>2 DEF IsInjective
<1>5. Elements(r) = (Elements(list) \ {a}) \cup {b}
  BY <1>3 DEF Elements
<1> QED BY <1>2, <1>4, <1>5

-----------------------------------------------------------------------------

\* The types of a graph's parts.
LEMMA SoundTypes ==
  ASSUME NEW g, Sound(g)
  PROVE  /\ g \in Graphs /\ g.version \in Nat /\ g.nextClient \in Nat /\ g.nextPort \in Nat
         /\ g.clients \in Seq(ClientRecs) /\ g.ports \in Seq(PortRecs) /\ g.conns \in Seq(ConnRecs)
         /\ g.sent \in Seq(SignalRecs)
         /\ Clients(g) \in SUBSET ClientRecs /\ Ports(g) \in SUBSET PortRecs /\ Conns(g) \in SUBSET ConnRecs
BY ListFacts DEF Sound, Graphs, Clients, Ports, Conns

\* A client is found by its id.
LEMMA ClientFound ==
  ASSUME NEW g, Sound(g), NEW c \in Clients(g)
  PROVE  ClientById(g, c.id) = c
BY DEF Sound, ClientsSound, ClientById, Clients

\* A port is found by its id.
LEMMA PortFound ==
  ASSUME NEW g, Sound(g), NEW p \in Ports(g)
  PROVE  PortById(g, p.id) = p
BY DEF Sound, PortsSound, PortById, Ports

\* The ports of a client.
LEMMA PortsOfFacts ==
  ASSUME NEW g, Sound(g), NEW id
  PROVE  /\ PortsOf(g, id) \in Seq(PortRecs) /\ IsInjective(PortsOf(g, id))
         /\ Elements(PortsOf(g, id)) = { p \in Ports(g) : p.client = id }
BY SoundTypes, MembersFacts DEF Sound, PortsOf, Select, Ports

\* The connections of a port.
LEMMA ConnsOfFacts ==
  ASSUME NEW g, Sound(g), NEW id
  PROVE  /\ ConnsOf(g, id) \in Seq(ConnRecs) /\ IsInjective(ConnsOf(g, id))
         /\ Elements(ConnsOf(g, id)) = { k \in Conns(g) : id \in k.ends }
BY SoundTypes, MembersFacts DEF Sound, ConnsOf, Select, Conns

\* The visible elements of a list.
LEMMA VisibleFacts ==
  ASSUME NEW R, NEW list \in Seq(R), IsInjective(list)
  PROVE  /\ Visible(list) \in Seq(R) /\ IsInjective(Visible(list))
         /\ Elements(Visible(list)) = { x \in Elements(list) : ~x.hidden }
BY MembersFacts DEF Visible, Select

-----------------------------------------------------------------------------
(***************************************************************************)
(* Changes of the graph that are told, or about hidden objects.            *)
(***************************************************************************)

\* The same objects and the same next ids.
SameObjects(r, h) ==
  /\ Clients(r) = Clients(h) /\ Ports(r) = Ports(h) /\ Conns(r) = Conns(h)
  /\ r.nextClient = h.nextClient /\ r.nextPort = h.nextPort

\* Saying something leaves the objects as they are.
LEMMA SaidSame ==
  ASSUME NEW h, Sound(h), NEW s \in SignalRecs
  PROVE  Sound(Say(h, s)) /\ SameObjects(Say(h, s), h)
<1>1. h \in Graphs /\ h.version \in Nat BY SoundTypes
<1> DEFINE r == Say(h, s)
<1>2. /\ r \in Graphs /\ r.version = h.version + 1 /\ r.nextClient = h.nextClient /\ r.nextPort = h.nextPort
      /\ r.clients = h.clients /\ r.ports = h.ports /\ r.conns = h.conns
  BY <1>1, SayFields
<1> HIDE DEF r
<1>3. SameObjects(r, h) BY <1>2 DEF SameObjects, Clients, Ports, Conns
<1>4. r.version # 0 BY <1>1, <1>2
<1>5. Sound(r) BY <1>2, <1>3, <1>4 DEF Sound, SameObjects
<1> QED BY <1>3, <1>5 DEF r

\* So does emitting it.
LEMMA EmittedSame ==
  ASSUME NEW h, Sound(h), NEW s \in SignalRecs
  PROVE  Sound(Emit(h, s)) /\ SameObjects(Emit(h, s), h)
<1>1. h \in Graphs BY SoundTypes
<1> DEFINE r == Emit(h, s)
<1>2. /\ r \in Graphs /\ r.version = h.version /\ r.nextClient = h.nextClient /\ r.nextPort = h.nextPort
      /\ r.clients = h.clients /\ r.ports = h.ports /\ r.conns = h.conns
  BY <1>1, EmitFields
<1> HIDE DEF r
<1>3. SameObjects(r, h) BY <1>2 DEF SameObjects, Clients, Ports, Conns
<1>5. Sound(r) BY <1>2, <1>3 DEF Sound, SameObjects
<1> QED BY <1>3, <1>5 DEF r

\* h is g with other objects: nothing was said yet.
Changed(g, h) == Sound(g) /\ Sound(h) /\ h.sent = g.sent /\ h.version = g.version /\ Buries(g, h)

\* A change that is told leads to the view that shows the changed graph.
LEMMA Said ==
  ASSUME NEW g, NEW h, Changed(g, h), NEW c, NEW w, Tracked(c, g, w),
         NEW s \in SignalRecs, s.kind # "silent", Legal(w, s), ~(s.kind = "PortAppeared" /\ Dead(h, s.port)),
         Shows(Canvas(w, s), h)
  PROVE  Good(c, Say(h, s)) /\ SameObjects(Say(h, s), h)
<1>1. g \in Graphs /\ h \in Graphs BY SoundTypes DEF Changed
<1>2. Tracked(c, Say(h, s), Canvas(w, s)) BY <1>1, TrackedSay DEF Changed
<1>3. Sound(Say(h, s)) /\ SameObjects(Say(h, s), h) BY SaidSame DEF Changed
<1>4. Shows(Canvas(w, s), Say(h, s)) BY <1>3 DEF Shows, SameObjects
<1> QED BY <1>2, <1>3, <1>4 DEF Good

\* A change that is not told leaves the view.
LEMMA SaidSilently ==
  ASSUME NEW g, NEW h, Changed(g, h), NEW c, NEW w, Tracked(c, g, w),
         NEW s \in SignalRecs, s.kind = "silent", Shows(w, h)
  PROVE  Good(c, Say(h, s)) /\ SameObjects(Say(h, s), h)
<1>1. g \in Graphs /\ h \in Graphs BY SoundTypes DEF Changed
<1>2. Tracked(c, Say(h, s), w) BY <1>1, TrackedSilence DEF Changed
<1>3. Sound(Say(h, s)) /\ SameObjects(Say(h, s), h) BY SaidSame DEF Changed
<1>4. Shows(w, Say(h, s)) BY <1>3 DEF Shows, SameObjects
<1> QED BY <1>2, <1>3, <1>4 DEF Good

\* No port gets an id that was used before.
LEMMA Burying ==
  ASSUME NEW g, NEW h, Sound(g), Sound(h), g.nextPort <= h.nextPort,
         \A p \in Ports(h) : p.id >= g.nextPort \/ \E q \in Ports(g) : q.id = p.id
  PROVE  Buries(g, h)
<1>1. g.nextPort \in Nat /\ h.nextPort \in Nat BY SoundTypes
<1>2. \A p \in Ports(h) : p.id \in Nat BY SoundTypes DEF PortRecs
<1>3. Ids(h.ports) = { p.id : p \in Ports(h) } /\ Ids(g.ports) = { p.id : p \in Ports(g) } BY DEF Ids, Ports
<1> QED BY <1>1, <1>2, <1>3 DEF Buries, Dead

-----------------------------------------------------------------------------
SwappedById(r, list, a, b) == r = [i \in DOMAIN list |-> IF list[i].id = a.id THEN b ELSE list[i]]

\* y may take the place of x: no visible port is left in a hidden client.
ClientFits(g, x, y) ==
  y.hidden => x.hidden \/ \A p \in Ports(g) : p.client = x.id => p.hidden

\* A client is changed in its place.
LEMMA ClientReplaced ==
  ASSUME NEW g, Sound(g), NEW x \in Clients(g), NEW y \in ClientRecs, y.id = x.id,
         ClientFits(g, x, y),
         NEW l, SwappedById(l, g.clients, x, y),
         NEW h, h = [g EXCEPT !.clients = l]
  PROVE  /\ Changed(g, h) /\ h.nextClient = g.nextClient /\ h.nextPort = g.nextPort
         /\ Clients(h) = (Clients(g) \ {x}) \cup {y} /\ Ports(h) = Ports(g) /\ Conns(h) = Conns(g)
<1>1. g \in Graphs /\ g.clients \in Seq(ClientRecs) /\ IsInjective(g.clients) /\ g.nextPort \in Nat
  BY SoundTypes DEF Sound
<1>2. \A i \in DOMAIN g.clients : g.clients[i] \in Clients(g) BY DEF Clients, Elements
<1>3. \A z \in Clients(g) : z.id = x.id <=> z = x BY DEF Sound, ClientsSound
<1>4. Swapped(l, g.clients, x, y) BY <1>2, <1>3 DEF Swapped, SwappedById
<1>5. y \notin Elements(g.clients) \ {x} BY <1>3 DEF Clients
<1>6. l \in Seq(ClientRecs) /\ IsInjective(l) /\ Elements(l) = (Elements(g.clients) \ {x}) \cup {y}
  <2>1. x \in Elements(g.clients) BY DEF Clients
  <2> QED BY <1>1, <1>4, <1>5, <2>1, Replaced
<1>7. /\ h \in Graphs /\ h.clients = l /\ h.ports = g.ports /\ h.conns = g.conns /\ h.version = g.version
      /\ h.nextClient = g.nextClient /\ h.nextPort = g.nextPort /\ h.sent = g.sent
  BY <1>1, <1>6 DEF Graphs
<1>8. Clients(h) = (Clients(g) \ {x}) \cup {y} /\ Ports(h) = Ports(g) /\ Conns(h) = Conns(g)
  BY <1>6, <1>7 DEF Clients, Ports, Conns
<1>9. ClientsSound(Clients(h), h.nextClient) BY <1>7, <1>8 DEF Sound, ClientsSound
<1>10. PortsInside(Clients(h), Ports(h))
  <2> SUFFICES ASSUME NEW p \in Ports(g)
               PROVE  \E z \in Clients(h) : z.id = p.client /\ (z.hidden => p.hidden)
    BY <1>8 DEF PortsInside
  <2>1. PICK z \in Clients(g) : z.id = p.client /\ (z.hidden => p.hidden) BY DEF Sound, PortsInside
  <2>2. CASE z = x
    <3>1. y \in Clients(h) /\ y.id = p.client BY <1>8, <2>1, <2>2
    <3>2. y.hidden => p.hidden BY <2>1, <2>2 DEF ClientFits
    <3> QED BY <3>1, <3>2
  <2>3. CASE z # x BY <1>8, <2>1, <2>3
  <2> QED BY <2>2, <2>3
<1>11. Sound(h) BY <1>6, <1>7, <1>8, <1>9, <1>10 DEF Sound
<1>12. Buries(g, h)
  <2>1. g.nextPort <= h.nextPort BY <1>1, <1>7
  <2>2. \A p \in Ports(h) : p.id >= g.nextPort \/ \E q \in Ports(g) : q.id = p.id BY <1>8
  <2> QED BY <1>11, <2>1, <2>2, Burying
<1> QED BY <1>7, <1>8, <1>11, <1>12 DEF Changed

\* A signal about a client.
LEMMA ClientSignalFields ==
  ASSUME NEW kind \in Kinds, NEW x \in ClientRecs
  PROVE  /\ ClientSignal(kind, x) \in SignalRecs
         /\ ClientSignal(kind, x).kind = IF x.hidden THEN "silent" ELSE kind
         /\ ClientSignal(kind, x).client = x.id /\ ClientSignal(kind, x).name = x.name
BY DEF ClientSignal, Signal, ClientRecs, SignalRecs, Kinds

\* A signal about a port.
LEMMA PortSignalFields ==
  ASSUME NEW kind \in Kinds, NEW x \in PortRecs
  PROVE  /\ PortSignal(kind, x) \in SignalRecs
         /\ PortSignal(kind, x).kind = IF x.hidden THEN "silent" ELSE kind
         /\ PortSignal(kind, x).client = x.client /\ PortSignal(kind, x).port = x.id
         /\ PortSignal(kind, x).name = x.name
BY DEF PortSignal, Signal, PortRecs, SignalRecs, Kinds

\* A signal about a connection.
LEMMA ConnSignalFields ==
  ASSUME NEW kind \in Kinds, NEW x \in ConnRecs
  PROVE  /\ ConnSignal(kind, x) \in SignalRecs
         /\ ConnSignal(kind, x).kind = IF x.hidden THEN "silent" ELSE kind
         /\ ConnSignal(kind, x).ends = x.ends
BY DEF ConnSignal, Signal, ConnRecs, SignalRecs, Kinds

\* What is shown, object by object.
LEMMA ShowsFacts ==
  ASSUME NEW g, Sound(g), NEW w, Shows(w, g)
  PROVE  /\ Shape(w)
         /\ \A c \in Clients(g) : c.id \in DOMAIN w.clients <=> ~c.hidden
         /\ \A c \in Clients(g) : ~c.hidden => w.clients[c.id] = c.name
         /\ \A p \in Ports(g) : p.id \in DOMAIN w.ports <=> ~p.hidden
         /\ \A p \in Ports(g) : ~p.hidden => w.ports[p.id].client = p.client /\ w.ports[p.id].name = p.name
         /\ \A k \in Conns(g) : k.ends \in w.conns <=> ~k.hidden
         /\ \A i \in DOMAIN w.ports : \E p \in Ports(g) : p.id = i /\ ~p.hidden
         /\ \A e \in w.conns : \E k \in Conns(g) : k.ends = e /\ ~k.hidden
<1>1. Shape(w) /\ ShowsClients(w, Clients(g)) /\ ShowsPorts(w, Ports(g)) /\ ShowsConns(w, Conns(g)) BY DEF Shows
<1>2. \A x, y \in Clients(g) : x.id = y.id => x = y BY DEF Sound, ClientsSound
<1>3. \A x, y \in Ports(g) : x.id = y.id => x = y BY DEF Sound, PortsSound
<1>4. \A x, y \in Conns(g) : x.ends = y.ends => x = y BY DEF Sound, ConnsSound
<1>5. /\ \A c \in Clients(g) : c.id \in DOMAIN w.clients <=> ~c.hidden
      /\ \A c \in Clients(g) : ~c.hidden => w.clients[c.id] = c.name
  BY <1>1, <1>2 DEF ShowsClients
<1>6. /\ \A p \in Ports(g) : p.id \in DOMAIN w.ports <=> ~p.hidden
      /\ \A i \in DOMAIN w.ports : \E p \in Ports(g) : p.id = i /\ ~p.hidden
  BY <1>1, <1>3 DEF ShowsPorts
<1>7. \A p \in Ports(g) : ~p.hidden => w.ports[p.id].client = p.client /\ w.ports[p.id].name = p.name
  <2> SUFFICES ASSUME NEW p \in Ports(g), ~p.hidden
               PROVE  w.ports[p.id].client = p.client /\ w.ports[p.id].name = p.name
    OBVIOUS
  <2>1. w.ports[p.id] = [client |-> p.client, name |-> p.name] BY <1>1 DEF ShowsPorts
  <2> QED BY <2>1
<1>8. /\ \A k \in Conns(g) : k.ends \in w.conns <=> ~k.hidden
      /\ \A e \in w.conns : \E k \in Conns(g) : k.ends = e /\ ~k.hidden
  BY <1>1, <1>4 DEF ShowsConns
<1> QED BY <1>1, <1>5, <1>6, <1>7, <1>8

-----------------------------------------------------------------------------
(***************************************************************************)
(* What is shown when one visible object changes: clients.                 *)
(***************************************************************************)

\* The visible objects of a set decide what is shown of it.
Vis(S) == { x \in S : ~x.hidden }

\* A client that is shown anew, or with another name.
LEMMA ShownClientsPut ==
  ASSUME NEW w, NEW v, NEW C, NEW D, NEW y, ShowsClients(w, C), PutAt(w.clients, v.clients, y.id, y.name),
         Vis(D) = { z \in Vis(C) : z.id # y.id } \cup {y}
  PROVE  ShowsClients(v, D)
<1>1. \A z : z \in D /\ ~z.hidden <=> (z \in C /\ ~z.hidden /\ z.id # y.id) \/ z = y BY DEF Vis
<1>2. \A i : i \in DOMAIN v.clients <=> \E c \in D : c.id = i /\ ~c.hidden
  BY <1>1 DEF ShowsClients, PutAt
<1>3. \A c \in D : ~c.hidden => v.clients[c.id] = c.name
  BY <1>1 DEF ShowsClients, PutAt
<1> QED BY <1>2, <1>3 DEF ShowsClients

\* A client that is no longer shown.
LEMMA ShownClientsDrop ==
  ASSUME NEW w, NEW v, NEW C, NEW D, NEW j, ShowsClients(w, C), DroppedFrom(w.clients, v.clients, {j}),
         Vis(D) = { z \in Vis(C) : z.id # j }
  PROVE  ShowsClients(v, D)
<1>1. \A z : z \in D /\ ~z.hidden <=> z \in C /\ ~z.hidden /\ z.id # j BY DEF Vis
<1>2. \A i : i \in DOMAIN v.clients <=> \E c \in D : c.id = i /\ ~c.hidden
  BY <1>1 DEF ShowsClients, DroppedFrom
<1>3. \A c \in D : ~c.hidden => v.clients[c.id] = c.name
  BY <1>1 DEF ShowsClients, DroppedFrom
<1> QED BY <1>2, <1>3 DEF ShowsClients

\* No visible client changes.
LEMMA ShownClientsSame ==
  ASSUME NEW w, NEW v, NEW C, NEW D, ShowsClients(w, C), v.clients = w.clients, Vis(D) = Vis(C)
  PROVE  ShowsClients(v, D)
<1>1. \A z : z \in D /\ ~z.hidden <=> z \in C /\ ~z.hidden BY DEF Vis
<1> QED BY <1>1 DEF ShowsClients

\* A port that is shown anew, or changed.
LEMMA ShownPortsPut ==
  ASSUME NEW w, NEW v, NEW P, NEW Q, NEW y, ShowsPorts(w, P),
         PutAt(w.ports, v.ports, y.id, [client |-> y.client, name |-> y.name]),
         Vis(Q) = { z \in Vis(P) : z.id # y.id } \cup {y}
  PROVE  ShowsPorts(v, Q)
<1>1. \A z : z \in Q /\ ~z.hidden <=> (z \in P /\ ~z.hidden /\ z.id # y.id) \/ z = y BY DEF Vis
<1>2. \A i : i \in DOMAIN v.ports <=> \E p \in Q : p.id = i /\ ~p.hidden
  BY <1>1 DEF ShowsPorts, PutAt
<1>3. \A p \in Q : ~p.hidden => v.ports[p.id] = [client |-> p.client, name |-> p.name]
  BY <1>1 DEF ShowsPorts, PutAt
<1> QED BY <1>2, <1>3 DEF ShowsPorts

\* A port that is no longer shown.
LEMMA ShownPortsDrop ==
  ASSUME NEW w, NEW v, NEW P, NEW Q, NEW j, ShowsPorts(w, P), DroppedFrom(w.ports, v.ports, {j}),
         Vis(Q) = { z \in Vis(P) : z.id # j }
  PROVE  ShowsPorts(v, Q)
<1>1. \A z : z \in Q /\ ~z.hidden <=> z \in P /\ ~z.hidden /\ z.id # j BY DEF Vis
<1>2. \A i : i \in DOMAIN v.ports <=> \E p \in Q : p.id = i /\ ~p.hidden
  BY <1>1 DEF ShowsPorts, DroppedFrom
<1>3. \A p \in Q : ~p.hidden => v.ports[p.id] = [client |-> p.client, name |-> p.name]
  BY <1>1 DEF ShowsPorts, DroppedFrom
<1> QED BY <1>2, <1>3 DEF ShowsPorts

\* No visible port changes.
LEMMA ShownPortsSame ==
  ASSUME NEW w, NEW v, NEW P, NEW Q, ShowsPorts(w, P), v.ports = w.ports, Vis(Q) = Vis(P)
  PROVE  ShowsPorts(v, Q)
<1>1. \A z : z \in Q /\ ~z.hidden <=> z \in P /\ ~z.hidden BY DEF Vis
<1> QED BY <1>1 DEF ShowsPorts

\* A connection that is shown anew.
LEMMA ShownConnsPut ==
  ASSUME NEW w, NEW v, NEW K, NEW L, NEW y, ShowsConns(w, K), v.conns = w.conns \cup {y.ends},
         Vis(L) = Vis(K) \cup {y}
  PROVE  ShowsConns(v, L)
<1>1. \A z : z \in L /\ ~z.hidden <=> (z \in K /\ ~z.hidden) \/ z = y BY DEF Vis
<1> QED BY <1>1 DEF ShowsConns

ConnLeft(w, v, e) == v.conns = w.conns \ {e}

\* A connection that is no longer shown.
LEMMA ShownConnsDrop ==
  ASSUME NEW w, NEW v, NEW K, NEW L, NEW e, ShowsConns(w, K), ConnLeft(w, v, e),
         Vis(L) = { z \in Vis(K) : z.ends # e }
  PROVE  ShowsConns(v, L)
<1>1. \A z : z \in L /\ ~z.hidden <=> z \in K /\ ~z.hidden /\ z.ends # e BY DEF Vis
<1> QED BY <1>1 DEF ShowsConns, ConnLeft

\* No visible connection changes.
LEMMA ShownConnsSame ==
  ASSUME NEW w, NEW v, NEW K, NEW L, ShowsConns(w, K), v.conns = w.conns, Vis(L) = Vis(K)
  PROVE  ShowsConns(v, L)
<1>1. \A z : z \in L /\ ~z.hidden <=> z \in K /\ ~z.hidden BY DEF Vis
<1> QED BY <1>1 DEF ShowsConns

-----------------------------------------------------------------------------
\* What is visible of one kind of objects stays.
SameClientsSeen(g, h) == Vis(Clients(h)) = Vis(Clients(g))
SamePortsSeen(g, h) == Vis(Ports(h)) = Vis(Ports(g))
SameConnsSeen(g, h) == Vis(Conns(h)) = Vis(Conns(g))

\* A change of something hidden keeps Good.
LEMMA SaidQuietly ==
  ASSUME NEW g, NEW h, Changed(g, h), SameClientsSeen(g, h), SamePortsSeen(g, h), SameConnsSeen(g, h),
         NEW c, Good(c, g), NEW s \in SignalRecs, s.kind = "silent"
  PROVE  /\ Good(c, Say(h, s)) /\ SameObjects(Say(h, s), h)
         /\ Good(c, Emit(h, s)) /\ SameObjects(Emit(h, s), h)
         /\ Good(c, h)
<1>1. PICK w : Shows(w, g) /\ Tracked(c, g, w) BY DEF Good
<1>2. Shows(w, h)
  BY <1>1, ShownClientsSame, ShownPortsSame, ShownConnsSame
     DEF Shows, SameClientsSeen, SamePortsSeen, SameConnsSeen
<1>3. g \in Graphs /\ h \in Graphs /\ Sound(h) BY SoundTypes DEF Changed
<1>4. Good(c, Say(h, s)) /\ SameObjects(Say(h, s), h) BY <1>1, <1>2, SaidSilently
<1>5. Tracked(c, Emit(h, s), w) BY <1>1, <1>3, TrackedSilence DEF Changed
<1>6. Sound(Emit(h, s)) /\ SameObjects(Emit(h, s), h) BY <1>3, EmittedSame
<1>7. Good(c, Emit(h, s)) BY <1>2, <1>5, <1>6 DEF Good, Shows, SameObjects
<1>8. g.version <= h.version BY <1>3, SoundTypes DEF Changed
<1>9. Tracked(c, h, w) BY <1>1, <1>3, <1>8, TrackedQuietly DEF Changed
<1>10. Good(c, h) BY <1>2, <1>3, <1>9 DEF Good
<1> QED BY <1>4, <1>6, <1>7, <1>10

\* A client becomes visible.
LEMMA SaidClientAppears ==
  ASSUME NEW g, NEW h, Changed(g, h), SamePortsSeen(g, h), SameConnsSeen(g, h),
         NEW c, Good(c, g), NEW y \in ClientRecs, ~y.hidden, \A z \in Vis(Clients(g)) : z.id # y.id,
         Vis(Clients(h)) = Vis(Clients(g)) \cup {y}
  PROVE  LET r == Say(h, ClientSignal("ClientAppeared", y)) IN Good(c, r) /\ SameObjects(r, h)
<1> DEFINE s == ClientSignal("ClientAppeared", y)
<1>1. s \in SignalRecs /\ s.kind = "ClientAppeared" /\ s.client = y.id /\ s.name = y.name
  BY ClientSignalFields DEF Kinds
<1> HIDE DEF s
<1>2. PICK w : Shows(w, g) /\ Tracked(c, g, w) BY DEF Good
<1> DEFINE v == Canvas(w, s)
<1>3. Legal(w, s) BY <1>1, <1>2 DEF Legal, Shows, ShowsClients, Vis
<1>4. Shape(v) /\ v.ports = w.ports /\ v.conns = w.conns /\ PutAt(w.clients, v.clients, y.id, y.name)
  BY <1>1, <1>2, CanvasClientAppears DEF Shows
<1> HIDE DEF v
<1>5. Vis(Clients(h)) = { z \in Vis(Clients(g)) : z.id # y.id } \cup {y} OBVIOUS
<1>6. Shows(v, h)
  BY <1>2, <1>4, <1>5, ShownClientsPut, ShownPortsSame, ShownConnsSame
     DEF Shows, SamePortsSeen, SameConnsSeen
<1> QED BY <1>1, <1>2, <1>3, <1>6, Said DEF v, s

\* A visible client gets a name.
LEMMA SaidClientRenamed ==
  ASSUME NEW g, NEW h, Changed(g, h), SamePortsSeen(g, h), SameConnsSeen(g, h),
         NEW c, Good(c, g), NEW y \in ClientRecs, ~y.hidden, NEW x \in Vis(Clients(g)), x.id = y.id,
         Vis(Clients(h)) = (Vis(Clients(g)) \ {x}) \cup {y}
  PROVE  LET r == Say(h, ClientSignal("ClientRenamed", y)) IN Good(c, r) /\ SameObjects(r, h)
<1> DEFINE s == ClientSignal("ClientRenamed", y)
<1>1. s \in SignalRecs /\ s.kind = "ClientRenamed" /\ s.client = y.id /\ s.name = y.name
  BY ClientSignalFields DEF Kinds
<1> HIDE DEF s
<1>2. PICK w : Shows(w, g) /\ Tracked(c, g, w) BY DEF Good
<1> DEFINE v == Canvas(w, s)
<1>3. Legal(w, s) /\ s.client \in DOMAIN w.clients BY <1>1, <1>2 DEF Legal, Shows, ShowsClients, Vis
<1>4. Shape(v) /\ v.ports = w.ports /\ v.conns = w.conns /\ PutAt(w.clients, v.clients, y.id, y.name)
  BY <1>1, <1>2, <1>3, CanvasClientRenamed DEF Shows
<1> HIDE DEF v
<1>5. \A z \in Vis(Clients(g)) : z.id = y.id <=> z = x BY DEF Changed, Sound, ClientsSound, Vis
<1>6. Vis(Clients(h)) = { z \in Vis(Clients(g)) : z.id # y.id } \cup {y} BY <1>5
<1>7. Shows(v, h)
  BY <1>2, <1>4, <1>6, ShownClientsPut, ShownPortsSame, ShownConnsSame
     DEF Shows, SamePortsSeen, SameConnsSeen
<1> QED BY <1>1, <1>2, <1>3, <1>7, Said DEF v, s

\* A client without visible ports is hidden or removed.
LEMMA SaidClientDisappears ==
  ASSUME NEW g, NEW h, Changed(g, h), SamePortsSeen(g, h), SameConnsSeen(g, h),
         NEW c, Good(c, g), NEW x \in Vis(Clients(g)), \A p \in Ports(g) : p.client = x.id => p.hidden,
         Vis(Clients(h)) = Vis(Clients(g)) \ {x}
  PROVE  LET r == Say(h, ClientSignal("ClientDisappeared", x)) IN Good(c, r) /\ SameObjects(r, h)
<1> DEFINE s == ClientSignal("ClientDisappeared", x)
<1>0. Sound(g) /\ x \in Clients(g) /\ ~x.hidden /\ x \in ClientRecs BY SoundTypes DEF Good, Vis
<1>1. s \in SignalRecs /\ s.kind = "ClientDisappeared" /\ s.client = x.id
  BY <1>0, ClientSignalFields DEF Kinds
<1> HIDE DEF s
<1>2. PICK w : Shows(w, g) /\ Tracked(c, g, w) BY DEF Good
<1> DEFINE v == Canvas(w, s)
<1>3. /\ Shape(w) /\ x.id \in DOMAIN w.clients
      /\ \A i \in DOMAIN w.ports : w.ports[i].client # x.id
      /\ \A e \in w.conns : e \subseteq DOMAIN w.ports
  <2>1. \A i \in DOMAIN w.ports : w.ports[i].client # x.id BY <1>0, <1>2, ShowsFacts
  <2>2. ASSUME NEW e \in w.conns, NEW i \in e PROVE i \in DOMAIN w.ports
    <3>1. PICK k \in Conns(g) : k.ends = e /\ ~k.hidden BY <1>0, <1>2, <2>2, ShowsFacts
    <3>2. PICK p \in Ports(g) : p.id = i /\ ~p.hidden BY <1>0, <2>2, <3>1 DEF Sound, ConnsInside
    <3> QED BY <1>0, <1>2, <3>2, ShowsFacts
  <2> QED BY <1>0, <1>2, <2>1, <2>2, ShowsFacts
<1>4. Legal(w, s) BY <1>1, <1>3 DEF Legal
<1>5. { p \in DOMAIN w.ports : w.ports[p].client = s.client } = {} BY <1>1, <1>3
<1>6. /\ Shape(v) /\ DroppedFrom(w.clients, v.clients, {x.id}) /\ DroppedFrom(w.ports, v.ports, {})
      /\ v.conns = Shown(v.ports, w.conns)
  <2>1. DroppedFrom(w.ports, v.ports, { p \in DOMAIN w.ports : w.ports[p].client = s.client })
    BY <1>1, <1>3, CanvasClientDisappears
  <2>2. Shape(v) /\ DroppedFrom(w.clients, v.clients, {s.client}) /\ v.conns = Shown(v.ports, w.conns)
    BY <1>1, <1>3, CanvasClientDisappears
  <2> HIDE DEF v
  <2> QED BY <2>1, <2>2, <1>1, <1>5
<1> HIDE DEF v
<1>7. v.ports = w.ports /\ v.conns = w.conns
  <2>1. DOMAIN v.ports = DOMAIN w.ports /\ \A i \in DOMAIN w.ports : v.ports[i] = w.ports[i] BY <1>6 DEF DroppedFrom
  <2>2. v.ports = w.ports BY <2>1, <1>3, <1>6 DEF Shape, IsMap
  <2> QED BY <2>2, <1>3, <1>6 DEF Shown
<1>8. \A z \in Vis(Clients(g)) : z.id = x.id <=> z = x BY <1>0 DEF Sound, ClientsSound, Vis
<1>9. Vis(Clients(h)) = { z \in Vis(Clients(g)) : z.id # x.id } BY <1>8
<1>10. Shows(v, h)
  <2>1. ShowsClients(v, Clients(h)) BY <1>2, <1>6, <1>9, ShownClientsDrop DEF Shows
  <2>2. ShowsPorts(v, Ports(h)) /\ ShowsConns(v, Conns(h))
    BY <1>2, <1>7, ShownPortsSame, ShownConnsSame DEF Shows, SamePortsSeen, SameConnsSeen
  <2> QED BY <1>6, <2>1, <2>2 DEF Shows
<1> QED BY <1>1, <1>2, <1>4, <1>10, Said DEF v, s

-----------------------------------------------------------------------------
(***************************************************************************)
(* The same for ports and connections.                                     *)
(***************************************************************************)

\* The view of a sound graph has no dangling ports or connections.
LEMMA ShowsGood ==
  ASSUME NEW g, Sound(g), NEW w, Shows(w, g)
  PROVE  GoodView(w)
<1>1. ASSUME NEW i \in DOMAIN w.ports PROVE w.ports[i].client \in DOMAIN w.clients
  <2>1. PICK p \in Ports(g) : p.id = i /\ ~p.hidden BY ShowsFacts
  <2>2. w.ports[i].client = p.client BY <2>1, ShowsFacts
  <2>3. PICK x \in Clients(g) : x.id = p.client /\ ~x.hidden BY <2>1 DEF Sound, PortsInside
  <2>4. x.id \in DOMAIN w.clients BY <2>3, ShowsFacts
  <2> QED BY <2>2, <2>3, <2>4
<1>2. ASSUME NEW e \in w.conns, NEW i \in e PROVE i \in DOMAIN w.ports
  <2>1. PICK k \in Conns(g) : k.ends = e /\ ~k.hidden BY <1>2, ShowsFacts
  <2>2. PICK p \in Ports(g) : p.id = i /\ ~p.hidden BY <1>2, <2>1 DEF Sound, ConnsInside
  <2> QED BY <2>2, ShowsFacts
<1>3. Shape(w) BY DEF Shows
<1> QED BY <1>1, <1>2, <1>3 DEF GoodView

\* A port of a visible client becomes visible.
LEMMA SaidPortAppears ==
  ASSUME NEW g, NEW h, Changed(g, h), SameClientsSeen(g, h), SameConnsSeen(g, h),
         NEW c, Good(c, g), NEW y \in PortRecs, ~y.hidden, \A z \in Vis(Ports(g)) : z.id # y.id,
         y \in Ports(h), Vis(Ports(h)) = Vis(Ports(g)) \cup {y}
  PROVE  LET r == Say(h, PortSignal("PortAppeared", y)) IN Good(c, r) /\ SameObjects(r, h)
<1> DEFINE s == PortSignal("PortAppeared", y)
<1>1. s \in SignalRecs /\ s.kind = "PortAppeared" /\ s.client = y.client /\ s.port = y.id /\ s.name = y.name
  BY PortSignalFields DEF Kinds
<1> HIDE DEF s
<1>2. PICK w : Shows(w, g) /\ Tracked(c, g, w) BY DEF Good
<1> DEFINE v == Canvas(w, s)
<1>3. y.client \in DOMAIN w.clients
  <2>1. PICK x \in Clients(h) : x.id = y.client /\ ~x.hidden BY DEF Changed, Sound, PortsInside
  <2>2. x \in Clients(g) /\ ~x.hidden BY <2>1 DEF SameClientsSeen, Vis
  <2> QED BY <2>1, <2>2, <1>2 DEF Shows, ShowsClients
<1>4. Legal(w, s)
  <2>1. y.id \notin DOMAIN w.ports BY <1>2 DEF Shows, ShowsPorts, Vis
  <2> QED BY <1>1, <1>3, <2>1 DEF Legal
<1>5. /\ Shape(v) /\ v.clients = w.clients /\ v.conns = w.conns
      /\ PutAt(w.ports, v.ports, y.id, [client |-> y.client, name |-> y.name])
  BY <1>1, <1>2, <1>3, CanvasPortAppears DEF Shows
<1> HIDE DEF v
<1>6. Vis(Ports(h)) = { z \in Vis(Ports(g)) : z.id # y.id } \cup {y} OBVIOUS
<1>7. Shows(v, h)
  <2>1. ShowsPorts(v, Ports(h)) BY <1>2, <1>5, <1>6, ShownPortsPut DEF Shows
  <2>2. ShowsClients(v, Clients(h)) /\ ShowsConns(v, Conns(h))
    BY <1>2, <1>5, ShownClientsSame, ShownConnsSame DEF Shows, SameClientsSeen, SameConnsSeen
  <2> QED BY <1>5, <2>1, <2>2 DEF Shows
<1>8. ~Dead(h, s.port) BY <1>1 DEF Dead, Ids, Ports
<1> QED BY <1>1, <1>2, <1>4, <1>7, <1>8, Said DEF v, s

\* A visible port gets a name.
LEMMA SaidPortRenamed ==
  ASSUME NEW g, NEW h, Changed(g, h), SameClientsSeen(g, h), SameConnsSeen(g, h),
         NEW c, Good(c, g), NEW y \in PortRecs, ~y.hidden,
         NEW x \in Vis(Ports(g)), x.id = y.id, x.client = y.client,
         Vis(Ports(h)) = (Vis(Ports(g)) \ {x}) \cup {y}
  PROVE  LET r == Say(h, PortSignal("PortRenamed", y)) IN Good(c, r) /\ SameObjects(r, h)
<1> DEFINE s == PortSignal("PortRenamed", y)
<1>1. s \in SignalRecs /\ s.kind = "PortRenamed" /\ s.client = y.client /\ s.port = y.id /\ s.name = y.name
  BY PortSignalFields DEF Kinds
<1> HIDE DEF s
<1>2. PICK w : Shows(w, g) /\ Tracked(c, g, w) BY DEF Good
<1> DEFINE v == Canvas(w, s)
<1>3. KnownPort(w, s)
  <2>1. x \in Ports(g) /\ ~x.hidden /\ Sound(g) BY DEF Vis, Good
  <2>2. x.id \in DOMAIN w.ports /\ w.ports[x.id].client = x.client BY <1>2, <2>1, ShowsFacts
  <2> QED BY <1>1, <2>2 DEF KnownPort
<1>4. Legal(w, s) BY <1>1, <1>3 DEF Legal, KnownPort
<1>5. /\ Shape(v) /\ v.clients = w.clients /\ v.conns = w.conns
      /\ PutAt(w.ports, v.ports, y.id, [client |-> y.client, name |-> y.name])
  BY <1>1, <1>2, <1>3, CanvasPortRenamed DEF Shows
<1> HIDE DEF v
<1>6. \A z \in Vis(Ports(g)) : z.id = y.id <=> z = x BY DEF Changed, Sound, PortsSound, Vis
<1>7. Vis(Ports(h)) = { z \in Vis(Ports(g)) : z.id # y.id } \cup {y} BY <1>6
<1>8. Shows(v, h)
  <2>1. ShowsPorts(v, Ports(h)) BY <1>2, <1>5, <1>7, ShownPortsPut DEF Shows
  <2>2. ShowsClients(v, Clients(h)) /\ ShowsConns(v, Conns(h))
    BY <1>2, <1>5, ShownClientsSame, ShownConnsSame DEF Shows, SameClientsSeen, SameConnsSeen
  <2> QED BY <1>5, <2>1, <2>2 DEF Shows
<1> QED BY <1>1, <1>2, <1>4, <1>8, Said DEF v, s

\* What a canvas makes of the news that the visible port x is gone.
LEMMA PortLeaves ==
  ASSUME NEW g, NEW h, Changed(g, h), SameClientsSeen(g, h), SameConnsSeen(g, h),
         NEW x \in Vis(Ports(g)), \A k \in Vis(Conns(g)) : x.id \notin k.ends,
         Vis(Ports(h)) = Vis(Ports(g)) \ {x},
         NEW w, Shows(w, g), NEW s, s.kind = "PortDisappeared", s.client = x.client, s.port = x.id
  PROVE  Legal(w, s) /\ Shows(Canvas(w, s), h)
<1> DEFINE v == Canvas(w, s)
<1>1. Sound(g) /\ x \in Ports(g) /\ ~x.hidden BY DEF Changed, Vis
<1>2. KnownPort(w, s)
  <2>1. x.id \in DOMAIN w.ports /\ w.ports[x.id].client = x.client BY <1>1, ShowsFacts
  <2> QED BY <2>1 DEF KnownPort
<1>3. \A e \in w.conns : x.id \notin e BY <1>1, ShowsFacts DEF Vis
<1>4. Legal(w, s) BY <1>2, <1>3 DEF Legal, KnownPort
<1>5. /\ Shape(v) /\ v.clients = w.clients /\ v.conns = Shown(v.ports, w.conns)
      /\ DroppedFrom(w.ports, v.ports, {s.port})
  BY <1>2, CanvasPortDisappears DEF Shows
<1> HIDE DEF v
<1>6. v.conns = w.conns
  <2>1. \A e \in w.conns : e \subseteq DOMAIN w.ports BY <1>1, ShowsGood DEF GoodView
  <2> QED BY <2>1, <1>3, <1>5 DEF Shown, DroppedFrom
<1>7. \A z \in Vis(Ports(g)) : z.id = s.port <=> z = x BY <1>1 DEF Sound, PortsSound, Vis
<1>8. Vis(Ports(h)) = { z \in Vis(Ports(g)) : z.id # s.port } BY <1>7
<1>9. Shows(v, h)
  <2>1. ShowsPorts(v, Ports(h)) BY <1>5, <1>8, ShownPortsDrop DEF Shows
  <2>2. ShowsClients(v, Clients(h)) /\ ShowsConns(v, Conns(h))
    BY <1>5, <1>6, ShownClientsSame, ShownConnsSame DEF Shows, SameClientsSeen, SameConnsSeen
  <2> QED BY <1>5, <2>1, <2>2 DEF Shows
<1> QED BY <1>4, <1>9 DEF v

\* A port without visible connections is hidden.
LEMMA SaidPortDisappears ==
  ASSUME NEW g, NEW h, Changed(g, h), SameClientsSeen(g, h), SameConnsSeen(g, h),
         NEW c, Good(c, g), NEW x \in Vis(Ports(g)), \A k \in Vis(Conns(g)) : x.id \notin k.ends,
         Vis(Ports(h)) = Vis(Ports(g)) \ {x}
  PROVE  LET r == Say(h, PortSignal("PortDisappeared", x)) IN Good(c, r) /\ SameObjects(r, h)
<1> DEFINE s == PortSignal("PortDisappeared", x)
<1>1. x \in PortRecs /\ ~x.hidden BY SoundTypes DEF Changed, Vis
<1>2. s \in SignalRecs /\ s.kind = "PortDisappeared" /\ s.client = x.client /\ s.port = x.id
  BY <1>1, PortSignalFields DEF Kinds
<1> HIDE DEF s
<1>3. PICK w : Shows(w, g) /\ Tracked(c, g, w) BY DEF Good
<1>4. Legal(w, s) /\ Shows(Canvas(w, s), h) BY <1>2, <1>3, PortLeaves
<1> QED BY <1>2, <1>3, <1>4, Said DEF s

\* The port is removed: its last signal has no version of its own.
LEMMA EmittedPortDisappears ==
  ASSUME NEW g, NEW h, Changed(g, h), SameClientsSeen(g, h), SameConnsSeen(g, h),
         NEW c, Good(c, g), NEW x \in Vis(Ports(g)), \A k \in Vis(Conns(g)) : x.id \notin k.ends,
         Vis(Ports(h)) = Vis(Ports(g)) \ {x}, \A p \in Ports(h) : p.id # x.id, h.nextPort = g.nextPort
  PROVE  LET r == Emit(h, PortSignal("PortDisappeared", x)) IN Good(c, r) /\ SameObjects(r, h)
<1> DEFINE s == PortSignal("PortDisappeared", x)
<1>0. Sound(g) /\ Sound(h) /\ g \in Graphs /\ h \in Graphs BY SoundTypes DEF Changed
<1>1. x \in PortRecs /\ ~x.hidden /\ x \in Ports(g) BY <1>0, SoundTypes DEF Vis
<1>2. s \in SignalRecs /\ s.kind = "PortDisappeared" /\ s.client = x.client /\ s.port = x.id
  BY <1>1, PortSignalFields DEF Kinds
<1> HIDE DEF s
<1>3. PICK w : Shows(w, g) /\ Tracked(c, g, w) BY DEF Good
<1>4. Legal(w, s) /\ Shows(Canvas(w, s), h) BY <1>2, <1>3, PortLeaves
<1>5. Dead(h, s.port)
  <2>1. x.id \in Nat BY <1>1 DEF PortRecs
  <2>2. x.id < h.nextPort BY <1>0, <1>1 DEF Sound, PortsSound
  <2> QED BY <1>2, <2>1, <2>2 DEF Dead, Ids, Ports
<1>6. Tracked(c, Emit(h, s), Canvas(w, s)) BY <1>0, <1>2, <1>3, <1>4, <1>5, TrackedFarewell DEF Changed
<1>7. Sound(Emit(h, s)) /\ SameObjects(Emit(h, s), h) BY <1>0, <1>2, EmittedSame
<1>8. Shows(Canvas(w, s), Emit(h, s)) BY <1>4, <1>7 DEF Shows, SameObjects
<1> QED BY <1>6, <1>7, <1>8 DEF Good, s

-----------------------------------------------------------------------------

\* A connection of visible ports becomes visible.
LEMMA SaidConnects ==
  ASSUME NEW g, NEW h, Changed(g, h), SameClientsSeen(g, h), SamePortsSeen(g, h),
         NEW c, Good(c, g), NEW y \in ConnRecs, ~y.hidden, y \in Conns(h), Vis(Conns(h)) = Vis(Conns(g)) \cup {y}
  PROVE  Good(c, SayConnected(h, y)) /\ SameObjects(SayConnected(h, y), h)
<1> DEFINE s == ConnSignal("PortsConnected", y)
<1>1. s \in SignalRecs /\ s.kind = "PortsConnected" /\ s.ends = y.ends
  BY ConnSignalFields DEF Kinds
<1> HIDE DEF s
<1>2. PICK w : Shows(w, g) /\ Tracked(c, g, w) BY DEF Good
<1> DEFINE v == Canvas(w, s)
<1>3. y.ends \subseteq DOMAIN w.ports
  <2> SUFFICES ASSUME NEW i \in y.ends PROVE i \in DOMAIN w.ports OBVIOUS
  <2>1. PICK p \in Ports(h) : p.id = i /\ ~p.hidden BY DEF Changed, Sound, ConnsInside
  <2>2. p \in Ports(g) /\ ~p.hidden BY <2>1 DEF SamePortsSeen, Vis
  <2> QED BY <2>1, <2>2, <1>2 DEF Shows, ShowsPorts
<1>4. Legal(w, s) BY <1>1, <1>3 DEF Legal
<1>5. Shape(v) /\ v.clients = w.clients /\ v.ports = w.ports /\ v.conns = Shown(w.ports, w.conns \cup {s.ends})
  BY <1>1, <1>2, CanvasConnected DEF Shows
<1> HIDE DEF v
<1>6. v.conns = w.conns \cup {y.ends}
  <2>1. \A e \in w.conns : e \subseteq DOMAIN w.ports BY <1>2, ShowsGood DEF GoodView, Good
  <2> QED BY <2>1, <1>1, <1>3, <1>5 DEF Shown
<1>7. Shows(v, h)
  <2>1. ShowsConns(v, Conns(h)) BY <1>2, <1>6, ShownConnsPut DEF Shows
  <2>2. ShowsClients(v, Clients(h)) /\ ShowsPorts(v, Ports(h))
    BY <1>2, <1>5, ShownClientsSame, ShownPortsSame DEF Shows, SameClientsSeen, SamePortsSeen
  <2> QED BY <1>5, <2>1, <2>2 DEF Shows
<1> QED BY <1>1, <1>2, <1>4, <1>7, Said DEF v, s, SayConnected

\* A connection is hidden or removed.
LEMMA SaidDisconnects ==
  ASSUME NEW g, NEW h, Changed(g, h), SameClientsSeen(g, h), SamePortsSeen(g, h),
         NEW c, Good(c, g), NEW x \in Vis(Conns(g)), Vis(Conns(h)) = Vis(Conns(g)) \ {x}
  PROVE  Good(c, SayDisconnected(h, x)) /\ SameObjects(SayDisconnected(h, x), h)
<1> DEFINE s == ConnSignal("PortsDisconnected", x)
<1>0. x \in ConnRecs /\ ~x.hidden BY SoundTypes DEF Changed, Vis
<1>1. s \in SignalRecs /\ s.kind = "PortsDisconnected" /\ s.ends = x.ends
  BY <1>0, ConnSignalFields DEF Kinds
<1> HIDE DEF s
<1>2. PICK w : Shows(w, g) /\ Tracked(c, g, w) BY DEF Good
<1> DEFINE v == Canvas(w, s)
<1>4. Legal(w, s) BY <1>1 DEF Legal
<1>5. Shape(v) /\ v.clients = w.clients /\ v.ports = w.ports /\ v.conns = w.conns \ {x.ends}
  BY <1>1, <1>2, CanvasDisconnected DEF Shows
<1> HIDE DEF v
<1>6. \A z \in Vis(Conns(g)) : z.ends = x.ends <=> z = x BY DEF Changed, Sound, ConnsSound, Vis
<1>7. Vis(Conns(h)) = { z \in Vis(Conns(g)) : z.ends # x.ends } BY <1>6
<1>8. Shows(v, h)
  <2>0. PICK e : e = x.ends OBVIOUS
  <2>3. Vis(Conns(h)) = { z \in Vis(Conns(g)) : z.ends # e } /\ ConnLeft(w, v, e) BY <1>5, <1>7, <2>0 DEF ConnLeft
  <2>1. ShowsConns(v, Conns(h)) BY <1>2, <2>3, ShownConnsDrop DEF Shows
  <2>2. ShowsClients(v, Clients(h)) /\ ShowsPorts(v, Ports(h))
    BY <1>2, <1>5, ShownClientsSame, ShownPortsSame DEF Shows, SameClientsSeen, SamePortsSeen
  <2> QED BY <1>5, <2>1, <2>2 DEF Shows
<1> QED BY <1>1, <1>2, <1>4, <1>8, Said DEF v, s, SayDisconnected

-----------------------------------------------------------------------------
(***************************************************************************)
(* The small operations keep Good for every watcher: clients.              *)
(***************************************************************************)

\* r is good and has these objects; it gave no new ids.
Becomes(c, g, r, C, P, K) ==
  /\ Good(c, r)
  /\ Clients(r) = C /\ Ports(r) = P /\ Conns(r) = K
  /\ r.nextClient = g.nextClient /\ r.nextPort = g.nextPort

\* Every watcher can follow ShowClient.
LEMMA ShowClientKeeps ==
  ASSUME NEW g, NEW c, Good(c, g), NEW x \in Clients(g), x.hidden
  PROVE  Becomes(c, g, ShowClient(g, x.id), (Clients(g) \ {x}) \cup {Show(x)}, Ports(g), Conns(g))
<1> DEFINE y == Show(x)
           l == Update(g.clients, LAMBDA z : z.id = x.id, Show)
           h == [g EXCEPT !.clients = l]
<1>1. Sound(g) /\ x \in ClientRecs BY SoundTypes DEF Good
<1>2. y \in ClientRecs /\ y.id = x.id /\ ~y.hidden BY <1>1 DEF Show, ClientRecs
<1>3. \A i \in DOMAIN g.clients : g.clients[i].id = x.id => g.clients[i] = x
  BY <1>1 DEF Sound, ClientsSound, Clients, Elements
<1>4. SwappedById(l, g.clients, x, y) BY <1>3 DEF Update, SwappedById
<1>5. ShowClient(g, x.id) = Say(h, ClientSignal("ClientAppeared", y))
  BY <1>1, ClientFound DEF ShowClient
<1> HIDE DEF y, l
<1>6. /\ Changed(g, h) /\ h.nextClient = g.nextClient /\ h.nextPort = g.nextPort
      /\ Clients(h) = (Clients(g) \ {x}) \cup {y} /\ Ports(h) = Ports(g) /\ Conns(h) = Conns(g)
  <2>1. ClientFits(g, x, y) BY <1>2 DEF ClientFits
  <2>2. PICK k : k = h OBVIOUS
  <2> HIDE DEF h
  <2> QED BY <1>1, <1>2, <1>4, <2>1, ClientReplaced DEF h
<1> HIDE DEF h
<1>7. SamePortsSeen(g, h) /\ SameConnsSeen(g, h) BY <1>6 DEF SamePortsSeen, SameConnsSeen
<1>8. Vis(Clients(h)) = Vis(Clients(g)) \cup {y} BY <1>2, <1>6 DEF Vis
<1>9. \A z \in Vis(Clients(g)) : z.id # y.id BY <1>1, <1>2 DEF Vis, Sound, ClientsSound
<1>10. Good(c, ShowClient(g, x.id)) /\ SameObjects(ShowClient(g, x.id), h)
  BY <1>2, <1>5, <1>6, <1>7, <1>8, <1>9, SaidClientAppears
<1> QED BY <1>6, <1>10 DEF Becomes, SameObjects, y

\* Every watcher can follow HideClient.
LEMMA HideClientKeeps ==
  ASSUME NEW g, NEW c, Good(c, g), NEW x \in Clients(g), ~x.hidden, \A p \in Ports(g) : p.client = x.id => p.hidden
  PROVE  Becomes(c, g, HideClient(g, x.id), (Clients(g) \ {x}) \cup {Hide(x)}, Ports(g), Conns(g))
<1> DEFINE y == Hide(x)
           l == Update(g.clients, LAMBDA z : z.id = x.id, Hide)
           h == [g EXCEPT !.clients = l]
<1>1. Sound(g) /\ x \in ClientRecs BY SoundTypes DEF Good
<1>2. y \in ClientRecs /\ y.id = x.id /\ y.hidden BY <1>1 DEF Hide, ClientRecs
<1>3. \A i \in DOMAIN g.clients : g.clients[i].id = x.id => g.clients[i] = x
  BY <1>1 DEF Sound, ClientsSound, Clients, Elements
<1>4. SwappedById(l, g.clients, x, y) BY <1>3 DEF Update, SwappedById
<1>5. HideClient(g, x.id) = Say(h, ClientSignal("ClientDisappeared", x))
  BY <1>1, ClientFound DEF HideClient
<1> HIDE DEF y, l
<1>6. /\ Changed(g, h) /\ h.nextClient = g.nextClient /\ h.nextPort = g.nextPort
      /\ Clients(h) = (Clients(g) \ {x}) \cup {y} /\ Ports(h) = Ports(g) /\ Conns(h) = Conns(g)
  <2>1. ClientFits(g, x, y) BY DEF ClientFits
  <2> HIDE DEF h
  <2> QED BY <1>1, <1>2, <1>4, <2>1, ClientReplaced DEF h
<1> HIDE DEF h
<1>7. SamePortsSeen(g, h) /\ SameConnsSeen(g, h) BY <1>6 DEF SamePortsSeen, SameConnsSeen
<1>8. Vis(Clients(h)) = Vis(Clients(g)) \ {x} BY <1>2, <1>6 DEF Vis
<1>9. x \in Vis(Clients(g)) BY DEF Vis
<1>10. Good(c, HideClient(g, x.id)) /\ SameObjects(HideClient(g, x.id), h)
  BY <1>5, <1>6, <1>7, <1>8, <1>9, SaidClientDisappears
<1> QED BY <1>6, <1>10 DEF Becomes, SameObjects, y

\* Every watcher can follow RenameClient.
LEMMA RenameClientKeeps ==
  ASSUME NEW g, NEW c, Good(c, g), NEW x \in Clients(g)
  PROVE  Good(c, RenameClient(g, x.id))
<1> DEFINE Renamed(z) == [z EXCEPT !.name = g.version + 1]
           y == Renamed(x)
           l == Update(g.clients, LAMBDA z : z.id = x.id, Renamed)
           h == [g EXCEPT !.clients = l]
           s == ClientSignal("ClientRenamed", y)
<1>1. Sound(g) /\ x \in ClientRecs /\ g.version + 1 \in Nat BY SoundTypes DEF Good
<1>2. y \in ClientRecs /\ y.id = x.id /\ y.hidden = x.hidden BY <1>1 DEF ClientRecs
<1>3. \A i \in DOMAIN g.clients : g.clients[i].id = x.id => g.clients[i] = x
  BY <1>1 DEF Sound, ClientsSound, Clients, Elements
<1>4. SwappedById(l, g.clients, x, y) BY <1>3 DEF Update, SwappedById
<1>5. RenameClient(g, x.id) = Say(h, s)
  BY <1>1, ClientFound DEF RenameClient
<1> HIDE DEF y, l
<1>6. /\ Changed(g, h) /\ h.nextClient = g.nextClient /\ h.nextPort = g.nextPort
      /\ Clients(h) = (Clients(g) \ {x}) \cup {y} /\ Ports(h) = Ports(g) /\ Conns(h) = Conns(g)
  <2>1. ClientFits(g, x, y) BY <1>2 DEF ClientFits
  <2> HIDE DEF h
  <2> QED BY <1>1, <1>2, <1>4, <2>1, ClientReplaced DEF h
<1> HIDE DEF h
<1>7. SamePortsSeen(g, h) /\ SameConnsSeen(g, h) BY <1>6 DEF SamePortsSeen, SameConnsSeen
<1>8. CASE x.hidden
  <2>1. SameClientsSeen(g, h) BY <1>2, <1>6, <1>8 DEF Vis, SameClientsSeen
  <2>2. s \in SignalRecs /\ s.kind = "silent" BY <1>2, <1>8, ClientSignalFields DEF Kinds
  <2> HIDE DEF s
  <2> QED BY <1>5, <1>6, <1>7, <2>1, <2>2, SaidQuietly
<1>9. CASE ~x.hidden
  <2>1. Vis(Clients(h)) = (Vis(Clients(g)) \ {x}) \cup {y} BY <1>2, <1>6, <1>9 DEF Vis
  <2>2. x \in Vis(Clients(g)) /\ ~y.hidden BY <1>2, <1>9 DEF Vis
  <2>3. Good(c, Say(h, s)) /\ SameObjects(Say(h, s), h)
    BY <1>2, <1>6, <1>7, <2>1, <2>2, SaidClientRenamed
  <2> QED BY <1>5, <2>3
<1> QED BY <1>1, <1>8, <1>9

\* Every watcher can follow AddClient.
LEMMA AddClientKeeps ==
  ASSUME NEW g, NEW c, Good(c, g), NEW hidden \in BOOLEAN
  PROVE  LET x == [id |-> g.nextClient, hidden |-> hidden, name |-> 0]
             r == AddClient(g, hidden)
         IN  /\ Good(c, r) /\ Clients(r) = Clients(g) \cup {x} /\ Ports(r) = Ports(g) /\ Conns(r) = Conns(g)
             /\ r.nextPort = g.nextPort
<1> DEFINE x == [id |-> g.nextClient, hidden |-> hidden, name |-> 0]
           l == Append(g.clients, x)
           h == [g EXCEPT !.clients = l, !.nextClient = @ + 1]
           s == ClientSignal("ClientAppeared", x)
<1>1. /\ Sound(g) /\ g \in Graphs /\ g.clients \in Seq(ClientRecs) /\ IsInjective(g.clients)
      /\ g.nextClient \in Nat /\ g.nextPort \in Nat
  BY SoundTypes DEF Good, Sound
<1>2. x \in ClientRecs /\ x.id = g.nextClient /\ x.hidden = hidden BY <1>1 DEF ClientRecs
<1>3. \A z \in Clients(g) : z.id # x.id /\ z.id < g.nextClient + 1
  <2>1. \A z \in Clients(g) : z.id \in Nat /\ z.id < g.nextClient
    BY <1>1, SoundTypes DEF Sound, ClientsSound, ClientRecs
  <2> QED BY <1>1, <1>2, <2>1
<1>4. AddClient(g, hidden) = Say(h, s) BY DEF AddClient
<1> HIDE DEF x
<1>5. l \in Seq(ClientRecs) /\ IsInjective(l) /\ Elements(l) = Clients(g) \cup {x}
  BY <1>1, <1>2, <1>3, AppendFacts DEF Clients
<1> HIDE DEF l
<1>6. /\ h \in Graphs /\ h.clients = l /\ h.ports = g.ports /\ h.conns = g.conns /\ h.version = g.version
      /\ h.nextClient = g.nextClient + 1 /\ h.nextPort = g.nextPort /\ h.sent = g.sent
  <2>1. g.nextClient + 1 \in Nat BY <1>1
  <2> QED BY <1>1, <1>5, <2>1 DEF Graphs
<1> HIDE DEF h
<1>7. Clients(h) = Clients(g) \cup {x} /\ Ports(h) = Ports(g) /\ Conns(h) = Conns(g)
  BY <1>5, <1>6 DEF Clients, Ports, Conns
<1>8. Changed(g, h)
  <2>1. ClientsSound(Clients(h), h.nextClient) BY <1>1, <1>2, <1>3, <1>6, <1>7 DEF Sound, ClientsSound
  <2>2. PortsInside(Clients(h), Ports(h)) BY <1>1, <1>7 DEF Sound, PortsInside
  <2>3. Sound(h) BY <1>1, <1>5, <1>6, <1>7, <2>1, <2>2 DEF Sound
  <2>4. g.nextPort <= h.nextPort BY <1>1, <1>6
  <2>5. \A p \in Ports(h) : p.id >= g.nextPort \/ \E q \in Ports(g) : q.id = p.id BY <1>7
  <2>6. Buries(g, h) BY <1>1, <2>3, <2>4, <2>5, Burying
  <2> QED BY <1>1, <1>6, <2>3, <2>6 DEF Changed
<1>9. SamePortsSeen(g, h) /\ SameConnsSeen(g, h) BY <1>7 DEF SamePortsSeen, SameConnsSeen
<1>10. Good(c, Say(h, s)) /\ SameObjects(Say(h, s), h)
  <2>1. CASE hidden
    <3>1. SameClientsSeen(g, h) BY <1>2, <1>7, <2>1 DEF Vis, SameClientsSeen
    <3>2. s \in SignalRecs /\ s.kind = "silent" BY <1>2, <2>1, ClientSignalFields DEF Kinds
    <3> HIDE DEF s
    <3> QED BY <1>8, <1>9, <3>1, <3>2, SaidQuietly
  <2>2. CASE ~hidden
    <3>1. Vis(Clients(h)) = Vis(Clients(g)) \cup {x} BY <1>2, <1>7, <2>2 DEF Vis
    <3>2. ~x.hidden /\ \A z \in Vis(Clients(g)) : z.id # x.id BY <1>2, <1>3, <2>2 DEF Vis
    <3> QED BY <1>2, <1>8, <1>9, <3>1, <3>2, SaidClientAppears
  <2> QED BY <2>1, <2>2
<1> QED BY <1>4, <1>6, <1>7, <1>10 DEF SameObjects, x

\* A client without ports is removed.
LEMMA RemoveClientOnlyKeeps ==
  ASSUME NEW g, NEW c, Good(c, g), NEW x \in Clients(g), \A p \in Ports(g) : p.client # x.id
  PROVE  Becomes(c, g, RemoveClientOnly(g, x.id), Clients(g) \ {x}, Ports(g), Conns(g))
<1> DEFINE l == Without(g.clients, LAMBDA z : z.id = x.id)
           h == [g EXCEPT !.clients = l]
           s == ClientSignal("ClientDisappeared", x)
<1>1. /\ Sound(g) /\ g \in Graphs /\ g.clients \in Seq(ClientRecs) /\ IsInjective(g.clients)
      /\ g.nextPort \in Nat /\ x \in ClientRecs
  BY SoundTypes DEF Good, Sound
<1>2. \A z \in Clients(g) : z.id = x.id <=> z = x BY <1>1 DEF Sound, ClientsSound
<1>3. l = Members(g.clients, { z \in Elements(g.clients) : ~(z.id = x.id) }) BY DEF Without, Select
<1>4. RemoveClientOnly(g, x.id) = Say(h, s) BY <1>1, ClientFound DEF RemoveClientOnly
<1> HIDE DEF l
<1>5. l \in Seq(ClientRecs) /\ IsInjective(l) /\ Elements(l) = Clients(g) \ {x}
  BY <1>1, <1>2, <1>3, MembersFacts DEF Clients
<1>6. /\ h \in Graphs /\ h.clients = l /\ h.ports = g.ports /\ h.conns = g.conns /\ h.version = g.version
      /\ h.nextClient = g.nextClient /\ h.nextPort = g.nextPort /\ h.sent = g.sent
  BY <1>1, <1>5 DEF Graphs
<1> HIDE DEF h
<1>7. Clients(h) = Clients(g) \ {x} /\ Ports(h) = Ports(g) /\ Conns(h) = Conns(g)
  BY <1>5, <1>6 DEF Clients, Ports, Conns
<1>8. Changed(g, h)
  <2>1. ClientsSound(Clients(h), h.nextClient) BY <1>1, <1>6, <1>7 DEF Sound, ClientsSound
  <2>2. PortsInside(Clients(h), Ports(h)) BY <1>1, <1>7 DEF Sound, PortsInside
  <2>3. Sound(h) BY <1>1, <1>5, <1>6, <1>7, <2>1, <2>2 DEF Sound
  <2>4. g.nextPort <= h.nextPort BY <1>1, <1>6
  <2>5. \A p \in Ports(h) : p.id >= g.nextPort \/ \E q \in Ports(g) : q.id = p.id BY <1>7
  <2>6. Buries(g, h) BY <1>1, <2>3, <2>4, <2>5, Burying
  <2> QED BY <1>1, <1>6, <2>3, <2>6 DEF Changed
<1>9. SamePortsSeen(g, h) /\ SameConnsSeen(g, h) BY <1>7 DEF SamePortsSeen, SameConnsSeen
<1>10. Good(c, Say(h, s)) /\ SameObjects(Say(h, s), h)
  <2>1. CASE x.hidden
    <3>1. SameClientsSeen(g, h) BY <1>7, <2>1 DEF Vis, SameClientsSeen
    <3>2. s \in SignalRecs /\ s.kind = "silent" BY <1>1, <2>1, ClientSignalFields DEF Kinds
    <3> HIDE DEF s
    <3> QED BY <1>8, <1>9, <3>1, <3>2, SaidQuietly
  <2>2. CASE ~x.hidden
    <3>1. Vis(Clients(h)) = Vis(Clients(g)) \ {x} /\ x \in Vis(Clients(g)) BY <1>7, <2>2 DEF Vis
    <3> QED BY <1>8, <1>9, <3>1, SaidClientDisappears
  <2> QED BY <1>1, <2>1, <2>2
<1> QED BY <1>4, <1>6, <1>7, <1>10 DEF SameObjects, Becomes

-----------------------------------------------------------------------------
(***************************************************************************)
(* Ports.                                                                  *)
(***************************************************************************)

\* y may take the place of x: it is visible only in a visible client, and hidden only without visible connections.
PortFits(g, x, y) ==
  /\ y.hidden => x.hidden \/ \A k \in Conns(g) : x.id \in k.ends => k.hidden
  /\ ~y.hidden => ~x.hidden \/ \E z \in Clients(g) : z.id = x.client /\ ~z.hidden

\* A port is changed in its place.
LEMMA PortReplaced ==
  ASSUME NEW g, Sound(g), NEW x \in Ports(g), NEW y \in PortRecs, y.id = x.id, y.client = x.client,
         PortFits(g, x, y),
         NEW l, SwappedById(l, g.ports, x, y),
         NEW h, h = [g EXCEPT !.ports = l]
  PROVE  /\ Changed(g, h) /\ h.nextClient = g.nextClient /\ h.nextPort = g.nextPort
         /\ Ports(h) = (Ports(g) \ {x}) \cup {y} /\ Clients(h) = Clients(g) /\ Conns(h) = Conns(g)
<1>1. g \in Graphs /\ g.ports \in Seq(PortRecs) /\ IsInjective(g.ports) /\ g.nextPort \in Nat
  BY SoundTypes DEF Sound
<1>2. \A i \in DOMAIN g.ports : g.ports[i] \in Ports(g) BY DEF Ports, Elements
<1>3. \A z \in Ports(g) : z.id = x.id <=> z = x BY DEF Sound, PortsSound
<1>4. Swapped(l, g.ports, x, y) BY <1>2, <1>3 DEF Swapped, SwappedById
<1>5. y \notin Elements(g.ports) \ {x} BY <1>3 DEF Ports
<1>6. l \in Seq(PortRecs) /\ IsInjective(l) /\ Elements(l) = (Elements(g.ports) \ {x}) \cup {y}
  <2>1. x \in Elements(g.ports) BY DEF Ports
  <2> QED BY <1>1, <1>4, <1>5, <2>1, Replaced
<1>7. /\ h \in Graphs /\ h.ports = l /\ h.clients = g.clients /\ h.conns = g.conns /\ h.version = g.version
      /\ h.nextClient = g.nextClient /\ h.nextPort = g.nextPort /\ h.sent = g.sent
  BY <1>1, <1>6 DEF Graphs
<1>8. Ports(h) = (Ports(g) \ {x}) \cup {y} /\ Clients(h) = Clients(g) /\ Conns(h) = Conns(g)
  BY <1>6, <1>7 DEF Clients, Ports, Conns
<1>9. PortsSound(Ports(h), h.nextPort) BY <1>7, <1>8 DEF Sound, PortsSound
<1>10. PortsInside(Clients(h), Ports(h))
  <2> SUFFICES ASSUME NEW p \in Ports(h)
               PROVE  \E z \in Clients(g) : z.id = p.client /\ (z.hidden => p.hidden)
    BY <1>8 DEF PortsInside
  <2>1. CASE p # y BY <1>8, <2>1 DEF Sound, PortsInside
  <2>2. CASE p = y
    <3>1. PICK z \in Clients(g) : z.id = x.client /\ (z.hidden => x.hidden) BY DEF Sound, PortsInside
    <3>2. CASE y.hidden BY <2>2, <3>1, <3>2
    <3>3. CASE ~y.hidden BY <2>2, <3>1, <3>3 DEF PortFits
    <3> QED BY <3>2, <3>3
  <2> QED BY <2>1, <2>2
<1>11. ConnsInside(Ports(h), Conns(h))
  <2> SUFFICES ASSUME NEW k \in Conns(g), NEW e \in k.ends
               PROVE  \E p \in Ports(h) : p.id = e /\ (p.hidden => k.hidden)
    BY <1>8 DEF ConnsInside
  <2>1. PICK p \in Ports(g) : p.id = e /\ (p.hidden => k.hidden) BY DEF Sound, ConnsInside
  <2>2. CASE p # x BY <1>8, <2>1, <2>2
  <2>3. CASE p = x
    <3>1. y \in Ports(h) /\ y.id = e BY <1>8, <2>1, <2>3
    <3>2. y.hidden => k.hidden BY <2>1, <2>3 DEF PortFits
    <3> QED BY <3>1, <3>2
  <2> QED BY <2>2, <2>3
<1>12. Sound(h) BY <1>6, <1>7, <1>8, <1>9, <1>10, <1>11 DEF Sound
<1>13. Buries(g, h)
  <2>1. g.nextPort <= h.nextPort BY <1>1, <1>7
  <2>2. \A p \in Ports(h) : p.id >= g.nextPort \/ \E q \in Ports(g) : q.id = p.id BY <1>8
  <2> QED BY <1>12, <2>1, <2>2, Burying
<1> QED BY <1>7, <1>8, <1>12, <1>13 DEF Changed

\* Every watcher can follow ShowPortOnly.
LEMMA ShowPortOnlyKeeps ==
  ASSUME NEW g, NEW c, Good(c, g), NEW x \in Ports(g), x.hidden,
         NEW o \in Clients(g), o.id = x.client, ~o.hidden
  PROVE  Becomes(c, g, ShowPortOnly(g, x.id), Clients(g), (Ports(g) \ {x}) \cup {Show(x)}, Conns(g))
<1> DEFINE y == Show(x)
           l == Update(g.ports, LAMBDA z : z.id = x.id, Show)
           h == [g EXCEPT !.ports = l]
<1>1. Sound(g) /\ x \in PortRecs BY SoundTypes DEF Good
<1>2. y \in PortRecs /\ y.id = x.id /\ y.client = x.client /\ ~y.hidden BY <1>1 DEF Show, PortRecs
<1>3. \A i \in DOMAIN g.ports : g.ports[i].id = x.id => g.ports[i] = x
  BY <1>1 DEF Sound, PortsSound, Ports, Elements
<1>4. SwappedById(l, g.ports, x, y) BY <1>3 DEF Update, SwappedById
<1>5. ShowPortOnly(g, x.id) = Say(h, PortSignal("PortAppeared", y))
  BY <1>1, PortFound DEF ShowPortOnly
<1> HIDE DEF y, l
<1>6. /\ Changed(g, h) /\ h.nextClient = g.nextClient /\ h.nextPort = g.nextPort
      /\ Ports(h) = (Ports(g) \ {x}) \cup {y} /\ Clients(h) = Clients(g) /\ Conns(h) = Conns(g)
  <2>1. PortFits(g, x, y) BY <1>2 DEF PortFits
  <2> HIDE DEF h
  <2> QED BY <1>1, <1>2, <1>4, <2>1, PortReplaced DEF h
<1> HIDE DEF h
<1>7. SameClientsSeen(g, h) /\ SameConnsSeen(g, h) BY <1>6 DEF SameClientsSeen, SameConnsSeen
<1>8. Vis(Ports(h)) = Vis(Ports(g)) \cup {y} /\ y \in Ports(h) BY <1>2, <1>6 DEF Vis
<1>9. \A z \in Vis(Ports(g)) : z.id # y.id BY <1>1, <1>2 DEF Vis, Sound, PortsSound
<1>10. Good(c, ShowPortOnly(g, x.id)) /\ SameObjects(ShowPortOnly(g, x.id), h)
  BY <1>2, <1>5, <1>6, <1>7, <1>8, <1>9, SaidPortAppears
<1> QED BY <1>6, <1>10 DEF Becomes, SameObjects, y

\* Every watcher can follow HidePortOnly.
LEMMA HidePortOnlyKeeps ==
  ASSUME NEW g, NEW c, Good(c, g), NEW x \in Ports(g), ~x.hidden, \A k \in Vis(Conns(g)) : x.id \notin k.ends
  PROVE  Becomes(c, g, HidePortOnly(g, x.id), Clients(g), (Ports(g) \ {x}) \cup {Hide(x)}, Conns(g))
<1> DEFINE y == Hide(x)
           l == Update(g.ports, LAMBDA z : z.id = x.id, Hide)
           h == [g EXCEPT !.ports = l]
<1>1. Sound(g) /\ x \in PortRecs BY SoundTypes DEF Good
<1>2. y \in PortRecs /\ y.id = x.id /\ y.client = x.client /\ y.hidden BY <1>1 DEF Hide, PortRecs
<1>3. \A i \in DOMAIN g.ports : g.ports[i].id = x.id => g.ports[i] = x
  BY <1>1 DEF Sound, PortsSound, Ports, Elements
<1>4. SwappedById(l, g.ports, x, y) BY <1>3 DEF Update, SwappedById
<1>5. HidePortOnly(g, x.id) = Say(h, PortSignal("PortDisappeared", x))
  BY <1>1, PortFound DEF HidePortOnly
<1> HIDE DEF y, l
<1>6. /\ Changed(g, h) /\ h.nextClient = g.nextClient /\ h.nextPort = g.nextPort
      /\ Ports(h) = (Ports(g) \ {x}) \cup {y} /\ Clients(h) = Clients(g) /\ Conns(h) = Conns(g)
  <2>1. PortFits(g, x, y) BY <1>2 DEF PortFits, Vis
  <2> HIDE DEF h
  <2> QED BY <1>1, <1>2, <1>4, <2>1, PortReplaced DEF h
<1> HIDE DEF h
<1>7. SameClientsSeen(g, h) /\ SameConnsSeen(g, h) BY <1>6 DEF SameClientsSeen, SameConnsSeen
<1>8. Vis(Ports(h)) = Vis(Ports(g)) \ {x} /\ x \in Vis(Ports(g)) BY <1>2, <1>6 DEF Vis
<1>10. Good(c, HidePortOnly(g, x.id)) /\ SameObjects(HidePortOnly(g, x.id), h)
  <2>1. ~x.hidden /\ \A k \in Vis(Conns(g)) : x.id \notin k.ends OBVIOUS
  <2>2. LET r == Say(h, PortSignal("PortDisappeared", x)) IN Good(c, r) /\ SameObjects(r, h)
    BY <2>1, <1>6, <1>7, <1>8, SaidPortDisappears
  <2> QED BY <1>5, <2>2
<1> QED BY <1>6, <1>10 DEF Becomes, SameObjects, y

\* Every watcher can follow RenamePort.
LEMMA RenamePortKeeps ==
  ASSUME NEW g, NEW c, Good(c, g), NEW x \in Ports(g)
  PROVE  Good(c, RenamePort(g, x.id))
<1> DEFINE Renamed(z) == [z EXCEPT !.name = g.version + 1]
           y == Renamed(x)
           l == Update(g.ports, LAMBDA z : z.id = x.id, Renamed)
           h == [g EXCEPT !.ports = l]
           s == PortSignal("PortRenamed", y)
<1>1. Sound(g) /\ x \in PortRecs /\ g.version + 1 \in Nat BY SoundTypes DEF Good
<1>2. y \in PortRecs /\ y.id = x.id /\ y.client = x.client /\ y.hidden = x.hidden BY <1>1 DEF PortRecs
<1>3. \A i \in DOMAIN g.ports : g.ports[i].id = x.id => g.ports[i] = x
  BY <1>1 DEF Sound, PortsSound, Ports, Elements
<1>4. SwappedById(l, g.ports, x, y) BY <1>3 DEF Update, SwappedById
<1>5. RenamePort(g, x.id) = Say(h, s)
  BY <1>1, PortFound DEF RenamePort
<1> HIDE DEF y, l
<1>6. /\ Changed(g, h) /\ h.nextClient = g.nextClient /\ h.nextPort = g.nextPort
      /\ Ports(h) = (Ports(g) \ {x}) \cup {y} /\ Clients(h) = Clients(g) /\ Conns(h) = Conns(g)
  <2>1. PortFits(g, x, y) BY <1>2 DEF PortFits
  <2> HIDE DEF h
  <2> QED BY <1>1, <1>2, <1>4, <2>1, PortReplaced DEF h
<1> HIDE DEF h
<1>7. SameClientsSeen(g, h) /\ SameConnsSeen(g, h) BY <1>6 DEF SameClientsSeen, SameConnsSeen
<1>8. CASE x.hidden
  <2>1. SamePortsSeen(g, h) BY <1>2, <1>6, <1>8 DEF Vis, SamePortsSeen
  <2>2. s \in SignalRecs /\ s.kind = "silent" BY <1>2, <1>8, PortSignalFields DEF Kinds
  <2> HIDE DEF s
  <2> QED BY <1>5, <1>6, <1>7, <2>1, <2>2, SaidQuietly
<1>9. CASE ~x.hidden
  <2>1. Vis(Ports(h)) = (Vis(Ports(g)) \ {x}) \cup {y} BY <1>2, <1>6, <1>9 DEF Vis
  <2>2. x \in Vis(Ports(g)) /\ ~y.hidden BY <1>2, <1>9 DEF Vis
  <2>3. Good(c, Say(h, s)) /\ SameObjects(Say(h, s), h)
    BY <1>2, <1>6, <1>7, <2>1, <2>2, SaidPortRenamed
  <2> QED BY <1>5, <2>3
<1> QED BY <1>1, <1>8, <1>9

IsNewPort(x, g, o) == x = [id |-> g.nextPort, client |-> o.id, hidden |-> TRUE, name |-> 0]

PortJoins(h, g, x) == h = [g EXCEPT !.ports = Append(@, x), !.nextPort = @ + 1]

\* A port is added, hidden at first.
LEMMA HiddenPortAdded ==
  ASSUME NEW g, NEW c, Good(c, g), NEW o \in Clients(g),
         NEW x, IsNewPort(x, g, o),
         NEW h, PortJoins(h, g, x)
  PROVE  /\ Good(c, h) /\ Clients(h) = Clients(g) /\ Ports(h) = Ports(g) \cup {x} /\ Conns(h) = Conns(g)
         /\ h.nextClient = g.nextClient /\ x.id = g.nextPort /\ x.hidden /\ x.client = o.id
<1> DEFINE l == Append(g.ports, x)
<1>1. /\ Sound(g) /\ g \in Graphs /\ g.ports \in Seq(PortRecs) /\ IsInjective(g.ports)
      /\ g.nextClient \in Nat /\ g.nextPort \in Nat /\ o \in ClientRecs
  BY SoundTypes DEF Good, Sound
<1>2. x \in PortRecs /\ x.id = g.nextPort /\ x.hidden /\ x.client = o.id BY <1>1 DEF PortRecs, ClientRecs, IsNewPort
<1>3. \A z \in Ports(g) : z.id # x.id /\ z.id < g.nextPort + 1
  <2>1. \A z \in Ports(g) : z.id \in Nat /\ z.id < g.nextPort
    BY <1>1, SoundTypes DEF Sound, PortsSound, PortRecs
  <2> QED BY <1>1, <1>2, <2>1
<1>5. l \in Seq(PortRecs) /\ IsInjective(l) /\ Elements(l) = Ports(g) \cup {x}
  BY <1>1, <1>2, <1>3, AppendFacts DEF Ports
<1>a. h = [g EXCEPT !.ports = l, !.nextPort = @ + 1] BY DEF PortJoins
<1> HIDE DEF l
<1>6. /\ h \in Graphs /\ h.clients = g.clients /\ h.ports = l /\ h.conns = g.conns /\ h.version = g.version
      /\ h.nextClient = g.nextClient /\ h.nextPort = g.nextPort + 1 /\ h.sent = g.sent
  <2>1. g.nextPort + 1 \in Nat BY <1>1
  <2> QED BY <1>a, <1>1, <1>5, <2>1 DEF Graphs
<1>7. Clients(h) = Clients(g) /\ Ports(h) = Ports(g) \cup {x} /\ Conns(h) = Conns(g)
  BY <1>5, <1>6 DEF Clients, Ports, Conns
<1>8. Changed(g, h)
  <2>1. PortsSound(Ports(h), h.nextPort) BY <1>1, <1>2, <1>3, <1>6, <1>7 DEF Sound, PortsSound
  <2>2. PortsInside(Clients(h), Ports(h)) BY <1>1, <1>2, <1>7 DEF Sound, PortsInside
  <2>c. ConnsInside(Ports(h), Conns(h)) BY <1>1, <1>7 DEF Sound, ConnsInside
  <2>3. Sound(h) BY <1>1, <1>5, <1>6, <1>7, <2>1, <2>2, <2>c DEF Sound
  <2>4. g.nextPort <= h.nextPort BY <1>1, <1>6
  <2>5. \A p \in Ports(h) : p.id >= g.nextPort \/ \E q \in Ports(g) : q.id = p.id
    <3>1. x.id >= g.nextPort BY <1>1, <1>2
    <3> QED BY <1>7, <3>1
  <2>6. Buries(g, h) BY <1>1, <2>3, <2>4, <2>5, Burying
  <2> QED BY <1>1, <1>6, <2>3, <2>6 DEF Changed
<1>9. SameClientsSeen(g, h) /\ SameConnsSeen(g, h) BY <1>7 DEF SameClientsSeen, SameConnsSeen
<1>10. SamePortsSeen(g, h) BY <1>2, <1>7 DEF Vis, SamePortsSeen
<1>11. PortSignal("PortAppeared", x) \in SignalRecs /\ PortSignal("PortAppeared", x).kind = "silent"
  BY <1>2, PortSignalFields DEF Kinds
<1>12. Good(c, h) BY <1>8, <1>9, <1>10, <1>11, SaidQuietly
<1> QED BY <1>2, <1>6, <1>7, <1>12

\* A port without connections is removed.
LEMMA RemovePortOnlyKeeps ==
  ASSUME NEW g, NEW c, Good(c, g), NEW x \in Ports(g), \A k \in Conns(g) : x.id \notin k.ends
  PROVE  Becomes(c, g, RemovePortOnly(g, x.id), Clients(g), Ports(g) \ {x}, Conns(g))
<1> DEFINE l == Without(g.ports, LAMBDA z : z.id = x.id)
           h == [g EXCEPT !.ports = l]
           s == PortSignal("PortDisappeared", x)
<1>1. /\ Sound(g) /\ g \in Graphs /\ g.ports \in Seq(PortRecs) /\ IsInjective(g.ports)
      /\ g.nextPort \in Nat /\ x \in PortRecs
  BY SoundTypes DEF Good, Sound
<1>2. \A z \in Ports(g) : z.id = x.id <=> z = x BY <1>1 DEF Sound, PortsSound
<1>3. l = Members(g.ports, { z \in Elements(g.ports) : ~(z.id = x.id) }) BY DEF Without, Select
<1>4. RemovePortOnly(g, x.id) = Emit(h, s) BY <1>1, PortFound DEF RemovePortOnly
<1> HIDE DEF l
<1>5. l \in Seq(PortRecs) /\ IsInjective(l) /\ Elements(l) = Ports(g) \ {x}
  BY <1>1, <1>2, <1>3, MembersFacts DEF Ports
<1>6. /\ h \in Graphs /\ h.clients = g.clients /\ h.ports = l /\ h.conns = g.conns /\ h.version = g.version
      /\ h.nextClient = g.nextClient /\ h.nextPort = g.nextPort /\ h.sent = g.sent
  BY <1>1, <1>5 DEF Graphs
<1> HIDE DEF h
<1>7. Clients(h) = Clients(g) /\ Ports(h) = Ports(g) \ {x} /\ Conns(h) = Conns(g)
  BY <1>5, <1>6 DEF Clients, Ports, Conns
<1>8. Changed(g, h)
  <2>1. PortsSound(Ports(h), h.nextPort) BY <1>1, <1>6, <1>7 DEF Sound, PortsSound
  <2>2. PortsInside(Clients(h), Ports(h)) BY <1>1, <1>7 DEF Sound, PortsInside
  <2>c. ConnsInside(Ports(h), Conns(h))
    <3> SUFFICES ASSUME NEW k \in Conns(g), NEW e \in k.ends
                 PROVE  \E p \in Ports(h) : p.id = e /\ (p.hidden => k.hidden)
      BY <1>7 DEF ConnsInside
    <3>1. PICK p \in Ports(g) : p.id = e /\ (p.hidden => k.hidden) BY <1>1 DEF Sound, ConnsInside
    <3> QED BY <1>7, <3>1
  <2>3. Sound(h) BY <1>1, <1>5, <1>6, <1>7, <2>1, <2>2, <2>c DEF Sound
  <2>4. g.nextPort <= h.nextPort BY <1>1, <1>6
  <2>5. \A p \in Ports(h) : p.id >= g.nextPort \/ \E q \in Ports(g) : q.id = p.id BY <1>7
  <2>6. Buries(g, h) BY <1>1, <2>3, <2>4, <2>5, Burying
  <2> QED BY <1>1, <1>6, <2>3, <2>6 DEF Changed
<1>9. SameClientsSeen(g, h) /\ SameConnsSeen(g, h) BY <1>7 DEF SameClientsSeen, SameConnsSeen
<1>10. Good(c, Emit(h, s)) /\ SameObjects(Emit(h, s), h)
  <2>1. CASE x.hidden
    <3>1. SamePortsSeen(g, h) BY <1>7, <2>1 DEF Vis, SamePortsSeen
    <3>2. s \in SignalRecs /\ s.kind = "silent" BY <1>1, <2>1, PortSignalFields DEF Kinds
    <3> HIDE DEF s
    <3> QED BY <1>8, <1>9, <3>1, <3>2, SaidQuietly
  <2>2. CASE ~x.hidden
    <3>1. Vis(Ports(h)) = Vis(Ports(g)) \ {x} /\ x \in Vis(Ports(g)) BY <1>7, <2>2 DEF Vis
    <3>2. \A k \in Vis(Conns(g)) : x.id \notin k.ends BY DEF Vis
    <3>3. \A p \in Ports(h) : p.id # x.id BY <1>2, <1>7
    <3> QED BY <1>6, <1>8, <1>9, <3>1, <3>2, <3>3, EmittedPortDisappears
  <2> QED BY <1>1, <2>1, <2>2
<1> QED BY <1>4, <1>6, <1>7, <1>10 DEF SameObjects, Becomes

-----------------------------------------------------------------------------
(***************************************************************************)
(* Connections.                                                            *)
(***************************************************************************)

\* A visible connection is between visible ports.
ConnFits(P, y) ==
  /\ \A e \in y.ends : \E p \in P : p.id = e /\ (p.hidden => y.hidden)
  /\ \E a, b \in Nat : a # b /\ y.ends = {a, b}

\* h has the connections K, listed in l.
LEMMA ConnsChanged ==
  ASSUME NEW g, Sound(g), NEW l \in Seq(ConnRecs), IsInjective(l), ConnsSound(Elements(l)),
         ConnsInside(Ports(g), Elements(l)), NEW h, h = [g EXCEPT !.conns = l]
  PROVE  /\ Changed(g, h) /\ h.nextClient = g.nextClient /\ h.nextPort = g.nextPort
         /\ Conns(h) = Elements(l) /\ Clients(h) = Clients(g) /\ Ports(h) = Ports(g)
         /\ SameClientsSeen(g, h) /\ SamePortsSeen(g, h)
<1>1. g \in Graphs /\ g.nextPort \in Nat BY SoundTypes
<1>2. /\ h \in Graphs /\ h.conns = l /\ h.clients = g.clients /\ h.ports = g.ports /\ h.version = g.version
      /\ h.nextClient = g.nextClient /\ h.nextPort = g.nextPort /\ h.sent = g.sent
  BY <1>1 DEF Graphs
<1>3. Conns(h) = Elements(l) /\ Clients(h) = Clients(g) /\ Ports(h) = Ports(g)
  BY <1>2 DEF Clients, Ports, Conns
<1>4. Sound(h) BY <1>2, <1>3 DEF Sound
<1>5. Buries(g, h)
  <2>1. g.nextPort <= h.nextPort BY <1>1, <1>2
  <2>2. \A p \in Ports(h) : p.id >= g.nextPort \/ \E q \in Ports(g) : q.id = p.id BY <1>3
  <2> QED BY <1>4, <2>1, <2>2, Burying
<1> QED BY <1>2, <1>3, <1>4, <1>5 DEF Changed, SameClientsSeen, SamePortsSeen

\* A connection more.
LEMMA ConnsGrow ==
  ASSUME NEW K, NEW P, ConnsSound(K), ConnsInside(P, K), NEW y,
         \A k \in K : k.ends # y.ends, ConnFits(P, y)
  PROVE  ConnsSound(K \cup {y}) /\ ConnsInside(P, K \cup {y})
<1>1. ConnsInside(P, K \cup {y}) BY DEF ConnsInside, ConnFits
<1>2. \A k \in K \cup {y} : \E a, b \in Nat : a # b /\ k.ends = {a, b} BY DEF ConnsSound, ConnFits
<1>3. \A x, z \in K \cup {y} : x.ends = z.ends => x = z BY DEF ConnsSound
<1> QED BY <1>1, <1>2, <1>3 DEF ConnsSound

\* A connection less.
LEMMA ConnsShrink ==
  ASSUME NEW K, NEW P, ConnsSound(K), ConnsInside(P, K), NEW L, L \subseteq K
  PROVE  ConnsSound(L) /\ ConnsInside(P, L)
BY DEF ConnsSound, ConnsInside

\* Every watcher can follow AddConnection.
LEMMA AddConnectionKeeps ==
  ASSUME NEW g, NEW c, Good(c, g), NEW ends, NEW hidden \in BOOLEAN,
         NEW a \in Nat, NEW b \in Nat, a # b, ends = {a, b},
         \A k \in Conns(g) : k.ends # ends,
         \A e \in ends : \E p \in Ports(g) : p.id = e /\ (p.hidden => hidden)
  PROVE  Good(c, AddConnection(g, ends, hidden))
<1> DEFINE y == [ends |-> ends, hidden |-> hidden]
           l == Append(g.conns, y)
           h == [g EXCEPT !.conns = l]
<1>1. Sound(g) /\ g.conns \in Seq(ConnRecs) /\ IsInjective(g.conns) BY SoundTypes DEF Good, Sound
<1>2. y \in ConnRecs /\ y.ends = ends /\ y.hidden = hidden BY DEF ConnRecs
<1>3. AddConnection(g, ends, hidden) = SayConnected(h, y) BY DEF AddConnection
<1> HIDE DEF y
<1>4. y \notin Elements(g.conns) BY <1>2 DEF Conns
<1>5. l \in Seq(ConnRecs) /\ IsInjective(l) /\ Elements(l) = Conns(g) \cup {y}
  BY <1>1, <1>2, <1>4, AppendFacts DEF Conns
<1> HIDE DEF l
<1>6. ConnsSound(Elements(l)) /\ ConnsInside(Ports(g), Elements(l))
  <2>1. ConnsSound(Conns(g)) /\ ConnsInside(Ports(g), Conns(g)) BY <1>1 DEF Sound
  <2>2. \A k \in Conns(g) : k.ends # y.ends BY <1>2
  <2>3. \A e \in y.ends : \E p \in Ports(g) : p.id = e /\ (p.hidden => y.hidden) BY <1>2
  <2>4. \E i, j \in Nat : i # j /\ y.ends = {i, j} BY <1>2
  <2>5. ConnFits(Ports(g), y) BY <2>3, <2>4 DEF ConnFits
  <2> QED BY <2>1, <2>2, <2>5, <1>5, ConnsGrow
<1>7. /\ Changed(g, h) /\ Conns(h) = Conns(g) \cup {y}
      /\ SameClientsSeen(g, h) /\ SamePortsSeen(g, h)
  <2> HIDE DEF h
  <2>1. l \in Seq(ConnRecs) /\ IsInjective(l) BY <1>5
  <2>2. /\ Changed(g, h) /\ Conns(h) = Elements(l) /\ SameClientsSeen(g, h) /\ SamePortsSeen(g, h)
    BY <1>1, <1>6, <2>1, ConnsChanged DEF h
  <2> QED BY <2>2, <1>5
<1> HIDE DEF h
<1>8. CASE ~hidden
  <2>1. Vis(Conns(h)) = Vis(Conns(g)) \cup {y} /\ y \in Conns(h) BY <1>2, <1>7, <1>8 DEF Vis
  <2> QED BY <1>2, <1>3, <1>7, <1>8, <2>1, SaidConnects
<1>9. CASE hidden
  <2>1. SameConnsSeen(g, h) BY <1>2, <1>7, <1>9 DEF Vis, SameConnsSeen
  <2> DEFINE s == ConnSignal("PortsConnected", y)
  <2>2. s \in SignalRecs /\ s.kind = "silent" BY <1>2, <1>9, ConnSignalFields DEF Kinds
  <2>3. SayConnected(h, y) = Say(h, s) BY DEF SayConnected
  <2> HIDE DEF s
  <2> QED BY <1>3, <1>7, <2>1, <2>2, <2>3, SaidQuietly
<1> QED BY <1>8, <1>9

\* A connection is changed in its place.
LEMMA ConnReplaced ==
  ASSUME NEW g, Sound(g), NEW x \in Conns(g), NEW y \in ConnRecs, y.ends = x.ends, ConnFits(Ports(g), y),
         NEW l, Swapped(l, g.conns, x, y), NEW h, h = [g EXCEPT !.conns = l]
  PROVE  /\ Changed(g, h) /\ h.nextClient = g.nextClient /\ h.nextPort = g.nextPort
         /\ Conns(h) = (Conns(g) \ {x}) \cup {y} /\ Clients(h) = Clients(g) /\ Ports(h) = Ports(g)
         /\ SameClientsSeen(g, h) /\ SamePortsSeen(g, h)
<1>1. g.conns \in Seq(ConnRecs) /\ IsInjective(g.conns) BY SoundTypes DEF Sound
<1>2. \A z \in Conns(g) : z.ends = x.ends <=> z = x BY DEF Sound, ConnsSound
<1>3. y \notin Elements(g.conns) \ {x} BY <1>2 DEF Conns
<1>4. l \in Seq(ConnRecs) /\ IsInjective(l) /\ Elements(l) = (Conns(g) \ {x}) \cup {y}
  <2>1. x \in Elements(g.conns) BY DEF Conns
  <2> QED BY <1>1, <1>3, <2>1, Replaced DEF Conns
<1>5. ConnsSound(Elements(l)) /\ ConnsInside(Ports(g), Elements(l))
  <2> DEFINE K == Conns(g) \ {x}
  <2>1. ConnsSound(K) /\ ConnsInside(Ports(g), K) BY ConnsShrink DEF Sound
  <2>2. \A k \in K : k.ends # y.ends BY <1>2
  <2> HIDE DEF K
  <2>3. ConnsSound(K \cup {y}) /\ ConnsInside(Ports(g), K \cup {y}) BY <2>1, <2>2, ConnsGrow
  <2> QED BY <2>3, <1>4 DEF K
<1> QED BY <1>4, <1>5, ConnsChanged

\* Every watcher can follow ShowConnection.
LEMMA ShowConnectionKeeps ==
  ASSUME NEW g, NEW c, Good(c, g), NEW x \in Conns(g), x.hidden,
         \A p \in Ports(g) : p.id \in x.ends => ~p.hidden
  PROVE  Good(c, ShowConnection(g, x))
<1> DEFINE y == Show(x)
           l == Update(g.conns, LAMBDA z : z = x, Show)
           h == [g EXCEPT !.conns = l]
<1>1. Sound(g) /\ x \in ConnRecs BY SoundTypes DEF Good
<1>2. y \in ConnRecs /\ y.ends = x.ends /\ ~y.hidden BY <1>1 DEF Show, ConnRecs
<1>3. Swapped(l, g.conns, x, y) BY DEF Update, Swapped
<1>4. ShowConnection(g, x) = SayConnected(h, y) BY DEF ShowConnection
<1> HIDE DEF y, l
<1>5. ConnFits(Ports(g), y)
  <2>1. \E a, b \in Nat : a # b /\ y.ends = {a, b} BY <1>1, <1>2 DEF Sound, ConnsSound
  <2>2. \A e \in y.ends : \E p \in Ports(g) : p.id = e /\ (p.hidden => y.hidden)
    BY <1>1, <1>2 DEF Sound, ConnsInside
  <2> QED BY <2>1, <2>2 DEF ConnFits
<1>6. /\ Changed(g, h) /\ Conns(h) = (Conns(g) \ {x}) \cup {y}
      /\ SameClientsSeen(g, h) /\ SamePortsSeen(g, h)
  <2> HIDE DEF h
  <2> QED BY <1>1, <1>2, <1>3, <1>5, ConnReplaced DEF h
<1> HIDE DEF h
<1>7. Vis(Conns(h)) = Vis(Conns(g)) \cup {y} /\ y \in Conns(h) BY <1>2, <1>6 DEF Vis
<1>8. Good(c, SayConnected(h, y)) BY <1>2, <1>6, <1>7, SaidConnects
<1> QED BY <1>4, <1>8

\* Every watcher can follow HideConnection.
LEMMA HideConnectionKeeps ==
  ASSUME NEW g, NEW c, Good(c, g), NEW x \in Conns(g), ~x.hidden
  PROVE  Becomes(c, g, HideConnection(g, x), Clients(g), Ports(g), (Conns(g) \ {x}) \cup {Hide(x)})
<1> DEFINE y == Hide(x)
           l == Update(g.conns, LAMBDA z : z = x, Hide)
           h == [g EXCEPT !.conns = l]
<1>1. Sound(g) /\ x \in ConnRecs BY SoundTypes DEF Good
<1>2. y \in ConnRecs /\ y.ends = x.ends /\ y.hidden BY <1>1 DEF Hide, ConnRecs
<1>3. Swapped(l, g.conns, x, y) BY DEF Update, Swapped
<1>4. HideConnection(g, x) = SayDisconnected(h, x) BY DEF HideConnection
<1> HIDE DEF y, l
<1>5. ConnFits(Ports(g), y)
  <2>1. \E a, b \in Nat : a # b /\ y.ends = {a, b} BY <1>1, <1>2 DEF Sound, ConnsSound
  <2>2. \A e \in y.ends : \E p \in Ports(g) : p.id = e /\ (p.hidden => y.hidden)
    BY <1>1, <1>2 DEF Sound, ConnsInside
  <2> QED BY <2>1, <2>2 DEF ConnFits
<1>6. /\ Changed(g, h) /\ h.nextClient = g.nextClient /\ h.nextPort = g.nextPort
      /\ Conns(h) = (Conns(g) \ {x}) \cup {y} /\ Clients(h) = Clients(g) /\ Ports(h) = Ports(g)
      /\ SameClientsSeen(g, h) /\ SamePortsSeen(g, h)
  <2> HIDE DEF h
  <2> QED BY <1>1, <1>2, <1>3, <1>5, ConnReplaced DEF h
<1> HIDE DEF h
<1>7. Vis(Conns(h)) = Vis(Conns(g)) \ {x} /\ x \in Vis(Conns(g)) BY <1>2, <1>6 DEF Vis
<1>8. Good(c, SayDisconnected(h, x)) /\ SameObjects(SayDisconnected(h, x), h) BY <1>6, <1>7, SaidDisconnects
<1> QED BY <1>4, <1>6, <1>8 DEF Becomes, SameObjects, y

\* Every watcher can follow DropConnection.
LEMMA DropConnectionKeeps ==
  ASSUME NEW g, NEW c, Good(c, g), NEW x \in Conns(g)
  PROVE  Becomes(c, g, DropConnection(g, x), Clients(g), Ports(g), Conns(g) \ {x})
<1> DEFINE l == Without(g.conns, LAMBDA z : z = x)
           h == [g EXCEPT !.conns = l]
<1>1. Sound(g) /\ x \in ConnRecs /\ g.conns \in Seq(ConnRecs) /\ IsInjective(g.conns) BY SoundTypes DEF Good, Sound
<1>2. l = Members(g.conns, { z \in Elements(g.conns) : ~(z = x) }) BY DEF Without, Select
<1>3. DropConnection(g, x) = SayDisconnected(h, x) BY DEF DropConnection
<1> HIDE DEF l
<1>4. l \in Seq(ConnRecs) /\ IsInjective(l) /\ Elements(l) = Conns(g) \ {x}
  BY <1>1, <1>2, MembersFacts DEF Conns
<1>5. ConnsSound(Elements(l)) /\ ConnsInside(Ports(g), Elements(l)) BY <1>1, <1>4, ConnsShrink DEF Sound
<1>6. /\ Changed(g, h) /\ h.nextClient = g.nextClient /\ h.nextPort = g.nextPort
      /\ Conns(h) = Conns(g) \ {x} /\ Clients(h) = Clients(g) /\ Ports(h) = Ports(g)
      /\ SameClientsSeen(g, h) /\ SamePortsSeen(g, h)
  <2> HIDE DEF h
  <2> QED BY <1>1, <1>4, <1>5, ConnsChanged DEF h
<1> HIDE DEF h
<1>7. Good(c, SayDisconnected(h, x)) /\ SameObjects(SayDisconnected(h, x), h)
  <2>1. CASE ~x.hidden
    <3>1. Vis(Conns(h)) = Vis(Conns(g)) \ {x} /\ x \in Vis(Conns(g)) BY <1>6, <2>1 DEF Vis
    <3> QED BY <1>6, <3>1, SaidDisconnects
  <2>2. CASE x.hidden
    <3>1. SameConnsSeen(g, h) BY <1>6, <2>2 DEF Vis, SameConnsSeen
    <3> DEFINE s == ConnSignal("PortsDisconnected", x)
    <3>2. s \in SignalRecs /\ s.kind = "silent" BY <1>1, <2>2, ConnSignalFields DEF Kinds
    <3>3. SayDisconnected(h, x) = Say(h, s) BY DEF SayDisconnected
    <3> HIDE DEF s
    <3> QED BY <1>6, <3>1, <3>2, <3>3, SaidQuietly
  <2> QED BY <2>1, <2>2
<1> QED BY <1>3, <1>6, <1>7 DEF Becomes, SameObjects

-----------------------------------------------------------------------------
(***************************************************************************)
(* A port and its connections.                                             *)
(***************************************************************************)

\* The first i elements of a list.
Upto(list, i) == { list[k] : k \in 1..i }

\* The elements up to a position of a list.
LEMMA UptoFacts ==
  ASSUME NEW R, NEW list \in Seq(R), IsInjective(list)
  PROVE  /\ Len(list) \in Nat /\ Upto(list, 0) = {} /\ Upto(list, Len(list)) = Elements(list)
         /\ \A i \in 1..Len(list) : /\ Upto(list, i) = Upto(list, i - 1) \cup {list[i]}
                                    /\ list[i] \notin Upto(list, i - 1) /\ list[i] \in Elements(list)
<1>1. Len(list) \in Nat /\ DOMAIN list = 1..Len(list) OBVIOUS
<1>2. Upto(list, 0) = {} /\ Upto(list, Len(list)) = Elements(list) BY <1>1 DEF Upto, Elements
<1>3. ASSUME NEW i \in 1..Len(list)
      PROVE  /\ Upto(list, i) = Upto(list, i - 1) \cup {list[i]}
             /\ list[i] \notin Upto(list, i - 1) /\ list[i] \in Elements(list)
  <2>1. i \in Nat /\ i \in 1..i /\ \A k \in 1..i : k \in 1..(i-1) \/ k = i BY <1>1
  <2>2. \A k \in 1..(i-1) : k \in 1..i /\ k \in DOMAIN list /\ k # i BY <1>1
  <2>3. Upto(list, i) = Upto(list, i - 1) \cup {list[i]} BY <2>1, <2>2 DEF Upto
  <2>4. list[i] \notin Upto(list, i - 1) BY <1>1, <2>2 DEF Upto, IsInjective
  <2> QED BY <2>3, <2>4, <1>1 DEF Elements
<1> QED BY <1>1, <1>2, <1>3

-----------------------------------------------------------------------------
\* The first i visible connections of a list are hidden; p[1] watches and p[2] is the graph at first.
OpHide(p, acc, x) == HideConnection(acc, x)
HiddenUpto(p, acc, list, i) ==
  /\ Good(p[1], acc)
  /\ Clients(acc) = Clients(p[2]) /\ Ports(acc) = Ports(p[2])
  /\ Vis(Conns(acc)) = Vis(Conns(p[2])) \ Upto(list, i)
  /\ acc.nextClient = p[2].nextClient /\ acc.nextPort = p[2].nextPort
HideFold == INSTANCE FoldFacts WITH Op <- OpHide, Inv <- HiddenUpto

\* Hiding connections one after the other.
LEMMA HiddenConnections ==
  ASSUME NEW g, NEW c, Good(c, g), NEW list \in Seq(ConnRecs), IsInjective(list), Elements(list) \subseteq Vis(Conns(g))
  PROVE  HiddenUpto(<<c, g>>, FoldLeft(HideConnection, g, list), list, Len(list))
<1> DEFINE p == <<c, g>>
<1>1. FoldLeft(HideConnection, g, list) = HideFold!Folded(p, g, list)
  BY Zenon DEF HideFold!Folded, OpHide, FoldLeft, MapThenFoldSet, HideFold!MapThenFoldSet, Max, HideFold!Greatest
<1>2. HiddenUpto(p, g, list, 0) BY UptoFacts DEF HiddenUpto
<1>3. ASSUME NEW i \in 1..Len(list), NEW acc, HiddenUpto(p, acc, list, i - 1)
      PROVE  HiddenUpto(p, OpHide(p, acc, list[i]), list, i)
  <2> DEFINE x == list[i]
             r == HideConnection(acc, x)
  <2>1. /\ Good(c, acc) /\ Clients(acc) = Clients(g) /\ Ports(acc) = Ports(g)
        /\ Vis(Conns(acc)) = Vis(Conns(g)) \ Upto(list, i - 1)
        /\ acc.nextClient = g.nextClient /\ acc.nextPort = g.nextPort
    BY <1>3 DEF HiddenUpto
  <2>2. /\ x \in Elements(list) /\ x \notin Upto(list, i - 1)
        /\ Upto(list, i) = Upto(list, i - 1) \cup {x}
    BY UptoFacts
  <2> HIDE DEF x
  <2>3. x \in Conns(acc) /\ ~x.hidden BY <2>1, <2>2 DEF Vis
  <2>4. x \in ConnRecs BY <2>1, <2>3, SoundTypes DEF Good
  <2>5. Becomes(c, acc, r, Clients(acc), Ports(acc), (Conns(acc) \ {x}) \cup {Hide(x)})
    BY <2>1, <2>3, HideConnectionKeeps
  <2> HIDE DEF r
  <2>6. Hide(x).hidden BY <2>4 DEF Hide, ConnRecs
  <2>7. Vis(Conns(r)) = Vis(Conns(acc)) \ {x} BY <2>5, <2>6 DEF Becomes, Vis
  <2>8. Vis(Conns(r)) = Vis(Conns(g)) \ Upto(list, i) BY <2>1, <2>2, <2>7
  <2>9. HiddenUpto(p, r, list, i) BY <2>1, <2>5, <2>8 DEF Becomes, HiddenUpto
  <2> QED BY <2>9 DEF OpHide, r, x
<1>4. HideFold!Kept(p, list) BY <1>3 DEF HideFold!Kept
<1>n. HideFold!LeastNumbers BY LeastNumber DEF Numbers, HideFold!LeastNumbers
<1> QED BY <1>1, <1>2, <1>4, <1>n, HideFold!FoldKeeps

\* The first i connections of a list are removed.
OpDropConn(p, acc, x) == DropConnection(acc, x)
DroppedUpto(p, acc, list, i) ==
  Becomes(p[1], p[2], acc, Clients(p[2]), Ports(p[2]), Conns(p[2]) \ Upto(list, i))
DropFold == INSTANCE FoldFacts WITH Op <- OpDropConn, Inv <- DroppedUpto

\* Removing connections one after the other.
LEMMA DroppedConnections ==
  ASSUME NEW g, NEW c, Good(c, g), NEW list \in Seq(ConnRecs), IsInjective(list), Elements(list) \subseteq Conns(g)
  PROVE  Becomes(c, g, FoldLeft(DropConnection, g, list), Clients(g), Ports(g), Conns(g) \ Elements(list))
<1> DEFINE p == <<c, g>>
<1>1. FoldLeft(DropConnection, g, list) = DropFold!Folded(p, g, list)
  BY Zenon DEF DropFold!Folded, OpDropConn, FoldLeft, MapThenFoldSet, DropFold!MapThenFoldSet, Max, DropFold!Greatest
<1>2. DroppedUpto(p, g, list, 0) BY UptoFacts DEF DroppedUpto, Becomes
<1>3. ASSUME NEW i \in 1..Len(list), NEW acc, DroppedUpto(p, acc, list, i - 1)
      PROVE  DroppedUpto(p, OpDropConn(p, acc, list[i]), list, i)
  <2> DEFINE x == list[i]
             r == DropConnection(acc, x)
  <2>1. Becomes(c, g, acc, Clients(g), Ports(g), Conns(g) \ Upto(list, i - 1)) BY <1>3 DEF DroppedUpto
  <2>2. /\ x \in Elements(list) /\ x \notin Upto(list, i - 1)
        /\ Upto(list, i) = Upto(list, i - 1) \cup {x}
    BY UptoFacts
  <2> HIDE DEF x
  <2>3. Good(c, acc) /\ x \in Conns(acc) BY <2>1, <2>2 DEF Becomes
  <2>4. Becomes(c, acc, r, Clients(acc), Ports(acc), Conns(acc) \ {x}) BY <2>3, DropConnectionKeeps
  <2> HIDE DEF r
  <2>5. Conns(r) = Conns(g) \ Upto(list, i) BY <2>1, <2>2, <2>4 DEF Becomes
  <2>6. DroppedUpto(p, r, list, i) BY <2>1, <2>4, <2>5 DEF Becomes, DroppedUpto
  <2> QED BY <2>6 DEF OpDropConn, r, x
<1>4. DropFold!Kept(p, list) BY <1>3 DEF DropFold!Kept
<1>n. DropFold!LeastNumbers BY LeastNumber DEF Numbers, DropFold!LeastNumbers
<1>5. DroppedUpto(p, FoldLeft(DropConnection, g, list), list, Len(list)) BY <1>1, <1>2, <1>4, <1>n, DropFold!FoldKeeps
<1> QED BY <1>5, UptoFacts DEF DroppedUpto

-----------------------------------------------------------------------------

\* Every watcher can follow ShowPort.
LEMMA ShowPortKeeps ==
  ASSUME NEW g, NEW c, Good(c, g), NEW x \in Ports(g), x.hidden
  PROVE  Good(c, ShowPort(g, x.id))
<1>1. Sound(g) BY DEF Good
<1>2. PICK o \in Clients(g) : o.id = x.client BY <1>1 DEF Sound, PortsInside
<1>3. PortById(g, x.id) = x /\ ClientById(g, x.client) = o BY <1>1, <1>2, PortFound, ClientFound
<1>4. CASE ~o.hidden
  <2>1. ShowPort(g, x.id) = ShowPortOnly(g, x.id) BY <1>3, <1>4 DEF ShowPort
  <2> QED BY <1>2, <1>4, <2>1, ShowPortOnlyKeeps DEF Becomes
<1>5. CASE o.hidden
  <2> DEFINE h == ShowClient(g, o.id)
             y == Show(o)
  <2>1. ShowPort(g, x.id) = ShowPortOnly(h, x.id) BY <1>2, <1>3, <1>5 DEF ShowPort
  <2>2. Becomes(c, g, h, (Clients(g) \ {o}) \cup {y}, Ports(g), Conns(g)) BY <1>5, ShowClientKeeps
  <2>3. o \in ClientRecs BY <1>1, SoundTypes
  <2>4. y.id = x.client /\ ~y.hidden BY <1>2, <2>3 DEF Show, ClientRecs
  <2> HIDE DEF h, y
  <2>5. Good(c, h) /\ y \in Clients(h) /\ x \in Ports(h) BY <2>2 DEF Becomes
  <2> QED BY <2>1, <2>4, <2>5, ShowPortOnlyKeeps DEF Becomes
<1> QED BY <1>4, <1>5

\* Every watcher can follow AddPort.
LEMMA AddPortKeeps ==
  ASSUME NEW g, NEW c, Good(c, g), NEW o \in Clients(g), NEW hidden \in BOOLEAN
  PROVE  Good(c, AddPort(g, o.id, hidden))
<1> DEFINE x == [id |-> g.nextPort, client |-> o.id, hidden |-> TRUE, name |-> 0]
           h == [g EXCEPT !.ports = Append(@, x), !.nextPort = @ + 1]
<1>1. AddPort(g, o.id, hidden) = IF hidden THEN h ELSE ShowPort(h, x.id) BY DEF AddPort
<1>2. IsNewPort(x, g, o) BY DEF IsNewPort
<1> HIDE DEF x
<1>3. Good(c, h) /\ Ports(h) = Ports(g) \cup {x} /\ x.hidden
  <2>1. PortJoins(h, g, x) BY Zenon DEF PortJoins
  <2> HIDE DEF h
  <2> QED BY <1>2, <2>1, HiddenPortAdded
<1> HIDE DEF h
<1>4. Good(c, ShowPort(h, x.id)) BY <1>3, ShowPortKeeps
<1> QED BY <1>1, <1>3, <1>4

\* Every watcher can follow HidePort.
LEMMA HidePortKeeps ==
  ASSUME NEW g, NEW c, Good(c, g), NEW x \in Ports(g), ~x.hidden
  PROVE  LET r == HidePort(g, x.id)
         IN  Good(c, r) /\ Clients(r) = Clients(g) /\ Ports(r) = (Ports(g) \ {x}) \cup {Hide(x)}
<1> DEFINE list == Visible(ConnsOf(g, x.id))
           h == FoldLeft(HideConnection, g, list)
<1>1. Sound(g) BY DEF Good
<1>2. /\ list \in Seq(ConnRecs) /\ IsInjective(list)
      /\ Elements(list) = { k \in Conns(g) : x.id \in k.ends /\ ~k.hidden }
  <2>1. /\ ConnsOf(g, x.id) \in Seq(ConnRecs) /\ IsInjective(ConnsOf(g, x.id))
        /\ Elements(ConnsOf(g, x.id)) = { k \in Conns(g) : x.id \in k.ends }
    BY <1>1, ConnsOfFacts
  <2>2. /\ list \in Seq(ConnRecs) /\ IsInjective(list)
        /\ Elements(list) = { k \in Elements(ConnsOf(g, x.id)) : ~k.hidden }
    BY <2>1, VisibleFacts
  <2> HIDE DEF list
  <2> QED BY <2>1, <2>2
<1>3. HidePort(g, x.id) = HidePortOnly(h, x.id) BY DEF HidePort
<1> HIDE DEF list
<1>4. Elements(list) \subseteq Vis(Conns(g)) BY <1>2 DEF Vis
<1>5. HiddenUpto(<<c, g>>, h, list, Len(list)) BY <1>2, <1>4, HiddenConnections
<1> HIDE DEF h
<1>6. /\ Good(c, h) /\ Clients(h) = Clients(g) /\ Ports(h) = Ports(g)
      /\ Vis(Conns(h)) = Vis(Conns(g)) \ Elements(list)
  BY <1>2, <1>5, UptoFacts DEF HiddenUpto
<1>7. \A k \in Vis(Conns(h)) : x.id \notin k.ends BY <1>2, <1>6 DEF Vis
<1>8. Becomes(c, h, HidePortOnly(h, x.id), Clients(h), (Ports(h) \ {x}) \cup {Hide(x)}, Conns(h))
  BY <1>6, <1>7, HidePortOnlyKeeps
<1> QED BY <1>3, <1>6, <1>8 DEF Becomes

\* Every watcher can follow RemovePort.
LEMMA RemovePortKeeps ==
  ASSUME NEW g, NEW c, Good(c, g), NEW x \in Ports(g)
  PROVE  Becomes(c, g, RemovePort(g, x.id), Clients(g), Ports(g) \ {x}, { k \in Conns(g) : x.id \notin k.ends })
<1> DEFINE list == ConnsOf(g, x.id)
           h == FoldLeft(DropConnection, g, list)
           K == { k \in Conns(g) : x.id \notin k.ends }
<1>1. Sound(g) BY DEF Good
<1>2. list \in Seq(ConnRecs) /\ IsInjective(list) /\ Elements(list) = { k \in Conns(g) : x.id \in k.ends }
  BY <1>1, ConnsOfFacts
<1>3. RemovePort(g, x.id) = RemovePortOnly(h, x.id) BY DEF RemovePort
<1> HIDE DEF list
<1>4. Becomes(c, g, h, Clients(g), Ports(g), Conns(g) \ Elements(list)) BY <1>2, DroppedConnections
<1> HIDE DEF h
<1>5. Good(c, h) /\ x \in Ports(h) /\ Conns(h) = K /\ \A k \in Conns(h) : x.id \notin k.ends
  BY <1>2, <1>4 DEF Becomes
<1>6. Becomes(c, h, RemovePortOnly(h, x.id), Clients(h), Ports(h) \ {x}, Conns(h)) BY <1>5, RemovePortOnlyKeeps
<1> QED BY <1>3, <1>4, <1>5, <1>6 DEF Becomes

-----------------------------------------------------------------------------
(***************************************************************************)
(* A client and its ports, and the whole graph.                            *)
(***************************************************************************)

\* r is good and has these clients and ports, and no connection g does not have.
Shrinks(c, g, r, C, P) ==
  /\ Good(c, r)
  /\ Clients(r) = C /\ Ports(r) = P /\ Conns(r) \subseteq Conns(g)
  /\ r.nextClient = g.nextClient /\ r.nextPort = g.nextPort

OpRemovePort(p, acc, x) == RemovePort(acc, x.id)
PortsRemovedUpto(p, acc, list, i) ==
  Shrinks(p[1], p[2], acc, Clients(p[2]), Ports(p[2]) \ Upto(list, i))
RemovePortFold == INSTANCE FoldFacts WITH Op <- OpRemovePort, Inv <- PortsRemovedUpto

\* Removing ports one after the other.
LEMMA RemovedPorts ==
  ASSUME NEW g, NEW c, Good(c, g), NEW list \in Seq(PortRecs), IsInjective(list), Elements(list) \subseteq Ports(g)
  PROVE  Shrinks(c, g, FoldLeft(LAMBDA acc, x : RemovePort(acc, x.id), g, list), Clients(g), Ports(g) \ Elements(list))
<1> DEFINE p == <<c, g>>
           r == FoldLeft(LAMBDA acc, x : RemovePort(acc, x.id), g, list)
<1>1. r = RemovePortFold!Folded(p, g, list)
  BY Zenon DEF RemovePortFold!Folded, OpRemovePort, FoldLeft, MapThenFoldSet,
               RemovePortFold!MapThenFoldSet, Max, RemovePortFold!Greatest
<1> HIDE DEF r
<1>2. PortsRemovedUpto(p, g, list, 0) BY UptoFacts DEF PortsRemovedUpto, Shrinks
<1>3. ASSUME NEW i \in 1..Len(list), NEW acc, PortsRemovedUpto(p, acc, list, i - 1)
      PROVE  PortsRemovedUpto(p, OpRemovePort(p, acc, list[i]), list, i)
  <2> DEFINE x == list[i]
             h == RemovePort(acc, x.id)
  <2>1. Shrinks(c, g, acc, Clients(g), Ports(g) \ Upto(list, i - 1)) BY <1>3 DEF PortsRemovedUpto
  <2>2. /\ x \in Elements(list) /\ x \notin Upto(list, i - 1)
        /\ Upto(list, i) = Upto(list, i - 1) \cup {x}
    BY UptoFacts
  <2> HIDE DEF x
  <2>3. Good(c, acc) /\ x \in Ports(acc) BY <2>1, <2>2 DEF Shrinks
  <2>4. Becomes(c, acc, h, Clients(acc), Ports(acc) \ {x}, { k \in Conns(acc) : x.id \notin k.ends })
    BY <2>3, RemovePortKeeps
  <2> HIDE DEF h
  <2>5. Ports(h) = Ports(g) \ Upto(list, i) BY <2>1, <2>2, <2>4 DEF Becomes, Shrinks
  <2>6. PortsRemovedUpto(p, h, list, i) BY <2>1, <2>4, <2>5 DEF Becomes, Shrinks, PortsRemovedUpto
  <2> QED BY <2>6 DEF OpRemovePort, h, x
<1>4. RemovePortFold!Kept(p, list) BY <1>3 DEF RemovePortFold!Kept
<1>n. RemovePortFold!LeastNumbers BY LeastNumber DEF Numbers, RemovePortFold!LeastNumbers
<1>5. PortsRemovedUpto(p, r, list, Len(list)) BY <1>1, <1>2, <1>4, <1>n, RemovePortFold!FoldKeeps
<1> QED BY <1>5, UptoFacts DEF PortsRemovedUpto, r

\* Every watcher can follow RemoveClient.
LEMMA RemoveClientKeeps ==
  ASSUME NEW g, NEW c, Good(c, g), NEW x \in Clients(g)
  PROVE  Shrinks(c, g, RemoveClient(g, x.id), Clients(g) \ {x}, { p \in Ports(g) : p.client # x.id })
<1> DEFINE list == PortsOf(g, x.id)
           h == FoldLeft(LAMBDA acc, p : RemovePort(acc, p.id), g, list)
<1>1. Sound(g) BY DEF Good
<1>2. list \in Seq(PortRecs) /\ IsInjective(list) /\ Elements(list) = { p \in Ports(g) : p.client = x.id }
  BY <1>1, PortsOfFacts
<1>3. RemoveClient(g, x.id) = RemoveClientOnly(h, x.id) BY DEF RemoveClient
<1> HIDE DEF list
<1>a. Elements(list) \subseteq Ports(g) BY <1>2
<1>4. Shrinks(c, g, h, Clients(g), Ports(g) \ Elements(list)) BY <1>a, <1>2, RemovedPorts
<1> HIDE DEF h
<1>5. /\ Good(c, h) /\ x \in Clients(h) /\ Ports(h) = { p \in Ports(g) : p.client # x.id }
      /\ \A p \in Ports(h) : p.client # x.id
  BY <1>2, <1>4 DEF Shrinks
<1>6. Becomes(c, h, RemoveClientOnly(h, x.id), Clients(h) \ {x}, Ports(h), Conns(h)) BY <1>5, RemoveClientOnlyKeeps
<1> QED BY <1>3, <1>4, <1>5, <1>6 DEF Becomes, Shrinks

OpRemoveClient(p, acc, x) == RemoveClient(acc, x.id)
ClientsRemovedUpto(p, acc, list, i) == Good(p[1], acc) /\ Clients(acc) = Clients(p[2]) \ Upto(list, i)
RemoveClientFold == INSTANCE FoldFacts WITH Op <- OpRemoveClient, Inv <- ClientsRemovedUpto

\* Removing clients one after the other.
LEMMA RemovedClients ==
  ASSUME NEW g, NEW c, Good(c, g), NEW list \in Seq(ClientRecs), IsInjective(list), Elements(list) \subseteq Clients(g)
  PROVE  Good(c, FoldLeft(LAMBDA acc, x : RemoveClient(acc, x.id), g, list))
<1> DEFINE p == <<c, g>>
           r == FoldLeft(LAMBDA acc, x : RemoveClient(acc, x.id), g, list)
<1>1. r = RemoveClientFold!Folded(p, g, list)
  BY Zenon DEF RemoveClientFold!Folded, OpRemoveClient, FoldLeft, MapThenFoldSet,
               RemoveClientFold!MapThenFoldSet, Max, RemoveClientFold!Greatest
<1> HIDE DEF r
<1>2. ClientsRemovedUpto(p, g, list, 0) BY UptoFacts DEF ClientsRemovedUpto
<1>3. ASSUME NEW i \in 1..Len(list), NEW acc, ClientsRemovedUpto(p, acc, list, i - 1)
      PROVE  ClientsRemovedUpto(p, OpRemoveClient(p, acc, list[i]), list, i)
  <2> DEFINE x == list[i]
             h == RemoveClient(acc, x.id)
  <2>1. Good(c, acc) /\ Clients(acc) = Clients(g) \ Upto(list, i - 1) BY <1>3 DEF ClientsRemovedUpto
  <2>2. /\ x \in Elements(list) /\ x \notin Upto(list, i - 1)
        /\ Upto(list, i) = Upto(list, i - 1) \cup {x}
    BY UptoFacts
  <2> HIDE DEF x
  <2>3. x \in Clients(acc) BY <2>1, <2>2
  <2>4. Shrinks(c, acc, h, Clients(acc) \ {x}, { q \in Ports(acc) : q.client # x.id })
    BY <2>1, <2>3, RemoveClientKeeps
  <2> HIDE DEF h
  <2>6. ClientsRemovedUpto(p, h, list, i) BY <2>1, <2>2, <2>4 DEF Shrinks, ClientsRemovedUpto
  <2> QED BY <2>6 DEF OpRemoveClient, h, x
<1>4. RemoveClientFold!Kept(p, list) BY <1>3 DEF RemoveClientFold!Kept
<1>n. RemoveClientFold!LeastNumbers BY LeastNumber DEF Numbers, RemoveClientFold!LeastNumbers
<1>5. ClientsRemovedUpto(p, r, list, Len(list)) BY <1>1, <1>2, <1>4, <1>n, RemoveClientFold!FoldKeeps
<1> QED BY <1>5 DEF ClientsRemovedUpto, r

\* Every watcher can follow Clear.
LEMMA ClearKeeps ==
  ASSUME NEW g, NEW c, Good(c, g)
  PROVE  Good(c, Clear(g))
<1> DEFINE h == FoldLeft(DropConnection, g, g.conns)
<1>1. /\ g.clients \in Seq(ClientRecs) /\ IsInjective(g.clients) /\ Elements(g.clients) = Clients(g)
      /\ g.conns \in Seq(ConnRecs) /\ IsInjective(g.conns) /\ Elements(g.conns) = Conns(g)
  BY SoundTypes DEF Good, Sound, Clients, Conns
<1>2. PICK l \in Seq(ClientRecs) : l = g.clients BY <1>1
<1>3. PICK k \in Seq(ConnRecs) : k = g.conns BY <1>1
<1>4. Clear(g) = FoldLeft(LAMBDA acc, x : RemoveClient(acc, x.id), h, l) BY <1>2, Zenon DEF Clear
<1>5. Becomes(c, g, FoldLeft(DropConnection, g, k), Clients(g), Ports(g), Conns(g) \ Elements(k))
  BY <1>1, <1>3, DroppedConnections
<1>6. Good(c, h) /\ Clients(h) = Clients(g) BY <1>3, <1>5, Zenon DEF Becomes
<1> HIDE DEF h
<1>7. IsInjective(l) /\ Elements(l) \subseteq Clients(h) BY <1>1, <1>2, <1>6
<1> QED BY <1>4, <1>6, <1>7, RemovedClients

\* Every watcher can follow RemoveHiddenObjects.
LEMMA RemoveHiddenObjectsKeeps ==
  ASSUME NEW g, NEW c, Good(c, g)
  PROVE  Good(c, RemoveHiddenObjects(g))
<1> DEFINE k == Select(g.conns, LAMBDA z : z.hidden)
           h == FoldLeft(DropConnection, g, k)
           l == Select(h.clients, LAMBDA z : z.hidden)
<1>1. k \in Seq(ConnRecs) /\ IsInjective(k) /\ Elements(k) \subseteq Conns(g)
  <2>1. g.conns \in Seq(ConnRecs) /\ IsInjective(g.conns) BY SoundTypes DEF Good, Sound
  <2>2. k = Members(g.conns, { z \in Elements(g.conns) : z.hidden }) BY DEF Select
  <2> HIDE DEF k
  <2> QED BY <2>1, <2>2, MembersFacts DEF Conns
<1>2. RemoveHiddenObjects(g) = FoldLeft(LAMBDA acc, x : RemoveClient(acc, x.id), h, l)
  BY Zenon DEF RemoveHiddenObjects
<1> HIDE DEF k
<1>3. Becomes(c, g, h, Clients(g), Ports(g), Conns(g) \ Elements(k)) BY <1>1, DroppedConnections
<1> HIDE DEF h
<1>4. Good(c, h) BY <1>3 DEF Becomes
<1>5. l \in Seq(ClientRecs) /\ IsInjective(l) /\ Elements(l) \subseteq Clients(h)
  <2>1. h.clients \in Seq(ClientRecs) /\ IsInjective(h.clients) BY <1>4, SoundTypes DEF Good, Sound
  <2>2. l = Members(h.clients, { z \in Elements(h.clients) : z.hidden }) BY DEF Select
  <2> HIDE DEF l
  <2> QED BY <2>1, <2>2, MembersFacts DEF Clients
<1> HIDE DEF l
<1> QED BY <1>2, <1>4, <1>5, RemovedClients

-----------------------------------------------------------------------------
OpHidePort(p, acc, x) == HidePortOnly(acc, x.id)
PortsHiddenUpto(p, acc, list, i) ==
  /\ Good(p[1], acc)
  /\ Clients(acc) = Clients(p[2]) /\ Conns(acc) = Conns(p[2])
  /\ Vis(Ports(acc)) = Vis(Ports(p[2])) \ Upto(list, i)
HidePortFold == INSTANCE FoldFacts WITH Op <- OpHidePort, Inv <- PortsHiddenUpto

\* Hiding ports one after the other.
LEMMA HiddenPorts ==
  ASSUME NEW g, NEW c, Good(c, g), NEW list \in Seq(PortRecs), IsInjective(list),
         Elements(list) \subseteq Vis(Ports(g)),
         \A x \in Elements(list) : \A k \in Vis(Conns(g)) : x.id \notin k.ends
  PROVE  PortsHiddenUpto(<<c, g>>, FoldLeft(LAMBDA acc, x : HidePortOnly(acc, x.id), g, list), list, Len(list))
<1> DEFINE p == <<c, g>>
           r == FoldLeft(LAMBDA acc, x : HidePortOnly(acc, x.id), g, list)
<1>1. r = HidePortFold!Folded(p, g, list)
  BY Zenon DEF HidePortFold!Folded, OpHidePort, FoldLeft, MapThenFoldSet,
               HidePortFold!MapThenFoldSet, Max, HidePortFold!Greatest
<1> HIDE DEF r
<1>2. PortsHiddenUpto(p, g, list, 0) BY UptoFacts DEF PortsHiddenUpto
<1>3. ASSUME NEW i \in 1..Len(list), NEW acc, PortsHiddenUpto(p, acc, list, i - 1)
      PROVE  PortsHiddenUpto(p, OpHidePort(p, acc, list[i]), list, i)
  <2> DEFINE x == list[i]
             h == HidePortOnly(acc, x.id)
  <2>1. /\ Good(c, acc) /\ Clients(acc) = Clients(g) /\ Conns(acc) = Conns(g)
        /\ Vis(Ports(acc)) = Vis(Ports(g)) \ Upto(list, i - 1)
    BY <1>3 DEF PortsHiddenUpto
  <2>2. /\ x \in Elements(list) /\ x \notin Upto(list, i - 1)
        /\ Upto(list, i) = Upto(list, i - 1) \cup {x}
    BY UptoFacts
  <2> HIDE DEF x
  <2>3. x \in Ports(acc) /\ ~x.hidden BY <2>1, <2>2 DEF Vis
  <2>4. x \in PortRecs BY <2>1, <2>3, SoundTypes DEF Good
  <2>5. \A k \in Vis(Conns(acc)) : x.id \notin k.ends BY <2>1, <2>2
  <2>6. Becomes(c, acc, h, Clients(acc), (Ports(acc) \ {x}) \cup {Hide(x)}, Conns(acc))
    BY <2>1, <2>3, <2>5, HidePortOnlyKeeps
  <2> HIDE DEF h
  <2>7. Hide(x).hidden BY <2>4 DEF Hide, PortRecs
  <2>8. Vis(Ports(h)) = Vis(Ports(acc)) \ {x} BY <2>6, <2>7 DEF Becomes, Vis
  <2>9. PortsHiddenUpto(p, h, list, i) BY <2>1, <2>2, <2>6, <2>8 DEF Becomes, PortsHiddenUpto
  <2> QED BY <2>9 DEF OpHidePort, h, x
<1>4. HidePortFold!Kept(p, list) BY <1>3 DEF HidePortFold!Kept
<1>n. HidePortFold!LeastNumbers BY LeastNumber DEF Numbers, HidePortFold!LeastNumbers
<1>5. PortsHiddenUpto(p, r, list, Len(list)) BY <1>1, <1>2, <1>4, <1>n, HidePortFold!FoldKeeps
<1> QED BY <1>5 DEF r

OpHideClient(p, acc, x) == HideClient(acc, x.id)
ClientsHiddenUpto(p, acc, list, i) ==
  /\ Good(p[1], acc) /\ Ports(acc) = Ports(p[2])
  /\ Vis(Clients(acc)) = Vis(Clients(p[2])) \ Upto(list, i)
HideClientFold == INSTANCE FoldFacts WITH Op <- OpHideClient, Inv <- ClientsHiddenUpto

\* Hiding clients one after the other.
LEMMA HiddenClients ==
  ASSUME NEW g, NEW c, Good(c, g), NEW list \in Seq(ClientRecs), IsInjective(list),
         Elements(list) \subseteq Vis(Clients(g)),
         \A x \in Elements(list) : \A q \in Ports(g) : q.client = x.id => q.hidden
  PROVE  Good(c, FoldLeft(LAMBDA acc, x : HideClient(acc, x.id), g, list))
<1> DEFINE p == <<c, g>>
           r == FoldLeft(LAMBDA acc, x : HideClient(acc, x.id), g, list)
<1>1. r = HideClientFold!Folded(p, g, list)
  BY Zenon DEF HideClientFold!Folded, OpHideClient, FoldLeft, MapThenFoldSet,
               HideClientFold!MapThenFoldSet, Max, HideClientFold!Greatest
<1> HIDE DEF r
<1>2. ClientsHiddenUpto(p, g, list, 0) BY UptoFacts DEF ClientsHiddenUpto
<1>3. ASSUME NEW i \in 1..Len(list), NEW acc, ClientsHiddenUpto(p, acc, list, i - 1)
      PROVE  ClientsHiddenUpto(p, OpHideClient(p, acc, list[i]), list, i)
  <2> DEFINE x == list[i]
             h == HideClient(acc, x.id)
  <2>1. /\ Good(c, acc) /\ Ports(acc) = Ports(g)
        /\ Vis(Clients(acc)) = Vis(Clients(g)) \ Upto(list, i - 1)
    BY <1>3 DEF ClientsHiddenUpto
  <2>2. /\ x \in Elements(list) /\ x \notin Upto(list, i - 1)
        /\ Upto(list, i) = Upto(list, i - 1) \cup {x}
    BY UptoFacts
  <2> HIDE DEF x
  <2>3. x \in Clients(acc) /\ ~x.hidden BY <2>1, <2>2 DEF Vis
  <2>4. x \in ClientRecs BY <2>1, <2>3, SoundTypes DEF Good
  <2>5. \A q \in Ports(acc) : q.client = x.id => q.hidden BY <2>1, <2>2
  <2>6. Becomes(c, acc, h, (Clients(acc) \ {x}) \cup {Hide(x)}, Ports(acc), Conns(acc))
    BY <2>1, <2>3, <2>5, HideClientKeeps
  <2> HIDE DEF h
  <2>7. Hide(x).hidden BY <2>4 DEF Hide, ClientRecs
  <2>8. Vis(Clients(h)) = Vis(Clients(acc)) \ {x} BY <2>6, <2>7 DEF Becomes, Vis
  <2>9. ClientsHiddenUpto(p, h, list, i) BY <2>1, <2>2, <2>6, <2>8 DEF Becomes, ClientsHiddenUpto
  <2> QED BY <2>9 DEF OpHideClient, h, x
<1>4. HideClientFold!Kept(p, list) BY <1>3 DEF HideClientFold!Kept
<1>n. HideClientFold!LeastNumbers BY LeastNumber DEF Numbers, HideClientFold!LeastNumbers
<1>5. ClientsHiddenUpto(p, r, list, Len(list)) BY <1>1, <1>2, <1>4, <1>n, HideClientFold!FoldKeeps
<1> QED BY <1>5 DEF ClientsHiddenUpto, r

\* Every watcher can follow HideNonVirtual.
LEMMA HideNonVirtualKeeps ==
  ASSUME NEW g, NEW c, Good(c, g), NEW jack
  PROVE  Good(c, HideNonVirtual(g, jack))
<1> DEFINE Mine(id) == PortById(g, id).client \in jack
           k == Select(Visible(g.conns), LAMBDA z : \E id \in z.ends : Mine(id))
           a == FoldLeft(HideConnection, g, k)
           q == Select(Visible(g.ports), LAMBDA z : Mine(z.id))
           b == FoldLeft(LAMBDA acc, z : HidePortOnly(acc, z.id), a, q)
           l == Select(Visible(g.clients), LAMBDA z : z.id \in jack)
<1>1. HideNonVirtual(g, jack) = FoldLeft(LAMBDA acc, z : HideClient(acc, z.id), b, l)
  BY Zenon DEF HideNonVirtual
<1>2. Sound(g) BY DEF Good
<1>3. /\ k \in Seq(ConnRecs) /\ IsInjective(k)
      /\ Elements(k) = { z \in Vis(Conns(g)) : \E id \in z.ends : Mine(id) }
  <2>1. g.conns \in Seq(ConnRecs) /\ IsInjective(g.conns) BY <1>2, SoundTypes DEF Sound
  <2>2. /\ Visible(g.conns) \in Seq(ConnRecs) /\ IsInjective(Visible(g.conns))
        /\ Elements(Visible(g.conns)) = Vis(Conns(g))
    BY <2>1, VisibleFacts DEF Vis, Conns
  <2>3. k = Members(Visible(g.conns), { z \in Elements(Visible(g.conns)) : \E id \in z.ends : Mine(id) }) BY DEF Select
  <2> HIDE DEF k, Mine
  <2> QED BY <2>2, <2>3, MembersFacts
<1>4. /\ q \in Seq(PortRecs) /\ IsInjective(q)
      /\ Elements(q) = { z \in Vis(Ports(g)) : Mine(z.id) }
  <2>1. g.ports \in Seq(PortRecs) /\ IsInjective(g.ports) BY <1>2, SoundTypes DEF Sound
  <2>2. /\ Visible(g.ports) \in Seq(PortRecs) /\ IsInjective(Visible(g.ports))
        /\ Elements(Visible(g.ports)) = Vis(Ports(g))
    BY <2>1, VisibleFacts DEF Vis, Ports
  <2>3. q = Members(Visible(g.ports), { z \in Elements(Visible(g.ports)) : Mine(z.id) }) BY DEF Select
  <2> HIDE DEF q, Mine
  <2> QED BY <2>2, <2>3, MembersFacts
<1>5. /\ l \in Seq(ClientRecs) /\ IsInjective(l)
      /\ Elements(l) = { z \in Vis(Clients(g)) : z.id \in jack }
  <2>1. g.clients \in Seq(ClientRecs) /\ IsInjective(g.clients) BY <1>2, SoundTypes DEF Sound
  <2>2. /\ Visible(g.clients) \in Seq(ClientRecs) /\ IsInjective(Visible(g.clients))
        /\ Elements(Visible(g.clients)) = Vis(Clients(g))
    BY <2>1, VisibleFacts DEF Vis, Clients
  <2>3. l = Members(Visible(g.clients), { z \in Elements(Visible(g.clients)) : z.id \in jack }) BY DEF Select
  <2> HIDE DEF l
  <2> QED BY <2>2, <2>3, MembersFacts
<1>6. \A z \in Ports(g) : Mine(z.id) <=> z.client \in jack BY <1>2, PortFound
<1> HIDE DEF k, q, l, Mine
<1>7. HiddenUpto(<<c, g>>, a, k, Len(k)) BY <1>3, HiddenConnections
<1> HIDE DEF a
<1>8. /\ Good(c, a) /\ Clients(a) = Clients(g) /\ Ports(a) = Ports(g)
      /\ Vis(Conns(a)) = Vis(Conns(g)) \ Elements(k)
  BY <1>3, <1>7, UptoFacts DEF HiddenUpto
<1>9. \A x \in Elements(q) : \A z \in Vis(Conns(a)) : x.id \notin z.ends BY <1>3, <1>4, <1>8
<1>10. PortsHiddenUpto(<<c, a>>, b, q, Len(q))
  <2>1. Elements(q) \subseteq Vis(Ports(a)) BY <1>4, <1>8
  <2> QED BY <1>4, <1>8, <1>9, <2>1, HiddenPorts
<1> HIDE DEF b
<1>11. /\ Good(c, b) /\ Clients(b) = Clients(a)
       /\ Vis(Ports(b)) = Vis(Ports(g)) \ Elements(q)
  BY <1>4, <1>8, <1>10, UptoFacts DEF PortsHiddenUpto
<1>12. \A x \in Elements(l) : \A z \in Ports(b) : z.client = x.id => z.hidden
  <2> SUFFICES ASSUME NEW x \in Elements(l), NEW z \in Ports(b), z.client = x.id, ~z.hidden PROVE FALSE
    OBVIOUS
  <2>1. z \in Vis(Ports(g)) /\ z \notin Elements(q) BY <1>11 DEF Vis
  <2>2. z \in Ports(g) BY <2>1 DEF Vis
  <2>3. Mine(z.id) BY <1>5, <1>6, <2>2
  <2> QED BY <1>4, <2>1, <2>3
<1>13. Elements(l) \subseteq Vis(Clients(b)) BY <1>5, <1>8, <1>11
<1>14. Good(c, FoldLeft(LAMBDA acc, z : HideClient(acc, z.id), b, l))
  BY <1>5, <1>11, <1>12, <1>13, HiddenClients
<1> QED BY <1>1, <1>14

-----------------------------------------------------------------------------
(***************************************************************************)
(* Signals without a change: TrickDicts and MovePort take things away from *)
(* the listeners and give them back.                                       *)
(***************************************************************************)

\* The signals so far leave a canvas with these visible objects, whatever the graph has.
Pictures(w, C, P, K) == Shape(w) /\ ShowsClients(w, C) /\ ShowsPorts(w, P) /\ ShowsConns(w, K)
Paints(c, g, C, P, K) == Sound(g) /\ \E w : Pictures(w, C, P, K) /\ Tracked(c, g, w)

\* A watcher of a graph is left with its visible objects.
LEMMA GoodPaints ==
  ASSUME NEW g, NEW c, Good(c, g)
  PROVE  Paints(c, g, Vis(Clients(g)), Vis(Ports(g)), Vis(Conns(g)))
<1>1. PICK w : Shows(w, g) /\ Tracked(c, g, w) BY DEF Good
<1>2. Vis(Vis(Clients(g))) = Vis(Clients(g)) /\ Vis(Vis(Ports(g))) = Vis(Ports(g)) /\ Vis(Vis(Conns(g))) = Vis(Conns(g))
  BY DEF Vis
<1>3. Pictures(w, Vis(Clients(g)), Vis(Ports(g)), Vis(Conns(g)))
  <2>1. PICK C : C = Vis(Clients(g)) OBVIOUS
  <2>2. PICK P : P = Vis(Ports(g)) OBVIOUS
  <2>3. PICK K : K = Vis(Conns(g)) OBVIOUS
  <2>4. ShowsClients(w, C) BY <1>1, <1>2, <2>1, ShownClientsSame DEF Shows
  <2>5. ShowsPorts(w, P) BY <1>1, <1>2, <2>2, ShownPortsSame DEF Shows
  <2>6. ShowsConns(w, K) BY <1>1, <1>2, <2>3, ShownConnsSame DEF Shows
  <2> QED BY <1>1, <2>1, <2>2, <2>3, <2>4, <2>5, <2>6 DEF Shows, Pictures
<1> QED BY <1>1, <1>3 DEF Paints, Good

\* Who is left with the visible objects of a graph is a watcher of it.
LEMMA PaintsGood ==
  ASSUME NEW g, NEW c, NEW C, NEW P, NEW K, Paints(c, g, C, P, K),
         Vis(C) = Vis(Clients(g)), Vis(P) = Vis(Ports(g)), Vis(K) = Vis(Conns(g))
  PROVE  Good(c, g)
<1>1. PICK w : Pictures(w, C, P, K) /\ Tracked(c, g, w) BY DEF Paints
<1>2. Shows(w, g) BY <1>1, ShownClientsSame, ShownPortsSame, ShownConnsSame DEF Pictures, Shows
<1> QED BY <1>1, <1>2 DEF Paints, Good

\* The view a watcher is led to has no dangling ports or connections.
LEMMA TrackedView ==
  ASSUME NEW g \in Graphs, NEW c, NEW w, Tracked(c, g, w)
  PROVE  GoodView(w)
<1> DEFINE B == c.bus \o g.sent
<1>1. c.bus \in Seq(SignalRecs) /\ g.sent \in Seq(SignalRecs) BY DEF Tracked, Graphs
<1>2. B \in Seq(SignalRecs) BY <1>1, ConcatProperties
<1>3. PICK path, j : Trail(c, B, g, path, j) /\ path[Len(B)] = w BY DEF Tracked
<1> HIDE DEF B
<1>4. Len(B) \in Nat /\ Len(B) \in 0..Len(B) BY <1>2, LenProperties
<1> QED BY <1>3, <1>4 DEF Trail, Walk

\* No change.
LEMMA SoundChanged ==
  ASSUME NEW g, Sound(g)
  PROVE  Changed(g, g)
BY DEF Changed, Buries

\* A step that is heard.
LEMMA PaintsSaid ==
  ASSUME NEW g, NEW h, Changed(g, h), NEW c, NEW w, Tracked(c, g, w),
         NEW s \in SignalRecs, s.kind # "silent", Legal(w, s), ~(s.kind = "PortAppeared" /\ Dead(h, s.port)),
         NEW C, NEW P, NEW K, Pictures(Canvas(w, s), C, P, K)
  PROVE  Paints(c, Say(h, s), C, P, K) /\ SameObjects(Say(h, s), h)
<1>1. g \in Graphs /\ h \in Graphs BY SoundTypes DEF Changed
<1>2. Tracked(c, Say(h, s), Canvas(w, s)) BY <1>1, TrackedSay DEF Changed
<1>3. Sound(Say(h, s)) /\ SameObjects(Say(h, s), h) BY SaidSame DEF Changed
<1> QED BY <1>2, <1>3 DEF Paints

\* A step that is not.
LEMMA PaintsSilently ==
  ASSUME NEW g, NEW h, Changed(g, h), NEW c, NEW C, NEW P, NEW K, Paints(c, g, C, P, K),
         NEW s \in SignalRecs, s.kind = "silent"
  PROVE  Paints(c, Say(h, s), C, P, K) /\ SameObjects(Say(h, s), h)
<1>1. g \in Graphs /\ h \in Graphs BY SoundTypes DEF Changed
<1>2. PICK w : Pictures(w, C, P, K) /\ Tracked(c, g, w) BY DEF Paints
<1>3. Tracked(c, Say(h, s), w) BY <1>1, <1>2, TrackedSilence DEF Changed
<1>4. Sound(Say(h, s)) /\ SameObjects(Say(h, s), h) BY SaidSame DEF Changed
<1> QED BY <1>2, <1>3, <1>4 DEF Paints

AllSeen(S) == \A z \in S : ~z.hidden

\* When all is visible, the visible part is all.
LEMMA SeenAll == ASSUME NEW S, AllSeen(S) PROVE Vis(S) = S BY DEF Vis, AllSeen

\* A connection is taken away.
LEMMA LineGoes ==
  ASSUME NEW g, NEW c, NEW C, NEW P, NEW K, AllSeen(K), Paints(c, g, C, P, K),
         NEW x \in K, x \in ConnRecs, \A z \in K : z.ends = x.ends => z = x
  PROVE  Paints(c, SayDisconnected(g, x), C, P, K \ {x}) /\ SameObjects(SayDisconnected(g, x), g)
<1> DEFINE s == ConnSignal("PortsDisconnected", x)
           L == K \ {x}
<1>0. ~x.hidden BY DEF AllSeen
<1>1. s \in SignalRecs /\ s.kind = "PortsDisconnected" /\ s.ends = x.ends
  BY <1>0, ConnSignalFields DEF Kinds
<1> HIDE DEF s
<1>2. PICK w : Pictures(w, C, P, K) /\ Tracked(c, g, w) BY DEF Paints
<1> DEFINE v == Canvas(w, s)
<1>3. Legal(w, s) BY <1>1 DEF Legal
<1>4. Shape(v) /\ v.clients = w.clients /\ v.ports = w.ports /\ v.conns = w.conns \ {s.ends}
  BY <1>1, <1>2, CanvasDisconnected DEF Pictures
<1> HIDE DEF v
<1>5. Vis(L) = { z \in Vis(K) : z.ends # s.ends } BY <1>1 DEF Vis, AllSeen
<1> HIDE DEF L
<1>6. Pictures(v, C, P, L)
  <2>0. PICK e : e = s.ends OBVIOUS
  <2>1. ConnLeft(w, v, e) /\ Vis(L) = { z \in Vis(K) : z.ends # e } BY <1>4, <1>5, <2>0 DEF ConnLeft
  <2>2. ShowsConns(v, L) BY <1>2, <2>1, ShownConnsDrop DEF Pictures
  <2>3. ShowsClients(v, C) /\ ShowsPorts(v, P) BY <1>2, <1>4, ShownClientsSame, ShownPortsSame DEF Pictures
  <2> QED BY <1>4, <2>2, <2>3 DEF Pictures
<1>7. Changed(g, g) BY SoundChanged DEF Paints
<1>8. Paints(c, Say(g, s), C, P, L) /\ SameObjects(Say(g, s), g)
  BY <1>1, <1>2, <1>3, <1>6, <1>7, PaintsSaid DEF v
<1> QED BY <1>8 DEF s, L, SayDisconnected

\* A connection is given back.
LEMMA LineComes ==
  ASSUME NEW g, NEW c, NEW C, NEW P, NEW K, AllSeen(P), AllSeen(K), Paints(c, g, C, P, K),
         NEW x \in ConnRecs, ~x.hidden, \A e \in x.ends : \E p \in P : p.id = e
  PROVE  Paints(c, SayConnected(g, x), C, P, K \cup {x}) /\ SameObjects(SayConnected(g, x), g)
<1> DEFINE s == ConnSignal("PortsConnected", x)
           L == K \cup {x}
<1>1. s \in SignalRecs /\ s.kind = "PortsConnected" /\ s.ends = x.ends
  BY ConnSignalFields DEF Kinds
<1> HIDE DEF s
<1>2. PICK w : Pictures(w, C, P, K) /\ Tracked(c, g, w) BY DEF Paints
<1> DEFINE v == Canvas(w, s)
<1>a. x.ends \subseteq DOMAIN w.ports BY <1>2 DEF Pictures, ShowsPorts, AllSeen
<1>3. Legal(w, s) BY <1>1, <1>a DEF Legal
<1>b. GoodView(w) BY <1>2, TrackedView, SoundTypes DEF Paints
<1>4. Shape(v) /\ v.clients = w.clients /\ v.ports = w.ports /\ v.conns = Shown(w.ports, w.conns \cup {s.ends})
  BY <1>1, <1>2, CanvasConnected DEF Pictures
<1> HIDE DEF v
<1>c. v.conns = w.conns \cup {x.ends} BY <1>1, <1>4, <1>a, <1>b DEF Shown, GoodView
<1>5. Vis(L) = Vis(K) \cup {x} BY DEF Vis
<1> HIDE DEF L
<1>6. Pictures(v, C, P, L)
  <2>2. ShowsConns(v, L) BY <1>2, <1>c, <1>5, ShownConnsPut DEF Pictures
  <2>3. ShowsClients(v, C) /\ ShowsPorts(v, P) BY <1>2, <1>4, ShownClientsSame, ShownPortsSame DEF Pictures
  <2> QED BY <1>4, <2>2, <2>3 DEF Pictures
<1>7. Changed(g, g) BY SoundChanged DEF Paints
<1>8. Paints(c, Say(g, s), C, P, L) /\ SameObjects(Say(g, s), g)
  BY <1>1, <1>2, <1>3, <1>6, <1>7, PaintsSaid DEF v
<1> QED BY <1>8 DEF s, L, SayConnected

\* A port without connections is taken away.
LEMMA PortGoes ==
  ASSUME NEW g, NEW c, NEW C, NEW P, NEW K, AllSeen(P), AllSeen(K), Paints(c, g, C, P, K),
         NEW x \in P, x \in PortRecs, \A z \in P : z.id = x.id => z = x, \A k \in K : x.id \notin k.ends
  PROVE  LET r == Say(g, PortSignal("PortDisappeared", x)) IN Paints(c, r, C, P \ {x}, K) /\ SameObjects(r, g)
<1> DEFINE s == PortSignal("PortDisappeared", x)
           Q == P \ {x}
<1>0. ~x.hidden BY DEF AllSeen
<1>1. s \in SignalRecs /\ s.kind = "PortDisappeared" /\ s.client = x.client /\ s.port = x.id
  BY <1>0, PortSignalFields DEF Kinds
<1> HIDE DEF s
<1>2. PICK w : Pictures(w, C, P, K) /\ Tracked(c, g, w) BY DEF Paints
<1> DEFINE v == Canvas(w, s)
<1>b. GoodView(w) BY <1>2, TrackedView, SoundTypes DEF Paints
<1>a. KnownPort(w, s)
  <2>1. x.id \in DOMAIN w.ports /\ w.ports[x.id] = [client |-> x.client, name |-> x.name]
    BY <1>0, <1>2 DEF Pictures, ShowsPorts
  <2> QED BY <1>1, <2>1 DEF KnownPort
<1>c. \A e \in w.conns : x.id \notin e BY <1>2 DEF Pictures, ShowsConns
<1>3. Legal(w, s) BY <1>1, <1>a, <1>c DEF Legal, KnownPort
<1>4. /\ Shape(v) /\ v.clients = w.clients /\ v.conns = Shown(v.ports, w.conns)
      /\ DroppedFrom(w.ports, v.ports, {s.port})
  BY <1>1, <1>2, <1>a, CanvasPortDisappears DEF Pictures
<1> HIDE DEF v
<1>d. v.conns = w.conns BY <1>1, <1>4, <1>b, <1>c DEF Shown, GoodView, DroppedFrom
<1>5. Vis(Q) = { z \in Vis(P) : z.id # s.port } BY <1>1 DEF Vis, AllSeen
<1> HIDE DEF Q
<1>6. Pictures(v, C, Q, K)
  <2>2. ShowsPorts(v, Q) BY <1>2, <1>4, <1>5, ShownPortsDrop DEF Pictures
  <2>3. ShowsClients(v, C) /\ ShowsConns(v, K) BY <1>2, <1>4, <1>d, ShownClientsSame, ShownConnsSame DEF Pictures
  <2> QED BY <1>4, <2>2, <2>3 DEF Pictures
<1>7. Changed(g, g) BY SoundChanged DEF Paints
<1>8. Paints(c, Say(g, s), C, Q, K) /\ SameObjects(Say(g, s), g)
  BY <1>1, <1>2, <1>3, <1>6, <1>7, PaintsSaid DEF v
<1> QED BY <1>8 DEF s, Q

\* A port is given back.
LEMMA PortComes ==
  ASSUME NEW g, NEW h, Changed(g, h), NEW c, NEW C, NEW P, NEW K, AllSeen(C), AllSeen(P), Paints(c, g, C, P, K),
         NEW x \in PortRecs, ~x.hidden, \A z \in P : z.id # x.id, \E o \in C : o.id = x.client, x \in Ports(h)
  PROVE  LET r == Say(h, PortSignal("PortAppeared", x)) IN Paints(c, r, C, P \cup {x}, K) /\ SameObjects(r, h)
<1> DEFINE s == PortSignal("PortAppeared", x)
           Q == P \cup {x}
<1>1. s \in SignalRecs /\ s.kind = "PortAppeared" /\ s.client = x.client /\ s.port = x.id /\ s.name = x.name
  BY PortSignalFields DEF Kinds
<1> HIDE DEF s
<1>2. PICK w : Pictures(w, C, P, K) /\ Tracked(c, g, w) BY DEF Paints
<1> DEFINE v == Canvas(w, s)
<1>a. x.client \in DOMAIN w.clients BY <1>2 DEF Pictures, ShowsClients, AllSeen
<1>3. Legal(w, s)
  <2>1. x.id \notin DOMAIN w.ports BY <1>2 DEF Pictures, ShowsPorts
  <2> QED BY <2>1, <1>1, <1>a DEF Legal
<1>4. /\ Shape(v) /\ v.clients = w.clients /\ v.conns = w.conns
      /\ PutAt(w.ports, v.ports, x.id, [client |-> x.client, name |-> x.name])
  BY <1>1, <1>2, <1>a, CanvasPortAppears DEF Pictures
<1> HIDE DEF v
<1>5. Vis(Q) = { z \in Vis(P) : z.id # x.id } \cup {x} BY DEF Vis
<1> HIDE DEF Q
<1>6. Pictures(v, C, Q, K)
  <2>2. ShowsPorts(v, Q) BY <1>2, <1>4, <1>5, ShownPortsPut DEF Pictures
  <2>3. ShowsClients(v, C) /\ ShowsConns(v, K) BY <1>2, <1>4, ShownClientsSame, ShownConnsSame DEF Pictures
  <2> QED BY <1>4, <2>2, <2>3 DEF Pictures
<1>7. ~Dead(h, s.port) BY <1>1 DEF Dead, Ids, Ports
<1>8. Paints(c, Say(h, s), C, Q, K) /\ SameObjects(Say(h, s), h)
  BY <1>1, <1>2, <1>3, <1>6, <1>7, PaintsSaid DEF v
<1> QED BY <1>8 DEF s, Q

\* A client without ports goes and comes again.
LEMMA ClientGoesAndComes ==
  ASSUME NEW g, NEW c, NEW C, AllSeen(C), Paints(c, g, C, {}, {}),
         NEW x \in C, x \in ClientRecs, \A z \in C : z.id = x.id => z = x
  PROVE  LET r == Say(Say(g, ClientSignal("ClientDisappeared", x)), ClientSignal("ClientAppeared", x))
         IN  Paints(c, r, C, {}, {}) /\ SameObjects(r, g)
<1> DEFINE s == ClientSignal("ClientDisappeared", x)
           t == ClientSignal("ClientAppeared", x)
           D == C \ {x}
<1>0. ~x.hidden BY DEF AllSeen
<1>1. s \in SignalRecs /\ s.kind = "ClientDisappeared" /\ s.client = x.id
  BY <1>0, ClientSignalFields DEF Kinds
<1>2. t \in SignalRecs /\ t.kind = "ClientAppeared" /\ t.client = x.id /\ t.name = x.name
  BY <1>0, ClientSignalFields DEF Kinds
<1> HIDE DEF s, t
<1>3. PICK w : Pictures(w, C, {}, {}) /\ Tracked(c, g, w) BY DEF Paints
<1>4. Shape(w) /\ DOMAIN w.ports = {} /\ w.conns = {} /\ x.id \in DOMAIN w.clients
  BY <1>0, <1>3 DEF Pictures, ShowsPorts, ShowsConns, ShowsClients
<1> DEFINE v == Canvas(w, s)
<1>5. Legal(w, s) BY <1>1, <1>4 DEF Legal
<1>6. Shape(v) /\ DroppedFrom(w.clients, v.clients, {s.client}) /\ DOMAIN v.ports = {} /\ v.conns = {}
  BY <1>1, <1>4, CanvasClientDisappears DEF DroppedFrom, Shown
<1> HIDE DEF v
<1>7. Vis(D) = { z \in Vis(C) : z.id # s.client } BY <1>1 DEF Vis, AllSeen
<1>8. D = { z \in C : z.id # x.id } OBVIOUS
<1>9. Vis(C) = { z \in Vis(D) : z.id # x.id } \cup {x} BY <1>0, <1>8 DEF Vis
<1>10. \A z \in D : z.id # x.id BY <1>8
<1> HIDE DEF D
<1>11. Pictures(v, D, {}, {})
  <2>1. ShowsClients(v, D) BY <1>3, <1>6, <1>7, ShownClientsDrop DEF Pictures
  <2> QED BY <2>1, <1>6 DEF Pictures, ShowsPorts, ShowsConns
<1> DEFINE h == Say(g, s)
<1>12. Changed(g, g) BY SoundChanged DEF Paints
<1>13. Paints(c, h, D, {}, {}) /\ SameObjects(h, g)
  <2>1. PICK E : E = {} OBVIOUS
  <2>2. Pictures(Canvas(w, s), D, E, E) BY <1>11, <2>1 DEF v
  <2>3. Paints(c, h, D, E, E) /\ SameObjects(h, g) BY <1>1, <1>3, <1>5, <1>12, <2>2, PaintsSaid
  <2> QED BY <2>1, <2>3
<1> HIDE DEF h
<1>14. PICK u : Pictures(u, D, {}, {}) /\ Tracked(c, h, u) BY <1>13 DEF Paints
<1>15. Shape(u) /\ DOMAIN u.ports = {} /\ u.conns = {} /\ x.id \notin DOMAIN u.clients
  BY <1>10, <1>14 DEF Pictures, ShowsPorts, ShowsConns, ShowsClients
<1> DEFINE y == Canvas(u, t)
<1>16. Legal(u, t) BY <1>2, <1>15 DEF Legal
<1>17. Shape(y) /\ y.ports = u.ports /\ y.conns = u.conns /\ PutAt(u.clients, y.clients, x.id, x.name)
  BY <1>2, <1>15, CanvasClientAppears
<1> HIDE DEF y
<1>18. Pictures(y, C, {}, {})
  <2>1. ShowsClients(y, C) BY <1>9, <1>14, <1>17, ShownClientsPut DEF Pictures
  <2> QED BY <2>1, <1>15, <1>17 DEF Pictures, ShowsPorts, ShowsConns
<1>19. Changed(h, h) BY <1>13, SoundChanged DEF Paints
<1>20. Paints(c, Say(h, t), C, {}, {}) /\ SameObjects(Say(h, t), h)
  <2>1. PICK E : E = {} OBVIOUS
  <2>2. Pictures(Canvas(u, t), C, E, E) BY <1>18, <2>1 DEF y
  <2>3. Paints(c, Say(h, t), C, E, E) /\ SameObjects(Say(h, t), h) BY <1>2, <1>14, <1>16, <1>19, <2>2, PaintsSaid
  <2> QED BY <2>1, <2>3
<1>21. SameObjects(Say(h, t), g) BY <1>13, <1>20 DEF SameObjects
<1> QED BY <1>20, <1>21 DEF h, s, t

-----------------------------------------------------------------------------
(***************************************************************************)
(* TrickDicts: the objects that are gone are those that come back.         *)
(***************************************************************************)

\* p is <<watcher, graph, clients, ports, connections>>; the fold starts with a picture of these.
OpLineGoes(p, acc, x) == SayDisconnected(acc, x)
LinesGoneUpto(p, acc, list, i) ==
  SameObjects(acc, p[2]) /\ Paints(p[1], acc, p[3], p[4], p[5] \ Upto(list, i))
LineGoesFold == INSTANCE FoldFacts WITH Op <- OpLineGoes, Inv <- LinesGoneUpto

\* All connections of a list are taken away.
LEMMA LinesGo ==
  ASSUME NEW g, NEW c, NEW C, NEW P, NEW K, K \subseteq ConnRecs, AllSeen(K), Paints(c, g, C, P, K),
         \A y, z \in K : z.ends = y.ends => z = y,
         NEW list \in Seq(ConnRecs), IsInjective(list), Elements(list) \subseteq K
  PROVE  LET r == FoldLeft(SayDisconnected, g, list)
         IN  Paints(c, r, C, P, K \ Elements(list)) /\ SameObjects(r, g)
<1> DEFINE p == <<c, g, C, P, K>>
           r == FoldLeft(SayDisconnected, g, list)
<1>1. r = LineGoesFold!Folded(p, g, list)
  BY Zenon DEF LineGoesFold!Folded, OpLineGoes, FoldLeft, MapThenFoldSet,
               LineGoesFold!MapThenFoldSet, Max, LineGoesFold!Greatest
<1> HIDE DEF r
<1>2. LinesGoneUpto(p, g, list, 0)
  <2>1. K \ Upto(list, 0) = K BY UptoFacts
  <2> QED BY <2>1 DEF LinesGoneUpto, SameObjects
<1>3. ASSUME NEW i \in 1..Len(list), NEW acc, LinesGoneUpto(p, acc, list, i - 1)
      PROVE  LinesGoneUpto(p, OpLineGoes(p, acc, list[i]), list, i)
  <2> DEFINE x == list[i]
             h == SayDisconnected(acc, x)
             L == K \ Upto(list, i - 1)
  <2>1. SameObjects(acc, g) /\ Paints(c, acc, C, P, L) BY <1>3 DEF LinesGoneUpto
  <2>2. x \in L /\ x \in ConnRecs /\ L \ {x} = K \ Upto(list, i) BY UptoFacts
  <2>3. AllSeen(L) /\ \A z \in L : z.ends = x.ends => z = x BY <2>2 DEF AllSeen
  <2> HIDE DEF x, L
  <2>4. Paints(c, h, C, P, L \ {x}) /\ SameObjects(h, acc) BY <2>1, <2>2, <2>3, LineGoes
  <2> HIDE DEF h
  <2>5. SameObjects(h, g) BY <2>1, <2>4 DEF SameObjects
  <2>6. LinesGoneUpto(p, h, list, i) BY <2>2, <2>4, <2>5 DEF LinesGoneUpto
  <2> QED BY <2>6 DEF OpLineGoes, h, x
<1>4. LineGoesFold!Kept(p, list) BY <1>3 DEF LineGoesFold!Kept
<1>n. LineGoesFold!LeastNumbers BY LeastNumber DEF Numbers, LineGoesFold!LeastNumbers
<1>5. LinesGoneUpto(p, r, list, Len(list)) BY <1>1, <1>2, <1>4, <1>n, LineGoesFold!FoldKeeps
<1> QED BY <1>5, UptoFacts DEF LinesGoneUpto, r

OpLineComes(p, acc, x) == SayConnected(acc, x)
LinesBackUpto(p, acc, list, i) ==
  SameObjects(acc, p[2]) /\ Paints(p[1], acc, p[3], p[4], p[5] \cup Upto(list, i))
LineComesFold == INSTANCE FoldFacts WITH Op <- OpLineComes, Inv <- LinesBackUpto

\* All of them are given back.
LEMMA LinesCome ==
  ASSUME NEW g, NEW c, NEW C, NEW P, NEW K, AllSeen(P), AllSeen(K), Paints(c, g, C, P, K),
         NEW list \in Seq(ConnRecs), IsInjective(list), AllSeen(Elements(list)),
         \A x \in Elements(list) : \A e \in x.ends : \E q \in P : q.id = e
  PROVE  LET r == FoldLeft(SayConnected, g, list)
         IN  Paints(c, r, C, P, K \cup Elements(list)) /\ SameObjects(r, g)
<1> DEFINE p == <<c, g, C, P, K>>
           r == FoldLeft(SayConnected, g, list)
<1>1. r = LineComesFold!Folded(p, g, list)
  BY Zenon DEF LineComesFold!Folded, OpLineComes, FoldLeft, MapThenFoldSet,
               LineComesFold!MapThenFoldSet, Max, LineComesFold!Greatest
<1> HIDE DEF r
<1>2. LinesBackUpto(p, g, list, 0)
  <2>1. K \cup Upto(list, 0) = K BY UptoFacts
  <2> QED BY <2>1 DEF LinesBackUpto, SameObjects
<1>3. ASSUME NEW i \in 1..Len(list), NEW acc, LinesBackUpto(p, acc, list, i - 1)
      PROVE  LinesBackUpto(p, OpLineComes(p, acc, list[i]), list, i)
  <2> DEFINE x == list[i]
             h == SayConnected(acc, x)
             L == K \cup Upto(list, i - 1)
  <2>1. SameObjects(acc, g) /\ Paints(c, acc, C, P, L) BY <1>3 DEF LinesBackUpto
  <2>2. x \in Elements(list) /\ x \in ConnRecs /\ L \cup {x} = K \cup Upto(list, i) BY UptoFacts
  <2>3. Upto(list, i - 1) \subseteq Elements(list)
    <3>1. Len(list) \in Nat /\ DOMAIN list = 1..Len(list) OBVIOUS
    <3> QED BY <3>1 DEF Upto, Elements
  <2>4. AllSeen(L) /\ ~x.hidden BY <2>2, <2>3 DEF AllSeen
  <2>5. \A e \in x.ends : \E q \in P : q.id = e BY <2>2
  <2> HIDE DEF x, L
  <2>6. Paints(c, h, C, P, L \cup {x}) /\ SameObjects(h, acc) BY <2>1, <2>2, <2>4, <2>5, LineComes
  <2> HIDE DEF h
  <2>7. SameObjects(h, g) BY <2>1, <2>6 DEF SameObjects
  <2>8. LinesBackUpto(p, h, list, i) BY <2>2, <2>6, <2>7 DEF LinesBackUpto
  <2> QED BY <2>8 DEF OpLineComes, h, x
<1>4. LineComesFold!Kept(p, list) BY <1>3 DEF LineComesFold!Kept
<1>n. LineComesFold!LeastNumbers BY LeastNumber DEF Numbers, LineComesFold!LeastNumbers
<1>5. LinesBackUpto(p, r, list, Len(list)) BY <1>1, <1>2, <1>4, <1>n, LineComesFold!FoldKeeps
<1> QED BY <1>5, UptoFacts DEF LinesBackUpto, r

OpPortGoes(p, acc, x) == Say(acc, PortSignal("PortDisappeared", x))
PortsGoneUpto(p, acc, list, i) ==
  SameObjects(acc, p[2]) /\ Paints(p[1], acc, p[3], p[4] \ Upto(list, i), {})
PortGoesFold == INSTANCE FoldFacts WITH Op <- OpPortGoes, Inv <- PortsGoneUpto

\* All ports of a list are taken away.
LEMMA PortsGo ==
  ASSUME NEW g, NEW c, NEW C, NEW P, P \subseteq PortRecs, AllSeen(P), Paints(c, g, C, P, {}),
         \A y, z \in P : z.id = y.id => z = y,
         NEW list \in Seq(PortRecs), IsInjective(list), Elements(list) \subseteq P
  PROVE  LET r == FoldLeft(LAMBDA acc, x : Say(acc, PortSignal("PortDisappeared", x)), g, list)
         IN  Paints(c, r, C, P \ Elements(list), {}) /\ SameObjects(r, g)
<1> DEFINE p == <<c, g, C, P>>
           r == FoldLeft(LAMBDA acc, x : Say(acc, PortSignal("PortDisappeared", x)), g, list)
<1>1. r = PortGoesFold!Folded(p, g, list)
  BY Zenon DEF PortGoesFold!Folded, OpPortGoes, FoldLeft, MapThenFoldSet,
               PortGoesFold!MapThenFoldSet, Max, PortGoesFold!Greatest
<1> HIDE DEF r
<1>2. PortsGoneUpto(p, g, list, 0)
  <2>1. P \ Upto(list, 0) = P BY UptoFacts
  <2> QED BY <2>1 DEF PortsGoneUpto, SameObjects
<1>3. ASSUME NEW i \in 1..Len(list), NEW acc, PortsGoneUpto(p, acc, list, i - 1)
      PROVE  PortsGoneUpto(p, OpPortGoes(p, acc, list[i]), list, i)
  <2> DEFINE x == list[i]
             h == Say(acc, PortSignal("PortDisappeared", x))
             Q == P \ Upto(list, i - 1)
  <2>1. SameObjects(acc, g) /\ Paints(c, acc, C, Q, {}) BY <1>3 DEF PortsGoneUpto
  <2>2. x \in Q /\ x \in PortRecs /\ Q \ {x} = P \ Upto(list, i) BY UptoFacts
  <2>3. AllSeen(Q) /\ \A z \in Q : z.id = x.id => z = x BY <2>2 DEF AllSeen
  <2> HIDE DEF x, Q
  <2>4. Paints(c, h, C, Q \ {x}, {}) /\ SameObjects(h, acc)
    <3>1. PICK E : E = {} OBVIOUS
    <3>2. AllSeen(E) /\ \A k \in E : x.id \notin k.ends BY <3>1 DEF AllSeen
    <3>3. Paints(c, acc, C, Q, E) BY <2>1, <3>1
    <3>4. Paints(c, h, C, Q \ {x}, E) /\ SameObjects(h, acc) BY <2>2, <2>3, <3>2, <3>3, PortGoes
    <3> QED BY <3>1, <3>4
  <2> HIDE DEF h
  <2>5. SameObjects(h, g) BY <2>1, <2>4 DEF SameObjects
  <2>6. PortsGoneUpto(p, h, list, i) BY <2>2, <2>4, <2>5 DEF PortsGoneUpto
  <2> QED BY <2>6 DEF OpPortGoes, h, x
<1>4. PortGoesFold!Kept(p, list) BY <1>3 DEF PortGoesFold!Kept
<1>n. PortGoesFold!LeastNumbers BY LeastNumber DEF Numbers, PortGoesFold!LeastNumbers
<1>5. PortsGoneUpto(p, r, list, Len(list)) BY <1>1, <1>2, <1>4, <1>n, PortGoesFold!FoldKeeps
<1> QED BY <1>5, UptoFacts DEF PortsGoneUpto, r

OpPortComes(p, acc, x) == Say(acc, PortSignal("PortAppeared", x))
PortsBackUpto(p, acc, list, i) == SameObjects(acc, p[2]) /\ Paints(p[1], acc, p[3], Upto(list, i), {})
PortComesFold == INSTANCE FoldFacts WITH Op <- OpPortComes, Inv <- PortsBackUpto

\* All of them are given back.
LEMMA PortsCome ==
  ASSUME NEW g, NEW c, NEW C, AllSeen(C), Paints(c, g, C, {}, {}),
         NEW list \in Seq(PortRecs), IsInjective(list), Elements(list) \subseteq Ports(g), AllSeen(Elements(list)),
         \A x \in Elements(list) : \E o \in C : o.id = x.client
  PROVE  LET r == FoldLeft(LAMBDA acc, x : Say(acc, PortSignal("PortAppeared", x)), g, list)
         IN  Paints(c, r, C, Elements(list), {}) /\ SameObjects(r, g)
<1> DEFINE p == <<c, g, C>>
           r == FoldLeft(LAMBDA acc, x : Say(acc, PortSignal("PortAppeared", x)), g, list)
<1>1. r = PortComesFold!Folded(p, g, list)
  BY Zenon DEF PortComesFold!Folded, OpPortComes, FoldLeft, MapThenFoldSet,
               PortComesFold!MapThenFoldSet, Max, PortComesFold!Greatest
<1> HIDE DEF r
<1>2. PortsBackUpto(p, g, list, 0)
  <2>1. Upto(list, 0) = {} BY UptoFacts
  <2> QED BY <2>1 DEF PortsBackUpto, SameObjects
<1>3. ASSUME NEW i \in 1..Len(list), NEW acc, PortsBackUpto(p, acc, list, i - 1)
      PROVE  PortsBackUpto(p, OpPortComes(p, acc, list[i]), list, i)
  <2> DEFINE x == list[i]
             h == Say(acc, PortSignal("PortAppeared", x))
             Q == Upto(list, i - 1)
  <2>1. SameObjects(acc, g) /\ Paints(c, acc, C, Q, {}) BY <1>3 DEF PortsBackUpto
  <2>2. x \in Elements(list) /\ x \in PortRecs /\ x \notin Q /\ Q \cup {x} = Upto(list, i) BY UptoFacts
  <2>3. Q \subseteq Elements(list)
    <3>1. Len(list) \in Nat /\ DOMAIN list = 1..Len(list) OBVIOUS
    <3> QED BY <3>1 DEF Upto, Elements
  <2>4. AllSeen(Q) /\ ~x.hidden /\ \E o \in C : o.id = x.client BY <2>2, <2>3 DEF AllSeen
  <2>5. \A z \in Q : z.id # x.id
    <3>1. \A y, z \in Ports(g) : y.id = z.id => y = z BY <2>1 DEF SameObjects, Paints, Sound, PortsSound
    <3> QED BY <3>1, <2>2, <2>3
  <2>6. x \in Ports(acc) /\ Changed(acc, acc) BY <2>1, <2>2, SoundChanged DEF SameObjects, Paints
  <2> HIDE DEF x, Q
  <2>7. Paints(c, h, C, Q \cup {x}, {}) /\ SameObjects(h, acc)
    <3>1. PICK E : E = {} OBVIOUS
    <3>2. Paints(c, acc, C, Q, E) BY <2>1, <3>1
    <3>3. Paints(c, h, C, Q \cup {x}, E) /\ SameObjects(h, acc) BY <2>2, <2>4, <2>5, <2>6, <3>2, PortComes
    <3> QED BY <3>1, <3>3
  <2> HIDE DEF h
  <2>8. SameObjects(h, g) BY <2>1, <2>7 DEF SameObjects
  <2>9. PortsBackUpto(p, h, list, i) BY <2>2, <2>7, <2>8 DEF PortsBackUpto
  <2> QED BY <2>9 DEF OpPortComes, h, x
<1>4. PortComesFold!Kept(p, list) BY <1>3 DEF PortComesFold!Kept
<1>n. PortComesFold!LeastNumbers BY LeastNumber DEF Numbers, PortComesFold!LeastNumbers
<1>5. PortsBackUpto(p, r, list, Len(list)) BY <1>1, <1>2, <1>4, <1>n, PortComesFold!FoldKeeps
<1> QED BY <1>5, UptoFacts DEF PortsBackUpto, r

OpClientReturns(p, acc, x) ==
  Say(Say(acc, ClientSignal("ClientDisappeared", x)), ClientSignal("ClientAppeared", x))
ClientsBackUpto(p, acc, list, i) == SameObjects(acc, p[2]) /\ Paints(p[1], acc, p[3], {}, {})
ClientReturnsFold == INSTANCE FoldFacts WITH Op <- OpClientReturns, Inv <- ClientsBackUpto

\* All clients are taken away and given back.
LEMMA ClientsReturn ==
  ASSUME NEW g, NEW c, NEW C, C \subseteq ClientRecs, AllSeen(C), Paints(c, g, C, {}, {}),
         \A y, z \in C : z.id = y.id => z = y,
         NEW list \in Seq(ClientRecs), IsInjective(list), Elements(list) \subseteq C
  PROVE  LET r == FoldLeft(LAMBDA acc, x : Say(Say(acc, ClientSignal("ClientDisappeared", x)),
                                               ClientSignal("ClientAppeared", x)), g, list)
         IN  Paints(c, r, C, {}, {}) /\ SameObjects(r, g)
<1> DEFINE p == <<c, g, C>>
           r == FoldLeft(LAMBDA acc, x : Say(Say(acc, ClientSignal("ClientDisappeared", x)),
                                             ClientSignal("ClientAppeared", x)), g, list)
<1>1. r = ClientReturnsFold!Folded(p, g, list)
  BY Zenon DEF ClientReturnsFold!Folded, OpClientReturns, FoldLeft, MapThenFoldSet,
               ClientReturnsFold!MapThenFoldSet, Max, ClientReturnsFold!Greatest
<1> HIDE DEF r
<1>2. ClientsBackUpto(p, g, list, 0) BY DEF ClientsBackUpto, SameObjects
<1>3. ASSUME NEW i \in 1..Len(list), NEW acc, ClientsBackUpto(p, acc, list, i - 1)
      PROVE  ClientsBackUpto(p, OpClientReturns(p, acc, list[i]), list, i)
  <2> DEFINE x == list[i]
             h == OpClientReturns(p, acc, x)
  <2>1. SameObjects(acc, g) /\ Paints(c, acc, C, {}, {}) BY <1>3 DEF ClientsBackUpto
  <2>2. x \in C /\ x \in ClientRecs BY UptoFacts
  <2>3. \A z \in C : z.id = x.id => z = x BY <2>2
  <2> HIDE DEF x
  <2>4. Paints(c, h, C, {}, {}) /\ SameObjects(h, acc) BY <2>1, <2>2, <2>3, ClientGoesAndComes DEF OpClientReturns
  <2> HIDE DEF h
  <2>5. SameObjects(h, g) BY <2>1, <2>4 DEF SameObjects
  <2>6. ClientsBackUpto(p, h, list, i) BY <2>4, <2>5 DEF ClientsBackUpto
  <2> QED BY <2>6 DEF h, x
<1>4. ClientReturnsFold!Kept(p, list) BY <1>3 DEF ClientReturnsFold!Kept
<1>n. ClientReturnsFold!LeastNumbers BY LeastNumber DEF Numbers, ClientReturnsFold!LeastNumbers
<1>5. ClientsBackUpto(p, r, list, Len(list)) BY <1>1, <1>2, <1>4, <1>n, ClientReturnsFold!FoldKeeps
<1> QED BY <1>5 DEF ClientsBackUpto, r

\* Every watcher can follow TrickDicts.
LEMMA TrickDictsKeeps ==
  ASSUME NEW g, NEW c, Good(c, g)
  PROVE  Good(c, TrickDicts(g))
<1> DEFINE L == Visible(g.conns)
           Q == Visible(g.ports)
           O == Visible(g.clients)
           g1 == FoldLeft(SayDisconnected, g, L)
           g2 == FoldLeft(LAMBDA acc, x : Say(acc, PortSignal("PortDisappeared", x)), g1, Q)
           g3 == FoldLeft(LAMBDA acc, x : Say(Say(acc, ClientSignal("ClientDisappeared", x)),
                                              ClientSignal("ClientAppeared", x)), g2, O)
           g4 == FoldLeft(LAMBDA acc, x : Say(acc, PortSignal("PortAppeared", x)), g3, Q)
           g5 == FoldLeft(SayConnected, g4, L)
           C == Vis(Clients(g))
           P == Vis(Ports(g))
           K == Vis(Conns(g))
<1>1. TrickDicts(g) = g5 BY Zenon DEF TrickDicts
<1>2. Sound(g) BY DEF Good
<1>3. /\ L \in Seq(ConnRecs) /\ IsInjective(L) /\ Elements(L) = K
      /\ Q \in Seq(PortRecs) /\ IsInjective(Q) /\ Elements(Q) = P
      /\ O \in Seq(ClientRecs) /\ IsInjective(O) /\ Elements(O) = C
  BY <1>2, SoundTypes, VisibleFacts DEF Sound, Vis, Clients, Ports, Conns
<1>4. /\ C \subseteq ClientRecs /\ P \subseteq PortRecs /\ K \subseteq ConnRecs
      /\ AllSeen(C) /\ AllSeen(P) /\ AllSeen(K) /\ P \subseteq Ports(g)
  BY <1>2, SoundTypes DEF Vis, AllSeen
<1>5. /\ \A y, z \in C : z.id = y.id => z = y
      /\ \A y, z \in P : z.id = y.id => z = y
      /\ \A y, z \in K : z.ends = y.ends => z = y
  BY <1>2 DEF Vis, Sound, ClientsSound, PortsSound, ConnsSound
<1>6. \A x \in P : \E o \in C : o.id = x.client BY <1>2 DEF Vis, Sound, PortsInside
<1>7. \A x \in K : \A e \in x.ends : \E q \in P : q.id = e BY <1>2 DEF Vis, Sound, ConnsInside
<1>8. Paints(c, g, C, P, K) BY GoodPaints
<1>9. Vis(C) = C /\ Vis(P) = P /\ Vis(K) = K BY <1>4, SeenAll
<1> HIDE DEF L, Q, O
<1>a. C = Vis(Clients(g)) /\ P = Vis(Ports(g)) /\ K = Vis(Conns(g)) OBVIOUS
<1> HIDE DEF C, P, K
<1>10. Paints(c, g1, C, P, {}) /\ SameObjects(g1, g)
  <2>1. Elements(L) \subseteq K /\ K \ Elements(L) = {} BY <1>3
  <2>2. Paints(c, g1, C, P, K \ Elements(L)) /\ SameObjects(g1, g) BY <1>3, <1>4, <1>5, <1>8, <2>1, LinesGo
  <2> QED BY <2>1, <2>2
<1> HIDE DEF g1
<1>11. Paints(c, g2, C, {}, {}) /\ SameObjects(g2, g1)
  <2>1. Elements(Q) \subseteq P /\ P \ Elements(Q) = {} BY <1>3
  <2>2. Paints(c, g2, C, P \ Elements(Q), {}) /\ SameObjects(g2, g1) BY <1>3, <1>4, <1>5, <1>10, <2>1, PortsGo
  <2> QED BY <2>1, <2>2
<1> HIDE DEF g2
<1>12. Paints(c, g3, C, {}, {}) /\ SameObjects(g3, g2)
  <2>1. Elements(O) \subseteq C BY <1>3
  <2> QED BY <1>3, <1>4, <1>5, <1>11, <2>1, ClientsReturn
<1> HIDE DEF g3
<1>13. SameObjects(g3, g) BY <1>10, <1>11, <1>12 DEF SameObjects
<1>14. Paints(c, g4, C, P, {}) /\ SameObjects(g4, g3)
  <2>1. /\ Elements(Q) \subseteq Ports(g3) /\ AllSeen(Elements(Q))
        /\ \A x \in Elements(Q) : \E o \in C : o.id = x.client
    BY <1>3, <1>4, <1>6, <1>13 DEF SameObjects
  <2>2. Paints(c, g4, C, Elements(Q), {}) /\ SameObjects(g4, g3) BY <1>3, <1>4, <1>12, <2>1, PortsCome
  <2> QED BY <1>3, <2>2
<1> HIDE DEF g4
<1>15. Paints(c, g5, C, P, K) /\ SameObjects(g5, g4)
  <2>1. /\ AllSeen(Elements(L)) /\ \A x \in Elements(L) : \A e \in x.ends : \E q \in P : q.id = e
    BY <1>3, <1>4, <1>7
  <2>0. PICK E : E = {} OBVIOUS
  <2>2. AllSeen(E) /\ Paints(c, g4, C, P, E) BY <1>14, <2>0 DEF AllSeen
  <2>3. Paints(c, g5, C, P, E \cup Elements(L)) /\ SameObjects(g5, g4) BY <1>3, <1>4, <2>1, <2>2, LinesCome
  <2>4. E \cup Elements(L) = K BY <1>3, <2>0
  <2> QED BY <2>3, <2>4
<1> HIDE DEF g5
<1>16. SameObjects(g5, g) BY <1>13, <1>14, <1>15 DEF SameObjects
<1>17. Vis(C) = Vis(Clients(g5)) /\ Vis(P) = Vis(Ports(g5)) /\ Vis(K) = Vis(Conns(g5))
  BY <1>9, <1>a, <1>16 DEF SameObjects
<1>18. Good(c, g5) BY <1>15, <1>17, PaintsGood
<1> QED BY <1>1, <1>18

-----------------------------------------------------------------------------
(***************************************************************************)
(* MovePort: the port gets a new id, and its connections new ends.         *)
(***************************************************************************)

\* A port that moves, and what becomes of a connection.
Heir(g, x, client) == [x EXCEPT !.id = g.nextPort, !.client = client]
Carried(k, id, new) == [k EXCEPT !.ends = (@ \ {id}) \cup {new}]
Carry(k, id, new) == IF id \in k.ends THEN Carried(k, id, new) ELSE k
CarriedList(l, list, id, new) == l = [i \in DOMAIN list |-> Carry(list[i], id, new)]
Shifted(h, g, x, client) ==
  \E l : /\ CarriedList(l, g.conns, x.id, g.nextPort)
         /\ h = [g EXCEPT !.ports = Append(Without(@, LAMBDA z : z.id = x.id), Heir(g, x, client)),
                          !.conns = l, !.nextPort = @ + 1]

\* The connections of a port get its new id.
LEMMA CarryFacts ==
  ASSUME NEW g, Sound(g), NEW id \in Nat
  PROVE  LET n == g.nextPort
         IN  /\ \A k \in Conns(g) : n \notin k.ends
             /\ \A k \in Conns(g) : Carry(k, id, n) \in ConnRecs /\ Carry(k, id, n).hidden = k.hidden
             /\ \A k \in Conns(g) : Carry(k, id, n).ends = IF id \in k.ends THEN (k.ends \ {id}) \cup {n} ELSE k.ends
             /\ \A k \in Conns(g) : \E a, b \in Nat : a # b /\ Carry(k, id, n).ends = {a, b}
             /\ \A j, k \in Conns(g) : Carry(j, id, n).ends = Carry(k, id, n).ends => j = k
<1> DEFINE n == g.nextPort
<1>1. n \in Nat /\ Conns(g) \in SUBSET ConnRecs /\ Ports(g) \in SUBSET PortRecs BY SoundTypes
<1>2. ASSUME NEW k \in Conns(g) PROVE n \notin k.ends
  <2> SUFFICES ASSUME n \in k.ends PROVE FALSE OBVIOUS
  <2>1. PICK p \in Ports(g) : p.id = n BY DEF Sound, ConnsInside
  <2>2. p.id < n BY DEF Sound, PortsSound
  <2> QED BY <1>1, <2>1, <2>2
<1>3. ASSUME NEW k \in Conns(g)
      PROVE  /\ Carry(k, id, n) \in ConnRecs /\ Carry(k, id, n).hidden = k.hidden
             /\ Carry(k, id, n).ends = IF id \in k.ends THEN (k.ends \ {id}) \cup {n} ELSE k.ends
  <2>1. k \in ConnRecs /\ (k.ends \ {id}) \cup {n} \in SUBSET Nat BY <1>1 DEF ConnRecs
  <2> QED BY <2>1 DEF Carry, Carried, ConnRecs
<1>4. ASSUME NEW k \in Conns(g) PROVE \E a, b \in Nat : a # b /\ Carry(k, id, n).ends = {a, b}
  <2>1. PICK a, b \in Nat : a # b /\ k.ends = {a, b} BY DEF Sound, ConnsSound
  <2>2. n # a /\ n # b BY <1>2, <2>1
  <2>3. CASE id = a
    <3>1. Carry(k, id, n).ends = {n, b} BY <1>3, <2>1, <2>3
    <3> QED BY <1>1, <2>2, <3>1
  <2>4. CASE id = b
    <3>1. Carry(k, id, n).ends = {a, n} BY <1>3, <2>1, <2>4
    <3> QED BY <1>1, <2>2, <3>1
  <2>5. CASE id # a /\ id # b
    <3>1. Carry(k, id, n).ends = {a, b} BY <1>3, <2>1, <2>5
    <3> QED BY <2>1, <3>1
  <2> QED BY <2>3, <2>4, <2>5
<1>5. ASSUME NEW j \in Conns(g), NEW k \in Conns(g), Carry(j, id, n).ends = Carry(k, id, n).ends PROVE j = k
  <2>1. n \notin j.ends /\ n \notin k.ends BY <1>2
  <2>2. id \in j.ends <=> id \in k.ends BY <1>3, <1>5, <2>1
  <2>3. j.ends = k.ends
    <3>1. CASE id \notin j.ends BY <1>3, <1>5, <2>2, <3>1
    <3>2. CASE id \in j.ends
      <4>1. (j.ends \ {id}) \cup {n} = (k.ends \ {id}) \cup {n} BY <1>3, <1>5, <2>2, <3>2
      <4> QED BY <4>1, <2>1, <2>2, <3>2
    <3> QED BY <3>1, <3>2
  <2> QED BY <2>3 DEF Sound, ConnsSound
<1> QED BY <1>2, <1>3, <1>4, <1>5

\* The graph with the port in its new client is sound.
LEMMA ShiftedFacts ==
  ASSUME NEW g, Sound(g), NEW x \in Ports(g), NEW o \in Clients(g), ~o.hidden,
         NEW h, Shifted(h, g, x, o.id)
  PROVE  /\ Changed(g, h) /\ h.nextClient = g.nextClient /\ h.nextPort = g.nextPort + 1
         /\ Clients(h) = Clients(g) /\ Ports(h) = (Ports(g) \ {x}) \cup {Heir(g, x, o.id)}
         /\ Conns(h) = { Carry(k, x.id, g.nextPort) : k \in Conns(g) }
<1> DEFINE n == g.nextPort
           q == Heir(g, x, o.id)
           m == Without(g.ports, LAMBDA z : z.id = x.id)
           t == Append(m, q)
           D(k) == Carry(k, x.id, n)
<1>1. /\ g \in Graphs /\ n \in Nat /\ x \in PortRecs /\ o \in ClientRecs /\ g.nextClient \in Nat
      /\ g.ports \in Seq(PortRecs) /\ IsInjective(g.ports) /\ g.conns \in Seq(ConnRecs) /\ IsInjective(g.conns)
  BY SoundTypes DEF Sound
<1>2. q \in PortRecs /\ q.id = n /\ q.client = o.id /\ q.hidden = x.hidden /\ q.name = x.name
  BY <1>1 DEF Heir, PortRecs, ClientRecs
<1> PICK l : /\ CarriedList(l, g.conns, x.id, n)
             /\ h = [g EXCEPT !.ports = Append(Without(@, LAMBDA z : z.id = x.id), q), !.conns = l, !.nextPort = @ + 1]
  BY Zenon DEF Shifted
<1>3. h = [g EXCEPT !.ports = t, !.conns = l, !.nextPort = @ + 1] OBVIOUS
<1>4. \A z \in Ports(g) : z.id = x.id <=> z = x BY DEF Sound, PortsSound
<1>5. \A z \in Ports(g) : z.id # n
  <2>1. \A z \in Ports(g) : z.id \in Nat /\ z.id < n BY SoundTypes DEF Sound, PortsSound, PortRecs
  <2> QED BY <1>1, <2>1
<1>6. t \in Seq(PortRecs) /\ IsInjective(t) /\ Elements(t) = (Ports(g) \ {x}) \cup {q}
  <2>1. m = Members(g.ports, { z \in Elements(g.ports) : ~(z.id = x.id) }) BY DEF Without, Select
  <2> HIDE DEF m, q
  <2>2. m \in Seq(PortRecs) /\ IsInjective(m) /\ Elements(m) = Ports(g) \ {x}
    BY <1>1, <1>4, <2>1, MembersFacts DEF Ports
  <2>3. q \notin Elements(m) BY <1>2, <1>5, <2>2
  <2> QED BY <1>2, <2>2, <2>3, AppendFacts
<1> HIDE DEF q, m, t, D
<1>7. /\ \A k \in Conns(g) : n \notin k.ends
      /\ \A k \in Conns(g) : D(k) \in ConnRecs /\ D(k).hidden = k.hidden
      /\ \A k \in Conns(g) : D(k).ends = IF x.id \in k.ends THEN (k.ends \ {x.id}) \cup {n} ELSE k.ends
      /\ \A k \in Conns(g) : \E a, b \in Nat : a # b /\ D(k).ends = {a, b}
      /\ \A j, k \in Conns(g) : D(j).ends = D(k).ends => j = k
  <2>1. x.id \in Nat BY <1>1 DEF PortRecs
  <2> QED BY <2>1, CarryFacts DEF D
<1>8. l \in Seq(ConnRecs) /\ IsInjective(l) /\ Elements(l) = { D(k) : k \in Conns(g) }
  <2>1. /\ Len(g.conns) \in Nat /\ DOMAIN g.conns = 1..Len(g.conns)
        /\ \A i \in DOMAIN g.conns : g.conns[i] \in Conns(g)
    BY <1>1 DEF Conns, Elements
  <2>2. l = [i \in DOMAIN g.conns |-> D(g.conns[i])] BY Zenon DEF CarriedList, D
  <2>3. l \in Seq(ConnRecs)
    <3>1. \A i \in DOMAIN g.conns : D(g.conns[i]) \in ConnRecs BY <1>7, <2>1
    <3> QED BY <2>1, <2>2, <3>1
  <2>4. DOMAIN l = DOMAIN g.conns /\ \A i \in DOMAIN g.conns : l[i] = D(g.conns[i]) BY <2>2
  <2>5. IsInjective(l)
    <3> SUFFICES ASSUME NEW i \in DOMAIN g.conns, NEW j \in DOMAIN g.conns, l[i] = l[j] PROVE i = j
      BY <2>4 DEF IsInjective
    <3>1. g.conns[i] = g.conns[j] BY <1>7, <2>1, <2>4
    <3> QED BY <1>1, <3>1 DEF IsInjective
  <2>6. Elements(l) = { D(k) : k \in Conns(g) } BY <2>4 DEF Elements, Conns
  <2> QED BY <2>3, <2>5, <2>6
<1>9. /\ h \in Graphs /\ h.clients = g.clients /\ h.ports = t /\ h.conns = l /\ h.version = g.version
      /\ h.nextClient = g.nextClient /\ h.nextPort = n + 1 /\ h.sent = g.sent
  <2>1. n + 1 \in Nat BY <1>1
  <2> QED BY <1>1, <1>3, <1>6, <1>8, <2>1 DEF Graphs
<1>10. Clients(h) = Clients(g) /\ Ports(h) = (Ports(g) \ {x}) \cup {q} /\ Conns(h) = { D(k) : k \in Conns(g) }
  BY <1>6, <1>8, <1>9 DEF Clients, Ports, Conns
<1>11. PortsSound(Ports(h), h.nextPort)
  <2>1. \A z \in Ports(h) : z.id < n + 1
    <3>1. \A z \in Ports(g) : z.id \in Nat /\ z.id < n BY SoundTypes DEF Sound, PortsSound, PortRecs
    <3>2. \A z \in Ports(g) : z.id < n + 1 BY <1>1, <3>1
    <3>3. q.id < n + 1 BY <1>1, <1>2
    <3> QED BY <1>10, <3>2, <3>3
  <2>2. \A y, z \in Ports(h) : y.id = z.id => y = z BY <1>2, <1>5, <1>10 DEF Sound, PortsSound
  <2> QED BY <1>9, <2>1, <2>2 DEF PortsSound
<1>12. PortsInside(Clients(h), Ports(h)) BY <1>2, <1>10 DEF Sound, PortsInside
<1>13. ConnsSound(Conns(h))
  <2>1. ASSUME NEW y \in Conns(h), NEW z \in Conns(h), y.ends = z.ends PROVE y = z
    <3>1. PICK j \in Conns(g) : y = D(j) BY <1>10
    <3>2. PICK k \in Conns(g) : z = D(k) BY <1>10
    <3>3. j = k BY <1>7, <2>1, <3>1, <3>2
    <3> QED BY <3>1, <3>2, <3>3
  <2>2. ASSUME NEW y \in Conns(h) PROVE \E a, b \in Nat : a # b /\ y.ends = {a, b}
    <3>1. PICK j \in Conns(g) : y = D(j) BY <1>10
    <3> QED BY <1>7, <3>1
  <2> QED BY <2>1, <2>2 DEF ConnsSound
<1>14. ConnsInside(Ports(h), Conns(h))
  <2> SUFFICES ASSUME NEW k \in Conns(g), NEW e \in D(k).ends
               PROVE  \E p \in Ports(h) : p.id = e /\ (p.hidden => D(k).hidden)
    <3> SUFFICES ASSUME NEW y \in Conns(h), NEW e \in y.ends
                 PROVE  \E p \in Ports(h) : p.id = e /\ (p.hidden => y.hidden)
      BY DEF ConnsInside
    <3>1. PICK j \in Conns(g) : y = D(j) BY <1>10
    <3> QED BY <3>1
  <2>1. CASE e = n
    <3>1. x.id \in k.ends BY <1>7, <2>1
    <3>2. PICK p \in Ports(g) : p.id = x.id /\ (p.hidden => k.hidden) BY <3>1 DEF Sound, ConnsInside
    <3>3. p = x BY <1>4, <3>2
    <3> QED BY <1>2, <1>7, <1>10, <2>1, <3>2, <3>3
  <2>2. CASE e # n
    <3>1. e \in k.ends /\ e # x.id BY <1>7, <2>2
    <3>2. PICK p \in Ports(g) : p.id = e /\ (p.hidden => k.hidden) BY <3>1 DEF Sound, ConnsInside
    <3>3. p \in Ports(h) BY <1>10, <3>1, <3>2
    <3> QED BY <1>7, <3>2, <3>3
  <2> QED BY <2>1, <2>2
<1>15. Sound(h) BY <1>6, <1>8, <1>9, <1>10, <1>11, <1>12, <1>13, <1>14 DEF Sound
<1>16. Buries(g, h)
  <2>1. g.nextPort <= h.nextPort BY <1>1, <1>9
  <2>2. \A p \in Ports(h) : p.id >= g.nextPort \/ \E z \in Ports(g) : z.id = p.id
    <3>1. q.id >= g.nextPort BY <1>1, <1>2
    <3> QED BY <1>10, <3>1
  <2> QED BY <1>15, <2>1, <2>2, Burying
<1> QED BY <1>9, <1>10, <1>15, <1>16 DEF Changed, q, D

-----------------------------------------------------------------------------
(***************************************************************************)
(* MovePort: its visible connections and the port go, the rest of the      *)
(* graph stays, and they come back.                                        *)
(***************************************************************************)

\* The visible part of a sound graph fits together.
LEMMA SoundSeen ==
  ASSUME NEW g, Sound(g)
  PROVE  /\ Vis(Clients(g)) \subseteq ClientRecs /\ Vis(Ports(g)) \subseteq PortRecs /\ Vis(Conns(g)) \subseteq ConnRecs
         /\ AllSeen(Vis(Clients(g))) /\ AllSeen(Vis(Ports(g))) /\ AllSeen(Vis(Conns(g)))
         /\ \A y, z \in Vis(Ports(g)) : z.id = y.id => z = y
         /\ \A y, z \in Vis(Conns(g)) : z.ends = y.ends => z = y
         /\ \A k \in Vis(Conns(g)) : \A e \in k.ends : \E p \in Vis(Ports(g)) : p.id = e
<1>1. /\ Vis(Clients(g)) \subseteq ClientRecs /\ Vis(Ports(g)) \subseteq PortRecs /\ Vis(Conns(g)) \subseteq ConnRecs
      /\ AllSeen(Vis(Clients(g))) /\ AllSeen(Vis(Ports(g))) /\ AllSeen(Vis(Conns(g)))
  BY SoundTypes DEF Vis, AllSeen
<1>2. /\ \A y, z \in Vis(Ports(g)) : z.id = y.id => z = y
      /\ \A y, z \in Vis(Conns(g)) : z.ends = y.ends => z = y
  BY DEF Vis, Sound, PortsSound, ConnsSound
<1>3. \A k \in Vis(Conns(g)) : \A e \in k.ends : \E p \in Vis(Ports(g)) : p.id = e
  BY DEF Vis, Sound, ConnsInside
<1> QED BY <1>1, <1>2, <1>3

\* The lines of a port: a hidden one has none that is visible.
Lines(g, x) == IF x.hidden THEN << >> ELSE Visible(ConnsOf(g, x.id))

\* The connections that are taken away are the visible ones of the port.
LEMMA LinesFacts ==
  ASSUME NEW g, Sound(g), NEW x \in Ports(g)
  PROVE  /\ Lines(g, x) \in Seq(ConnRecs) /\ IsInjective(Lines(g, x))
         /\ Elements(Lines(g, x)) = { k \in Vis(Conns(g)) : x.id \in k.ends }
<1>1. CASE x.hidden
  <2>1. { k \in Vis(Conns(g)) : x.id \in k.ends } = {}
    <3> SUFFICES ASSUME NEW k \in Vis(Conns(g)), x.id \in k.ends PROVE FALSE OBVIOUS
    <3>1. PICK p \in Vis(Ports(g)) : p.id = x.id BY SoundSeen
    <3>2. p = x BY <3>1 DEF Vis, Sound, PortsSound
    <3> QED BY <1>1, <3>1, <3>2 DEF Vis
  <2>2. Lines(g, x) = << >> BY <1>1 DEF Lines
  <2>3. << >> \in Seq(ConnRecs) /\ IsInjective(<< >>) /\ Elements(<< >>) = {} BY DEF IsInjective, Elements
  <2> QED BY <2>1, <2>2, <2>3
<1>2. CASE ~x.hidden
  <2>1. Lines(g, x) = Visible(ConnsOf(g, x.id)) BY <1>2 DEF Lines
  <2>2. /\ ConnsOf(g, x.id) \in Seq(ConnRecs) /\ IsInjective(ConnsOf(g, x.id))
        /\ Elements(ConnsOf(g, x.id)) = { k \in Conns(g) : x.id \in k.ends }
    BY ConnsOfFacts
  <2>3. /\ Visible(ConnsOf(g, x.id)) \in Seq(ConnRecs) /\ IsInjective(Visible(ConnsOf(g, x.id)))
        /\ Elements(Visible(ConnsOf(g, x.id))) = { k \in Elements(ConnsOf(g, x.id)) : ~k.hidden }
    BY <2>2, VisibleFacts
  <2> QED BY <2>1, <2>2, <2>3 DEF Vis
<1> QED BY <1>1, <1>2

\* The lines of a port and the port are taken from the listeners.
LEMMA MovedPortGoes ==
  ASSUME NEW g, NEW c, Good(c, g), NEW x \in Ports(g)
  PROVE  LET r == Say(FoldLeft(SayDisconnected, g, Lines(g, x)), PortSignal("PortDisappeared", x))
         IN  /\ SameObjects(r, g)
             /\ Paints(c, r, Vis(Clients(g)), Vis(Ports(g)) \ {x}, { k \in Vis(Conns(g)) : x.id \notin k.ends })
<1> DEFINE C == Vis(Clients(g))
           P == Vis(Ports(g))
           K == Vis(Conns(g))
           J == { k \in K : x.id \notin k.ends }
           list == Lines(g, x)
           a == FoldLeft(SayDisconnected, g, list)
           s == PortSignal("PortDisappeared", x)
<1>0. Sound(g) /\ x \in PortRecs BY SoundTypes DEF Good
<1>1. /\ P \subseteq PortRecs /\ K \subseteq ConnRecs /\ AllSeen(P) /\ AllSeen(K)
      /\ \A y, z \in P : z.id = y.id => z = y
      /\ \A y, z \in K : z.ends = y.ends => z = y
  BY <1>0, SoundSeen
<1>2. list \in Seq(ConnRecs) /\ IsInjective(list) /\ Elements(list) = { k \in K : x.id \in k.ends }
  BY <1>0, LinesFacts
<1>3. Paints(c, g, C, P, K) BY GoodPaints
<1>4. x \in P <=> ~x.hidden BY DEF Vis
<1> HIDE DEF list, C, P, K
<1>5. Elements(list) \subseteq K /\ K \ Elements(list) = J BY <1>2
<1>6. Paints(c, a, C, P, K \ Elements(list)) /\ SameObjects(a, g) BY <1>1, <1>2, <1>3, <1>5, LinesGo
<1> HIDE DEF a
<1>7. Paints(c, a, C, P, J) BY <1>5, <1>6
<1>8. CASE x.hidden
  <2>1. P \ {x} = P BY <1>4, <1>8
  <2>2. s \in SignalRecs /\ s.kind = "silent" BY <1>0, <1>8, PortSignalFields DEF Kinds
  <2>3. Changed(a, a) BY <1>7, SoundChanged DEF Paints
  <2> HIDE DEF J, s
  <2>4. Paints(c, Say(a, s), C, P, J) /\ SameObjects(Say(a, s), a) BY <1>7, <2>2, <2>3, PaintsSilently
  <2>5. SameObjects(Say(a, s), g) BY <1>6, <2>4 DEF SameObjects
  <2> QED BY <2>1, <2>4, <2>5 DEF a, list, s, C, P, K, J
<1>9. CASE ~x.hidden
  <2>1. AllSeen(J) /\ \A k \in J : x.id \notin k.ends BY <1>1 DEF AllSeen
  <2> HIDE DEF J
  <2>2. x \in P /\ \A z \in P : z.id = x.id => z = x BY <1>1, <1>4, <1>9
  <2>3. Paints(c, Say(a, s), C, P \ {x}, J) /\ SameObjects(Say(a, s), a) BY <1>0, <1>1, <1>7, <2>1, <2>2, PortGoes
  <2>4. SameObjects(Say(a, s), g) BY <1>6, <2>3 DEF SameObjects
  <2> QED BY <2>3, <2>4 DEF a, list, s, C, P, K, J
<1> QED BY <1>8, <1>9

\* The port appears in another client, under a new id.
LEMMA MovedPortComes ==
  ASSUME NEW g, NEW c, NEW K, NEW x \in Ports(g), NEW o \in Clients(g), ~o.hidden,
         Paints(c, g, Vis(Clients(g)), Vis(Ports(g)) \ {x}, K)
  PROVE  LET r == Shift(g, x.id, o.id)
             q == Heir(g, x, o.id)
         IN  /\ Sound(r) /\ Clients(r) = Clients(g) /\ Ports(r) = (Ports(g) \ {x}) \cup {q}
             /\ Conns(r) = { Carry(k, x.id, g.nextPort) : k \in Conns(g) }
             /\ r.nextClient = g.nextClient
             /\ q.id = g.nextPort /\ q.hidden = x.hidden
             /\ Paints(c, r, Vis(Clients(g)), Vis(Ports(r)), K)
<1> DEFINE q == Heir(g, x, o.id)
           C == Vis(Clients(g))
           P == Vis(Ports(g)) \ {x}
           Moved(k) == [k EXCEPT !.ends = (@ \ {x.id}) \cup {q.id}]
           l == Update(g.conns, LAMBDA k : x.id \in k.ends, Moved)
           h == [g EXCEPT !.ports = Append(Without(@, LAMBDA z : z.id = x.id), q), !.conns = l, !.nextPort = @ + 1]
           s == PortSignal("PortAppeared", q)
<1>0. Sound(g) /\ x \in PortRecs /\ o \in ClientRecs /\ g.nextPort \in Nat BY SoundTypes DEF Paints
<1>1. q \in PortRecs /\ q.id = g.nextPort /\ q.client = o.id /\ q.hidden = x.hidden
  BY <1>0 DEF Heir, PortRecs, ClientRecs
<1>2. PortById(g, x.id) = x BY <1>0, PortFound
<1>3. Shift(g, x.id, o.id) = Say(h, s)
  <2> DEFINE F(z) ==
        LET y == Heir(g, z, o.id)
            MovedTo(k) == [k EXCEPT !.ends = (@ \ {x.id}) \cup {y.id}]
        IN  Say([g EXCEPT !.ports = Append(Without(@, LAMBDA u : u.id = x.id), y),
                          !.conns = Update(@, LAMBDA k : x.id \in k.ends, MovedTo),
                          !.nextPort = @ + 1],
                PortSignal("PortAppeared", y))
  <2>1. Shift(g, x.id, o.id) = F(PortById(g, x.id)) BY Zenon DEF Shift, Heir
  <2>2. F(x) = Say(h, s) BY Zenon
  <2> HIDE DEF F, h, s
  <2> QED BY <1>2, <2>1, <2>2
<1>4. CarriedList(l, g.conns, x.id, g.nextPort) BY <1>1 DEF Update, CarriedList, Carry, Carried
<1>5. Shifted(h, g, x, o.id) BY <1>4, Zenon DEF Shifted
<1> HIDE DEF h, q, l
<1>6. /\ Changed(g, h) /\ h.nextClient = g.nextClient
      /\ Clients(h) = Clients(g) /\ Ports(h) = (Ports(g) \ {x}) \cup {q}
      /\ Conns(h) = { Carry(k, x.id, g.nextPort) : k \in Conns(g) }
  BY <1>0, <1>5, ShiftedFacts DEF q
<1>7. s \in SignalRecs BY <1>1, PortSignalFields DEF Kinds
<1>8. Paints(c, Say(h, s), C, Vis(Ports(h)), K) /\ SameObjects(Say(h, s), h)
  <2>1. CASE x.hidden
    <3>1. Vis(Ports(h)) = P BY <1>1, <1>6, <2>1 DEF Vis
    <3>2. s.kind = "silent" BY <1>1, <2>1, PortSignalFields DEF Kinds
    <3>3. Paints(c, g, C, P, K) OBVIOUS
    <3> HIDE DEF s, C, P
    <3>4. Paints(c, Say(h, s), C, P, K) /\ SameObjects(Say(h, s), h) BY <1>6, <1>7, <3>2, <3>3, PaintsSilently
    <3> QED BY <3>1, <3>4
  <2>2. CASE ~x.hidden
    <3>1. Vis(Ports(h)) = P \cup {q} /\ q \in Ports(h) BY <1>1, <1>6, <2>2 DEF Vis
    <3>2. \A z \in P : z.id # q.id
      <4>1. \A z \in Ports(g) : z.id \in Nat /\ z.id < g.nextPort
        BY <1>0, SoundTypes DEF Sound, PortsSound, PortRecs
      <4>2. \A z \in Ports(g) : z.id # g.nextPort BY <1>0, <4>1
      <4> QED BY <4>2, <1>1 DEF Vis
    <3>3. AllSeen(C) /\ AllSeen(P) /\ \E z \in C : z.id = q.client BY <1>1 DEF AllSeen, Vis
    <3>4. ~q.hidden BY <1>1, <2>2
    <3>6. Paints(c, g, C, P, K) OBVIOUS
    <3> HIDE DEF C, P
    <3>5. Paints(c, Say(h, s), C, P \cup {q}, K) /\ SameObjects(Say(h, s), h)
      BY <1>1, <1>6, <3>1, <3>2, <3>3, <3>4, <3>6, PortComes
    <3> QED BY <3>1, <3>5
  <2> QED BY <1>0, <2>1, <2>2
<1> DEFINE r == Say(h, s)
<1> HIDE DEF s
<1>9. /\ Sound(r) /\ Clients(r) = Clients(g) /\ Ports(r) = (Ports(g) \ {x}) \cup {q}
      /\ Conns(r) = { Carry(k, x.id, g.nextPort) : k \in Conns(g) }
      /\ r.nextClient = g.nextClient
      /\ Paints(c, r, C, Vis(Ports(r)), K)
  BY <1>6, <1>8 DEF SameObjects, Paints
<1> HIDE DEF r
<1>10. Shift(g, x.id, o.id) = r BY <1>3 DEF r
<1> QED BY <1>1, <1>9, <1>10 DEF q

\* Every watcher can follow MovePort.
LEMMA MovePortKeeps ==
  ASSUME NEW g, NEW c, Good(c, g), NEW x \in Ports(g), NEW o \in Clients(g), ~o.hidden
  PROVE  LET r == MovePort(g, x.id, o.id)
         IN  /\ Good(c, r) /\ Clients(r) = Clients(g) /\ r.nextClient = g.nextClient
             /\ Ports(r) = (Ports(g) \ {x}) \cup {Heir(g, x, o.id)}
<1> DEFINE C == Vis(Clients(g))
           n == g.nextPort
           q == Heir(g, x, o.id)
           J == { k \in Vis(Conns(g)) : x.id \notin k.ends }
           a == Say(FoldLeft(SayDisconnected, g, Lines(g, x)), PortSignal("PortDisappeared", x))
           b == Shift(a, x.id, o.id)
           list == Lines(b, q)
           r == FoldLeft(SayConnected, b, list)
<1>1. Sound(g) /\ x \in PortRecs /\ PortById(g, x.id) = x BY SoundTypes, PortFound DEF Good
<1>2. q.id = n /\ q.hidden = x.hidden BY <1>1 DEF Heir, PortRecs
<1>3. MovePort(g, x.id, o.id) = r
  <2>1. Lines(b, q) = IF x.hidden THEN << >> ELSE Visible(ConnsOf(b, n)) BY <1>2 DEF Lines
  <2> QED BY <1>1, <2>1, Zenon DEF MovePort, Lines
<1>4. SameObjects(a, g) /\ Paints(c, a, C, Vis(Ports(g)) \ {x}, J) BY MovedPortGoes
<1> HIDE DEF a
<1>5. /\ Sound(b) /\ Clients(b) = Clients(g) /\ Ports(b) = (Ports(g) \ {x}) \cup {q}
      /\ Conns(b) = { Carry(k, x.id, n) : k \in Conns(g) }
      /\ b.nextClient = g.nextClient
      /\ Paints(c, b, C, Vis(Ports(b)), J)
  <2>1. /\ Clients(a) = Clients(g) /\ Ports(a) = Ports(g) /\ Conns(a) = Conns(g)
        /\ a.nextClient = g.nextClient /\ a.nextPort = n
    BY <1>4 DEF SameObjects
  <2>2. x \in Ports(a) /\ o \in Clients(a) /\ C = Vis(Clients(a)) BY <2>1
  <2>4. Paints(c, a, Vis(Clients(a)), Vis(Ports(a)) \ {x}, J) BY <1>4, <2>1
  <2>5. Heir(a, x, o.id) = q BY <2>1 DEF Heir
  <2> HIDE DEF C, J, q, n, b
  <2>6. /\ Sound(b) /\ Clients(b) = Clients(a) /\ Ports(b) = (Ports(a) \ {x}) \cup {Heir(a, x, o.id)}
        /\ Conns(b) = { Carry(k, x.id, a.nextPort) : k \in Conns(a) }
        /\ b.nextClient = a.nextClient
        /\ Paints(c, b, Vis(Clients(a)), Vis(Ports(b)), J)
    BY <2>2, <2>4, MovedPortComes DEF b
  <2> QED BY <2>1, <2>2, <2>5, <2>6
<1> HIDE DEF b, q
<1>6. list \in Seq(ConnRecs) /\ IsInjective(list) /\ Elements(list) = { k \in Vis(Conns(b)) : n \in k.ends }
  <2>1. q \in Ports(b) BY <1>5
  <2>2. /\ list \in Seq(ConnRecs) /\ IsInjective(list)
        /\ Elements(list) = { k \in Vis(Conns(b)) : q.id \in k.ends }
    BY <1>5, <2>1, LinesFacts
  <2> HIDE DEF list, n
  <2> QED BY <1>2, <2>2
<1> HIDE DEF list
<1>7. Vis(Conns(b)) = J \cup Elements(list)
  <2>1. /\ \A k \in Conns(g) : Carry(k, x.id, n).hidden = k.hidden
        /\ \A k \in Conns(g) : x.id \in k.ends => n \in Carry(k, x.id, n).ends
        /\ \A k \in Conns(g) : x.id \notin k.ends => Carry(k, x.id, n) = k
    <3>1. x.id \in Nat BY <1>1 DEF PortRecs
    <3>2. /\ \A k \in Conns(g) : Carry(k, x.id, n).hidden = k.hidden
          /\ \A k \in Conns(g) : Carry(k, x.id, n).ends = IF x.id \in k.ends THEN (k.ends \ {x.id}) \cup {n} ELSE k.ends
      BY <1>1, <3>1, CarryFacts
    <3>3. \A k \in Conns(g) : x.id \notin k.ends => Carry(k, x.id, n) = k BY DEF Carry
    <3> QED BY <3>2, <3>3
  <2>2. ASSUME NEW y \in Vis(Conns(b)) PROVE y \in J \/ y \in Elements(list)
    <3>1. PICK k \in Conns(g) : y = Carry(k, x.id, n) BY <1>5 DEF Vis
    <3>2. CASE x.id \in k.ends BY <1>6, <2>1, <3>1, <3>2
    <3>3. CASE x.id \notin k.ends BY <2>1, <3>1, <3>3 DEF Vis
    <3> QED BY <3>2, <3>3
  <2>3. ASSUME NEW y \in J PROVE y \in Vis(Conns(b))
    <3>1. y \in Conns(g) /\ ~y.hidden /\ y = Carry(y, x.id, n) BY <2>1 DEF Vis
    <3> QED BY <1>5, <3>1 DEF Vis
  <2> QED BY <1>6, <2>2, <2>3
<1>8. /\ AllSeen(Vis(Ports(b))) /\ AllSeen(J) /\ AllSeen(Elements(list))
      /\ \A y \in Elements(list) : \A e \in y.ends : \E p \in Vis(Ports(b)) : p.id = e
  <2>1. /\ AllSeen(Vis(Ports(b))) /\ AllSeen(Vis(Conns(b)))
        /\ \A k \in Vis(Conns(b)) : \A e \in k.ends : \E p \in Vis(Ports(b)) : p.id = e
    BY <1>5, SoundSeen
  <2> QED BY <1>7, <2>1 DEF AllSeen
<1>9. Paints(c, r, C, Vis(Ports(b)), J \cup Elements(list)) /\ SameObjects(r, b)
  <2> HIDE DEF J, C
  <2>1. PICK P : P = Vis(Ports(b)) OBVIOUS
  <2>2. /\ AllSeen(P) /\ AllSeen(J) /\ AllSeen(Elements(list)) /\ Paints(c, b, C, P, J)
        /\ \A y \in Elements(list) : \A e \in y.ends : \E p \in P : p.id = e
    BY <1>5, <1>8, <2>1
  <2>3. Paints(c, r, C, P, J \cup Elements(list)) /\ SameObjects(r, b) BY <1>6, <2>2, LinesCome
  <2> QED BY <2>1, <2>3
<1> HIDE DEF r
<1>10. Good(c, r)
  <2>1. Vis(C) = Vis(Clients(r)) /\ Vis(Vis(Ports(b))) = Vis(Ports(r)) /\ Vis(Vis(Conns(b))) = Vis(Conns(r))
    BY <1>5, <1>9 DEF SameObjects, Vis
  <2>2. Paints(c, r, C, Vis(Ports(b)), Vis(Conns(b))) BY <1>7, <1>9
  <2> HIDE DEF C
  <2>3. PICK P : P = Vis(Ports(b)) OBVIOUS
  <2>4. PICK K : K = Vis(Conns(b)) OBVIOUS
  <2> QED BY <2>1, <2>2, <2>3, <2>4, PaintsGood
<1> QED BY <1>3, <1>5, <1>9, <1>10 DEF SameObjects, q

-----------------------------------------------------------------------------
(***************************************************************************)
(* Splitting and joining clients.                                          *)
(***************************************************************************)

\* The first i ports of a list move to the client p[3].
OpMove(p, acc, x) == MovePort(acc, x.id, p[3])
MovedUpto(p, acc, list, i) ==
  /\ Good(p[1], acc) /\ Clients(acc) = Clients(p[2])
  /\ Elements(list) \ Upto(list, i) \subseteq Ports(acc)
MoveFold == INSTANCE FoldFacts WITH Op <- OpMove, Inv <- MovedUpto

MoveAll(g, list, id) == FoldLeft(LAMBDA acc, x : MovePort(acc, x.id, id), g, list)

\* Moving ports one after the other.
LEMMA MovedPorts ==
  ASSUME NEW g, NEW c, Good(c, g), NEW o \in Clients(g), ~o.hidden,
         NEW list \in Seq(PortRecs), IsInjective(list), Elements(list) \subseteq Ports(g)
  PROVE  Good(c, MoveAll(g, list, o.id)) /\ Clients(MoveAll(g, list, o.id)) = Clients(g)
<1> DEFINE p == <<c, g, o.id>>
           r == MoveAll(g, list, o.id)
<1>1. r = MoveFold!Folded(p, g, list)
  BY Zenon DEF MoveAll, MoveFold!Folded, OpMove, FoldLeft, MapThenFoldSet, MoveFold!MapThenFoldSet, Max, MoveFold!Greatest
<1>2. MovedUpto(p, g, list, 0) BY UptoFacts DEF MovedUpto
<1>3. ASSUME NEW i \in 1..Len(list), NEW acc, MovedUpto(p, acc, list, i - 1)
      PROVE  MovedUpto(p, OpMove(p, acc, list[i]), list, i)
  <2> DEFINE x == list[i]
             t == MovePort(acc, x.id, o.id)
  <2>1. Good(c, acc) /\ Clients(acc) = Clients(g) /\ Elements(list) \ Upto(list, i - 1) \subseteq Ports(acc)
    BY <1>3 DEF MovedUpto
  <2>2. /\ x \in Elements(list) /\ x \notin Upto(list, i - 1)
        /\ Upto(list, i) = Upto(list, i - 1) \cup {x}
    BY UptoFacts
  <2>t. OpMove(p, acc, list[i]) = t BY DEF OpMove
  <2> HIDE DEF x
  <2>3. x \in Ports(acc) /\ o \in Clients(acc) BY <2>1, <2>2
  <2>4. /\ Good(c, t) /\ Clients(t) = Clients(acc)
        /\ Ports(t) = (Ports(acc) \ {x}) \cup {Heir(acc, x, o.id)}
    BY <2>1, <2>3, MovePortKeeps
  <2> HIDE DEF t
  <2>5. Elements(list) \ Upto(list, i) \subseteq Ports(t) BY <2>1, <2>2, <2>4
  <2>6. MovedUpto(p, t, list, i) BY <2>1, <2>4, <2>5 DEF MovedUpto
  <2> QED BY <2>6, <2>t
<1>4. MoveFold!Kept(p, list) BY <1>3 DEF MoveFold!Kept
<1>n. MoveFold!LeastNumbers BY LeastNumber DEF Numbers, MoveFold!LeastNumbers
<1>5. MovedUpto(p, r, list, Len(list)) BY <1>1, <1>2, <1>4, <1>n, MoveFold!FoldKeeps
<1> HIDE DEF r
<1>6. Good(c, r) /\ Clients(r) = Clients(g) BY <1>5 DEF MovedUpto
<1> QED BY <1>6 DEF r

\* Every watcher can follow SplitClient.
LEMMA SplitClientKeeps ==
  ASSUME NEW g, NEW c, Good(c, g), NEW id, NEW moving
  PROVE  Good(c, SplitClient(g, id, moving))
<1> DEFINE x == [id |-> g.nextClient, hidden |-> FALSE, name |-> 0]
           h == AddClient(g, FALSE)
           list == Select(PortsOf(g, id), LAMBDA q : q.id \in moving)
           n == g.nextClient
<1>1. SplitClient(g, id, moving) = MoveAll(h, list, n)
  BY Zenon DEF SplitClient, MoveAll
<1>2. Sound(g) BY DEF Good
<1>3. list \in Seq(PortRecs) /\ IsInjective(list) /\ Elements(list) \subseteq Ports(g)
  <2>1. /\ PortsOf(g, id) \in Seq(PortRecs) /\ IsInjective(PortsOf(g, id))
        /\ Elements(PortsOf(g, id)) = { p \in Ports(g) : p.client = id }
    BY <1>2, PortsOfFacts
  <2> DEFINE S == { q \in Elements(PortsOf(g, id)) : q.id \in moving }
  <2>2. list = Members(PortsOf(g, id), S) BY DEF Select
  <2> HIDE DEF list, S
  <2>3. /\ list \in Seq(PortRecs) /\ IsInjective(list)
        /\ Elements(list) = Elements(PortsOf(g, id)) \cap S
    BY <2>1, <2>2, MembersFacts
  <2> QED BY <2>1, <2>3
<1>4. Good(c, h) /\ Clients(h) = Clients(g) \cup {x} /\ Ports(h) = Ports(g)
  BY AddClientKeeps
<1>5. n = x.id /\ ~x.hidden OBVIOUS
<1> HIDE DEF x, h, list, n
<1>6. x \in Clients(h) /\ Elements(list) \subseteq Ports(h) BY <1>3, <1>4
<1>7. Good(c, MoveAll(h, list, x.id))
  BY <1>3, <1>4, <1>5, <1>6, MovedPorts
<1> QED BY <1>1, <1>5, <1>7

\* Every watcher can follow JoinClients.
LEMMA JoinClientsKeeps ==
  ASSUME NEW g, NEW c, Good(c, g), NEW o \in Clients(g), ~o.hidden, NEW x \in Clients(g)
  PROVE  Good(c, JoinClients(g, o.id, x.id))
<1> DEFINE list == PortsOf(g, x.id)
           h == MoveAll(g, list, o.id)
<1>1. JoinClients(g, o.id, x.id) = RemoveClient(h, x.id) BY Zenon DEF JoinClients, MoveAll
<1>2. Sound(g) BY DEF Good
<1>3. /\ list \in Seq(PortRecs) /\ IsInjective(list)
      /\ Elements(list) = { p \in Ports(g) : p.client = x.id }
  BY <1>2, PortsOfFacts
<1> HIDE DEF list
<1>5. Elements(list) \subseteq Ports(g) BY <1>3
<1>6. Good(c, h) /\ Clients(h) = Clients(g) BY <1>3, <1>5, MovedPorts
<1> HIDE DEF h
<1>7. x \in Clients(h) BY <1>6
<1>8. Good(c, RemoveClient(h, x.id)) BY <1>6, <1>7, RemoveClientKeeps DEF Shrinks
<1> QED BY <1>1, <1>8

-----------------------------------------------------------------------------
(***************************************************************************)
(* The answer of GetGraph shows the graph.                                 *)
(***************************************************************************)

View(g) == [clients |-> VisibleClients(g), ports |-> VisiblePorts(g), conns |-> VisibleConns(g)]

\* What the answer names is what is visible.
LEMMA ViewDomains ==
  ASSUME NEW g, Sound(g)
  PROVE  /\ \A i : i \in DOMAIN VisibleClients(g) <=> \E c \in Clients(g) : c.id = i /\ ~c.hidden
         /\ \A i : i \in DOMAIN VisiblePorts(g) <=> \E p \in Ports(g) : p.id = i /\ ~p.hidden
<1>1. /\ Elements(Visible(g.clients)) = { c \in Clients(g) : ~c.hidden }
      /\ Elements(Visible(g.ports)) = { p \in Ports(g) : ~p.hidden }
  BY SoundTypes, VisibleFacts DEF Sound, Clients, Ports
<1>2. DOMAIN VisibleClients(g) = { c.id : c \in Elements(Visible(g.clients)) } BY DEF VisibleClients, Ids
<1>3. \A i : i \in DOMAIN VisibleClients(g) <=> \E c \in Clients(g) : c.id = i /\ ~c.hidden BY <1>1, <1>2
<1>4. DOMAIN VisiblePorts(g) = { i \in { p.id : p \in Elements(Visible(g.ports)) } : PortById(g, i).client \in DOMAIN VisibleClients(g) }
  BY DEF VisiblePorts, Ids
<1>5. ASSUME NEW p \in Ports(g), ~p.hidden PROVE PortById(g, p.id).client \in DOMAIN VisibleClients(g)
  <2>1. PortById(g, p.id) = p BY PortFound
  <2>2. \E c \in Clients(g) : c.id = p.client /\ (c.hidden => p.hidden) BY DEF Sound, PortsInside
  <2> QED BY <1>3, <1>5, <2>1, <2>2
<1>6. \A i : i \in DOMAIN VisiblePorts(g) <=> \E p \in Ports(g) : p.id = i /\ ~p.hidden
  BY <1>1, <1>4, <1>5
<1> QED BY <1>3, <1>6

\* The answer shows the graph.
LEMMA ViewShows ==
  ASSUME NEW g, Sound(g)
  PROVE  Shows(View(g), g)
<1> DEFINE w == View(g)
           C == VisibleClients(g)
           P == VisiblePorts(g)
<1>1. w.clients = C /\ w.ports = P /\ w.conns = VisibleConns(g) BY DEF View
<1>2. /\ \A i : i \in DOMAIN C <=> \E c \in Clients(g) : c.id = i /\ ~c.hidden
      /\ \A i : i \in DOMAIN P <=> \E p \in Ports(g) : p.id = i /\ ~p.hidden
  BY ViewDomains
<1>3. \A i \in DOMAIN C : C[i] = ClientById(g, i).name BY DEF VisibleClients
<1>4. \A i \in DOMAIN P : P[i] = [client |-> PortById(g, i).client, name |-> PortById(g, i).name]
  BY DEF VisiblePorts
<1>5. IsMap(C) /\ IsMap(P) BY DEF VisibleClients, VisiblePorts, IsMap
<1>6. Shape(w) BY <1>1, <1>5 DEF View, Shape
<1>7. Elements(Visible(g.conns)) = { k \in Conns(g) : ~k.hidden }
  BY SoundTypes, VisibleFacts DEF Sound, Conns
<1>8. ShowsConns(w, Conns(g)) BY <1>1, <1>7 DEF ShowsConns, VisibleConns
<1> HIDE DEF w, C, P
<1>9. \A c \in Clients(g) : ~c.hidden => C[c.id] = c.name BY <1>2, <1>3, ClientFound
<1>10. \A p \in Ports(g) : ~p.hidden => P[p.id] = [client |-> p.client, name |-> p.name]
  BY <1>2, <1>4, PortFound
<1>11. ShowsClients(w, Clients(g)) BY <1>1, <1>2, <1>9 DEF ShowsClients
<1>12. ShowsPorts(w, Ports(g)) BY <1>1, <1>2, <1>10 DEF ShowsPorts
<1>13. Shows(w, g) BY <1>6, <1>8, <1>11, <1>12 DEF Shows
<1> QED BY <1>13 DEF w

\* Two maps with the same domain and the same values are one.
LEMMA SameMap ==
  ASSUME NEW f, NEW h, IsMap(f), IsMap(h), DOMAIN f = DOMAIN h, \A x \in DOMAIN f : f[x] = h[x]
  PROVE  f = h
<1>1. f = [x \in DOMAIN f |-> f[x]] /\ h = [x \in DOMAIN h |-> h[x]] BY DEF IsMap
<1>2. [x \in DOMAIN f |-> f[x]] = [x \in DOMAIN h |-> h[x]] OBVIOUS
<1> QED BY <1>1, <1>2

\* A graph is shown by one view only.
LEMMA OneView ==
  ASSUME NEW g, Sound(g), NEW w, Shows(w, g)
  PROVE  w = View(g)
<1> DEFINE v == View(g)
<1>1. Shows(v, g) BY ViewShows
<1> HIDE DEF v
<1>2. Shape(w) /\ Shape(v) BY <1>1 DEF Shows
<1>3. ShowsClients(w, Clients(g)) /\ ShowsClients(v, Clients(g)) BY <1>1 DEF Shows
<1>4. ShowsPorts(w, Ports(g)) /\ ShowsPorts(v, Ports(g)) BY <1>1 DEF Shows
<1>5. ShowsConns(w, Conns(g)) /\ ShowsConns(v, Conns(g)) BY <1>1 DEF Shows
<1>6. w.clients = v.clients
  <2>1. DOMAIN w.clients = DOMAIN v.clients BY <1>3 DEF ShowsClients
  <2>2. \A i \in DOMAIN w.clients : w.clients[i] = v.clients[i] BY <1>3 DEF ShowsClients
  <2> QED BY <1>2, <2>1, <2>2, SameMap DEF Shape
<1>7. w.ports = v.ports
  <2>1. DOMAIN w.ports = DOMAIN v.ports BY <1>4 DEF ShowsPorts
  <2>2. ASSUME NEW i \in DOMAIN w.ports PROVE w.ports[i] = v.ports[i]
    <3>1. PICK p \in Ports(g) : p.id = i /\ ~p.hidden BY <1>4 DEF ShowsPorts
    <3>2. /\ w.ports[p.id] = [client |-> p.client, name |-> p.name]
          /\ v.ports[p.id] = [client |-> p.client, name |-> p.name]
      BY <1>4, <3>1, Zenon DEF ShowsPorts
    <3> QED BY <3>1, <3>2, Zenon
  <2> QED BY <1>2, <2>1, <2>2, SameMap DEF Shape
<1>8. w.conns = v.conns
  <2>1. \A e : e \in w.conns <=> e \in v.conns BY <1>5 DEF ShowsConns
  <2> QED BY <2>1
<1>9. w = [clients |-> w.clients, ports |-> w.ports, conns |-> w.conns] BY <1>2 DEF Shape
<1>10. v = [clients |-> v.clients, ports |-> v.ports, conns |-> v.conns] BY <1>2 DEF Shape
<1>11. w = v BY <1>6, <1>7, <1>8, <1>9, <1>10, Zenon
<1> QED BY <1>11 DEF v

\* It has no dangling ports or connections.
LEMMA ShownView ==
  ASSUME NEW g, Sound(g), NEW w, Shows(w, g)
  PROVE  GoodView(w)
<1>1. Shape(w) /\ ShowsClients(w, Clients(g)) /\ ShowsPorts(w, Ports(g)) /\ ShowsConns(w, Conns(g)) BY DEF Shows
<1>2. \A p \in DOMAIN w.ports : w.ports[p].client \in DOMAIN w.clients
  <2> SUFFICES ASSUME NEW i \in DOMAIN w.ports PROVE w.ports[i].client \in DOMAIN w.clients OBVIOUS
  <2>1. PICK p \in Ports(g) : p.id = i /\ ~p.hidden BY <1>1 DEF ShowsPorts
  <2>2. w.ports[p.id] = [client |-> p.client, name |-> p.name] BY <1>1, <2>1, Zenon DEF ShowsPorts
  <2>4. w.ports[i].client = p.client BY <2>1, <2>2
  <2>3. \E c \in Clients(g) : c.id = p.client /\ (c.hidden => p.hidden) BY DEF Sound, PortsInside
  <2> QED BY <1>1, <2>1, <2>4, <2>3 DEF ShowsClients
<1>3. \A e \in w.conns : e \subseteq DOMAIN w.ports
  <2> SUFFICES ASSUME NEW e \in w.conns, NEW i \in e PROVE i \in DOMAIN w.ports OBVIOUS
  <2>1. PICK k \in Conns(g) : k.ends = e /\ ~k.hidden BY <1>1 DEF ShowsConns
  <2>2. \E p \in Ports(g) : p.id = i /\ (p.hidden => k.hidden) BY <2>1 DEF Sound, ConnsInside
  <2> QED BY <1>1, <2>1, <2>2 DEF ShowsPorts
<1> QED BY <1>1, <1>2, <1>3 DEF GoodView

-----------------------------------------------------------------------------
IsWatcher(c, b, k, m, whole) == c = [bus |-> b, known |-> k, mirror |-> m, whole |-> whole]

\* The parts of a watcher.
LEMMA WatcherFields ==
  ASSUME NEW c, NEW b, NEW k, NEW m, NEW whole, IsWatcher(c, b, k, m, whole)
  PROVE  c.bus = b /\ c.known = k /\ c.mirror = m /\ c.whole = whole
BY DEF IsWatcher

\* A blank canvas that hears nothing yet is a watcher of any sound graph.
LEMMA BlankGood ==
  ASSUME NEW g, Sound(g), g.sent = << >>, NEW c, IsWatcher(c, << >>, 0, Blank, FALSE)
  PROVE  Good(c, g)
<1> DEFINE w == View(g)
           path == [i \in 0..0 |-> w]
<1>1. c.bus = << >> /\ c.known = 0 /\ c.mirror = Blank /\ c.whole = FALSE BY WatcherFields
<1>2. Shows(w, g) BY ViewShows
<1>3. GoodView(w) BY <1>2, ShownView
<1> HIDE DEF w
<1>4. c.bus \o g.sent = << >> BY <1>1
<1>5. Len(<< >>) = 0 /\ << >> \in Seq(SignalRecs) OBVIOUS
<1>6. path[0] = w OBVIOUS
<1> HIDE DEF path
<1>7. Walk(<< >>, path) BY <1>3, <1>6 DEF Walk
<1>8. Ordered(<< >>, g) BY DEF Ordered
<1>9. Restricts(c.mirror, w, GoneAfter(<< >>, 0, g))
  <2> DEFINE m == Blank
  <2>1. m.clients = << >> /\ m.ports = << >> /\ m.conns = {} BY DEF Blank
  <2>2. DOMAIN << >> = {} OBVIOUS
  <2>3. << >> = [x \in DOMAIN << >> |-> << >>[x]] BY <2>2
  <2>4. Shape(m) BY <2>1, <2>3 DEF Shape, IsMap, Blank
  <2> HIDE DEF m
  <2>5. m.conns = Shown(m.ports, w.conns)
    <3> SUFFICES ASSUME NEW e \in w.conns, e \subseteq DOMAIN m.ports PROVE FALSE BY <2>1 DEF Shown
    <3>1. PICK k \in Conns(g) : k.ends = e BY <1>2 DEF Shows, ShowsConns
    <3>2. PICK a, b \in Nat : k.ends = {a, b} BY <3>1 DEF Sound, ConnsSound
    <3> QED BY <2>1, <2>2, <3>1, <3>2
  <2>6. Restricts(m, w, GoneAfter(<< >>, 0, g)) BY <2>1, <2>2, <2>4, <2>5 DEF Restricts
  <2> QED BY <1>1, <2>6 DEF m
<1>10. At(c, << >>, g, path, 0) BY <1>1, <1>5, <1>6, <1>9 DEF At
<1>11. Trail(c, << >>, g, path, 0) BY <1>7, <1>8, <1>10 DEF Trail
<1>12. c.bus \in Seq(SignalRecs) /\ c.known \in Nat /\ c.known <= g.version
  BY <1>1, <1>5, SoundTypes
<1>13. Tracked(c, g, w) BY <1>4, <1>5, <1>6, <1>11, <1>12 DEF Tracked
<1> QED BY <1>2, <1>13 DEF Good

-----------------------------------------------------------------------------
(***************************************************************************)
(* The watcher hears the first of its signals.                             *)
(***************************************************************************)

\* The views after the first of the signals B.
Later(B, path) == [i \in 0..Len(B)-1 |-> path[i+1]]

\* The first signal is heard.
LEMMA LaterTrail ==
  ASSUME NEW B \in Seq(SignalRecs), B # << >>, NEW g, NEW path, Walk(B, path), Ordered(B, g)
  PROVE  /\ Tail(B) \in Seq(SignalRecs) /\ Len(Tail(B)) = Len(B) - 1
         /\ Walk(Tail(B), Later(B, path)) /\ Ordered(Tail(B), g)
         /\ \A j \in 1..Len(B) : /\ Later(B, path)[j-1] = path[j]
                                 /\ GoneAfter(Tail(B), j-1, g) = GoneAfter(B, j, g)
         /\ \A i \in 1..Len(B)-1 : Tail(B)[i] = B[i+1]
         /\ \A i \in 1..Len(B)-1 : Farewell(B, i+1, g) => Farewell(Tail(B), i, g)
<1> DEFINE D == Tail(B)
           n == Len(B)
           q == Later(B, path)
<1>1. D \in Seq(SignalRecs) /\ Len(D) = n - 1 /\ \A i \in 1..n-1 : D[i] = B[i+1] BY HeadTailProperties
<1>2. n \in Nat /\ n >= 1 BY EmptySeq
<1> HIDE DEF D
<1>3. \A i \in 0..n-1 : q[i] = path[i+1] BY DEF Later
<1> HIDE DEF q, n
<1>4. \A i \in 1..n-1 : i+1 \in 1..n /\ i-1 \in 0..n-1 /\ (i-1)+1 = i /\ (i+1)-1 = i /\ i \in 0..n-1 BY <1>2
<1>5. \A j \in 1..n : j-1 \in 0..n-1 /\ (j-1)+1 = j BY <1>2
<1>6. \A i \in 0..n-1 : i+1 \in 0..n BY <1>2
<1>7. /\ \A i \in 0..n : GoodView(path[i])
      /\ \A i \in 1..n : Legal(path[i-1], B[i]) /\ path[i] = Canvas(path[i-1], B[i])
  BY DEF Walk, n
<1>8. Walk(D, q)
  <2>1. \A i \in 0..n-1 : GoodView(q[i]) BY <1>3, <1>6, <1>7
  <2>2. ASSUME NEW i \in 1..n-1 PROVE Legal(q[i-1], D[i]) /\ q[i] = Canvas(q[i-1], D[i])
    <3>1. q[i-1] = path[i] /\ q[i] = path[i+1] /\ D[i] = B[i+1] BY <1>1, <1>3, <1>4
    <3>2. Legal(path[(i+1)-1], B[i+1]) /\ path[i+1] = Canvas(path[(i+1)-1], B[i+1]) BY <1>4, <1>7
    <3>3. (i+1)-1 = i BY <1>4
    <3> QED BY <3>1, <3>2, <3>3
  <2> QED BY <1>1, <2>1, <2>2 DEF Walk
<1>9. ASSUME NEW j \in 1..n PROVE GoneAfter(D, j-1, g) = GoneAfter(B, j, g)
  <2>1. ASSUME NEW p
        PROVE  (\A k \in ((j-1)+1)..(n-1) : ~(D[k].kind = "PortAppeared" /\ D[k].port = p))
                 <=> (\A k \in (j+1)..n : ~(B[k].kind = "PortAppeared" /\ B[k].port = p))
    <3>1. \A k \in ((j-1)+1)..(n-1) : k+1 \in (j+1)..n /\ D[k] = B[k+1]
      <4>1. \A k \in ((j-1)+1)..(n-1) : k+1 \in (j+1)..n /\ k \in 1..n-1 BY <1>2
      <4> QED BY <1>1, <4>1
    <3>2. \A k \in (j+1)..n : k-1 \in ((j-1)+1)..(n-1) /\ D[k-1] = B[k]
      <4>1. \A k \in (j+1)..n : k-1 \in ((j-1)+1)..(n-1) /\ k-1 \in 1..n-1 /\ (k-1)+1 = k BY <1>2
      <4> QED BY <1>1, <4>1
    <3> QED BY <3>1, <3>2
  <2> QED BY <1>1, <2>1 DEF GoneAfter, n
<1>10. ASSUME NEW i \in 1..n-1, Farewell(B, i+1, g) PROVE Farewell(D, i, g)
  <2>1. D[i] = B[i+1] /\ i + 1 \in 1..n BY <1>1, <1>4
  <2>2. GoneAfter(D, (i+1)-1, g) = GoneAfter(B, i+1, g) BY <1>9, <2>1
  <2>3. (i+1)-1 = i BY <1>4
  <2> QED BY <1>10, <2>1, <2>2, <2>3 DEF Farewell
<1>11. Ordered(D, g)
  <2>1. ASSUME NEW i \in 1..n-1 PROVE D[i].version <= g.version
    BY <1>1, <1>4 DEF Ordered, n
  <2>2. ASSUME NEW i \in 1..n-1, NEW k \in 1..n-1, i < k
        PROVE  D[i].version < D[k].version \/ Farewell(D, k, g)
    <3>1. i + 1 \in 1..n /\ k + 1 \in 1..n /\ i + 1 < k + 1 BY <1>4, <2>2
    <3>2. B[i+1].version < B[k+1].version \/ Farewell(B, k+1, g) BY <3>1 DEF Ordered, n
    <3> QED BY <1>1, <1>10, <3>2
  <2> QED BY <1>1, <2>1, <2>2 DEF Ordered
<1>12. \A j \in 1..n : q[j-1] = path[j] BY <1>3, <1>5
<1> QED BY <1>1, <1>8, <1>9, <1>10, <1>11, <1>12 DEF D, q, n

\* What is left when c has heard the head of the bus, with the canvas m and the version k.
Heard(c, d, k, m) == IsWatcher(d, Tail(c.bus), k, m, c.whole)

\* Whether the first signal is news or not, the watcher can follow the rest, and the canvas can show it.
LEMMA HearKeeps ==
  ASSUME NEW g, NEW c, Good(c, g), g.sent = << >>, c.bus # << >>, NEW s, s = Head(c.bus), NEW d,
         \/ ~(s.version > c.known) /\ Heard(c, d, c.known, c.mirror)
         \/ s.version > c.known /\ Heard(c, d, s.version, Canvas(c.mirror, s))
  PROVE  /\ Good(d, g)
         /\ s.version > c.known => ~Misfits(c.mirror, s)
<1>1. PICK w : Shows(w, g) /\ Tracked(c, g, w) BY DEF Good
<1>2. Sound(g) /\ g.version \in Nat BY SoundTypes DEF Good
<1>3. PICK B \in Seq(SignalRecs) : B = c.bus BY <1>1 DEF Tracked
<1>4. c.bus \o g.sent = B BY <1>3
<1>5. c.known \in Nat /\ c.known <= g.version BY <1>1 DEF Tracked
<1>6. PICK path, j : Trail(c, B, g, path, j) /\ path[Len(B)] = w BY <1>1, <1>4, Zenon DEF Tracked
<1>7. B # << >> BY <1>3
<1> DEFINE D == Tail(B)
           n == Len(B)
           q == Later(B, path)
<1>8. Walk(B, path) /\ Ordered(B, g) /\ At(c, B, g, path, j) BY <1>6 DEF Trail
<1>9. /\ D \in Seq(SignalRecs) /\ Len(D) = n - 1
      /\ Walk(D, q) /\ Ordered(D, g)
      /\ \A i \in 1..n : q[i-1] = path[i] /\ GoneAfter(D, i-1, g) = GoneAfter(B, i, g)
      /\ \A i \in 1..n-1 : D[i] = B[i+1]
      /\ \A i \in 1..n-1 : Farewell(B, i+1, g) => Farewell(D, i, g)
  BY <1>7, <1>8, LaterTrail
<1>10. n \in Nat /\ n >= 1 BY <1>7, EmptySeq
<1>11. s = B[1] /\ s.version \in Nat BY <1>3, <1>10, ElementOfSeq, VersionIsNat
<1>12. q[n-1] = w BY <1>6, <1>9, <1>10
<1> HIDE DEF D, q, n
<1>13. \A i \in 1..n-1 : i+1 \in 1..n BY <1>10
<1>14. d.bus = D /\ d.whole = c.whole BY <1>3, WatcherFields DEF Heard, D
<1>15. ASSUME NEW i \in 0..n-1, d.known \in Nat, d.known <= g.version, At(d, D, g, q, i) PROVE Good(d, g)
  <2>1. Trail(d, D, g, q, i) BY <1>9, <1>15 DEF Trail
  <2>2. d.bus \o g.sent = D BY <1>9, <1>14
  <2>3. d.bus \in Seq(SignalRecs) BY <1>9, <1>14
  <2>4. q[Len(D)] = w BY <1>9, <1>12
  <2>5. Tracked(d, g, w) BY <1>15, <2>1, <2>2, <2>3, <2>4, Zenon DEF Tracked
  <2> QED BY <1>1, <1>2, <2>5 DEF Good
<1>16. /\ j \in 0..n
       /\ \A i \in 1..j : B[i].version <= c.known
       /\ \A i \in (j+1)..n : B[i].version > c.known \/ Farewell(B, i, g)
       /\ Restricts(c.mirror, path[j], GoneAfter(B, j, g))
       /\ c.whole => SameClients(c.mirror, path[j])
  BY <1>8 DEF At, n
<1>17. /\ Legal(path[0], s) /\ path[1] = Canvas(path[0], s) /\ GoodView(path[0])
  <2>1. 1 \in 1..n /\ 0 \in 0..n /\ 1 - 1 = 0 BY <1>10
  <2> QED BY <1>8, <1>11, <2>1 DEF Walk, n
<1>18. GoneAfter(D, 0, g) = GoneAfter(B, 1, g) /\ q[0] = path[1]
  <2>1. 1 \in 1..n /\ 1 - 1 = 0 BY <1>10
  <2> QED BY <1>9, <2>1
<1>19. GoneAfter(B, 0, g) \subseteq GoneAfter(B, 1, g)
  <2>1. \A k \in (1+1)..n : k \in (0+1)..n BY <1>10
  <2> QED BY <2>1 DEF GoneAfter, n
<1>20. CASE s.version > c.known
  <2>1. j = 0
    <3> SUFFICES ASSUME j # 0 PROVE FALSE OBVIOUS
    <3>1. 1 \in 1..j BY <1>16
    <3> QED BY <3>1, <1>16, <1>11, <1>20, <1>5
  <2>2. ~(s.kind = "PortAppeared" /\ s.port \in GoneAfter(B, 0, g))
    <3>1. 1 \in (0+1)..n BY <1>10
    <3> QED BY <3>1, <1>11 DEF GoneAfter, n
  <2>3. Restricts(c.mirror, path[0], GoneAfter(B, 0, g)) BY <1>16, <2>1
  <2>4. /\ Restricts(Canvas(c.mirror, s), path[1], GoneAfter(B, 0, g))
        /\ ~Misfits(c.mirror, s)
        /\ SameClients(c.mirror, path[0]) => SameClients(Canvas(c.mirror, s), path[1])
    BY <1>17, <2>2, <2>3, CanvasHears
  <2>5. d.known = s.version /\ d.mirror = Canvas(c.mirror, s)
    BY <1>20, WatcherFields DEF Heard
  <2>6. s.version <= g.version
    <3>1. 1 \in 1..n BY <1>10
    <3> QED BY <3>1, <1>8, <1>11 DEF Ordered, n
  <2>7. ASSUME NEW i \in 1..n-1 PROVE D[i].version > s.version \/ Farewell(D, i, g)
    <3>1. i + 1 \in 1..n /\ 1 \in 1..n /\ 1 < i + 1 BY <1>10
    <3>2. B[1].version < B[i+1].version \/ Farewell(B, i+1, g) BY <3>1, <1>8 DEF Ordered, n
    <3>3. D[i] = B[i+1] /\ (Farewell(B, i+1, g) => Farewell(D, i, g)) BY <1>9
    <3>4. B[i+1].version \in Nat BY <3>1, ElementOfSeq, VersionIsNat DEF n
    <3> QED BY <3>2, <3>3, <3>4, <1>11
  <2>8. Restricts(d.mirror, q[0], GoneAfter(D, 0, g))
    BY <2>4, <2>5, <1>18, <1>19, RestrictsMore
  <2>9. d.whole => SameClients(d.mirror, q[0]) BY <1>14, <1>16, <1>18, <2>1, <2>4, <2>5
  <2>10. At(d, D, g, q, 0)
    <3>1. 0 \in 0..Len(D) /\ \A i \in 1..0 : D[i].version <= d.known BY <1>9, <1>10
    <3>2. \A i \in (0+1)..Len(D) : D[i].version > d.known \/ Farewell(D, i, g) BY <1>9, <2>5, <2>7
    <3> QED BY <3>1, <3>2, <2>8, <2>9 DEF At
  <2>11. 0 \in 0..n-1 BY <1>10
  <2>12. Good(d, g) BY <1>11, <1>15, <2>5, <2>6, <2>10, <2>11
  <2> QED BY <2>4, <2>12
<1>21. CASE ~(s.version > c.known) /\ j # 0
  <2>1. d.known = c.known /\ d.mirror = c.mirror BY <1>21, WatcherFields DEF Heard
  <2>2. j \in 1..n /\ j - 1 \in 0..n-1 /\ (j-1)+1 = j BY <1>16, <1>21, <1>10
  <2>3. q[j-1] = path[j] /\ GoneAfter(D, j-1, g) = GoneAfter(B, j, g) BY <1>9, <2>2
  <2>4. ASSUME NEW i \in 1..j-1 PROVE D[i].version <= d.known
    <3>1. i \in 1..n-1 /\ i + 1 \in 1..j BY <2>2, <1>10
    <3> QED BY <3>1, <1>9, <1>16, <2>1
  <2>5. ASSUME NEW i \in ((j-1)+1)..(n-1) PROVE D[i].version > d.known \/ Farewell(D, i, g)
    <3>1. i \in 1..n-1 /\ i + 1 \in (j+1)..n BY <2>2, <1>10
    <3> QED BY <3>1, <1>9, <1>16, <2>1
  <2>6. At(d, D, g, q, j-1)
    <3>1. j-1 \in 0..Len(D) BY <1>9, <2>2
    <3>2. Restricts(d.mirror, q[j-1], GoneAfter(D, j-1, g)) BY <1>16, <2>1, <2>3
    <3>3. d.whole => SameClients(d.mirror, q[j-1]) BY <1>14, <1>16, <2>1, <2>3
    <3> QED BY <3>1, <3>2, <3>3, <2>4, <2>5, <1>9 DEF At
  <2>7. Good(d, g) BY <1>5, <1>15, <2>1, <2>2, <2>6
  <2> QED BY <1>21, <2>7
<1>22. CASE ~(s.version > c.known) /\ j = 0
  <2>1. d.known = c.known /\ d.mirror = c.mirror BY <1>22, WatcherFields DEF Heard
  <2>2. Farewell(B, 1, g)
    <3>1. 1 \in (j+1)..n BY <1>10, <1>22
    <3> QED BY <3>1, <1>11, <1>16, <1>22
  <2>3. s.kind = "PortDisappeared" /\ s.port \in GoneAfter(B, 1, g) BY <2>2, <1>11 DEF Farewell
  <2>4. s.port \in GoneAfter(B, 0, g)
    <3>1. \A k \in (0+1)..n : k = 1 \/ k \in (1+1)..n BY <1>10
    <3>2. ~(B[1].kind = "PortAppeared") BY <1>11, <2>3
    <3> QED BY <3>1, <3>2, <2>3 DEF GoneAfter, n
  <2>5. Restricts(c.mirror, path[0], GoneAfter(B, 0, g)) BY <1>16, <1>22
  <2>6. /\ Restricts(c.mirror, path[1], GoneAfter(B, 0, g))
        /\ SameClients(c.mirror, path[0]) => SameClients(c.mirror, path[1])
    BY <1>17, <2>3, <2>4, <2>5, CanvasMisses
  <2>7. ASSUME NEW i \in 1..n-1 PROVE D[i].version > d.known \/ Farewell(D, i, g)
    <3>1. i + 1 \in (j+1)..n BY <1>10, <1>22
    <3> QED BY <3>1, <1>9, <1>16, <2>1
  <2>8. Restricts(d.mirror, q[0], GoneAfter(D, 0, g))
    BY <2>1, <2>6, <1>18, <1>19, RestrictsMore
  <2>9. d.whole => SameClients(d.mirror, q[0]) BY <1>14, <1>16, <1>18, <1>22, <2>1, <2>6
  <2>10. At(d, D, g, q, 0)
    <3>1. 0 \in 0..Len(D) /\ \A i \in 1..0 : D[i].version <= d.known BY <1>9, <1>10
    <3>2. \A i \in (0+1)..Len(D) : D[i].version > d.known \/ Farewell(D, i, g) BY <1>9, <2>7
    <3> QED BY <3>1, <3>2, <2>8, <2>9 DEF At
  <2>11. 0 \in 0..n-1 BY <1>10
  <2>12. Good(d, g) BY <1>5, <1>15, <2>1, <2>10, <2>11
  <2> QED BY <1>22, <2>12
<1> QED BY <1>20, <1>21, <1>22

-----------------------------------------------------------------------------
(***************************************************************************)
(* The daemon sends what an operation emitted, and answers.                *)
(***************************************************************************)

Quieted(h, g) == h = [g EXCEPT !.sent = << >>]

\* Sending the signals leaves the rest of the graph.
LEMMA QuietedFields ==
  ASSUME NEW g, Sound(g), NEW h, Quieted(h, g)
  PROVE  Sound(h) /\ h.sent = << >> /\ h.version = g.version /\ SameObjects(h, g)
<1>1. g \in Graphs BY DEF Sound
<1>e. << >> \in Seq(SignalRecs) OBVIOUS
<1>2. h \in Graphs BY <1>1, <1>e DEF Graphs, Quieted
<1>3. /\ h.sent = << >> /\ h.version = g.version /\ h.nextClient = g.nextClient /\ h.nextPort = g.nextPort
      /\ h.clients = g.clients /\ h.ports = g.ports /\ h.conns = g.conns
  BY <1>1 DEF Graphs, Quieted
<1>4. SameObjects(h, g) BY <1>3 DEF SameObjects, Clients, Ports, Conns
<1>5. Sound(h) BY <1>2, <1>3, <1>4 DEF Sound, SameObjects
<1> QED BY <1>3, <1>4, <1>5

\* The signals of an operation leave for the bus.
LEMMA PublishKeeps ==
  ASSUME NEW g, NEW c, Good(c, g), NEW d, IsWatcher(d, c.bus \o g.sent, c.known, c.mirror, c.whole),
         NEW h, Quieted(h, g)
  PROVE  Good(d, h)
<1>1. PICK w : Shows(w, g) /\ Tracked(c, g, w) BY DEF Good
<1>2. Sound(g) /\ g.version \in Nat /\ g.sent \in Seq(SignalRecs) BY SoundTypes DEF Good
<1>3. /\ d.bus = c.bus \o g.sent /\ d.known = c.known /\ d.mirror = c.mirror /\ d.whole = c.whole
  BY WatcherFields
<1>4. Sound(h) /\ h.sent = << >> /\ h.version = g.version /\ SameObjects(h, g) BY <1>2, QuietedFields
<1>5. c.bus \in Seq(SignalRecs) /\ c.known \in Nat /\ c.known <= g.version BY <1>1 DEF Tracked
<1>6. PICK B \in Seq(SignalRecs) : B = c.bus \o g.sent
  <2>1. PICK a \in Seq(SignalRecs) : a = c.bus BY <1>5
  <2>2. a \o g.sent \in Seq(SignalRecs) BY <1>2, ConcatProperties
  <2> QED BY <2>1, <2>2
<1>7. PICK path, j : Trail(c, B, g, path, j) /\ path[Len(B)] = w BY <1>1, <1>6, Zenon DEF Tracked
<1>8. \A p : Dead(g, p) <=> Dead(h, p)
  <2>1. Ids(g.ports) = Ids(h.ports) BY <1>4 DEF SameObjects, Ports, Ids
  <2> QED BY <2>1, <1>4 DEF Dead, SameObjects
<1>9. \A i : GoneAfter(B, i, g) = GoneAfter(B, i, h) BY <1>8 DEF GoneAfter
<1>10. \A i : Farewell(B, i, g) <=> Farewell(B, i, h) BY <1>9 DEF Farewell
<1>11. Walk(B, path) /\ Ordered(B, g) /\ At(c, B, g, path, j) BY <1>7 DEF Trail
<1>12. Ordered(B, h) BY <1>4, <1>10, <1>11 DEF Ordered
<1>13. At(d, B, h, path, j) BY <1>3, <1>9, <1>10, <1>11 DEF At
<1>14. Trail(d, B, h, path, j) BY <1>11, <1>12, <1>13 DEF Trail
<1>15. d.bus = B BY <1>3, <1>6
<1>16. d.bus \o h.sent = B BY <1>4, <1>15, ConcatEmptySeq
<1>17. d.bus \in Seq(SignalRecs) /\ d.known \in Nat /\ d.known <= h.version BY <1>3, <1>4, <1>5, <1>15
<1>18. Tracked(d, h, w) BY <1>7, <1>14, <1>16, <1>17, Zenon DEF Tracked
<1>19. Shows(w, h) BY <1>1, <1>4 DEF Shows, SameObjects
<1> QED BY <1>4, <1>18, <1>19 DEF Good

\* The answer: what the graph shows, ahead of the signals that are still on the bus.
LEMMA AnswerGood ==
  ASSUME NEW g, NEW c, Good(c, g), NEW d, IsWatcher(d, c.bus, g.version, View(g), TRUE)
  PROVE  Good(d, g)
<1>1. PICK w : Shows(w, g) /\ Tracked(c, g, w) BY DEF Good
<1>2. Sound(g) /\ g.version \in Nat /\ g.sent \in Seq(SignalRecs) BY SoundTypes DEF Good
<1>3. d.bus = c.bus /\ d.known = g.version /\ d.mirror = w /\ d.whole = TRUE
  BY <1>1, <1>2, WatcherFields, OneView
<1>4. c.bus \in Seq(SignalRecs) /\ c.known \in Nat /\ c.known <= g.version BY <1>1 DEF Tracked
<1>5. PICK B \in Seq(SignalRecs) : B = c.bus \o g.sent
  <2>1. PICK a \in Seq(SignalRecs) : a = c.bus BY <1>4
  <2>2. a \o g.sent \in Seq(SignalRecs) BY <1>2, ConcatProperties
  <2> QED BY <2>1, <2>2
<1>6. PICK path, j : Trail(c, B, g, path, j) /\ path[Len(B)] = w BY <1>1, <1>5, Zenon DEF Tracked
<1>7. Walk(B, path) /\ Ordered(B, g) BY <1>6 DEF Trail
<1>8. GoodView(w) BY <1>1, <1>2, ShownView
<1>9. Restricts(w, w, GoneAfter(B, Len(B), g))
  <2>1. w.conns = Shown(w.ports, w.conns) BY <1>8 DEF GoodView, Shown
  <2> QED BY <1>8, <2>1 DEF GoodView, Restricts
<1>10. At(d, B, g, path, Len(B))
  <2>1. Len(B) \in Nat OBVIOUS
  <2>2. Len(B) \in 0..Len(B) /\ \A i \in (Len(B)+1)..Len(B) : FALSE BY <2>1
  <2>3. \A i \in 1..Len(B) : B[i].version <= d.known BY <1>3, <1>7 DEF Ordered
  <2>4. SameClients(w, w) BY DEF SameClients
  <2> QED BY <1>3, <1>6, <1>9, <2>2, <2>3, <2>4 DEF At
<1>11. Trail(d, B, g, path, Len(B)) BY <1>7, <1>10 DEF Trail
<1>12. d.bus \o g.sent = B BY <1>3, <1>5
<1>13. d.bus \in Seq(SignalRecs) /\ d.known \in Nat /\ d.known <= g.version BY <1>2, <1>3, <1>4
<1>14. Tracked(d, g, w) BY <1>6, <1>11, <1>12, <1>13, Zenon DEF Tracked
<1> QED BY <1>1, <1>2, <1>14 DEF Good

\* A canvas that has received the whole graph and heard every signal.
LEMMA InSyncAtLast ==
  ASSUME NEW g, NEW c, Good(c, g), g.sent = << >>, c.bus = << >>, c.whole
  PROVE  LET m == c.mirror IN
         /\ m.clients = VisibleClients(g)
         /\ m.conns = VisibleConns(g)
         /\ \A p \in DOMAIN VisiblePorts(g) : p \in DOMAIN m.ports /\ m.ports[p] = VisiblePorts(g)[p]
         /\ \A p \in DOMAIN m.ports \ DOMAIN VisiblePorts(g) : p \notin Ids(g.ports)
<1> DEFINE m == c.mirror
<1>1. PICK w : Shows(w, g) /\ Tracked(c, g, w) BY DEF Good
<1>2. Sound(g) BY DEF Good
<1>3. w.clients = VisibleClients(g) /\ w.ports = VisiblePorts(g) /\ w.conns = VisibleConns(g)
  BY <1>1, <1>2, OneView DEF View
<1>4. GoodView(w) BY <1>1, <1>2, ShownView
<1>5. PICK B \in Seq(SignalRecs) : B = << >>
  <2>1. << >> \in Seq(SignalRecs) OBVIOUS
  <2> QED BY <2>1
<1>6. c.bus \o g.sent = B BY <1>5
<1>7. PICK path, j : Trail(c, B, g, path, j) /\ path[Len(B)] = w BY <1>1, <1>6, Zenon DEF Tracked
<1>8. Len(B) = 0 BY <1>5
<1>9. j = 0 BY <1>7, <1>8 DEF Trail, At
<1>10. Restricts(m, w, GoneAfter(B, 0, g)) /\ SameClients(m, w) BY <1>7, <1>8, <1>9 DEF Trail, At
<1> HIDE DEF m
<1>11. m.clients = w.clients
  <2>1. IsMap(m.clients) /\ IsMap(w.clients) BY <1>4, <1>10 DEF Restricts, GoodView, Shape
  <2>2. DOMAIN m.clients = DOMAIN w.clients BY <1>10 DEF SameClients
  <2>3. \A x \in DOMAIN m.clients : m.clients[x] = w.clients[x] BY <1>10 DEF Restricts
  <2> QED BY <2>1, <2>2, <2>3, SameMap
<1>12. \A p \in DOMAIN w.ports : p \in DOMAIN m.ports /\ m.ports[p] = w.ports[p]
  BY <1>4, <1>10, <1>11 DEF Restricts, GoodView
<1>13. m.conns = w.conns BY <1>4, <1>10, <1>12 DEF Restricts, GoodView, Shown
<1>14. \A p \in DOMAIN m.ports \ DOMAIN w.ports : p \notin Ids(g.ports)
  BY <1>10 DEF Restricts, GoneAfter, Dead
<1> QED BY <1>3, <1>11, <1>12, <1>13, <1>14 DEF m

\* The canvas shows no dangling ports or connections.
LEMMA MirrorInside ==
  ASSUME NEW g, NEW c, Good(c, g)
  PROVE  /\ \A p \in DOMAIN c.mirror.ports : c.mirror.ports[p].client \in DOMAIN c.mirror.clients
         /\ \A e \in c.mirror.conns : e \subseteq DOMAIN c.mirror.ports
<1>1. PICK w : Tracked(c, g, w) BY DEF Good
<1>2. PICK v, gone : Restricts(c.mirror, v, gone) BY <1>1, Zenon DEF Tracked, Trail, At
<1> QED BY <1>2 DEF Restricts, Shown

-----------------------------------------------------------------------------
\* As many ids as elements.
LEMMA IdsCounted ==
  ASSUME NEW R, NEW list \in Seq(R), IsInjective(list), \A x, y \in Elements(list) : x.id = y.id => x = y
  PROVE  Cardinality(Ids(list)) = Len(list)
<1> DEFINE n == Len(list)
           f == [i \in 1..n |-> list[i].id]
<1>1. n \in Nat /\ DOMAIN list = 1..n OBVIOUS
<1>2. Ids(list) = { list[i].id : i \in 1..n } BY <1>1 DEF Ids, Elements
<1>3. \A i \in 1..n : list[i] \in Elements(list) BY <1>1 DEF Elements
<1>4. \A i, k \in 1..n : list[i] = list[k] => i = k BY <1>1 DEF IsInjective
<1> HIDE DEF n
<1>5. f \in Bijection(1..n, Ids(list))
  <2>1. f \in [1..n -> Ids(list)] BY <1>2
  <2>2. \A i, k \in 1..n : f[i] = f[k] => i = k BY <1>3, <1>4
  <2>3. \A x \in Ids(list) : \E i \in 1..n : f[i] = x BY <1>2
  <2> HIDE DEF f
  <2> QED BY <2>1, <2>2, <2>3 DEF Bijection, Injection, Surjection, IsInjective
<1>6. IsFiniteSet(1..n) /\ Cardinality(1..n) = n BY <1>1, FS_Interval
<1>7. ExistsBijection(1..n, Ids(list)) BY <1>5 DEF ExistsBijection
<1> QED BY <1>6, <1>7, FS_Bijection DEF n

\* Two ends are two.
LEMMA PairCounted ==
  ASSUME NEW a, NEW b, a # b
  PROVE  Cardinality({a, b}) = 2
<1>1. IsFiniteSet({a}) /\ Cardinality({a}) = 1 BY FS_Singleton
<1>2. Cardinality({a} \cup {b}) = 2 BY <1>1, FS_AddElement
<1>3. {a} \cup {b} = {a, b} OBVIOUS
<1> QED BY <1>2, <1>3

-----------------------------------------------------------------------------
(***************************************************************************)
(* The inductive invariant, and the steps of the daemon.                   *)
(***************************************************************************)

\* An operation that every watcher can follow.
Keeps(g, r) == \A c : Good(c, g) => Good(c, r)

Watcher == [bus |-> bus, known |-> known, mirror |-> mirror, whole |-> refreshed]
Received == [clients |-> answer.clients, ports |-> answer.ports,
             conns |-> { e \in answer.conns : e \subseteq DOMAIN answer.ports }]
Answered == [bus |-> bus, known |-> answer.version, mirror |-> Received, whole |-> TRUE]

Quiet == bus = << >> /\ answer.state = "none" /\ known = 0 /\ refreshed = FALSE /\ mirror = Blank

IInv ==
  /\ Good(Watcher, graph) /\ graph.sent = << >>
  /\ persist \in BOOLEAN /\ active \in BOOLEAN /\ refreshed \in BOOLEAN /\ lost = FALSE
  /\ answer.state \in {"none", "asked", "answered"}
  /\ answer.state = "answered" => Good(Answered, graph)
  /\ ~active => Quiet

\* The invariant holds at first.
LEMMA Start == Init => IInv
<1> SUFFICES ASSUME Init PROVE IInv OBVIOUS
<1>1. graph = EmptyGraph /\ persist = TRUE /\ Quiet /\ active = FALSE /\ lost = FALSE
  BY DEF Init, Unseen, Quiet, NoAnswer
<1> DEFINE g == EmptyGraph
<1>2. /\ g.version = 1 /\ g.nextClient = 1 /\ g.nextPort = 1 /\ g.clients = << >> /\ g.ports = << >>
      /\ g.conns = << >> /\ g.sent = << >>
  BY DEF EmptyGraph
<1>3. g \in Graphs
  <2>1. << >> \in Seq(ClientRecs) /\ << >> \in Seq(PortRecs) /\ << >> \in Seq(ConnRecs) /\ << >> \in Seq(SignalRecs)
    OBVIOUS
  <2> QED BY <2>1 DEF EmptyGraph, Graphs
<1> HIDE DEF g
<1>4. Clients(g) = {} /\ Ports(g) = {} /\ Conns(g) = {}
  <2>1. DOMAIN << >> = {} OBVIOUS
  <2>2. Elements(<< >>) = {} BY <2>1 DEF Elements
  <2> QED BY <1>2, <2>2 DEF Clients, Ports, Conns
<1>5. IsInjective(<< >>) BY DEF IsInjective
<1>6. Sound(g)
  BY <1>2, <1>3, <1>4, <1>5 DEF Sound, ClientsSound, PortsSound, ConnsSound, PortsInside, ConnsInside
<1>7. IsWatcher(Watcher, << >>, 0, Blank, FALSE) BY <1>1 DEF Watcher, IsWatcher, Quiet
<1>8. Good(Watcher, g) BY <1>2, <1>6, <1>7, BlankGood
<1>9. answer.state = "none" BY <1>1 DEF Quiet, NoAnswer
<1> QED BY <1>1, <1>2, <1>8, <1>9 DEF IInv, g, Quiet

\* An operation that every watcher can follow keeps the invariant.
LEMMA PublishStep ==
  ASSUME IInv, NEW r, Keeps(graph, r), Publish(r)
  PROVE  IInv'
<1>1. Good(Watcher, graph) /\ graph.sent = << >> BY DEF IInv
<1>2. Good(Watcher, r) BY <1>1 DEF Keeps
<1>3. Sound(r) BY <1>2 DEF Good
<1>4. /\ Quieted(graph', r) /\ bus' = (IF active THEN bus \o r.sent ELSE bus)
      /\ persist' = persist /\ active' = active /\ answer' = answer /\ known' = known
      /\ refreshed' = refreshed /\ mirror' = mirror /\ lost' = lost
  BY DEF Publish, Quieted, proxyVars
<1>5. Sound(graph') /\ graph'.sent = << >> BY <1>3, <1>4, QuietedFields
<1>6. CASE active
  <2>1. bus' = bus \o r.sent BY <1>4, <1>6
  <2>2. Watcher.bus = bus /\ Watcher.known = known /\ Watcher.mirror = mirror /\ Watcher.whole = refreshed
    BY DEF Watcher
  <2>3. IsWatcher(Watcher', Watcher.bus \o r.sent, Watcher.known, Watcher.mirror, Watcher.whole)
    BY <1>4, <2>1, <2>2 DEF Watcher, IsWatcher
  <2>4. Good(Watcher', graph') BY <1>2, <1>4, <2>3, PublishKeeps
  <2>5. ASSUME answer'.state = "answered" PROVE Good(Answered', graph')
    <3>1. Good(Answered, r) BY <1>4, <2>5 DEF IInv, Keeps
    <3>2. Answered.bus = bus /\ Answered.known = answer.version /\ Answered.mirror = Received /\ Answered.whole = TRUE
      BY DEF Answered
    <3>3. Received' = Received BY <1>4 DEF Received
    <3>4. Answered' = [bus |-> bus', known |-> answer'.version, mirror |-> Received', whole |-> TRUE]
      BY DEF Answered
    <3>5. IsWatcher(Answered', Answered.bus \o r.sent, Answered.known, Answered.mirror, Answered.whole)
      BY <1>4, <2>1, <3>2, <3>3, <3>4 DEF IsWatcher
    <3> QED BY <1>4, <3>1, <3>5, PublishKeeps
  <2> QED BY <1>4, <1>5, <1>6, <2>4, <2>5 DEF IInv
<1>7. CASE ~active
  <2>1. Quiet /\ Quiet' BY <1>4, <1>7 DEF IInv, Quiet
  <2>2. IsWatcher(Watcher', << >>, 0, Blank, FALSE) BY <2>1 DEF Watcher, IsWatcher, Quiet
  <2>3. Good(Watcher', graph') BY <1>5, <2>2, BlankGood
  <2>4. answer.state = "none" BY <2>1 DEF Quiet, NoAnswer
  <2> QED BY <1>4, <1>5, <2>1, <2>3, <2>4 DEF IInv
<1> QED BY <1>6, <1>7

-----------------------------------------------------------------------------

\* The graph is sound, and its objects are found by their ids.
LEMMA GraphSound ==
  ASSUME IInv
  PROVE  /\ Sound(graph)
         /\ Ids(graph.clients) = { x.id : x \in Clients(graph) }
         /\ Ids(graph.ports) = { x.id : x \in Ports(graph) }
         /\ \A x \in Clients(graph) : ClientById(graph, x.id) = x
         /\ \A x \in Ports(graph) : PortById(graph, x.id) = x /\ (VisiblePort(x.id) <=> ~x.hidden)
<1>1. Sound(graph) BY DEF IInv, Good
<1>2. Ids(graph.clients) = { x.id : x \in Clients(graph) } BY DEF Ids, Clients
<1>3. Ids(graph.ports) = { x.id : x \in Ports(graph) } BY DEF Ids, Ports
<1>4. \A x \in Clients(graph) : ClientById(graph, x.id) = x BY <1>1, ClientFound
<1>5. \A x \in Ports(graph) : PortById(graph, x.id) = x BY <1>1, PortFound
<1>6. \A x \in Ports(graph) : VisiblePort(x.id) <=> ~x.hidden BY <1>5 DEF VisiblePort
<1> QED BY <1>1, <1>2, <1>3, <1>4, <1>5, <1>6

\* ClientIsAdded keeps the invariant.
LEMMA ClientIsAddedStep == ASSUME IInv, ClientIsAdded PROVE IInv'
<1>1. PICK hidden \in BOOLEAN : Publish(AddClient(graph, hidden)) BY DEF ClientIsAdded
<1>2. Keeps(graph, AddClient(graph, hidden)) BY AddClientKeeps DEF Keeps
<1> QED BY <1>1, <1>2, PublishStep

\* PortIsAdded keeps the invariant.
LEMMA PortIsAddedStep == ASSUME IInv, PortIsAdded PROVE IInv'
<1>1. PICK i \in Ids(graph.clients), hidden \in BOOLEAN : Publish(AddPort(graph, i, hidden)) BY DEF PortIsAdded
<1>2. PICK o \in Clients(graph) : o.id = i BY GraphSound
<1>3. Keeps(graph, AddPort(graph, i, hidden)) BY <1>2, AddPortKeeps DEF Keeps
<1> QED BY <1>1, <1>3, PublishStep

\* PortReturns keeps the invariant.
LEMMA PortReturnsStep == ASSUME IInv, PortReturns PROVE IInv'
<1>1. PICK i \in Ids(graph.ports) : ~VisiblePort(i) /\ Publish(ShowPort(graph, i)) BY DEF PortReturns
<1>2. PICK x \in Ports(graph) : x.id = i BY GraphSound
<1>3. x.hidden BY <1>1, <1>2, GraphSound
<1>4. Keeps(graph, ShowPort(graph, i)) BY <1>2, <1>3, ShowPortKeeps DEF Keeps
<1> QED BY <1>1, <1>4, PublishStep

\* The client of a port that disappeared looks empty: it disappears as well.
LEMMA PortDisappearsStep == ASSUME IInv, PortDisappears PROVE IInv'
<1>1. PICK i \in Ids(graph.ports) :
        LET o == PortById(graph, i).client
            g == IF persist THEN HidePort(graph, i) ELSE RemovePort(graph, i)
        IN  /\ VisiblePort(i)
            /\ \/ LooksEmpty(g, o) /\ persist /\ ~ClientById(g, o).hidden /\ Publish(HideClient(g, o))
               \/ Publish(g)
               \/ ~persist /\ Publish(RemoveClient(g, o))
  BY DEF PortDisappears
<1>2. PICK x \in Ports(graph) : x.id = i BY GraphSound
<1>3. ~x.hidden /\ PortById(graph, i) = x BY <1>1, <1>2, GraphSound
<1>4. Sound(graph) BY GraphSound
<1>5. PICK o \in Clients(graph) : o.id = x.client BY <1>4 DEF Sound, PortsInside
<1>6. CASE persist
  <2> DEFINE g == HidePort(graph, i)
  <2>1. ASSUME NEW c, Good(c, graph) PROVE Good(c, g) /\ Clients(g) = Clients(graph)
    BY <1>2, <1>3, <2>1, HidePortKeeps
  <2>2. \/ LooksEmpty(g, x.client) /\ ~ClientById(g, x.client).hidden /\ Publish(HideClient(g, x.client))
        \/ Publish(g)
    BY <1>1, <1>3, <1>6
  <2> HIDE DEF g
  <2>3. CASE Publish(g)
    <3>1. Keeps(graph, g) BY <2>1 DEF Keeps
    <3> QED BY <2>3, <3>1, PublishStep
  <2>4. CASE LooksEmpty(g, x.client) /\ ~ClientById(g, x.client).hidden /\ Publish(HideClient(g, x.client))
    <3>1. ASSUME NEW c, Good(c, graph) PROVE Good(c, HideClient(g, o.id))
      <4>1. Good(c, g) /\ Sound(g) /\ o \in Clients(g) BY <2>1, <3>1 DEF Good
      <4>2. ~o.hidden BY <4>1, <2>4, <1>5, ClientFound
      <4>3. Elements(PortsOf(g, o.id)) = { p \in Ports(g) : p.client = o.id } BY <4>1, PortsOfFacts
      <4>4. \A p \in Ports(g) : p.client = o.id => p.hidden BY <4>3, <2>4, <1>5 DEF LooksEmpty
      <4> QED BY <4>1, <4>2, <4>4, HideClientKeeps DEF Becomes
    <3>2. Keeps(graph, HideClient(g, o.id)) BY <3>1 DEF Keeps
    <3>3. Publish(HideClient(g, o.id)) BY <1>5, <2>4
    <3> QED BY <3>2, <3>3, PublishStep
  <2> QED BY <2>2, <2>3, <2>4
<1>7. CASE ~persist
  <2> DEFINE g == RemovePort(graph, i)
  <2>1. ASSUME NEW c, Good(c, graph) PROVE Good(c, g) /\ Clients(g) = Clients(graph)
    BY <1>2, <2>1, RemovePortKeeps DEF Becomes
  <2>2. Publish(RemoveClient(g, x.client)) \/ Publish(g)
    BY <1>1, <1>3, <1>7
  <2> HIDE DEF g
  <2>3. CASE Publish(g)
    <3>1. Keeps(graph, g) BY <2>1 DEF Keeps
    <3> QED BY <2>3, <3>1, PublishStep
  <2>4. CASE Publish(RemoveClient(g, x.client))
    <3>1. ASSUME NEW c, Good(c, graph) PROVE Good(c, RemoveClient(g, o.id))
      <4>1. Good(c, g) /\ o \in Clients(g) BY <2>1, <3>1
      <4> QED BY <4>1, RemoveClientKeeps DEF Shrinks
    <3>2. Keeps(graph, RemoveClient(g, o.id)) BY <3>1 DEF Keeps
    <3>3. Publish(RemoveClient(g, o.id)) BY <1>5, <2>4
    <3> QED BY <3>2, <3>3, PublishStep
  <2> QED BY <2>2, <2>3, <2>4
<1> QED BY <1>6, <1>7

\* Two ports of the graph, by their ids.
LEMMA PairFound ==
  ASSUME IInv, NEW i \in Ids(graph.ports), NEW k \in Ids(graph.ports), i < k
  PROVE  /\ \E x, y \in Ports(graph) : x.id = i /\ y.id = k
         /\ i \in Nat /\ k \in Nat /\ i # k
<1>1. PICK x, y \in Ports(graph) : x.id = i /\ y.id = k BY GraphSound
<1>2. x \in PortRecs /\ y \in PortRecs BY GraphSound, SoundTypes
<1>3. i \in Nat /\ k \in Nat BY <1>1, <1>2 DEF PortRecs
<1> QED BY <1>1, <1>3

\* JACK connects two ports.
LEMMA PortsConnectStep == ASSUME IInv, PortsConnect PROVE IInv'
<1>1. PICK i \in Ids(graph.ports), k \in Ids(graph.ports) :
        /\ i < k /\ VisiblePort(i) /\ VisiblePort(k)
        /\ \/ Joined(i, k) = {} /\ Publish(AddConnection(graph, {i, k}, FALSE))
           \/ \E z \in Joined(i, k) : z.hidden /\ Publish(ShowConnection(graph, z))
  BY DEF PortsConnect
<1>2. PICK x, y \in Ports(graph) : x.id = i /\ y.id = k BY <1>1, PairFound
<1>3. i \in Nat /\ k \in Nat /\ i # k BY <1>1, PairFound
<1>4. ~x.hidden /\ ~y.hidden BY <1>1, <1>2, GraphSound
<1>5. CASE Joined(i, k) = {} /\ Publish(AddConnection(graph, {i, k}, FALSE))
  <2> DEFINE ends == {i, k}
  <2>1. \A z \in Conns(graph) : z.ends # ends BY <1>5 DEF Joined, Conns
  <2>2. \A e \in ends : \E p \in Ports(graph) : p.id = e /\ (p.hidden => FALSE) BY <1>2, <1>4
  <2>3. ends = {i, k} OBVIOUS
  <2>4. Publish(AddConnection(graph, ends, FALSE)) BY <1>5
  <2> HIDE DEF ends
  <2>5. Keeps(graph, AddConnection(graph, ends, FALSE)) BY <1>3, <2>1, <2>2, <2>3, AddConnectionKeeps DEF Keeps
  <2> QED BY <2>4, <2>5, PublishStep
<1>6. CASE \E z \in Joined(i, k) : z.hidden /\ Publish(ShowConnection(graph, z))
  <2>1. PICK z \in Joined(i, k) : z.hidden /\ Publish(ShowConnection(graph, z)) BY <1>6
  <2>2. z \in Conns(graph) /\ z.ends = {i, k} BY DEF Joined, Conns
  <2>3. \A p, q \in Ports(graph) : p.id = q.id => p = q BY GraphSound DEF Sound, PortsSound
  <2>4. \A p \in Ports(graph) : p.id \in z.ends => ~p.hidden BY <1>2, <1>4, <2>2, <2>3
  <2>5. Keeps(graph, ShowConnection(graph, z)) BY <2>1, <2>2, <2>4, ShowConnectionKeeps DEF Keeps
  <2> QED BY <2>1, <2>5, PublishStep
<1> QED BY <1>1, <1>5, <1>6

\* ConnectionIsLoaded keeps the invariant.
LEMMA ConnectionIsLoadedStep == ASSUME IInv, ConnectionIsLoaded PROVE IInv'
<1>1. PICK i \in Ids(graph.ports), k \in Ids(graph.ports) :
        i < k /\ Joined(i, k) = {} /\ Publish(AddConnection(graph, {i, k}, TRUE))
  BY DEF ConnectionIsLoaded
<1>2. PICK x, y \in Ports(graph) : x.id = i /\ y.id = k BY <1>1, PairFound
<1>3. i \in Nat /\ k \in Nat /\ i # k BY <1>1, PairFound
<1> DEFINE ends == {i, k}
<1>4. \A z \in Conns(graph) : z.ends # ends BY <1>1 DEF Joined, Conns
<1>5. \A e \in ends : \E p \in Ports(graph) : p.id = e /\ (p.hidden => TRUE) BY <1>2
<1>6. ends = {i, k} OBVIOUS
<1>7. Publish(AddConnection(graph, ends, TRUE)) BY <1>1
<1> HIDE DEF ends
<1>8. Keeps(graph, AddConnection(graph, ends, TRUE)) BY <1>3, <1>4, <1>5, <1>6, AddConnectionKeeps DEF Keeps
<1> QED BY <1>7, <1>8, PublishStep

\* PortsDisconnect keeps the invariant.
LEMMA PortsDisconnectStep == ASSUME IInv, PortsDisconnect PROVE IInv'
<1>1. PICK z \in Elements(Visible(graph.conns)) :
        Publish(DropConnection(graph, z)) \/ Publish(HideConnection(graph, z))
  BY DEF PortsDisconnect
<1>2. Elements(Visible(graph.conns)) = { k \in Conns(graph) : ~k.hidden }
  BY GraphSound, SoundTypes, VisibleFacts DEF Sound, Conns
<1>3. z \in Conns(graph) /\ ~z.hidden BY <1>2
<1>4. Keeps(graph, DropConnection(graph, z)) BY <1>3, DropConnectionKeeps DEF Keeps, Becomes
<1>5. Keeps(graph, HideConnection(graph, z)) BY <1>3, HideConnectionKeeps DEF Keeps, Becomes
<1> QED BY <1>1, <1>4, <1>5, PublishStep

\* ClientIsRenamed keeps the invariant.
LEMMA ClientIsRenamedStep == ASSUME IInv, ClientIsRenamed PROVE IInv'
<1>1. PICK i \in Ids(graph.clients) : Publish(RenameClient(graph, i)) BY DEF ClientIsRenamed
<1>2. PICK x \in Clients(graph) : x.id = i BY GraphSound
<1>3. Keeps(graph, RenameClient(graph, i)) BY <1>2, RenameClientKeeps DEF Keeps
<1> QED BY <1>1, <1>3, PublishStep

\* PortIsRenamed keeps the invariant.
LEMMA PortIsRenamedStep == ASSUME IInv, PortIsRenamed PROVE IInv'
<1>1. PICK i \in Ids(graph.ports) : Publish(RenamePort(graph, i)) BY DEF PortIsRenamed
<1>2. PICK x \in Ports(graph) : x.id = i BY GraphSound
<1>3. Keeps(graph, RenamePort(graph, i)) BY <1>2, RenamePortKeeps DEF Keeps
<1> QED BY <1>1, <1>3, PublishStep

\* ClientIsSplit keeps the invariant.
LEMMA ClientIsSplitStep == ASSUME IInv, ClientIsSplit PROVE IInv'
<1>1. PICK i, moving : Publish(SplitClient(graph, i, moving)) BY DEF ClientIsSplit
<1>2. Keeps(graph, SplitClient(graph, i, moving)) BY SplitClientKeeps DEF Keeps
<1> QED BY <1>1, <1>2, PublishStep

\* Only here and in the next one it matters that no id is stale.
LEMMA ClientsAreJoinedStep == ASSUME IInv, StaleIds = FALSE, ClientsAreJoined PROVE IInv'
<1>1. PICK i \in Ids(graph.clients), k \in Ids(graph.clients) :
        ~ClientById(graph, i).hidden /\ Publish(JoinClients(graph, i, k))
  BY DEF ClientsAreJoined
<1>2. PICK o \in Clients(graph), x \in Clients(graph) : o.id = i /\ x.id = k BY GraphSound
<1>3. ~o.hidden BY <1>1, <1>2, GraphSound
<1>4. Keeps(graph, JoinClients(graph, i, k)) BY <1>2, <1>3, JoinClientsKeeps DEF Keeps
<1> QED BY <1>1, <1>4, PublishStep

\* PortIsMoved keeps the invariant.
LEMMA PortIsMovedStep == ASSUME IInv, StaleIds = FALSE, PortIsMoved PROVE IInv'
<1>1. PICK i \in Ids(graph.ports), k \in Ids(graph.clients) :
        ~ClientById(graph, k).hidden /\ Publish(MovePort(graph, i, k))
  BY DEF PortIsMoved
<1>2. PICK x \in Ports(graph), o \in Clients(graph) : x.id = i /\ o.id = k BY GraphSound
<1>3. ~o.hidden BY <1>1, <1>2, GraphSound
<1>4. Keeps(graph, MovePort(graph, i, k)) BY <1>2, <1>3, MovePortKeeps DEF Keeps
<1> QED BY <1>1, <1>4, PublishStep

\* AppIsRemoved keeps the invariant.
LEMMA AppIsRemovedStep == ASSUME IInv, AppIsRemoved PROVE IInv'
<1>1. PICK i \in Ids(graph.clients) : Publish(RemoveClient(graph, i)) BY DEF AppIsRemoved
<1>2. PICK x \in Clients(graph) : x.id = i BY GraphSound
<1>3. Keeps(graph, RemoveClient(graph, i)) BY <1>2, RemoveClientKeeps DEF Keeps, Shrinks
<1> QED BY <1>1, <1>3, PublishStep

\* The operations on the whole graph.
LEMMA WholeGraphStep ==
  ASSUME IInv, JackIsGone \/ ProjectIsLoaded \/ ProjectIsUnloaded \/ GraphIsCleared
  PROVE  IInv'
<1>1. CASE JackIsGone
  <2>1. PICK jack : Publish(HideNonVirtual(graph, jack)) BY <1>1 DEF JackIsGone
  <2>2. Keeps(graph, HideNonVirtual(graph, jack)) BY HideNonVirtualKeeps DEF Keeps
  <2> QED BY <2>1, <2>2, PublishStep
<1>2. CASE ProjectIsLoaded
  <2>1. Keeps(graph, TrickDicts(graph)) BY TrickDictsKeeps DEF Keeps
  <2> QED BY <1>2, <2>1, PublishStep DEF ProjectIsLoaded
<1>3. CASE ProjectIsUnloaded
  <2>1. Keeps(graph, RemoveHiddenObjects(graph)) BY RemoveHiddenObjectsKeeps DEF Keeps
  <2> QED BY <1>3, <2>1, PublishStep DEF ProjectIsUnloaded
<1>4. CASE GraphIsCleared
  <2>1. Keeps(graph, Clear(graph)) BY ClearKeeps DEF Keeps
  <2> QED BY <1>4, <2>1, PublishStep DEF GraphIsCleared
<1> QED BY <1>1, <1>2, <1>3, <1>4

-----------------------------------------------------------------------------
(***************************************************************************)
(* The steps of the proxy.                                                 *)
(***************************************************************************)

\* Steps that leave the graph, the bus and what the canvas shows alone.
LEMMA ElsewhereStep ==
  ASSUME IInv, UNCHANGED <<graph, bus, known, refreshed, mirror, lost>>,
         persist' \in BOOLEAN, active' \in BOOLEAN, answer'.state \in {"none", "asked"},
         ~active' => ~active /\ answer' = answer
  PROVE  IInv'
<1>1. Watcher' = Watcher /\ graph' = graph BY DEF Watcher
<1>2. Good(Watcher', graph') BY <1>1 DEF IInv
<1>3. ~active' => Quiet' BY DEF IInv, Quiet
<1> QED BY <1>2, <1>3 DEF IInv

\* PersistIsCleared keeps the invariant.
LEMMA PersistIsClearedStep == ASSUME IInv, PersistIsCleared PROVE IInv'
<1>1. Watcher' = Watcher /\ Answered' = Answered /\ graph' = graph /\ (Quiet => Quiet')
  BY DEF PersistIsCleared, proxyVars, Watcher, Answered, Received, Quiet
<1>2. Good(Watcher', graph') BY <1>1 DEF IInv
<1>3. answer'.state = "answered" => Good(Answered', graph')
  BY <1>1 DEF IInv, PersistIsCleared, proxyVars
<1> QED BY <1>1, <1>2, <1>3 DEF IInv, PersistIsCleared, proxyVars

\* GetGraph keeps the invariant.
LEMMA GetGraphStep == ASSUME IInv, GetGraph PROVE IInv'
<1>1. /\ UNCHANGED <<graph, persist, bus, active, known, refreshed, mirror, lost>>
      /\ answer.state = "asked"
      /\ answer' = [ state |-> "answered", version |-> graph.version,
                     clients |-> VisibleClients(graph), ports |-> VisiblePorts(graph),
                     conns |-> VisibleConns(graph) ]
  BY DEF GetGraph, daemonVars
<1>2. /\ answer'.state = "answered" /\ answer'.version = graph.version
      /\ answer'.clients = VisibleClients(graph) /\ answer'.ports = VisiblePorts(graph)
      /\ answer'.conns = VisibleConns(graph)
  BY <1>1
<1>3. active BY <1>1 DEF IInv, Quiet, NoAnswer
<1>4. Watcher' = Watcher BY <1>1 DEF Watcher
<1>5. Good(Watcher, graph) /\ Sound(graph) BY DEF IInv, Good
<1> DEFINE v == View(graph)
<1>6. GoodView(v) BY <1>5, ViewShows, ShownView
<1>7. v = [clients |-> VisibleClients(graph), ports |-> VisiblePorts(graph), conns |-> VisibleConns(graph)]
  BY DEF View
<1>8. v.clients = VisibleClients(graph) /\ v.ports = VisiblePorts(graph) /\ v.conns = VisibleConns(graph) BY <1>7
<1> HIDE DEF v
<1>9. { e \in v.conns : e \subseteq DOMAIN v.ports } = v.conns BY <1>6 DEF GoodView
<1>10. Received' = v BY <1>2, <1>7, <1>8, <1>9 DEF Received
<1>11. Watcher.bus = bus BY DEF Watcher
<1>12. Answered' = [bus |-> bus, known |-> graph.version, mirror |-> v, whole |-> TRUE]
  BY <1>1, <1>2, <1>10 DEF Answered
<1>13. IsWatcher(Answered', Watcher.bus, graph.version, View(graph), TRUE)
  BY <1>11, <1>12 DEF IsWatcher, v
<1>14. Good(Answered', graph) BY <1>5, <1>13, AnswerGood
<1>15. Good(Watcher', graph') /\ Good(Answered', graph') BY <1>1, <1>4, <1>5, <1>14
<1> QED BY <1>1, <1>2, <1>3, <1>15 DEF IInv

\* Activate keeps the invariant.
LEMMA ActivateStep == ASSUME IInv, Activate PROVE IInv'
<1>1. answer'.state = "asked" BY DEF Activate
<1>2. UNCHANGED <<graph, bus, known, refreshed, mirror, lost>> /\ persist' = persist /\ active' = TRUE
  BY DEF Activate, daemonVars
<1> QED BY <1>1, <1>2, ElsewhereStep DEF IInv

\* RefreshFails keeps the invariant.
LEMMA RefreshFailsStep == ASSUME IInv, RefreshFails PROVE IInv'
<1>1. answer'.state = "none" BY DEF RefreshFails, NoAnswer
<1>2. /\ UNCHANGED <<graph, bus, known, refreshed, mirror, lost>> /\ persist' = persist /\ active' = active
      /\ answer.state # "none"
  BY DEF RefreshFails, daemonVars
<1>3. active BY <1>2 DEF IInv, Quiet, NoAnswer
<1> QED BY <1>1, <1>2, <1>3, ElsewhereStep DEF IInv

\* Refresh keeps the invariant.
LEMMA RefreshStep == ASSUME IInv, Refresh PROVE IInv'
<1>1. /\ UNCHANGED <<graph, persist, bus, active, lost>>
      /\ answer.state = "answered" /\ answer' = NoAnswer
      /\ known' = answer.version /\ mirror' = Received /\ refreshed' = TRUE
  BY DEF Refresh, daemonVars, Received
<1>2. Watcher' = Answered BY <1>1 DEF Watcher, Answered
<1>3. Good(Watcher', graph') BY <1>1, <1>2 DEF IInv
<1>4. answer'.state = "none" BY <1>1 DEF NoAnswer
<1>5. active' BY <1>1 DEF IInv, Quiet, NoAnswer
<1> QED BY <1>1, <1>3, <1>4, <1>5 DEF IInv

\* Hear keeps the invariant.
LEMMA HearStep == ASSUME IInv, Hear PROVE IInv'
<1> DEFINE s == Head(bus)
           c == Watcher
<1>1. /\ UNCHANGED <<graph, persist, active, answer, refreshed>>
      /\ bus # << >> /\ answer.state = "none" /\ bus' = Tail(bus)
      /\ \/ ~IsNews(s) /\ UNCHANGED <<known, mirror, lost>>
         \/ /\ IsNews(s) /\ known' = s.version /\ mirror' = Canvas(mirror, s)
            /\ lost' = (lost \/ Misfits(mirror, s))
  BY DEF Hear, daemonVars
<1>2. c.bus = bus /\ c.known = known /\ c.mirror = mirror /\ c.whole = refreshed BY DEF Watcher
<1>3. Good(c, graph) /\ graph.sent = << >> BY DEF IInv
<1>4. Watcher' = [bus |-> Tail(bus), known |-> known', mirror |-> mirror', whole |-> refreshed]
  BY <1>1 DEF Watcher
<1>5. active BY <1>1 DEF IInv, Quiet
<1>6. PICK t : t = s OBVIOUS
<1> HIDE DEF s, c
<1>7. t = Head(c.bus) /\ c.bus # << >> BY <1>1, <1>2, <1>6 DEF s
<1>8. CASE ~(t.version > known)
  <2>1. known' = known /\ mirror' = mirror /\ lost' = lost BY <1>1, <1>6, <1>8 DEF IsNews
  <2>2. Heard(c, Watcher', c.known, c.mirror) BY <1>2, <1>4, <2>1 DEF Heard, IsWatcher
  <2>3. Good(Watcher', graph) BY <1>2, <1>3, <1>7, <1>8, <2>2, HearKeeps
  <2> QED BY <1>1, <1>5, <2>1, <2>3 DEF IInv
<1>9. CASE t.version > known
  <2>1. known' = t.version /\ mirror' = Canvas(mirror, t) /\ lost' = (lost \/ Misfits(mirror, t))
    BY <1>1, <1>6, <1>9 DEF IsNews
  <2>2. Heard(c, Watcher', t.version, Canvas(c.mirror, t)) BY <1>2, <1>4, <2>1 DEF Heard, IsWatcher
  <2>3. Good(Watcher', graph) /\ ~Misfits(c.mirror, t) BY <1>2, <1>3, <1>7, <1>9, <2>2, HearKeeps
  <2>4. lost' = FALSE BY <1>2, <2>1, <2>3 DEF IInv
  <2> QED BY <1>1, <1>5, <2>3, <2>4 DEF IInv
<1> QED BY <1>8, <1>9

\* Close keeps the invariant.
LEMMA CloseStep == ASSUME IInv, Close PROVE IInv'
<1>1. /\ UNCHANGED <<graph, persist, answer, lost>> /\ answer.state = "none"
      /\ active' = FALSE /\ bus' = << >> /\ known' = 0 /\ refreshed' = FALSE /\ mirror' = Blank
  BY DEF Close, daemonVars
<1>2. Sound(graph) /\ graph.sent = << >> BY GraphSound DEF IInv
<1>3. IsWatcher(Watcher', << >>, 0, Blank, FALSE) BY <1>1 DEF Watcher, IsWatcher
<1>4. Good(Watcher', graph) BY <1>2, <1>3, BlankGood
<1> QED BY <1>1, <1>4 DEF IInv, Quiet

-----------------------------------------------------------------------------
(***************************************************************************)
(* The theorems.                                                           *)
(***************************************************************************)

\* Every step keeps the invariant.
LEMMA Step == ASSUME IInv, StaleIds = FALSE, [Next]_vars PROVE IInv'
<1>1. CASE ClientIsAdded \/ PortIsAdded \/ PortReturns \/ PortDisappears
  BY <1>1, ClientIsAddedStep, PortIsAddedStep, PortReturnsStep, PortDisappearsStep
<1>2. CASE PortsConnect \/ ConnectionIsLoaded \/ PortsDisconnect \/ ClientIsRenamed \/ PortIsRenamed
  BY <1>2, PortsConnectStep, ConnectionIsLoadedStep, PortsDisconnectStep, ClientIsRenamedStep, PortIsRenamedStep
<1>3. CASE ClientIsSplit \/ ClientsAreJoined \/ PortIsMoved \/ AppIsRemoved
  BY <1>3, ClientIsSplitStep, ClientsAreJoinedStep, PortIsMovedStep, AppIsRemovedStep
<1>4. CASE JackIsGone \/ ProjectIsLoaded \/ ProjectIsUnloaded \/ GraphIsCleared
  BY <1>4, WholeGraphStep
<1>5. CASE PersistIsCleared BY <1>5, PersistIsClearedStep
<1>6. CASE GetGraph \/ Activate \/ Refresh \/ RefreshFails \/ Hear \/ Close
  BY <1>6, GetGraphStep, ActivateStep, RefreshStep, RefreshFailsStep, HearStep, CloseStep
<1>7. CASE UNCHANGED vars
  <2>1. Watcher' = Watcher /\ Answered' = Answered /\ graph' = graph /\ (Quiet => Quiet')
    BY <1>7 DEF vars, Watcher, Answered, Received, Quiet
  <2>2. Good(Watcher', graph') BY <2>1 DEF IInv
  <2>3. answer'.state = "answered" => Good(Answered', graph') BY <1>7, <2>1 DEF IInv, vars
  <2> QED BY <1>7, <2>1, <2>2, <2>3 DEF IInv, vars
<1> QED BY <1>1, <1>2, <1>3, <1>4, <1>5, <1>6, <1>7 DEF Next, Daemon, Proxy

-----------------------------------------------------------------------------

\* The invariant gives the types.
LEMMA Typed == ASSUME IInv PROVE WellFormed
<1> DEFINE g == graph
<1>1. Sound(g) /\ g.sent = << >> BY GraphSound DEF IInv
<1>2. /\ g.version \in Nat \ {0} /\ g.nextClient \in Nat /\ g.nextPort \in Nat
      /\ g.clients \in Seq(ClientRecs) /\ g.ports \in Seq(PortRecs)
      /\ Clients(g) \in SUBSET ClientRecs /\ Ports(g) \in SUBSET PortRecs
  BY <1>1, SoundTypes DEF Sound
<1>3. Ids(g.clients) = { x.id : x \in Clients(g) } /\ Ids(g.ports) = { x.id : x \in Ports(g) } BY GraphSound
<1> HIDE DEF g
<1>4. \A x \in Clients(g) : x.id < g.nextClient /\ x.hidden \in BOOLEAN
  BY <1>1, <1>2 DEF Sound, ClientsSound, ClientRecs
<1>5. \A x \in Ports(g) : x.id < g.nextPort /\ x.client \in Ids(g.clients)
  BY <1>1, <1>3 DEF Sound, PortsSound, PortsInside
<1>6. ASSUME NEW k \in Conns(g) PROVE k.ends \subseteq Ids(g.ports) /\ Cardinality(k.ends) = 2
  <2>1. PICK a, b \in Nat : a # b /\ k.ends = {a, b} BY <1>1 DEF Sound, ConnsSound
  <2>4. Cardinality({a, b}) = 2 BY <2>1, PairCounted
  <2>2. Cardinality(k.ends) = 2 BY <2>1, <2>4
  <2>3. \A e \in k.ends : \E p \in Ports(g) : p.id = e BY <1>1 DEF Sound, ConnsInside
  <2> QED BY <1>3, <2>2, <2>3
<1>7. Cardinality(Ids(g.clients)) = Len(g.clients)
  BY <1>1, <1>2, IdsCounted DEF Sound, ClientsSound, Clients
<1>8. Cardinality(Ids(g.ports)) = Len(g.ports)
  BY <1>1, <1>2, IdsCounted DEF Sound, PortsSound, Ports
<1>9. Good(Watcher, g) /\ Watcher.known = known /\ Watcher.mirror = mirror BY DEF IInv, Watcher, g
<1>10. known \in Nat BY <1>9 DEF Good, Tracked
<1>11. /\ \A p \in DOMAIN mirror.ports : mirror.ports[p].client \in DOMAIN mirror.clients
       /\ \A e \in mirror.conns : e \subseteq DOMAIN mirror.ports
  <2> DEFINE c == Watcher
  <2>1. Good(c, g) /\ c.mirror = mirror BY <1>9
  <2> HIDE DEF c
  <2> QED BY <2>1, MirrorInside
<1>12. /\ persist \in BOOLEAN /\ active \in BOOLEAN /\ refreshed \in BOOLEAN /\ lost \in BOOLEAN
       /\ answer.state \in {"none", "asked", "answered"}
  BY DEF IInv
<1> QED BY <1>1, <1>2, <1>4, <1>5, <1>6, <1>7, <1>8, <1>10, <1>11, <1>12 DEF WellFormed, Clients, Ports, Conns, g

\* What is visible is in something visible.
LEMMA Inside == ASSUME IInv PROVE VisibleInside
<1>1. Sound(graph) /\ WellFormed BY GraphSound, Typed
<1>2. /\ Elements(Visible(graph.ports)) = { p \in Ports(graph) : ~p.hidden }
      /\ Elements(Visible(graph.conns)) = { k \in Conns(graph) : ~k.hidden }
  BY <1>1, SoundTypes, VisibleFacts DEF Sound, Ports, Conns
<1>3. ASSUME NEW p \in Ports(graph), ~p.hidden PROVE ~ClientById(graph, p.client).hidden
  <2>1. PICK o \in Clients(graph) : o.id = p.client /\ (o.hidden => p.hidden) BY <1>1 DEF Sound, PortsInside
  <2>2. ClientById(graph, o.id) = o BY GraphSound
  <2> QED BY <1>3, <2>1, <2>2
<1>4. ASSUME NEW k \in Conns(graph), ~k.hidden, NEW e \in k.ends PROVE VisiblePort(e)
  <2>1. PICK p \in Ports(graph) : p.id = e /\ (p.hidden => k.hidden) BY <1>1 DEF Sound, ConnsInside
  <2> QED BY <1>4, <2>1, GraphSound
<1> QED BY <1>1, <1>2, <1>3, <1>4 DEF VisibleInside

\* With everything heard the canvas shows the graph.
LEMMA Synced == ASSUME IInv PROVE CanvasInSync
<1> SUFFICES ASSUME active, refreshed, bus = << >> PROVE InSync BY DEF CanvasInSync
<1> DEFINE c == Watcher
<1>1. Good(c, graph) /\ graph.sent = << >> BY DEF IInv
<1>2. c.bus = << >> /\ c.whole /\ c.mirror = mirror BY DEF Watcher
<1> HIDE DEF c
<1> QED BY <1>1, <1>2, InSyncAtLast DEF InSync

-----------------------------------------------------------------------------
\* The inductive invariant.
THEOREM Invariance == ASSUME StaleIds = FALSE PROVE Spec => []IInv
<1>1. IInv /\ [Next]_vars => IInv' BY Step
<1> QED BY Start, <1>1, PTL DEF Spec

\* A port is in a client and a connection between ports that are there, and visible in something visible, after every operation.
THEOREM VisibleInsideHolds == ASSUME StaleIds = FALSE PROVE Spec => []VisibleInside
<1>1. IInv => VisibleInside BY Inside
<1> QED BY Invariance, <1>1, PTL

\* A canvas that received the graph and has heard everything shows the graph, but for removed ports that it may still show.
THEOREM CanvasInSyncHolds == ASSUME StaleIds = FALSE PROVE Spec => []CanvasInSync
<1>1. IInv => CanvasInSync BY Synced
<1> QED BY Invariance, <1>1, PTL

\* The canvas is never told of what it shows already, nor that a port it does not show disappeared from a client it shows.
THEOREM CanvasFollowsHolds == ASSUME StaleIds = FALSE PROVE Spec => []CanvasFollows
<1>1. IInv => CanvasFollows BY DEF IInv, CanvasFollows
<1> QED BY Invariance, <1>1, PTL
=============================================================================
