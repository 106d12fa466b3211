-------------------------- MODULE DocumentsProofs --------------------------
(***************************************************************************)
(* Proofs about Documents for any clients, connections, strings and number *)
(* of operations.                                                          *)
(*                                                                         *)
(* A file is written from what is in memory and read into it, so that the  *)
(* invariant speaks of both.  In memory the two halves of a client go      *)
(* together (Halves): what is in the user's graph is in JACK's, has the    *)
(* app's name there as well, and knows the app in both when it has one.    *)
(* In a file each element has what it refers to (Complete), and the file   *)
(* says what there was to keep (Says).  A project that could not be read   *)
(* leaves clients in JACK's graph only; the next project that is read      *)
(* takes them for its own, and they have the names it expects (Leftovers). *)
(***************************************************************************)
EXTENDS Documents, TLAPS

Plain == {-2, -1, 0}   \* the names in memory
Coded == {-2, -1, 1}   \* the names in files

App == [there : BOOLEAN, running : BOOLEAN, autorun : BOOLEAN, name : Plain, command : Int]
Client == [jack : BOOLEAN, virt : BOOLEAN, jackPort : BOOLEAN, virtPort : BOOLEAN, shown : BOOLEAN,
           jackName : Plain, virtName : Plain, jackApp : BOOLEAN, virtApp : BOOLEAN,
           portApp : BOOLEAN, graph : {"none"} \cup Graphs, dict : Int]

TypeOK ==
  /\ studio \in [loaded : BOOLEAN, started : BOOLEAN]
  /\ room \in [there : BOOLEAN, name : Int, project : BOOLEAN, text : Int]
  /\ apps \in [Apps -> App]
  /\ clients \in [Clients -> Client]
  /\ link \in [shown : BOOLEAN, dict : Int]
  /\ dicts \in [Graphs -> Int]
  /\ conf \in Int
  /\ files = [g \in Graphs |-> files[g]]
  /\ kept = [g \in Graphs |-> kept[g]]

\* The two halves of a client, and its app a.
Paired(i, c, a) ==
  /\ c.virt => c.jack
  /\ c.virtPort => c.virt /\ c.jackPort
  /\ c.shown => c.virt /\ c.jackPort /\ c.graph = Graph(i)
  /\ c.portApp => c.virtApp
  /\ c.virtApp => c.jackApp
  /\ c.jackApp => c.virt /\ i \in Apps /\ c.graph = Graph(i)
  /\ c.graph \in {"none", Graph(i)}
  /\ i \in Apps /\ c.virt => c.virtApp /\ a.there /\ c.jackName = a.name /\ c.virtName = a.name
  /\ i \in Apps /\ c.virtPort => c.portApp

Halves == \A i \in Clients : Paired(i, clients[i], apps[i])

\* What there is only in a room or a studio that is there.
Belong ==
  /\ link.shown => room.there
  /\ room.there => studio.loaded
  /\ \A i \in Apps : /\ apps[i].running \/ apps[i].autorun => apps[i].there
                     /\ ~studio.loaded => ~apps[i].there
  /\ studio.started => studio.loaded

\* Every element of a file has what it refers to.
Complete(g, d) ==
  /\ d.text \in Int /\ d.dict \in Int
  /\ d.room.there \in BOOLEAN /\ d.room.name \in Int /\ d.room.dict \in Int
  /\ DOMAIN d.jack \subseteq Of(g)
  /\ \A i \in DOMAIN d.jack : d.jack[i].name \in Coded /\ d.jack[i].port \in BOOLEAN
  /\ DOMAIN d.graph.clients \subseteq DOMAIN d.jack
  /\ \A i \in DOMAIN d.graph.clients :
       LET c == d.graph.clients[i] IN
       /\ c.name \in Coded /\ c.dict \in Int
       /\ c.app \in BOOLEAN /\ (c.app <=> i \in Apps)
       /\ c.port \in BOOLEAN
       /\ c.port => d.jack[i].port
       /\ i \in Apps => /\ i \in DOMAIN d.graph.apps
                        /\ d.jack[i].name = d.graph.apps[i].name /\ c.name = d.graph.apps[i].name
  /\ DOMAIN d.graph.apps \subseteq Apps \cap Of(g)
  /\ \A i \in DOMAIN d.graph.apps :
       LET a == d.graph.apps[i] IN
       a.name \in Coded /\ a.command \in Int \ {0} /\ a.autorun \in BOOLEAN
  /\ d.graph.wires \subseteq WiresOf(g)
  /\ WiresFound(d, d.graph.link)
  /\ g = "studio" => (d.graph.link => d.room.there)
  /\ g = "room" => Legal(d.text)

\* The file d says what k has.
Says(g, d, k) ==
  /\ DOMAIN k.apps = DOMAIN d.graph.apps
  /\ \A i \in DOMAIN k.apps :
       LET a == d.graph.apps[i] IN k.apps[i] = <<Unescape(a.name), Unescape(a.command), a.autorun>>
  /\ \A i \in DOMAIN k.ports :
       /\ PortRead(d, i)
       /\ k.ports[i] = <<Unescape(d.graph.clients[i].name), d.graph.clients[i].dict>>
  /\ k.wires = d.graph.wires
  /\ k.dict = d.dict
  /\ g = "studio" => k.text = d.text /\ k.room = d.room.name
  /\ g = "room" => k.text = Unescape(d.text)

Written == \A g \in Graphs : files[g].there => Complete(g, files[g]) /\ Says(g, files[g], kept[g])

\* What a project that could not be read has left.
LeftOf(d) ==
  \A i \in Of("room") :
    d.there /\ i \in DOMAIN d.graph.clients /\ clients[i].jack /\ ~clients[i].virt
      => clients[i].jackName = Unescape(d.jack[i].name)
Leftovers == LeftOf(files["room"])

Memory == TypeOK /\ Halves /\ Belong /\ Leftovers
IInv == Memory /\ Written

-----------------------------------------------------------------------------
(* Strings. *)

\* A name survives being coded either way, and the two ways agree on it.
LEMMA NamesCoded ==
  ASSUME NEW t \in Plain
  PROVE  /\ EscapeAttr(t) \in Coded /\ Unescape(EscapeAttr(t)) = t
         /\ EscapeAll(t) = EscapeAttr(t)
BY DEF Plain, Coded, EscapeAttr, EscapeAll, Unescape

\* Every string survives being coded with all flags, and is XML then.
LEMMA StringsCoded ==
  ASSUME NEW t \in Int
  PROVE  EscapeAll(t) \in Int \ {0} /\ Unescape(EscapeAll(t)) = t
BY DEF EscapeAll, Unescape

\* What is read of a coded string is a string again.
LEMMA StringsRead ==
  /\ \A t \in Int : Unescape(t) \in Int
  /\ \A t \in Coded : Unescape(t) \in Plain
  /\ Coded \subseteq Int /\ Plain \subseteq Int
BY DEF Unescape, Coded, Plain

\* Coded names are told apart by what they are coded from.
LEMMA CodedLegal == \A t \in Coded : t # 0
BY DEF Coded

\* The graph of the studio is not that of the room, and no graph is "none".
LEMMA GraphsDiffer == "studio" # "room" /\ "none" \notin Graphs /\ "studio" \in Graphs /\ "room" \in Graphs
BY DEF Graphs

\* A client is in one graph, and the apps of the room are clients of the room.
LEMMA OfGraphs ==
  /\ \A i : Graph(i) \in Graphs
  /\ Of("room") \subseteq RoomApps /\ RoomApps \subseteq Of("room") \cap Apps
  /\ \A g : Of(g) \subseteq Clients
  /\ Apps \subseteq Clients
BY GraphsDiffer DEF Of, Graph, Clients, Apps, Graphs

-----------------------------------------------------------------------------
(* Records. *)

\* What stands for nothing has the type of what it stands in for.
LEMMA NoneTyped == NoClient \in Client /\ NoApp \in App /\ None \in Plain /\ None \in Int
<1>1. None \in Plain /\ None \in Int
  BY DEF None, Plain
<1>2. NoApp \in App
  BY <1>1 DEF NoApp, App
<1> QED
  BY <1>1, <1>2 DEF NoClient, Client

\* A client that is not there is paired.
LEMMA NoClientPaired ==
  ASSUME NEW i, NEW a PROVE Paired(i, NoClient, a)
BY DEF Paired, NoClient

\* Linking a client with its app, field by field.
Matches(g, i, c, a) ==
  /\ i \in Apps \cap Of(g) /\ a.there
  /\ c.jack /\ c.graph \in {"none", g} /\ ~c.jackApp
  /\ a.name = c.jackName
  /\ c.virt /\ c.virtName = c.jackName

Linked(g, i, c, a) ==
  IF Matches(g, i, c, a) THEN [c EXCEPT !.jackApp = TRUE, !.virtApp = TRUE, !.graph = g] ELSE c

WithPort(g, i, c) == IF i \in Of(g) /\ c.virtApp /\ c.virtPort THEN [c EXCEPT !.portApp = TRUE] ELSE c

\* Interlinking treats each client for itself.
LEMMA InterlinkEach ==
  ASSUME NEW g \in Graphs, NEW cs, NEW as, NEW i \in Clients
  PROVE  Interlink(g, cs, as)[i] = WithPort(g, i, Linked(g, i, cs[i], as[i]))
BY DEF Interlink, InterlinkPorts, InterlinkClients, WithPort, Linked, Matches

\* So it gives clients when it does of each.
LEMMA InterlinkTyped ==
  ASSUME NEW g \in Graphs, NEW cs, NEW as, \A i \in Clients : WithPort(g, i, Linked(g, i, cs[i], as[i])) \in Client
  PROVE  Interlink(g, cs, as) \in [Clients -> Client]
<1> DEFINE x == Interlink(g, cs, as)
<1>1. x = [i \in Clients |-> x[i]]
  BY DEF Interlink, InterlinkPorts
<1>2. ASSUME NEW i \in Clients PROVE x[i] \in Client
  <2>1. x[i] = WithPort(g, i, Linked(g, i, cs[i], as[i]))
    BY InterlinkEach
  <2> QED
    BY <2>1
<1> HIDE DEF x
<1>3. x \in [Clients -> Client]
  BY <1>1, <1>2
<1> QED
  BY <1>3 DEF x

\* Interlinking a client sets what ties it to its app and nothing else.
LEMMA LinkedFields ==
  ASSUME NEW g \in Graphs, NEW i, NEW c \in Client, NEW a
  PROVE  LET x == Linked(g, i, c, a) IN
         /\ x \in Client
         /\ x.jack = c.jack /\ x.virt = c.virt /\ x.jackPort = c.jackPort /\ x.virtPort = c.virtPort
         /\ x.shown = c.shown /\ x.jackName = c.jackName /\ x.virtName = c.virtName
         /\ x.portApp = c.portApp /\ x.dict = c.dict
         /\ Matches(g, i, c, a) => x.jackApp /\ x.virtApp /\ x.graph = g
         /\ ~Matches(g, i, c, a) => x = c
BY DEF Linked, Client

\* Interlinking a port sets its app and nothing else.
LEMMA WithPortFields ==
  ASSUME NEW g \in Graphs, NEW i, NEW c \in Client
  PROVE  LET x == WithPort(g, i, c) IN
         /\ x \in Client
         /\ x.jack = c.jack /\ x.virt = c.virt /\ x.jackPort = c.jackPort /\ x.virtPort = c.virtPort
         /\ x.shown = c.shown /\ x.jackName = c.jackName /\ x.virtName = c.virtName
         /\ x.jackApp = c.jackApp /\ x.virtApp = c.virtApp /\ x.graph = c.graph /\ x.dict = c.dict
         /\ i \in Of(g) /\ c.virtApp /\ c.virtPort => x.portApp
         /\ ~(i \in Of(g) /\ c.virtApp /\ c.virtPort) => x = c
BY DEF WithPort, Client

-----------------------------------------------------------------------------
(* Reading. *)

\* A client when both halves of a file have been read: hidden, and without its app.
Unlinked(g, i, c, a) ==
  /\ c \in Client
  /\ c.virt => c.jack
  /\ c.virtPort => c.virt /\ c.jackPort
  /\ ~c.shown /\ ~c.jackApp /\ ~c.portApp
  /\ c.virtApp => c.virt /\ i \in Apps
  /\ c.graph \in {"none", g}
  /\ i \in Apps /\ c.virt => a.there /\ c.jackName = a.name /\ c.virtName = a.name

\* Linking makes such a client a pair.
LEMMA LinkingPairs ==
  ASSUME NEW g \in Graphs, NEW i \in Of(g), NEW c, NEW a, Unlinked(g, i, c, a)
  PROVE  LET x == WithPort(g, i, Linked(g, i, c, a)) IN
         /\ x \in Client /\ Paired(i, x, a)
         /\ x.jack = c.jack /\ x.virt = c.virt /\ x.virtPort = c.virtPort
         /\ x.virtName = c.virtName /\ x.jackName = c.jackName /\ x.dict = c.dict
<1> DEFINE y == Linked(g, i, c, a)
           x == WithPort(g, i, y)
<1>1. c \in Client
  BY DEF Unlinked
<1>2. /\ y \in Client
      /\ y.jack = c.jack /\ y.virt = c.virt /\ y.jackPort = c.jackPort /\ y.virtPort = c.virtPort
      /\ y.shown = c.shown /\ y.jackName = c.jackName /\ y.virtName = c.virtName
      /\ y.portApp = c.portApp /\ y.dict = c.dict
      /\ Matches(g, i, c, a) => y.jackApp /\ y.virtApp /\ y.graph = g
      /\ ~Matches(g, i, c, a) => y = c
  BY <1>1, LinkedFields
<1> HIDE DEF y
<1>3. /\ x \in Client
      /\ x.jack = y.jack /\ x.virt = y.virt /\ x.jackPort = y.jackPort /\ x.virtPort = y.virtPort
      /\ x.shown = y.shown /\ x.jackName = y.jackName /\ x.virtName = y.virtName
      /\ x.jackApp = y.jackApp /\ x.virtApp = y.virtApp /\ x.graph = y.graph /\ x.dict = y.dict
      /\ i \in Of(g) /\ y.virtApp /\ y.virtPort => x.portApp
      /\ ~(i \in Of(g) /\ y.virtApp /\ y.virtPort) => x = y
  BY <1>2, WithPortFields
<1> HIDE DEF x
<1>4. Graph(i) = g
  BY DEF Of
<1>5. i \in Apps /\ c.virt => Matches(g, i, c, a)
  BY DEF Unlinked, Matches
<1>6. Matches(g, i, c, a) => i \in Apps /\ c.virt /\ c.jack
  BY DEF Matches
<1>7. Paired(i, x, a)
  BY <1>2, <1>3, <1>4, <1>5, <1>6 DEF Unlinked, Paired
<1> QED
  BY <1>2, <1>3, <1>7 DEF x, y

\* The second half of a client, on top of the first.
Reread(d, i, c, app) ==
  IF i \notin DOMAIN d.graph.clients THEN c
  ELSE [c EXCEPT !.virt = TRUE, !.virtName = Unescape(d.graph.clients[i].name), !.virtApp = app,
                 !.virtPort = PortRead(d, i),
                 !.dict = IF PortRead(d, i) THEN d.graph.clients[i].dict ELSE @]

\* Reading the virtual graph treats each client for itself.
LEMMA ReadVirtEach ==
  ASSUME NEW d, NEW cs, NEW app, NEW i \in Clients
  PROVE  ReadVirt(d, cs, app)[i] = Reread(d, i, cs[i], app[i])
BY DEF ReadVirt, Reread

\* What the reader makes of a client whose element is complete.
LEMMA RereadFields ==
  ASSUME NEW g \in Graphs, NEW d, Complete(g, d), NEW i \in DOMAIN d.graph.clients,
         NEW c \in Client, NEW app \in BOOLEAN
  PROVE  LET x == Reread(d, i, c, app) IN
         /\ x \in Client
         /\ (x.jack <=> c.jack) /\ (x.jackPort <=> c.jackPort) /\ (x.shown <=> c.shown) /\ x.jackName = c.jackName
         /\ (x.jackApp <=> c.jackApp) /\ (x.portApp <=> c.portApp) /\ x.graph = c.graph
         /\ x.virt /\ x.virtName = Unescape(d.graph.clients[i].name) /\ (x.virtApp => app)
         /\ (x.virtPort <=> d.graph.clients[i].port)
         /\ d.graph.clients[i].port => x.dict = d.graph.clients[i].dict
<1> DEFINE e == d.graph.clients[i]
<1>1. e.name \in Coded /\ e.dict \in Int /\ e.port \in BOOLEAN
  BY DEF Complete
<1>2. Unescape(e.name) \in Plain
  BY <1>1, StringsRead
<1>3. PortRead(d, i) = e.port
  BY <1>1 DEF PortRead
<1> DEFINE n == Unescape(e.name)
           t == e.dict
           p == e.port
<1>4. Reread(d, i, c, app) = [c EXCEPT !.virt = TRUE, !.virtName = n, !.virtApp = app, !.virtPort = p,
                                       !.dict = IF p THEN t ELSE @]
  BY <1>3 DEF Reread
<1>5. n \in Plain /\ t \in Int /\ p \in BOOLEAN
  BY <1>1, <1>2
<1> HIDE DEF n, t, p
<1>6. LET x == [c EXCEPT !.virt = TRUE, !.virtName = n, !.virtApp = app, !.virtPort = p,
                          !.dict = IF p THEN t ELSE @]
      IN /\ x \in Client
         /\ (x.jack <=> c.jack) /\ (x.jackPort <=> c.jackPort) /\ (x.shown <=> c.shown) /\ x.jackName = c.jackName
         /\ (x.jackApp <=> c.jackApp) /\ (x.portApp <=> c.portApp) /\ x.graph = c.graph
         /\ x.virt /\ x.virtName = n /\ (x.virtApp => app)
         /\ (x.virtPort <=> p)
         /\ p => x.dict = t
  BY <1>5 DEF Client
<1> QED
  BY <1>4, <1>6 DEF n, t, p

\* The first half, from the file of a studio.
LEMMA StudioJackEach ==
  ASSUME NEW g \in Graphs, NEW d, Complete(g, d), NEW i \in Clients
  PROVE  LET x == StudioJack(d)[i] IN
         /\ x \in Client
         /\ i \notin DOMAIN d.jack => x = NoClient
         /\ i \in DOMAIN d.jack =>
              /\ x.jack /\ x.jackName = Unescape(d.jack[i].name) /\ (x.jackPort <=> d.jack[i].port)
              /\ ~x.virt /\ ~x.virtPort /\ ~x.shown /\ ~x.jackApp /\ ~x.virtApp /\ ~x.portApp
              /\ x.graph = "none"
<1>1. CASE i \notin DOMAIN d.jack
  BY <1>1, NoneTyped DEF StudioJack
<1>2. CASE i \in DOMAIN d.jack
  <2> DEFINE n == Unescape(d.jack[i].name)
             p == d.jack[i].port
  <2>1. n \in Plain /\ p \in BOOLEAN
    BY <1>2, StringsRead DEF Complete
  <2>2. StudioJack(d)[i] = [NoClient EXCEPT !.jack = TRUE, !.jackName = n, !.jackPort = p]
    BY <1>2 DEF StudioJack
  <2> HIDE DEF n, p
  <2>3. LET x == [NoClient EXCEPT !.jack = TRUE, !.jackName = n, !.jackPort = p] IN
        /\ x \in Client
        /\ x.jack /\ x.jackName = n /\ (x.jackPort <=> p)
        /\ ~x.virt /\ ~x.virtPort /\ ~x.shown /\ ~x.jackApp /\ ~x.virtApp /\ ~x.portApp
        /\ x.graph = "none"
    <3>1. /\ NoClient \in Client
          /\ ~NoClient.virt /\ ~NoClient.virtPort /\ ~NoClient.shown /\ ~NoClient.jackApp
          /\ ~NoClient.virtApp /\ ~NoClient.portApp /\ NoClient.graph = "none"
      BY NoneTyped DEF NoClient
    <3> QED
      BY <2>1, <3>1 DEF Client
  <2> QED
    BY <1>2, <2>2, <2>3 DEF n, p
<1> QED
  BY <1>1, <1>2

\* The app of a client that has none does not matter.
LEMMA PairedAny ==
  ASSUME NEW i, NEW c, NEW a, NEW b, Paired(i, c, a), i \in Apps => a = b
  PROVE  Paired(i, c, b)
BY DEF Paired

\* The apps of a file.
LEMMA ReadAppsFields ==
  ASSUME NEW g \in Graphs, NEW d, Complete(g, d), NEW as, NEW i \in DOMAIN d.graph.apps
  PROVE  LET a == ReadApps(d, as)[i] IN
         /\ a \in App
         /\ a.there /\ ~a.running /\ (a.autorun <=> d.graph.apps[i].autorun)
         /\ a.name = Unescape(d.graph.apps[i].name) /\ a.command = Unescape(d.graph.apps[i].command)
<1> DEFINE r == [there |-> TRUE, running |-> FALSE, autorun |-> d.graph.apps[i].autorun,
                 name |-> Unescape(d.graph.apps[i].name), command |-> Unescape(d.graph.apps[i].command)]
<1>1. i \in Apps
  BY DEF Complete
<1>2. ReadApps(d, as)[i] = r
  BY <1>1 DEF ReadApps
<1>3. d.graph.apps[i].name \in Coded /\ d.graph.apps[i].command \in Int /\ d.graph.apps[i].autorun \in BOOLEAN
  BY DEF Complete
<1>4. Unescape(d.graph.apps[i].name) \in Plain /\ Unescape(d.graph.apps[i].command) \in Int
  BY <1>3, StringsRead
<1> QED
  BY <1>2, <1>3, <1>4 DEF App

\* Reading the apps changes those that have an element, and gives apps.
LEMMA ReadAppsTyped ==
  ASSUME NEW g \in Graphs, NEW d, Complete(g, d), NEW as \in [Apps -> App]
  PROVE  /\ ReadApps(d, as) \in [Apps -> App]
         /\ \A i \in Apps \ DOMAIN d.graph.apps : ReadApps(d, as)[i] = as[i]
<1> DEFINE f == ReadApps(d, as)
<1>1. f = [i \in Apps |-> f[i]]
  BY DEF ReadApps
<1>2. ASSUME NEW i \in Apps \ DOMAIN d.graph.apps
      PROVE  f[i] = as[i]
  BY DEF ReadApps
<1>3. \A i \in Apps : f[i] \in App
  BY <1>2, ReadAppsFields
<1> HIDE DEF f
<1>4. f \in [Apps -> App]
  BY <1>1, <1>3
<1> QED
  BY <1>2, <1>4 DEF f

\* No client is in both graphs.
LEMMA OfDisjoint ==
  ASSUME NEW g \in Graphs, NEW h \in Graphs, NEW i \in Of(g), i \in Of(h)
  PROVE  g = h
BY DEF Of

FirstHalf(g, d, i, c, app) ==
  /\ c.jack /\ ~c.shown /\ ~c.jackApp /\ ~c.portApp /\ c.graph \in {"none", g}
  /\ d.jack[i].port => c.jackPort
  /\ i \in Apps => c.jackName = Unescape(d.jack[i].name)
  /\ app => i \in Apps

\* A client as reading left it is there, under the name and with the settings of the file.
SecondHalf(g, d, i, x, a) ==
  /\ Unlinked(g, i, x, a)
  /\ x.virt /\ (x.virtPort <=> d.graph.clients[i].port) /\ x.virtName = Unescape(d.graph.clients[i].name)
  /\ d.graph.clients[i].port => x.dict = d.graph.clients[i].dict

\* What is in a file's second half, on top of a first half c that has its name, can be linked.
LEMMA RereadUnlinked ==
  ASSUME NEW g \in Graphs, NEW d, Complete(g, d), NEW as \in [Apps -> App],
         NEW i \in DOMAIN d.graph.clients, NEW c \in Client, NEW app \in BOOLEAN,
         FirstHalf(g, d, i, c, app)
  PROVE  SecondHalf(g, d, i, Reread(d, i, c, app), ReadApps(d, as)[i])
<1> DEFINE e == d.graph.clients[i]
           x == Reread(d, i, c, app)
           a == ReadApps(d, as)[i]
<1>1. /\ x \in Client
      /\ (x.jack <=> c.jack) /\ (x.jackPort <=> c.jackPort) /\ (x.shown <=> c.shown) /\ x.jackName = c.jackName
      /\ (x.jackApp <=> c.jackApp) /\ (x.portApp <=> c.portApp) /\ x.graph = c.graph
      /\ x.virt /\ x.virtName = Unescape(e.name) /\ (x.virtApp => app)
      /\ (x.virtPort <=> e.port)
      /\ e.port => x.dict = e.dict
  BY RereadFields
<1>2. e.port \in BOOLEAN /\ (e.port => d.jack[i].port)
  BY DEF Complete
<1>3. i \in Apps => /\ i \in DOMAIN d.graph.apps
                    /\ d.jack[i].name = d.graph.apps[i].name /\ e.name = d.graph.apps[i].name
  BY DEF Complete
<1>4. ASSUME i \in Apps PROVE a.there /\ a.name = Unescape(d.graph.apps[i].name)
  <2>1. i \in DOMAIN d.graph.apps
    BY <1>3, <1>4
  <2> QED
    BY <2>1, ReadAppsFields
<1> HIDE DEF x, a, e
<1>5. i \in Apps => a.there /\ x.jackName = a.name /\ x.virtName = a.name
  BY <1>1, <1>3, <1>4 DEF FirstHalf
<1>6. Unlinked(g, i, x, a)
  BY <1>1, <1>2, <1>5 DEF Unlinked, FirstHalf
<1> QED
  BY <1>1, <1>2, <1>6 DEF SecondHalf, x, a, e

\* A studio's file makes pairs, and nothing of a client that it does not have.
LEMMA StudioRead ==
  ASSUME NEW d, Complete("studio", d), NEW as \in [Apps -> App], NEW i \in Clients
  PROVE  LET x == Interlink("studio", StudioVirt(d), ReadApps(d, as))[i] IN
         /\ x \in Client /\ Paired(i, x, ReadApps(d, as)[i])
         /\ i \in Of("room") => x = NoClient
         /\ PortRead(d, i) =>
              /\ x.virtPort
              /\ x.virtName = Unescape(d.graph.clients[i].name) /\ x.dict = d.graph.clients[i].dict
<1> DEFINE j == StudioJack(d)[i]
           app == d.graph.clients[i].app
           c == StudioVirt(d)[i]
           a == ReadApps(d, as)[i]
           x == WithPort("studio", i, Linked("studio", i, c, a))
<1>0. "studio" \in Graphs
  BY GraphsDiffer
<1>1. Interlink("studio", StudioVirt(d), ReadApps(d, as))[i] = x
  BY <1>0, InterlinkEach
<1>2. DOMAIN d.graph.clients \subseteq DOMAIN d.jack /\ DOMAIN d.jack \subseteq Of("studio")
  BY DEF Complete
<1>3. j \in Client
  BY <1>0, StudioJackEach
<1>4. CASE i \notin DOMAIN d.graph.clients
  <2>1. c = j
    BY <1>4 DEF StudioVirt, ReadVirt
  <2>2. ~j.virt /\ ~j.virtApp
    BY <1>0, StudioJackEach DEF NoClient
  <2>3. Linked("studio", i, j, a) = j
    BY <2>2 DEF Linked, Matches
  <2>4. x = j
    BY <2>1, <2>2, <2>3 DEF WithPort
  <2>5. Paired(i, j, a)
    <3>1. /\ ~j.virt /\ ~j.virtPort /\ ~j.shown /\ ~j.jackApp /\ ~j.virtApp /\ ~j.portApp
          /\ j.graph = "none"
      BY <1>0, StudioJackEach DEF NoClient
    <3> QED
      BY <3>1 DEF Paired
  <2>6. i \in Of("room") => j = NoClient
    BY <1>0, <1>2, StudioJackEach, OfDisjoint, GraphsDiffer
  <2>7. ~PortRead(d, i)
    BY <1>4 DEF PortRead
  <2> QED
    BY <1>1, <1>3, <2>4, <2>5, <2>6, <2>7
<1>5. CASE i \in DOMAIN d.graph.clients
  <2>1. c = Reread(d, i, j, app)
    BY <1>5, ReadVirtEach DEF StudioVirt
  <2>2. (app => i \in Apps) /\ app \in BOOLEAN
    BY <1>5, Zenon DEF Complete
  <2>3. /\ j.jack /\ j.jackName = Unescape(d.jack[i].name) /\ (j.jackPort <=> d.jack[i].port)
        /\ ~j.shown /\ ~j.jackApp /\ ~j.portApp /\ j.graph = "none"
    BY <1>0, <1>2, <1>5, StudioJackEach
  <2> HIDE DEF j, app
  <2>4. /\ Unlinked("studio", i, c, a)
        /\ c.virt /\ (c.virtPort <=> d.graph.clients[i].port) /\ c.virtName = Unescape(d.graph.clients[i].name)
        /\ d.graph.clients[i].port => c.dict = d.graph.clients[i].dict
    <3>1. FirstHalf("studio", d, i, j, app)
      BY <2>2, <2>3 DEF FirstHalf
    <3> DEFINE y == Reread(d, i, j, app)
    <3>2. SecondHalf("studio", d, i, y, a)
      BY <1>0, <1>3, <1>5, <2>2, <3>1, RereadUnlinked
    <3>3. c = y
      BY <2>1
    <3> HIDE DEF c, y, a
    <3> QED
      BY <3>2, <3>3 DEF SecondHalf
  <2>5. i \in Of("studio") /\ i \notin Of("room")
    BY <1>0, <1>2, <1>5, OfDisjoint, GraphsDiffer
  <2> HIDE DEF c, a
  <2>6. /\ x \in Client /\ Paired(i, x, a)
        /\ x.virtPort = c.virtPort /\ x.virtName = c.virtName /\ x.dict = c.dict
    BY <1>0, <2>4, <2>5, LinkingPairs
  <2>7. PortRead(d, i) => d.graph.clients[i].port
    BY DEF PortRead
  <2> HIDE DEF x
  <2> QED
    BY <1>1, <2>4, <2>5, <2>6, <2>7 DEF a
<1> QED
  BY <1>4, <1>5

\* A client of the room that has only its first half, or nothing.
Bare(c) ==
  /\ c \in Client
  /\ ~c.virt /\ ~c.virtPort /\ ~c.shown /\ ~c.jackApp /\ ~c.virtApp /\ ~c.portApp
  /\ c.graph \in {"none", "room"}

\* A client with nothing in either graph is paired.
LEMMA BarePaired ==
  ASSUME NEW i \in Of("room"), NEW c, NEW a, Bare(c) PROVE Paired(i, c, a)
BY DEF Bare, Paired, Of

\* Taking a project away leaves bare clients in the room and the others as they were.
LEMMA TakenFields ==
  ASSUME TypeOK, Halves, NEW i \in Clients
  PROVE  LET c == ClientsTaken[i] IN
         /\ c \in Client
         /\ i \notin Of("room") => c = clients[i]
         /\ i \in Of("room") =>
              /\ Bare(c)
              /\ c.jack => clients[i].jack /\ ~clients[i].virt /\ c.jackName = clients[i].jackName
<1>1. clients[i] \in Client /\ Paired(i, clients[i], apps[i])
  BY DEF TypeOK, Halves
<1>2. CASE i \notin Of("room")
  <2>1. i \notin RoomApps
    BY <1>2, OfGraphs
  <2> QED
    BY <1>1, <1>2, <2>1 DEF ClientsTaken
<1>3. CASE i \in Of("room")
  <2> DEFINE c == clients[i]
             x == [c EXCEPT !.virt = FALSE, !.virtPort = FALSE, !.virtName = None, !.virtApp = FALSE,
                            !.portApp = FALSE, !.dict = None]
  <2>1. i \in RoomApps /\ i \in Apps
    BY <1>3, OfGraphs
  <2>2. CASE clients[i].jackApp
    <3>1. ClientsTaken[i] = NoClient
      BY <2>1, <2>2 DEF ClientsTaken
    <3>2. Bare(NoClient) /\ NoClient \in Client /\ ~NoClient.jack
      BY NoneTyped DEF Bare, NoClient
    <3> QED
      BY <1>3, <3>1, <3>2
  <2>3. CASE ~clients[i].jackApp
    <3>1. ClientsTaken[i] = x
      BY <2>1, <2>3 DEF ClientsTaken
    <3>2. ~c.virt /\ ~c.shown /\ c.graph \in {"none", "room"}
      BY <1>1, <1>3, <2>1, <2>3 DEF Paired, Of
    <3>3. c \in Client /\ None \in Plain /\ None \in Int
      BY <1>1, NoneTyped
    <3> HIDE DEF c
    <3>4. /\ x \in Client
          /\ ~x.virt /\ ~x.virtPort /\ ~x.virtApp /\ ~x.portApp
          /\ (x.shown <=> c.shown) /\ (x.jackApp <=> c.jackApp) /\ (x.jack <=> c.jack)
          /\ x.jackName = c.jackName /\ x.graph = c.graph
      BY <3>3 DEF Client
    <3>5. ~c.jackApp
      BY <2>3 DEF c
    <3> HIDE DEF x
    <3>6. Bare(x)
      BY <3>2, <3>4, <3>5 DEF Bare
    <3>7. x.jack => c.jack /\ ~c.virt /\ x.jackName = c.jackName
      BY <3>2, <3>4
    <3> QED
      BY <1>3, <3>1, <3>4, <3>6, <3>7 DEF c
  <2> QED
    BY <2>2, <2>3
<1> QED
  BY <1>2, <1>3

\* The first half of a project: the clients of the room are bare, and have the names of the file.
LEMMA ProjectJackFields ==
  ASSUME TypeOK, Halves, NEW i \in Clients,
         NEW d, LeftOf(d), d.there, Complete("room", d)
  PROVE  LET j == ProjectJack(d, ClientsTaken)[i] IN
         /\ j \in Client
         /\ i \notin Of("room") => j = clients[i]
         /\ i \in Of("room") => Bare(j)
         /\ i \in DOMAIN d.graph.clients /\ j.jack => j.jackName = Unescape(d.jack[i].name)
         /\ i \in DOMAIN d.graph.clients => j.jack /\ (d.jack[i].port => j.jackPort)
<1> DEFINE c == ClientsTaken[i]
           j == ProjectJack(d, ClientsTaken)[i]
<1>0. "room" \in Graphs
  BY GraphsDiffer
<1>1. DOMAIN d.graph.clients \subseteq DOMAIN d.jack /\ DOMAIN d.jack \subseteq Of("room")
  BY DEF Complete
<1>2. /\ c \in Client
      /\ i \notin Of("room") => c = clients[i]
      /\ i \in Of("room") =>
           /\ Bare(c)
           /\ c.jack => clients[i].jack /\ ~clients[i].virt /\ c.jackName = clients[i].jackName
  BY TakenFields
<1>3. CASE i \notin DOMAIN d.jack
  <2>1. j = c
    BY <1>3 DEF ProjectJack
  <2> HIDE DEF c, j
  <2> QED
    BY <1>1, <1>2, <1>3, <2>1 DEF j
<1>4. CASE i \in DOMAIN d.jack /\ c.jack
  <2> DEFINE p == d.jack[i].port
             x == [c EXCEPT !.jackPort = @ \/ p]
  <2>1. j = x
    BY <1>4 DEF ProjectJack
  <2>2. p \in BOOLEAN
    BY <1>4 DEF Complete
  <2>3. i \in Of("room") /\ Bare(c)
    BY <1>1, <1>2, <1>4
  <2>4. i \in DOMAIN d.graph.clients => c.jackName = Unescape(d.jack[i].name)
    BY <1>2, <1>4, <2>3 DEF LeftOf
  <2>5. c \in Client /\ c.jack
    BY <1>2, <1>4
  <2> HIDE DEF c, p
  <2>6. /\ x \in Client /\ x.jack /\ (p => x.jackPort)
        /\ (x.virt <=> c.virt) /\ (x.virtPort <=> c.virtPort) /\ (x.shown <=> c.shown)
        /\ (x.jackApp <=> c.jackApp) /\ (x.virtApp <=> c.virtApp) /\ (x.portApp <=> c.portApp)
        /\ x.jackName = c.jackName /\ x.graph = c.graph
    BY <2>2, <2>5 DEF Client
  <2> HIDE DEF x
  <2>7. Bare(x)
    BY <2>3, <2>6 DEF Bare
  <2> HIDE DEF j
  <2> QED
    BY <2>1, <2>3, <2>4, <2>6, <2>7 DEF p, j
<1>5. CASE i \in DOMAIN d.jack /\ ~c.jack
  <2> DEFINE x == StudioJack(d)[i]
  <2>1. j = x
    BY <1>5 DEF ProjectJack
  <2>2. /\ x \in Client
        /\ x.jack /\ x.jackName = Unescape(d.jack[i].name) /\ (x.jackPort <=> d.jack[i].port)
        /\ ~x.virt /\ ~x.virtPort /\ ~x.shown /\ ~x.jackApp /\ ~x.virtApp /\ ~x.portApp
        /\ x.graph = "none"
    BY <1>0, <1>5, StudioJackEach
  <2> HIDE DEF x, j
  <2>3. Bare(x)
    BY <2>2 DEF Bare
  <2> QED
    BY <1>1, <1>5, <2>1, <2>2, <2>3 DEF j
<1> QED
  BY <1>3, <1>4, <1>5

\* A project's file makes pairs of the clients of the room that it has, and leaves the other ones alone.
LEMMA ProjectRead ==
  ASSUME TypeOK, Halves, NEW i \in Clients,
         NEW d, LeftOf(d), d.there, Complete("room", d), NEW as \in [Apps -> App]
  PROVE  LET x == Interlink("room", ProjectVirt(d, ClientsTaken), ReadApps(d, as))[i] IN
         /\ x \in Client
         /\ i \notin Of("room") => x = clients[i]
         /\ i \in Of("room") => Paired(i, x, ReadApps(d, as)[i])
         /\ i \in DOMAIN d.graph.clients => x.virt
         /\ PortRead(d, i) =>
              /\ x.virtPort
              /\ x.virtName = Unescape(d.graph.clients[i].name) /\ x.dict = d.graph.clients[i].dict
<1> DEFINE j == ProjectJack(d, ClientsTaken)[i]
           c == ProjectVirt(d, ClientsTaken)[i]
           a == ReadApps(d, as)[i]
           x == WithPort("room", i, Linked("room", i, c, a))
<1>0. "room" \in Graphs
  BY GraphsDiffer
<1>1. Interlink("room", ProjectVirt(d, ClientsTaken), ReadApps(d, as))[i] = x
  BY <1>0, InterlinkEach
<1>2. DOMAIN d.graph.clients \subseteq DOMAIN d.jack /\ DOMAIN d.jack \subseteq Of("room")
  BY DEF Complete
<1>3. /\ j \in Client
      /\ i \notin Of("room") => j = clients[i]
      /\ i \in Of("room") => Bare(j)
      /\ i \in DOMAIN d.graph.clients /\ j.jack => j.jackName = Unescape(d.jack[i].name)
      /\ i \in DOMAIN d.graph.clients => j.jack /\ (d.jack[i].port => j.jackPort)
  BY ProjectJackFields
<1>4. CASE i \notin DOMAIN d.graph.clients
  <2>1. c = j
    BY <1>4 DEF ProjectVirt, ReadVirt
  <2>2. i \notin Of("room") \/ (~j.virt /\ ~j.virtApp)
    BY <1>3 DEF Bare
  <2>3. Linked("room", i, j, a) = j
    BY <2>2 DEF Linked, Matches
  <2>4. x = j
    BY <2>1, <2>2, <2>3 DEF WithPort
  <2>5. i \in Of("room") => Paired(i, j, a)
    BY <1>3, BarePaired
  <2>6. ~PortRead(d, i)
    BY <1>4 DEF PortRead
  <2> HIDE DEF j, x, a
  <2> QED
    BY <1>1, <1>3, <1>4, <2>4, <2>5, <2>6 DEF a
<1>5. CASE i \in DOMAIN d.graph.clients
  <2> DEFINE y == Reread(d, i, j, FALSE)
  <2>1. c = y
    <3> DEFINE app == [k \in Clients |-> FALSE]
    <3>1. app[i] = FALSE
      OBVIOUS
    <3>2. ProjectVirt(d, ClientsTaken) = ReadVirt(d, ProjectJack(d, ClientsTaken), app)
      BY DEF ProjectVirt
    <3> HIDE DEF app
    <3>3. c = Reread(d, i, j, app[i])
      BY <3>2, ReadVirtEach
    <3> HIDE DEF c, j
    <3> QED
      BY <3>1, <3>3
  <2>2. i \in Of("room") /\ Bare(j)
    BY <1>2, <1>3, <1>5
  <2> HIDE DEF j
  <2>3. FirstHalf("room", d, i, j, FALSE)
    BY <1>3, <1>5, <2>2 DEF FirstHalf, Bare
  <2>4. SecondHalf("room", d, i, y, a)
    BY <1>0, <1>3, <1>5, <2>3, RereadUnlinked
  <2> HIDE DEF y, c, a
  <2>5. /\ Unlinked("room", i, c, a)
        /\ c.virt /\ (c.virtPort <=> d.graph.clients[i].port) /\ c.virtName = Unescape(d.graph.clients[i].name)
        /\ d.graph.clients[i].port => c.dict = d.graph.clients[i].dict
    BY <2>1, <2>4 DEF SecondHalf
  <2>6. /\ x \in Client /\ Paired(i, x, a)
        /\ x.virtPort = c.virtPort /\ x.virtName = c.virtName /\ x.dict = c.dict /\ x.virt = c.virt
    BY <1>0, <2>2, <2>5, LinkingPairs
  <2>7. PortRead(d, i) => d.graph.clients[i].port
    BY DEF PortRead
  <2> HIDE DEF x
  <2> QED
    BY <1>1, <2>2, <2>5, <2>6, <2>7 DEF a
<1> QED
  BY <1>4, <1>5

-----------------------------------------------------------------------------
(* Every step keeps what is in memory in order. *)

\* IInv holds when the daemon starts.
LEMMA InitIInv == Init => IInv
<1> SUFFICES ASSUME Init PROVE IInv
  OBVIOUS
<1>0. -1 \in Int /\ NoRoom \in [there : BOOLEAN, name : Int, project : BOOLEAN, text : Int]
      /\ NoLink \in [shown : BOOLEAN, dict : Int]
  BY NoneTyped DEF NoRoom, NoLink
<1>1. TypeOK
  BY <1>0, NoneTyped DEF Init, TypeOK
<1>2. Halves
  BY NoClientPaired DEF Init, Halves
<1>3. \A g \in Graphs : ~files[g].there
  BY DEF Init, NoFile
<1>4. Belong
  BY DEF Init, Belong, NoApp, NoLink, NoRoom
<1>5. Leftovers
  BY <1>3, GraphsDiffer DEF Leftovers, LeftOf
<1> QED
  BY <1>1, <1>2, <1>3, <1>4, <1>5 DEF IInv, Memory, Written

\* Nothing happens to clients and their apps' names.
LEMMA HalvesKept ==
  ASSUME Halves, clients' = clients,
         \A i \in Apps : (apps[i].there => apps'[i].there) /\ (apps[i].there => apps'[i].name = apps[i].name)
  PROVE  Halves'
BY DEF Halves, Paired

\* Only the apps and the flags of the studio change.
LEMMA AppsChange ==
  ASSUME Memory, apps' \in [Apps -> App], studio' \in [loaded : BOOLEAN, started : BOOLEAN],
         \A i \in Apps : /\ apps[i].there => apps'[i].there /\ apps'[i].name = apps[i].name
                         /\ apps'[i].running \/ apps'[i].autorun => apps'[i].there
                         /\ ~studio'.loaded => ~apps'[i].there,
         studio'.started => studio'.loaded, studio.loaded => studio'.loaded,
         UNCHANGED <<room, clients, link, dicts, conf, files, kept>>
  PROVE  Memory'
<1>1. TypeOK'
  BY DEF Memory, TypeOK
<1>2. Halves'
  BY HalvesKept DEF Memory
<1>3. Belong'
  BY DEF Memory, Belong
<1>4. Leftovers'
  BY DEF Memory, Leftovers, LeftOf
<1> QED
  BY <1>1, <1>2, <1>3, <1>4 DEF Memory

\* An app's record with other flags.
LEMMA AppFlags ==
  ASSUME NEW a \in App, NEW r \in BOOLEAN, NEW u \in BOOLEAN
  PROVE  LET x == [a EXCEPT !.running = r]
             y == [a EXCEPT !.running = r, !.autorun = u]
         IN /\ x \in App /\ (x.there <=> a.there) /\ x.name = a.name /\ (x.autorun <=> a.autorun)
            /\ (x.running <=> r) /\ x.command = a.command
            /\ y \in App /\ (y.there <=> a.there) /\ y.name = a.name /\ y.command = a.command
            /\ (y.running <=> r) /\ (y.autorun <=> u)
BY DEF App

\* Autorun starts apps and clears their flag, and does nothing else to them.
LEMMA AutorunFields ==
  ASSUME NEW g \in Graphs, NEW as \in [Apps -> App]
  PROVE  /\ Autorun(g, as) \in [Apps -> App]
         /\ \A i \in Apps :
              LET x == Autorun(g, as)[i] IN
              /\ (x.there <=> as[i].there) /\ x.name = as[i].name /\ x.command = as[i].command
              /\ (x.running \/ x.autorun <=> as[i].running \/ as[i].autorun)
<1> DEFINE f == Autorun(g, as)
<1>1. f = [i \in Apps |-> f[i]]
  BY DEF Autorun
<1>2. ASSUME NEW i \in Apps
      PROVE  /\ f[i] \in App
             /\ (f[i].there <=> as[i].there) /\ f[i].name = as[i].name /\ f[i].command = as[i].command
             /\ (f[i].running \/ f[i].autorun <=> as[i].running \/ as[i].autorun)
  <2> DEFINE a == as[i]
             y == [a EXCEPT !.running = TRUE, !.autorun = FALSE]
  <2>1. f[i] = IF i \in Of(g) /\ a.autorun THEN y ELSE a
    BY DEF Autorun
  <2>2. a \in App
    OBVIOUS
  <2> HIDE DEF a, f
  <2>3. /\ y \in App /\ (y.there <=> a.there) /\ y.name = a.name /\ y.command = a.command
        /\ y.running /\ ~y.autorun
    BY <2>2, AppFlags
  <2> HIDE DEF y
  <2> QED
    BY <2>1, <2>2, <2>3 DEF a
<1> HIDE DEF f
<1>3. f \in [Apps -> App]
  BY <1>1, <1>2
<1> QED
  BY <1>2, <1>3 DEF f

\* NewStudio keeps the halves of the clients together.
LEMMA NewStudioKeeps == ASSUME Memory, NewStudio PROVE Memory'
<1>1. studio' \in [loaded : BOOLEAN, started : BOOLEAN] /\ studio'.loaded
      /\ (studio'.started <=> studio.started)
  BY DEF Memory, TypeOK, NewStudio
<1>2. apps' \in [Apps -> App] /\ apps' = apps
  BY DEF Memory, TypeOK, NewStudio
<1>3. \A i \in Apps : apps[i].running \/ apps[i].autorun => apps[i].there
  BY DEF Memory, Belong
<1>4. UNCHANGED <<room, clients, link, dicts, conf, files, kept>>
  BY DEF NewStudio
<1> QED
  BY <1>1, <1>2, <1>3, <1>4, AppsChange

\* StartStudio keeps the halves of the clients together.
LEMMA StartStudioKeeps == ASSUME Memory, StartStudio PROVE Memory'
<1>1. studio' \in [loaded : BOOLEAN, started : BOOLEAN] /\ studio'.loaded
  BY DEF Memory, TypeOK, StartStudio
<1>2. apps' \in [Apps -> App]
      /\ \A i \in Apps : /\ (apps'[i].there <=> apps[i].there) /\ apps'[i].name = apps[i].name
                         /\ (apps'[i].running \/ apps'[i].autorun <=> apps[i].running \/ apps[i].autorun)
  <2> DEFINE as == Autorun("room", apps)
  <2>1. apps \in [Apps -> App]
    BY DEF Memory, TypeOK
  <2>2. as \in [Apps -> App]
        /\ \A i \in Apps : /\ (as[i].there <=> apps[i].there) /\ as[i].name = apps[i].name
                           /\ (as[i].running \/ as[i].autorun <=> apps[i].running \/ apps[i].autorun)
    BY <2>1, GraphsDiffer, AutorunFields
  <2>3. apps' = Autorun("studio", as)
    BY DEF StartStudio
  <2> HIDE DEF as
  <2>4. apps' \in [Apps -> App]
        /\ \A i \in Apps : /\ (apps'[i].there <=> as[i].there) /\ apps'[i].name = as[i].name
                           /\ (apps'[i].running \/ apps'[i].autorun <=> as[i].running \/ as[i].autorun)
    BY <2>2, <2>3, GraphsDiffer, AutorunFields
  <2> QED
    BY <2>2, <2>4
<1>3. \A i \in Apps : apps[i].running \/ apps[i].autorun => apps[i].there
  BY DEF Memory, Belong
<1>4. UNCHANGED <<room, clients, link, dicts, conf, files, kept>>
  BY DEF StartStudio
<1> QED
  BY <1>1, <1>2, <1>3, <1>4, AppsChange

\* StartApp keeps the halves of the clients together.
LEMMA StartAppKeeps == ASSUME Memory, NEW i \in Apps, StartApp(i) PROVE Memory'
<1>1. apps' \in [Apps -> App]
      /\ \A k \in Apps : /\ (apps'[k].there <=> apps[k].there) /\ apps'[k].name = apps[k].name
                         /\ k # i => apps'[k] = apps[k]
  <2> DEFINE a == apps[i]
             x == [a EXCEPT !.running = TRUE]
  <2>1. a \in App /\ apps \in [Apps -> App]
    BY DEF Memory, TypeOK
  <2>2. apps' = [apps EXCEPT ![i] = x]
    BY <2>1 DEF StartApp
  <2> HIDE DEF a
  <2>3. x \in App /\ (x.there <=> a.there) /\ x.name = a.name
    BY <2>1 DEF App
  <2> HIDE DEF x
  <2> QED
    BY <2>1, <2>2, <2>3 DEF a
<1>2. apps[i].there
  BY DEF StartApp
<1>3. studio' = studio /\ UNCHANGED <<room, clients, link, dicts, conf, files, kept>>
  BY DEF StartApp
<1>4. /\ \A k \in Apps : apps[k].running \/ apps[k].autorun => apps[k].there
      /\ \A k \in Apps : ~studio.loaded => ~apps[k].there
      /\ studio \in [loaded : BOOLEAN, started : BOOLEAN] /\ (studio.started => studio.loaded)
  BY DEF Memory, Belong, TypeOK
<1>5. \A k \in Apps : apps'[k].running \/ apps'[k].autorun => apps'[k].there
  BY <1>1, <1>2, <1>4
<1>6. \A k \in Apps : ~studio'.loaded => ~apps'[k].there
  BY <1>1, <1>3, <1>4
<1> QED
  BY <1>1, <1>3, <1>4, <1>5, <1>6, AppsChange

\* AppExits keeps the halves of the clients together.
LEMMA AppExitsKeeps == ASSUME Memory, NEW i \in Apps, AppExits(i) PROVE Memory'
<1>1. apps' \in [Apps -> App]
      /\ \A k \in Apps : /\ (apps'[k].there <=> apps[k].there) /\ apps'[k].name = apps[k].name
                         /\ k # i => apps'[k] = apps[k]
  <2> DEFINE a == apps[i]
             x == [a EXCEPT !.running = FALSE]
  <2>1. a \in App /\ apps \in [Apps -> App]
    BY DEF Memory, TypeOK
  <2>2. apps' = [apps EXCEPT ![i] = x]
    BY <2>1 DEF AppExits
  <2> HIDE DEF a
  <2>3. x \in App /\ (x.there <=> a.there) /\ x.name = a.name
    BY <2>1 DEF App
  <2> HIDE DEF x
  <2> QED
    BY <2>1, <2>2, <2>3 DEF a
<1>2. apps[i].running
  BY DEF AppExits
<1>3. studio' = studio /\ UNCHANGED <<room, clients, link, dicts, conf, files, kept>>
  BY DEF AppExits
<1>4. /\ \A k \in Apps : apps[k].running \/ apps[k].autorun => apps[k].there
      /\ \A k \in Apps : ~studio.loaded => ~apps[k].there
      /\ studio \in [loaded : BOOLEAN, started : BOOLEAN] /\ (studio.started => studio.loaded)
  BY DEF Memory, Belong, TypeOK
<1>5. \A k \in Apps : apps'[k].running \/ apps'[k].autorun => apps'[k].there
  BY <1>1, <1>2, <1>4
<1>6. \A k \in Apps : ~studio'.loaded => ~apps'[k].there
  BY <1>1, <1>3, <1>4
<1> QED
  BY <1>1, <1>3, <1>4, <1>5, <1>6, AppsChange

\* NewApp keeps the halves of the clients together.
LEMMA NewAppKeeps == ASSUME Uncoded, Memory, NEW i \in Apps, NewApp(i) PROVE Memory'
<1>1. PICK n \in Names, c \in Commands :
        apps' = [apps EXCEPT ![i] = [there |-> TRUE, running |-> studio.started, autorun |-> ~studio.started,
                                     name |-> n, command |-> c]]
  BY DEF NewApp
<1>2. n \in Plain /\ c \in Int
  BY DocumentsAssumption DEF Plain, Uncoded, Long
<1>3. apps \in [Apps -> App] /\ studio \in [loaded : BOOLEAN, started : BOOLEAN]
  BY DEF Memory, TypeOK
<1>4. apps' \in [Apps -> App] /\ apps'[i].there /\ \A k \in Apps : k # i => apps'[k] = apps[k]
  <2> DEFINE x == [there |-> TRUE, running |-> studio.started, autorun |-> ~studio.started,
                   name |-> n, command |-> c]
  <2>1. x \in App /\ x.there
    BY <1>2, <1>3 DEF App
  <2> HIDE DEF x
  <2> QED
    BY <1>1, <1>3, <2>1 DEF x
<1>5. ~apps[i].there /\ studio' = studio /\ UNCHANGED <<room, clients, link, dicts, conf, files, kept>>
  BY DEF NewApp
<1>6. /\ \A k \in Apps : apps[k].running \/ apps[k].autorun => apps[k].there
      /\ \A k \in Apps : ~studio.loaded => ~apps[k].there
      /\ studio.started => studio.loaded
      /\ room.there => studio.loaded
  BY DEF Memory, Belong
<1>7. studio.loaded
  BY <1>6 DEF NewApp, Present
<1>8. \A k \in Apps : /\ apps[k].there => apps'[k].there /\ apps'[k].name = apps[k].name
                      /\ apps'[k].running \/ apps'[k].autorun => apps'[k].there
                      /\ ~studio'.loaded => ~apps'[k].there
  BY <1>4, <1>5, <1>6, <1>7
<1> QED
  BY <1>3, <1>4, <1>5, <1>6, <1>8, AppsChange

\* A client that became bare is one that could be left.
StillLeft(x, c) == x.jack /\ ~x.virt => c.jack /\ ~c.virt /\ x.jackName = c.jackName

\* What a step has to show.
LEMMA MemoryNext ==
  ASSUME clients' \in [Clients -> Client], apps' \in [Apps -> App],
         studio' \in [loaded : BOOLEAN, started : BOOLEAN],
         link' \in [shown : BOOLEAN, dict : Int],
         room' \in [there : BOOLEAN, name : Int, project : BOOLEAN, text : Int],
         dicts' \in [Graphs -> Int], conf' \in Int,
         Memory, UNCHANGED <<files, kept>>,
         \A i \in Clients : Paired(i, clients'[i], apps'[i]),
         Belong', Leftovers'
  PROVE  Memory'
BY DEF Memory, TypeOK, Halves

\* Every client keeps its halves together, and the studio and the apps their flags.
LEMMA ClientsChange ==
  ASSUME Memory, clients' \in [Clients -> Client], apps' \in [Apps -> App],
         studio' \in [loaded : BOOLEAN, started : BOOLEAN],
         link' \in [shown : BOOLEAN, dict : Int],
         room' \in [there : BOOLEAN, name : Int, project : BOOLEAN, text : Int],
         dicts' \in [Graphs -> Int], conf' \in Int,
         \A i \in Clients : Paired(i, clients'[i], apps'[i]),
         \A i \in Of("room") : StillLeft(clients'[i], clients[i]),
         Belong',
         UNCHANGED <<files, kept>>
  PROVE  Memory'
<1>1. Leftovers'
  <2>1. \A i \in Of("room") : StillLeft(clients'[i], clients[i]) /\ LeftOf(files["room"]) /\ files' = files
    BY DEF Memory, Leftovers
  <2> QED
    BY <2>1 DEF Leftovers, LeftOf, StillLeft
<1> QED
  BY <1>1, MemoryNext

\* What the invariant says of one app and one client.
LEMMA Each ==
  ASSUME Memory
  PROVE  /\ apps \in [Apps -> App] /\ clients \in [Clients -> Client]
         /\ studio \in [loaded : BOOLEAN, started : BOOLEAN]
         /\ room \in [there : BOOLEAN, name : Int, project : BOOLEAN, text : Int]
         /\ link \in [shown : BOOLEAN, dict : Int]
         /\ dicts \in [Graphs -> Int] /\ conf \in Int
         /\ \A i \in Clients : Paired(i, clients[i], apps[i])
         /\ \A i \in Apps : apps[i].running \/ apps[i].autorun => apps[i].there
         /\ \A i \in Apps : ~studio.loaded => ~apps[i].there
         /\ studio.started => studio.loaded
         /\ link.shown => room.there
         /\ room.there => studio.loaded
BY DEF Memory, TypeOK, Halves, Belong

\* Unloading a studio, or failing to load one, leaves nothing.
LEMMA EmptiedKeeps ==
  ASSUME Memory, Emptied, studio' \in [loaded : BOOLEAN, started : BOOLEAN], studio'.started => studio'.loaded,
         dicts' \in [Graphs -> Int], conf' \in Int, UNCHANGED <<files, kept>>
  PROVE  Memory'
<1>1. /\ room' = NoRoom /\ link' = NoLink
      /\ apps' = [i \in Apps |-> NoApp] /\ clients' = [i \in Clients |-> NoClient]
  BY DEF Emptied
<1>2. /\ NoRoom \in [there : BOOLEAN, name : Int, project : BOOLEAN, text : Int] /\ ~NoRoom.there
      /\ NoLink \in [shown : BOOLEAN, dict : Int] /\ ~NoLink.shown
  BY NoneTyped DEF NoRoom, NoLink
<1>3. TypeOK'
  BY <1>1, <1>2, NoneTyped DEF Memory, TypeOK
<1>4. Halves'
  BY <1>1, NoClientPaired DEF Halves
<1>5. Belong'
  <2>1. ~NoApp.there /\ ~NoApp.running /\ ~NoApp.autorun
    BY DEF NoApp
  <2> QED
    BY <1>1, <1>2, <2>1 DEF Belong
<1>6. Leftovers'
  <2>1. \A i \in Of("room") : ~clients'[i].jack
    BY <1>1, OfGraphs DEF NoClient
  <2> QED
    BY <2>1 DEF Leftovers, LeftOf
<1> QED
  BY <1>3, <1>4, <1>5, <1>6 DEF Memory

\* UnloadStudio keeps the halves of the clients together.
LEMMA UnloadStudioKeeps == ASSUME Memory, UnloadStudio PROVE Memory'
<1>1. studio' \in [loaded : BOOLEAN, started : BOOLEAN] /\ ~studio'.started
  BY Each DEF UnloadStudio
<1>2. dicts' \in [Graphs -> Int] /\ conf' \in Int
  BY NoneTyped DEF UnloadStudio, Emptied, Memory, TypeOK
<1>3. Emptied /\ UNCHANGED <<files, kept>>
  BY DEF UnloadStudio
<1> QED
  BY <1>1, <1>2, <1>3, EmptiedKeeps

\* LoadStudioFails keeps the halves of the clients together.
LEMMA LoadStudioFailsKeeps == ASSUME Memory, Written, LoadStudioFails PROVE Memory'
<1>1. studio' \in [loaded : BOOLEAN, started : BOOLEAN] /\ (studio'.started => studio'.loaded)
  BY Each DEF LoadStudioFails
<1>2. dicts' \in [Graphs -> Int]
  BY NoneTyped DEF LoadStudioFails, Emptied, Memory, TypeOK
<1>3. conf' \in Int
  <2>1. Complete("studio", files["studio"])
    BY GraphsDiffer DEF LoadStudioFails, Written
  <2>2. files["studio"].text \in Int
    BY <2>1 DEF Complete
  <2>3. PICK refused \in BOOLEAN : conf' = ConfRead(files["studio"], refused)
    BY DEF LoadStudioFails
  <2> QED
    BY <2>2, <2>3 DEF ConfRead
<1>4. Emptied /\ UNCHANGED <<files, kept>>
  BY DEF LoadStudioFails
<1> QED
  BY <1>1, <1>2, <1>3, <1>4, EmptiedKeeps

\* Connections, dicts and the room's own fields do not matter to the clients.
LEMMA RestChanges ==
  ASSUME Memory,
         link' \in [shown : BOOLEAN, dict : Int],
         room' \in [there : BOOLEAN, name : Int, project : BOOLEAN, text : Int],
         dicts' \in [Graphs -> Int], conf' \in Int,
         link'.shown => room'.there, room'.there => studio.loaded,
         UNCHANGED <<studio, apps, clients, files, kept>>
  PROVE  Memory'
<1>1. TypeOK'
  BY DEF Memory, TypeOK
<1>2. Halves' /\ Belong' /\ Leftovers'
  BY DEF Memory, Halves, Belong, Leftovers, LeftOf
<1> QED
  BY <1>1, <1>2 DEF Memory

\* CreateRoom keeps the halves of the clients together.
LEMMA CreateRoomKeeps == ASSUME Memory, CreateRoom PROVE Memory'
<1>1. PICK t \in RoomNames : room' = [NoRoom EXCEPT !.there = TRUE, !.name = t]
  BY DEF CreateRoom
<1>2. t \in Int
  BY DocumentsAssumption
<1>3. room' \in [there : BOOLEAN, name : Int, project : BOOLEAN, text : Int] /\ room'.there
  BY <1>1, <1>2, NoneTyped DEF NoRoom
<1> QED
  BY <1>3, RestChanges DEF CreateRoom, Memory, TypeOK

\* LinkUp keeps the halves of the clients together.
LEMMA LinkUpKeeps == ASSUME Memory, LinkUp PROVE Memory'
<1>1. link' \in [shown : BOOLEAN, dict : Int]
  BY Each DEF LinkUp
<1> QED
  BY <1>1, Each, RestChanges DEF LinkUp, Memory, TypeOK

\* Connect keeps the halves of the clients together.
LEMMA ConnectKeeps == ASSUME Memory, NEW w \in Wires, Connect(w) PROVE Memory'
BY Each, RestChanges DEF Connect, Memory, TypeOK

\* SetGraphDict keeps the halves of the clients together.
LEMMA SetGraphDictKeeps ==
  ASSUME Memory, NEW t \in Texts, NEW g \in Marked \cap Graphs, SetGraphDict(g, t) PROVE Memory'
<1>1. t \in Int
  BY DocumentsAssumption DEF Long
<1>2. dicts' \in [Graphs -> Int]
  BY <1>1 DEF SetGraphDict, Memory, TypeOK
<1> QED
  BY <1>2, Each, RestChanges DEF SetGraphDict, Memory, TypeOK

\* SetDescription keeps the halves of the clients together.
LEMMA SetDescriptionKeeps == ASSUME Memory, NEW t \in Texts, SetDescription(t) PROVE Memory'
<1>1. t \in Int
  BY DocumentsAssumption DEF Long
<1>2. room' \in [there : BOOLEAN, name : Int, project : BOOLEAN, text : Int] /\ (room'.there <=> room.there)
  BY <1>1, Each DEF SetDescription
<1> QED
  BY <1>2, Each, RestChanges DEF SetDescription, Memory, TypeOK

\* SetConf keeps the halves of the clients together.
LEMMA SetConfKeeps == ASSUME Memory, NEW t \in Texts, SetConf(t) PROVE Memory'
<1>1. t \in Int
  BY DocumentsAssumption DEF Long
<1> QED
  BY <1>1, Each, RestChanges DEF SetConf, Memory, TypeOK

\* A client's record is hidden, or its dict is set.
LEMMA HiddenFields ==
  ASSUME NEW i, NEW c \in Client, NEW a, Paired(i, c, a), NEW t \in Int
  PROVE  /\ [c EXCEPT !.shown = FALSE] \in Client /\ Paired(i, [c EXCEPT !.shown = FALSE], a)
         /\ StillLeft([c EXCEPT !.shown = FALSE], c)
         /\ [c EXCEPT !.dict = t] \in Client /\ Paired(i, [c EXCEPT !.dict = t], a)
         /\ StillLeft([c EXCEPT !.dict = t], c)
<1> DEFINE x == [c EXCEPT !.shown = FALSE]
           y == [c EXCEPT !.dict = t]
<1>1. /\ x \in Client /\ ~x.shown
      /\ (x.jack <=> c.jack) /\ (x.virt <=> c.virt) /\ (x.jackPort <=> c.jackPort) /\ (x.virtPort <=> c.virtPort)
      /\ (x.jackApp <=> c.jackApp) /\ (x.virtApp <=> c.virtApp) /\ (x.portApp <=> c.portApp)
      /\ x.jackName = c.jackName /\ x.virtName = c.virtName /\ x.graph = c.graph
  BY DEF Client
<1>2. /\ y \in Client /\ (y.shown <=> c.shown)
      /\ (y.jack <=> c.jack) /\ (y.virt <=> c.virt) /\ (y.jackPort <=> c.jackPort) /\ (y.virtPort <=> c.virtPort)
      /\ (y.jackApp <=> c.jackApp) /\ (y.virtApp <=> c.virtApp) /\ (y.portApp <=> c.portApp)
      /\ y.jackName = c.jackName /\ y.virtName = c.virtName /\ y.graph = c.graph
  BY DEF Client
<1> HIDE DEF x, y
<1>3. Paired(i, x, a) /\ StillLeft(x, c)
  BY <1>1 DEF Paired, StillLeft
<1>4. Paired(i, y, a) /\ StillLeft(y, c)
  BY <1>2 DEF Paired, StillLeft
<1> QED
  BY <1>1, <1>2, <1>3, <1>4 DEF x, y

\* One client changes.
LEMMA OneChanges ==
  ASSUME Memory, NEW i \in Clients, NEW x \in Client, Paired(i, x, apps'[i]),
         StillLeft(x, clients[i]),
         clients' = [clients EXCEPT ![i] = x],
         apps' \in [Apps -> App],
         \A k \in Apps \ {i} : apps'[k] = apps[k],
         i \in Apps => (apps'[i].running \/ apps'[i].autorun => apps'[i].there)
                       /\ (~studio.loaded => ~apps'[i].there),
         UNCHANGED <<studio, room, link, dicts, conf, files, kept>>
  PROVE  Memory'
<1>1. clients \in [Clients -> Client]
  BY Each
<1>2. clients' \in [Clients -> Client] /\ clients'[i] = x /\ \A k \in Clients \ {i} : clients'[k] = clients[k]
  BY <1>1
<1>3. \A k \in Clients : Paired(k, clients'[k], apps'[k])
  <2>1. ASSUME NEW k \in Clients, k # i PROVE Paired(k, clients'[k], apps'[k])
    <3>1. Paired(k, clients[k], apps[k])
      BY Each
    <3>2. k \in Apps => apps[k] = apps'[k]
      BY <2>1
    <3> QED
      BY <1>2, <2>1, <3>1, <3>2, PairedAny
  <2> QED
    BY <1>2, <2>1
<1>4. \A k \in Of("room") : StillLeft(clients'[k], clients[k])
  <2>1. \A k \in Clients : StillLeft(clients[k], clients[k])
    BY DEF StillLeft
  <2> QED
    BY <1>2, <2>1, OfGraphs
<1>5. Belong'
  BY Each DEF Belong
<1> QED
  BY <1>2, <1>3, <1>4, <1>5, Each, ClientsChange

\* ClientDown keeps the halves of the clients together.
LEMMA ClientDownKeeps == ASSUME Memory, NEW i \in Clients, ClientDown(i) PROVE Memory'
<1> DEFINE c == clients[i]
           x == [c EXCEPT !.shown = FALSE]
<1>1. c \in Client /\ Paired(i, c, apps[i])
  BY Each
<1>2. x \in Client /\ Paired(i, x, apps[i]) /\ StillLeft(x, c)
  <2> HIDE DEF c
  <2> QED
    BY <1>1, HiddenFields, NoneTyped
<1>3. clients' = [clients EXCEPT ![i] = x]
  BY Each DEF ClientDown
<1>4. UNCHANGED <<studio, room, apps, link, dicts, conf, files, kept>>
  BY DEF ClientDown
<1> HIDE DEF x
<1> QED
  BY <1>2, <1>3, <1>4, Each, OneChanges

\* SetPortDict keeps the halves of the clients together.
LEMMA SetPortDictKeeps ==
  ASSUME Memory, NEW t \in Texts, NEW p \in Marked \ Graphs, SetPortDict(p, t) PROVE Memory'
<1>1. t \in Int
  BY DocumentsAssumption DEF Long
<1>2. CASE p = Link
  <2>1. link' \in [shown : BOOLEAN, dict : Int] /\ (link'.shown <=> link.shown)
    BY <1>1, <1>2, Each DEF SetPortDict
  <2> QED
    BY <1>2, <2>1, Each, RestChanges DEF SetPortDict, Memory, TypeOK
<1>3. CASE p # Link
  <2> DEFINE c == clients[p]
             x == [c EXCEPT !.dict = t]
  <2>1. p \in Clients
    BY <1>3, DocumentsAssumption
  <2>2. c \in Client /\ Paired(p, c, apps[p])
    BY <2>1, Each
  <2>3. x \in Client /\ Paired(p, x, apps[p]) /\ StillLeft(x, c)
    <3> HIDE DEF c
    <3> QED
      BY <1>1, <2>2, HiddenFields
  <2>4. clients' = [clients EXCEPT ![p] = x]
    BY <1>3, Each DEF SetPortDict
  <2>5. UNCHANGED <<studio, room, apps, link, dicts, conf, files, kept>>
    BY <1>3 DEF SetPortDict
  <2> HIDE DEF x
  <2> QED
    BY <2>1, <2>3, <2>4, <2>5, Each, OneChanges
<1> QED
  BY <1>2, <1>3

\* RemoveApp keeps the halves of the clients together.
LEMMA RemoveAppKeeps == ASSUME Memory, NEW i \in Apps, RemoveApp(i) PROVE Memory'
<1> DEFINE c == clients[i]
           x == IF c.jackApp THEN NoClient ELSE c
<1>1. i \in Clients /\ c \in Client /\ Paired(i, c, apps[i])
  BY Each, OfGraphs
<1>2. c.portApp => c.jackApp
  BY <1>1 DEF Paired
<1>3. clients' = [clients EXCEPT ![i] = x]
  BY <1>1, <1>2 DEF RemoveApp
<1>4. x \in Client /\ Paired(i, x, NoApp) /\ StillLeft(x, c)
  <2>1. CASE c.jackApp
    <3>1. ~NoClient.jack
      BY DEF NoClient
    <3> QED
      BY <2>1, <3>1, NoneTyped, NoClientPaired DEF StillLeft
  <2>2. CASE ~c.jackApp
    <3>1. ~c.virt
      BY <1>1, <2>2 DEF Paired
    <3>2. x = c
      BY <2>2
    <3> HIDE DEF x, c
    <3> QED
      BY <1>1, <2>2, <3>1, <3>2 DEF Paired, StillLeft
  <2> QED
    BY <2>1, <2>2
<1>5. apps' = [apps EXCEPT ![i] = NoApp]
  BY DEF RemoveApp
<1>6. apps' \in [Apps -> App] /\ apps'[i] = NoApp /\ \A k \in Apps \ {i} : apps'[k] = apps[k]
  BY <1>5, Each, NoneTyped
<1>7. ~NoApp.there /\ ~NoApp.running /\ ~NoApp.autorun
  BY DEF NoApp
<1>8. UNCHANGED <<studio, room, link, dicts, conf, files, kept>>
  BY DEF RemoveApp
<1> HIDE DEF x
<1> QED
  BY <1>1, <1>3, <1>4, <1>6, <1>7, <1>8, OneChanges

\* RenameApp keeps the halves of the clients together.
LEMMA RenameAppKeeps == ASSUME Uncoded, Memory, NEW i \in Apps, NEW n \in Names, RenameApp(i, n) PROVE Memory'
<1> DEFINE c == clients[i]
           v == IF c.virtApp THEN n ELSE c.virtName
           j == IF c.jackApp THEN n ELSE c.jackName
           x == [c EXCEPT !.virtName = v, !.jackName = j]
           a == apps[i]
           b == [a EXCEPT !.name = n]
<1>1. i \in Clients /\ c \in Client /\ Paired(i, c, a) /\ a \in App
  BY Each, OfGraphs
<1>2. n \in Plain
  BY DEF Plain, Uncoded
<1>3. v \in Plain /\ j \in Plain
  BY <1>1, <1>2 DEF Client
<1>4. clients' = [clients EXCEPT ![i] = x]
  BY <1>1, Each DEF RenameApp
<1>5. apps' = [apps EXCEPT ![i] = b]
  BY Each DEF RenameApp
<1>6. /\ x \in Client /\ (x.shown <=> c.shown)
      /\ (x.jack <=> c.jack) /\ (x.virt <=> c.virt) /\ (x.jackPort <=> c.jackPort) /\ (x.virtPort <=> c.virtPort)
      /\ (x.jackApp <=> c.jackApp) /\ (x.virtApp <=> c.virtApp) /\ (x.portApp <=> c.portApp)
      /\ x.jackName = j /\ x.virtName = v /\ x.graph = c.graph
  <2> HIDE DEF v, j, c
  <2> QED
    BY <1>1, <1>3 DEF Client
<1>7. b \in App /\ (b.there <=> a.there) /\ b.name = n /\ (b.running <=> a.running) /\ (b.autorun <=> a.autorun)
  <2> HIDE DEF a
  <2> QED
    BY <1>1, <1>2 DEF App
<1>8. a.there /\ UNCHANGED <<studio, room, link, dicts, conf, files, kept>>
  BY DEF RenameApp
<1>9. (c.virtApp => v = n) /\ (c.jackApp => j = n) /\ (~c.jackApp => j = c.jackName)
  OBVIOUS
<1> HIDE DEF v, j, x, b
<1>10. Paired(i, x, b)
  <2>1. c.virt => c.virtApp /\ c.jackApp
    BY <1>1 DEF Paired
  <2> HIDE DEF c, a
  <2> QED
    BY <1>1, <1>6, <1>7, <1>8, <1>9, <2>1 DEF Paired
<1>11. StillLeft(x, c)
  <2>1. c.jackApp => c.virt
    BY <1>1 DEF Paired
  <2> HIDE DEF c, a
  <2> QED
    BY <1>6, <1>9, <2>1 DEF StillLeft
<1>12. apps' \in [Apps -> App] /\ apps'[i] = b /\ \A k \in Apps \ {i} : apps'[k] = apps[k]
  BY <1>5, <1>7, Each
<1>13. (b.running \/ b.autorun => b.there) /\ (~studio.loaded => ~b.there)
  BY <1>7, Each
<1> QED
  BY <1>1, <1>4, <1>6, <1>8, <1>10, <1>11, <1>12, <1>13, OneChanges

\* ClientUp keeps the halves of the clients together.
LEMMA ClientUpKeeps == ASSUME Memory, NEW i \in Clients, ClientUp(i) PROVE Memory'
<1> DEFINE c == IF KnownClient(i) THEN clients[i] ELSE NoClient
           j == IF c.jack THEN c.jackName ELSE NameOf(i)
           n == IF c.virt THEN c.virtName ELSE NameOf(i)
           of == i \in Apps
           v == c.virtApp \/ (of /\ (c.jackPort \/ ~c.virt))
           h == Graph(i)
           x == [c EXCEPT !.jack = TRUE, !.virt = TRUE, !.jackPort = TRUE, !.virtPort = TRUE, !.shown = TRUE,
                          !.jackName = j, !.virtName = n, !.jackApp = of, !.portApp = of, !.virtApp = v,
                          !.graph = h]
<1>1. clients[i] \in Client /\ Paired(i, clients[i], apps[i]) /\ (i \in Apps => apps[i] \in App)
  BY Each
<1>2. c \in Client /\ Paired(i, c, apps[i])
  BY <1>1, NoneTyped, NoClientPaired
<1>3. NameOf(i) \in Plain
  BY <1>1 DEF NameOf, App, Plain
<1>4. j \in Plain /\ n \in Plain /\ of \in BOOLEAN /\ v \in BOOLEAN /\ h \in {"none"} \cup Graphs
  <2>1. j \in Plain /\ n \in Plain
    <3> HIDE DEF c
    <3> QED
      BY <1>2, <1>3 DEF Client
  <2>2. h \in Graphs
    BY OfGraphs
  <2> HIDE DEF j, n, h
  <2> QED
    BY <2>1, <2>2
<1>5. clients' = [clients EXCEPT ![i] = x]
  BY DEF ClientUp
<1>6. i \in Apps => apps[i].there
  <2>1. i \in Apps => apps[i].running
    BY DEF ClientUp, MayAppear
  <2> QED
    BY <2>1, Each
<1>7. i \in Apps => j = apps[i].name /\ n = apps[i].name /\ v
  <2> SUFFICES ASSUME i \in Apps PROVE j = apps[i].name /\ n = apps[i].name /\ v
    OBVIOUS
  <2>1. NameOf(i) = apps[i].name
    BY DEF NameOf
  <2>2. c.virt => c.virtApp /\ c.jackName = apps[i].name /\ c.virtName = apps[i].name
    BY <1>2 DEF Paired
  <2>3. c.jackApp => c.virt
    BY <1>2 DEF Paired
  <2>4. c.jack => c.jackApp \/ c.jackName = apps[i].name
    <3>1. ~NoClient.jack
      BY DEF NoClient
    <3> QED
      BY <2>1, <3>1 DEF KnownClient
  <2> HIDE DEF c
  <2> QED
    BY <2>1, <2>2, <2>3, <2>4
<1>8. i \notin Apps => ~v
  BY <1>2 DEF Paired
<1>9. h = Graph(i)
  OBVIOUS
<1> HIDE DEF c, j, n, v, h
<1>10. /\ x \in Client /\ x.shown /\ x.jack /\ x.virt /\ x.jackPort /\ x.virtPort
       /\ (x.jackApp <=> of) /\ (x.virtApp <=> v) /\ (x.portApp <=> of)
       /\ x.jackName = j /\ x.virtName = n /\ x.graph = h
  <2> HIDE DEF of
  <2> QED
    BY <1>2, <1>4 DEF Client
<1> HIDE DEF x
<1>11. Paired(i, x, apps[i])
  BY <1>6, <1>7, <1>8, <1>9, <1>10 DEF Paired
<1>12. StillLeft(x, clients[i])
  BY <1>10 DEF StillLeft
<1>13. UNCHANGED <<studio, room, apps, link, dicts, conf, files, kept>>
  BY DEF ClientUp
<1> QED
  BY <1>5, <1>10, <1>11, <1>12, <1>13, Each, OneChanges

\* StopStudio keeps the halves of the clients together.
LEMMA StopStudioKeeps == ASSUME Memory, StopStudio PROVE Memory'
<1>1. \A i \in Clients : /\ clients'[i] \in Client /\ Paired(i, clients'[i], apps[i])
                         /\ StillLeft(clients'[i], clients[i])
  <2> SUFFICES ASSUME NEW i \in Clients
               PROVE  /\ clients'[i] \in Client /\ Paired(i, clients'[i], apps[i])
                      /\ StillLeft(clients'[i], clients[i])
    OBVIOUS
  <2> DEFINE c == clients[i]
             x == [c EXCEPT !.shown = FALSE]
  <2>1. clients'[i] = x
    BY DEF StopStudio
  <2>2. c \in Client /\ Paired(i, c, apps[i])
    BY Each
  <2>3. x \in Client /\ Paired(i, x, apps[i]) /\ StillLeft(x, c)
    <3> HIDE DEF c
    <3> QED
      BY <2>2, HiddenFields, NoneTyped
  <2> HIDE DEF x
  <2> QED
    BY <2>1, <2>3
<1>2. \A i \in Apps : /\ apps'[i] \in App /\ (apps'[i].there <=> apps[i].there) /\ apps'[i].name = apps[i].name
                      /\ apps'[i].running \/ apps'[i].autorun => apps[i].running \/ apps[i].autorun
  <2> SUFFICES ASSUME NEW i \in Apps
               PROVE  /\ apps'[i] \in App /\ (apps'[i].there <=> apps[i].there) /\ apps'[i].name = apps[i].name
                      /\ apps'[i].running \/ apps'[i].autorun => apps[i].running \/ apps[i].autorun
    OBVIOUS
  <2> DEFINE a == apps[i]
             y == [a EXCEPT !.running = FALSE, !.autorun = TRUE]
  <2>1. apps'[i] = IF a.running THEN y ELSE a
    BY DEF StopStudio
  <2>2. a \in App
    BY Each
  <2> HIDE DEF a
  <2>3. y \in App /\ (y.there <=> a.there) /\ y.name = a.name
    BY <2>2, AppFlags
  <2> HIDE DEF y
  <2> QED
    BY <2>1, <2>2, <2>3 DEF a
<1>3. clients' \in [Clients -> Client]
  <2>1. clients' = [i \in Clients |-> clients'[i]]
    BY DEF StopStudio
  <2> QED
    BY <1>1, <2>1
<1>4. apps' \in [Apps -> App]
  <2>1. apps' = [i \in Apps |-> apps'[i]]
    BY DEF StopStudio
  <2> QED
    BY <1>2, <2>1
<1>5. \A i \in Clients : Paired(i, clients'[i], apps'[i])
  BY <1>1, <1>2 DEF Paired
<1>6. \A i \in Of("room") : StillLeft(clients'[i], clients[i])
  BY <1>1, OfGraphs
<1>7. /\ studio' \in [loaded : BOOLEAN, started : BOOLEAN] /\ (studio'.loaded <=> studio.loaded) /\ ~studio'.started
      /\ link' \in [shown : BOOLEAN, dict : Int] /\ ~link'.shown
      /\ room' = room
  BY Each DEF StopStudio
<1>8. Belong'
  BY <1>2, <1>7, Each DEF Belong
<1>9. UNCHANGED <<dicts, conf, files, kept>>
  BY DEF StopStudio
<1> QED
  BY <1>3, <1>4, <1>5, <1>6, <1>7, <1>8, <1>9, Each, ClientsChange

\* The room's apps are gone, the others as they were.
LEMMA AppsTakenFields ==
  ASSUME Memory
  PROVE  /\ AppsTaken \in [Apps -> App]
         /\ \A i \in Apps : /\ i \in RoomApps => AppsTaken[i] = NoApp
                            /\ i \notin RoomApps => AppsTaken[i] = apps[i]
BY Each, NoneTyped DEF AppsTaken

\* UnloadProject keeps the halves of the clients together.
LEMMA UnloadProjectKeeps == ASSUME Memory, UnloadProject PROVE Memory'
<1>1. \A i \in Clients :
        LET c == ClientsTaken[i] IN
         /\ c \in Client
         /\ i \notin Of("room") => c = clients[i]
         /\ i \in Of("room") =>
              /\ Bare(c)
              /\ c.jack => clients[i].jack /\ ~clients[i].virt /\ c.jackName = clients[i].jackName
  BY TakenFields DEF Memory
<1>2. clients' = ClientsTaken /\ apps' = AppsTaken
  BY DEF UnloadProject
<1>3. clients' \in [Clients -> Client]
  <2>1. ClientsTaken = [i \in Clients |-> ClientsTaken[i]]
    BY DEF ClientsTaken
  <2> QED
    BY <1>1, <1>2, <2>1
<1>4. \A i \in Clients : Paired(i, clients'[i], apps'[i])
  <2> SUFFICES ASSUME NEW i \in Clients PROVE Paired(i, clients'[i], apps'[i])
    OBVIOUS
  <2>1. CASE i \in Of("room")
    BY <1>1, <1>2, <2>1, BarePaired
  <2>2. CASE i \notin Of("room")
    <3>1. clients'[i] = clients[i] /\ Paired(i, clients[i], apps[i])
      BY <1>1, <1>2, <2>2, Each
    <3>2. i \in Apps => apps'[i] = apps[i]
      BY <1>2, <2>2, AppsTakenFields, OfGraphs
    <3> QED
      BY <3>1, <3>2, PairedAny
  <2> QED
    BY <2>1, <2>2
<1>5. \A i \in Of("room") : StillLeft(clients'[i], clients[i])
  BY <1>1, <1>2, OfGraphs DEF StillLeft
<1>6. /\ room' \in [there : BOOLEAN, name : Int, project : BOOLEAN, text : Int] /\ (room'.there <=> room.there)
      /\ UNCHANGED <<studio, link, dicts, conf, files, kept>>
  BY Each, NoneTyped DEF UnloadProject
<1>7. Belong'
  <2>1. ~NoApp.there /\ ~NoApp.running /\ ~NoApp.autorun
    BY DEF NoApp
  <2> QED
    BY <1>2, <1>6, <2>1, Each, AppsTakenFields DEF Belong
<1> QED
  BY <1>2, <1>3, <1>4, <1>5, <1>6, <1>7, Each, AppsTakenFields, ClientsChange

\* Another app record with the same name.
LEMMA PairedSame ==
  ASSUME NEW i, NEW c, NEW a, NEW b, Paired(i, c, a),
         i \in Apps => (a.there => b.there) /\ b.name = a.name
  PROVE  Paired(i, c, b)
BY DEF Paired

\* LoadStudio keeps the halves of the clients together.
LEMMA LoadStudioKeeps == ASSUME Memory, Written, LoadStudio PROVE Memory'
<1> DEFINE d == files["studio"]
           as == ReadApps(d, apps)
           cs == Interlink("studio", StudioVirt(d), as)
<1>0. "studio" \in Graphs /\ Complete("studio", d)
  BY GraphsDiffer DEF LoadStudio, Written
<1>1. apps' = as /\ clients' = cs
  BY DEF LoadStudio
<1>2. apps \in [Apps -> App]
  BY Each
<1>3. apps' \in [Apps -> App]
      /\ \A i \in Apps : apps'[i].running \/ apps'[i].autorun => apps'[i].there
  <2>1. as \in [Apps -> App] /\ \A i \in Apps \ DOMAIN d.graph.apps : as[i] = apps[i]
    BY <1>0, <1>2, ReadAppsTyped
  <2>2. \A i \in DOMAIN d.graph.apps : as[i].there
    BY <1>0, ReadAppsFields
  <2> HIDE DEF as, d
  <2> QED
    BY <1>1, <2>1, <2>2, Each
<1>4. ASSUME NEW i \in Clients
      PROVE  /\ clients'[i] \in Client /\ Paired(i, clients'[i], apps'[i])
             /\ i \in Of("room") => clients'[i] = NoClient
  <2>1. /\ cs[i] \in Client /\ Paired(i, cs[i], as[i])
        /\ i \in Of("room") => cs[i] = NoClient
    <3> HIDE DEF d
    <3> QED
      BY <1>0, <1>2, StudioRead
  <2> HIDE DEF cs, as
  <2> QED
    BY <1>1, <2>1
<1>5. clients' \in [Clients -> Client]
  <2>1. cs = [i \in Clients |-> cs[i]]
    BY DEF Interlink, InterlinkPorts
  <2> HIDE DEF cs
  <2> QED
    BY <1>1, <1>4, <2>1
<1>6. \A i \in Of("room") : StillLeft(clients'[i], clients[i])
  <2>1. ~NoClient.jack
    BY DEF NoClient
  <2> QED
    BY <1>4, <2>1, OfGraphs DEF StillLeft
<1>7. studio' \in [loaded : BOOLEAN, started : BOOLEAN] /\ studio'.loaded
  BY Each DEF LoadStudio
<1>8. /\ d.text \in Int /\ d.dict \in Int /\ d.room.there \in BOOLEAN /\ d.room.name \in Int
      /\ d.room.dict \in Int
  BY <1>0 DEF Complete
<1>9. /\ room' \in [there : BOOLEAN, name : Int, project : BOOLEAN, text : Int]
      /\ link' \in [shown : BOOLEAN, dict : Int] /\ ~link'.shown
      /\ dicts' \in [Graphs -> Int] /\ conf' \in Int
  <2>1. room' = StudioRoom(d) /\ link' = StudioLink(d) /\ conf' = ConfRead(d, FALSE)
        /\ dicts' = [dicts EXCEPT !["studio"] = DictRead(d.dict, dicts["studio"])]
    BY DEF LoadStudio
  <2> HIDE DEF d
  <2>2. room' \in [there : BOOLEAN, name : Int, project : BOOLEAN, text : Int]
    BY <1>8, <2>1, NoneTyped DEF StudioRoom, NoRoom
  <2>3. link' \in [shown : BOOLEAN, dict : Int] /\ ~link'.shown
    BY <1>8, <2>1 DEF StudioLink, NoLink
  <2>4. dicts' \in [Graphs -> Int] /\ conf' \in Int
    BY <1>0, <1>8, <2>1, Each DEF ConfRead, DictRead
  <2> QED
    BY <2>2, <2>3, <2>4
<1>10. Belong'
  BY <1>3, <1>7, <1>9 DEF Belong
<1> QED
  BY <1>3, <1>4, <1>5, <1>6, <1>7, <1>9, <1>10, ClientsChange DEF LoadStudio

\* LoadProject keeps the halves of the clients together.
LEMMA LoadProjectKeeps == ASSUME Memory, Written, LoadProject PROVE Memory'
<1> DEFINE d == files["room"]
           as == ReadApps(d, AppsTaken)
           cs == Interlink("room", ProjectVirt(d, ClientsTaken), as)
<1>0. "room" \in Graphs /\ Complete("room", d) /\ d.there
  BY GraphsDiffer DEF LoadProject, Written
<1>1. apps' = Autorun("room", as) /\ clients' = cs
  BY DEF LoadProject
<1>2. AppsTaken \in [Apps -> App]
  BY AppsTakenFields
<1>3. /\ as \in [Apps -> App]
      /\ \A i \in Apps \ DOMAIN d.graph.apps : as[i] = AppsTaken[i]
      /\ \A i \in DOMAIN d.graph.apps : as[i].there
  BY <1>0, <1>2, ReadAppsTyped, ReadAppsFields
<1>4. /\ apps' \in [Apps -> App]
      /\ \A i \in Apps : /\ (apps'[i].there <=> as[i].there) /\ apps'[i].name = as[i].name
                         /\ (apps'[i].running \/ apps'[i].autorun <=> as[i].running \/ as[i].autorun)
  <2> HIDE DEF as
  <2> QED
    BY <1>0, <1>1, <1>3, AutorunFields
<1>5. DOMAIN d.graph.apps \subseteq Of("room") \cap Apps
  BY <1>0 DEF Complete
<1>6. \A i \in Apps : i \notin Of("room") => as[i] = apps[i]
  BY <1>3, <1>5, AppsTakenFields, OfGraphs
<1>7. \A i \in Apps : apps'[i].running \/ apps'[i].autorun => apps'[i].there
  <2>1. \A i \in Apps : as[i].running \/ as[i].autorun => as[i].there
    <3>1. ~NoApp.running /\ ~NoApp.autorun
      BY DEF NoApp
    <3> HIDE DEF as, d
    <3> QED
      BY <1>3, <3>1, AppsTakenFields, Each
  <2> HIDE DEF as
  <2> QED
    BY <1>4, <2>1
<1>8. ASSUME NEW i \in Clients
      PROVE  /\ clients'[i] \in Client /\ Paired(i, clients'[i], apps'[i])
             /\ i \in Of("room") /\ i \in DOMAIN d.graph.clients => clients'[i].virt
  <2>1. /\ cs[i] \in Client
        /\ i \notin Of("room") => cs[i] = clients[i]
        /\ i \in Of("room") => Paired(i, cs[i], as[i])
        /\ i \in DOMAIN d.graph.clients => cs[i].virt
    <3>1. LeftOf(d) /\ TypeOK /\ Halves
      BY DEF Memory, Leftovers
    <3> HIDE DEF d
    <3> QED
      BY <1>0, <1>2, <3>1, ProjectRead
  <2>2. i \notin Of("room") => Paired(i, cs[i], apps[i])
    BY <2>1, Each
  <2>3. Paired(i, cs[i], as[i])
    <3> HIDE DEF cs, as
    <3> QED
      BY <1>6, <2>1, <2>2, PairedAny
  <2> HIDE DEF cs, as
  <2> QED
    BY <1>1, <1>4, <2>1, <2>3, PairedSame
<1>9. clients' \in [Clients -> Client]
  <2>1. cs = [i \in Clients |-> cs[i]]
    BY DEF Interlink, InterlinkPorts
  <2> HIDE DEF cs
  <2> QED
    BY <1>1, <1>8, <2>1
<1>10. Leftovers'
  <2>1. files' = files
    BY DEF LoadProject
  <2> QED
    BY <1>8, <2>1, OfGraphs DEF Leftovers, LeftOf
<1>11. d.text \in Int /\ d.dict \in Int /\ d.room.dict \in Int
  BY <1>0 DEF Complete
<1>12. /\ room' \in [there : BOOLEAN, name : Int, project : BOOLEAN, text : Int] /\ (room'.there <=> room.there)
       /\ link' \in [shown : BOOLEAN, dict : Int] /\ (link'.shown <=> link.shown)
       /\ dicts' \in [Graphs -> Int]
  <2>1. room' = [room EXCEPT !.project = TRUE, !.text = Unescape(d.text)]
        /\ link' = [link EXCEPT !.dict = DictRead(d.room.dict, link.dict)]
        /\ dicts' = [dicts EXCEPT !["room"] = DictRead(d.dict, dicts["room"])]
    BY Each DEF LoadProject, TextRead
  <2>2. Unescape(d.text) \in Int
    BY <1>11, StringsRead
  <2> DEFINE t == Unescape(d.text)
             u == DictRead(d.room.dict, link.dict)
             v == DictRead(d.dict, dicts["room"])
  <2>3. u \in Int /\ v \in Int /\ t \in Int
    BY <1>0, <1>11, <2>2, Each DEF DictRead
  <2> HIDE DEF t, u, v
  <2>4. room' = [room EXCEPT !.project = TRUE, !.text = t] /\ link' = [link EXCEPT !.dict = u]
        /\ dicts' = [dicts EXCEPT !["room"] = v]
    BY <2>1 DEF t, u, v
  <2> QED
    BY <1>0, <2>3, <2>4, Each
<1>13. Belong'
  <2>1. \A i \in Apps : ~studio.loaded => ~apps'[i].there
    BY Each DEF LoadProject
  <2> QED
    BY <1>7, <1>12, <2>1, Each DEF Belong, LoadProject
<1> QED
  BY <1>4, <1>8, <1>9, <1>10, <1>12, <1>13, Each, MemoryNext DEF LoadProject

\* LoadProjectFails keeps the halves of the clients together.
LEMMA LoadProjectFailsKeeps == ASSUME Memory, Written, LoadProjectFails PROVE Memory'
<1> DEFINE d == files["room"]
           cs == ProjectJack(d, ClientsTaken)
<1>0. Complete("room", d) /\ d.there
  BY GraphsDiffer DEF LoadProjectFails, Written
<1>1. apps' = AppsTaken /\ clients' = IF Legal(d.room.dict) /\ Fits(d.room.dict) THEN cs ELSE ClientsTaken
  BY DEF LoadProjectFails
<1>2. LeftOf(d) /\ TypeOK /\ Halves
  BY DEF Memory, Leftovers
<1>3. ASSUME NEW i \in Clients
      PROVE  /\ clients'[i] \in Client
             /\ i \notin Of("room") => clients'[i] = clients[i]
             /\ i \in Of("room") => Bare(clients'[i])
             /\ i \in Of("room") /\ i \in DOMAIN d.graph.clients /\ clients'[i].jack
                  => clients'[i].jackName = Unescape(d.jack[i].name)
  <2>1. CASE Legal(d.room.dict) /\ Fits(d.room.dict)
    <3>1. /\ cs[i] \in Client
          /\ i \notin Of("room") => cs[i] = clients[i]
          /\ i \in Of("room") => Bare(cs[i])
          /\ i \in DOMAIN d.graph.clients /\ cs[i].jack => cs[i].jackName = Unescape(d.jack[i].name)
      <4> HIDE DEF d
      <4> QED
        BY <1>0, <1>2, ProjectJackFields
    <3>2. clients' = cs
      BY <1>1, <2>1
    <3> HIDE DEF cs, d
    <3> QED
      BY <3>1, <3>2
  <2>2. CASE ~(Legal(d.room.dict) /\ Fits(d.room.dict))
    <3> DEFINE c == ClientsTaken[i]
    <3>1. /\ c \in Client
          /\ i \notin Of("room") => c = clients[i]
          /\ i \in Of("room") =>
               /\ Bare(c)
               /\ c.jack => clients[i].jack /\ ~clients[i].virt /\ c.jackName = clients[i].jackName
      BY <1>2, TakenFields
    <3>2. clients'[i] = c
      BY <1>1, <2>2
    <3> HIDE DEF c
    <3> QED
      BY <1>0, <1>2, <3>1, <3>2 DEF LeftOf
  <2> QED
    BY <2>1, <2>2
<1>4. clients' \in [Clients -> Client]
  <2>1. cs = [i \in Clients |-> cs[i]] /\ ClientsTaken = [i \in Clients |-> ClientsTaken[i]]
    BY DEF ProjectJack, ClientsTaken
  <2>2. clients' = [i \in Clients |-> clients'[i]]
    <3> HIDE DEF cs
    <3> QED
      BY <1>1, <2>1
  <2> QED
    BY <1>3, <2>2
<1>5. \A i \in Clients : Paired(i, clients'[i], apps'[i])
  <2> SUFFICES ASSUME NEW i \in Clients PROVE Paired(i, clients'[i], apps'[i])
    OBVIOUS
  <2>1. CASE i \in Of("room")
    BY <1>3, <2>1, BarePaired
  <2>2. CASE i \notin Of("room")
    <3>1. clients'[i] = clients[i] /\ Paired(i, clients[i], apps[i])
      BY <1>3, <2>2, Each
    <3>2. i \in Apps => apps'[i] = apps[i]
      BY <1>1, <2>2, AppsTakenFields, OfGraphs
    <3> QED
      BY <3>1, <3>2, PairedAny
  <2> QED
    BY <2>1, <2>2
<1>6. /\ room' \in [there : BOOLEAN, name : Int, project : BOOLEAN, text : Int] /\ (room'.there <=> room.there)
      /\ UNCHANGED <<studio, link, dicts, conf, files, kept>>
  BY Each, NoneTyped DEF LoadProjectFails
<1>7. Belong'
  <2>1. ~NoApp.there /\ ~NoApp.running /\ ~NoApp.autorun
    BY DEF NoApp
  <2> QED
    BY <1>1, <1>6, <2>1, Each, AppsTakenFields DEF Belong
<1>8. Leftovers'
  BY <1>3, <1>6, OfGraphs DEF Leftovers, LeftOf
<1> QED
  BY <1>1, <1>4, <1>5, <1>6, <1>7, <1>8, Each, AppsTakenFields, MemoryNext

-----------------------------------------------------------------------------
(* What is written is complete, and says what there is. *)

\* The ends of a connection of a graph are the room's port or clients of that graph.
LEMMA WireEnds ==
  ASSUME NEW g \in Graphs, NEW w \in WiresOf(g), NEW p \in w
  PROVE  p = Link \/ p \in Of(g)
<1>1. w \in Wires /\ w \cap Of(g) # {}
  BY DEF WiresOf
<1>2. PICK h \in Graphs : w \subseteq Of(h) \cup {Link}
  BY <1>1, DocumentsAssumption
<1>3. PICK q \in w : q \in Of(g)
  BY <1>1
<1>4. q # Link
  BY <1>3, OfGraphs, DocumentsAssumption
<1>5. h = g
  BY <1>2, <1>3, <1>4, OfDisjoint
<1> QED
  BY <1>2, <1>5

\* Which clients are in the two halves of a file.
LEMMA HalvesWritten ==
  ASSUME Memory, NEW g \in Graphs
  PROVE  /\ JackWritten(g) \subseteq Of(g)
         /\ VirtWritten(g) \subseteq JackWritten(g)
         /\ \A i \in VirtWritten(g) : VirtPortWritten(i) => JackPortWritten(i)
         /\ \A i \in Of(g) : VirtPortWritten(i) => i \in VirtWritten(g)
         /\ \A i \in Of(g) : VirtPortWritten(i) <=> Lasting(i)
<1>0. "none" # g
  BY GraphsDiffer
<1>1. \A i \in Clients : Paired(i, clients[i], apps[i])
  BY Each
<1>2. Of(g) \subseteq Clients /\ \A i \in Of(g) : Graph(i) = g
  BY DEF Of
<1>3. JackWritten(g) \subseteq Of(g)
  BY <1>0, <1>1 DEF JackWritten, Of, Paired
<1>4. VirtWritten(g) \subseteq JackWritten(g)
  BY <1>1, <1>2 DEF VirtWritten, JackWritten, Paired
<1>5. ASSUME NEW i \in Of(g), VirtPortWritten(i)
      PROVE  JackPortWritten(i) /\ i \in VirtWritten(g) /\ Lasting(i)
  <2>1. Paired(i, clients[i], apps[i])
    BY <1>1, <1>2
  <2>2. JackPortWritten(i)
    BY <1>5, <2>1 DEF VirtPortWritten, JackPortWritten, Paired
  <2>3. i \in VirtWritten(g)
    BY <1>5, <2>1 DEF VirtPortWritten, VirtWritten, Interesting, Paired
  <2>4. Lasting(i)
    BY <1>5, <2>1 DEF VirtPortWritten, Lasting, Stopped, Interesting, Paired
  <2> QED
    BY <2>2, <2>3, <2>4
<1>6. ASSUME NEW i \in Of(g), Lasting(i) PROVE VirtPortWritten(i)
  <2>1. Paired(i, clients[i], apps[i])
    BY <1>1, <1>2
  <2> QED
    BY <1>6, <2>1 DEF VirtPortWritten, Lasting, Stopped, Interesting, Paired
<1>7. VirtWritten(g) \subseteq Of(g)
  BY DEF VirtWritten
<1> QED
  BY <1>3, <1>4, <1>5, <1>6, <1>7

\* The elements of the clients of a file.
LEMMA ClientsWritten ==
  ASSUME Memory, NEW g \in Graphs, NEW i \in Clients
  PROVE  /\ i \in JackWritten(g) =>
              LET j == WriteJGraph(g)[i] IN
              /\ j.name \in Coded /\ j.name = EscapeAttr(clients[i].jackName)
              /\ j.port \in BOOLEAN /\ (j.port <=> JackPortWritten(i))
         /\ i \in VirtWritten(g) =>
              LET v == WriteVGraph(g).clients[i] IN
              /\ v.name \in Coded /\ v.name = EscapeAttr(clients[i].virtName)
              /\ Unescape(v.name) = clients[i].virtName
              /\ v.app \in BOOLEAN /\ (v.app <=> clients[i].virtApp)
              /\ v.port \in BOOLEAN /\ (v.port <=> VirtPortWritten(i))
              /\ v.dict \in Int /\ (v.port => v.dict = clients[i].dict)
<1> DEFINE c == clients[i]
           jn == EscapeAttr(c.jackName)
           vn == EscapeAttr(c.virtName)
           jp == JackPortWritten(i)
           vp == VirtPortWritten(i)
<1>1. c \in Client
  BY Each
<1>2. c.jackName \in Plain /\ c.virtName \in Plain /\ c.dict \in Int /\ c.virtApp \in BOOLEAN
      /\ c.jackPort \in BOOLEAN /\ c.virtPort \in BOOLEAN /\ c.shown \in BOOLEAN
  <2> HIDE DEF c
  <2> QED
    BY <1>1 DEF Client
<1>3. jn \in Coded /\ vn \in Coded /\ Unescape(vn) = c.virtName
  <2> HIDE DEF c
  <2> QED
    BY <1>2, NamesCoded
<1>4. jp \in BOOLEAN /\ vp \in BOOLEAN
  BY DEF JackPortWritten, VirtPortWritten
<1>5. ASSUME i \in JackWritten(g) PROVE WriteJGraph(g)[i] = [name |-> jn, port |-> jp]
  BY <1>5 DEF WriteJGraph
<1>6. ASSUME i \in VirtWritten(g)
      PROVE  WriteVGraph(g).clients[i] = [name |-> vn, app |-> c.virtApp, port |-> vp,
                                          dict |-> IF vp THEN c.dict ELSE None]
  BY <1>6 DEF WriteVGraph, WriteDict, Raw
<1>7. ASSUME i \in JackWritten(g)
      PROVE  LET j == WriteJGraph(g)[i] IN
             /\ j.name \in Coded /\ j.name = jn
             /\ j.port \in BOOLEAN /\ (j.port <=> jp)
  <2> HIDE DEF jn, jp
  <2> QED
    BY <1>3, <1>4, <1>5, <1>7
<1>8. ASSUME i \in VirtWritten(g)
      PROVE  LET v == WriteVGraph(g).clients[i] IN
             /\ v.name \in Coded /\ v.name = vn /\ Unescape(v.name) = c.virtName
             /\ v.app \in BOOLEAN /\ (v.app <=> c.virtApp)
             /\ v.port \in BOOLEAN /\ (v.port <=> vp)
             /\ v.dict \in Int /\ (v.port => v.dict = c.dict)
  <2> HIDE DEF vn, vp, c
  <2> QED
    BY <1>2, <1>3, <1>4, <1>6, <1>8, NoneTyped
<1> QED
  BY <1>7, <1>8

\* The apps of a file.
LEMMA AppsWritten ==
  ASSUME Memory, NEW g \in Graphs
  PROVE  LET as == WriteVGraph(g).apps IN
         /\ DOMAIN as = { a \in Apps \cap Of(g) : apps[a].there }
         /\ \A i \in DOMAIN as :
              /\ as[i].name \in Coded /\ as[i].name = EscapeAttr(apps[i].name)
              /\ as[i].command \in Int \ {0} /\ as[i].autorun \in BOOLEAN
              /\ <<Unescape(as[i].name), Unescape(as[i].command), as[i].autorun>>
                   = <<apps[i].name, apps[i].command, apps[i].running>>
<1> DEFINE as == WriteVGraph(g).apps
           A == { a \in Apps \cap Of(g) : apps[a].there }
<1>1. as = [i \in A |-> AppWritten(i)]
  BY DEF WriteVGraph
<1>2. ASSUME NEW i \in A
      PROVE  /\ as[i].name \in Coded /\ as[i].name = EscapeAttr(apps[i].name)
             /\ as[i].command \in Int \ {0} /\ as[i].autorun \in BOOLEAN
             /\ <<Unescape(as[i].name), Unescape(as[i].command), as[i].autorun>>
                   = <<apps[i].name, apps[i].command, apps[i].running>>
  <2> DEFINE n == EscapeAll(apps[i].name)
             c == EscapeAll(apps[i].command)
             r == apps[i].running
  <2>1. as[i] = [name |-> n, command |-> c, autorun |-> r]
    BY <1>1 DEF AppWritten
  <2>2. apps[i] \in App
    BY Each
  <2>3. apps[i].name \in Plain /\ apps[i].command \in Int /\ r \in BOOLEAN
    BY <2>2 DEF App
  <2>4. n \in Coded /\ n = EscapeAttr(apps[i].name) /\ Unescape(n) = apps[i].name
    BY <2>3, NamesCoded
  <2>5. c \in Int \ {0} /\ Unescape(c) = apps[i].command
    BY <2>3, StringsCoded
  <2> HIDE DEF n, c, r, as
  <2>6. as[i].name = n /\ as[i].command = c /\ as[i].autorun = r
    BY <2>1
  <2>7. as[i].autorun = apps[i].running
    BY <2>6 DEF r
  <2> QED
    BY <2>3, <2>4, <2>5, <2>6, <2>7
<1> HIDE DEF as
<1>3. DOMAIN as = A
  BY <1>1
<1> QED
  BY <1>2, <1>3 DEF as

\* What a file has of the strings beside the graph.
Told(g, d) ==
  /\ d.text \in Int /\ d.dict \in Int
  /\ d.room.there \in BOOLEAN /\ d.room.name \in Int /\ d.room.dict \in Int
  /\ g = "studio" => (d.graph.link => d.room.there)
  /\ g = "room" => Legal(d.text)

\* What the writers write of a graph is complete (save.c).
LEMMA WrittenComplete ==
  ASSUME Memory, NEW g \in Graphs, NEW d, d.jack = WriteJGraph(g), d.graph = WriteVGraph(g), Told(g, d)
  PROVE  Complete(g, d)
<1> DEFINE J == WriteJGraph(g)
           V == WriteVGraph(g)
<1>1. DOMAIN J = JackWritten(g) /\ DOMAIN V.clients = VirtWritten(g) /\ V.link = link.shown
      /\ V.wires = { w \in wired \cap WiresOf(g) : \A p \in w : EndWritten(p) }
  BY DEF WriteJGraph, WriteVGraph
<1>2. /\ JackWritten(g) \subseteq Of(g) /\ VirtWritten(g) \subseteq JackWritten(g)
      /\ \A i \in VirtWritten(g) : VirtPortWritten(i) => JackPortWritten(i)
      /\ \A i \in Of(g) : VirtPortWritten(i) => i \in VirtWritten(g)
  BY HalvesWritten
<1>3. Of(g) \subseteq Clients
  BY OfGraphs
<1>4. \A i \in DOMAIN J : J[i].name \in Coded /\ J[i].port \in BOOLEAN
  BY <1>1, <1>2, <1>3, ClientsWritten
<1>5. ASSUME NEW i \in DOMAIN V.clients
      PROVE  LET c == V.clients[i] IN
             /\ c.name \in Coded /\ c.dict \in Int
             /\ c.app \in BOOLEAN /\ (c.app <=> i \in Apps)
             /\ c.port \in BOOLEAN
             /\ c.port => J[i].port
             /\ i \in Apps => /\ i \in DOMAIN V.apps
                              /\ J[i].name = V.apps[i].name /\ c.name = V.apps[i].name
  <2> DEFINE c == V.clients[i]
  <2>1. i \in VirtWritten(g) /\ i \in JackWritten(g) /\ i \in Of(g) /\ i \in Clients
    BY <1>1, <1>2, <1>3
  <2>2. /\ J[i].name = EscapeAttr(clients[i].jackName) /\ (J[i].port <=> JackPortWritten(i))
    BY <2>1, ClientsWritten
  <2>3. /\ c.name \in Coded /\ c.name = EscapeAttr(clients[i].virtName)
        /\ c.app \in BOOLEAN /\ (c.app <=> clients[i].virtApp)
        /\ c.port \in BOOLEAN /\ (c.port <=> VirtPortWritten(i))
        /\ c.dict \in Int
    BY <2>1, ClientsWritten
  <2>4. Paired(i, clients[i], apps[i]) /\ clients[i].virt
    BY <2>1, Each DEF VirtWritten
  <2>5. clients[i].virtApp <=> i \in Apps
    BY <2>4 DEF Paired
  <2>6. i \in Apps => apps[i].there /\ clients[i].jackName = apps[i].name /\ clients[i].virtName = apps[i].name
    BY <2>4 DEF Paired
  <2>7. DOMAIN V.apps = { a \in Apps \cap Of(g) : apps[a].there }
        /\ \A k \in DOMAIN V.apps : V.apps[k].name = EscapeAttr(apps[k].name)
    BY AppsWritten
  <2> HIDE DEF J, V
  <2>8. i \in Apps => /\ i \in DOMAIN V.apps
                      /\ J[i].name = V.apps[i].name /\ c.name = V.apps[i].name
    BY <2>1, <2>2, <2>3, <2>6, <2>7
  <2>9. c.port => J[i].port
    BY <1>2, <2>1, <2>2, <2>3
  <2> QED
    BY <2>3, <2>5, <2>8, <2>9
<1>6. /\ DOMAIN V.apps \subseteq Apps \cap Of(g)
      /\ \A i \in DOMAIN V.apps : LET a == V.apps[i] IN
           a.name \in Coded /\ a.command \in Int \ {0} /\ a.autorun \in BOOLEAN
  BY AppsWritten
<1>7. ASSUME NEW w \in V.wires, NEW p \in w
      PROVE  IF p = Link THEN V.link ELSE p \in DOMAIN V.clients /\ V.clients[p].port
  <2>1. w \in WiresOf(g) /\ EndWritten(p)
    BY <1>1
  <2>2. CASE p = Link
    BY <1>1, <2>1, <2>2 DEF EndWritten
  <2>3. CASE p # Link
    <3>1. p \in Of(g) /\ VirtPortWritten(p)
      BY <2>1, <2>3, WireEnds DEF EndWritten
    <3>2. p \in VirtWritten(g) /\ p \in Clients
      BY <1>2, <1>3, <3>1
    <3>3. V.clients[p].port
      BY <3>1, <3>2, ClientsWritten
    <3> QED
      BY <1>1, <2>3, <3>2, <3>3
  <2> QED
    BY <2>2, <2>3
<1> HIDE DEF J, V
<1>8. d.jack = J /\ d.graph = V
  BY DEF J, V
<1>9. d.graph.wires \subseteq WiresOf(g)
  BY <1>1, <1>8
<1>10. WiresFound(d, d.graph.link)
  BY <1>7, <1>8 DEF WiresFound, PortRead
<1>11. DOMAIN d.jack \subseteq Of(g) /\ DOMAIN d.graph.clients \subseteq DOMAIN d.jack
  BY <1>1, <1>2, <1>8
<1> QED
  BY <1>4, <1>5, <1>6, <1>8, <1>9, <1>10, <1>11 DEF Complete, Told

\* The strings of a file are what there is to keep.
Kept(g, d) ==
  /\ d.dict = dicts[g]
  /\ g = "studio" => d.text = conf /\ d.room.name = room.name
  /\ g = "room" => Unescape(d.text) = room.text

\* What the writers write of a graph says what there was to keep (save.c).
LEMMA WrittenSays ==
  ASSUME Memory, NEW g \in Graphs, NEW d, d.graph = WriteVGraph(g), Kept(g, d)
  PROVE  Says(g, d, Worth(g))
<1> DEFINE V == WriteVGraph(g)
           k == Worth(g)
           A == { a \in Apps \cap Of(g) : apps[a].there }
           P == { c \in Of(g) : Lasting(c) }
<1>1. /\ k.apps = [i \in A |-> <<apps[i].name, apps[i].command, apps[i].running>>]
      /\ k.ports = [i \in P |-> <<clients[i].virtName, clients[i].dict>>]
      /\ k.wires = { w \in wired \cap WiresOf(g) : \A p \in w : IF p = Link THEN link.shown ELSE Lasting(p) }
      /\ k.dict = dicts[g] /\ k.room = room.name
      /\ k.text = IF g = "studio" THEN conf ELSE room.text
  BY DEF Worth
<1>2. /\ DOMAIN V.clients = VirtWritten(g)
      /\ V.wires = { w \in wired \cap WiresOf(g) : \A p \in w : EndWritten(p) }
  BY DEF WriteVGraph
<1>3. /\ DOMAIN V.apps = A
      /\ \A i \in A : <<Unescape(V.apps[i].name), Unescape(V.apps[i].command), V.apps[i].autorun>>
                        = <<apps[i].name, apps[i].command, apps[i].running>>
  BY AppsWritten
<1> HIDE DEF k, A
<1>4. DOMAIN k.apps = DOMAIN V.apps
  BY <1>1, <1>3
<1>5. \A i \in DOMAIN k.apps :
        k.apps[i] = <<Unescape(V.apps[i].name), Unescape(V.apps[i].command), V.apps[i].autorun>>
  <2> SUFFICES ASSUME NEW i \in A
               PROVE  k.apps[i] = <<Unescape(V.apps[i].name), Unescape(V.apps[i].command), V.apps[i].autorun>>
    BY <1>1
  <2>1. k.apps[i] = <<apps[i].name, apps[i].command, apps[i].running>>
    BY <1>1
  <2> HIDE DEF V
  <2> QED
    BY <1>3, <2>1
<1>6. ASSUME NEW i \in DOMAIN k.ports
      PROVE  /\ i \in DOMAIN V.clients /\ V.clients[i].port
             /\ k.ports[i] = <<Unescape(V.clients[i].name), V.clients[i].dict>>
  <2>1. i \in P /\ k.ports[i] = <<clients[i].virtName, clients[i].dict>>
    BY <1>1
  <2>2. i \in Of(g) /\ i \in Clients /\ VirtPortWritten(i) /\ i \in VirtWritten(g)
    BY <2>1, HalvesWritten, OfGraphs
  <2>3. Unescape(V.clients[i].name) = clients[i].virtName /\ V.clients[i].port /\ V.clients[i].dict = clients[i].dict
    BY <2>2, ClientsWritten
  <2> HIDE DEF V, P
  <2> QED
    BY <1>2, <2>1, <2>2, <2>3
<1>7. k.wires = V.wires
  <2>1. ASSUME NEW w \in WiresOf(g), NEW p \in w
        PROVE  EndWritten(p) <=> IF p = Link THEN link.shown ELSE Lasting(p)
    <3>1. CASE p = Link
      BY <3>1 DEF EndWritten
    <3>2. CASE p # Link
      <4>1. p \in Of(g)
        BY <3>2, WireEnds
      <4>2. VirtPortWritten(p) <=> Lasting(p)
        BY <4>1, HalvesWritten
      <4> QED
        BY <3>2, <4>2 DEF EndWritten
    <3> QED
      BY <3>1, <3>2
  <2> HIDE DEF V
  <2> QED
    BY <1>1, <1>2, <2>1
<1> HIDE DEF V
<1>8. d.graph = V
  BY DEF V
<1>9. \A i \in DOMAIN k.ports :
        /\ PortRead(d, i)
        /\ k.ports[i] = <<Unescape(d.graph.clients[i].name), d.graph.clients[i].dict>>
  BY <1>6, <1>8 DEF PortRead
<1>10. k.dict = d.dict /\ (g = "studio" => k.text = d.text /\ k.room = d.room.name)
       /\ (g = "room" => k.text = Unescape(d.text))
  BY <1>1, GraphsDiffer DEF Kept
<1>11. Says(g, d, k)
  BY <1>4, <1>5, <1>7, <1>8, <1>9, <1>10 DEF Says
<1> QED
  BY <1>11 DEF k

\* Saving the studio keeps IInv: the new file is complete.
LEMMA SaveStudioKeeps == ASSUME Memory, Written, SaveStudio PROVE Memory' /\ Written'
<1> DEFINE d == StudioFile
<1>0. "studio" \in Graphs /\ "room" \in Graphs /\ "studio" # "room"
  BY GraphsDiffer
<1>1. /\ d.jack = WriteJGraph("studio") /\ d.graph = WriteVGraph("studio")
      /\ d.text = conf /\ d.dict = dicts["studio"]
      /\ d.room.there = room.there /\ d.room.name = room.name /\ d.room.dict = link.dict
  BY DEF StudioFile, RoomElement, RoomPorts, WriteDict, Raw
<1>2. WriteVGraph("studio").link = link.shown
  BY DEF WriteVGraph
<1>3. /\ files' = [files EXCEPT !["studio"] = d] /\ kept' = [kept EXCEPT !["studio"] = Worth("studio")]
      /\ UNCHANGED <<studio, room, apps, clients, link, wired, dicts, conf>>
  BY DEF SaveStudio
<1> HIDE DEF d
<1>4. files = [g \in Graphs |-> files[g]] /\ kept = [g \in Graphs |-> kept[g]]
  BY DEF Memory, TypeOK
<1>5. /\ files'["studio"] = d /\ files'["room"] = files["room"]
      /\ kept'["studio"] = Worth("studio") /\ kept'["room"] = kept["room"]
      /\ files' = [g \in Graphs |-> files'[g]] /\ kept' = [g \in Graphs |-> kept'[g]]
  BY <1>0, <1>3, <1>4
<1>6. Told("studio", d)
  BY <1>0, <1>1, <1>2, Each DEF Told
<1>7. Kept("studio", d)
  BY <1>0, <1>1 DEF Kept
<1>8. Complete("studio", d) /\ Says("studio", d, Worth("studio"))
  BY <1>0, <1>1, <1>6, <1>7, WrittenComplete, WrittenSays
<1>9. Written'
  <2>1. \A g \in Graphs : g = "studio" \/ g = "room"
    BY DEF Graphs
  <2>2. files["room"].there => Complete("room", files["room"]) /\ Says("room", files["room"], kept["room"])
    BY <1>0 DEF Written
  <2> QED
    BY <1>5, <1>8, <2>1, <2>2 DEF Written
<1>10. TypeOK'
  BY <1>3, <1>5 DEF Memory, TypeOK
<1>11. Halves' /\ Belong' /\ Leftovers'
  BY <1>3, <1>5 DEF Memory, Halves, Belong, Leftovers, LeftOf
<1> QED
  BY <1>9, <1>10, <1>11 DEF Memory

\* Saving the project keeps IInv: the new file is complete.
LEMMA SaveProjectKeeps == ASSUME Memory, Written, SaveProject PROVE Memory' /\ Written'
<1> DEFINE d == ProjectFile
<1>0. "studio" \in Graphs /\ "room" \in Graphs /\ "studio" # "room"
  BY GraphsDiffer
<1>1. /\ d.jack = WriteJGraph("room") /\ d.graph = WriteVGraph("room")
      /\ d.text = EscapeAll(room.text) /\ d.dict = dicts["room"]
      /\ d.room.there = TRUE /\ d.room.name = None /\ d.room.dict = link.dict
  BY DEF ProjectFile, RoomPorts, WriteDict, Raw
<1>2. DOMAIN WriteVGraph("room").clients = VirtWritten("room")
  BY DEF WriteVGraph
<1>3. /\ files' = [files EXCEPT !["room"] = d] /\ kept' = [kept EXCEPT !["room"] = Worth("room")]
      /\ room' = [room EXCEPT !.project = TRUE]
      /\ UNCHANGED <<studio, apps, clients, link, wired, dicts, conf>>
  BY DEF SaveProject
<1> HIDE DEF d
<1>4. files = [g \in Graphs |-> files[g]] /\ kept = [g \in Graphs |-> kept[g]]
  BY DEF Memory, TypeOK
<1>5. /\ files'["room"] = d /\ files'["studio"] = files["studio"]
      /\ kept'["room"] = Worth("room") /\ kept'["studio"] = kept["studio"]
      /\ files' = [g \in Graphs |-> files'[g]] /\ kept' = [g \in Graphs |-> kept'[g]]
  BY <1>0, <1>3, <1>4
<1>6. /\ room' \in [there : BOOLEAN, name : Int, project : BOOLEAN, text : Int] /\ (room'.there <=> room.there)
      /\ room.text \in Int
  BY <1>3, Each
<1>7. EscapeAll(room.text) \in Int \ {0} /\ Unescape(EscapeAll(room.text)) = room.text
  BY <1>6, StringsCoded
<1>8. Told("room", d)
  <2>1. d.text \in Int /\ Legal(d.text)
    BY <1>1, <1>7 DEF Legal
  <2>2. d.dict \in Int /\ d.room.there \in BOOLEAN /\ d.room.name \in Int /\ d.room.dict \in Int
    BY <1>0, <1>1, Each, NoneTyped
  <2> QED
    BY <1>0, <2>1, <2>2 DEF Told
<1>9. Kept("room", d)
  BY <1>0, <1>1, <1>7 DEF Kept
<1>10. Complete("room", d) /\ Says("room", d, Worth("room"))
  BY <1>0, <1>1, <1>8, <1>9, WrittenComplete, WrittenSays
<1>11. Written'
  <2>1. \A g \in Graphs : g = "studio" \/ g = "room"
    BY DEF Graphs
  <2>2. files["studio"].there => Complete("studio", files["studio"])
                                 /\ Says("studio", files["studio"], kept["studio"])
    BY <1>0 DEF Written
  <2> QED
    BY <1>5, <1>10, <2>1, <2>2 DEF Written
<1>12. TypeOK'
  BY <1>3, <1>5, <1>6 DEF Memory, TypeOK
<1>13. Halves' /\ Belong'
  BY <1>3, <1>6 DEF Memory, Halves, Belong
<1>14. Leftovers'
  <2>1. \A i \in DOMAIN d.graph.clients : clients[i].virt
    BY <1>1, <1>2 DEF VirtWritten
  <2> QED
    BY <1>3, <1>5, <2>1 DEF Leftovers, LeftOf
<1> QED
  BY <1>11, <1>12, <1>13, <1>14 DEF Memory

-----------------------------------------------------------------------------
(* The invariant. *)

\* Nothing that starts or ends processes touches a file.
LEMMA ProcessesKeep == ASSUME Uncoded, Memory, Processes PROVE Memory' /\ UNCHANGED <<files, kept>>
<1>1. PICK i \in Apps : \/ NewApp(i) \/ StartApp(i) \/ AppExits(i) \/ RemoveApp(i)
                        \/ \E n \in Names : RenameApp(i, n)
  BY DEF Processes
<1>2. CASE NewApp(i)
  BY <1>2, NewAppKeeps DEF NewApp
<1>3. CASE StartApp(i)
  BY <1>3, StartAppKeeps DEF StartApp
<1>4. CASE AppExits(i)
  BY <1>4, AppExitsKeeps DEF AppExits
<1>5. CASE RemoveApp(i)
  BY <1>5, RemoveAppKeeps DEF RemoveApp
<1>6. CASE \E n \in Names : RenameApp(i, n)
  BY <1>6, RenameAppKeeps DEF RenameApp
<1> QED
  BY <1>1, <1>2, <1>3, <1>4, <1>5, <1>6

\* Nothing that JACK clients do touches a file.
LEMMA JackClientsKeep == ASSUME Memory, JackClients PROVE Memory' /\ UNCHANGED <<files, kept>>
<1>1. PICK i \in Clients : ClientUp(i) \/ ClientDown(i)
  BY DEF JackClients
<1>2. CASE ClientUp(i)
  BY <1>2, ClientUpKeeps DEF ClientUp
<1>3. CASE ClientDown(i)
  BY <1>3, ClientDownKeeps DEF ClientDown
<1> QED
  BY <1>1, <1>2, <1>3

\* No edit of the user touches a file.
LEMMA EditsKeep == ASSUME Memory, Edits PROVE Memory' /\ UNCHANGED <<files, kept>>
<1>1. CASE \E w \in Wires : Connect(w)
  BY <1>1, ConnectKeeps DEF Connect
<1>2. CASE \E t \in Texts, p \in Marked \ Graphs : SetPortDict(p, t)
  BY <1>2, SetPortDictKeeps DEF SetPortDict
<1>3. CASE \E t \in Texts, g \in Marked \cap Graphs : SetGraphDict(g, t)
  BY <1>3, SetGraphDictKeeps DEF SetGraphDict
<1>4. CASE \E t \in Texts : SetDescription(t)
  BY <1>4, SetDescriptionKeeps DEF SetDescription
<1>5. CASE \E t \in Texts : SetConf(t)
  BY <1>5, SetConfKeeps DEF SetConf
<1> QED
  BY <1>1, <1>2, <1>3, <1>4, <1>5 DEF Edits

\* No command but save touches a file.
LEMMA StudiosKeep == ASSUME Memory, Studios PROVE Memory' /\ UNCHANGED <<files, kept>>
<1>1. CASE NewStudio
  BY <1>1, NewStudioKeeps DEF NewStudio
<1>2. CASE StartStudio
  BY <1>2, StartStudioKeeps DEF StartStudio
<1>3. CASE StopStudio
  BY <1>3, StopStudioKeeps DEF StopStudio
<1>4. CASE UnloadStudio
  BY <1>4, UnloadStudioKeeps DEF UnloadStudio
<1>5. CASE UnloadProject
  BY <1>5, UnloadProjectKeeps DEF UnloadProject
<1>6. CASE CreateRoom
  BY <1>6, CreateRoomKeeps DEF CreateRoom
<1>7. CASE LinkUp
  BY <1>7, LinkUpKeeps DEF LinkUp
<1> QED
  BY <1>1, <1>2, <1>3, <1>4, <1>5, <1>6, <1>7 DEF Studios

\* Files that nobody touches stay complete.
LEMMA WrittenKept == ASSUME Written, UNCHANGED <<files, kept>> PROVE Written'
BY DEF Written

\* Saving and loading keep IInv.
LEMMA FilesKeep == ASSUME Memory, Written, Files PROVE Memory' /\ Written'
<1>1. CASE SaveStudio
  BY <1>1, SaveStudioKeeps
<1>2. CASE SaveProject
  BY <1>2, SaveProjectKeeps
<1>3. CASE LoadStudio
  BY <1>3, LoadStudioKeeps, WrittenKept DEF LoadStudio
<1>4. CASE LoadStudioFails
  BY <1>4, LoadStudioFailsKeeps, WrittenKept DEF LoadStudioFails
<1>5. CASE LoadProject
  BY <1>5, LoadProjectKeeps, WrittenKept DEF LoadProject
<1>6. CASE LoadProjectFails
  BY <1>6, LoadProjectFailsKeeps, WrittenKept DEF LoadProjectFails
<1> QED
  BY <1>1, <1>2, <1>3, <1>4, <1>5, <1>6 DEF Files

\* Every step keeps IInv.
LEMMA NextIInv == ASSUME Uncoded PROVE IInv /\ [Next]_vars => IInv'
<1> SUFFICES ASSUME IInv, [Next]_vars PROVE IInv'
  OBVIOUS
<1>0. Memory /\ Written
  BY DEF IInv
<1>1. CASE Files
  BY <1>0, <1>1, FilesKeep DEF IInv
<1>2. CASE Studios
  BY <1>0, <1>2, StudiosKeep, WrittenKept DEF IInv
<1>3. CASE Processes
  BY <1>0, <1>3, ProcessesKeep, WrittenKept DEF IInv
<1>4. CASE JackClients
  BY <1>0, <1>4, JackClientsKeep, WrittenKept DEF IInv
<1>5. CASE Edits
  BY <1>0, <1>5, EditsKeep, WrittenKept DEF IInv
<1>6. CASE UNCHANGED vars
  BY <1>0, <1>6, RestChanges, WrittenKept, Each DEF vars, IInv
<1> QED
  BY <1>1, <1>2, <1>3, <1>4, <1>5, <1>6 DEF Next

\* The two halves of every client belong together, and every file is complete
\* and says what there was to keep when it was written, whatever was running,
\* hidden, renamed, removed or half loaded (save.c, load.c, virtualizer.c).
THEOREM Invariance == ASSUME Uncoded PROVE Spec => []IInv
<1>1. Init => IInv
  BY InitIInv
<1>2. IInv /\ [Next]_vars => IInv'
  BY NextIInv
<1> QED
  BY <1>1, <1>2, PTL DEF Spec

\* The names of a complete file are XML.
LEMMA CompleteLegal ==
  ASSUME NEW g \in Graphs, NEW d, Complete(g, d)
  PROVE  NamesLegal(d, g) /\ PortsFound(d)
<1>1. \A i \in DOMAIN d.jack : Legal(d.jack[i].name)
  BY CodedLegal DEF Complete, Legal
<1>2. \A i \in DOMAIN d.graph.clients : Legal(d.graph.clients[i].name)
  BY CodedLegal DEF Complete, Legal
<1>3. \A i \in DOMAIN d.graph.apps : Legal(d.graph.apps[i].name) /\ Legal(d.graph.apps[i].command)
  BY CodedLegal DEF Complete, Legal
<1>4. g = "room" => Legal(d.text)
  BY DEF Complete
<1>5. PortsFound(d)
  BY DEF Complete, PortsFound, PortRead
<1> QED
  BY <1>1, <1>2, <1>3, <1>4, <1>5 DEF NamesLegal

\* A complete file is readable, when its raw strings are legal.
LEMMA CompleteReadable ==
  ASSUME NEW d
  PROVE  /\ Complete("studio", d) /\ GivenReadable(d, "studio") => StudioReadable(d)
         /\ Complete("room", d) /\ GivenReadable(d, "room") /\ room.there => ProjectReadable(d)
<1>0. "studio" \in Graphs /\ "room" \in Graphs
  BY GraphsDiffer
<1>1. ASSUME Complete("studio", d), GivenReadable(d, "studio") PROVE StudioReadable(d)
  <2>1. NamesLegal(d, "studio") /\ PortsFound(d)
    BY <1>0, <1>1, CompleteLegal
  <2>2. StudioPortsFound(d) /\ StudioWiresFound(d)
    BY <1>1, <2>1 DEF Complete, StudioPortsFound, StudioWiresFound
  <2> QED
    BY <1>1, <2>1, <2>2 DEF StudioReadable
<1>2. ASSUME Complete("room", d), GivenReadable(d, "room"), room.there PROVE ProjectReadable(d)
  <2>1. NamesLegal(d, "room") /\ PortsFound(d)
    BY <1>0, <1>2, CompleteLegal
  <2>2. WiresFound(d, room.there)
    BY <1>2 DEF Complete, WiresFound
  <2> QED
    BY <1>2, <2>1, <2>2 DEF ProjectReadable, ProjectPortsFound, ProjectWiresFound
<1> QED
  BY <1>1, <1>2

\* A file that was written can be read again: the readers find everything
\* that they insist on (cmd_load_studio.c, room_load.c), if no name has a
\* "%3C" of its own.
THEOREM SavedLoadsTheorem == ASSUME Uncoded PROVE Spec => []SavedLoads
<1>1. IInv => SavedLoads
  <2> SUFFICES ASSUME IInv PROVE SavedLoads
    OBVIOUS
  <2>1. files["studio"].there => Complete("studio", files["studio"])
    BY GraphsDiffer DEF IInv, Written
  <2>2. files["room"].there => Complete("room", files["room"])
    BY GraphsDiffer DEF IInv, Written
  <2> QED
    BY <2>1, <2>2, CompleteReadable DEF SavedLoads
<1> QED
  BY <1>1, Invariance, PTL

-----------------------------------------------------------------------------
(* A load brings back what there was. *)

\* The same app, running or about to run.
SameApp(b, a) ==
  /\ (b.there <=> a.there) /\ b.name = a.name /\ b.command = a.command
  /\ (b.running \/ b.autorun <=> a.running \/ a.autorun)

AppsRead(d, as, bs) == \A i \in Apps : SameApp(bs[i], ReadApps(d, as)[i])

AppsAreBack(g, d, bs) ==
  /\ { i \in Apps \cap Of(g) : bs[i].there } = DOMAIN d.graph.apps
  /\ \A i \in DOMAIN d.graph.apps :
       LET a == d.graph.apps[i] IN
       <<bs[i].name, bs[i].command, bs[i].autorun \/ bs[i].running>>
         = <<Unescape(a.name), Unescape(a.command), a.autorun>>

\* The apps of a file as they are read, and started or told to start.
LEMMA AppsBack ==
  ASSUME NEW g \in Graphs, NEW d, Complete(g, d), NEW as \in [Apps -> App],
         \A i \in Apps \cap Of(g) : ~as[i].there,
         NEW bs \in [Apps -> App], AppsRead(d, as, bs)
  PROVE  AppsAreBack(g, d, bs)
<1> DEFINE rs == ReadApps(d, as)
<1>1. DOMAIN d.graph.apps \subseteq Apps \cap Of(g)
      /\ \A i \in DOMAIN d.graph.apps : d.graph.apps[i].autorun \in BOOLEAN
  BY DEF Complete
<1>2. \A i \in Apps \ DOMAIN d.graph.apps : rs[i] = as[i]
  BY ReadAppsTyped
<1>3. ASSUME NEW i \in DOMAIN d.graph.apps
      PROVE  LET a == rs[i] IN
             /\ a.there /\ ~a.running /\ (a.autorun <=> d.graph.apps[i].autorun)
             /\ a.name = Unescape(d.graph.apps[i].name) /\ a.command = Unescape(d.graph.apps[i].command)
  BY ReadAppsFields
<1>4. \A i \in Apps : SameApp(bs[i], rs[i])
  BY DEF AppsRead
<1> HIDE DEF rs
<1>5. { i \in Apps \cap Of(g) : bs[i].there } = DOMAIN d.graph.apps
  BY <1>1, <1>2, <1>3, <1>4 DEF SameApp
<1>6. ASSUME NEW i \in DOMAIN d.graph.apps
      PROVE  LET a == d.graph.apps[i] IN
             <<bs[i].name, bs[i].command, bs[i].autorun \/ bs[i].running>>
               = <<Unescape(a.name), Unescape(a.command), a.autorun>>
  <2> DEFINE r == bs[i].autorun \/ bs[i].running
             e == d.graph.apps[i].autorun
  <2>1. i \in Apps /\ e \in BOOLEAN /\ r \in BOOLEAN
    BY <1>1
  <2>2. bs[i].name = Unescape(d.graph.apps[i].name) /\ bs[i].command = Unescape(d.graph.apps[i].command)
    BY <1>3, <1>4, <2>1 DEF SameApp
  <2>3. r <=> e
    BY <1>3, <1>4, <2>1 DEF SameApp
  <2> HIDE DEF r, e
  <2>4. r = e
    BY <2>1, <2>3, Zenon
  <2>5. <<bs[i].name, bs[i].command, r>>
          = <<Unescape(d.graph.apps[i].name), Unescape(d.graph.apps[i].command), e>>
    BY <2>2, <2>4
  <2> QED
    BY <2>5 DEF r, e
<1> QED
  BY <1>5, <1>6 DEF AppsAreBack

\* Loading a studio brings back what was kept.
LEMMA LoadStudioBringsBack == ASSUME IInv, LoadStudio PROVE BroughtBack("studio")
<1> DEFINE d == files["studio"]
           k == kept["studio"]
           as == ReadApps(d, apps)
           cs == Interlink("studio", StudioVirt(d), as)
<1>0. "studio" \in Graphs /\ "studio" # "room"
  BY GraphsDiffer
<1>1. Complete("studio", d) /\ Says("studio", d, k) /\ Memory
  BY <1>0 DEF IInv, Written, LoadStudio
<1>2. /\ apps' = as /\ clients' = cs
      /\ conf' = ConfRead(d, FALSE) /\ room' = StudioRoom(d) /\ wired' = d.graph.wires
      /\ dicts' = [dicts EXCEPT !["studio"] = DictRead(d.dict, dicts["studio"])]
      /\ GivenReadable(d, "studio") /\ ~studio.loaded
  BY DEF LoadStudio, StudioReadable
<1>3. /\ DOMAIN k.apps = DOMAIN d.graph.apps
      /\ \A i \in DOMAIN k.apps :
           LET a == d.graph.apps[i] IN k.apps[i] = <<Unescape(a.name), Unescape(a.command), a.autorun>>
      /\ \A i \in DOMAIN k.ports :
           /\ PortRead(d, i)
           /\ k.ports[i] = <<Unescape(d.graph.clients[i].name), d.graph.clients[i].dict>>
      /\ k.wires = d.graph.wires /\ k.dict = d.dict
      /\ k.text = d.text /\ k.room = d.room.name
  BY <1>1 DEF Says
<1>4. apps \in [Apps -> App] /\ \A i \in Apps : ~apps[i].there
  BY <1>1, <1>2, Each
<1>5. as \in [Apps -> App]
  BY <1>0, <1>1, <1>4, ReadAppsTyped
<1>6. /\ { i \in Apps \cap Of("studio") : apps'[i].there } = DOMAIN d.graph.apps
      /\ \A i \in DOMAIN d.graph.apps :
           LET a == d.graph.apps[i] IN
           <<apps'[i].name, apps'[i].command, apps'[i].autorun \/ apps'[i].running>>
             = <<Unescape(a.name), Unescape(a.command), a.autorun>>
  <2> HIDE DEF d
  <2>1. AppsRead(d, apps, as)
    BY DEF SameApp, AppsRead
  <2> HIDE DEF as
  <2>2. AppsAreBack("studio", d, as)
    BY <1>0, <1>1, <1>4, <1>5, <2>1, AppsBack
  <2> QED
    BY <1>2, <2>2 DEF AppsAreBack
<1>7. ASSUME NEW i \in DOMAIN k.ports
      PROVE  clients'[i].virtPort /\ <<clients'[i].virtName, clients'[i].dict>> = k.ports[i]
  <2>1. PortRead(d, i) /\ k.ports[i] = <<Unescape(d.graph.clients[i].name), d.graph.clients[i].dict>>
    BY <1>3
  <2>2. i \in Clients
    BY <1>1, <2>1, OfGraphs DEF Complete, PortRead
  <2>3. cs[i].virtPort /\ cs[i].virtName = Unescape(d.graph.clients[i].name) /\ cs[i].dict = d.graph.clients[i].dict
    <3> HIDE DEF d
    <3> QED
      BY <1>1, <1>4, <2>1, <2>2, StudioRead
  <2> HIDE DEF cs
  <2> QED
    BY <1>2, <2>1, <2>3
<1>8. wired' \cap WiresOf("studio") = k.wires
  BY <1>1, <1>2, <1>3 DEF Complete
<1>9. k.dict # None => dicts'["studio"] = k.dict
  BY <1>0, <1>1, <1>2, <1>3, Each DEF DictRead
<1>10. conf' = k.text /\ room'.name = k.room
  <2>1. Legal(d.text) /\ Fits(d.text)
    BY <1>2 DEF GivenReadable, RawLegal, AllFit
  <2>2. room'.name = d.room.name
    BY <1>2 DEF StudioRoom, NoRoom
  <2> QED
    BY <1>2, <1>3, <2>1, <2>2 DEF ConfRead
<1> HIDE DEF d, k
<1>11. \A i \in DOMAIN k.apps :
         <<apps'[i].name, apps'[i].command, apps'[i].autorun \/ apps'[i].running>> = k.apps[i]
  BY <1>3, <1>6
<1>12. { i \in Apps \cap Of("studio") : apps'[i].there } = DOMAIN k.apps
  BY <1>3, <1>6
<1> QED
  BY <1>7, <1>8, <1>9, <1>10, <1>11, <1>12 DEF BroughtBack, k

\* Loading a project brings back what was kept.
LEMMA LoadProjectBringsBack == ASSUME IInv, LoadProject PROVE BroughtBack("room")
<1> DEFINE d == files["room"]
           k == kept["room"]
           as == ReadApps(d, AppsTaken)
           cs == Interlink("room", ProjectVirt(d, ClientsTaken), as)
<1>0. "room" \in Graphs /\ "studio" # "room"
  BY GraphsDiffer
<1>1. Complete("room", d) /\ Says("room", d, k) /\ Memory /\ d.there
  BY <1>0 DEF IInv, Written, LoadProject
<1>2. /\ apps' = Autorun("room", as) /\ clients' = cs
      /\ room' = [room EXCEPT !.project = TRUE, !.text = TextRead(d)]
      /\ wired' = (wired \ WiresOf("room")) \cup d.graph.wires
      /\ dicts' = [dicts EXCEPT !["room"] = DictRead(d.dict, dicts["room"])]
  BY DEF LoadProject
<1>3. /\ DOMAIN k.apps = DOMAIN d.graph.apps
      /\ \A i \in DOMAIN k.apps :
           LET a == d.graph.apps[i] IN k.apps[i] = <<Unescape(a.name), Unescape(a.command), a.autorun>>
      /\ \A i \in DOMAIN k.ports :
           /\ PortRead(d, i)
           /\ k.ports[i] = <<Unescape(d.graph.clients[i].name), d.graph.clients[i].dict>>
      /\ k.wires = d.graph.wires /\ k.dict = d.dict
      /\ k.text = Unescape(d.text)
  BY <1>1 DEF Says
<1>4. AppsTaken \in [Apps -> App] /\ \A i \in Apps \cap Of("room") : ~AppsTaken[i].there
  BY <1>1, AppsTakenFields, OfGraphs DEF NoApp
<1>5. as \in [Apps -> App]
  BY <1>0, <1>1, <1>4, ReadAppsTyped
<1>6. /\ { i \in Apps \cap Of("room") : apps'[i].there } = DOMAIN d.graph.apps
      /\ \A i \in DOMAIN d.graph.apps :
           LET a == d.graph.apps[i] IN
           <<apps'[i].name, apps'[i].command, apps'[i].autorun \/ apps'[i].running>>
             = <<Unescape(a.name), Unescape(a.command), a.autorun>>
  <2> DEFINE bs == Autorun("room", as)
  <2>1. bs \in [Apps -> App] /\ AppsRead(d, AppsTaken, bs)
    <3> HIDE DEF as
    <3>1. bs \in [Apps -> App] /\ \A i \in Apps : SameApp(bs[i], as[i])
      BY <1>0, <1>5, AutorunFields DEF SameApp
    <3> QED
      BY <3>1 DEF AppsRead, as
  <2> HIDE DEF d, bs
  <2>2. AppsAreBack("room", d, bs)
    BY <1>0, <1>1, <1>4, <2>1, AppsBack
  <2>3. apps' = bs
    BY <1>2 DEF bs
  <2> QED
    BY <2>2, <2>3 DEF AppsAreBack
<1>7. ASSUME NEW i \in DOMAIN k.ports
      PROVE  clients'[i].virtPort /\ <<clients'[i].virtName, clients'[i].dict>> = k.ports[i]
  <2>1. PortRead(d, i) /\ k.ports[i] = <<Unescape(d.graph.clients[i].name), d.graph.clients[i].dict>>
    BY <1>3
  <2>2. i \in Clients
    BY <1>1, <2>1, OfGraphs DEF Complete, PortRead
  <2>3. cs[i].virtPort /\ cs[i].virtName = Unescape(d.graph.clients[i].name) /\ cs[i].dict = d.graph.clients[i].dict
    <3>1. LeftOf(d) /\ TypeOK /\ Halves
      BY <1>1 DEF Memory, Leftovers
    <3> HIDE DEF d
    <3> QED
      BY <1>1, <1>4, <2>1, <2>2, <3>1, ProjectRead
  <2> HIDE DEF cs
  <2> QED
    BY <1>2, <2>1, <2>3
<1>8. wired' \cap WiresOf("room") = k.wires
  BY <1>1, <1>2, <1>3 DEF Complete
<1>9. k.dict # None => dicts'["room"] = k.dict
  BY <1>0, <1>1, <1>2, <1>3, Each DEF DictRead
<1>10. room'.text = k.text
  BY <1>1, <1>2, <1>3, Each DEF TextRead
<1> HIDE DEF d, k
<1>11. \A i \in DOMAIN k.apps :
         <<apps'[i].name, apps'[i].command, apps'[i].autorun \/ apps'[i].running>> = k.apps[i]
  BY <1>3, <1>6
<1>12. { i \in Apps \cap Of("room") : apps'[i].there } = DOMAIN k.apps
  BY <1>3, <1>6
<1> QED
  BY <1>0, <1>7, <1>8, <1>9, <1>10, <1>11, <1>12 DEF BroughtBack, k

\* What is written and read again is what there was: apps, ports, connections,
\* dicts and strings come back (save.c, escape.c, load.c, room_load.c), if no
\* name has a "%3C" of its own.
THEOREM LoadsBackTheorem == ASSUME Uncoded PROVE Spec => LoadsBack
<1> DEFINE Back == /\ LoadStudio => BroughtBack("studio")
                   /\ LoadProject => BroughtBack("room")
<1>1. IInv => [Back]_vars
  BY LoadStudioBringsBack, LoadProjectBringsBack
<1>2. Spec => []IInv
  BY Invariance
<1> QED
  BY <1>1, <1>2, PTL DEF LoadsBack
=============================================================================
