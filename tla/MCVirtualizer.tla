---------------------------- MODULE MCVirtualizer ----------------------------
(***************************************************************************)
(* An app with one client, the same program started by hand, with one port *)
(* each, and the hardware with two.                                        *)
(***************************************************************************)
EXTENDS Virtualizer

MCClients == {"app", "twin", "system"}
MCNameOf == [c \in MCClients |-> IF c = "system" THEN "system" ELSE "synth"]
MCSecondName == [c \in MCClients |-> IF c = "system" THEN "system" ELSE "synth-01"]
MCAppOf == [c \in MCClients |-> IF c = "app" THEN "A" ELSE NoApp]
MCPortsOf == [c \in MCClients |-> IF c = "system" THEN {"capture", "playback"} ELSE {"out"}]

(***************************************************************************)
(* A studio whose app is connected to the hardware was loaded.             *)
(***************************************************************************)
VClient(key, name, app, link) ==
  [key |-> key, name |-> name, app |-> app, id |-> 0, hidden |-> TRUE, link |-> link]
Client(key, name, app, link) == VClient(key, name, app, link) @@ [jack |-> "none"]
Port(key, name, app, client, vclient) ==
  [key |-> key, name |-> name, app |-> app, id |-> 0, client |-> client, vclient |-> vclient,
   hidden |-> TRUE, vhidden |-> TRUE]

Loaded ==
  [NoGraphs EXCEPT
     !.clients = << Client(1, "system", NoApp, 0), Client(2, "synth", "A", 5) >>,
     !.ports = << Port(3, <<"system", "playback">>, NoApp, 1, 4), Port(6, <<"synth", "out">>, "A", 2, 5) >>,
     !.vclients = << VClient(4, "playback", NoApp, 0), VClient(5, "synth", "A", 2) >>,
     !.conns = << [ends |-> {3, 6}, hidden |-> TRUE, changing |-> FALSE] >>,
     !.next = 7]

(***************************************************************************)
(* For the user who joins clients: the app has two ports.                  *)
(***************************************************************************)
TwoClients == {"app", "system"}
TwoNameOf == [c \in TwoClients |-> IF c = "system" THEN "system" ELSE "synth"]
TwoSecondName == [c \in TwoClients |-> TwoNameOf[c]]
TwoAppOf == [c \in TwoClients |-> IF c = "app" THEN "A" ELSE NoApp]
TwoPortsOf == [c \in TwoClients |-> IF c = "system" THEN {"playback"} ELSE {"left", "right"}]

MCInit ==
  /\ \/ v = NoGraphs /\ jack = [Silence EXCEPT !.up = TRUE]
     \/ v = Loaded /\ jack = Silence
  /\ bus = << >> /\ apps = Apps /\ excused = {} /\ events = 0

MCSpec == MCInit /\ [][Next]_vars
=============================================================================
