--------------------------- MODULE Configuration ---------------------------
(***************************************************************************)
(* The service that keeps settings (conf.c) and the copies of them that    *)
(* its clients, the daemon and gladish, hold (proxies/conf_proxy.c).  One  *)
(* key: no key affects another.  The bus starts the service with the first *)
(* call, and it may die at any moment, in the middle of storing too; its   *)
(* signals are queued for each client, while calls overtake them.          *)
(***************************************************************************)
EXTENDS Naturals, Sequences

CONSTANTS
  Clients,    \* the processes that use the setting
  Values,     \* what it may be set to
  Ends,       \* how storing ends, see Ending
  MaxSteps    \* bound on what users do and on what fails

Unknown == "unknown"   \* NULL, or no such pair, or no such file
Empty == "empty"       \* the file was created, nothing was written
Ending == {"stored", "refused", "torn", "dies"}

ASSUME ConfigurationAssumption ==
  {Unknown, Empty} \cap Values = {} /\ Ends \subseteq Ending /\ MaxSteps \in Nat

VARIABLES
  conf,     \* the service: whether it runs, its pair
  file,     \* what is stored
  copies,   \* the clients: whether they run, registered, were answered; their pairs
  changes,  \* the signals each of them will receive
  lost,     \* history: the service took with it a value that it told of and did not store
  steps     \* counter, for the bound

confVars == <<conf, file, copies, changes, lost, steps>>

NotRunning == [running |-> FALSE, registered |-> FALSE, answered |-> FALSE, value |-> Unknown, version |-> 0]
Fresh == [up |-> TRUE, value |-> Unknown, version |-> 0, stored |-> FALSE]
Dead == [Fresh EXCEPT !.up = FALSE]

InitConf ==
  /\ conf = Dead /\ file \in Values \cup {Unknown}
  /\ copies = [p \in Clients |-> NotRunning]
  /\ changes = [p \in Clients |-> <<>>]
  /\ lost = FALSE /\ steps = 0

Counted == steps < MaxSteps /\ steps' = steps + 1

(* A call finds the service running: the bus starts it.                    *)
Service == IF conf.up THEN conf ELSE Fresh

(* The signals that reach those who asked for them.                        *)
Sent(s) == [p \in Clients |-> changes[p] \o IF copies[p].running THEN s ELSE <<>>]

Changed(v, n) == [is |-> "changed", value |-> v, version |-> n]
Died == [is |-> "died", value |-> Unknown, version |-> 0]

-----------------------------------------------------------------------------
(* The service.                                                            *)

(* get: the file is read once, when the key is first asked for.            *)
Fetched(c) ==
  IF c.value = Unknown /\ file # Unknown
    THEN [c EXCEPT !.value = file, !.version = 1, !.stored = FALSE] ELSE c

(* set: a key that is not known is not looked for in the files.            *)
Assigned(c, v) ==
  IF c.value = v THEN c
  ELSE [c EXCEPT !.value = v, !.version = @ + 1, !.stored = FALSE]

Tells(c, v) == IF c.value = v THEN <<>> ELSE <<Changed(v, Assigned(c, v).version)>>

(* store_pair creates the file before it writes; the value stays changed,  *)
(* and stays announced, when it fails.                                     *)
FileAfter(end, v) ==
  CASE end = "stored" -> {v}
    [] end = "refused" -> {file}
    [] end = "torn" -> {Empty}
    [] end = "dies" -> {file, Empty, v}

EndsOf(c, v) == IF c.value = v /\ c.stored THEN {"none"} ELSE Ends

(* A death: what was told and is not in the file is lost.                  *)
Dies ==
  /\ Counted /\ conf.up
  /\ conf' = Dead
  /\ changes' = Sent(<<Died>>)
  /\ lost' = (lost \/ conf.value \notin {Unknown, file})
  /\ UNCHANGED <<file, copies>>

-----------------------------------------------------------------------------
(* The clients.                                                            *)

(* conf_proxy_init: the hooks come first, the keys one after the other.    *)
Starts(p) ==
  /\ Counted /\ ~copies[p].running
  /\ copies' = [copies EXCEPT ![p].running = TRUE]
  /\ UNCHANGED <<conf, file, changes, lost>>

Leaves(p) ==
  /\ Counted /\ copies[p].running
  /\ copies' = [copies EXCEPT ![p] = NotRunning]
  /\ changes' = [changes EXCEPT ![p] = <<>>]
  /\ UNCHANGED <<conf, file, lost>>

(* conf_register: the client takes NULL for an answer.                     *)
Registers(p) ==
  /\ copies[p].running /\ ~copies[p].registered
  /\ LET c == Fetched(Service)
     IN /\ conf' = c
        /\ copies' = [copies EXCEPT ![p].registered = TRUE, ![p].answered = TRUE,
                                    ![p].value = c.value, ![p].version = c.version]
  /\ UNCHANGED <<file, changes, lost, steps>>

(* ... the service could not be started.                                   *)
RegistersAlone(p) ==
  /\ Counted /\ copies[p].running /\ ~copies[p].registered /\ ~conf.up
  /\ copies' = [copies EXCEPT ![p].registered = TRUE]
  /\ UNCHANGED <<conf, file, changes, lost>>

(* conf_set: a value that the client has already is not sent.  It records  *)
(* the version of the reply only if it had a value; a client that had none *)
(* waits for the signal.                                                   *)
Replied(p, v, n) ==
  IF copies[p].value = Unknown THEN copies
  ELSE [copies EXCEPT ![p].value = v, ![p].version = n]

Sets(p, v) ==
  /\ Counted /\ copies[p].registered /\ copies[p].value # v
  /\ LET c == Service
         n == Assigned(c, v)
     IN \E end \in EndsOf(c, v) :
          \/ /\ end = "none" /\ conf' = n /\ UNCHANGED <<file, lost>>
             /\ copies' = Replied(p, v, n.version) /\ changes' = Sent(Tells(c, v))
          \/ /\ end = "stored" /\ conf' = [n EXCEPT !.stored = TRUE]
             /\ file' \in FileAfter(end, v) /\ lost' = (lost /\ c.value = v)
             /\ copies' = Replied(p, v, n.version) /\ changes' = Sent(Tells(c, v))
          \/ /\ end \in {"refused", "torn"} /\ conf' = n
             /\ file' \in FileAfter(end, v) /\ lost' = (lost /\ c.value = v)
             /\ changes' = Sent(Tells(c, v)) /\ UNCHANGED copies
          \/ /\ end = "dies" /\ conf' = Dead
             /\ file' \in FileAfter(end, v)
             /\ \E t \in {<<>>, Tells(c, v)} : changes' = Sent(Append(t, Died))
             /\ lost' = TRUE /\ UNCHANGED copies

(* (Mutant: the version of a service that is gone stays.)                  *)
HeardAsBefore(c, s) ==
  IF s.is = "died" \/ ~c.registered \/ c.version >= s.version \/ c.value = s.value THEN c
  ELSE [c EXCEPT !.value = s.value, !.version = s.version]

(* on_conf_changed, and on_life_status_changed when the service is gone.   *)
Heard(c, s) ==
  IF s.is = "died" THEN [c EXCEPT !.version = 0]
  ELSE IF ~c.registered \/ c.version >= s.version \/ c.value = s.value THEN c
  ELSE [c EXCEPT !.value = s.value, !.version = s.version]

Hears(p) ==
  /\ changes[p] # <<>>
  /\ copies' = [copies EXCEPT ![p] = Heard(@, Head(changes[p]))]
  /\ changes' = [changes EXCEPT ![p] = Tail(@)]
  /\ UNCHANGED <<conf, file, lost, steps>>

NextConf ==
  \/ Dies
  \/ \E p \in Clients :
       Starts(p) \/ Leaves(p) \/ Registers(p) \/ RegistersAlone(p) \/ Hears(p) \/ \E v \in Values : Sets(p, v)

SpecConf == InitConf /\ [][NextConf]_confVars

-----------------------------------------------------------------------------
(* A client that was answered and has heard everything has the value of    *)
(* the service, or the stored one, whoever set it, whoever restarted in    *)
(* between, in whatever order replies and signals came; unless the service *)
(* died with a value that it had not stored.                               *)
ConfAgrees ==
  \A p \in Clients :
    copies[p].answered /\ changes[p] = <<>> /\ ~lost
      => copies[p].value = IF conf.value # Unknown THEN conf.value ELSE file
=============================================================================
