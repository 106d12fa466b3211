------------------------------ MODULE MCDesktop ------------------------------
(***************************************************************************)
(* What a session's programs share of the daemon's and of the settings.    *)
(* The two share no state, so that each is explored while the other rests. *)
(***************************************************************************)
EXTENDS Configuration, FrontEnd, TLC

VARIABLE explored

MCInit ==
  /\ InitConf /\ InitGui
  /\ \/ explored = "settings" /\ daemon = Down
     \/ explored = "front end" /\ file = Unknown

MCNext ==
  \/ explored = "settings" /\ NextConf /\ UNCHANGED <<guiVars, explored>>
  \/ explored = "front end" /\ NextGui /\ UNCHANGED <<confVars, explored>>

MCSpec == MCInit /\ [][MCNext]_<<confVars, guiVars, explored>>

Symmetry == Permutations(Clients) \cup Permutations(Values) \cup Permutations(Names)
=============================================================================
