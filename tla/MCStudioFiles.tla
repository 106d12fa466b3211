---------------------------- MODULE MCStudioFiles ----------------------------
(* StudioFiles with the studio files of two studios on the disk. *)
EXTENDS StudioFiles

MCInit ==
  /\ disk \in { [p \in Paths |-> Absent],
                [p \in Paths |-> IF p[2] = "bak" THEN Absent
                                 ELSE [origin |-> IF p[1] = "a" THEN 1 ELSE 2, rev |-> 0]] }
  /\ studio = NoStudio
  /\ queue = << >>
  /\ recent = << >> /\ recentFile = << >>
  /\ kept = Absent /\ strayed = FALSE
  /\ made = 2 /\ ops = 0

MCSpec == MCInit /\ [][Next]_vars
=============================================================================
