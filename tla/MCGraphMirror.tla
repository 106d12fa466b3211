---------------------------- MODULE MCGraphMirror ----------------------------
(***************************************************************************)
(* The canvas is opened on an empty graph, or on one with two connected    *)
(* clients and a hidden port.                                              *)
(***************************************************************************)
EXTENDS GraphMirror

Populated ==
  AddPort(AddConnection(AddPort(AddPort(AddClient(AddClient(
    EmptyGraph, FALSE), FALSE), 1, FALSE), 2, FALSE), {1, 2}, FALSE), 2, TRUE)

MCInit ==
  /\ graph \in { EmptyGraph, [Populated EXCEPT !.sent = << >>] }
  /\ persist = TRUE
  /\ Unseen

MCSpec == MCInit /\ [][Next]_vars
=============================================================================
