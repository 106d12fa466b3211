---------------------------- MODULE MCDocuments ----------------------------
(* The connections of a small studio with one room.                        *)
EXTENDS Documents
MCWires == { {"s", "x"}, {"s", "link"}, {"r", "link"} }
MCTexts == {Long, 1}
MCNames == {-1, 0}
=============================================================================
