-------------------------------- MODULE Lists --------------------------------
(***************************************************************************)
(* The linked lists of the daemon (src/common/klist.h) as sequences: the   *)
(* loops over them find the first element that fits, change those that fit *)
(* or unlink them.  Objects that can be hidden have a field "hidden".      *)
(***************************************************************************)
EXTENDS Naturals, SequencesExt

Elements(list) == { list[i] : i \in DOMAIN list }

\* The elements that are in S, in their order.
Members(list, S) ==
  LET of[i \in 0..Len(list)] ==
        IF i = 0 THEN << >> ELSE IF list[i] \in S THEN Append(of[i - 1], list[i]) ELSE of[i - 1]
  IN  of[Len(list)]
Select(list, P(_)) == Members(list, { x \in Elements(list) : P(x) })

Without(list, P(_)) == Select(list, LAMBDA x : ~P(x))
Update(list, P(_), F(_)) == [i \in DOMAIN list |-> IF P(list[i]) THEN F(list[i]) ELSE list[i]]

\* The first element that fits; callers know or test that there is one.
Some(list, P(_)) == \E x \in Elements(list) : P(x)
First(list, P(_)) == Head(Select(list, P))

Visible(list) == Select(list, LAMBDA x : ~x.hidden)
Hide(x) == [x EXCEPT !.hidden = TRUE]
Show(x) == [x EXCEPT !.hidden = FALSE]

=============================================================================
