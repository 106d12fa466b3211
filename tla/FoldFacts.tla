------------------------------ MODULE FoldFacts ------------------------------
(***************************************************************************)
(* Induction over a list, for the folds of the community modules and for   *)
(* recursive functions: what holds of the base and is kept by the step     *)
(* holds of the result.                                                    *)
(*                                                                         *)
(* The step and the invariant are constants of this module, so that an     *)
(* instance has them as definitions of its own and its theorems need no    *)
(* operator for a parameter.  c is what both of them need to know besides. *)
(* FoldLeft is defined by a recursive function on the sets of positions,   *)
(* and whether a function solves such an equation has to be shown: this is *)
(* what the tables are for.                                                *)
(***************************************************************************)
EXTENDS Naturals, Sequences, Folds

CONSTANTS Op(_, _, _), Inv(_, _, _, _)

\* The position a fold takes next.
Greatest(S) == CHOOSE x \in S : \A y \in S : x >= y

\* FoldLeft of SequencesExt with its definitions expanded.
Folded(c, base, seq) ==
  MapThenFoldSet(LAMBDA x, y : Op(c, y, x), base, LAMBDA i : seq[i], LAMBDA S : Greatest(S), DOMAIN seq)

\* A recursive function on the length of the part that was gone through.
Recursed(c, base, seq) ==
  LET of[i \in 0..Len(seq)] == IF i = 0 THEN base ELSE Op(c, of[i - 1], seq[i])
  IN  of[Len(seq)]

\* A set of numbers that is not empty has a least element.
LeastNumbers == \A T \in SUBSET Nat : T # {} => \E n \in T : \A m \in T : n <= m

\* A set of positions that is not empty has a greatest one.
LEMMA MaxOf ==
  ASSUME LeastNumbers, NEW n \in Nat, NEW s \in SUBSET (1..n), s # {}
  PROVE  Greatest(s) \in s /\ \A y \in s : Greatest(s) >= y
<1> DEFINE T == { n - x : x \in s }
<1>1. T \in SUBSET Nat /\ T # {}
  <2>1. \A x \in s : n - x \in Nat OBVIOUS
  <2> QED BY <2>1
<1>2. PICK t \in T : \A m \in T : t <= m BY <1>1 DEF LeastNumbers
<1>3. PICK x \in s : t = n - x OBVIOUS
<1>4. \A y \in s : x >= y
  <2> SUFFICES ASSUME NEW y \in s PROVE x >= y OBVIOUS
  <2>1. n - x <= n - y BY <1>2, <1>3
  <2> QED BY <2>1
<1> HIDE DEF T
<1> QED BY <1>4 DEF Greatest

\* The function on sets of positions up to n that the fold is defined by.
IsTable(c, base, seq, n, it) ==
  it = [s \in SUBSET (1..n) |-> IF s = {} THEN base ELSE Op(c, it[s \ {Greatest(s)}], seq[Greatest(s)])]

\* There is one for one position more ...
LEMMA NextTable ==
  ASSUME LeastNumbers, NEW c, NEW base, NEW seq, NEW n \in Nat, NEW it, IsTable(c, base, seq, n, it)
  PROVE  \E jt : IsTable(c, base, seq, n + 1, jt)
<1> DEFINE jt == [s \in SUBSET (1..n+1) |-> IF n + 1 \in s THEN Op(c, it[s \ {n+1}], seq[n+1]) ELSE it[s]]
<1>1. ASSUME NEW s \in SUBSET (1..n+1)
      PROVE  jt[s] = IF s = {} THEN base ELSE Op(c, jt[s \ {Greatest(s)}], seq[Greatest(s)])
  <2>1. CASE s = {}
    <3>1. jt[s] = it[s] BY <2>1
    <3>2. it[s] = base BY <2>1 DEF IsTable
    <3> QED BY <2>1, <3>1, <3>2
  <2>2. CASE n + 1 \in s
    <3>1. n + 1 \in Nat OBVIOUS
    <3>2. Greatest(s) \in s /\ Greatest(s) >= n + 1 BY <2>2, <3>1, MaxOf
    <3>3. Greatest(s) \in 1..n+1 BY <3>2
    <3>r. Greatest(s) = n + 1 BY <3>2, <3>3
    <3>4. s \ {n+1} \in SUBSET (1..n) /\ s \ {n+1} \in SUBSET (1..n+1) OBVIOUS
    <3>5. jt[s \ {n+1}] = it[s \ {n+1}] BY <3>4
    <3>6. jt[s] = Op(c, it[s \ {n+1}], seq[n+1]) BY <2>2
    <3> HIDE DEF jt
    <3> QED BY <2>2, <3>r, <3>5, <3>6
  <2>3. CASE s # {} /\ n + 1 \notin s
    <3>1. s \in SUBSET (1..n) BY <2>3
    <3>2. Greatest(s) \in s BY <2>3, <3>1, MaxOf
    <3>3. s \ {Greatest(s)} \in SUBSET (1..n+1) /\ n + 1 \notin s \ {Greatest(s)} BY <2>3
    <3>4. jt[s \ {Greatest(s)}] = it[s \ {Greatest(s)}] BY <3>3
    <3>5. jt[s] = it[s] BY <2>3
    <3>6. it[s] = Op(c, it[s \ {Greatest(s)}], seq[Greatest(s)]) BY <2>3, <3>1 DEF IsTable
    <3> HIDE DEF jt
    <3> QED BY <2>3, <3>4, <3>5, <3>6
  <2> QED BY <2>1, <2>2, <2>3
<1>2. jt = [s \in SUBSET (1..n+1) |-> jt[s]] OBVIOUS
<1> HIDE DEF jt
<1>3. IsTable(c, base, seq, n + 1, jt) BY <1>1, <1>2 DEF IsTable
<1> QED BY <1>3

\* ... and so for any number of them.
LEMMA TableExists ==
  ASSUME LeastNumbers, NEW c, NEW base, NEW seq, NEW n \in Nat
  PROVE  \E it : IsTable(c, base, seq, n, it)
<1> DEFINE Bad == { m \in Nat : ~ \E it : IsTable(c, base, seq, m, it) }
<1> SUFFICES ASSUME Bad # {} PROVE FALSE OBVIOUS
<1>1. PICK m \in Bad : \A k \in Bad : m <= k BY DEF LeastNumbers
<1>2. m # 0
  <2>1. SUBSET (1..0) = {{}} OBVIOUS
  <2> DEFINE it == [s \in SUBSET (1..0) |-> base]
  <2>2. it = [s \in SUBSET (1..0) |-> IF s = {} THEN base ELSE Op(c, it[s \ {Greatest(s)}], seq[Greatest(s)])]
    BY <2>1
  <2>3. IsTable(c, base, seq, 0, it) BY <2>2 DEF IsTable
  <2> HIDE DEF it
  <2> QED BY <2>3
<1>3. m - 1 \in Nat /\ (m - 1) + 1 = m /\ m - 1 \notin Bad BY <1>1, <1>2
<1>4. PICK it : IsTable(c, base, seq, m - 1, it) BY <1>3
<1>5. \E jt : IsTable(c, base, seq, (m - 1) + 1, jt) BY <1>3, <1>4, NextTable
<1> QED BY <1>3, <1>5

\* What both go through.
Steps(c, base, seq, f) ==
  /\ f[0] = base
  /\ \A i \in 1..Len(seq) : f[i] = Op(c, f[i-1], seq[i])

\* f is a function on the lengths up to n.
Tabulated(f, n) == f = [i \in 0..n |-> f[i]]

\* A fold goes through its steps one after the other.
THEOREM FoldHasSteps ==
  ASSUME LeastNumbers, NEW c, NEW base, NEW S, NEW seq \in Seq(S)
  PROVE  \E f : /\ Steps(c, base, seq, f)
                /\ Tabulated(f, Len(seq))
                /\ Folded(c, base, seq) = f[Len(seq)]
<1> DEFINE n == Len(seq)
           it == CHOOSE it : IsTable(c, base, seq, n, it)
           f == [i \in 0..n |-> it[1..i]]
<1>1. n \in Nat /\ DOMAIN seq = 1..n OBVIOUS
<1>2. IsTable(c, base, seq, n, it) BY <1>1, TableExists
<1>3. Folded(c, base, seq) = it[1..n]
  BY <1>1 DEF Folded, MapThenFoldSet, IsTable
<1> HIDE DEF it
<1>4. f[0] = base
  <2>1. 1..0 = {} /\ 1..0 \in SUBSET (1..n) OBVIOUS
  <2> QED BY <1>2, <2>1 DEF IsTable
<1>5. ASSUME NEW i \in 1..n PROVE f[i] = Op(c, f[i-1], seq[i])
  <2>0. i \in Nat /\ 1 <= i /\ i <= n BY <1>1
  <2>a. i \in 1..i /\ \A j \in 1..i : j \in 1..n BY <1>1, <2>0
  <2>1. 1..i \in SUBSET (1..n) /\ 1..i # {} /\ i \in 1..i BY <2>a
  <2>2. Greatest(1..i) \in 1..i /\ Greatest(1..i) >= i BY <1>1, <2>1, MaxOf
  <2>3. Greatest(1..i) = i BY <2>2
  <2>4. (1..i) \ {i} = 1..(i-1) OBVIOUS
  <2>5. it[1..i] = Op(c, it[(1..i) \ {Greatest(1..i)}], seq[Greatest(1..i)])
    BY <1>2, <2>1 DEF IsTable
  <2>6. f[i] = it[1..i] /\ f[i-1] = it[1..(i-1)] OBVIOUS
  <2> HIDE DEF f
  <2> QED BY <2>3, <2>4, <2>5, <2>6
<1>6. f[n] = it[1..n] BY <1>1
<1>7. f = [i \in 0..n |-> f[i]] OBVIOUS
<1>8. Steps(c, base, seq, f) BY <1>4, <1>5 DEF Steps
<1>9. Tabulated(f, n) BY <1>7 DEF Tabulated
<1> HIDE DEF f
<1> QED BY <1>3, <1>6, <1>8, <1>9

\* So does a recursive function: its equation has a solution.
THEOREM RecursionHasSteps ==
  ASSUME LeastNumbers, NEW c, NEW base, NEW S, NEW seq \in Seq(S)
  PROVE  \E f : Steps(c, base, seq, f) /\ Recursed(c, base, seq) = f[Len(seq)]
<1> DEFINE n == Len(seq)
           Solves(of) == of = [i \in 0..n |-> IF i = 0 THEN base ELSE Op(c, of[i - 1], seq[i])]
           of == CHOOSE of : Solves(of)
<1>1. n \in Nat /\ 0 \in 0..n /\ \A i \in 1..n : i \in 0..n /\ i # 0 OBVIOUS
<1>2. PICK f : Steps(c, base, seq, f) /\ Tabulated(f, n) BY FoldHasSteps
<1>3. ASSUME NEW i \in 0..n PROVE f[i] = IF i = 0 THEN base ELSE Op(c, f[i - 1], seq[i])
  <2>1. CASE i = 0 BY <1>2, <2>1 DEF Steps
  <2>2. CASE i # 0
    <3>1. i \in 1..n BY <1>1, <2>2
    <3> QED BY <1>2, <2>2, <3>1 DEF Steps
  <2> QED BY <2>1, <2>2
<1>4. Solves(f) BY <1>2, <1>3 DEF Tabulated
<1>5. Solves(of) BY <1>4
<1>6. Recursed(c, base, seq) = of[n] BY DEF Recursed
<1> HIDE DEF of
<1>7. of[0] = base BY <1>1, <1>5
<1>8. \A i \in 1..n : of[i] = Op(c, of[i - 1], seq[i]) BY <1>1, <1>5
<1> QED BY <1>6, <1>7, <1>8 DEF Steps

\* What holds at first, and after a step where it held before, holds at the end.
Kept(c, seq) ==
  \A i \in 1..Len(seq) : \A acc : Inv(c, acc, seq, i - 1) => Inv(c, Op(c, acc, seq[i]), seq, i)

\* Least counterexample: the first step after which the invariant does not hold.
LEMMA StepsKeep ==
  ASSUME LeastNumbers, NEW c, NEW base, NEW S, NEW seq \in Seq(S), NEW f, Steps(c, base, seq, f),
         Inv(c, base, seq, 0), Kept(c, seq)
  PROVE  Inv(c, f[Len(seq)], seq, Len(seq))
<1> DEFINE n == Len(seq)
           Bad == { i \in 0..n : ~Inv(c, f[i], seq, i) }
<1>1. n \in Nat /\ n \in 0..n OBVIOUS
<1> SUFFICES ASSUME Bad # {} PROVE FALSE BY <1>1
<1>2. Bad \in SUBSET Nat OBVIOUS
<1>3. PICK m \in Bad : \A k \in Bad : m <= k BY <1>2 DEF LeastNumbers
<1>4. m # 0 BY <1>3 DEF Steps
<1>5. m \in 1..n /\ m - 1 \in 0..n /\ m - 1 \notin Bad BY <1>3, <1>4
<1>6. Inv(c, f[m - 1], seq, m - 1) BY <1>5
<1>7. Inv(c, Op(c, f[m - 1], seq[m]), seq, m) BY <1>5, <1>6 DEF Kept
<1>8. f[m] = Op(c, f[m - 1], seq[m]) BY <1>5 DEF Steps
<1> QED BY <1>3, <1>7, <1>8

\* Induction over a list for FoldLeft.
THEOREM FoldKeeps ==
  ASSUME LeastNumbers, NEW c, NEW base, NEW S, NEW seq \in Seq(S), Inv(c, base, seq, 0), Kept(c, seq)
  PROVE  Inv(c, Folded(c, base, seq), seq, Len(seq))
<1>1. PICK f : Steps(c, base, seq, f) /\ Folded(c, base, seq) = f[Len(seq)] BY FoldHasSteps
<1> QED BY <1>1, StepsKeep

\* Induction over a list for a recursive function.
THEOREM RecursionKeeps ==
  ASSUME LeastNumbers, NEW c, NEW base, NEW S, NEW seq \in Seq(S), Inv(c, base, seq, 0), Kept(c, seq)
  PROVE  Inv(c, Recursed(c, base, seq), seq, Len(seq))
<1>1. PICK f : Steps(c, base, seq, f) /\ Recursed(c, base, seq) = f[Len(seq)] BY RecursionHasSteps
<1> QED BY <1>1, StepsKeep
=============================================================================
