----------------------------- MODULE MCRowVersions -----------------------------
(* Instances of RowVersions for TLC. *)
EXTENDS RowVersions, TLC

Setup(f, c, d, n) == [fail |-> f, checkpoint |-> c, duplicates |-> d, changes |-> n]
Alone == UNION {[{t} -> {2}] : t \in Txns}
\* Two transactions with two changes each; one that only reads beside two with one.
Pairs == {n \in UNION {[{t, u} -> {2}] : t \in Txns, u \in Txns} : Cardinality(DOMAIN n) = 2}
Reader == {n \in [Txns -> 0 .. 1] : Cardinality({t \in Txns : n[t] = 1}) = 2}

\* Together, commits either fail or checkpoint.
MostSetups == {Setup(TRUE, TRUE, TRUE, n) : n \in Alone}
              \union {Setup(f, ~f, FALSE, n) : f \in BOOLEAN, n \in Pairs \union Reader}
FailingAndCheckpointing == {Setup(TRUE, TRUE, FALSE, n) : n \in Pairs}
Duplicates == {Setup(FALSE, FALSE, TRUE, n) : n \in Pairs}
Symmetry == Permutations(Txns)
===============================================================================
