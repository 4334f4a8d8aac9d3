---------------------------- MODULE MCDurability -----------------------------
(* Instances of Durability for TLC. *)
EXTENDS Durability, TLC

CONSTANTS t1, t2, t3

\* A file of the default storage version, under every kind of load; one whose
\* WAL names its checkpoint, under commits and checkpoints one at a time.
MCSetups == {[identified |-> FALSE, concurrent |-> TRUE, bulk |-> TRUE],
             [identified |-> TRUE, concurrent |-> FALSE, bulk |-> FALSE]}
IdentifiedOnly == {[identified |-> TRUE, concurrent |-> TRUE, bulk |-> FALSE]}
DefaultOnly == {[identified |-> FALSE, concurrent |-> TRUE, bulk |-> FALSE]}

MCSymmetry == Permutations(Txns)
=============================================================================
