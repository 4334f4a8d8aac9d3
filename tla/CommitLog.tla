------------------------------ MODULE CommitLog ------------------------------
(***************************************************************************)
(* What a database file promises about commits, with no file, log or      *)
(* checkpoint in sight: a commit becomes durable once, durable commits     *)
(* stay, and a commit that was reported as successful is durable.          *)
(***************************************************************************)
CONSTANT Txns

VARIABLES durable,   \* the commits that survive any crash from here on
          acked      \* the commits reported as successful

vars == <<durable, acked>>

Init == durable = {} /\ acked = {}

\* A flush, a checkpoint or the loss of power decides for some commits.
Persist == \E S \in SUBSET (Txns \ durable) :
             S # {} /\ durable' = durable \union S /\ UNCHANGED acked

\* The caller is told of a commit only when it is durable.
Acknowledge == \E t \in durable \ acked :
                 acked' = acked \union {t} /\ UNCHANGED durable

Next == Persist \/ Acknowledge

Spec == Init /\ [][Next]_vars
=============================================================================
