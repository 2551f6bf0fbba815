------------------------------- MODULE MCMetrics -------------------------------
(* Small instances of Metrics and JobReport for TLC.  The two share no      *)
(* state: a behaviour is of one of them, and the other does not move.       *)
(*                                                                          *)
(* JobReport: three replicas, one of which has shorter requests and a       *)
(* cheaper instance than the others.                                        *)
EXTENDS Metrics, JobReport, TLC

CONSTANTS w1
VARIABLE part

Symmetry == Permutations(Replica)

Lengths == [w \in Worker |-> IF w = w1 THEN 2 ELSE 4]
Rates == [w \in Worker |-> IF w = w1 THEN 1 ELSE 3]

EitherInit == part \in {"counters", "report"} /\ Init /\ JobReportInit

EitherNext == /\ \/ part = "counters" /\ Next /\ UNCHANGED reportVars
                 \/ part = "report" /\ JobReportNext /\ UNCHANGED vars
              /\ UNCHANGED part

EitherSpec == EitherInit /\ [][EitherNext]_<<part, vars, reportVars>>
================================================================================
