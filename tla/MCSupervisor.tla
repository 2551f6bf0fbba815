------------------------------ MODULE MCSupervisor ------------------------------
(* Small instances of Supervisor and Telemetry for TLC.  The two share no   *)
(* state: a behaviour is of one of them, and the other is off.              *)
(*                                                                          *)
(* Supervisor: the first job has two keys, and a key of each job hashes to  *)
(* the same port.  Telemetry: an online rank on two nodes, one on a single  *)
(* node, and a batch rank on two nodes, on machines of two GPUs and of one. *)
EXTENDS Supervisor, Telemetry

CONSTANTS j1, j2, a1, a2, b1
VARIABLE part

JobOfKeys == [k \in Key |-> IF k = b1 THEN j2 ELSE j1]
SharedPorts == [k \in Key |-> IF k = a1 THEN 1 ELSE 2]
OnePort == [k \in Key |-> 1]

SomeRanks ==
    [multi |-> [job |-> j1, kind |-> "online", n |-> 1, count |-> 2, node_count |-> 2,
                per_chain |-> 0],
     single |-> [job |-> j1, kind |-> "online", n |-> 2, count |-> 1, node_count |-> 0,
                 per_chain |-> 0],
     set |-> [job |-> j2, kind |-> "batch", n |-> 1, count |-> 2, node_count |-> 2,
              per_chain |-> 0]]
\* The batch rank says num_nodes_per_chain instead.
PerChainRanks == [SomeRanks EXCEPT !.set.node_count = 0, !.set.per_chain = 2]
SomeGpus == <<2, 1>>
OneRank == {{}, {"multi"}, {"single"}, {"set"}}
BatchOnly == {{"set"}}
NoRank == {{}}

ProcessesOnly == /\ part = "processes" /\ Init
                 /\ TelemetryInit /\ tick = "off" /\ active = {} /\ attributed
TelemetryOnly == /\ part = "telemetry" /\ TelemetryInit /\ tick = "idle" /\ active # {}
                 /\ main = "gone" /\ thread = "ended"
                 /\ desired = {} /\ process = [k \in Key |-> "none"] /\ orphans = {}
                 /\ exits = 0 /\ errors = 0 /\ crashes = 0

EitherNext == /\ \/ part = "processes" /\ Next /\ UNCHANGED telemetryVars
                 \/ part = "telemetry" /\ TelemetryNext /\ UNCHANGED vars
              /\ UNCHANGED part

EitherSpec == /\ (ProcessesOnly \/ TelemetryOnly)
              /\ [][EitherNext]_<<part, vars, telemetryVars>>
              /\ Fairness /\ TelemetryFairness
================================================================================
