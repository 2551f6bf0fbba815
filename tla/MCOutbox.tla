-------------------------------- MODULE MCOutbox --------------------------------
(* Small instances of Outbox and Heartbeats for TLC.  The two share no state: *)
(* a behaviour is of one of them, and the other is off.                       *)
EXTENDS Outbox, Heartbeats

VARIABLE part

\* No replica is launched.
OutboxOnly ==
    /\ part = "outbox" /\ Init
    /\ HeartbeatsInitOf("ended")

\* The publisher has nothing to post.
HeartbeatsOnly == part = "heartbeats" /\ HeartbeatsInit /\ Init

EitherNext == /\ \/ part = "outbox" /\ Next /\ UNCHANGED heartbeatVars
                 \/ part = "heartbeats" /\ HeartbeatsNext /\ UNCHANGED vars
              /\ UNCHANGED part

EitherSpec == /\ (OutboxOnly \/ HeartbeatsOnly)
              /\ [][EitherNext]_<<part, vars, heartbeatVars>>
              /\ Fairness /\ HeartbeatsFairness
================================================================================
