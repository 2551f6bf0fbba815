------------------------------- MODULE Heartbeats -------------------------------
(***************************************************************************)
(* The launch heartbeats to Koi: _start_, _update_, _stop_ and             *)
(* _run_koi_launch_heartbeat (orca_server/launcher.py), the thread that    *)
(* launches a replica and goes on to monitor it, and the handler of        *)
(* model_ready (_notify_koi_replica_ready, server.py).                     *)
(*                                                                         *)
(* One registry maps a replica to its entry: the event that stops the      *)
(* thread, and the payload.  A thread looks the entry up before each beat  *)
(* and waits for the event it found there, so a thread and an entry belong *)
(* together only as long as whoever stops an entry also waits for its      *)
(* thread.  stop waits one second: a thread that is still in the post of a *)
(* beat (SQLite's lock, or five seconds of HTTP without the outbox) may    *)
(* outlast it; one that only has to be scheduled does not.                 *)
(*                                                                         *)
(* Koi is told by config-attempted that an attempt has failed and by       *)
(* job-started that a replica is ready.  Beats are counted per attempt     *)
(* once Koi has been told that it is over, and no further than two.  An    *)
(* exception between the return of sky.launch and the registration of the  *)
(* replica is left out.                                                    *)
(***************************************************************************)
EXTENDS Naturals

CONSTANTS Launching,  \* the replicas that are launched, in launch and monitor threads
          Attempts,   \* how many configurations a launch may try
          MaxSlow     \* bound: posts that outlast a stop

ASSUME HeartbeatsAssumption == Attempts \in Nat \ {0} /\ MaxSlow \in Nat

VARIABLES step,     \* what the launch and monitor thread of a replica does
          tries,    \* the configuration it tries
          model,    \* the runner of a replica: model_ready and its handler
          entry,    \* _koi_launch_heartbeats: attempt and phase of the payload, or attempt 0
          stopped,  \* the entries, named by their attempts, whose event is set
          beater,   \* the thread that was started for an attempt
          found,    \* the attempt whose entry it found last
          over,     \* the attempts that Koi was told are over
          late,     \* how many beats Koi was sent of such an attempt afterwards
          slow      \* posts that outlasted a stop

heartbeatVars == <<step, tries, model, entry, stopped, beater, found, over, late, slow>>

AttemptNo == 1..Attempts
Alive == {"starting", "posting", "waiting"}
BeatPhases == {"searching_capacity", "provisioning", "bootstrapping", "waiting_model_ready"}
NoEntry == [attempt |-> 0, phase |-> "none"]

HeartbeatsInitOf(state) ==
    /\ step = [r \in Launching |-> state]
    /\ tries = [r \in Launching |-> 1]
    /\ model = [r \in Launching |-> "off"]
    /\ entry = [r \in Launching |-> NoEntry]
    /\ stopped = [r \in Launching |-> {}]
    /\ beater = [r \in Launching |-> [a \in AttemptNo |-> "none"]]
    /\ found = [r \in Launching |-> [a \in AttemptNo |-> 0]]
    /\ over = [r \in Launching |-> {}]
    /\ late = [r \in Launching |-> [a \in AttemptNo |-> 0]]
    /\ slow = 0

HeartbeatsInit == HeartbeatsInitOf("trying")

-----------------------------------------------------------------------------
(* The registry.                                                           *)

\* Fault: the event is not set.
PopOnly(r) == entry' = [entry EXCEPT ![r] = NoEntry] /\ UNCHANGED stopped

\* _stop_koi_launch_heartbeat up to the join: the entry is popped and its event set.
PopAndSet(r) ==
    /\ entry' = [entry EXCEPT ![r] = NoEntry]
    /\ stopped' = [stopped EXCEPT ![r] = @ \cup ({entry[r].attempt} \ {0})]

\* Its join, of no thread when there was no entry: the thread has ended, or one second
\* is over while the thread posts.
Joined(r, T) ==
    \/ /\ \A a \in T : beater[r][a] \notin Alive
       /\ UNCHANGED slow
    \/ /\ \E a \in T : beater[r][a] = "posting"
       /\ slow < MaxSlow /\ slow' = slow + 1

\* _update_koi_launch_heartbeat: an entry that is gone stays so.
Update(r, phase) == entry' = [entry EXCEPT ![r].phase = IF @ = "none" THEN @ ELSE phase]

-----------------------------------------------------------------------------
(* The launch thread, which becomes the monitor thread.                    *)

\* The next configuration: _start_koi_launch_heartbeat.  The entry of an earlier
\* attempt was stopped when it failed, so the stop it begins with finds nothing.
StartHeartbeat(r) ==
    /\ step[r] = "trying"
    /\ entry' = [entry EXCEPT ![r] = [attempt |-> tries[r],
                                       phase |-> "searching_capacity"]]
    /\ beater' = [beater EXCEPT ![r][tries[r]] = "starting"]
    /\ step' = [step EXCEPT ![r] = "launching"]
    /\ UNCHANGED <<tries, model, stopped, found, over, late, slow>>

\* sky.launch has returned its request; then the cluster is up and the runner starts.
Progress(r) ==
    /\ \/ /\ step[r] = "launching" /\ Update(r, "provisioning")
          /\ step' = [step EXCEPT ![r] = "provisioning"] /\ UNCHANGED model
       \/ /\ step[r] = "provisioning" /\ Update(r, "bootstrapping")
          /\ step' = [step EXCEPT ![r] = "registering"]
          /\ model' = [model EXCEPT ![r] = "loading"]
       \/ /\ step[r] = "registering" /\ Update(r, "waiting_model_ready")
          /\ step' = [step EXCEPT ![r] = "monitoring"] /\ UNCHANGED model
    /\ UNCHANGED <<tries, stopped, beater, found, over, late, slow>>

\* An exception of the attempt: the heartbeat is stopped ...
LaunchRaises(r) ==
    /\ step[r] \in {"launching", "provisioning"}
    /\ PopAndSet(r)
    /\ step' = [step EXCEPT ![r] = "stopping"]
    /\ UNCHANGED <<tries, model, beater, found, over, late, slow>>

\* ... Koi is told that the attempt failed, and the next configuration is tried.
AttemptFails(r) ==
    /\ step[r] = "stopping" /\ Joined(r, {tries[r]})
    /\ over' = [over EXCEPT ![r] = @ \cup {tries[r]}]
    /\ IF tries[r] < Attempts
       THEN /\ tries' = [tries EXCEPT ![r] = @ + 1]
            /\ step' = [step EXCEPT ![r] = "trying"]
       ELSE /\ step' = [step EXCEPT ![r] = "ended"] /\ UNCHANGED tries
    /\ UNCHANGED <<model, entry, stopped, beater, found, late>>

\* Fault: only model_ready stops a heartbeat.
MonitorEndsKeeping(r) ==
    /\ step[r] = "monitoring" /\ step' = [step EXCEPT ![r] = "ended"]
    /\ model' = [model EXCEPT ![r] = IF @ = "notifying" THEN @ ELSE "gone"]
    /\ UNCHANGED <<tries, entry, stopped, beater, found, over, late, slow>>

\* tail_logs has returned or raised, and the finally block stops the heartbeat: the
\* runner was killed or lost before model_ready, or has ended after it.
MonitorEnds(r) ==
    /\ step[r] = "monitoring" /\ PopAndSet(r)
    /\ step' = [step EXCEPT ![r] = "ended"]
    /\ model' = [model EXCEPT ![r] = IF @ = "notifying" THEN @ ELSE "gone"]
    /\ UNCHANGED <<tries, beater, found, over, late, slow>>

\* The runner reports model_ready: its handler stops the heartbeat, on the event loop ...
ModelReady(r) ==
    /\ model[r] = "loading" /\ PopAndSet(r)
    /\ model' = [model EXCEPT ![r] = "notifying"]
    /\ UNCHANGED <<step, tries, beater, found, over, late, slow>>

\* ... and job-started is enqueued, unless the replica's state lacks the decision of
\* Koi, which the launch thread stores after sky.launch has returned.
Notify(r) ==
    /\ model[r] = "notifying"
    /\ Joined(r, {tries[r]} \cap stopped[r])
    /\ model' = [model EXCEPT ![r] = IF step[r] = "registering" THEN "unnoticed" ELSE "ready"]
    /\ over' = [over EXCEPT ![r] = IF step[r] = "registering" THEN @ ELSE @ \cup {tries[r]}]
    /\ UNCHANGED <<step, tries, entry, stopped, beater, found, late>>

-----------------------------------------------------------------------------
(* The heartbeat threads: _run_koi_launch_heartbeat.                       *)

\* The entry of the replica is looked up: there is one, and the thread posts a copy of
\* its payload, or the thread ends.  A wait that ends without the event comes here.
LookUp(r, a) ==
    /\ \/ beater[r][a] = "starting"
       \/ beater[r][a] = "waiting" /\ found[r][a] \notin stopped[r]
    /\ IF entry[r].attempt = 0
       THEN beater' = [beater EXCEPT ![r][a] = "ended"] /\ UNCHANGED found
       ELSE /\ beater' = [beater EXCEPT ![r][a] = "posting"]
            /\ found' = [found EXCEPT ![r][a] = entry[r].attempt]
    /\ UNCHANGED <<step, tries, model, entry, stopped, over, late, slow>>

\* The beat is enqueued: _notify_koi_launch_heartbeat.
Beat(r, a) ==
    /\ beater[r][a] = "posting"
    /\ beater' = [beater EXCEPT ![r][a] = "waiting"]
    /\ late' = [late EXCEPT ![r][found[r][a]] =
                    IF found[r][a] \in over[r] /\ @ < 2 THEN @ + 1 ELSE @]
    /\ UNCHANGED <<step, tries, model, entry, stopped, found, over, slow>>

\* The event that it waits for is set.
Told(r, a) ==
    /\ beater[r][a] = "waiting" /\ found[r][a] \in stopped[r]
    /\ beater' = [beater EXCEPT ![r][a] = "ended"]
    /\ UNCHANGED <<step, tries, model, entry, stopped, found, over, late, slow>>

BeatThread(r, a) == LookUp(r, a) \/ Beat(r, a) \/ Told(r, a)
LaunchThread(r) == StartHeartbeat(r) \/ Progress(r) \/ LaunchRaises(r) \/ AttemptFails(r)

HeartbeatsNext ==
    \E r \in Launching : \/ LaunchThread(r) \/ MonitorEnds(r) \/ ModelReady(r) \/ Notify(r)
                         \/ \E a \in AttemptNo : BeatThread(r, a)

HeartbeatsSpec == HeartbeatsInit /\ [][HeartbeatsNext]_heartbeatVars

\* Threads are scheduled, sky.launch returns or raises, and tail_logs returns when the
\* runner is gone.
HeartbeatsFairness ==
    \A r \in Launching :
        /\ WF_heartbeatVars(LaunchThread(r)) /\ WF_heartbeatVars(MonitorEnds(r))
        /\ WF_heartbeatVars(Notify(r))
        /\ \A a \in AttemptNo : WF_heartbeatVars(BeatThread(r, a))

-----------------------------------------------------------------------------
(* Properties.                                                             *)

HeartbeatsTypeOK ==
    /\ step \in [Launching -> {"trying", "launching", "provisioning", "registering",
                               "monitoring", "stopping", "ended"}]
    /\ tries \in [Launching -> AttemptNo]
    /\ model \in [Launching -> {"off", "loading", "notifying", "ready", "unnoticed", "gone"}]
    /\ entry \in [Launching -> [attempt : 0..Attempts, phase : BeatPhases \cup {"none"}]]
    /\ stopped \in [Launching -> SUBSET AttemptNo]
    /\ beater \in [Launching -> [AttemptNo -> Alive \cup {"none", "ended"}]]
    /\ found \in [Launching -> [AttemptNo -> 0..Attempts]]
    /\ over \in [Launching -> SUBSET AttemptNo]
    /\ late \in [Launching -> [AttemptNo -> 0..2]]
    /\ slow \in 0..MaxSlow

\* Once Koi has been told that an attempt failed or that its replica is ready, it is
\* sent at most one more beat of it, although threads of earlier attempts may live on.
OneLateBeat == \A r \in Launching, a \in AttemptNo : late[r][a] <= 1

\* A replica's heartbeat threads end, whether it gets ready, fails, is killed or is lost.
BeatsEnd == \A r \in Launching : <>[](\A a \in AttemptNo : beater[r][a] \notin Alive)

\* A replica that reports model_ready is announced to Koi by job-started.
ReadyIsNoticed == \A r \in Launching : model[r] # "unnoticed"
================================================================================
