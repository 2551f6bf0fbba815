-------------------------------- MODULE Supervisor --------------------------------
(***************************************************************************)
(* The processes that Orca keeps alive on the control-plane laptop:        *)
(* _ProcessSupervisor, PortForwardManager and RouterProcessManager         *)
(* (tandemn_orca/tunnels.py), their callers in MultiClusterLauncher        *)
(* (tandemn_orca/launcher.py), and the end of Orca's main                  *)
(* (tandemn_orca/orca.py).                                                 *)
(*                                                                         *)
(* A key is a (job, rank) of a tunnel, or the (job,) of a router.  Its     *)
(* port is a hash, so that keys of two jobs may have the same one.  The    *)
(* main thread reconciles and closes; the supervisor thread looks at the   *)
(* stop flag, takes the lock, starts what does not run, and waits.  A      *)
(* process binds its port, or exits when another process holds it.  The    *)
(* children of an Orca that is gone live on, and nobody supervises them.   *)
(***************************************************************************)
EXTENDS Naturals

CONSTANTS Job, Key,
          JobOf,       \* the job of a key
          PortOf,      \* the local port that its process binds
          Refuses,     \* reconcile refuses a port that another job holds
          MaxExits,    \* bound: processes that exit on their own
          MaxErrors,   \* bound: popen raises
          MaxCrashes   \* bound: Orca is closed or killed

ASSUME SupervisorAssumption ==
    /\ JobOf \in [Key -> Job] /\ PortOf \in [Key -> Nat]
    /\ Refuses \in BOOLEAN
    /\ MaxExits \in Nat /\ MaxErrors \in Nat /\ MaxCrashes \in Nat

VARIABLES main,     \* Orca: up, in close(), or gone
          thread,   \* the supervisor thread
          desired,  \* _desired
          process,  \* of a key: what its entry of _processes does
          orphans,  \* the keys whose process outlived its Orca
          exits, errors, crashes

vars == <<main, thread, desired, process, orphans, exits, errors, crashes>>

KeysOf(j) == {k \in Key : JobOf[k] = j}
SamePort(k, q) == PortOf[k] = PortOf[q]
Alive(k) == process[k] \in {"starting", "up"}

\* _stopped.
Stopped == main # "up"

-----------------------------------------------------------------------------

Init == /\ main = "up" /\ thread = "test"
        /\ desired = {} /\ process = [k \in Key |-> "none"] /\ orphans = {}
        /\ exits = 0 /\ errors = 0 /\ crashes = 0

-----------------------------------------------------------------------------
(* The main thread.                                                        *)

\* _ports_by_rank raises when two ranks of the job have one port.
PortsDiffer(S) == \A k, q \in S : SamePort(k, q) => k = q

\* Fault: the check looks at the job's own keys.
UnclaimedOwn(j, S) == \A k \in S, q \in desired \cap KeysOf(j) : SamePort(k, q) => JobOf[q] = j

\* No key of another job holds a port of S.
Unclaimed(j, S) == \A k \in S, q \in desired : SamePort(k, q) => JobOf[q] = j

\* Fault: the stale keys are forgotten and their processes are not stopped.
ReplaceJobForgetting(j, S) ==
    /\ desired' = (desired \ KeysOf(j)) \cup S
    /\ UNCHANGED process

\* _replace_job: the processes of the job's stale keys are stopped, under the lock.
ReplaceJob(j, S) ==
    /\ desired' = (desired \ KeysOf(j)) \cup S
    /\ process' = [k \in Key |-> IF k \in (desired \cap KeysOf(j)) \ S THEN "none" ELSE process[k]]

\* reconcile, with no key when the job is torn down.  A reconcile that raises changes
\* nothing here.
Reconcile(j, S) ==
    /\ main = "up"
    /\ S \subseteq KeysOf(j) /\ PortsDiffer(S)
    /\ Refuses => Unclaimed(j, S)
    /\ ReplaceJob(j, S)
    /\ UNCHANGED <<main, thread, orphans, exits, errors, crashes>>

\* close sets the stop flag, stops the processes under the lock, and joins the thread for
\* two seconds at most; then Orca exits.
Close ==
    /\ main = "up" /\ crashes < MaxCrashes
    /\ main' = "closing" /\ crashes' = crashes + 1
    /\ UNCHANGED <<thread, desired, process, orphans, exits, errors>>

CloseStops ==
    /\ main = "closing"
    /\ main' = "joining"
    /\ process' = [k \in Key |-> "none"]
    /\ UNCHANGED <<thread, desired, orphans, exits, errors, crashes>>

\* Orca is gone: its memory and its threads with it, but not its children.
Gone == /\ main' = "gone" /\ thread' = "ended"
        /\ desired' = {} /\ process' = [k \in Key |-> "none"]
        /\ orphans' = orphans \cup {k \in Key : Alive(k)}
        /\ UNCHANGED <<exits, errors>>

Exit == main = "joining" /\ Gone /\ UNCHANGED crashes

Killed == main # "gone" /\ crashes < MaxCrashes /\ Gone /\ crashes' = crashes + 1

Restart ==
    /\ main = "gone"
    /\ main' = "up" /\ thread' = "test"
    /\ UNCHANGED <<desired, process, orphans, exits, errors, crashes>>

-----------------------------------------------------------------------------
(* The supervisor thread.                                                  *)

Test ==
    /\ thread = "test"
    /\ thread' = IF Stopped THEN "ended" ELSE "pass"
    /\ UNCHANGED <<main, desired, process, orphans, exits, errors, crashes>>

\* Fault: only a key that has no process yet is started.
MissingNever == {k \in desired : process[k] = "none"}

\* process is None or process.poll() is not None.
Missing == {k \in desired : process[k] \in {"none", "exited"}}

Started(S) == process' = [k \in Key |-> IF k \in S THEN "starting" ELSE process[k]]

\* One pass over the desired keys, under the lock.
Pass ==
    /\ thread = "pass"
    /\ thread' = "wait" /\ Started(Missing)
    /\ UNCHANGED <<main, desired, orphans, exits, errors, crashes>>

\* popen raises: nothing catches it, and the thread is over.
PassRaises ==
    /\ thread = "pass" /\ Missing # {} /\ errors < MaxErrors
    /\ errors' = errors + 1
    /\ thread' = "died"
    /\ \E S \in SUBSET Missing : S # Missing /\ Started(S)
    /\ UNCHANGED <<main, desired, orphans, exits, crashes>>

\* The wait is over, by a wake-up or after retry_seconds.
Wake ==
    /\ thread = "wait"
    /\ thread' = "test"
    /\ UNCHANGED <<main, desired, process, orphans, exits, errors, crashes>>

-----------------------------------------------------------------------------
(* The processes.                                                          *)

Taken(k) == \/ \E q \in Key \ {k} : process[q] = "up" /\ SamePort(k, q)
            \/ \E q \in orphans : SamePort(k, q)

Bind(k) ==
    /\ process[k] = "starting"
    /\ process' = [process EXCEPT ![k] = IF Taken(k) THEN "exited" ELSE "up"]
    /\ UNCHANGED <<main, thread, desired, orphans, exits, errors, crashes>>

Exits(k) ==
    /\ process[k] = "up" /\ exits < MaxExits
    /\ exits' = exits + 1
    /\ process' = [process EXCEPT ![k] = "exited"]
    /\ UNCHANGED <<main, thread, desired, orphans, errors, crashes>>

OrphanExits(k) ==
    /\ k \in orphans
    /\ orphans' = orphans \ {k}
    /\ UNCHANGED <<main, thread, desired, process, exits, errors, crashes>>

-----------------------------------------------------------------------------

Thread == Test \/ Pass \/ Wake

Next == \/ \E j \in Job, S \in SUBSET Key : Reconcile(j, S)
        \/ Close \/ CloseStops \/ Exit \/ Killed \/ Restart
        \/ Thread \/ PassRaises
        \/ \E k \in Key : Bind(k) \/ Exits(k) \/ OrphanExits(k)

Spec == Init /\ [][Next]_vars

\* The thread is scheduled, and a process that was started binds its port or exits.
Fairness == WF_vars(Thread) /\ \A k \in Key : WF_vars(Bind(k))

FairSpec == Spec /\ Fairness

-----------------------------------------------------------------------------
(* Properties.                                                             *)

TypeOK ==
    /\ main \in {"up", "closing", "joining", "gone"}
    /\ thread \in {"test", "pass", "wait", "ended", "died"}
    /\ desired \subseteq Key /\ orphans \subseteq Key
    /\ process \in [Key -> {"none", "starting", "up", "exited"}]
    /\ exits \in Nat /\ errors \in Nat /\ crashes \in Nat

\* Nothing runs for a rank or a job that was taken away, whatever the thread was doing
\* when it was.
OnlyDesiredRuns == \A k \in Key : process[k] # "none" => k \in desired

\* On the port that a job's router is told for a rank, no supervised process of another
\* job listens or is about to.
PortsGoHome ==
    Refuses => \A k \in desired, q \in Key :
                   Alive(q) /\ SamePort(k, q) => JobOf[q] = JobOf[k]

\* Supervision ended with Orca or with an exception, or an orphan sits on the port.
Beyond(k) == Stopped \/ thread = "died" \/ \E q \in orphans : SamePort(k, q)

\* Whatever exits, what is desired gets a process that has its port.
DesiredRuns == \A k \in Key : k \in desired ~> process[k] = "up" \/ k \notin desired \/ Beyond(k)
================================================================================
