--------------------------------- MODULE Outbox ---------------------------------
(***************************************************************************)
(* The durable queue of webhooks to Koi: _post_koi_webhook                 *)
(* (orca_server/launcher.py), OutboxDB, OutboxPublisher, init_outbox and   *)
(* shutdown_outbox (orca_server/outbox.py) and the part of the server's    *)
(* lifespan that calls them.                                               *)
(*                                                                         *)
(* Time is abstracted to the order of next_attempt_at among the rows that  *)
(* are due: a new row and a row whose backoff is over go to the end.  The  *)
(* publisher posts the rows of a claimed batch one by one, and a claimed   *)
(* row stays in the table; monitor threads, the watchdog and handlers add  *)
(* rows meanwhile.  Koi goes down and comes back, answers too late, or     *)
(* refuses an event for ever; the server crashes, or shuts down while the  *)
(* publisher is in a batch that takes longer than the five seconds stop()  *)
(* waits for it.  Retention (24 h) is longer than any batch.               *)
(***************************************************************************)
EXTENDS Naturals, Sequences

CONSTANTS Keys,        \* the event_ids: dedup keys, or one uuid each
          Poison,      \* the events that Koi refuses whenever it is asked
          BatchSize,   \* OutboxPublisher's batch_size
          MaxReports,  \* bound: how often one event is reported
          MaxFaults,   \* bound: crashes, shutdowns, late answers and prunes
          MaxOutages   \* bound: how often Koi goes down

ASSUME OutboxAssumption ==
    /\ Poison \subseteq Keys
    /\ BatchSize \in Nat \ {0}
    /\ MaxReports \in Nat /\ MaxFaults \in Nat /\ MaxOutages \in Nat

VARIABLES server,    \* the server process
          rows,      \* the outbox table: a row is pending until delivered_at is set
          due,       \* the pending rows with next_attempt_at <= now, in its order
          thread,    \* the publisher thread runs
          batch,     \* the claimed rows that it has not finished
          answer,    \* what Koi answered to the post of the first of them
          koi,       \* Koi is reachable
          got,       \* how often Koi has processed a post of the publisher
          reports,   \* how often an event was reported
          stored,    \* the events that enqueue was called for
          dropped,   \* the events whose report ended in the handler of exceptions
          faults, outages

publisher == <<thread, batch, answer>>
vars == <<server, rows, due, publisher, koi, got, reports, stored, dropped, faults, outages>>

Fault == faults < MaxFaults /\ faults' = faults + 1
DatabaseOpen == server \in {"up", "stopping"}

-----------------------------------------------------------------------------

\* init_outbox with KOI_SERVICE_URL set, on an empty database.
Init == /\ server = "up" /\ thread = TRUE /\ batch = <<>> /\ answer = "none"
        /\ rows = [k \in Keys |-> "absent"] /\ due = <<>>
        /\ koi = TRUE
        /\ got = [k \in Keys |-> 0] /\ reports = [k \in Keys |-> 0]
        /\ stored = {} /\ dropped = {}
        /\ faults = 0 /\ outages = 0

(* Reporters: _post_koi_webhook.                                           *)

\* Fault: a report of an event that was delivered starts its delivery anew.
EnqueueReplacing(k) ==
    /\ DatabaseOpen
    /\ IF rows[k] # "pending"
       THEN rows' = [rows EXCEPT ![k] = "pending"] /\ due' = Append(due, k)
       ELSE UNCHANGED <<rows, due>>
    /\ stored' = stored \cup {k}
    /\ UNCHANGED dropped

\* enqueue: INSERT OR IGNORE on the event_id.
Enqueue(k) ==
    /\ DatabaseOpen
    /\ IF rows[k] = "absent"
       THEN rows' = [rows EXCEPT ![k] = "pending"] /\ due' = Append(due, k)
       ELSE UNCHANGED <<rows, due>>
    /\ stored' = stored \cup {k}
    /\ UNCHANGED dropped

\* Shutdown has closed the database: enqueue raises; later there is no outbox, and the
\* report is posted directly, once.
PostDirectly(k) ==
    /\ server = "closed"
    /\ \/ dropped' = dropped \cup {k}
       \/ koi /\ k \notin Poison /\ UNCHANGED dropped
    /\ UNCHANGED <<rows, due, stored>>

Report(k) ==
    /\ reports[k] < MaxReports
    /\ reports' = [reports EXCEPT ![k] = @ + 1]
    /\ Enqueue(k) \/ PostDirectly(k)
    /\ UNCHANGED <<server, publisher, koi, got, faults, outages>>

-----------------------------------------------------------------------------
(* The publisher thread.                                                   *)

\* The next turn of _run_loop: claim_batch.
ClaimBatch ==
    /\ thread /\ server = "up" /\ batch = <<>>
    /\ due # <<>>
    /\ batch' = SubSeq(due, 1, IF Len(due) < BatchSize THEN Len(due) ELSE BatchSize)
    /\ UNCHANGED <<server, rows, due, thread, answer, koi, got, reports, stored, dropped, faults,
                   outages>>

\* post_fn of the first row: processed and answered with 2xx, processed and answered too
\* late, refused, or not received.
Post ==
    /\ thread /\ batch # <<>> /\ answer = "none"
    /\ LET k == Head(batch)
       IN \/ /\ koi /\ k \notin Poison
             /\ got' = [got EXCEPT ![k] = @ + 1]
             /\ \/ answer' = "accepted" /\ UNCHANGED faults
                \/ answer' = "failed" /\ Fault
          \/ /\ ~ koi \/ k \in Poison
             /\ answer' = "failed"
             /\ UNCHANGED <<got, faults>>
    /\ UNCHANGED <<server, rows, due, thread, batch, koi, reports, stored, dropped, outages>>

\* Fault: mark_failure leaves next_attempt_at alone.
MarkWithoutBackoff ==
    /\ thread /\ DatabaseOpen /\ answer # "none"
    /\ IF answer = "accepted"
       THEN rows' = [rows EXCEPT ![Head(batch)] = "delivered"] /\ due' = Tail(due)
       ELSE UNCHANGED <<rows, due>>
    /\ batch' = Tail(batch) /\ answer' = "none"
    /\ UNCHANGED <<server, thread, koi, got, reports, stored, dropped, faults, outages>>

\* mark_delivered, or mark_failure with its backoff.  The claimed rows are still the
\* first that are due: what became due since came after them.
Mark ==
    /\ thread /\ DatabaseOpen /\ answer # "none"
    /\ IF answer = "accepted"
       THEN rows' = [rows EXCEPT ![Head(batch)] = "delivered"]
       ELSE UNCHANGED rows
    /\ due' = Tail(due)
    /\ batch' = Tail(batch) /\ answer' = "none"
    /\ UNCHANGED <<server, thread, koi, got, reports, stored, dropped, faults, outages>>

\* On a closed database both raise, _drain_once ends, and _run_loop finds the stop flag.
MarkRaises ==
    /\ thread /\ ~ DatabaseOpen /\ answer # "none"
    /\ thread' = FALSE /\ batch' = <<>> /\ answer' = "none"
    /\ UNCHANGED <<server, rows, due, koi, got, reports, stored, dropped, faults, outages>>

\* The stop flag is looked at between two batches.
PublisherEnds ==
    /\ thread /\ server # "up" /\ batch = <<>>
    /\ thread' = FALSE
    /\ UNCHANGED <<server, rows, due, batch, answer, koi, got, reports, stored, dropped, faults,
                   outages>>

\* Fault: undelivered rows are deleted too, here one whose backoff runs.
PruneUndelivered ==
    /\ thread /\ server = "up" /\ batch = <<>> /\ Fault
    /\ \E k \in Keys :
         /\ rows[k] # "absent" /\ \A i \in 1 .. Len(due) : due[i] # k
         /\ rows' = [rows EXCEPT ![k] = "absent"]
    /\ UNCHANGED <<server, due, publisher, koi, got, reports, stored, dropped, outages>>

\* prune_delivered of one row that was delivered 24 hours ago.
Prune ==
    /\ thread /\ server = "up" /\ batch = <<>> /\ Fault
    /\ \E k \in Keys :
         /\ rows[k] = "delivered"
         /\ rows' = [rows EXCEPT ![k] = "absent"]
    /\ UNCHANGED <<server, due, publisher, koi, got, reports, stored, dropped, outages>>

-----------------------------------------------------------------------------
(* Time, Koi and the server process.                                       *)

\* The backoff of a row is over.
ComesDue(k) ==
    /\ rows[k] = "pending" /\ \A i \in 1 .. Len(due) : due[i] # k
    /\ due' = Append(due, k)
    /\ UNCHANGED <<server, rows, publisher, koi, got, reports, stored, dropped, faults, outages>>

KoiDown == /\ koi /\ outages < MaxOutages /\ outages' = outages + 1
           /\ koi' = FALSE
           /\ UNCHANGED <<server, rows, due, publisher, got, reports, stored, dropped, faults>>

KoiUp == /\ ~ koi
         /\ koi' = TRUE
         /\ UNCHANGED <<server, rows, due, publisher, got, reports, stored, dropped, faults,
                        outages>>

\* shutdown_outbox sets the stop flag.
Stop == /\ server = "up" /\ Fault
        /\ server' = "stopping"
        /\ UNCHANGED <<rows, due, publisher, koi, got, reports, stored, dropped, outages>>

\* The join returns, with the thread ended or after five seconds; the database is
\* closed and forgotten.  The lifespan then waits for the monitor threads.
Close == /\ server = "stopping"
         /\ server' = "closed"
         /\ UNCHANGED <<rows, due, publisher, koi, got, reports, stored, dropped, faults,
                        outages>>

Gone == thread' = FALSE /\ batch' = <<>> /\ answer' = "none"

Exit == /\ server = "closed"
        /\ server' = "down" /\ Gone
        /\ UNCHANGED <<rows, due, koi, got, reports, stored, dropped, faults, outages>>

Crash == /\ server # "down" /\ Fault
         /\ server' = "down" /\ Gone
         /\ UNCHANGED <<rows, due, koi, got, reports, stored, dropped, outages>>

Restart == /\ server = "down"
           /\ server' = "up" /\ thread' = TRUE
           /\ UNCHANGED <<rows, due, batch, answer, koi, got, reports, stored, dropped, faults,
                          outages>>

-----------------------------------------------------------------------------

Publisher == ClaimBatch \/ Post \/ Mark \/ MarkRaises \/ PublisherEnds
Lifecycle == Close \/ Exit \/ Restart

Next == \/ \E k \in Keys : Report(k) \/ ComesDue(k)
        \/ Publisher \/ Prune
        \/ KoiDown \/ KoiUp
        \/ Stop \/ Crash \/ Lifecycle

Spec == Init /\ [][Next]_vars

\* The publisher thread is scheduled, time passes, Koi comes back, and a server that went
\* down is started again.
Fairness == /\ WF_vars(Publisher) /\ WF_vars(Lifecycle) /\ WF_vars(KoiUp)
            /\ \A k \in Keys : WF_vars(ComesDue(k))

FairSpec == Spec /\ Fairness

-----------------------------------------------------------------------------
(* Properties.                                                             *)

TypeOK ==
    /\ server \in {"up", "stopping", "closed", "down"}
    /\ rows \in [Keys -> {"absent", "pending", "delivered"}]
    /\ due \in Seq(Keys) /\ batch \in Seq(Keys)
    /\ thread \in BOOLEAN /\ answer \in {"none", "accepted", "failed"} /\ koi \in BOOLEAN
    /\ got \in [Keys -> Nat] /\ reports \in [Keys -> Nat]
    /\ stored \subseteq Keys /\ dropped \subseteq Keys
    /\ faults \in Nat /\ outages \in Nat

\* An event that was enqueued is never forgotten: its row stays pending until Koi has
\* processed it, through crashes, shutdowns within a batch, late answers and pruning.
NothingForgotten == \A k \in stored : rows[k] = "pending" \/ got[k] > 0

\* A second delivery of an event has a cause: a crash, a shutdown, a late answer or a
\* prune each cost at most one, and repeated reports of an event cost none.
DuplicatesHaveCauses == \A k \in Keys : got[k] <= 1 + faults

\* Every row is delivered in the end, although Koi refuses other events for ever and
\* those alone would fill every batch.
Drained == \A k \in Keys \ Poison : rows[k] = "pending" ~> rows[k] = "delivered"
================================================================================
