---------------------------------- MODULE Engine ----------------------------------
(***************************************************************************)
(* Inside a machine: a runner (templates/vllm_batch_runner_chunked.py, or  *)
(* vllm_batch_runner_server.py for an unchunked job), the vLLM server that *)
(* it starts, its concurrent requests, the thread that reads the server's  *)
(* log and the sidecar thread that forwards snapshots of the server's      *)
(* metrics and log lines to the control plane.                             *)
(*                                                                         *)
(* The chunks come from the queue and go back to it elsewhere (BatchJob);  *)
(* here a chunk is a number, and each has the same lines.  Metrics of the  *)
(* run and the lengths of prompts are left out.  What vLLM does is         *)
(* external: it may fail to start, hang, die, or answer a request in part. *)
(***************************************************************************)
EXTENDS Naturals, Sequences, FiniteSets

CONSTANTS Lines,        \* the number of lines of a chunk's input
          Invalid,      \* those that are not JSON
          Limit,        \* determine_max_concurrency
          MaxConcurrent, \* MAX_CONCURRENT of the unchunked runner
          Chunks,       \* the number of chunks that the runner gets
          Capacity,     \* log lines that LogCollector holds: 5000
          Drained,      \* log lines drained at a time: 500, and 200 at startup
          MaxLogLines, MaxMishaps   \* bounds: on the log lines, and on what goes wrong

ASSUME EngineAssumption ==
    /\ Lines \in Nat \ {0} /\ Invalid \subseteq 1 .. Lines
    /\ Limit \in Nat \ {0} /\ MaxConcurrent \in Nat \ {0} /\ Chunks \in Nat \ {0}
    /\ Capacity \in Nat /\ Drained \in Nat \ {0} /\ MaxLogLines \in Nat /\ MaxMishaps \in Nat

VARIABLES mode,      \* the runner: chunked or unchunked
          main,      \* where it is: waiting, preparing, generating, joining, stopping, ended
          chunk,     \* the chunk that it works on
          result,    \* the results of its requests
          sent,      \* the requests that hold the semaphore
          output,    \* the output files: chunk -> lines
          reason,    \* what it reported of a failed start
          engine,    \* the vLLM server: starting, ready, stuck, dead
          pipe,      \* what it logged and nobody read
          log,       \* the buffer of LogCollector
          tee,       \* the list that its _Tee appends to: the buffer, or one it was once
          own,       \* the runner printed a line of its own, which is line 0
          oom,       \* the number of the line in which it logged an OOM, or 0
          logged,    \* the number of lines it logged
          forwarder, \* the sidecar: off, on, or gone
          buffer,    \* the kinds of snapshots that it has not pushed: before, during
          ticked,    \* it passed while requests were running
          arrived,   \* what the control plane has of it: lines in order, kinds of snapshots
          mishaps

mainVars == <<mode, main, chunk, result, sent, output, reason>>
engineVars == <<engine, pipe, oom, logged>>
logVars == <<log, tee, own>>
forwarderVars == <<forwarder, buffer, ticked, arrived>>
runnerVars == <<mainVars, engineVars, logVars, forwarderVars, mishaps>>

Mishap == mishaps < MaxMishaps /\ mishaps' = mishaps + 1

\* load_requests: the lines that are JSON.
Input == SelectSeq([l \in 1 .. Lines |-> l], LAMBDA l : l \notin Invalid)
Requests == DOMAIN Input
NoResult == [of |-> 0, status |-> "none", text |-> "none"]
Nothing == [i \in Requests |-> NoResult]

EngineInit ==
    /\ mode \in {"chunked", "unchunked"} /\ main = "waiting" /\ chunk = 1
    /\ result = Nothing /\ sent = {} /\ output = <<>> /\ reason = "none"
    /\ engine = "starting" /\ pipe = <<>> /\ oom = 0 /\ logged = 0
    /\ log = <<>> /\ tee = "buffer" /\ own = FALSE
    /\ forwarder = "off" /\ buffer = {} /\ ticked = FALSE
    /\ arrived = [lines |-> <<>>, kinds |-> {}]
    /\ mishaps = 0

-----------------------------------------------------------------------------
(* vLLM.                                                                   *)

\* A line of its log.
Log(isOom) ==
    /\ engine # "dead" /\ logged < MaxLogLines
    /\ logged' = logged + 1
    /\ pipe' = IF mode = "chunked" THEN Append(pipe, logged + 1) ELSE pipe
    /\ oom' = IF isOom THEN logged + 1 ELSE oom

\* It logs something, and may get ready.
EngineLogs ==
    /\ Log(FALSE)
    /\ UNCHANGED <<mainVars, engine, logVars, forwarderVars, mishaps>>

EngineReady ==
    /\ engine = "starting" /\ engine' = "ready"
    /\ UNCHANGED <<mainVars, pipe, oom, logged, logVars, forwarderVars, mishaps>>

\* It runs out of memory, which it logs before it exits.
EngineOom ==
    /\ engine \in {"starting", "ready"} /\ Mishap
    /\ Log(TRUE) /\ engine' = "dead"
    /\ UNCHANGED <<mainVars, logVars, forwarderVars>>

\* It exits, or hangs.
EngineFails ==
    /\ engine \in {"starting", "ready"} /\ Mishap
    /\ engine' \in {"dead", "stuck"}
    /\ UNCHANGED <<mainVars, pipe, oom, logged, logVars, forwarderVars>>

Keep(line) == IF Len(log) < Capacity THEN Append(log, line) ELSE log

\* The reader thread: a line that finds the buffer full is dropped.
ReadLine ==
    /\ pipe # <<>> /\ main # "ended"
    /\ pipe' = Tail(pipe)
    /\ log' = Keep(Head(pipe))
    /\ UNCHANGED <<mainVars, engine, oom, logged, tee, own, forwarderVars, mishaps>>

\* The runner prints something: _Tee goes on with the list that it was made with, which the
\* first drain has replaced by another.
RunnerPrints ==
    /\ mode = "chunked" /\ main # "ended" /\ ~ own
    /\ own' = TRUE
    /\ log' = IF tee = "buffer" THEN Keep(0) ELSE log
    /\ UNCHANGED <<mainVars, engineVars, tee, forwarderVars, mishaps>>

-----------------------------------------------------------------------------
(* Start.                                                                  *)

FirstOf(lines) == SubSeq(lines, 1, IF Len(lines) < Drained THEN Len(lines) ELSE Drained)
RestOf(lines) == SubSeq(lines, Len(FirstOf(lines)) + 1, Len(lines))
Drain == /\ log' = RestOf(log) /\ tee' = IF mode = "chunked" THEN "old" ELSE tee
         /\ UNCHANGED own

\* wait_for_server sees the server healthy; the sidecar is started.
ServerReady ==
    /\ main = "waiting" /\ engine = "ready"
    /\ main' = "preparing" /\ forwarder' = "on"
    /\ UNCHANGED <<mode, chunk, result, sent, output, reason, engineVars, logVars,
                   buffer, ticked, arrived, mishaps>>

\* wait_for_server sees that the server exited; the chunked runner looks for an OOM in the
\* lines it drains, and reports it.
ServerExited ==
    /\ main = "waiting" /\ engine = "dead"
    /\ main' = "stopping"
    /\ IF mode = "chunked"
       THEN /\ Drain
            /\ reason' = IF \E k \in DOMAIN FirstOf(log) : log[k] = oom THEN "oom" ELSE "exit"
       ELSE UNCHANGED <<logVars, reason>>
    /\ UNCHANGED <<mode, chunk, result, sent, output, engineVars, forwarderVars, mishaps>>

\* wait_for_server gives up after twenty minutes.
StartTimesOut ==
    /\ main = "waiting" /\ engine \in {"starting", "stuck"}
    /\ main' = "stopping"
    /\ reason' = IF mode = "chunked" THEN "timeout" ELSE reason
    /\ UNCHANGED <<mode, chunk, result, sent, output, engineVars, logVars, forwarderVars, mishaps>>

\* The model is looked up and the monitors are started: requests go out.
Generate ==
    /\ main = "preparing" /\ main' = "generating"
    /\ UNCHANGED <<mode, chunk, result, sent, output, reason, engineVars, logVars,
                   forwarderVars, mishaps>>

-----------------------------------------------------------------------------
(* The requests of run_chunk and run_benchmark.                            *)

\* send_one gets past the semaphore.
Send(i) ==
    /\ main = "generating" /\ i \notin sent /\ result[i] = NoResult
    /\ Cardinality(sent) < (IF mode = "chunked" THEN Limit ELSE MaxConcurrent)
    /\ sent' = sent \cup {i}
    /\ UNCHANGED <<mode, main, chunk, result, output, reason, engineVars, logVars,
                   forwarderVars, mishaps>>

\* Fault: results are kept in the order in which they come in.
AsTheyCome(rs, i, r) ==
    LET free == {k \in Requests : rs[k] = NoResult}
    IN [rs EXCEPT ![CHOOSE k \in free : \A m \in free : k <= m] = r]

\* _tracked: a result has the place of its request.
InPlace(rs, i, r) == [rs EXCEPT ![i] = r]

\* send_one returns.
Returns(i, status, text) ==
    /\ i \in sent
    /\ sent' = sent \ {i}
    /\ result' = InPlace(result, i, [of |-> Input[i], status |-> status, text |-> text])
    /\ UNCHANGED <<mode, main, chunk, output, reason, engineVars, logVars, forwarderVars>>

\* The stream of a request ends with [DONE].
Answered(i) == engine = "ready" /\ Returns(i, "success", "whole") /\ UNCHANGED mishaps

\* So it does if vLLM fails in the middle: the event that says so has no choices and no usage.
AnsweredInPart(i) == engine = "ready" /\ Mishap /\ Returns(i, "success", "part")

\* HTTP 400.
Rejected(i) == engine = "ready" /\ Mishap /\ \E s \in {"skipped", "error"} : Returns(i, s, "none")

\* HTTP 5xx: the body has no data, and the unchunked runner does not look at the status.
ServerError(i) ==
    /\ engine = "ready" /\ Mishap
    /\ Returns(i, IF mode = "chunked" THEN "error" ELSE "success", "none")

\* Fault: a request has no timeout.
BreaksWithoutTimeout(i) == engine = "dead" /\ Returns(i, "error", "none") /\ UNCHANGED mishaps

\* The connection is refused or breaks, or ten minutes have passed.
Breaks(i) == engine # "ready" /\ Returns(i, "error", "none") /\ UNCHANGED mishaps

-----------------------------------------------------------------------------
(* Output.                                                                 *)

\* write_output_jsonl: the chunked runner names the lines by their place, the other by the
\* custom_id of the request.
Line(i, r) ==
    [id |-> IF mode = "chunked" THEN i ELSE r.of,
     of |-> r.of, code |-> IF r.status = "success" THEN 200 ELSE 400, text |-> r.text]
Output == [i \in Requests |-> Line(i, result[i])]

AllReturned == main = "generating" /\ sent = {} /\ \A i \in Requests : result[i] # NoResult

\* A chunk is through: its output is written, and the loop goes on to the next or ends.
\* Nobody asks if the server is still there.
NextChunk ==
    /\ mode = "chunked" /\ AllReturned
    /\ output' = Append(output, Output)
    /\ IF chunk < Chunks
       THEN chunk' = chunk + 1 /\ result' = Nothing /\ UNCHANGED main
       ELSE main' = "joining" /\ UNCHANGED <<chunk, result>>
    /\ UNCHANGED <<mode, sent, reason, engineVars, logVars, forwarderVars, mishaps>>

\* The unchunked runner stops its sidecar first.
Through ==
    /\ mode = "unchunked" /\ AllReturned
    /\ main' = "joining"
    /\ UNCHANGED <<mode, chunk, result, sent, output, reason, engineVars, logVars,
                   forwarderVars, mishaps>>

\* The sidecar is gone, or was waited for in vain for ten seconds.
Join ==
    /\ main = "joining"
    /\ \/ forwarder = "gone" /\ UNCHANGED mishaps
       \/ forwarder # "gone" /\ Mishap
    /\ output' = IF mode = "unchunked" THEN Append(output, Output) ELSE output
    /\ main' = "stopping"
    /\ UNCHANGED <<mode, chunk, result, sent, reason, engineVars, logVars, forwarderVars>>

\* shutdown_server: terminate, and kill after a minute; the daemon threads end with the
\* process.
Shutdown ==
    /\ main = "stopping"
    /\ main' = "ended" /\ engine' = "dead" /\ forwarder' = "gone"
    /\ UNCHANGED <<mode, chunk, result, sent, output, reason, pipe, oom, logged, logVars,
                   buffer, ticked, arrived, mishaps>>

-----------------------------------------------------------------------------
(* The sidecar.                                                            *)

\* A pass: a snapshot, if /metrics answers.  Once the monitors run, the unchunked runner
\* asks its GPUMonitor for get_latest, which it has not: the snapshot is lost.
Scrape ==
    /\ forwarder = "on" /\ main # "ended" /\ engine = "ready"
    /\ LET during == main = "generating"
       IN /\ ticked' = (ticked \/ during)
          /\ buffer' = IF main = "preparing" \/ mode = "chunked"
                       THEN buffer \cup {IF during THEN "during" ELSE "before"} ELSE buffer
    /\ UNCHANGED <<mainVars, engineVars, logVars, forwarder, arrived, mishaps>>

\* A push of all snapshots and of some lines, by the loop or after it.  It may be lost, or
\* handled with the answer lost; the snapshots stay in the buffer then, the lines do not.
Handled ==
    arrived' = [lines |-> arrived.lines \o FirstOf(log), kinds |-> arrived.kinds \cup buffer]

\* Fault: the lines stay in the buffer as well.
PushSnapshotsKeeping ==
    /\ forwarder = "on" /\ main # "ended" /\ buffer # {}
    /\ \/ /\ Handled /\ buffer' = {} /\ Drain /\ UNCHANGED mishaps
       \/ /\ Handled \/ UNCHANGED arrived
          /\ Mishap /\ UNCHANGED <<buffer, logVars>>
    /\ UNCHANGED <<mainVars, engineVars, forwarder, ticked>>

PushSnapshots ==
    /\ forwarder = "on" /\ main # "ended" /\ buffer # {}
    /\ Drain
    /\ \/ Handled /\ buffer' = {} /\ UNCHANGED mishaps
       \/ /\ Handled \/ UNCHANGED arrived
          /\ Mishap /\ UNCHANGED buffer
    /\ UNCHANGED <<mainVars, engineVars, forwarder, ticked>>

\* stop_sidecar was set: what is left is pushed once, and the thread ends.
SidecarEnds ==
    /\ forwarder = "on" /\ main = "joining"
    /\ forwarder' = "gone"
    /\ IF buffer # {}
       THEN /\ Drain
            /\ \/ Handled /\ UNCHANGED mishaps
               \/ UNCHANGED arrived /\ Mishap
       ELSE UNCHANGED <<logVars, arrived, mishaps>>
    /\ UNCHANGED <<mainVars, engineVars, buffer, ticked>>

-----------------------------------------------------------------------------

Request(i) == \/ Send(i) \/ Answered(i) \/ AnsweredInPart(i) \/ Rejected(i) \/ ServerError(i)
              \/ Breaks(i)

EngineNext ==
    \/ EngineLogs \/ EngineReady \/ EngineOom \/ EngineFails \/ ReadLine
    \/ RunnerPrints
    \/ ServerReady \/ ServerExited \/ StartTimesOut \/ Generate
    \/ \E i \in Requests : Request(i)
    \/ NextChunk \/ Through \/ Join \/ Shutdown
    \/ Scrape \/ PushSnapshots \/ SidecarEnds

EngineSpec == EngineInit /\ [][EngineNext]_runnerVars

\* The threads are scheduled, timeouts strike, and a server that is ready answers.
EngineFairness ==
    /\ WF_runnerVars(ServerReady) /\ WF_runnerVars(ServerExited) /\ WF_runnerVars(StartTimesOut)
    /\ WF_runnerVars(Generate) /\ WF_runnerVars(NextChunk) /\ WF_runnerVars(Through)
    /\ WF_runnerVars(Join /\ UNCHANGED mishaps) /\ WF_runnerVars(Shutdown)
    /\ WF_runnerVars(SidecarEnds /\ UNCHANGED mishaps)
    /\ \A i \in Requests :
          WF_runnerVars(Send(i)) /\ WF_runnerVars(Answered(i)) /\ WF_runnerVars(Breaks(i))
EngineFairSpec == EngineSpec /\ EngineFairness

-----------------------------------------------------------------------------
(* Properties.                                                             *)

\* The output of a chunk has a line for each request, in the order of the input whatever
\* the order of the answers; the chunked runner says 200 only of a stream that the server
\* opened and ended, and never loses an answer that it had in full.
OutputAnswers ==
    \A k \in DOMAIN output :
        /\ DOMAIN output[k] = Requests
        /\ \A i \in Requests :
              LET line == output[k][i]
              IN /\ line.of = Input[i]
                 /\ mode = "chunked" => (line.code = 200) = (line.text # "none")

\* Log lines reach the control plane at most once, and vLLM's in order, though pushes are
\* repeated with their snapshots, and some are handled without an answer.
LogsOnce ==
    \A k, m \in DOMAIN arrived.lines : k < m =>
        \/ arrived.lines[k] < arrived.lines[m]
        \/ arrived.lines[m] = 0 /\ arrived.lines[k] # 0

\* The runner ends and takes vLLM down, whether the server starts, hangs or dies.
RunnerEnds == <>[](main = "ended" /\ engine = "dead")

\* "pattern-matches for CUDA OOM signatures" (vllm_batch_runner_chunked.py:974): a server
\* that ran out of memory as it started is reported so.
OomRecognised == reason # "none" /\ engine = "dead" /\ oom # 0 => reason = "oom"

\* "Sidecar - push to control plane (bonus, works when reachable)"
\* (vllm_batch_runner_server.py:402): if it passed while requests ran, and nothing failed,
\* some snapshot of that time has arrived at the end.
SidecarReports ==
    main = "ended" /\ mishaps = 0 /\ ticked => "during" \in arrived.kinds

\* "Tee stdout/stderr into a buffer for forwarding to control plane"
\* (vllm_batch_runner_chunked.py:795): while nothing fails and nothing is dropped for lack of
\* room, a line that the runner printed has arrived or is in the buffer.
RunnerIsHeard ==
    own /\ mishaps = 0 /\ logged < Capacity =>
        \/ \E k \in DOMAIN log : log[k] = 0
        \/ \E k \in DOMAIN arrived.lines : arrived.lines[k] = 0

\* A line is 200 only if the server answered in full.
AnswerIsWhole ==
    \A k \in DOMAIN output : \A i \in Requests : output[k][i].code = 200 => output[k][i].text = "whole"

\* A runner whose server is dead takes no further chunk.
DeadServerStops == [][chunk' # chunk => engine # "dead"]_runnerVars

\* The name of a line is that of the line of the input that it answers.
NamedByInput == \A k \in DOMAIN output : \A i \in Requests : output[k][i].id = output[k][i].of
====================================================================================
