---------------------------- MODULE CallPipeline ----------------------------
(***************************************************************************)
(* One call of the service: its committed rows, the Celery queue in front  *)
(* of the workers, the workers running run_pipeline on it, and the API     *)
(* requests that act on it.                                                *)
(*                                                                         *)
(* A worker step ends where the code commits or calls out (PyAI, the ML    *)
(* service, the blob store).  Between commits a worker acts on the copy of *)
(* the call it loaded: the session is created with expire_on_commit=False, *)
(* so the copy is refreshed only after a rollback.                         *)
(***************************************************************************)
EXTENDS Naturals, CallState

CONSTANTS
  Workers,          \* the Celery worker processes
  Ops,              \* the API requests clients may send
  Faults,           \* the errors and losses that may strike, see MayRaise
  JobOutcomes,      \* how a PyAI transcription job may end
  RecapOutcomes,    \* what polling for the recap may come to
  RecapEnabled,     \* settings.pyai_recap_enabled
  Overlap,          \* whether a request may arrive while the call is worked on
  MaxRetries,       \* settings.celery_max_retries
  MaxCrashes,       \* bound: worker processes that die
  MaxRedeliveries,  \* bound: visibility timeouts that hit a running task
  MaxRequests       \* bound: API requests

AllOps == {"upload", "process", "reanalyze", "cancel", "patch_speakers"}

\* The exceptions run_pipeline meets, one for each combination of failure kind
\* and retryability, then three losses outside it.
Exceptions == {"PyAISubmitFailed", "PyAIAuthFailed", "PyAIJobFailed",
               "PyAIJobTimeout", "BlobUploadFailed", "MLServiceUnavailable",
               "MLResponseInvalid", "ConflictError", "Unexpected"}
Losses == {"ReplyLost", "EnqueueLost", "WorkerLost"}

ASSUME WorkersAssumption == Workers # {}
ASSUME ChoicesAssumption ==
  /\ Ops \subseteq AllOps
  /\ Faults \subseteq Exceptions \cup Losses
  /\ JobOutcomes \subseteq {"completed", "failed", "error"}
  /\ RecapOutcomes \subseteq {"ready", "unavailable", "none"}
  /\ RecapEnabled \in BOOLEAN
  /\ Overlap \in BOOLEAN
ASSUME BoundsAssumption ==
  /\ MaxRetries \in Nat
  /\ MaxCrashes \in Nat
  /\ MaxRedeliveries \in Nat
  /\ MaxRequests \in Nat

VARIABLES
  row,          \* calls: the committed row
  audio,        \* audio_assets: whether the call has a recording
  gen,          \* transcript_segments: which stored transcript, 0 for none
  roles,        \* speakers: the version of the speaker roles
  recap,        \* recap_records: provider_status, or none
  run,          \* analysis_runs: the latest version, what it was computed from
  report,       \* the outcome stamped in the stored report blob
  job,          \* the transcription job at PyAI
  queue,        \* queue[n]: waiting process_call messages at retry n
  worker,       \* the workers' local state
  req,          \* the API request being served
  crashes, redeliveries, requests,   \* what is used of the bounds
  lost          \* history: a message for this call was dropped

db      == <<row, audio, gen, roles, recap, run, report>>
budgets == <<crashes, redeliveries, requests>>
vars    == <<db, job, queue, worker, req, budgets, lost>>

NoViews == [gen |-> 0, roles |-> 0]
Idle == [pc |-> "idle", retries |-> 0, call |-> NewCall, views |-> NoViews,
         warn |-> FALSE, chunks |-> FALSE, exc |-> None]
NoRequest == [step |-> "idle", op |-> None, seen |-> NewCall]

PC == {"idle", "load", "ensure", "transcribe", "submit", "save_job", "await",
       "store", "wait_recap", "recap", "analyze", "validate", "insights",
       "report", "commit", "build", "ship", "handle", "record",
       "retry", "ack"}

Init ==
  /\ row = NewCall
  /\ audio = FALSE
  /\ gen = 0
  /\ roles = 0
  /\ recap = None
  /\ run = [version |-> 0, gen |-> 0, roles |-> 0, facts |-> FALSE]
  /\ report = None
  /\ job = "none"
  /\ queue = [n \in 0..MaxRetries |-> 0]
  /\ worker = [w \in Workers |-> Idle]
  /\ req = NoRequest
  /\ crashes = 0 /\ redeliveries = 0 /\ requests = 0
  /\ lost = FALSE

-----------------------------------------------------------------------------
(* Helpers of the worker steps.                                            *)

At(w, pc) == worker[w].pc = pc

Goto(w, pc) == worker' = [worker EXCEPT ![w].pc = pc]

Raise(w, exc) == worker' = [worker EXCEPT ![w].pc = "handle", ![w].exc = exc]

Sent(n) == [queue EXCEPT ![n] = @ + 1]

\* NamedError.failure_kind; the generic handler books INFRASTRUCTURE.
KindOf ==
  [ PyAISubmitFailed     |-> "TRANSCRIPTION",
    PyAIAuthFailed       |-> "TRANSCRIPTION",
    PyAIJobFailed        |-> "TRANSCRIPTION",
    PyAIJobTimeout       |-> "INFRASTRUCTURE",
    BlobUploadFailed     |-> "STORAGE",
    MLServiceUnavailable |-> "ML_INFERENCE",
    MLResponseInvalid    |-> "ML_INFERENCE",
    ConflictError        |-> "USER_INPUT",
    Unexpected           |-> "INFRASTRUCTURE" ]

should_retry(exc) ==
  exc \in {"PyAISubmitFailed", "PyAIJobTimeout", "BlobUploadFailed", "MLServiceUnavailable"}

\* What the calls made at each point of the pipeline can raise on their own.
\* ML errors before the chunks are stored only degrade the run (MLDegrades).
MayRaise(m) ==
  CASE m.pc = "submit" -> {"PyAISubmitFailed", "PyAIAuthFailed", "Unexpected"}
    [] m.pc = "await"  -> {"PyAIJobTimeout", "PyAIAuthFailed", "Unexpected"}
    [] m.pc = "store"  -> {"BlobUploadFailed", "Unexpected"}
    [] m.pc = "recap"  -> {"PyAIAuthFailed", "BlobUploadFailed", "Unexpected"}
    [] m.pc = "report" -> {"BlobUploadFailed"} \cup
                          (IF m.chunks THEN {"MLResponseInvalid"} ELSE {})
    [] OTHER -> {}

\* The terminal status a run ends in: warnings make it PARTIAL.
Outcome(m) == IF m.warn THEN "PARTIAL" ELSE "SHIPPED"

\* The worker's stage change: transition() on the copy, then commit.
Advance(w, from, target, to) ==
  /\ At(w, from)
  /\ Legal(worker[w].call.status, target)
  /\ LET new == Moved(worker[w].call, target, None)
     IN  /\ row' = Flushed(row, worker[w].call, new)
         /\ worker' = [worker EXCEPT ![w].call = new, ![w].pc = to]

\* A row the worker references by foreign key belongs to a transcript that
\* another worker has replaced.
Dangling(m) == m.views.gen \notin {0, gen}

\* The stored segments and speaker roles as a worker reads them.
SegmentViews == [gen |-> gen, roles |-> roles]

\* The transcript that replaces the stored one: the result of a job in error has
\* no segments.  Evidence links and chunks of the old segments go with them.
NewTranscript == IF job = "error" THEN 0 ELSE gen + 1

\* The next version of the analysis, with its evidence links.  (A transcript
\* with segments yields insights; an empty one yields none.)
NextRun(views) == [version |-> run.version + 1, gen |-> views.gen,
                   roles |-> views.roles, facts |-> views.gen # 0]

-----------------------------------------------------------------------------
(* run_pipeline, one action for each commit or outside call.               *)

envVars   == <<job, req, budgets, lost>>
blobVars  == <<audio, gen, roles, recap, run, report>>

\* Mutant of Begin: only a cancelled call is left alone.
BeginTakesShipped(w, n) ==
  /\ At(w, "idle")
  /\ queue[n] > 0
  /\ queue' = [queue EXCEPT ![n] = @ - 1]
  /\ worker' = [worker EXCEPT ![w] =
       [Idle EXCEPT !.retries = n, !.call = row,
                    !.pc = IF row.status = "CANCELLED" THEN "ack" ELSE "load"]]
  /\ UNCHANGED <<db, envVars>>

\* A worker takes a message and loads the call; a shipped or cancelled call is
\* left alone.
Begin(w, n) ==
  /\ At(w, "idle")
  /\ queue[n] > 0
  /\ queue' = [queue EXCEPT ![n] = @ - 1]
  /\ worker' = [worker EXCEPT ![w] =
       [Idle EXCEPT !.retries = n, !.call = row,
                    !.pc = IF row.status \in {"CANCELLED", "SHIPPED"} THEN "ack" ELSE "load"]]
  /\ UNCHANGED <<db, envVars>>

\* Mutant of LoadSegments: a call left INDEXING resumes at its report.
LoadSkipsAhead(w) ==
  /\ At(w, "load")
  /\ worker' = [worker EXCEPT
       ![w].pc = IF worker[w].call.status = "INDEXING" THEN "build"
                 ELSE IF gen # 0 THEN "analyze" ELSE "ensure",
       ![w].views = SegmentViews,
       ![w].chunks = gen # 0]
  /\ UNCHANGED <<db, queue, envVars>>

\* Resume from a stored transcript if there is one.  (The reopening of a
\* PARTIAL or FAILED call and the start of the analysis both go to ANALYZING
\* with nothing in between: one step, Analyze.)
LoadSegments(w) ==
  /\ At(w, "load")
  /\ worker' = [worker EXCEPT ![w].pc = IF gen # 0 THEN "analyze" ELSE "ensure",
                              ![w].views = SegmentViews,
                              ![w].chunks = gen # 0]
  /\ UNCHANGED <<db, queue, envVars>>

\* A call sent back without a transcript; ANALYZING passes through FAILED, and
\* leaves that outcome on the row, before the same commit.
EnsureQueued(w) ==
  /\ At(w, "ensure")
  /\ LET call   == worker[w].call
         failed == IF call.status = "ANALYZING" THEN Moved(call, "FAILED", None) ELSE call
         new    == IF failed.status \in {"CREATED", "UPLOADING", "FAILED"}
                     THEN Moved(failed, "QUEUED", None) ELSE failed
     IN  /\ row' = Flushed(row, call, new)
         /\ worker' = [worker EXCEPT ![w].call = new, ![w].pc = "transcribe"]
  /\ UNCHANGED <<blobVars, queue, envVars>>

StartTranscribe(w) ==
  /\ \/ /\ worker[w].call.status = "QUEUED"
        /\ Advance(w, "transcribe", "TRANSCRIBING", "submit")
     \/ /\ worker[w].call.status = "TRANSCRIBING"
        /\ At(w, "transcribe")
        /\ Goto(w, "submit")
        /\ UNCHANGED row
     \/ /\ worker[w].call.status \notin {"QUEUED", "TRANSCRIBING"}
        /\ At(w, "transcribe")
        /\ Raise(w, "ConflictError")
        /\ UNCHANGED row
  /\ UNCHANGED <<blobVars, queue, envVars>>

\* A job id on the worker's copy is resumed.  Otherwise the job is submitted
\* under the call's idempotency key, so PyAI keeps one job per call.
SubmitJob(w) ==
  /\ At(w, "submit")
  /\ \/ /\ worker[w].call.job
        /\ Goto(w, "await")
        /\ UNCHANGED job
     \/ /\ ~worker[w].call.job
        /\ job' = IF job = "none" THEN "running" ELSE job
        /\ \/ Goto(w, "save_job")
           \/ "ReplyLost" \in Faults /\ Raise(w, "PyAISubmitFailed")
  /\ UNCHANGED <<db, queue, req, budgets, lost>>

SaveJob(w) ==
  /\ At(w, "save_job")
  /\ LET new == [worker[w].call EXCEPT !.job = TRUE]
     IN  /\ row' = Flushed(row, worker[w].call, new)
         /\ worker' = [worker EXCEPT ![w].call = new, ![w].pc = "await"]
  /\ UNCHANGED <<blobVars, queue, envVars>>

\* Polls until the job has ended; "error" passes for a result.
AwaitTranscript(w) ==
  /\ At(w, "await")
  /\ job \notin {"none", "running"}
  /\ IF job = "failed" THEN Raise(w, "PyAIJobFailed") ELSE Goto(w, "store")
  /\ UNCHANGED <<db, queue, envVars>>

StoreTranscript(w) ==
  /\ At(w, "store")
  /\ gen' = NewTranscript
  /\ worker' = [worker EXCEPT ![w].views = [gen |-> gen', roles |-> roles],
                              ![w].chunks = gen' # 0,
                              ![w].pc = IF RecapEnabled THEN "wait_recap" ELSE "analyze"]
  /\ UNCHANGED <<row, audio, roles, recap, run, report, queue, envVars>>

WaitForRecap(w) ==
  /\ Advance(w, "wait_recap", "WAITING_FOR_RECAP", "recap")
  /\ UNCHANGED <<blobVars, queue, envVars>>

\* An unavailable recap is stored like a real one; a failed or late one is not.
FetchRecap(w) ==
  /\ At(w, "recap")
  /\ \E found \in RecapOutcomes :
       /\ recap' = IF found = "none" THEN recap ELSE found
       /\ worker' = [worker EXCEPT ![w].warn = @ \/ found # "ready", ![w].pc = "analyze"]
  /\ UNCHANGED <<row, audio, gen, roles, run, report, queue, envVars>>

Analyze(w) ==
  /\ Advance(w, "analyze", "ANALYZING", "validate")
  /\ UNCHANGED <<blobVars, queue, envVars>>

\* An ML stage that fails leaves a warning; without embeddings no chunk is stored.
MLDegrades(w) ==
  /\ "MLServiceUnavailable" \in Faults
  /\ worker[w].pc \in {"validate", "report"}
  /\ worker[w].chunks
  /\ worker' = [worker EXCEPT ![w].warn = TRUE, ![w].chunks = At(w, "validate")]
  /\ UNCHANGED <<db, queue, envVars>>

Validate(w) ==
  /\ Advance(w, "validate", "VALIDATING", "insights")
  /\ UNCHANGED <<blobVars, queue, envVars>>

\* The new analysis is committed with INDEXING.
PersistInsights(w) ==
  /\ \/ /\ ~Dangling(worker[w])
        /\ Advance(w, "insights", "INDEXING", "report")
        /\ run' = NextRun(worker[w].views)
     \/ /\ Dangling(worker[w])
        /\ At(w, "insights")
        /\ Raise(w, "Unexpected")
        /\ UNCHANGED <<row, run>>
  /\ UNCHANGED <<audio, gen, roles, recap, report, queue, envVars>>

\* Mutant of StoreReport: the report never says PARTIAL.
StoreReportShipped(w) ==
  /\ At(w, "report")
  /\ report' = "SHIPPED"
  /\ Goto(w, "commit")
  /\ UNCHANGED <<row, audio, gen, roles, recap, run, queue, envVars>>

\* The report goes to the blob store before the transaction that ends the
\* analysis, stamped with the outcome the run is heading for.
StoreReport(w) ==
  /\ At(w, "report")
  /\ report' = Outcome(worker[w])
  /\ Goto(w, "commit")
  /\ UNCHANGED <<row, audio, gen, roles, recap, run, queue, envVars>>

CommitAnalysis(w) ==
  /\ At(w, "commit")
  /\ IF worker[w].chunks /\ Dangling(worker[w]) THEN Raise(w, "Unexpected") ELSE Goto(w, "build")
  /\ UNCHANGED <<db, queue, envVars>>

BuildReport(w) ==
  /\ Advance(w, "build", "BUILDING_REPORT", "ship")
  /\ UNCHANGED <<blobVars, queue, envVars>>

\* Mutant of Ship: warnings are forgotten at the end.
ShipWhole(w) ==
  /\ Advance(w, "ship", "SHIPPED", "ack")
  /\ UNCHANGED <<blobVars, queue, envVars>>

Ship(w) ==
  /\ Advance(w, "ship", Outcome(worker[w]), "ack")
  /\ UNCHANGED <<blobVars, queue, envVars>>

\* Where a stage change is illegal for the status on the copy: ConflictError.
Target ==
  [ wait_recap |-> "WAITING_FOR_RECAP", analyze |-> "ANALYZING", validate |-> "VALIDATING",
    insights |-> "INDEXING", build |-> "BUILDING_REPORT" ]

Conflict(w) ==
  /\ worker[w].pc \in DOMAIN Target
  /\ ~Legal(worker[w].call.status, Target[worker[w].pc])
  /\ Raise(w, "ConflictError")
  /\ UNCHANGED <<db, queue, envVars>>

StageFails(w) ==
  /\ \E exc \in MayRaise(worker[w]) \cap Faults : Raise(w, exc)
  /\ UNCHANGED <<db, queue, envVars>>

\* Mutant of HandleError: an unexpected error is only logged.
HandleOnlyNamed(w) ==
  /\ At(w, "handle")
  /\ LET keep == row.status \in {"SHIPPED", "CANCELLED"} \/ worker[w].exc = "Unexpected"
     IN  worker' = [worker EXCEPT ![w].call = row, ![w].pc = IF keep THEN "ack" ELSE "record"]
  /\ UNCHANGED <<db, queue, envVars>>

\* The handlers roll back and read the call again: a finished call is kept.
HandleError(w) ==
  /\ At(w, "handle")
  /\ LET keep == \/ row.status \in {"SHIPPED", "CANCELLED"}
                 \/ worker[w].exc = "Unexpected" /\ row.status = "PARTIAL"
     IN  worker' = [worker EXCEPT ![w].call = row, ![w].pc = IF keep THEN "ack" ELSE "record"]
  /\ UNCHANGED <<db, queue, envVars>>

\* A recap or ML error leaves a call with a transcript PARTIAL, any other error
\* leaves it FAILED.  Where even that is illegal the ConflictError ends the task.
RecordFailure(w) ==
  /\ At(w, "record")
  /\ LET m      == worker[w]
         kind   == KindOf[m.exc]
         target == IF kind \in {"RECAP", "ML_INFERENCE"} /\ gen # 0 THEN "PARTIAL" ELSE "FAILED"
     IN  \/ /\ Legal(m.call.status, target)
            /\ row' = Flushed(row, m.call, Moved(m.call, target, kind))
            /\ Goto(w, IF target = "FAILED" /\ should_retry(m.exc) /\ m.retries < MaxRetries
                         THEN "retry" ELSE "ack")
         \/ /\ ~Legal(m.call.status, target)
            /\ Goto(w, "ack")
            /\ UNCHANGED row
  /\ UNCHANGED <<blobVars, queue, envVars>>

\* Mutant of Retry: the retry is not counted.
RetryUncounted(w) ==
  /\ At(w, "retry")
  /\ queue' = Sent(worker[w].retries)
  /\ Goto(w, "ack")
  /\ UNCHANGED <<db, envVars>>

\* self.retry(): the message comes back after a delay, one retry older.
Retry(w) ==
  /\ At(w, "retry")
  /\ queue' = Sent(worker[w].retries + 1)
  /\ Goto(w, "ack")
  /\ UNCHANGED <<db, envVars>>

\* acks_late: the message is acknowledged when the task has returned or raised.
Ack(w) ==
  /\ At(w, "ack")
  /\ worker' = [worker EXCEPT ![w] = Idle]
  /\ UNCHANGED <<db, queue, envVars>>

WorkerStep(w) ==
  \/ \E n \in 0..MaxRetries : Begin(w, n)
  \/ LoadSegments(w)    \/ EnsureQueued(w)   \/ StartTranscribe(w) \/ SubmitJob(w)
  \/ SaveJob(w)         \/ AwaitTranscript(w) \/ StoreTranscript(w) \/ WaitForRecap(w)
  \/ FetchRecap(w)      \/ Analyze(w)        \/ MLDegrades(w)      \/ Validate(w)
  \/ PersistInsights(w) \/ StoreReport(w)    \/ CommitAnalysis(w)  \/ BuildReport(w)
  \/ Ship(w)            \/ Conflict(w)       \/ StageFails(w)      \/ HandleError(w)
  \/ RecordFailure(w)   \/ Retry(w)          \/ Ack(w)

-----------------------------------------------------------------------------
(* The broker: at least once, unless Celery's parent process outlives the  *)
(* child that dies, in which case it acknowledges for it.                  *)

\* Mutant of Crash: without acks_late the message is gone.
CrashAcked(w) ==
  /\ ~At(w, "idle")
  /\ crashes < MaxCrashes
  /\ crashes' = crashes + 1
  /\ worker' = [worker EXCEPT ![w] = Idle]
  /\ UNCHANGED <<db, job, queue, req, redeliveries, requests, lost>>

Crash(w) ==
  /\ ~At(w, "idle")
  /\ crashes < MaxCrashes
  /\ crashes' = crashes + 1
  /\ queue' = Sent(worker[w].retries)
  /\ worker' = [worker EXCEPT ![w] = Idle]
  /\ UNCHANGED <<db, job, req, redeliveries, requests, lost>>

WorkerLost(w) ==
  /\ "WorkerLost" \in Faults
  /\ ~At(w, "idle")
  /\ crashes < MaxCrashes
  /\ crashes' = crashes + 1
  /\ worker' = [worker EXCEPT ![w] = Idle]
  /\ lost' = TRUE
  /\ UNCHANGED <<db, job, queue, req, redeliveries, requests>>

\* The visibility timeout runs out while the task is still being worked on.
Redeliver(w) ==
  /\ ~At(w, "idle")
  /\ redeliveries < MaxRedeliveries
  /\ redeliveries' = redeliveries + 1
  /\ queue' = Sent(worker[w].retries)
  /\ UNCHANGED <<db, job, worker, req, crashes, requests, lost>>

-----------------------------------------------------------------------------
(* PyAI, seen from the worker and from the webhook it calls.               *)

JobEnds ==
  /\ job = "running"
  /\ job' \in JobOutcomes
  /\ UNCHANGED <<db, queue, worker, req, budgets, lost>>

\* The webhook stores the job id; the wake-up it sends only shortens a poll.
Webhook ==
  /\ job \notin {"none", "running"}
  /\ ~row.job
  /\ row' = [row EXCEPT !.job = TRUE]
  /\ UNCHANGED <<blobVars, queue, worker, envVars>>

-----------------------------------------------------------------------------
(* The API: a request reads the call (Receive), decides and writes on that *)
(* copy in one transaction, then may enqueue the task.                     *)

Working == \/ \E n \in 0..MaxRetries : queue[n] > 0
           \/ \E w \in Workers : ~At(w, "idle")

Receive(op) ==
  /\ req.step = "idle"
  /\ requests < MaxRequests
  /\ Overlap \/ ~Working
  /\ requests' = requests + 1
  /\ req' = [step |-> "act", op |-> op, seen |-> row]
  /\ UNCHANGED <<db, job, queue, worker, crashes, redeliveries, lost>>

Serving(op) == req.step = "act" /\ req.op = op

\* The request writes the call as it saw it with a new status.
Write(status) == row' = Flushed(row, req.seen, Moved(req.seen, status, None))

ThenEnqueue == req' = [req EXCEPT !.step = "enqueue"]
ThenReply   == req' = NoRequest

apiVars == <<job, queue, worker, budgets, lost>>

\* UPLOADING is only ever flushed, never committed: the recording and QUEUED
\* are one transaction.
Upload ==
  /\ Serving("upload")
  /\ Legal(req.seen.status, "UPLOADING")
  /\ Write("QUEUED")
  /\ audio' = TRUE
  /\ ThenReply
  /\ UNCHANGED <<gen, roles, recap, run, report, apiVars>>

Process ==
  /\ Serving("process")
  /\ req.seen.status # "CANCELLED"
  /\ audio
  /\ IF req.seen.status = "CREATED" THEN Write("QUEUED") ELSE UNCHANGED row
  /\ ThenEnqueue
  /\ UNCHANGED <<blobVars, apiVars>>

Reanalyze ==
  /\ Serving("reanalyze")
  /\ \/ /\ req.seen.status \in {"QUEUED", "TRANSCRIBING", "WAITING_FOR_RECAP", "ANALYZING"}
        /\ UNCHANGED row
     \/ /\ req.seen.status = "FAILED" /\ gen = 0
        /\ Write("QUEUED")
     \/ /\ req.seen.status \in {"SHIPPED", "PARTIAL", "FAILED"}
        /\ ~(req.seen.status = "FAILED" /\ gen = 0)
        /\ Write("ANALYZING")
  /\ ThenEnqueue
  /\ UNCHANGED <<blobVars, apiVars>>

Cancel ==
  /\ Serving("cancel")
  /\ req.seen.status \notin TERMINAL_CALL_STATUSES \ {"FAILED"}
  /\ Legal(req.seen.status, "CANCELLED")
  /\ Write("CANCELLED")
  /\ ThenReply
  /\ UNCHANGED <<blobVars, apiVars>>

\* Mutant of PatchSpeakers: every terminal call is analysed again.
PatchReopensAll ==
  /\ Serving("patch_speakers")
  /\ gen # 0
  /\ roles' = roles + 1
  /\ run' = [run EXCEPT !.facts = FALSE]
  /\ IF req.seen.status \in TERMINAL_CALL_STATUSES
       THEN row' = [row EXCEPT !.status = "ANALYZING"] ELSE UNCHANGED row
  /\ ThenEnqueue
  /\ UNCHANGED <<audio, gen, recap, report, apiVars>>

\* New roles drop the facts that rested on the old ones, in every run.
PatchSpeakers ==
  /\ Serving("patch_speakers")
  /\ gen # 0
  /\ roles' = roles + 1
  /\ run' = [run EXCEPT !.facts = FALSE]
  /\ IF req.seen.status \in {"SHIPPED", "PARTIAL", "FAILED"} THEN Write("ANALYZING") ELSE UNCHANGED row
  /\ ThenEnqueue
  /\ UNCHANGED <<audio, gen, recap, report, apiVars>>

Act == Upload \/ Process \/ Reanalyze \/ Cancel \/ PatchSpeakers

\* A request that is refused, or fails on the way (an invalid recording, the
\* blob store), is rolled back.
Reject ==
  /\ req.step = "act"
  /\ ThenReply
  /\ UNCHANGED <<db, apiVars>>

Enqueue ==
  /\ req.step = "enqueue"
  /\ queue' = Sent(0)
  /\ ThenReply
  /\ UNCHANGED <<db, job, worker, budgets, lost>>

\* The row is committed, the broker does not get the message.
EnqueueLost ==
  /\ "EnqueueLost" \in Faults
  /\ req.step = "enqueue"
  /\ lost' = TRUE
  /\ ThenReply
  /\ UNCHANGED <<db, job, queue, worker, budgets>>

ApiStep == (\E op \in Ops : Receive(op)) \/ Act \/ Reject \/ Enqueue \/ EnqueueLost

-----------------------------------------------------------------------------
Next ==
  \/ \E w \in Workers : WorkerStep(w) \/ Crash(w) \/ WorkerLost(w) \/ Redeliver(w)
  \/ JobEnds
  \/ Webhook
  \/ ApiStep

\* Workers keep working, PyAI ends its jobs, and a request that has committed
\* goes on to enqueue.  Clients, faults and crashes owe nothing.
Fairness ==
  /\ \A w \in Workers : WF_vars(WorkerStep(w))
  /\ WF_vars(JobEnds)
  /\ WF_vars(Enqueue)

Spec == Init /\ [][Next]_vars /\ Fairness

-----------------------------------------------------------------------------
(* Types.                                                                  *)

Worker == [ pc      : PC,
            retries : 0..MaxRetries,
            call    : CallRow,
            views   : [gen : Nat, roles : Nat],
            warn    : BOOLEAN,
            chunks  : BOOLEAN,
            exc     : Exceptions \cup {None} ]

Request == [ step : {"idle", "act", "enqueue"},
             op   : AllOps \cup {None},
             seen : CallRow ]

\* The shape of the state; with it, that a run's retry count stays within
\* celery_max_retries and that every status written is one of CallStatus.
TypeOK ==
  /\ row \in CallRow
  /\ audio \in BOOLEAN
  /\ gen \in Nat
  /\ roles \in Nat
  /\ recap \in {None, "ready", "unavailable"}
  /\ run \in [version : Nat, gen : Nat, roles : Nat, facts : BOOLEAN]
  /\ report \in {None, "SHIPPED", "PARTIAL"}
  /\ job \in {"none", "running", "completed", "failed", "error"}
  /\ queue \in [0..MaxRetries -> Nat]
  /\ worker \in [Workers -> Worker]
  /\ req \in Request
  /\ crashes \in Nat
  /\ redeliveries \in Nat
  /\ requests \in Nat
  /\ lost \in BOOLEAN

-----------------------------------------------------------------------------
(* Safety.                                                                 *)

InFlight == {"TRANSCRIBING", "WAITING_FOR_RECAP", "ANALYZING", "VALIDATING",
             "INDEXING", "BUILDING_REPORT"}

Finished == {"SHIPPED", "PARTIAL"}

\* A call is SHIPPED only once an analysis run is stored and a report has been
\* put in the blob store (runner.py:475-509 before 132), whoever else works on it.
ShippedIsComplete == row.status = "SHIPPED" => run.version > 0 /\ report # None

\* A call that was left in the middle of the pipeline has someone to finish it:
\* a message in the queue, a request about to enqueue, or a worker.  (The retry
\* and acknowledgement paths of pipeline_tasks.py:40-57 and the requests that
\* commit before they enqueue.)  A lost message is the exception.
Quiet == ~Working /\ req.step # "enqueue"
NoStuckCall == Quiet /\ ~lost => row.status \notin InFlight

\* What a finished call shows agrees: the outcome column, the outcome in the
\* stored report, and an analysis of the transcript and the speaker roles that
\* are stored now.
FinishedCallIsConsistent ==
  row.status \in Finished =>
    /\ row.outcome = row.status
    /\ report = row.status
    /\ run.gen = gen
    /\ run.facts => run.roles = roles

\* Nothing follows CANCELLED (state.py:41).
CancelledIsFinal == [][row.status = "CANCELLED" => row'.status = "CANCELLED"]_vars

\* A worker never moves a SHIPPED call: only a request sends it back to analysis
\* (runner.py:92-94, 154-155).
ShippedIsLeftAlone ==
  [][row.status = "SHIPPED" /\ row'.status # "SHIPPED" => req.step = "act" /\ req' # req]_vars

\* A call in progress comes to one of the terminal states, unless its message
\* is lost, whatever fails or crashes on the way.
CallSettles == row.status \in InFlight ~> row.status \in TERMINAL_CALL_STATUSES \/ lost

\* The phase a client sees behind each status.
Phase ==
  CASE row.status \in {"CREATED", "UPLOADING"} -> "new"
    [] row.status = "QUEUED"      -> "pending"
    [] row.status \in InFlight    -> "working"
    [] row.status \in Finished    -> row.status
    [] row.status = "FAILED"      -> "failed"
    [] row.status = "CANCELLED"   -> "cancelled"

Lifecycle == INSTANCE CallLifecycle WITH
  phase     <- Phase,
  published <- report,
  current   <- run.gen = gen /\ (run.facts => run.roles = roles)

\* Worked on by one worker at a time, a call keeps the promises of CallLifecycle:
\* every commit of a worker or a request is one of its steps, whatever fails,
\* crashes, is lost or is delivered twice.
KeepsLifecycle == Lifecycle!Spec

\* The retries end: the queue drains and every worker comes to rest.
WorkEnds == []<>Quiet
=============================================================================
