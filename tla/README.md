# Deal Truth API: TLA+ models, model checks and proofs

`deal-truth-api` takes a sales call's recording, has it transcribed by PyAI, analyses it with an
ML service and publishes a report in which every claim rests on the transcript. FastAPI handlers
write rows and send Celery messages; Celery workers run `run_pipeline` on one call at a time; the
state that matters is a row per call in Postgres, blobs in an object store and a job at PyAI.
This directory models that system from its source, checks the models with TLC and proves their
main safety properties with TLAPS. Paths below are relative to `src/app/` unless they begin with
`docs/`.

## 1. Inventory

| Component | State | Operations | Interacts with | What is hard |
|---|---|---|---|---|
| Call state machine (`pipeline/state.py`, `models/call.py`) | status, terminal outcome, failure kind of the call row | `transition`, `log_event` | runner, every API handler | columns that nothing clears; a session that flushes only what it changed |
| Pipeline runner (`pipeline/runner.py`, `persist.py`) | transcript, speakers, recap, analysis runs, chunks, artifacts | the stages, the two error handlers | row, PyAI, ML, blobs, broker | a copy of the call held across commits; blob before row; crash between commits; two runs taking one version |
| Celery task and broker (`tasks/`, `core/retry.py`) | queue, retry count | deliver, retry, acknowledge | runner, API | late acknowledgement, redelivery of a running task, a lost child |
| Call API (`api/v1/calls.py`, `audio.py`, `deps.py`) | call row, roles, audio | create, upload, source URL, playback, process, reanalyze, cancel, patch speakers, list, delete | row, broker, blobs | commit then enqueue; a coroutine that blocks the event loop on a row lock; requests on a call in flight |
| PyAI (`providers/pyai/`), webhook (`api/v1/webhooks.py`, `core/job_ready.py`) | job, job id on the row, ready flag and list | submit, poll, fetch, signal | runner | lost replies, idempotency key, a signal between two reads |
| Evidence gate (`evidence/`) | segments seen, verdicts | `validate_candidates` | extractors, persist | verdicts depend on those before |
| Extractors (`intelligence/extract.py`) | none | nine extractors | ML labels, gate | two derivations of the same fact; tables that map two labels to one kind |
| Roles, metrics, chunks, dimensions (`intelligence/`) | speaker roles, index | resolve, measure, cut | segments, ML | boundaries; a user's correction against a late worker |
| ML client (`ml/`) | none | batches, re-keying, axes | worker | answers short, out of order, with and without ids |
| Report, export (`api/v1/report.py`) | none of their own | read artifact, run, rows, links | rows, blobs | four reads while workers write |
| E-mail, battlecard, brief, CRM preview (`intelligence/`, `api/v1/integrations.py`) | none | one view each of the same insights | insights | one fact read from insights of different types |
| Event stream (`api/v1/calls.py:354-440`) | cursor, budget | poll, frames, resume | `processing_events`, clients | stamps taken before commit; two reads per poll; resuming |
| Deals (`api/v1/deals.py`) | deals | find or create, attach, compare | calls, runs | two calls, one name; a view of several queries |
| Blob store (`storage/`) | objects | upload with retry, ranged download | API, workers | a stream that cannot be rewound |
| Sharing, signed URLs (`api/v1/share.py`, `core/security.py`) | share links | create, revoke, open | report | nothing held across two statements |

What makes each correct, in a sentence: a **call** goes through its statuses in the order of the
table, is never left in the middle with nobody to finish it, and when it is finished its row, its
report and its analysis agree; the **queue** ends every retry; **audio** is stored and played as it
was accepted; a **wait** hears its signal and ends; **scores** reach the segments they are of; a
**claim** ships only with proof and only once, and every surface says the same of it; a **report**
is of one run; an **account name** is one deal; a **stream** tells the whole story once and ends.
The hazards behind these, each at its line, are in `PROJECT.json`.

## 2. Modules

| Module | Models | Checked by, proved in |
|---|---|---|
| `CallState` | `ALLOWED`, `transition`, the flush of a session, as pure operators | used by `CallPipeline`, `AudioUpload` |
| `CallPipeline` | one call: rows, queue, workers, PyAI job, requests, faults | `MCCallPipeline`; `CallPipelineProofs` |
| `CallLifecycle` | what a client is promised of a call (abstract) | instantiated by `CallPipeline` as `Lifecycle`; the refinement in `CallPipelineProofs` |
| `TranscriptionWait` | `_await_transcript` of several workers, `RedisJobReadyWaiter`, the webhook | itself; `TranscriptionWaitProofs` |
| `AudioUpload` | `upload_audio`, `source_url`, the blob store under them, ranged playback | itself; `AudioUploadProofs` |
| `MLRows`, `Conversation` | re-keying of ML answers; roles, metrics and chunks, as operators | through `TranscriptAnalysis` and its proofs |
| `TranscriptAnalysis` | a transcript through roles, ML batches, metrics, index; corrections and a late worker | `MCTranscriptAnalysis`; `TranscriptAnalysisProofs` |
| `EvidenceGate` | `validate_candidates`, one candidate per step | through `CallInsights`; `CallInsightsProofs` |
| `Extractors` | `extract.py` as operators on labelled segments | through `CallInsights`; `CallInsightsProofs` |
| `CallInsights` | extractors and gate together (`_analyze`) | through `CallOutputs` |
| `CallOutputs` | dimensions, CRM preview, battlecard, brief, e-mail and its polish | `MCCallInsights`; `CallInsightsProofs` |
| `ReportReaders` | runs, artifacts, refusals and facts; workers, corrections, deletion, readers | `MCReportReaders`; `ReportReadersProofs` |
| `AccountDeals` | `create_call` attaching to deals, `get_deal`, `list_calls` | `MCAccountDeals`; `AccountDealsProofs` |
| `EventStream` | `stream_events`, the transactions it watches, a client that reconnects | itself; `EventStreamProofs` |

How they divide the system: `CallPipeline` is the spine, and keeps an analysis as "of which
transcript, with which roles". What an analysis is made of is `TranscriptAnalysis` (numbers and
index) and `CallInsights` with `CallOutputs` (claims and what is said with them); where two
analyses meet in the tables is `ReportReaders` and, across calls, `AccountDeals`. The one step of
`CallPipeline` in which a worker waits is `TranscriptionWait`, the request by which audio arrives
is `AudioUpload`, and its events are watched by `EventStream`.

### CallPipeline

A worker's action ends where the code commits or calls out, so a crash or another actor can come
in exactly there. `worker[w].call` is the worker's copy of the row: sessions are created with
`expire_on_commit=False` (`db/__init__.py:31`), so the copy is refreshed only after a rollback, and
`Flushed` writes only the columns that changed on it. `Begin` to `Ship` are the stages in order;
`Conflict`, `StageFails`, `MLDegrades` are the ways a stage fails; `HandleError` is the rollback and
re-read of the exception handlers, `RecordFailure` what they write; `Retry` and `Ack` are the
Celery task around it. `Crash` returns the message to the queue, `Redeliver` is the visibility
timeout striking a running task, `WorkerLost` a child whose parent acknowledges for it. A request is
`Receive` (the handler loads the row), one of `Upload`, `Process`, `Reanalyze`, `Cancel`,
`PatchSpeakers` or `Reject` (one transaction), then `Enqueue` or `EnqueueLost`.

Abstractions and assumptions:

- A transcript is a generation number, roles are a version; an analysis remembers both. A transcript
  with segments yields at least one insight with evidence.
- Each (failure kind, retryable) pair the pipeline meets has one exception to stand for it; a
  database error, and the unique violation of two workers that insert the same speaker, are
  `Unexpected`.
- PyAI keeps one job per idempotency key, which is constant per call; the webhook stores the same id.
- The reopening of a `PARTIAL` or `FAILED` call (`runner.py:117-122`) and the start of its analysis
  are one step: nothing is committed or called in between. JSON and Markdown reports are one blob.
- `self.retry` publishes before the message is acknowledged. `UPLOADING` is flushed but never
  committed on its own.
- Not modelled: a database failure inside an error handler. `delete_call` under a running worker is
  in `ReportReaders`, which keeps the rows apart.

### EvidenceGate, Extractors, CallInsights, CallOutputs

`candidates` is the argument of `validate_candidates`, `kept` its list of verdicts, `seen` its set
of (type, title, segment). The four actions are the four ways one turn of the loop ends. A segment
keeps its role, the phrases in its text and its label scores at three levels (below 0.55, below
0.75, above); equal levels count as equal scores. `Extractors` has one operator per extractor, in
the order and with the tables of the source; titles keep what tells insights of one type apart.
The repository itself says that model-proposed candidates are planned, so the gate is checked on
candidates with every defect as well as on what the extractors make.

`CallOutputs` applies every reader to the verdicts once all candidates are through; sentences,
goals and questions are kept by what they are about. The e-mail takes a commitment for a meeting by
its action, not its title (`IsMeeting`): the extractor gives what it finds scored as one the action
"next meeting", and the action of any other commitment is a text, a segment's or a recap item's,
which may be these two words (`WordedMeeting`; the phrase "next meeting" is a text of nothing else).
`items` is what a recap says of the item that matched each segment, its side and its action; the
properties range over all of them (`RecapItems`). The polish is of as many lines as there are
sentences, with any text; an answer of another length leaves the draft as it is.

### AudioUpload

The handler of `upload_audio` holds the event loop from `Arrive` to its last statement; its
session is closed, and its row lock released, only when the loop gets to it (`Commit`, `Rollback`).
`source_url` runs on a thread. Audio is the request it came from and the range of its bytes that is
stored, so that a retry which sends the rest of a stream is visible as a range that does not begin
at its first byte. `counted` is what the reader handed out, `confirmed` the length `head_object`
reports, and `Booked` the `size_bytes` of the row: an upload prefers the first, `source_url` has only
the second, so after a retry it books the length of what was left. `RangeTuple` is `_range_tuple`,
`Sent` the slice the store answers with, `Playback` the two together.

### TranscriptionWait

Time is counted in half seconds and passes (`Tick`) while a worker sleeps, and while its request to
PyAI or the answer is under way. A poll is two steps: `Answered`, when PyAI looks at the job, and
`FindsEnded` or `FindsRunning`, when the worker acts on the answer, so that a job may end, a webhook
come and the deadline pass while "running" is under way. `Check` and `Listen` are the two reads of
`RedisJobReadyWaiter.wait`, `Signal` the webhook's transaction; `BlpopTicks` is BLPOP's whole
seconds. A worker may die and begin again; a poll may be refused or time out (`PollRaises`), and
Redis may be gone (`RedisRaises`).

### TranscriptAnalysis, MLRows, Conversation

A segment is its speaker, times, length and role cues. Each batch is one request: the ML service
answers honestly, short, out of order, without ids, with one object, or is unavailable. Scores
are kept as the text they are of, so that a score on the wrong segment shows. `StoredAgain` is a
second worker storing the transcript again, `PatchSpeakers` the roles a user sets or swaps; both end
in the run that follows (`Restarted`).

### ReportReaders

A run is the sequence of the contents of its insights; a stored transcript is a generation to which
evidence links point. A worker computes the version and inserts the run in two steps, the loser of
a race gets a unique violation. A reader takes the status, the artifact, the run, the rows and the
links one by one; `mixed` remembers that two workers, or a correction during a run, were at work.

### AccountDeals

A call is `attached` (flushed, visible to nobody else) and then `committed` or `gone`. `Matches` is
ILIKE, for which `A_me` is a pattern. `raced` is a history variable: names for which two requests
were open at once. A deal view is one step per query.

### EventStream

`Log` is a flush (which stamps `created_at` in Python), `Commit` the commit that makes events and
status visible; another transaction may come in between. A poll is `ReadStatus`, `ReadEvents`, a
`SendEvent` per row, then `SendTerminal` or `Sleep`. `Connect` parses `Last-Event-ID`; `NoTime`
stands for an id that is no timestamp. Two events never share a stamp (microseconds).

## 3. Runs

| Run | What it asks | Bounds |
|---|---|---|
| `serial` | One worker, requests only while the call rests, every error once in every place, one crash, one redelivery, a lost child, a lost enqueue: `NoStuckCall`, `FinishedCallIsConsistent`, `CancelledIsFinal`, `ShippedIsLeftAlone`, and that `CallPipeline` implements `CallLifecycle` (`KeepsLifecycle`) | 4 requests, 1 retry: upload, a failure, a second look and a correction of roles fit in |
| `settles` | Under fairness: a call in flight reaches a terminal state (`CallSettles`), the work ends (`WorkEnds`) | 2 retries, 1 crash, 3 requests |
| `overlap` | Two workers, requests at any time, a redelivery: `ShippedIsComplete` | 3 requests; worker symmetry (no liveness, no property names a worker) |
| `upload` | `AudioIsWhatWasAccepted`, `PlaysWhatWasAsked`, `UploadEnds` | 2 requests, 2 names, 3 bytes of audio at most, 2 fetched before the store is asked: a retry may then have none, one or two bytes left; 1 restart |
| `wait` | `TimeoutIsFresh`, `SignalIsHeard`, `PausesAreKept`, and under fairness `WaitEnds` | 2 workers, deadline 1.5 s, interval 1 s: the last pause is shorter than the interval and than BLPOP's second, which outlives the deadline; 1 webhook, 1 death, clock up to 2.5 s, so that waits need not begin together |
| `transcript` | `CorrectionsStay`, `ScoresFindTheirSegments`, `UnscoredIsNotNeutral`, `IndexIsWholeOrAbsent`, `ChunksAreCutWhereTheyMust`, `MomentsSpanTheirText`, `MetricsDescribeTheCall` | calls of up to three segments, one without any among them, with gaps at and around each limit and nested times; batches of 2, one answer that is not honest |
| `insights` | `ClaimsAreProven`, `NoEvidenceTwice`, `RefusalsAreDeserved`, `ExtractorsOnlyRepeat`, `AbsencesAreReal`, `SurfacesAgree`, `NothingUnbacked` | three segments; every pair of labels on the first; dates, sums and courtesies; a meeting spoken of in these two words by either side; recap items of either side or none, worded so or not; two and three proposed candidates with every defect |
| `reports` | `RunsAreNumbered`, `FinishedIsOfOneRun`, `IdsAreTheInsights`, `CountsReconcile`, `DeletedIsFinal` | 2 workers, 3 deliveries (two runs and a third that races), 1 correction, 1 crash, 1 reader |
| `deals` | `OneNameIsOneDeal`, `ViewsShowOneRun`, `DeltasCiteWhatTheyCompare` | 3 calls, three names that match each other in every way, 2 runs, 1 loss |
| `stream` | `TheEndIsHeard`, `NoReplay`, `StreamEnds` | 2 writers, 4 events, 3 connections, budget of 2 polls |
| `claim_cancel`, `claim_upload` | each checks a sentence of the documents and finds it violated (section 5) | as small as shows it |

The bounds are enough in the sense that every action fires and every property has a mutant of the
code (in the modules, before the definition it replaces) that the run catches. `MLResponseInvalid`
is left out of the faults of the passing runs because it does strand a call (section 5);
`NoCallIsStuck` has the same assumption. `serial` keeps requests to calls at rest because
`claim_cancel` shows what overlapping does; `overlap` checks what still holds then. The bounds are
constants, named as such in each module. `CHECK_DEADLOCK FALSE` everywhere: a finished call, a
handled list of candidates, a closed stream, an answered view with nothing left to ask really stop.

Type invariants are not among the runs' properties where a theorem states them for every value of
the constants (section 4).

Fairness. `CallPipeline`: weak fairness of each worker's steps (a live worker goes on), of `JobEnds`
(PyAI ends its jobs) and of `Enqueue` (a handler that committed goes on). Nothing is asked of
clients, faults, crashes or redeliveries. `AudioUpload`: weak fairness of each handler, which is
running code; none of restarts. A handler that waits for a lock is not enabled, which is how
`UploadEnds` can name the one case that does not end. `TranscriptionWait`: time passes and a worker
that can go on does; nothing of PyAI or the webhook, for a request that is not answered ends by the
client's own timeout of 60 s (`providers/pyai/__init__.py:190`). `EventStream`: weak fairness of the server's
loop only. The other modules state safety only and need none.

## 4. Proofs

All theorems hold for every value of the constants, from the named `ASSUME`s of the modules.

- `CallPipelineProofs`: `TypeInvariant` (inductive: `TypeOK`, a worker in a handler holds an
  exception, only a retry below the limit is sent) and `TypeCorrect`.
- `CallPipelineProofs`: `ShippedHasReport` (`ShippedIsComplete` for any number of workers, crashes
  and overlapping requests). `TypeOK` and the property are not inductive; `ReportInv` adds that a
  worker past `PersistInsights` stands behind a stored run, one past `StoreReport` behind a stored
  report, and that nobody removes either.
- `CallPipelineProofs`: `NoCallIsStuck` (`NoStuckCall`), assuming `MLResponseInvalid` is not among
  the faults. `StuckInv` says who will finish a call in flight: a queued message, a request about to
  enqueue, or a worker whose copy still carries the run, through the error handlers and retries;
  `MLErrors` says that ML failures never reach an error handler.
- `CallPipelineProofs`: `FinishedIsConsistent`, `CancelledStays`, `ShippedStays` and
  `PipelineKeepsLifecycle`, the refinement of `CallLifecycle` (initial states map to initial states,
  every step to a step or a stutter), each for every number of workers as `Spec /\ []OneAtATime`:
  no two workers hold the call at a time and no request is served meanwhile. That hypothesis is
  needed, since `claim_cancel` shows what happens without it, and it is met: `OneWorkerKeepsAll`
  proves it of one worker and requests while the call rests (`Overlap` false, the configuration of
  `serial`), so that there the four hold of `Spec` alone. `AloneInv` is the strengthening: what a
  busy worker knows at each point of the run (`InPlace`: its copy of the row is the row, the status
  is its stage's, the transcript and roles it read are the stored ones, what it wrote is there), and
  what a call at rest was left with.
- `CallInsightsProofs`, the gate: `GateInvariant` (inductive; `seen` is exactly the keys of what
  shipped), and from it `GateTypeCorrect`, `NoClaimWithoutProof`, `NoClaimTwice`,
  `EveryRefusalDeserved`. The assumption on inputs is that no producer asks for a seller where only
  the customer counts.
- `CallInsightsProofs`, the extractors: `ExtractorsAreRight` (`ExtractorsOnlyRepeat`) and `GapsAreReal`
  (`AbsencesAreReal`), for every transcript, labelling and recap. `ExtractIsBacked` is the lemma they
  rest on: each of the nine extractors yields candidates that the segments back (`Backs`: they cite
  segments of the call, spoken by the side they ask for; an absence is of a label no customer scores;
  `Means` adds what a title promises). It goes loop by loop: `FlattenSays` says what a flattened
  comprehension holds and begins with (an induction over its parts, with a set as the parameter),
  `BestHolds` and `MaxLabelHolds` what the search for the best segment finds and what finding none
  means. `VerdictsHaveReasons` adds to the gate's invariant why each verdict is what it is. Assumed
  of the inputs: segments are sequences of segments, every label the extractors read is scored, a
  recap item points at a segment of the call or at none.
- `CallInsightsProofs`, the surfaces: `NothingIsUnbacked` (`NothingUnbacked`). For any candidates the
  draft lists exactly the facts without evidence and polishing changes no claim (`DraftLists`); for
  the extractors' own, each stored insight stands on the segments it was proposed with (`Stands`), so
  that every sentence is `WellSaid` (a meeting by a customer who agreed, `Agreed`, or by a commitment
  worded "next meeting", `Worded`) and every CRM field cites a customer who says it (`WrittenHeard`).
  `SurfacesSayTheSame` (`SurfacesAgree`) needs the converse as well, that what the segments say is
  proposed (`ExtractProposes`) and that what is proposed is stored or repeats the title of what is
  (`JudgedIsStored`). `StoredTells` puts both together as `Tellings`: for each dimension a signal is
  stored, and it is supported exactly when buying intent shows the dimension (`Shown`). Every surface
  is then reduced to `Shown`, which is why they agree: the battlecard's gaps (`MissingIs`), the CRM's
  gates (`BlockedIs`), the meeting of the e-mail (`MeetingIs`) and of
  the CRM (`LoggedIs`), which differ only by wording, the brief (`RefusalIs`,
  `SecurityIs`), the quotes (`BlockerIsQuoted`); the deal killer and its question need the order of
  the priorities too (`KillerIs`, `FirstQuestionIs`).
- `AudioUploadProofs`: `UploadTypes`; `UploadsAreAccepted` (`AudioIsWhatWasAccepted`), from what
  every handler in progress has read, stored and had confirmed: while it holds the row's lock nobody
  else writes the object, so the length it is told is that of its own; `PlaybackIsExact`,
  arithmetic over all sizes and ranges.
- `ReportReadersProofs`: `Sound` (types, an analysis in hand is one the transcript allows, versions
  without gaps), `Stored` (an artifact of an existing call is of a stored run) and `OwnRun` (a worker
  that is alone with the call carries the version it inserted) give `ReadersTypes`, `RunsNumbered`,
  `ReportsAreStored` and `FinishedByOneRun` (`FinishedIsOfOneRun`, which is about calls that were not
  `mixed`); `DeletedStays` is an action property.
- `ReportReadersProofs`: `IdsAreRight` (`IdsAreTheInsights`) and `CountsAddUp` (`CountsReconcile`).
  A reader takes status, artifact, run, rows and links in separate steps. `Fresh` says that a reading
  nothing disturbed (no worker, correction or deletion wrote in the middle of it) holds what is
  stored now; `RowsLeft` says which rows of a run are still there and `Consistent` that what was
  shown was matched from what was read.
- `EventStreamProofs`: `StreamTypes`; `NothingComesTwice` (`NoReplay`) from `InOrder`: what was got
  ends at the last id, which is where an open connection stands, and what is still to be sent lies
  beyond; `TerminalIsLast` (`TheEndIsHeard`) from `WholeStory`: stamps are given out in order and
  belong to one transaction, a client at an event has every earlier one that was not overtaken, and
  what is owed with a terminal status is behind it or in the poll. `AscendingCovers` is the lemma
  that an ascending sequence as long as a finite set has all of it.
- `AccountDealsProofs`: `OneDealPerName` (`OneNameIsOneDeal`) from `DealsInv`: a call that is not
  committed joined a committed deal or holds one of its own, and two such requests for one name
  have raced.
- `AccountDealsProofs`: `OneRunPerCall` (`ViewsShowOneRun`) and `DeltasAreBacked`
  (`DeltasCiteWhatTheyCompare`) from `ViewInv`, which follows the queries of a view: the run that was
  seen of a call is what it was when it was read, or is gone with its call, and what is
  shown or cited so far comes from it.
- `TranscriptAnalysisProofs`: all seven properties of `transcript`, for every set of transcripts, of
  every length, and every batch and chunk size: `CorrectionsAreKept` (an action property),
  `ScoresAreTheSegments`, `UnscoredIsUnscored`, `IndexIsAllOrNothing`, `ChunksAreRight`,
  `MomentsAreWide`, `MetricsAreRight`. `AnalysisInv` says what is known at each stage: whose segments
  carry labels so far and from which text (`LabelsFit`, `AxesFit`), that no batch failed before
  (`NotYetFailed`), and that metrics and index are those of the call (`Measured`, `IndexFits`).
  Chunks and monologues are recursive functions over the transcript. The induction principles of the
  library take operators, so the module proves the two it needs with a set as the parameter
  (`Induction`, `Recursion`), and from them the step equations `ChunksBySteps` and
  `MonologuesBySteps`; that cuts are where they must be and that nothing outlasts the monologue found
  are inductions over the segments. Moments and metrics are proved of calls whose speakers take
  turns, as their properties say.
- `TranscriptionWaitProofs`: `WaitInv` (a pause is never overslept; an early poll comes after a
  signal; a listener that nobody robbed finds an element as long as the flag is set, and no time
  passes in its pause once the job is ready, though it may while an answer is under way) gives `WaitTypes`, `TimeoutsAreFresh`,
  `SignalsAreHeard` and, as an action property, `NoPauseIsCutShort`.

Only model-checked: liveness (`CallSettles`, `WorkEnds`, `UploadEnds`, `WaitEnds`, `StreamEnds`),
which rests on fairness and ENABLED. Every safety invariant and action property of a passing run has
its theorem.

## 5. Where documents and code differ

Each of the first two is a run that TLC ends with a trace; lines are in `PROJECT.json`.

- `claim_cancel`: a call cancelled while a worker holds it leaves `CANCELLED` again.
- `claim_upload`: a bucket that was missing makes the upload's retry store what is left of the
  stream, which may be nothing, and the call is queued.

Six more were shown by runs of the earlier model and are kept in its guards and properties:

- of two deliveries of one message the slower takes the `SHIPPED` call back, where
  `docs/ARCHITECTURE.md:204` calls redelivery idempotent;
- a worker that dies in `VALIDATING`, `INDEXING` or `BUILDING_REPORT` makes the redelivered message
  fail the call as `USER_INPUT`;
- embeddings of the wrong shape (`MLResponseInvalid`) leave the call in `INDEXING`, where
  `docs/ARCHITECTURE.md:298` has ML failures end in `PARTIAL`;
- roles corrected during a run stay uncorrected in a call that ships (`docs/ARCHITECTURE.md:434`);
- a call `PARTIAL` for want of a recap ships without one when analysed again;
- the extractors can have a claim refused, as a duplicate, with labels that map to one kind
  (`docs/REMAINING_WORK.md:18`).

Also seen while modelling:

- Stream: the `terminal` frame's id is no timestamp, so a client that returns with it receives the
  history again (`NoReplay` names it as the only case); a stream ends on a `FAILED` call whose
  retry is still pending.
- PyAI: a job that is ready, and signalled, before the deadline is given up when the answer that had
  it still running was under way as the deadline passed; the poll ends on "error" and "canceled", which `fetch_normalized` then takes for
  transcripts.
- ML: an answer that is too long is cut before it is re-keyed; one missing id sends the whole answer
  back to positions; a failed embedding on reanalysis removes the index; a segment without a valence
  counts as 0.0 in the metrics.
- Metrics: a segment nested in another breaks what is said of monologues and silences, so
  `MetricsDescribeTheCall` speaks of calls without; a packed chunk cites only its first and last ids.
- Report: overlapping workers, or a correction during `INDEXING`, leave report, insights and counts
  of different runs (`mixed`); `docs/frontend-contract.md:69` tells clients of the reanalysis window.
- `delete_call` leaves the call's blobs.
- Deals: FastAPI commits after the response is sent, so even a client that waits can race;
  `deals.py:29` says "Case-insensitive exact match", and ILIKE reads `_` and `%` as wildcards; a call
  without a run reads as "missing" in every dimension, so that proven dimensions look lost.
- Upload: with two uploads of one call the event loop can wait for a row lock that only it can
  release (`LoopIsStuck`); after a retry that sent the rest, `source_url` books the length of the
  rest beside the checksum of the whole file, and an upload the length of the whole file, which
  playback then promises.
- E-mail: a commitment whose action is "next meeting" in words, a recap item's or a seller's own,
  makes the e-mail confirm a meeting that the CRM field blocks and the brief calls missing; its
  evidence may be a seller's segment. A competitor may be named in the brief that no label scored.
- Insights: `QuantifiedPain` looks only at the best pain segment, which is why `AbsencesAreReal` does
  not speak of `business_impact_identified`; the brief's biggest risk is the first in the list and
  the battlecard's goes by priority, so they can name different ones; a recap's action item of the
  seller may be backed in the e-mail by a customer's segment.

## 6. What is left

1. A failing error handler in the pipeline.
2. The composition of `CallPipeline` and `ReportReaders`, which now share only the meaning of a run.
3. Retries inside one ML request; talk ratio, question and keyword counts; tracked terms of deals.

Not modelled: share links and the Slack webhook (each operation is one row read or written, with
nothing held across two statements; the signature is cryptography), ranking by embeddings (real
arithmetic), document mentions and other wording, HTTP and SQL plumbing, settings, schemas and
logging (declarations or pure I/O).
