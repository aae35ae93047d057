------------------------- MODULE CallPipelineProofs -------------------------
(***************************************************************************)
(* Theorems about CallPipeline for every value of its constants.  The      *)
(* first three hold with any number of workers, retries, crashes,          *)
(* redeliveries and requests, requests arriving while the call is worked   *)
(* on included:                                                            *)
(*   TypeInvariant    rows, workers and messages keep their shape;         *)
(*   ShippedHasReport a shipped call has an analysis and a report;         *)
(*   NoCallIsStuck    a call in flight has someone to finish it.           *)
(* The others hold for as long as only one worker is at the call and no    *)
(* request is served meanwhile (OneAtATime), which OneWorkerKeepsAll       *)
(* derives from the constants: what is finished is consistent, what is     *)
(* cancelled or shipped is left alone, and the pipeline implements         *)
(* CallLifecycle.                                                          *)
(***************************************************************************)
EXTENDS CallPipeline, TLAPS

-----------------------------------------------------------------------------
(* The row operators keep the shape of a row.                              *)

LEMMA MovedType ==
  ASSUME NEW call \in CallRow, NEW target \in CallStatus,
         NEW kind \in FailureKind \cup {None}
  PROVE  Moved(call, target, kind) \in CallRow
BY DEF Moved, CallRow, TERMINAL_CALL_STATUSES

LEMMA FlushedType ==
  ASSUME NEW committed \in CallRow, NEW loaded \in CallRow, NEW new \in CallRow
  PROVE  Flushed(committed, loaded, new) \in CallRow
BY DEF Flushed, CallRow

\* A flush changes the status only to the new one, and then only if the session
\* saw another.
LEMMA FlushedStatus ==
  ASSUME NEW committed \in CallRow, NEW loaded \in CallRow, NEW new \in CallRow
  PROVE  Flushed(committed, loaded, new).status =
           IF new.status # loaded.status THEN new.status ELSE committed.status
BY DEF Flushed

LEMMA StatusTypes ==
  /\ TERMINAL_CALL_STATUSES \subseteq CallStatus
  /\ InFlight \subseteq CallStatus
  /\ NewCall \in CallRow
BY DEF TERMINAL_CALL_STATUSES, CallStatus, InFlight, NewCall, CallRow

LEMMA OutcomeType == ASSUME NEW m PROVE Outcome(m) \in {"SHIPPED", "PARTIAL"}
BY DEF Outcome

LEMMA KindType ==
  ASSUME NEW exc \in Exceptions
  PROVE  KindOf[exc] \in FailureKind
BY DEF Exceptions, KindOf, FailureKind

-----------------------------------------------------------------------------
(* Type correctness.  It is inductive together with two facts about a      *)
(* worker: in an error handler it has an exception in hand, whose kind it  *)
(* records, and it retries only below the limit.                           *)

ExceptionInHand ==
  \A w \in Workers : worker[w].pc \in {"handle", "record"} => worker[w].exc \in Exceptions

RetryInBounds ==
  \A w \in Workers : worker[w].pc = "retry" => worker[w].retries < MaxRetries

TypeInv == TypeOK /\ ExceptionInHand /\ RetryInBounds

LEMMA IdleType == Idle \in Worker
<1>1. NewCall \in CallRow /\ 0 \in 0..MaxRetries
  BY StatusTypes, BoundsAssumption
<1> QED BY <1>1 DEF Idle, NoViews, Worker, PC

LEMMA InitType == Init => TypeOK
<1> SUFFICES ASSUME Init PROVE TypeOK
  OBVIOUS
<1>1. row \in CallRow
  BY StatusTypes DEF Init
<1>2. queue \in [0..MaxRetries -> Nat]
  BY DEF Init
<1>3. worker \in [Workers -> Worker]
  BY IdleType DEF Init
<1>4. req \in Request
  BY StatusTypes DEF Init, NoRequest, Request
<1> QED BY <1>1, <1>2, <1>3, <1>4 DEF Init, TypeOK

\* One worker's new local state keeps all workers typed.
LEMMA WorkerType ==
  ASSUME TypeOK, NEW w \in Workers, NEW m \in Worker
  PROVE  [worker EXCEPT ![w] = m] \in [Workers -> Worker]
BY DEF TypeOK

LEMMA SentType ==
  ASSUME TypeOK, NEW n \in 0..MaxRetries
  PROVE  Sent(n) \in [0..MaxRetries -> Nat]
BY DEF TypeOK, Sent

LEMMA GotoType ==
  ASSUME TypeOK, NEW w \in Workers, NEW pc \in PC, Goto(w, pc)
  PROVE  worker' \in [Workers -> Worker]
BY DEF TypeOK, Goto, Worker

LEMMA RaiseType ==
  ASSUME TypeOK, NEW w \in Workers, NEW exc \in Exceptions, Raise(w, exc)
  PROVE  worker' \in [Workers -> Worker]
<1>1. worker[w] \in Worker
  BY DEF TypeOK
<1>2. [worker[w] EXCEPT !.pc = "handle", !.exc = exc] \in Worker
  BY <1>1 DEF Worker, PC
<1> QED BY <1>2 DEF TypeOK, Raise

LEMMA AdvanceType ==
  ASSUME TypeOK, NEW w \in Workers, NEW from, NEW target \in CallStatus, NEW to \in PC,
         Advance(w, from, target, to)
  PROVE  row' \in CallRow /\ worker' \in [Workers -> Worker]
<1> DEFINE new == Moved(worker[w].call, target, None)
<1>1. worker[w] \in Worker /\ worker[w].call \in CallRow /\ row \in CallRow
  BY DEF TypeOK, Worker
<1>2. new \in CallRow
  BY <1>1, MovedType
<1>3. row' \in CallRow
  BY <1>1, <1>2, FlushedType DEF Advance
<1>4. worker' \in [Workers -> Worker]
  <2>1. worker' = [worker EXCEPT ![w].call = new, ![w].pc = to]
    BY DEF Advance
  <2> HIDE DEF new
  <2> QED BY <2>1, <1>1, <1>2 DEF TypeOK, Worker
<1> QED BY <1>3, <1>4

LEMMA WorkerStepType ==
  ASSUME TypeInv, NEW w \in Workers, WorkerStep(w)
  PROVE  TypeOK'
<1> USE DEF envVars, blobVars, budgets, db
<1>t. TypeOK
  BY DEF TypeInv
<1>m. worker[w] \in Worker /\ worker[w].call \in CallRow /\ row \in CallRow
  BY <1>t DEF TypeOK, Worker
<1>1. ASSUME NEW n \in 0..MaxRetries, Begin(w, n) PROVE TypeOK'
  <2>1. queue' \in [0..MaxRetries -> Nat]
    BY <1>t, <1>1 DEF Begin, TypeOK
  <2>2. worker' \in [Workers -> Worker]
    BY <1>t, <1>1, <1>m, IdleType DEF Begin, TypeOK, Worker, PC
  <2> QED BY <1>t, <1>1, <2>1, <2>2 DEF Begin, TypeOK
<1>2. CASE LoadSegments(w)
  <2>1. worker' \in [Workers -> Worker]
    BY <1>t, <1>2, <1>m DEF LoadSegments, SegmentViews, TypeOK, Worker, PC
  <2> QED BY <1>t, <1>2, <2>1 DEF LoadSegments, SegmentViews, TypeOK
<1>3. CASE EnsureQueued(w)
  <2> DEFINE call   == worker[w].call
             failed == IF call.status = "ANALYZING" THEN Moved(call, "FAILED", None) ELSE call
             new    == IF failed.status \in {"CREATED", "UPLOADING", "FAILED"}
                         THEN Moved(failed, "QUEUED", None) ELSE failed
  <2>1. failed \in CallRow
    BY <1>m, MovedType DEF CallStatus
  <2> HIDE DEF failed
  <2>2. new \in CallRow
    BY <2>1, MovedType DEF CallStatus
  <2>3. /\ row' = Flushed(row, call, new)
        /\ worker' = [worker EXCEPT ![w].call = new, ![w].pc = "transcribe"]
    BY <1>3 DEF EnsureQueued, failed
  <2> HIDE DEF new, call
  <2>4. row' \in CallRow
    BY <1>m, <2>2, <2>3, FlushedType DEF call
  <2>5. worker' \in [Workers -> Worker]
    BY <1>t, <1>m, <2>2, <2>3 DEF TypeOK, Worker, PC
  <2> QED BY <1>t, <1>3, <2>4, <2>5 DEF EnsureQueued, TypeOK
<1>4. CASE StartTranscribe(w)
  <2>1. row' \in CallRow /\ worker' \in [Workers -> Worker]
    <3>1. CASE Advance(w, "transcribe", "TRANSCRIBING", "submit")
      BY <1>t, <3>1, AdvanceType DEF CallStatus, PC
    <3>2. CASE Goto(w, "submit") /\ UNCHANGED row
      BY <1>t, <3>2, <1>m, GotoType DEF PC
    <3>3. CASE Raise(w, "ConflictError") /\ UNCHANGED row
      BY <1>t, <3>3, <1>m, RaiseType DEF Exceptions
    <3> QED BY <1>4, <3>1, <3>2, <3>3 DEF StartTranscribe
  <2> QED BY <1>t, <1>4, <2>1 DEF StartTranscribe, TypeOK
<1>5. CASE SubmitJob(w)
  <2>1. worker' \in [Workers -> Worker]
    BY <1>t, <1>5, GotoType, RaiseType DEF SubmitJob, PC, Exceptions
  <2>2. job' \in {"none", "running", "completed", "failed", "error"}
    BY <1>t, <1>5 DEF SubmitJob, TypeOK
  <2> QED BY <1>t, <1>5, <2>1, <2>2 DEF SubmitJob, TypeOK
<1>6. CASE SaveJob(w)
  <2> DEFINE new == [worker[w].call EXCEPT !.job = TRUE]
  <2>1. new \in CallRow
    BY <1>m DEF CallRow
  <2>2. /\ row' = Flushed(row, worker[w].call, new)
        /\ worker' = [worker EXCEPT ![w].call = new, ![w].pc = "await"]
    BY <1>6 DEF SaveJob
  <2> HIDE DEF new
  <2>3. row' \in CallRow
    BY <1>m, <2>1, <2>2, FlushedType
  <2>4. worker' \in [Workers -> Worker]
    BY <1>t, <1>m, <2>1, <2>2 DEF TypeOK, Worker, PC
  <2> QED BY <1>t, <1>6, <2>3, <2>4 DEF SaveJob, TypeOK
<1>7. CASE AwaitTranscript(w)
  <2>1. worker' \in [Workers -> Worker]
    BY <1>t, <1>7, GotoType, RaiseType DEF AwaitTranscript, PC, Exceptions
  <2> QED BY <1>t, <1>7, <2>1 DEF AwaitTranscript, TypeOK
<1>8. CASE StoreTranscript(w)
  <2>1. gen' \in Nat
    BY <1>t, <1>8 DEF StoreTranscript, NewTranscript, TypeOK
  <2>2. worker' \in [Workers -> Worker]
    BY <1>t, <1>8, <1>m, <2>1 DEF StoreTranscript, NewTranscript, TypeOK, Worker, PC
  <2> QED BY <1>t, <1>8, <2>1, <2>2 DEF StoreTranscript, NewTranscript, TypeOK
<1>9. CASE WaitForRecap(w)
  <2>1. row' \in CallRow /\ worker' \in [Workers -> Worker]
    BY <1>t, <1>9, AdvanceType DEF WaitForRecap, CallStatus, PC
  <2> QED BY <1>t, <1>9, <2>1 DEF WaitForRecap, TypeOK
<1>10. CASE FetchRecap(w)
  <2>1. PICK found \in RecapOutcomes :
          /\ recap' = IF found = "none" THEN recap ELSE found
          /\ worker' = [worker EXCEPT ![w].warn = @ \/ found # "ready", ![w].pc = "analyze"]
    BY <1>10 DEF FetchRecap
  <2>2. recap' \in {None, "ready", "unavailable"}
    BY <1>t, <2>1, ChoicesAssumption DEF TypeOK
  <2> DEFINE warn == worker[w].warn \/ found # "ready"
  <2>3. warn \in BOOLEAN
    OBVIOUS
  <2>4. worker' = [worker EXCEPT ![w] = [worker[w] EXCEPT !.warn = warn, !.pc = "analyze"]]
    BY <2>1
  <2> HIDE DEF warn
  <2>5. worker' \in [Workers -> Worker]
    BY <1>t, <1>m, <2>3, <2>4 DEF TypeOK, Worker, PC
  <2> QED BY <1>t, <1>10, <2>2, <2>5 DEF FetchRecap, TypeOK
<1>11. CASE Analyze(w)
  <2>1. row' \in CallRow /\ worker' \in [Workers -> Worker]
    BY <1>t, <1>11, AdvanceType DEF Analyze, CallStatus, PC
  <2> QED BY <1>t, <1>11, <2>1 DEF Analyze, TypeOK
<1>12. CASE MLDegrades(w)
  <2>1. worker' \in [Workers -> Worker]
    BY <1>t, <1>12, <1>m DEF MLDegrades, At, TypeOK, Worker
  <2> QED BY <1>t, <1>12, <2>1 DEF MLDegrades, TypeOK
<1>13. CASE Validate(w)
  <2>1. row' \in CallRow /\ worker' \in [Workers -> Worker]
    BY <1>t, <1>13, AdvanceType DEF Validate, CallStatus, PC
  <2> QED BY <1>t, <1>13, <2>1 DEF Validate, TypeOK
<1>14. CASE PersistInsights(w)
  <2>1. /\ row' \in CallRow /\ worker' \in [Workers -> Worker]
        /\ run' \in [version : Nat, gen : Nat, roles : Nat, facts : BOOLEAN]
    <3>1. CASE ~Dangling(worker[w])
      <4>1. Advance(w, "insights", "INDEXING", "report")
        BY <1>14, <3>1 DEF PersistInsights, NextRun
      <4>2. run' = [version |-> run.version + 1, gen |-> worker[w].views.gen,
                    roles |-> worker[w].views.roles, facts |-> worker[w].views.gen # 0]
        BY <1>14, <3>1 DEF PersistInsights, NextRun
      <4>3. worker[w].views \in [gen : Nat, roles : Nat]
        BY <1>m DEF Worker
      <4>4. run' \in [version : Nat, gen : Nat, roles : Nat, facts : BOOLEAN]
        BY <1>t, <4>2, <4>3 DEF TypeOK
      <4> QED BY <1>t, <4>1, <4>4, AdvanceType DEF CallStatus, PC
    <3>2. CASE Dangling(worker[w])
      <4>1. Raise(w, "Unexpected") /\ UNCHANGED <<row, run>>
        BY <1>14, <3>2 DEF PersistInsights, NextRun
      <4> QED BY <1>t, <4>1, RaiseType DEF Exceptions, TypeOK
    <3> QED BY <3>1, <3>2
  <2> QED BY <1>t, <1>14, <2>1 DEF PersistInsights, NextRun, TypeOK
<1>15. CASE StoreReport(w)
  <2>1. worker' \in [Workers -> Worker]
    BY <1>t, <1>15, GotoType DEF StoreReport, PC
  <2>2. report' \in {None, "SHIPPED", "PARTIAL"}
    BY <1>15, OutcomeType DEF StoreReport
  <2> QED BY <1>t, <1>15, <2>1, <2>2 DEF StoreReport, TypeOK
<1>16. CASE CommitAnalysis(w)
  <2>1. worker' \in [Workers -> Worker]
    BY <1>t, <1>16, GotoType, RaiseType DEF CommitAnalysis, PC, Exceptions
  <2> QED BY <1>t, <1>16, <2>1 DEF CommitAnalysis, TypeOK
<1>17. CASE BuildReport(w)
  <2>1. row' \in CallRow /\ worker' \in [Workers -> Worker]
    BY <1>t, <1>17, AdvanceType DEF BuildReport, CallStatus, PC
  <2> QED BY <1>t, <1>17, <2>1 DEF BuildReport, TypeOK
<1>18. CASE Ship(w)
  <2>1. Outcome(worker[w]) \in CallStatus
    BY OutcomeType DEF CallStatus
  <2>2. row' \in CallRow /\ worker' \in [Workers -> Worker]
    BY <1>t, <1>18, <2>1, AdvanceType DEF Ship, PC
  <2> QED BY <1>t, <1>18, <2>2 DEF Ship, TypeOK
<1>19. CASE Conflict(w)
  <2>1. worker' \in [Workers -> Worker]
    BY <1>t, <1>19, RaiseType DEF Conflict, Exceptions
  <2> QED BY <1>t, <1>19, <2>1 DEF Conflict, TypeOK
<1>20. CASE StageFails(w)
  <2>1. PICK exc \in MayRaise(worker[w]) \cap Faults : Raise(w, exc)
    BY <1>20 DEF StageFails
  <2>2. exc \in Exceptions
    BY <2>1 DEF MayRaise, Exceptions
  <2>3. worker' \in [Workers -> Worker]
    BY <1>t, <2>1, <2>2, RaiseType
  <2> QED BY <1>t, <1>20, <2>3 DEF StageFails, TypeOK
<1>21. CASE HandleError(w)
  <2>1. worker' \in [Workers -> Worker]
    BY <1>t, <1>21, <1>m DEF HandleError, TypeOK, Worker, PC
  <2> QED BY <1>t, <1>21, <2>1 DEF HandleError, TypeOK
<1>22. CASE RecordFailure(w)
  <2> DEFINE kind   == KindOf[worker[w].exc]
             target == IF kind \in {"RECAP", "ML_INFERENCE"} /\ gen # 0 THEN "PARTIAL" ELSE "FAILED"
  <2>1. worker' \in [Workers -> Worker]
    BY <1>t, <1>22, GotoType DEF RecordFailure, PC
  <2>2. \/ row' = Flushed(row, worker[w].call, Moved(worker[w].call, target, kind))
        \/ row' = row
    BY <1>22 DEF RecordFailure
  <2>3. kind \in FailureKind /\ target \in CallStatus
    BY <1>22, KindType DEF RecordFailure, At, TypeInv, ExceptionInHand, CallStatus
  <2> HIDE DEF kind, target
  <2>4. row' \in CallRow
    BY <1>m, <2>2, <2>3, MovedType, FlushedType
  <2> QED BY <1>t, <1>22, <2>1, <2>4 DEF RecordFailure, TypeOK
<1>23. CASE Retry(w)
  <2>1. worker' \in [Workers -> Worker]
    BY <1>t, <1>23, GotoType DEF Retry, PC
  <2>2. worker[w].retries + 1 \in 0..MaxRetries
    BY <1>m, <1>23, BoundsAssumption DEF Retry, At, TypeInv, RetryInBounds, Worker
  <2>3. queue' \in [0..MaxRetries -> Nat]
    BY <1>t, <1>23, <2>2, SentType DEF Retry
  <2> QED BY <1>t, <1>23, <2>1, <2>3 DEF Retry, TypeOK
<1>24. CASE Ack(w)
  <2>1. worker' \in [Workers -> Worker]
    BY <1>t, <1>24, IdleType DEF Ack, TypeOK
  <2> QED BY <1>t, <1>24, <2>1 DEF Ack, TypeOK
<1> QED BY <1>1, <1>2, <1>3, <1>4, <1>5, <1>6, <1>7, <1>8, <1>9, <1>10, <1>11, <1>12,
           <1>13, <1>14, <1>15, <1>16, <1>17, <1>18, <1>19, <1>20, <1>21, <1>22, <1>23,
           <1>24 DEF WorkerStep

\* The exceptions of the other workers do not change, and the worker that steps
\* comes to a handler only with the exception it raised, to "record" only from
\* "handle", and to "retry" only from "record".
LEMMA WorkerStepLocal ==
  ASSUME TypeInv, NEW w \in Workers, WorkerStep(w)
  PROVE  ExceptionInHand' /\ RetryInBounds'
<1> USE DEF envVars, blobVars, budgets, db
<1>m. worker \in [Workers -> Worker] /\ worker[w] \in Worker
  BY DEF TypeInv, TypeOK
<1>i. ExceptionInHand /\ RetryInBounds
  BY DEF TypeInv
<1>g. ASSUME NEW m, worker' = [worker EXCEPT ![w] = m],
             m.pc \in {"handle", "record"} => m.exc \in Exceptions,
             m.pc = "retry" => m.retries < MaxRetries
      PROVE  ExceptionInHand' /\ RetryInBounds'
  <2>1. \A v \in Workers : worker'[v] = IF v = w THEN m ELSE worker[v]
    BY <1>m, <1>g
  <2> QED BY <2>1, <1>i, <1>g DEF ExceptionInHand, RetryInBounds
<1>p. ASSUME NEW pc, Goto(w, pc), pc \notin {"handle", "record", "retry"}
      PROVE  ExceptionInHand' /\ RetryInBounds'
  <2>1. worker' = [worker EXCEPT ![w] = [worker[w] EXCEPT !.pc = pc]]
    BY <1>p DEF Goto
  <2>2. [worker[w] EXCEPT !.pc = pc].pc = pc
    BY <1>m DEF Worker
  <2> QED BY <2>1, <2>2, <1>p, <1>g
<1>r. ASSUME NEW exc \in Exceptions, Raise(w, exc)
      PROVE  ExceptionInHand' /\ RetryInBounds'
  <2> DEFINE m == [worker[w] EXCEPT !.pc = "handle", !.exc = exc]
  <2>1. worker' = [worker EXCEPT ![w] = m]
    BY <1>r DEF Raise
  <2>2. m.pc = "handle" /\ m.exc = exc
    BY <1>m DEF Worker
  <2> HIDE DEF m
  <2> QED BY <2>1, <2>2, <1>g
<1>a. ASSUME NEW from, NEW target, NEW to, Advance(w, from, target, to),
             to \notin {"handle", "record", "retry"}
      PROVE  ExceptionInHand' /\ RetryInBounds'
  <2> DEFINE new == Moved(worker[w].call, target, None)
             m == [worker[w] EXCEPT !.call = new, !.pc = to]
  <2>1. worker' = [worker EXCEPT ![w] = m]
    BY <1>a DEF Advance
  <2>2. m.pc = to
    BY <1>m DEF Worker
  <2> HIDE DEF m
  <2> QED BY <2>1, <2>2, <1>a, <1>g
<1>1. ASSUME NEW n \in 0..MaxRetries, Begin(w, n) PROVE ExceptionInHand' /\ RetryInBounds'
  <2> DEFINE m == [Idle EXCEPT !.retries = n, !.call = row,
                    !.pc = IF row.status \in {"CANCELLED", "SHIPPED"} THEN "ack" ELSE "load"]
  <2>1. worker' = [worker EXCEPT ![w] = m]
    BY <1>1 DEF Begin
  <2>2. m.pc \in {"ack", "load"}
    BY DEF Idle
  <2> HIDE DEF m
  <2> QED BY <2>1, <2>2, <1>g
<1>2. CASE LoadSegments(w)
  <2> DEFINE m == [worker[w] EXCEPT !.pc = IF gen # 0 THEN "analyze" ELSE "ensure",
                                    !.views = [gen |-> gen, roles |-> roles],
                                    !.chunks = gen # 0]
  <2>1. worker' = [worker EXCEPT ![w] = m]
    BY <1>2 DEF LoadSegments, SegmentViews
  <2>2. m.pc \in {"analyze", "ensure"}
    BY <1>m DEF Worker
  <2> HIDE DEF m
  <2> QED BY <2>1, <2>2, <1>g
<1>3. CASE EnsureQueued(w)
  <2>1. PICK new : worker' = [worker EXCEPT ![w].call = new, ![w].pc = "transcribe"]
    BY <1>3 DEF EnsureQueued
  <2> DEFINE m == [worker[w] EXCEPT !.call = new, !.pc = "transcribe"]
  <2>2. worker' = [worker EXCEPT ![w] = m]
    BY <2>1
  <2>3. m.pc = "transcribe"
    BY <1>m DEF Worker
  <2> HIDE DEF m
  <2> QED BY <2>2, <2>3, <1>g
<1>4. CASE StartTranscribe(w)
  BY <1>4, <1>a, <1>p, <1>r DEF StartTranscribe, Exceptions
<1>5. CASE SubmitJob(w)
  BY <1>5, <1>p, <1>r DEF SubmitJob, Exceptions
<1>6. CASE SaveJob(w)
  <2>1. PICK new : worker' = [worker EXCEPT ![w].call = new, ![w].pc = "await"]
    BY <1>6 DEF SaveJob
  <2> DEFINE m == [worker[w] EXCEPT !.call = new, !.pc = "await"]
  <2>2. worker' = [worker EXCEPT ![w] = m]
    BY <2>1
  <2>3. m.pc = "await"
    BY <1>m DEF Worker
  <2> HIDE DEF m
  <2> QED BY <2>2, <2>3, <1>g
<1>7. CASE AwaitTranscript(w)
  BY <1>7, <1>p, <1>r DEF AwaitTranscript, Exceptions
<1>8. CASE StoreTranscript(w)
  <2> DEFINE m == [worker[w] EXCEPT !.views = [gen |-> gen', roles |-> roles],
                                    !.chunks = gen' # 0,
                                    !.pc = IF RecapEnabled THEN "wait_recap" ELSE "analyze"]
  <2>1. worker' = [worker EXCEPT ![w] = m]
    BY <1>8 DEF StoreTranscript, NewTranscript
  <2>2. m.pc \in {"wait_recap", "analyze"}
    BY <1>m DEF Worker
  <2> HIDE DEF m
  <2> QED BY <2>1, <2>2, <1>g
<1>10. CASE FetchRecap(w)
  <2>1. PICK warn : worker' = [worker EXCEPT ![w].warn = warn, ![w].pc = "analyze"]
    BY <1>10 DEF FetchRecap
  <2> DEFINE m == [worker[w] EXCEPT !.warn = warn, !.pc = "analyze"]
  <2>2. worker' = [worker EXCEPT ![w] = m]
    BY <2>1
  <2>3. m.pc = "analyze"
    BY <1>m DEF Worker
  <2> HIDE DEF m
  <2> QED BY <2>2, <2>3, <1>g
<1>12. CASE MLDegrades(w)
  <2> DEFINE m == [worker[w] EXCEPT !.warn = TRUE, !.chunks = At(w, "validate")]
  <2>1. worker' = [worker EXCEPT ![w] = m]
    BY <1>12 DEF MLDegrades
  <2>2. m.pc \in {"validate", "report"}
    BY <1>12, <1>m DEF MLDegrades, Worker
  <2> HIDE DEF m
  <2> QED BY <2>1, <2>2, <1>g
<1>14. CASE PersistInsights(w)
  BY <1>14, <1>a, <1>r DEF PersistInsights, NextRun, Exceptions
<1>16. CASE CommitAnalysis(w)
  BY <1>16, <1>p, <1>r DEF CommitAnalysis, Exceptions
<1>20. CASE StageFails(w)
  <2>1. PICK exc \in MayRaise(worker[w]) \cap Faults : Raise(w, exc)
    BY <1>20 DEF StageFails
  <2>2. exc \in Exceptions
    BY <2>1 DEF MayRaise, Exceptions
  <2> QED BY <2>1, <2>2, <1>r
<1>21. CASE HandleError(w)
  <2>1. PICK pc \in {"ack", "record"} : worker' = [worker EXCEPT ![w].call = row, ![w].pc = pc]
    BY <1>21 DEF HandleError
  <2> DEFINE m == [worker[w] EXCEPT !.call = row, !.pc = pc]
  <2>2. worker' = [worker EXCEPT ![w] = m]
    BY <2>1
  <2>3. m.pc = pc /\ m.exc = worker[w].exc
    BY <1>m DEF Worker
  <2>4. worker[w].exc \in Exceptions
    BY <1>21, <1>i DEF HandleError, At, ExceptionInHand
  <2> HIDE DEF m
  <2> QED BY <2>2, <2>3, <2>4, <1>g
<1>22. CASE RecordFailure(w)
  <2>1. PICK pc \in {"retry", "ack"} :
          /\ Goto(w, pc)
          /\ pc = "retry" => worker[w].retries < MaxRetries
    BY <1>22 DEF RecordFailure
  <2> DEFINE m == [worker[w] EXCEPT !.pc = pc]
  <2>2. worker' = [worker EXCEPT ![w] = m]
    BY <2>1 DEF Goto
  <2>3. m.pc = pc /\ m.retries = worker[w].retries
    BY <1>m DEF Worker
  <2> HIDE DEF m
  <2> QED BY <2>1, <2>2, <2>3, <1>g
<1>24. CASE Ack(w)
  <2>1. Idle.pc = "idle"
    BY DEF Idle
  <2> QED BY <1>24, <2>1, <1>g DEF Ack
<1>25. CASE WaitForRecap(w) \/ Analyze(w) \/ Validate(w) \/ BuildReport(w) \/ Ship(w)
  BY <1>25, <1>a DEF WaitForRecap, Analyze, Validate, BuildReport, Ship
<1>26. CASE StoreReport(w) \/ Retry(w)
  BY <1>26, <1>p DEF StoreReport, Retry
<1>27. CASE Conflict(w)
  BY <1>27, <1>r DEF Conflict, Exceptions
<1> QED BY <1>1, <1>2, <1>3, <1>4, <1>5, <1>6, <1>7, <1>8, <1>10, <1>12, <1>14, <1>16,
           <1>20, <1>21, <1>22, <1>24, <1>25, <1>26, <1>27 DEF WorkerStep

\* Worker processes that die, redeliveries, PyAI and its webhook.
BrokerStep(w) == Crash(w) \/ WorkerLost(w) \/ Redeliver(w)

LEMMA BrokerStepType ==
  ASSUME TypeInv, NEW w \in Workers, BrokerStep(w)
  PROVE  TypeInv'
<1> USE DEF budgets, db
<1>t. TypeOK /\ ExceptionInHand /\ RetryInBounds
  BY DEF TypeInv
<1>m. worker \in [Workers -> Worker] /\ worker[w].retries \in 0..MaxRetries
  BY <1>t DEF TypeOK, Worker
<1>1. ASSUME worker' = [worker EXCEPT ![w] = Idle]
      PROVE  worker' \in [Workers -> Worker] /\ ExceptionInHand' /\ RetryInBounds'
  <2>1. \A v \in Workers : worker'[v] = IF v = w THEN Idle ELSE worker[v]
    BY <1>m, <1>1
  <2>2. Idle.pc = "idle"
    BY DEF Idle
  <2>3. worker' \in [Workers -> Worker]
    BY <1>m, <1>1, IdleType
  <2> QED BY <2>1, <2>2, <2>3, <1>t DEF ExceptionInHand, RetryInBounds
<1>2. CASE Crash(w)
  <2>1. queue' \in [0..MaxRetries -> Nat]
    BY <1>2, <1>t, <1>m, SentType DEF Crash
  <2> QED BY <1>1, <1>2, <1>t, <2>1, BoundsAssumption DEF Crash, TypeInv, TypeOK
<1>3. CASE WorkerLost(w)
  BY <1>1, <1>3, <1>t, BoundsAssumption DEF WorkerLost, TypeInv, TypeOK
<1>4. CASE Redeliver(w)
  <2>1. queue' \in [0..MaxRetries -> Nat]
    BY <1>4, <1>t, <1>m, SentType DEF Redeliver
  <2> QED BY <1>4, <1>t, <2>1, BoundsAssumption
          DEF Redeliver, TypeInv, TypeOK, ExceptionInHand, RetryInBounds
<1> QED BY <1>2, <1>3, <1>4 DEF BrokerStep

LEMMA PyAIStepType ==
  ASSUME TypeInv, JobEnds \/ Webhook
  PROVE  TypeInv'
<1> USE DEF budgets, db, envVars, blobVars, TypeInv, ExceptionInHand, RetryInBounds
<1>1. CASE JobEnds
  BY <1>1, ChoicesAssumption DEF JobEnds, TypeOK
<1>2. CASE Webhook
  <2>1. row' \in CallRow
    BY <1>2 DEF Webhook, TypeOK, CallRow
  <2> QED BY <1>2, <2>1 DEF Webhook, TypeOK
<1> QED BY <1>1, <1>2

LEMMA WriteType ==
  ASSUME TypeOK, NEW status \in CallStatus, Write(status)
  PROVE  row' \in CallRow
<1>1. req.seen \in CallRow /\ row \in CallRow
  BY DEF TypeOK, Request
<1>2. Moved(req.seen, status, None) \in CallRow
  BY <1>1, MovedType
<1> QED BY <1>1, <1>2, FlushedType DEF Write

LEMMA ReplyType == NoRequest \in Request
BY StatusTypes DEF NoRequest, Request

LEMMA EnqueueStepType ==
  ASSUME TypeOK, ThenEnqueue
  PROVE  req' \in Request
BY DEF TypeOK, ThenEnqueue, Request

LEMMA ApiStepType ==
  ASSUME TypeInv, ApiStep
  PROVE  TypeInv'
<1> USE DEF budgets, db, apiVars, blobVars
<1>t. TypeOK
  BY DEF TypeInv
<1>w. UNCHANGED worker
  BY DEF ApiStep, Receive, Act, Upload, Process, Reanalyze, Cancel, PatchSpeakers, Reject,
         Enqueue, EnqueueLost
<1>l. ExceptionInHand' /\ RetryInBounds'
  BY <1>w DEF TypeInv, ExceptionInHand, RetryInBounds
<1>s. SUFFICES TypeOK'
  BY <1>l DEF TypeInv
<1>1. ASSUME NEW op \in Ops, Receive(op) PROVE TypeOK'
  <2>1. req' \in Request
    BY <1>1, <1>t, ChoicesAssumption DEF Receive, Request, TypeOK
  <2> QED BY <1>1, <1>t, <2>1 DEF Receive, TypeOK
<1>2. CASE Upload
  <2>1. row' \in CallRow
    BY <1>2, <1>t, WriteType DEF Upload, CallStatus
  <2> QED BY <1>2, <1>t, <2>1, ReplyType DEF Upload, ThenReply, TypeOK
<1>3. CASE Process
  <2>1. row' \in CallRow
    BY <1>3, <1>t, WriteType DEF Process, CallStatus, TypeOK
  <2> QED BY <1>3, <1>t, <2>1, EnqueueStepType DEF Process, TypeOK
<1>4. CASE Reanalyze
  <2>1. row' \in CallRow
    BY <1>4, <1>t, WriteType DEF Reanalyze, CallStatus, TypeOK
  <2> QED BY <1>4, <1>t, <2>1, EnqueueStepType DEF Reanalyze, TypeOK
<1>5. CASE Cancel
  <2>1. row' \in CallRow
    BY <1>5, <1>t, WriteType DEF Cancel, CallStatus
  <2> QED BY <1>5, <1>t, <2>1, ReplyType DEF Cancel, ThenReply, TypeOK
<1>6. CASE PatchSpeakers
  <2>1. row' \in CallRow
    BY <1>6, <1>t, WriteType DEF PatchSpeakers, CallStatus, TypeOK
  <2>3. run' = [run EXCEPT !.facts = FALSE] /\ roles' = roles + 1
    BY <1>6 DEF PatchSpeakers
  <2>4. run \in [version : Nat, gen : Nat, roles : Nat, facts : BOOLEAN] /\ roles \in Nat
    BY <1>t DEF TypeOK
  <2>5. [run EXCEPT !.facts = FALSE] \in [version : Nat, gen : Nat, roles : Nat, facts : BOOLEAN]
    BY <2>4
  <2>6. /\ run' \in [version : Nat, gen : Nat, roles : Nat, facts : BOOLEAN]
        /\ roles' \in Nat
    BY <2>3, <2>4, <2>5
  <2> QED BY <1>6, <1>t, <2>1, <2>6, EnqueueStepType DEF PatchSpeakers, TypeOK
<1>7. CASE Reject
  BY <1>7, <1>t, ReplyType DEF Reject, ThenReply, TypeOK
<1>8. CASE Enqueue
  <2>1. queue' \in [0..MaxRetries -> Nat]
    BY <1>8, <1>t, BoundsAssumption, SentType DEF Enqueue
  <2> QED BY <1>8, <1>t, <2>1, ReplyType DEF Enqueue, ThenReply, TypeOK
<1>9. CASE EnqueueLost
  BY <1>9, <1>t, ReplyType DEF EnqueueLost, ThenReply, TypeOK
<1> QED BY <1>1, <1>2, <1>3, <1>4, <1>5, <1>6, <1>7, <1>8, <1>9 DEF ApiStep, Act

-----------------------------------------------------------------------------
LEMMA TypeInvInit == Init => TypeInv
<1> SUFFICES ASSUME Init PROVE TypeInv
  OBVIOUS
<1>1. \A w \in Workers : worker[w].pc = "idle"
  BY DEF Init, Idle
<1> QED BY <1>1, InitType DEF TypeInv, ExceptionInHand, RetryInBounds

LEMMA TypeInvStep == TypeInv /\ [Next]_vars => TypeInv'
<1> SUFFICES ASSUME TypeInv, [Next]_vars PROVE TypeInv'
  OBVIOUS
<1>1. ASSUME NEW w \in Workers, WorkerStep(w) PROVE TypeInv'
  BY <1>1, WorkerStepType, WorkerStepLocal DEF TypeInv
<1>2. ASSUME NEW w \in Workers, BrokerStep(w) PROVE TypeInv'
  BY <1>2, BrokerStepType
<1>3. CASE JobEnds \/ Webhook
  BY <1>3, PyAIStepType
<1>4. CASE ApiStep
  BY <1>4, ApiStepType
<1>5. CASE UNCHANGED vars
  BY <1>5 DEF vars, db, budgets, TypeInv, TypeOK, ExceptionInHand, RetryInBounds
<1> QED BY <1>1, <1>2, <1>3, <1>4, <1>5 DEF Next, BrokerStep

\* The strengthened type invariant holds of every behaviour.
THEOREM TypeInvariant == Spec => []TypeInv
BY TypeInvInit, TypeInvStep, PTL DEF Spec

\* Type correctness of the pipeline: whatever the workers, the broker, PyAI and
\* the clients do, the columns, the queue and the workers' locals keep their
\* types, and no message is ever retried past celery_max_retries.
THEOREM TypeCorrect == Spec => []TypeOK
<1>1. TypeInv => TypeOK
  BY DEF TypeInv
<1> QED BY <1>1, TypeInvariant, PTL

-----------------------------------------------------------------------------
(* What a step does to the worker that takes it, and to the status.        *)

LEMMA GotoFacts ==
  ASSUME TypeOK, NEW w \in Workers, NEW pc, Goto(w, pc)
  PROVE  /\ worker'[w].pc = pc
         /\ \A v \in Workers \ {w} : worker'[v] = worker[v]
BY DEF TypeOK, Goto, Worker

LEMMA RaiseFacts ==
  ASSUME TypeOK, NEW w \in Workers, NEW exc, Raise(w, exc)
  PROVE  /\ worker'[w].pc = "handle"
         /\ worker'[w].exc = exc
         /\ \A v \in Workers \ {w} : worker'[v] = worker[v]
<1>1. worker[w] \in Worker
  BY DEF TypeOK
<1>2. worker' = [worker EXCEPT ![w] = [worker[w] EXCEPT !.pc = "handle", !.exc = exc]]
  BY DEF Raise
<1> QED BY <1>1, <1>2 DEF TypeOK, Worker

\* transition() never stays in a terminal state.
LEMMA LegalTerminal ==
  ASSUME NEW current \in CallStatus, NEW target \in TERMINAL_CALL_STATUSES,
         Legal(current, target)
  PROVE  current # target
<1> SUFFICES ASSUME current = target PROVE FALSE
  OBVIOUS
<1>1. target \in ALLOWED[target]
  BY DEF Legal
<1> QED BY <1>1 DEF ALLOWED, TERMINAL_CALL_STATUSES

\* Every stage of the pipeline may fail.
LEMMA InFlightMayFail ==
  ASSUME NEW status \in InFlight
  PROVE  Legal(status, "FAILED")
<1>1. "FAILED" \in ALLOWED[status]
  BY DEF ALLOWED, InFlight
<1> QED BY <1>1 DEF Legal

LEMMA AdvanceFacts ==
  ASSUME TypeOK, NEW w \in Workers, NEW from, NEW target \in CallStatus, NEW to,
         Advance(w, from, target, to)
  PROVE  /\ row'.status = IF target # worker[w].call.status THEN target ELSE row.status
         /\ worker[w].pc = from
         /\ worker'[w].pc = to
         /\ \A v \in Workers \ {w} : worker'[v] = worker[v]
<1> DEFINE new == Moved(worker[w].call, target, None)
<1>1. worker[w] \in Worker /\ worker[w].call \in CallRow /\ row \in CallRow
  BY DEF TypeOK, Worker
<1>2. new \in CallRow /\ new.status = target
  BY <1>1, MovedType DEF Moved
<1>3. row' = Flushed(row, worker[w].call, new)
  BY DEF Advance
<1>4. worker' = [worker EXCEPT ![w] = [worker[w] EXCEPT !.call = new, !.pc = to]]
  BY DEF Advance
<1> HIDE DEF new
<1>5. row'.status = IF target # worker[w].call.status THEN target ELSE row.status
  BY <1>1, <1>2, <1>3, FlushedStatus
<1>6. worker'[w].pc = to /\ \A v \in Workers \ {w} : worker'[v] = worker[v]
  BY <1>1, <1>4 DEF TypeOK, Worker
<1> QED BY <1>5, <1>6 DEF Advance, At

LEMMA WriteStatus ==
  ASSUME TypeOK, NEW status \in CallStatus, Write(status)
  PROVE  row'.status \in {status, row.status}
<1>1. req.seen \in CallRow /\ row \in CallRow
  BY DEF TypeOK, Request
<1>2. Moved(req.seen, status, None) \in CallRow /\ Moved(req.seen, status, None).status = status
  BY <1>1, MovedType DEF Moved
<1> QED BY <1>1, <1>2, FlushedStatus DEF Write

\* EnsureQueued leaves the status or makes it QUEUED.
LEMMA EnsureQueuedFacts ==
  ASSUME TypeOK, NEW w \in Workers, EnsureQueued(w)
  PROVE  /\ row'.status \in {"QUEUED", row.status}
         /\ worker'[w].pc = "transcribe"
         /\ \A v \in Workers \ {w} : worker'[v] = worker[v]
<1> DEFINE call   == worker[w].call
           failed == IF call.status = "ANALYZING" THEN Moved(call, "FAILED", None) ELSE call
           new    == IF failed.status \in {"CREATED", "UPLOADING", "FAILED"}
                       THEN Moved(failed, "QUEUED", None) ELSE failed
<1>m. worker[w] \in Worker /\ call \in CallRow /\ row \in CallRow
  BY DEF TypeOK, Worker
<1>1. /\ failed \in CallRow
      /\ failed.status = IF call.status = "ANALYZING" THEN "FAILED" ELSE call.status
  BY <1>m, MovedType DEF CallStatus, Moved
<1>3. /\ row' = Flushed(row, call, new)
      /\ worker' = [worker EXCEPT ![w].call = new, ![w].pc = "transcribe"]
  BY DEF EnsureQueued
<1> HIDE DEF failed
<1>2. new \in CallRow /\ new.status \in {"QUEUED", call.status}
  BY <1>1, <1>m, MovedType DEF CallStatus, Moved
<1> HIDE DEF new
<1>4. row'.status \in {"QUEUED", row.status}
  BY <1>m, <1>2, <1>3, FlushedStatus
<1>5. worker' = [worker EXCEPT ![w] = [worker[w] EXCEPT !.call = new, !.pc = "transcribe"]]
  BY <1>3
<1>6. worker'[w].pc = "transcribe" /\ \A v \in Workers \ {w} : worker'[v] = worker[v]
  BY <1>m, <1>5 DEF TypeOK, Worker
<1> QED BY <1>4, <1>6

LEMMA SaveJobFacts ==
  ASSUME TypeOK, NEW w \in Workers, SaveJob(w)
  PROVE  /\ row'.status = row.status
         /\ worker'[w].pc = "await"
         /\ \A v \in Workers \ {w} : worker'[v] = worker[v]
<1> DEFINE new == [worker[w].call EXCEPT !.job = TRUE]
<1>m. worker[w] \in Worker /\ worker[w].call \in CallRow /\ row \in CallRow
  BY DEF TypeOK, Worker
<1>1. new \in CallRow /\ new.status = worker[w].call.status
  BY <1>m DEF CallRow
<1>2. /\ row' = Flushed(row, worker[w].call, new)
      /\ worker' = [worker EXCEPT ![w] = [worker[w] EXCEPT !.call = new, !.pc = "await"]]
  BY DEF SaveJob
<1> HIDE DEF new
<1>3. row'.status = row.status
  BY <1>m, <1>1, <1>2, FlushedStatus
<1>4. worker'[w].pc = "await" /\ \A v \in Workers \ {w} : worker'[v] = worker[v]
  BY <1>m, <1>2 DEF TypeOK, Worker
<1> QED BY <1>3, <1>4

\* The steps that only touch the worker: where it goes.
LEMMA LocalStepFacts ==
  ASSUME TypeOK, NEW w \in Workers
  PROVE  /\ LoadSegments(w) => worker'[w].pc \in {"analyze", "ensure"}
         /\ StoreTranscript(w) => worker'[w].pc \in {"wait_recap", "analyze"}
         /\ FetchRecap(w) => worker'[w].pc = "analyze"
         /\ MLDegrades(w) => worker'[w].pc = worker[w].pc /\ worker[w].pc \in {"validate", "report"}
         /\ LoadSegments(w) \/ StoreTranscript(w) \/ FetchRecap(w) \/ MLDegrades(w)
              => \A v \in Workers \ {w} : worker'[v] = worker[v]
<1>m. worker \in [Workers -> Worker] /\ worker[w] \in Worker
  BY DEF TypeOK
<1>1. ASSUME NEW m, worker' = [worker EXCEPT ![w] = m]
      PROVE  worker'[w] = m /\ \A v \in Workers \ {w} : worker'[v] = worker[v]
  BY <1>m, <1>1
<1>2. ASSUME LoadSegments(w)
      PROVE  /\ worker'[w].pc \in {"analyze", "ensure"}
             /\ \A v \in Workers \ {w} : worker'[v] = worker[v]
  <2> DEFINE m == [worker[w] EXCEPT !.pc = IF gen # 0 THEN "analyze" ELSE "ensure",
                                    !.views = [gen |-> gen, roles |-> roles],
                                    !.chunks = gen # 0]
  <2>1. worker' = [worker EXCEPT ![w] = m]
    BY <1>2 DEF LoadSegments, SegmentViews
  <2>2. m.pc \in {"analyze", "ensure"}
    BY <1>m DEF Worker
  <2> HIDE DEF m
  <2> QED BY <2>1, <2>2, <1>1
<1>3. ASSUME StoreTranscript(w)
      PROVE  /\ worker'[w].pc \in {"wait_recap", "analyze"}
             /\ \A v \in Workers \ {w} : worker'[v] = worker[v]
  <2> DEFINE m == [worker[w] EXCEPT !.views = [gen |-> gen', roles |-> roles],
                                    !.chunks = gen' # 0,
                                    !.pc = IF RecapEnabled THEN "wait_recap" ELSE "analyze"]
  <2>1. worker' = [worker EXCEPT ![w] = m]
    BY <1>3 DEF StoreTranscript, NewTranscript
  <2>2. m.pc \in {"wait_recap", "analyze"}
    BY <1>m DEF Worker
  <2> HIDE DEF m
  <2> QED BY <2>1, <2>2, <1>1
<1>4. ASSUME FetchRecap(w)
      PROVE  worker'[w].pc = "analyze" /\ \A v \in Workers \ {w} : worker'[v] = worker[v]
  <2>1. PICK warn : worker' = [worker EXCEPT ![w].warn = warn, ![w].pc = "analyze"]
    BY <1>4 DEF FetchRecap
  <2> DEFINE m == [worker[w] EXCEPT !.warn = warn, !.pc = "analyze"]
  <2>2. worker' = [worker EXCEPT ![w] = m]
    BY <2>1
  <2>3. m.pc = "analyze"
    BY <1>m DEF Worker
  <2> HIDE DEF m
  <2> QED BY <2>2, <2>3, <1>1
<1>5. ASSUME MLDegrades(w)
      PROVE  /\ worker'[w].pc = worker[w].pc /\ worker[w].pc \in {"validate", "report"}
             /\ \A v \in Workers \ {w} : worker'[v] = worker[v]
  <2> DEFINE m == [worker[w] EXCEPT !.warn = TRUE, !.chunks = At(w, "validate")]
  <2>1. worker' = [worker EXCEPT ![w] = m]
    BY <1>5 DEF MLDegrades
  <2>2. m.pc = worker[w].pc
    BY <1>m DEF Worker
  <2> HIDE DEF m
  <2> QED BY <2>1, <2>2, <1>5, <1>1 DEF MLDegrades
<1> QED BY <1>2, <1>3, <1>4, <1>5

LEMMA BeginFacts ==
  ASSUME TypeOK, NEW w \in Workers, NEW n \in 0..MaxRetries, Begin(w, n)
  PROVE  /\ worker'[w].pc = IF row.status \in {"CANCELLED", "SHIPPED"} THEN "ack" ELSE "load"
         /\ \A v \in Workers \ {w} : worker'[v] = worker[v]
<1> DEFINE pc == IF row.status \in {"CANCELLED", "SHIPPED"} THEN "ack" ELSE "load"
           m == [Idle EXCEPT !.retries = n, !.call = row, !.pc = pc]
<1>1. worker' = [worker EXCEPT ![w] = m]
  BY DEF Begin
<1>2. m.pc = pc
  BY DEF Idle
<1> HIDE DEF m
<1> QED BY <1>1, <1>2 DEF TypeOK

LEMMA HandleErrorFacts ==
  ASSUME TypeOK, NEW w \in Workers, HandleError(w)
  PROVE  /\ \/ worker'[w].pc = "ack" /\ row.status \in {"SHIPPED", "CANCELLED", "PARTIAL"}
            \/ worker'[w].pc = "record" /\ worker'[w].call = row
         /\ worker'[w].exc = worker[w].exc
         /\ worker[w].pc = "handle"
         /\ \A v \in Workers \ {w} : worker'[v] = worker[v]
<1>m. worker \in [Workers -> Worker] /\ worker[w] \in Worker
  BY DEF TypeOK
<1>1. PICK pc \in {"ack", "record"} :
        /\ pc = "ack" => row.status \in {"SHIPPED", "CANCELLED", "PARTIAL"}
        /\ worker' = [worker EXCEPT ![w].call = row, ![w].pc = pc]
  BY DEF HandleError
<1> DEFINE m == [worker[w] EXCEPT !.call = row, !.pc = pc]
<1>2. worker' = [worker EXCEPT ![w] = m]
  BY <1>1
<1>3. m.pc = pc /\ m.call = row /\ m.exc = worker[w].exc
  BY <1>m DEF Worker
<1> HIDE DEF m
<1> QED BY <1>1, <1>2, <1>3, <1>m DEF HandleError, At

\* A worker that gave up a call left it PARTIAL or FAILED, unless that was illegal.
LEMMA RecordFailureFacts ==
  ASSUME TypeInv, NEW w \in Workers, RecordFailure(w)
  PROVE  \E target \in {"PARTIAL", "FAILED"} :
           /\ target = "PARTIAL" => KindOf[worker[w].exc] \in {"RECAP", "ML_INFERENCE"}
           /\ \/ Legal(worker[w].call.status, target) /\ row'.status = target
              \/ ~Legal(worker[w].call.status, target) /\ row' = row
           /\ worker[w].pc = "record"
           /\ worker'[w].pc \in {"retry", "ack"}
           /\ \A v \in Workers \ {w} : worker'[v] = worker[v]
<1> DEFINE m      == worker[w]
           kind   == KindOf[m.exc]
           target == IF kind \in {"RECAP", "ML_INFERENCE"} /\ gen # 0 THEN "PARTIAL" ELSE "FAILED"
           new    == Moved(m.call, target, kind)
<1>m. TypeOK /\ m \in Worker /\ m.call \in CallRow /\ row \in CallRow /\ m.call.status \in CallStatus
  BY DEF TypeInv, TypeOK, Worker, CallRow
<1>1. m.pc = "record"
  BY DEF RecordFailure, At
<1>2. kind \in FailureKind
  BY <1>1, KindType DEF TypeInv, ExceptionInHand
<1>3. PICK pc \in {"retry", "ack"} : Goto(w, pc)
  BY DEF RecordFailure
<1>4. worker'[w].pc \in {"retry", "ack"} /\ \A v \in Workers \ {w} : worker'[v] = worker[v]
  BY <1>m, <1>3, GotoFacts
<1>5. \/ Legal(m.call.status, target) /\ row' = Flushed(row, m.call, new)
      \/ ~Legal(m.call.status, target) /\ row' = row
  BY DEF RecordFailure
<1>6. ASSUME Legal(m.call.status, target), row' = Flushed(row, m.call, new)
      PROVE  row'.status = target
  <2>1. new \in CallRow /\ new.status = target
    BY <1>m, <1>2, MovedType DEF Moved, CallStatus
  <2>2. m.call.status # target
    BY <1>m, <1>6, LegalTerminal DEF TERMINAL_CALL_STATUSES
  <2> HIDE DEF new, target
  <2> QED BY <1>m, <1>6, <2>1, <2>2, FlushedStatus
<1>7. target \in {"PARTIAL", "FAILED"} /\ (target = "PARTIAL" => kind \in {"RECAP", "ML_INFERENCE"})
  OBVIOUS
<1> HIDE DEF target
<1> QED BY <1>1, <1>4, <1>5, <1>6, <1>7

-----------------------------------------------------------------------------
(* A shipped call has an analysis and a report.  The invariant follows the *)
(* worker on its way there: past PersistInsights a run exists, past        *)
(* StoreReport a report does, and nothing takes either away.               *)

Analysed == {"report", "commit", "build", "ship"}
Reported == {"commit", "build", "ship"}

ReportInv ==
  /\ \A w \in Workers : worker[w].pc \in Analysed => run.version > 0
  /\ \A w \in Workers : worker[w].pc \in Reported => report # None
  /\ ShippedIsComplete

\* What one worker's step owes to the invariant.
LEMMA ReportInvKept ==
  ASSUME TypeOK, ReportInv, NEW w \in Workers,
         \A v \in Workers \ {w} : worker'[v] = worker[v],
         run.version > 0 => run'.version > 0,
         report # None => report' # None,
         worker'[w].pc \in Analysed => run'.version > 0,
         worker'[w].pc \in Reported => report' # None,
         row'.status = "SHIPPED" => row.status = "SHIPPED" \/ worker[w].pc = "ship"
  PROVE  ReportInv'
<1>1. \A v \in Workers : worker'[v].pc \in Analysed => run'.version > 0
  BY DEF ReportInv
<1>2. \A v \in Workers : worker'[v].pc \in Reported => report' # None
  BY DEF ReportInv
<1>3. row'.status = "SHIPPED" => run'.version > 0 /\ report' # None
  <2> HAVE row'.status = "SHIPPED"
  <2>1. CASE row.status = "SHIPPED"
    BY <2>1 DEF ReportInv, ShippedIsComplete
  <2>2. CASE worker[w].pc = "ship"
    BY <2>2 DEF ReportInv, Analysed, Reported
  <2> QED BY <2>1, <2>2
<1> QED BY <1>1, <1>2, <1>3 DEF ReportInv, ShippedIsComplete

LEMMA AdvanceReport ==
  ASSUME TypeOK, ReportInv, NEW w \in Workers,
         NEW from, NEW target \in CallStatus \ {"SHIPPED"}, NEW to,
         Advance(w, from, target, to),
         run.version > 0 => run'.version > 0,
         UNCHANGED report,
         to \in Analysed => run'.version > 0,
         to \in Reported => report # None
  PROVE  ReportInv'
<1>1. /\ row'.status = IF target # worker[w].call.status THEN target ELSE row.status
      /\ worker'[w].pc = to
      /\ \A v \in Workers \ {w} : worker'[v] = worker[v]
  BY AdvanceFacts
<1>2. row'.status = "SHIPPED" => row.status = "SHIPPED"
  BY <1>1
<1> QED BY <1>1, <1>2, ReportInvKept

LEMMA WorkerStepReport ==
  ASSUME TypeInv, ReportInv, NEW w \in Workers, WorkerStep(w)
  PROVE  ReportInv'
<1> USE DEF envVars, blobVars, db, Analysed, Reported
<1>t. TypeOK
  BY DEF TypeInv
<1>i. /\ worker[w].pc \in Analysed => run.version > 0
      /\ worker[w].pc \in Reported => report # None
  BY DEF ReportInv
<1>1. ASSUME NEW n \in 0..MaxRetries, Begin(w, n) PROVE ReportInv'
  <2>1. /\ worker'[w].pc \in {"ack", "load"}
        /\ \A v \in Workers \ {w} : worker'[v] = worker[v]
    BY <1>1, <1>t, BeginFacts
  <2> QED BY <1>1, <2>1, <1>t, ReportInvKept DEF Begin
<1>2. CASE LoadSegments(w)
  BY <1>2, <1>t, LocalStepFacts, ReportInvKept DEF LoadSegments
<1>3. CASE EnsureQueued(w)
  BY <1>3, <1>t, EnsureQueuedFacts, ReportInvKept DEF EnsureQueued
<1>4. CASE StartTranscribe(w)
  <2>1. CASE Advance(w, "transcribe", "TRANSCRIBING", "submit")
    BY <1>4, <2>1, <1>t, AdvanceReport DEF StartTranscribe, CallStatus
  <2>2. CASE Goto(w, "submit") /\ UNCHANGED row
    BY <1>4, <2>2, <1>t, GotoFacts, ReportInvKept DEF StartTranscribe
  <2>3. CASE Raise(w, "ConflictError") /\ UNCHANGED row
    BY <1>4, <2>3, <1>t, RaiseFacts, ReportInvKept DEF StartTranscribe
  <2> QED BY <1>4, <2>1, <2>2, <2>3 DEF StartTranscribe
<1>5. CASE SubmitJob(w)
  <2>1. CASE Goto(w, "await") \/ Goto(w, "save_job")
    BY <1>5, <2>1, <1>t, GotoFacts, ReportInvKept DEF SubmitJob
  <2>2. CASE Raise(w, "PyAISubmitFailed")
    BY <1>5, <2>2, <1>t, RaiseFacts, ReportInvKept DEF SubmitJob
  <2> QED BY <1>5, <2>1, <2>2 DEF SubmitJob
<1>6. CASE SaveJob(w)
  BY <1>6, <1>t, SaveJobFacts, ReportInvKept DEF SaveJob
<1>7. CASE AwaitTranscript(w)
  BY <1>7, <1>t, GotoFacts, RaiseFacts, ReportInvKept DEF AwaitTranscript
<1>8. CASE StoreTranscript(w)
  BY <1>8, <1>t, LocalStepFacts, ReportInvKept DEF StoreTranscript
<1>9. CASE WaitForRecap(w)
  BY <1>9, <1>t, AdvanceReport DEF WaitForRecap, CallStatus
<1>10. CASE FetchRecap(w)
  BY <1>10, <1>t, LocalStepFacts, ReportInvKept DEF FetchRecap
<1>11. CASE Analyze(w)
  BY <1>11, <1>t, AdvanceReport DEF Analyze, CallStatus
<1>12. CASE MLDegrades(w)
  BY <1>12, <1>t, <1>i, LocalStepFacts, ReportInvKept DEF MLDegrades
<1>13. CASE Validate(w)
  BY <1>13, <1>t, AdvanceReport DEF Validate, CallStatus
<1>14. CASE PersistInsights(w)
  <2>1. CASE ~Dangling(worker[w])
    <3>1. Advance(w, "insights", "INDEXING", "report") /\ UNCHANGED report
      BY <1>14, <2>1 DEF PersistInsights
    <3>2. run'.version = run.version + 1
      BY <1>14, <2>1 DEF PersistInsights, NextRun
    <3>3. run'.version > 0
      BY <1>t, <3>2 DEF TypeOK
    <3> QED BY <3>1, <3>3, <1>t, AdvanceReport DEF CallStatus
  <2>2. CASE Dangling(worker[w])
    BY <1>14, <2>2, <1>t, RaiseFacts, ReportInvKept DEF PersistInsights
  <2> QED BY <2>1, <2>2
<1>15. CASE StoreReport(w)
  <2>1. report' # None
    BY <1>15, OutcomeType DEF StoreReport, None
  <2> QED BY <1>15, <2>1, <1>t, <1>i, GotoFacts, ReportInvKept DEF StoreReport, At
<1>16. CASE CommitAnalysis(w)
  BY <1>16, <1>t, <1>i, GotoFacts, RaiseFacts, ReportInvKept DEF CommitAnalysis, At
<1>17. CASE BuildReport(w)
  <2>1. worker[w].pc = "build"
    BY <1>17 DEF BuildReport, Advance, At
  <2> QED BY <1>17, <2>1, <1>t, <1>i, AdvanceReport DEF BuildReport, CallStatus
<1>18. CASE Ship(w)
  <2>1. Outcome(worker[w]) \in CallStatus
    BY OutcomeType DEF CallStatus
  <2> QED BY <1>18, <1>t, <2>1, AdvanceFacts, ReportInvKept DEF Ship
<1>19. CASE Conflict(w)
  BY <1>19, <1>t, RaiseFacts, ReportInvKept DEF Conflict
<1>20. CASE StageFails(w)
  BY <1>20, <1>t, RaiseFacts, ReportInvKept DEF StageFails
<1>21. CASE HandleError(w)
  BY <1>21, <1>t, HandleErrorFacts, ReportInvKept DEF HandleError
<1>22. CASE RecordFailure(w)
  BY <1>22, <1>t, RecordFailureFacts, ReportInvKept DEF RecordFailure
<1>23. CASE Retry(w)
  BY <1>23, <1>t, GotoFacts, ReportInvKept DEF Retry
<1>24. CASE Ack(w)
  BY <1>24, <1>t, ReportInvKept DEF Ack, Idle, TypeOK
<1> QED BY <1>1, <1>2, <1>3, <1>4, <1>5, <1>6, <1>7, <1>8, <1>9, <1>10, <1>11, <1>12,
           <1>13, <1>14, <1>15, <1>16, <1>17, <1>18, <1>19, <1>20, <1>21, <1>22, <1>23,
           <1>24 DEF WorkerStep

\* Requests touch neither workers nor reports, and never write SHIPPED.
LEMMA OtherStepReport ==
  ASSUME TypeInv, ReportInv,
         JobEnds \/ Webhook \/ ApiStep \/ UNCHANGED vars
  PROVE  ReportInv'
<1> USE DEF envVars, blobVars, apiVars, budgets, db
<1>t. TypeOK
  BY DEF TypeInv
<1>1. UNCHANGED <<worker, report>>
  BY DEF JobEnds, Webhook, ApiStep, Receive, Act, Upload, Process, Reanalyze, Cancel,
         PatchSpeakers, Reject, Enqueue, EnqueueLost, vars
<1>2. run'.version = run.version
  <2>1. CASE PatchSpeakers
    BY <2>1, <1>t DEF PatchSpeakers, TypeOK
  <2>2. CASE ~PatchSpeakers
    BY <2>2 DEF JobEnds, Webhook, ApiStep, Receive, Act, Upload, Process, Reanalyze, Cancel,
                Reject, Enqueue, EnqueueLost, vars
  <2> QED BY <2>1, <2>2
<1>3. row'.status \in {row.status, "QUEUED", "ANALYZING", "CANCELLED"}
  <2>1. CASE JobEnds \/ Reject \/ Enqueue \/ EnqueueLost \/ (\E op \in Ops : Receive(op)) \/ UNCHANGED vars
    BY <2>1 DEF JobEnds, Reject, Enqueue, EnqueueLost, Receive, vars
  <2>2. CASE Webhook
    BY <2>2, <1>t DEF Webhook, TypeOK, CallRow
  <2>3. CASE Upload
    BY <2>3, <1>t, WriteStatus DEF Upload, CallStatus
  <2>4. CASE Process
    BY <2>4, <1>t, WriteStatus DEF Process, CallStatus
  <2>5. CASE Reanalyze
    BY <2>5, <1>t, WriteStatus DEF Reanalyze, CallStatus
  <2>6. CASE Cancel
    BY <2>6, <1>t, WriteStatus DEF Cancel, CallStatus
  <2>7. CASE PatchSpeakers
    BY <2>7, <1>t, WriteStatus DEF PatchSpeakers, CallStatus
  <2> QED BY <2>1, <2>2, <2>3, <2>4, <2>5, <2>6, <2>7 DEF ApiStep, Act
<1> QED BY <1>1, <1>2, <1>3 DEF ReportInv, ShippedIsComplete

LEMMA BrokerStepFacts ==
  ASSUME TypeInv, NEW w \in Workers, BrokerStep(w)
  PROVE  /\ UNCHANGED <<row, run, report>>
         /\ worker'[w].pc \in {"idle", worker[w].pc}
         /\ \A v \in Workers \ {w} : worker'[v] = worker[v]
BY DEF TypeInv, TypeOK, BrokerStep, Crash, WorkerLost, Redeliver, Idle, db

\* A SHIPPED call has an analysis run and a stored report, whatever other
\* workers, retries, crashes and requests do to the call.
THEOREM ShippedHasReport == Spec => []ShippedIsComplete
<1>1. Init => ReportInv
  BY DEF Init, ReportInv, ShippedIsComplete, NewCall, Idle, Analysed, Reported
<1>2. TypeInv /\ ReportInv /\ [Next]_vars => ReportInv'
  <2> SUFFICES ASSUME TypeInv, ReportInv, [Next]_vars PROVE ReportInv'
    OBVIOUS
  <2>1. ASSUME NEW w \in Workers, WorkerStep(w) PROVE ReportInv'
    BY <2>1, WorkerStepReport
  <2>2. ASSUME NEW w \in Workers, BrokerStep(w) PROVE ReportInv'
    BY <2>2, BrokerStepFacts, ReportInvKept DEF TypeInv, ReportInv, Analysed, Reported
  <2>3. CASE JobEnds \/ Webhook \/ ApiStep \/ UNCHANGED vars
    BY <2>3, OtherStepReport
  <2> QED BY <2>1, <2>2, <2>3 DEF Next, BrokerStep
<1>3. ReportInv => ShippedIsComplete
  BY DEF ReportInv
<1> QED BY <1>1, <1>2, <1>3, TypeInvariant, PTL DEF Spec

-----------------------------------------------------------------------------
(* A call in flight always has someone to finish it.  An invalid ML answer *)
(* is neither retried nor recorded and leaves the call in flight, so the   *)
(* theorem assumes that this error does not strike.                        *)

MLErrors == {"MLServiceUnavailable", "MLResponseInvalid"}

\* The worker will still write the call's status: it is on its way through the
\* stages, or will record a failure that is legal for the status it read.
Carrying(m) ==
  /\ m.pc \notin {"idle", "ack", "retry"}
  /\ m.pc = "record" => Legal(m.call.status, "FAILED")

Someone ==
  \/ \E n \in 0..MaxRetries : queue[n] > 0
  \/ req.step = "enqueue"
  \/ \E w \in Workers : Carrying(worker[w])

StuckInv ==
  /\ \A w \in Workers : worker[w].pc \in {"handle", "record"} => worker[w].exc \notin MLErrors
  /\ row.status \in InFlight /\ ~lost => Someone

\* What a step of one worker owes to the invariant when it sends no message.
LEMMA StuckInvKept ==
  ASSUME TypeOK, StuckInv, NEW w \in Workers,
         \A v \in Workers \ {w} : worker'[v] = worker[v],
         UNCHANGED <<queue, req, lost>>,
         worker'[w].pc \in {"handle", "record"} => worker'[w].exc \notin MLErrors,
         \/ Carrying(worker'[w])
         \/ row'.status \notin InFlight
         \/ row'.status = row.status /\ ~Carrying(worker[w])
  PROVE  StuckInv'
<1>1. \A v \in Workers : worker'[v].pc \in {"handle", "record"} => worker'[v].exc \notin MLErrors
  BY DEF StuckInv
<1>2. ASSUME row'.status \in InFlight, ~lost' PROVE Someone'
  <2>1. CASE Carrying(worker'[w])
    BY <2>1 DEF Someone
  <2>2. CASE row'.status = row.status /\ ~Carrying(worker[w])
    <3>1. Someone
      BY <1>2, <2>2 DEF StuckInv
    <3>2. \A v \in Workers : Carrying(worker[v]) => Carrying(worker'[v])
      BY <2>2
    <3> QED BY <3>1, <3>2 DEF Someone
  <2> QED BY <1>2, <2>1, <2>2
<1> QED BY <1>1, <1>2 DEF StuckInv

\* A worker between two stages carries the call.
LEMMA AdvanceStuck ==
  ASSUME TypeOK, StuckInv, NEW w \in Workers,
         NEW from, NEW target \in CallStatus, NEW to \in PC \ {"idle", "ack", "retry", "handle", "record"},
         Advance(w, from, target, to),
         UNCHANGED <<queue, req, lost>>
  PROVE  StuckInv'
<1>1. worker'[w].pc = to /\ \A v \in Workers \ {w} : worker'[v] = worker[v]
  BY AdvanceFacts
<1>2. Carrying(worker'[w])
  BY <1>1 DEF Carrying
<1> QED BY <1>1, <1>2, StuckInvKept

LEMMA GotoStuck ==
  ASSUME TypeOK, StuckInv, NEW w \in Workers,
         NEW to \in PC \ {"idle", "ack", "retry", "handle", "record"},
         Goto(w, to),
         UNCHANGED <<queue, req, lost>>
  PROVE  StuckInv'
<1>1. worker'[w].pc = to /\ \A v \in Workers \ {w} : worker'[v] = worker[v]
  BY GotoFacts
<1>2. Carrying(worker'[w])
  BY <1>1 DEF Carrying
<1> QED BY <1>1, <1>2, StuckInvKept

LEMMA RaiseStuck ==
  ASSUME TypeOK, StuckInv, NEW w \in Workers, NEW exc, exc \notin MLErrors,
         Raise(w, exc),
         UNCHANGED <<queue, req, lost>>
  PROVE  StuckInv'
<1>1. /\ worker'[w].pc = "handle"
      /\ worker'[w].exc = exc
      /\ \A v \in Workers \ {w} : worker'[v] = worker[v]
  BY RaiseFacts
<1>2. Carrying(worker'[w])
  BY <1>1 DEF Carrying
<1> QED BY <1>1, <1>2, StuckInvKept

LEMMA WorkerStepStuck ==
  ASSUME TypeInv, StuckInv, "MLResponseInvalid" \notin Faults,
         NEW w \in Workers, WorkerStep(w)
  PROVE  StuckInv'
<1> USE DEF envVars, blobVars, db, budgets
<1>t. TypeOK
  BY DEF TypeInv
<1>m. worker[w] \in Worker /\ worker[w].pc \in PC /\ queue \in [0..MaxRetries -> Nat]
  BY DEF TypeOK, Worker, TypeInv
<1>1. ASSUME NEW n \in 0..MaxRetries, Begin(w, n) PROVE StuckInv'
  <2>1. /\ worker'[w].pc = IF row.status \in {"CANCELLED", "SHIPPED"} THEN "ack" ELSE "load"
        /\ \A v \in Workers \ {w} : worker'[v] = worker[v]
    BY <1>1, <1>t, BeginFacts
  <2>2. UNCHANGED row
    BY <1>1 DEF Begin
  <2>3. row'.status \in InFlight => Someone'
    <3> HAVE row'.status \in InFlight
    <3>1. worker'[w].pc = "load"
      BY <2>1, <2>2 DEF InFlight
    <3> QED BY <3>1 DEF Someone, Carrying
  <2> QED BY <2>1, <2>3 DEF StuckInv
<1>2. CASE LoadSegments(w)
  BY <1>2, <1>t, LocalStepFacts, StuckInvKept DEF LoadSegments, Carrying
<1>3. CASE EnsureQueued(w)
  BY <1>3, <1>t, EnsureQueuedFacts, StuckInvKept DEF EnsureQueued, Carrying
<1>4. CASE StartTranscribe(w)
  <2>1. CASE Advance(w, "transcribe", "TRANSCRIBING", "submit")
    BY <1>4, <2>1, <1>t, AdvanceStuck DEF StartTranscribe, CallStatus, PC
  <2>2. CASE Goto(w, "submit") /\ UNCHANGED row
    BY <1>4, <2>2, <1>t, GotoStuck DEF StartTranscribe, PC
  <2>3. CASE Raise(w, "ConflictError") /\ UNCHANGED row
    BY <1>4, <2>3, <1>t, RaiseStuck DEF StartTranscribe, MLErrors
  <2> QED BY <1>4, <2>1, <2>2, <2>3 DEF StartTranscribe
<1>5. CASE SubmitJob(w)
  <2>1. CASE Goto(w, "await")
    BY <1>5, <2>1, <1>t, GotoStuck DEF SubmitJob, PC
  <2>2. CASE Goto(w, "save_job")
    BY <1>5, <2>2, <1>t, GotoStuck DEF SubmitJob, PC
  <2>3. CASE Raise(w, "PyAISubmitFailed")
    BY <1>5, <2>3, <1>t, RaiseStuck DEF SubmitJob, MLErrors
  <2> QED BY <1>5, <2>1, <2>2, <2>3 DEF SubmitJob
<1>6. CASE SaveJob(w)
  BY <1>6, <1>t, SaveJobFacts, StuckInvKept DEF SaveJob, Carrying
<1>7. CASE AwaitTranscript(w)
  <2>1. CASE Goto(w, "store")
    BY <1>7, <2>1, <1>t, GotoStuck DEF AwaitTranscript, PC
  <2>2. CASE Raise(w, "PyAIJobFailed")
    BY <1>7, <2>2, <1>t, RaiseStuck DEF AwaitTranscript, MLErrors
  <2> QED BY <1>7, <2>1, <2>2 DEF AwaitTranscript
<1>8. CASE StoreTranscript(w)
  BY <1>8, <1>t, LocalStepFacts, StuckInvKept DEF StoreTranscript, Carrying
<1>9. CASE WaitForRecap(w)
  BY <1>9, <1>t, AdvanceStuck DEF WaitForRecap, CallStatus, PC
<1>10. CASE FetchRecap(w)
  BY <1>10, <1>t, LocalStepFacts, StuckInvKept DEF FetchRecap, Carrying
<1>11. CASE Analyze(w)
  BY <1>11, <1>t, AdvanceStuck DEF Analyze, CallStatus, PC
<1>12. CASE MLDegrades(w)
  BY <1>12, <1>t, LocalStepFacts, StuckInvKept DEF MLDegrades, Carrying
<1>13. CASE Validate(w)
  BY <1>13, <1>t, AdvanceStuck DEF Validate, CallStatus, PC
<1>14. CASE PersistInsights(w)
  <2>1. CASE ~Dangling(worker[w])
    BY <1>14, <2>1, <1>t, AdvanceStuck DEF PersistInsights, CallStatus, PC
  <2>2. CASE Dangling(worker[w])
    BY <1>14, <2>2, <1>t, RaiseStuck DEF PersistInsights, MLErrors
  <2> QED BY <2>1, <2>2
<1>15. CASE StoreReport(w)
  BY <1>15, <1>t, GotoStuck DEF StoreReport, PC
<1>16. CASE CommitAnalysis(w)
  <2>1. CASE Goto(w, "build")
    BY <1>16, <2>1, <1>t, GotoStuck DEF CommitAnalysis, PC
  <2>2. CASE Raise(w, "Unexpected")
    BY <1>16, <2>2, <1>t, RaiseStuck DEF CommitAnalysis, MLErrors
  <2> QED BY <1>16, <2>1, <2>2 DEF CommitAnalysis
<1>17. CASE BuildReport(w)
  BY <1>17, <1>t, AdvanceStuck DEF BuildReport, CallStatus, PC
<1>18. CASE Ship(w)
  <2> DEFINE target == Outcome(worker[w])
  <2>1. target \in {"SHIPPED", "PARTIAL"} /\ Legal(worker[w].call.status, target)
    BY <1>18, OutcomeType DEF Ship, Advance
  <2>2. worker[w].call.status # target
    BY <2>1, <1>m, LegalTerminal DEF Worker, CallRow, TERMINAL_CALL_STATUSES
  <2>3. Advance(w, "ship", target, "ack") /\ UNCHANGED <<queue, req, lost>>
    BY <1>18 DEF Ship
  <2> HIDE DEF target
  <2>a. target \in CallStatus
    BY <2>1 DEF CallStatus
  <2>4. /\ row'.status = IF target # worker[w].call.status THEN target ELSE row.status
        /\ worker'[w].pc = "ack"
        /\ \A v \in Workers \ {w} : worker'[v] = worker[v]
    BY <2>a, <2>3, <1>t, AdvanceFacts
  <2>5. row'.status \notin InFlight
    BY <2>1, <2>2, <2>4 DEF InFlight
  <2> QED BY <2>3, <2>4, <2>5, <1>t, StuckInvKept
<1>19. CASE Conflict(w)
  BY <1>19, <1>t, RaiseStuck DEF Conflict, MLErrors
<1>20. CASE StageFails(w)
  <2>1. PICK exc \in MayRaise(worker[w]) \cap Faults : Raise(w, exc)
    BY <1>20 DEF StageFails
  <2>2. exc \notin MLErrors
    <3>1. "MLServiceUnavailable" \notin MayRaise(worker[w])
      BY DEF MayRaise
    <3> QED BY <3>1, <2>1 DEF MLErrors
  <2> QED BY <1>20, <2>1, <2>2, <1>t, RaiseStuck DEF StageFails
<1>21. CASE HandleError(w)
  <2>1. /\ \/ worker'[w].pc = "ack" /\ row.status \in {"SHIPPED", "CANCELLED", "PARTIAL"}
           \/ worker'[w].pc = "record" /\ worker'[w].call = row
        /\ worker'[w].exc \notin MLErrors
        /\ \A v \in Workers \ {w} : worker'[v] = worker[v]
    BY <1>21, <1>t, HandleErrorFacts DEF StuckInv
  <2>2. UNCHANGED <<row, queue, req, lost>>
    BY <1>21 DEF HandleError
  <2>3. CASE row.status \in InFlight
    <3>1. worker'[w].pc = "record" /\ worker'[w].call = row
      BY <2>1, <2>3 DEF InFlight
    <3>2. Carrying(worker'[w])
      BY <3>1, <2>3, InFlightMayFail DEF Carrying
    <3> QED BY <3>2, <2>1, <2>2, <1>t, StuckInvKept
  <2>4. CASE row.status \notin InFlight
    BY <2>4, <2>1, <2>2, <1>t, StuckInvKept
  <2> QED BY <2>3, <2>4
<1>22. CASE RecordFailure(w)
  <2>1. PICK target \in {"PARTIAL", "FAILED"} :
           /\ target = "PARTIAL" => KindOf[worker[w].exc] \in {"RECAP", "ML_INFERENCE"}
           /\ \/ Legal(worker[w].call.status, target) /\ row'.status = target
              \/ ~Legal(worker[w].call.status, target) /\ row' = row
           /\ worker[w].pc = "record"
           /\ worker'[w].pc \in {"retry", "ack"}
           /\ \A v \in Workers \ {w} : worker'[v] = worker[v]
    BY <1>22, RecordFailureFacts
  <2>2. worker[w].exc \in Exceptions /\ worker[w].exc \notin MLErrors
    BY <2>1, <1>m DEF TypeInv, ExceptionInHand, StuckInv, Worker
  <2>3. target = "FAILED"
    BY <2>1, <2>2 DEF KindOf, Exceptions, MLErrors
  <2>4. row'.status \notin InFlight \/ (row'.status = row.status /\ ~Carrying(worker[w]))
    BY <2>1, <2>3 DEF InFlight, Carrying
  <2>5. UNCHANGED <<queue, req, lost>>
    BY <1>22 DEF RecordFailure
  <2> QED BY <2>1, <2>4, <2>5, <1>t, StuckInvKept
<1>23. CASE Retry(w)
  <2>1. worker'[w].pc = "ack" /\ \A v \in Workers \ {w} : worker'[v] = worker[v]
    BY <1>23, <1>t, GotoFacts DEF Retry
  <2>2. worker[w].retries + 1 \in 0..MaxRetries
    BY <1>23, <1>m, BoundsAssumption DEF TypeInv, RetryInBounds, Retry, At, Worker
  <2>3. queue'[worker[w].retries + 1] = queue[worker[w].retries + 1] + 1
    BY <1>23, <2>2, <1>m DEF Retry, Sent
  <2>4. queue'[worker[w].retries + 1] > 0
    BY <2>2, <2>3, <1>m
  <2>5. Someone'
    BY <2>2, <2>4 DEF Someone
  <2> QED BY <2>1, <2>5 DEF StuckInv
<1>24. CASE Ack(w)
  <2>1. /\ worker[w].pc = "ack" /\ worker'[w].pc = "idle"
        /\ \A v \in Workers \ {w} : worker'[v] = worker[v]
        /\ UNCHANGED <<row, queue, req, lost>>
    BY <1>24, <1>t DEF Ack, At, Idle, TypeOK
  <2> QED BY <2>1, <1>t, StuckInvKept DEF Carrying
<1> QED BY <1>1, <1>2, <1>3, <1>4, <1>5, <1>6, <1>7, <1>8, <1>9, <1>10, <1>11, <1>12,
           <1>13, <1>14, <1>15, <1>16, <1>17, <1>18, <1>19, <1>20, <1>21, <1>22, <1>23,
           <1>24 DEF WorkerStep

\* A crash and a visibility timeout put the message back; a lost worker is the
\* exception the invariant makes.
LEMMA BrokerStepStuck ==
  ASSUME TypeInv, StuckInv, NEW w \in Workers, BrokerStep(w)
  PROVE  StuckInv'
<1>m. /\ worker \in [Workers -> Worker] /\ worker[w].retries \in 0..MaxRetries
      /\ queue \in [0..MaxRetries -> Nat]
  BY DEF TypeInv, TypeOK, Worker
<1>1. \A v \in Workers : worker'[v].pc \in {"handle", "record"} => worker'[v].exc \notin MLErrors
  <2>1. \A v \in Workers : worker'[v] = worker[v] \/ worker'[v].pc = "idle"
    BY <1>m DEF BrokerStep, Crash, WorkerLost, Redeliver, Idle
  <2> QED BY <2>1 DEF StuckInv
<1>2. CASE WorkerLost(w)
  BY <1>1, <1>2 DEF WorkerLost, StuckInv
<1>3. CASE Crash(w) \/ Redeliver(w)
  <2>1. queue' = [queue EXCEPT ![worker[w].retries] = @ + 1]
    BY <1>3 DEF Crash, Redeliver, Sent
  <2>2. queue'[worker[w].retries] > 0
    BY <2>1, <1>m
  <2> QED BY <1>1, <2>2, <1>m DEF Someone, StuckInv
<1> QED BY <1>2, <1>3 DEF BrokerStep

\* A request that sends a call back to the pipeline is about to enqueue it.
LEMMA OtherStepStuck ==
  ASSUME TypeInv, StuckInv,
         JobEnds \/ Webhook \/ ApiStep \/ UNCHANGED vars
  PROVE  StuckInv'
<1> USE DEF envVars, blobVars, apiVars, budgets, db
<1>t. TypeOK /\ queue \in [0..MaxRetries -> Nat] /\ 0 \in 0..MaxRetries /\ req \in Request
  BY BoundsAssumption DEF TypeInv, TypeOK
<1>1. UNCHANGED worker
  BY DEF JobEnds, Webhook, ApiStep, Receive, Act, Upload, Process, Reanalyze, Cancel,
         PatchSpeakers, Reject, Enqueue, EnqueueLost, vars
<1>2. \A v \in Workers : worker'[v].pc \in {"handle", "record"} => worker'[v].exc \notin MLErrors
  BY <1>1 DEF StuckInv
<1>3. ASSUME row'.status \in InFlight => row.status \in InFlight,
             UNCHANGED <<queue, lost>>, req.step # "enqueue" \/ UNCHANGED req
      PROVE  StuckInv'
  BY <1>1, <1>2, <1>3 DEF StuckInv, Someone
<1>4. CASE JobEnds \/ UNCHANGED vars
  BY <1>3, <1>4 DEF JobEnds, vars
<1>5. CASE Webhook
  <2>1. row'.status = row.status
    BY <1>5, <1>t DEF Webhook, TypeOK, CallRow
  <2> QED BY <1>3, <1>5, <2>1 DEF Webhook
<1>6. CASE Reject \/ \E op \in Ops : Receive(op)
  BY <1>3, <1>6 DEF Reject, Receive
<1>7. CASE Upload
  <2>1. row'.status \in {"QUEUED", row.status}
    BY <1>7, <1>t, WriteStatus DEF Upload, CallStatus
  <2> QED BY <1>3, <1>7, <2>1 DEF Upload, Serving, InFlight
<1>8. CASE Cancel
  <2>1. row'.status \in {"CANCELLED", row.status}
    BY <1>8, <1>t, WriteStatus DEF Cancel, CallStatus
  <2> QED BY <1>3, <1>8, <2>1 DEF Cancel, Serving, InFlight
<1>9. CASE Process \/ Reanalyze \/ PatchSpeakers
  <2>1. req' = [req EXCEPT !.step = "enqueue"]
    BY <1>9 DEF Process, Reanalyze, PatchSpeakers, ThenEnqueue
  <2>2. req'.step = "enqueue"
    BY <2>1, <1>t DEF Request
  <2> QED BY <1>2, <2>2 DEF StuckInv, Someone
<1>10. CASE Enqueue
  <2>1. queue'[0] > 0
    BY <1>10, <1>t DEF Enqueue, Sent
  <2> QED BY <1>2, <1>t, <2>1 DEF StuckInv, Someone
<1>11. CASE EnqueueLost
  BY <1>2, <1>11 DEF EnqueueLost, StuckInv
<1> QED BY <1>4, <1>5, <1>6, <1>7, <1>8, <1>9, <1>10, <1>11 DEF ApiStep, Act

\* Short of an invalid ML answer and of a lost message, no call is ever left in
\* the middle of the pipeline with nobody to finish it: for any number of
\* workers, retries, crashes, redeliveries and overlapping requests.
THEOREM NoCallIsStuck ==
  ASSUME "MLResponseInvalid" \notin Faults
  PROVE  Spec => []NoStuckCall
<1>1. Init => StuckInv
  BY DEF Init, StuckInv, NewCall, Idle, InFlight
<1>2. TypeInv /\ StuckInv /\ [Next]_vars => StuckInv'
  <2> SUFFICES ASSUME TypeInv, StuckInv, [Next]_vars PROVE StuckInv'
    OBVIOUS
  <2>1. ASSUME NEW w \in Workers, WorkerStep(w) PROVE StuckInv'
    BY <2>1, WorkerStepStuck
  <2>2. ASSUME NEW w \in Workers, BrokerStep(w) PROVE StuckInv'
    BY <2>2, BrokerStepStuck
  <2>3. CASE JobEnds \/ Webhook \/ ApiStep \/ UNCHANGED vars
    BY <2>3, OtherStepStuck
  <2> QED BY <2>1, <2>2, <2>3 DEF Next, BrokerStep
<1>3. StuckInv => NoStuckCall
  BY DEF StuckInv, Someone, Carrying, NoStuckCall, Quiet, Working, At
<1> QED BY <1>1, <1>2, <1>3, TypeInvariant, PTL DEF Spec

-----------------------------------------------------------------------------
(* One at a time.  Two workers on one call, or a request during a run, may *)
(* break what follows (claim_cancel); as long as neither happens, a call   *)
(* keeps all its promises, however many workers there are and whatever     *)
(* fails, crashes, is lost or is delivered twice.                          *)

Busy(m) == m.pc \notin {"idle", "ack", "retry"}

OneAtATime ==
  /\ \A v, w \in Workers : Busy(worker[v]) /\ Busy(worker[w]) => v = w
  /\ req.step # "idle" => \A w \in Workers : ~Busy(worker[w])

\* Copies of a row that agree but for the job id, which the webhook also writes.
SameCall(a, b) == a.status = b.status /\ a.outcome = b.outcome /\ a.failure = b.failure

\* The statuses a worker may find a call in.
Open == CallStatus \ {"CREATED", "UPLOADING", "SHIPPED", "CANCELLED"}

HasViews == {"wait_recap", "recap", "analyze", "validate", "insights"} \cup Analysed

\* What a busy worker knows of the call at each point of the run: its copy of
\* the row is the row, the status is the one its stage has set, the transcript
\* and roles it read are the stored ones, and what it has written is there.
InPlace(m) ==
  /\ SameCall(m.call, row)
  /\ row.status \in Open
  /\ m.pc \in {"submit", "save_job", "await", "store", "wait_recap"} => row.status = "TRANSCRIBING"
  /\ m.pc = "recap"                      => row.status = "WAITING_FOR_RECAP"
  /\ m.pc = "validate"                   => row.status = "ANALYZING"
  /\ m.pc = "insights"                   => row.status = "VALIDATING"
  /\ m.pc \in {"report", "commit", "build"} => row.status = "INDEXING"
  /\ m.pc = "ship"                       => row.status = "BUILDING_REPORT"
  /\ m.pc \in HasViews                   => m.views.gen = gen /\ m.views.roles = roles
  /\ m.pc \in Analysed                   => run.gen = gen /\ run.roles = roles
  /\ m.pc \in Reported                   => report = Outcome(m)
  /\ m.pc \in {"handle", "record"} /\ m.exc \in MLErrors => row.status = "INDEXING"

\* A call nobody has sent off has not been touched.
NewIsUntouched ==
  /\ row.status # "UPLOADING"
  /\ row.status = "CREATED" => ~Working /\ req.step # "enqueue" /\ gen = 0

AloneInv ==
  /\ \A w \in Workers : Busy(worker[w]) => InPlace(worker[w])
  /\ req.step = "act" => SameCall(req.seen, row)
  /\ NewIsUntouched
  /\ FinishedCallIsConsistent

-----------------------------------------------------------------------------
(* A flush from a fresh copy makes the row that copy.                      *)

LEMMA FlushFresh ==
  ASSUME NEW committed \in CallRow, NEW loaded \in CallRow, NEW new \in CallRow,
         SameCall(loaded, committed)
  PROVE  SameCall(new, Flushed(committed, loaded, new))
BY DEF Flushed, SameCall

LEMMA AdvanceAlone ==
  ASSUME TypeOK, NEW w \in Workers, NEW from, NEW target \in CallStatus, NEW to,
         Advance(w, from, target, to), SameCall(worker[w].call, row)
  PROVE  /\ worker[w].pc = from
         /\ Legal(row.status, target)
         /\ SameCall(worker'[w].call, row')
         /\ row'.status = target
         /\ row'.outcome = IF target \in TERMINAL_CALL_STATUSES THEN target ELSE row.outcome
         /\ worker'[w].pc = to
         /\ worker'[w].views = worker[w].views
         /\ worker'[w].warn = worker[w].warn
         /\ \A v \in Workers \ {w} : worker'[v] = worker[v]
<1> DEFINE new == Moved(worker[w].call, target, None)
<1>1. worker[w] \in Worker /\ worker[w].call \in CallRow /\ row \in CallRow
  BY DEF TypeOK, Worker
<1>2. /\ new \in CallRow
      /\ new.status = target
      /\ new.outcome = IF target \in TERMINAL_CALL_STATUSES THEN target ELSE row.outcome
  BY <1>1, MovedType DEF Moved, SameCall
<1>3. row' = Flushed(row, worker[w].call, new)
  BY DEF Advance
<1>4. worker' = [worker EXCEPT ![w] = [worker[w] EXCEPT !.call = new, !.pc = to]]
  BY DEF Advance
<1> HIDE DEF new
<1>5. SameCall(new, row')
  BY <1>1, <1>2, <1>3, FlushFresh
<1>6. /\ worker'[w].call = new /\ worker'[w].pc = to
      /\ worker'[w].views = worker[w].views /\ worker'[w].warn = worker[w].warn
      /\ \A v \in Workers \ {w} : worker'[v] = worker[v]
  BY <1>1, <1>4 DEF TypeOK, Worker
<1>7. worker[w].pc = from /\ Legal(row.status, target)
  BY DEF Advance, At, SameCall
<1> QED BY <1>2, <1>5, <1>6, <1>7 DEF SameCall

LEMMA GotoAlone ==
  ASSUME TypeOK, NEW w \in Workers, NEW pc, Goto(w, pc)
  PROVE  /\ worker'[w].pc = pc
         /\ worker'[w].call = worker[w].call
         /\ worker'[w].views = worker[w].views
         /\ worker'[w].warn = worker[w].warn
         /\ \A v \in Workers \ {w} : worker'[v] = worker[v]
BY DEF TypeOK, Goto, Worker

LEMMA RaiseAlone ==
  ASSUME TypeOK, NEW w \in Workers, NEW exc, Raise(w, exc)
  PROVE  /\ worker'[w].pc = "handle"
         /\ worker'[w].exc = exc
         /\ worker'[w].call = worker[w].call
         /\ \A v \in Workers \ {w} : worker'[v] = worker[v]
<1>1. worker[w] \in Worker
  BY DEF TypeOK
<1>2. worker' = [worker EXCEPT ![w] = [worker[w] EXCEPT !.pc = "handle", !.exc = exc]]
  BY DEF Raise
<1> QED BY <1>1, <1>2 DEF TypeOK, Worker

\* The worker's own steps without a commit: what they leave on it.
LEMMA LocalAlone ==
  ASSUME TypeOK, NEW w \in Workers
  PROVE  /\ LoadSegments(w) =>
              /\ worker'[w].call = worker[w].call
              /\ worker'[w].views.gen = gen /\ worker'[w].views.roles = roles
         /\ StoreTranscript(w) =>
              /\ worker'[w].call = worker[w].call
              /\ worker'[w].views.gen = gen' /\ worker'[w].views.roles = roles
         /\ FetchRecap(w) \/ MLDegrades(w) =>
              /\ worker'[w].call = worker[w].call
              /\ worker'[w].views = worker[w].views
<1>m. worker \in [Workers -> Worker] /\ worker[w] \in Worker
  BY DEF TypeOK
<1>1. ASSUME LoadSegments(w)
      PROVE  /\ worker'[w].call = worker[w].call
             /\ worker'[w].views.gen = gen /\ worker'[w].views.roles = roles
  <2> DEFINE m == [worker[w] EXCEPT !.pc = IF gen # 0 THEN "analyze" ELSE "ensure",
                                    !.views = [gen |-> gen, roles |-> roles],
                                    !.chunks = gen # 0]
  <2>1. worker' = [worker EXCEPT ![w] = m]
    BY <1>1 DEF LoadSegments, SegmentViews
  <2>2. m.call = worker[w].call /\ m.views = [gen |-> gen, roles |-> roles]
    BY <1>m DEF Worker
  <2> HIDE DEF m
  <2> QED BY <2>1, <2>2, <1>m
<1>2. ASSUME StoreTranscript(w)
      PROVE  /\ worker'[w].call = worker[w].call
             /\ worker'[w].views.gen = gen' /\ worker'[w].views.roles = roles
  <2> DEFINE m == [worker[w] EXCEPT !.views = [gen |-> gen', roles |-> roles],
                                    !.chunks = gen' # 0,
                                    !.pc = IF RecapEnabled THEN "wait_recap" ELSE "analyze"]
  <2>1. worker' = [worker EXCEPT ![w] = m]
    BY <1>2 DEF StoreTranscript, NewTranscript
  <2>2. m.call = worker[w].call /\ m.views = [gen |-> gen', roles |-> roles]
    BY <1>m DEF Worker
  <2> HIDE DEF m
  <2> QED BY <2>1, <2>2, <1>m
<1>3. ASSUME FetchRecap(w)
      PROVE  worker'[w].call = worker[w].call /\ worker'[w].views = worker[w].views
  <2>1. PICK warn : worker' = [worker EXCEPT ![w].warn = warn, ![w].pc = "analyze"]
    BY <1>3 DEF FetchRecap
  <2> QED BY <2>1, <1>m DEF Worker
<1>4. ASSUME MLDegrades(w)
      PROVE  worker'[w].call = worker[w].call /\ worker'[w].views = worker[w].views
  BY <1>4, <1>m DEF MLDegrades, Worker
<1> QED BY <1>1, <1>2, <1>3, <1>4

\* EnsureQueued from a fresh copy.
LEMMA EnsureQueuedAlone ==
  ASSUME TypeOK, NEW w \in Workers, EnsureQueued(w), SameCall(worker[w].call, row)
  PROVE  /\ SameCall(worker'[w].call, row')
         /\ \/ row'.status = row.status /\ row'.outcome = row.outcome
            \/ row.status \in {"CREATED", "UPLOADING", "FAILED", "ANALYZING"} /\ row'.status = "QUEUED"
<1> DEFINE call   == worker[w].call
           failed == IF call.status = "ANALYZING" THEN Moved(call, "FAILED", None) ELSE call
           new    == IF failed.status \in {"CREATED", "UPLOADING", "FAILED"}
                       THEN Moved(failed, "QUEUED", None) ELSE failed
<1>m. worker[w] \in Worker /\ call \in CallRow /\ row \in CallRow
  BY DEF TypeOK, Worker
<1>1. /\ failed \in CallRow
      /\ failed.status = IF call.status = "ANALYZING" THEN "FAILED" ELSE call.status
      /\ call.status # "ANALYZING" => failed = call
  BY <1>m, MovedType DEF CallStatus, Moved
<1>3. /\ row' = Flushed(row, call, new)
      /\ worker' = [worker EXCEPT ![w] = [worker[w] EXCEPT !.call = new, !.pc = "transcribe"]]
  BY DEF EnsureQueued
<1> HIDE DEF failed
<1>2. /\ new \in CallRow
      /\ \/ new = call
         \/ call.status \in {"CREATED", "UPLOADING", "FAILED", "ANALYZING"} /\ new.status = "QUEUED"
  BY <1>1, <1>m, MovedType DEF CallStatus, Moved
<1> HIDE DEF new
<1>4. SameCall(new, row')
  BY <1>m, <1>2, <1>3, FlushFresh
<1>5. worker'[w].call = new
  BY <1>m, <1>3 DEF TypeOK, Worker
<1> QED BY <1>2, <1>4, <1>5 DEF SameCall

LEMMA SaveJobAlone ==
  ASSUME TypeOK, NEW w \in Workers, SaveJob(w), SameCall(worker[w].call, row)
  PROVE  SameCall(worker'[w].call, row') /\ SameCall(row, row')
<1> DEFINE new == [worker[w].call EXCEPT !.job = TRUE]
<1>m. worker[w] \in Worker /\ worker[w].call \in CallRow /\ row \in CallRow
  BY DEF TypeOK, Worker
<1>1. new \in CallRow /\ SameCall(new, worker[w].call)
  BY <1>m DEF CallRow, SameCall
<1>2. /\ row' = Flushed(row, worker[w].call, new)
      /\ worker' = [worker EXCEPT ![w] = [worker[w] EXCEPT !.call = new, !.pc = "await"]]
  BY DEF SaveJob
<1> HIDE DEF new
<1>3. SameCall(new, row')
  BY <1>m, <1>1, <1>2, FlushFresh
<1>4. worker'[w].call = new
  BY <1>m, <1>2 DEF TypeOK, Worker
<1> QED BY <1>1, <1>3, <1>4 DEF SameCall

\* A stage that ends in a stage of the pipeline keeps the worker in place.
LEMMA AdvanceInPlace ==
  ASSUME TypeOK, NEW w \in Workers, NEW from, NEW target \in InFlight, NEW to,
         Advance(w, from, target, to), InPlace(worker[w]),
         UNCHANGED <<gen, roles, report>>,
         <<target, to>> \in {<<"TRANSCRIBING", "submit">>, <<"WAITING_FOR_RECAP", "recap">>,
                             <<"ANALYZING", "validate">>, <<"VALIDATING", "insights">>,
                             <<"INDEXING", "report">>, <<"BUILDING_REPORT", "ship">>},
         to \in HasViews => from \in HasViews,
         to \in Analysed => run'.gen = gen /\ run'.roles = roles,
         to \in Reported => from \in Reported
  PROVE  InPlace(worker[w])' /\ row'.status = target
<1>1. /\ worker[w].pc = from
      /\ SameCall(worker'[w].call, row')
      /\ row'.status = target
      /\ worker'[w].pc = to
      /\ worker'[w].views = worker[w].views
      /\ worker'[w].warn = worker[w].warn
  BY StatusTypes, AdvanceAlone DEF InPlace
<1>2. row'.status \in Open
  BY <1>1 DEF Open, InFlight, CallStatus
<1>3. to \in HasViews => worker'[w].views.gen = gen' /\ worker'[w].views.roles = roles'
  BY <1>1 DEF InPlace
<1>4. to \in Reported => report' = Outcome(worker'[w])
  BY <1>1 DEF InPlace, Outcome
<1> QED BY <1>1, <1>2, <1>3, <1>4 DEF InPlace, Analysed, Reported

\* A worker that raises keeps what its copy says.
LEMMA RaiseInPlace ==
  ASSUME TypeOK, NEW w \in Workers, NEW exc, Raise(w, exc), InPlace(worker[w]),
         UNCHANGED row,
         exc \in MLErrors => row.status = "INDEXING"
  PROVE  InPlace(worker[w])'
<1>1. /\ worker'[w].pc = "handle"
      /\ worker'[w].exc = exc
      /\ worker'[w].call = worker[w].call
  BY RaiseAlone
<1> QED BY <1>1 DEF InPlace, HasViews, Analysed, Reported

LEMMA FinishedKept ==
  ASSUME FinishedCallIsConsistent, UNCHANGED <<gen, roles, run, report>>,
         SameCall(row', row)
  PROVE  FinishedCallIsConsistent'
BY DEF FinishedCallIsConsistent, SameCall

LEMMA WorkingIsConsistent ==
  ASSUME row'.status \notin Finished
  PROVE  FinishedCallIsConsistent'
BY DEF FinishedCallIsConsistent

\* What the step of a busy worker leaves.
Kept(w) ==
  /\ Busy(worker[w])' => InPlace(worker[w])'
  /\ row'.status \notin {"CREATED", "UPLOADING"}
  /\ FinishedCallIsConsistent'

LEMMA StageKept ==
  ASSUME NEW w \in Workers, InPlace(worker[w])', row'.status \in InFlight
  PROVE  Kept(w)
BY WorkingIsConsistent DEF Kept, InFlight, Finished

LEMMA StillKept ==
  ASSUME NEW w \in Workers, InPlace(worker[w]), FinishedCallIsConsistent,
         Busy(worker[w])' => InPlace(worker[w])',
         UNCHANGED <<gen, roles, run, report>>, SameCall(row', row)
  PROVE  Kept(w)
BY FinishedKept DEF Kept, InPlace, Open, SameCall

LEMMA BusyStepAlone ==
  ASSUME TypeInv, NEW w \in Workers, Busy(worker[w]), InPlace(worker[w]),
         FinishedCallIsConsistent, WorkerStep(w)
  PROVE  Kept(w)
<1> USE DEF envVars, blobVars, db
<1>t. TypeOK
  BY DEF TypeInv
<1>m. worker[w] \in Worker /\ worker[w].call \in CallRow /\ row \in CallRow
  BY <1>t DEF TypeOK, Worker
<1>c. SameCall(worker[w].call, row)
  BY DEF InPlace
<1>s. SameCall(row, row)
  BY DEF SameCall
<1>1. ASSUME NEW n \in 0..MaxRetries, Begin(w, n) PROVE Kept(w)
  BY <1>1 DEF Begin, At, Busy
<1>2. CASE LoadSegments(w)
  <2>1. InPlace(worker[w])'
    BY <1>2, <1>t, LocalStepFacts, LocalAlone
       DEF InPlace, LoadSegments, At, HasViews, Analysed, Reported, SameCall
  <2> QED BY <1>2, <2>1, <1>s, StillKept DEF LoadSegments
<1>3. CASE EnsureQueued(w)
  <2>1. /\ worker'[w].pc = "transcribe"
        /\ SameCall(worker'[w].call, row')
        /\ \/ row'.status = row.status /\ row'.outcome = row.outcome
           \/ row'.status = "QUEUED"
    BY <1>3, <1>t, <1>c, EnsureQueuedFacts, EnsureQueuedAlone
  <2>2. row'.status \in Open
    BY <2>1 DEF InPlace, Open, CallStatus
  <2>3. InPlace(worker[w])'
    BY <2>1, <2>2 DEF InPlace, HasViews, Analysed, Reported
  <2>4. FinishedCallIsConsistent'
    BY <1>3, <2>1 DEF FinishedCallIsConsistent, Finished, EnsureQueued
  <2> QED BY <2>2, <2>3, <2>4 DEF Kept, Open
<1>4. CASE StartTranscribe(w)
  <2>1. CASE Advance(w, "transcribe", "TRANSCRIBING", "submit")
    <3>1. InPlace(worker[w])' /\ row'.status = "TRANSCRIBING"
      BY <1>4, <2>1, <1>t, AdvanceInPlace DEF StartTranscribe, InFlight, HasViews, Analysed, Reported
    <3> QED BY <3>1, StageKept DEF InFlight
  <2>2. CASE worker[w].call.status = "TRANSCRIBING" /\ Goto(w, "submit") /\ UNCHANGED row
    <3>1. InPlace(worker[w])'
      <4>1. /\ worker'[w].pc = "submit" /\ worker'[w].call = worker[w].call
            /\ row' = row /\ row.status = "TRANSCRIBING"
        BY <2>2, <1>t, <1>c, GotoAlone DEF SameCall
      <4> QED BY <4>1 DEF InPlace, HasViews, Analysed, Reported, SameCall
    <3> QED BY <1>4, <2>2, <3>1, <1>s, StillKept DEF StartTranscribe
  <2>3. CASE Raise(w, "ConflictError") /\ UNCHANGED row
    BY <1>4, <2>3, <1>t, <1>s, RaiseInPlace, StillKept DEF StartTranscribe, MLErrors
  <2> QED BY <1>4, <2>1, <2>2, <2>3 DEF StartTranscribe
<1>5. CASE SubmitJob(w)
  <2>1. CASE \E pc \in {"await", "save_job"} : Goto(w, pc)
    <3>1. InPlace(worker[w])'
      BY <1>5, <2>1, <1>t, GotoAlone DEF SubmitJob, At, InPlace, HasViews, Analysed, Reported, SameCall
    <3> QED BY <1>5, <3>1, <1>s, StillKept DEF SubmitJob
  <2>2. CASE Raise(w, "PyAISubmitFailed")
    BY <1>5, <2>2, <1>t, <1>s, RaiseInPlace, StillKept DEF SubmitJob, MLErrors
  <2> QED BY <1>5, <2>1, <2>2 DEF SubmitJob
<1>6. CASE SaveJob(w)
  <2>1. SameCall(worker'[w].call, row') /\ SameCall(row, row') /\ worker'[w].pc = "await"
    BY <1>6, <1>t, <1>c, SaveJobAlone, SaveJobFacts
  <2>2. InPlace(worker[w])'
    BY <1>6, <2>1 DEF SaveJob, At, InPlace, HasViews, Analysed, Reported, SameCall
  <2>3. SameCall(row', row)
    BY <2>1 DEF SameCall
  <2> QED BY <1>6, <2>2, <2>3, StillKept DEF SaveJob
<1>7. CASE AwaitTranscript(w)
  <2>1. CASE Goto(w, "store")
    <3>1. InPlace(worker[w])'
      BY <1>7, <2>1, <1>t, GotoAlone
         DEF AwaitTranscript, At, InPlace, HasViews, Analysed, Reported, SameCall
    <3> QED BY <1>7, <3>1, <1>s, StillKept DEF AwaitTranscript
  <2>2. CASE Raise(w, "PyAIJobFailed")
    BY <1>7, <2>2, <1>t, <1>s, RaiseInPlace, StillKept DEF AwaitTranscript, MLErrors
  <2> QED BY <1>7, <2>1, <2>2 DEF AwaitTranscript
<1>8. CASE StoreTranscript(w)
  <2>1. row.status = "TRANSCRIBING" /\ UNCHANGED <<row, roles>>
    BY <1>8 DEF StoreTranscript, At, InPlace
  <2>2. InPlace(worker[w])'
    BY <1>8, <2>1, <1>t, LocalStepFacts, LocalAlone
       DEF InPlace, HasViews, Analysed, Reported, SameCall
  <2> QED BY <2>1, <2>2, StageKept DEF InFlight
<1>9. CASE WaitForRecap(w)
  <2>1. InPlace(worker[w])' /\ row'.status = "WAITING_FOR_RECAP"
    BY <1>9, <1>t, AdvanceInPlace DEF WaitForRecap, InFlight, HasViews, Analysed, Reported
  <2> QED BY <2>1, StageKept DEF InFlight
<1>10. CASE FetchRecap(w)
  <2>1. InPlace(worker[w])'
    BY <1>10, <1>t, LocalStepFacts, LocalAlone
       DEF FetchRecap, At, InPlace, HasViews, Analysed, Reported, SameCall
  <2> QED BY <1>10, <2>1, <1>s, StillKept DEF FetchRecap
<1>11. CASE Analyze(w)
  <2>1. InPlace(worker[w])' /\ row'.status = "ANALYZING"
    BY <1>11, <1>t, AdvanceInPlace DEF Analyze, InFlight, HasViews, Analysed, Reported
  <2> QED BY <2>1, StageKept DEF InFlight
<1>12. CASE MLDegrades(w)
  <2>1. InPlace(worker[w])'
    BY <1>12, <1>t, LocalStepFacts, LocalAlone
       DEF MLDegrades, InPlace, HasViews, Analysed, Reported, SameCall
  <2> QED BY <1>12, <2>1, <1>s, StillKept DEF MLDegrades
<1>13. CASE Validate(w)
  <2>1. InPlace(worker[w])' /\ row'.status = "VALIDATING"
    BY <1>13, <1>t, AdvanceInPlace DEF Validate, InFlight, HasViews, Analysed, Reported
  <2> QED BY <2>1, StageKept DEF InFlight
<1>14. CASE PersistInsights(w)
  <2>1. CASE ~Dangling(worker[w])
    <3>1. Advance(w, "insights", "INDEXING", "report")
      BY <1>14, <2>1 DEF PersistInsights
    <3>2. run'.gen = gen /\ run'.roles = roles
      BY <1>14, <2>1 DEF PersistInsights, NextRun, Advance, At, InPlace, HasViews
    <3>3. InPlace(worker[w])' /\ row'.status = "INDEXING"
      BY <1>14, <3>1, <3>2, <1>t, AdvanceInPlace
         DEF PersistInsights, InFlight, HasViews, Analysed, Reported
    <3> QED BY <3>3, StageKept DEF InFlight
  <2>2. CASE Dangling(worker[w])
    <3>1. Raise(w, "Unexpected") /\ UNCHANGED <<row, run>>
      BY <1>14, <2>2 DEF PersistInsights
    <3> QED BY <1>14, <3>1, <1>t, <1>s, RaiseInPlace, StillKept DEF PersistInsights, MLErrors
  <2> QED BY <2>1, <2>2
<1>15. CASE StoreReport(w)
  <2>1. row.status = "INDEXING" /\ UNCHANGED row
    BY <1>15 DEF StoreReport, At, InPlace
  <2>2. report' = Outcome(worker'[w])
    BY <1>15, <1>t, GotoAlone DEF StoreReport, Outcome
  <2>3. InPlace(worker[w])'
    BY <1>15, <2>1, <2>2, <1>t, GotoAlone
       DEF StoreReport, At, InPlace, HasViews, Analysed, Reported, SameCall
  <2> QED BY <2>1, <2>3, StageKept DEF InFlight
<1>16. CASE CommitAnalysis(w)
  <2>1. CASE Goto(w, "build")
    <3>1. InPlace(worker[w])'
      BY <1>16, <2>1, <1>t, GotoAlone
         DEF CommitAnalysis, At, InPlace, HasViews, Analysed, Reported, SameCall, Outcome
    <3> QED BY <1>16, <3>1, <1>s, StillKept DEF CommitAnalysis
  <2>2. CASE Raise(w, "Unexpected")
    BY <1>16, <2>2, <1>t, <1>s, RaiseInPlace, StillKept DEF CommitAnalysis, MLErrors
  <2> QED BY <1>16, <2>1, <2>2 DEF CommitAnalysis
<1>17. CASE BuildReport(w)
  <2>1. InPlace(worker[w])' /\ row'.status = "BUILDING_REPORT"
    BY <1>17, <1>t, AdvanceInPlace
       DEF BuildReport, Advance, At, InPlace, InFlight, HasViews, Analysed, Reported
  <2> QED BY <2>1, StageKept DEF InFlight
<1>18. CASE Ship(w)
  <2> DEFINE target == Outcome(worker[w])
  <2>1. target \in {"SHIPPED", "PARTIAL"}
    BY OutcomeType
  <2>a. Advance(w, "ship", target, "ack")
    BY <1>18 DEF Ship
  <2>b. report = Outcome(worker[w]) => report = target
    OBVIOUS
  <2> HIDE DEF target
  <2>2. /\ worker[w].pc = "ship" /\ worker'[w].pc = "ack"
        /\ row'.status = target
        /\ row'.outcome = target
    <3>1. target \in CallStatus /\ target \in TERMINAL_CALL_STATUSES
      BY <2>1 DEF CallStatus, TERMINAL_CALL_STATUSES
    <3> QED BY <2>a, <3>1, <1>t, <1>c, AdvanceAlone
  <2>3. report = target /\ run.gen = gen /\ run.roles = roles
    <3>1. worker[w].pc \in Reported /\ worker[w].pc \in Analysed
      BY <2>2 DEF Reported, Analysed
    <3>2. report = Outcome(worker[w]) /\ run.gen = gen /\ run.roles = roles
      BY <3>1 DEF InPlace
    <3> QED BY <3>2, <2>b
  <2>4. UNCHANGED <<report, gen, roles, run>>
    BY <1>18 DEF Ship
  <2>5. FinishedCallIsConsistent'
    BY <2>2, <2>3, <2>4 DEF FinishedCallIsConsistent
  <2> QED BY <2>1, <2>2, <2>5 DEF Kept, Busy
<1>19. CASE Conflict(w)
  BY <1>19, <1>t, <1>s, RaiseInPlace, StillKept DEF Conflict, MLErrors
<1>20. CASE StageFails(w)
  <2>1. PICK exc \in MayRaise(worker[w]) : Raise(w, exc)
    BY <1>20 DEF StageFails
  <2>2. exc \in MLErrors => worker[w].pc = "report"
    BY <2>1 DEF MayRaise, MLErrors
  <2>3. exc \in MLErrors => row.status = "INDEXING"
    BY <2>2 DEF InPlace
  <2> QED BY <1>20, <2>1, <2>3, <1>t, <1>s, RaiseInPlace, StillKept DEF StageFails
<1>21. CASE HandleError(w)
  <2>1. UNCHANGED row
    BY <1>21 DEF HandleError
  <2>2. ASSUME worker'[w].pc # "ack" PROVE InPlace(worker[w])'
    <3>1. /\ worker'[w].pc = "record" /\ worker'[w].call = row
          /\ worker'[w].exc = worker[w].exc /\ worker[w].pc = "handle"
      BY <1>21, <2>2, <1>t, HandleErrorFacts
    <3> QED BY <3>1, <2>1 DEF InPlace, HasViews, Analysed, Reported, SameCall
  <2> QED BY <1>21, <2>2, <1>s, StillKept DEF HandleError, Busy
<1>22. CASE RecordFailure(w)
  <2>1. PICK target \in {"PARTIAL", "FAILED"} :
           /\ target = "PARTIAL" => KindOf[worker[w].exc] \in {"RECAP", "ML_INFERENCE"}
           /\ \/ Legal(worker[w].call.status, target) /\ row'.status = target
              \/ ~Legal(worker[w].call.status, target) /\ row' = row
           /\ worker[w].pc = "record"
           /\ worker'[w].pc \in {"retry", "ack"}
    BY <1>22, RecordFailureFacts
  <2>2. target = "PARTIAL" => ~Legal(worker[w].call.status, target)
    <3> HAVE target = "PARTIAL"
    <3>1. worker[w].exc \in MLErrors
      BY <2>1 DEF KindOf, MLErrors, TypeInv, ExceptionInHand, Exceptions
    <3>2. row.status = "INDEXING"
      BY <2>1, <3>1 DEF InPlace
    <3> QED BY <3>2, <1>c DEF Legal, ALLOWED, SameCall
  <2>3. CASE row' = row
    BY <1>22, <2>1, <2>3, <1>s, StillKept DEF RecordFailure, Busy
  <2>4. CASE row'.status = "FAILED"
    BY <2>1, <2>4, WorkingIsConsistent DEF Kept, Busy, Finished
  <2> QED BY <2>1, <2>2, <2>3, <2>4
<1>23. CASE Retry(w) \/ Ack(w)
  BY <1>23 DEF Retry, Ack, At, Busy
<1> QED BY <1>1, <1>2, <1>3, <1>4, <1>5, <1>6, <1>7, <1>8, <1>9, <1>10, <1>11, <1>12,
           <1>13, <1>14, <1>15, <1>16, <1>17, <1>18, <1>19, <1>20, <1>21, <1>22, <1>23
           DEF WorkerStep

\* A worker's step touches no other worker and no request.
LEMMA WorkerStepOthers ==
  ASSUME TypeInv, NEW w \in Workers, WorkerStep(w)
  PROVE  /\ \A v \in Workers \ {w} : worker'[v] = worker[v]
         /\ UNCHANGED req
<1>t. worker \in [Workers -> Worker]
  BY DEF TypeInv, TypeOK
<1>1. ASSUME NEW m, worker' = [worker EXCEPT ![w] = m]
      PROVE  \A v \in Workers \ {w} : worker'[v] = worker[v]
  BY <1>t, <1>1
<1>2. \E m : worker' = [worker EXCEPT ![w] = m]
  BY DEF WorkerStep, Begin, LoadSegments, EnsureQueued, StartTranscribe, SubmitJob, SaveJob,
         AwaitTranscript, StoreTranscript, WaitForRecap, FetchRecap, Analyze, MLDegrades, Validate,
         PersistInsights, StoreReport, CommitAnalysis, BuildReport, Ship, Conflict, StageFails,
         HandleError, RecordFailure, Retry, Ack, Advance, Goto, Raise
<1>3. UNCHANGED req
  BY DEF WorkerStep, Begin, LoadSegments, EnsureQueued, StartTranscribe, SubmitJob, SaveJob,
         AwaitTranscript, StoreTranscript, WaitForRecap, FetchRecap, Analyze, MLDegrades, Validate,
         PersistInsights, StoreReport, CommitAnalysis, BuildReport, Ship, Conflict, StageFails,
         HandleError, RecordFailure, Retry, Ack, envVars
<1> QED BY <1>1, <1>2, <1>3

\* A worker at rest only takes a message, retries or acknowledges.
LEMMA RestingSteps ==
  ASSUME TypeInv, NEW w \in Workers, WorkerStep(w), ~Busy(worker[w])
  PROVE  (\E n \in 0..MaxRetries : Begin(w, n)) \/ Retry(w) \/ Ack(w)
BY DEF WorkerStep, Begin, LoadSegments, EnsureQueued, StartTranscribe, SubmitJob, SaveJob,
       AwaitTranscript, StoreTranscript, WaitForRecap, FetchRecap, Analyze, MLDegrades, Validate,
       PersistInsights, StoreReport, CommitAnalysis, BuildReport, Ship, Conflict, StageFails,
       HandleError, RecordFailure, Advance, At, Busy, Target, MayRaise

LEMMA WriteAlone ==
  ASSUME TypeOK, NEW status \in CallStatus, Write(status), SameCall(req.seen, row)
  PROVE  row'.status = status
<1>1. req.seen \in CallRow /\ row \in CallRow
  BY DEF TypeOK, Request
<1>2. Moved(req.seen, status, None) \in CallRow /\ Moved(req.seen, status, None).status = status
  BY <1>1, MovedType DEF Moved
<1> QED BY <1>1, <1>2, FlushFresh DEF Write, SameCall

\* What the five requests make of the status.
LEMMA ActStatus ==
  ASSUME TypeOK, NewIsUntouched, SameCall(req.seen, row), Act
  PROVE  /\ UNCHANGED <<worker, queue, report>>
         /\ req.step = "act" /\ req'.step \in {"idle", "enqueue"}
         /\ \/ /\ UNCHANGED <<row, gen, roles, run>>
               /\ row.status \notin {"CREATED", "UPLOADING", "CANCELLED"}
            \/ /\ UNCHANGED row
               /\ row.status \notin Finished \cup {"CREATED", "UPLOADING"}
               /\ gen' = gen
            \/ /\ row.status = "CREATED" /\ row'.status = "QUEUED"
               /\ UNCHANGED <<gen, roles, run>>
            \/ /\ row.status \in {"SHIPPED", "PARTIAL", "FAILED"}
               /\ row'.status \in {"QUEUED", "ANALYZING"}
               /\ row.status # "FAILED" => row'.status = "ANALYZING"
               /\ gen' = gen
            \/ /\ row.status \notin TERMINAL_CALL_STATUSES \cup {"BUILDING_REPORT"}
               /\ row'.status = "CANCELLED"
               /\ UNCHANGED <<gen, roles, run>>
<1> USE DEF apiVars, blobVars, Serving
<1>t. req \in Request /\ row \in CallRow /\ row.status \in CallStatus /\ req.seen.status = row.status
  BY DEF TypeOK, SameCall, CallRow
<1>r. /\ ThenReply => req'.step = "idle"
      /\ ThenEnqueue => req'.step = "enqueue"
  BY <1>t DEF ThenReply, ThenEnqueue, NoRequest, Request
<1>1. CASE Upload
  <2>1. row.status = "CREATED"
    BY <1>1, <1>t DEF Upload, Legal, ALLOWED, CallStatus, NewIsUntouched
  <2>2. row'.status = "QUEUED"
    BY <1>1, WriteAlone DEF Upload, CallStatus
  <2> QED BY <1>1, <1>r, <2>1, <2>2 DEF Upload
<1>2. CASE Process
  <2>1. CASE row.status = "CREATED"
    <3>1. row'.status = "QUEUED"
      BY <1>2, <1>t, <2>1, WriteAlone DEF Process, CallStatus
    <3> QED BY <1>2, <1>r, <2>1, <3>1 DEF Process
  <2>2. CASE row.status # "CREATED"
    BY <1>2, <1>t, <1>r, <2>2 DEF Process, NewIsUntouched
  <2> QED BY <2>1, <2>2
<1>3. CASE Reanalyze
  <2>1. CASE row.status \in {"QUEUED", "TRANSCRIBING", "WAITING_FOR_RECAP", "ANALYZING"}
    BY <1>3, <1>t, <1>r, <2>1 DEF Reanalyze
  <2>2. CASE row.status = "FAILED" /\ gen = 0
    <3>1. row'.status = "QUEUED"
      BY <1>3, <1>t, <2>2, WriteAlone DEF Reanalyze, CallStatus
    <3> QED BY <1>3, <1>r, <2>2, <3>1 DEF Reanalyze
  <2>3. CASE row.status \in {"SHIPPED", "PARTIAL", "FAILED"} /\ ~(row.status = "FAILED" /\ gen = 0)
    <3>1. row'.status = "ANALYZING"
      BY <1>3, <1>t, <2>3, WriteAlone DEF Reanalyze, CallStatus
    <3> QED BY <1>3, <1>r, <2>3, <3>1 DEF Reanalyze
  <2> QED BY <1>3, <1>t, <2>1, <2>2, <2>3 DEF Reanalyze
<1>4. CASE Cancel
  <2>1. row'.status = "CANCELLED"
    BY <1>4, WriteAlone DEF Cancel, CallStatus
  <2>2. row.status \notin TERMINAL_CALL_STATUSES \cup {"BUILDING_REPORT"}
    BY <1>4, <1>t DEF Cancel, Legal, ALLOWED, TERMINAL_CALL_STATUSES
  <2> QED BY <1>4, <1>r, <2>1, <2>2 DEF Cancel
<1>5. CASE PatchSpeakers
  <2>0. row.status \notin {"CREATED", "UPLOADING"}
    BY <1>5 DEF PatchSpeakers, NewIsUntouched
  <2>1. CASE row.status \in {"SHIPPED", "PARTIAL", "FAILED"}
    <3>1. row'.status = "ANALYZING"
      BY <1>5, <1>t, <2>1, WriteAlone DEF PatchSpeakers, CallStatus
    <3> QED BY <1>5, <1>r, <2>1, <3>1 DEF PatchSpeakers
  <2>2. CASE row.status \notin {"SHIPPED", "PARTIAL", "FAILED"}
    BY <1>5, <1>t, <1>r, <2>0, <2>2 DEF PatchSpeakers, Finished
  <2> QED BY <2>1, <2>2
<1> QED BY <1>1, <1>2, <1>3, <1>4, <1>5 DEF Act

LEMMA WorkerStepAlone ==
  ASSUME TypeInv, AloneInv, OneAtATime, NEW w \in Workers, WorkerStep(w)
  PROVE  AloneInv'
<1> USE DEF db, envVars
<1>o. (\A v \in Workers \ {w} : worker'[v] = worker[v]) /\ UNCHANGED req
  BY WorkerStepOthers
<1>1. CASE Busy(worker[w])
  <2>1. Kept(w)
    BY <1>1, BusyStepAlone DEF AloneInv
  <2>2. \A v \in Workers \ {w} : ~Busy(worker[v]')
    BY <1>1, <1>o DEF OneAtATime
  <2>3. \A v \in Workers : Busy(worker[v])' => InPlace(worker[v])'
    BY <2>1, <2>2 DEF Kept
  <2>4. req'.step # "act"
    BY <1>1, <1>o DEF OneAtATime
  <2> QED BY <2>1, <2>3, <2>4 DEF AloneInv, Kept, NewIsUntouched
<1>2. CASE ~Busy(worker[w])
  <2>0. UNCHANGED <<row, gen, roles, run, report>>
    BY <1>2, RestingSteps DEF Begin, Retry, Ack
  <2>1. Busy(worker[w])' => InPlace(worker[w])'
    <3> SUFFICES ASSUME Busy(worker[w])' PROVE InPlace(worker[w])'
      OBVIOUS
    <3>0. ~Retry(w) /\ ~Ack(w)
      <4>1. Retry(w) => worker'[w].pc = "ack"
        BY GotoAlone DEF Retry, TypeInv
      <4>2. Ack(w) => worker'[w].pc = "idle"
        BY DEF Ack, Idle, TypeInv, TypeOK
      <4> QED BY <4>1, <4>2 DEF Busy
    <3>1. PICK n \in 0..MaxRetries : Begin(w, n)
      BY <1>2, <3>0, RestingSteps
    <3> DEFINE m == [Idle EXCEPT !.retries = n, !.call = row,
                    !.pc = IF row.status \in {"CANCELLED", "SHIPPED"} THEN "ack" ELSE "load"]
    <3>2. worker' = [worker EXCEPT ![w] = m]
      BY <3>1 DEF Begin
    <3>3. /\ m.pc = IF row.status \in {"CANCELLED", "SHIPPED"} THEN "ack" ELSE "load"
          /\ m.call = row
      BY DEF Idle
    <3> HIDE DEF m
    <3>4. worker'[w] = m
      BY <3>2 DEF TypeInv, TypeOK
    <3>5. m.pc = "load" /\ row.status \notin {"CANCELLED", "SHIPPED"}
      BY <3>3, <3>4 DEF Busy
    <3>6. row.status \in CallStatus /\ row.status \notin {"CREATED", "UPLOADING"}
      BY <3>1 DEF TypeInv, TypeOK, CallRow, Begin, AloneInv, NewIsUntouched, Working
    <3>7. worker'[w].pc = "load" /\ worker'[w].call = row /\ row' = row
      BY <3>3, <3>4, <3>5, <2>0
    <3>8. row.status \in Open
      BY <3>5, <3>6 DEF Open
    <3> HIDE DEF m
    <3> QED BY <3>7, <3>8 DEF InPlace, SameCall, HasViews, Analysed, Reported
  <2>2. \A v \in Workers : Busy(worker[v])' => InPlace(worker[v])'
    <3>1. \A v \in Workers : Busy(worker[v]) => InPlace(worker[v])
      BY DEF AloneInv
    <3>2. \A v \in Workers \ {w} : InPlace(worker[v]) => InPlace(worker[v])'
      BY <1>o, <2>0 DEF InPlace, Outcome
    <3>3. \A v \in Workers \ {w} : Busy(worker[v])' => Busy(worker[v])
      BY <1>o DEF Busy
    <3> QED BY <2>1, <3>1, <3>2, <3>3
  <2>3. row.status # "CREATED"
    BY <1>2, RestingSteps DEF Begin, Retry, Ack, At, AloneInv, NewIsUntouched, Working
  <2>4. NewIsUntouched'
    BY <2>0, <2>3 DEF AloneInv, NewIsUntouched
  <2>5. FinishedCallIsConsistent'
    BY <2>0 DEF AloneInv, FinishedCallIsConsistent
  <2>6. req'.step = "act" => SameCall(req'.seen, row')
    BY <2>0, <1>o DEF AloneInv, SameCall
  <2> QED BY <2>2, <2>4, <2>5, <2>6 DEF AloneInv
<1> QED BY <1>1, <1>2

LEMMA BrokerStepAlone ==
  ASSUME TypeInv, AloneInv, NEW w \in Workers, BrokerStep(w)
  PROVE  AloneInv' /\ UNCHANGED <<row, gen, roles, run, report>>
<1>1. UNCHANGED <<row, gen, roles, run, report, req>> /\ ~At(w, "idle")
  BY DEF BrokerStep, Crash, WorkerLost, Redeliver, db
<1>2. \A v \in Workers : worker'[v] = worker[v] \/ worker'[v].pc = "idle"
  BY DEF TypeInv, TypeOK, BrokerStep, Crash, WorkerLost, Redeliver, Idle
<1>3. \A v \in Workers : Busy(worker[v])' => InPlace(worker[v])'
  <2> SUFFICES ASSUME NEW v \in Workers, Busy(worker[v])' PROVE InPlace(worker[v])'
    OBVIOUS
  <2>1. worker'[v] = worker[v]
    BY <1>2 DEF Busy
  <2>2. InPlace(worker[v])
    BY <2>1 DEF AloneInv, Busy
  <2> QED BY <1>1, <2>1, <2>2 DEF InPlace, Outcome
<1>4. row.status # "CREATED"
  BY <1>1 DEF AloneInv, NewIsUntouched, Working
<1> QED BY <1>1, <1>3, <1>4 DEF AloneInv, NewIsUntouched, FinishedCallIsConsistent, SameCall

\* PyAI and the webhook: only the job id changes.
LEMMA PyAIStepAlone ==
  ASSUME TypeInv, AloneInv, JobEnds \/ Webhook \/ UNCHANGED vars
  PROVE  AloneInv' /\ SameCall(row', row) /\ UNCHANGED <<gen, roles, run, report>>
<1> USE DEF db, envVars, blobVars, vars
<1>1. UNCHANGED <<gen, roles, run, report, worker, req, queue>>
  BY DEF JobEnds, Webhook
<1>2. SameCall(row', row)
  BY DEF JobEnds, Webhook, TypeInv, TypeOK, CallRow, SameCall
<1>3. \A v \in Workers : InPlace(worker[v]) => InPlace(worker[v])'
  BY <1>1, <1>2 DEF InPlace, SameCall, Outcome
<1>4. \A v \in Workers : Busy(worker[v])' => InPlace(worker[v])'
  BY <1>1, <1>3 DEF AloneInv, Busy
<1>5. NewIsUntouched'
  BY <1>1, <1>2 DEF AloneInv, NewIsUntouched, SameCall, Working, At
<1>6. FinishedCallIsConsistent'
  BY <1>1, <1>2, FinishedKept DEF AloneInv
<1>7. req'.step = "act" => SameCall(req'.seen, row')
  BY <1>1, <1>2 DEF AloneInv, SameCall
<1> QED BY <1>1, <1>2, <1>4, <1>5, <1>6, <1>7 DEF AloneInv

LEMMA ApiStepAlone ==
  ASSUME TypeInv, AloneInv, OneAtATime, ApiStep
  PROVE  AloneInv'
<1> USE DEF db, apiVars
<1>t. TypeOK
  BY DEF TypeInv
<1>k. ASSUME UNCHANGED <<row, gen, roles, run, report, worker>>,
             req'.step = "act" => SameCall(req'.seen, row),
             row.status = "CREATED" => ~Working' /\ req'.step # "enqueue"
      PROVE  AloneInv'
  <2>1. \A v \in Workers : InPlace(worker[v]) => InPlace(worker[v])'
    BY <1>k DEF InPlace, Outcome
  <2> QED BY <1>k, <2>1 DEF AloneInv, NewIsUntouched, FinishedCallIsConsistent, SameCall, Busy
<1>1. ASSUME NEW op \in Ops, Receive(op) PROVE AloneInv'
  <2>1. req'.step = "act" /\ req'.seen = row /\ UNCHANGED <<row, gen, roles, run, report, worker, queue>>
    BY <1>1 DEF Receive
  <2> QED BY <2>1, <1>k DEF SameCall, AloneInv, NewIsUntouched, Working, At
<1>2. CASE Act
  <2>1. req.step = "act"
    BY <1>2 DEF Act, Upload, Process, Reanalyze, Cancel, PatchSpeakers, Serving
  <2>2. \A v \in Workers : ~Busy(worker[v])
    BY <2>1 DEF OneAtATime
  <2>a. NewIsUntouched /\ SameCall(req.seen, row) /\ FinishedCallIsConsistent
    BY <2>1 DEF AloneInv
  <2>3. UNCHANGED <<worker, queue, report>> /\ req'.step # "act"
    BY <1>2, <1>t, <2>a, ActStatus
  <2>4. \A v \in Workers : ~Busy(worker[v])'
    BY <2>2, <2>3 DEF Busy
  <2>5. row'.status \notin {"CREATED", "UPLOADING"}
    BY <1>2, <1>t, <2>a, ActStatus
  <2>6. FinishedCallIsConsistent'
    BY <1>2, <1>t, <2>a, ActStatus DEF FinishedCallIsConsistent, Finished
  <2> QED BY <2>3, <2>4, <2>5, <2>6 DEF AloneInv, NewIsUntouched
<1>3. CASE Reject
  <2>1. UNCHANGED <<row, gen, roles, run, report, worker, queue>> /\ req'.step = "idle"
    BY <1>3 DEF Reject, ThenReply, NoRequest
  <2> QED BY <2>1, <1>k DEF AloneInv, NewIsUntouched, Working, At
<1>4. CASE Enqueue \/ EnqueueLost
  <2>1. /\ UNCHANGED <<row, gen, roles, run, report, worker>>
        /\ req.step = "enqueue" /\ req'.step = "idle"
    BY <1>4 DEF Enqueue, EnqueueLost, ThenReply, NoRequest
  <2> QED BY <2>1, <1>k DEF AloneInv, NewIsUntouched
<1> QED BY <1>1, <1>2, <1>3, <1>4 DEF ApiStep

LEMMA AloneStep == TypeInv /\ AloneInv /\ OneAtATime /\ [Next]_vars => AloneInv'
<1> SUFFICES ASSUME TypeInv, AloneInv, OneAtATime, [Next]_vars PROVE AloneInv'
  OBVIOUS
<1>1. ASSUME NEW w \in Workers, WorkerStep(w) PROVE AloneInv'
  BY <1>1, WorkerStepAlone
<1>2. ASSUME NEW w \in Workers, BrokerStep(w) PROVE AloneInv'
  BY <1>2, BrokerStepAlone
<1>3. CASE JobEnds \/ Webhook \/ UNCHANGED vars
  BY <1>3, PyAIStepAlone
<1>4. CASE ApiStep
  BY <1>4, ApiStepAlone
<1> QED BY <1>1, <1>2, <1>3, <1>4 DEF Next, BrokerStep

LEMMA AloneInit == Init => AloneInv
BY DEF Init, AloneInv, NewCall, Idle, NoRequest, Busy, NewIsUntouched, Working, At,
       FinishedCallIsConsistent, Finished

LEMMA AloneInvariant == Spec /\ []OneAtATime => []AloneInv
BY AloneInit, AloneStep, TypeInvariant, PTL DEF Spec

\* The promises of a finished call hold as long as nobody interferes.
THEOREM FinishedIsConsistent == Spec /\ []OneAtATime => []FinishedCallIsConsistent
<1>1. AloneInv => FinishedCallIsConsistent
  BY DEF AloneInv
<1> QED BY <1>1, AloneInvariant, PTL

-----------------------------------------------------------------------------
(* What the step of a busy worker makes of the call, as a client sees it.  *)

Unwritten == UNCHANGED <<gen, roles, run, report>>
Current == run.gen = gen /\ (run.facts => run.roles = roles)

Moves ==
  \/ row'.status = row.status /\ Unwritten
  \/ row.status \in InFlight /\ row'.status \in InFlight /\ report' \in Finished \cup {report}
  \/ row.status = "QUEUED" /\ row'.status = "TRANSCRIBING" /\ Unwritten
  \/ row.status \in {"FAILED", "ANALYZING"} /\ row'.status = "QUEUED" /\ Unwritten
  \/ row.status \in {"FAILED", "PARTIAL"} /\ row'.status = "ANALYZING" /\ Unwritten
  \/ /\ row.status \in InFlight /\ row'.status \in Finished
     /\ report = row'.status /\ Current /\ Unwritten
  \/ row.status \in {"QUEUED"} \cup InFlight /\ row'.status = "FAILED" /\ Unwritten

LEMMA BusyStepMoves ==
  ASSUME TypeInv, NEW w \in Workers, Busy(worker[w]), InPlace(worker[w]), WorkerStep(w)
  PROVE  Moves
<1> USE DEF envVars, blobVars, db, Unwritten
<1>t. TypeOK
  BY DEF TypeInv
<1>m. worker[w] \in Worker /\ worker[w].call \in CallRow /\ row \in CallRow /\ row.status \in Open
  BY <1>t DEF TypeOK, Worker, InPlace
<1>c. SameCall(worker[w].call, row)
  BY DEF InPlace
<1>1. ASSUME NEW from, NEW target \in InFlight, NEW to, Advance(w, from, target, to),
             report' = report,
             row.status \in InFlight \/ (Legal(row.status, target) => Moves)
      PROVE  Moves
  <2>1. row'.status = target /\ Legal(row.status, target)
    BY <1>1, <1>t, <1>c, StatusTypes, AdvanceAlone
  <2> QED BY <1>1, <2>1 DEF Moves
<1>2. ASSUME row' = row, Unwritten PROVE Moves
  BY <1>2 DEF Moves
<1>3. CASE EnsureQueued(w)
  BY <1>3, <1>m, <1>t, <1>c, EnsureQueuedAlone DEF EnsureQueued, Moves, Open
<1>4. CASE StartTranscribe(w)
  <2>1. CASE Advance(w, "transcribe", "TRANSCRIBING", "submit") /\ worker[w].call.status = "QUEUED"
    <3>1. row'.status = "TRANSCRIBING" /\ row.status = "QUEUED"
      BY <2>1, <1>t, <1>c, AdvanceAlone DEF CallStatus, SameCall
    <3> QED BY <1>4, <3>1 DEF StartTranscribe, Moves
  <2>2. CASE UNCHANGED row
    BY <1>4, <1>2, <2>2 DEF StartTranscribe
  <2> QED BY <1>4, <2>1, <2>2 DEF StartTranscribe
<1>5. CASE StoreTranscript(w)
  BY <1>5 DEF StoreTranscript, At, InPlace, Moves, InFlight
<1>6. CASE StoreReport(w)
  <2>1. row.status = "INDEXING" /\ row' = row /\ report' = Outcome(worker[w])
    BY <1>6 DEF StoreReport, At, InPlace
  <2> QED BY <2>1, OutcomeType DEF Moves, InFlight, Finished
<1>7. CASE WaitForRecap(w) \/ Validate(w) \/ BuildReport(w)
  <2>1. row.status \in InFlight /\ report' = report
    BY <1>7 DEF WaitForRecap, Validate, BuildReport, Advance, At, InPlace, InFlight
  <2>2. \E from, target, to : target \in InFlight /\ Advance(w, from, target, to)
    BY <1>7 DEF WaitForRecap, Validate, BuildReport, InFlight
  <2> QED BY <1>1, <2>1, <2>2
<1>8. CASE PersistInsights(w)
  <2>1. CASE Dangling(worker[w])
    BY <1>8, <1>2, <2>1 DEF PersistInsights
  <2>2. CASE ~Dangling(worker[w])
    <3>1. Advance(w, "insights", "INDEXING", "report") /\ report' = report
      BY <1>8, <2>2 DEF PersistInsights
    <3>2. row.status \in InFlight
      BY <3>1 DEF Advance, At, InPlace, InFlight
    <3> QED BY <1>1, <3>1, <3>2 DEF InFlight
  <2> QED BY <2>1, <2>2
<1>9. CASE Analyze(w)
  <2>1. row'.status = "ANALYZING" /\ Legal(row.status, "ANALYZING")
    BY <1>9, <1>t, <1>c, AdvanceAlone DEF Analyze, CallStatus
  <2>2. row.status \in InFlight \cup {"FAILED", "PARTIAL"}
    BY <2>1, <1>m DEF Legal, ALLOWED, Open, CallStatus, InFlight
  <2> QED BY <1>9, <2>1, <2>2 DEF Analyze, Moves, InFlight
<1>10. CASE Ship(w)
  <2> DEFINE target == Outcome(worker[w])
  <2>1. target \in Finished
    BY OutcomeType DEF Finished
  <2>2. Advance(w, "ship", target, "ack") /\ Unwritten
    BY <1>10 DEF Ship
  <2>3. worker[w].pc = "ship"
    BY <2>2 DEF Advance, At
  <2>4. report = target /\ Current /\ row.status \in InFlight
    BY <2>3 DEF InPlace, Reported, Analysed, Current, InFlight
  <2> HIDE DEF target
  <2>5. row'.status = target
    <3>1. target \in CallStatus
      BY <2>1 DEF Finished, CallStatus
    <3> QED BY <2>2, <3>1, <1>t, <1>c, AdvanceAlone
  <2> QED BY <2>1, <2>2, <2>4, <2>5 DEF Moves
<1>11. CASE RecordFailure(w)
  <2>1. PICK target \in {"PARTIAL", "FAILED"} :
           /\ target = "PARTIAL" => KindOf[worker[w].exc] \in {"RECAP", "ML_INFERENCE"}
           /\ \/ Legal(worker[w].call.status, target) /\ row'.status = target
              \/ ~Legal(worker[w].call.status, target) /\ row' = row
           /\ worker[w].pc = "record"
    BY <1>11, RecordFailureFacts
  <2>2. target = "PARTIAL" => ~Legal(worker[w].call.status, target)
    <3> HAVE target = "PARTIAL"
    <3>1. worker[w].exc \in MLErrors
      BY <2>1 DEF KindOf, MLErrors, TypeInv, ExceptionInHand, Exceptions
    <3>2. row.status = "INDEXING"
      BY <2>1, <3>1 DEF InPlace
    <3> QED BY <3>2, <1>c DEF Legal, ALLOWED, SameCall
  <2>3. CASE row' = row
    BY <1>11, <1>2, <2>3 DEF RecordFailure
  <2>4. CASE row'.status = "FAILED" /\ Legal(row.status, "FAILED")
    <3>0. row.status \notin {"FAILED", "PARTIAL"}
      BY <2>4 DEF Legal, ALLOWED, TERMINAL_CALL_STATUSES
    <3>1. row.status \in {"QUEUED"} \cup InFlight
      BY <1>m, <3>0 DEF Open, CallStatus, InFlight
    <3> QED BY <1>11, <2>4, <3>1 DEF RecordFailure, Moves
  <2> QED BY <2>1, <2>2, <2>3, <2>4, <1>c DEF SameCall
<1>12. CASE SaveJob(w)
  BY <1>12, <1>t, <1>c, SaveJobAlone DEF SaveJob, Moves, SameCall
<1>13. CASE (\E n \in 0..MaxRetries : Begin(w, n)) \/ LoadSegments(w) \/ SubmitJob(w)
            \/ AwaitTranscript(w) \/ FetchRecap(w) \/ MLDegrades(w) \/ CommitAnalysis(w)
            \/ Conflict(w) \/ StageFails(w) \/ HandleError(w) \/ Retry(w) \/ Ack(w)
  BY <1>13, <1>2 DEF Begin, LoadSegments, SubmitJob, AwaitTranscript, FetchRecap, MLDegrades,
                     CommitAnalysis, Conflict, StageFails, HandleError, Retry, Ack
<1> QED BY <1>3, <1>4, <1>5, <1>6, <1>7, <1>8, <1>9, <1>10, <1>11, <1>12, <1>13 DEF WorkerStep

LEMMA StepMoves ==
  ASSUME TypeInv, AloneInv, [Next]_vars
  PROVE  Moves \/ Act
<1>1. ASSUME row' = row, Unwritten PROVE Moves
  BY <1>1 DEF Moves
<1>2. ASSUME NEW w \in Workers, WorkerStep(w) PROVE Moves
  <2>1. CASE Busy(worker[w])
    BY <1>2, <2>1, BusyStepMoves DEF AloneInv
  <2>2. CASE ~Busy(worker[w])
    BY <1>1, <1>2, <2>2, RestingSteps DEF Begin, Retry, Ack, db, Unwritten
  <2> QED BY <2>1, <2>2
<1>3. ASSUME NEW w \in Workers, BrokerStep(w) PROVE Moves
  BY <1>1, <1>3, BrokerStepAlone DEF Unwritten
<1>4. CASE JobEnds \/ Webhook \/ UNCHANGED vars
  BY <1>4, PyAIStepAlone DEF Moves, Unwritten, SameCall
<1>5. CASE ApiStep /\ ~Act
  BY <1>1, <1>5 DEF ApiStep, Receive, Reject, Enqueue, EnqueueLost, db, Unwritten
<1> QED BY <1>2, <1>3, <1>4, <1>5 DEF Next, BrokerStep

\* Nothing brings back a cancelled call.
THEOREM CancelledStays == Spec /\ []OneAtATime => CancelledIsFinal
<1>1. TypeInv /\ AloneInv /\ [Next]_vars
        => [row.status = "CANCELLED" => row'.status = "CANCELLED"]_vars
  <2> SUFFICES ASSUME TypeInv, AloneInv, [Next]_vars, row.status = "CANCELLED"
               PROVE  row'.status = "CANCELLED"
    OBVIOUS
  <2>1. CASE Moves
    BY <2>1 DEF Moves, InFlight
  <2>2. CASE Act
    <3>1. req.step = "act"
      BY <2>2 DEF Act, Upload, Process, Reanalyze, Cancel, PatchSpeakers, Serving
    <3> QED BY <2>2, <3>1, ActStatus DEF AloneInv, TypeInv, TERMINAL_CALL_STATUSES
  <2> QED BY <2>1, <2>2, StepMoves
<1> QED BY <1>1, TypeInvariant, AloneInvariant, PTL DEF Spec, CancelledIsFinal

\* Only a request takes up a shipped call.
THEOREM ShippedStays == Spec /\ []OneAtATime => ShippedIsLeftAlone
<1>1. TypeInv /\ AloneInv /\ [Next]_vars
        => [row.status = "SHIPPED" /\ row'.status # "SHIPPED"
              => req.step = "act" /\ req' # req]_vars
  <2> SUFFICES ASSUME TypeInv, AloneInv, [Next]_vars,
                      row.status = "SHIPPED", row'.status # "SHIPPED"
               PROVE  req.step = "act" /\ req' # req
    OBVIOUS
  <2>1. ~Moves
    BY DEF Moves, InFlight
  <2>2. Act
    BY <2>1, StepMoves
  <2>3. req.step = "act"
    BY <2>2 DEF Act, Upload, Process, Reanalyze, Cancel, PatchSpeakers, Serving
  <2>4. req'.step # "act"
    BY <2>2, <2>3, ActStatus DEF AloneInv, TypeInv
  <2> QED BY <2>3, <2>4
<1> QED BY <1>1, TypeInvariant, AloneInvariant, PTL DEF Spec, ShippedIsLeftAlone

-----------------------------------------------------------------------------
(* The refinement: every step of the pipeline is a step of CallLifecycle   *)
(* or leaves what the client sees alone.                                   *)

PhaseOf(status) ==
  CASE status \in {"CREATED", "UPLOADING"} -> "new"
    [] status = "QUEUED"      -> "pending"
    [] status \in InFlight    -> "working"
    [] status \in Finished    -> status
    [] status = "FAILED"      -> "failed"
    [] status = "CANCELLED"   -> "cancelled"

LEMMA PhasesOf ==
  /\ PhaseOf("CREATED") = "new" /\ PhaseOf("UPLOADING") = "new"
  /\ PhaseOf("QUEUED") = "pending"
  /\ \A status \in InFlight : PhaseOf(status) = "working"
  /\ \A status \in Finished : PhaseOf(status) = status
  /\ PhaseOf("FAILED") = "failed"
  /\ PhaseOf("CANCELLED") = "cancelled"
BY DEF PhaseOf, InFlight, Finished

LEMMA PhaseIs == Phase = PhaseOf(row.status) /\ Phase' = PhaseOf(row'.status)
BY DEF Phase, PhaseOf

LEMMA MovesRefine ==
  ASSUME TypeOK, Moves
  PROVE  [Lifecycle!Next]_(Lifecycle!lifecycle)
<1> USE PhaseIs, PhasesOf DEF Unwritten
<1>c. Current' \in BOOLEAN /\ (Unwritten => Current' = Current)
  BY DEF Current
<1>1. CASE row'.status = row.status /\ Unwritten
  BY <1>1 DEF Lifecycle!lifecycle, Current
<1>2. CASE row.status \in InFlight /\ row'.status \in InFlight /\ report' \in Finished \cup {report}
  <2>1. Lifecycle!Work
    BY <1>2 DEF Lifecycle!Work, Lifecycle!Outcomes, Finished
  <2> QED BY <2>1 DEF Lifecycle!Next
<1>3. CASE row.status = "QUEUED" /\ row'.status = "TRANSCRIBING" /\ Unwritten
  <2>1. Lifecycle!Start
    BY <1>3 DEF Lifecycle!Start, InFlight
  <2> QED BY <2>1 DEF Lifecycle!Next
<1>4. CASE row.status = "ANALYZING" /\ row'.status = "QUEUED" /\ Unwritten
  <2>1. Lifecycle!StartOver
    BY <1>4 DEF Lifecycle!StartOver, InFlight
  <2> QED BY <2>1 DEF Lifecycle!Next
<1>5. CASE /\ row.status \in {"FAILED", "PARTIAL"} /\ row'.status \in {"QUEUED", "ANALYZING"}
           /\ row.status = "PARTIAL" => row'.status = "ANALYZING"
           /\ Unwritten
  <2>1. Lifecycle!TakeUp
    BY <1>5 DEF Lifecycle!TakeUp, Lifecycle!Outcomes, InFlight, Finished
  <2> QED BY <2>1 DEF Lifecycle!Next
<1>6. CASE /\ row.status \in InFlight /\ row'.status \in Finished
           /\ report = row'.status /\ Current /\ Unwritten
  <2>1. Lifecycle!Finish
    BY <1>6 DEF Lifecycle!Finish, Lifecycle!Outcomes, Current, Finished
  <2> QED BY <2>1 DEF Lifecycle!Next
<1>7. CASE row.status \in {"QUEUED"} \cup InFlight /\ row'.status = "FAILED" /\ Unwritten
  <2>1. Lifecycle!Fail
    BY <1>7 DEF Lifecycle!Fail
  <2> QED BY <2>1 DEF Lifecycle!Next
<1> QED BY <1>1, <1>2, <1>3, <1>4, <1>5, <1>6, <1>7 DEF Moves

LEMMA ActRefines ==
  ASSUME TypeOK, NewIsUntouched, SameCall(req.seen, row), Act
  PROVE  [Lifecycle!Next]_(Lifecycle!lifecycle)
<1> USE PhaseIs, PhasesOf
<1>r. UNCHANGED report
  BY ActStatus
<1>t. row.status \in CallStatus
  BY DEF TypeOK, CallRow
<1>1. CASE UNCHANGED <<row, gen, roles, run>>
  BY <1>1, <1>r DEF Lifecycle!lifecycle
<1>2. CASE UNCHANGED row /\ row.status \notin Finished \cup {"CREATED", "UPLOADING"}
  <2>1. PhaseOf(row.status) \notin Finished
    BY <1>2, <1>t DEF Finished, InFlight, CallStatus
  <2>2. Lifecycle!Correct
    BY <1>2, <1>r, <2>1 DEF Lifecycle!Correct, Lifecycle!Outcomes, Finished
  <2> QED BY <2>2 DEF Lifecycle!Next
<1>3. CASE row.status = "CREATED" /\ row'.status = "QUEUED" /\ UNCHANGED <<gen, roles, run>>
  <2>1. Lifecycle!Submit
    BY <1>3, <1>r DEF Lifecycle!Submit
  <2> QED BY <2>1 DEF Lifecycle!Next
<1>4. CASE /\ row.status \in {"SHIPPED", "PARTIAL", "FAILED"}
           /\ row'.status \in {"QUEUED", "ANALYZING"}
           /\ row.status # "FAILED" => row'.status = "ANALYZING"
  <2>1. Lifecycle!TakeUp
    BY <1>4, <1>r DEF Lifecycle!TakeUp, Lifecycle!Outcomes, InFlight, Finished
  <2> QED BY <2>1 DEF Lifecycle!Next
<1>5. CASE /\ row.status \notin TERMINAL_CALL_STATUSES \cup {"BUILDING_REPORT"}
           /\ row'.status = "CANCELLED"
           /\ UNCHANGED <<gen, roles, run>>
  <2>1. PhaseOf(row.status) \in {"new", "pending", "working"}
    BY <1>5, <1>t DEF TERMINAL_CALL_STATUSES, CallStatus, InFlight
  <2>2. Lifecycle!Cancel
    BY <1>5, <1>r, <2>1 DEF Lifecycle!Cancel
  <2> QED BY <2>2 DEF Lifecycle!Next
<1> QED BY <1>1, <1>2, <1>3, <1>4, <1>5, ActStatus

LEMMA InitRefines == Init => Lifecycle!Init
<1> SUFFICES ASSUME Init PROVE Lifecycle!Init
  OBVIOUS
<1>1. Phase = "new"
  BY PhaseIs, PhasesOf DEF Init, NewCall
<1>2. report = "none"
  BY DEF Init, None
<1>3. run.gen = gen /\ (run.facts => run.roles = roles)
  BY DEF Init
<1>4. (run.gen = gen /\ (run.facts => run.roles = roles)) = TRUE
  BY <1>3, Zenon
<1> QED BY <1>1, <1>2, <1>4, Zenon DEF Lifecycle!Init

\* As long as nobody interferes, the pipeline implements the lifecycle a client
\* is promised: every commit of a worker or a request, every crash, loss and
\* redelivery is one of its steps or leaves it alone.
THEOREM PipelineKeepsLifecycle == Spec /\ []OneAtATime => KeepsLifecycle
<1>1. TypeInv /\ AloneInv /\ [Next]_vars => [Lifecycle!Next]_(Lifecycle!lifecycle)
  <2> SUFFICES ASSUME TypeInv, AloneInv, [Next]_vars
               PROVE  [Lifecycle!Next]_(Lifecycle!lifecycle)
    OBVIOUS
  <2>1. CASE Moves
    BY <2>1, MovesRefine DEF TypeInv
  <2>2. CASE Act
    <3>1. req.step = "act"
      BY <2>2 DEF Act, Upload, Process, Reanalyze, Cancel, PatchSpeakers, Serving
    <3> QED BY <2>2, <3>1, ActRefines DEF AloneInv, TypeInv
  <2> QED BY <2>1, <2>2, StepMoves
<1> QED BY <1>1, InitRefines, TypeInvariant, AloneInvariant, PTL
        DEF Spec, KeepsLifecycle, Lifecycle!Spec

-----------------------------------------------------------------------------
(* One worker, and requests only while the call rests, never interfere.    *)

LEMMA RestInvariant ==
  ASSUME ~Overlap
  PROVE  Spec => [](req.step # "idle" => ~Working)
<1> DEFINE Rest == req.step # "idle" => ~Working
<1>1. Init => Rest
  BY DEF Init, NoRequest
<1>2. TypeInv /\ Rest /\ [Next]_vars => Rest'
  <2> SUFFICES ASSUME TypeInv, Rest, [Next]_vars PROVE Rest'
    OBVIOUS
  <2>1. ASSUME NEW w \in Workers, WorkerStep(w) PROVE Rest'
    <3>1. UNCHANGED req
      BY <2>1, WorkerStepOthers
    <3>2. Working
      <4>1. CASE Busy(worker[w])
        BY <4>1 DEF Busy, Working, At
      <4>2. CASE ~Busy(worker[w])
        BY <2>1, <4>2, RestingSteps DEF Begin, Retry, Ack, Working, At
      <4> QED BY <4>1, <4>2
    <3> QED BY <3>1, <3>2
  <2>2. ASSUME NEW w \in Workers, BrokerStep(w) PROVE Rest'
    BY <2>2 DEF BrokerStep, Crash, WorkerLost, Redeliver, Working
  <2>3. CASE JobEnds \/ Webhook \/ UNCHANGED vars
    BY <2>3, PyAIStepAlone DEF JobEnds, Webhook, vars, envVars, budgets, db, Working, At
  <2>4. CASE ApiStep
    <3>1. ASSUME NEW op \in Ops, Receive(op) PROVE Rest'
      BY <3>1 DEF Receive, Working, At
    <3>2. CASE Act
      BY <3>2 DEF Act, Upload, Process, Reanalyze, Cancel, PatchSpeakers, Serving, apiVars,
                  Working, At
    <3>3. CASE Reject \/ Enqueue \/ EnqueueLost
      BY <3>3 DEF Reject, Enqueue, EnqueueLost, ThenReply, NoRequest
    <3> QED BY <2>4, <3>1, <3>2, <3>3 DEF ApiStep
  <2> QED BY <2>1, <2>2, <2>3, <2>4 DEF Next, BrokerStep
<1> QED BY <1>1, <1>2, TypeInvariant, PTL DEF Spec

LEMMA OneWorkerAlone ==
  ASSUME ~Overlap, \A v, w \in Workers : v = w
  PROVE  Spec => []OneAtATime
<1>1. (req.step # "idle" => ~Working) => OneAtATime
  BY DEF OneAtATime, Working, At, Busy
<1> QED BY <1>1, RestInvariant, PTL

\* With one worker and no request during a run all four promises hold, for any
\* number of retries, crashes, redeliveries and requests.
THEOREM OneWorkerKeepsAll ==
  ASSUME ~Overlap, \A v, w \in Workers : v = w
  PROVE  Spec => /\ []FinishedCallIsConsistent
                 /\ CancelledIsFinal
                 /\ ShippedIsLeftAlone
                 /\ KeepsLifecycle
BY OneWorkerAlone, FinishedIsConsistent, CancelledStays, ShippedStays, PipelineKeepsLifecycle, PTL
=============================================================================
