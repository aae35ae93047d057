------------------------ MODULE ReportReadersProofs ------------------------
(***************************************************************************)
(* However many workers analyse a call, crash, or go on after it has been  *)
(* deleted: its runs are numbered without a gap, what is deleted stays     *)
(* deleted, artifacts are of stored runs, and a call that its last worker  *)
(* had alone is finished with the work of that one run.  However many      *)
(* requests read while that goes on: the ids and counts they answer with   *)
(* are right.                                                              *)
(***************************************************************************)
EXTENDS ReportReaders, FiniteSetTheorems, TLAPS

-----------------------------------------------------------------------------
(* Runs and their numbers.                                                 *)

\* With runs numbered from 1, the latest is the one with the highest number.
LEMMA LatestRun ==
  ASSUME runs \subseteq Run, IsFiniteSet(runs), RunsAreNumbered
  PROVE  /\ Cardinality(runs) \in Nat
         /\ runs = {} => Latest = NoRun
         /\ runs # {} => Latest \in runs
         /\ Latest \in Run
         /\ Latest.version = Cardinality(runs)
<1>1. Cardinality(runs) \in Nat
  BY FS_CardinalityType
<1>2. CASE runs = {}
  <2>1. Cardinality(runs) = 0 /\ Latest = NoRun
    BY <1>2, FS_EmptySet DEF Latest
  <2> QED BY <2>1, <1>2 DEF NoRun, Run
<1>3. CASE runs # {}
  <2>1. Cardinality(runs) > 0
    BY <1>1, <1>3, FS_EmptySet
  <2>2. Cardinality(runs) \in Versions
    BY <1>1, <2>1 DEF RunsAreNumbered
  <2>3. PICK last \in runs : last.version = Cardinality(runs)
    BY <2>2 DEF Versions
  <2>4. \A run \in runs : run.version \in 1..Cardinality(runs)
    BY DEF RunsAreNumbered, Versions
  <2>5. \A run \in runs : run.version <= last.version
    BY <1>1, <2>3, <2>4
  <2>6. Latest \in runs /\ \A run \in runs : run.version <= Latest.version
    BY <1>3, <2>5 DEF Latest
  <2>7. Latest.version = Cardinality(runs)
    BY <1>1, <2>3, <2>4, <2>6
  <2> QED BY <1>1, <1>3, <2>6, <2>7
<1> QED BY <1>1, <1>2, <1>3

-----------------------------------------------------------------------------
(* Types.                                                                  *)

LEMMA NoRunType == NoRun \in Run
BY DEF NoRun, Run

LEMMA IdleType == Idle \in Worker
BY NoRunType DEF Idle, Worker

LEMMA InitTypes == Init => TypeOK
<1> SUFFICES ASSUME Init PROVE TypeOK
  OBVIOUS
<1>1. work \in [Workers -> Worker]
  BY IdleType DEF Init
<1>2. status = "TRANSCRIBING" /\ transcript \in Nat /\ runs \subseteq Run /\ mixed \in BOOLEAN
  BY DEF Init
<1>3. json \in Run /\ md \in Run
  BY NoRunType DEF Init
<1> QED BY <1>1, <1>2, <1>3 DEF TypeOK

\* The rows of a new run are those of all its insights.
LEMMA FoundType ==
  ASSUME NEW found \in Analyses
  PROVE  DOMAIN found.keys \subseteq Nat
BY ReadersAssumption

LEMMA FailsTypes ==
  ASSUME TypeOK, NEW w \in Workers, Fails(w)
  PROVE  /\ status' \in {"FAILED", status} /\ work' \in [Workers -> Worker]
         /\ UNCHANGED <<transcript, runs>>
BY IdleType DEF TypeOK, Fails, Leaves

LEMMA BeginTypes ==
  ASSUME TypeOK, NEW w \in Workers, Begin(w)
  PROVE  TypeOK'
<1>1. /\ status' \in {"TRANSCRIBING", "ANALYZING", "FAILED", status}
      /\ UNCHANGED <<transcript, runs, json, md>> /\ mixed' \in BOOLEAN
  BY DEF Begin, Fails, blobVars
<1>2. work[w] \in Worker
  BY DEF TypeOK
<1>3. work' \in [Workers -> Worker]
  <2>1. CASE Goto(w, "transcribing")
    BY <1>2, <2>1 DEF Goto, TypeOK, Worker
  <2>2. CASE work' = [work EXCEPT ![w] = [pc |-> "analyzing", run |-> [NoRun EXCEPT !.transcript = transcript]]]
    <3>1. [NoRun EXCEPT !.transcript = transcript] \in Run
      BY NoRunType DEF Run, TypeOK
    <3> QED BY <2>2, <3>1 DEF TypeOK, Worker
  <2>3. CASE Fails(w)
    BY <2>3, FailsTypes
  <2> QED BY <2>1, <2>2, <2>3 DEF Begin
<1> QED BY <1>1, <1>3 DEF TypeOK

\* A worker at a stage of its own, and the run it carries.
LEMMA Works ==
  ASSUME TypeOK, NEW w \in Workers
  PROVE  work[w] \in Worker /\ work[w].run \in Run
BY DEF TypeOK, Worker

LEMMA GotoType ==
  ASSUME TypeOK, NEW w \in Workers, NEW pc \in {"indexed", "inserted", "json stored", "stored"}, Goto(w, pc)
  PROVE  work' \in [Workers -> Worker]
BY Works DEF TypeOK, Goto, Worker

\* From its number on, a run has found what some analysis finds.
Analysed ==
  \A w \in Workers :
    work[w].pc \in {"numbered", "inserted", "indexed", "json stored", "stored"} => work[w].run.found \in Analyses

LEMMA WorkTypes ==
  ASSUME TypeOK, Analysed, IsFiniteSet(runs), RunsAreNumbered, NEW w \in Workers, Work(w)
  PROVE  TypeOK'
<1> USE Works
<1>1. CASE Begin(w)
  BY <1>1, BeginTypes
<1>2. CASE StoreTranscript(w)
  <2>1. CASE CallExists
    <3>1. [NoRun EXCEPT !.transcript = transcript'] \in Run
      BY <1>2, <2>1, NoRunType DEF Run, TypeOK, StoreTranscript
    <3>2. work' = [work EXCEPT ![w] = [pc |-> "analyzing", run |-> [NoRun EXCEPT !.transcript = transcript']]]
      BY <1>2, <2>1 DEF StoreTranscript
    <3>3. [pc |-> "analyzing", run |-> [NoRun EXCEPT !.transcript = transcript']] \in Worker
      BY <3>1 DEF Worker
    <3>4. work' \in [Workers -> Worker]
      BY <3>2, <3>3 DEF TypeOK
    <3> QED BY <1>2, <2>1, <3>4 DEF StoreTranscript, TypeOK, blobVars
  <2>2. CASE ~CallExists
    BY <1>2, <2>2, FailsTypes DEF StoreTranscript, TypeOK, blobVars
  <2> QED BY <2>1, <2>2
<1>3. ASSUME NEW found \in Analyses, ReadVersion(w, found) PROVE TypeOK'
  <2>1. NextVersion \in Nat
    BY LatestRun DEF TypeOK, NextVersion
  <2>2. [work[w].run EXCEPT !.version = NextVersion, !.found = found, !.rows = DOMAIN found.keys] \in Run
    BY <2>1, FoundType DEF Run
  <2>3. work' \in [Workers -> Worker]
    BY <1>3, <2>2 DEF ReadVersion, TypeOK, Worker
  <2> QED BY <1>3, <2>3 DEF ReadVersion, TypeOK, rowVars, blobVars
<1>4. CASE Insert(w)
  <2>1. \/ Goto(w, "inserted") /\ UNCHANGED rowVars
        \/ Fails(w)
    BY <1>4 DEF Insert
  <2>2. status' \in {"FAILED", status} /\ work' \in [Workers -> Worker] /\ UNCHANGED <<transcript, runs>>
    BY <2>1, FailsTypes, GotoType DEF rowVars
  <2>3. UNCHANGED <<json, md, mixed>>
    BY <1>4 DEF Insert, blobVars
  <2> QED BY <2>2, <2>3 DEF TypeOK
<1>5. CASE CommitRun(w)
  BY <1>5, GotoType DEF CommitRun, TypeOK, blobVars
<1>6. CASE PutJson(w)
  BY <1>6, GotoType DEF PutJson, TypeOK, rowVars
<1>7. CASE PutMarkdown(w)
  BY <1>7, GotoType DEF PutMarkdown, TypeOK, rowVars
<1>8. CASE Finish(w)
  <2>1. CASE CallExists
    <3>1. status' \in {"SHIPPED", "PARTIAL"}
      BY <1>8, <2>1, ReadersAssumption DEF Finish, At, Analysed
    <3> QED BY <1>8, <2>1, <3>1, IdleType DEF Finish, Leaves, TypeOK, blobVars
  <2>2. CASE ~CallExists
    BY <1>8, <2>2, FailsTypes DEF Finish, TypeOK, blobVars
  <2> QED BY <2>1, <2>2
<1>9. CASE Crash(w)
  BY <1>9, IdleType DEF Crash, Leaves, TypeOK, rowVars, blobVars
<1> QED BY <1>1, <1>2, <1>3, <1>4, <1>5, <1>6, <1>7, <1>8, <1>9 DEF Work

LEMMA NextTypes ==
  ASSUME TypeOK, Analysed, IsFiniteSet(runs), RunsAreNumbered, [Next]_vars
  PROVE  TypeOK'
<1>1. ASSUME NEW w \in Workers, Work(w) PROVE TypeOK'
  BY <1>1, WorkTypes
<1>2. CASE Reanalyze
  BY <1>2 DEF Reanalyze, TypeOK, blobVars
<1>3. CASE PatchSpeakers
  <2>1. \A run \in runs : [run EXCEPT !.rows = {k \in @ : run.found.keys[k] # "fact"}] \in Run
    BY DEF TypeOK, Run
  <2>2. runs' \subseteq Run
    BY <1>3, <2>1 DEF PatchSpeakers
  <2>3. mixed' \in BOOLEAN
    BY <1>3, Zenon DEF PatchSpeakers
  <2> QED BY <1>3, <2>2, <2>3 DEF PatchSpeakers, TypeOK, blobVars
<1>4. CASE DeleteCall
  BY <1>4 DEF DeleteCall, TypeOK, blobVars
<1>5. ASSUME NEW r \in Readers, Handle(r) PROVE UNCHANGED <<rowVars, blobVars, work, mixed>>
  BY <1>5 DEF Handle, Request, FetchArtifact, ReadRun, ReadRefused, ReadRows, ReadLinks, Serve, Read
<1>6. CASE UNCHANGED <<rowVars, blobVars, work, mixed>>
  BY <1>6 DEF TypeOK, rowVars, blobVars
<1>7. CASE UNCHANGED vars
  BY <1>6, <1>7 DEF vars
<1> QED BY <1>1, <1>2, <1>3, <1>4, <1>5, <1>6, <1>7 DEF Next

-----------------------------------------------------------------------------
(* Numbers.                                                                *)

\* What numbers the runs, and what a deletion leaves.
Numbered ==
  /\ IsFiniteSet(runs)
  /\ RunsAreNumbered
  /\ status = "DELETED" => runs = {} /\ transcript = 0
  /\ \A w \in Workers : At(w, "inserted") =>
       CallExists /\ work[w].run.version = Cardinality(runs) + 1
  /\ \A w \in Workers : At(w, "numbered") /\ CallExists =>
       work[w].run.version \in 1..Cardinality(runs) + 1
  /\ \A v, w \in Workers : At(v, "inserted") /\ At(w, "inserted") => v = w

\* A worker that changes no run, and is not at its inserts afterwards.
LEMMA NumbersKept ==
  ASSUME TypeOK, Numbered, NEW w \in Workers, UNCHANGED runs,
         \A v \in Workers \ {w} : work'[v] = work[v],
         work'[w].pc \notin {"numbered", "inserted"},
         status' = "DELETED" <=> status = "DELETED",
         status = "DELETED" => UNCHANGED transcript
  PROVE  Numbered'
BY DEF Numbered, At, CallExists, RunsAreNumbered, Versions

\* What moving on and leaving do to the workers.
LEMMA Moves ==
  ASSUME TypeOK, NEW w \in Workers, NEW pc, Goto(w, pc)
  PROVE  /\ \A v \in Workers \ {w} : work'[v] = work[v]
         /\ work'[w].pc = pc /\ work'[w].run = work[w].run
BY Works DEF TypeOK, Goto, Worker

LEMMA Left ==
  ASSUME TypeOK, NEW w \in Workers, Leaves(w)
  PROVE  /\ \A v \in Workers \ {w} : work'[v] = work[v]
         /\ work'[w].pc = "idle"
BY DEF TypeOK, Leaves, Idle

LEMMA FailsKeeps ==
  ASSUME TypeOK, Numbered, NEW w \in Workers, Fails(w)
  PROVE  Numbered'
BY Left, NumbersKept DEF Fails

LEMMA BeginNumbers ==
  ASSUME TypeOK, Numbered, NEW w \in Workers, Begin(w)
  PROVE  Numbered'
<1>1. CASE Goto(w, "transcribing") /\ status \in {"TRANSCRIBING", "FAILED"} /\ status' = "TRANSCRIBING" /\ UNCHANGED runs
  BY <1>1, Moves, NumbersKept
<1>2. CASE /\ work' = [work EXCEPT ![w] = [pc |-> "analyzing", run |-> [NoRun EXCEPT !.transcript = transcript]]]
           /\ status \in {"ANALYZING", "PARTIAL", "FAILED"} /\ status' = "ANALYZING" /\ UNCHANGED runs
  <2>1. (\A v \in Workers \ {w} : work'[v] = work[v]) /\ work'[w].pc = "analyzing"
    BY <1>2 DEF TypeOK
  <2> QED BY <1>2, <2>1, NumbersKept
<1>3. CASE Fails(w)
  BY <1>3, FailsKeeps
<1> QED BY <1>1, <1>2, <1>3 DEF Begin

\* Inserting finds its number next, and nobody else at it.
LEMMA InsertNumbers ==
  ASSUME TypeOK, Numbered, NEW w \in Workers, Insert(w)
  PROVE  Numbered'
<1>1. CASE Fails(w)
  BY <1>1, FailsKeeps
<1>2. CASE ~Fails(w)
  <2>1. /\ Goto(w, "inserted") /\ UNCHANGED <<status, transcript, runs>>
        /\ CallExists /\ ~Taken(work[w].run.version) /\ At(w, "numbered")
        /\ \A v \in Workers \ {w} : At(v, "inserted") => work[v].run.version # work[w].run.version
    BY <1>2 DEF Insert, Inserted, rowVars
  <2>2. Cardinality(runs) \in Nat
    BY FS_CardinalityType DEF Numbered
  <2>3. work[w].run.version = Cardinality(runs) + 1
    BY <2>1, <2>2 DEF Numbered, RunsAreNumbered, Taken
  <2>4. \A v \in Workers \ {w} : ~At(v, "inserted")
    BY <2>1, <2>3 DEF Numbered
  <2>5. /\ \A v \in Workers \ {w} : work'[v] = work[v]
        /\ work'[w].pc = "inserted" /\ work'[w].run = work[w].run
    BY <2>1, Moves
  <2> QED BY <2>1, <2>3, <2>4, <2>5 DEF Numbered, At, CallExists, RunsAreNumbered, Versions
<1> QED BY <1>1, <1>2

LEMMA CommitNumbers ==
  ASSUME TypeOK, Numbered, NEW w \in Workers, CommitRun(w)
  PROVE  Numbered'
<1> DEFINE run == work[w].run
           n == Cardinality(runs)
<1>1. /\ runs' = runs \cup {run} /\ status' = "INDEXING" /\ UNCHANGED transcript
      /\ At(w, "inserted") /\ Goto(w, "indexed")
  BY DEF CommitRun, Inserted
<1>2. n \in Nat /\ run.version = n + 1
  BY <1>1, FS_CardinalityType DEF Numbered
<1>3. \A other \in runs : other.version \in 1..n
  BY DEF Numbered, RunsAreNumbered, Versions
<1>4. run \notin runs
  BY <1>2, <1>3
<1>5. IsFiniteSet(runs') /\ Cardinality(runs') = n + 1
  BY <1>1, <1>4, FS_AddElement DEF Numbered
<1>6. Versions' = Versions \cup {run.version}
  BY <1>1 DEF Versions
<1>7. Versions' = 1..n + 1
  BY <1>2, <1>6 DEF Numbered, RunsAreNumbered
<1>8. RunsAreNumbered'
  <2>1. ASSUME NEW a \in runs', NEW b \in runs', a.version = b.version PROVE a = b
    <3>1. CASE a \in runs /\ b \in runs
      BY <2>1, <3>1 DEF Numbered, RunsAreNumbered
    <3>2. CASE a = run /\ b = run
      BY <3>2
    <3>3. CASE (a \in runs /\ b = run) \/ (a = run /\ b \in runs)
      BY <1>2, <1>3, <2>1, <3>3
    <3> QED BY <1>1, <3>1, <3>2, <3>3
  <2> QED BY <1>5, <1>7, <2>1 DEF RunsAreNumbered
<1>9. /\ \A v \in Workers \ {w} : work'[v] = work[v] /\ ~At(v, "inserted")
      /\ work'[w].pc = "indexed"
  BY <1>1, Moves DEF Numbered
<1>10. \A v \in Workers : ~At(v, "inserted")'
  BY <1>9 DEF At
<1>11. CallExists
  BY <1>1 DEF Numbered
<1>12. \A v \in Workers : At(v, "numbered")' => work'[v].run.version \in 1..Cardinality(runs') + 1
  BY <1>2, <1>5, <1>9, <1>11 DEF Numbered, At
<1>13. CallExists'
  BY <1>1 DEF CallExists
<1> QED BY <1>1, <1>5, <1>8, <1>10, <1>12, <1>13 DEF Numbered, CallExists

\* A correction keeps every run and its number.
LEMMA PatchNumbers ==
  ASSUME TypeOK, Numbered, PatchSpeakers
  PROVE  Numbered'
<1> DEFINE Patched(run) == [run EXCEPT !.rows = {k \in @ : run.found.keys[k] # "fact"}]
           f == [run \in runs |-> Patched(run)]
<1>1. runs' = {Patched(run) : run \in runs} /\ UNCHANGED <<transcript, work>>
      /\ status # "DELETED" /\ status' # "DELETED"
  BY DEF PatchSpeakers, CallExists
<1>2. \A run \in runs : Patched(run).version = run.version
  BY DEF TypeOK, Run
<1> HIDE DEF Patched
<1>3. Versions' = Versions
  BY <1>1, <1>2 DEF Versions
<1>4. \A a, b \in runs : Patched(a).version = Patched(b).version => a = b
  BY <1>2 DEF Numbered, RunsAreNumbered
<1>5. \A a, b \in runs' : a.version = b.version => a = b
  BY <1>1, <1>4
<1>6. IsFiniteSet(runs') /\ Cardinality(runs') = Cardinality(runs)
  <2>1. f \in [runs -> runs'] /\ \A run \in runs : f[run] = Patched(run)
    BY <1>1
  <2>2. \A a, b \in runs : f[a] = f[b] => a = b
    BY <1>4, <2>1
  <2>3. \A b \in runs' : \E a \in runs : f[a] = b
    BY <1>1, <2>1
  <2> HIDE DEF f
  <2>4. f \in Bijection(runs, runs')
    BY <2>1, <2>2, <2>3 DEF Bijection, Injection, Surjection, IsInjective
  <2>5. ExistsBijection(runs, runs')
    BY <2>4 DEF ExistsBijection
  <2> QED BY <2>5, FS_Bijection DEF Numbered
<1>7. RunsAreNumbered'
  BY <1>3, <1>5, <1>6 DEF Numbered, RunsAreNumbered
<1> HIDE DEF f
<1> QED BY <1>1, <1>6, <1>7 DEF Numbered, At, CallExists

LEMMA NextNumbers ==
  ASSUME TypeOK, Analysed, Numbered, [Next]_vars
  PROVE  Numbered'
<1>1. ASSUME NEW w \in Workers, Work(w) PROVE Numbered'
  <2>1. CASE StoreTranscript(w)
    <3>1. CASE CallExists
      <4>1. (\A v \in Workers \ {w} : work'[v] = work[v]) /\ work'[w].pc = "analyzing"
        BY <2>1, <3>1 DEF StoreTranscript, TypeOK
      <4> QED BY <2>1, <3>1, <4>1, NumbersKept DEF StoreTranscript, CallExists
    <3>2. CASE ~CallExists
      BY <2>1, <3>2, FailsKeeps DEF StoreTranscript
    <3> QED BY <3>1, <3>2
  <2>2. ASSUME NEW found \in Analyses, ReadVersion(w, found) PROVE Numbered'
    <3>1. NextVersion = Cardinality(runs) + 1 /\ Cardinality(runs) \in Nat
      BY LatestRun DEF TypeOK, Numbered, NextVersion
    <3>2. /\ \A v \in Workers \ {w} : work'[v] = work[v]
          /\ work'[w].pc = "numbered" /\ work'[w].run.version = NextVersion
      BY <2>2, Works DEF ReadVersion, TypeOK, Run
    <3> QED BY <2>2, <3>1, <3>2 DEF ReadVersion, Numbered, At, CallExists, RunsAreNumbered, Versions, rowVars
  <2>3. CASE PutJson(w) \/ PutMarkdown(w)
    <3>1. /\ \A v \in Workers \ {w} : work'[v] = work[v]
          /\ work'[w].pc \in {"json stored", "stored"}
      BY <2>3, Moves DEF PutJson, PutMarkdown
    <3> QED BY <2>3, <3>1, NumbersKept DEF PutJson, PutMarkdown, rowVars
  <2>4. CASE Finish(w)
    <3>1. CASE CallExists
      <4>1. status' # "DELETED"
        BY <2>4, <3>1, ReadersAssumption DEF Finish, At, Analysed
      <4> QED BY <2>4, <3>1, <4>1, Left, NumbersKept DEF Finish, CallExists
    <3>2. CASE ~CallExists
      BY <2>4, <3>2, FailsKeeps DEF Finish
    <3> QED BY <3>1, <3>2
  <2>5. CASE Crash(w)
    BY <2>5, Left, NumbersKept DEF Crash, rowVars
  <2> QED BY <1>1, <2>1, <2>2, <2>3, <2>4, <2>5, BeginNumbers, InsertNumbers, CommitNumbers DEF Work
<1>2. CASE UNCHANGED <<status, transcript, runs, work>>
  BY <1>2 DEF Numbered, At, CallExists, RunsAreNumbered, Versions
<1>3. CASE Reanalyze
  BY <1>3 DEF Reanalyze, Numbered, At, CallExists, RunsAreNumbered, Versions
<1>4. CASE DeleteCall
  <2>1. /\ runs' = {} /\ transcript' = 0 /\ status' = "DELETED" /\ UNCHANGED work
        /\ \A w \in Workers : ~At(w, "inserted")
    BY <1>4 DEF DeleteCall, Inserted
  <2>2. IsFiniteSet({}) /\ Cardinality({}) = 0
    BY FS_EmptySet
  <2>3. RunsAreNumbered'
    BY <2>1, <2>2 DEF RunsAreNumbered, Versions
  <2> QED BY <2>1, <2>2, <2>3 DEF Numbered, At, CallExists
<1>5. ASSUME NEW r \in Readers, Handle(r) PROVE Numbered'
  BY <1>2, <1>5 DEF Handle, Request, FetchArtifact, ReadRun, ReadRefused, ReadRows, ReadLinks, Serve, Read, rowVars
<1>6. CASE UNCHANGED vars
  BY <1>2, <1>6 DEF vars, rowVars
<1> QED BY <1>1, <1>3, <1>4, <1>5, <1>6, PatchNumbers DEF Next

-----------------------------------------------------------------------------
(* What a run has found.                                                   *)

LEMMA NextAnalysed ==
  ASSUME TypeOK, Analysed, [Next]_vars
  PROVE  Analysed'
<1> DEFINE Late == {"numbered", "inserted", "indexed", "json stored", "stored"}
<1>1. ASSUME NEW w \in Workers, Work(w) PROVE Analysed'
  <2>1. ASSUME \A v \in Workers \ {w} : work'[v] = work[v],
               work'[w].pc \in Late => work'[w].run.found \in Analyses
        PROVE  Analysed'
    BY <2>1 DEF Analysed
  <2>2. CASE Leaves(w)
    BY <2>1, <2>2, Left
  <2>3. ASSUME NEW pc, Goto(w, pc), pc = "transcribing" \/ work[w].pc \in Late
        PROVE  Analysed'
    <3>1. (\A v \in Workers \ {w} : work'[v] = work[v]) /\ work'[w].pc = pc /\ work'[w].run = work[w].run
      BY <2>3, Moves
    <3> QED BY <2>1, <2>3, <3>1 DEF Analysed
  <2>4. ASSUME NEW run, work' = [work EXCEPT ![w] = [pc |-> "analyzing", run |-> run]] PROVE Analysed'
    BY <2>1, <2>4 DEF TypeOK
  <2>5. ASSUME NEW found \in Analyses, ReadVersion(w, found) PROVE Analysed'
    <3>1. (\A v \in Workers \ {w} : work'[v] = work[v]) /\ work'[w].run.found = found
      BY <2>5, Works DEF ReadVersion, TypeOK, Run
    <3> QED BY <2>1, <3>1
  <2>6. CASE Begin(w)
    BY <2>2, <2>3, <2>4, <2>6 DEF Begin, Fails
  <2>7. CASE StoreTranscript(w)
    BY <2>2, <2>4, <2>7 DEF StoreTranscript, Fails
  <2>8. CASE Insert(w)
    BY <2>2, <2>3, <2>8 DEF Insert, Fails, At
  <2>9. CASE CommitRun(w) \/ PutJson(w) \/ PutMarkdown(w)
    BY <2>3, <2>9 DEF CommitRun, Inserted, PutJson, PutMarkdown, At
  <2>10. CASE Finish(w) \/ Crash(w)
    BY <2>2, <2>10 DEF Finish, Crash, Fails
  <2> QED BY <1>1, <2>5, <2>6, <2>7, <2>8, <2>9, <2>10 DEF Work
<1>2. CASE UNCHANGED work
  BY <1>2 DEF Analysed
<1>3. ASSUME NEW r \in Readers, Handle(r) PROVE UNCHANGED work
  BY <1>3 DEF Handle, Request, FetchArtifact, ReadRun, ReadRefused, ReadRows, ReadLinks, Serve, Read
<1> QED BY <1>1, <1>2, <1>3 DEF Next, Reanalyze, PatchSpeakers, DeleteCall, vars

\* All of this together, of every reachable state.
Sound == TypeOK /\ Analysed /\ Numbered

LEMMA InitSound == Init => Sound
<1> SUFFICES ASSUME Init PROVE Sound
  OBVIOUS
<1>1. IsFiniteSet({}) /\ Cardinality({}) = 0
  BY FS_EmptySet
<1>2. \A w \in Workers : At(w, "idle")
  BY DEF Init, Idle, At
<1>3. RunsAreNumbered
  BY <1>1 DEF Init, RunsAreNumbered, Versions
<1> QED BY <1>1, <1>2, <1>3, InitTypes DEF Sound, Analysed, Numbered, Init, At

LEMMA NextSound == Sound /\ [Next]_vars => Sound'
BY NextTypes, NextAnalysed, NextNumbers DEF Sound, Numbered

LEMMA SoundAlways == Spec => []Sound
BY InitSound, NextSound, PTL DEF Spec

\* The rows of a call, its artifacts and its workers keep their shape.
THEOREM ReadersTypes == Spec => []TypeOK
BY SoundAlways, PTL DEF Sound

\* However many analyses race for the next number, the runs of a call are
\* numbered 1, 2, ... and none twice.
THEOREM RunsNumbered == Spec => []RunsAreNumbered
<1>1. Sound => RunsAreNumbered
  BY DEF Sound, Numbered
<1> QED BY <1>1, SoundAlways, PTL

\* Nothing that is under way when a call is deleted brings back the call, a run
\* or its transcript.
THEOREM DeletedStays == Spec => DeletedIsFinal
<1>1. Sound /\ [Next]_vars /\ status = "DELETED" => status' = "DELETED" /\ runs' = {} /\ transcript' = 0
  <2> SUFFICES ASSUME Sound, [Next]_vars, status = "DELETED"
               PROVE  status' = "DELETED" /\ runs' = {} /\ transcript' = 0
    OBVIOUS
  <2>1. runs = {} /\ transcript = 0 /\ (\A w \in Workers : ~At(w, "inserted")) /\ ~CallExists
    BY DEF Sound, Numbered, CallExists
  <2>2. ASSUME NEW w \in Workers, Fails(w) PROVE UNCHANGED rowVars
    BY <2>2 DEF Fails, rowVars
  <2>3. ASSUME NEW w \in Workers, Work(w) PROVE UNCHANGED rowVars
    BY <2>1, <2>2, <2>3 DEF Work, Begin, StoreTranscript, ReadVersion, Insert, CommitRun, Inserted, PutJson,
       PutMarkdown, Finish, Crash, rowVars
  <2>4. ASSUME NEW r \in Readers, Handle(r) PROVE UNCHANGED rowVars
    BY <2>4 DEF Handle, Request, FetchArtifact, ReadRun, ReadRefused, ReadRows, ReadLinks, Serve, Read
  <2>5. ~Reanalyze /\ ~PatchSpeakers /\ ~DeleteCall
    BY <2>1 DEF Reanalyze, PatchSpeakers, DeleteCall
  <2>6. UNCHANGED rowVars
    BY <2>3, <2>4, <2>5 DEF Next, vars
  <2> QED BY <2>1, <2>6 DEF rowVars
<1>2. Sound /\ [Next]_vars =>
        [status = "DELETED" => status' = "DELETED" /\ runs' = {} /\ transcript' = 0]_vars
  BY <1>1
<1> QED BY <1>2, SoundAlways, PTL DEF Spec, DeletedIsFinal

-----------------------------------------------------------------------------
(* The artifacts are of stored runs.                                       *)

IsStored(artifact) == \E run \in runs : SameRun(run, artifact)

\* Whoever writes an artifact has stored the run it is of.
Stored ==
  CallExists =>
    /\ \A w \in Workers : work[w].pc \in {"indexed", "json stored", "stored"} => IsStored(work[w].run)
    /\ json # NoRun => IsStored(json)
    /\ md # NoRun => IsStored(md)

LEMMA NextStored ==
  ASSUME Sound, Stored, [Next]_vars
  PROVE  Stored'
<1> DEFINE Late == {"indexed", "json stored", "stored"}
<1> USE DEF Sound
<1> SUFFICES ASSUME CallExists' PROVE Stored'
  BY DEF Stored
<1>1. ASSUME NEW w \in Workers, Work(w) PROVE Stored'
  \* It is enough to look at the worker.
  <2>1. ASSUME CallExists, runs \subseteq runs', UNCHANGED blobVars,
               \A v \in Workers \ {w} : work'[v] = work[v],
               work'[w].pc \in Late => \E run \in runs' : SameRun(run, work'[w].run)
        PROVE  Stored'
    BY <2>1 DEF Stored, IsStored, blobVars
  <2>2. CASE Leaves(w) /\ CallExists /\ UNCHANGED <<runs, blobVars>>
    BY <2>1, <2>2, Left
  <2>3. CASE Fails(w) /\ UNCHANGED blobVars
    BY <2>2, <2>3 DEF Fails, CallExists
  <2>4. ASSUME CallExists, NEW pc \in {"transcribing", "inserted"}, Goto(w, pc), UNCHANGED <<runs, blobVars>>
        PROVE  Stored'
    BY <2>1, <2>4, Moves
  <2>5. ASSUME CallExists, NEW run, UNCHANGED <<runs, blobVars>>,
               work' = [work EXCEPT ![w] = [pc |-> "analyzing", run |-> run]]
        PROVE  Stored'
    BY <2>1, <2>5 DEF TypeOK
  <2>6. CASE Begin(w)
    BY <2>3, <2>4, <2>5, <2>6 DEF Begin, CallExists
  <2>7. CASE StoreTranscript(w)
    BY <2>3, <2>5, <2>7 DEF StoreTranscript
  <2>8. ASSUME NEW found \in Analyses, ReadVersion(w, found) PROVE Stored'
    <3>1. (\A v \in Workers \ {w} : work'[v] = work[v]) /\ work'[w].pc = "numbered"
      BY <2>8 DEF ReadVersion, TypeOK
    <3> QED BY <2>1, <2>8, <3>1 DEF ReadVersion, rowVars, CallExists
  <2>9. CASE Insert(w)
    BY <2>3, <2>4, <2>9 DEF Insert, rowVars
  <2>10. CASE CommitRun(w)
    <3>1. /\ \A v \in Workers \ {w} : work'[v] = work[v]
          /\ work'[w].run = work[w].run /\ CallExists /\ runs' = runs \cup {work[w].run}
      BY <2>10, Moves DEF CommitRun, Inserted, Numbered
    <3>2. SameRun(work[w].run, work'[w].run)
      BY <3>1 DEF SameRun
    <3> QED BY <2>1, <2>10, <3>1, <3>2 DEF CommitRun
  <2>11. CASE PutJson(w) \/ PutMarkdown(w)
    <3>1. /\ \A v \in Workers \ {w} : work'[v] = work[v]
          /\ work'[w].run = work[w].run
      BY <2>11, Moves DEF PutJson, PutMarkdown
    <3>2. CallExists /\ UNCHANGED runs
      BY <2>11 DEF PutJson, PutMarkdown, rowVars, CallExists
    <3>3. IsStored(work[w].run)
      BY <2>11, <3>2 DEF PutJson, PutMarkdown, At, Stored
    <3>4. json' \in {json, work[w].run} /\ md' \in {md, work[w].run}
      BY <2>11 DEF PutJson, PutMarkdown
    <3> QED BY <3>1, <3>2, <3>3, <3>4 DEF Stored, IsStored
  <2>12. CASE Finish(w)
    BY <2>2, <2>3, <2>12 DEF Finish
  <2>13. CASE Crash(w)
    BY <2>2, <2>13 DEF Crash, rowVars, CallExists
  <2> QED BY <1>1, <2>6, <2>7, <2>8, <2>9, <2>10, <2>11, <2>12, <2>13 DEF Work
<1>2. CASE PatchSpeakers
  <2>1. CallExists /\ UNCHANGED <<json, md, work>>
    BY <1>2 DEF PatchSpeakers, blobVars
  <2>2. ASSUME NEW artifact, IsStored(artifact) PROVE \E run \in runs' : SameRun(run, artifact)
    <3>1. PICK run \in runs : SameRun(run, artifact)
      BY <2>2 DEF IsStored
    <3> DEFINE patched == [run EXCEPT !.rows = {k \in @ : run.found.keys[k] # "fact"}]
    <3>2. patched.version = run.version /\ patched.found = run.found /\ patched.transcript = run.transcript
      BY DEF TypeOK, Run
    <3>3. patched \in runs'
      BY <1>2 DEF PatchSpeakers
    <3> QED BY <3>1, <3>2, <3>3 DEF SameRun
  <2> QED BY <2>1, <2>2 DEF Stored, IsStored
<1>3. CASE UNCHANGED <<status, runs, json, md, work>>
  BY <1>3 DEF Stored, IsStored, CallExists
<1>4. CASE Reanalyze
  BY <1>4 DEF Reanalyze, Stored, IsStored, CallExists, blobVars
<1>5. CASE DeleteCall
  BY <1>5 DEF DeleteCall, CallExists
<1>6. ASSUME NEW r \in Readers, Handle(r) PROVE Stored'
  BY <1>3, <1>6 DEF Handle, Request, FetchArtifact, ReadRun, ReadRefused, ReadRows, ReadLinks, Serve, Read,
     rowVars, blobVars
<1>7. CASE UNCHANGED vars
  BY <1>3, <1>7 DEF vars, rowVars, blobVars
<1> QED BY <1>1, <1>2, <1>4, <1>5, <1>6, <1>7 DEF Next

\* A report in the store is of a run that is in the database, for as long as the
\* call is: the commit of a run comes before its artifacts, and nothing removes
\* a run.
THEOREM ReportsAreStored == Spec => []ArtifactsAreStored
<1>1. Init => Stored
  <2>1. Init => json = NoRun /\ md = NoRun /\ \A w \in Workers : work[w].pc = "idle"
    BY DEF Init, Idle
  <2> QED BY <2>1 DEF Stored
<1>2. Stored => ArtifactsAreStored
  <2>1. \A artifact \in {json, md} \ {NoRun} : (artifact = json /\ json # NoRun) \/ (artifact = md /\ md # NoRun)
    OBVIOUS
  <2> QED BY <2>1, Zenon DEF Stored, IsStored, ArtifactsAreStored, CallExists
<1>3. Sound /\ Stored /\ [Next]_vars => Stored'
  BY NextStored
<1> QED BY <1>1, <1>2, <1>3, SoundAlways, PTL DEF Spec

-----------------------------------------------------------------------------
(* A worker that has the call to itself.                                   *)

\* What such a worker has done when it gets somewhere.
OwnRun(w) ==
  LET run == work[w].run
      pc  == work[w].pc
  IN /\ status \notin Ready
     /\ pc # "transcribing" => run.transcript = transcript
     /\ pc \in {"numbered", "inserted", "indexed", "json stored", "stored"} => run.rows = DOMAIN run.found.keys
     /\ pc \in {"indexed", "json stored", "stored"} => run \in runs /\ run.version = Cardinality(runs)
     /\ pc \in {"json stored", "stored"} => json = run
     /\ pc = "stored" => md = run

\* At most one worker is busy, and the work done is its own.
Alone ==
  CallExists /\ ~mixed =>
    /\ \A v, w \in Workers : Busy(v) /\ Busy(w) => v = w
    /\ \A w \in Workers : Busy(w) => OwnRun(w)
    /\ FinishedIsOfOneRun

\* The last run, when it is the one of a worker.
LEMMA LatestIs ==
  ASSUME Sound, NEW run \in runs, run.version = Cardinality(runs)
  PROVE  Latest = run
<1>1. Latest \in runs /\ Latest.version = Cardinality(runs) /\ RunsAreNumbered
  BY LatestRun DEF Sound, Numbered, TypeOK
<1> QED BY <1>1 DEF RunsAreNumbered

LEMMA InitAlone == Init => Alone
<1>1. Init => status \notin Ready /\ \A w \in Workers : ~Busy(w)
  BY DEF Init, Ready, Busy, At, Idle
<1>2. Init => FinishedIsOfOneRun
  BY <1>1 DEF FinishedIsOfOneRun
<1> QED BY <1>1, <1>2 DEF Alone

LEMMA WorkAlone ==
  ASSUME Sound, Alone, NEW w \in Workers, Work(w), CallExists', ~mixed'
  PROVE  Alone'
<1> USE DEF Sound
\* It is enough to look at the worker.
<1>1. ASSUME \A v \in Workers \ {w} : ~Busy(v), \A v \in Workers \ {w} : work'[v] = work[v],
             Busy(w)' => OwnRun(w)', ~Busy(w)' => FinishedIsOfOneRun'
      PROVE  Alone'
  <2>1. \A v \in Workers \ {w} : ~Busy(v)'
    BY <1>1 DEF Busy, At
  <2>2. (\A v \in Workers : ~Busy(v)') => FinishedIsOfOneRun'
    BY <1>1
  <2>3. (\E v \in Workers : Busy(v)') => FinishedIsOfOneRun'
    BY DEF FinishedIsOfOneRun
  <2> QED BY <1>1, <2>1, <2>2, <2>3 DEF Alone
<1>2. ASSUME \A v \in Workers \ {w} : ~Busy(v), Leaves(w), status' \notin Ready PROVE Alone'
  <2>1. ~Busy(w)' /\ \A v \in Workers \ {w} : work'[v] = work[v]
    BY <1>2, Left DEF Busy, At
  <2>2. FinishedIsOfOneRun'
    BY <1>2 DEF FinishedIsOfOneRun
  <2> QED BY <1>1, <1>2, <2>1, <2>2
<1>3. ASSUME \A v \in Workers \ {w} : ~Busy(v), Fails(w), status \notin {"SHIPPED", "PARTIAL"} PROVE Alone'
  BY <1>2, <1>3 DEF Fails, Ready
<1>4. ASSUME \A v \in Workers \ {w} : ~Busy(v), status' = "ANALYZING",
             NEW number, number = transcript',
             work' = [work EXCEPT ![w] = [pc |-> "analyzing", run |-> [NoRun EXCEPT !.transcript = number]]]
      PROVE  Alone'
  <2>1. \A v \in Workers \ {w} : work'[v] = work[v]
    BY <1>4 DEF TypeOK
  <2>2. work'[w] = [pc |-> "analyzing", run |-> [NoRun EXCEPT !.transcript = number]]
    BY <1>4 DEF TypeOK
  <2>3. work'[w].pc = "analyzing" /\ work'[w].run.transcript = transcript'
    BY <1>4, <2>2 DEF NoRun
  <2>4. OwnRun(w)'
    BY <1>4, <2>3 DEF OwnRun, Ready
  <2>5. Busy(w)'
    BY <2>3 DEF Busy, At
  <2> QED BY <1>1, <1>4, <2>1, <2>4, <2>5
<1>5. CASE Begin(w)
  <2>1. \A v \in Workers : ~Busy(v)
    BY <1>5, Zenon DEF Begin
  <2>2. CASE Goto(w, "transcribing") /\ status' = "TRANSCRIBING"
    <3>1. (\A v \in Workers \ {w} : work'[v] = work[v]) /\ work'[w].pc = "transcribing"
      BY <2>2, Moves
    <3>2. OwnRun(w)'
      BY <2>2, <3>1 DEF OwnRun, Ready
    <3> QED BY <1>1, <2>1, <3>1, <3>2 DEF Busy, At
  <2>3. CASE Fails(w) /\ status \in {"TRANSCRIBING", "INDEXING"}
    BY <1>3, <2>1, <2>3
  <2>4. CASE /\ work' = [work EXCEPT ![w] = [pc |-> "analyzing", run |-> [NoRun EXCEPT !.transcript = transcript]]]
             /\ status' = "ANALYZING" /\ UNCHANGED transcript
    BY <1>4, <2>1, <2>4
  <2>5. \/ Goto(w, "transcribing") /\ status' = "TRANSCRIBING"
        \/ Fails(w) /\ status \in {"TRANSCRIBING", "INDEXING"}
        \/ /\ work' = [work EXCEPT ![w] = [pc |-> "analyzing", run |-> [NoRun EXCEPT !.transcript = transcript]]]
           /\ status' = "ANALYZING" /\ UNCHANGED transcript
    BY <1>5 DEF Begin
  <2> QED BY <2>2, <2>3, <2>4, <2>5
<1>6. CASE ~Begin(w)
  <2>1. UNCHANGED mixed /\ Busy(w)
    BY <1>6 DEF Work, StoreTranscript, ReadVersion, Insert, CommitRun, Inserted, PutJson, PutMarkdown, Finish, Crash,
       Busy, At
  <2>2. CallExists
    BY <1>6 DEF Work, StoreTranscript, ReadVersion, Insert, CommitRun, Inserted, PutJson, PutMarkdown, Finish, Crash,
       Fails, Numbered, rowVars, CallExists
  <2>3. OwnRun(w) /\ status \notin Ready /\ \A v \in Workers \ {w} : ~Busy(v)
    BY <2>1, <2>2 DEF Alone, OwnRun
  \* A step that only moves on.
  <2>4. ASSUME NEW pc, Goto(w, pc), pc # "idle", OwnRun(w)' PROVE Alone'
    BY <1>1, <2>3, <2>4, Moves DEF Busy, At
  <2>5. CASE Fails(w)
    BY <1>3, <2>3, <2>5 DEF Ready
  <2>6. CASE StoreTranscript(w)
    BY <1>4, <2>2, <2>3, <2>6 DEF StoreTranscript
  <2>7. ASSUME NEW found \in Analyses, ReadVersion(w, found) PROVE Alone'
    <3>1. (\A v \in Workers \ {w} : work'[v] = work[v]) /\ At(w, "analyzing") /\ UNCHANGED <<status, transcript>>
      BY <2>7 DEF ReadVersion, TypeOK, rowVars
    <3>2. /\ work'[w].pc = "numbered" /\ work'[w].run.rows = DOMAIN work'[w].run.found.keys
          /\ work'[w].run.transcript = work[w].run.transcript
      BY <2>7, Works DEF ReadVersion, TypeOK, Run
    <3>3. OwnRun(w)' /\ Busy(w)'
      BY <2>3, <3>1, <3>2 DEF OwnRun, At, Busy
    <3> QED BY <1>1, <2>3, <3>1, <3>3
  <2>8. CASE Insert(w)
    <3>1. CASE Goto(w, "inserted") /\ UNCHANGED rowVars
      <4>1. work'[w].pc = "inserted" /\ work'[w].run = work[w].run /\ At(w, "numbered")
        BY <2>8, <3>1, Moves DEF Insert
      <4>2. OwnRun(w)'
        BY <2>3, <3>1, <4>1 DEF OwnRun, At, rowVars
      <4> QED BY <2>4, <3>1, <4>2
    <3> QED BY <2>5, <2>8, <3>1 DEF Insert
  <2>9. CASE CommitRun(w)
    <3>1. work'[w].pc = "indexed" /\ work'[w].run = work[w].run /\ At(w, "inserted") /\ Goto(w, "indexed")
      BY <2>9, Moves DEF CommitRun, Inserted
    <3>2. runs' = runs \cup {work[w].run} /\ status' = "INDEXING" /\ UNCHANGED transcript
      BY <2>9 DEF CommitRun
    <3>3. Cardinality(runs) \in Nat /\ work[w].run.version = Cardinality(runs) + 1
      BY <3>1, FS_CardinalityType DEF Numbered
    <3>4. \A run \in runs : run.version \in 1..Cardinality(runs)
      BY DEF Numbered, RunsAreNumbered, Versions
    <3>5. work[w].run \notin runs
      BY <3>3, <3>4
    <3>6. Cardinality(runs') = Cardinality(runs) + 1
      BY <3>2, <3>5, FS_AddElement DEF Numbered
    <3>7. OwnRun(w)'
      BY <2>3, <3>1, <3>2, <3>3, <3>6 DEF OwnRun, At, Ready
    <3> QED BY <2>4, <3>1, <3>7
  <2>10. CASE PutJson(w)
    <3>1. /\ work'[w].pc = "json stored" /\ work'[w].run = work[w].run /\ At(w, "indexed")
          /\ Goto(w, "json stored") /\ json' = work[w].run /\ UNCHANGED rowVars
      BY <2>10, Moves DEF PutJson
    <3>2. OwnRun(w)'
      BY <2>3, <3>1 DEF OwnRun, At, rowVars
    <3> QED BY <2>4, <3>1, <3>2
  <2>11. CASE PutMarkdown(w)
    <3>1. /\ work'[w].pc = "stored" /\ work'[w].run = work[w].run /\ At(w, "json stored")
          /\ Goto(w, "stored") /\ md' = work[w].run /\ UNCHANGED <<rowVars, json>>
      BY <2>11, Moves DEF PutMarkdown
    <3>2. OwnRun(w)'
      BY <2>3, <3>1 DEF OwnRun, At, rowVars
    <3> QED BY <2>4, <3>1, <3>2
  <2>12. CASE Finish(w)
    <3>1. /\ status' = work[w].run.found.outcome /\ Leaves(w) /\ UNCHANGED <<transcript, runs, json, md>>
          /\ At(w, "stored")
      BY <2>2, <2>12 DEF Finish, blobVars
    <3>2. Latest = work[w].run /\ json = work[w].run /\ md = work[w].run
          /\ work[w].run.transcript = transcript /\ work[w].run.rows = DOMAIN work[w].run.found.keys
      BY <2>3, <3>1, LatestIs DEF OwnRun, At
    <3>3. Latest' = Latest
      BY <3>1 DEF Latest
    <3>4. FinishedIsOfOneRun'
      BY <3>1, <3>2, <3>3 DEF FinishedIsOfOneRun, SameRun
    <3>5. ~Busy(w)' /\ \A v \in Workers \ {w} : work'[v] = work[v]
      BY <3>1, Left DEF Busy, At
    <3> QED BY <1>1, <2>3, <3>4, <3>5
  <2>13. CASE Crash(w)
    BY <1>2, <2>3, <2>13 DEF Crash, rowVars
  <2> QED BY <1>6, <2>6, <2>7, <2>8, <2>9, <2>10, <2>11, <2>12, <2>13 DEF Work
<1> QED BY <1>5, <1>6

LEMMA NextAlone ==
  ASSUME Sound, Alone, [Next]_vars
  PROVE  Alone'
<1> SUFFICES ASSUME CallExists', ~mixed' PROVE Alone'
  BY DEF Alone
<1>1. ASSUME NEW w \in Workers, Work(w) PROVE Alone'
  BY <1>1, WorkAlone
<1>2. ASSUME UNCHANGED <<transcript, json, md, work, mixed>>, CallExists, status' = status \/ status' \notin Ready,
             UNCHANGED runs \/ \A w \in Workers : ~Busy(w), UNCHANGED runs \/ status' \notin Ready
      PROVE  Alone'
  <2>1. \A w \in Workers : Busy(w)' <=> Busy(w)
    BY <1>2 DEF Busy, At
  <2>2. ASSUME NEW w \in Workers, Busy(w)' PROVE OwnRun(w)'
    BY <1>2, <2>1, <2>2 DEF Alone, OwnRun
  <2>3. status' \in Ready => UNCHANGED <<status, runs>>
    BY <1>2
  <2>4. FinishedIsOfOneRun'
    BY <1>2, <2>1, <2>3 DEF Alone, FinishedIsOfOneRun, Latest
  <2> QED BY <1>2, <2>1, <2>2, <2>4 DEF Alone
<1>3. CASE Reanalyze
  BY <1>2, <1>3 DEF Reanalyze, Ready, CallExists, blobVars
<1>4. CASE PatchSpeakers
  <2>1. ~mixed /\ \A w \in Workers : ~Busy(w)
    BY <1>4, Zenon DEF PatchSpeakers
  <2>2. mixed' = mixed
    <3>1. mixed' \in BOOLEAN
      BY <1>4, Zenon DEF PatchSpeakers
    <3> QED BY <2>1, <3>1 DEF Sound, TypeOK
  <2>3. status' = IF status \in {"SHIPPED", "PARTIAL", "FAILED"} THEN "ANALYZING" ELSE status
    BY <1>4, Zenon DEF PatchSpeakers
  <2>4. status' \notin Ready
    BY <2>3 DEF Ready
  <2>5. CallExists /\ UNCHANGED <<transcript, json, md, work>>
    BY <1>4, Zenon DEF PatchSpeakers, blobVars
  <2> QED BY <1>2, <2>1, <2>2, <2>4, <2>5
<1>5. CASE DeleteCall
  BY <1>5 DEF DeleteCall, CallExists
<1>6. CASE UNCHANGED <<rowVars, json, md, work, mixed>>
  BY <1>2, <1>6 DEF rowVars, CallExists
<1>7. ASSUME NEW r \in Readers, Handle(r) PROVE Alone'
  BY <1>6, <1>7 DEF Handle, Request, FetchArtifact, ReadRun, ReadRefused, ReadRows, ReadLinks, Serve, Read, blobVars
<1>8. CASE UNCHANGED vars
  BY <1>6, <1>8 DEF vars, blobVars
<1> QED BY <1>1, <1>3, <1>4, <1>5, <1>7, <1>8 DEF Next

\* A call that the last worker had to itself is finished with the artifacts and
\* the insights of one run, whatever crashed, failed or was corrected before.
THEOREM FinishedByOneRun == Spec => []FinishedIsOfOneRun
<1>2. Alone => FinishedIsOfOneRun
  <2>1. status \in Ready => CallExists
    BY DEF Ready, CallExists
  <2> QED BY <2>1 DEF Alone, FinishedIsOfOneRun
<1>3. Sound /\ Alone /\ [Next]_vars => Alone'
  BY NextAlone
<1> QED BY <1>2, <1>3, InitAlone, SoundAlways, PTL DEF Spec

-----------------------------------------------------------------------------
(* Pairing the insights of a report with rows.                             *)

Same(report, i, run, rows, links) == {k \in rows : SameInsight(report, i, run, k, links)}
Before(keys, i) == {j \in 1..i - 1 : keys[j] = keys[i]}
Below(S, k) == {j \in S : j < k}

\* The row that is next for an insight.
NextRow(report, i, run, rows, links) ==
  {k \in Same(report, i, run, rows, links) :
     Cardinality(Below(Same(report, i, run, rows, links), k)) = Cardinality(Before(report.found.keys, i))}

\* There are finitely many numbers below another.
LEMMA BelowIsFinite ==
  ASSUME NEW S, S \subseteq Nat, NEW k \in Nat
  PROVE  IsFiniteSet(Below(S, k)) /\ Cardinality(Below(S, k)) \in Nat
<1>1. Below(S, k) \subseteq Nat
  BY DEF Below
<1>2. \A n \in Below(S, k) : n <= k
  BY DEF Below
<1> QED BY <1>1, <1>2, FS_BoundedSetOfNaturals, FS_CardinalityType

\* Of two members of a set of numbers the greater has more of it below.
LEMMA BelowGrows ==
  ASSUME NEW S, S \subseteq Nat, NEW j \in S, NEW k \in S, j < k
  PROVE  Cardinality(Below(S, j)) # Cardinality(Below(S, k))
<1>1. j \in Nat /\ k \in Nat
  OBVIOUS
<1>2. ASSUME NEW n \in Below(S, j) PROVE n \in Below(S, k)
  BY <1>1, <1>2 DEF Below
<1>3. j \in Below(S, k) /\ j \notin Below(S, j)
  BY <1>1 DEF Below
<1> QED BY <1>1, <1>2, <1>3, BelowIsFinite, FS_Subset

\* A number of a set is told by how many are below it.
LEMMA BelowTells ==
  ASSUME NEW S, S \subseteq Nat, NEW j \in S, NEW k \in S,
         Cardinality(Below(S, j)) = Cardinality(Below(S, k))
  PROVE  j = k
<1>1. j \in Nat /\ k \in Nat
  OBVIOUS
<1>2. ~(j < k)
  BY BelowGrows
<1>3. ~(k < j)
  BY BelowGrows
<1> QED BY <1>1, <1>2, <1>3

\* Of two insights with the same content the later has more of it before.
LEMMA BeforeGrows ==
  ASSUME NEW keys \in Seq(Keys), NEW i \in DOMAIN keys, NEW j \in DOMAIN keys, i < j, keys[i] = keys[j]
  PROVE  Cardinality(Before(keys, i)) # Cardinality(Before(keys, j))
<1>1. i \in Nat /\ j \in Nat
  OBVIOUS
<1>2. IsFiniteSet(1..j - 1)
  BY <1>1, FS_Interval
<1>3. Before(keys, j) \subseteq 1..j - 1 /\ Before(keys, i) \subseteq Before(keys, j)
  BY <1>1 DEF Before
<1>4. IsFiniteSet(Before(keys, j))
  BY <1>2, <1>3, FS_Subset
<1>5. i \in Before(keys, j) /\ i \notin Before(keys, i)
  BY <1>1 DEF Before
<1> QED BY <1>3, <1>4, <1>5, FS_Subset

\* What attach_insight_ids gives an insight.
LEMMA AttachedIs ==
  ASSUME NEW report \in Run, NEW run \in Run, NEW rows, NEW links, NEW i \in DOMAIN report.found.keys
  PROVE  LET shown == Attached(report, run, rows, links)[i]
             next  == NextRow(report, i, run, rows, links)
         IN  (next = {} /\ shown = 0) \/ shown \in next
BY DEF Attached, NextRow, Same, Before, Below

\* No row is given to two insights.
LEMMA IdsDiffer ==
  ASSUME NEW report \in Run, NEW run \in Run, NEW rows, NEW links, report.found.keys \in Seq(Keys),
         NEW i \in DOMAIN report.found.keys, NEW j \in DOMAIN report.found.keys, i # j,
         Attached(report, run, rows, links)[i] # 0
  PROVE  Attached(report, run, rows, links)[i] # Attached(report, run, rows, links)[j]
<1> DEFINE keys == report.found.keys
           id   == Attached(report, run, rows, links)[i]
<1> SUFFICES ASSUME id = Attached(report, run, rows, links)[j] PROVE FALSE
  OBVIOUS
<1>1. id \in NextRow(report, i, run, rows, links) /\ id \in NextRow(report, j, run, rows, links)
  BY AttachedIs
<1>2. keys[i] = run.found.keys[id] /\ keys[j] = run.found.keys[id]
  BY <1>1 DEF NextRow, Same, SameInsight
<1>3. Same(report, i, run, rows, links) = Same(report, j, run, rows, links)
  BY <1>2 DEF Same, SameInsight
<1>4. Cardinality(Before(keys, i)) = Cardinality(Before(keys, j))
  BY <1>1, <1>3 DEF NextRow
<1>5. i \in Nat /\ j \in Nat
  OBVIOUS
<1>6. ~(i < j)
  BY <1>2, <1>4, BeforeGrows
<1>7. ~(j < i)
  BY <1>2, <1>4, BeforeGrows
<1> QED BY <1>5, <1>6, <1>7

\* A report of the run with all its rows has the id of every insight.
LEMMA IdsComplete ==
  ASSUME NEW report \in Run, NEW run \in Run, report.found.keys \in Seq(Keys),
         report.found = run.found, report.transcript = run.transcript
  PROVE  LET all == DOMAIN run.found.keys IN
         \A i \in all : Attached(report, run, all, all)[i] = i
<1> DEFINE keys == run.found.keys
           all  == DOMAIN keys
<1>1. SUFFICES ASSUME NEW i \in all PROVE Attached(report, run, all, all)[i] = i
  OBVIOUS
<1>2. all \subseteq Nat /\ i \in Nat /\ i # 0
  OBVIOUS
<1>3. Same(report, i, run, all, all) = {k \in all : keys[i] = keys[k]}
  BY DEF Same, SameInsight
<1> DEFINE same == Same(report, i, run, all, all)
<1>4. i \in same /\ same \subseteq Nat
  BY <1>2, <1>3
<1>5. Below(same, i) = Before(keys, i)
  BY <1>2, <1>3 DEF Below, Before
<1>6. i \in NextRow(report, i, run, all, all)
  BY <1>4, <1>5 DEF NextRow
<1>7. \A k \in NextRow(report, i, run, all, all) : k = i
  BY <1>4, <1>5, BelowTells DEF NextRow
<1> QED BY <1>6, <1>7, AttachedIs

-----------------------------------------------------------------------------
(* What is left of the rows of a run: all of them, or all but the facts.   *)

Written == {"numbered", "inserted", "indexed", "json stored", "stored"}

Facts(run) == {k \in DOMAIN run.found.keys : run.found.keys[k] = "fact"}

Whole(run) == run.rows = DOMAIN run.found.keys

RowsLeft ==
  /\ patches \in Nat
  /\ \A w \in Workers : work[w].pc \in Written => Whole(work[w].run)
  /\ \A run \in runs : /\ run.found \in Analyses
                       /\ Whole(run) \/ (patches > 0 /\ run.rows = DOMAIN run.found.keys \ Facts(run))

LEMMA NextRowsLeft ==
  ASSUME Sound, RowsLeft, [Next]_vars
  PROVE  RowsLeft'
<1> USE DEF Sound
<1>1. ASSUME NEW w \in Workers, Work(w) PROVE RowsLeft'
  <2>1. ASSUME UNCHANGED <<runs, patches>>, \A v \in Workers \ {w} : work'[v] = work[v],
               work'[w].pc \in Written => Whole(work'[w].run)
        PROVE  RowsLeft'
    BY <2>1 DEF RowsLeft
  <2>2. ASSUME UNCHANGED <<runs, patches>>, Leaves(w) PROVE RowsLeft'
    BY <2>1, <2>2, Left DEF Written
  <2>3. ASSUME UNCHANGED <<runs, patches>>, NEW pc, Goto(w, pc), pc \notin Written \/ work[w].pc \in Written
        PROVE  RowsLeft'
    <3>1. (\A v \in Workers \ {w} : work'[v] = work[v]) /\ work'[w].pc = pc /\ work'[w].run = work[w].run
      BY <2>3, Moves
    <3> QED BY <2>1, <2>3, <3>1 DEF RowsLeft
  <2>4. ASSUME UNCHANGED <<runs, patches>>, NEW run,
               work' = [work EXCEPT ![w] = [pc |-> "analyzing", run |-> run]]
        PROVE  RowsLeft'
    BY <2>1, <2>4 DEF TypeOK, Written
  <2>5. ASSUME NEW found \in Analyses, ReadVersion(w, found) PROVE RowsLeft'
    <3>1. (\A v \in Workers \ {w} : work'[v] = work[v]) /\ Whole(work'[w].run)
      BY <2>5, Works DEF ReadVersion, TypeOK, Run, Whole
    <3> QED BY <2>1, <2>5, <3>1 DEF ReadVersion, rowVars, bounds
  <2>6. CASE Begin(w)
    <3>1. UNCHANGED <<runs, patches>>
      BY <2>6 DEF Begin, Fails
    <3>2. CASE Goto(w, "transcribing")
      BY <2>3, <3>1, <3>2 DEF Written
    <3> QED BY <2>2, <2>4, <2>6, <3>1, <3>2 DEF Begin, Fails
  <2>7. CASE StoreTranscript(w)
    BY <2>2, <2>4, <2>7 DEF StoreTranscript, Fails, bounds
  <2>8. CASE Insert(w)
    BY <2>2, <2>3, <2>8 DEF Insert, Fails, At, Written, rowVars, bounds
  <2>9. CASE CommitRun(w)
    <3>1. work[w].run.found \in Analyses /\ Whole(work[w].run)
      BY <2>9 DEF CommitRun, Inserted, At, Analysed, RowsLeft, Written
    <3>2. runs' = runs \cup {work[w].run} /\ patches' = patches
      BY <2>9 DEF CommitRun, bounds
    <3>3. (\A v \in Workers \ {w} : work'[v] = work[v]) /\ work'[w].run = work[w].run
      BY <2>9, Moves DEF CommitRun
    <3> QED BY <3>1, <3>2, <3>3 DEF RowsLeft
  <2>10. CASE PutJson(w) \/ PutMarkdown(w)
    BY <2>3, <2>10 DEF PutJson, PutMarkdown, At, Written, rowVars, bounds
  <2>11. CASE Finish(w) \/ Crash(w)
    BY <2>2, <2>11 DEF Finish, Crash, Fails, rowVars, bounds
  <2> QED BY <1>1, <2>5, <2>6, <2>7, <2>8, <2>9, <2>10, <2>11 DEF Work
<1>2. CASE PatchSpeakers
  <2>1. patches' = patches + 1 /\ work' = work
        /\ runs' = {[run EXCEPT !.rows = {k \in @ : run.found.keys[k] # "fact"}] : run \in runs}
    BY <1>2, Zenon DEF PatchSpeakers
  <2>2. patches' \in Nat /\ patches' > 0
    BY <2>1 DEF RowsLeft
  <2>3. ASSUME NEW run \in runs'
        PROVE  run.found \in Analyses /\ run.rows = DOMAIN run.found.keys \ Facts(run)
    <3>1. PICK old \in runs : run = [old EXCEPT !.rows = {k \in @ : old.found.keys[k] # "fact"}]
      BY <2>1
    <3>2. old \in Run
      BY DEF TypeOK
    <3>3. run.found = old.found /\ run.rows = {k \in old.rows : old.found.keys[k] # "fact"}
      BY <3>1, <3>2 DEF Run
    <3>4. old.found \in Analyses /\ (Whole(old) \/ old.rows = DOMAIN old.found.keys \ Facts(old))
      BY DEF RowsLeft
    <3> QED BY <3>3, <3>4 DEF Whole, Facts
  <2> QED BY <2>1, <2>2, <2>3 DEF RowsLeft
<1>3. CASE DeleteCall
  BY <1>3 DEF DeleteCall, RowsLeft, bounds
<1>4. CASE UNCHANGED <<runs, work, patches>>
  BY <1>4 DEF RowsLeft
<1>5. ASSUME NEW r \in Readers, Handle(r) PROVE UNCHANGED <<runs, work, patches>>
  BY <1>5 DEF Handle, Request, FetchArtifact, ReadRun, ReadRefused, ReadRows, ReadLinks, Serve, Read, rowVars, bounds
<1>6. CASE Reanalyze
  BY <1>4, <1>6 DEF Reanalyze, bounds
<1> QED BY <1>1, <1>2, <1>3, <1>4, <1>5, <1>6 DEF Next, vars, rowVars, bounds

-----------------------------------------------------------------------------
(* What a request has read.                                                *)

ReadPc == {"idle", "artifact", "run", "refused", "rows", "links", "served"}

\* The ids beside the insights of a report, 0 for none.
Ids == UNION {[1..n -> Nat] : n \in Nat}

Record ==
  [ pc : ReadPc, kind : {"none", "report", "refusals"}, json : Run, run : Run,
    rows : SUBSET Nat, links : SUBSET Nat, refused : Nat, shown : Ids, disturbed : BOOLEAN ]

\* Its steps are those of its kind, and the ids it shows are of what it read.
Consistent(m) ==
  /\ m.pc # "idle" => m.kind # "none"
  /\ m.pc \in {"artifact", "links"} => m.kind = "report"
  /\ m.pc = "refused" => m.kind = "refusals"
  /\ m.kind = "report" /\ m.pc = "served" => m.shown = Attached(m.json, m.run, m.rows, m.links)

\* What an undisturbed request has read is still there.
Fresh(m) ==
  m.pc # "idle" /\ ~m.disturbed =>
    /\ m.kind = "report" => status \in Ready
    /\ m.kind = "report" /\ m.pc # "artifact" => m.json = json
    /\ m.pc \notin {"artifact", "run"} => m.run = Latest
    /\ m.kind = "refusals" /\ m.pc \in {"rows", "served"} => m.refused = RefusedNow(m.run)
    /\ m.pc \in {"links", "served"} => m.rows = RowsNow(m.run)
    /\ m.kind = "report" /\ m.pc = "served" => m.links = LinkedNow(m.run)

ReadersKept ==
  /\ reader \in [Readers -> Record]
  /\ \A r \in Readers : Consistent(reader[r]) /\ Fresh(reader[r])

LEMMA NowTypes ==
  ASSUME Sound, NEW run \in Run
  PROVE  /\ RowsNow(run) \subseteq Nat /\ LinkedNow(run) \subseteq Nat
         /\ RefusedNow(run) \in Nat
         /\ Latest \in Run
<1>1. \A x \in runs : x.rows \subseteq Nat
  BY DEF Sound, TypeOK, Run
<1>2. RowsNow(run) \subseteq Nat
  BY <1>1 DEF RowsNow
<1>3. RefusedNow(run) \in Nat
  BY ReadersAssumption DEF RefusedNow, Run, NoRun
<1> QED BY <1>2, <1>3, LatestRun DEF LinkedNow, Sound, TypeOK, Numbered

LEMMA KeysType ==
  ASSUME NEW run \in Run
  PROVE  run.found.keys \in Seq(Keys)
<1>1. run.found \in Analyses \cup {NoRun.found}
  BY DEF Run
<1>2. NoRun.found.keys = <<>>
  BY DEF NoRun
<1>3. CASE run.found \in Analyses
  BY <1>3, ReadersAssumption
<1>4. CASE run.found.keys = <<>>
  BY <1>4
<1> QED BY <1>1, <1>2, <1>3, <1>4

LEMMA AttachedType ==
  ASSUME NEW report \in Run, NEW run \in Run, NEW rows, rows \subseteq Nat, NEW links
  PROVE  Attached(report, run, rows, links) \in Ids
<1> DEFINE shown == Attached(report, run, rows, links)
<1>1. ASSUME NEW i \in DOMAIN report.found.keys PROVE shown[i] \in Nat
  <2>1. shown[i] = 0 \/ shown[i] \in NextRow(report, i, run, rows, links)
    BY AttachedIs
  <2>2. NextRow(report, i, run, rows, links) \subseteq rows
    BY DEF NextRow, Same
  <2> HIDE DEF shown
  <2>3. CASE shown[i] = 0
    BY <2>3
  <2>4. CASE shown[i] \in rows
    BY <2>4
  <2> QED BY <2>1, <2>2, <2>3, <2>4, Zenon
<1>2. DOMAIN shown = 1..Len(report.found.keys) /\ Len(report.found.keys) \in Nat
  BY KeysType DEF Attached
<1>3. shown = [i \in DOMAIN report.found.keys |-> shown[i]]
  BY DEF Attached
<1>4. DOMAIN report.found.keys = 1..Len(report.found.keys)
  BY KeysType
<1> HIDE DEF shown
<1>5. shown \in [1..Len(report.found.keys) -> Nat]
  BY <1>1, <1>3, <1>4
<1>6. shown \in Ids
  BY <1>2, <1>5, Zenon DEF Ids
<1> QED BY <1>6 DEF shown

\* What is written disturbs the requests that are open.
LEMMA DisturbKeeps ==
  ASSUME ReadersKept, Disturb
  PROVE  ReadersKept'
<1>1. ASSUME NEW r \in Readers
      PROVE  /\ reader'[r] \in Record
             /\ reader'[r].pc # "idle" => reader'[r].disturbed
             /\ Consistent(reader'[r])
  <2>1. reader[r] \in Record /\ Consistent(reader[r])
    BY DEF ReadersKept
  <2>2. reader'[r] = IF reader[r].pc = "idle" THEN reader[r] ELSE [reader[r] EXCEPT !.disturbed = TRUE]
    BY DEF Disturb
  <2> QED BY <2>1, <2>2 DEF Record, Consistent
<1>2. reader' = [r \in Readers |-> reader'[r]]
  BY DEF Disturb
<1>3. reader' \in [Readers -> Record]
  BY <1>1, <1>2
<1>4. \A r \in Readers : Consistent(reader[r])' /\ Fresh(reader[r])'
  BY <1>1 DEF Consistent, Fresh
<1> QED BY <1>3, <1>4 DEF ReadersKept

\* A request that reads leaves everything else alone.
LEMMA ReadKeeps ==
  ASSUME ReadersKept, NEW r \in Readers, NEW m \in Record, Read(r, m), Consistent(m), Fresh(m)
  PROVE  ReadersKept'
<1>1. reader' = [reader EXCEPT ![r] = m] /\ UNCHANGED <<status, transcript, runs, json>>
  BY DEF Read, rowVars, blobVars
<1>2. reader' \in [Readers -> Record]
  BY <1>1 DEF ReadersKept
<1>3. ASSUME NEW x \in Readers PROVE Consistent(reader[x])' /\ Fresh(reader[x])'
  <2>1. Consistent(reader'[x]) /\ Fresh(reader'[x])
    BY <1>1 DEF ReadersKept
  <2> QED BY <1>1, <2>1 DEF Consistent, Fresh, Latest, RefusedNow, Versions, RowsNow, LinkedNow
<1> QED BY <1>2, <1>3 DEF ReadersKept

LEMMA HandleKeeps ==
  ASSUME Sound, ReadersKept, NEW r \in Readers, Handle(r)
  PROVE  ReadersKept'
<1> DEFINE m == reader[r]
<1>1. m \in Record /\ Consistent(m) /\ Fresh(m)
  BY DEF ReadersKept
<1>r. NoRead \in Record /\ Consistent(NoRead) /\ Fresh(NoRead)
  <2>1. NoRead.shown \in Ids
    BY DEF NoRead, Ids
  <2>2. NoRead.json \in Run /\ NoRead.run \in Run
    BY NoRunType DEF NoRead
  <2> QED BY <2>1, <2>2 DEF Record, ReadPc, NoRead, Consistent, Fresh
<1>2. ASSUME NEW kind \in {"report", "refusals"}, Request(r, kind) PROVE ReadersKept'
  <2> DEFINE n == [NoRead EXCEPT !.pc = IF kind = "report" THEN "artifact" ELSE "run", !.kind = kind]
  <2>1. n \in Record
    BY <1>r DEF Record, ReadPc
  <2>2. n.pc = (IF kind = "report" THEN "artifact" ELSE "run") /\ n.kind = kind
    BY DEF NoRead
  <2>3. kind = "report" => status \in Ready
    BY <1>2 DEF Request
  <2>4. Read(r, n)
    BY <1>2 DEF Request
  <2> HIDE DEF n
  <2>5. Consistent(n) /\ Fresh(n)
    BY <2>2, <2>3 DEF Consistent, Fresh
  <2> QED BY <2>1, <2>4, <2>5, ReadKeeps
<1>3. CASE FetchArtifact(r)
  <2> DEFINE n == [m EXCEPT !.pc = "run", !.json = json]
  <2>1. n \in Record
    BY <1>1 DEF Record, ReadPc, Sound, TypeOK
  <2>2. Consistent(n) /\ Fresh(n)
    BY <1>1, <1>3 DEF Record, Consistent, Fresh, FetchArtifact, Reads
  <2>3. Read(r, n)
    BY <1>3 DEF FetchArtifact
  <2> HIDE DEF n
  <2> QED BY <2>1, <2>2, <2>3, ReadKeeps
<1>4. CASE ReadRun(r)
  <2> DEFINE n == [m EXCEPT !.run = Latest, !.pc = IF m.kind = "report" THEN "rows" ELSE "refused"]
  <2>1. n \in Record
    BY <1>1, NowTypes, NoRunType DEF Record, ReadPc
  <2>2. Consistent(n) /\ Fresh(n)
    BY <1>1, <1>4 DEF Record, Consistent, Fresh, ReadRun, Reads
  <2>3. Read(r, n)
    BY <1>4 DEF ReadRun
  <2> HIDE DEF n
  <2> QED BY <2>1, <2>2, <2>3, ReadKeeps
<1>5. CASE ReadRefused(r)
  <2> DEFINE n == [m EXCEPT !.refused = RefusedNow(m.run), !.pc = "rows"]
  <2>0. m.run \in Run
    BY <1>1 DEF Record
  <2>1. n \in Record
    BY <1>1, <2>0, NowTypes DEF Record, ReadPc
  <2>2. Consistent(n) /\ Fresh(n)
    BY <1>1, <1>5 DEF Record, Consistent, Fresh, ReadRefused, Reads
  <2>3. Read(r, n)
    BY <1>5 DEF ReadRefused
  <2> HIDE DEF n
  <2> QED BY <2>1, <2>2, <2>3, ReadKeeps
<1>6. CASE ReadRows(r)
  <2> DEFINE n == [m EXCEPT !.rows = RowsNow(m.run), !.pc = IF m.kind = "report" THEN "links" ELSE "served"]
  <2>0. m.run \in Run
    BY <1>1 DEF Record
  <2>1. n \in Record
    BY <1>1, <2>0, NowTypes DEF Record, ReadPc
  <2>2. Consistent(n) /\ Fresh(n)
    BY <1>1, <1>6 DEF Record, Consistent, Fresh, ReadRows, Reads
  <2>3. Read(r, n)
    BY <1>6 DEF ReadRows
  <2> HIDE DEF n
  <2> QED BY <2>1, <2>2, <2>3, ReadKeeps
<1>7. CASE ReadLinks(r)
  <2> DEFINE links == LinkedNow(m.run)
             n == [m EXCEPT !.links = links, !.shown = Attached(m.json, m.run, m.rows, links), !.pc = "served"]
  <2>0. m.run \in Run /\ m.json \in Run /\ m.rows \subseteq Nat
    BY <1>1 DEF Record
  <2>1. links \subseteq Nat /\ Attached(m.json, m.run, m.rows, links) \in Ids
    BY <2>0, NowTypes, AttachedType
  <2>2. n \in Record
    BY <1>1, <2>1 DEF Record, ReadPc
  <2>3. Consistent(n) /\ Fresh(n)
    BY <1>1, <1>7 DEF Record, Consistent, Fresh, ReadLinks, Reads
  <2>4. Read(r, n)
    BY <1>7 DEF ReadLinks
  <2> HIDE DEF n
  <2> QED BY <2>2, <2>3, <2>4, ReadKeeps
<1>8. CASE Serve(r)
  BY <1>8, <1>r, ReadKeeps DEF Serve
<1> QED BY <1>2, <1>3, <1>4, <1>5, <1>6, <1>7, <1>8 DEF Handle

LEMMA NextReaders ==
  ASSUME Sound, ReadersKept, [Next]_vars
  PROVE  ReadersKept'
<1>1. CASE UNCHANGED <<reader, status, transcript, runs, json>>
  BY <1>1 DEF ReadersKept, Consistent, Fresh, Latest, RefusedNow, Versions, RowsNow, LinkedNow
<1>2. ASSUME NEW w \in Workers, Work(w) PROVE ReadersKept'
  BY <1>1, <1>2, DisturbKeeps
     DEF Work, Begin, StoreTranscript, ReadVersion, Insert, CommitRun, PutJson, PutMarkdown, Finish, Crash,
         rowVars, blobVars
<1>3. ASSUME NEW r \in Readers, Handle(r) PROVE ReadersKept'
  BY <1>3, HandleKeeps
<1>4. CASE Reanalyze \/ PatchSpeakers \/ DeleteCall
  BY <1>4, DisturbKeeps DEF Reanalyze, PatchSpeakers, DeleteCall
<1>5. CASE UNCHANGED vars
  BY <1>1, <1>5 DEF vars, rowVars, blobVars
<1> QED BY <1>2, <1>3, <1>4, <1>5 DEF Next

-----------------------------------------------------------------------------
(* What a report and the refusals say.                                     *)

LEMMA RowsAre ==
  ASSUME Sound, NEW run \in runs
  PROVE  RowsNow(run) = run.rows /\ RefusedNow(run) = run.found.refused
<1>1. \A x \in runs : x.version = run.version => x = run
  BY DEF Sound, Numbered, RunsAreNumbered
<1>2. {x \in runs : x.version = run.version} = {run}
  BY <1>1
<1>3. run.version \in Versions
  BY DEF Versions
<1> QED BY <1>2, <1>3 DEF RowsNow, RefusedNow

\* A finished call whose last run had it to itself is one nobody works on.
LEMMA FinishedAlone ==
  ASSUME Sound, Alone, status \in Ready, ~mixed
  PROVE  /\ Latest \in runs /\ SameRun(json, Latest)
         /\ Latest.transcript = transcript
         /\ Whole(Latest)
<1>1. FinishedIsOfOneRun /\ \A w \in Workers : ~Busy(w)
  BY DEF Alone, OwnRun, Ready, CallExists
<1>2. Latest.found.outcome = status /\ Latest.rows = DOMAIN Latest.found.keys
  BY <1>1 DEF FinishedIsOfOneRun
<1>3. Latest # NoRun
  BY <1>2 DEF NoRun, Ready
<1>4. Latest \in runs
  BY <1>3, LatestRun DEF Sound, TypeOK, Numbered
<1> QED BY <1>1, <1>2, <1>4 DEF FinishedIsOfOneRun, Whole

LEMMA InitReaders == Init => RowsLeft /\ ReadersKept
<1> SUFFICES ASSUME Init PROVE RowsLeft /\ ReadersKept
  OBVIOUS
<1>1. RowsLeft
  BY DEF Init, Idle, RowsLeft, Written
<1>2. NoRead \in Record
  <2>1. NoRead.shown \in Ids
    BY DEF NoRead, Ids
  <2>2. NoRead.json \in Run /\ NoRead.run \in Run
    BY NoRunType DEF NoRead
  <2> QED BY <2>1, <2>2 DEF Record, ReadPc, NoRead
<1>3. ReadersKept
  BY <1>2 DEF Init, ReadersKept, Consistent, Fresh, NoRead
<1> QED BY <1>1, <1>3

\* All of it is of every reachable state.
LEMMA ReadersAlways == Spec => [](Sound /\ Alone /\ RowsLeft /\ ReadersKept)
<1>2. Sound /\ Alone /\ RowsLeft /\ ReadersKept /\ [Next]_vars => (Alone /\ RowsLeft /\ ReadersKept)'
  BY NextAlone, NextRowsLeft, NextReaders
<1> QED BY <1>2, InitAlone, InitReaders, SoundAlways, PTL DEF Spec

\* An id in a report is of an insight with the content it stands beside, no two
\* are the same, and a report that nothing disturbed has the id of every insight:
\* for any number of workers and requests and anything an analysis may find.
THEOREM IdsAreRight == Spec => []IdsAreTheInsights
<1>1. Sound /\ Alone /\ ReadersKept => IdsAreTheInsights
  <2> SUFFICES ASSUME Sound, Alone, ReadersKept, NEW r \in Readers,
                      Reads(r, "served"), reader[r].kind = "report"
               PROVE  LET shown == reader[r].shown IN
                      /\ \A i, j \in DOMAIN shown : i # j /\ shown[i] # 0 => shown[i] # shown[j]
                      /\ \A i \in DOMAIN shown : shown[i] # 0 =>
                           reader[r].run.found.keys[shown[i]] = reader[r].json.found.keys[i]
                      /\ ~reader[r].disturbed /\ ~mixed =>
                           {shown[i] : i \in DOMAIN shown} = DOMAIN reader[r].run.found.keys
    BY DEF IdsAreTheInsights
  <2> DEFINE m == reader[r]
             keys == m.json.found.keys
  <2>1. m \in Record /\ m.shown = Attached(m.json, m.run, m.rows, m.links) /\ m.pc = "served"
    BY DEF ReadersKept, Consistent, Reads
  <2>2. m.json \in Run /\ m.run \in Run
    BY <2>1 DEF Record
  <2>3. keys \in Seq(Keys)
    BY <2>2, KeysType
  <2>4. DOMAIN m.shown = DOMAIN keys
    BY <2>1 DEF Attached
  <2>5. ASSUME NEW i \in DOMAIN keys, NEW j \in DOMAIN keys, i # j, m.shown[i] # 0
        PROVE  m.shown[i] # m.shown[j]
    BY <2>1, <2>2, <2>3, <2>5, IdsDiffer
  <2>6. ASSUME NEW i \in DOMAIN keys, m.shown[i] # 0
        PROVE  m.run.found.keys[m.shown[i]] = keys[i]
    <3>1. m.shown[i] \in NextRow(m.json, i, m.run, m.rows, m.links)
      BY <2>1, <2>2, <2>6, AttachedIs
    <3> QED BY <3>1 DEF NextRow, Same, SameInsight
  <2>7. ASSUME ~m.disturbed, ~mixed
        PROVE  {m.shown[i] : i \in DOMAIN keys} = DOMAIN m.run.found.keys
    <3>1. status \in Ready /\ m.json = json /\ m.run = Latest
          /\ m.rows = RowsNow(m.run) /\ m.links = LinkedNow(m.run)
      BY <2>1, <2>7 DEF ReadersKept, Fresh
    <3>2. Latest \in runs /\ SameRun(json, Latest) /\ Latest.transcript = transcript /\ Whole(Latest)
      BY <2>7, <3>1, FinishedAlone
    <3>3. RowsNow(Latest) = Latest.rows
      BY <3>2, RowsAre
    <3>4. m.rows = DOMAIN m.run.found.keys /\ m.links = DOMAIN m.run.found.keys
      BY <3>1, <3>2, <3>3 DEF LinkedNow, Whole
    <3>5. m.json.found = m.run.found /\ m.json.transcript = m.run.transcript
      BY <3>1, <3>2 DEF SameRun
    <3>6. \A i \in DOMAIN keys : m.shown[i] = i
      BY <2>1, <2>2, <2>3, <3>4, <3>5, IdsComplete
    <3> QED BY <3>5, <3>6
  <2> QED BY <2>4, <2>5, <2>6, <2>7
<1> QED BY <1>1, ReadersAlways, PTL

\* The counts of GET /refusals add up to what the run has found, but for the
\* facts that a correction has deleted.
THEOREM CountsAddUp == Spec => []CountsReconcile
<1>1. Sound /\ Alone /\ RowsLeft /\ ReadersKept => CountsReconcile
  <2> SUFFICES ASSUME Sound, Alone, RowsLeft, ReadersKept, NEW r \in Readers,
                      Reads(r, "served"), reader[r].kind = "refusals", ~reader[r].disturbed
               PROVE  LET run == reader[r].run
                          sum == reader[r].refused + Cardinality(reader[r].rows)
                          candidates == run.found.refused + Len(run.found.keys)
                      IN \/ sum = candidates
                         \/ /\ patches > 0 /\ sum = candidates - Cardinality(Facts(run))
                            /\ status \in Ready => mixed
    BY DEF CountsReconcile, Facts
  <2> DEFINE m == reader[r]
             run == m.run
             all == DOMAIN run.found.keys
  <2>1. m \in Record /\ run = Latest /\ m.refused = RefusedNow(run) /\ m.rows = RowsNow(run)
    BY DEF ReadersKept, Fresh, Reads
  <2>2. run \in Run /\ run.found.keys \in Seq(Keys)
    BY <2>1, KeysType DEF Record
  <2>3. Len(run.found.keys) \in Nat /\ all = 1..Len(run.found.keys)
    BY <2>2
  <2>4. IsFiniteSet(all) /\ Cardinality(all) = Len(run.found.keys)
    BY <2>3, FS_Interval
  <2>5. CASE runs = {}
    <3>1. run = NoRun
      BY <2>1, <2>5 DEF Latest
    <3>2. m.refused = 0 /\ m.rows = {}
      BY <2>1, <2>5 DEF RefusedNow, RowsNow, Versions
    <3> QED BY <3>1, <3>2, FS_EmptySet DEF NoRun
  <2>6. CASE runs # {}
    <3>1. run \in runs
      BY <2>1, <2>6, LatestRun DEF Sound, TypeOK, Numbered
    <3>2. m.rows = run.rows /\ m.refused = run.found.refused
      BY <2>1, <3>1, RowsAre
    <3>3. CASE Whole(run)
      BY <2>4, <3>2, <3>3 DEF Whole
    <3>4. CASE patches > 0 /\ run.rows = all \ Facts(run) /\ ~Whole(run)
      <4>1. Facts(run) \subseteq all /\ all \cap Facts(run) = Facts(run)
        BY DEF Facts
      <4>2. Cardinality(run.rows) = Len(run.found.keys) - Cardinality(Facts(run))
        BY <2>4, <3>4, <4>1, FS_Difference
      <4>3. run.found.refused \in Nat
        BY <3>1, ReadersAssumption DEF RowsLeft
      <4>4. Cardinality(Facts(run)) \in Nat
        BY <2>4, <4>1, FS_Subset, FS_CardinalityType
      <4>5. status \in Ready => mixed
        BY <2>1, <3>4, FinishedAlone
      <4> QED BY <2>3, <3>2, <3>4, <4>2, <4>3, <4>4, <4>5
    <3> QED BY <3>1, <3>3, <3>4 DEF RowsLeft
  <2> QED BY <2>5, <2>6
<1> QED BY <1>1, ReadersAlways, PTL
=============================================================================
