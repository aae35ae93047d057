--------------------------- MODULE ReportReaders ---------------------------
(***************************************************************************)
(* The analysis runs of one call and who reads them: workers storing an    *)
(* analysis (pipeline/persist.py, runner.py) and the report artifacts, and *)
(* the requests of api/v1/report.py that read status, artifact, run,       *)
(* insights and evidence links one statement after the other, each seeing  *)
(* what is committed by then.                                              *)
(*                                                                         *)
(* A run is the sequence of the contents of its insights, how many claims  *)
(* were refused, and the transcript its evidence points into: a transcript *)
(* that is stored again gives every segment a new id, and takes the links  *)
(* of earlier runs with it.                                                *)
(***************************************************************************)
EXTENDS Integers, Sequences, FiniteSets

CONSTANTS
  Workers,
  Readers,
  Analyses,       \* what an analysis may find: [keys, refused, outcome]
  MaxDeliveries,  \* bound: messages taken up
  MaxPatches,     \* bound: role corrections
  MaxCrashes      \* bound: workers that die

\* Contents of insights.  A gap is an absence, and cites no segment; facts are
\* the customer-only insights that a role correction deletes.
Keys == {"fact", "risk", "gap"}
Cites(key) == key # "gap"

ASSUME ReadersAssumption ==
  /\ \A a \in Analyses : /\ a.keys \in Seq(Keys)
                         /\ a.refused \in Nat
                         /\ a.outcome \in {"SHIPPED", "PARTIAL"}
  /\ MaxDeliveries \in Nat /\ MaxPatches \in Nat /\ MaxCrashes \in Nat

VARIABLES
  status,      \* "INDEXING" stands for VALIDATING to BUILDING_REPORT
  transcript,  \* which transcript is stored, 0 for none
  runs,        \* committed analysis_runs: [version, found, transcript, rows]
  json, md,    \* the artifacts: the run they were built from
  work,        \* the workers
  reader,      \* the requests
  mixed,       \* history: the last run was not alone, or was corrected meanwhile
  deliveries, patches, crashes

rowVars == <<status, transcript, runs>>
blobVars == <<json, md>>
bounds == <<deliveries, patches, crashes>>
vars == <<rowVars, blobVars, work, reader, mixed, bounds>>

Ready == {"SHIPPED", "PARTIAL"}
NoRun == [version |-> 0, found |-> [keys |-> <<>>, refused |-> 0, outcome |-> "none"], transcript |-> 0, rows |-> {}]

Idle == [pc |-> "idle", run |-> NoRun]
NoRead == [pc |-> "idle", kind |-> "none", json |-> NoRun, run |-> NoRun, rows |-> {}, links |-> {},
           refused |-> 0, shown |-> <<>>, disturbed |-> FALSE]

Init ==
  /\ status = "TRANSCRIBING"
  /\ transcript = 0
  /\ runs = {}
  /\ json = NoRun /\ md = NoRun
  /\ work = [w \in Workers |-> Idle]
  /\ reader = [r \in Readers |-> NoRead]
  /\ mixed = FALSE
  /\ deliveries = 0 /\ patches = 0 /\ crashes = 0

Versions == {run.version : run \in runs}

\* _latest_run
Latest ==
  IF runs = {} THEN NoRun ELSE CHOOSE run \in runs : \A other \in runs : other.version <= run.version

\* What is written while a request runs disturbs it.
Disturb ==
  reader' = [r \in Readers |-> IF reader[r].pc = "idle" THEN reader[r] ELSE [reader[r] EXCEPT !.disturbed = TRUE]]

-----------------------------------------------------------------------------
(* The workers.                                                            *)

At(w, pc) == work[w].pc = pc
Goto(w, pc) == work' = [work EXCEPT ![w].pc = pc]
Leaves(w) == work' = [work EXCEPT ![w] = Idle]
Busy(w) == ~At(w, "idle")

CallExists == status # "DELETED"

\* An error that is not the pipeline's own: the call fails, if it is there and
\* nobody has shipped it.
Fails(w) ==
  /\ status' = IF status \in {"SHIPPED", "DELETED"} THEN status ELSE "FAILED"
  /\ Leaves(w)
  /\ UNCHANGED <<transcript, runs>>

\* A message is taken up.  A shipped call is left alone, and one that was left
\* between two stages of the analysis cannot go back to ANALYZING.
Begin(w) ==
  /\ At(w, "idle")
  /\ deliveries < MaxDeliveries
  /\ deliveries' = deliveries + 1
  /\ mixed' = \E v \in Workers : Busy(v)
  /\ \/ /\ transcript = 0
        /\ status \in {"TRANSCRIBING", "FAILED"}
        /\ Goto(w, "transcribing")
        /\ status' = "TRANSCRIBING"
        /\ UNCHANGED <<transcript, runs>>
     \/ /\ transcript # 0
        /\ status \in {"ANALYZING", "PARTIAL", "FAILED"}
        /\ work' = [work EXCEPT ![w] = [pc |-> "analyzing", run |-> [NoRun EXCEPT !.transcript = transcript]]]
        /\ status' = "ANALYZING"
        /\ UNCHANGED <<transcript, runs>>
     \/ /\ transcript # 0
        /\ status \in {"TRANSCRIBING", "INDEXING"}
        /\ Fails(w)
  /\ Disturb
  /\ UNCHANGED <<blobVars, patches, crashes>>

\* A transaction that has inserted evidence keeps the segments it references.
Inserted(w) == At(w, "inserted")

\* persist_transcript replaces the segments.
StoreTranscript(w) ==
  /\ At(w, "transcribing")
  /\ \A v \in Workers : ~Inserted(v)
  /\ IF CallExists
       THEN /\ transcript' = transcript + 1
            /\ status' = "ANALYZING"
            /\ work' = [work EXCEPT ![w] = [pc |-> "analyzing", run |-> [NoRun EXCEPT !.transcript = transcript']]]
            /\ UNCHANGED runs
       ELSE Fails(w)
  /\ Disturb
  /\ UNCHANGED <<blobVars, mixed, bounds>>

\* next_run_version, in the transaction that will insert the run.
NextVersion == Latest.version + 1

ReadVersion(w, found) ==
  /\ At(w, "analyzing")
  /\ work' = [work EXCEPT ![w] = [pc |-> "numbered",
                                   run |-> [@.run EXCEPT !.version = NextVersion, !.found = found,
                                                         !.rows = DOMAIN found.keys]]]
  /\ UNCHANGED <<rowVars, blobVars, reader, mixed, bounds>>

\* Mutant of Taken: without the key.
TakenNever(version) == FALSE

\* The unique key on (call_id, version).
Taken(version) == version \in Versions

\* The inserts of persist_insights: they wait for a transaction that inserted
\* the same version, and fail if it is taken, or if the call or the segments
\* they reference are gone.
Insert(w) ==
  /\ At(w, "numbered")
  /\ \A v \in Workers \ {w} : Inserted(v) => work[v].run.version # work[w].run.version
  /\ LET run == work[w].run IN
     IF /\ CallExists
        /\ ~Taken(run.version)
        /\ run.transcript = transcript \/ \A k \in run.rows : ~Cites(run.found.keys[k])
       THEN Goto(w, "inserted") /\ UNCHANGED <<rowVars, reader>>
       ELSE Fails(w) /\ Disturb
  /\ UNCHANGED <<blobVars, mixed, bounds>>

CommitRun(w) ==
  /\ Inserted(w)
  /\ runs' = runs \cup {work[w].run}
  /\ status' = "INDEXING"
  /\ Goto(w, "indexed")
  /\ Disturb
  /\ UNCHANGED <<transcript, blobVars, mixed, bounds>>

\* The report, and then its Markdown, go to the blob store.
PutJson(w) ==
  /\ At(w, "indexed")
  /\ json' = work[w].run
  /\ Goto(w, "json stored")
  /\ Disturb
  /\ UNCHANGED <<rowVars, md, mixed, bounds>>

\* Mutant of PutMarkdown: only when there is none.
PutMarkdownOnce(w) ==
  /\ At(w, "json stored")
  /\ md' = IF md = NoRun THEN work[w].run ELSE md
  /\ Goto(w, "stored")
  /\ Disturb
  /\ UNCHANGED <<rowVars, json, mixed, bounds>>

PutMarkdown(w) ==
  /\ At(w, "json stored")
  /\ md' = work[w].run
  /\ Goto(w, "stored")
  /\ Disturb
  /\ UNCHANGED <<rowVars, json, mixed, bounds>>

Finish(w) ==
  /\ At(w, "stored")
  /\ IF CallExists
       THEN status' = work[w].run.found.outcome /\ Leaves(w) /\ UNCHANGED <<transcript, runs>>
       ELSE Fails(w)
  /\ Disturb
  /\ UNCHANGED <<blobVars, mixed, bounds>>

\* A worker dies: what it has not committed is gone.
Crash(w) ==
  /\ Busy(w)
  /\ crashes < MaxCrashes
  /\ crashes' = crashes + 1
  /\ Leaves(w)
  /\ UNCHANGED <<rowVars, blobVars, reader, mixed, deliveries, patches>>

-----------------------------------------------------------------------------
(* Users.                                                                  *)

\* reanalyze_call
Reanalyze ==
  /\ status \in {"SHIPPED", "PARTIAL", "FAILED"}
  /\ transcript # 0
  /\ status' = "ANALYZING"
  /\ Disturb
  /\ UNCHANGED <<transcript, runs, blobVars, work, mixed, bounds>>

\* patch_speakers deletes the facts of every run.
PatchSpeakers ==
  /\ CallExists /\ transcript # 0
  /\ patches < MaxPatches
  /\ patches' = patches + 1
  /\ runs' = {[run EXCEPT !.rows = {k \in @ : run.found.keys[k] # "fact"}] : run \in runs}
  /\ status' = IF status \in {"SHIPPED", "PARTIAL", "FAILED"} THEN "ANALYZING" ELSE status
  /\ mixed' = (mixed \/ \E w \in Workers : Busy(w))
  /\ Disturb
  /\ UNCHANGED <<transcript, blobVars, work, deliveries, crashes>>

\* Mutant of DeleteCall: without waiting.
DeleteCallAtOnce ==
  /\ CallExists
  /\ status' = "DELETED"
  /\ transcript' = 0
  /\ runs' = {}
  /\ Disturb
  /\ UNCHANGED <<blobVars, work, mixed, bounds>>

\* delete_call waits for transactions that reference the call; the artifacts
\* stay behind.
DeleteCall ==
  /\ CallExists
  /\ \A w \in Workers : ~Inserted(w)
  /\ status' = "DELETED"
  /\ transcript' = 0
  /\ runs' = {}
  /\ Disturb
  /\ UNCHANGED <<blobVars, work, mixed, bounds>>

-----------------------------------------------------------------------------
(* Requests.                                                               *)

Reads(r, pc) == reader[r].pc = pc
Read(r, record) ==
  /\ reader' = [reader EXCEPT ![r] = record]
  /\ UNCHANGED <<rowVars, blobVars, work, mixed, bounds>>

\* The call is there, and for a report ready.
Request(r, kind) ==
  /\ Reads(r, "idle")
  /\ IF kind = "report" THEN status \in Ready ELSE status # "DELETED"
  /\ Read(r, [NoRead EXCEPT !.pc = IF kind = "report" THEN "artifact" ELSE "run", !.kind = kind])

FetchArtifact(r) ==
  /\ Reads(r, "artifact")
  /\ Read(r, [reader[r] EXCEPT !.pc = "run", !.json = json])

ReadRun(r) ==
  /\ Reads(r, "run")
  /\ Read(r, [reader[r] EXCEPT !.run = Latest, !.pc = IF reader[r].kind = "report" THEN "rows" ELSE "refused"])

\* The rows of the run as they are now.
RowsNow(run) == UNION {now.rows : now \in {x \in runs : x.version = run.version}}

\* Mutant of RefusedNow: the refusals of every run.
RefusedOfCall(run) ==
  LET Plus[S \in SUBSET runs] ==
        IF S = {} THEN 0 ELSE LET x == CHOOSE x \in S : TRUE IN x.found.refused + Plus[S \ {x}]
  IN Plus[runs]

RefusedNow(run) == IF run.version \in Versions THEN run.found.refused ELSE 0

ReadRefused(r) ==
  /\ Reads(r, "refused")
  /\ Read(r, [reader[r] EXCEPT !.refused = RefusedNow(reader[r].run), !.pc = "rows"])

ReadRows(r) ==
  /\ Reads(r, "rows")
  /\ Read(r, [reader[r] EXCEPT !.rows = RowsNow(reader[r].run),
                               !.pc = IF reader[r].kind = "report" THEN "links" ELSE "served"])

\* The rows whose evidence links are there.
LinkedNow(run) == IF run.transcript = transcript THEN RowsNow(run) ELSE {}

\* insight_identity: the content, and the segments of a row as far as linked.
SameInsight(report, i, run, k, links) ==
  /\ report.found.keys[i] = run.found.keys[k]
  /\ Cites(run.found.keys[k]) => k \in links /\ report.transcript = run.transcript

\* Mutant of Attached: an id is not used up.
AttachedAgain(report, run, rows, links) ==
  [i \in DOMAIN report.found.keys |->
     LET same == {k \in rows : SameInsight(report, i, run, k, links)}
     IN IF same = {} THEN 0 ELSE CHOOSE k \in same : \A other \in same : k <= other]

\* attach_insight_ids: identical insights are paired in order; 0 is no id.
Attached(report, run, rows, links) ==
  [i \in DOMAIN report.found.keys |->
     LET same   == {k \in rows : SameInsight(report, i, run, k, links)}
         before == {j \in 1..i - 1 : report.found.keys[j] = report.found.keys[i]}
         next   == {k \in same : Cardinality({j \in same : j < k}) = Cardinality(before)}
     IN IF next = {} THEN 0 ELSE CHOOSE k \in next : TRUE]

ReadLinks(r) ==
  /\ Reads(r, "links")
  /\ LET links == LinkedNow(reader[r].run) IN
     Read(r, [reader[r] EXCEPT !.links = links,
                               !.shown = Attached(reader[r].json, reader[r].run, reader[r].rows, links),
                               !.pc = "served"])

Serve(r) ==
  /\ Reads(r, "served")
  /\ Read(r, NoRead)

-----------------------------------------------------------------------------
Work(w) ==
  \/ Begin(w) \/ StoreTranscript(w) \/ \E found \in Analyses : ReadVersion(w, found)
  \/ Insert(w) \/ CommitRun(w) \/ PutJson(w) \/ PutMarkdown(w) \/ Finish(w) \/ Crash(w)

Handle(r) ==
  \/ \E kind \in {"report", "refusals"} : Request(r, kind)
  \/ FetchArtifact(r) \/ ReadRun(r) \/ ReadRefused(r) \/ ReadRows(r) \/ ReadLinks(r) \/ Serve(r)

Next ==
  \/ \E w \in Workers : Work(w)
  \/ Reanalyze \/ PatchSpeakers \/ DeleteCall
  \/ \E r \in Readers : Handle(r)

Spec == Init /\ [][Next]_vars

-----------------------------------------------------------------------------
(* Properties.                                                             *)

Run == [ version : Nat, found : Analyses \cup {NoRun.found}, transcript : Nat, rows : SUBSET Nat ]

Worker == [ pc  : {"idle", "transcribing", "analyzing", "numbered", "inserted", "indexed",
                   "json stored", "stored"},
            run : Run ]

\* The shape of what is stored and of the workers; what a request has read is
\* made of these.
TypeOK ==
  /\ status \in {"TRANSCRIBING", "ANALYZING", "INDEXING", "SHIPPED", "PARTIAL", "FAILED", "DELETED"}
  /\ transcript \in Nat
  /\ runs \subseteq Run
  /\ json \in Run /\ md \in Run
  /\ work \in [Workers -> Worker]
  /\ mixed \in BOOLEAN

\* Runs are numbered 1, 2, ... with no number used twice, however analyses race
\* for the next one (persist.py:144-169, models/analysis.py:27).
RunsAreNumbered ==
  /\ \A run, other \in runs : run.version = other.version => run = other
  /\ Versions = 1..Cardinality(runs)

\* A deleted call has no rows, and no analysis that was under way brings the
\* call or its rows back (calls.py:235-238, models/analysis.py:30).
DeletedIsFinal ==
  [][status = "DELETED" => status' = "DELETED" /\ runs' = {} /\ transcript' = 0]_vars

SameRun(run, other) == run.version = other.version /\ run.found = other.found /\ run.transcript = other.transcript

\* The artifacts of a call are those of an analysis whose insights are stored, so
\* what a report says can be looked up, whoever wrote it last (runner.py:459-509).
ArtifactsAreStored ==
  status # "DELETED" => \A artifact \in {json, md} \ {NoRun} : \E run \in runs : SameRun(run, artifact)

\* A call whose last run had it to itself is finished with report, Markdown and
\* latest insights of that one run, none of them deleted and all evidence there,
\* after any history of crashes, failures and corrections (runner.py:459-509).
FinishedIsOfOneRun ==
  status \in Ready /\ ~mixed /\ (\A w \in Workers : ~Busy(w)) =>
    /\ SameRun(json, Latest) /\ SameRun(md, Latest)
    /\ Latest.found.outcome = status
    /\ Latest.transcript = transcript
    /\ Latest.rows = DOMAIN Latest.found.keys

\* Every id in a report is of an insight with the content it stands beside, and
\* no two are the same; a report that nothing disturbed, of a run that had the
\* call to itself, has the id of every insight (report.py:59-122,
\* exports/report.py:96-140).
IdsAreTheInsights ==
  \A r \in Readers :
    Reads(r, "served") /\ reader[r].kind = "report" =>
      LET shown == reader[r].shown IN
      /\ \A i, j \in DOMAIN shown : i # j /\ shown[i] # 0 => shown[i] # shown[j]
      /\ \A i \in DOMAIN shown : shown[i] # 0 => reader[r].run.found.keys[shown[i]] = reader[r].json.found.keys[i]
      /\ ~reader[r].disturbed /\ ~mixed =>
           {shown[i] : i \in DOMAIN shown} = DOMAIN reader[r].run.found.keys

\* The counts of GET /refusals add up to the candidates of the run, but for the
\* facts a correction has deleted (report.py:164-181,
\* docs/frontend-contract.md:69).
CountsReconcile ==
  \A r \in Readers :
    Reads(r, "served") /\ reader[r].kind = "refusals" /\ ~reader[r].disturbed =>
      LET run == reader[r].run
          facts == {k \in DOMAIN run.found.keys : run.found.keys[k] = "fact"}
          sum == reader[r].refused + Cardinality(reader[r].rows)
          candidates == run.found.refused + Len(run.found.keys)
      IN \/ sum = candidates
         \/ patches > 0 /\ sum = candidates - Cardinality(facts) /\ (status \in Ready => mixed)
=============================================================================
