------------------------- MODULE TranscriptAnalysis -------------------------
(***************************************************************************)
(* One worker taking a transcript through what pipeline/runner.py computes *)
(* from it: speaker roles, the ML service's labels and emotions, metrics,  *)
(* the search index.  The ML service answers request by request, as it     *)
(* likes; a user corrects roles; a second worker that was still waiting    *)
(* for the same transcript stores it again.  The rest of the run, and its  *)
(* commits, are CallPipeline's.                                            *)
(***************************************************************************)
EXTENDS MLRows, Conversation

SE == INSTANCE SequencesExt

CONSTANTS
  Calls,        \* [segs, outbound, stereo, channel, sellerChannel, form]
  BatchSize,    \* ml_max_batch_size
  MaxChars,     \* max_chars of a chunk
  MaxOdd,       \* bound: answers that are not honest ones
  MaxPatches,   \* bound: role corrections
  MaxLate       \* bound: transcripts stored again

ASSUME AnalysisAssumption ==
  /\ \A c \in Calls : c.segs \in Seq(Segment) /\ c.form \in AxisForms
  /\ BatchSize \in Nat \ {0}
  /\ MaxChars \in Nat \ {0}
  /\ MaxOdd \in Nat /\ MaxPatches \in Nat /\ MaxLate \in Nat

VARIABLES
  call,
  stage,      \* what the worker does next
  speakers,   \* stored speaker rows: [role, manual]
  rows,       \* rows of the ML call in progress, by the text they score
  labels,     \* labels[i]: the text whose labels segment i has, or 0
  axes,       \* axes[i]: the emotion axis segment i has, and the text it is of
  chunks,     \* the chunks of this run
  metrics,    \* what is stored of the metrics
  index,      \* transcript_chunks: [first, last, vector]
  warnings,   \* ML calls that failed in this analysis
  misled,     \* history: ML calls with an answer that was not an honest one
  odd, patches, late

bounds == <<odd, patches, late>>
vars == <<call, stage, speakers, rows, labels, axes, chunks, metrics, index, warnings, misled, bounds>>

segs == call.segs
Segs == DOMAIN segs

NoAxis == [of |-> 0, axis |-> [unavailable |-> TRUE, scores |-> FALSE]]

Init ==
  /\ call \in Calls
  /\ stage = "resolve"
  /\ speakers = [s \in {} |-> {}]
  /\ rows = <<>>
  /\ labels = [i \in Segs |-> 0]
  /\ axes = [i \in Segs |-> NoAxis]
  /\ chunks = <<>>
  /\ metrics = [longest |-> <<>>, silences |-> {}]
  /\ index = <<>>
  /\ warnings = {}
  /\ misled = {}
  /\ odd = 0 /\ patches = 0 /\ late = 0

-----------------------------------------------------------------------------
(* Roles.                                                                  *)

Resolved ==
  IF call.stereo THEN StereoRoles(segs, call.channel, call.sellerChannel)
                 ELSE MonoRoles(segs, call.outbound)

\* Mutant of Stored: what was resolved is stored.
StoredAnew(s) == [role |-> Resolved[s], manual |-> FALSE]

\* persist_transcript: a row that a user has corrected keeps its role.
Stored(s) ==
  IF s \in DOMAIN speakers /\ speakers[s].manual
    THEN speakers[s] ELSE [role |-> Resolved[s], manual |-> FALSE]

\* The analysis starts over from the stored rows.
Restarted ==
  /\ stage' = "classify"
  /\ rows' = <<>>
  /\ labels' = [i \in Segs |-> 0]
  /\ axes' = [i \in Segs |-> NoAxis]
  /\ chunks' = <<>>
  /\ warnings' = {}
  /\ misled' = {}

Resolve ==
  /\ stage = "resolve"
  /\ speakers' = [s \in SpeakersOf(segs) |-> Stored(s)]
  /\ Restarted
  /\ UNCHANGED <<call, metrics, index, bounds>>

\* The second worker's persist_transcript deletes the segments; the chunks that
\* reference them go with them.
StoredAgain ==
  /\ stage = "done"
  /\ late < MaxLate
  /\ late' = late + 1
  /\ speakers' = [s \in SpeakersOf(segs) |-> Stored(s)]
  /\ index' = <<>>
  /\ Restarted
  /\ UNCHANGED <<call, metrics, odd, patches>>

Corrected(changed) ==
  [s \in DOMAIN speakers |->
     IF s \in DOMAIN changed THEN [role |-> changed[s], manual |-> TRUE] ELSE speakers[s]]

\* patch_speakers: one role is set, or two are swapped.
Patch(changed) ==
  /\ stage = "done"
  /\ patches < MaxPatches
  /\ patches' = patches + 1
  /\ speakers' = Corrected(changed)
  /\ Restarted
  /\ UNCHANGED <<call, metrics, index, odd, late>>

Swapped(s, t) == [u \in {s, t} |-> IF u = s THEN speakers[t].role ELSE speakers[s].role]

PatchSpeakers ==
  \/ \E s \in DOMAIN speakers, role \in Roles : Patch([u \in {s} |-> role])
  \/ \E s, t \in DOMAIN speakers : Patch(Swapped(s, t))

-----------------------------------------------------------------------------
(* The ML service.                                                         *)

RoleOf(i) == speakers[segs[i].speaker].role

\* In their order: up to the k-th there are k of them.
InTheirOrder(S) ==
  [k \in 1..Cardinality(S) |-> CHOOSE i \in S : Cardinality({j \in S : j <= i}) = k]

\* What each ML call sends: all segments, the customer's, the chunks.
Texts(kind) ==
  CASE kind = "classify" -> [i \in Segs |-> i]
    [] kind = "emotions" -> InTheirOrder({i \in Segs : RoleOf(i) = "customer"})
    [] kind = "embed"    -> [k \in DOMAIN chunks |-> k]

After(kind) == CASE kind = "classify" -> "emotions" [] kind = "emotions" -> "measure" [] kind = "embed" -> "done"

\* Mutant of Indexed: without vectors the last run's index is left.
IndexedOrLeft(vectors) ==
  IF vectors = <<>> THEN index ELSE
  [k \in DOMAIN vectors |->
     [first |-> chunks[k][1], last |-> chunks[k][Len(chunks[k])], vector |-> vectors[k]]]

\* zip(chunks, embeddings), to the shorter of the two.
Indexed(vectors) ==
  [k \in 1..(IF Len(vectors) < Len(chunks) THEN Len(vectors) ELSE Len(chunks)) |->
     [first |-> chunks[k][1], last |-> chunks[k][Len(chunks[k])], vector |-> vectors[k]]]

\* Where an ML call's rows go, and what the segments get from them.
Use(kind, got) ==
  /\ stage' = After(kind)
  /\ rows' = <<>>
  /\ labels' = IF kind = "classify"
                 THEN [i \in Segs |-> IF i \in DOMAIN got THEN got[i] ELSE 0] ELSE labels
  /\ axes' = IF kind = "emotions"
               THEN [i \in Segs |->
                      IF \E k \in DOMAIN got : Texts(kind)[k] = i
                        THEN LET of == got[CHOOSE k \in DOMAIN got : Texts(kind)[k] = i]
                             IN [of |-> of, axis |-> ParseAxis(IF of = 0 THEN "missing" ELSE call.form)]
                        ELSE NoAxis]
               ELSE axes
  /\ index' = IF kind = "embed" THEN Indexed(got) ELSE index

\* _ml_or_warn: a failure leaves no rows of the whole call.
Fails(kind) ==
  /\ Use(kind, <<>>)
  /\ warnings' = warnings \cup {kind}

\* Nothing to send.
Skip(kind) ==
  /\ stage = kind
  /\ Texts(kind) = <<>>
  /\ Use(kind, <<>>)
  /\ UNCHANGED <<call, speakers, chunks, metrics, warnings, misled, bounds>>

\* One request of _batched_rows.
Expected(kind) == LET left == Len(Texts(kind)) - Len(rows) IN IF left < BatchSize THEN left ELSE BatchSize

Answers(kind) ==
  HonestAnswers(Expected(kind))
  \cup (IF odd < MaxOdd THEN MisleadingAnswers(Expected(kind)) \cup ShortAnswers(Expected(kind)) ELSE {})

Text(kind, of) == IF of = 0 THEN 0 ELSE Texts(kind)[Len(rows) + of]

\* An embedding row without a vector is refused.
Usable(kind, items) == items # Invalid /\ (kind = "embed" => \A i \in DOMAIN items : items[i] # Envelope)

Answered(kind, answer) ==
  /\ odd' = IF answer \in HonestAnswers(Expected(kind)) THEN odd ELSE odd + 1
  /\ misled' = IF answer \in MisleadingAnswers(Expected(kind)) THEN misled \cup {kind} ELSE misled
  /\ LET items == AlignedRows(answer, Expected(kind)) IN
     IF ~Usable(kind, items)
       THEN Fails(kind)
       ELSE LET got == rows \o [i \in DOMAIN items |-> Text(kind, items[i].of)] IN
            /\ warnings' = warnings
            /\ IF Len(got) = Len(Texts(kind))
                 THEN Use(kind, got)
                 ELSE rows' = got /\ UNCHANGED <<stage, labels, axes, index>>
  /\ UNCHANGED <<call, speakers, chunks, metrics, patches, late>>

Post(kind) ==
  /\ stage = kind
  /\ Texts(kind) # <<>>
  /\ \E answer \in Answers(kind) : Answered(kind, answer)

\* The request fails.
Refused(kind) ==
  /\ stage = kind
  /\ Texts(kind) # <<>>
  /\ odd < MaxOdd
  /\ odd' = odd + 1
  /\ Fails(kind)
  /\ UNCHANGED <<call, speakers, chunks, metrics, misled, patches, late>>

\* compute_metrics and persist_metrics, and chunk_segments.
Measure ==
  /\ stage = "measure"
  /\ metrics' = [longest |-> LongestMonologue(segs), silences |-> SilenceGaps(segs)]
  /\ chunks' = Chunks(segs, MaxChars)
  /\ stage' = "embed"
  /\ UNCHANGED <<call, speakers, rows, labels, axes, index, warnings, misled, bounds>>

MLCalls == {"classify", "emotions", "embed"}

Next ==
  \/ Resolve \/ StoredAgain \/ PatchSpeakers \/ Measure
  \/ \E kind \in MLCalls : Skip(kind) \/ Refused(kind) \/ Post(kind)

Spec == Init /\ [][Next]_vars

-----------------------------------------------------------------------------
(* Properties.                                                             *)

Manual == {s \in DOMAIN speakers : speakers[s].manual}

\* A role that a user has corrected is never undone, neither by an analysis nor
\* by a transcript that a second worker stores afterwards; only another
\* correction changes it (persist.py:57-78, calls.py:485-510).
CorrectionsStay ==
  [][\A s \in Manual : speakers'[s].manual /\ (speakers'[s].role = speakers[s].role \/ patches' > patches)]_vars

\* A segment has the labels and emotions of its own text and no other's, however
\* the call was cut into requests and the answers ordered, as long as no answer
\* was misleading; and it has them all or, with a warning, none
\* (ml/__init__.py:322-347, 408-443, runner.py:401-438).
ScoresFindTheirSegments ==
  /\ "classify" \notin misled /\ stage \in {"measure", "embed", "done"} =>
       \A i \in Segs : labels[i] = (IF "classify" \in warnings THEN 0 ELSE i)
  /\ "emotions" \notin misled /\ stage \in {"measure", "embed", "done"} =>
       \A i \in Segs : axes[i].of = (IF "emotions" \in warnings \/ RoleOf(i) # "customer" THEN 0 ELSE i)

\* An axis the service did not score never reads as a neutral customer, and one
\* it did is not lost (ml/__init__.py:182-244, 470-500).
UnscoredIsNotNeutral ==
  \A i \in Segs :
    Valence(axes[i].axis) = (IF axes[i].of = 0 THEN "none"
                             ELSE CASE call.form = "scored" -> "signed"
                                    [] call.form = "flat" -> "zero"
                                    [] OTHER -> "none")

\* The index covers the whole call, each chunk with its own vector, or is empty
\* after a failed embedding (persist.py:209-234).
IndexIsWholeOrAbsent ==
  stage = "done" =>
    IF "embed" \in warnings THEN index = <<>>
    ELSE /\ Len(index) = Len(chunks)
         /\ "embed" \notin misled => \A k \in DOMAIN index : index[k].vector = k

\* The segments in order, none twice and none left out.
AllInOrder(c) ==
  /\ \A k \in DOMAIN c : c[k] # <<>> /\ \A m \in 1..Len(c[k]) - 1 : c[k][m + 1] = c[k][m] + 1
  /\ \A k \in 2..Len(c) : c[k][1] = SE!Last(c[k - 1]) + 1
  /\ IF c = <<>> THEN segs = <<>> ELSE c[1][1] = 1 /\ SE!Last(c[Len(c)]) = Len(segs)

Apart(i, j) == segs[i].speaker # segs[j].speaker \/ Gap(segs, i, j) > CHUNK_GAP_MS

CutRight(c, k) ==
  /\ \A m \in 1..Len(c[k]) - 1 : ~Apart(c[k][m], c[k][m + 1])
  /\ Len(c[k]) > 1 => Chars(segs, c[k]) <= MaxChars
  /\ k > 1 => \/ Apart(SE!Last(c[k - 1]), c[k][1])
              \/ Chars(segs, c[k - 1]) + segs[c[k][1]].chars > MaxChars

\* Chunks are the segments in order, cut exactly where the speaker changes, the
\* pause is long or the text is full (ask.py:16-47).
ChunksAreCutWhereTheyMust ==
  stage = "embed" =>
    AllInOrder(chunks) /\ \A k \in DOMAIN chunks : CutRight(chunks, k)

\* Nobody is heard while a segment that started earlier goes on.
InTurns == \A i, j \in Segs : i < j => segs[i].start <= segs[j].start /\ segs[i].end <= segs[j].end

\* A moment found in the index spans the text it shows (report.py:228-258).
MomentsSpanTheirText ==
  stage = "done" /\ InTurns /\ index # <<>> =>
    \A k \in DOMAIN index : \A n \in DOMAIN chunks[k] :
      LET moment == Packed(segs, index[k].first, index[k].last)
          i == chunks[k][n]
      IN moment.start <= segs[i].start /\ segs[i].end <= moment.end

\* Every stretch of one speaker's segments with short pauses.
Stretches ==
  LET order == ByStart(segs) IN
  {SubSeq(order, a, b) : a, b \in DOMAIN order} \ {<<>>}

IsRun(run) == \A k \in 1..Len(run) - 1 : GoesOn(segs, run[k], run[k + 1])

\* The longest monologue is a run that no other run outlasts, never holds a
\* silence, and no one speaks in a silence: on a call whose speakers take turns
\* (metrics.py:83-116, 152-158).
MetricsDescribeTheCall ==
  stage = "done" /\ InTurns =>
    LET longest == metrics.longest IN
    /\ longest # <<>> => IsRun(longest)
    /\ \A run \in Stretches : IsRun(run) /\ Lasts(segs, run) > 0 =>
         longest # <<>> /\ Lasts(segs, run) <= Lasts(segs, longest)
    /\ \A gap \in metrics.silences :
         /\ \A i \in Segs : segs[i].end <= gap[1] \/ segs[i].start >= gap[2]
         /\ longest # <<>> => gap[1] < segs[longest[1]].start \/ gap[2] > segs[longest[Len(longest)]].end
=============================================================================
