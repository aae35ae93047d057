---------------------------- MODULE EvidenceGate ----------------------------
(***************************************************************************)
(* validate_candidates (src/app/evidence/__init__.py): what every proposed *)
(* insight goes through before it is stored.  One step of the model is one *)
(* turn of its loop over the candidates.                                   *)
(*                                                                         *)
(* A segment keeps the role of its speaker, the phrases its text holds and *)
(* the scores of its labels (which only the extractors read).              *)
(* A quote is one of the phrases; None stands for a missing, blank or      *)
(* non-string quote.  Confidence is only compared with the threshold.      *)
(* Titles are all that is kept of a claim's wording, and the logged events *)
(* are left out: they repeat the verdicts.                                 *)
(***************************************************************************)
EXTENDS Naturals, Sequences

CONSTANTS
  Ids,      \* segment ids, of this call or of none
  Titles,   \* the titles of insights
  Phrases,  \* what may be said, or quoted
  Labels,   \* the labels the ML service scores
  Inputs    \* the calls: their segments and the candidates proposed for them

SpeakerRole == {"seller", "customer", "unknown"}

InsightType == {"CUSTOMER_FACT", "BUYING_SIGNAL", "OBJECTION", "COMMITMENT",
                "DEAL_RISK", "COMPETITOR", "REALITY_CHECK", "CALL_MOMENT",
                "COACHING", "SENTIMENT_POINT", "QUALIFICATION_SIGNAL"}

EvidenceStatus == {"SUPPORTED", "ABSENCE_BASED", "UNCONFIRMED", "NON_FACTUAL"}

CUSTOMER_ONLY_TYPES == {"CUSTOMER_FACT", "SENTIMENT_POINT"}

None == "none"

\* Scores: 0 below extract.py's LABEL_THRESHOLD, 1 from there on, 2 from 0.75 on.
SegmentView == [role : SpeakerRole, text : SUBSET Phrases, labels : [Labels -> 0..2]]

CandidateInsight ==
  [ type     : InsightType,
    title    : Titles,
    status   : EvidenceStatus,
    ids      : Seq(Ids),
    required : SpeakerRole \cup {None},
    quote    : Phrases \cup {None},
    sure     : BOOLEAN ]      \* confidence >= settings.confidence_threshold

\* Why a candidate is refused, in the order the checks are made.
Defects == {"no_evidence", "segment_missing", "wrong_speaker", "quote_absent", "duplicate"}

ValidatedInsight ==
  [ claim  : CandidateInsight,
    status : EvidenceStatus,
    ids    : Seq(Ids),        \* the evidence it is stored with
    defect : Defects \cup {None} ]

ASSUME InputsAssumption ==
  \A input \in Inputs :
    /\ DOMAIN input.segments \subseteq Ids
    /\ input.segments \in [DOMAIN input.segments -> SegmentView]
    /\ input.candidates \in Seq(CandidateInsight)

\* No producer asks for another role where only the customer's words count.
ASSUME CustomerOnlyAssumption ==
  \A input \in Inputs : \A n \in DOMAIN input.candidates :
    input.candidates[n].type \in CUSTOMER_ONLY_TYPES
      => input.candidates[n].required \in {"customer", None}

VARIABLES
  segments,    \* by_id: the segments of the call
  candidates,  \* what was proposed, in order
  kept,        \* the verdicts so far, one for each candidate
  seen         \* (type, title, segment) of what shipped

vars == <<segments, candidates, kept, seen>>

Init ==
  /\ \E input \in Inputs :
       segments = input.segments /\ candidates = input.candidates
  /\ kept = <<>>
  /\ seen = {}

-----------------------------------------------------------------------------
dropped(v) == v.defect # None

Factual(c) == c.status \notin {"ABSENCE_BASED", "NON_FACTUAL"}

\* The claims a candidate makes on the segments it cites.
Keys(c) == {<<c.type, c.title, c.ids[i]>> : i \in DOMAIN c.ids}

RoleNeeded(c) ==
  IF c.required = None /\ c.type \in CUSTOMER_ONLY_TYPES THEN "customer" ELSE c.required

\* Mutant of Problem: only a role the candidate asks for is checked.
ProblemTrustsType(c, i) ==
  CASE c.ids[i] \notin DOMAIN segments -> "segment_missing"
    [] c.ids[i] \in DOMAIN segments ->
         IF c.required \notin {None, segments[c.ids[i]].role} THEN "wrong_speaker"
         ELSE IF c.quote # None /\ c.quote \notin segments[c.ids[i]].text THEN "quote_absent"
         ELSE IF <<c.type, c.title, c.ids[i]>> \in seen THEN "duplicate" ELSE None

\* The first check that the i-th segment a candidate cites fails, or None.
Problem(c, i) ==
  CASE c.ids[i] \notin DOMAIN segments -> "segment_missing"
    [] c.ids[i] \in DOMAIN segments ->
         IF RoleNeeded(c) \notin {None, segments[c.ids[i]].role} THEN "wrong_speaker"
         ELSE IF c.quote # None /\ c.quote \notin segments[c.ids[i]].text THEN "quote_absent"
         ELSE IF <<c.type, c.title, c.ids[i]>> \in seen THEN "duplicate" ELSE None

Keep(c, status, ids, defect) ==
  kept' = Append(kept, [claim |-> c, status |-> status, ids |-> ids, defect |-> defect])

\* A gap in the call, or courtesy: nothing to prove, and no evidence kept.
PassUnproven(c) ==
  /\ ~Factual(c)
  /\ Keep(c, c.status, <<>>, None)
  /\ UNCHANGED <<segments, candidates, seen>>

RefuseUncited(c) ==
  /\ Factual(c)
  /\ c.ids = <<>>
  /\ Keep(c, "UNCONFIRMED", <<>>, "no_evidence")
  /\ UNCHANGED <<segments, candidates, seen>>

\* Mutant of Refuse: the refused candidate marks its segments while they are walked.
RefuseMarks(c) ==
  /\ Factual(c)
  /\ \E i \in DOMAIN c.ids :
       /\ Problem(c, i) # None
       /\ \A j \in 1..i-1 : Problem(c, j) = None
       /\ Keep(c, "UNCONFIRMED", <<>>, Problem(c, i))
       /\ seen' = seen \cup {<<c.type, c.title, c.ids[j]>> : j \in 1..i-1}
  /\ UNCHANGED <<segments, candidates>>

\* Mutant of Refuse: the loop goes on to ship what it has just refused.
RefuseGoesOn(c) ==
  /\ Factual(c)
  /\ \E i \in DOMAIN c.ids :
       /\ Problem(c, i) # None
       /\ kept' = kept \o << [claim |-> c, status |-> "UNCONFIRMED", ids |-> <<>>, defect |-> Problem(c, i)],
                             [claim |-> c, status |-> c.status, ids |-> <<>>, defect |-> None] >>
  /\ UNCHANGED <<segments, candidates, seen>>

\* The first defect decides; a refused candidate leaves no mark.
Refuse(c) ==
  /\ Factual(c)
  /\ \E i \in DOMAIN c.ids :
       /\ Problem(c, i) # None
       /\ \A j \in 1..i-1 : Problem(c, j) = None
       /\ Keep(c, "UNCONFIRMED", <<>>, Problem(c, i))
  /\ UNCHANGED <<segments, candidates, seen>>

\* Mutant of Ship: what was shipped is forgotten.
ShipForgets(c) ==
  /\ Factual(c)
  /\ c.ids # <<>>
  /\ \A i \in DOMAIN c.ids : Problem(c, i) = None
  /\ Keep(c, IF c.sure THEN c.status ELSE "UNCONFIRMED", c.ids, None)
  /\ UNCHANGED <<segments, candidates, seen>>

\* Low confidence only changes the status: the insight is still kept.
Ship(c) ==
  /\ Factual(c)
  /\ c.ids # <<>>
  /\ \A i \in DOMAIN c.ids : Problem(c, i) = None
  /\ Keep(c, IF c.sure THEN c.status ELSE "UNCONFIRMED", c.ids, None)
  /\ seen' = seen \cup Keys(c)
  /\ UNCHANGED <<segments, candidates>>

Validate(c) == PassUnproven(c) \/ RefuseUncited(c) \/ Refuse(c) \/ Ship(c)

Next == \E n \in DOMAIN candidates : n = Len(kept) + 1 /\ Validate(candidates[n])

Spec == Init /\ [][Next]_vars

-----------------------------------------------------------------------------
\* The shape of the state; with it, that each candidate gets one verdict and no
\* verdict is stored with a segment of another call.
TypeOK ==
  /\ DOMAIN segments \subseteq Ids
  /\ segments \in [DOMAIN segments -> SegmentView]
  /\ candidates \in Seq(CandidateInsight)
  /\ kept \in Seq(ValidatedInsight)
  /\ Len(kept) <= Len(candidates)
  /\ \A n \in 1..Len(kept) : kept[n].claim = candidates[n]
  /\ seen \subseteq InsightType \X Titles \X Ids

\* A claim is unproven by itself when it cites nothing, or some segment it cites
\* is not of the call, is spoken by the wrong side, or does not hold its quote.
Proves(c, s) ==
  /\ s \in DOMAIN segments
  /\ c.required # None => segments[s].role = c.required
  /\ c.type \in CUSTOMER_ONLY_TYPES => segments[s].role = "customer"
  /\ c.quote # None => c.quote \in segments[s].text

Proven(c) == c.ids # <<>> /\ \A i \in DOMAIN c.ids : Proves(c, c.ids[i])

\* "No proof in the transcript, no claim in the report": what ships as fact is
\* proven by every segment it is stored with (evidence/__init__.py:89-136), and
\* what is refused carries no evidence (165-185).
ClaimsAreProven ==
  \A n \in 1..Len(kept) :
    IF dropped(kept[n]) \/ ~Factual(kept[n].claim)
      THEN kept[n].ids = <<>>
      ELSE kept[n].ids = kept[n].claim.ids /\ Proven(kept[n].claim)

\* Two claims that make the same claim on the same segment.
Repeats(c, d) == Keys(c) \cap Keys(d) # {}

Shipped(v) == ~dropped(v) /\ Factual(v.claim)

\* No two shipped insights of one type and title stand on the same segment
\* (lines 118-126, 136).
NoEvidenceTwice ==
  \A m, n \in 1..Len(kept) :
    m < n /\ Shipped(kept[m]) /\ Shipped(kept[n]) => ~Repeats(kept[m].claim, kept[n].claim)

\* A refusal is deserved: the claim is unproven, or an earlier candidate that did
\* ship made it on the same segment.  A refused candidate never poisons a later
\* one (the comment at lines 132-135).
RefusalsAreDeserved ==
  \A n \in 1..Len(kept) :
    dropped(kept[n]) =>
      \/ ~Proven(kept[n].claim)
      \/ \E m \in 1..n-1 : Shipped(kept[m]) /\ Repeats(kept[m].claim, kept[n].claim)
=============================================================================
