---------------------------- MODULE CallInsights ----------------------------
(***************************************************************************)
(* The analysis of one call (_analyze, runner.py:448-474): the extractors' *)
(* candidates handed to the evidence gate.  Some of the Inputs come from   *)
(* the extractors, others are candidates as a model may propose them.      *)
(***************************************************************************)
EXTENDS EvidenceGate, Extractors

CONSTANT Recaps    \* the segments matched by the action items of a recap

\* The extractors read a call's segments in order, and every label they look at.
ASSUME SegmentsAssumption == \A input \in Inputs : input.segments \in Seq(SegmentView)

ASSUME LabelsAssumption == LabelsRead \subseteq Labels

ASSUME RecapsAssumption == \A recap \in Recaps : recap \in Seq(Nat)

\* The candidates are what the extractors make of these segments.
FromExtractors ==
  \E axes \in [SE!ToSet(customer_segments(segments)) -> {"none", "weak", "strong"}],
     recap \in Recaps :
    /\ SE!ToSet(recap) \subseteq {0} \cup DOMAIN segments
    /\ candidates = Extract(segments, axes, recap)

\* docs/ARCHITECTURE.md:416-417: each extractor "filters by speaker role before
\* emitting and cites only segments it just read".  Whatever they propose is
\* proven; only a repeated claim is ever refused.
ExtractorsOnlyRepeat ==
  (\E n \in 1..Len(kept) : kept[n].defect \notin {None, "duplicate"}) => ~FromExtractors

\* The label whose absence each absence-based insight of the report asserts.
LabelOf ==
  [ no_timeline       |-> "purchase timeline",
    no_economic_buyer |-> "economic buyer identified",
    no_next_meeting   |-> "next meeting commitment",
    pain_identified             |-> "pain point",
    timeline_identified         |-> "purchase timeline",
    economic_buyer_identified   |-> "economic buyer identified",
    decision_maker_identified   |-> "decision maker identified",
    next_meeting_committed      |-> "next meeting commitment",
    competitor_active           |-> "competitor mention" ]

\* docs/evidence.md:12 "an observable gap": what the extractors report as absent
\* was said by no customer, however many segments were scored (extract.py:142-168,
\* 401-420).
AbsencesAreReal ==
  (\E n \in 1..Len(kept) :
     /\ kept[n].status = "ABSENCE_BASED"
     /\ kept[n].claim.title \in DOMAIN LabelOf
     /\ \E i \in DOMAIN segments :
          /\ segments[i].role = "customer"
          /\ Scores(segments, i, LabelOf[kept[n].claim.title]))
  => ~FromExtractors

=============================================================================
