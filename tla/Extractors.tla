---------------------------- MODULE Extractors ----------------------------
(***************************************************************************)
(* The deterministic extractors of src/app/intelligence/extract.py: the    *)
(* candidate insights of a call, from the labels and words of its segments *)
(* in order.  segs is a sequence of EvidenceGate's SegmentViews; a segment *)
(* is cited by its place.                                                  *)
(*                                                                         *)
(* Kept of a title is the part that tells insights of one type apart.  The *)
(* words the code looks for are phrases: "quantified" (an amount or a span *)
(* of time), "meeting", "evasive", "budget approved", and "rival" for the  *)
(* name of a tracked competitor.                                           *)
(***************************************************************************)
EXTENDS Naturals, Sequences

SE == INSTANCE SequencesExt
FS == INSTANCE FiniteSetsExt

LABEL_THRESHOLD == 1
REJECTION_THRESHOLD == 2

CUSTOMER_TRUTH_MAP ==
  << <<"pain point", "pain">>, <<"feature requirement", "requirement">>,
     <<"integration requirement", "requirement">>,
     <<"positive buying signal", "buying_signal">>, <<"security blocker", "blocker">>,
     <<"budget blocker", "budget">>, <<"technical blocker", "blocker">>,
     <<"purchase timeline", "timeline">>, <<"competitor mention", "competition">>,
     <<"customer commitment", "commitment">> >>

OBJECTION_LABELS ==
  << <<"pricing objection", "pricing">>, <<"security blocker", "security">>,
     <<"technical blocker", "technical">>, <<"budget blocker", "budget">>,
     <<"purchase timeline", "timing">>, <<"integration requirement", "integration">>,
     <<"competitor mention", "competition">> >>

MOMENT_KINDS ==
  << <<"pain point", "pain">>, <<"pricing objection", "pricing">>,
     <<"competitor mention", "competitor">>, <<"security blocker", "security">>,
     <<"positive buying signal", "buying_signal">>, <<"customer commitment", "commitment">>,
     <<"seller commitment", "next_step">>, <<"next meeting commitment", "next_step">>,
     <<"pricing objection", "objection">> >>

BLOCKERS == <<"security blocker", "budget blocker", "technical blocker">>

LabelsRead ==
  {CUSTOMER_TRUTH_MAP[k][1] : k \in DOMAIN CUSTOMER_TRUTH_MAP}
  \cup {OBJECTION_LABELS[k][1] : k \in DOMAIN OBJECTION_LABELS}
  \cup {MOMENT_KINDS[k][1] : k \in DOMAIN MOMENT_KINDS}
  \cup {"economic buyer identified", "decision maker identified", "negative buying signal"}

-----------------------------------------------------------------------------
\* The loops of the extractors: what body yields for each element, in order.
ForEach(seq, body(_)) == SE!FlattenSeq([i \in DOMAIN seq |-> body(seq[i])])

Where(condition, candidate) == IF condition THEN <<candidate>> ELSE <<>>

Cite(type, title, ids, required) ==
  [type |-> type, title |-> title, status |-> "SUPPORTED", ids |-> ids,
   required |-> required, quote |-> "none", sure |-> TRUE]

Absent(type, title) == [Cite(type, title, <<>>, "none") EXCEPT !.status = "ABSENCE_BASED"]

Selected(seq, test(_)) == ForEach(seq, LAMBDA element : Where(test(element), element))

Places(seq) == [i \in DOMAIN seq |-> i]

\* The first place that passes, 0 for none.
First(places, test(_)) ==
  LET passing == Selected(places, test) IN IF passing = <<>> THEN 0 ELSE passing[1]

SpokenBy(segs, role) == Selected(Places(segs), LAMBDA i : segs[i].role = role)

customer_segments(segs) == SpokenBy(segs, "customer")

seller_segments(segs) == SpokenBy(segs, "seller")

Scores(segs, i, label) == segs[i].labels[label] >= LABEL_THRESHOLD

\* The first of the places that scores highest on the label, 0 for none.
Best(segs, places, label) ==
  LET top == FS!Max({0} \cup {segs[places[k]].labels[label] : k \in DOMAIN places})
  IN  IF top = 0 THEN 0 ELSE First(places, LAMBDA i : segs[i].labels[label] = top)

\* The same over several labels: a later label must score strictly higher.
MaxLabel(segs, places, labels) ==
  LET tops == [l \in SE!ToSet(labels) |->
                 FS!Max({0} \cup {segs[places[k]].labels[l] : k \in DOMAIN places})]
      top  == FS!Max({tops[l] : l \in DOMAIN tops})
  IN  IF top = 0 THEN 0
      ELSE Best(segs, places, Selected(labels, LAMBDA l : tops[l] = top)[1])

\* Only the best pain point is looked at for a quantity.
QuantifiedPain(segs, places) ==
  LET best == Best(segs, places, "pain point")
  IN  IF best # 0 /\ "quantified" \in segs[best].text THEN best ELSE 0

FirstSaying(segs, places, phrase) == First(places, LAMBDA i : phrase \in segs[i].text)

-----------------------------------------------------------------------------
extract_customer_truth(segs) ==
  ForEach(customer_segments(segs), LAMBDA i :
    ForEach(CUSTOMER_TRUTH_MAP, LAMBDA row :
      Where(Scores(segs, i, row[1]), Cite("CUSTOMER_FACT", row[2], <<i>>, "customer"))))

\* axes[i]: the emotions scored for a customer segment: none, weak (below the
\* confidence threshold) or strong.
extract_sentiment(segs, axes) ==
  ForEach(customer_segments(segs), LAMBDA i :
    Where(axes[i] # "none",
          [Cite("SENTIMENT_POINT", "emotion", <<i>>, "customer") EXCEPT !.sure = axes[i] = "strong"]))

\* The dimensions of buying intent, with the customer segment that shows each.
Intent(segs) ==
  LET cust == customer_segments(segs)
  IN  << <<"pain_identified", Best(segs, cust, "pain point")>>,
         <<"business_impact_identified", QuantifiedPain(segs, cust)>>,
         <<"timeline_identified", Best(segs, cust, "purchase timeline")>>,
         <<"economic_buyer_identified", Best(segs, cust, "economic buyer identified")>>,
         <<"decision_maker_identified", Best(segs, cust, "decision maker identified")>>,
         <<"next_meeting_committed", Best(segs, cust, "next meeting commitment")>>,
         <<"competitor_active", Best(segs, cust, "competitor mention")>>,
         <<"blocker_active", MaxLabel(segs, cust, BLOCKERS)>> >>

extract_buying_intent(segs) ==
  ForEach(Intent(segs), LAMBDA dimension :
    IF dimension[2] # 0
      THEN <<Cite("QUALIFICATION_SIGNAL", dimension[1], <<dimension[2]>>, "customer")>>
      ELSE <<Absent("QUALIFICATION_SIGNAL", dimension[1])>>)

extract_objections(segs) ==
  ForEach(customer_segments(segs), LAMBDA i :
    ForEach(OBJECTION_LABELS, LAMBDA row :
      IF Scores(segs, i, row[1])
        THEN << Cite("OBJECTION", row[2], <<i>>, "customer"),
                Cite("COACHING", row[2], <<i>>, "customer") >>
        ELSE <<>>))

\* recap: for each action item of the recap, the segment its text matches best,
\* 0 for none.
extract_commitments(segs, recap) ==
  ForEach(Places(segs), LAMBDA i :
       Where(Scores(segs, i, "seller commitment") /\ segs[i].role = "seller",
             Cite("COMMITMENT", "seller", <<i>>, "seller"))
    \o Where(Scores(segs, i, "customer commitment") /\ segs[i].role = "customer",
             Cite("COMMITMENT", "customer", <<i>>, "customer"))
    \o Where(Scores(segs, i, "next meeting commitment") /\ segs[i].role = "customer",
             Cite("COMMITMENT", "next meeting", <<i>>, "customer")))
  \o ForEach(recap, LAMBDA i : Where(i # 0, Cite("COMMITMENT", "recap", <<i>>, "none")))

\* Each check sets a seller's statement against a customer's segment.
extract_reality_checks(segs) ==
  LET seller   == seller_segments(segs)
      customer == customer_segments(segs)
      intent   == Best(segs, seller, "positive buying signal")
      blocker  == MaxLabel(segs, customer, BLOCKERS)
      rival    == Best(segs, customer, "competitor mention")
      budget   == Best(segs, customer, "budget blocker")
      meeting  == FirstSaying(segs, seller, "meeting")
      approved == FirstSaying(segs, seller, "budget approved")
      evasive  == FirstSaying(segs, customer, "evasive")
      weak     == IF evasive = 0 /\ customer # <<>> THEN customer[1] ELSE evasive
      Check(title, said, heard) ==
        Where(said # 0 /\ heard # 0, Cite("REALITY_CHECK", title, <<said, heard>>, "none"))
  IN  Check("overstated intent", intent, blocker)
      \o Check("no commitment", meeting,
               IF Best(segs, customer, "next meeting commitment") # 0 THEN 0 ELSE weak)
      \o Check("competitor", intent, rival)
      \o Check("budget", approved, budget)

\* Mutant of ABSENCES: the economic buyer is taken for the decision maker.
ABSENCES_SWAPPED ==
  << <<"timeline_identified", "no_timeline">>,
     <<"decision_maker_identified", "no_economic_buyer">>,
     <<"next_meeting_committed", "no_next_meeting">> >>

ABSENCES ==
  << <<"timeline_identified", "no_timeline">>,
     <<"economic_buyer_identified", "no_economic_buyer">>,
     <<"next_meeting_committed", "no_next_meeting">> >>

extract_deal_killers(segs) ==
  LET cust   == customer_segments(segs)
      intent == Intent(segs)
      Supported(label) ==
        Where(Best(segs, cust, label) # 0,
              Cite("DEAL_RISK", label, <<Best(segs, cust, label)>>, "customer"))
      rejection == Best(segs, cust, "negative buying signal")
      Present(dimension) == \E k \in DOMAIN intent : intent[k][1] = dimension /\ intent[k][2] # 0
  IN  Supported("security blocker") \o Supported("budget blocker")
      \o Supported("competitor mention") \o Supported("technical blocker")
      \o (IF rejection # 0 /\ segs[rejection].labels["negative buying signal"] >= REJECTION_THRESHOLD
            THEN <<Cite("DEAL_RISK", "explicit rejection", <<rejection>>, "customer")>> ELSE <<>>)
      \o ForEach(ABSENCES, LAMBDA row : Where(~Present(row[1]), Absent("DEAL_RISK", row[2])))

extract_competitors(segs) ==
  ForEach(customer_segments(segs), LAMBDA i :
    Where("rival" \in segs[i].text \/ Scores(segs, i, "competitor mention"),
          Cite("COMPETITOR", IF "rival" \in segs[i].text THEN "rival" ELSE "unnamed", <<i>>, "customer")))

\* Mutant of extract_moments: a moment is called the customer's whoever spoke.
MomentsOfCustomer(segs) ==
  ForEach(Places(segs), LAMBDA i :
    ForEach(MOMENT_KINDS, LAMBDA row :
      Where(Scores(segs, i, row[1]), Cite("CALL_MOMENT", row[2], <<i>>, "customer"))))

extract_moments(segs) ==
  ForEach(Places(segs), LAMBDA i :
    ForEach(MOMENT_KINDS, LAMBDA row :
      Where(Scores(segs, i, row[1]), Cite("CALL_MOMENT", row[2], <<i>>, "none"))))

\* The candidates in the order the pipeline collects them (runner.py:448-458).
Extract(segs, axes, recap) ==
  extract_customer_truth(segs) \o extract_sentiment(segs, axes)
  \o extract_buying_intent(segs) \o extract_objections(segs)
  \o extract_commitments(segs, recap) \o extract_reality_checks(segs)
  \o extract_deal_killers(segs) \o extract_competitors(segs)
  \o extract_moments(segs)
=============================================================================
