---------------------------- MODULE CallOutputs ----------------------------
(***************************************************************************)
(* What is made of the insights of a call once the gate is through: the    *)
(* dimension states, the CRM fields (api/v1/integrations.py), battlecard   *)
(* and manager brief (intelligence/templates.py), and the follow-up e-mail *)
(* with its polish (intelligence/email.py).  Each reads other insights for *)
(* what should be one fact.                                                *)
(*                                                                         *)
(* Sentences, goals and questions are kept by what they are about.  "dated"*)
(* and "priced" are phrases: a calendar date, an amount of money; "next    *)
(* meeting" is a text of these words and no others.                        *)
(***************************************************************************)
EXTENDS CallInsights

\* The insights that ship, which are also what persist_insights stores.
shippable == Selected(kept, LAMBDA v : ~dropped(v))

OfType(insights, types) == Selected(insights, LAMBDA v : v.claim.type \in types)
TitlesOf(insights) == {insights[n].claim.title : n \in DOMAIN insights}
IdsOf(insights) == ForEach(insights, LAMBDA v : v.ids)

\* _dedupe: the first of each, in order.
Deduped(items) ==
  LET first == Selected(Places(items), LAMBDA i : \A j \in 1..i - 1 : items[j] # items[i])
  IN  [k \in DOMAIN first |-> items[first[k]]]

-----------------------------------------------------------------------------
(* Dimensions.                                                             *)

DIMENSIONS == {"pain_identified", "business_impact_identified", "decision_maker_identified",
               "economic_buyer_identified", "timeline_identified", "next_meeting_committed",
               "competitor_active", "blocker_active"}
ADVERSE_DIMENSIONS == {"competitor_active", "blocker_active"}

Signals(insights, dimension) ==
  Selected(OfType(insights, {"QUALIFICATION_SIGNAL"}), LAMBDA v : v.claim.title = dimension)

Present(signal) == signal.claim.status = "SUPPORTED"

\* "missing" stands for weak, too.
dimension_state(dimension, present) ==
  IF ~present THEN "missing" ELSE IF dimension \in ADVERSE_DIMENSIONS THEN "blocked" ELSE "proven"

signal_pips(insights) ==
  [d \in DIMENSIONS |->
     LET signals == Signals(insights, d)
     IN  dimension_state(d, signals # <<>> /\ Present(signals[Len(signals)]))]

-----------------------------------------------------------------------------
(* The CRM preview.                                                        *)

\* The dimension each field depends on, none for the amount.
CRM_FIELDS ==
  [ call_note_why_they_buy    |-> "pain_identified",
    call_note_business_impact |-> "business_impact_identified",
    deal_close_date           |-> "timeline_identified",
    deal_amount               |-> None,
    contact_is_decision_maker |-> "decision_maker_identified",
    contact_is_economic_buyer |-> "economic_buyer_identified",
    log_completed_meeting     |-> "next_meeting_committed" ]

Field(state, ids) == [state |-> state, ids |-> ids]

Saying(ids, phrase) == Selected(ids, LAMBDA i : phrase \in segments[i].text)

\* Mutant of explicit_date: the first evidence that comes to hand.
AnyDate(evidence) ==
  IF evidence = <<>> THEN Field("MANUAL", evidence) ELSE Field("SUPPORTED", <<evidence[1]>>)

explicit_date(evidence) ==
  LET dated == Saying(evidence, "dated")
  IN  IF dated = <<>> THEN Field("MANUAL", evidence) ELSE Field("SUPPORTED", <<dated[1]>>)

agreed_amount == Field("MANUAL", Saying(Places(segments), "priced"))

quote_or_flag(evidence) == Field(IF evidence = <<>> THEN "MANUAL" ELSE "SUPPORTED", evidence)

field_payload(insights, name) ==
  LET gate     == CRM_FIELDS[name]
      evidence == IdsOf(Signals(insights, gate))
  IN  CASE gate = None -> agreed_amount
        [] gate # None /\ signal_pips(insights)[gate] # "proven" -> Field("BLOCKED", evidence)
        [] gate # None /\ signal_pips(insights)[gate] = "proven" ->
             IF name = "deal_close_date" THEN explicit_date(evidence) ELSE quote_or_flag(evidence)

crm_preview(insights) == [name \in DOMAIN CRM_FIELDS |-> field_payload(insights, name)]

-----------------------------------------------------------------------------
(* Battlecard and manager brief.                                           *)

\* Mutant of DEAL_KILLER_PRIORITY: what nobody said comes first.
AbsencesFirst ==
  << "no_next_meeting", "no_economic_buyer", "no_timeline", "explicit rejection", "security blocker",
     "budget blocker", "technical blocker", "competitor mention" >>

DEAL_KILLER_PRIORITY ==
  << "explicit rejection", "security blocker", "budget blocker", "technical blocker", "competitor mention",
     "no_next_meeting", "no_economic_buyer", "no_timeline" >>

top_deal_killer(insights) ==
  LET ranked == Selected(DEAL_KILLER_PRIORITY, LAMBDA kind : kind \in TitlesOf(OfType(insights, {"DEAL_RISK"})))
  IN  IF ranked = <<>> THEN None ELSE ranked[1]

\* In the order they are asked.
MISSING_FIELD_QUESTIONS ==
  << <<"pain_identified", "first problem">>, <<"business_impact_identified", "cost today">>,
     <<"timeline_identified", "date needed">>, <<"economic_buyer_identified", "budget owner">>,
     <<"decision_maker_identified", "who else">>, <<"next_meeting_committed", "when again">>,
     <<"competitor_active", "other options">>, <<"blocker_active", "what could stop it">> >>

DEAL_KILLER_QUESTIONS(kind) ==
  CASE kind = "explicit rejection" -> <<"what led there", "what would work">>
    [] kind = "security blocker"   -> <<"security owner", "review documents", "review date">>
    [] kind = "budget blocker"     -> <<"budget owner", "what gets it funded">>
    [] kind = "technical blocker"  -> <<"technical questions", "technical owner">>
    [] kind = "competitor mention" -> <<"how compared", "what decides">>
    [] kind = "no_next_meeting"    -> <<"when again", "before that meeting">>
    [] kind = "no_economic_buyer"  -> <<"budget owner", "how to reach them">>
    [] kind = "no_timeline"        -> <<"date needed", "steps until then">>
    [] kind = None                 -> <<>>

DEFAULT_QUESTIONS == <<"next approval", "what you need", "reconvene with owners">>
MAX_QUESTIONS == 5

build_battlecard(insights) ==
  LET absent == TitlesOf(Selected(OfType(insights, {"QUALIFICATION_SIGNAL"}), LAMBDA v : v.status = "ABSENCE_BASED"))
      killer == top_deal_killer(insights)
      asked  == Deduped(DEAL_KILLER_QUESTIONS(killer)
                        \o ForEach(MISSING_FIELD_QUESTIONS, LAMBDA row : Where(row[1] \in absent, row[2])))
  IN  [ top_deal_killer  |-> killer,
        missing          |-> absent,
        questions_to_ask |-> IF asked = <<>> THEN DEFAULT_QUESTIONS
                             ELSE SubSeq(asked, 1, IF Len(asked) < MAX_QUESTIONS THEN Len(asked) ELSE MAX_QUESTIONS) ]

NoId == 0

\* The segment that a recap's commitment matches; of two that match one segment
\* the gate lets one through.
Matched(v) == IF v.ids = <<>> THEN NoId ELSE v.ids[1]

\* Whose commitment it is.  items: what the recap says of the item that matches a
\* segment, its action and its side; where it names none, the side is that of the
\* segment's speaker.
Side(v, items) ==
  CASE v.claim.title = "seller" -> "seller"
    [] v.claim.title = "recap" ->
         IF items[Matched(v)].side # None THEN items[Matched(v)].side
         ELSE IF v.ids # <<>> /\ segments[v.ids[1]].role = "seller" THEN "seller" ELSE "customer"
    [] v.claim.title \notin {"seller", "recap"} -> "customer"

build_manager_brief(insights, items) ==
  LET signals == OfType(insights, {"QUALIFICATION_SIGNAL"})
      committed == Selected(OfType(insights, {"COMMITMENT"}), LAMBDA v : Side(v, items) = "customer")
  IN  [ buying_intent       |-> {signals[n].claim.title : n \in {m \in DOMAIN signals : Present(signals[m])}},
        competition         |-> TitlesOf(OfType(insights, {"COMPETITOR"})),
        why_they_do_not     |-> TitlesOf(OfType(insights, {"OBJECTION", "DEAL_RISK"})),
        customer_commitment |-> committed # <<>>,
        security_lead       |-> "security blocker" \in TitlesOf(OfType(insights, {"DEAL_RISK"})) ]

-----------------------------------------------------------------------------
(* The follow-up e-mail.                                                   *)

\* _contradicting_segment_id: the customer's segment of the reality check on the
\* next meeting, if the gate kept it as evidence.
contradicting_segment_id(insights) ==
  LET weighed == Selected(OfType(insights, {"REALITY_CHECK"}), LAMBDA v :
                   v.claim.title = "no commitment" /\ v.claim.ids[2] \in SE!ToSet(v.ids))
  IN  IF weighed = <<>> THEN NoId ELSE weighed[1].claim.ids[2]

\* A factual sentence, and what its entry in unsupported_claims would point at.
Fact(about, ids, contradicting) ==
  [about |-> about, kind |-> "FACT", ids |-> ids, supported |-> ids # <<>>, contradicting |-> contradicting]

Courteous(about) ==
  [about |-> about, kind |-> "NON_FACTUAL", ids |-> <<>>, supported |-> FALSE, contradicting |-> NoId]

\* The text of the segment, or of the recap's item, that is the commitment's action.
WordedMeeting(v, items) ==
  \/ /\ v.claim.title \in {"seller", "customer"} /\ v.ids # <<>>
     /\ "next meeting" \in segments[v.ids[1]].text
  \/ v.claim.title = "recap" /\ items[Matched(v)].action = "next meeting"

\* Mutant of IsMeeting: every commitment is taken for a meeting.
AnyCommitment(v, items) == TRUE

\* The action is "next meeting": so the extractor calls what it finds scored as one.
IsMeeting(v, items) == v.claim.title = "next meeting" \/ WordedMeeting(v, items)

Meetings(insights, items) ==
  Selected(OfType(insights, {"COMMITMENT"}), LAMBDA v : IsMeeting(v, items))

MeetingSentence(insights, items) ==
  LET ids == IdsOf(Meetings(insights, items))
      against == contradicting_segment_id(insights)
  IN  IF ids # <<>> THEN Fact("meeting", ids, NoId)
      ELSE IF Meetings(insights, items) # <<>> \/ against # NoId THEN Fact("meeting", <<>>, against)
      ELSE Courteous("no meeting")

FollowUpSentences(insights, items) ==
  <<Courteous("greeting"), Courteous("thanks")>>
  \o ForEach(OfType(insights, {"COMMITMENT"}), LAMBDA v :
       Where(Side(v, items) = "seller", Fact(v.claim.title, v.ids, NoId)))
  \o ForEach(OfType(insights, {"CUSTOMER_FACT"}), LAMBDA v :
       Where(v.claim.title \in {"blocker", "budget", "requirement"}, Fact("quote", v.ids, NoId)))
  \o <<MeetingSentence(insights, items)>>

Unsupported(sentence) == sentence.kind = "FACT" /\ ~sentence.supported

\* add_fact lists what its evidence does not support.
build_follow_up(insights, items) ==
  LET sentences == FollowUpSentences(insights, items)
      claims    == Selected(sentences, LAMBDA s : Unsupported(s))
  IN  [ sentences |-> sentences,
        unsupported_claims |-> [k \in DOMAIN claims |->
                                  [about |-> claims[k].about, contradicting |-> claims[k].contradicting]] ]

\* polish_or_fallback with as many lines as sentences: their text is new, which
\* is not kept here, and _reconcile_claims takes the k-th unsupported one for
\* the k-th claim.
polished(draft) ==
  LET claims == Selected(draft.sentences, LAMBDA s : Unsupported(s))
      prior  == draft.unsupported_claims
  IN  [ draft EXCEPT !.unsupported_claims =
          [k \in DOMAIN claims |->
             [about |-> claims[k].about, contradicting |-> IF k \in DOMAIN prior THEN prior[k].contradicting ELSE NoId]] ]

-----------------------------------------------------------------------------
(* Properties.                                                             *)

Judged == Len(kept) = Len(candidates)

\* What the items of a recap may say, where its commitments came through the gate.
RecapItems(insights) ==
  LET promises == OfType(insights, {"COMMITMENT"})
      matched  == {Matched(promises[n]) : n \in {m \in DOMAIN promises : promises[m].claim.title = "recap"}}
  IN  [matched -> [side : {None, "seller", "customer"}, action : {"next meeting", "other"}]]

\* A commitment the e-mail takes for a meeting by its wording alone.
OnlyWorded(v, items) == v.claim.type = "COMMITMENT" /\ WordedMeeting(v, items)

\* What the absence-based deal killers miss.
AbsenceOf ==
  [no_next_meeting |-> "next_meeting_committed", no_economic_buyer |-> "economic_buyer_identified",
   no_timeline |-> "timeline_identified"]

QuestionOn(dimension) == Selected(MISSING_FIELD_QUESTIONS, LAMBDA row : row[1] = dimension)[1][2]

\* CRM preview, battlecard, brief and e-mail say the same of a dimension, each from
\* insights of its own.  What one calls established no other calls missing: a next
\* meeting that is logged is confirmed by the e-mail and a commitment in the brief,
\* and where none is logged the brief says so, and the e-mail confirms one only for
\* a commitment worded "next meeting" that nothing scored as one.  A competitor that
\* is active is named, though one may be named that is not active.  An absence is
\* the top deal killer only when no customer named an obstacle, and the question it
\* earns comes first (integrations.py:7-18, templates.py:258-261, email.py:86-114).
SurfacesAgree ==
  Judged =>
    LET insights == shippable
        pips     == signal_pips(insights)
        crm      == crm_preview(insights)
        card     == build_battlecard(insights)
        killer   == card.top_deal_killer
        logged   == crm.log_completed_meeting.state = "SUPPORTED"
        Agree    ==
          /\ card.missing = {d \in DIMENSIONS : pips[d] = "missing"}
          /\ \A name \in DOMAIN crm : crm[name].state = "BLOCKED" <=> CRM_FIELDS[name] \in card.missing
          /\ logged <=> "next_meeting_committed" \notin card.missing
          /\ killer \in DOMAIN AbsenceOf =>
               /\ \A n \in DOMAIN insights : insights[n].claim.type = "DEAL_RISK" => insights[n].ids = <<>>
               /\ card.questions_to_ask[1] = QuestionOn(AbsenceOf[killer])
          /\ \A items \in RecapItems(insights) :
               LET brief   == build_manager_brief(insights, items)
                   meeting == MeetingSentence(insights, items)
                   about   == {build_follow_up(insights, items).sentences[n].about :
                                 n \in DOMAIN build_follow_up(insights, items).sentences}
               IN  /\ brief.buying_intent = DIMENSIONS \ card.missing
                   /\ "no_next_meeting" \in brief.why_they_do_not <=> ~logged
                   /\ logged => meeting.supported /\ brief.customer_commitment
                   /\ meeting.supported => logged \/ \E n \in DOMAIN insights : OnlyWorded(insights[n], items)
                   /\ "competitor_active" \notin card.missing => brief.competition # {}
                   /\ "blocker_active" \notin card.missing => "quote" \in about
                   /\ brief.security_lead => "blocker_active" \notin card.missing
    IN  ~Agree => ~FromExtractors

Said(ids, role) == \A n \in DOMAIN ids : segments[ids[n]].role = role

\* Whatever was proposed, the draft lists every factual sentence nothing supports,
\* and goes on doing so when it is polished (email.py:3-6).  Of what the extractors
\* propose, a promise is backed by words of the seller and a quote by the customer's;
\* a recap's item only by the segment its text matches, whoever spoke.  A meeting is
\* backed by a customer who agreed to one, or by a commitment worded "next meeting",
\* and contradicted by a customer who did not agree.  What is written to the CRM the
\* customer said, with a date or a quantity where the field is one (integrations.py:20-22).
NothingUnbacked ==
  Judged =>
    LET insights == shippable
        crm      == crm_preview(insights)
        Agreed(i) == segments[i].role = "customer" /\ Scores(segments, i, "next meeting commitment")
        Worded(i, items) ==
          \E n \in DOMAIN insights : OnlyWorded(insights[n], items) /\ i \in SE!ToSet(insights[n].ids)
        Backed(sentence, items) ==
          /\ sentence.about = "seller" => Said(sentence.ids, "seller")
          /\ sentence.about = "quote" => Said(sentence.ids, "customer")
          /\ sentence.about = "meeting" =>
               \A n \in DOMAIN sentence.ids : Agreed(sentence.ids[n]) \/ Worded(sentence.ids[n], items)
          /\ sentence.contradicting # NoId =>
               /\ segments[sentence.contradicting].role = "customer" /\ sentence.about = "meeting"
               /\ ~Agreed(sentence.contradicting)
        Written(name) ==
          crm[name].state = "SUPPORTED" =>
            /\ crm[name].ids # <<>> /\ Said(crm[name].ids, "customer")
            /\ name = "deal_close_date" => "dated" \in segments[crm[name].ids[1]].text
            /\ name = "call_note_business_impact" => "quantified" \in segments[crm[name].ids[1]].text
        AllBacked ==
          \A items \in RecapItems(insights) :
            \A sentence \in SE!ToSet(FollowUpSentences(insights, items)) : Backed(sentence, items)
    IN  /\ \A items \in RecapItems(insights) :
             LET draft == build_follow_up(insights, items) IN
             /\ polished(draft) = draft
             /\ \A n \in DOMAIN draft.sentences :
                  draft.sentences[n].kind = "FACT" /\ draft.sentences[n].ids = <<>> =>
                    \E k \in DOMAIN draft.unsupported_claims :
                      draft.unsupported_claims[k].about = draft.sentences[n].about
        /\ ~(AllBacked /\ \A name \in DOMAIN crm : Written(name)) => ~FromExtractors
=============================================================================
