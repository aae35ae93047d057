--------------------------- MODULE MCCallInsights ---------------------------
(* Small calls for CallInsights: two customer segments and a seller's        *)
(* between them; id 4 is a segment of another call.                          *)
EXTENDS CallOutputs

MCIds == 1..4
MCPhrases == {"quantified", "meeting", "evasive", "budget approved", "rival",
              "dated", "priced", "next meeting"}
MCLabels == LabelsRead
MCTitles ==
  {CUSTOMER_TRUTH_MAP[k][2] : k \in DOMAIN CUSTOMER_TRUTH_MAP}
  \cup {OBJECTION_LABELS[k][2] : k \in DOMAIN OBJECTION_LABELS}
  \cup {MOMENT_KINDS[k][2] : k \in DOMAIN MOMENT_KINDS}
  \cup DOMAIN LabelOf \cup MCLabels
  \cup {"business_impact_identified", "blocker_active", "emotion", "seller", "customer",
        "next meeting", "recap", "overstated intent", "no commitment", "competitor",
        "budget", "explicit rejection", "rival", "unnamed"}

View(role, text, labels, score) ==
  [role |-> role, text |-> text, labels |-> [l \in MCLabels |-> IF l \in labels THEN score ELSE 0]]

UpTo2(S) == {{}} \cup {{a, b} : a, b \in S}

\* Any two labels on the first customer segment, one on each of the others.
Labelled ==
  { <<View("customer", {}, first, 1), View("seller", {}, said, 1), View("customer", {}, last, 2)>> :
      first \in UpTo2(MCLabels),
      said \in {{}, {"seller commitment", "next meeting commitment"}},
      last \in {{}, {"purchase timeline"}, {"negative buying signal"}, {"budget blocker"}} }

\* The words the reality checks and the competitor list look for.
Worded ==
  { <<View("customer", heard, labels, 1), View("seller", said, {"positive buying signal"}, score),
      View("customer", {"evasive"}, {"pain point"}, 1)>> :
      heard \in SUBSET {"quantified", "rival"},
      said \in SUBSET {"meeting", "budget approved"},
      labels \in SUBSET {"pain point", "budget blocker", "competitor mention"},
      score \in 0..1 }

\* A timeline in words, or with a date, and a price; a meeting one side speaks of.
Dated ==
  { <<View("customer", heard, {"purchase timeline"}, 1), View("seller", {"meeting", "priced", "dated"}, {}, 0),
      View("customer", later, labels, score)>> :
      heard \in {{}, {"dated"}},
      later \in {{}, {"dated", "priced"}, {"evasive"}},
      labels \in {{"purchase timeline"}, {"next meeting commitment"}, {"feature requirement", "security blocker"}},
      score \in 1..2 }

\* A meeting spoken of in these two words, by either side, whatever is scored.
Spoken ==
  { <<View("customer", heard, labels, 1), View("seller", said, {"seller commitment"}, score),
      View("customer", {}, {"next meeting commitment"}, later)>> :
      heard, said \in {{"meeting"}, {"meeting", "next meeting"}},
      labels \in {{}, {"customer commitment"}, {"negative buying signal"}},
      score, later \in 0..1 }

Plain == <<View("customer", {"quantified"}, {}, 0), View("seller", {"meeting"}, {}, 0),
           View("unknown", {}, {}, 0)>>

MCRecaps == {<<>>, <<1>>, <<0, 2>>, <<2, 2>>, <<2, 1>>}

NoAxes == <<"none", "none", "none">>

Extracted ==
  { [segments |-> segs, candidates |-> Extract(segs, NoAxes, <<>>)] : segs \in Labelled \cup Worded \cup Dated }
  \cup { [segments |-> segs, candidates |-> Extract(segs, NoAxes, recap)] : segs \in Spoken, recap \in MCRecaps }
  \cup { [segments |-> Plain, candidates |-> Extract(Plain, axes, recap)] :
           axes \in [{1} -> {"none", "weak", "strong"}], recap \in MCRecaps }

\* What a model could propose, with every defect.
Claims ==
  { [Cite(type, "pain", ids, required) EXCEPT !.quote = quote] :
      type \in {"CUSTOMER_FACT", "COMMITMENT"},
      ids \in {<<>>, <<1>>, <<2>>, <<1, 2>>, <<1, 4>>, <<3, 1>>},
      required \in {"none", "customer"},
      quote \in {"none", "quantified"} }

Courtesy == {[Cite("COMMITMENT", "pain", <<>>, "none") EXCEPT !.status = "NON_FACTUAL"],
             [Cite("COMMITMENT", "pain", <<1>>, "none") EXCEPT !.sure = FALSE],
             [Cite("COMMITMENT", "seller", <<>>, "none") EXCEPT !.status = "NON_FACTUAL"],
             [Cite("COMMITMENT", "next meeting", <<>>, "none") EXCEPT !.status = "NON_FACTUAL"],
             Absent("DEAL_RISK", "no_timeline")}

Proposed ==
  { [segments |-> Plain, candidates |-> <<a, b>>] : a \in Claims, b \in Claims \cup Courtesy }
  \cup { [segments |-> Plain, candidates |-> <<c, a, c>>] : c \in Courtesy, a \in Claims }

MCInputs == Extracted \cup Proposed
=============================================================================
