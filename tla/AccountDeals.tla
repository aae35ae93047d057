---------------------------- MODULE AccountDeals ----------------------------
(***************************************************************************)
(* The calls of an account as one deal: create_call attaching calls to     *)
(* deals by name (api/v1/calls.py, deals.py), workers committing analyses, *)
(* and the two views that compare what the calls established, get_deal and *)
(* list_calls.  A view is several queries, each of what is committed then. *)
(*                                                                         *)
(* An analysis is [signals, risks]: how sure the run is of each dimension  *)
(* it kept a signal for, and the risks it stored.  A segment is named by   *)
(* what it establishes: <<call, version, dimension>>.                      *)
(***************************************************************************)
EXTENDS Naturals, Sequences, FiniteSets

SE == INSTANCE SequencesExt
FE == INSTANCE FiniteSetsExt

CONSTANTS
  MaxCalls,    \* bound: calls, each made by one request
  Names,       \* customer names
  Analyses,    \* what an analysis may find
  MaxRuns,     \* bound: runs of all calls
  MaxLosses    \* bound: calls deleted, or transcribed again

ASSUME DealsAssumption ==
  /\ Names \subseteq {"Acme", "ACME", "A_me", ""}
  /\ MaxCalls \in Nat /\ MaxRuns \in Nat /\ MaxLosses \in Nat

DIMENSIONS ==
  <<"pain_identified", "business_impact_identified", "decision_maker_identified",
    "economic_buyer_identified", "timeline_identified", "next_meeting_committed",
    "competitor_active", "blocker_active">>

ADVERSE_DIMENSIONS == {"competitor_active", "blocker_active"}

\* "A_me" is a pattern to ILIKE, which matches the other names.
Folded(name) == IF name = "ACME" THEN "Acme" ELSE name
IsPattern(name) == name = "A_me"

VARIABLES
  call,     \* calls: where their request is, the name, the deal
  deals,    \* committed deals: [by, name]
  runs,     \* runs[c]: analyses of the call by version, with their evidence links
  view,     \* the view being put together
  raced,    \* history: names two requests made a deal for at the same time
  losses

vars == <<call, deals, runs, view, raced, losses>>

\* Calls are numbered as they are made, which is when they are stamped.
Calls == 1..MaxCalls

NoDeal == [by |-> 0, name |-> ""]
NoCall == [pc |-> "new", name |-> "", deal |-> NoDeal]
NoView == [pc |-> "idle", list |-> <<>>, seen |-> <<>>, shown |-> <<>>,
           risks |-> <<>>, deltas |-> <<>>]

Init ==
  /\ call = [c \in Calls |-> NoCall]
  /\ deals = {}
  /\ runs = [c \in Calls |-> <<>>]
  /\ view = NoView
  /\ raced = {}
  /\ losses = 0

-----------------------------------------------------------------------------
(* create_call.                                                            *)

Is(c, pc) == call[c].pc = pc
Committed == {c \in Calls : Is(c, "committed")}

\* Mutant of Matches: the case counts.
MatchesCase(account, name) == account = name

\* account_name ILIKE name
Matches(account, name) == Folded(account) = Folded(name) \/ IsPattern(name)

\* The call is flushed, which stamps it, and attach_to_deal looks for a deal:
\* any that matches, or a new one that nobody sees before this commits.
Create(c, name) ==
  /\ Is(c, "new")
  /\ \A d \in 1..c - 1 : ~Is(d, "new")
  /\ LET found == {d \in deals : Matches(d.name, name)} IN
     \E deal \in IF name = "" THEN {NoDeal}
                 ELSE IF found # {} THEN found
                 ELSE {[by |-> c, name |-> name]} :
       call' = [call EXCEPT ![c] = [pc |-> "attached", name |-> name, deal |-> deal]]
  /\ raced' = raced \cup {Folded(call[d].name) : d \in {d \in Calls :
                  Is(d, "attached") /\ Folded(call[d].name) = Folded(name)}}
  /\ UNCHANGED <<deals, runs, view, losses>>

Commit(c) ==
  /\ Is(c, "attached")
  /\ call' = [call EXCEPT ![c].pc = "committed"]
  /\ deals' = IF call[c].deal.by = c THEN deals \cup {call[c].deal} ELSE deals
  /\ UNCHANGED <<runs, view, raced, losses>>

\* An error before the commit takes call and deal with it.
Rollback(c) ==
  /\ Is(c, "attached")
  /\ call' = [call EXCEPT ![c] = [NoCall EXCEPT !.pc = "gone"]]
  /\ UNCHANGED <<deals, runs, view, raced, losses>>

-----------------------------------------------------------------------------
(* What happens to a call.                                                 *)

\* A worker commits a run, with its insights and their evidence.
CommitRun(c, analysis) ==
  /\ c \in Committed
  /\ SE!FoldLeft(LAMBDA n, d : n + Len(d), 0, runs) < MaxRuns
  /\ runs' = [runs EXCEPT ![c] = Append(@, [found |-> analysis, linked |-> TRUE])]
  /\ UNCHANGED <<call, deals, view, raced, losses>>

\* persist_transcript replaces the segments; the links to them go.
TranscribeAgain(c) ==
  /\ c \in Committed
  /\ runs[c] # <<>>
  /\ losses < MaxLosses
  /\ losses' = losses + 1
  /\ runs' = [runs EXCEPT ![c] = [v \in DOMAIN @ |-> [@[v] EXCEPT !.linked = FALSE]]]
  /\ UNCHANGED <<call, deals, view, raced>>

\* delete_call takes the runs with it, and leaves the deal.
DeleteCall(c) ==
  /\ c \in Committed
  /\ losses < MaxLosses
  /\ losses' = losses + 1
  /\ call' = [call EXCEPT ![c] = [NoCall EXCEPT !.pc = "gone"]]
  /\ runs' = [runs EXCEPT ![c] = <<>>]
  /\ UNCHANGED <<deals, view, raced>>

-----------------------------------------------------------------------------
(* Dimensions.                                                             *)

dimension_state(dimension, level) ==
  CASE level = "present" -> IF dimension \in ADVERSE_DIMENSIONS THEN "blocked" ELSE "proven"
    [] level = "weak" -> "weak"
    [] OTHER -> "missing"

\* signal_pips over the signals of some runs, the later the stronger.
signal_pips(found) ==
  [dimension \in SE!ToSet(DIMENSIONS) |->
     LET with == {n \in DOMAIN found : dimension \in DOMAIN found[n].signals} IN
     IF with = {} THEN "missing"
     ELSE dimension_state(dimension, found[FE!Max(with)].signals[dimension])]

\* The most severe risk, and of these the surest.
TopRisk(risks) ==
  LET worse(a, b) == a.rank < b.rank \/ (a.rank = b.rank /\ a.confidence >= b.confidence)
  IN IF risks = {} THEN "none"
     ELSE (CHOOSE a \in risks : \A b \in risks : worse(a, b)).title

-----------------------------------------------------------------------------
(* The views.                                                              *)

Stored(c, v) == IF v \in DOMAIN runs[c] THEN <<runs[c][v].found>> ELSE <<>>

\* In the order they were made: up to the k-th there are k of them.
ByStamp(cs) ==
  [k \in 1..Cardinality(cs) |-> CHOOSE c \in cs : Cardinality({d \in cs : d <= c}) = k]

Ask(record) ==
  /\ view' = record
  /\ UNCHANGED <<call, deals, runs, raced, losses>>

\* get_deal: the calls of the deal in the order they were made.  Nothing removes
\* a deal, so finding it and reading its calls are one step.
OpenDeal(deal) ==
  /\ view.pc = "idle"
  /\ view' = [NoView EXCEPT !.pc = "run", !.list = ByStamp({c \in Committed : call[c].deal = deal})]
  /\ UNCHANGED <<call, deals, runs, raced, losses>>

\* list_calls, newest first: the order does not matter here.
OpenList ==
  /\ view.pc = "idle"
  /\ view' = [NoView EXCEPT !.pc = "latest", !.list = ByStamp(Committed)]
  /\ UNCHANGED <<call, deals, runs, raced, losses>>

\* The latest run of the next call, and then its signals.
ReadRun ==
  /\ view.pc = "run"
  /\ Len(view.seen) < Len(view.list)
  /\ Ask([view EXCEPT !.seen = Append(@, Len(runs[view.list[Len(@) + 1]])), !.pc = "states"])

ReadStates ==
  /\ view.pc = "states"
  /\ LET k == Len(view.seen) IN
     Ask([view EXCEPT !.shown = Append(@, signal_pips(Stored(view.list[k], view.seen[k]))), !.pc = "run"])

\* dimension_deltas of consecutive calls, as <<place of the later call, place of
\* the dimension>>.
Changes ==
  {change \in (2..Len(view.list)) \X DOMAIN DIMENSIONS :
     LET dimension == DIMENSIONS[change[2]] IN
     view.shown[change[1] - 1][dimension] # view.shown[change[1]][dimension]}

\* Call after call, and dimension after dimension.
Precedes(x, y) == x[1] < y[1] \/ (x[1] = y[1] /\ x[2] < y[2])

Left == Changes \ {view.deltas[n].change : n \in DOMAIN view.deltas}

\* Mutant of Proof: the run that is the latest by now.
ProofOfLatest(k, dimension) ==
  LET c == view.list[k]
      v == Len(runs[c])
  IN IF /\ v # 0
        /\ runs[c][v].linked
        /\ dimension \in DOMAIN runs[c][v].found.signals
        /\ runs[c][v].found.signals[dimension] = "present"
       THEN {<<c, v, dimension>>} ELSE {}

\* _evidence_for_dimension: only an established dimension cites a segment.
Proof(k, dimension) ==
  LET c == view.list[k]
      v == view.seen[k]
  IN IF /\ v \in DOMAIN runs[c]
        /\ runs[c][v].linked
        /\ dimension \in DOMAIN runs[c][v].found.signals
        /\ runs[c][v].found.signals[dimension] = "present"
       THEN {<<c, v, dimension>>} ELSE {}

\* When every call is read: the next change, with the evidence it had in the
\* earlier call.
ReadEvidence ==
  /\ view.pc = "run"
  /\ Len(view.seen) = Len(view.list)
  /\ \E change \in Left :
       /\ \A other \in Left \ {change} : Precedes(change, other)
       /\ Ask([view EXCEPT !.deltas = Append(@,
                 [change |-> change, evidence |-> Proof(change[1] - 1, DIMENSIONS[change[2]])])])

Answer ==
  /\ view.pc = "run"
  /\ Len(view.seen) = Len(view.list)
  /\ Left = {}
  /\ Ask([view EXCEPT !.pc = "deal served"])

\* _pips_and_risk_by_call: the latest runs of all calls in one query, and then
\* their signals and risks in one.
ReadLatest ==
  /\ view.pc = "latest"
  /\ Ask([view EXCEPT !.seen = [k \in DOMAIN view.list |-> Len(runs[view.list[k]])], !.pc = "rows"])

\* Mutant of RowsOf: of every run of the call up to the latest.
RowsOfAll(k) == [v \in 1..Len(runs[view.list[k]]) |-> runs[view.list[k]][v].found]

RowsOf(k) == Stored(view.list[k], view.seen[k])

ReadRows ==
  /\ view.pc = "rows"
  /\ Ask([view EXCEPT
       !.shown = [k \in DOMAIN view.list |-> signal_pips(RowsOf(k))],
       !.risks = [k \in DOMAIN view.list |->
                    TopRisk(UNION {RowsOf(k)[n].risks : n \in DOMAIN RowsOf(k)})],
       !.pc = "list served"])

Served == view.pc \in {"deal served", "list served"}

Close ==
  /\ Served
  /\ Ask(NoView)

-----------------------------------------------------------------------------
Next ==
  \/ \E c \in Calls :
       \/ \E name \in Names : Create(c, name)
       \/ Commit(c) \/ Rollback(c)
       \/ \E analysis \in Analyses : CommitRun(c, analysis)
       \/ TranscribeAgain(c) \/ DeleteCall(c)
  \/ \E deal \in deals : OpenDeal(deal)
  \/ OpenList \/ ReadRun \/ ReadStates \/ ReadEvidence \/ Answer
  \/ ReadLatest \/ ReadRows \/ Close

Spec == Init /\ [][Next]_vars

-----------------------------------------------------------------------------
(* Properties.                                                             *)

\* deals.py:28 "Match a call to an account by name, creating the account if it
\* is new": calls of one name, whatever its case, are one deal, unless requests
\* for this name were open at the same time and each made one (deals.py:35-40).
OneNameIsOneDeal ==
  \A c, d \in Committed :
    (/\ Folded(call[c].name) = Folded(call[d].name)
     /\ ~IsPattern(call[c].name)
     /\ call[c].deal # call[d].deal)
    => Folded(call[c].name) \in raced

\* What a view says of a call is what one run of it found, also when another
\* run commits between its queries: of the run it read, or nothing when the
\* call had no run or has been deleted since (calls.py:89-123, deals.py:44-53).
ViewsShowOneRun ==
  Served => \A k \in DOMAIN view.list :
    LET c == view.list[k]
        found == Stored(c, view.seen[k])
    IN \/ found = <<>>
       \/ /\ view.shown[k] = signal_pips(found)
          /\ view.pc = "list served" => view.risks[k] = TopRisk(found[1].risks)

\* A change between two calls comes with the segments that established the
\* dimension in the earlier one, and in the very run that was compared.  There
\* are none only if nothing was established, or the segments are gone since
\* (deals.py:101-117).
DeltasCiteWhatTheyCompare ==
  view.pc = "deal served" => \A n \in DOMAIN view.deltas :
    LET delta == view.deltas[n]
        k == delta.change[1] - 1
        dimension == DIMENSIONS[delta.change[2]]
        c == view.list[k]
        v == view.seen[k]
        was == view.shown[k][dimension]
    IN /\ delta.evidence \subseteq {<<c, v, dimension>>}
       /\ delta.evidence # {} => was \in {"proven", "blocked"}
       /\ delta.evidence = {} /\ was \in {"proven", "blocked"}
          => v \notin DOMAIN runs[c] \/ ~runs[c][v].linked
=============================================================================
