------------------------- MODULE AccountDealsProofs -------------------------
(***************************************************************************)
(* The invariants of AccountDeals, for any number of calls and whatever    *)
(* their analyses find.                                                    *)
(*                                                                         *)
(* OneNameIsOneDeal needs what create_call has not committed yet: a call   *)
(* that is not committed either joined a committed deal or holds one of    *)
(* its own, and two such requests for one name have raced.                 *)
(*                                                                         *)
(* The views need what they have read so far: a run that a view saw is     *)
(* either still the run it was or gone with its call, so that what was     *)
(* made of it stays what the run says.                                     *)
(***************************************************************************)
EXTENDS AccountDeals, SequenceTheorems, FiniteSetTheorems, TLAPS

AnyName == Names \cup {""}
Deal == [by : Nat, name : AnyName]

\* The types of what create_call works on.
Shape ==
  /\ call \in [Calls -> [pc : {"new", "attached", "committed", "gone"}, name : AnyName, deal : Deal]]
  /\ deals \subseteq Deal

\* Where the deal of a call comes from: of x, which is call c, with these deals.
Placed(c, x, ds) ==
  /\ x.name = "" => x.deal = NoDeal
  /\ x.name # "" => \/ x.deal \in ds
                    \/ x.pc = "attached" /\ x.deal.by = c /\ x.deal.name = x.name
  /\ ~IsPattern(x.name) => Folded(x.deal.name) = Folded(x.name)

Attached ==
  \A c \in Calls : call[c].pc \in {"attached", "committed"} => Placed(c, call[c], deals)

\* A deal is there when the call that made it is through.
Made == \A deal \in deals : \A c \in Calls : deal.by = c => Is(c, "committed") \/ Is(c, "gone")

\* Two open requests for one name have raced.
Open ==
  \A c, d \in Calls :
    (c # d /\ Is(c, "attached") /\ Is(d, "attached") /\ Folded(call[c].name) = Folded(call[d].name))
    => Folded(call[c].name) \in raced

\* A name has one deal, and nobody is about to make another, unless they raced.
Unique ==
  /\ \A x, y \in deals :
       (Folded(x.name) = Folded(y.name) /\ ~IsPattern(x.name) /\ x # y) => Folded(x.name) \in raced
  /\ \A c \in Calls : \A x \in deals :
       (Is(c, "attached") /\ call[c].deal.by = c /\ Folded(x.name) = Folded(call[c].name))
       => Folded(x.name) \in raced

LEMMA CallNumbers ==
  ASSUME NEW c \in Calls
  PROVE  c \in Nat \ {0}
<1>1. MaxCalls \in Nat
  BY DealsAssumption
<1> QED BY <1>1 DEF Calls

LEMMA NoDealFields == NoDeal.by = 0 /\ NoDeal.name = "" /\ NoDeal \in Deal
BY DEF NoDeal, Deal, AnyName

DealsInv == Shape /\ Attached /\ Made /\ Open /\ Unique

LEMMA InitDeals == Init => DealsInv
<1> SUFFICES ASSUME Init PROVE DealsInv
  OBVIOUS
<1>1. Shape
  BY DEF Init, Shape, NoCall, NoDeal, Deal, AnyName
<1>2. \A c \in Calls : call[c].pc = "new"
  BY DEF Init, NoCall
<1> QED BY <1>1, <1>2 DEF DealsInv, Init, Attached, Made, Open, Unique, IsPattern, Is

\* Only the three steps of create_call, and delete_call, touch these.
LEMMA OtherSteps ==
  ASSUME DealsInv, UNCHANGED <<call, deals, raced>>
  PROVE  DealsInv'
BY DEF DealsInv, Shape, Attached, Made, Open, Unique, IsPattern, Is

LEMMA CreateKeeps ==
  ASSUME DealsInv, NEW c \in Calls, NEW name \in Names, Create(c, name)
  PROVE  DealsInv'
<1> DEFINE found == {d \in deals : Matches(d.name, name)}
<1>1. PICK deal :
        /\ deal \in IF name = "" THEN {NoDeal} ELSE IF found # {} THEN found
                     ELSE {[by |-> c, name |-> name]}
        /\ call' = [call EXCEPT ![c] = [pc |-> "attached", name |-> name, deal |-> deal]]
  BY DEF Create
<1>2. deals' = deals /\ raced \subseteq raced' /\ Is(c, "new")
  BY DEF Create
<1>3. \/ name = "" /\ deal = NoDeal
      \/ name # "" /\ deal \in deals /\ Matches(deal.name, name)
      \/ name # "" /\ deal = [by |-> c, name |-> name] /\ \A x \in deals : ~Matches(x.name, name)
  BY <1>1
<1> HIDE DEF found
<1>4. Shape /\ Attached /\ Made /\ Open /\ Unique
  BY DEF DealsInv
<1>5. c \in Nat
  BY CallNumbers
<1>6. deal \in Deal
  <2>1. name \in AnyName
    BY DEF AnyName
  <2>2. CASE deal = [by |-> c, name |-> name]
    <3>1. [by |-> c, name |-> name] \in Deal
      BY <1>5, <2>1 DEF Deal
    <3> QED BY <2>2, <3>1
  <2> QED BY <1>3, <1>4, <2>2, NoDealFields DEF Shape
<1>7. Shape'
  BY <1>1, <1>2, <1>4, <1>6 DEF Shape, AnyName
<1>8. /\ call'[c].pc = "attached" /\ call'[c].name = name /\ call'[c].deal = deal
      /\ \A d \in Calls : d # c => call'[d] = call[d]
  BY <1>1, <1>4 DEF Shape
<1>9. Attached'
  <2>1. /\ name = "" => deal = NoDeal
        /\ name # "" => deal \in deals \/ (deal.by = c /\ deal.name = name)
    <3>1. deal = [by |-> c, name |-> name] => deal.by = c /\ deal.name = name
      OBVIOUS
    <3> QED BY <1>3, <3>1
  <2>2. ~IsPattern(name) => Folded(deal.name) = Folded(name)
    <3>1. CASE deal = NoDeal /\ name = ""
      BY <3>1, NoDealFields
    <3>2. CASE deal \in deals /\ Matches(deal.name, name)
      BY <3>2 DEF Matches
    <3>3. CASE deal = [by |-> c, name |-> name]
      BY <3>3
    <3> QED BY <1>3, <3>1, <3>2, <3>3
  <2>3. Placed(c, call'[c], deals)
    BY <1>8, <2>1, <2>2 DEF Placed, IsPattern
  <2> QED BY <1>2, <1>4, <1>8, <2>3 DEF Attached
<1>10. Made'
  BY <1>2, <1>4, <1>8 DEF Made, Is
<1>11. Open'
  <2>1. \A d \in Calls : Is(d, "attached") /\ Folded(call[d].name) = Folded(name) => Folded(name) \in raced'
    BY DEF Create
  <2> QED BY <1>2, <1>4, <1>8, <2>1 DEF Open, Is
<1>12. Unique'
  <2>1. \A x \in deals : deal.by = c /\ Folded(x.name) = Folded(name) => Folded(x.name) \in raced'
    <3>1. CASE name = "" /\ deal = NoDeal
      <4>1. deal.by = 0 /\ c # 0
        BY <3>1, CallNumbers DEF NoDeal
      <4> QED BY <4>1
    <3>2. CASE deal \in deals
      BY <1>2, <1>4, <3>2 DEF Made, Is
    <3>3. CASE \A x \in deals : ~Matches(x.name, name)
      BY <3>3 DEF Matches
    <3> QED BY <1>3, <3>1, <3>2, <3>3
  <2> QED BY <1>2, <1>4, <1>8, <2>1 DEF Unique, IsPattern, Is
<1> QED BY <1>7, <1>9, <1>10, <1>11, <1>12 DEF DealsInv

LEMMA CommitKeeps ==
  ASSUME DealsInv, NEW c \in Calls, Commit(c)
  PROVE  DealsInv'
<1>1. Shape /\ Attached /\ Made /\ Open /\ Unique
  BY DEF DealsInv
<1>2. /\ Is(c, "attached") /\ raced' = raced
      /\ call' = [call EXCEPT ![c].pc = "committed"]
      /\ deals' = IF call[c].deal.by = c THEN deals \cup {call[c].deal} ELSE deals
  BY DEF Commit
<1>3. /\ call'[c].pc = "committed" /\ call'[c].name = call[c].name /\ call'[c].deal = call[c].deal
      /\ \A d \in Calls : d # c => call'[d] = call[d]
  BY <1>1, <1>2 DEF Shape
<1>4. c \in Nat \ {0}
  BY CallNumbers
<1>5. Shape'
  BY <1>1, <1>2 DEF Shape
<1>6. Placed(c, call[c], deals) /\ call[c].pc = "attached"
  BY <1>1, <1>2 DEF Attached, Is
<1>7. call[c].deal.by = c => call[c].name # "" /\ call[c].deal.name = call[c].name
  <2> SUFFICES ASSUME call[c].deal.by = c
               PROVE  call[c].name # "" /\ call[c].deal.name = call[c].name
    OBVIOUS
  <2>1. call[c].deal # NoDeal
    BY <1>4, NoDealFields
  <2>2. call[c].deal \notin deals
    BY <1>1, <1>6 DEF Made, Is
  <2> QED BY <1>6, <2>1, <2>2 DEF Placed
<1>8. Attached'
  <2>1. deals \subseteq deals'
    BY <1>2
  <2>2. call[c].name # "" => call[c].deal \in deals'
    BY <1>2, <1>6 DEF Placed
  <2>3. Placed(c, call'[c], deals')
    BY <1>3, <1>6, <2>2 DEF Placed, IsPattern
  <2>4. \A d \in Calls : Placed(d, call[d], deals) => Placed(d, call[d], deals')
    BY <2>1 DEF Placed
  <2> QED BY <1>1, <1>3, <2>3, <2>4 DEF Attached
<1>9. Made'
  <2>1. CASE call[c].deal.by = c
    BY <1>1, <1>2, <1>3, <2>1 DEF Made, Is
  <2>2. CASE call[c].deal.by # c
    BY <1>1, <1>2, <1>3, <2>2 DEF Made, Is
  <2> QED BY <2>1, <2>2
<1>10. Open'
  BY <1>1, <1>2, <1>3 DEF Open, Is
<1>11. Unique'
  <2>1. CASE call[c].deal.by # c
    BY <1>1, <1>2, <1>3, <2>1 DEF Unique, IsPattern, Is
  <2>2. CASE call[c].deal.by = c
    <3> DEFINE z == call[c].deal
    <3>1. z.name = call[c].name /\ z.by = c /\ deals' = deals \cup {z}
      BY <1>2, <1>7, <2>2
    <3>2. \A x \in deals : Folded(x.name) = Folded(z.name) => Folded(x.name) \in raced
      BY <1>1, <1>2, <3>1 DEF Unique, IsPattern
    <3>3. \A d \in Calls : (d # c /\ Is(d, "attached") /\ Folded(z.name) = Folded(call[d].name))
                           => Folded(z.name) \in raced
      BY <1>1, <1>2, <3>1 DEF Open
    <3> HIDE DEF z
    <3>4. \A x, y \in deals' :
            (Folded(x.name) = Folded(y.name) /\ ~IsPattern(x.name) /\ x # y) => Folded(x.name) \in raced
      BY <1>1, <3>1, <3>2 DEF Unique, IsPattern
    <3>5. \A d \in Calls : \A x \in deals' :
            (Is(d, "attached")' /\ call'[d].deal.by = d /\ Folded(x.name) = Folded(call'[d].name))
            => Folded(x.name) \in raced
      BY <1>1, <1>3, <3>1, <3>3 DEF Unique, IsPattern, Is
    <3> QED BY <1>2, <3>4, <3>5 DEF Unique, IsPattern
  <2> QED BY <2>1, <2>2
<1> QED BY <1>5, <1>8, <1>9, <1>10, <1>11 DEF DealsInv

\* A call that is gone has nothing to say.
LEMMA GoneKeeps ==
  ASSUME DealsInv, NEW c \in Calls, Is(c, "attached") \/ Is(c, "committed"),
         call' = [call EXCEPT ![c] = [NoCall EXCEPT !.pc = "gone"]],
         UNCHANGED <<deals, raced>>
  PROVE  DealsInv'
<1>1. Shape /\ Attached /\ Made /\ Open /\ Unique
  BY DEF DealsInv
<1>2. call'[c].pc = "gone" /\ \A d \in Calls : d # c => call'[d] = call[d]
  BY <1>1 DEF Shape, NoCall
<1>3. Shape'
  <2>1. [NoCall EXCEPT !.pc = "gone"] \in [pc : {"new", "attached", "committed", "gone"},
                                           name : AnyName, deal : Deal]
    BY DEF NoCall, NoDeal, Deal, AnyName
  <2> QED BY <1>1, <2>1 DEF Shape
<1>4. Attached'
  BY <1>1, <1>2 DEF Attached
<1>5. (Made /\ Open /\ Unique)'
  BY <1>1, <1>2 DEF Made, Open, Unique, IsPattern, Is
<1> QED BY <1>3, <1>4, <1>5 DEF DealsInv

LEMMA StepDeals == DealsInv /\ [Next]_vars => DealsInv'
<1> SUFFICES ASSUME DealsInv, [Next]_vars PROVE DealsInv'
  OBVIOUS
<1>1. ASSUME NEW c \in Calls, NEW name \in Names, Create(c, name) PROVE DealsInv'
  BY <1>1, CreateKeeps
<1>2. ASSUME NEW c \in Calls, Commit(c) PROVE DealsInv'
  BY <1>2, CommitKeeps
<1>3. ASSUME NEW c \in Calls, Rollback(c) \/ DeleteCall(c) PROVE DealsInv'
  BY <1>3, GoneKeeps DEF Rollback, DeleteCall, Committed
<1>4. ASSUME NEW c \in Calls, TranscribeAgain(c) \/ \E analysis \in Analyses : CommitRun(c, analysis)
      PROVE  DealsInv'
  BY <1>4, OtherSteps DEF TranscribeAgain, CommitRun
<1>5. ASSUME NEW deal \in deals, OpenDeal(deal) PROVE DealsInv'
  BY <1>5, OtherSteps DEF OpenDeal
<1>6. CASE OpenList \/ ReadRun \/ ReadStates \/ ReadEvidence \/ Answer \/ ReadLatest \/ ReadRows \/ Close
  BY <1>6, OtherSteps DEF OpenList, ReadRun, ReadStates, ReadEvidence, Answer, ReadLatest, ReadRows,
                          Close, Ask
<1>7. CASE UNCHANGED vars
  BY <1>7, OtherSteps DEF vars
<1> QED BY <1>1, <1>2, <1>3, <1>4, <1>5, <1>6, <1>7 DEF Next

\* Calls of one account name, whatever its case, share a deal, unless requests
\* for the name were open at the same time (attach_to_deal, deals.py:28-40).
THEOREM OneDealPerName == Spec => []OneNameIsOneDeal
<1>1. DealsInv => OneNameIsOneDeal
  <2> SUFFICES ASSUME DealsInv, NEW c \in Committed, NEW d \in Committed,
                      Folded(call[c].name) = Folded(call[d].name), ~IsPattern(call[c].name),
                      call[c].deal # call[d].deal
               PROVE  Folded(call[c].name) \in raced
    BY DEF OneNameIsOneDeal
  <2> DEFINE x == call[c].deal
             y == call[d].deal
  <2>1. c \in Calls /\ d \in Calls /\ Is(c, "committed") /\ Is(d, "committed")
    BY DEF Committed
  <2>2. ~IsPattern(call[d].name) /\ (call[c].name = "" <=> call[d].name = "")
    BY DEF IsPattern, Folded
  <2>0. Placed(c, call[c], deals) /\ Placed(d, call[d], deals)
    BY <2>1 DEF DealsInv, Attached, Is
  <2>3. Folded(x.name) = Folded(call[c].name) /\ Folded(y.name) = Folded(call[d].name)
    BY <2>0, <2>2 DEF Placed
  <2>4. x \in deals /\ y \in deals
    BY <2>0, <2>1, <2>2 DEF Placed, Is
  <2>5. ~IsPattern(x.name)
    BY <2>3 DEF IsPattern, Folded
  <2> HIDE DEF x, y
  <2>6. x # y
    BY DEF x, y
  <2> QED BY <2>3, <2>4, <2>5, <2>6 DEF DealsInv, Unique, IsPattern
<1> QED BY <1>1, InitDeals, StepDeals, PTL DEF Spec

-----------------------------------------------------------------------------
(* The order of the calls of a view.                                       *)

LEMMA FunctionIsSeq ==
  ASSUME NEW S, NEW n \in Nat, NEW f \in [1..n -> S]
  PROVE  f \in Seq(S)
<1>1. f \in UNION {[1..m -> S] : m \in Nat}
  BY Zenon
<1>2. Seq(S) = UNION {[1..m -> S] : m \in Nat}
  BY SeqDef, Zenon
<1> QED BY <1>1, <1>2, Zenon

LEMMA ByStampType ==
  ASSUME NEW cs, cs \subseteq Calls
  PROVE  ByStamp(cs) \in Seq(cs)
<1> DEFINE UpTo(c) == {d \in cs : d <= c}
           place   == [c \in cs |-> Cardinality(UpTo(c))]
           n       == Cardinality(cs)
<1>1. IsFiniteSet(cs) /\ n \in Nat
  <2>0. MaxCalls \in Nat
    BY DealsAssumption
  <2>1. IsFiniteSet(Calls)
    BY <2>0, FS_Interval DEF Calls
  <2> QED BY <2>1, FS_Subset, FS_CardinalityType
<1>2. \A c \in cs : c \in Nat
  BY CallNumbers
<1>3. ASSUME NEW c \in cs PROVE IsFiniteSet(UpTo(c)) /\ Cardinality(UpTo(c)) \in 1..n
  <2>1. c \in UpTo(c) /\ UpTo(c) \subseteq cs
    BY <1>2
  <2>2. IsFiniteSet(UpTo(c)) /\ Cardinality(UpTo(c)) <= n
    BY <1>1, <2>1, FS_Subset
  <2>3. Cardinality(UpTo(c)) \in Nat /\ Cardinality(UpTo(c)) # 0
    BY <2>1, <2>2, FS_CardinalityType, FS_EmptySet
  <2> QED BY <1>1, <2>2, <2>3
<1>4. ASSUME NEW c \in cs, NEW d \in cs, c < d PROVE Cardinality(UpTo(c)) # Cardinality(UpTo(d))
  <2>1. c \in Nat /\ d \in Nat
    BY <1>2
  <2>2. ASSUME NEW x \in UpTo(c) PROVE x \in UpTo(d)
    BY <1>2, <1>4, <2>1
  <2>3. d \in UpTo(d) /\ d \notin UpTo(c)
    BY <1>4, <2>1
  <2> QED BY <1>3, <2>2, <2>3, FS_Subset
<1>5. place \in Injection(cs, 1..n)
  <2>1. place \in [cs -> 1..n]
    BY <1>3
  <2>2. ASSUME NEW c \in cs, NEW d \in cs, place[c] = place[d] PROVE c = d
    <3>1. c \in Nat /\ d \in Nat
      BY <1>2
    <3>2. ~(c < d) /\ ~(d < c)
      BY <1>4, <2>2
    <3> QED BY <3>1, <3>2
  <2> QED BY <2>1, <2>2, Zenon DEF Injection, IsInjective
<1>6. place \in Surjection(cs, 1..n)
  <2>1. IsFiniteSet(1..n) /\ Cardinality(1..n) = n
    BY <1>1, FS_Interval
  <2> HIDE DEF place, n
  <2>2. Cardinality(cs) = n
    BY DEF n
  <2> QED BY <1>5, <2>1, <2>2, FS_Injection
<1>7. ASSUME NEW k \in 1..n PROVE ByStamp(cs)[k] \in cs
  <2>1. PICK c \in cs : place[c] = k
    BY <1>6, <1>7 DEF Surjection
  <2>2. Cardinality({d \in cs : d <= c}) = k
    BY <2>1
  <2> QED BY <2>2 DEF ByStamp
<1>8. ByStamp(cs) = [k \in 1..n |-> ByStamp(cs)[k]]
  BY DEF ByStamp
<1>9. ByStamp(cs) \in [1..n -> cs]
  <2> HIDE DEF n
  <2> QED BY <1>7, <1>8
<1> HIDE DEF n
<1> QED BY <1>1, <1>9, FunctionIsSeq

-----------------------------------------------------------------------------
(* What a view has read.                                                   *)

Level == {"proven", "blocked", "weak", "missing"}
Pips == [SE!ToSet(DIMENSIONS) -> Level]

\* A committed run, and what is left of it.
Kept == [found : Analyses, linked : BOOLEAN]

\* Only a committed call has runs.
RunsInv ==
  /\ runs \in [Calls -> Seq(Kept)]
  /\ \A c \in Calls : ~Is(c, "committed") => runs[c] = <<>>

Record(x) ==
  x = [pc |-> x.pc, list |-> x.list, seen |-> x.seen, shown |-> x.shown, risks |-> x.risks, deltas |-> x.deltas]

Change == Nat \X DOMAIN DIMENSIONS
Delta == {d \in [change : Change, evidence : SUBSET (Calls \X Nat \X SE!ToSet(DIMENSIONS))] :
            d.change[1] \in 2..Len(view.list)}

\* How far a view is.
ViewShape ==
  /\ Record(view)
  /\ view.pc \in {"idle", "run", "states", "latest", "rows", "deal served", "list served"}
  /\ view.list \in Seq(Calls)
  /\ view.seen \in Seq(Nat)
  /\ view.shown \in Seq(Pips)
  /\ view.deltas \in Seq(Delta)
  /\ view.pc \in {"idle", "latest", "rows"} => view.shown = <<>>
  /\ view.pc \in {"idle", "latest"} => view.seen = <<>>
  /\ view.pc \in {"idle", "latest", "rows", "list served"} => view.deltas = <<>>
  /\ Len(view.seen) <= Len(view.list)
  /\ view.pc = "run" => Len(view.shown) = Len(view.seen)
  /\ view.pc = "states" => Len(view.seen) = Len(view.shown) + 1 /\ view.deltas = <<>>
  /\ view.pc \in {"deal served", "list served"} =>
       Len(view.shown) = Len(view.list) /\ Len(view.seen) = Len(view.list)
  /\ view.pc = "rows" => Len(view.seen) = Len(view.list)
  /\ view.deltas # <<>> => Len(view.shown) = Len(view.list) /\ Len(view.seen) = Len(view.list)

\* A run that was read stays the run it is, or is gone with its call.
SeenStays ==
  /\ \A k \in DOMAIN view.list : call[view.list[k]].pc \in {"committed", "gone"}
  /\ \A k \in DOMAIN view.seen : view.seen[k] <= Len(runs[view.list[k]]) \/ Is(view.list[k], "gone")

ShowsOneRun ==
  \A k \in DOMAIN view.shown :
    LET found == Stored(view.list[k], view.seen[k]) IN
    found = <<>> \/ (/\ view.shown[k] = signal_pips(found)
                     /\ view.pc = "list served" => view.risks[k] = TopRisk(found[1].risks))

CitesRun(delta) ==
  LET k == delta.change[1] - 1
      dimension == DIMENSIONS[delta.change[2]]
      c == view.list[k]
      v == view.seen[k]
      was == view.shown[k][dimension]
  IN /\ delta.evidence \subseteq {<<c, v, dimension>>}
     /\ delta.evidence # {} => was \in {"proven", "blocked"}
     /\ delta.evidence = {} /\ was \in {"proven", "blocked"}
          => v \notin DOMAIN runs[c] \/ ~runs[c][v].linked

DeltasCited == \A n \in DOMAIN view.deltas : CitesRun(view.deltas[n])

ViewInv ==
  /\ RunsInv
  /\ ViewShape
  /\ SeenStays
  /\ ShowsOneRun
  /\ DeltasCited

LEMMA PipsType == \A found : signal_pips(found) \in Pips
BY DEF signal_pips, dimension_state, Pips, Level

\* The dimensions after one run.
LEMMA PipsOfRun ==
  ASSUME NEW found, NEW dimension \in SE!ToSet(DIMENSIONS)
  PROVE  signal_pips(<<found>>)[dimension] =
           IF dimension \in DOMAIN found.signals THEN dimension_state(dimension, found.signals[dimension])
                                                 ELSE "missing"
<1> DEFINE with == {n \in DOMAIN <<found>> : dimension \in DOMAIN <<found>>[n].signals}
<1>1. signal_pips(<<found>>)[dimension] =
        IF with = {} THEN "missing" ELSE dimension_state(dimension, <<found>>[FE!Max(with)].signals[dimension])
  BY DEF signal_pips
<1>2. DOMAIN <<found>> = {1} /\ <<found>>[1] = found
  OBVIOUS
<1>3. CASE dimension \in DOMAIN found.signals
  <2>1. with = {1}
    BY <1>2, <1>3
  <2>2. FE!Max({1}) = 1
    BY DEF FE!Max
  <2> HIDE DEF with
  <2> QED BY <1>1, <1>2, <1>3, <2>1, <2>2
<1>4. CASE dimension \notin DOMAIN found.signals
  <2>1. with = {}
    BY <1>2, <1>4
  <2> QED BY <1>1, <1>4, <2>1
<1> QED BY <1>3, <1>4

LEMMA StoredIs ==
  ASSUME NEW c, NEW v
  PROVE  /\ v \in DOMAIN runs[c] => Stored(c, v) = <<runs[c][v].found>> /\ Stored(c, v) # <<>>
         /\ v \notin DOMAIN runs[c] => Stored(c, v) = <<>>
BY DEF Stored

\* What a step makes of a call: it stays, with the runs it has, or is gone with
\* them for good.
Stays(c) ==
  /\ Is(c, "committed") => call'[c].pc \in {"committed", "gone"}
  /\ Is(c, "gone") => call'[c].pc = "gone"
  /\ \/ call'[c].pc = "gone"
     \/ /\ Len(runs[c]) <= Len(runs'[c])
        /\ \A v \in DOMAIN runs[c] : /\ runs'[c][v].found = runs[c][v].found
                                     /\ runs'[c][v].linked => runs[c][v].linked

LEMMA RunsStep ==
  ASSUME DealsInv, RunsInv, [Next]_vars
  PROVE  RunsInv' /\ \A c \in Calls : Stays(c)
<1>t. \A c \in Calls : call[c].pc \in {"new", "attached", "committed", "gone"}
  BY DEF DealsInv, Shape
<1>s. \A c \in Calls : runs[c] \in Seq(Kept) /\ Len(runs[c]) \in Nat /\ DOMAIN runs[c] = 1..Len(runs[c])
  BY DEF RunsInv
<1>1. CASE UNCHANGED <<call, runs>>
  BY <1>1, <1>s DEF RunsInv, Stays, Is
<1>2. ASSUME NEW c \in Calls, \/ \E name \in Names : Create(c, name)
                              \/ Commit(c)
      PROVE  RunsInv' /\ \A d \in Calls : Stays(d)
  <2>1. UNCHANGED runs /\ (Is(c, "new") \/ Is(c, "attached"))
    BY <1>2 DEF Create, Commit
  <2>2. \A d \in Calls \ {c} : call'[d] = call[d]
    BY <1>2 DEF Create, Commit, DealsInv, Shape
  <2>3. runs[c] = <<>>
    BY <2>1 DEF RunsInv, Is
  <2> QED BY <1>s, <2>1, <2>2, <2>3 DEF RunsInv, Stays, Is
<1>3. ASSUME NEW c \in Calls, Rollback(c) \/ DeleteCall(c)
      PROVE  RunsInv' /\ \A d \in Calls : Stays(d)
  <2>1. call'[c].pc = "gone" /\ \A d \in Calls \ {c} : call'[d] = call[d]
    BY <1>3 DEF Rollback, DeleteCall, DealsInv, Shape, NoCall, Is
  <2>2. runs' \in [Calls -> Seq(Kept)] /\ runs'[c] = <<>> /\ \A d \in Calls \ {c} : runs'[d] = runs[d]
    <3>1. CASE Rollback(c)
      BY <3>1 DEF Rollback, RunsInv, Is
    <3>2. CASE DeleteCall(c)
      BY <3>2 DEF DeleteCall, RunsInv
    <3> QED BY <1>3, <3>1, <3>2
  <2>3. RunsInv'
    BY <2>1, <2>2 DEF RunsInv, Is
  <2>4. ASSUME NEW d \in Calls, d # c PROVE Stays(d)
    BY <1>s, <2>1, <2>2, <2>4 DEF Stays, Is
  <2>5. Stays(c)
    BY <2>1 DEF Stays
  <2> QED BY <2>3, <2>4, <2>5
<1>4. ASSUME NEW c \in Calls, NEW analysis \in Analyses, CommitRun(c, analysis)
      PROVE  RunsInv' /\ \A d \in Calls : Stays(d)
  <2> DEFINE run == [found |-> analysis, linked |-> TRUE]
  <2>1. Is(c, "committed") /\ UNCHANGED call /\ runs' = [runs EXCEPT ![c] = Append(runs[c], run)]
    BY <1>4 DEF CommitRun, Committed
  <2>2. run \in Kept
    BY DEF Kept
  <2>3. Append(runs[c], run) \in Seq(Kept)
    BY <1>s, <2>2
  <2>4. runs' \in [Calls -> Seq(Kept)] /\ runs'[c] = Append(runs[c], run)
        /\ \A d \in Calls \ {c} : runs'[d] = runs[d]
    BY <2>1, <2>3 DEF RunsInv
  <2>5. Len(runs[c]) <= Len(runs'[c]) /\ \A v \in DOMAIN runs[c] : runs'[c][v] = runs[c][v]
    BY <1>s, <2>2, <2>4
  <2> QED BY <1>s, <2>1, <2>4, <2>5 DEF RunsInv, Stays, Is
<1>5. ASSUME NEW c \in Calls, TranscribeAgain(c)
      PROVE  RunsInv' /\ \A d \in Calls : Stays(d)
  <2> DEFINE unlinked == [v \in DOMAIN runs[c] |-> [runs[c][v] EXCEPT !.linked = FALSE]]
  <2>1. Is(c, "committed") /\ UNCHANGED call /\ runs' = [runs EXCEPT ![c] = unlinked]
    BY <1>5 DEF TranscribeAgain, Committed
  <2>2. \A v \in DOMAIN runs[c] : runs[c][v] \in Kept
    BY <1>s
  <2>3. unlinked \in [1..Len(runs[c]) -> Kept]
    BY <1>s, <2>2 DEF Kept
  <2>4. unlinked \in Seq(Kept) /\ Len(unlinked) = Len(runs[c])
    <3>1. unlinked \in Seq(Kept)
      BY <1>s, <2>3, FunctionIsSeq
    <3>2. DOMAIN unlinked = 1..Len(runs[c])
      BY <1>s
    <3> HIDE DEF unlinked
    <3> QED BY <1>s, <3>1, <3>2
  <2>5. \A v \in DOMAIN runs[c] : unlinked[v].found = runs[c][v].found /\ ~unlinked[v].linked
    BY <2>2 DEF Kept
  <2> HIDE DEF unlinked
  <2>6. runs' \in [Calls -> Seq(Kept)] /\ runs'[c] = unlinked /\ \A d \in Calls \ {c} : runs'[d] = runs[d]
    BY <2>1, <2>4 DEF RunsInv
  <2> QED BY <1>s, <2>1, <2>4, <2>5, <2>6 DEF RunsInv, Stays, Is
<1>6. ASSUME NEW deal \in deals, OpenDeal(deal) PROVE UNCHANGED <<call, runs>>
  BY <1>6 DEF OpenDeal
<1>7. CASE OpenList \/ ReadRun \/ ReadStates \/ ReadEvidence \/ Answer \/ ReadLatest \/ ReadRows \/ Close
  BY <1>1, <1>7 DEF OpenList, ReadRun, ReadStates, ReadEvidence, Answer, ReadLatest, ReadRows, Close, Ask
<1> QED BY <1>1, <1>2, <1>3, <1>4, <1>5, <1>6, <1>7 DEF Next, vars

LEMMA SeqFacts ==
  ASSUME NEW S, NEW s \in Seq(S)
  PROVE  Len(s) \in Nat /\ DOMAIN s = 1..Len(s) /\ \A k \in DOMAIN s : s[k] \in S
OBVIOUS

LEMMA Lengths ==
  ASSUME ViewShape
  PROVE  /\ Len(view.shown) \in Nat /\ Len(view.seen) \in Nat /\ Len(view.list) \in Nat
         /\ Len(view.shown) <= Len(view.seen) /\ Len(view.seen) <= Len(view.list)
         /\ DOMAIN view.shown = 1..Len(view.shown)
         /\ DOMAIN view.seen = 1..Len(view.seen)
         /\ DOMAIN view.list = 1..Len(view.list)
         /\ \A k \in DOMAIN view.list : view.list[k] \in Calls
         /\ \A k \in DOMAIN view.seen : view.seen[k] \in Nat
<1>1. /\ view.list \in Seq(Calls) /\ view.seen \in Seq(Nat) /\ view.shown \in Seq(Pips)
  BY DEF ViewShape
<1>2. Len(view.list) \in Nat /\ DOMAIN view.list = 1..Len(view.list)
      /\ \A k \in DOMAIN view.list : view.list[k] \in Calls
  BY <1>1, SeqFacts
<1>3. Len(view.seen) \in Nat /\ DOMAIN view.seen = 1..Len(view.seen)
      /\ \A k \in DOMAIN view.seen : view.seen[k] \in Nat
  BY <1>1, SeqFacts
<1>4. Len(view.shown) \in Nat /\ DOMAIN view.shown = 1..Len(view.shown)
  BY <1>1, SeqFacts
<1>5. Len(view.seen) <= Len(view.list)
  BY DEF ViewShape
<1>6. Len(view.shown) <= Len(view.seen)
  <2>1. view.shown = <<>> => Len(view.shown) = 0
    OBVIOUS
  <2>2. \/ view.shown = <<>> \/ Len(view.shown) = Len(view.seen) \/ Len(view.seen) = Len(view.shown) + 1
    BY DEF ViewShape
  <2> QED BY <1>3, <1>4, <2>1, <2>2
<1> QED BY <1>2, <1>3, <1>4, <1>5, <1>6

\* The runs a view has seen, after a step of others.
LEMMA ViewKept ==
  ASSUME ViewInv, DealsInv, DealsInv', RunsInv', \A c \in Calls : Stays(c), UNCHANGED view
  PROVE  ViewInv'
<1>1. RunsInv /\ ViewShape /\ SeenStays /\ ShowsOneRun /\ DeltasCited
  BY DEF ViewInv
<1>s. \A c \in Calls : /\ runs[c] \in Seq(Kept) /\ Len(runs[c]) \in Nat /\ DOMAIN runs[c] = 1..Len(runs[c])
                       /\ runs'[c] \in Seq(Kept) /\ Len(runs'[c]) \in Nat /\ DOMAIN runs'[c] = 1..Len(runs'[c])
  BY <1>1 DEF RunsInv
<1>2. ViewShape'
  BY <1>1 DEF ViewShape, Record, Delta
<1>3. ASSUME NEW k \in DOMAIN view.seen
      PROVE  LET c == view.list[k]
                 v == view.seen[k]
             IN /\ v <= Len(runs'[c]) \/ call'[c].pc = "gone"
                /\ v \in DOMAIN runs'[c] => /\ v \in DOMAIN runs[c]
                                            /\ runs'[c][v].found = runs[c][v].found
                                            /\ runs'[c][v].linked => runs[c][v].linked
  <2> DEFINE c == view.list[k]
             v == view.seen[k]
  <2>1. c \in Calls /\ v \in Nat /\ Stays(c) /\ (v <= Len(runs[c]) \/ Is(c, "gone"))
    BY <1>1, Lengths DEF SeenStays
  <2>2. CASE call'[c].pc = "gone"
    <3>1. \A x \in Calls : call'[x].pc # "committed" => runs'[x] = <<>>
      BY DEF RunsInv, Is
    <3> QED BY <2>1, <2>2, <3>1
  <2>3. CASE call'[c].pc # "gone"
    <3>1. ~Is(c, "gone")
      BY <2>1, <2>3 DEF Stays
    <3>2. Len(runs[c]) <= Len(runs'[c]) /\ v <= Len(runs[c])
      BY <2>1, <2>3, <3>1 DEF Stays
    <3>3. v <= Len(runs'[c]) /\ (v \in DOMAIN runs'[c] => v \in DOMAIN runs[c])
      BY <1>s, <2>1, <3>2
    <3>4. v \in DOMAIN runs[c] => /\ runs'[c][v].found = runs[c][v].found
                                  /\ runs'[c][v].linked => runs[c][v].linked
      BY <2>1, <2>3 DEF Stays
    <3> QED BY <3>3, <3>4
  <2> QED BY <2>2, <2>3
<1>4. SeenStays'
  <2>1. \A k \in DOMAIN view.list : call'[view.list[k]].pc \in {"committed", "gone"}
    <3> SUFFICES ASSUME NEW k \in DOMAIN view.list PROVE call'[view.list[k]].pc \in {"committed", "gone"}
      OBVIOUS
    <3>1. view.list[k] \in Calls /\ call[view.list[k]].pc \in {"committed", "gone"}
      BY <1>1, Lengths DEF SeenStays
    <3> QED BY <3>1 DEF Stays, Is
  <2> QED BY <1>3, <2>1 DEF SeenStays, Is
<1>5. ShowsOneRun'
  <2> SUFFICES ASSUME NEW k \in DOMAIN view.shown
               PROVE  LET found == Stored(view.list[k], view.seen[k])' IN
                      found = <<>> \/ (/\ view.shown[k] = signal_pips(found)
                                       /\ view.pc = "list served" => view.risks[k] = TopRisk(found[1].risks))
    BY DEF ShowsOneRun, Stored
  <2> DEFINE c == view.list[k]
             v == view.seen[k]
  <2>1. k \in DOMAIN view.seen
    BY <1>1, Lengths
  <2>2. Stored(c, v)' = Stored(c, v) \/ Stored(c, v)' = <<>>
    BY <1>3, <2>1 DEF Stored
  <2> QED BY <1>1, <2>2 DEF ShowsOneRun
<1>6. ASSUME NEW n \in DOMAIN view.deltas PROVE CitesRun(view.deltas[n])'
  <2> DEFINE k == view.deltas[n].change[1] - 1
             c == view.list[k]
             v == view.seen[k]
  <2>1. CitesRun(view.deltas[n])
    BY <1>1 DEF DeltasCited
  <2>2. k \in DOMAIN view.seen
    <3>1. view.deltas \in Seq(Delta) /\ (view.deltas # <<>> => Len(view.seen) = Len(view.list))
      BY <1>1 DEF ViewShape
    <3>2. view.deltas[n] \in Delta /\ view.deltas # <<>>
      BY <3>1
    <3>3. view.deltas[n].change[1] \in 2..Len(view.list)
      BY <3>2 DEF Delta
    <3> QED BY <1>1, <3>1, <3>2, <3>3, Lengths
  <2>3. v \notin DOMAIN runs[c] \/ ~runs[c][v].linked => v \notin DOMAIN runs'[c] \/ ~runs'[c][v].linked
    BY <1>3, <2>2
  <2> QED BY <2>1, <2>3 DEF CitesRun
<1> QED BY <1>2, <1>4, <1>5, <1>6 DEF ViewInv, DeltasCited

-----------------------------------------------------------------------------
(* The queries of a view.                                                  *)

LEMMA EmptyIsList == \A S : <<>> \in Seq(S)
OBVIOUS

\* What every query leaves alone.
LEMMA RunsAlone ==
  ASSUME ViewInv, UNCHANGED <<call, runs>>
  PROVE  RunsInv' /\ \A c, v : Stored(c, v)' = Stored(c, v)
BY DEF ViewInv, RunsInv, Stored, Is

\* A view of these calls begins.
LEMMA OpenKeeps ==
  ASSUME ViewInv, NEW cs, cs \subseteq Committed, NEW pc \in {"run", "latest"},
         view' = [NoView EXCEPT !.pc = pc, !.list = ByStamp(cs)],
         UNCHANGED <<call, runs>>
  PROVE  ViewInv'
<1>1. cs \subseteq Calls /\ \A c \in cs : Is(c, "committed")
  BY DEF Committed
<1>2. ByStamp(cs) \in Seq(cs)
  BY <1>1, ByStampType
<1> DEFINE list == ByStamp(cs)
<1>3. /\ view'.pc = pc /\ view'.list = list /\ view'.seen = <<>> /\ view'.shown = <<>>
      /\ view'.risks = <<>> /\ view'.deltas = <<>>
      /\ Record(view)'
  BY DEF NoView, Record
<1> HIDE DEF list
<1>4. list \in Seq(Calls) /\ Len(list) \in Nat /\ \A k \in DOMAIN list : list[k] \in cs
  <2>1. list \in Seq(cs)
    BY <1>2 DEF list
  <2> QED BY <1>1, <2>1
<1>5. ViewShape'
  <2>1. <<>> \in Seq(Nat) /\ <<>> \in Seq(Pips) /\ <<>> \in Seq(Delta)' /\ Len(<<>>) = 0
    BY EmptyIsList
  <2>2. /\ view'.list \in Seq(Calls) /\ view'.seen \in Seq(Nat) /\ view'.shown \in Seq(Pips)
        /\ view'.deltas \in Seq(Delta)'
    BY <1>3, <1>4, <2>1
  <2>3. Len(view'.seen) = 0 /\ Len(view'.shown) = 0 /\ 0 <= Len(view'.list)
    BY <1>3, <1>4, <2>1
  <2> QED BY <1>3, <2>2, <2>3 DEF ViewShape
<1>6. SeenStays' /\ ShowsOneRun' /\ DeltasCited'
  <2>1. DOMAIN view'.seen = {} /\ DOMAIN view'.shown = {} /\ DOMAIN view'.deltas = {}
    BY <1>3
  <2>2. \A k \in DOMAIN view'.list : call'[view'.list[k]].pc = "committed"
    BY <1>1, <1>3, <1>4 DEF Is
  <2> QED BY <2>1, <2>2 DEF SeenStays, ShowsOneRun, DeltasCited
<1> QED BY <1>5, <1>6, RunsAlone DEF ViewInv

LEMMA ReadRunKeeps ==
  ASSUME ViewInv, ReadRun
  PROVE  ViewInv'
<1> DEFINE k == Len(view.seen) + 1
           c == view.list[k]
           v == Len(runs[c])
<1>1. RunsInv /\ ViewShape /\ SeenStays /\ ShowsOneRun
  BY DEF ViewInv
<1>2. view.pc = "run" /\ Len(view.seen) < Len(view.list) /\ UNCHANGED <<call, runs>>
      /\ view' = [view EXCEPT !.seen = Append(view.seen, v), !.pc = "states"]
  BY DEF ReadRun, Ask
<1>3. c \in Calls /\ v \in Nat
  <2>1. k \in DOMAIN view.list
    BY <1>1, <1>2, Lengths
  <2> QED BY <1>1, <2>1, Lengths DEF RunsInv
<1> DEFINE seen == Append(view.seen, v)
<1>4. /\ view'.pc = "states" /\ view'.list = view.list /\ view'.seen = seen
      /\ view'.shown = view.shown /\ view'.risks = view.risks /\ view'.deltas = view.deltas
      /\ Record(view)'
  BY <1>1, <1>2 DEF ViewShape, Record
<1>5. /\ seen \in Seq(Nat) /\ Len(seen) = Len(view.seen) + 1 /\ DOMAIN seen = 1..Len(seen)
      /\ \A n \in DOMAIN view.seen : seen[n] = view.seen[n]
      /\ seen[k] = v
  <2>1. view.seen \in Seq(Nat)
    BY <1>1 DEF ViewShape
  <2> HIDE DEF v
  <2> QED BY <1>3, <2>1
<1>6. view.deltas = <<>> /\ Len(view.shown) = Len(view.seen)
  BY <1>1, <1>2, Lengths DEF ViewShape
<1> HIDE DEF seen
<1>7. ViewShape'
  <2>1. /\ view.list \in Seq(Calls) /\ view.shown \in Seq(Pips) /\ <<>> \in Seq(Delta)'
    BY <1>1, EmptyIsList DEF ViewShape
  <2>2. Len(seen) <= Len(view.list)
    BY <1>1, <1>2, <1>5, Lengths
  <2> QED BY <1>4, <1>5, <1>6, <2>1, <2>2 DEF ViewShape
<1>8. SeenStays'
  <2>1. DOMAIN seen = DOMAIN view.seen \cup {k}
    BY <1>1, <1>5, Lengths
  <2>2. seen[k] <= Len(runs[view.list[k]])
    BY <1>3, <1>5
  <2>3. \A n \in DOMAIN seen : seen[n] <= Len(runs[view.list[n]]) \/ Is(view.list[n], "gone")
    <3> SUFFICES ASSUME NEW n \in DOMAIN seen PROVE seen[n] <= Len(runs[view.list[n]]) \/ Is(view.list[n], "gone")
      OBVIOUS
    <3>1. CASE n = k
      BY <2>2, <3>1
    <3>2. CASE n \in DOMAIN view.seen
      BY <1>1, <1>5, <3>2 DEF SeenStays
    <3> QED BY <2>1, <3>1, <3>2
  <2> HIDE DEF k, v
  <2> QED BY <1>1, <1>2, <1>4, <2>3 DEF SeenStays, Is
<1>9. ShowsOneRun'
  <2>1. \A n \in DOMAIN view.shown : n \in DOMAIN view.seen
    BY <1>1, Lengths
  <2>2. \A n \in DOMAIN view.shown : seen[n] = view.seen[n]
    BY <1>5, <2>1
  <2>3. /\ runs' = runs /\ view'.list = view.list /\ view'.shown = view.shown /\ view'.pc # "list served"
        /\ \A n \in DOMAIN view.shown : view'.seen[n] = view.seen[n]
    BY <1>2, <1>4, <2>2
  <2> SUFFICES ASSUME NEW n \in DOMAIN view.shown
               PROVE  Stored(view.list[n], view.seen[n])' = <<>>
                      \/ view'.shown[n] = signal_pips(Stored(view.list[n], view.seen[n]))'
    BY <2>3 DEF ShowsOneRun
  <2>4. Stored(view.list[n], view.seen[n])' = Stored(view.list[n], view.seen[n])
    BY <2>3 DEF Stored
  <2>5. signal_pips(Stored(view.list[n], view.seen[n]))' = signal_pips(Stored(view.list[n], view.seen[n]))
    BY <2>4
  <2> QED BY <1>1, <2>3, <2>4, <2>5 DEF ShowsOneRun
<1>10. DeltasCited'
  BY <1>4, <1>6 DEF DeltasCited
<1> QED BY <1>2, <1>7, <1>8, <1>9, <1>10, RunsAlone DEF ViewInv

LEMMA ReadStatesKeeps ==
  ASSUME ViewInv, ReadStates
  PROVE  ViewInv'
<1> DEFINE k == Len(view.seen)
           pips == signal_pips(Stored(view.list[k], view.seen[k]))
           shown == Append(view.shown, pips)
<1>1. RunsInv /\ ViewShape /\ SeenStays /\ ShowsOneRun
  BY DEF ViewInv
<1>2. view.pc = "states" /\ UNCHANGED <<call, runs>>
      /\ view' = [view EXCEPT !.shown = shown, !.pc = "run"]
  BY DEF ReadStates, Ask
<1>3. /\ view'.pc = "run" /\ view'.list = view.list /\ view'.seen = view.seen
      /\ view'.shown = shown /\ view'.risks = view.risks /\ view'.deltas = view.deltas
      /\ Record(view)'
  BY <1>1, <1>2 DEF ViewShape, Record
<1>4. k = Len(view.shown) + 1 /\ view.deltas = <<>>
  BY <1>1, <1>2 DEF ViewShape
<1>5. pips \in Pips
  BY PipsType
<1>6. /\ shown \in Seq(Pips) /\ Len(shown) = k /\ DOMAIN shown = 1..Len(shown)
      /\ \A n \in DOMAIN view.shown : shown[n] = view.shown[n]
      /\ shown[k] = pips
  <2>1. view.shown \in Seq(Pips)
    BY <1>1 DEF ViewShape
  <2> HIDE DEF k, pips
  <2> QED BY <1>4, <1>5, <2>1
<1>7. DOMAIN shown = DOMAIN view.shown \cup {k}
  BY <1>1, <1>4, <1>6, Lengths
<1> HIDE DEF shown
<1>8. ViewShape'
  <2>1. /\ view.list \in Seq(Calls) /\ view.seen \in Seq(Nat) /\ <<>> \in Seq(Delta)'
    BY <1>1, EmptyIsList DEF ViewShape
  <2> QED BY <1>1, <1>3, <1>4, <1>6, <2>1 DEF ViewShape
<1>9. SeenStays'
  BY <1>1, <1>2, <1>3 DEF SeenStays, Is
<1>10. ShowsOneRun'
  <2>1. \A n \in DOMAIN shown : \/ n \in DOMAIN view.shown /\ shown[n] = view.shown[n]
                                \/ n = k
    BY <1>6, <1>7
  <2>2. shown[k] = signal_pips(Stored(view.list[k], view.seen[k]))
    BY <1>6
  <2> HIDE DEF k, pips
  <2> QED BY <1>1, <1>2, <1>3, <2>1, <2>2, RunsAlone DEF ShowsOneRun
<1>11. DeltasCited'
  BY <1>3, <1>4 DEF DeltasCited
<1> QED BY <1>2, <1>8, <1>9, <1>10, <1>11, RunsAlone DEF ViewInv

\* The segment a change cites, and the state it was compared with.
LEMMA ProofCites ==
  ASSUME ViewInv, NEW change \in Changes, Len(view.shown) = Len(view.list)
  PROVE  CitesRun([change |-> change, evidence |-> Proof(change[1] - 1, DIMENSIONS[change[2]])])
<1> DEFINE k == change[1] - 1
           dimension == DIMENSIONS[change[2]]
           c == view.list[k]
           v == view.seen[k]
           was == view.shown[k][dimension]
           evidence == Proof(k, dimension)
<1>1. ViewShape /\ ShowsOneRun
  BY DEF ViewInv
<1>2. change[1] \in 2..Len(view.list) /\ change[2] \in DOMAIN DIMENSIONS
  BY DEF Changes
<1>3. k \in DOMAIN view.shown
  BY <1>1, <1>2, Lengths
<1>4. dimension \in SE!ToSet(DIMENSIONS)
  BY <1>2 DEF SE!ToSet
<1> SUFFICES /\ evidence \subseteq {<<c, v, dimension>>}
             /\ evidence # {} => was \in {"proven", "blocked"}
             /\ evidence = {} /\ was \in {"proven", "blocked"}
                => v \notin DOMAIN runs[c] \/ ~runs[c][v].linked
  BY DEF CitesRun
<1> DEFINE signals == runs[c][v].found.signals
<1>5. evidence = IF /\ v \in DOMAIN runs[c]
                    /\ runs[c][v].linked
                    /\ dimension \in DOMAIN signals
                    /\ signals[dimension] = "present"
                 THEN {<<c, v, dimension>>} ELSE {}
  BY DEF Proof
<1>6. CASE v \notin DOMAIN runs[c]
  BY <1>5, <1>6
<1>7. CASE v \in DOMAIN runs[c]
  <2>1. view.shown[k] = signal_pips(<<runs[c][v].found>>)
    <3>1. Stored(c, v) = <<runs[c][v].found>> /\ Stored(c, v) # <<>>
      BY <1>7, StoredIs
    <3> HIDE DEF c, v, k
    <3>2. \/ Stored(view.list[k], view.seen[k]) = <<>>
          \/ view.shown[k] = signal_pips(Stored(view.list[k], view.seen[k]))
      BY <1>1, <1>3 DEF ShowsOneRun
    <3> QED BY <3>1, <3>2 DEF c, v
  <2>2. was = IF dimension \in DOMAIN signals THEN dimension_state(dimension, signals[dimension]) ELSE "missing"
    <3>1. was = signal_pips(<<runs[c][v].found>>)[dimension]
      BY <2>1
    <3> HIDE DEF c, v, was, dimension
    <3> QED BY <1>4, <3>1, PipsOfRun
  <2>3. was \in {"proven", "blocked"} <=> dimension \in DOMAIN signals /\ signals[dimension] = "present"
    BY <2>2 DEF dimension_state
  <2> HIDE DEF was, evidence, signals, dimension, c, v
  <2> QED BY <1>5, <1>7, <2>3
<1> QED BY <1>6, <1>7

LEMMA ReadEvidenceKeeps ==
  ASSUME ViewInv, ReadEvidence
  PROVE  ViewInv'
<1>1. RunsInv /\ ViewShape /\ SeenStays /\ ShowsOneRun /\ DeltasCited
  BY DEF ViewInv
<1>2. view.pc = "run" /\ Len(view.seen) = Len(view.list) /\ UNCHANGED <<call, runs>>
  BY DEF ReadEvidence, Ask
<1>3. PICK change \in Left :
        view' = [view EXCEPT !.deltas = Append(view.deltas,
                   [change |-> change, evidence |-> Proof(change[1] - 1, DIMENSIONS[change[2]])])]
  BY DEF ReadEvidence, Ask
<1> DEFINE delta == [change |-> change, evidence |-> Proof(change[1] - 1, DIMENSIONS[change[2]])]
           deltas == Append(view.deltas, delta)
<1>4. /\ view'.pc = view.pc /\ view'.list = view.list /\ view'.seen = view.seen
      /\ view'.shown = view.shown /\ view'.risks = view.risks /\ view'.deltas = deltas
      /\ Record(view)'
  BY <1>1, <1>3 DEF ViewShape, Record
<1>5. Len(view.shown) = Len(view.list)
  BY <1>1, <1>2 DEF ViewShape
<1>6. change \in Changes
  BY DEF Left
<1>7. CitesRun(delta)
  BY <1>5, <1>6, ProofCites
<1>8. delta \in Delta
  <2>1. /\ change \in (2..Len(view.list)) \X DOMAIN DIMENSIONS
    BY <1>6 DEF Changes
  <2>2. Len(view.list) \in Nat
    BY <1>1, Lengths
  <2>3. change \in Change /\ change[1] \in 2..Len(view.list) /\ DIMENSIONS[change[2]] \in SE!ToSet(DIMENSIONS)
    BY <2>1, <2>2 DEF Change, SE!ToSet
  <2> DEFINE k == change[1] - 1
  <2>4. k \in DOMAIN view.list /\ k \in DOMAIN view.seen
    BY <1>1, <1>2, <2>2, <2>3, Lengths
  <2>5. view.list[k] \in Calls /\ view.seen[k] \in Nat
    BY <1>1, <2>4, Lengths
  <2>6. Proof(k, DIMENSIONS[change[2]]) \subseteq Calls \X Nat \X SE!ToSet(DIMENSIONS)
    <3> DEFINE cited == <<view.list[k], view.seen[k], DIMENSIONS[change[2]]>>
    <3>1. cited \in Calls \X Nat \X SE!ToSet(DIMENSIONS)
      BY <2>3, <2>5
    <3>2. Proof(k, DIMENSIONS[change[2]]) \subseteq {cited}
      BY DEF Proof
    <3> HIDE DEF cited
    <3> QED BY <3>1, <3>2
  <2> HIDE DEF k
  <2>7. delta.change \in Change /\ delta.evidence \in SUBSET (Calls \X Nat \X SE!ToSet(DIMENSIONS))
    BY <2>3, <2>6 DEF k
  <2> QED BY <2>3, <2>7 DEF Delta
<1> HIDE DEF delta
<1>9. /\ deltas \in Seq(Delta)
      /\ \A n \in DOMAIN deltas : deltas[n] = delta \/ (n \in DOMAIN view.deltas /\ deltas[n] = view.deltas[n])
  <2>1. view.deltas \in Seq(Delta)
    BY <1>1 DEF ViewShape
  <2> QED BY <1>8, <2>1
<1> HIDE DEF deltas
<1>10. ViewShape'
  <2>1. Seq(Delta)' = Seq(Delta)
    BY <1>4 DEF Delta
  <2>2. /\ view.list \in Seq(Calls) /\ view.seen \in Seq(Nat) /\ view.shown \in Seq(Pips)
    BY <1>1 DEF ViewShape
  <2>3. deltas \in Seq(Delta)'
    BY <1>9, <2>1
  <2> QED BY <1>1, <1>2, <1>4, <1>5, <2>2, <2>3 DEF ViewShape
<1>11. SeenStays' /\ ShowsOneRun'
  BY <1>1, <1>2, <1>4, RunsAlone DEF SeenStays, ShowsOneRun, Is
<1>12. DeltasCited'
  <2> SUFFICES ASSUME NEW n \in DOMAIN view'.deltas PROVE CitesRun(view.deltas[n])'
    BY DEF DeltasCited
  <2>1. PICK d : d = view'.deltas[n] /\ CitesRun(d)
    BY <1>1, <1>4, <1>7, <1>9 DEF DeltasCited
  <2> QED BY <1>2, <1>4, <2>1 DEF CitesRun
<1> QED BY <1>2, <1>10, <1>11, <1>12, RunsAlone DEF ViewInv

LEMMA AnswerKeeps ==
  ASSUME ViewInv, Answer
  PROVE  ViewInv'
<1>1. RunsInv /\ ViewShape /\ SeenStays /\ ShowsOneRun /\ DeltasCited
  BY DEF ViewInv
<1>2. view.pc = "run" /\ Len(view.seen) = Len(view.list) /\ UNCHANGED <<call, runs>>
      /\ view' = [view EXCEPT !.pc = "deal served"]
  BY DEF Answer, Ask
<1>3. /\ view'.pc = "deal served" /\ view'.list = view.list /\ view'.seen = view.seen
      /\ view'.shown = view.shown /\ view'.risks = view.risks /\ view'.deltas = view.deltas
      /\ Record(view)'
  BY <1>1, <1>2 DEF ViewShape, Record
<1>4. ViewShape'
  <2>1. Seq(Delta)' = Seq(Delta)
    BY <1>3 DEF Delta
  <2>2. /\ view.list \in Seq(Calls) /\ view.seen \in Seq(Nat) /\ view.shown \in Seq(Pips)
        /\ view.deltas \in Seq(Delta)
    BY <1>1 DEF ViewShape
  <2> QED BY <1>1, <1>2, <1>3, <2>1, <2>2 DEF ViewShape
<1>5. SeenStays' /\ ShowsOneRun'
  <2>1. SeenStays'
    BY <1>1, <1>2, <1>3 DEF SeenStays, Is
  <2>2. ShowsOneRun'
    <3> SUFFICES ASSUME NEW k \in DOMAIN view.shown
                 PROVE  Stored(view.list[k], view.seen[k])' = <<>>
                        \/ view'.shown[k] = signal_pips(Stored(view.list[k], view.seen[k]))'
      BY <1>3 DEF ShowsOneRun
    <3>0. runs' = runs /\ view'.list = view.list /\ view'.seen = view.seen
      BY <1>2, <1>3
    <3>1. Stored(view.list[k], view.seen[k])' = Stored(view.list[k], view.seen[k])
      BY <3>0 DEF Stored
    <3>2. signal_pips(Stored(view.list[k], view.seen[k]))' = signal_pips(Stored(view.list[k], view.seen[k]))
      BY <3>1
    <3> QED BY <1>1, <1>3, <3>1, <3>2 DEF ShowsOneRun
  <2> QED BY <2>1, <2>2
<1>6. DeltasCited'
  BY <1>1, <1>2, <1>3 DEF DeltasCited, CitesRun
<1> QED BY <1>2, <1>4, <1>5, <1>6, RunsAlone DEF ViewInv

LEMMA CloseKeeps ==
  ASSUME ViewInv, Close
  PROVE  ViewInv'
<1>1. /\ UNCHANGED <<call, runs>> /\ view' = NoView
  BY DEF Close, Ask
<1>2. /\ view'.pc = "idle" /\ view'.list = <<>> /\ view'.seen = <<>> /\ view'.shown = <<>>
      /\ view'.deltas = <<>> /\ Record(view)'
  BY <1>1 DEF NoView, Record
<1>3. ViewShape'
  <2>1. <<>> \in Seq(Nat) /\ <<>> \in Seq(Pips) /\ <<>> \in Seq(Calls) /\ <<>> \in Seq(Delta)'
    BY EmptyIsList
  <2> QED BY <1>2, <2>1 DEF ViewShape
<1>4. SeenStays' /\ ShowsOneRun' /\ DeltasCited'
  BY <1>2 DEF SeenStays, ShowsOneRun, DeltasCited
<1> QED BY <1>1, <1>3, <1>4, RunsAlone DEF ViewInv

LEMMA ReadLatestKeeps ==
  ASSUME ViewInv, ReadLatest
  PROVE  ViewInv'
<1>1. RunsInv /\ ViewShape /\ SeenStays
  BY DEF ViewInv
<1> DEFINE seen == [k \in DOMAIN view.list |-> Len(runs[view.list[k]])]
<1>2. view.pc = "latest" /\ UNCHANGED <<call, runs>>
      /\ view' = [view EXCEPT !.seen = seen, !.pc = "rows"]
  BY DEF ReadLatest, Ask
<1>3. /\ view'.pc = "rows" /\ view'.list = view.list /\ view'.seen = seen
      /\ view'.shown = <<>> /\ view'.deltas = <<>>
      /\ Record(view)'
  BY <1>1, <1>2 DEF ViewShape, Record
<1>4. \A k \in DOMAIN view.list : Len(runs[view.list[k]]) \in Nat
  BY <1>1, Lengths DEF RunsInv
<1>5. seen \in Seq(Nat) /\ Len(seen) = Len(view.list)
  <2>1. Len(view.list) \in Nat /\ DOMAIN view.list = 1..Len(view.list)
    BY <1>1, Lengths
  <2>2. seen \in [1..Len(view.list) -> Nat]
    BY <1>4, <2>1
  <2>3. seen \in Seq(Nat)
    BY <2>1, <2>2, FunctionIsSeq
  <2>4. DOMAIN seen = 1..Len(view.list)
    BY <2>2
  <2> HIDE DEF seen
  <2> QED BY <2>1, <2>3, <2>4
<1>6. \A k \in DOMAIN seen : k \in DOMAIN view.list /\ seen[k] = Len(runs[view.list[k]])
  OBVIOUS
<1> HIDE DEF seen
<1>7. ViewShape'
  <2>1. view.list \in Seq(Calls) /\ <<>> \in Seq(Pips) /\ <<>> \in Seq(Delta)' /\ Len(view.list) \in Nat
    BY <1>1, EmptyIsList, Lengths DEF ViewShape
  <2> QED BY <1>3, <1>5, <2>1 DEF ViewShape
<1>8. SeenStays'
  <2>1. \A k \in DOMAIN seen : seen[k] <= Len(runs[view.list[k]])
    BY <1>4, <1>6
  <2> QED BY <1>1, <1>2, <1>3, <2>1 DEF SeenStays, Is
<1>9. ShowsOneRun' /\ DeltasCited'
  BY <1>3 DEF ShowsOneRun, DeltasCited
<1> QED BY <1>2, <1>7, <1>8, <1>9, RunsAlone DEF ViewInv

LEMMA ReadRowsKeeps ==
  ASSUME ViewInv, ReadRows
  PROVE  ViewInv'
<1>1. RunsInv /\ ViewShape /\ SeenStays
  BY DEF ViewInv
<1> DEFINE shown == [k \in DOMAIN view.list |-> signal_pips(RowsOf(k))]
           risks == [k \in DOMAIN view.list |->
                       TopRisk(UNION {RowsOf(k)[n].risks : n \in DOMAIN RowsOf(k)})]
<1>2. view.pc = "rows" /\ UNCHANGED <<call, runs>>
      /\ view' = [view EXCEPT !.shown = shown, !.risks = risks, !.pc = "list served"]
  BY DEF ReadRows, Ask
<1>3. /\ view'.pc = "list served" /\ view'.list = view.list /\ view'.seen = view.seen
      /\ view'.shown = shown /\ view'.risks = risks /\ view'.deltas = <<>>
      /\ Record(view)'
  <2> HIDE DEF shown, risks
  <2> QED BY <1>1, <1>2 DEF ViewShape, Record
<1>4. Len(view.list) \in Nat /\ DOMAIN view.list = 1..Len(view.list)
  BY <1>1, Lengths
<1>5. shown \in Seq(Pips) /\ Len(shown) = Len(view.list)
  <2>1. shown \in [1..Len(view.list) -> Pips]
    BY <1>4, PipsType
  <2>2. shown \in Seq(Pips)
    BY <1>4, <2>1, FunctionIsSeq
  <2>3. DOMAIN shown = 1..Len(view.list)
    BY <2>1
  <2> HIDE DEF shown
  <2> QED BY <1>4, <2>2, <2>3
<1>6. ASSUME NEW k \in DOMAIN shown
      PROVE  LET found == Stored(view.list[k], view.seen[k]) IN
             found = <<>> \/ (shown[k] = signal_pips(found) /\ risks[k] = TopRisk(found[1].risks))
  <2> DEFINE c == view.list[k]
             v == view.seen[k]
             found == runs[c][v].found
  <2>1. k \in DOMAIN view.list /\ RowsOf(k) = Stored(c, v)
    BY <1>6 DEF RowsOf
  <2>2. shown[k] = signal_pips(RowsOf(k))
        /\ risks[k] = TopRisk(UNION {RowsOf(k)[n].risks : n \in DOMAIN RowsOf(k)})
    BY <2>1
  <2>3. CASE v \notin DOMAIN runs[c]
    BY <2>3, StoredIs
  <2>4. CASE v \in DOMAIN runs[c]
    <3>1. RowsOf(k) = <<found>>
      BY <2>1, <2>4, StoredIs
    <3> HIDE DEF found, c, v, shown, risks
    <3>2. UNION {RowsOf(k)[n].risks : n \in DOMAIN RowsOf(k)} = found.risks
      <4>1. DOMAIN <<found>> = {1} /\ <<found>>[1] = found
        OBVIOUS
      <4>2. {RowsOf(k)[n].risks : n \in DOMAIN RowsOf(k)} = {found.risks}
        BY <3>1, <4>1
      <4> QED BY <4>2
    <3>3. Stored(c, v)[1].risks = found.risks
      BY <2>1, <3>1
    <3> QED BY <2>1, <2>2, <3>2, <3>3 DEF c, v
  <2> QED BY <2>3, <2>4
<1> HIDE DEF shown, risks
<1>7. ViewShape'
  <2>1. view.list \in Seq(Calls) /\ view.seen \in Seq(Nat) /\ <<>> \in Seq(Delta)'
    BY <1>1, EmptyIsList DEF ViewShape
  <2> QED BY <1>1, <1>2, <1>3, <1>5, <2>1 DEF ViewShape
<1>8. SeenStays'
  BY <1>1, <1>2, <1>3 DEF SeenStays, Is
<1>9. DeltasCited'
  <2>1. view'.deltas = <<>>
    BY <1>3, Zenon
  <2> QED BY <2>1 DEF DeltasCited
<1>10. ShowsOneRun'
  <2> SUFFICES ASSUME NEW k \in DOMAIN view'.shown
               PROVE  (LET found == Stored(view.list[k], view.seen[k]) IN
                       found = <<>> \/ (/\ view.shown[k] = signal_pips(found)
                                        /\ view.risks[k] = TopRisk(found[1].risks)))'
    BY DEF ShowsOneRun
  <2>0. runs' = runs /\ view'.list = view.list /\ view'.seen = view.seen
    BY <1>2, <1>3
  <2>1. PICK found : found = Stored(view.list[k], view.seen[k])' /\ found = Stored(view.list[k], view.seen[k])
    BY <2>0 DEF Stored
  <2>2. found = <<>> \/ (shown[k] = signal_pips(found) /\ risks[k] = TopRisk(found[1].risks))
    BY <1>3, <1>6, <2>1
  <2> QED BY <1>3, <2>1, <2>2
<1> QED BY <1>2, <1>7, <1>8, <1>9, <1>10, RunsAlone DEF ViewInv

LEMMA InitView == Init => ViewInv
<1> SUFFICES ASSUME Init PROVE ViewInv
  OBVIOUS
<1>1. RunsInv
  <2>1. <<>> \in Seq(Kept)
    BY EmptyIsList
  <2> QED BY <2>1 DEF Init, RunsInv
<1>2. /\ view.pc = "idle" /\ view.list = <<>> /\ view.seen = <<>> /\ view.shown = <<>>
      /\ view.deltas = <<>> /\ Record(view)
  BY DEF Init, NoView, Record
<1>3. ViewShape
  <2>1. <<>> \in Seq(Nat) /\ <<>> \in Seq(Pips) /\ <<>> \in Seq(Calls) /\ <<>> \in Seq(Delta)
    BY EmptyIsList
  <2> QED BY <1>2, <2>1 DEF ViewShape
<1>4. SeenStays /\ ShowsOneRun /\ DeltasCited
  BY <1>2 DEF SeenStays, ShowsOneRun, DeltasCited
<1> QED BY <1>1, <1>3, <1>4 DEF ViewInv

ReadsInv == DealsInv /\ ViewInv

LEMMA StepViews ==
  ASSUME DealsInv, ViewInv, [Next]_vars
  PROVE  ViewInv'
<1>1. DealsInv'
  BY StepDeals
<1>2. RunsInv' /\ \A c \in Calls : Stays(c)
  BY RunsStep DEF ViewInv
<1>3. CASE UNCHANGED view
  BY <1>1, <1>2, <1>3, ViewKept
<1>4. ASSUME NEW deal \in deals, OpenDeal(deal) PROVE ViewInv'
  <2>1. {c \in Committed : call[c].deal = deal} \subseteq Committed
    OBVIOUS
  <2> QED BY <1>4, <2>1, OpenKeeps DEF OpenDeal
<1>5. CASE OpenList
  BY <1>5, OpenKeeps DEF OpenList
<1>6. CASE ReadRun \/ ReadStates \/ ReadEvidence \/ Answer \/ ReadLatest \/ ReadRows \/ Close
  BY <1>6, ReadRunKeeps, ReadStatesKeeps, ReadEvidenceKeeps, AnswerKeeps, ReadLatestKeeps, ReadRowsKeeps,
     CloseKeeps
<1>7. ASSUME NEW c \in Calls,
             \/ \E name \in Names : Create(c, name)
             \/ Commit(c) \/ Rollback(c)
             \/ \E analysis \in Analyses : CommitRun(c, analysis)
             \/ TranscribeAgain(c) \/ DeleteCall(c)
      PROVE  UNCHANGED view
  BY <1>7 DEF Create, Commit, Rollback, CommitRun, TranscribeAgain, DeleteCall
<1>8. CASE UNCHANGED vars
  BY <1>3, <1>8 DEF vars
<1> QED BY <1>3, <1>4, <1>5, <1>6, <1>7, <1>8 DEF Next

LEMMA AlwaysReads == Spec => []ReadsInv
<1>1. Init => ReadsInv
  BY InitDeals, InitView DEF ReadsInv
<1>2. ReadsInv /\ [Next]_vars => ReadsInv'
  BY StepDeals, StepViews DEF ReadsInv
<1> QED BY <1>1, <1>2, PTL DEF Spec

\* Whatever commits, is deleted or transcribed again between the queries of
\* get_deal and list_calls, what they say of a call is what the run they read of
\* it found (deals.py:44-53, calls.py:89-123).
THEOREM OneRunPerCall == Spec => []ViewsShowOneRun
<1>1. ReadsInv => ViewsShowOneRun
  <2> SUFFICES ASSUME ViewInv, Served, NEW k \in DOMAIN view.list
               PROVE  LET found == Stored(view.list[k], view.seen[k]) IN
                      \/ found = <<>>
                      \/ /\ view.shown[k] = signal_pips(found)
                         /\ view.pc = "list served" => view.risks[k] = TopRisk(found[1].risks)
    BY DEF ReadsInv, ViewsShowOneRun
  <2>1. k \in DOMAIN view.shown
    BY Lengths DEF ViewInv, ViewShape, Served
  <2> QED BY <2>1 DEF ViewInv, ShowsOneRun
<1> QED BY <1>1, AlwaysReads, PTL

\* The segments a change cites are those of the run it was compared in, and they
\* are only missing when they are gone (deals.py:101-117).
THEOREM DeltasAreBacked == Spec => []DeltasCiteWhatTheyCompare
<1>1. ReadsInv => DeltasCiteWhatTheyCompare
  BY DEF ReadsInv, ViewInv, DeltasCited, CitesRun, DeltasCiteWhatTheyCompare
<1> QED BY <1>1, AlwaysReads, PTL
=============================================================================
