------------------------- MODULE CallInsightsProofs -------------------------
(***************************************************************************)
(* What a call's insights promise, for every call and every list of        *)
(* candidates: the gate ships only what is proven, the extractors propose  *)
(* only what their segments back, and the e-mail, the CRM and the report   *)
(* say no more than the right party said.                                  *)
(***************************************************************************)
EXTENDS CallOutputs, SequenceTheorems, FiniteSetTheorems, WellFoundedInduction, TLAPS

\* Only the customer's words are asked for where only they count.
Asked ==
  \A n \in DOMAIN candidates :
    candidates[n].type \in CUSTOMER_ONLY_TYPES => candidates[n].required \in {"customer", None}

\* seen holds exactly the keys of the candidates that shipped.
Marked ==
  \A k : k \in seen <=> \E n \in 1..Len(kept) : Shipped(kept[n]) /\ k \in Keys(kept[n].claim)

\* What judging one candidate preserves.
GateInv ==
  /\ TypeOK
  /\ Asked
  /\ Marked
  /\ ClaimsAreProven
  /\ NoEvidenceTwice
  /\ RefusalsAreDeserved

\* A candidate of a well-typed call, taken apart.
LEMMA CandidateTypes ==
  ASSUME TypeOK, NEW n \in DOMAIN candidates
  PROVE  /\ candidates[n] \in CandidateInsight
         /\ candidates[n].type \in InsightType
         /\ candidates[n].title \in Titles
         /\ candidates[n].status \in EvidenceStatus
         /\ candidates[n].ids \in Seq(Ids)
         /\ candidates[n].required \in SpeakerRole \cup {None}
         /\ candidates[n].quote \in Phrases \cup {None}
         /\ candidates[n].sure \in BOOLEAN
<1>1. candidates[n] \in CandidateInsight
  BY DEF TypeOK
<1> QED BY <1>1 DEF CandidateInsight

\* The keys of a candidate name its type, its title and the segments it cites.
LEMMA KeyTypes ==
  ASSUME TypeOK, NEW n \in DOMAIN candidates
  PROVE  Keys(candidates[n]) \subseteq InsightType \X Titles \X Ids
<1>1. \A i \in DOMAIN candidates[n].ids : candidates[n].ids[i] \in Ids
  BY CandidateTypes
<1> QED BY <1>1, CandidateTypes DEF Keys

\* A segment that passes every check proves the claim and is not marked for it.
LEMMA NoProblem ==
  ASSUME TypeOK, Asked, NEW n \in DOMAIN candidates,
         NEW i \in DOMAIN candidates[n].ids, Problem(candidates[n], i) = None
  PROVE  /\ Proves(candidates[n], candidates[n].ids[i])
         /\ <<candidates[n].type, candidates[n].title, candidates[n].ids[i]>> \notin seen
<1> DEFINE c == candidates[n]
           s == c.ids[i]
<1>1. s \in DOMAIN segments
  BY DEF Problem, None
<1>2. segments[s].role \in SpeakerRole
  BY <1>1 DEF TypeOK, SegmentView
<1>3. /\ RoleNeeded(c) \in {None, segments[s].role}
      /\ c.quote = None \/ c.quote \in segments[s].text
      /\ <<c.type, c.title, s>> \notin seen
  BY <1>1 DEF Problem, None
<1>4. c.required # None => segments[s].role = c.required
  BY <1>2, <1>3 DEF RoleNeeded, None
<1>5. c.type \in CUSTOMER_ONLY_TYPES => segments[s].role = "customer"
  BY <1>2, <1>3 DEF RoleNeeded, None, Asked
<1> QED BY <1>1, <1>3, <1>4, <1>5 DEF Proves

\* A segment that fails a check does not prove the claim, or is marked for it.
LEMMA SomeProblem ==
  ASSUME TypeOK, NEW n \in DOMAIN candidates,
         NEW i \in DOMAIN candidates[n].ids, Problem(candidates[n], i) # None
  PROVE  /\ Problem(candidates[n], i) \in Defects
         /\ \/ ~Proves(candidates[n], candidates[n].ids[i])
            \/ <<candidates[n].type, candidates[n].title, candidates[n].ids[i]>> \in seen
<1> DEFINE c == candidates[n]
           s == c.ids[i]
<1>1. CASE s \notin DOMAIN segments
  <2>1. Problem(c, i) = "segment_missing"
    BY <1>1 DEF Problem
  <2> QED BY <1>1, <2>1 DEF Proves, Defects
<1>2. CASE s \in DOMAIN segments
  <2>1. Problem(c, i) \in Defects
    BY <1>2 DEF Problem, Defects, None
  <2>2. \/ RoleNeeded(c) \notin {None, segments[s].role}
        \/ c.quote # None /\ c.quote \notin segments[s].text
        \/ <<c.type, c.title, s>> \in seen
    BY <1>2 DEF Problem
  <2> QED BY <2>1, <2>2 DEF Proves, RoleNeeded, None
<1> QED BY <1>1, <1>2

\* A verdict that is justified keeps the invariant, whichever action gives it.
LEMMA VerdictKept ==
  ASSUME GateInv,
         NEW c, NEW v \in ValidatedInsight,
         Len(kept) + 1 \in DOMAIN candidates,
         c = candidates[Len(kept) + 1],
         v.claim = c,
         UNCHANGED <<segments, candidates>>,
         kept' = Append(kept, v),
         seen' = IF Shipped(v) THEN seen \cup Keys(c) ELSE seen,
         IF dropped(v) \/ ~Factual(c) THEN v.ids = <<>> ELSE v.ids = c.ids /\ Proven(c),
         Shipped(v) => Keys(c) \cap seen = {},
         dropped(v) => ~Proven(c) \/ Keys(c) \cap seen # {}
  PROVE  GateInv'
<1> DEFINE last == Len(kept) + 1
<1>1. /\ kept \in Seq(ValidatedInsight)
      /\ candidates \in Seq(CandidateInsight)
      /\ Len(kept) \in Nat
  BY DEF GateInv, TypeOK
<1>2. /\ kept' \in Seq(ValidatedInsight)
      /\ Len(kept') = last
      /\ kept'[last] = v
      /\ \A n \in 1..Len(kept) : kept'[n] = kept[n]
  BY <1>1
<1>3. 1..Len(kept') = 1..Len(kept) \cup {last}
  BY <1>1, <1>2
<1>4. TypeOK'
  <2>1. last <= Len(candidates)
    BY <1>1
  <2>2. \A n \in 1..Len(kept') : kept'[n].claim = candidates[n]
    BY <1>1, <1>2, <1>3 DEF GateInv, TypeOK
  <2>3. seen' \subseteq InsightType \X Titles \X Ids
    BY KeyTypes DEF GateInv, TypeOK
  <2> QED BY <1>2, <2>1, <2>2, <2>3 DEF GateInv, TypeOK
<1>5. Asked'
  BY DEF GateInv, Asked
<1>6. Marked'
  <2> SUFFICES ASSUME NEW k
               PROVE  k \in seen' <=> \E n \in 1..Len(kept') : Shipped(kept'[n]) /\ k \in Keys(kept'[n].claim)
    BY DEF Marked
  <2>1. k \in seen <=> \E n \in 1..Len(kept) : Shipped(kept[n]) /\ k \in Keys(kept[n].claim)
    BY DEF GateInv, Marked
  <2>2. k \in seen' <=> k \in seen \/ (Shipped(v) /\ k \in Keys(v.claim))
    BY Zenon
  <2>3. (\E n \in 1..Len(kept') : Shipped(kept'[n]) /\ k \in Keys(kept'[n].claim))
        <=> \/ \E n \in 1..Len(kept) : Shipped(kept[n]) /\ k \in Keys(kept[n].claim)
            \/ Shipped(v) /\ k \in Keys(v.claim)
    BY <1>2, <1>3
  <2> QED BY <2>1, <2>2, <2>3
<1>7. ClaimsAreProven'
  <2> SUFFICES ASSUME NEW n \in 1..Len(kept')
               PROVE  (IF dropped(kept[n]) \/ ~Factual(kept[n].claim)
                         THEN kept[n].ids = <<>>
                         ELSE kept[n].ids = kept[n].claim.ids /\ Proven(kept[n].claim))'
    BY DEF ClaimsAreProven
  <2>2. CASE n \in 1..Len(kept)
    <3>1. kept'[n] = kept[n]
      BY <2>2, <1>2
    <3>2. IF dropped(kept[n]) \/ ~Factual(kept[n].claim)
            THEN kept[n].ids = <<>>
            ELSE kept[n].ids = kept[n].claim.ids /\ Proven(kept[n].claim)
      BY <2>2 DEF GateInv, ClaimsAreProven
    <3> QED BY <3>1, <3>2 DEF Proven, Proves, dropped, Factual
  <2>3. CASE n = last
    BY <2>3, <1>2 DEF Proven, Proves, dropped, Factual
  <2> QED BY <1>3, <2>2, <2>3
<1>8. NoEvidenceTwice'
  <2> SUFFICES ASSUME NEW m \in 1..Len(kept'), NEW n \in 1..Len(kept'),
                      m < n, Shipped(kept'[m]), Shipped(kept'[n])
               PROVE  ~Repeats(kept'[m].claim, kept'[n].claim)
    BY DEF NoEvidenceTwice
  <2>1. m \in 1..Len(kept)
    BY <1>1, <1>2
  <2>2. CASE n \in 1..Len(kept)
    BY <2>1, <2>2, <1>2 DEF GateInv, NoEvidenceTwice
  <2>3. CASE n = last
    <3>1. Keys(kept[m].claim) \subseteq seen
      BY <2>1, <1>2 DEF GateInv, Marked
    <3>2. Keys(v.claim) \cap seen = {}
      BY <2>3, <1>2
    <3> QED BY <3>1, <3>2, <2>1, <2>3, <1>2 DEF Repeats
  <2> QED BY <1>3, <2>2, <2>3
<1>9. RefusalsAreDeserved'
  <2> SUFFICES ASSUME NEW n \in 1..Len(kept'), dropped(kept'[n])
               PROVE  \/ (~Proven(kept[n].claim))'
                      \/ \E m \in 1..n-1 : Shipped(kept'[m]) /\ Repeats(kept'[m].claim, kept'[n].claim)
    BY DEF RefusalsAreDeserved
  <2>1. kept'[n] \in {kept[n], v} => ((~Proven(kept[n].claim))' <=> ~Proven(kept'[n].claim))
    BY DEF Proven, Proves
  <2>2. CASE n \in 1..Len(kept)
    <3>1. \A m \in 1..n-1 : kept'[m] = kept[m]
      BY <2>2, <1>1, <1>2
    <3>2. \/ ~Proven(kept[n].claim)
          \/ \E m \in 1..n-1 : Shipped(kept[m]) /\ Repeats(kept[m].claim, kept[n].claim)
      BY <2>2, <1>2 DEF GateInv, RefusalsAreDeserved
    <3> QED BY <3>1, <3>2, <2>1, <2>2, <1>2
  <2>3. CASE n = last
    <3>1. CASE ~Proven(c)
      BY <3>1, <2>1, <2>3, <1>2
    <3>2. CASE Keys(c) \cap seen # {}
      <4>1. PICK k : k \in Keys(c) /\ k \in seen
        BY <3>2
      <4>2. PICK m \in 1..Len(kept) : Shipped(kept[m]) /\ k \in Keys(kept[m].claim)
        BY <4>1 DEF GateInv, Marked
      <4>3. m \in 1..n-1 /\ kept'[m] = kept[m]
        BY <4>2, <2>3, <1>1, <1>2
      <4> QED BY <4>1, <4>2, <4>3, <2>3, <1>2 DEF Repeats
    <3> QED BY <3>1, <3>2, <2>3, <1>2
  <2> QED BY <1>3, <2>2, <2>3
<1> QED BY <1>4, <1>5, <1>6, <1>7, <1>8, <1>9 DEF GateInv

\* Each action gives a justified verdict.
LEMMA ValidateKeeps ==
  ASSUME GateInv, NEW n \in DOMAIN candidates, n = Len(kept) + 1, Validate(candidates[n])
  PROVE  GateInv'
<1> DEFINE c == candidates[n]
           Verdict(status, ids, defect) == [claim |-> c, status |-> status, ids |-> ids, defect |-> defect]
<1>1. TypeOK /\ Asked
  BY DEF GateInv
<1>2. /\ c \in CandidateInsight
      /\ c.status \in EvidenceStatus
      /\ c.ids \in Seq(Ids)
  BY <1>1, CandidateTypes
<1>3. CASE PassUnproven(c)
  <2> DEFINE v == Verdict(c.status, <<>>, None)
  <2>1. v \in ValidatedInsight /\ v.claim = c /\ v.ids = <<>>
    BY <1>2 DEF ValidatedInsight
  <2>2. ~dropped(v) /\ ~Factual(c) /\ ~Shipped(v)
    BY <1>3 DEF PassUnproven, dropped, Shipped
  <2>3. kept' = Append(kept, v) /\ UNCHANGED <<segments, candidates>> /\ seen' = seen
    BY <1>3 DEF PassUnproven, Keep
  <2> HIDE DEF v
  <2> QED BY <2>1, <2>2, <2>3, VerdictKept
<1>4. CASE RefuseUncited(c)
  <2> DEFINE v == Verdict("UNCONFIRMED", <<>>, "no_evidence")
  <2>1. v \in ValidatedInsight /\ v.claim = c /\ v.ids = <<>>
    BY <1>2 DEF ValidatedInsight, Defects, EvidenceStatus
  <2>2. dropped(v) /\ ~Shipped(v) /\ ~Proven(c)
    BY <1>4 DEF RefuseUncited, dropped, Shipped, Proven, None
  <2>3. kept' = Append(kept, v) /\ UNCHANGED <<segments, candidates>> /\ seen' = seen
    BY <1>4 DEF RefuseUncited, Keep
  <2> HIDE DEF v
  <2> QED BY <2>1, <2>2, <2>3, VerdictKept
<1>5. CASE Refuse(c)
  <2>1. PICK i \in DOMAIN c.ids : /\ Problem(c, i) # None
                                  /\ Keep(c, "UNCONFIRMED", <<>>, Problem(c, i))
    BY <1>5 DEF Refuse
  <2> DEFINE v == Verdict("UNCONFIRMED", <<>>, Problem(c, i))
  <2>2. /\ Problem(c, i) \in Defects
        /\ ~Proves(c, c.ids[i]) \/ <<c.type, c.title, c.ids[i]>> \in seen
    BY <1>1, <2>1, SomeProblem
  <2>3. v \in ValidatedInsight /\ v.claim = c /\ v.ids = <<>>
    BY <1>2, <2>2 DEF ValidatedInsight, EvidenceStatus
  <2>4. dropped(v) /\ ~Shipped(v)
    BY <2>1 DEF dropped, Shipped
  <2>5. ~Proven(c) \/ Keys(c) \cap seen # {}
    BY <2>2 DEF Proven, Keys
  <2>6. kept' = Append(kept, v) /\ UNCHANGED <<segments, candidates>> /\ seen' = seen
    BY <1>5, <2>1 DEF Refuse, Keep
  <2> HIDE DEF v
  <2> QED BY <2>3, <2>4, <2>5, <2>6, VerdictKept
<1>6. CASE Ship(c)
  <2> DEFINE status == IF c.sure THEN c.status ELSE "UNCONFIRMED"
             v == Verdict(status, c.ids, None)
  <2>1. \A i \in DOMAIN c.ids : /\ Proves(c, c.ids[i])
                                /\ <<c.type, c.title, c.ids[i]>> \notin seen
    BY <1>1, <1>6, NoProblem DEF Ship
  <2>2. status \in EvidenceStatus
    BY <1>2 DEF EvidenceStatus
  <2>3. v \in ValidatedInsight /\ v.claim = c /\ v.ids = c.ids
    BY <1>2, <2>2 DEF ValidatedInsight
  <2>4. ~dropped(v) /\ Factual(c) /\ Shipped(v)
    BY <1>6 DEF Ship, dropped, Shipped
  <2>5. Proven(c)
    BY <1>6, <2>1 DEF Ship, Proven
  <2>6. Keys(c) \cap seen = {}
    BY <2>1 DEF Keys
  <2>7. kept' = Append(kept, v) /\ UNCHANGED <<segments, candidates>> /\ seen' = seen \cup Keys(c)
    BY <1>6 DEF Ship, Keep
  <2> HIDE DEF v
  <2> QED BY <2>3, <2>4, <2>5, <2>6, <2>7, VerdictKept
<1> QED BY <1>3, <1>4, <1>5, <1>6 DEF Validate

\* GateInv is inductive.
THEOREM GateInvariant == Spec => []GateInv
<1>1. Init => GateInv
  <2> SUFFICES ASSUME Init PROVE GateInv
    OBVIOUS
  <2>1. PICK input \in Inputs : segments = input.segments /\ candidates = input.candidates
    BY DEF Init
  <2>2. kept = <<>> /\ seen = {} /\ Len(kept) = 0 /\ 1..Len(kept) = {}
    BY DEF Init
  <2>3. TypeOK
    BY <2>1, <2>2, InputsAssumption DEF TypeOK
  <2>4. Asked
    BY <2>1, CustomerOnlyAssumption DEF Asked
  <2>5. Marked
    BY <2>2 DEF Marked
  <2>6. ClaimsAreProven /\ NoEvidenceTwice /\ RefusalsAreDeserved
    BY <2>2 DEF ClaimsAreProven, NoEvidenceTwice, RefusalsAreDeserved
  <2> QED BY <2>3, <2>4, <2>5, <2>6 DEF GateInv
<1>2. GateInv /\ [Next]_vars => GateInv'
  <2> SUFFICES ASSUME GateInv, [Next]_vars PROVE GateInv'
    OBVIOUS
  <2>1. CASE Next
    BY <2>1, ValidateKeeps DEF Next
  <2>2. CASE UNCHANGED vars
    BY <2>2 DEF vars, GateInv, TypeOK, Asked, Marked, ClaimsAreProven, NoEvidenceTwice,
       RefusalsAreDeserved, Proven, Proves
  <2> QED BY <2>1, <2>2
<1> QED BY <1>1, <1>2, PTL DEF Spec

\* Every candidate gets one verdict, in order, and no verdict is stored with a
\* segment of another call.
THEOREM GateTypeCorrect == Spec => []TypeOK
<1>1. GateInv => TypeOK
  BY DEF GateInv
<1> QED BY <1>1, GateInvariant, PTL

\* No proof in the transcript, no claim in the report.
THEOREM NoClaimWithoutProof == Spec => []ClaimsAreProven
<1>1. GateInv => ClaimsAreProven
  BY DEF GateInv
<1> QED BY <1>1, GateInvariant, PTL

\* No two shipped insights of one type and title stand on the same segment.
THEOREM NoClaimTwice == Spec => []NoEvidenceTwice
<1>1. GateInv => NoEvidenceTwice
  BY DEF GateInv
<1> QED BY <1>1, GateInvariant, PTL

\* A refused candidate never poisons a later one.
THEOREM EveryRefusalDeserved == Spec => []RefusalsAreDeserved
<1>1. GateInv => RefusalsAreDeserved
  BY DEF GateInv
<1> QED BY <1>1, GateInvariant, PTL

\* Induction on the natural numbers, for a set.
LEMMA Induction ==
  ASSUME NEW T, 0 \in T, \A n \in Nat : n \in T => n + 1 \in T
  PROVE  \A n \in Nat : n \in T
<1> DEFINE R == OpToRel(<, Nat)
           bad == Nat \ T
<1> SUFFICES ASSUME bad # {} PROVE FALSE
  OBVIOUS
<1>1. IsWellFoundedOn(R, Nat)
  BY NatLessThanWellFounded
<1>2. bad \subseteq Nat
  OBVIOUS
<1> HIDE DEF R
<1>3. PICK n \in bad : \A m \in bad : <<m, n>> \notin R
  <2> HIDE DEF bad
  <2> QED BY <1>1, <1>2, WFMin
<1>4. n \in Nat /\ n # 0 /\ n - 1 \in Nat /\ n - 1 \notin T
  <2>1. n \in Nat /\ n \notin T
    OBVIOUS
  <2>2. n # 0
    BY <2>1
  <2>3. n - 1 \in Nat
    BY <2>1, <2>2
  <2>4. n = (n - 1) + 1
    BY <2>1
  <2> QED BY <2>1, <2>2, <2>3, <2>4
<1>5. <<n - 1, n>> \in R
  BY <1>4 DEF R, OpToRel
<1> QED BY <1>3, <1>4, <1>5

\* What is in a sequence.
Elements(s) == {s[i] : i \in DOMAIN s}

\* A function that appends the first k parts, for every k.
Appends(parts, T, n, h) ==
  /\ h \in [0..n -> Seq(T)]
  /\ h[0] = <<>>
  /\ \A k \in 1..n : h[k] = h[k - 1] \o parts[k]

\* Any list of parts can be appended one by one.
LEMMA AppendsExist ==
  ASSUME NEW T, NEW parts \in Seq(Seq(T))
  PROVE  \A n \in Nat : n <= Len(parts) => \E h : Appends(parts, T, n, h)
<1> DEFINE S == {n \in Nat : n <= Len(parts) => \E h : Appends(parts, T, n, h)}
<1>1. 0 \in S
  <2> DEFINE h == [k \in 0..0 |-> <<>>]
  <2>0. <<>> \in Seq(T)
    BY EmptySeq
  <2>1. Appends(parts, T, 0, h)
    BY <2>0 DEF Appends
  <2> QED BY <2>1
<1>2. ASSUME NEW n \in Nat, n \in S PROVE n + 1 \in S
  <2> SUFFICES ASSUME n + 1 <= Len(parts) PROVE \E h : Appends(parts, T, n + 1, h)
    OBVIOUS
  <2>0. Len(parts) \in Nat /\ n <= Len(parts) /\ n + 1 \in 1..Len(parts)
    OBVIOUS
  <2>1. PICK h : Appends(parts, T, n, h)
    BY <1>2, <2>0
  <2> DEFINE g == [k \in 0..n + 1 |-> IF k = n + 1 THEN h[n] \o parts[n + 1] ELSE h[k]]
  <2>2. h[n] \in Seq(T) /\ parts[n + 1] \in Seq(T)
    BY <2>0, <2>1 DEF Appends
  <2>3. h[n] \o parts[n + 1] \in Seq(T)
    BY <2>2, ConcatProperties
  <2>4. g \in [0..n + 1 -> Seq(T)]
    BY <2>1, <2>3 DEF Appends
  <2>5. g[0] = <<>>
    BY <2>1 DEF Appends
  <2>6. ASSUME NEW k \in 1..n + 1 PROVE g[k] = g[k - 1] \o parts[k]
    <3>1. CASE k = n + 1
      <4>0. k - 1 = n /\ n \in 0..n + 1 /\ n + 1 \in 0..n + 1 /\ n # n + 1
        BY <3>1
      <4>1. g[k] = h[n] \o parts[n + 1] /\ g[k - 1] = h[n] /\ k - 1 = n
        BY <3>1, <4>0
      <4> HIDE DEF g
      <4> QED BY <3>1, <4>1
    <3>2. CASE k # n + 1
      <4>1. g[k] = h[k] /\ g[k - 1] = h[k - 1] /\ k \in 1..n
        BY <3>2
      <4> HIDE DEF g
      <4> QED BY <2>1, <4>1 DEF Appends
    <3> QED BY <3>1, <3>2
  <2> HIDE DEF g
  <2>7. Appends(parts, T, n + 1, g)
    BY <2>4, <2>5, <2>6 DEF Appends
  <2> QED BY <2>7
<1> HIDE DEF S
<1>3. \A n \in Nat : n \in S
  BY <1>1, <1>2, Induction
<1> QED BY <1>3 DEF S

\* What is in a concatenation, and what comes first.
Holds(parts, n, s) ==
  /\ \A x : x \in Elements(s) <=> \E k \in 1..n : x \in Elements(parts[k])
  /\ \A k \in 1..n : parts[k] # <<>> /\ (\A j \in 1..k - 1 : parts[j] = <<>>) => s # <<>> /\ s[1] = parts[k][1]

\* A concatenation holds what its parts hold.
LEMMA ConcatElements ==
  ASSUME NEW T, NEW s \in Seq(T), NEW t \in Seq(T)
  PROVE  /\ Elements(s \o t) = Elements(s) \cup Elements(t)
         /\ s # <<>> => s \o t # <<>> /\ (s \o t)[1] = s[1]
         /\ s = <<>> => s \o t = t
<1>1. /\ Len(s \o t) = Len(s) + Len(t)
      /\ \A i \in 1 .. Len(s) + Len(t) : (s \o t)[i] = IF i <= Len(s) THEN s[i] ELSE t[i - Len(s)]
      /\ s \o t \in Seq(T)
  BY ConcatProperties
<1>2. /\ Len(s) \in Nat /\ DOMAIN s = 1..Len(s)
      /\ Len(t) \in Nat /\ DOMAIN t = 1..Len(t)
      /\ DOMAIN (s \o t) = 1..Len(s) + Len(t)
  BY <1>1, LenProperties
<1> DEFINE u == s \o t
<1>3. \A i \in DOMAIN s : i \in DOMAIN u /\ u[i] = s[i]
  BY <1>1, <1>2
<1>4. \A i \in DOMAIN t : Len(s) + i \in DOMAIN u /\ u[Len(s) + i] = t[i]
  <2> SUFFICES ASSUME NEW i \in DOMAIN t PROVE Len(s) + i \in DOMAIN u /\ u[Len(s) + i] = t[i]
    OBVIOUS
  <2>1. i \in Nat /\ i >= 1 /\ i <= Len(t)
    BY <1>2
  <2>2. Len(s) + i \in 1..Len(s) + Len(t) /\ ~(Len(s) + i <= Len(s)) /\ (Len(s) + i) - Len(s) = i
    BY <1>2, <2>1
  <2> HIDE DEF u
  <2> QED BY <1>1, <1>2, <2>2 DEF u
<1>5. \A i \in DOMAIN u : i \in DOMAIN s \/ (i - Len(s) \in DOMAIN t /\ u[i] = t[i - Len(s)])
  BY <1>1, <1>2
<1>6. Elements(u) = Elements(s) \cup Elements(t)
  <2>1. \A x \in Elements(u) : x \in Elements(s) \cup Elements(t)
    BY <1>3, <1>5, Zenon DEF Elements
  <2>2. \A x \in Elements(s) : x \in Elements(u)
    BY <1>3, Zenon DEF Elements
  <2>3. \A x \in Elements(t) : x \in Elements(u)
    BY <1>4, Zenon DEF Elements
  <2> QED BY <2>1, <2>2, <2>3
<1>7. s # <<>> => u # <<>> /\ u[1] = s[1]
  <2> SUFFICES ASSUME s # <<>> PROVE u # <<>> /\ u[1] = s[1]
    OBVIOUS
  <2>1. Len(s) # 0
    BY <1>2
  <2>2. 1 \in DOMAIN s
    BY <1>2, <2>1
  <2>3. Len(u) # 0
    BY <1>1, <1>2, <2>1
  <2> QED BY <1>3, <2>2, <2>3
<1>8. s = <<>> => u = t
  OBVIOUS
<1> QED BY <1>6, <1>7, <1>8

\* A flattened list of parts holds what the parts hold.
LEMMA FlattenSays ==
  ASSUME NEW T, NEW parts \in Seq(Seq(T))
  PROVE  /\ SE!FlattenSeq(parts) \in Seq(T)
         /\ Holds(parts, Len(parts), SE!FlattenSeq(parts))
<1> DEFINE n == Len(parts)
           all == SE!FlattenSeq(parts)
           IsFlat(f) == f = [i \in 1..n |-> IF i = 1 THEN parts[i] ELSE f[i - 1] \o parts[i]]
<1>0. n \in Nat /\ DOMAIN parts = 1..n /\ \A k \in 1..n : parts[k] \in Seq(T)
  BY LenProperties
<1>1. CASE n = 0
  <2>1. all = parts /\ parts = <<>> /\ 1..n = {}
    BY <1>1, <1>0 DEF SE!FlattenSeq
  <2>2. all \in Seq(T) /\ Elements(all) = {}
    BY <2>1, EmptySeq DEF Elements
  <2> QED BY <2>1, <2>2 DEF Holds
<1>2. CASE n # 0
  <2>1. PICK h : Appends(parts, T, n, h)
    BY <1>0, AppendsExist
  <2> DEFINE f == [i \in 1..n |-> h[i]]
  <2>2. IsFlat(f)
    <3>1. ASSUME NEW i \in 1..n PROVE f[i] = IF i = 1 THEN parts[i] ELSE f[i - 1] \o parts[i]
      <4>1. h[i] = h[i - 1] \o parts[i] /\ f[i] = h[i]
        BY <2>1 DEF Appends
      <4>2. CASE i = 1
        <5>1. h[i - 1] = <<>> /\ parts[i] \in Seq(T)
          BY <1>0, <2>1, <4>2 DEF Appends
        <5>2. <<>> \o parts[i] = parts[i]
          BY <5>1
        <5> HIDE DEF f
        <5> QED BY <4>1, <4>2, <5>1, <5>2
      <4>3. CASE i # 1
        <5>1. i - 1 \in 1..n /\ f[i - 1] = h[i - 1]
          BY <4>3, <1>0
        <5> HIDE DEF f
        <5> QED BY <4>1, <4>3, <5>1
      <4> QED BY <4>2, <4>3
    <3>2. f = [i \in 1..n |-> f[i]]
      OBVIOUS
    <3> HIDE DEF f
    <3> QED BY <3>1, <3>2, Zenon
  <2> HIDE DEF f
  <2>3. PICK g : g = CHOOSE each : IsFlat(each)
    OBVIOUS
  <2>4. IsFlat(g)
    BY <2>2, <2>3
  <2>5. all = g[n]
    <3> DEFINE chosen == CHOOSE each : IsFlat(each)
    <3>1. all = chosen[n]
      BY <1>2, Zenon DEF SE!FlattenSeq
    <3> HIDE DEF IsFlat
    <3> QED BY <2>3, <3>1
  <2>6. \A k \in 1..n : g[k] = IF k = 1 THEN parts[k] ELSE g[k - 1] \o parts[k]
    BY <2>4, Zenon
  <2> HIDE DEF IsFlat, all
  <2> DEFINE S == {k \in Nat : k + 1 <= n => g[k + 1] \in Seq(T) /\ Holds(parts, k + 1, g[k + 1])}
  <2>7. 0 \in S
    <3>1. 1 \in 1..n /\ g[1] = parts[1] /\ 0 + 1 = 1
      BY <1>0, <1>2, <2>6
    <3>2. 1..1 = {1} /\ 1..1 - 1 = {}
      OBVIOUS
    <3>3. Holds(parts, 1, g[1])
      BY <3>1, <3>2 DEF Holds
    <3> QED BY <1>0, <3>1, <3>3
  <2>8. ASSUME NEW k \in Nat, k \in S PROVE k + 1 \in S
    <3> DEFINE m == k + 1
    <3> SUFFICES ASSUME m + 1 <= n
                 PROVE  g[m + 1] \in Seq(T) /\ Holds(parts, m + 1, g[m + 1])
      OBVIOUS
    <3>1. m \in Nat /\ m <= n /\ m + 1 \in 1..n /\ m + 1 # 1 /\ (m + 1) - 1 = m /\ m \in 1..n
      BY <1>0
    <3>2. g[m] \in Seq(T) /\ Holds(parts, m, g[m])
      BY <2>8, <3>1
    <3>3. g[m + 1] = g[m] \o parts[m + 1]
      BY <2>6, <3>1
    <3>4. parts[m + 1] \in Seq(T)
      BY <1>0, <3>1
    <3>5. /\ Elements(g[m + 1]) = Elements(g[m]) \cup Elements(parts[m + 1])
          /\ g[m] # <<>> => g[m + 1] # <<>> /\ g[m + 1][1] = g[m][1]
          /\ g[m] = <<>> => g[m + 1] = parts[m + 1]
      <4>1. /\ Elements(g[m] \o parts[m + 1]) = Elements(g[m]) \cup Elements(parts[m + 1])
            /\ g[m] # <<>> => g[m] \o parts[m + 1] # <<>> /\ (g[m] \o parts[m + 1])[1] = g[m][1]
            /\ g[m] = <<>> => g[m] \o parts[m + 1] = parts[m + 1]
        BY <3>2, <3>4, ConcatElements
      <4> QED BY <3>3, <4>1
    <3>6. g[m + 1] \in Seq(T)
      BY <3>2, <3>3, <3>4, ConcatProperties
    <3>7. 1..m + 1 = 1..m \cup {m + 1}
      BY <3>1
    <3> HIDE DEF m
    <3>8. ASSUME NEW x PROVE x \in Elements(g[m + 1]) <=> \E i \in 1..m + 1 : x \in Elements(parts[i])
      BY <3>2, <3>5, <3>7 DEF Holds
    <3>9. ASSUME NEW i \in 1..m + 1, parts[i] # <<>>, \A j \in 1..i - 1 : parts[j] = <<>>
          PROVE  g[m + 1] # <<>> /\ g[m + 1][1] = parts[i][1]
      <4>1. CASE i \in 1..m
        BY <3>2, <3>5, <3>9, <4>1 DEF Holds
      <4>2. CASE i = m + 1
        <5>1. \A j \in 1..m : parts[j] = <<>>
          BY <3>1, <3>9, <4>2
        <5>2. Elements(g[m]) = {}
          <6>1. Elements(<<>>) = {}
            BY DEF Elements
          <6> QED BY <3>2, <5>1, <6>1 DEF Holds
        <5>3. g[m] = <<>>
          <6>1. Len(g[m]) = 0
            <7>1. DOMAIN g[m] = 1..Len(g[m]) /\ Len(g[m]) \in Nat
              BY <3>2, LenProperties
            <7>2. 1 \notin DOMAIN g[m]
              BY <5>2 DEF Elements
            <7> QED BY <7>1, <7>2
          <6> QED BY <3>2, <6>1, EmptySeq
        <5> QED BY <3>5, <3>9, <4>2, <5>3
      <4> QED BY <3>7, <4>1, <4>2
    <3> QED BY <3>6, <3>8, <3>9 DEF Holds
  <2> HIDE DEF S
  <2>9. \A k \in Nat : k \in S
    BY <2>7, <2>8, Induction
  <2>10. n - 1 \in Nat /\ (n - 1) + 1 = n /\ n <= n
    BY <1>0, <1>2
  <2>11. g[n] \in Seq(T) /\ Holds(parts, n, g[n])
    BY <2>9, <2>10 DEF S
  <2> QED BY <2>5, <2>11 DEF all
<1> QED BY <1>1, <1>2

\* An empty list holds nothing.
LEMMA EmptyHolds == Elements(<<>>) = {}
BY DEF Elements

\* A list of one holds that one.
LEMMA SingleHolds ==
  ASSUME NEW x
  PROVE  Elements(<<x>>) = {x} /\ <<x>> # <<>> /\ <<x>>[1] = x
BY DEF Elements

\* A condition's element is there exactly when the condition holds.
LEMMA WhereHolds ==
  ASSUME NEW T, NEW x \in T, NEW c
  PROVE  /\ Where(c, x) \in Seq(T)
         /\ \A y : y \in Elements(Where(c, x)) <=> c /\ y = x
         /\ Where(c, x) # <<>> <=> c
         /\ c => Where(c, x)[1] = x
<1>1. CASE c
  <2>1. Where(c, x) = <<x>>
    BY <1>1 DEF Where
  <2>2. <<x>> \in Seq(T)
    OBVIOUS
  <2> QED BY <1>1, <2>1, <2>2, SingleHolds
<1>2. CASE ~c
  <2>1. Where(c, x) = <<>>
    BY <1>2 DEF Where
  <2> QED BY <1>2, <2>1, EmptyHolds, EmptySeq
<1> QED BY <1>1, <1>2

\* What a loop yields, part by part.
LEMMA LoopHolds ==
  ASSUME NEW T, NEW n \in Nat, NEW parts, parts = [k \in 1..n |-> parts[k]],
         \A k \in 1..n : parts[k] \in Seq(T)
  PROVE  SE!FlattenSeq(parts) \in Seq(T) /\ Holds(parts, n, SE!FlattenSeq(parts))
<1>1. parts \in [1..n -> Seq(T)]
  OBVIOUS
<1>2. parts \in Seq(Seq(T)) /\ Len(parts) = n
  BY <1>1
<1> QED BY <1>2, FlattenSays

\* The elements of seq that are in yes, in order.
Among(seq, yes) == SE!FlattenSeq([i \in DOMAIN seq |-> Where(seq[i] \in yes, seq[i])])

\* A comprehension holds what passes, and begins with the first that passes.
LEMMA AmongHolds ==
  ASSUME NEW T, NEW seq \in Seq(T), NEW yes
  PROVE  /\ Among(seq, yes) \in Seq(T)
         /\ \A x : x \in Elements(Among(seq, yes)) <=> x \in Elements(seq) /\ x \in yes
         /\ \A k \in DOMAIN seq :
              seq[k] \in yes /\ (\A j \in 1..k - 1 : seq[j] \notin yes) =>
                Among(seq, yes) # <<>> /\ Among(seq, yes)[1] = seq[k]
<1> DEFINE n == Len(seq)
           part(i) == Where(seq[i] \in yes, seq[i])
           parts == [i \in 1..n |-> part(i)]
<1>0. n \in Nat /\ DOMAIN seq = 1..n /\ \A i \in 1..n : seq[i] \in T
  BY LenProperties
<1>1. ASSUME NEW i \in 1..n
      PROVE  /\ part(i) \in Seq(T)
             /\ \A y : y \in Elements(part(i)) <=> seq[i] \in yes /\ y = seq[i]
             /\ part(i) # <<>> <=> seq[i] \in yes
             /\ seq[i] \in yes => part(i)[1] = seq[i]
  BY <1>0, WhereHolds
<1>2. Among(seq, yes) = SE!FlattenSeq(parts)
  BY <1>0, Zenon DEF Among
<1>3. parts = [k \in 1..n |-> parts[k]] /\ \A k \in 1..n : parts[k] = part(k)
  OBVIOUS
<1> HIDE DEF part, parts, n
<1>4. SE!FlattenSeq(parts) \in Seq(T) /\ Holds(parts, n, SE!FlattenSeq(parts))
  <2>1. \A k \in 1..n : parts[k] \in Seq(T)
    BY <1>1, <1>3
  <2>2. parts = [k \in 1..n |-> parts[k]] /\ n \in Nat
    BY <1>0, <1>3 DEF n
  <2> QED BY <2>1, <2>2, LoopHolds
<1>5. ASSUME NEW x
      PROVE  x \in Elements(Among(seq, yes)) <=> x \in Elements(seq) /\ x \in yes
  <2>1. x \in Elements(Among(seq, yes)) <=> \E k \in 1..n : x \in Elements(parts[k])
    BY <1>2, <1>4 DEF Holds
  <2>2. \A k \in 1..n : x \in Elements(parts[k]) <=> seq[k] \in yes /\ x = seq[k]
    <3> SUFFICES ASSUME NEW k \in 1..n PROVE x \in Elements(parts[k]) <=> seq[k] \in yes /\ x = seq[k]
      OBVIOUS
    <3>1. parts[k] = part(k)
      BY <1>3
    <3> QED BY <1>1, <3>1, Zenon
  <2>3. x \in Elements(seq) <=> \E k \in 1..n : x = seq[k]
    BY <1>0, Zenon DEF Elements, n
  <2> QED BY <2>1, <2>2, <2>3
<1>6. ASSUME NEW k \in 1..n, seq[k] \in yes, \A j \in 1..k - 1 : seq[j] \notin yes
      PROVE  Among(seq, yes) # <<>> /\ Among(seq, yes)[1] = seq[k]
  <2>1. \A j \in 1..k - 1 : j \in 1..n
    BY <1>0
  <2>2. parts[k] # <<>> /\ parts[k][1] = seq[k] /\ \A j \in 1..k - 1 : parts[j] = <<>>
    BY <1>1, <1>3, <1>6, <2>1
  <2> QED BY <1>2, <1>4, <2>2 DEF Holds
<1> QED BY <1>0, <1>2, <1>4, <1>5, <1>6

\* The places of a list are the numbers of its elements.
LEMMA PlacesHolds ==
  ASSUME NEW S, NEW seq \in Seq(S)
  PROVE  /\ Places(seq) \in Seq(DOMAIN seq)
         /\ DOMAIN Places(seq) = DOMAIN seq
         /\ Elements(Places(seq)) = DOMAIN seq
         /\ \A i \in DOMAIN seq : Places(seq)[i] = i
<1>1. Len(seq) \in Nat /\ DOMAIN seq = 1..Len(seq)
  BY LenProperties
<1>2. Places(seq) = [i \in 1..Len(seq) |-> i]
  BY <1>1 DEF Places
<1>3. Places(seq) \in [1..Len(seq) -> DOMAIN seq]
  BY <1>1, <1>2
<1> QED BY <1>1, <1>2, <1>3 DEF Elements

\* The segments one side spoke.
By(segs, role) == {i \in DOMAIN segs : segs[i].role = role}

\* The segments of a side are the ones it spoke.
LEMMA SpokenByHolds ==
  ASSUME NEW segs \in Seq(SegmentView), NEW role
  PROVE  /\ SpokenBy(segs, role) \in Seq(DOMAIN segs)
         /\ Elements(SpokenBy(segs, role)) = By(segs, role)
<1> DEFINE places == Places(segs)
<1>1. /\ places \in Seq(DOMAIN segs)
      /\ Elements(places) = DOMAIN segs
      /\ DOMAIN places = DOMAIN segs
      /\ \A i \in DOMAIN segs : places[i] = i
  BY PlacesHolds
<1>2. [i \in DOMAIN places |-> Where(segs[places[i]].role = role, places[i])]
      = [i \in DOMAIN places |-> Where(places[i] \in By(segs, role), places[i])]
  <2>1. ASSUME NEW i \in DOMAIN segs
        PROVE  Where(segs[places[i]].role = role, places[i]) = Where(places[i] \in By(segs, role), places[i])
    BY <1>1 DEF Where, By
  <2> HIDE DEF places
  <2> QED BY <1>1, <2>1
<1>3. SpokenBy(segs, role) = SE!FlattenSeq([i \in DOMAIN places |-> Where(segs[places[i]].role = role, places[i])])
  BY Zenon DEF SpokenBy, Selected, ForEach
<1>4. SpokenBy(segs, role) = Among(places, By(segs, role))
  BY <1>2, <1>3, Zenon DEF Among
<1> HIDE DEF places
<1>5. SpokenBy(segs, role) \in Seq(DOMAIN segs)
  BY <1>1, <1>4, AmongHolds
<1>6. ASSUME NEW x PROVE x \in Elements(SpokenBy(segs, role)) <=> x \in By(segs, role)
  BY <1>1, <1>4, AmongHolds DEF By
<1> QED BY <1>5, <1>6

\* What a loop over seq collects.
Collects(D, parts, T, result) ==
  /\ result \in Seq(T)
  /\ \A x : x \in Elements(result) <=> \E k \in D : x \in Elements(parts[k])

\* A loop collects what its rounds add.
LEMMA LoopCollects ==
  ASSUME NEW T, NEW S, NEW seq \in Seq(S), NEW parts, parts = [k \in DOMAIN seq |-> parts[k]],
         \A k \in DOMAIN seq : parts[k] \in Seq(T)
  PROVE  Collects(DOMAIN seq, parts, T, SE!FlattenSeq(parts))
<1>1. Len(seq) \in Nat /\ DOMAIN seq = 1..Len(seq)
  BY LenProperties
<1>2. SE!FlattenSeq(parts) \in Seq(T) /\ Holds(parts, Len(seq), SE!FlattenSeq(parts))
  BY <1>1, LoopHolds
<1> QED BY <1>1, <1>2 DEF Holds, Collects

\* A condition's candidate.
OneOf(c, x, T, part) ==
  /\ part \in Seq(T)
  /\ \A y : y \in Elements(part) <=> c /\ y = x

\* A condition's candidate is there exactly when the condition holds.
LEMMA WhereIsOne ==
  ASSUME NEW T, NEW x \in T, NEW c
  PROVE  OneOf(c, x, T, Where(c, x))
BY WhereHolds DEF OneOf

\* What a loop over places, with a loop over a table inside, collects.
CollectsAll(D, E, grid, T, result) ==
  /\ result \in Seq(T)
  /\ \A x : x \in Elements(result) <=> \E n \in D, k \in E : x \in Elements(grid[n][k])

\* A loop in a loop: over places, and for each over a table.
LEMMA GridCollects ==
  ASSUME NEW T, NEW P, NEW places \in Seq(P), NEW R, NEW table \in Seq(R), NEW grid,
         \A n \in DOMAIN places : grid[n] = [k \in DOMAIN table |-> grid[n][k]],
         \A n \in DOMAIN places, k \in DOMAIN table : grid[n][k] \in Seq(T),
         NEW result, result = SE!FlattenSeq([n \in DOMAIN places |-> SE!FlattenSeq(grid[n])])
  PROVE  CollectsAll(DOMAIN places, DOMAIN table, grid, T, result)
<1> DEFINE lines == [n \in DOMAIN places |-> SE!FlattenSeq(grid[n])]
<1>1. ASSUME NEW n \in DOMAIN places
      PROVE  Collects(DOMAIN table, grid[n], T, SE!FlattenSeq(grid[n]))
  <2>1. grid[n] = [k \in DOMAIN table |-> grid[n][k]]
    OBVIOUS
  <2>2. \A k \in DOMAIN table : grid[n][k] \in Seq(T)
    OBVIOUS
  <2> QED BY <2>1, <2>2, LoopCollects
<1>2. lines = [n \in DOMAIN places |-> lines[n]] /\ \A n \in DOMAIN places : lines[n] = SE!FlattenSeq(grid[n])
  OBVIOUS
<1>3. result = SE!FlattenSeq(lines)
  OBVIOUS
<1> HIDE DEF lines
<1>4. \A n \in DOMAIN places : lines[n] \in Seq(T)
  BY <1>1, <1>2 DEF Collects
<1>5. Collects(DOMAIN places, lines, T, SE!FlattenSeq(lines))
  BY <1>2, <1>4, LoopCollects
<1>6. ASSUME NEW x
      PROVE  x \in Elements(result) <=> \E n \in DOMAIN places, k \in DOMAIN table : x \in Elements(grid[n][k])
  <2>1. x \in Elements(result) <=> \E n \in DOMAIN places : x \in Elements(lines[n])
    BY <1>3, <1>5 DEF Collects
  <2>2. \A n \in DOMAIN places : x \in Elements(lines[n]) <=> \E k \in DOMAIN table : x \in Elements(grid[n][k])
    BY <1>1, <1>2 DEF Collects
  <2> QED BY <2>1, <2>2
<1> QED BY <1>3, <1>5, <1>6 DEF Collects, CollectsAll

\* A list is a list of its elements.
LEMMA OfItsElements ==
  ASSUME NEW S, NEW s, s \in Seq(S)
  PROVE  s \in Seq(Elements(s))
<1>1. s = [i \in 1..Len(s) |-> s[i]] /\ Len(s) \in Nat
  OBVIOUS
<1>2. \A i \in 1..Len(s) : s[i] \in Elements(s)
  BY <1>1 DEF Elements
<1>3. s \in [1..Len(s) -> Elements(s)]
  BY <1>1, <1>2
<1> QED BY <1>1, <1>3

\* The extractors' tables are lists of their rows.
LEMMA TablesAre ==
  /\ CUSTOMER_TRUTH_MAP \in Seq(Elements(CUSTOMER_TRUTH_MAP))
  /\ OBJECTION_LABELS \in Seq(Elements(OBJECTION_LABELS))
  /\ MOMENT_KINDS \in Seq(Elements(MOMENT_KINDS))
  /\ ABSENCES \in Seq(Elements(ABSENCES))
<1>1. CUSTOMER_TRUTH_MAP \in Seq({
              CUSTOMER_TRUTH_MAP[1], CUSTOMER_TRUTH_MAP[2], CUSTOMER_TRUTH_MAP[3], CUSTOMER_TRUTH_MAP[4],
              CUSTOMER_TRUTH_MAP[5], CUSTOMER_TRUTH_MAP[6], CUSTOMER_TRUTH_MAP[7], CUSTOMER_TRUTH_MAP[8],
              CUSTOMER_TRUTH_MAP[9], CUSTOMER_TRUTH_MAP[10]})
  BY DEF CUSTOMER_TRUTH_MAP
<1>2. OBJECTION_LABELS \in Seq({
              OBJECTION_LABELS[1], OBJECTION_LABELS[2], OBJECTION_LABELS[3], OBJECTION_LABELS[4],
              OBJECTION_LABELS[5], OBJECTION_LABELS[6], OBJECTION_LABELS[7]})
  BY DEF OBJECTION_LABELS
<1>3. MOMENT_KINDS \in Seq({
              MOMENT_KINDS[1], MOMENT_KINDS[2], MOMENT_KINDS[3], MOMENT_KINDS[4],
              MOMENT_KINDS[5], MOMENT_KINDS[6], MOMENT_KINDS[7], MOMENT_KINDS[8],
              MOMENT_KINDS[9]})
  BY DEF MOMENT_KINDS
<1>4. ABSENCES \in Seq({ABSENCES[1], ABSENCES[2], ABSENCES[3]})
  BY DEF ABSENCES
<1> QED BY <1>1, <1>2, <1>3, <1>4, OfItsElements

\* The titles a candidate can have.
Wording ==
  {row[2] : row \in Elements(CUSTOMER_TRUTH_MAP) \cup Elements(OBJECTION_LABELS)
                    \cup Elements(MOMENT_KINDS) \cup Elements(ABSENCES)}
  \cup LabelsRead \cup DIMENSIONS
  \cup {"emotion", "seller", "customer", "next meeting", "recap", "overstated intent", "no commitment",
        "competitor", "budget", "explicit rejection", "rival", "unnamed"}

\* What an extractor may propose.
Cand == [type : InsightType, title : Wording, status : EvidenceStatus, ids : Seq(Nat),
         required : SpeakerRole \cup {"none"}, quote : {"none"}, sure : BOOLEAN]

\* A candidate that cites segments is one of the candidates.
LEMMA CiteIs ==
  ASSUME NEW type \in InsightType, NEW title \in Wording, NEW ids \in Seq(Nat),
         NEW required \in SpeakerRole \cup {"none"}
  PROVE  Cite(type, title, ids, required) \in Cand
BY DEF Cite, Cand, EvidenceStatus

\* A candidate that reports an absence is one of the candidates.
LEMMA AbsentIs ==
  ASSUME NEW type \in InsightType, NEW title \in Wording
  PROVE  Absent(type, title) \in Cand
<1>1. <<>> \in Seq(Nat)
  BY EmptySeq
<1>2. Absent(type, title) = [type |-> type, title |-> title, status |-> "ABSENCE_BASED", ids |-> <<>>,
                             required |-> "none", quote |-> "none", sure |-> TRUE]
  <2> DEFINE c == Cite(type, title, <<>>, "none")
  <2>1. c = [type |-> type, title |-> title, status |-> "SUPPORTED", ids |-> <<>>,
             required |-> "none", quote |-> "none", sure |-> TRUE]
    BY DEF Cite
  <2>2. Absent(type, title) = [c EXCEPT !.status = "ABSENCE_BASED"]
    BY DEF Absent
  <2> HIDE DEF c
  <2> QED BY <2>1, <2>2
<1> QED BY <1>1, <1>2 DEF Cand, EvidenceStatus

\* Candidate c is what row k of the map makes of segment i.
IsTruth(segs, i, k, c) ==
  /\ Scores(segs, i, CUSTOMER_TRUTH_MAP[k][1])
  /\ c = Cite("CUSTOMER_FACT", CUSTOMER_TRUTH_MAP[k][2], <<i>>, "customer")

\* The customer truths are those of each customer segment and each row that it
\* scores.
LEMMA TruthsAre ==
  ASSUME NEW segs \in Seq(SegmentView)
  PROVE  /\ extract_customer_truth(segs) \in Seq(Cand)
         /\ \A c : c \in Elements(extract_customer_truth(segs))
                    <=> \E i \in By(segs, "customer"), k \in DOMAIN CUSTOMER_TRUTH_MAP : IsTruth(segs, i, k, c)
<1> DEFINE cust == customer_segments(segs)
           table == CUSTOMER_TRUTH_MAP
           Cell(i, row) == Where(Scores(segs, i, row[1]), Cite("CUSTOMER_FACT", row[2], <<i>>, "customer"))
           grid == [n \in DOMAIN cust |-> [k \in DOMAIN table |-> Cell(cust[n], table[k])]]
           found == extract_customer_truth(segs)
<1>1. /\ cust \in Seq(DOMAIN segs) /\ Elements(cust) = By(segs, "customer") /\ DOMAIN segs \subseteq Nat
      /\ table \in Seq(Elements(table))
  BY SpokenByHolds, TablesAre DEF customer_segments
<1>2. ASSUME NEW i \in Nat, NEW k \in DOMAIN table
      PROVE  /\ Cell(i, table[k]) \in Seq(Cand)
             /\ \A c : c \in Elements(Cell(i, table[k])) <=> IsTruth(segs, i, k, c)
  <2>1. table[k] \in Elements(CUSTOMER_TRUTH_MAP)
    BY DEF Elements
  <2>2. table[k][2] \in Wording
    BY <2>1 DEF Wording
  <2>3. "CUSTOMER_FACT" \in InsightType /\ "customer" \in SpeakerRole
    BY DEF InsightType, SpeakerRole
  <2>4. Cite("CUSTOMER_FACT", table[k][2], <<i>>, "customer") \in Cand
    <3>1. <<i>> \in Seq(Nat)
      OBVIOUS
    <3> QED BY <2>2, <2>3, <3>1, CiteIs
  <2>5. OneOf(Scores(segs, i, table[k][1]), Cite("CUSTOMER_FACT", table[k][2], <<i>>, "customer"), Cand, Cell(i, table[k]))
    BY <2>4, WhereIsOne
  <2> HIDE DEF Cell
  <2> QED BY <2>5 DEF OneOf, IsTruth
<1>3. found = SE!FlattenSeq([n \in DOMAIN cust |-> SE!FlattenSeq([k \in DOMAIN table |-> Cell(cust[n], table[k])])])
  BY Zenon DEF extract_customer_truth, ForEach
<1> HIDE DEF Cell, table, cust, found
<1>4. /\ \A n \in DOMAIN cust : grid[n] = [k \in DOMAIN table |-> grid[n][k]]
      /\ \A n \in DOMAIN cust, k \in DOMAIN table : grid[n][k] = Cell(cust[n], table[k])
      /\ \A n \in DOMAIN cust : grid[n] = [k \in DOMAIN table |-> Cell(cust[n], table[k])]
  OBVIOUS
<1> HIDE DEF grid
<1>5. found = SE!FlattenSeq([n \in DOMAIN cust |-> SE!FlattenSeq(grid[n])])
  <2>1. [n \in DOMAIN cust |-> SE!FlattenSeq([k \in DOMAIN table |-> Cell(cust[n], table[k])])]
        = [n \in DOMAIN cust |-> SE!FlattenSeq(grid[n])]
    BY <1>4
  <2> QED BY <1>3, <2>1, Zenon
<1>6. \A n \in DOMAIN cust : cust[n] \in Nat
  BY <1>1
<1>7. \A n \in DOMAIN cust, k \in DOMAIN table : grid[n][k] \in Seq(Cand)
  BY <1>2, <1>4, <1>6
<1>8. CollectsAll(DOMAIN cust, DOMAIN table, grid, Cand, found)
  BY <1>1, <1>4, <1>5, <1>7, GridCollects
<1>9. \A i : i \in By(segs, "customer") <=> \E n \in DOMAIN cust : i = cust[n]
  BY <1>1, Zenon DEF Elements
<1>10. ASSUME NEW c
       PROVE  c \in Elements(found) <=> \E i \in By(segs, "customer"), k \in DOMAIN table : IsTruth(segs, i, k, c)
  <2>1. c \in Elements(found) <=> \E n \in DOMAIN cust, k \in DOMAIN table : c \in Elements(grid[n][k])
    BY <1>8 DEF CollectsAll
  <2>2. \A n \in DOMAIN cust, k \in DOMAIN table : c \in Elements(grid[n][k]) <=> IsTruth(segs, cust[n], k, c)
    BY <1>2, <1>4, <1>6
  <2> QED BY <1>9, <2>1, <2>2
<1> QED BY <1>8, <1>10 DEF found, table, CollectsAll

\* The first of the places that is in yes, 0 for none.
FirstOf(places, yes) == IF Among(places, yes) = <<>> THEN 0 ELSE Among(places, yes)[1]

\* The first place that passes is one of them, and none means that none passes.
LEMMA FirstOfHolds ==
  ASSUME NEW D, D \subseteq Nat \ {0}, NEW places \in Seq(D), NEW yes
  PROVE  /\ FirstOf(places, yes) # 0 => FirstOf(places, yes) \in Elements(places) /\ FirstOf(places, yes) \in yes
         /\ FirstOf(places, yes) = 0 => \A i \in Elements(places) : i \notin yes
<1> DEFINE found == Among(places, yes)
<1>1. /\ found \in Seq(D)
      /\ \A x : x \in Elements(found) <=> x \in Elements(places) /\ x \in yes
  BY AmongHolds
<1> HIDE DEF found
<1>2. CASE found = <<>>
  BY <1>1, <1>2, EmptyHolds DEF FirstOf, found
<1>3. CASE found # <<>>
  <2>1. Len(found) \in Nat \ {0} /\ DOMAIN found = 1..Len(found)
    BY <1>1, <1>3, EmptySeq, LenProperties
  <2>2. 1 \in DOMAIN found
    BY <2>1
  <2>3. found[1] \in Elements(found) /\ found[1] \in D
    BY <1>1, <2>2 DEF Elements
  <2>4. FirstOf(places, yes) = found[1]
    BY <1>3 DEF FirstOf, found
  <2> QED BY <1>1, <2>3, <2>4
<1> QED BY <1>2, <1>3

\* The maximum of some strengths is one of them and the greatest.
LEMMA TopOf ==
  ASSUME NEW S, S \subseteq 0..2, S # {}
  PROVE  FS!Max(S) \in S /\ \A y \in S : FS!Max(S) >= y
<1>1. \E x \in S : \A y \in S : x >= y
  <2>1. CASE 2 \in S
    BY <2>1
  <2>2. CASE 2 \notin S /\ 1 \in S
    <3>1. \A y \in S : y \in {0, 1}
      BY <2>2
    <3> QED BY <2>2, <3>1
  <2>3. CASE 2 \notin S /\ 1 \notin S
    <3>1. \A y \in S : y = 0
      BY <2>3
    <3>2. 0 \in S
      BY <3>1
    <3> QED BY <3>1, <3>2
  <2> QED BY <2>1, <2>2, <2>3
<1>2. PICK top : top = CHOOSE x \in S : \A y \in S : x >= y
  OBVIOUS
<1>3. FS!Max(S) = top
  BY <1>2 DEF FS!Max
<1>4. top \in S /\ \A y \in S : top >= y
  BY <1>1, <1>2
<1> QED BY <1>3, <1>4

\* How strongly a label scores in these places.
Strengths(segs, places, label) == {0} \cup {segs[places[k]].labels[label] : k \in DOMAIN places}

\* The greatest strength is a strength of one of the places, unless it is 0.
LEMMA StrengthsAre ==
  ASSUME NEW segs \in Seq(SegmentView), NEW places \in Seq(DOMAIN segs), NEW label \in Labels
  PROVE  /\ FS!Max(Strengths(segs, places, label)) \in 0..2
         /\ \A i \in DOMAIN segs : segs[i].labels[label] \in 0..2
         /\ \A i \in Elements(places) : i \in DOMAIN segs /\ segs[i].labels[label] <= FS!Max(Strengths(segs, places, label))
         /\ FS!Max(Strengths(segs, places, label)) # 0 =>
              \E i \in Elements(places) : segs[i].labels[label] = FS!Max(Strengths(segs, places, label))
<1> DEFINE S == Strengths(segs, places, label)
<1>1. \A i \in DOMAIN segs : segs[i].labels[label] \in 0..2
  <2> SUFFICES ASSUME NEW i \in DOMAIN segs PROVE segs[i].labels[label] \in 0..2
    OBVIOUS
  <2>1. segs[i] \in SegmentView
    OBVIOUS
  <2>2. segs[i].labels \in [Labels -> 0..2]
    BY <2>1 DEF SegmentView
  <2> QED BY <2>2
<1>2. \A k \in DOMAIN places : places[k] \in DOMAIN segs
  OBVIOUS
<1>3. S \subseteq 0..2 /\ S # {}
  <2>1. 0 \in S
    BY DEF Strengths
  <2>2. \A y \in S : y = 0 \/ \E k \in DOMAIN places : y = segs[places[k]].labels[label]
    BY DEF Strengths
  <2>3. \A k \in DOMAIN places : segs[places[k]].labels[label] \in 0..2
    BY <1>1, <1>2
  <2> HIDE DEF S
  <2>4. \A y \in S : y \in 0..2
    BY <2>2, <2>3
  <2> QED BY <2>1, <2>4
<1>4. \A i \in Elements(places) : i \in DOMAIN segs /\ segs[i].labels[label] \in S
  BY <1>2 DEF Strengths, Elements
<1>5. \A y \in S : y # 0 => \E i \in Elements(places) : segs[i].labels[label] = y
  BY DEF Strengths, Elements
<1> HIDE DEF S
<1>6. FS!Max(S) \in S /\ \A y \in S : FS!Max(S) >= y
  BY <1>3, TopOf
<1>7. ASSUME NEW i \in Elements(places) PROVE segs[i].labels[label] <= FS!Max(S)
  <2>1. segs[i].labels[label] \in S
    BY <1>4
  <2>2. segs[i].labels[label] \in 0..2 /\ FS!Max(S) \in 0..2 /\ FS!Max(S) >= segs[i].labels[label]
    BY <1>3, <1>6, <2>1
  <2> QED BY <2>2
<1>8. FS!Max(S) \in 0..2
  BY <1>3, <1>6
<1> QED BY <1>1, <1>4, <1>5, <1>6, <1>7, <1>8 DEF S

\* What a search for the best place says.
Found(segs, places, label, best) ==
  /\ best # 0 => best \in Elements(places) /\ best \in DOMAIN segs /\ Scores(segs, best, label)
  /\ best = 0 => \A i \in Elements(places) : ~Scores(segs, i, label)

\* The best segment for a label scores it, and 0 says that none does.
LEMMA BestHolds ==
  ASSUME NEW segs \in Seq(SegmentView), NEW places \in Seq(DOMAIN segs), NEW label \in Labels
  PROVE  /\ Found(segs, places, label, Best(segs, places, label))
         /\ Best(segs, places, label) = 0 <=> FS!Max(Strengths(segs, places, label)) = 0
<1> DEFINE top == FS!Max(Strengths(segs, places, label))
           yes == {i \in DOMAIN segs : segs[i].labels[label] = top}
           best == Best(segs, places, label)
<1>1. /\ top \in 0..2
      /\ \A i \in DOMAIN segs : segs[i].labels[label] \in 0..2
      /\ \A i \in Elements(places) : i \in DOMAIN segs /\ segs[i].labels[label] <= top
      /\ top # 0 => \E i \in Elements(places) : segs[i].labels[label] = top
  BY StrengthsAre
<1>2. Len(segs) \in Nat /\ DOMAIN segs = 1..Len(segs)
  BY LenProperties
<1>3. DOMAIN segs \subseteq Nat \ {0}
  BY <1>2
<1>4. best = IF top = 0 THEN 0 ELSE First(places, LAMBDA i : segs[i].labels[label] = top)
  BY Zenon DEF Best, Strengths
<1>5. First(places, LAMBDA i : segs[i].labels[label] = top) = FirstOf(places, yes)
  <2>1. \A k \in DOMAIN places : places[k] \in DOMAIN segs
    OBVIOUS
  <2> HIDE DEF top
  <2>2. [k \in DOMAIN places |-> Where(segs[places[k]].labels[label] = top, places[k])]
        = [k \in DOMAIN places |-> Where(places[k] \in yes, places[k])]
    <3>1. \A k \in DOMAIN places : (segs[places[k]].labels[label] = top) <=> (places[k] \in yes)
      BY <2>1
    <3> HIDE DEF yes
    <3> QED BY <3>1 DEF Where
  <2> HIDE DEF yes
  <2>3. Selected(places, LAMBDA i : segs[i].labels[label] = top) = Among(places, yes)
    BY <2>2, Zenon DEF Selected, ForEach, Among
  <2> QED BY <2>3 DEF First, FirstOf
<1> HIDE DEF top, yes, best
<1>6. CASE top = 0
  <2>1. best = 0
    BY <1>4, <1>6
  <2>2. ASSUME NEW i \in Elements(places) PROVE ~Scores(segs, i, label)
    <3>1. segs[i].labels[label] \in 0..2 /\ segs[i].labels[label] <= 0
      BY <1>1, <1>6
    <3> QED BY <3>1 DEF Scores, LABEL_THRESHOLD
  <2> QED BY <1>6, <2>1, <2>2 DEF Found, best, top
<1>7. CASE top # 0
  <2>1. best = FirstOf(places, yes)
    BY <1>4, <1>5, <1>7
  <2>2. PICK i \in Elements(places) : i \in yes
    BY <1>1, <1>7 DEF yes
  <2>3. best # 0 /\ best \in Elements(places) /\ best \in yes
    BY <1>3, <2>1, <2>2, FirstOfHolds
  <2>4. best \in DOMAIN segs /\ segs[best].labels[label] = top
    BY <2>3 DEF yes
  <2>5. Scores(segs, best, label)
    BY <1>1, <1>7, <2>4 DEF Scores, LABEL_THRESHOLD
  <2> QED BY <1>7, <2>3, <2>4, <2>5 DEF Found, best, top
<1> QED BY <1>6, <1>7

\* The first segment that says a phrase is one of those searched.
LEMMA FirstSayingHolds ==
  ASSUME NEW segs \in Seq(SegmentView), NEW places \in Seq(DOMAIN segs), NEW phrase,
         FirstSaying(segs, places, phrase) # 0
  PROVE  FirstSaying(segs, places, phrase) \in Elements(places)
<1> DEFINE yes == {i \in DOMAIN segs : phrase \in segs[i].text}
<1>1. Len(segs) \in Nat /\ DOMAIN segs = 1..Len(segs)
  BY LenProperties
<1>2. DOMAIN segs \subseteq Nat \ {0}
  BY <1>1
<1>3. \A k \in DOMAIN places : places[k] \in DOMAIN segs
  OBVIOUS
<1>4. [k \in DOMAIN places |-> Where(phrase \in segs[places[k]].text, places[k])]
      = [k \in DOMAIN places |-> Where(places[k] \in yes, places[k])]
  <2>1. \A k \in DOMAIN places : (phrase \in segs[places[k]].text) <=> (places[k] \in yes)
    BY <1>3
  <2> HIDE DEF yes
  <2> QED BY <2>1 DEF Where
<1> HIDE DEF yes
<1>5. Selected(places, LAMBDA i : phrase \in segs[i].text) = Among(places, yes)
  BY <1>4, Zenon DEF Selected, ForEach, Among
<1>6. FirstSaying(segs, places, phrase) = FirstOf(places, yes)
  BY <1>5 DEF FirstSaying, First, FirstOf
<1> QED BY <1>2, <1>6, FirstOfHolds

\* The best segment for several labels scores one of them, and 0 says that
\* none of the segments scores any.
LEMMA MaxLabelHolds ==
  ASSUME NEW segs \in Seq(SegmentView), NEW places \in Seq(DOMAIN segs),
         NEW labels \in Seq(Labels), labels # <<>>
  PROVE  LET best == MaxLabel(segs, places, labels) IN
         /\ best # 0 => /\ best \in Elements(places) /\ best \in DOMAIN segs
                        /\ \E l \in Elements(labels) : Scores(segs, best, l)
         /\ best = 0 => \A i \in Elements(places), l \in Elements(labels) : ~Scores(segs, i, l)
<1> DEFINE tops == [l \in Elements(labels) |-> FS!Max(Strengths(segs, places, l))]
           levels == {tops[l] : l \in DOMAIN tops}
           top  == FS!Max(levels)
           yes  == {l \in Elements(labels) : tops[l] = top}
           best == MaxLabel(segs, places, labels)
<1>0. \A l \in Elements(labels) : l \in Labels
  BY DEF Elements
<1>1. \A l \in Elements(labels) : tops[l] = FS!Max(Strengths(segs, places, l)) /\ tops[l] \in 0..2
  BY <1>0, StrengthsAre
<1>2. DOMAIN tops = Elements(labels)
  OBVIOUS
<1> HIDE DEF tops
<1>3. levels \subseteq 0..2 /\ levels # {}
  <2>1. 1 \in DOMAIN labels
    <3>1. Len(labels) \in Nat \ {0} /\ DOMAIN labels = 1..Len(labels)
      BY EmptySeq, LenProperties
    <3> QED BY <3>1
  <2>2. labels[1] \in Elements(labels)
    BY <2>1 DEF Elements
  <2> QED BY <1>1, <1>2, <2>2
<1>4. top \in levels /\ \A y \in levels : top >= y
  <2> HIDE DEF levels
  <2> QED BY <1>3, TopOf
<1>5. top \in 0..2 /\ (\A l \in Elements(labels) : top >= tops[l]) /\ \E l \in Elements(labels) : tops[l] = top
  BY <1>2, <1>3, <1>4
<1>6. best = IF top = 0 THEN 0 ELSE Best(segs, places, Selected(labels, LAMBDA l : tops[l] = top)[1])
  BY Zenon DEF MaxLabel, tops, Strengths, SE!ToSet, Elements
<1> HIDE DEF top, levels
<1>7. Selected(labels, LAMBDA l : tops[l] = top) = Among(labels, yes)
  <2>1. \A k \in DOMAIN labels : labels[k] \in Elements(labels)
    BY DEF Elements
  <2>2. \A k \in DOMAIN labels : (tops[labels[k]] = top) <=> (labels[k] \in yes)
    BY <2>1
  <2> HIDE DEF yes
  <2>3. [k \in DOMAIN labels |-> Where(tops[labels[k]] = top, labels[k])]
        = [k \in DOMAIN labels |-> Where(labels[k] \in yes, labels[k])]
    BY <2>2 DEF Where
  <2> QED BY <2>3, Zenon DEF Selected, ForEach, Among
<1>8. CASE top = 0
  <2>1. ASSUME NEW i \in Elements(places), NEW l \in Elements(labels) PROVE ~Scores(segs, i, l)
    <3>1. tops[l] \in 0..2 /\ 0 >= tops[l]
      BY <1>1, <1>5, <1>8
    <3>2. FS!Max(Strengths(segs, places, l)) = 0
      BY <1>1, <3>1
    <3>3. Best(segs, places, l) = 0 /\ Found(segs, places, l, Best(segs, places, l))
      BY <1>0, <3>2, BestHolds
    <3> QED BY <3>3 DEF Found
  <2> QED BY <1>6, <1>8, <2>1
<1>9. CASE top # 0
  <2> DEFINE chosen == Among(labels, yes)
  <2>1. /\ chosen \in Seq(Labels)
        /\ \A x : x \in Elements(chosen) <=> x \in Elements(labels) /\ x \in yes
    BY AmongHolds
  <2>2. PICK l \in Elements(labels) : l \in yes
    BY <1>5
  <2> HIDE DEF chosen
  <2>3. chosen[1] \in Elements(chosen)
    <3>1. Elements(chosen) # {}
      BY <2>1, <2>2
    <3>2. chosen # <<>>
      BY <3>1, EmptyHolds
    <3>3. Len(chosen) \in Nat \ {0} /\ DOMAIN chosen = 1..Len(chosen)
      BY <2>1, <3>2, EmptySeq, LenProperties
    <3>4. 1 \in DOMAIN chosen
      BY <3>3
    <3> QED BY <3>4 DEF Elements
  <2>4. chosen[1] \in Elements(labels) /\ tops[chosen[1]] = top
    BY <2>1, <2>3
  <2>5. best = Best(segs, places, chosen[1])
    BY <1>6, <1>7, <1>9 DEF chosen
  <2>6. FS!Max(Strengths(segs, places, chosen[1])) # 0
    BY <1>1, <1>9, <2>4
  <2>7. best # 0 /\ Found(segs, places, chosen[1], best)
    BY <1>0, <2>4, <2>5, <2>6, BestHolds
  <2> QED BY <2>4, <2>7 DEF Found
<1> QED BY <1>8, <1>9

\* The dimensions that buying intent shows.
Shown(segs, dimension) == \E d \in Elements(Intent(segs)) : d[1] = dimension /\ d[2] # 0

\* The deal killers a customer names, the others being absences.
OBSTACLES == {"explicit rejection", "security blocker", "budget blocker", "technical blocker", "competitor mention"}

\* What the words of some candidates say of the segments they cite.
Telling == {"COMMITMENT", "QUALIFICATION_SIGNAL", "REALITY_CHECK", "DEAL_RISK", "OBJECTION"}

\* What the type and the title of a candidate promise of the segments it cites.
Means(segs, c) ==
  /\ c.type = "COMMITMENT" =>
       /\ c.title = "seller" => c.required = "seller"
       /\ c.title = "next meeting" =>
            c.required = "customer" /\ \A n \in DOMAIN c.ids : Scores(segs, c.ids[n], "next meeting commitment")
       /\ c.status = "SUPPORTED"
  /\ c.type = "QUALIFICATION_SIGNAL" =>
       /\ c.title \in DIMENSIONS
       /\ c.status = "SUPPORTED" <=> Shown(segs, c.title)
       /\ c.status = "SUPPORTED" => c.required = "customer"
       /\ c.status = "SUPPORTED" /\ c.title = "business_impact_identified" =>
            \A n \in DOMAIN c.ids : "quantified" \in segs[c.ids[n]].text
  /\ c.type = "REALITY_CHECK" /\ c.title = "no commitment" =>
       c.ids[2] \in By(segs, "customer") /\ ~Scores(segs, c.ids[2], "next meeting commitment")
  /\ c.type = "DEAL_RISK" =>
       /\ c.title \in OBSTACLES <=> c.status = "SUPPORTED"
       /\ c.title \in OBSTACLES \cup {ABSENCES[k][2] : k \in DOMAIN ABSENCES}
       /\ c.title = "security blocker" => \E i \in By(segs, "customer") : Scores(segs, i, "security blocker")
  /\ c.type = "OBJECTION" => c.title # "no_next_meeting"

\* What an extractor's candidate stands on.
Backs(segs, c) ==
  /\ c.quote = None
  /\ c.status \in {"SUPPORTED", "ABSENCE_BASED"}
  /\ c.type \in CUSTOMER_ONLY_TYPES => c.required = "customer"
  /\ c.status = "SUPPORTED" =>
       /\ c.ids # <<>>
       /\ \A n \in DOMAIN c.ids :
            c.ids[n] \in DOMAIN segs /\ c.required \in {None, segs[c.ids[n]].role}
  /\ c.status = "ABSENCE_BASED" /\ c.title \in DOMAIN LabelOf =>
       \A i \in By(segs, "customer") : ~Scores(segs, i, LabelOf[c.title])
  /\ Means(segs, c)

\* The candidates a call's segments back.
Backed(segs) == {c \in Cand : Backs(segs, c)}

\* The segments of a call are numbered.
LEMMA PlacesAreNat ==
  ASSUME NEW segs \in Seq(SegmentView)
  PROVE  DOMAIN segs \subseteq Nat
<1>1. Len(segs) \in Nat /\ DOMAIN segs = 1..Len(segs)
  BY LenProperties
<1> QED BY <1>1

\* A candidate on segments of the side it asks for is backed when it means what
\* it says.
LEMMA CiteBacked ==
  ASSUME NEW segs \in Seq(SegmentView), NEW type \in InsightType, NEW title \in Wording,
         NEW ids \in Seq(DOMAIN segs), ids # <<>>,
         NEW required \in SpeakerRole \cup {"none"},
         type \in CUSTOMER_ONLY_TYPES => required = "customer",
         \A n \in DOMAIN ids : required \in {"none", segs[ids[n]].role},
         Means(segs, Cite(type, title, ids, required))
  PROVE  Cite(type, title, ids, required) \in Backed(segs)
<1> DEFINE c == Cite(type, title, ids, required)
<1>1. ids \in Seq(Nat)
  BY PlacesAreNat
<1>2. c \in Cand
  BY <1>1, CiteIs
<1>3. c.quote = "none" /\ c.status = "SUPPORTED" /\ c.ids = ids /\ c.required = required /\ c.type = type
  BY DEF Cite
<1>4. Means(segs, c) /\ \A n \in DOMAIN ids : ids[n] \in DOMAIN segs
  OBVIOUS
<1> HIDE DEF c
<1>5. Backs(segs, c)
  BY <1>3, <1>4 DEF Backs, None
<1> QED BY <1>2, <1>5 DEF Backed, c

\* A candidate on one segment, spoken by the side it asks for.
LEMMA OneBacked ==
  ASSUME NEW segs \in Seq(SegmentView), NEW type \in InsightType, NEW title \in Wording,
         NEW i \in DOMAIN segs, NEW required \in SpeakerRole \cup {"none"},
         type \in CUSTOMER_ONLY_TYPES => required = "customer",
         required \in {"none", segs[i].role},
         type \in Telling => Means(segs, Cite(type, title, <<i>>, required))
  PROVE  Cite(type, title, <<i>>, required) \in Backed(segs)
<1>1. <<i>> \in Seq(DOMAIN segs) /\ <<i>> # <<>> /\ \A n \in DOMAIN <<i>> : <<i>>[n] = i
  OBVIOUS
<1>2. \A n \in DOMAIN <<i>> : required \in {"none", segs[<<i>>[n]].role}
  BY <1>1
<1>3. Means(segs, Cite(type, title, <<i>>, required))
  <2>1. CASE type \in Telling
    BY <2>1
  <2>2. CASE type \notin Telling
    <3> DEFINE c == Cite(type, title, <<i>>, required)
    <3>1. c.type = type
      BY DEF Cite
    <3> HIDE DEF c
    <3>2. Means(segs, c)
      BY <2>2, <3>1 DEF Means, Telling
    <3> QED BY <3>2 DEF c
  <2> QED BY <2>1, <2>2
<1> QED BY <1>1, <1>2, <1>3, CiteBacked

\* What a report of an absence says.
LEMMA AbsentSays ==
  ASSUME NEW type, NEW title
  PROVE  LET c == Absent(type, title) IN
         /\ c.quote = "none" /\ c.status = "ABSENCE_BASED" /\ c.type = type /\ c.title = title /\ c.ids = <<>>
<1> DEFINE c == Absent(type, title)
           d == Cite(type, title, <<>>, "none")
<1>1. d = [type |-> type, title |-> title, status |-> "SUPPORTED", ids |-> <<>>,
           required |-> "none", quote |-> "none", sure |-> TRUE]
  BY DEF Cite
<1>2. c = [d EXCEPT !.status = "ABSENCE_BASED"]
  BY DEF Absent
<1> HIDE DEF d, c
<1>3. c.quote = "none" /\ c.status = "ABSENCE_BASED" /\ c.type = type /\ c.title = title /\ c.ids = <<>>
  BY <1>1, <1>2
<1> QED BY <1>3 DEF c

\* An absence is backed when no customer scores the label it is about.
LEMMA AbsentBacked ==
  ASSUME NEW segs \in Seq(SegmentView), NEW type \in InsightType, NEW title \in Wording,
         type \notin CUSTOMER_ONLY_TYPES, Means(segs, Absent(type, title)),
         title \in DOMAIN LabelOf => \A i \in By(segs, "customer") : ~Scores(segs, i, LabelOf[title])
  PROVE  Absent(type, title) \in Backed(segs)
<1> DEFINE c == Absent(type, title)
<1>1. c \in Cand
  BY AbsentIs
<1>2. c.quote = "none" /\ c.status = "ABSENCE_BASED" /\ c.type = type /\ c.title = title
  BY AbsentSays
<1>3. Means(segs, c)
  OBVIOUS
<1> HIDE DEF c
<1>4. Backs(segs, c)
  BY <1>2, <1>3 DEF Backs, None
<1> QED BY <1>1, <1>4 DEF Backed, c

\* A condition's candidate, a concatenation and a loop of backed candidates.
LEMMA WhereIn ==
  ASSUME NEW T, NEW c, NEW x, c => x \in T
  PROVE  Where(c, x) \in Seq(T)
<1>1. CASE c
  BY <1>1 DEF Where
<1>2. CASE ~c
  BY <1>2, EmptySeq DEF Where
<1> QED BY <1>1, <1>2

\* A concatenation of lists of some kind is one.
LEMMA ConcatIn ==
  ASSUME NEW T, NEW s \in Seq(T), NEW t \in Seq(T)
  PROVE  s \o t \in Seq(T)
OBVIOUS

\* A loop that adds elements of some kind makes a list of that kind.
LEMMA LoopIn ==
  ASSUME NEW T, NEW S, NEW seq \in Seq(S), NEW parts, parts = [k \in DOMAIN seq |-> parts[k]],
         \A k \in DOMAIN seq : parts[k] \in Seq(T)
  PROVE  SE!FlattenSeq(parts) \in Seq(T)
BY LoopCollects DEF Collects

\* s holds a candidate of a type, with one of some titles.
Proposes(s, type, titles) == \E c \in Elements(s) : c.type = type /\ c.title \in titles

\* What is proposed by a part is proposed by the whole.
LEMMA WhereProposes ==
  ASSUME NEW c, NEW x, c, NEW type, NEW titles, x.type = type, x.title \in titles
  PROVE  Proposes(Where(c, x), type, titles)
<1>1. Where(c, x) = <<x>>
  BY DEF Where
<1>2. x \in Elements(<<x>>)
  BY SingleHolds
<1> QED BY <1>1, <1>2 DEF Proposes

\* A concatenation proposes what its parts propose.
LEMMA ConcatProposes ==
  ASSUME NEW T, NEW s \in Seq(T), NEW t \in Seq(T), NEW type, NEW titles
  PROVE  Proposes(s, type, titles) \/ Proposes(t, type, titles) => Proposes(s \o t, type, titles)
<1>1. Elements(s \o t) = Elements(s) \cup Elements(t)
  BY ConcatElements
<1> QED BY <1>1 DEF Proposes

\* A loop proposes what each round does.
LEMMA LoopProposes ==
  ASSUME NEW T, NEW S, NEW seq \in Seq(S), NEW parts, parts = [k \in DOMAIN seq |-> parts[k]],
         \A k \in DOMAIN seq : parts[k] \in Seq(T),
         NEW k \in DOMAIN seq, NEW type, NEW titles, Proposes(parts[k], type, titles)
  PROVE  Proposes(SE!FlattenSeq(parts), type, titles)
<1>1. Collects(DOMAIN seq, parts, T, SE!FlattenSeq(parts))
  BY LoopCollects
<1>2. PICK c \in Elements(parts[k]) : c.type = type /\ c.title \in titles
  BY DEF Proposes
<1>3. c \in Elements(SE!FlattenSeq(parts))
  BY <1>1, <1>2 DEF Collects
<1> QED BY <1>2, <1>3 DEF Proposes

\* The segments of the customer and of the seller.
LEMMA CustomersAre ==
  ASSUME NEW segs \in Seq(SegmentView)
  PROVE  /\ customer_segments(segs) \in Seq(By(segs, "customer"))
         /\ seller_segments(segs) \in Seq(By(segs, "seller"))
         /\ By(segs, "customer") \subseteq DOMAIN segs
         /\ By(segs, "seller") \subseteq DOMAIN segs
         /\ \A i \in By(segs, "customer") : segs[i].role = "customer"
         /\ \A i \in By(segs, "seller") : segs[i].role = "seller"
         /\ Elements(customer_segments(segs)) = By(segs, "customer")
         /\ Elements(seller_segments(segs)) = By(segs, "seller")
<1>1. ASSUME NEW role PROVE SpokenBy(segs, role) \in Seq(By(segs, role))
  <2>1. SpokenBy(segs, role) \in Seq(DOMAIN segs) /\ Elements(SpokenBy(segs, role)) = By(segs, role)
    BY SpokenByHolds
  <2>2. SpokenBy(segs, role) \in Seq(Elements(SpokenBy(segs, role)))
    BY <2>1, OfItsElements
  <2> QED BY <2>1, <2>2
<1> QED BY <1>1, SpokenByHolds DEF customer_segments, seller_segments, By

\* What the customer is said to have said, a customer said.
LEMMA TruthsAreBacked ==
  ASSUME NEW segs \in Seq(SegmentView)
  PROVE  extract_customer_truth(segs) \in Seq(Backed(segs))
<1> DEFINE cust == customer_segments(segs)
           table == CUSTOMER_TRUTH_MAP
           Cell(i, row) == Where(Scores(segs, i, row[1]), Cite("CUSTOMER_FACT", row[2], <<i>>, "customer"))
           Line(i) == SE!FlattenSeq([k \in DOMAIN table |-> Cell(i, table[k])])
           lines == [n \in DOMAIN cust |-> Line(cust[n])]
<1>1. /\ cust \in Seq(By(segs, "customer")) /\ By(segs, "customer") \subseteq DOMAIN segs
      /\ \A i \in By(segs, "customer") : segs[i].role = "customer"
      /\ table \in Seq(Elements(table))
  BY CustomersAre, TablesAre
<1>2. ASSUME NEW i \in By(segs, "customer"), NEW k \in DOMAIN table
      PROVE  Cell(i, table[k]) \in Seq(Backed(segs))
  <2>1. table[k] \in Elements(CUSTOMER_TRUTH_MAP)
    BY DEF Elements
  <2>2. table[k][2] \in Wording
    BY <2>1 DEF Wording
  <2>3. /\ "CUSTOMER_FACT" \in InsightType /\ "customer" \in SpeakerRole \cup {"none"} /\ i \in DOMAIN segs
        /\ "CUSTOMER_FACT" \notin Telling
    BY <1>1 DEF InsightType, SpeakerRole, Telling
  <2>4. Cite("CUSTOMER_FACT", table[k][2], <<i>>, "customer") \in Backed(segs)
    BY <1>1, <2>2, <2>3, OneBacked
  <2> QED BY <2>4, WhereIn
<1>3. extract_customer_truth(segs) = SE!FlattenSeq(lines)
  BY Zenon DEF extract_customer_truth, ForEach
<1>4. ASSUME NEW i \in By(segs, "customer") PROVE Line(i) \in Seq(Backed(segs))
  <2> DEFINE parts == [k \in DOMAIN table |-> Cell(i, table[k])]
  <2>1. \A k \in DOMAIN table : parts[k] \in Seq(Backed(segs))
    BY <1>2
  <2>2. parts = [k \in DOMAIN table |-> parts[k]]
    OBVIOUS
  <2>3. Line(i) = SE!FlattenSeq(parts)
    OBVIOUS
  <2> HIDE DEF parts, Line, table
  <2> QED BY <1>1, <2>1, <2>2, <2>3, LoopIn
<1>5. \A n \in DOMAIN cust : lines[n] \in Seq(Backed(segs))
  BY <1>1, <1>4
<1>6. lines = [n \in DOMAIN cust |-> lines[n]]
  OBVIOUS
<1> HIDE DEF lines, cust
<1> QED BY <1>1, <1>3, <1>5, <1>6, LoopIn

\* An objection was raised by the customer.
LEMMA ObjectionsAreBacked ==
  ASSUME NEW segs \in Seq(SegmentView)
  PROVE  extract_objections(segs) \in Seq(Backed(segs))
<1> DEFINE cust == customer_segments(segs)
           table == OBJECTION_LABELS
           Cell(i, row) == IF Scores(segs, i, row[1])
                            THEN << Cite("OBJECTION", row[2], <<i>>, "customer"),
                                    Cite("COACHING", row[2], <<i>>, "customer") >>
                            ELSE <<>>
           Line(i) == SE!FlattenSeq([k \in DOMAIN table |-> Cell(i, table[k])])
           lines == [n \in DOMAIN cust |-> Line(cust[n])]
<1>1. /\ cust \in Seq(By(segs, "customer")) /\ By(segs, "customer") \subseteq DOMAIN segs
      /\ \A i \in By(segs, "customer") : segs[i].role = "customer"
      /\ table \in Seq(Elements(table))
  BY CustomersAre, TablesAre
<1>2. ASSUME NEW i \in By(segs, "customer"), NEW k \in DOMAIN table
      PROVE  Cell(i, table[k]) \in Seq(Backed(segs))
  <2>1. table[k] \in Elements(OBJECTION_LABELS)
    BY DEF Elements
  <2>2. table[k][2] \in Wording
    BY <2>1 DEF Wording
  <2>3. /\ "OBJECTION" \in InsightType /\ "COACHING" \in InsightType
        /\ "OBJECTION" \notin CUSTOMER_ONLY_TYPES /\ "COACHING" \notin CUSTOMER_ONLY_TYPES \cup Telling
        /\ "customer" \in SpeakerRole \cup {"none"} /\ i \in DOMAIN segs
    BY <1>1 DEF InsightType, SpeakerRole, CUSTOMER_ONLY_TYPES, Telling
  <2> DEFINE objection == Cite("OBJECTION", table[k][2], <<i>>, "customer")
             coaching == Cite("COACHING", table[k][2], <<i>>, "customer")
  <2>4. table[k][2] # "no_next_meeting"
    <3>1. k \in 1..7
      BY DEF OBJECTION_LABELS
    <3>2. /\ OBJECTION_LABELS[1][2] # "no_next_meeting" /\ OBJECTION_LABELS[2][2] # "no_next_meeting"
          /\ OBJECTION_LABELS[3][2] # "no_next_meeting" /\ OBJECTION_LABELS[4][2] # "no_next_meeting"
          /\ OBJECTION_LABELS[5][2] # "no_next_meeting" /\ OBJECTION_LABELS[6][2] # "no_next_meeting"
          /\ OBJECTION_LABELS[7][2] # "no_next_meeting"
      BY DEF OBJECTION_LABELS
    <3>3. k = 1 \/ k = 2 \/ k = 3 \/ k = 4 \/ k = 5 \/ k = 6 \/ k = 7
      BY <3>1
    <3> HIDE DEF table
    <3> QED
      <4>1. OBJECTION_LABELS[k][2] # "no_next_meeting"
        BY Zenon, <3>2, <3>3
      <4> QED BY <4>1 DEF table
  <2>5. Means(segs, objection)
    BY <2>4 DEF Means, Cite
  <2>6. objection \in Backed(segs) /\ coaching \in Backed(segs)
    BY <1>1, <2>5, <2>2, <2>3, OneBacked
  <2>7. Cell(i, table[k]) = IF Scores(segs, i, table[k][1]) THEN <<objection, coaching>> ELSE <<>>
    OBVIOUS
  <2> HIDE DEF objection, coaching, Cell
  <2>8. <<objection, coaching>> \in Seq(Backed(segs)) /\ <<>> \in Seq(Backed(segs))
    BY <2>6, EmptySeq
  <2> QED BY <2>7, <2>8
<1>3. extract_objections(segs) = SE!FlattenSeq(lines)
  BY Zenon DEF extract_objections, ForEach
<1>4. ASSUME NEW i \in By(segs, "customer") PROVE Line(i) \in Seq(Backed(segs))
  <2> DEFINE parts == [k \in DOMAIN table |-> Cell(i, table[k])]
  <2>1. \A k \in DOMAIN table : parts[k] \in Seq(Backed(segs))
    BY <1>2
  <2>2. parts = [k \in DOMAIN table |-> parts[k]]
    OBVIOUS
  <2>3. Line(i) = SE!FlattenSeq(parts)
    OBVIOUS
  <2> HIDE DEF parts, Line, table
  <2> QED BY <1>1, <2>1, <2>2, <2>3, LoopIn
<1>5. \A n \in DOMAIN cust : lines[n] \in Seq(Backed(segs))
  BY <1>1, <1>4
<1>6. lines = [n \in DOMAIN cust |-> lines[n]]
  OBVIOUS
<1> HIDE DEF lines, cust
<1> QED BY <1>1, <1>3, <1>5, <1>6, LoopIn

\* A moment is one of the call's segments.
LEMMA MomentsAreBacked ==
  ASSUME NEW segs \in Seq(SegmentView)
  PROVE  extract_moments(segs) \in Seq(Backed(segs))
<1> DEFINE places == Places(segs)
           table == MOMENT_KINDS
           Cell(i, row) == Where(Scores(segs, i, row[1]), Cite("CALL_MOMENT", row[2], <<i>>, "none"))
           Line(i) == SE!FlattenSeq([k \in DOMAIN table |-> Cell(i, table[k])])
           lines == [n \in DOMAIN places |-> Line(places[n])]
<1>1. /\ places \in Seq(DOMAIN segs)
      /\ table \in Seq(Elements(table))
  BY PlacesHolds, TablesAre
<1>2. ASSUME NEW i \in DOMAIN segs, NEW k \in DOMAIN table
      PROVE  Cell(i, table[k]) \in Seq(Backed(segs))
  <2>1. table[k] \in Elements(MOMENT_KINDS)
    BY DEF Elements
  <2>2. table[k][2] \in Wording
    BY <2>1 DEF Wording
  <2>3. "CALL_MOMENT" \in InsightType /\ "CALL_MOMENT" \notin CUSTOMER_ONLY_TYPES \cup Telling
    BY DEF InsightType, CUSTOMER_ONLY_TYPES, Telling
  <2>4. Cite("CALL_MOMENT", table[k][2], <<i>>, "none") \in Backed(segs)
    BY <2>2, <2>3, OneBacked
  <2> QED BY <2>4, WhereIn
<1>3. extract_moments(segs) = SE!FlattenSeq(lines)
  BY Zenon DEF extract_moments, ForEach
<1>4. ASSUME NEW i \in DOMAIN segs PROVE Line(i) \in Seq(Backed(segs))
  <2> DEFINE parts == [k \in DOMAIN table |-> Cell(i, table[k])]
  <2>1. \A k \in DOMAIN table : parts[k] \in Seq(Backed(segs))
    BY <1>2
  <2>2. parts = [k \in DOMAIN table |-> parts[k]]
    OBVIOUS
  <2>3. Line(i) = SE!FlattenSeq(parts)
    OBVIOUS
  <2> HIDE DEF parts, Line, table
  <2> QED BY <1>1, <2>1, <2>2, <2>3, LoopIn
<1>5. \A n \in DOMAIN places : lines[n] \in Seq(Backed(segs))
  BY <1>1, <1>4
<1>6. lines = [n \in DOMAIN places |-> lines[n]]
  OBVIOUS
<1> HIDE DEF lines, places
<1> QED BY <1>1, <1>3, <1>5, <1>6, LoopIn

\* A sentiment shift is one of the customer's segments.
LEMMA SentimentIsBacked ==
  ASSUME NEW segs \in Seq(SegmentView), NEW axes
  PROVE  extract_sentiment(segs, axes) \in Seq(Backed(segs))
<1> DEFINE cust == customer_segments(segs)
           Cited(i) == Cite("SENTIMENT_POINT", "emotion", <<i>>, "customer")
           Point(i) == [Cited(i) EXCEPT !.sure = axes[i] = "strong"]
           Line(i) == Where(axes[i] # "none", Point(i))
           lines == [n \in DOMAIN cust |-> Line(cust[n])]
<1>1. /\ cust \in Seq(By(segs, "customer")) /\ By(segs, "customer") \subseteq DOMAIN segs
      /\ \A i \in By(segs, "customer") : segs[i].role = "customer"
  BY CustomersAre
<1>2. ASSUME NEW i \in By(segs, "customer") PROVE Line(i) \in Seq(Backed(segs))
  <2>1. /\ "emotion" \in Wording /\ "SENTIMENT_POINT" \in InsightType
        /\ "SENTIMENT_POINT" \notin Telling
        /\ "customer" \in SpeakerRole \cup {"none"} /\ i \in DOMAIN segs
    BY <1>1 DEF InsightType, SpeakerRole, Wording, Telling
  <2>2. Cited(i) \in Backed(segs)
    BY <1>1, <2>1, OneBacked
  <2>3. Cited(i) \in Cand /\ Backs(segs, Cited(i))
    BY <2>2 DEF Backed
  <2>4. (axes[i] = "strong") \in BOOLEAN
    OBVIOUS
  <2>5. Point(i) = [Cited(i) EXCEPT !.sure = axes[i] = "strong"]
    OBVIOUS
  <2> HIDE DEF Cited, Point
  <2>6. /\ Point(i) \in Cand /\ Point(i).quote = Cited(i).quote /\ Point(i).status = Cited(i).status
        /\ Point(i).ids = Cited(i).ids /\ Point(i).required = Cited(i).required
        /\ Point(i).type = Cited(i).type /\ Point(i).title = Cited(i).title
    BY <2>3, <2>4, <2>5 DEF Cand
  <2>7. Point(i) \in Backed(segs)
    BY <2>3, <2>6 DEF Backs, Means, Backed
  <2> QED BY <2>7, WhereIn
<1>3. extract_sentiment(segs, axes) = SE!FlattenSeq(lines)
  BY Zenon DEF extract_sentiment, ForEach
<1>4. \A n \in DOMAIN cust : lines[n] \in Seq(Backed(segs))
  BY <1>1, <1>2
<1>5. lines = [n \in DOMAIN cust |-> lines[n]]
  OBVIOUS
<1> HIDE DEF lines, cust
<1> QED BY <1>1, <1>3, <1>4, <1>5, LoopIn

\* A competitor was mentioned in a segment of the call.
LEMMA CompetitorsAreBacked ==
  ASSUME NEW segs \in Seq(SegmentView)
  PROVE  /\ extract_competitors(segs) \in Seq(Backed(segs))
         /\ \A i \in By(segs, "customer") : Scores(segs, i, "competitor mention")
              => Proposes(extract_competitors(segs), "COMPETITOR", {"rival", "unnamed"})
<1> DEFINE cust == customer_segments(segs)
           title(i) == IF "rival" \in segs[i].text THEN "rival" ELSE "unnamed"
           Line(i) == Where("rival" \in segs[i].text \/ Scores(segs, i, "competitor mention"),
                            Cite("COMPETITOR", title(i), <<i>>, "customer"))
           lines == [n \in DOMAIN cust |-> Line(cust[n])]
<1>1. /\ cust \in Seq(By(segs, "customer")) /\ By(segs, "customer") \subseteq DOMAIN segs
      /\ \A i \in By(segs, "customer") : segs[i].role = "customer"
  BY CustomersAre
<1>2. ASSUME NEW i \in By(segs, "customer") PROVE Line(i) \in Seq(Backed(segs))
  <2>1. /\ title(i) \in Wording /\ "COMPETITOR" \in InsightType /\ "COMPETITOR" \notin CUSTOMER_ONLY_TYPES \cup Telling
        /\ "customer" \in SpeakerRole \cup {"none"} /\ i \in DOMAIN segs
    BY <1>1 DEF InsightType, Telling, CUSTOMER_ONLY_TYPES, SpeakerRole, Wording
  <2> HIDE DEF title
  <2>2. Cite("COMPETITOR", title(i), <<i>>, "customer") \in Backed(segs)
    BY <1>1, <2>1, OneBacked
  <2> QED BY <2>2, WhereIn
<1>6. ASSUME NEW i \in By(segs, "customer"), Scores(segs, i, "competitor mention")
      PROVE  Proposes(Line(i), "COMPETITOR", {"rival", "unnamed"})
  <2> DEFINE c == Cite("COMPETITOR", title(i), <<i>>, "customer")
  <2>1. c.type = "COMPETITOR" /\ c.title \in {"rival", "unnamed"}
    BY DEF Cite
  <2> HIDE DEF c
  <2>2. Line(i) = Where("rival" \in segs[i].text \/ Scores(segs, i, "competitor mention"), c)
    BY DEF c
  <2> HIDE DEF Line
  <2> QED BY <1>6, <2>1, <2>2, WhereProposes
<1>3. extract_competitors(segs) = SE!FlattenSeq(lines)
  BY Zenon DEF extract_competitors, ForEach
<1> HIDE DEF Line
<1>4. \A n \in DOMAIN cust : lines[n] \in Seq(Backed(segs))
  BY <1>1, <1>2
<1>5. lines = [n \in DOMAIN cust |-> lines[n]]
  OBVIOUS
<1>7. ASSUME NEW i \in By(segs, "customer"), Scores(segs, i, "competitor mention")
      PROVE  \E n \in DOMAIN cust : Proposes(lines[n], "COMPETITOR", {"rival", "unnamed"})
  <2>1. i \in Elements(cust)
    BY CustomersAre
  <2>2. PICK n \in DOMAIN cust : i = cust[n]
    BY <2>1, Zenon DEF Elements
  <2>3. lines[n] = Line(i)
    BY <2>2
  <2> QED BY <1>6, <1>7, <2>2, <2>3
<1> HIDE DEF lines, cust
<1>8. ASSUME NEW i \in By(segs, "customer"), Scores(segs, i, "competitor mention")
      PROVE  Proposes(extract_competitors(segs), "COMPETITOR", {"rival", "unnamed"})
  <2>1. PICK n \in DOMAIN cust : Proposes(lines[n], "COMPETITOR", {"rival", "unnamed"})
    BY <1>7, <1>8
  <2>2. cust \in Seq(By(segs, "customer"))
    BY <1>1
  <2>3. Proposes(SE!FlattenSeq(lines), "COMPETITOR", {"rival", "unnamed"})
    BY <1>4, <1>5, <2>1, <2>2, LoopProposes
  <2> QED BY <1>3, <2>3, Zenon
<1>9. extract_competitors(segs) \in Seq(Backed(segs))
  BY <1>1, <1>3, <1>4, <1>5, LoopIn
<1> QED BY <1>8, <1>9

\* A commitment was made by the party it is attributed to.
LEMMA CommitmentsAreBacked ==
  ASSUME NEW segs \in Seq(SegmentView), NEW recap \in Seq(Nat),
         \A n \in DOMAIN recap : recap[n] \in {0} \cup DOMAIN segs
  PROVE  /\ extract_commitments(segs, recap) \in Seq(Backed(segs))
         /\ \A i \in By(segs, "customer") : Scores(segs, i, "next meeting commitment")
              => Proposes(extract_commitments(segs, recap), "COMMITMENT", {"next meeting"})
<1> DEFINE places == Places(segs)
           seller(i) == Where(Scores(segs, i, "seller commitment") /\ segs[i].role = "seller",
                              Cite("COMMITMENT", "seller", <<i>>, "seller"))
           customer(i) == Where(Scores(segs, i, "customer commitment") /\ segs[i].role = "customer",
                                Cite("COMMITMENT", "customer", <<i>>, "customer"))
           meeting(i) == Where(Scores(segs, i, "next meeting commitment") /\ segs[i].role = "customer",
                               Cite("COMMITMENT", "next meeting", <<i>>, "customer"))
           Item(i) == Where(i # 0, Cite("COMMITMENT", "recap", <<i>>, "none"))
           lines == [n \in DOMAIN places |-> seller(places[n]) \o customer(places[n]) \o meeting(places[n])]
           items == [n \in DOMAIN recap |-> Item(recap[n])]
<1>1. places \in Seq(DOMAIN segs)
  BY PlacesHolds
<1>2. /\ "COMMITMENT" \in InsightType /\ "COMMITMENT" \notin CUSTOMER_ONLY_TYPES
      /\ {"seller", "customer", "next meeting", "recap"} \subseteq Wording
      /\ {"seller", "customer", "none"} \subseteq SpeakerRole \cup {"none"}
  BY DEF InsightType, CUSTOMER_ONLY_TYPES, SpeakerRole, Wording
<1>3. ASSUME NEW i \in DOMAIN segs
      PROVE  /\ Means(segs, Cite("COMMITMENT", "seller", <<i>>, "seller"))
             /\ Means(segs, Cite("COMMITMENT", "customer", <<i>>, "customer"))
             /\ Means(segs, Cite("COMMITMENT", "recap", <<i>>, "none"))
             /\ Scores(segs, i, "next meeting commitment") =>
                  Means(segs, Cite("COMMITMENT", "next meeting", <<i>>, "customer"))
  <2>1. \A n \in DOMAIN <<i>> : <<i>>[n] = i
    OBVIOUS
  <2>2. Means(segs, Cite("COMMITMENT", "seller", <<i>>, "seller"))
    BY DEF Means, Cite
  <2>3. Means(segs, Cite("COMMITMENT", "customer", <<i>>, "customer"))
    BY DEF Means, Cite
  <2>4. Means(segs, Cite("COMMITMENT", "recap", <<i>>, "none"))
    BY DEF Means, Cite
  <2>5. ASSUME Scores(segs, i, "next meeting commitment")
        PROVE  Means(segs, Cite("COMMITMENT", "next meeting", <<i>>, "customer"))
    BY <2>1, <2>5 DEF Means, Cite
  <2> QED BY <2>2, <2>3, <2>4, <2>5
<1>4. ASSUME NEW i \in DOMAIN segs
      PROVE  /\ seller(i) \o customer(i) \o meeting(i) \in Seq(Backed(segs))
             /\ Scores(segs, i, "next meeting commitment") /\ segs[i].role = "customer" =>
                  Proposes(seller(i) \o customer(i) \o meeting(i), "COMMITMENT", {"next meeting"})
  <2>1. segs[i].role = "seller" => Cite("COMMITMENT", "seller", <<i>>, "seller") \in Backed(segs)
    BY <1>2, <1>3, OneBacked
  <2>2. segs[i].role = "customer" => Cite("COMMITMENT", "customer", <<i>>, "customer") \in Backed(segs)
    BY <1>2, <1>3, OneBacked
  <2>3. Scores(segs, i, "next meeting commitment") /\ segs[i].role = "customer"
        => Cite("COMMITMENT", "next meeting", <<i>>, "customer") \in Backed(segs)
    BY <1>2, <1>3, OneBacked
  <2>4. seller(i) \in Seq(Backed(segs))
    BY <2>1, WhereIn
  <2>5. customer(i) \in Seq(Backed(segs))
    BY <2>2, WhereIn
  <2>6. meeting(i) \in Seq(Backed(segs))
    BY <2>3, WhereIn
  <2>7. ASSUME Scores(segs, i, "next meeting commitment"), segs[i].role = "customer"
        PROVE  Proposes(meeting(i), "COMMITMENT", {"next meeting"})
    <3> DEFINE c == Cite("COMMITMENT", "next meeting", <<i>>, "customer")
    <3>1. c.type = "COMMITMENT" /\ c.title \in {"next meeting"}
      BY DEF Cite
    <3> HIDE DEF c
    <3>2. meeting(i) = Where(Scores(segs, i, "next meeting commitment") /\ segs[i].role = "customer", c)
      BY DEF c
    <3> HIDE DEF meeting
    <3> QED BY <2>7, <3>1, <3>2, WhereProposes
  <2> HIDE DEF seller, customer, meeting
  <2>8. seller(i) \o customer(i) \in Seq(Backed(segs))
    BY <2>4, <2>5, ConcatIn
  <2>9. (seller(i) \o customer(i)) \o meeting(i) \in Seq(Backed(segs))
    BY <2>6, <2>8, ConcatIn
  <2>10. Proposes(meeting(i), "COMMITMENT", {"next meeting"}) =>
           Proposes((seller(i) \o customer(i)) \o meeting(i), "COMMITMENT", {"next meeting"})
    BY <2>6, <2>8, ConcatProposes
  <2> QED BY <2>7, <2>9, <2>10
<1>5. ASSUME NEW i \in {0} \cup DOMAIN segs PROVE Item(i) \in Seq(Backed(segs))
  <2>1. i # 0 => Cite("COMMITMENT", "recap", <<i>>, "none") \in Backed(segs)
    BY <1>2, <1>3, OneBacked
  <2> QED BY <2>1, WhereIn
<1>6. extract_commitments(segs, recap) = SE!FlattenSeq(lines) \o SE!FlattenSeq(items)
  BY Zenon DEF extract_commitments, ForEach
<1> HIDE DEF seller, customer, meeting, Item
<1>7. \A n \in DOMAIN places : lines[n] \in Seq(Backed(segs))
  <2>1. \A n \in DOMAIN places : places[n] \in DOMAIN segs
    BY <1>1
  <2>2. \A i \in DOMAIN segs : seller(i) \o customer(i) \o meeting(i) \in Seq(Backed(segs))
    BY <1>4
  <2> HIDE DEF places
  <2> QED BY <2>1, <2>2
<1>8. \A n \in DOMAIN recap : items[n] \in Seq(Backed(segs))
  BY <1>5
<1>9. lines = [n \in DOMAIN places |-> lines[n]] /\ items = [n \in DOMAIN recap |-> items[n]]
  OBVIOUS
<1>12. ASSUME NEW i \in By(segs, "customer"), Scores(segs, i, "next meeting commitment")
       PROVE  \E n \in DOMAIN places : Proposes(lines[n], "COMMITMENT", {"next meeting"})
  <2>1. i \in DOMAIN segs /\ segs[i].role = "customer"
    BY DEF By
  <2>2. i \in DOMAIN places /\ places[i] = i
    BY <2>1, PlacesHolds
  <2>3. lines[i] = seller(i) \o customer(i) \o meeting(i)
    BY <2>2
  <2> HIDE DEF lines, places
  <2> QED BY <1>4, <1>12, <2>1, <2>2, <2>3
<1> HIDE DEF lines, items, places
<1>10. SE!FlattenSeq(lines) \in Seq(Backed(segs))
  BY <1>1, <1>7, <1>9, LoopIn
<1>11. SE!FlattenSeq(items) \in Seq(Backed(segs))
  BY <1>8, <1>9, LoopIn
<1>13. ASSUME NEW i \in By(segs, "customer"), Scores(segs, i, "next meeting commitment")
       PROVE  Proposes(SE!FlattenSeq(lines), "COMMITMENT", {"next meeting"})
  BY <1>1, <1>7, <1>9, <1>12, <1>13, LoopProposes
<1>14. \A i \in By(segs, "customer") : Scores(segs, i, "next meeting commitment")
         => Proposes(extract_commitments(segs, recap), "COMMITMENT", {"next meeting"})
  BY <1>6, <1>10, <1>11, <1>13, ConcatProposes
<1> QED BY <1>6, <1>10, <1>11, <1>14, ConcatIn

\* The labels the extractors look for, one by one.
LEMMA LabelsAre ==
  /\ {"pain point", "positive buying signal", "security blocker", "budget blocker", "technical blocker",
      "purchase timeline", "competitor mention"} \subseteq Labels
  /\ {"next meeting commitment", "economic buyer identified", "decision maker identified",
      "negative buying signal"} \subseteq Labels
<1>1. \A k \in DOMAIN CUSTOMER_TRUTH_MAP : CUSTOMER_TRUTH_MAP[k][1] \in Labels
  BY LabelsAssumption DEF LabelsRead
<1>2. /\ {1, 4, 5, 6, 7, 8, 9} \subseteq DOMAIN CUSTOMER_TRUTH_MAP
      /\ CUSTOMER_TRUTH_MAP[1][1] = "pain point" /\ CUSTOMER_TRUTH_MAP[4][1] = "positive buying signal"
      /\ CUSTOMER_TRUTH_MAP[5][1] = "security blocker" /\ CUSTOMER_TRUTH_MAP[6][1] = "budget blocker"
      /\ CUSTOMER_TRUTH_MAP[7][1] = "technical blocker" /\ CUSTOMER_TRUTH_MAP[8][1] = "purchase timeline"
      /\ CUSTOMER_TRUTH_MAP[9][1] = "competitor mention"
  BY DEF CUSTOMER_TRUTH_MAP
<1>3. \A k \in DOMAIN MOMENT_KINDS : MOMENT_KINDS[k][1] \in Labels
  BY LabelsAssumption DEF LabelsRead
<1>4. 8 \in DOMAIN MOMENT_KINDS /\ MOMENT_KINDS[8][1] = "next meeting commitment"
  BY DEF MOMENT_KINDS
<1>5. {"economic buyer identified", "decision maker identified", "negative buying signal"} \subseteq Labels
  BY LabelsAssumption DEF LabelsRead
<1>6. "next meeting commitment" \in Labels
  BY <1>3, <1>4
<1>7. /\ "pain point" \in Labels /\ "positive buying signal" \in Labels /\ "security blocker" \in Labels
      /\ "budget blocker" \in Labels /\ "technical blocker" \in Labels /\ "purchase timeline" \in Labels
      /\ "competitor mention" \in Labels
  BY <1>1, <1>2
<1> QED BY <1>5, <1>6, <1>7

\* A search among the segments of one side.
Searched(segs, role, labels, place) ==
  /\ place # 0 => place \in By(segs, role) /\ \E l \in labels : Scores(segs, place, l)
  /\ place = 0 => \A i \in By(segs, role), l \in labels : ~Scores(segs, i, l)

\* The best segment of a side is a search among that side's segments.
LEMMA BestSearched ==
  ASSUME NEW segs \in Seq(SegmentView), NEW label \in Labels
  PROVE  /\ Searched(segs, "customer", {label}, Best(segs, customer_segments(segs), label))
         /\ Searched(segs, "seller", {label}, Best(segs, seller_segments(segs), label))
<1>1. ASSUME NEW places \in Seq(DOMAIN segs), NEW role, Elements(places) = By(segs, role)
      PROVE  Searched(segs, role, {label}, Best(segs, places, label))
  BY <1>1, BestHolds DEF Found, Searched
<1>2. /\ customer_segments(segs) \in Seq(DOMAIN segs)
      /\ seller_segments(segs) \in Seq(DOMAIN segs)
  BY CustomersAre
<1> QED BY <1>1, <1>2, CustomersAre

\* A blocker is found among the customer's segments.
LEMMA BlockersSearched ==
  ASSUME NEW segs \in Seq(SegmentView)
  PROVE  Searched(segs, "customer", Elements(BLOCKERS), MaxLabel(segs, customer_segments(segs), BLOCKERS))
<1>1. customer_segments(segs) \in Seq(DOMAIN segs) /\ Elements(customer_segments(segs)) = By(segs, "customer")
  BY CustomersAre
<1>2. BLOCKERS \in Seq({BLOCKERS[1], BLOCKERS[2], BLOCKERS[3]}) /\ BLOCKERS # <<>>
  BY DEF BLOCKERS
<1>3. BLOCKERS[1] \in Labels /\ BLOCKERS[2] \in Labels /\ BLOCKERS[3] \in Labels
  BY LabelsAre DEF BLOCKERS
<1>4. BLOCKERS \in Seq(Labels)
  BY <1>2, <1>3
<1> QED BY <1>1, <1>2, <1>4, MaxLabelHolds DEF Searched

\* What a dimension of buying intent says.
Tells(segs, d) ==
  /\ d[1] \in DIMENSIONS
  /\ d[2] # 0 => d[2] \in By(segs, "customer")
  /\ d[2] # 0 /\ d[1] \in DOMAIN LabelOf => Scores(segs, d[2], LabelOf[d[1]])
  /\ d[1] = "blocker_active" => Searched(segs, "customer", Elements(BLOCKERS), d[2])
  /\ d[2] # 0 /\ d[1] = "business_impact_identified" => "quantified" \in segs[d[2]].text
  /\ d[2] = 0 /\ d[1] \in DOMAIN LabelOf => \A i \in By(segs, "customer") : ~Scores(segs, i, LabelOf[d[1]])

\* The dimensions of buying intent are found or missed among the customer's
\* segments.
LEMMA IntentTells ==
  ASSUME NEW segs \in Seq(SegmentView)
  PROVE  /\ Intent(segs) \in Seq(Elements(Intent(segs)))
         /\ \A d \in Elements(Intent(segs)) : Tells(segs, d)
         /\ \A dimension \in DIMENSIONS : \E d \in Elements(Intent(segs)) : d[1] = dimension
         /\ \A d, e \in Elements(Intent(segs)) : d[1] = e[1] => d = e
<1> DEFINE cust == customer_segments(segs)
           best(label) == Best(segs, cust, label)
           d1 == <<"pain_identified", best("pain point")>>
           d2 == <<"business_impact_identified", QuantifiedPain(segs, cust)>>
           d3 == <<"timeline_identified", best("purchase timeline")>>
           d4 == <<"economic_buyer_identified", best("economic buyer identified")>>
           d5 == <<"decision_maker_identified", best("decision maker identified")>>
           d6 == <<"next_meeting_committed", best("next meeting commitment")>>
           d7 == <<"competitor_active", best("competitor mention")>>
           d8 == <<"blocker_active", MaxLabel(segs, cust, BLOCKERS)>>
<1>1. Intent(segs) = <<d1, d2, d3, d4, d5, d6, d7, d8>>
  BY DEF Intent
<1>2. \A label \in Labels : Searched(segs, "customer", {label}, best(label))
  BY BestSearched
<1>3. QuantifiedPain(segs, cust) # 0 => /\ QuantifiedPain(segs, cust) = best("pain point")
                                       /\ "quantified" \in segs[QuantifiedPain(segs, cust)].text
  BY DEF QuantifiedPain
<1>4. Searched(segs, "customer", Elements(BLOCKERS), MaxLabel(segs, cust, BLOCKERS))
  BY BlockersSearched
<1> HIDE DEF best, cust
<1>5. ASSUME NEW label \in Labels, NEW dimension \in DIMENSIONS, LabelOf[dimension] = label,
             dimension \notin {"business_impact_identified", "blocker_active"}
      PROVE  Tells(segs, <<dimension, best(label)>>)
  BY <1>2, <1>5 DEF Tells, Searched
<1>6. /\ "pain_identified" \in DIMENSIONS /\ "business_impact_identified" \in DIMENSIONS
      /\ "timeline_identified" \in DIMENSIONS /\ "economic_buyer_identified" \in DIMENSIONS
      /\ "decision_maker_identified" \in DIMENSIONS /\ "next_meeting_committed" \in DIMENSIONS
      /\ "competitor_active" \in DIMENSIONS /\ "blocker_active" \in DIMENSIONS
  BY DEF DIMENSIONS
<1>7. /\ LabelOf["pain_identified"] = "pain point" /\ LabelOf["timeline_identified"] = "purchase timeline"
      /\ LabelOf["economic_buyer_identified"] = "economic buyer identified"
      /\ LabelOf["decision_maker_identified"] = "decision maker identified"
      /\ LabelOf["next_meeting_committed"] = "next meeting commitment"
      /\ LabelOf["competitor_active"] = "competitor mention"
      /\ "business_impact_identified" \notin DOMAIN LabelOf /\ "blocker_active" \notin DOMAIN LabelOf
  BY DEF LabelOf
<1>8. /\ Tells(segs, d1) /\ Tells(segs, d3) /\ Tells(segs, d4) /\ Tells(segs, d5)
      /\ Tells(segs, d6) /\ Tells(segs, d7)
  <2> HIDE DEF DIMENSIONS, LabelOf
  <2> QED BY <1>5, <1>6, <1>7, LabelsAre
<1>9. Tells(segs, d2)
  <2>1. Searched(segs, "customer", {"pain point"}, best("pain point"))
    BY <1>2, LabelsAre
  <2>2. QuantifiedPain(segs, cust) # 0 => QuantifiedPain(segs, cust) \in By(segs, "customer")
    BY <1>3, <2>1 DEF Searched
  <2> QED BY <1>3, <1>6, <1>7, <2>2 DEF Tells
<1>10. Tells(segs, d8)
  BY <1>4, <1>6, <1>7 DEF Tells, Searched
<1> HIDE DEF d1, d2, d3, d4, d5, d6, d7, d8
<1> DEFINE all == {d1, d2, d3, d4, d5, d6, d7, d8}
<1>11. <<d1, d2, d3, d4, d5, d6, d7, d8>> \in Seq(all)
  OBVIOUS
<1>12. Elements(<<d1, d2, d3, d4, d5, d6, d7, d8>>) = all
  BY DEF Elements
<1>13. \A d \in all : Tells(segs, d)
  BY <1>8, <1>9, <1>10
<1>14. /\ d1[1] = "pain_identified" /\ d2[1] = "business_impact_identified" /\ d3[1] = "timeline_identified"
       /\ d4[1] = "economic_buyer_identified" /\ d5[1] = "decision_maker_identified"
       /\ d6[1] = "next_meeting_committed" /\ d7[1] = "competitor_active" /\ d8[1] = "blocker_active"
  BY DEF d1, d2, d3, d4, d5, d6, d7, d8
<1>15. \A dimension \in DIMENSIONS : \E d \in all : d[1] = dimension
  BY <1>14 DEF DIMENSIONS
<1>16. \A d, e \in all : d[1] = e[1] => d = e
  BY <1>14
<1> HIDE DEF all
<1> QED BY <1>1, <1>11, <1>12, <1>13, <1>15, <1>16

\* A qualification signal, present or absent, is what the segments say.
LEMMA IntentIsBacked ==
  ASSUME NEW segs \in Seq(SegmentView)
  PROVE  /\ extract_buying_intent(segs) \in Seq(Backed(segs))
         /\ \A dimension \in DIMENSIONS : Proposes(extract_buying_intent(segs), "QUALIFICATION_SIGNAL", {dimension})
<1> DEFINE intent == Intent(segs)
           Line(d) == IF d[2] # 0
                        THEN <<Cite("QUALIFICATION_SIGNAL", d[1], <<d[2]>>, "customer")>>
                        ELSE <<Absent("QUALIFICATION_SIGNAL", d[1])>>
           lines == [n \in DOMAIN intent |-> Line(intent[n])]
<1>1. /\ intent \in Seq(Elements(intent)) /\ \A d \in Elements(intent) : Tells(segs, d)
      /\ \A d, e \in Elements(intent) : d[1] = e[1] => d = e
  BY IntentTells
<1>2. /\ "QUALIFICATION_SIGNAL" \in InsightType /\ "QUALIFICATION_SIGNAL" \notin CUSTOMER_ONLY_TYPES
      /\ "customer" \in SpeakerRole \cup {"none"} /\ DIMENSIONS \subseteq Wording
      /\ \A i \in By(segs, "customer") : i \in DOMAIN segs /\ segs[i].role = "customer"
  BY DEF InsightType, CUSTOMER_ONLY_TYPES, SpeakerRole, Wording, By
<1>3. ASSUME NEW d \in Elements(intent) PROVE Line(d) \in Seq(Backed(segs))
  <2>8. Tells(segs, d)
    BY <1>1
  <2>9. Shown(segs, d[1]) <=> d[2] # 0
    BY <1>1 DEF Shown
  <2>0. d[1] \in Wording
    BY <1>2, <2>8 DEF Tells
  <2>1. CASE d[2] # 0
    <3> DEFINE c == Cite("QUALIFICATION_SIGNAL", d[1], <<d[2]>>, "customer")
    <3>1. d[2] \in DOMAIN segs /\ segs[d[2]].role = "customer"
      BY <1>2, <2>8, <2>1 DEF Tells
    <3>2. Means(segs, c)
      BY <2>8, <2>9, <2>1 DEF Means, Tells, Cite
    <3>3. c \in Backed(segs)
      BY <1>2, <2>0, <3>1, <3>2, OneBacked
    <3>4. Line(d) = <<c>>
      BY <2>1
    <3> HIDE DEF c
    <3> QED BY <3>3, <3>4
  <2>2. CASE d[2] = 0
    <3> DEFINE c == Absent("QUALIFICATION_SIGNAL", d[1])
    <3>0. Means(segs, c)
      <4>1. c.type = "QUALIFICATION_SIGNAL" /\ c.title = d[1] /\ c.status = "ABSENCE_BASED"
        BY AbsentSays
      <4> HIDE DEF c
      <4> QED BY <2>8, <2>9, <2>2, <4>1 DEF Means, Tells
    <3>1. c \in Backed(segs)
      BY <1>2, <2>8, <2>0, <2>2, <3>0, AbsentBacked DEF Tells
    <3>2. Line(d) = <<c>>
      BY <2>2
    <3> HIDE DEF c
    <3> QED BY <3>1, <3>2
  <2> QED BY <2>1, <2>2
<1>4. extract_buying_intent(segs) = SE!FlattenSeq(lines)
  BY Zenon DEF extract_buying_intent, ForEach
<1>7. ASSUME NEW d \in Elements(intent) PROVE Proposes(Line(d), "QUALIFICATION_SIGNAL", {d[1]})
  <2> DEFINE cited == Cite("QUALIFICATION_SIGNAL", d[1], <<d[2]>>, "customer")
             absent == Absent("QUALIFICATION_SIGNAL", d[1])
  <2>1. /\ cited.type = "QUALIFICATION_SIGNAL" /\ cited.title \in {d[1]}
        /\ absent.type = "QUALIFICATION_SIGNAL" /\ absent.title \in {d[1]}
    BY AbsentSays DEF Cite
  <2>2. Line(d) = <<cited>> \/ Line(d) = <<absent>>
    OBVIOUS
  <2> HIDE DEF cited, absent, Line
  <2>3. cited \in Elements(<<cited>>) /\ absent \in Elements(<<absent>>)
    BY SingleHolds
  <2> QED BY <2>1, <2>2, <2>3 DEF Proposes
<1> HIDE DEF Line, intent
<1>5. \A n \in DOMAIN intent : lines[n] \in Seq(Backed(segs))
  <2>1. \A n \in DOMAIN intent : intent[n] \in Elements(intent) /\ lines[n] = Line(intent[n])
    BY DEF Elements
  <2> QED BY <1>3, <2>1
<1>6. lines = [n \in DOMAIN intent |-> lines[n]]
  OBVIOUS
<1>8. ASSUME NEW dimension \in DIMENSIONS
      PROVE  \E n \in DOMAIN intent : Proposes(lines[n], "QUALIFICATION_SIGNAL", {dimension})
  <2>1. PICK d \in Elements(intent) : d[1] = dimension
    BY IntentTells DEF intent
  <2>2. PICK n \in DOMAIN intent : d = intent[n]
    BY Zenon DEF Elements
  <2>3. lines[n] = Line(d)
    BY <2>2
  <2> QED BY <1>7, <2>1, <2>2, <2>3
<1> HIDE DEF lines
<1>9. ASSUME NEW dimension \in DIMENSIONS
      PROVE  Proposes(extract_buying_intent(segs), "QUALIFICATION_SIGNAL", {dimension})
  <2>1. PICK n \in DOMAIN intent : Proposes(lines[n], "QUALIFICATION_SIGNAL", {dimension})
    BY <1>8
  <2>2. intent \in Seq(Elements(intent))
    BY <1>1
  <2>3. Proposes(SE!FlattenSeq(lines), "QUALIFICATION_SIGNAL", {dimension})
    BY <1>5, <1>6, <2>1, <2>2, LoopProposes
  <2> QED BY <1>4, <2>3, Zenon
<1>10. extract_buying_intent(segs) \in Seq(Backed(segs))
  BY <1>1, <1>4, <1>5, <1>6, LoopIn
<1> QED BY <1>9, <1>10

\* A reality check sets the seller's words against the customer's.
LEMMA ChecksAreBacked ==
  ASSUME NEW segs \in Seq(SegmentView)
  PROVE  extract_reality_checks(segs) \in Seq(Backed(segs))
<1> DEFINE seller   == seller_segments(segs)
           customer == customer_segments(segs)
           intent   == Best(segs, seller, "positive buying signal")
           blocker  == MaxLabel(segs, customer, BLOCKERS)
           rival    == Best(segs, customer, "competitor mention")
           budget   == Best(segs, customer, "budget blocker")
           meeting  == FirstSaying(segs, seller, "meeting")
           approved == FirstSaying(segs, seller, "budget approved")
           evasive  == FirstSaying(segs, customer, "evasive")
           weak     == IF evasive = 0 /\ customer # <<>> THEN customer[1] ELSE evasive
           heard    == IF Best(segs, customer, "next meeting commitment") # 0 THEN 0 ELSE weak
           Check(title, s, h) ==
             Where(s # 0 /\ h # 0, Cite("REALITY_CHECK", title, <<s, h>>, "none"))
           places == {0} \cup DOMAIN segs
<1>0. extract_reality_checks(segs) =
        Check("overstated intent", intent, blocker) \o Check("no commitment", meeting, heard)
        \o Check("competitor", intent, rival) \o Check("budget", approved, budget)
  BY DEF extract_reality_checks
<1>1. /\ "REALITY_CHECK" \in InsightType /\ "REALITY_CHECK" \notin CUSTOMER_ONLY_TYPES
      /\ {"overstated intent", "no commitment", "competitor", "budget"} \subseteq Wording
  BY DEF InsightType, CUSTOMER_ONLY_TYPES, Wording
<1>2. /\ seller \in Seq(DOMAIN segs) /\ customer \in Seq(DOMAIN segs)
      /\ Elements(seller) \subseteq DOMAIN segs /\ Elements(customer) \subseteq DOMAIN segs
      /\ By(segs, "seller") \subseteq DOMAIN segs /\ By(segs, "customer") \subseteq DOMAIN segs
  BY CustomersAre
<1>3. intent \in places /\ rival \in places /\ budget \in places
  <2>1. ASSUME NEW label \in Labels
        PROVE  Best(segs, seller, label) \in places /\ Best(segs, customer, label) \in places
    BY <1>2, BestSearched DEF Searched
  <2> HIDE DEF places, seller, customer
  <2> QED BY <2>1, LabelsAre
<1>4. blocker \in places
  BY <1>2, BlockersSearched DEF Searched
<1>5. meeting \in places /\ approved \in places /\ evasive \in places
  <2>1. \A places1 \in {seller, customer} : places1 \in Seq(DOMAIN segs) /\ Elements(places1) \subseteq DOMAIN segs
    BY <1>2
  <2> QED BY <2>1, <1>2, FirstSayingHolds
<1> HIDE DEF intent, blocker, rival, budget, meeting, approved, evasive
<1>6. customer # <<>> => customer[1] \in By(segs, "customer")
  <2> SUFFICES ASSUME customer # <<>> PROVE customer[1] \in By(segs, "customer")
    OBVIOUS
  <2>1. Len(customer) \in Nat \ {0} /\ DOMAIN customer = 1..Len(customer)
    BY <1>2, EmptySeq, LenProperties
  <2>2. 1 \in DOMAIN customer
    BY <2>1
  <2>3. customer \in Seq(By(segs, "customer"))
    BY CustomersAre
  <2> QED BY <2>2, <2>3
<1>7. evasive # 0 => evasive \in By(segs, "customer")
  BY <1>2, CustomersAre, FirstSayingHolds DEF evasive
<1>8. weak # 0 => weak \in By(segs, "customer")
  BY <1>6, <1>7
<1> HIDE DEF weak
<1>9. heard # 0 => heard \in By(segs, "customer") /\ ~Scores(segs, heard, "next meeting commitment")
  <2>1. ASSUME heard # 0 PROVE Best(segs, customer, "next meeting commitment") = 0 /\ heard = weak
    BY <2>1
  <2>2. ASSUME heard # 0, NEW i \in By(segs, "customer")
        PROVE  ~Scores(segs, i, "next meeting commitment")
    BY <2>1, <2>2, LabelsAre, BestSearched DEF Searched
  <2> HIDE DEF heard
  <2> QED BY <1>8, <2>1, <2>2
<1>10. heard \in places
  BY <1>2, <1>9
<1> HIDE DEF heard
<1>11. ASSUME NEW title \in Wording, NEW s \in places, NEW h \in places,
             title = "no commitment" => h = heard
      PROVE  Check(title, s, h) \in Seq(Backed(segs))
  <2>1. ASSUME s # 0, h # 0 PROVE Cite("REALITY_CHECK", title, <<s, h>>, "none") \in Backed(segs)
    <3>1. s \in DOMAIN segs /\ h \in DOMAIN segs
      BY <2>1
    <3>2. <<s, h>> \in Seq(DOMAIN segs) /\ <<s, h>> # <<>>
      BY <3>1
    <3>3. h = <<s, h>>[2]
      OBVIOUS
    <3>4. Means(segs, Cite("REALITY_CHECK", title, <<s, h>>, "none"))
      BY <1>9, <1>11, <2>1, <3>3 DEF Means, Cite
    <3> QED BY <1>1, <3>2, <3>4, CiteBacked
  <2>2. s # 0 /\ h # 0 => Cite("REALITY_CHECK", title, <<s, h>>, "none") \in Backed(segs)
    BY <2>1
  <2> QED BY <2>2, WhereIn
<1> HIDE DEF Check, places
<1>12. /\ Check("overstated intent", intent, blocker) \in Seq(Backed(segs))
      /\ Check("no commitment", meeting, heard) \in Seq(Backed(segs))
      /\ Check("competitor", intent, rival) \in Seq(Backed(segs))
      /\ Check("budget", approved, budget) \in Seq(Backed(segs))
  BY <1>1, <1>3, <1>4, <1>5, <1>10, <1>11
<1> DEFINE c1 == Check("overstated intent", intent, blocker)
           c2 == Check("no commitment", meeting, heard)
           c3 == Check("competitor", intent, rival)
           c4 == Check("budget", approved, budget)
<1>13. extract_reality_checks(segs) = c1 \o c2 \o c3 \o c4
  BY <1>0
<1>14. c1 \in Seq(Backed(segs)) /\ c2 \in Seq(Backed(segs)) /\ c3 \in Seq(Backed(segs)) /\ c4 \in Seq(Backed(segs))
  BY <1>12
<1> HIDE DEF c1, c2, c3, c4
<1> QED BY <1>13, <1>14, ConcatIn

\* A deal risk is on a customer's segment, or reports what no customer said.
LEMMA KillersAreBacked ==
  ASSUME NEW segs \in Seq(SegmentView)
  PROVE  /\ extract_deal_killers(segs) \in Seq(Backed(segs))
         /\ ~Shown(segs, "next_meeting_committed")
              => Proposes(extract_deal_killers(segs), "DEAL_RISK", {"no_next_meeting"})
<1> DEFINE cust == customer_segments(segs)
           intent == Intent(segs)
           best(label) == Best(segs, cust, label)
           Supported(label) == Where(best(label) # 0, Cite("DEAL_RISK", label, <<best(label)>>, "customer"))
           rejection == best("negative buying signal")
           explicit == rejection # 0 /\ segs[rejection].labels["negative buying signal"] >= REJECTION_THRESHOLD
           rejected == IF explicit THEN <<Cite("DEAL_RISK", "explicit rejection", <<rejection>>, "customer")>> ELSE <<>>
           Known(dimension) == \E k \in DOMAIN intent : intent[k][1] = dimension /\ intent[k][2] # 0
           Line(row) == Where(~Known(row[1]), Absent("DEAL_RISK", row[2]))
           lines == [n \in DOMAIN ABSENCES |-> Line(ABSENCES[n])]
<1>0. extract_deal_killers(segs) =
        Supported("security blocker") \o Supported("budget blocker")
        \o Supported("competitor mention") \o Supported("technical blocker")
        \o rejected \o SE!FlattenSeq(lines)
  BY Zenon DEF extract_deal_killers, ForEach
<1>1. /\ "DEAL_RISK" \in InsightType /\ "DEAL_RISK" \notin CUSTOMER_ONLY_TYPES
      /\ "customer" \in SpeakerRole \cup {"none"} /\ "explicit rejection" \in Wording
      /\ \A i \in By(segs, "customer") : i \in DOMAIN segs /\ segs[i].role = "customer"
  BY DEF InsightType, CUSTOMER_ONLY_TYPES, SpeakerRole, Wording, By
<1>2. \A label \in Labels : best(label) # 0 => best(label) \in By(segs, "customer") /\ Scores(segs, best(label), label)
  BY BestSearched DEF Searched
<1>3. {"security blocker", "budget blocker", "competitor mention", "technical blocker"} \subseteq Wording
  <2>1. \A k \in DOMAIN CUSTOMER_TRUTH_MAP : CUSTOMER_TRUTH_MAP[k][1] \in Wording
    BY DEF Wording, LabelsRead
  <2>2. /\ {5, 6, 7, 9} \subseteq DOMAIN CUSTOMER_TRUTH_MAP
        /\ CUSTOMER_TRUTH_MAP[5][1] = "security blocker" /\ CUSTOMER_TRUTH_MAP[6][1] = "budget blocker"
        /\ CUSTOMER_TRUTH_MAP[7][1] = "technical blocker" /\ CUSTOMER_TRUTH_MAP[9][1] = "competitor mention"
    BY DEF CUSTOMER_TRUTH_MAP
  <2>3. /\ "security blocker" \in Wording /\ "budget blocker" \in Wording
        /\ "technical blocker" \in Wording /\ "competitor mention" \in Wording
    BY <2>1, <2>2
  <2> QED BY <2>3
<1> HIDE DEF best
<1>4. ASSUME NEW label \in Labels, NEW title \in Wording \cap OBSTACLES, best(label) # 0,
             title = "security blocker" => label = "security blocker"
      PROVE  Cite("DEAL_RISK", title, <<best(label)>>, "customer") \in Backed(segs)
  <2>1. /\ best(label) \in DOMAIN segs /\ segs[best(label)].role = "customer"
        /\ best(label) \in By(segs, "customer") /\ Scores(segs, best(label), label)
    BY <1>1, <1>2, <1>4
  <2>2. Means(segs, Cite("DEAL_RISK", title, <<best(label)>>, "customer"))
    BY <1>4, <2>1 DEF Means, Cite
  <2> QED BY <1>1, <2>1, <2>2, OneBacked
<1>5. ASSUME NEW label \in Labels \cap Wording, label \in OBSTACLES PROVE Supported(label) \in Seq(Backed(segs))
  <2>1. best(label) # 0 => Cite("DEAL_RISK", label, <<best(label)>>, "customer") \in Backed(segs)
    BY <1>4, <1>5
  <2> QED BY <2>1, WhereIn
<1>6. rejected \in Seq(Backed(segs))
  <2> DEFINE c == Cite("DEAL_RISK", "explicit rejection", <<rejection>>, "customer")
  <2>1. CASE explicit
    <3>1. c \in Backed(segs)
      BY <1>1, <1>4, <2>1, LabelsAre DEF OBSTACLES
    <3>2. rejected = <<c>>
      BY <2>1
    <3> HIDE DEF c, rejected
    <3> QED BY <3>1, <3>2
  <2>2. CASE ~explicit
    BY <2>2, EmptySeq
  <2> QED BY <2>1, <2>2
<1>7. ASSUME NEW n \in DOMAIN ABSENCES PROVE Line(ABSENCES[n]) \in Seq(Backed(segs))
  <2> DEFINE row == ABSENCES[n]
  <2>1. /\ row[1] \in DOMAIN LabelOf /\ row[2] \in DOMAIN LabelOf /\ LabelOf[row[1]] = LabelOf[row[2]]
        /\ row[1] \in {"timeline_identified", "economic_buyer_identified", "next_meeting_committed"}
    <3>1. row \in {ABSENCES[1], ABSENCES[2], ABSENCES[3]}
      BY DEF ABSENCES
    <3>2. /\ ABSENCES[1] = <<"timeline_identified", "no_timeline">>
          /\ ABSENCES[2] = <<"economic_buyer_identified", "no_economic_buyer">>
          /\ ABSENCES[3] = <<"next_meeting_committed", "no_next_meeting">>
      BY DEF ABSENCES
    <3>3. /\ "no_timeline" \in DOMAIN LabelOf /\ "no_economic_buyer" \in DOMAIN LabelOf
          /\ "no_next_meeting" \in DOMAIN LabelOf /\ "timeline_identified" \in DOMAIN LabelOf
          /\ "economic_buyer_identified" \in DOMAIN LabelOf /\ "next_meeting_committed" \in DOMAIN LabelOf
      BY DEF LabelOf
    <3>4. /\ LabelOf["no_timeline"] = LabelOf["timeline_identified"]
          /\ LabelOf["no_economic_buyer"] = LabelOf["economic_buyer_identified"]
          /\ LabelOf["no_next_meeting"] = LabelOf["next_meeting_committed"]
      BY DEF LabelOf
    <3> HIDE DEF row
    <3>5. \A r \in {ABSENCES[1], ABSENCES[2], ABSENCES[3]} :
            /\ r[1] \in DOMAIN LabelOf /\ r[2] \in DOMAIN LabelOf /\ LabelOf[r[1]] = LabelOf[r[2]]
            /\ r[1] \in {"timeline_identified", "economic_buyer_identified", "next_meeting_committed"}
      BY <3>2, <3>3, <3>4
    <3> QED BY <3>1, <3>5
  <2>2. row[2] \in Wording
    BY DEF Wording, Elements
  <2>8. row[2] \in {"no_timeline", "no_economic_buyer", "no_next_meeting"}
    <3>1. n \in 1..3
      BY DEF ABSENCES
    <3>2. \A j \in 1..3 : ABSENCES[j][2] \in {"no_timeline", "no_economic_buyer", "no_next_meeting"}
      BY DEF ABSENCES
    <3> QED BY <3>1, <3>2
  <2>3. PICK d \in Elements(intent) : d[1] = row[1] /\ Tells(segs, d)
    <3>1. row[1] \in DIMENSIONS
      BY <2>1 DEF DIMENSIONS
    <3> QED BY <3>1, IntentTells
  <2>4. ASSUME ~Known(row[1]) PROVE Absent("DEAL_RISK", row[2]) \in Backed(segs)
    <3>0. PICK k \in DOMAIN intent : d = intent[k]
      BY DEF Elements
    <3>1. d[2] = 0
      <4> HIDE DEF intent, row
      <4> QED BY <2>3, <2>4, <3>0
    <3>2. \A i \in By(segs, "customer") : ~Scores(segs, i, LabelOf[row[2]])
      BY <2>1, <2>3, <3>1 DEF Tells
    <3>3. Means(segs, Absent("DEAL_RISK", row[2]))
      <4> DEFINE c == Absent("DEAL_RISK", row[2])
      <4>1. c.type = "DEAL_RISK" /\ c.title = row[2] /\ c.status = "ABSENCE_BASED"
        BY AbsentSays
      <4>2. row[2] \in {ABSENCES[j][2] : j \in DOMAIN ABSENCES}
        OBVIOUS
      <4>3. row[2] \in {"no_timeline", "no_economic_buyer", "no_next_meeting"}
        BY <2>8
      <4> HIDE DEF c, row
      <4>4. Means(segs, c)
        BY <4>1, <4>2, <4>3 DEF Means, OBSTACLES
      <4> QED BY <4>4 DEF c
    <3> HIDE DEF row
    <3> QED BY <1>1, <2>2, <3>2, <3>3, AbsentBacked
  <2> HIDE DEF row, Known
  <2>5. Line(row) \in Seq(Backed(segs))
    BY <2>4, WhereIn
  <2> QED BY <2>5 DEF row
<1>13. ASSUME ~Shown(segs, "next_meeting_committed")
       PROVE  Proposes(Line(ABSENCES[3]), "DEAL_RISK", {"no_next_meeting"})
  <2>1. ABSENCES[3][1] = "next_meeting_committed" /\ ABSENCES[3][2] = "no_next_meeting"
    BY DEF ABSENCES
  <2> DEFINE c == Absent("DEAL_RISK", ABSENCES[3][2])
  <2>2. c.type = "DEAL_RISK" /\ c.title \in {"no_next_meeting"}
    BY <2>1, AbsentSays
  <2> HIDE DEF c
  <2>3. ~Known(ABSENCES[3][1])
    <3> SUFFICES ASSUME NEW n \in DOMAIN intent, intent[n][1] = "next_meeting_committed", intent[n][2] # 0
                 PROVE  FALSE
      BY <2>1
    <3> HIDE DEF intent
    <3>1. intent[n] \in Elements(intent)
      BY DEF Elements
    <3> QED BY <1>13, <3>1 DEF Shown, intent
  <2>4. Line(ABSENCES[3]) = Where(~Known(ABSENCES[3][1]), c)
    BY DEF c
  <2> HIDE DEF Line, Known
  <2> QED BY <2>2, <2>3, <2>4, WhereProposes
<1> HIDE DEF Line, Supported, rejected
<1>8. /\ SE!FlattenSeq(lines) \in Seq(Backed(segs))
      /\ ~Shown(segs, "next_meeting_committed") => Proposes(SE!FlattenSeq(lines), "DEAL_RISK", {"no_next_meeting"})
  <2>1. \A n \in DOMAIN ABSENCES : lines[n] \in Seq(Backed(segs))
    BY <1>7
  <2>2. lines = [n \in DOMAIN ABSENCES |-> lines[n]]
    OBVIOUS
  <2>3. 3 \in DOMAIN ABSENCES
    BY DEF ABSENCES
  <2>4. ~Shown(segs, "next_meeting_committed") => Proposes(lines[3], "DEAL_RISK", {"no_next_meeting"})
    BY <1>13, <2>3
  <2> HIDE DEF lines
  <2>5. ABSENCES \in Seq(Elements(ABSENCES))
    BY TablesAre
  <2>6. ~Shown(segs, "next_meeting_committed") => Proposes(SE!FlattenSeq(lines), "DEAL_RISK", {"no_next_meeting"})
    BY <2>1, <2>2, <2>3, <2>4, <2>5, LoopProposes
  <2> QED BY <2>1, <2>2, <2>5, <2>6, LoopIn
<1>9. /\ Supported("security blocker") \in Seq(Backed(segs)) /\ Supported("budget blocker") \in Seq(Backed(segs))
      /\ Supported("competitor mention") \in Seq(Backed(segs)) /\ Supported("technical blocker") \in Seq(Backed(segs))
  BY <1>3, <1>5, LabelsAre DEF OBSTACLES
<1> HIDE DEF lines
<1> DEFINE c1 == Supported("security blocker")
           c2 == Supported("budget blocker")
           c3 == Supported("competitor mention")
           c4 == Supported("technical blocker")
           absences == SE!FlattenSeq(lines)
<1>10. extract_deal_killers(segs) = c1 \o c2 \o c3 \o c4 \o rejected \o absences
  BY <1>0
<1>11. c1 \in Seq(Backed(segs)) /\ c2 \in Seq(Backed(segs)) /\ c3 \in Seq(Backed(segs)) /\ c4 \in Seq(Backed(segs))
  BY <1>9
<1>12. absences \in Seq(Backed(segs))
  BY <1>8
<1>14. ~Shown(segs, "next_meeting_committed") => Proposes(absences, "DEAL_RISK", {"no_next_meeting"})
  BY <1>8
<1> HIDE DEF c1, c2, c3, c4, absences
<1>15. c1 \o c2 \o c3 \o c4 \o rejected \in Seq(Backed(segs))
  BY <1>6, <1>11, ConcatIn
<1> QED BY <1>10, <1>12, <1>14, <1>15, ConcatIn, ConcatProposes

\* Whatever the extractors propose is backed by the segments they read.
LEMMA ExtractIsBacked ==
  ASSUME NEW segs \in Seq(SegmentView), NEW axes, NEW recap \in Seq(Nat),
         \A n \in DOMAIN recap : recap[n] \in {0} \cup DOMAIN segs
  PROVE  Extract(segs, axes, recap) \in Seq(Backed(segs))
<1>1. /\ extract_customer_truth(segs) \in Seq(Backed(segs))
      /\ extract_sentiment(segs, axes) \in Seq(Backed(segs))
      /\ extract_buying_intent(segs) \in Seq(Backed(segs))
      /\ extract_objections(segs) \in Seq(Backed(segs))
      /\ extract_commitments(segs, recap) \in Seq(Backed(segs))
      /\ extract_reality_checks(segs) \in Seq(Backed(segs))
      /\ extract_deal_killers(segs) \in Seq(Backed(segs))
      /\ extract_competitors(segs) \in Seq(Backed(segs))
      /\ extract_moments(segs) \in Seq(Backed(segs))
  BY TruthsAreBacked, SentimentIsBacked, IntentIsBacked, ObjectionsAreBacked, CommitmentsAreBacked,
     ChecksAreBacked, KillersAreBacked, CompetitorsAreBacked, MomentsAreBacked
<1> QED BY <1>1, ConcatIn DEF Extract

\* What the segments say is proposed: every dimension, a meeting that a customer
\* agreed to or that nobody did, a rival or a blocker that a customer named.
LEMMA ExtractProposes ==
  ASSUME NEW segs \in Seq(SegmentView), NEW axes, NEW recap \in Seq(Nat),
         \A n \in DOMAIN recap : recap[n] \in {0} \cup DOMAIN segs
  PROVE  LET all == Extract(segs, axes, recap) IN
         /\ \A dimension \in DIMENSIONS : Proposes(all, "QUALIFICATION_SIGNAL", {dimension})
         /\ Shown(segs, "next_meeting_committed") => Proposes(all, "COMMITMENT", {"next meeting"})
         /\ ~Shown(segs, "next_meeting_committed") => Proposes(all, "DEAL_RISK", {"no_next_meeting"})
         /\ Shown(segs, "competitor_active") => Proposes(all, "COMPETITOR", {"rival", "unnamed"})
         /\ Shown(segs, "blocker_active") => Proposes(all, "CUSTOMER_FACT", {"blocker", "budget"})
<1> DEFINE truths == extract_customer_truth(segs)
           sentiment == extract_sentiment(segs, axes)
           intent == extract_buying_intent(segs)
           objections == extract_objections(segs)
           commitments == extract_commitments(segs, recap)
           checks == extract_reality_checks(segs)
           killers == extract_deal_killers(segs)
           competitors == extract_competitors(segs)
           moments == extract_moments(segs)
           T == Backed(segs)
<1>1. /\ truths \in Seq(T) /\ sentiment \in Seq(T) /\ intent \in Seq(T) /\ objections \in Seq(T)
      /\ commitments \in Seq(T) /\ checks \in Seq(T) /\ killers \in Seq(T) /\ competitors \in Seq(T)
      /\ moments \in Seq(T)
  BY TruthsAreBacked, SentimentIsBacked, IntentIsBacked, ObjectionsAreBacked, CommitmentsAreBacked,
     ChecksAreBacked, KillersAreBacked, CompetitorsAreBacked, MomentsAreBacked
<1>2. Extract(segs, axes, recap) = truths \o sentiment \o intent \o objections \o commitments \o checks
                                   \o killers \o competitors \o moments
  BY DEF Extract
<1>3. ASSUME NEW dimension, Shown(segs, dimension)
      PROVE  \E d \in Elements(Intent(segs)) : d[1] = dimension /\ d[2] # 0 /\ Tells(segs, d)
  BY <1>3, IntentTells DEF Shown
<1>4. \A dimension \in DIMENSIONS : Proposes(intent, "QUALIFICATION_SIGNAL", {dimension})
  BY IntentIsBacked
<1>5. LabelOf["next_meeting_committed"] = "next meeting commitment" /\ "next_meeting_committed" \in DOMAIN LabelOf
      /\ LabelOf["competitor_active"] = "competitor mention" /\ "competitor_active" \in DOMAIN LabelOf
  BY DEF LabelOf
<1>6. Shown(segs, "next_meeting_committed") => Proposes(commitments, "COMMITMENT", {"next meeting"})
  BY <1>3, <1>5, CommitmentsAreBacked DEF Tells
<1>7. ~Shown(segs, "next_meeting_committed") => Proposes(killers, "DEAL_RISK", {"no_next_meeting"})
  BY KillersAreBacked
<1>8. Shown(segs, "competitor_active") => Proposes(competitors, "COMPETITOR", {"rival", "unnamed"})
  BY <1>3, <1>5, CompetitorsAreBacked DEF Tells
<1>9. Shown(segs, "blocker_active") => Proposes(truths, "CUSTOMER_FACT", {"blocker", "budget"})
  <2> SUFFICES ASSUME Shown(segs, "blocker_active") PROVE Proposes(truths, "CUSTOMER_FACT", {"blocker", "budget"})
    OBVIOUS
  <2>1. PICK d \in Elements(Intent(segs)) : d[1] = "blocker_active" /\ d[2] # 0 /\ Tells(segs, d)
    BY <1>3
  <2>2. d[2] \in By(segs, "customer") /\ \E l \in Elements(BLOCKERS) : Scores(segs, d[2], l)
    BY <2>1 DEF Tells, Searched
  <2>3. {5, 6, 7} \subseteq DOMAIN CUSTOMER_TRUTH_MAP
    BY DEF CUSTOMER_TRUTH_MAP
  <2>4. \A l \in Elements(BLOCKERS) : l \in {"security blocker", "budget blocker", "technical blocker"}
    <3>1. /\ DOMAIN BLOCKERS = {1, 2, 3}
          /\ BLOCKERS[1] = "security blocker" /\ BLOCKERS[2] = "budget blocker" /\ BLOCKERS[3] = "technical blocker"
      BY DEF BLOCKERS
    <3> QED BY <3>1 DEF Elements
  <2>5. PICK k \in DOMAIN CUSTOMER_TRUTH_MAP :
          Scores(segs, d[2], CUSTOMER_TRUTH_MAP[k][1]) /\ CUSTOMER_TRUTH_MAP[k][2] \in {"blocker", "budget"}
    <3>1. /\ CUSTOMER_TRUTH_MAP[5][1] = "security blocker" /\ CUSTOMER_TRUTH_MAP[5][2] = "blocker"
          /\ CUSTOMER_TRUTH_MAP[6][1] = "budget blocker" /\ CUSTOMER_TRUTH_MAP[6][2] = "budget"
          /\ CUSTOMER_TRUTH_MAP[7][1] = "technical blocker" /\ CUSTOMER_TRUTH_MAP[7][2] = "blocker"
      BY DEF CUSTOMER_TRUTH_MAP
    <3>2. \/ Scores(segs, d[2], "security blocker") \/ Scores(segs, d[2], "budget blocker")
          \/ Scores(segs, d[2], "technical blocker")
      BY <2>2, <2>4
    <3> QED BY <2>3, <3>1, <3>2
  <2> DEFINE c == Cite("CUSTOMER_FACT", CUSTOMER_TRUTH_MAP[k][2], <<d[2]>>, "customer")
  <2>6. IsTruth(segs, d[2], k, c)
    BY <2>5 DEF IsTruth
  <2>7. c \in Elements(truths)
    BY <2>2, <2>6, TruthsAre
  <2>8. c.type = "CUSTOMER_FACT" /\ c.title = CUSTOMER_TRUTH_MAP[k][2]
    BY DEF Cite
  <2> HIDE DEF c, truths
  <2> QED BY <2>5, <2>7, <2>8 DEF Proposes
<1> HIDE DEF truths, sentiment, intent, objections, commitments, checks, killers, competitors, moments, T
<1> DEFINE a1 == truths \o sentiment
           a2 == a1 \o intent
           a3 == a2 \o objections
           a4 == a3 \o commitments
           a5 == a4 \o checks
           a6 == a5 \o killers
           a7 == a6 \o competitors
           a8 == a7 \o moments
<1>10. Extract(segs, axes, recap) = a8
  BY <1>2
<1>11. ASSUME NEW type, NEW titles
       PROVE  \/ Proposes(truths, type, titles) \/ Proposes(intent, type, titles)
              \/ Proposes(commitments, type, titles) \/ Proposes(killers, type, titles)
              \/ Proposes(competitors, type, titles)
              => Proposes(a8, type, titles)
  <2>1. a1 \in Seq(T) /\ (Proposes(truths, type, titles) => Proposes(a1, type, titles))
    BY <1>1, ConcatIn, ConcatProposes
  <2> HIDE DEF a1
  <2>2. /\ a2 \in Seq(T)
        /\ Proposes(a1, type, titles) \/ Proposes(intent, type, titles) => Proposes(a2, type, titles)
    BY <1>1, <2>1, ConcatIn, ConcatProposes
  <2> HIDE DEF a2
  <2>3. a3 \in Seq(T) /\ (Proposes(a2, type, titles) => Proposes(a3, type, titles))
    BY <1>1, <2>2, ConcatIn, ConcatProposes
  <2> HIDE DEF a3
  <2>4. /\ a4 \in Seq(T)
        /\ Proposes(a3, type, titles) \/ Proposes(commitments, type, titles) => Proposes(a4, type, titles)
    BY <1>1, <2>3, ConcatIn, ConcatProposes
  <2> HIDE DEF a4
  <2>5. a5 \in Seq(T) /\ (Proposes(a4, type, titles) => Proposes(a5, type, titles))
    BY <1>1, <2>4, ConcatIn, ConcatProposes
  <2> HIDE DEF a5
  <2>6. /\ a6 \in Seq(T)
        /\ Proposes(a5, type, titles) \/ Proposes(killers, type, titles) => Proposes(a6, type, titles)
    BY <1>1, <2>5, ConcatIn, ConcatProposes
  <2> HIDE DEF a6
  <2>7. /\ a7 \in Seq(T)
        /\ Proposes(a6, type, titles) \/ Proposes(competitors, type, titles) => Proposes(a7, type, titles)
    BY <1>1, <2>6, ConcatIn, ConcatProposes
  <2> HIDE DEF a7
  <2>8. Proposes(a7, type, titles) => Proposes(a8, type, titles)
    BY <1>1, <2>7, ConcatProposes
  <2> HIDE DEF a8
  <2> QED BY <2>1, <2>2, <2>3, <2>4, <2>5, <2>6, <2>7, <2>8
<1> HIDE DEF a8
<1> QED BY <1>4, <1>6, <1>7, <1>8, <1>9, <1>10, <1>11

\* Why a verdict is what it is: only a claim that needs proof is refused, a
\* refusal that is no repetition has found no proof, and a kept claim has the
\* status it was proposed with or, if it needs proof, may be unconfirmed.
Reasoned(v) ==
  /\ v.status \in {v.claim.status, "UNCONFIRMED"}
  /\ v.defect # None => Factual(v.claim)
  /\ v.defect \notin {None, "duplicate"} => ~Proven(v.claim)
  /\ ~Factual(v.claim) => v.status = v.claim.status

\* Every verdict so far has its reasons.
Reasons == segments \in Seq(SegmentView) /\ \A n \in 1..Len(kept) : Reasoned(kept[n])

\* A check that fails, other than for a repetition, fails the proof.
LEMMA ProblemIsNoProof ==
  ASSUME NEW c, NEW i \in DOMAIN c.ids, Problem(c, i) \notin {None, "duplicate"}
  PROVE  ~Proves(c, c.ids[i])
<1>1. CASE c.ids[i] \notin DOMAIN segments
  BY <1>1 DEF Proves
<1>2. CASE c.ids[i] \in DOMAIN segments
  <2>1. \/ RoleNeeded(c) \notin {None, segments[c.ids[i]].role}
        \/ c.quote # None /\ c.quote \notin segments[c.ids[i]].text
    BY <1>2 DEF Problem
  <2> QED BY <2>1 DEF Proves, RoleNeeded, None
<1> QED BY <1>1, <1>2

\* A verdict with reasons leaves every verdict with reasons.
LEMMA ReasonsKept ==
  ASSUME TypeOK, Reasons, NEW v \in ValidatedInsight, Reasoned(v),
         UNCHANGED <<segments, candidates>>, kept' = Append(kept, v)
  PROVE  Reasons'
<1>1. kept \in Seq(ValidatedInsight) /\ Len(kept) \in Nat
  BY DEF TypeOK
<1>2. /\ 1..Len(kept') = 1..Len(kept) \cup {Len(kept) + 1}
      /\ kept'[Len(kept) + 1] = v
      /\ \A n \in 1..Len(kept) : kept'[n] = kept[n]
  BY <1>1
<1>3. ASSUME NEW n \in 1..Len(kept') PROVE Reasoned(kept[n])'
  <2>1. \/ n \in 1..Len(kept) /\ kept'[n] = kept[n]
        \/ kept'[n] = v
    BY <1>2
  <2>2. Reasoned(kept'[n])
    BY <2>1 DEF Reasons
  <2> QED BY <2>2 DEF Reasoned, Proven, Proves
<1> QED BY <1>3 DEF Reasons

\* Judging one candidate leaves every verdict with reasons.
LEMMA ReasonsInvariant ==
  ASSUME GateInv, Reasons, NEW n \in DOMAIN candidates, Validate(candidates[n])
  PROVE  Reasons'
<1> DEFINE c == candidates[n]
           Verdict(status, ids, defect) == [claim |-> c, status |-> status, ids |-> ids, defect |-> defect]
<1>1. TypeOK
  BY DEF GateInv
<1>2. c \in CandidateInsight /\ c.status \in EvidenceStatus /\ c.ids \in Seq(Ids)
  BY <1>1, CandidateTypes
<1>3. ASSUME NEW v \in ValidatedInsight, Reasoned(v),
             UNCHANGED <<segments, candidates>>, kept' = Append(kept, v)
      PROVE  Reasons'
  BY <1>1, <1>3, ReasonsKept
<1>4. CASE PassUnproven(c)
  <2> DEFINE v == Verdict(c.status, <<>>, None)
  <2>1. v \in ValidatedInsight
    BY <1>2 DEF ValidatedInsight
  <2>2. Reasoned(v)
    BY DEF Reasoned
  <2>3. kept' = Append(kept, v) /\ UNCHANGED <<segments, candidates>>
    BY <1>4 DEF PassUnproven, Keep
  <2> HIDE DEF v
  <2> QED BY <1>3, <2>1, <2>2, <2>3
<1>5. CASE RefuseUncited(c)
  <2> DEFINE v == Verdict("UNCONFIRMED", <<>>, "no_evidence")
  <2>1. v \in ValidatedInsight
    BY <1>2 DEF ValidatedInsight, Defects, EvidenceStatus
  <2>2. Reasoned(v)
    BY <1>5 DEF Reasoned, RefuseUncited, Proven
  <2>3. kept' = Append(kept, v) /\ UNCHANGED <<segments, candidates>>
    BY <1>5 DEF RefuseUncited, Keep
  <2> HIDE DEF v
  <2> QED BY <1>3, <2>1, <2>2, <2>3
<1>6. CASE Refuse(c)
  <2>1. PICK i \in DOMAIN c.ids : Problem(c, i) # None /\ Keep(c, "UNCONFIRMED", <<>>, Problem(c, i))
    BY <1>6 DEF Refuse
  <2> DEFINE v == Verdict("UNCONFIRMED", <<>>, Problem(c, i))
  <2>2. Problem(c, i) \in Defects
    BY <1>1, <2>1, SomeProblem
  <2>3. v \in ValidatedInsight
    BY <1>2, <2>2 DEF ValidatedInsight, EvidenceStatus
  <2>4. Problem(c, i) \notin {None, "duplicate"} => ~Proven(c)
    BY ProblemIsNoProof DEF Proven
  <2>5. Factual(c)
    BY <1>6 DEF Refuse
  <2>6. v.claim = c /\ v.status = "UNCONFIRMED" /\ v.defect = Problem(c, i)
    OBVIOUS
  <2>7. kept' = Append(kept, v) /\ UNCHANGED <<segments, candidates>>
    BY <1>6, <2>1 DEF Refuse, Keep
  <2> HIDE DEF v
  <2>8. Reasoned(v)
    BY <2>4, <2>5, <2>6 DEF Reasoned
  <2> QED BY <1>3, <2>3, <2>7, <2>8
<1>7. CASE Ship(c)
  <2> DEFINE status == IF c.sure THEN c.status ELSE "UNCONFIRMED"
             v == Verdict(status, c.ids, None)
  <2>1. status \in EvidenceStatus /\ status \in {c.status, "UNCONFIRMED"}
    BY <1>2 DEF EvidenceStatus
  <2>2. v \in ValidatedInsight
    BY <1>2, <2>1 DEF ValidatedInsight
  <2>3. Reasoned(v)
    BY <1>7, <2>1 DEF Reasoned, Ship
  <2>4. kept' = Append(kept, v) /\ UNCHANGED <<segments, candidates>>
    BY <1>7 DEF Ship, Keep
  <2> HIDE DEF v
  <2> QED BY <1>3, <2>2, <2>3, <2>4
<1> QED BY <1>4, <1>5, <1>6, <1>7 DEF Validate

\* The verdicts have their reasons, on top of what the gate promises.
THEOREM VerdictsHaveReasons == Spec => [](GateInv /\ Reasons)
<1>1. Init => Reasons
  BY SegmentsAssumption DEF Init, Reasons
<1>2. GateInv /\ Reasons /\ [Next]_vars => Reasons'
  <2> SUFFICES ASSUME GateInv, Reasons, [Next]_vars PROVE Reasons'
    OBVIOUS
  <2>1. CASE Next
    BY <2>1, ReasonsInvariant DEF Next
  <2>2. CASE UNCHANGED vars
    BY <2>2 DEF vars, Reasons, Reasoned, Proven, Proves
  <2> QED BY <2>1, <2>2
<1> QED BY <1>1, <1>2, GateInvariant, PTL DEF Spec

\* The candidates of the extractors, one by one.
LEMMA ProposalsAreBacked ==
  ASSUME Reasons, FromExtractors
  PROVE  candidates \in Seq(Backed(segments))
<1>1. PICK axes \in [SE!ToSet(customer_segments(segments)) -> {"none", "weak", "strong"}], recap \in Recaps :
        /\ SE!ToSet(recap) \subseteq {0} \cup DOMAIN segments
        /\ candidates = Extract(segments, axes, recap)
  BY Zenon DEF FromExtractors
<1>2. recap \in Seq(Nat)
  BY RecapsAssumption
<1>3. \A n \in DOMAIN recap : recap[n] \in {0} \cup DOMAIN segments
  BY <1>1 DEF SE!ToSet
<1> QED BY <1>1, <1>2, <1>3, ExtractIsBacked DEF Reasons

\* A verdict is on a claim the segments back.
LEMMA KeptIsBacked ==
  ASSUME TypeOK, Reasons, FromExtractors, NEW n \in 1..Len(kept)
  PROVE  Backs(segments, kept[n].claim) /\ Reasoned(kept[n])
<1>1. candidates \in Seq(Backed(segments))
  BY ProposalsAreBacked
<1>2. n \in DOMAIN candidates /\ kept[n].claim = candidates[n]
  BY DEF TypeOK
<1> QED BY <1>1, <1>2 DEF Reasons, Backed

\* A backed claim that needs proof has it.
LEMMA BackedIsProven ==
  ASSUME NEW c, Backs(segments, c), Factual(c)
  PROVE  Proven(c)
<1>1. c.status = "SUPPORTED"
  BY DEF Backs, Factual
<1>2. ASSUME NEW i \in DOMAIN c.ids PROVE Proves(c, c.ids[i])
  <2>1. c.ids[i] \in DOMAIN segments /\ c.required \in {None, segments[c.ids[i]].role} /\ c.quote = None
    BY <1>1 DEF Backs
  <2>2. c.type \in CUSTOMER_ONLY_TYPES => segments[c.ids[i]].role = "customer"
    BY <2>1 DEF Backs, None
  <2> QED BY <2>1, <2>2 DEF Proves
<1> QED BY <1>1, <1>2 DEF Backs, Proven

\* What the deterministic extractors propose is refused only when it repeats.
THEOREM ExtractorsAreRight == Spec => []ExtractorsOnlyRepeat
<1>1. GateInv /\ Reasons => ExtractorsOnlyRepeat
  <2> SUFFICES ASSUME GateInv, Reasons, FromExtractors,
                      NEW n \in 1..Len(kept), kept[n].defect \notin {None, "duplicate"}
               PROVE  FALSE
    BY DEF ExtractorsOnlyRepeat
  <2>1. Backs(segments, kept[n].claim) /\ Reasoned(kept[n])
    BY KeptIsBacked DEF GateInv
  <2>2. Factual(kept[n].claim) /\ ~Proven(kept[n].claim)
    BY <2>1 DEF Reasoned
  <2> QED BY <2>1, <2>2, BackedIsProven
<1> QED BY <1>1, VerdictsHaveReasons, PTL

\* What the report says no customer mentioned, no customer mentioned.
THEOREM GapsAreReal == Spec => []AbsencesAreReal
<1>1. GateInv /\ Reasons => AbsencesAreReal
  <2> SUFFICES ASSUME GateInv, Reasons, FromExtractors,
                      NEW n \in 1..Len(kept), kept[n].status = "ABSENCE_BASED",
                      kept[n].claim.title \in DOMAIN LabelOf,
                      NEW i \in DOMAIN segments, segments[i].role = "customer",
                      Scores(segments, i, LabelOf[kept[n].claim.title])
               PROVE  FALSE
    BY DEF AbsencesAreReal
  <2>1. Backs(segments, kept[n].claim) /\ Reasoned(kept[n])
    BY KeptIsBacked DEF GateInv
  <2>2. kept[n].claim.status = "ABSENCE_BASED"
    BY <2>1 DEF Reasoned
  <2>3. i \in By(segments, "customer")
    BY DEF By
  <2> QED BY <2>1, <2>2, <2>3 DEF Backs
<1> QED BY <1>1, VerdictsHaveReasons, PTL

\* What is stored is what was kept and not dropped.
LEMMA ShippableIs ==
  ASSUME TypeOK
  PROVE  /\ shippable \in Seq(ValidatedInsight)
         /\ \A v : v \in Elements(shippable) <=> ~dropped(v) /\ \E n \in 1..Len(kept) : v = kept[n]
<1> DEFINE yes == {v \in ValidatedInsight : ~dropped(v)}
<1>1. kept \in Seq(ValidatedInsight) /\ DOMAIN kept = 1..Len(kept)
  BY LenProperties DEF TypeOK
<1>2. \A n \in DOMAIN kept : kept[n] \in ValidatedInsight
  BY <1>1
<1>3. [n \in DOMAIN kept |-> Where(~dropped(kept[n]), kept[n])] = [n \in DOMAIN kept |-> Where(kept[n] \in yes, kept[n])]
  <2>1. \A n \in DOMAIN kept : ~dropped(kept[n]) <=> kept[n] \in yes
    BY <1>2
  <2> HIDE DEF yes
  <2> QED BY <2>1 DEF Where
<1>4. \A v \in Elements(kept) : v \in yes <=> ~dropped(v)
  BY <1>2 DEF Elements
<1> HIDE DEF yes
<1>5. shippable = Among(kept, yes)
  BY <1>3, Zenon DEF shippable, Selected, ForEach, Among
<1>6. shippable \in Seq(ValidatedInsight) /\ \A v : v \in Elements(shippable) <=> v \in Elements(kept) /\ v \in yes
  BY <1>1, <1>5, AmongHolds
<1>7. \A v : v \in Elements(kept) <=> \E n \in 1..Len(kept) : v = kept[n]
  BY <1>1, Zenon DEF Elements
<1> QED BY <1>4, <1>6, <1>7

\* The stored insights of some types.
LEMMA OfTypeIs ==
  ASSUME NEW T, NEW insights \in Seq(T), NEW types
  PROVE  /\ OfType(insights, types) \in Seq(T)
         /\ \A v : v \in Elements(OfType(insights, types)) <=> v \in Elements(insights) /\ v.claim.type \in types
<1> DEFINE yes == {v \in T : v.claim.type \in types}
<1>1. \A n \in DOMAIN insights : insights[n] \in T
  OBVIOUS
<1>2. [n \in DOMAIN insights |-> Where(insights[n].claim.type \in types, insights[n])]
      = [n \in DOMAIN insights |-> Where(insights[n] \in yes, insights[n])]
  <2>1. \A n \in DOMAIN insights : insights[n].claim.type \in types <=> insights[n] \in yes
    BY <1>1
  <2> HIDE DEF yes
  <2> QED BY <2>1 DEF Where
<1>3. \A v \in Elements(insights) : v \in yes <=> v.claim.type \in types
  BY <1>1 DEF Elements
<1> HIDE DEF yes
<1>4. OfType(insights, types) = Among(insights, yes)
  BY <1>2, Zenon DEF OfType, Selected, ForEach, Among
<1> QED BY <1>3, <1>4, AmongHolds

\* The signals on one dimension.
LEMMA SignalsAre ==
  ASSUME NEW insights \in Seq(ValidatedInsight), NEW dimension
  PROVE  /\ Signals(insights, dimension) \in Seq(ValidatedInsight)
         /\ \A v : v \in Elements(Signals(insights, dimension))
              <=> v \in Elements(insights) /\ v.claim.type = "QUALIFICATION_SIGNAL" /\ v.claim.title = dimension
<1> DEFINE signals == OfType(insights, {"QUALIFICATION_SIGNAL"})
           yes == {v \in ValidatedInsight : v.claim.title = dimension}
<1>1. /\ signals \in Seq(ValidatedInsight)
      /\ \A v : v \in Elements(signals) <=> v \in Elements(insights) /\ v.claim.type = "QUALIFICATION_SIGNAL"
  BY OfTypeIs
<1> HIDE DEF signals
<1>2. \A n \in DOMAIN signals : signals[n] \in ValidatedInsight
  BY <1>1
<1>3. [n \in DOMAIN signals |-> Where(signals[n].claim.title = dimension, signals[n])]
      = [n \in DOMAIN signals |-> Where(signals[n] \in yes, signals[n])]
  <2>1. \A n \in DOMAIN signals : signals[n].claim.title = dimension <=> signals[n] \in yes
    BY <1>2
  <2> HIDE DEF yes
  <2> QED BY <2>1 DEF Where
<1>4. \A v \in Elements(signals) : v \in yes <=> v.claim.title = dimension
  BY <1>2 DEF Elements
<1> HIDE DEF yes
<1>5. Signals(insights, dimension) = Among(signals, yes)
  BY <1>3, Zenon DEF Signals, Selected, ForEach, Among, signals
<1> QED BY <1>1, <1>4, <1>5, AmongHolds

\* The commitments to a next meeting.
LEMMA MeetingsAre ==
  ASSUME NEW insights \in Seq(ValidatedInsight), NEW items
  PROVE  /\ Meetings(insights, items) \in Seq(ValidatedInsight)
         /\ \A v : v \in Elements(Meetings(insights, items))
              <=> v \in Elements(insights) /\ v.claim.type = "COMMITMENT" /\ IsMeeting(v, items)
<1> DEFINE promises == OfType(insights, {"COMMITMENT"})
           yes == {v \in ValidatedInsight : IsMeeting(v, items)}
<1>1. /\ promises \in Seq(ValidatedInsight)
      /\ \A v : v \in Elements(promises) <=> v \in Elements(insights) /\ v.claim.type = "COMMITMENT"
  BY OfTypeIs
<1> HIDE DEF promises
<1>2. \A n \in DOMAIN promises : promises[n] \in ValidatedInsight
  BY <1>1
<1>3. [n \in DOMAIN promises |-> Where(IsMeeting(promises[n], items), promises[n])]
      = [n \in DOMAIN promises |-> Where(promises[n] \in yes, promises[n])]
  <2>1. \A n \in DOMAIN promises : IsMeeting(promises[n], items) <=> promises[n] \in yes
    BY <1>2
  <2> HIDE DEF yes
  <2> QED BY <2>1 DEF Where
<1>4. \A v \in Elements(promises) : v \in yes <=> IsMeeting(v, items)
  BY <1>2 DEF Elements
<1> HIDE DEF yes
<1>5. Meetings(insights, items) = Among(promises, yes)
  BY <1>3, Zenon DEF Meetings, Selected, ForEach, Among, promises
<1>6. /\ Among(promises, yes) \in Seq(ValidatedInsight)
      /\ \A v : v \in Elements(Among(promises, yes)) <=> v \in Elements(promises) /\ v \in yes
  BY <1>1, AmongHolds
<1> QED BY <1>1, <1>4, <1>5, <1>6

\* The segments that stored insights stand on.
LEMMA IdsOfIn ==
  ASSUME NEW E, NEW insights \in Seq(ValidatedInsight),
         \A v \in Elements(insights) : v.ids \in Seq(E)
  PROVE  IdsOf(insights) \in Seq(E)
<1> DEFINE parts == [n \in DOMAIN insights |-> insights[n].ids]
<1>1. IdsOf(insights) = SE!FlattenSeq(parts)
  BY Zenon DEF IdsOf, ForEach
<1>2. \A n \in DOMAIN insights : parts[n] \in Seq(E)
  <2>1. \A n \in DOMAIN insights : insights[n] \in Elements(insights) /\ parts[n] = insights[n].ids
    BY DEF Elements
  <2> QED BY <2>1
<1>3. parts = [n \in DOMAIN insights |-> parts[n]]
  OBVIOUS
<1> HIDE DEF parts
<1> QED BY <1>1, <1>2, <1>3, LoopIn

-----------------------------------------------------------------------------

\* A sentence of the draft: a fact is supported exactly when it cites something.
Sentence ==
  {s \in [about : Titles \cup {"meeting", "quote", "no meeting", "greeting", "thanks"},
          kind : {"FACT", "NON_FACTUAL"}, ids : Seq(Ids), supported : BOOLEAN,
          contradicting : Ids \cup {NoId}] :
     s.kind = "FACT" => (s.supported <=> s.ids # <<>>)}

\* A sentence that states a fact.
LEMMA FactIs ==
  ASSUME NEW about \in Titles \cup {"meeting", "quote"}, NEW ids \in Seq(Ids), NEW against \in Ids \cup {NoId}
  PROVE  /\ Fact(about, ids, against) \in Sentence
         /\ Fact(about, ids, against).about = about
         /\ Fact(about, ids, against).ids = ids
         /\ Fact(about, ids, against).contradicting = against
<1>1. (ids # <<>>) \in BOOLEAN
  OBVIOUS
<1> QED BY <1>1 DEF Fact, Sentence

\* A sentence that states none.
LEMMA CourteousIs ==
  ASSUME NEW about \in {"no meeting", "greeting", "thanks"}
  PROVE  /\ Courteous(about) \in Sentence
         /\ Courteous(about).about = about
         /\ Courteous(about).ids = <<>>
         /\ Courteous(about).contradicting = NoId
<1>1. <<>> \in Seq(Ids)
  BY EmptySeq
<1> QED BY <1>1 DEF Courteous, Sentence

\* The draft is made of courtesies, the sentence on the meeting, promises and
\* quotes.
LEMMA FollowUpIn ==
  ASSUME NEW T, NEW insights \in Seq(ValidatedInsight), NEW items,
         Courteous("greeting") \in T, Courteous("thanks") \in T, MeetingSentence(insights, items) \in T,
         \A v \in Elements(insights) :
           v.claim.type = "COMMITMENT" /\ Side(v, items) = "seller" => Fact(v.claim.title, v.ids, NoId) \in T,
         \A v \in Elements(insights) :
           v.claim.type = "CUSTOMER_FACT" => Fact("quote", v.ids, NoId) \in T
  PROVE  FollowUpSentences(insights, items) \in Seq(T)
<1> DEFINE promises == OfType(insights, {"COMMITMENT"})
           facts == OfType(insights, {"CUSTOMER_FACT"})
           Promise(v) == Where(Side(v, items) = "seller", Fact(v.claim.title, v.ids, NoId))
           Quote(v) == Where(v.claim.title \in {"blocker", "budget", "requirement"}, Fact("quote", v.ids, NoId))
           said == [n \in DOMAIN promises |-> Promise(promises[n])]
           heard == [n \in DOMAIN facts |-> Quote(facts[n])]
           opening == <<Courteous("greeting"), Courteous("thanks")>>
           closing == <<MeetingSentence(insights, items)>>
<1>1. FollowUpSentences(insights, items) = opening \o SE!FlattenSeq(said) \o SE!FlattenSeq(heard) \o closing
  BY Zenon DEF FollowUpSentences, ForEach
<1>2. opening \in Seq(T) /\ closing \in Seq(T)
  OBVIOUS
<1>3. /\ promises \in Seq(ValidatedInsight) /\ facts \in Seq(ValidatedInsight)
      /\ \A v \in Elements(promises) : v \in Elements(insights) /\ v.claim.type = "COMMITMENT"
      /\ \A v \in Elements(facts) : v \in Elements(insights) /\ v.claim.type = "CUSTOMER_FACT"
  BY OfTypeIs
<1> HIDE DEF promises, facts
<1>4. ASSUME NEW n \in DOMAIN promises PROVE said[n] \in Seq(T)
  <2>1. promises[n] \in Elements(promises)
    BY DEF Elements
  <2>2. Side(promises[n], items) = "seller" => Fact(promises[n].claim.title, promises[n].ids, NoId) \in T
    BY <1>3, <2>1
  <2>3. Promise(promises[n]) \in Seq(T)
    BY <2>2, WhereIn
  <2> QED BY <2>3
<1>5. ASSUME NEW n \in DOMAIN facts PROVE heard[n] \in Seq(T)
  <2>1. facts[n] \in Elements(facts)
    BY DEF Elements
  <2>2. Fact("quote", facts[n].ids, NoId) \in T
    BY <1>3, <2>1
  <2>3. Quote(facts[n]) \in Seq(T)
    BY <2>2, WhereIn
  <2> QED BY <2>3
<1>6. said = [n \in DOMAIN promises |-> said[n]] /\ heard = [n \in DOMAIN facts |-> heard[n]]
  OBVIOUS
<1> HIDE DEF said, heard, opening, closing
<1> DEFINE s1 == SE!FlattenSeq(said)
           s2 == SE!FlattenSeq(heard)
<1>7. s1 \in Seq(T)
  BY <1>3, <1>4, <1>6, LoopIn
<1>8. s2 \in Seq(T)
  BY <1>3, <1>5, <1>6, LoopIn
<1>9. FollowUpSentences(insights, items) = opening \o s1 \o s2 \o closing
  BY <1>1
<1> HIDE DEF s1, s2
<1> QED BY <1>2, <1>7, <1>8, <1>9, ConcatIn

\* Where the contradicting segment comes from.
LEMMA ContradictingIs ==
  ASSUME NEW insights \in Seq(ValidatedInsight), contradicting_segment_id(insights) # NoId
  PROVE  \E v \in Elements(insights) :
           /\ v.claim.type = "REALITY_CHECK" /\ v.claim.title = "no commitment"
           /\ v.claim.ids[2] \in SE!ToSet(v.ids)
           /\ contradicting_segment_id(insights) = v.claim.ids[2]
<1> DEFINE checks == OfType(insights, {"REALITY_CHECK"})
           Weighs(v) == v.claim.title = "no commitment" /\ v.claim.ids[2] \in SE!ToSet(v.ids)
           yes == {v \in ValidatedInsight : Weighs(v)}
           weighed == Among(checks, yes)
           against == contradicting_segment_id(insights)
<1>1. /\ checks \in Seq(ValidatedInsight)
      /\ \A v : v \in Elements(checks) <=> v \in Elements(insights) /\ v.claim.type = "REALITY_CHECK"
  BY OfTypeIs
<1>2. against = LET w == SE!FlattenSeq([n \in DOMAIN checks |-> Where(Weighs(checks[n]), checks[n])])
                IN  IF w = <<>> THEN NoId ELSE w[1].claim.ids[2]
  BY Zenon DEF contradicting_segment_id, Selected, ForEach
<1> HIDE DEF checks, Weighs, against
<1>3. \A n \in DOMAIN checks : checks[n] \in ValidatedInsight
  BY <1>1
<1>4. [n \in DOMAIN checks |-> Where(Weighs(checks[n]), checks[n])]
      = [n \in DOMAIN checks |-> Where(checks[n] \in yes, checks[n])]
  <2>1. \A n \in DOMAIN checks : Weighs(checks[n]) <=> checks[n] \in yes
    BY <1>3
  <2> HIDE DEF yes
  <2> QED BY <2>1 DEF Where
<1>5. against = IF weighed = <<>> THEN NoId ELSE weighed[1].claim.ids[2]
  BY <1>2, <1>4, Zenon DEF Among
<1>6. /\ weighed \in Seq(ValidatedInsight)
      /\ \A v : v \in Elements(weighed) <=> v \in Elements(checks) /\ v \in yes
  BY <1>1, AmongHolds
<1> HIDE DEF weighed
<1>7. weighed # <<>>
  BY <1>5 DEF against
<1>8. Len(weighed) \in Nat \ {0} /\ DOMAIN weighed = 1..Len(weighed)
  BY <1>6, <1>7, EmptySeq, LenProperties
<1>9. 1 \in DOMAIN weighed
  BY <1>8
<1>10. weighed[1] \in Elements(weighed)
  BY <1>9 DEF Elements
<1>11. weighed[1] \in Elements(checks) /\ Weighs(weighed[1])
  BY <1>6, <1>10
<1>12. against = weighed[1].claim.ids[2]
  BY <1>5, <1>7
<1> QED BY <1>1, <1>11, <1>12 DEF against, Weighs

\* A sentence on the meeting is a fact on the evidence of the meetings, a fact
\* without evidence, or a courtesy.
LEMMA MeetingSentenceIs ==
  ASSUME NEW insights \in Seq(ValidatedInsight), NEW items
  PROVE  LET ids == IdsOf(Meetings(insights, items))
             against == contradicting_segment_id(insights)
         IN  \/ ids # <<>> /\ MeetingSentence(insights, items) = Fact("meeting", ids, NoId)
             \/ MeetingSentence(insights, items) = Fact("meeting", <<>>, against)
             \/ MeetingSentence(insights, items) = Courteous("no meeting")
BY DEF MeetingSentence

\* The sentence on the meeting is a sentence.
LEMMA MeetingIsSentence ==
  ASSUME NEW insights \in Seq(ValidatedInsight), NEW items
  PROVE  MeetingSentence(insights, items) \in Sentence
<1>1. \A v \in ValidatedInsight : v.ids \in Seq(Ids)
  BY DEF ValidatedInsight
<1>2. \A v \in Elements(insights) : v \in ValidatedInsight
  BY DEF Elements
<1>3. Meetings(insights, items) \in Seq(ValidatedInsight) /\ \A v \in Elements(Meetings(insights, items)) : v.ids \in Seq(Ids)
  BY <1>1, <1>2, MeetingsAre
<1>4. IdsOf(Meetings(insights, items)) \in Seq(Ids)
  BY <1>3, IdsOfIn
<1>5. contradicting_segment_id(insights) \in Ids \cup {NoId}
  <2>1. CASE contradicting_segment_id(insights) # NoId
    <3>1. PICK v \in Elements(insights) : /\ v.claim.ids[2] \in SE!ToSet(v.ids)
                                          /\ contradicting_segment_id(insights) = v.claim.ids[2]
      BY <2>1, ContradictingIs
    <3>2. SE!ToSet(v.ids) \subseteq Ids
      BY <1>1, <1>2 DEF SE!ToSet
    <3> QED BY <3>1, <3>2
  <2> QED BY <2>1
<1>6. <<>> \in Seq(Ids) /\ NoId \in Ids \cup {NoId}
  BY EmptySeq
<1>7. /\ Fact("meeting", IdsOf(Meetings(insights, items)), NoId) \in Sentence
      /\ Fact("meeting", <<>>, contradicting_segment_id(insights)) \in Sentence
      /\ Courteous("no meeting") \in Sentence
  BY <1>4, <1>5, <1>6, FactIs, CourteousIs
<1> QED BY <1>7, MeetingSentenceIs

\* Any insights the gate lets through make sentences.
LEMMA DraftIs ==
  ASSUME NEW insights \in Seq(ValidatedInsight), NEW items
  PROVE  FollowUpSentences(insights, items) \in Seq(Sentence)
<1>1. \A v \in ValidatedInsight : v.claim.title \in Titles /\ v.ids \in Seq(Ids)
  BY DEF ValidatedInsight, CandidateInsight
<1>2. \A v \in Elements(insights) : v \in ValidatedInsight
  BY DEF Elements
<1>3. NoId \in Ids \cup {NoId}
  OBVIOUS
<1>4. ASSUME NEW v \in Elements(insights)
      PROVE  Fact(v.claim.title, v.ids, NoId) \in Sentence /\ Fact("quote", v.ids, NoId) \in Sentence
  BY <1>1, <1>2, FactIs
<1>5. MeetingSentence(insights, items) \in Sentence
  BY MeetingIsSentence
<1> QED BY <1>4, <1>5, CourteousIs, FollowUpIn

\* The draft lists what nothing supports, and polishing lists the same.
LEMMA DraftLists ==
  ASSUME NEW insights \in Seq(ValidatedInsight), NEW items
  PROVE  LET draft == build_follow_up(insights, items) IN
         /\ polished(draft) = draft
         /\ \A n \in DOMAIN draft.sentences :
              draft.sentences[n].kind = "FACT" /\ draft.sentences[n].ids = <<>> =>
                \E k \in DOMAIN draft.unsupported_claims :
                  draft.unsupported_claims[k].about = draft.sentences[n].about
<1> DEFINE sentences == FollowUpSentences(insights, items)
           yes == {s \in Sentence : Unsupported(s)}
           claims == Among(sentences, yes)
           listed == [k \in DOMAIN claims |-> [about |-> claims[k].about, contradicting |-> claims[k].contradicting]]
           draft == build_follow_up(insights, items)
<1>1. sentences \in Seq(Sentence)
  BY DraftIs
<1>2. \A n \in DOMAIN sentences : sentences[n] \in Sentence
  BY <1>1
<1>3. [n \in DOMAIN sentences |-> Where(Unsupported(sentences[n]), sentences[n])]
      = [n \in DOMAIN sentences |-> Where(sentences[n] \in yes, sentences[n])]
  <2>1. \A n \in DOMAIN sentences : Unsupported(sentences[n]) <=> sentences[n] \in yes
    BY <1>2
  <2> HIDE DEF yes, sentences
  <2> QED BY <2>1 DEF Where
<1>4. Selected(sentences, LAMBDA s : Unsupported(s)) = claims
  BY <1>3, Zenon DEF Selected, ForEach, Among
<1>5. draft = [sentences |-> sentences, unsupported_claims |-> listed]
  BY <1>4, Zenon DEF build_follow_up
<1>6. /\ claims \in Seq(Sentence)
      /\ \A s : s \in Elements(claims) <=> s \in Elements(sentences) /\ s \in yes
  BY <1>1, AmongHolds
<1> HIDE DEF sentences, claims, draft
<1>7. polished(draft) = draft
  <2>1. draft.sentences = sentences /\ draft.unsupported_claims = listed
    BY <1>5
  <2>2. DOMAIN listed = DOMAIN claims
    OBVIOUS
  <2> DEFINE again == [k \in DOMAIN claims |->
                         [about |-> claims[k].about,
                          contradicting |-> IF k \in DOMAIN listed THEN listed[k].contradicting ELSE NoId]]
  <2>3. again = listed
    <3>1. \A k \in DOMAIN claims : listed[k].contradicting = claims[k].contradicting
      OBVIOUS
    <3>2. again = [k \in DOMAIN claims |-> [about |-> claims[k].about, contradicting |-> claims[k].contradicting]]
      <4> HIDE DEF listed
      <4> QED BY <2>2, <3>1
    <3> QED BY <3>2
  <2>4. polished(draft) = [draft EXCEPT !.unsupported_claims = again]
    BY <1>4, <2>1, Zenon DEF polished
  <2> HIDE DEF again, listed
  <2> QED BY <1>5, <2>3, <2>4
<1>8. ASSUME NEW n \in DOMAIN draft.sentences,
             draft.sentences[n].kind = "FACT", draft.sentences[n].ids = <<>>
      PROVE  \E k \in DOMAIN draft.unsupported_claims :
               draft.unsupported_claims[k].about = draft.sentences[n].about
  <2> DEFINE s == sentences[n]
  <2>1. /\ draft.sentences = sentences /\ draft.unsupported_claims = listed
    BY <1>5
  <2>2. n \in DOMAIN sentences /\ s.kind = "FACT" /\ s.ids = <<>>
    BY <1>8, <2>1
  <2>3. s \in Sentence /\ s \in Elements(sentences)
    BY <1>2, <2>2 DEF Elements
  <2> HIDE DEF s
  <2>4. s \in yes
    BY <2>2, <2>3 DEF Unsupported, Sentence
  <2>5. s \in Elements(claims)
    BY <1>6, <2>3, <2>4
  <2>6. PICK k \in DOMAIN claims : s = claims[k]
    BY <2>5 DEF Elements
  <2>7. k \in DOMAIN listed /\ listed[k].about = s.about
    BY <2>6
  <2> QED BY <2>1, <2>7 DEF s
<1> QED BY <1>7, <1>8 DEF draft

-----------------------------------------------------------------------------

\* What a stored insight of the extractors stands on.
Stands(v) ==
  /\ Backs(segments, v.claim)
  /\ v.ids # <<>> => v.ids = v.claim.ids /\ v.claim.status = "SUPPORTED"
  /\ \A n \in DOMAIN v.ids : v.ids[n] \in DOMAIN segments

\* Every stored insight stands on the segments it cites.
LEMMA ShippedStand ==
  ASSUME GateInv, Reasons, FromExtractors
  PROVE  \A v \in Elements(shippable) : v \in ValidatedInsight /\ Stands(v)
<1> SUFFICES ASSUME NEW v \in Elements(shippable) PROVE v \in ValidatedInsight /\ Stands(v)
  OBVIOUS
<1>1. TypeOK
  BY DEF GateInv
<1>2. PICK n \in 1..Len(kept) : v = kept[n]
  BY <1>1, ShippableIs
<1>3. v \in ValidatedInsight
  BY <1>1, <1>2 DEF TypeOK
<1>4. Backs(segments, v.claim)
  BY <1>1, <1>2, KeptIsBacked
<1>5. v.ids = <<>> \/ (v.ids = v.claim.ids /\ Factual(v.claim))
  BY <1>2 DEF GateInv, ClaimsAreProven
<1>6. CASE v.ids = <<>>
  <2>1. DOMAIN v.ids = {}
    BY <1>6
  <2> QED BY <1>3, <1>4, <1>6, <2>1 DEF Stands
<1>7. CASE v.ids = v.claim.ids /\ Factual(v.claim)
  <2>1. v.claim.status = "SUPPORTED"
    BY <1>4, <1>7 DEF Backs, Factual
  <2> QED BY <1>3, <1>4, <1>7, <2>1 DEF Stands, Backs
<1> QED BY <1>5, <1>6, <1>7

\* A customer's segment that agrees to a next meeting.
Agreed(i) == segments[i].role = "customer" /\ Scores(segments, i, "next meeting commitment")

\* A segment of a commitment that is a meeting by its wording.
Worded(i, insights, items) ==
  \E n \in DOMAIN insights : OnlyWorded(insights[n], items) /\ i \in SE!ToSet(insights[n].ids)

\* The side and the words a sentence needs.
WellSaid(sentence, insights, items) ==
  /\ sentence.about = "seller" => Said(sentence.ids, "seller")
  /\ sentence.about = "quote" => Said(sentence.ids, "customer")
  /\ sentence.about = "meeting" =>
       \A n \in DOMAIN sentence.ids : Agreed(sentence.ids[n]) \/ Worded(sentence.ids[n], insights, items)
  /\ sentence.contradicting # NoId =>
       /\ segments[sentence.contradicting].role = "customer" /\ sentence.about = "meeting"
       /\ ~Agreed(sentence.contradicting)

\* An insight that asks for a side was said by it.
LEMMA AskedIsSaid ==
  ASSUME NEW v, Stands(v), NEW role \in {"customer", "seller"}, v.claim.required = role
  PROVE  Said(v.ids, role)
<1>1. CASE v.ids = <<>>
  BY <1>1 DEF Said
<1>2. CASE v.ids # <<>>
  <2>1. v.ids = v.claim.ids /\ v.claim.status = "SUPPORTED"
    BY <1>2 DEF Stands
  <2>2. \A n \in DOMAIN v.ids : v.claim.required \in {None, segments[v.ids[n]].role}
    BY <2>1 DEF Stands, Backs
  <2> QED BY <2>2 DEF Said, None
<1> QED BY <1>1, <1>2

\* A promise of the draft was made by the seller.
LEMMA PromisesWellSaid ==
  ASSUME NEW v \in ValidatedInsight, Stands(v), NEW insights, NEW items,
         v.claim.type = "COMMITMENT", Side(v, items) = "seller"
  PROVE  Fact(v.claim.title, v.ids, NoId) \in Sentence /\ WellSaid(Fact(v.claim.title, v.ids, NoId), insights, items)
<1> DEFINE s == Fact(v.claim.title, v.ids, NoId)
<1>1. v.claim.title \in Titles /\ v.ids \in Seq(Ids) /\ NoId \in Ids \cup {NoId}
  BY DEF ValidatedInsight, CandidateInsight
<1>2. s \in Sentence /\ s.about = v.claim.title /\ s.ids = v.ids /\ s.contradicting = NoId
  BY <1>1, FactIs
<1>3. v.claim.title \in {"seller", "recap"}
  BY DEF Side
<1>4. v.claim.title = "seller" => Said(v.ids, "seller")
  <2> SUFFICES ASSUME v.claim.title = "seller" PROVE Said(v.ids, "seller")
    OBVIOUS
  <2>1. v.claim.required = "seller"
    BY DEF Stands, Backs, Means
  <2> QED BY <2>1, AskedIsSaid
<1> HIDE DEF s
<1> QED BY <1>2, <1>3, <1>4 DEF WellSaid, s

\* A quote of the draft was said by the customer.
LEMMA QuotesWellSaid ==
  ASSUME NEW v \in ValidatedInsight, Stands(v), v.claim.type = "CUSTOMER_FACT", NEW insights, NEW items
  PROVE  Fact("quote", v.ids, NoId) \in Sentence /\ WellSaid(Fact("quote", v.ids, NoId), insights, items)
<1> DEFINE s == Fact("quote", v.ids, NoId)
<1>1. v.ids \in Seq(Ids) /\ NoId \in Ids \cup {NoId} /\ "quote" \in Titles \cup {"meeting", "quote"}
  BY DEF ValidatedInsight
<1>2. s \in Sentence /\ s.about = "quote" /\ s.ids = v.ids /\ s.contradicting = NoId
  <2>1. s.about = "quote" /\ s.ids = v.ids /\ s.contradicting = NoId
    BY DEF Fact
  <2>2. s \in Sentence
    BY <1>1, FactIs
  <2> QED BY <2>1, <2>2
<1>3. v.claim.required = "customer"
  BY DEF Stands, Backs, CUSTOMER_ONLY_TYPES
<1>4. Said(v.ids, "customer")
  BY <1>3, AskedIsSaid
<1> HIDE DEF s
<1> QED BY <1>2, <1>4 DEF WellSaid, s

\* The sentence on the meeting cites customers who agreed to one, or commitments
\* worded as one, and against it a customer who did not agree.
LEMMA MeetingWellSaid ==
  ASSUME NEW insights \in Seq(ValidatedInsight), \A v \in Elements(insights) : v \in ValidatedInsight /\ Stands(v),
         NEW items
  PROVE  WellSaid(MeetingSentence(insights, items), insights, items)
<1> DEFINE ids == IdsOf(Meetings(insights, items))
           against == contradicting_segment_id(insights)
           Fit(i) == Agreed(i) \/ Worded(i, insights, items)
           fit == {i \in Ids : Fit(i)}
<1>1. ASSUME NEW v \in Elements(Meetings(insights, items)) PROVE v.ids \in Seq(fit)
  <2>1. v \in Elements(insights) /\ v.claim.type = "COMMITMENT" /\ IsMeeting(v, items)
    BY MeetingsAre
  <2>2. v \in ValidatedInsight /\ Stands(v)
    BY <2>1
  <2>3. v.ids \in Seq(Ids)
    BY <2>2 DEF ValidatedInsight
  <2>4. ASSUME v.claim.title = "next meeting", NEW n \in DOMAIN v.ids PROVE Agreed(v.ids[n])
    <3>1. /\ v.claim.required = "customer"
          /\ \A m \in DOMAIN v.claim.ids : Scores(segments, v.claim.ids[m], "next meeting commitment")
      BY <2>1, <2>2, <2>4 DEF Stands, Backs, Means
    <3>2. segments[v.ids[n]].role = "customer"
      BY <2>2, <3>1, AskedIsSaid DEF Said
    <3>3. v.ids # <<>>
      OBVIOUS
    <3>4. Scores(segments, v.ids[n], "next meeting commitment")
      BY <2>2, <3>1, <3>3 DEF Stands
    <3> QED BY <3>2, <3>4 DEF Agreed
  <2>5. ASSUME WordedMeeting(v, items), NEW n \in DOMAIN v.ids PROVE Worded(v.ids[n], insights, items)
    <3>1. PICK m \in DOMAIN insights : v = insights[m]
      BY <2>1, Zenon DEF Elements
    <3>2. OnlyWorded(v, items)
      BY <2>1, <2>5 DEF OnlyWorded
    <3>3. v.ids[n] \in SE!ToSet(v.ids)
      BY DEF SE!ToSet
    <3> QED BY <3>1, <3>2, <3>3 DEF Worded
  <2>6. ASSUME NEW n \in DOMAIN v.ids PROVE v.ids[n] \in fit
    <3>1. Fit(v.ids[n])
      BY <2>1, <2>4, <2>5 DEF IsMeeting
    <3>2. v.ids[n] \in Ids
      BY <2>3
    <3> HIDE DEF Fit
    <3> QED BY <3>1, <3>2
  <2> HIDE DEF fit
  <2> QED BY <2>3, <2>6
<1>2. ids \in Seq(fit)
  <2>1. Meetings(insights, items) \in Seq(ValidatedInsight)
    BY MeetingsAre
  <2> HIDE DEF fit
  <2> QED BY <1>1, <2>1, IdsOfIn
<1>3. against # NoId => segments[against].role = "customer" /\ ~Agreed(against)
  <2> SUFFICES ASSUME against # NoId
               PROVE  segments[against].role = "customer" /\ ~Scores(segments, against, "next meeting commitment")
    BY DEF Agreed
  <2>1. PICK v \in Elements(insights) : /\ v.claim.type = "REALITY_CHECK" /\ v.claim.title = "no commitment"
                                        /\ against = v.claim.ids[2]
    BY ContradictingIs
  <2>2. against \in By(segments, "customer") /\ ~Scores(segments, against, "next meeting commitment")
    BY <2>1 DEF Stands, Backs, Means
  <2> QED BY <2>2 DEF By
<1>4. ASSUME NEW n \in DOMAIN ids PROVE Fit(ids[n])
  <2> HIDE DEF ids, fit
  <2>1. ids[n] \in fit
    BY <1>2
  <2> QED BY <2>1 DEF fit
<1> DEFINE supported == Fact("meeting", ids, NoId)
           unsupported == Fact("meeting", <<>>, against)
           courtesy == Courteous("no meeting")
<1>5. supported.about = "meeting" /\ supported.ids = ids /\ supported.contradicting = NoId
  BY DEF Fact
<1>6. unsupported.about = "meeting" /\ unsupported.ids = <<>> /\ unsupported.contradicting = against
  BY DEF Fact
<1>7. courtesy.about = "no meeting" /\ courtesy.contradicting = NoId
  BY DEF Courteous
<1>8. MeetingSentence(insights, items) \in {supported, unsupported, courtesy}
  BY MeetingSentenceIs
<1> HIDE DEF supported, unsupported, courtesy, ids, against
<1>9. WellSaid(supported, insights, items)
  BY <1>4, <1>5 DEF WellSaid
<1>10. WellSaid(unsupported, insights, items)
  <2>1. DOMAIN unsupported.ids = {}
    BY <1>6
  <2> QED BY <1>3, <1>6, <2>1 DEF WellSaid
<1>11. WellSaid(courtesy, insights, items)
  BY <1>7 DEF WellSaid
<1> QED BY <1>8, <1>9, <1>10, <1>11

\* The evidence of a dimension was said by the customer, and that of the business
\* impact has a quantity in it.
Heard(gate) ==
  {i \in Ids : /\ segments[i].role = "customer"
               /\ gate = "business_impact_identified" => "quantified" \in segments[i].text}

\* The evidence of a dimension was heard from the customer.
LEMMA EvidenceHeard ==
  ASSUME NEW insights \in Seq(ValidatedInsight), \A v \in Elements(insights) : v \in ValidatedInsight /\ Stands(v),
         NEW gate
  PROVE  IdsOf(Signals(insights, gate)) \in Seq(Heard(gate))
<1>1. ASSUME NEW v \in Elements(Signals(insights, gate)) PROVE v.ids \in Seq(Heard(gate))
  <2>1. v \in ValidatedInsight /\ Stands(v) /\ v.claim.type = "QUALIFICATION_SIGNAL" /\ v.claim.title = gate
    BY SignalsAre
  <2>2. v.ids \in Seq(Ids)
    BY <2>1 DEF ValidatedInsight
  <2>3. CASE v.ids = <<>>
    BY <2>3, EmptySeq
  <2>4. CASE v.ids # <<>>
    <3>1. v.ids = v.claim.ids /\ v.claim.status = "SUPPORTED"
      BY <2>1, <2>4 DEF Stands
    <3>2. /\ v.claim.required = "customer"
          /\ gate = "business_impact_identified" =>
               \A n \in DOMAIN v.claim.ids : "quantified" \in segments[v.claim.ids[n]].text
      BY <2>1, <3>1 DEF Stands, Backs, Means
    <3>3. \A n \in DOMAIN v.ids : segments[v.ids[n]].role = "customer"
      BY <2>1, <3>2, AskedIsSaid DEF Said
    <3>4. ASSUME NEW n \in DOMAIN v.ids PROVE v.ids[n] \in Heard(gate)
      <4>1. v.ids[n] \in Ids
        BY <2>2
      <4> QED BY <3>1, <3>2, <3>3, <4>1 DEF Heard
    <3> QED BY <2>2, <3>4
  <2> QED BY <2>3, <2>4
<1> QED BY <1>1, SignalsAre, IdsOfIn

\* The segments that say a phrase are among those searched, and say it.
LEMMA SayingIs ==
  ASSUME NEW E, NEW ids \in Seq(E), NEW phrase
  PROVE  /\ Saying(ids, phrase) \in Seq(E)
         /\ \A i \in Elements(Saying(ids, phrase)) : phrase \in segments[i].text
<1> DEFINE yes == {i \in E : phrase \in segments[i].text}
<1>1. \A n \in DOMAIN ids : ids[n] \in E
  OBVIOUS
<1>2. [n \in DOMAIN ids |-> Where(phrase \in segments[ids[n]].text, ids[n])]
      = [n \in DOMAIN ids |-> Where(ids[n] \in yes, ids[n])]
  <2>1. \A n \in DOMAIN ids : phrase \in segments[ids[n]].text <=> ids[n] \in yes
    BY <1>1
  <2> HIDE DEF yes
  <2> QED BY <2>1 DEF Where
<1>3. \A i \in yes : phrase \in segments[i].text
  OBVIOUS
<1> HIDE DEF yes
<1>4. Saying(ids, phrase) = Among(ids, yes)
  BY <1>2, Zenon DEF Saying, Selected, ForEach, Among
<1>5. /\ Among(ids, yes) \in Seq(E)
      /\ \A i \in Elements(Among(ids, yes)) : i \in yes
  BY AmongHolds
<1> QED BY <1>3, <1>4, <1>5

\* What is written to the CRM stands on what the customer said.
LEMMA WrittenHeard ==
  ASSUME NEW insights \in Seq(ValidatedInsight), \A v \in Elements(insights) : v \in ValidatedInsight /\ Stands(v),
         NEW name \in DOMAIN CRM_FIELDS, field_payload(insights, name).state = "SUPPORTED"
  PROVE  LET field == field_payload(insights, name) IN
         /\ field.ids # <<>> /\ Said(field.ids, "customer")
         /\ name = "deal_close_date" => "dated" \in segments[field.ids[1]].text
         /\ name = "call_note_business_impact" => "quantified" \in segments[field.ids[1]].text
<1> DEFINE gate == CRM_FIELDS[name]
           evidence == IdsOf(Signals(insights, gate))
           dated == Saying(evidence, "dated")
           field == field_payload(insights, name)
<1>1. evidence \in Seq(Heard(gate))
  BY EvidenceHeard
<1>2. name = "call_note_business_impact" => gate = "business_impact_identified"
  BY DEF CRM_FIELDS
<1>3. field \in {agreed_amount, Field("BLOCKED", evidence), explicit_date(evidence), quote_or_flag(evidence)}
  BY DEF field_payload
<1>4. name = "deal_close_date" =>
        field \in {agreed_amount, Field("BLOCKED", evidence), explicit_date(evidence)}
  BY DEF field_payload
<1>5. name # "deal_close_date" =>
        field \in {agreed_amount, Field("BLOCKED", evidence), quote_or_flag(evidence)}
  BY DEF field_payload
<1> HIDE DEF gate, evidence, field
<1>6. field.state = "SUPPORTED"
  BY DEF field
<1>7. agreed_amount.state = "MANUAL" /\ Field("BLOCKED", evidence).state = "BLOCKED"
  BY DEF agreed_amount, Field
<1>8. CASE name = "deal_close_date"
  <2>1. field = explicit_date(evidence)
    BY <1>4, <1>6, <1>7, <1>8
  <2>2. dated \in Seq(Heard(gate)) /\ \A i \in Elements(dated) : "dated" \in segments[i].text
    BY <1>1, SayingIs
  <2>3. explicit_date(evidence) = IF dated = <<>> THEN Field("MANUAL", evidence) ELSE Field("SUPPORTED", <<dated[1]>>)
    BY DEF explicit_date
  <2> HIDE DEF dated
  <2>4. dated # <<>> /\ field = Field("SUPPORTED", <<dated[1]>>)
    BY <1>6, <2>1, <2>3 DEF Field
  <2>5. field.ids = <<dated[1]>>
    BY <2>4 DEF Field
  <2>6. Len(dated) \in Nat \ {0} /\ DOMAIN dated = 1..Len(dated)
    BY <2>2, <2>4, EmptySeq, LenProperties
  <2>7. 1 \in DOMAIN dated
    BY <2>6
  <2> DEFINE day == dated[1]
  <2>8. day \in Heard(gate) /\ "dated" \in segments[day].text
    <3>1. day \in Elements(dated)
      BY <2>7 DEF Elements
    <3>2. day \in Heard(gate)
      BY <2>2, <2>7
    <3> QED BY <2>2, <3>1, <3>2
  <2>9. field.ids = <<day>>
    BY <2>5
  <2> HIDE DEF day
  <2>10. field.ids # <<>> /\ field.ids[1] = day /\ \A n \in DOMAIN field.ids : field.ids[n] = day
    BY <2>9
  <2>11. segments[day].role = "customer"
    BY <2>8 DEF Heard
  <2>12. Said(field.ids, "customer")
    BY <2>10, <2>11 DEF Said
  <2> QED BY <1>8, <2>8, <2>10, <2>12 DEF field
<1>9. CASE name # "deal_close_date"
  <2>1. field = quote_or_flag(evidence)
    BY <1>5, <1>6, <1>7, <1>9
  <2>2. evidence # <<>> /\ field.ids = evidence
    BY <1>6, <2>1 DEF quote_or_flag, Field
  <2>3. Len(evidence) \in Nat \ {0} /\ DOMAIN evidence = 1..Len(evidence)
    BY <1>1, <2>2, EmptySeq, LenProperties
  <2>4. 1 \in DOMAIN evidence
    BY <2>3
  <2>5. \A n \in DOMAIN evidence : evidence[n] \in Heard(gate)
    BY <1>1
  <2>6. Said(evidence, "customer")
    BY <2>5 DEF Said, Heard
  <2>7. gate = "business_impact_identified" => "quantified" \in segments[evidence[1]].text
    BY <2>4, <2>5 DEF Heard
  <2> QED BY <1>2, <1>9, <2>2, <2>6, <2>7 DEF field
<1> QED BY <1>8, <1>9

\* The e-mail lists what it cannot support, whatever was proposed; and of what the
\* extractors propose, it and the CRM say nothing the right party did not say.
THEOREM NothingIsUnbacked == Spec => []NothingUnbacked
<1>1. GateInv /\ Reasons => NothingUnbacked
  <2> SUFFICES ASSUME GateInv, Reasons PROVE NothingUnbacked
    OBVIOUS
  <2> DEFINE insights == shippable
  <2>1. insights \in Seq(ValidatedInsight)
    BY ShippableIs DEF GateInv
  <2>2. ASSUME FromExtractors
        PROVE  /\ \A items \in RecapItems(insights) :
                    \A s \in SE!ToSet(FollowUpSentences(insights, items)) : WellSaid(s, insights, items)
               /\ \A name \in DOMAIN CRM_FIELDS :
                    field_payload(insights, name).state = "SUPPORTED" =>
                      /\ field_payload(insights, name).ids # <<>>
                      /\ Said(field_payload(insights, name).ids, "customer")
                      /\ name = "deal_close_date" =>
                           "dated" \in segments[field_payload(insights, name).ids[1]].text
                      /\ name = "call_note_business_impact" =>
                           "quantified" \in segments[field_payload(insights, name).ids[1]].text
    <3>1. \A v \in Elements(insights) : v \in ValidatedInsight /\ Stands(v)
      BY <2>2, ShippedStand
    <3> HIDE DEF insights
    <3>2. ASSUME NEW items \in RecapItems(insights), NEW s \in SE!ToSet(FollowUpSentences(insights, items))
          PROVE  WellSaid(s, insights, items)
      <4> DEFINE T == {sentence \in Sentence : WellSaid(sentence, insights, items)}
      <4>1. Courteous("greeting") \in T /\ Courteous("thanks") \in T
        <5>1. ASSUME NEW about \in {"greeting", "thanks"} PROVE Courteous(about) \in T
          <6>1. Courteous(about) \in Sentence
            BY CourteousIs
          <6>2. Courteous(about).about = about /\ Courteous(about).contradicting = NoId
            BY DEF Courteous
          <6>3. WellSaid(Courteous(about), insights, items)
            BY <6>2 DEF WellSaid
          <6> QED BY <6>1, <6>3
        <5> QED BY <5>1
      <4>2. MeetingSentence(insights, items) \in T
        <5>1. WellSaid(MeetingSentence(insights, items), insights, items)
          BY <2>1, <3>1, MeetingWellSaid
        <5>2. MeetingSentence(insights, items) \in Sentence
          BY <2>1, MeetingIsSentence
        <5> QED BY <5>1, <5>2
      <4>3. \A v \in Elements(insights) :
              v.claim.type = "COMMITMENT" /\ Side(v, items) = "seller" => Fact(v.claim.title, v.ids, NoId) \in T
        BY <3>1, PromisesWellSaid
      <4>4. \A v \in Elements(insights) :
              v.claim.type = "CUSTOMER_FACT" => Fact("quote", v.ids, NoId) \in T
        BY <3>1, QuotesWellSaid
      <4> HIDE DEF T
      <4>5. FollowUpSentences(insights, items) \in Seq(T)
        BY <2>1, <4>1, <4>2, <4>3, <4>4, FollowUpIn
      <4>6. s \in T
        BY <3>2, <4>5 DEF SE!ToSet
      <4> QED BY <4>6 DEF T
    <3>3. ASSUME NEW name \in DOMAIN CRM_FIELDS, field_payload(insights, name).state = "SUPPORTED"
          PROVE  /\ field_payload(insights, name).ids # <<>>
                 /\ Said(field_payload(insights, name).ids, "customer")
                 /\ name = "deal_close_date" =>
                      "dated" \in segments[field_payload(insights, name).ids[1]].text
                 /\ name = "call_note_business_impact" =>
                      "quantified" \in segments[field_payload(insights, name).ids[1]].text
      BY <2>1, <3>1, <3>3, WrittenHeard
    <3> QED BY <3>2, <3>3
  <2>3. \A items \in RecapItems(insights) :
          LET draft == build_follow_up(insights, items) IN
          /\ polished(draft) = draft
          /\ \A n \in DOMAIN draft.sentences :
               draft.sentences[n].kind = "FACT" /\ draft.sentences[n].ids = <<>> =>
                 \E k \in DOMAIN draft.unsupported_claims :
                   draft.unsupported_claims[k].about = draft.sentences[n].about
    BY <2>1, DraftLists
  <2> HIDE DEF insights
  <2>4. /\ DOMAIN crm_preview(insights) = DOMAIN CRM_FIELDS
        /\ \A name \in DOMAIN CRM_FIELDS : crm_preview(insights)[name] = field_payload(insights, name)
    BY DEF crm_preview
  <2> DEFINE AllBacked ==
               \A items \in RecapItems(insights) :
                 \A sentence \in SE!ToSet(FollowUpSentences(insights, items)) : WellSaid(sentence, insights, items)
  <2>5. FromExtractors => AllBacked
    BY <2>2
  <2> DEFINE crm == crm_preview(insights)
             Written(name) ==
               crm[name].state = "SUPPORTED" =>
                 /\ crm[name].ids # <<>> /\ Said(crm[name].ids, "customer")
                 /\ name = "deal_close_date" => "dated" \in segments[crm[name].ids[1]].text
                 /\ name = "call_note_business_impact" => "quantified" \in segments[crm[name].ids[1]].text
  <2>6. ASSUME FromExtractors, NEW name \in DOMAIN crm PROVE Written(name)
    BY <2>2, <2>4, <2>6
  <2>7. ~(AllBacked /\ \A name \in DOMAIN crm : Written(name)) => ~FromExtractors
    BY <2>5, <2>6
  <2> QED BY <2>3, <2>7, Zenon DEF NothingUnbacked, WellSaid, Agreed, Worded, insights
<1> QED BY <1>1, VerdictsHaveReasons, PTL

\* Once all are judged, each candidate of the extractors is stored, or what it
\* repeats is.
LEMMA JudgedIsStored ==
  ASSUME GateInv, Reasons, FromExtractors, Judged, NEW c \in Elements(candidates)
  PROVE  \E v \in Elements(shippable) :
           v.claim.type = c.type /\ v.claim.title = c.title
<1>1. TypeOK
  BY DEF GateInv
<1>2. PICK n \in DOMAIN candidates : c = candidates[n]
  BY Zenon DEF Elements
<1>3. n \in 1..Len(kept) /\ kept[n].claim = c
  <2>1. DOMAIN candidates = 1..Len(candidates)
    BY <1>1, LenProperties DEF TypeOK
  <2>2. n \in 1..Len(kept)
    BY <2>1 DEF Judged
  <2> QED BY <1>1, <1>2, <2>2 DEF TypeOK
<1>4. CASE ~dropped(kept[n])
  <2>1. kept[n] \in Elements(shippable)
    BY <1>1, <1>3, <1>4, ShippableIs
  <2> QED BY <1>3, <2>1
<1>5. CASE dropped(kept[n])
  <2>1. Backs(segments, c) /\ Reasoned(kept[n])
    BY <1>1, <1>3, KeptIsBacked
  <2>2. Proven(kept[n].claim)
    BY <1>3, <1>5, <2>1, BackedIsProven DEF Reasoned, dropped
  <2>3. PICK m \in 1..n-1 : Shipped(kept[m]) /\ Repeats(kept[m].claim, kept[n].claim)
    BY <1>3, <1>5, <2>2 DEF GateInv, RefusalsAreDeserved
  <2>4. m \in 1..Len(kept)
    BY <1>1, <1>3 DEF TypeOK
  <2>5. kept[m] \in Elements(shippable)
    BY <1>1, <2>3, <2>4, ShippableIs DEF Shipped
  <2>6. kept[m].claim.type = c.type /\ kept[m].claim.title = c.title
    <3>1. PICK k : k \in Keys(kept[m].claim) /\ k \in Keys(c)
      BY <1>3, <2>3 DEF Repeats
    <3> QED BY <3>1 DEF Keys
  <2> QED BY <2>5, <2>6
<1> QED BY <1>4, <1>5

\* What is stored of a type is what the segments say.
Tellings(insights) ==
  /\ \A v \in Elements(insights) :
       /\ v \in ValidatedInsight
       /\ Stands(v)
       /\ v.ids # <<>> <=> v.claim.status = "SUPPORTED"
       /\ v.status = "ABSENCE_BASED" <=> v.claim.status = "ABSENCE_BASED"
  /\ \A d \in DIMENSIONS : \E v \in Elements(insights) : v.claim.type = "QUALIFICATION_SIGNAL" /\ v.claim.title = d
  /\ Shown(segments, "next_meeting_committed") =>
       \E v \in Elements(insights) : v.claim.type = "COMMITMENT" /\ v.claim.title = "next meeting"
  /\ ~Shown(segments, "next_meeting_committed") =>
       \E v \in Elements(insights) : v.claim.type = "DEAL_RISK" /\ v.claim.title = "no_next_meeting"
  /\ Shown(segments, "competitor_active") => \E v \in Elements(insights) : v.claim.type = "COMPETITOR"
  /\ Shown(segments, "blocker_active") =>
       \E v \in Elements(insights) : v.claim.type = "CUSTOMER_FACT" /\ v.claim.title \in {"blocker", "budget"}

\* Once every candidate of the extractors is judged, what is stored tells what the
\* segments say.
LEMMA StoredTells ==
  ASSUME GateInv, Reasons, FromExtractors, Judged
  PROVE  shippable \in Seq(ValidatedInsight) /\ Tellings(shippable)
<1>1. TypeOK
  BY DEF GateInv
<1>2. PICK axes \in [SE!ToSet(customer_segments(segments)) -> {"none", "weak", "strong"}], recap \in Recaps :
        /\ SE!ToSet(recap) \subseteq {0} \cup DOMAIN segments
        /\ candidates = Extract(segments, axes, recap)
  BY Zenon DEF FromExtractors
<1>3. recap \in Seq(Nat) /\ (\A n \in DOMAIN recap : recap[n] \in {0} \cup DOMAIN segments)
  BY <1>2, RecapsAssumption DEF SE!ToSet
<1>4. segments \in Seq(SegmentView)
  BY DEF Reasons
<1>5. /\ \A d \in DIMENSIONS : Proposes(candidates, "QUALIFICATION_SIGNAL", {d})
      /\ Shown(segments, "next_meeting_committed") => Proposes(candidates, "COMMITMENT", {"next meeting"})
      /\ ~Shown(segments, "next_meeting_committed") => Proposes(candidates, "DEAL_RISK", {"no_next_meeting"})
      /\ Shown(segments, "competitor_active") => Proposes(candidates, "COMPETITOR", {"rival", "unnamed"})
      /\ Shown(segments, "blocker_active") => Proposes(candidates, "CUSTOMER_FACT", {"blocker", "budget"})
  BY <1>2, <1>3, <1>4, ExtractProposes
<1>6. ASSUME NEW type, NEW titles, Proposes(candidates, type, titles)
      PROVE  \E v \in Elements(shippable) : v.claim.type = type /\ v.claim.title \in titles
  <2>1. PICK c \in Elements(candidates) : c.type = type /\ c.title \in titles
    BY <1>6 DEF Proposes
  <2> QED BY <2>1, JudgedIsStored
<1>7. ASSUME NEW v \in Elements(shippable)
      PROVE  /\ v \in ValidatedInsight /\ Stands(v)
             /\ v.ids # <<>> <=> v.claim.status = "SUPPORTED"
             /\ v.status = "ABSENCE_BASED" <=> v.claim.status = "ABSENCE_BASED"
  <2>1. v \in ValidatedInsight /\ Stands(v)
    BY ShippedStand
  <2>2. PICK n \in 1..Len(kept) : v = kept[n] /\ ~dropped(v)
    BY <1>1, ShippableIs
  <2>3. Reasoned(v) /\ Backs(segments, v.claim)
    BY <1>1, <2>2, KeptIsBacked
  <2>4. v.claim.status \in {"SUPPORTED", "ABSENCE_BASED"}
    BY <2>3 DEF Backs
  <2>5. v.claim.status = "SUPPORTED" => v.ids = v.claim.ids /\ v.claim.ids # <<>>
    BY <2>2, <2>3 DEF GateInv, ClaimsAreProven, Factual, Backs
  <2>6. v.status = "ABSENCE_BASED" <=> v.claim.status = "ABSENCE_BASED"
    BY <2>3, <2>4 DEF Reasoned, Factual
  <2>7. v.claim.status = "SUPPORTED" => v.ids # <<>>
    BY <2>5, Zenon
  <2>8. v.ids # <<>> => v.claim.status = "SUPPORTED"
    BY <2>1 DEF Stands
  <2>9. v.ids # <<>> <=> v.claim.status = "SUPPORTED"
    BY <2>7, <2>8
  <2> HIDE DEF Stands
  <2> QED BY <2>1, <2>9, <2>6, Zenon
<1>8. shippable \in Seq(ValidatedInsight)
  BY <1>1, ShippableIs
<1>9. \A d \in DIMENSIONS : \E v \in Elements(shippable) :
        v.claim.type = "QUALIFICATION_SIGNAL" /\ v.claim.title = d
  <2> SUFFICES ASSUME NEW d \in DIMENSIONS
               PROVE  \E v \in Elements(shippable) : v.claim.type = "QUALIFICATION_SIGNAL" /\ v.claim.title = d
    OBVIOUS
  <2>1. \E v \in Elements(shippable) : v.claim.type = "QUALIFICATION_SIGNAL" /\ v.claim.title \in {d}
    BY <1>5, <1>6
  <2> QED BY <2>1
<1>10. Shown(segments, "next_meeting_committed") =>
         \E v \in Elements(shippable) : v.claim.type = "COMMITMENT" /\ v.claim.title \in {"next meeting"}
  BY <1>5, <1>6
<1>11. ~Shown(segments, "next_meeting_committed") =>
         \E v \in Elements(shippable) : v.claim.type = "DEAL_RISK" /\ v.claim.title \in {"no_next_meeting"}
  BY <1>5, <1>6
<1>12. Shown(segments, "competitor_active") => \E v \in Elements(shippable) : v.claim.type = "COMPETITOR"
  BY <1>5, <1>6
<1>13. Shown(segments, "blocker_active") =>
         \E v \in Elements(shippable) : v.claim.type = "CUSTOMER_FACT" /\ v.claim.title \in {"blocker", "budget"}
  BY <1>5, <1>6
<1> QED BY <1>7, <1>8, <1>9, <1>10, <1>11, <1>12, <1>13 DEF Tellings

\* A list is empty exactly when it holds nothing.
LEMMA NonemptyHolds ==
  ASSUME NEW T, NEW s \in Seq(T)
  PROVE  s # <<>> <=> \E x : x \in Elements(s)
<1>1. s = <<>> => Elements(s) = {}
  BY EmptyHolds
<1>2. ASSUME s # <<>> PROVE s[1] \in Elements(s)
  <2>1. Len(s) \in Nat \ {0} /\ DOMAIN s = 1..Len(s)
    BY <1>2, EmptySeq, LenProperties
  <2>2. 1 \in DOMAIN s
    BY <2>1
  <2> QED BY <2>2, Zenon DEF Elements
<1> QED BY <1>1, <1>2

\* The titles of some insights, one by one.
LEMMA TitlesAre ==
  ASSUME NEW s
  PROVE  \A t : t \in TitlesOf(s) <=> \E v \in Elements(s) : v.claim.title = t
BY Zenon DEF TitlesOf, Elements

\* There is evidence exactly when one of the insights has some.
LEMMA EvidenceIs ==
  ASSUME NEW insights \in Seq(ValidatedInsight)
  PROVE  IdsOf(insights) # <<>> <=> \E v \in Elements(insights) : v.ids # <<>>
<1> DEFINE parts == [n \in DOMAIN insights |-> insights[n].ids]
<1>1. IdsOf(insights) = SE!FlattenSeq(parts)
  BY Zenon DEF IdsOf, ForEach
<1>2. \A n \in DOMAIN insights : insights[n] \in ValidatedInsight /\ parts[n] = insights[n].ids
  OBVIOUS
<1>3. parts = [n \in DOMAIN insights |-> parts[n]]
  OBVIOUS
<1> HIDE DEF parts
<1>4. \A v \in ValidatedInsight : v.ids \in Seq(Ids)
  BY DEF ValidatedInsight
<1>5. \A n \in DOMAIN insights : parts[n] \in Seq(Ids)
  BY <1>2, <1>4
<1>6. Collects(DOMAIN insights, parts, Ids, SE!FlattenSeq(parts))
  BY <1>3, <1>5, LoopCollects
<1>7. IdsOf(insights) # <<>> <=> \E x : x \in Elements(IdsOf(insights))
  BY <1>1, <1>6, NonemptyHolds DEF Collects
<1>8. (\E x : x \in Elements(IdsOf(insights))) <=> \E n \in DOMAIN insights : \E x : x \in Elements(parts[n])
  BY <1>1, <1>6 DEF Collects
<1>9. \A n \in DOMAIN insights : (\E x : x \in Elements(parts[n])) <=> insights[n].ids # <<>>
  BY <1>2, <1>5, NonemptyHolds
<1>10. (\E n \in DOMAIN insights : insights[n].ids # <<>>) <=> \E v \in Elements(insights) : v.ids # <<>>
  BY Zenon DEF Elements
<1> QED BY <1>7, <1>8, <1>9, <1>10

\* The signals of a dimension that was not shown, as the battlecard selects them.
LEMMA AbsentSignalsAre ==
  ASSUME NEW insights \in Seq(ValidatedInsight)
  PROVE  LET absent == Selected(OfType(insights, {"QUALIFICATION_SIGNAL"}), LAMBDA v : v.status = "ABSENCE_BASED")
         IN  \A v : v \in Elements(absent)
               <=> v \in Elements(insights) /\ v.claim.type = "QUALIFICATION_SIGNAL" /\ v.status = "ABSENCE_BASED"
<1> DEFINE signals == OfType(insights, {"QUALIFICATION_SIGNAL"})
           absent == Selected(signals, LAMBDA v : v.status = "ABSENCE_BASED")
           yes == {v \in ValidatedInsight : v.status = "ABSENCE_BASED"}
<1>1. /\ signals \in Seq(ValidatedInsight)
      /\ \A v : v \in Elements(signals) <=> v \in Elements(insights) /\ v.claim.type = "QUALIFICATION_SIGNAL"
  BY OfTypeIs
<1> HIDE DEF signals
<1>2. \A n \in DOMAIN signals : signals[n] \in ValidatedInsight
  BY <1>1
<1>3. [n \in DOMAIN signals |-> Where(signals[n].status = "ABSENCE_BASED", signals[n])]
      = [n \in DOMAIN signals |-> Where(signals[n] \in yes, signals[n])]
  <2>1. \A n \in DOMAIN signals : signals[n].status = "ABSENCE_BASED" <=> signals[n] \in yes
    BY <1>2
  <2> HIDE DEF yes
  <2> QED BY <2>1 DEF Where
<1>4. \A v \in Elements(signals) : v \in yes <=> v.status = "ABSENCE_BASED"
  BY <1>2 DEF Elements
<1> HIDE DEF yes
<1>5. absent = Among(signals, yes)
  BY <1>3, Zenon DEF Selected, ForEach, Among
<1>6. \A v : v \in Elements(absent) <=> v \in Elements(signals) /\ v \in yes
  BY <1>1, <1>5, AmongHolds
<1> HIDE DEF absent
<1>7. \A v : v \in Elements(absent)
        <=> v \in Elements(insights) /\ v.claim.type = "QUALIFICATION_SIGNAL" /\ v.status = "ABSENCE_BASED"
  BY <1>1, <1>4, <1>6
<1> QED BY <1>7 DEF absent, signals

\* A signal says whether its dimension was shown.
LEMMA SignalTells ==
  ASSUME NEW insights, Tellings(insights), NEW v \in Elements(insights), v.claim.type = "QUALIFICATION_SIGNAL"
  PROVE  /\ v.claim.title \in DIMENSIONS
         /\ v.claim.status = "SUPPORTED" <=> Shown(segments, v.claim.title)
         /\ v.status = "ABSENCE_BASED" <=> ~Shown(segments, v.claim.title)
         /\ v.ids # <<>> <=> Shown(segments, v.claim.title)
<1>1. Backs(segments, v.claim) /\ (v.ids # <<>> <=> v.claim.status = "SUPPORTED")
      /\ (v.status = "ABSENCE_BASED" <=> v.claim.status = "ABSENCE_BASED")
  BY DEF Tellings, Stands
<1>2. v.claim.title \in DIMENSIONS /\ (v.claim.status = "SUPPORTED" <=> Shown(segments, v.claim.title))
      /\ v.claim.status \in {"SUPPORTED", "ABSENCE_BASED"}
  BY <1>1 DEF Backs, Means
<1> QED BY <1>1, <1>2

\* The battlecard misses what was not shown.
LEMMA MissingIs ==
  ASSUME NEW insights \in Seq(ValidatedInsight), Tellings(insights)
  PROVE  build_battlecard(insights).missing = {d \in DIMENSIONS : ~Shown(segments, d)}
<1> DEFINE absent == Selected(OfType(insights, {"QUALIFICATION_SIGNAL"}), LAMBDA v : v.status = "ABSENCE_BASED")
<1>1. build_battlecard(insights).missing = TitlesOf(absent)
  BY DEF build_battlecard
<1>2. \A v : v \in Elements(absent)
        <=> v \in Elements(insights) /\ v.claim.type = "QUALIFICATION_SIGNAL" /\ v.status = "ABSENCE_BASED"
  BY AbsentSignalsAre
<1> HIDE DEF absent
<1>3. \A t : t \in TitlesOf(absent) <=> \E v \in Elements(absent) : v.claim.title = t
  BY TitlesAre
<1>4. ASSUME NEW t \in TitlesOf(absent) PROVE t \in DIMENSIONS /\ ~Shown(segments, t)
  BY <1>2, <1>3, SignalTells
<1>5. ASSUME NEW d \in DIMENSIONS, ~Shown(segments, d) PROVE d \in TitlesOf(absent)
  <2>1. PICK v \in Elements(insights) : v.claim.type = "QUALIFICATION_SIGNAL" /\ v.claim.title = d
    BY DEF Tellings
  <2>2. v \in Elements(absent)
    BY <1>2, <1>5, <2>1, SignalTells
  <2> QED BY <1>3, <2>1, <2>2
<1> QED BY <1>1, <1>4, <1>5

\* So do the dimension states.
LEMMA PipsAre ==
  ASSUME NEW insights \in Seq(ValidatedInsight), Tellings(insights), NEW d \in DIMENSIONS
  PROVE  signal_pips(insights)[d] = dimension_state(d, Shown(segments, d))
<1> DEFINE signals == Signals(insights, d)
<1>1. signal_pips(insights)[d] = dimension_state(d, signals # <<>> /\ Present(signals[Len(signals)]))
  BY DEF signal_pips
<1>2. /\ signals \in Seq(ValidatedInsight)
      /\ \A v : v \in Elements(signals)
           <=> v \in Elements(insights) /\ v.claim.type = "QUALIFICATION_SIGNAL" /\ v.claim.title = d
  BY SignalsAre
<1> HIDE DEF signals
<1>3. PICK v \in Elements(insights) : v.claim.type = "QUALIFICATION_SIGNAL" /\ v.claim.title = d
  BY DEF Tellings
<1>4. signals # <<>>
  BY <1>2, <1>3, NonemptyHolds
<1>5. Len(signals) \in DOMAIN signals
  <2>1. Len(signals) \in Nat \ {0} /\ DOMAIN signals = 1..Len(signals)
    BY <1>2, <1>4, EmptySeq, LenProperties
  <2> QED BY <2>1
<1>6. signals[Len(signals)] \in Elements(signals)
  BY <1>5, Zenon DEF Elements
<1>7. signals[Len(signals)].claim.status = "SUPPORTED" <=> Shown(segments, d)
  BY <1>2, <1>6, SignalTells
<1>8. (signals # <<>> /\ Present(signals[Len(signals)])) <=> Shown(segments, d)
  BY <1>4, <1>7 DEF Present
<1> QED BY <1>1, <1>8 DEF dimension_state

\* A CRM field is blocked exactly when the battlecard misses its dimension.
LEMMA BlockedIs ==
  ASSUME NEW insights \in Seq(ValidatedInsight), Tellings(insights), NEW name \in DOMAIN CRM_FIELDS
  PROVE  field_payload(insights, name).state = "BLOCKED"
           <=> CRM_FIELDS[name] \in build_battlecard(insights).missing
<1> DEFINE gate == CRM_FIELDS[name]
           evidence == IdsOf(Signals(insights, gate))
           field == field_payload(insights, name)
<1>1. /\ gate = None => field = agreed_amount
      /\ gate # None /\ signal_pips(insights)[gate] # "proven" => field = Field("BLOCKED", evidence)
      /\ gate # None /\ signal_pips(insights)[gate] = "proven" =>
           field = explicit_date(evidence) \/ field = quote_or_flag(evidence)
  BY DEF field_payload
<1>2. gate = None \/ gate \in DIMENSIONS \ ADVERSE_DIMENSIONS
  BY DEF CRM_FIELDS, DIMENSIONS, ADVERSE_DIMENSIONS
<1>3. None \notin DIMENSIONS
  BY DEF None, DIMENSIONS
<1>4. build_battlecard(insights).missing = {d \in DIMENSIONS : ~Shown(segments, d)}
  BY MissingIs
<1>5. agreed_amount.state # "BLOCKED" /\ Field("BLOCKED", evidence).state = "BLOCKED"
  BY DEF agreed_amount, Field
<1>6. explicit_date(evidence).state # "BLOCKED" /\ quote_or_flag(evidence).state # "BLOCKED"
  <2> HIDE DEF evidence
  <2>1. \A ids : Field("MANUAL", ids).state = "MANUAL" /\ Field("SUPPORTED", ids).state = "SUPPORTED"
    BY DEF Field
  <2>2. quote_or_flag(evidence) = Field("MANUAL", evidence) \/ quote_or_flag(evidence) = Field("SUPPORTED", evidence)
    BY DEF quote_or_flag
  <2>3. \E ids : explicit_date(evidence) = Field("MANUAL", ids) \/ explicit_date(evidence) = Field("SUPPORTED", ids)
    BY Zenon DEF explicit_date
  <2> QED BY <2>1, <2>2, <2>3
<1> HIDE DEF field, evidence, gate
<1>7. CASE gate = None
  BY <1>1, <1>3, <1>4, <1>5, <1>7 DEF field, gate
<1>8. CASE gate \in DIMENSIONS \ ADVERSE_DIMENSIONS
  <2>1. signal_pips(insights)[gate] = dimension_state(gate, Shown(segments, gate))
    BY <1>8, PipsAre
  <2>2. signal_pips(insights)[gate] = "proven" <=> Shown(segments, gate)
    BY <1>8, <2>1 DEF dimension_state
  <2>3. field.state = "BLOCKED" <=> ~Shown(segments, gate)
    BY <1>1, <1>3, <1>5, <1>6, <1>8, <2>2
  <2>4. gate \in build_battlecard(insights).missing <=> ~Shown(segments, gate)
    BY <1>4, <1>8
  <2> QED BY <2>3, <2>4 DEF field, gate
<1> QED BY <1>2, <1>7, <1>8

\* The e-mail confirms a meeting exactly when it has evidence of one.
LEMMA EvidencedMeeting ==
  ASSUME NEW insights, NEW items
  PROVE  MeetingSentence(insights, items).supported <=> IdsOf(Meetings(insights, items)) # <<>>
<1> DEFINE ids == IdsOf(Meetings(insights, items))
           against == contradicting_segment_id(insights)
           sentence == MeetingSentence(insights, items)
<1>1. \/ ids # <<>> /\ sentence = Fact("meeting", ids, NoId)
      \/ ids = <<>> /\ sentence = Fact("meeting", <<>>, against)
      \/ ids = <<>> /\ sentence = Courteous("no meeting")
  BY Zenon DEF MeetingSentence
<1> HIDE DEF ids, against, sentence
<1>2. Courteous("no meeting").supported = FALSE
  BY DEF Courteous
<1>3. Fact("meeting", ids, NoId).supported = (ids # <<>>) /\ Fact("meeting", <<>>, against).supported = FALSE
  BY DEF Fact
<1>4. sentence.supported <=> ids # <<>>
  BY <1>1, <1>2, <1>3
<1> QED BY <1>4 DEF ids, sentence

\* A sequence that is not empty has a first element.
LEMMA StartsAtOne ==
  ASSUME NEW E, NEW s \in Seq(E), s # <<>>
  PROVE  1 \in DOMAIN s
<1>1. Len(s) \in Nat \ {0} /\ DOMAIN s = 1..Len(s)
  BY EmptySeq, LenProperties
<1> QED BY <1>1

\* Of a stored commitment the extractor found scored as a meeting, a customer agreed.
LEMMA AgreedIsShown ==
  ASSUME Reasons, NEW insights \in Seq(ValidatedInsight), Tellings(insights), NEW v \in Elements(insights),
         v.claim.type = "COMMITMENT", v.claim.title = "next meeting", v.ids # <<>>
  PROVE  Shown(segments, "next_meeting_committed")
<1>1. /\ "next_meeting_committed" \in DIMENSIONS
      /\ LabelOf["next_meeting_committed"] = "next meeting commitment"
      /\ "next_meeting_committed" \in DOMAIN LabelOf
  BY DEF DIMENSIONS, LabelOf
<1>2. Stands(v) /\ v \in ValidatedInsight
  BY DEF Tellings
<1>3. v.ids = v.claim.ids /\ v.claim.status = "SUPPORTED" /\ Backs(segments, v.claim)
  BY <1>2 DEF Stands
<1>4. /\ v.claim.required = "customer"
      /\ \A n \in DOMAIN v.claim.ids : Scores(segments, v.claim.ids[n], "next meeting commitment")
      /\ \A n \in DOMAIN v.claim.ids :
           v.claim.ids[n] \in DOMAIN segments /\ v.claim.required \in {None, segments[v.claim.ids[n]].role}
  BY <1>3 DEF Backs, Means
<1>5. 1 \in DOMAIN v.claim.ids
  <2>1. v.claim.ids \in Seq(Ids) /\ v.claim.ids # <<>>
    BY <1>2, <1>3 DEF ValidatedInsight, CandidateInsight
  <2> QED BY <2>1, StartsAtOne
<1> DEFINE i == v.claim.ids[1]
<1>6. i \in By(segments, "customer") /\ Scores(segments, i, "next meeting commitment")
  BY <1>4, <1>5 DEF By, None
<1> HIDE DEF i
<1>7. PICK d \in Elements(Intent(segments)) : d[1] = "next_meeting_committed" /\ Tells(segments, d)
  BY <1>1, IntentTells DEF Reasons
<1>8. d[2] # 0
  BY <1>1, <1>6, <1>7 DEF Tells
<1> QED BY <1>7, <1>8 DEF Shown

\* Whoever agreed to a next meeting is evidence of the meeting the e-mail confirms;
\* and where nobody did, its evidence is the wording of some commitment.
LEMMA MeetingIs ==
  ASSUME Reasons, NEW insights \in Seq(ValidatedInsight), Tellings(insights), NEW items
  PROVE  /\ Shown(segments, "next_meeting_committed") => MeetingSentence(insights, items).supported
         /\ MeetingSentence(insights, items).supported =>
              \/ Shown(segments, "next_meeting_committed")
              \/ \E n \in DOMAIN insights : OnlyWorded(insights[n], items)
<1> DEFINE shown == Shown(segments, "next_meeting_committed")
           meetings == Meetings(insights, items)
<1>1. /\ meetings \in Seq(ValidatedInsight)
      /\ \A v : v \in Elements(meetings)
           <=> v \in Elements(insights) /\ v.claim.type = "COMMITMENT" /\ IsMeeting(v, items)
  BY MeetingsAre
<1>2. MeetingSentence(insights, items).supported <=> IdsOf(meetings) # <<>>
  BY EvidencedMeeting
<1> HIDE DEF meetings
<1>3. IdsOf(meetings) # <<>> <=> \E v \in Elements(meetings) : v.ids # <<>>
  BY <1>1, EvidenceIs
<1>4. ASSUME shown PROVE IdsOf(meetings) # <<>>
  <2>1. PICK v \in Elements(insights) : v.claim.type = "COMMITMENT" /\ v.claim.title = "next meeting"
    BY <1>4 DEF Tellings
  <2>2. Backs(segments, v.claim) /\ (v.ids # <<>> <=> v.claim.status = "SUPPORTED")
    BY DEF Tellings, Stands
  <2>3. v.claim.status = "SUPPORTED"
    BY <2>1, <2>2 DEF Backs, Means
  <2>4. IsMeeting(v, items)
    BY <2>1 DEF IsMeeting
  <2> QED BY <1>1, <1>3, <2>1, <2>2, <2>3, <2>4
<1>5. ASSUME IdsOf(meetings) # <<>>
      PROVE  shown \/ \E n \in DOMAIN insights : OnlyWorded(insights[n], items)
  <2>1. PICK v \in Elements(meetings) : v.ids # <<>>
    BY <1>3, <1>5
  <2>2. v \in Elements(insights) /\ v.claim.type = "COMMITMENT" /\ IsMeeting(v, items)
    BY <1>1
  <2>3. CASE v.claim.title = "next meeting"
    <3>1. shown
      BY <2>1, <2>2, <2>3, AgreedIsShown
    <3> QED BY <3>1
  <2>4. CASE WordedMeeting(v, items)
    <3>1. PICK n \in DOMAIN insights : v = insights[n]
      BY <2>2, Zenon DEF Elements
    <3> QED BY <2>2, <2>4, <3>1 DEF OnlyWorded
  <2> QED BY <2>2, <2>3, <2>4 DEF IsMeeting
<1> QED BY <1>2, <1>4, <1>5

\* A meeting is logged exactly when a customer agreed to one.
LEMMA LoggedIs ==
  ASSUME Reasons, NEW insights \in Seq(ValidatedInsight), Tellings(insights)
  PROVE  field_payload(insights, "log_completed_meeting").state = "SUPPORTED"
           <=> Shown(segments, "next_meeting_committed")
<1> DEFINE shown == Shown(segments, "next_meeting_committed")
           gate == "next_meeting_committed"
           evidence == IdsOf(Signals(insights, gate))
           field == field_payload(insights, "log_completed_meeting")
<1>1. /\ CRM_FIELDS["log_completed_meeting"] = gate /\ gate # None
      /\ gate \in DIMENSIONS \ ADVERSE_DIMENSIONS
  BY DEF CRM_FIELDS, None, DIMENSIONS, ADVERSE_DIMENSIONS
<1>2. /\ signal_pips(insights)[gate] # "proven" => field = Field("BLOCKED", evidence)
      /\ signal_pips(insights)[gate] = "proven" => field = quote_or_flag(evidence)
  BY <1>1 DEF field_payload
<1>3. signal_pips(insights)[gate] = "proven" <=> shown
  <2>1. signal_pips(insights)[gate] = dimension_state(gate, shown)
    BY <1>1, PipsAre
  <2> HIDE DEF shown
  <2> QED BY <1>1, <2>1 DEF dimension_state
<1>4. shown => evidence # <<>>
  <2> SUFFICES ASSUME shown PROVE evidence # <<>>
    OBVIOUS
  <2>1. PICK v \in Elements(insights) : v.claim.type = "QUALIFICATION_SIGNAL" /\ v.claim.title = gate
    BY <1>1 DEF Tellings
  <2>2. v.ids # <<>>
    BY <2>1, SignalTells
  <2>3. Signals(insights, gate) \in Seq(ValidatedInsight) /\ v \in Elements(Signals(insights, gate))
    BY <2>1, SignalsAre
  <2> QED BY <2>2, <2>3, EvidenceIs
<1> HIDE DEF evidence, field, shown
<1>5. Field("BLOCKED", evidence).state = "BLOCKED"
      /\ quote_or_flag(evidence).state = IF evidence = <<>> THEN "MANUAL" ELSE "SUPPORTED"
  BY DEF Field, quote_or_flag
<1>6. field.state = "SUPPORTED" <=> shown
  BY <1>2, <1>3, <1>4, <1>5
<1> QED BY <1>6 DEF shown, field

\* What a deal risk reports.
LEMMA RiskTells ==
  ASSUME NEW insights, Tellings(insights), NEW v \in Elements(insights), v.claim.type = "DEAL_RISK"
  PROVE  /\ v.ids # <<>> => v.claim.title \in OBSTACLES
         /\ v.claim.title \notin OBSTACLES => v.claim.status = "ABSENCE_BASED"
<1>1. Backs(segments, v.claim) /\ (v.ids # <<>> <=> v.claim.status = "SUPPORTED")
  BY DEF Tellings, Stands
<1>2. (v.claim.title \in OBSTACLES <=> v.claim.status = "SUPPORTED")
      /\ v.claim.status \in {"SUPPORTED", "ABSENCE_BASED"}
  BY <1>1 DEF Backs, Means
<1> QED BY <1>1, <1>2

\* Obstacles come before absences.
LEMMA KillerIs ==
  ASSUME NEW insights \in Seq(ValidatedInsight), Tellings(insights),
         top_deal_killer(insights) \in DOMAIN AbsenceOf,
         NEW v \in Elements(insights), v.claim.type = "DEAL_RISK"
  PROVE  v.ids = <<>>
<1> DEFINE P == DEAL_KILLER_PRIORITY
           risks == TitlesOf(OfType(insights, {"DEAL_RISK"}))
           ranked == Among(P, risks)
<1>1. top_deal_killer(insights) = IF ranked = <<>> THEN None ELSE ranked[1]
  BY Zenon DEF top_deal_killer, Selected, ForEach, Among
<1>2. /\ P[1] = "explicit rejection" /\ P[2] = "security blocker" /\ P[3] = "budget blocker"
      /\ P[4] = "technical blocker" /\ P[5] = "competitor mention" /\ DOMAIN P = 1..8
  BY DEF DEAL_KILLER_PRIORITY
<1>3. P \in Seq(Elements(P))
  <2>1. P \in Seq({P[1], P[2], P[3], P[4], P[5], P[6], P[7], P[8]})
    BY DEF DEAL_KILLER_PRIORITY
  <2> QED BY <2>1, OfItsElements
<1> HIDE DEF P
<1>4. SUFFICES ASSUME v.ids # <<>> PROVE FALSE
  OBVIOUS
<1>5. v.claim.title \in OBSTACLES
  BY <1>4, RiskTells
<1>6. v.claim.title \in risks
  <2>1. v \in Elements(OfType(insights, {"DEAL_RISK"}))
    BY OfTypeIs
  <2> QED BY <2>1, TitlesAre
<1> HIDE DEF risks
<1>7. P[1] \in risks \/ P[2] \in risks \/ P[3] \in risks \/ P[4] \in risks \/ P[5] \in risks
  BY <1>2, <1>5, <1>6 DEF OBSTACLES
<1>8. \E m \in 1..5 : P[m] \in risks /\ \A j \in 1..m - 1 : P[j] \notin risks
  <2>1. CASE P[1] \in risks
    BY <2>1
  <2>2. CASE P[1] \notin risks /\ P[2] \in risks
    <3>1. \A j \in 1..2 - 1 : j = 1
      OBVIOUS
    <3> QED BY <2>2, <3>1
  <2>3. CASE P[1] \notin risks /\ P[2] \notin risks /\ P[3] \in risks
    <3>1. \A j \in 1..3 - 1 : j = 1 \/ j = 2
      OBVIOUS
    <3> QED BY <2>3, <3>1
  <2>4. CASE P[1] \notin risks /\ P[2] \notin risks /\ P[3] \notin risks /\ P[4] \in risks
    <3>1. \A j \in 1..4 - 1 : j = 1 \/ j = 2 \/ j = 3
      OBVIOUS
    <3> QED BY <2>4, <3>1
  <2>5. CASE P[1] \notin risks /\ P[2] \notin risks /\ P[3] \notin risks /\ P[4] \notin risks /\ P[5] \in risks
    <3>1. \A j \in 1..5 - 1 : j = 1 \/ j = 2 \/ j = 3 \/ j = 4
      OBVIOUS
    <3> QED BY <2>5, <3>1
  <2> QED BY <1>7, <2>1, <2>2, <2>3, <2>4, <2>5
<1>9. PICK m \in 1..5 : P[m] \in risks /\ \A j \in 1..m - 1 : P[j] \notin risks
  BY <1>8
<1>10. m \in DOMAIN P
  <2>1. m \in 1..8
    OBVIOUS
  <2>2. DOMAIN P = 1..8
    BY <1>2, Zenon
  <2> QED BY <2>1, <2>2, Zenon
<1>11. ranked # <<>> /\ ranked[1] = P[m]
  <2>1. \A k \in DOMAIN P : P[k] \in risks /\ (\A j \in 1..k - 1 : P[j] \notin risks)
          => Among(P, risks) # <<>> /\ Among(P, risks)[1] = P[k]
    BY <1>3, AmongHolds
  <2> QED BY <1>9, <1>10, <2>1
<1>12. P[m] \in OBSTACLES
  <2>1. m = 1 \/ m = 2 \/ m = 3 \/ m = 4 \/ m = 5
    OBVIOUS
  <2> QED BY <1>2, <2>1, Zenon DEF OBSTACLES
<1>13. DOMAIN AbsenceOf = {"no_next_meeting", "no_economic_buyer", "no_timeline"}
  BY DEF AbsenceOf
<1>14. P[m] \notin DOMAIN AbsenceOf
  BY <1>12, <1>13 DEF OBSTACLES
<1> QED BY <1>1, <1>11, <1>14

\* Deduplication keeps the first.
LEMMA DedupedBegins ==
  ASSUME NEW T, NEW items \in Seq(T), items # <<>>
  PROVE  Deduped(items) \in Seq(T) /\ Deduped(items) # <<>> /\ Deduped(items)[1] = items[1]
<1> DEFINE yes == {i \in DOMAIN items : \A j \in 1..i - 1 : items[j] # items[i]}
           places == Places(items)
           first == Selected(places, LAMBDA i : \A j \in 1..i - 1 : items[j] # items[i])
<1>1. /\ places \in Seq(DOMAIN items) /\ DOMAIN places = DOMAIN items
      /\ \A i \in DOMAIN items : places[i] = i
  BY PlacesHolds
<1>2. 1 \in DOMAIN items
  <2>1. Len(items) \in Nat \ {0} /\ DOMAIN items = 1..Len(items)
    BY EmptySeq, LenProperties
  <2> QED BY <2>1
<1>3. [n \in DOMAIN places |-> Where(\A j \in 1..places[n] - 1 : items[j] # items[places[n]], places[n])]
      = [n \in DOMAIN places |-> Where(places[n] \in yes, places[n])]
  <2>1. \A n \in DOMAIN places : (\A j \in 1..places[n] - 1 : items[j] # items[places[n]]) <=> places[n] \in yes
    BY <1>1
  <2> HIDE DEF yes
  <2> QED BY <2>1 DEF Where
<1>4. 1 \in yes
  BY <1>2
<1>5. Deduped(items) = [k \in DOMAIN first |-> items[first[k]]]
  BY Zenon DEF Deduped
<1> HIDE DEF yes, places
<1>6. first = Among(places, yes)
  BY <1>3, Zenon DEF Selected, ForEach, Among
<1> HIDE DEF first
<1>7. first \in Seq(DOMAIN items)
  BY <1>1, <1>6, AmongHolds
<1>8. first # <<>> /\ first[1] = 1
  <2>1. 1 \in DOMAIN places /\ places[1] = 1
    BY <1>1, <1>2
  <2>2. \A j \in 1..1 - 1 : places[j] \notin yes
    OBVIOUS
  <2> QED BY <1>1, <1>4, <1>6, <2>1, <2>2, AmongHolds
<1>9. Len(first) \in Nat \ {0} /\ DOMAIN first = 1..Len(first)
  BY <1>7, <1>8, EmptySeq, LenProperties
<1>10. \A k \in DOMAIN first : items[first[k]] \in T
  BY <1>7
<1> DEFINE result == [k \in DOMAIN first |-> items[first[k]]]
<1>11. result \in Seq(T)
  BY <1>9, <1>10
<1>12. 1 \in DOMAIN first
  BY <1>9
<1>13. result[1] = items[1]
  BY <1>8, <1>12
<1>14. result # <<>>
  <2>1. DOMAIN result # {}
    BY <1>12
  <2> HIDE DEF result
  <2> QED BY <2>1
<1> QED BY <1>5, <1>11, <1>13, <1>14

\* The questions on missing fields are a list of rows.
LEMMA RowsAre == MISSING_FIELD_QUESTIONS \in Seq(Elements(MISSING_FIELD_QUESTIONS))
<1> DEFINE M == MISSING_FIELD_QUESTIONS
<1>1. M \in Seq({M[1], M[2], M[3], M[4], M[5], M[6], M[7], M[8]})
  BY DEF MISSING_FIELD_QUESTIONS
<1> QED BY <1>1, OfItsElements

\* The question on a dimension is that of its first row.
LEMMA QuestionIs ==
  ASSUME NEW dim, NEW k \in DOMAIN MISSING_FIELD_QUESTIONS, MISSING_FIELD_QUESTIONS[k][1] = dim,
         \A j \in 1..k - 1 : j \in DOMAIN MISSING_FIELD_QUESTIONS /\ MISSING_FIELD_QUESTIONS[j][1] # dim
  PROVE  QuestionOn(dim) = MISSING_FIELD_QUESTIONS[k][2]
<1> DEFINE M == MISSING_FIELD_QUESTIONS
           yes == {row \in Elements(M) : row[1] = dim}
<1>1. QuestionOn(dim) = SE!FlattenSeq([n \in DOMAIN M |-> Where(M[n][1] = dim, M[n])])[1][2]
  BY Zenon DEF QuestionOn, Selected, ForEach
<1>2. M \in Seq(Elements(M))
  BY RowsAre
<1>3. /\ k \in DOMAIN M /\ M[k][1] = dim
      /\ \A j \in 1..k - 1 : j \in DOMAIN M /\ M[j][1] # dim
  OBVIOUS
<1> HIDE DEF M
<1>4. \A n \in DOMAIN M : M[n][1] = dim <=> M[n] \in yes
  BY DEF Elements
<1>5. M[k] \in yes /\ \A j \in 1..k - 1 : M[j] \notin yes
  BY <1>3, <1>4
<1> HIDE DEF yes
<1>6. [n \in DOMAIN M |-> Where(M[n][1] = dim, M[n])] = [n \in DOMAIN M |-> Where(M[n] \in yes, M[n])]
  BY <1>4 DEF Where
<1>7. QuestionOn(dim) = Among(M, yes)[1][2]
  BY <1>1, <1>6, Zenon DEF Among
<1>8. Among(M, yes)[1] = M[k]
  <2>1. \A i \in DOMAIN M : M[i] \in yes /\ (\A j \in 1..i - 1 : M[j] \notin yes)
          => Among(M, yes) # <<>> /\ Among(M, yes)[1] = M[i]
    BY <1>2, AmongHolds
  <2> QED BY <1>3, <1>5, <2>1
<1> QED BY <1>7, <1>8 DEF M

\* What is asked begins with the first question on the deal killer.
LEMMA AsksFirst ==
  ASSUME NEW insights, NEW q, NEW r, DEAL_KILLER_QUESTIONS(top_deal_killer(insights)) = <<q, r>>
  PROVE  build_battlecard(insights).questions_to_ask[1] = q
<1> DEFINE M == MISSING_FIELD_QUESTIONS
           absent == TitlesOf(Selected(OfType(insights, {"QUALIFICATION_SIGNAL"}),
                                       LAMBDA v : v.status = "ABSENCE_BASED"))
           rest == [n \in DOMAIN M |-> Where(M[n][1] \in absent, M[n][2])]
           T == {q, r} \cup {M[n][2] : n \in DOMAIN M}
           items == <<q, r>> \o SE!FlattenSeq(rest)
           asked == Deduped(items)
           Shorter(n) == IF n < MAX_QUESTIONS THEN n ELSE MAX_QUESTIONS
<1>1. build_battlecard(insights).questions_to_ask =
        IF asked = <<>> THEN DEFAULT_QUESTIONS ELSE SubSeq(asked, 1, Shorter(Len(asked)))
  <2>1. build_battlecard(insights).questions_to_ask =
          LET all == Deduped(DEAL_KILLER_QUESTIONS(top_deal_killer(insights))
                             \o ForEach(MISSING_FIELD_QUESTIONS, LAMBDA row : Where(row[1] \in absent, row[2])))
          IN  IF all = <<>> THEN DEFAULT_QUESTIONS
              ELSE SubSeq(all, 1, IF Len(all) < MAX_QUESTIONS THEN Len(all) ELSE MAX_QUESTIONS)
    BY DEF build_battlecard
  <2>2. ForEach(MISSING_FIELD_QUESTIONS, LAMBDA row : Where(row[1] \in absent, row[2])) = SE!FlattenSeq(rest)
    BY Zenon DEF ForEach
  <2> QED BY <2>1, <2>2, Zenon
<1>2. M \in Seq(Elements(M))
  BY RowsAre
<1> HIDE DEF M, absent
<1>3. SE!FlattenSeq(rest) \in Seq(T)
  <2>1. \A n \in DOMAIN M : rest[n] \in Seq(T)
    <3> SUFFICES ASSUME NEW n \in DOMAIN M PROVE rest[n] \in Seq(T)
      OBVIOUS
    <3>1. M[n][2] \in T
      OBVIOUS
    <3> HIDE DEF T
    <3>2. Where(M[n][1] \in absent, M[n][2]) \in Seq(T)
      BY <3>1, WhereIn
    <3> QED BY <3>2
  <2>2. rest = [n \in DOMAIN M |-> rest[n]]
    OBVIOUS
  <2> HIDE DEF rest, T
  <2> QED BY <1>2, <2>1, <2>2, LoopIn
<1>4. <<q, r>> \in Seq(T) /\ <<q, r>> # <<>> /\ <<q, r>>[1] = q
  OBVIOUS
<1> HIDE DEF T, rest
<1>5. items \in Seq(T) /\ items # <<>> /\ items[1] = q
  <2> DEFINE opening == <<q, r>>
             more == SE!FlattenSeq(rest)
  <2>1. opening \in Seq(T) /\ opening # <<>> /\ opening[1] = q /\ more \in Seq(T)
    BY <1>3, <1>4
  <2>2. items = opening \o more
    OBVIOUS
  <2> HIDE DEF opening, more, items
  <2> QED BY <2>1, <2>2, ConcatElements, ConcatIn
<1> HIDE DEF items
<1>6. asked \in Seq(T) /\ asked # <<>> /\ asked[1] = q
  BY <1>5, DedupedBegins
<1> HIDE DEF asked
<1>7. Len(asked) \in Nat \ {0}
  BY <1>6, EmptySeq, LenProperties
<1>8. Shorter(Len(asked)) \in 1..Len(asked)
  BY <1>7 DEF MAX_QUESTIONS
<1> HIDE DEF Shorter
<1>9. SubSeq(asked, 1, Shorter(Len(asked)))[1] = asked[1]
  <2> DEFINE k == Shorter(Len(asked))
  <2>1. k \in 1..Len(asked) /\ k \in Int /\ 1 \in 1..k
    BY <1>7, <1>8
  <2> HIDE DEF k
  <2>2. SubSeq(asked, 1, k)[1] = asked[1]
    BY <1>6, <1>7, <2>1
  <2> QED BY <2>2 DEF k
<1> QED BY <1>1, <1>6, <1>9

\* An absence that tops the deal killers is asked about first.
LEMMA FirstQuestionIs ==
  ASSUME NEW insights, top_deal_killer(insights) \in DOMAIN AbsenceOf
  PROVE  build_battlecard(insights).questions_to_ask[1] = QuestionOn(AbsenceOf[top_deal_killer(insights)])
<1> DEFINE M == MISSING_FIELD_QUESTIONS
           killer == top_deal_killer(insights)
           Q == DEAL_KILLER_QUESTIONS(killer)
<1>1. /\ AbsenceOf["no_next_meeting"] = "next_meeting_committed"
      /\ AbsenceOf["no_economic_buyer"] = "economic_buyer_identified"
      /\ AbsenceOf["no_timeline"] = "timeline_identified"
      /\ DOMAIN AbsenceOf = {"no_next_meeting", "no_economic_buyer", "no_timeline"}
  BY DEF AbsenceOf
<1>2. /\ DOMAIN M = 1..8
      /\ M[1][1] = "pain_identified" /\ M[2][1] = "business_impact_identified"
      /\ M[3][1] = "timeline_identified" /\ M[4][1] = "economic_buyer_identified"
      /\ M[5][1] = "decision_maker_identified" /\ M[6][1] = "next_meeting_committed"
      /\ M[3][2] = "date needed" /\ M[4][2] = "budget owner" /\ M[6][2] = "when again"
  BY DEF MISSING_FIELD_QUESTIONS
<1>3. DEAL_KILLER_QUESTIONS("no_next_meeting") = <<"when again", "before that meeting">>
  BY DEF DEAL_KILLER_QUESTIONS, None
<1>4. DEAL_KILLER_QUESTIONS("no_economic_buyer") = <<"budget owner", "how to reach them">>
  BY DEF DEAL_KILLER_QUESTIONS, None
<1>5. DEAL_KILLER_QUESTIONS("no_timeline") = <<"date needed", "steps until then">>
  BY DEF DEAL_KILLER_QUESTIONS, None
<1>6. QuestionOn("next_meeting_committed") = "when again"
  <2>1. 6 \in DOMAIN M /\ \A j \in 1..6 - 1 : j \in DOMAIN M /\ (j = 1 \/ j = 2 \/ j = 3 \/ j = 4 \/ j = 5)
    <3>1. DOMAIN M = 1..8
      BY DEF MISSING_FIELD_QUESTIONS
    <3> HIDE DEF M
    <3> QED BY <3>1
  <2>2. /\ M[1][1] # "next_meeting_committed" /\ M[2][1] # "next_meeting_committed"
        /\ M[3][1] # "next_meeting_committed" /\ M[4][1] # "next_meeting_committed"
        /\ M[5][1] # "next_meeting_committed"
    BY <1>2
  <2>3. \A j \in 1..6 - 1 : j \in DOMAIN M /\ M[j][1] # "next_meeting_committed"
    <3> HIDE DEF M
    <3> QED BY <2>1, <2>2, Zenon
  <2> QED BY <1>2, <2>1, <2>3, QuestionIs
<1>7. QuestionOn("economic_buyer_identified") = "budget owner"
  <2>1. 4 \in DOMAIN M /\ \A j \in 1..4 - 1 : j \in DOMAIN M /\ (j = 1 \/ j = 2 \/ j = 3)
    <3>1. DOMAIN M = 1..8
      BY DEF MISSING_FIELD_QUESTIONS
    <3> HIDE DEF M
    <3> QED BY <3>1
  <2>2. /\ M[1][1] # "economic_buyer_identified" /\ M[2][1] # "economic_buyer_identified"
        /\ M[3][1] # "economic_buyer_identified"
    BY <1>2
  <2>3. \A j \in 1..4 - 1 : j \in DOMAIN M /\ M[j][1] # "economic_buyer_identified"
    <3> HIDE DEF M
    <3> QED BY <2>1, <2>2, Zenon
  <2> QED BY <1>2, <2>1, <2>3, QuestionIs
<1>8. QuestionOn("timeline_identified") = "date needed"
  <2>1. 3 \in DOMAIN M /\ \A j \in 1..3 - 1 : j \in DOMAIN M /\ (j = 1 \/ j = 2)
    <3>1. DOMAIN M = 1..8
      BY DEF MISSING_FIELD_QUESTIONS
    <3> HIDE DEF M
    <3> QED BY <3>1
  <2>2. M[1][1] # "timeline_identified" /\ M[2][1] # "timeline_identified"
    BY <1>2
  <2>3. \A j \in 1..3 - 1 : j \in DOMAIN M /\ M[j][1] # "timeline_identified"
    <3> HIDE DEF M
    <3> QED BY <2>1, <2>2, Zenon
  <2> QED BY <1>2, <2>1, <2>3, QuestionIs
<1>9. CASE killer = "no_next_meeting"
  BY <1>1, <1>3, <1>6, <1>9, AsksFirst
<1>10. CASE killer = "no_economic_buyer"
  BY <1>1, <1>4, <1>7, <1>10, AsksFirst
<1>11. CASE killer = "no_timeline"
  BY <1>1, <1>5, <1>8, <1>11, AsksFirst
<1> QED BY <1>1, <1>9, <1>10, <1>11

\* The brief sees buying intent in what was shown.
LEMMA IntentionIs ==
  ASSUME NEW insights \in Seq(ValidatedInsight), Tellings(insights), NEW items
  PROVE  build_manager_brief(insights, items).buying_intent = {d \in DIMENSIONS : Shown(segments, d)}
<1> DEFINE signals == OfType(insights, {"QUALIFICATION_SIGNAL"})
           intent == {signals[n].claim.title : n \in {m \in DOMAIN signals : Present(signals[m])}}
<1>1. build_manager_brief(insights, items).buying_intent = intent
  BY DEF build_manager_brief
<1>2. /\ signals \in Seq(ValidatedInsight)
      /\ \A v : v \in Elements(signals) <=> v \in Elements(insights) /\ v.claim.type = "QUALIFICATION_SIGNAL"
  BY OfTypeIs
<1> HIDE DEF signals
<1>3. ASSUME NEW v \in Elements(signals)
      PROVE  v.claim.title \in DIMENSIONS /\ (Present(v) <=> Shown(segments, v.claim.title))
  BY <1>2, SignalTells DEF Present
<1>4. ASSUME NEW n \in DOMAIN signals PROVE signals[n] \in Elements(signals)
  BY Zenon DEF Elements
<1>5. ASSUME NEW t \in intent PROVE t \in DIMENSIONS /\ Shown(segments, t)
  <2>1. PICK n \in DOMAIN signals : Present(signals[n]) /\ t = signals[n].claim.title
    OBVIOUS
  <2> QED BY <1>3, <1>4, <2>1
<1>6. ASSUME NEW d \in DIMENSIONS, Shown(segments, d) PROVE d \in intent
  <2>1. PICK v \in Elements(insights) : v.claim.type = "QUALIFICATION_SIGNAL" /\ v.claim.title = d
    BY DEF Tellings
  <2>2. v \in Elements(signals)
    BY <1>2, <2>1
  <2>3. PICK n \in DOMAIN signals : v = signals[n]
    BY <2>2, Zenon DEF Elements
  <2>4. Present(signals[n]) /\ d = signals[n].claim.title
    BY <1>3, <1>6, <2>1, <2>2, <2>3
  <2> QED BY <2>4
<1> HIDE DEF intent
<1> QED BY <1>1, <1>5, <1>6

\* What is shown was said by a customer, what is not by none.
LEMMA ShownIsSaid ==
  ASSUME NEW segs \in Seq(SegmentView), NEW d \in DIMENSIONS \cap DOMAIN LabelOf
  PROVE  Shown(segs, d) <=> \E i \in By(segs, "customer") : Scores(segs, i, LabelOf[d])
<1>1. PICK e \in Elements(Intent(segs)) : e[1] = d /\ Tells(segs, e)
  BY IntentTells
<1>2. Shown(segs, d) <=> e[2] # 0
  BY <1>1, IntentTells DEF Shown
<1> QED BY <1>1, <1>2 DEF Tells

\* The brief names a missing next meeting exactly when none was agreed.
LEMMA RefusalIs ==
  ASSUME Reasons, NEW insights \in Seq(ValidatedInsight), Tellings(insights), NEW items
  PROVE  "no_next_meeting" \in build_manager_brief(insights, items).why_they_do_not
           <=> ~Shown(segments, "next_meeting_committed")
<1> DEFINE against == OfType(insights, {"OBJECTION", "DEAL_RISK"})
<1>1. build_manager_brief(insights, items).why_they_do_not = TitlesOf(against)
  BY DEF build_manager_brief
<1>2. \A v : v \in Elements(against) <=> v \in Elements(insights) /\ v.claim.type \in {"OBJECTION", "DEAL_RISK"}
  BY OfTypeIs
<1> HIDE DEF against
<1>3. "no_next_meeting" \in TitlesOf(against)
        <=> \E v \in Elements(insights) :
              v.claim.type \in {"OBJECTION", "DEAL_RISK"} /\ v.claim.title = "no_next_meeting"
  BY <1>2, TitlesAre
<1>4. ASSUME NEW v \in Elements(insights), v.claim.type \in {"OBJECTION", "DEAL_RISK"},
             v.claim.title = "no_next_meeting"
      PROVE  ~Shown(segments, "next_meeting_committed")
  <2>1. Backs(segments, v.claim)
    BY DEF Tellings, Stands
  <2>2. v.claim.type = "DEAL_RISK"
    BY <1>4, <2>1 DEF Backs, Means
  <2>3. "no_next_meeting" \notin OBSTACLES
    BY DEF OBSTACLES
  <2>4. v.claim.status = "ABSENCE_BASED"
    BY <1>4, <2>2, <2>3, RiskTells
  <2>5. /\ "no_next_meeting" \in DOMAIN LabelOf /\ LabelOf["no_next_meeting"] = "next meeting commitment"
        /\ "next_meeting_committed" \in DIMENSIONS \cap DOMAIN LabelOf
        /\ LabelOf["next_meeting_committed"] = "next meeting commitment"
    BY DEF LabelOf, DIMENSIONS
  <2>6. \A i \in By(segments, "customer") : ~Scores(segments, i, "next meeting commitment")
    BY <1>4, <2>1, <2>4, <2>5 DEF Backs
  <2>7. Shown(segments, "next_meeting_committed")
          <=> \E i \in By(segments, "customer") : Scores(segments, i, LabelOf["next_meeting_committed"])
    BY <2>5, ShownIsSaid DEF Reasons
  <2> QED BY <2>5, <2>6, <2>7
<1>5. ASSUME ~Shown(segments, "next_meeting_committed")
      PROVE  \E v \in Elements(insights) : v.claim.type = "DEAL_RISK" /\ v.claim.title = "no_next_meeting"
  BY <1>5 DEF Tellings
<1> QED BY <1>1, <1>3, <1>4, <1>5

\* A meeting a customer agreed to is a commitment of the customer in the brief.
LEMMA CommitmentIs ==
  ASSUME NEW insights \in Seq(ValidatedInsight), Tellings(insights), NEW items,
         Shown(segments, "next_meeting_committed")
  PROVE  build_manager_brief(insights, items).customer_commitment
<1> DEFINE promises == OfType(insights, {"COMMITMENT"})
           Theirs(v) == Side(v, items) = "customer"
           yes == {v \in ValidatedInsight : Theirs(v)}
           committed == SE!FlattenSeq([n \in DOMAIN promises |-> Where(Theirs(promises[n]), promises[n])])
<1>1. build_manager_brief(insights, items).customer_commitment = (committed # <<>>)
  BY Zenon DEF build_manager_brief, Selected, ForEach
<1>2. PICK v \in Elements(insights) : v.claim.type = "COMMITMENT" /\ v.claim.title = "next meeting"
  BY DEF Tellings
<1>3. v \in ValidatedInsight
  BY DEF Elements
<1>4. Theirs(v)
  BY <1>2 DEF Side
<1>5. /\ promises \in Seq(ValidatedInsight)
      /\ \A w : w \in Elements(promises) <=> w \in Elements(insights) /\ w.claim.type = "COMMITMENT"
  BY OfTypeIs
<1> HIDE DEF promises, Theirs
<1>6. v \in yes /\ v \in Elements(promises)
  BY <1>2, <1>3, <1>4, <1>5
<1>7. \A n \in DOMAIN promises : Theirs(promises[n]) <=> promises[n] \in yes
  BY <1>5
<1> HIDE DEF yes
<1>8. committed = Among(promises, yes)
  BY <1>7 DEF Among, Where
<1> HIDE DEF committed
<1>9. committed \in Seq(ValidatedInsight) /\ v \in Elements(committed)
  BY <1>5, <1>6, <1>8, AmongHolds
<1>10. committed # <<>>
  BY <1>9, NonemptyHolds
<1> QED BY <1>1, <1>10

\* A competitor that is shown is named.
LEMMA CompetitionIs ==
  ASSUME NEW insights \in Seq(ValidatedInsight), Tellings(insights), NEW items,
         Shown(segments, "competitor_active")
  PROVE  build_manager_brief(insights, items).competition # {}
<1>1. build_manager_brief(insights, items).competition = TitlesOf(OfType(insights, {"COMPETITOR"}))
  BY DEF build_manager_brief
<1>2. PICK v \in Elements(insights) : v.claim.type = "COMPETITOR"
  BY DEF Tellings
<1>3. v \in Elements(OfType(insights, {"COMPETITOR"}))
  BY <1>2, OfTypeIs
<1>4. v.claim.title \in TitlesOf(OfType(insights, {"COMPETITOR"}))
  BY <1>3, TitlesAre
<1> QED BY <1>1, <1>4

\* Security leads only where a blocker was shown.
LEMMA SecurityIs ==
  ASSUME Reasons, NEW insights \in Seq(ValidatedInsight), Tellings(insights), NEW items,
         build_manager_brief(insights, items).security_lead
  PROVE  Shown(segments, "blocker_active")
<1>1. "security blocker" \in TitlesOf(OfType(insights, {"DEAL_RISK"}))
  BY DEF build_manager_brief
<1>2. PICK v \in Elements(insights) : v.claim.type = "DEAL_RISK" /\ v.claim.title = "security blocker"
  <2>1. \E v \in Elements(OfType(insights, {"DEAL_RISK"})) : v.claim.title = "security blocker"
    BY <1>1, TitlesAre
  <2>2. \A v : v \in Elements(OfType(insights, {"DEAL_RISK"}))
          <=> v \in Elements(insights) /\ v.claim.type \in {"DEAL_RISK"}
    BY OfTypeIs
  <2> QED BY <2>1, <2>2
<1>3. Backs(segments, v.claim)
  BY DEF Tellings, Stands
<1>4. PICK i \in By(segments, "customer") : Scores(segments, i, "security blocker")
  BY <1>2, <1>3 DEF Backs, Means
<1>5. "security blocker" \in Elements(BLOCKERS)
  <2>1. 1 \in DOMAIN BLOCKERS /\ BLOCKERS[1] = "security blocker"
    BY DEF BLOCKERS
  <2> QED BY <2>1, Zenon DEF Elements
<1>6. "blocker_active" \in DIMENSIONS
  BY DEF DIMENSIONS
<1>7. PICK d \in Elements(Intent(segments)) : d[1] = "blocker_active" /\ Tells(segments, d)
  BY <1>6, IntentTells DEF Reasons
<1>8. Searched(segments, "customer", Elements(BLOCKERS), d[2])
  BY <1>7 DEF Tells
<1>9. d[2] # 0
  BY <1>4, <1>5, <1>8 DEF Searched
<1> QED BY <1>7, <1>9 DEF Shown

\* A blocker that is shown is quoted to the customer.
LEMMA BlockerIsQuoted ==
  ASSUME NEW insights \in Seq(ValidatedInsight), Tellings(insights), NEW items,
         Shown(segments, "blocker_active")
  PROVE  LET draft == build_follow_up(insights, items)
         IN  "quote" \in {draft.sentences[n].about : n \in DOMAIN draft.sentences}
<1> DEFINE promises == OfType(insights, {"COMMITMENT"})
           facts == OfType(insights, {"CUSTOMER_FACT"})
           Promise(v) == Where(Side(v, items) = "seller", Fact(v.claim.title, v.ids, NoId))
           Quote(v) == Where(v.claim.title \in {"blocker", "budget", "requirement"}, Fact("quote", v.ids, NoId))
           said == [n \in DOMAIN promises |-> Promise(promises[n])]
           heard == [n \in DOMAIN facts |-> Quote(facts[n])]
           opening == <<Courteous("greeting"), Courteous("thanks")>>
           closing == <<MeetingSentence(insights, items)>>
           sentences == FollowUpSentences(insights, items)
<1>1. sentences = opening \o SE!FlattenSeq(said) \o SE!FlattenSeq(heard) \o closing
  BY Zenon DEF FollowUpSentences, ForEach
<1>2. opening \in Seq(Sentence) /\ closing \in Seq(Sentence)
  <2>1. Courteous("greeting") \in Sentence /\ Courteous("thanks") \in Sentence /\ MeetingSentence(insights, items) \in Sentence
    BY CourteousIs, MeetingIsSentence
  <2> QED BY <2>1
<1>3. /\ promises \in Seq(ValidatedInsight) /\ facts \in Seq(ValidatedInsight)
      /\ \A v : v \in Elements(promises) <=> v \in Elements(insights) /\ v.claim.type = "COMMITMENT"
      /\ \A v : v \in Elements(facts) <=> v \in Elements(insights) /\ v.claim.type = "CUSTOMER_FACT"
  BY OfTypeIs
<1> HIDE DEF promises, facts
<1>4. ASSUME NEW v \in ValidatedInsight
      PROVE  /\ Fact(v.claim.title, v.ids, NoId) \in Sentence
             /\ Fact("quote", v.ids, NoId) \in Sentence /\ Fact("quote", v.ids, NoId).about = "quote"
  <2> DEFINE t == v.claim.title
             ids == v.ids
  <2>1. t \in Titles \cup {"meeting", "quote"} /\ ids \in Seq(Ids) /\ NoId \in Ids \cup {NoId}
        /\ "quote" \in Titles \cup {"meeting", "quote"}
    BY DEF ValidatedInsight, CandidateInsight
  <2> HIDE DEF t, ids
  <2>2. Fact(t, ids, NoId) \in Sentence
    BY <2>1, FactIs
  <2> DEFINE about == "quote"
  <2>3. about \in Titles \cup {"meeting", "quote"}
    BY <2>1
  <2>4. about = "quote"
    OBVIOUS
  <2> HIDE DEF about
  <2>5. Fact(about, ids, NoId) \in Sentence
    BY <2>1, <2>3, FactIs
  <2>6. Fact(about, ids, NoId).about = about
    BY DEF Fact
  <2> QED BY <2>2, <2>4, <2>5, <2>6, Zenon DEF t, ids
<1>5. ASSUME NEW n \in DOMAIN promises PROVE said[n] \in Seq(Sentence)
  <2> DEFINE s == Fact(promises[n].claim.title, promises[n].ids, NoId)
             c == Side(promises[n], items) = "seller"
  <2>1. s \in Sentence
    BY <1>3, <1>4
  <2> HIDE DEF s, c
  <2>2. Where(c, s) \in Seq(Sentence)
    BY <2>1, WhereIn
  <2>3. said[n] = Where(c, s)
    BY DEF s, c
  <2> QED BY <2>2, <2>3
<1>6. ASSUME NEW n \in DOMAIN facts PROVE heard[n] \in Seq(Sentence)
  <2> DEFINE s == Fact("quote", facts[n].ids, NoId)
             c == facts[n].claim.title \in {"blocker", "budget", "requirement"}
  <2>1. s \in Sentence
    BY <1>3, <1>4
  <2> HIDE DEF s, c
  <2>2. Where(c, s) \in Seq(Sentence)
    BY <2>1, WhereIn
  <2>3. heard[n] = Where(c, s)
    BY DEF s, c
  <2> QED BY <2>2, <2>3
<1>7. PICK v \in Elements(insights) : v.claim.type = "CUSTOMER_FACT" /\ v.claim.title \in {"blocker", "budget"}
  BY DEF Tellings
<1>8. PICK m \in DOMAIN facts : v = facts[m]
  <2>1. v \in Elements(facts)
    BY <1>3, <1>7
  <2> QED BY <2>1, Zenon DEF Elements
<1>9. Fact("quote", v.ids, NoId) \in Elements(heard[m])
  <2>1. Quote(v) = <<Fact("quote", v.ids, NoId)>>
    BY <1>7 DEF Where
  <2>2. heard[m] = Quote(v)
    BY <1>8
  <2> HIDE DEF Quote
  <2> QED BY <2>1, <2>2, SingleHolds
<1>10. said = [n \in DOMAIN promises |-> said[n]] /\ heard = [n \in DOMAIN facts |-> heard[n]]
  OBVIOUS
<1> HIDE DEF said, heard, opening, closing, sentences
<1> DEFINE s1 == SE!FlattenSeq(said)
           s2 == SE!FlattenSeq(heard)
<1>11. s1 \in Seq(Sentence)
  BY <1>3, <1>5, <1>10, LoopIn
<1>12. Collects(DOMAIN facts, heard, Sentence, s2)
  BY <1>3, <1>6, <1>10, LoopCollects
<1>13. sentences = opening \o s1 \o s2 \o closing
  BY <1>1
<1>14. s2 \in Seq(Sentence) /\ Fact("quote", v.ids, NoId) \in Elements(s2)
  BY <1>8, <1>9, <1>12 DEF Collects
<1> HIDE DEF s1, s2
<1>15. Fact("quote", v.ids, NoId) \in Elements(sentences)
  <2>1. opening \o s1 \in Seq(Sentence)
    BY <1>2, <1>11, ConcatIn
  <2> DEFINE before == opening \o s1
             quote == Fact("quote", v.ids, NoId)
  <2>2. before \in Seq(Sentence) /\ sentences = before \o s2 \o closing /\ quote \in Elements(s2)
    BY <1>13, <1>14, <2>1
  <2> HIDE DEF before, quote
  <2>3. before \o s2 \in Seq(Sentence) /\ quote \in Elements(before \o s2)
    BY <1>14, <2>2, ConcatIn, ConcatElements
  <2> DEFINE middle == before \o s2
  <2>4. middle \in Seq(Sentence) /\ sentences = middle \o closing /\ quote \in Elements(middle)
    BY <2>2, <2>3
  <2> HIDE DEF middle
  <2>5. quote \in Elements(sentences)
    BY <1>2, <2>4, ConcatElements
  <2> QED BY <2>5 DEF quote
<1>16. PICK n \in DOMAIN sentences : sentences[n] = Fact("quote", v.ids, NoId)
  BY <1>15, Zenon DEF Elements
<1>17. sentences[n].about = "quote"
  <2>1. v \in ValidatedInsight
    BY <1>3, <1>8
  <2> QED BY <1>4, <1>16, <2>1
<1>18. build_follow_up(insights, items).sentences = sentences
  BY Zenon DEF build_follow_up, sentences
<1> QED BY <1>16, <1>17, <1>18

\* Battlecard, CRM preview and e-mail agree on what was stored.
LEMMA CardsAgree ==
  ASSUME Reasons, NEW insights \in Seq(ValidatedInsight), Tellings(insights)
  PROVE  LET card == build_battlecard(insights)
             crm  == crm_preview(insights)
         IN  /\ card.missing = {d \in DIMENSIONS : signal_pips(insights)[d] = "missing"}
             /\ \A name \in DOMAIN crm : crm[name].state = "BLOCKED" <=> CRM_FIELDS[name] \in card.missing
             /\ crm.log_completed_meeting.state = "SUPPORTED" <=> "next_meeting_committed" \notin card.missing
             /\ card.top_deal_killer \in DOMAIN AbsenceOf =>
                  /\ \A n \in DOMAIN insights : insights[n].claim.type = "DEAL_RISK" => insights[n].ids = <<>>
                  /\ card.questions_to_ask[1] = QuestionOn(AbsenceOf[card.top_deal_killer])
<1> DEFINE card == build_battlecard(insights)
           crm == crm_preview(insights)
<1>1. card.missing = {d \in DIMENSIONS : signal_pips(insights)[d] = "missing"}
  <2>1. card.missing = {d \in DIMENSIONS : ~Shown(segments, d)}
    BY MissingIs
  <2>2. \A d \in DIMENSIONS : signal_pips(insights)[d] = "missing" <=> ~Shown(segments, d)
    <3> SUFFICES ASSUME NEW d \in DIMENSIONS
                 PROVE  signal_pips(insights)[d] = "missing" <=> ~Shown(segments, d)
      OBVIOUS
    <3>1. signal_pips(insights)[d] = dimension_state(d, Shown(segments, d))
      BY PipsAre
    <3> QED BY <3>1 DEF dimension_state
  <2> HIDE DEF card
  <2> QED BY <2>1, <2>2
<1>2. DOMAIN crm = DOMAIN CRM_FIELDS /\ \A name \in DOMAIN CRM_FIELDS : crm[name] = field_payload(insights, name)
  BY DEF crm_preview
<1>3. card.top_deal_killer = top_deal_killer(insights)
  BY DEF build_battlecard
<1>4. \A name \in DOMAIN crm : crm[name].state = "BLOCKED" <=> CRM_FIELDS[name] \in card.missing
  <2> HIDE DEF crm
  <2> QED BY <1>2, BlockedIs
<1>5. "log_completed_meeting" \in DOMAIN CRM_FIELDS
  BY DEF CRM_FIELDS
<1>6. crm.log_completed_meeting.state = "SUPPORTED" <=> "next_meeting_committed" \notin card.missing
  <2>1. crm.log_completed_meeting = field_payload(insights, "log_completed_meeting")
    BY <1>2, <1>5
  <2>2. card.missing = {d \in DIMENSIONS : ~Shown(segments, d)} /\ "next_meeting_committed" \in DIMENSIONS
    BY MissingIs DEF DIMENSIONS
  <2> HIDE DEF crm, card
  <2> QED BY <2>1, <2>2, LoggedIs
<1>7. ASSUME card.top_deal_killer \in DOMAIN AbsenceOf
      PROVE  /\ \A n \in DOMAIN insights : insights[n].claim.type = "DEAL_RISK" => insights[n].ids = <<>>
             /\ card.questions_to_ask[1] = QuestionOn(AbsenceOf[card.top_deal_killer])
  <2>1. \A v \in Elements(insights) : v.claim.type = "DEAL_RISK" => v.ids = <<>>
    BY <1>3, <1>7, KillerIs
  <2>2. \A n \in DOMAIN insights : insights[n] \in Elements(insights)
    BY Zenon DEF Elements
  <2>3. card.questions_to_ask[1] = QuestionOn(AbsenceOf[card.top_deal_killer])
    BY <1>3, <1>7, FirstQuestionIs
  <2> HIDE DEF card
  <2> QED BY <2>1, <2>2, <2>3
<1> HIDE DEF card, crm
<1>8. /\ card.missing = {d \in DIMENSIONS : signal_pips(insights)[d] = "missing"}
      /\ \A name \in DOMAIN crm : crm[name].state = "BLOCKED" <=> CRM_FIELDS[name] \in card.missing
      /\ crm.log_completed_meeting.state = "SUPPORTED" <=> "next_meeting_committed" \notin card.missing
      /\ card.top_deal_killer \in DOMAIN AbsenceOf =>
           /\ \A n \in DOMAIN insights : insights[n].claim.type = "DEAL_RISK" => insights[n].ids = <<>>
           /\ card.questions_to_ask[1] = QuestionOn(AbsenceOf[card.top_deal_killer])
  BY <1>1, <1>4, <1>6, <1>7
<1> QED BY <1>8 DEF card, crm

\* So do the manager brief and the e-mail, whatever the recap says.
LEMMA BriefsAgree ==
  ASSUME Reasons, NEW insights \in Seq(ValidatedInsight), Tellings(insights), NEW items
  PROVE  LET card    == build_battlecard(insights)
             logged  == crm_preview(insights).log_completed_meeting.state = "SUPPORTED"
             meeting == MeetingSentence(insights, items)
             brief   == build_manager_brief(insights, items)
             about   == {build_follow_up(insights, items).sentences[n].about :
                           n \in DOMAIN build_follow_up(insights, items).sentences}
         IN  /\ brief.buying_intent = DIMENSIONS \ card.missing
             /\ "no_next_meeting" \in brief.why_they_do_not <=> ~logged
             /\ logged => meeting.supported /\ brief.customer_commitment
             /\ meeting.supported => logged \/ \E n \in DOMAIN insights : OnlyWorded(insights[n], items)
             /\ "competitor_active" \notin card.missing => brief.competition # {}
             /\ "blocker_active" \notin card.missing => "quote" \in about
             /\ brief.security_lead => "blocker_active" \notin card.missing
<1> DEFINE card == build_battlecard(insights)
           logged == crm_preview(insights).log_completed_meeting.state = "SUPPORTED"
           meeting == MeetingSentence(insights, items)
           brief == build_manager_brief(insights, items)
           about == {build_follow_up(insights, items).sentences[n].about :
                       n \in DOMAIN build_follow_up(insights, items).sentences}
<1>1. card.missing = {d \in DIMENSIONS : ~Shown(segments, d)}
  BY MissingIs
<1>2. brief.buying_intent = {d \in DIMENSIONS : Shown(segments, d)}
  BY IntentionIs
<1>3. logged <=> Shown(segments, "next_meeting_committed")
  <2>1. crm_preview(insights).log_completed_meeting = field_payload(insights, "log_completed_meeting")
    <3>1. "log_completed_meeting" \in DOMAIN CRM_FIELDS
      BY DEF CRM_FIELDS
    <3> QED BY <3>1 DEF crm_preview
  <2> QED BY <2>1, LoggedIs
<1>4. "no_next_meeting" \in brief.why_they_do_not <=> ~Shown(segments, "next_meeting_committed")
  BY RefusalIs
<1>5. Shown(segments, "next_meeting_committed") => meeting.supported /\ brief.customer_commitment
  BY MeetingIs, CommitmentIs
<1>6. Shown(segments, "competitor_active") => brief.competition # {}
  BY CompetitionIs
<1>7. Shown(segments, "blocker_active") => "quote" \in about
  BY BlockerIsQuoted
<1>8. brief.security_lead => Shown(segments, "blocker_active")
  BY SecurityIs
<1>9. "competitor_active" \in DIMENSIONS /\ "blocker_active" \in DIMENSIONS
  BY DEF DIMENSIONS
<1>10. meeting.supported => \/ Shown(segments, "next_meeting_committed")
                          \/ \E n \in DOMAIN insights : OnlyWorded(insights[n], items)
  BY MeetingIs
<1> HIDE DEF card, logged, meeting, brief, about
<1>11. brief.buying_intent = DIMENSIONS \ card.missing
  BY <1>1, <1>2
<1>12. /\ brief.buying_intent = DIMENSIONS \ card.missing
       /\ "no_next_meeting" \in brief.why_they_do_not <=> ~logged
       /\ logged => meeting.supported /\ brief.customer_commitment
       /\ meeting.supported => logged \/ \E n \in DOMAIN insights : OnlyWorded(insights[n], items)
       /\ "competitor_active" \notin card.missing => brief.competition # {}
       /\ "blocker_active" \notin card.missing => "quote" \in about
       /\ brief.security_lead => "blocker_active" \notin card.missing
  BY <1>1, <1>3, <1>4, <1>5, <1>6, <1>7, <1>8, <1>9, <1>11, <1>10
<1> QED BY <1>12 DEF card, logged, meeting, brief, about

\* Of what the extractors propose, the dimension states, the CRM preview, the
\* battlecard, the manager brief and the e-mail say the same, however much of it the
\* gate turned away as a repetition.
THEOREM SurfacesSayTheSame == Spec => []SurfacesAgree
<1>1. GateInv /\ Reasons => SurfacesAgree
  <2> SUFFICES ASSUME GateInv, Reasons, Judged, FromExtractors PROVE SurfacesAgree
    BY DEF SurfacesAgree
  <2>1. shippable \in Seq(ValidatedInsight) /\ Tellings(shippable)
    BY StoredTells
  <2> QED BY <2>1, CardsAgree, BriefsAgree, Zenon DEF SurfacesAgree
<1> QED BY <1>1, VerdictsHaveReasons, PTL

=============================================================================
