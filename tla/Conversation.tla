---------------------------- MODULE Conversation ----------------------------
(***************************************************************************)
(* What is computed from the segments of a call alone: speaker roles       *)
(* (intelligence/speakers.py), metrics (intelligence/metrics.py) and the   *)
(* chunks Ask-the-Call searches (intelligence/ask.py, api/v1/report.py).   *)
(*                                                                         *)
(* A segment is its speaker, its times in ms, the length of its text and   *)
(* the role cues heard in it.                                              *)
(***************************************************************************)
EXTENDS Integers, Sequences, FiniteSets

FE == INSTANCE FiniteSetsExt

Segment == [speaker : STRING, start : Int, end : Int, cues : SUBSET STRING, chars : Nat]

MONOLOGUE_GAP_MS == 500
SILENCE_GAP_MS == 2000
CHUNK_GAP_MS == 1500

NoChannel == -1
Roles == {"seller", "customer", "unknown"}
SellerCues == {"our product", "i'll send"}
CustomerCues == {"our budget", "we need"}

SpeakersOf(segs) == {segs[i].speaker : i \in DOMAIN segs}
Segments(segs, s) == {i \in DOMAIN segs : segs[i].speaker = s}
FirstSegment(segs, s) == FE!Min(Segments(segs, s))

-----------------------------------------------------------------------------
(* Roles.                                                                  *)

\* The score of a speaker, in halves.  Label scores are never passed.
Score(segs, outbound, s) ==
  LET heard == UNION {segs[i].cues : i \in Segments(segs, s)}
  IN 2 * (Cardinality(heard \cap SellerCues) - Cardinality(heard \cap CustomerCues))
     + (IF outbound /\ s = segs[1].speaker THEN 1 ELSE 0)

\* Highest score first; the sort is stable over the order of appearance.
Ahead(segs, outbound, s, t) ==
  \/ Score(segs, outbound, s) > Score(segs, outbound, t)
  \/ /\ Score(segs, outbound, s) = Score(segs, outbound, t)
     /\ FirstSegment(segs, s) <= FirstSegment(segs, t)

Top(segs, outbound, S) == CHOOSE s \in S : \A t \in S : Ahead(segs, outbound, s, t)

\* _mono: the top of the list sells, the next buys, the rest are unknown.
MonoRoles(segs, outbound) ==
  LET all    == SpeakersOf(segs)
      seller == Top(segs, outbound, all)
      others == all \ {seller}
  IN [s \in all |-> CASE s = seller -> "seller"
                      [] s = Top(segs, outbound, others) -> "customer"
                      [] OTHER -> "unknown"]

\* _stereo: the seller's channel sells, any other channel buys.
StereoRoles(segs, channel, sellerChannel) ==
  [s \in SpeakersOf(segs) |-> CASE channel[s] = sellerChannel -> "seller"
                                [] channel[s] = NoChannel -> "unknown"
                                [] OTHER -> "customer"]

-----------------------------------------------------------------------------
(* Metrics, over the segments by start time.                               *)

Before(segs, i, j) == \/ segs[i].start < segs[j].start
                      \/ segs[i].start = segs[j].start /\ i <= j

\* In their order: up to the k-th there are k of them.
ByStart(segs) ==
  [k \in DOMAIN segs |->
     CHOOSE i \in DOMAIN segs : Cardinality({j \in DOMAIN segs : Before(segs, j, i)}) = k]

Gap(segs, i, j) == segs[j].start - segs[i].end

GoesOn(segs, i, j) == segs[i].speaker = segs[j].speaker /\ Gap(segs, i, j) <= MONOLOGUE_GAP_MS

Lasts(segs, run) == segs[run[Len(run)]].end - segs[run[1]].start

\* _maybe_best: the longer run, the earlier of two as long, no empty one.
Longer(segs, best, run) ==
  IF Lasts(segs, run) > (IF best = <<>> THEN 0 ELSE Lasts(segs, best)) THEN run ELSE best

\* The run goes on with segment i, or ends and another begins.
Spoken(segs, acc, i) ==
  IF acc.run = <<>> THEN [acc EXCEPT !.run = <<i>>]
  ELSE IF GoesOn(segs, acc.run[Len(acc.run)], i) THEN [acc EXCEPT !.run = Append(@, i)]
  ELSE [best |-> Longer(segs, acc.best, acc.run), run |-> <<i>>]

Monologues(segs) ==
  LET order == ByStart(segs)
      after[k \in 0..Len(segs)] ==
        IF k = 0 THEN [best |-> <<>>, run |-> <<>>] ELSE Spoken(segs, after[k - 1], order[k])
  IN after[Len(segs)]

\* Mutant of LongestMonologue: the run in progress at the end is not compared.
LongestMonologueDropsLast(segs) == Monologues(segs).best

\* _longest_monologue, as the segments it names.
LongestMonologue(segs) ==
  LET all == Monologues(segs) IN
  IF all.run = <<>> THEN <<>> ELSE Longer(segs, all.best, all.run)

\* _silence_gaps: between neighbours.
SilenceGaps(segs) ==
  LET order == ByStart(segs)
  IN {<<segs[order[k]].end, segs[order[k + 1]].start>> :
        k \in {k \in 1..Len(order) - 1 : Gap(segs, order[k], order[k + 1]) > SILENCE_GAP_MS}}

-----------------------------------------------------------------------------
(* Chunks, over the segments as transcribed.                               *)

Chars(segs, chunk) ==
  LET sum[k \in 0..Len(chunk)] == IF k = 0 THEN 0 ELSE sum[k - 1] + segs[chunk[k]].chars
  IN sum[Len(chunk)]

Joins(segs, chunk, i, maxChars) ==
  LET prev == chunk[Len(chunk)] IN
  /\ segs[prev].speaker = segs[i].speaker
  /\ Gap(segs, prev, i) <= CHUNK_GAP_MS
  /\ Chars(segs, chunk) + segs[i].chars <= maxChars

\* Mutant of Taken: the segment that starts a new chunk is lost.
TakenOrLost(segs, acc, i, maxChars) ==
  IF acc.current = <<>> THEN [acc EXCEPT !.current = <<i>>]
  ELSE IF Joins(segs, acc.current, i, maxChars) THEN [acc EXCEPT !.current = Append(@, i)]
  ELSE [done |-> Append(acc.done, acc.current), current |-> <<>>]

\* Segment i joins the current chunk or begins another.
Taken(segs, acc, i, maxChars) ==
  IF acc.current = <<>> THEN [acc EXCEPT !.current = <<i>>]
  ELSE IF Joins(segs, acc.current, i, maxChars) THEN [acc EXCEPT !.current = Append(@, i)]
  ELSE [done |-> Append(acc.done, acc.current), current |-> <<i>>]

\* chunk_segments, as sequences of segments.
Chunks(segs, maxChars) ==
  LET after[k \in 0..Len(segs)] ==
        IF k = 0 THEN [done |-> <<>>, current |-> <<>>] ELSE Taken(segs, after[k - 1], k, maxChars)
      all == after[Len(segs)]
  IN IF all.current = <<>> THEN all.done ELSE Append(all.done, all.current)

\* Mutant of Packed: the span of the first segment.
PackedFirstOnly(segs, first, last) ==
  [ids |-> <<first, last>>, start |-> segs[first].start, end |-> segs[first].end]

\* _pack_chunks: a stored chunk has kept its first and last segment only, and
\* its span is looked up from these two.
Packed(segs, first, last) ==
  [ids |-> <<first, last>>,
   start |-> FE!Min({segs[first].start, segs[last].start}),
   end |-> FE!Max({segs[first].end, segs[last].end})]
=============================================================================
