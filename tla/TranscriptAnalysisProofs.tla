---------------------- MODULE TranscriptAnalysisProofs ----------------------
(***************************************************************************)
(* What TranscriptAnalysis's run checks on small calls, for a transcript   *)
(* of any length, requests of any size and any number of corrections,      *)
(* odd answers and late transcripts: all of its properties.                *)
(*                                                                         *)
(* The chunks, the monologues and the length of a chunk are functions      *)
(* defined by recursion over the transcript.  That they exist and what     *)
(* holds after every step of them comes from the lemmas Recursion and      *)
(* Induction, which take a set and a function where the library's          *)
(* theorems take an operator.                                              *)
(***************************************************************************)
EXTENDS TranscriptAnalysis, SequenceTheorems, FiniteSetTheorems, WellFoundedInduction, TLAPS

-----------------------------------------------------------------------------
(* Induction and recursion over the natural numbers, stated with a set and *)
(* a function: an operator for a parameter is more than the provers take.  *)

LEMMA Induction ==
  ASSUME NEW T, 0 \in T, \A n \in Nat : n \in T => n + 1 \in T
  PROVE  \A n \in Nat : n \in T
<1> DEFINE R == OpToRel(<, Nat)
           bad == Nat \ T
<1> SUFFICES ASSUME bad # {} PROVE FALSE
  OBVIOUS
<1>1. IsWellFoundedOn(R, Nat)
  BY NatLessThanWellFounded
<1>2. bad \subseteq Nat
  OBVIOUS
<1> HIDE DEF R
<1>3. PICK n \in bad : \A m \in bad : <<m, n>> \notin R
  <2> HIDE DEF bad
  <2> QED BY <1>1, <1>2, WFMin
<1>4. n \in Nat /\ n # 0 /\ n - 1 \in Nat /\ n - 1 \notin T
  <2>1. n \in Nat /\ n \notin T
    OBVIOUS
  <2>2. n # 0
    BY <2>1
  <2>3. n - 1 \in Nat
    BY <2>1, <2>2
  <2>4. n = (n - 1) + 1
    BY <2>1
  <2> QED BY <2>1, <2>2, <2>3, <2>4
<1>5. <<n - 1, n>> \in R
  BY <1>4 DEF R, OpToRel
<1> QED BY <1>3, <1>4, <1>5

\* A function on 0..n that starts with base and goes on with step.
Steps(S, base, step, n, g) ==
  /\ g \in [0..n -> S]
  /\ g[0] = base
  /\ \A m \in 0..n - 1 : g[m + 1] = step[<<g[m], m + 1>>]

LEMMA StepsExist ==
  ASSUME NEW S, NEW base \in S, NEW step \in [S \X Nat -> S]
  PROVE  \A n \in Nat : \E g : Steps(S, base, step, n, g)
<1> DEFINE T == {n \in Nat : \E g : Steps(S, base, step, n, g)}
<1>1. 0 \in T
  <2> DEFINE g == [m \in 0..0 |-> base]
  <2>1. Steps(S, base, step, 0, g)
    BY DEF Steps
  <2> QED BY <2>1
<1>2. ASSUME NEW n \in Nat, n \in T PROVE n + 1 \in T
  <2>1. PICK g : Steps(S, base, step, n, g)
    BY <1>2
  <2> DEFINE h == [m \in 0..n + 1 |-> IF m = n + 1 THEN step[<<g[n], n + 1>>] ELSE g[m]]
  <2>2. g[n] \in S /\ step[<<g[n], n + 1>>] \in S
    BY <2>1 DEF Steps
  <2>3. h \in [0..n + 1 -> S]
    BY <2>1, <2>2 DEF Steps
  <2>4. h[0] = base
    BY <2>1 DEF Steps
  <2>5. ASSUME NEW m \in 0..n PROVE h[m + 1] = step[<<h[m], m + 1>>]
    <3>0. m \in 0..n + 1 /\ m + 1 \in 0..n + 1 /\ h[m] = g[m]
      OBVIOUS
    <3>1. CASE m = n
      <4>1. h[m + 1] = step[<<g[n], n + 1>>]
        BY <3>0, <3>1
      <4> HIDE DEF h
      <4> QED BY <3>0, <3>1, <4>1
    <3>2. CASE m # n
      <4>1. h[m + 1] = g[m + 1]
        BY <3>0, <3>2
      <4> HIDE DEF h
      <4> QED BY <2>1, <3>0, <3>2, <4>1 DEF Steps
    <3> QED BY <3>1, <3>2
  <2>6. Steps(S, base, step, n + 1, h)
    <3> HIDE DEF h
    <3> QED BY <2>3, <2>4, <2>5 DEF Steps
  <2> QED BY <2>6
<1> HIDE DEF T
<1>3. \A n \in Nat : n \in T
  BY <1>1, <1>2, Induction
<1> QED BY <1>3 DEF T

LEMMA StepsAgree ==
  ASSUME NEW S, NEW base \in S, NEW step \in [S \X Nat -> S],
         NEW n \in Nat, NEW k \in Nat, NEW g, NEW h,
         Steps(S, base, step, n, g), Steps(S, base, step, k, h)
  PROVE  \A m \in Nat : m <= n /\ m <= k => g[m] = h[m]
<1> DEFINE T == {m \in Nat : m <= n /\ m <= k => g[m] = h[m]}
<1>1. 0 \in T
  BY DEF Steps
<1>2. ASSUME NEW m \in Nat, m \in T PROVE m + 1 \in T
  <2> SUFFICES ASSUME m + 1 <= n, m + 1 <= k PROVE g[m + 1] = h[m + 1]
    OBVIOUS
  <2>1. m \in 0..n - 1 /\ m \in 0..k - 1 /\ g[m] = h[m]
    BY <1>2
  <2> QED BY <2>1 DEF Steps
<1> HIDE DEF T
<1>3. \A m \in Nat : m \in T
  BY <1>1, <1>2, Induction
<1> QED BY <1>3 DEF T

AllSteps(S, base, step, f) ==
  /\ f \in [Nat -> S]
  /\ f[0] = base
  /\ \A n \in Nat : f[n + 1] = step[<<f[n], n + 1>>]

LEMMA Recursion ==
  ASSUME NEW S, NEW base \in S, NEW step \in [S \X Nat -> S]
  PROVE  \E f : AllSteps(S, base, step, f)
<1> DEFINE upto == [n \in Nat |-> CHOOSE g : Steps(S, base, step, n, g)]
           f == [n \in Nat |-> upto[n][n]]
<1>1. ASSUME NEW n \in Nat PROVE Steps(S, base, step, n, upto[n])
  BY StepsExist
<1> HIDE DEF upto
<1>2. ASSUME NEW n \in Nat PROVE f[n + 1] = step[<<f[n], n + 1>>]
  <2>1. Steps(S, base, step, n, upto[n]) /\ Steps(S, base, step, n + 1, upto[n + 1])
    BY <1>1
  <2>2. upto[n + 1][n] = upto[n][n]
    <3>1. n + 1 \in Nat /\ n <= n /\ n <= n + 1
      OBVIOUS
    <3> QED BY <2>1, <3>1, StepsAgree
  <2>3. upto[n + 1][n + 1] = step[<<upto[n + 1][n], n + 1>>]
    BY <2>1 DEF Steps
  <2> QED BY <2>2, <2>3
<1>3. f \in [Nat -> S] /\ f[0] = base
  BY <1>1 DEF Steps
<1> HIDE DEF f
<1> QED BY <1>2, <1>3 DEF AllSteps

-----------------------------------------------------------------------------
(* What a chunk holds.                                                     *)

Sums(ss, chunk, sum) ==
  /\ sum \in [0..Len(chunk) -> Int]
  /\ sum[0] = 0
  /\ \A k \in 1..Len(chunk) : sum[k] = sum[k - 1] + ss[chunk[k]].chars

LEMMA CharsSum ==
  ASSUME NEW ss \in Seq(Segment), NEW chunk \in Seq(DOMAIN ss)
  PROVE  \E sum : Sums(ss, chunk, sum) /\ Chars(ss, chunk) = sum[Len(chunk)]
<1> DEFINE n == Len(chunk)
           chars == [k \in Nat |-> IF k \in 1..n THEN ss[chunk[k]].chars ELSE 0]
           step == [x \in Int \X Nat |-> x[1] + chars[x[2]]]
           Sum(g) == g = [k \in 0..n |-> IF k = 0 THEN 0 ELSE g[k - 1] + ss[chunk[k]].chars]
<1>1. n \in Nat /\ \A k \in 1..n : ss[chunk[k]].chars \in Int
  <2>1. n \in Nat /\ \A k \in 1..n : chunk[k] \in DOMAIN ss
    OBVIOUS
  <2>2. \A i \in DOMAIN ss : ss[i] \in Segment
    OBVIOUS
  <2>3. \A x \in Segment : x.chars \in Int
    BY DEF Segment
  <2> QED BY <2>1, <2>2, <2>3
<1>2. chars \in [Nat -> Int] /\ \A k \in 1..n : chars[k] = ss[chunk[k]].chars
  BY <1>1
<1> HIDE DEF n, chars
<1>3. step \in [Int \X Nat -> Int]
  BY <1>2
<1>4. \A v \in Int, k \in Nat : step[<<v, k>>] = v + chars[k]
  OBVIOUS
<1> HIDE DEF step
<1>5. PICK f : AllSteps(Int, 0, step, f)
  <2>1. 0 \in Int
    OBVIOUS
  <2> QED BY <1>3, <2>1, Recursion
<1> DEFINE g == [k \in 0..n |-> f[k]]
<1>6. ASSUME NEW k \in 0..n, k # 0 PROVE f[k] = f[k - 1] + ss[chunk[k]].chars
  <2>1. k \in Nat /\ k \in 1..n /\ k - 1 \in Nat /\ (k - 1) + 1 = k
    BY <1>1, <1>6
  <2>2. f[k] = step[<<f[k - 1], k>>] /\ f[k - 1] \in Int
    BY <1>5, <2>1 DEF AllSteps
  <2>3. step[<<f[k - 1], k>>] = f[k - 1] + chars[k]
    BY <1>4, <2>1, <2>2, Zenon
  <2>4. chars[k] = ss[chunk[k]].chars
    BY <1>2, <2>1
  <2> QED BY <2>2, <2>3, <2>4, Zenon
<1>7. Sum(g)
  <2>1. \A k \in 0..n : g[k] = IF k = 0 THEN 0 ELSE g[k - 1] + ss[chunk[k]].chars
    <3> SUFFICES ASSUME NEW k \in 0..n PROVE g[k] = IF k = 0 THEN 0 ELSE g[k - 1] + ss[chunk[k]].chars
      OBVIOUS
    <3>1. CASE k = 0
      BY <1>5, <3>1 DEF AllSteps
    <3>2. CASE k # 0
      <4>1. k - 1 \in 0..n /\ g[k] = f[k] /\ g[k - 1] = f[k - 1]
        BY <1>1, <3>2
      <4> HIDE DEF g
      <4> QED BY <1>6, <3>2, <4>1
    <3> QED BY <3>1, <3>2
  <2>2. g = [k \in 0..n |-> g[k]]
    OBVIOUS
  <2> HIDE DEF g
  <2> QED BY <2>1, <2>2
<1> HIDE DEF g
<1>8. PICK h : h = CHOOSE each : Sum(each)
  OBVIOUS
<1>9. Sum(h)
  BY <1>7, <1>8
<1>10. Chars(ss, chunk) = h[n]
  BY <1>8, Zenon DEF Chars, n
<1>11. \A k \in 0..n : h[k] = IF k = 0 THEN 0 ELSE h[k - 1] + ss[chunk[k]].chars
  BY <1>9
<1>12. \A k \in Nat : k \in {m \in Nat : m \in 0..n => h[m] \in Int}
  <2> DEFINE T == {m \in Nat : m \in 0..n => h[m] \in Int}
  <2>1. 0 \in T
    <3>0. 0 \in 0..n
      BY <1>1
    <3>1. h[0] = 0
      BY <1>11, <3>0
    <3> QED BY <3>1
  <2>2. ASSUME NEW m \in Nat, m \in T PROVE m + 1 \in T
    <3> SUFFICES ASSUME m + 1 \in 0..n PROVE h[m + 1] \in Int
      OBVIOUS
    <3>1. m \in 0..n /\ m + 1 # 0 /\ (m + 1) - 1 = m /\ m + 1 \in 1..n
      BY <1>1
    <3>2. h[m + 1] = h[m] + ss[chunk[m + 1]].chars /\ h[m] \in Int
      BY <1>11, <2>2, <3>1
    <3>3. ss[chunk[m + 1]].chars \in Int
      BY <1>1, <3>1
    <3>4. \A x, y \in Int : x + y \in Int
      OBVIOUS
    <3> QED BY <3>2, <3>3, <3>4, Zenon
  <2> HIDE DEF T
  <2>3. \A k \in Nat : k \in T
    BY <2>1, <2>2, Induction
  <2> QED BY <2>3 DEF T
<1>13. h \in [0..n -> Int]
  <2>1. \A k \in 0..n : h[k] \in Int
    BY <1>1, <1>12
  <2>2. h = [k \in 0..n |-> h[k]]
    BY <1>9
  <2> QED BY <2>1, <2>2
<1>14. Sums(ss, chunk, h)
  <2>1. 0 \in 0..n /\ \A k \in 1..n : k \in 0..n /\ k # 0
    BY <1>1
  <2> QED BY <1>11, <1>13, <2>1 DEF Sums, n
<1> QED BY <1>10, <1>14 DEF n

LEMMA CharsType ==
  ASSUME NEW ss \in Seq(Segment), NEW chunk \in Seq(DOMAIN ss)
  PROVE  Chars(ss, chunk) \in Int
<1>1. Len(chunk) \in 0..Len(chunk)
  OBVIOUS
<1> QED BY <1>1, CharsSum DEF Sums

LEMMA CharsAppend ==
  ASSUME NEW ss \in Seq(Segment), NEW chunk \in Seq(DOMAIN ss), NEW i \in DOMAIN ss
  PROVE  Chars(ss, Append(chunk, i)) = Chars(ss, chunk) + ss[i].chars
<1> DEFINE longer == Append(chunk, i)
           n == Len(chunk)
<1>1. /\ longer \in Seq(DOMAIN ss) /\ n \in Nat /\ Len(longer) = n + 1 /\ longer[n + 1] = i
      /\ \A k \in 1..n : longer[k] = chunk[k]
  OBVIOUS
<1>2. PICK a : Sums(ss, chunk, a) /\ Chars(ss, chunk) = a[n]
  BY CharsSum
<1> HIDE DEF longer, n
<1>3. PICK b : Sums(ss, longer, b) /\ Chars(ss, longer) = b[n + 1]
  BY <1>1, CharsSum
<1> DEFINE T == {m \in Nat : m \in 0..n => a[m] = b[m]}
<1>4. 0 \in T
  BY <1>2, <1>3 DEF Sums
<1>5. ASSUME NEW m \in Nat, m \in T PROVE m + 1 \in T
  <2> SUFFICES ASSUME m + 1 \in 0..n PROVE a[m + 1] = b[m + 1]
    OBVIOUS
  <2>1. m \in 0..n /\ m + 1 \in 1..n /\ m + 1 \in 1..n + 1 /\ (m + 1) - 1 = m
    BY <1>1
  <2>2. a[m + 1] = a[m] + ss[chunk[m + 1]].chars
    BY <1>2, <2>1 DEF Sums, n
  <2>3. b[m + 1] = b[m] + ss[longer[m + 1]].chars
    BY <1>1, <1>3, <2>1 DEF Sums
  <2> QED BY <1>1, <1>5, <2>1, <2>2, <2>3
<1> HIDE DEF T
<1>6. n \in T
  BY <1>1, <1>4, <1>5, Induction
<1>7. a[n] = b[n]
  BY <1>1, <1>6 DEF T
<1>8. b[n + 1] = b[n] + ss[i].chars
  <2>1. n + 1 \in 1..Len(longer) /\ (n + 1) - 1 = n
    <3>1. Len(longer) = n + 1 /\ n \in Nat
      BY <1>1, Zenon
    <3> QED BY <3>1
  <2> QED BY <1>1, <1>3, <2>1 DEF Sums
<1> QED BY <1>2, <1>3, <1>7, <1>8 DEF longer

-----------------------------------------------------------------------------
(* Chunks.                                                                 *)

Chunking(ss) == [done : Seq(Seq(DOMAIN ss)), current : Seq(DOMAIN ss)]
NoChunks == [done |-> <<>>, current |-> <<>>]

LEMMA TakenType ==
  ASSUME NEW ss, NEW maxChars, NEW acc \in Chunking(ss), NEW i \in DOMAIN ss
  PROVE  Taken(ss, acc, i, maxChars) \in Chunking(ss)
<1>1. acc.done \in Seq(Seq(DOMAIN ss)) /\ acc.current \in Seq(DOMAIN ss)
      /\ acc = [done |-> acc.done, current |-> acc.current]
  BY DEF Chunking
<1>2. <<i>> \in Seq(DOMAIN ss) /\ Append(acc.current, i) \in Seq(DOMAIN ss)
      /\ Append(acc.done, acc.current) \in Seq(Seq(DOMAIN ss))
  BY <1>1
<1>3. /\ [acc EXCEPT !.current = <<i>>] = [done |-> acc.done, current |-> <<i>>]
      /\ [acc EXCEPT !.current = Append(acc.current, i)]
           = [done |-> acc.done, current |-> Append(acc.current, i)]
  <2>1. \A x : [acc EXCEPT !.current = x] = [done |-> acc.done, current |-> x]
    BY DEF Chunking
  <2> QED BY <2>1
<1> QED BY <1>1, <1>2, <1>3 DEF Taken, Chunking

\* How the chunks come about, a segment at a time.
ChunkSteps(ss, maxChars, after) ==
  /\ after \in [0..Len(ss) -> Chunking(ss)]
  /\ after[0] = NoChunks
  /\ \A k \in 1..Len(ss) : after[k] = Taken(ss, after[k - 1], k, maxChars)

LEMMA ChunksBySteps ==
  ASSUME NEW ss \in Seq(Segment), NEW maxChars
  PROVE  \E after : /\ ChunkSteps(ss, maxChars, after)
                    /\ Chunks(ss, maxChars) =
                         LET all == after[Len(ss)] IN
                         IF all.current = <<>> THEN all.done ELSE Append(all.done, all.current)
<1> DEFINE n == Len(ss)
           S == Chunking(ss)
           step == [x \in S \X Nat |-> IF x[2] \in 1..n THEN Taken(ss, x[1], x[2], maxChars) ELSE x[1]]
           IsAfter(g) == g = [k \in 0..n |-> IF k = 0 THEN [done |-> <<>>, current |-> <<>>]
                                             ELSE Taken(ss, g[k - 1], k, maxChars)]
<1>1. n \in Nat /\ DOMAIN ss = 1..n
  OBVIOUS
<1> HIDE DEF n
<1>2. NoChunks \in S
  <2>1. <<>> \in Seq(DOMAIN ss) /\ <<>> \in Seq(Seq(DOMAIN ss))
    OBVIOUS
  <2> QED BY <2>1 DEF NoChunks, Chunking
<1>3. step \in [S \X Nat -> S]
  <2> SUFFICES ASSUME NEW x \in S \X Nat
               PROVE  (IF x[2] \in 1..n THEN Taken(ss, x[1], x[2], maxChars) ELSE x[1]) \in S
    OBVIOUS
  <2> QED BY <1>1, TakenType
<1>4. \A v \in S, k \in 1..n : step[<<v, k>>] = Taken(ss, v, k, maxChars)
  <2> SUFFICES ASSUME NEW v \in S, NEW k \in 1..n PROVE step[<<v, k>>] = Taken(ss, v, k, maxChars)
    OBVIOUS
  <2>1. <<v, k>> \in S \X Nat /\ <<v, k>>[1] = v /\ <<v, k>>[2] = k
    BY <1>1
  <2> HIDE DEF S
  <2> QED BY <2>1
<1> HIDE DEF step, S
<1>5. PICK f : AllSteps(S, NoChunks, step, f)
  BY <1>2, <1>3, Recursion
<1> DEFINE g == [k \in 0..n |-> f[k]]
<1>6. ASSUME NEW k \in 1..n PROVE f[k] = Taken(ss, f[k - 1], k, maxChars)
  <2>1. k \in Nat /\ k - 1 \in Nat /\ (k - 1) + 1 = k
    BY <1>1
  <2>2. f[k] = step[<<f[k - 1], k>>] /\ f[k - 1] \in S
    BY <1>5, <2>1 DEF AllSteps
  <2> QED BY <1>4, <2>2
<1>7. IsAfter(g)
  <2>1. ASSUME NEW k \in 0..n
        PROVE  g[k] = IF k = 0 THEN [done |-> <<>>, current |-> <<>>] ELSE Taken(ss, g[k - 1], k, maxChars)
    <3>1. CASE k = 0
      BY <1>5, <3>1 DEF AllSteps, NoChunks
    <3>2. CASE k # 0
      <4>1. k \in 1..n /\ g[k] = f[k] /\ g[k - 1] = f[k - 1]
        BY <1>1, <3>2
      <4> HIDE DEF g
      <4> QED BY <1>6, <3>2, <4>1
    <3> QED BY <3>1, <3>2
  <2>2. g = [k \in 0..n |-> g[k]]
    OBVIOUS
  <2> HIDE DEF g
  <2> QED BY <2>1, <2>2, Zenon
<1> HIDE DEF g
<1>8. PICK h : h = CHOOSE each : IsAfter(each)
  OBVIOUS
<1>9. IsAfter(h)
  BY <1>7, <1>8
<1>10. Chunks(ss, maxChars) =
         LET all == h[n] IN IF all.current = <<>> THEN all.done ELSE Append(all.done, all.current)
  <2> DEFINE chosen == CHOOSE each : IsAfter(each)
  <2>1. Chunks(ss, maxChars) =
          LET all == chosen[n] IN IF all.current = <<>> THEN all.done ELSE Append(all.done, all.current)
    BY DEF Chunks, n
  <2> HIDE DEF IsAfter
  <2> QED BY <1>8, <2>1
<1>11. \A k \in 0..n : h[k] = IF k = 0 THEN NoChunks ELSE Taken(ss, h[k - 1], k, maxChars)
  BY <1>9, Zenon DEF NoChunks
<1> HIDE DEF IsAfter
<1> DEFINE T == {m \in Nat : m \in 0..n => h[m] = f[m]}
<1>12. 0 \in T
  <2>1. 0 \in 0..n
    BY <1>1
  <2>2. h[0] = NoChunks
    BY <1>11, <2>1
  <2> QED BY <1>5, <2>2 DEF AllSteps
<1>13. ASSUME NEW m \in Nat, m \in T PROVE m + 1 \in T
  <2> SUFFICES ASSUME m + 1 \in 0..n PROVE h[m + 1] = f[m + 1]
    OBVIOUS
  <2>1. m \in 0..n /\ m + 1 # 0 /\ (m + 1) - 1 = m /\ m + 1 \in 1..n
    BY <1>1
  <2>2. h[m + 1] = Taken(ss, h[m], m + 1, maxChars)
    BY <1>11, <2>1
  <2>3. f[m + 1] = Taken(ss, f[m], m + 1, maxChars)
    BY <1>6, <2>1
  <2> QED BY <1>13, <2>1, <2>2, <2>3
<1> HIDE DEF T
<1>14. \A k \in 0..n : h[k] = f[k]
  <2>1. \A k \in Nat : k \in T
    BY <1>12, <1>13, Induction
  <2> QED BY <1>1, <2>1 DEF T
<1>15. ChunkSteps(ss, maxChars, h)
  <2>1. h = [k \in 0..n |-> h[k]]
    BY <1>9, Zenon DEF IsAfter
  <2>2. \A k \in 0..n : h[k] \in S
    BY <1>1, <1>5, <1>14 DEF AllSteps
  <2>3. h \in [0..n -> S]
    BY <2>1, <2>2
  <2>4. 0 \in 0..n /\ \A k \in 1..n : k \in 0..n /\ k # 0
    BY <1>1
  <2> QED BY <1>11, <2>3, <2>4 DEF ChunkSteps, n, S
<1> QED BY <1>10, <1>15 DEF n

\* One chunk, and two that follow each other.
Piece(c) ==
  /\ c \in Seq(Segs)
  /\ c # <<>>
  /\ \A m \in 1..Len(c) - 1 : c[m + 1] = c[m] + 1 /\ ~Apart(c[m], c[m + 1])
  /\ Len(c) > 1 => Chars(segs, c) <= MaxChars

Cut(b, c) ==
  /\ c[1] = b[Len(b)] + 1
  /\ Apart(b[Len(b)], c[1]) \/ Chars(segs, b) + segs[c[1]].chars > MaxChars

Pieces(done) ==
  /\ \A k \in DOMAIN done : Piece(done[k])
  /\ \A k \in 2..Len(done) : Cut(done[k - 1], done[k])
  /\ done # <<>> => done[1][1] = 1

\* The chunks of the first k segments.
ChunkedTo(acc, k) ==
  IF k = 0 THEN acc = NoChunks
  ELSE /\ Piece(acc.current)
       /\ acc.current[Len(acc.current)] = k
       /\ Pieces(acc.done)
       /\ IF acc.done = <<>> THEN acc.current[1] = 1 ELSE Cut(acc.done[Len(acc.done)], acc.current)

LEMMA OnePiece ==
  ASSUME NEW i \in Segs
  PROVE  Piece(<<i>>)
<1>1. <<i>> \in Seq(Segs) /\ Len(<<i>>) = 1 /\ <<i>> # <<>>
  OBVIOUS
<1> QED BY <1>1 DEF Piece

LEMMA PiecesAppend ==
  ASSUME NEW done, done \in Seq(Seq(Segs)), NEW c \in Seq(Segs), Pieces(done), Piece(c),
         IF done = <<>> THEN c[1] = 1 ELSE Cut(done[Len(done)], c)
  PROVE  Pieces(Append(done, c))
<1> DEFINE longer == Append(done, c)
           n == Len(done)
<1>1. /\ n \in Nat /\ DOMAIN done = 1..n /\ Len(longer) = n + 1 /\ DOMAIN longer = 1..n + 1
      /\ longer[n + 1] = c /\ \A k \in 1..n : longer[k] = done[k]
      /\ done = <<>> <=> n = 0
  OBVIOUS
<1> HIDE DEF longer
<1>2. \A k \in DOMAIN longer : Piece(longer[k])
  BY <1>1 DEF Pieces
<1>3. ASSUME NEW k \in 2..Len(longer) PROVE Cut(longer[k - 1], longer[k])
  <2>1. CASE k = n + 1
    <3>1. n \in 1..n /\ k - 1 = n /\ done # <<>>
      BY <1>1, <2>1
    <3> QED BY <1>1, <2>1, <3>1
  <2>2. CASE k # n + 1
    <3>1. k \in 2..n /\ k \in 1..n /\ k - 1 \in 1..n
      BY <1>1, <2>2
    <3> QED BY <1>1, <3>1 DEF Pieces
  <2> QED BY <2>1, <2>2
<1>4. longer[1][1] = 1
  <2>1. CASE done = <<>>
    BY <1>1, <2>1
  <2>2. CASE done # <<>>
    <3>1. 1 \in 1..n
      BY <1>1, <2>2
    <3> QED BY <1>1, <2>2, <3>1 DEF Pieces
  <2> QED BY <2>1, <2>2
<1> QED BY <1>2, <1>3, <1>4 DEF Pieces, longer

LEMMA TakenChunks ==
  ASSUME segs \in Seq(Segment), MaxChars \in Nat, NEW k \in 1..Len(segs),
         NEW acc \in Chunking(segs), ChunkedTo(acc, k - 1)
  PROVE  ChunkedTo(Taken(segs, acc, k, MaxChars), k)
<1> DEFINE current == acc.current
           next == Taken(segs, acc, k, MaxChars)
<1>1. k \in Nat /\ k # 0 /\ k \in Segs /\ (k - 1) + 1 = k /\ k - 1 \in Nat
  BY DEF Segs
<1>2. current \in Seq(Segs) /\ acc.done \in Seq(Seq(Segs))
  BY DEF Chunking, Segs
<1>3. CASE k = 1
  <2>1. acc = NoChunks /\ current = <<>> /\ acc.done = <<>>
    BY <1>3 DEF ChunkedTo, NoChunks
  <2>2. next = [done |-> <<>>, current |-> <<k>>]
    BY <2>1 DEF Taken, NoChunks
  <2>3. Pieces(<<>>)
    BY DEF Pieces
  <2> DEFINE one == <<k>>
  <2>4. one[1] = 1 /\ one[Len(one)] = k
    BY <1>3
  <2>5. Piece(one)
    BY <1>1, OnePiece
  <2> HIDE DEF next, one
  <2>6. next.done = <<>> /\ next.current = one
    BY <2>2 DEF one
  <2>7. ChunkedTo(next, k)
    BY <1>1, <2>3, <2>4, <2>5, <2>6 DEF ChunkedTo
  <2> QED BY <2>7 DEF next
<1>4. CASE k # 1
  <2>1. /\ Piece(current) /\ current[Len(current)] = k - 1 /\ Pieces(acc.done)
        /\ IF acc.done = <<>> THEN current[1] = 1 ELSE Cut(acc.done[Len(acc.done)], current)
    <3>1. k - 1 # 0
      BY <1>1, <1>4
    <3> QED BY <3>1 DEF ChunkedTo
  <2>2. current # <<>> /\ Len(current) \in Nat \ {0} /\ DOMAIN current = 1..Len(current)
    BY <1>2, <2>1 DEF Piece
  <2>3. k - 1 \in Segs
    BY <1>2, <2>1, <2>2
  <2>4. Chars(segs, current) \in Int /\ segs[k].chars \in Nat
    <3>1. segs[k] \in Segment
      BY <1>1 DEF Segs
    <3> QED BY <1>2, <3>1, CharsType DEF Segs, Segment
  <2>5. Joins(segs, current, k, MaxChars) <=>
          ~Apart(k - 1, k) /\ Chars(segs, current) + segs[k].chars <= MaxChars
    <3>1. Gap(segs, k - 1, k) \in Int /\ CHUNK_GAP_MS \in Int
      <4>1. segs[k] \in Segment /\ segs[k - 1] \in Segment
        BY <1>1, <2>3 DEF Segs
      <4>2. segs[k].start \in Int /\ segs[k - 1].end \in Int
        BY <4>1 DEF Segment
      <4> QED BY <4>2 DEF Gap, CHUNK_GAP_MS
    <3>2. current[Len(current)] = k - 1
      BY <2>1
    <3> HIDE DEF current
    <3> QED BY <3>1, <3>2 DEF Joins, Apart
  <2>6. CASE Joins(segs, current, k, MaxChars)
    <3> DEFINE longer == Append(current, k)
               n == Len(current)
    <3>1. next = [done |-> acc.done, current |-> longer]
      BY <2>2, <2>6 DEF Taken, Chunking
    <3>2. /\ longer \in Seq(Segs) /\ longer # <<>> /\ Len(longer) = n + 1 /\ longer[n + 1] = k
          /\ \A m \in 1..n : longer[m] = current[m]
          /\ n \in Nat \ {0}
      BY <1>1, <1>2, <2>2
    <3>3. Chars(segs, longer) <= MaxChars
      BY <1>1, <1>2, <2>5, <2>6, CharsAppend DEF Segs
    <3> HIDE DEF longer, next
    <3>4. ASSUME NEW m \in 1..Len(longer) - 1
          PROVE  longer[m + 1] = longer[m] + 1 /\ ~Apart(longer[m], longer[m + 1])
      <4>1. CASE m = n
        <5>1. longer[m + 1] = k /\ longer[m] = k - 1
          BY <2>1, <3>2, <4>1
        <5> QED BY <1>1, <2>5, <2>6, <5>1
      <4>2. CASE m # n
        <5>1. m \in 1..n /\ m + 1 \in 1..n /\ m \in 1..n - 1
          BY <3>2, <4>2
        <5> QED BY <2>1, <3>2, <5>1 DEF Piece
      <4> QED BY <4>1, <4>2
    <3>5. Piece(longer)
      BY <3>2, <3>3, <3>4 DEF Piece
    <3>6. longer[1] = current[1] /\ longer[Len(longer)] = k
      BY <3>2
    <3> HIDE DEF current, n
    <3>7. next.done = acc.done /\ next.current = longer
      BY <3>1
    <3> QED BY <1>1, <2>1, <3>5, <3>6, <3>7 DEF ChunkedTo, Cut, next
  <2>7. CASE ~Joins(segs, current, k, MaxChars)
    <3> DEFINE longer == Append(acc.done, current)
               one == <<k>>
    <3>1. next = [done |-> longer, current |-> one]
      BY <2>2, <2>7 DEF Taken
    <3>2. Pieces(longer)
      BY <1>2, <2>1, PiecesAppend
    <3>3. /\ Len(longer) \in Nat \ {0} /\ longer[Len(longer)] = current /\ longer # <<>>
          /\ one[1] = k /\ Len(one) = 1
      <4>1. one[1] = k /\ Len(one) = 1
        OBVIOUS
      <4> HIDE DEF current
      <4>2. /\ Len(longer) = Len(acc.done) + 1 /\ longer[Len(acc.done) + 1] = current
            /\ Len(acc.done) \in Nat
        BY <1>2
      <4> HIDE DEF longer
      <4>3. Len(longer) # Len(<<>>)
        BY <4>2
      <4>4. longer # <<>>
        BY <4>3
      <4> QED BY <4>1, <4>2, <4>4
    <3>4. Cut(current, one)
      <4>1. Apart(k - 1, k) \/ Chars(segs, current) + segs[k].chars > MaxChars
        BY <2>4, <2>5, <2>7
      <4> HIDE DEF one, current
      <4> QED BY <1>1, <2>1, <3>3, <4>1 DEF Cut
    <3>5. Piece(one)
      BY <1>1, OnePiece
    <3> HIDE DEF longer, one, current, next
    <3>6. next.done = longer /\ next.current = one
      BY <3>1
    <3> QED BY <1>1, <3>2, <3>3, <3>4, <3>5, <3>6 DEF ChunkedTo, next
  <2> QED BY <2>6, <2>7
<1> QED BY <1>3, <1>4

\* chunk_segments cuts the segments in order, exactly where it must.
LEMMA ChunksCut ==
  ASSUME segs \in Seq(Segment), MaxChars \in Nat
  PROVE  LET all == Chunks(segs, MaxChars) IN
         /\ all \in Seq(Seq(Segs))
         /\ AllInOrder(all)
         /\ \A k \in DOMAIN all : CutRight(all, k)
<1> DEFINE n == Len(segs)
           all == Chunks(segs, MaxChars)
<1>1. PICK after : /\ ChunkSteps(segs, MaxChars, after)
                   /\ all = IF after[n].current = <<>> THEN after[n].done
                            ELSE Append(after[n].done, after[n].current)
  BY ChunksBySteps
<1>2. n \in Nat /\ (n = 0 <=> segs = <<>>)
  OBVIOUS
<1> DEFINE T == {k \in Nat : k \in 0..n => ChunkedTo(after[k], k)}
<1>3. 0 \in T
  BY <1>1 DEF ChunkSteps, ChunkedTo
<1>4. ASSUME NEW k \in Nat, k \in T PROVE k + 1 \in T
  <2> SUFFICES ASSUME k + 1 \in 0..n PROVE ChunkedTo(after[k + 1], k + 1)
    OBVIOUS
  <2>1. k \in 0..n /\ k + 1 \in 1..Len(segs) /\ (k + 1) - 1 = k
    BY <1>2
  <2>2. after[k] \in Chunking(segs) /\ after[k + 1] = Taken(segs, after[k], k + 1, MaxChars)
    BY <1>1, <2>1 DEF ChunkSteps
  <2>3. ChunkedTo(after[k], (k + 1) - 1)
    BY <1>4, <2>1
  <2> QED BY <2>1, <2>2, <2>3, TakenChunks
<1> HIDE DEF T
<1>5. n \in T
  BY <1>2, <1>3, <1>4, Induction
<1> DEFINE done == after[n].done
           current == after[n].current
<1>6. ChunkedTo(after[n], n) /\ done \in Seq(Seq(Segs)) /\ current \in Seq(Segs)
  <2>1. n \in 0..n
    BY <1>2
  <2>2. after[n] \in Chunking(segs)
    BY <1>1, <2>1 DEF ChunkSteps
  <2> QED BY <1>5, <2>1, <2>2 DEF T, Chunking, Segs
<1>7. CASE n = 0
  <2>1. all = <<>>
    BY <1>1, <1>6, <1>7 DEF ChunkedTo, NoChunks
  <2>2. <<>> \in Seq(Seq(Segs)) /\ DOMAIN <<>> = {} /\ Len(<<>>) = 0
    OBVIOUS
  <2>3. AllInOrder(<<>>)
    BY <1>2, <1>7, <2>2 DEF AllInOrder
  <2> QED BY <2>1, <2>2, <2>3
<1>8. CASE n # 0
  <2>1. Piece(current) /\ current[Len(current)] = n /\ Pieces(done)
        /\ IF done = <<>> THEN current[1] = 1 ELSE Cut(done[Len(done)], current)
    BY <1>6, <1>8 DEF ChunkedTo
  <2>2. all = Append(done, current)
    BY <1>1, <2>1 DEF Piece
  <2>3. Pieces(all)
    BY <1>6, <2>1, <2>2, PiecesAppend
  <2>4. all \in Seq(Seq(Segs)) /\ all # <<>> /\ Len(all) \in Nat \ {0} /\ all[Len(all)] = current
        /\ DOMAIN all = 1..Len(all)
    <3> DEFINE d == done
               c == current
               a == Append(d, c)
    <3>1. d \in Seq(Seq(Segs)) /\ c \in Seq(Segs) /\ all = a
      BY <1>6, <2>2
    <3> HIDE DEF all, done, current, d, c
    <3>2. /\ a \in Seq(Seq(Segs)) /\ a # <<>> /\ Len(a) = Len(d) + 1 /\ a[Len(d) + 1] = c
          /\ Len(d) \in Nat /\ DOMAIN a = 1..Len(a)
      BY <3>1
    <3> HIDE DEF a
    <3> QED BY <3>1, <3>2 DEF c
  <2> HIDE DEF all, done, current
  <2>5. AllInOrder(all)
    <3>1. \A k \in DOMAIN all : all[k] # <<>> /\ \A m \in 1..Len(all[k]) - 1 : all[k][m + 1] = all[k][m] + 1
      BY <2>3 DEF Pieces, Piece
    <3>2. \A k \in 2..Len(all) : all[k][1] = SE!Last(all[k - 1]) + 1
      BY <2>3 DEF Pieces, Cut, SE!Last
    <3>3. all[1][1] = 1 /\ SE!Last(all[Len(all)]) = n
      BY <2>1, <2>3, <2>4 DEF Pieces, SE!Last
    <3> QED BY <2>4, <3>1, <3>2, <3>3 DEF AllInOrder
  <2>6. ASSUME NEW k \in DOMAIN all PROVE CutRight(all, k)
    <3>1. Piece(all[k])
      BY <2>3 DEF Pieces
    <3>2. k > 1 => Cut(all[k - 1], all[k])
      <4>1. k > 1 => k \in 2..Len(all)
        BY <2>4
      <4> QED BY <2>3, <4>1 DEF Pieces
    <3> QED BY <3>1, <3>2 DEF CutRight, Piece, Cut, SE!Last
  <2> QED BY <2>4, <2>5, <2>6 DEF all
<1> QED BY <1>7, <1>8

-----------------------------------------------------------------------------
(* The rows of an answer.                                                  *)

\* The rows that may answer n texts.
RowFor(n) == [id : Int, of : 0..n]

LEMMA LastOfThem ==
  ASSUME NEW n \in Nat, NEW S, S \subseteq 1..n, S # {}
  PROVE  \E i \in S : \A j \in S : j <= i
<1> DEFINE T == {k \in Nat : \A R : R \subseteq 1..k => R = {} \/ \E i \in R : \A j \in R : j <= i}
<1>1. 0 \in T
  <2>1. 1..0 = {}
    OBVIOUS
  <2> QED BY <2>1
<1>2. ASSUME NEW k \in Nat, k \in T PROVE k + 1 \in T
  <2> SUFFICES ASSUME NEW R, R \subseteq 1..k + 1, R # {} PROVE \E i \in R : \A j \in R : j <= i
    OBVIOUS
  <2>1. CASE k + 1 \in R
    <3>1. \A j \in R : j <= k + 1
      OBVIOUS
    <3> QED BY <2>1, <3>1
  <2>2. CASE k + 1 \notin R
    <3>1. R \subseteq 1..k
      <4> SUFFICES ASSUME NEW x \in R PROVE x \in 1..k
        OBVIOUS
      <4>1. x \in 1..k + 1 /\ x # k + 1
        BY <2>2
      <4> QED BY <4>1
    <3> QED BY <1>2, <3>1
  <2> QED BY <2>1, <2>2
<1> HIDE DEF T
<1>3. n \in T
  BY <1>1, <1>2, Induction
<1> QED BY <1>3 DEF T

\* Whatever the answer, its rows are those of one that is long enough.
LEMMA AlignedType ==
  ASSUME NEW n \in Nat, n # 0, NEW answer \in Seq(RowFor(n))
  PROVE  \/ AlignedRows(answer, n) = Invalid
         \/ AlignedRows(answer, n) \in Seq(RowFor(n)) /\ Len(AlignedRows(answer, n)) = n
<1> DEFINE listed == IF answer = <<>> THEN <<Envelope>> ELSE answer
           items == AsItems(answer, n)
<1>1. listed \in Seq(RowFor(n))
  <2>1. Envelope \in RowFor(n)
    BY DEF Envelope, RowFor, NoId
  <2> HIDE DEF RowFor
  <2> QED BY <2>1
<1> HIDE DEF listed
<1>2. items = Invalid \/ (items \in Seq(RowFor(n)) /\ Len(items) = n)
  <2>1. CASE Len(listed) < n
    BY <2>1 DEF AsItems, listed
  <2>2. CASE ~(Len(listed) < n)
    <3>1. items = SubSeq(listed, 1, n)
      BY <2>2 DEF AsItems, listed
    <3>2. n <= Len(listed)
      BY <1>1, <2>2
    <3>3. \A k \in 1..n : k \in 1..Len(listed)
      BY <1>1, <3>2
    <3> HIDE DEF items
    <3>4. items \in Seq(RowFor(n)) /\ Len(items) = n
      <4> HIDE DEF RowFor
      <4> QED BY <1>1, <3>1, <3>2
    <3> QED BY <3>4
  <2> QED BY <2>1, <2>2
<1> HIDE DEF items
<1>3. CASE items # Invalid /\ Wanted(n) \subseteq Carried(items)
  <2>0. items \in Seq(RowFor(n)) /\ Len(items) = n /\ DOMAIN items = 1..n
    BY <1>2, <1>3
  <2>1. ASSUME NEW i \in 1..n PROVE RowOf(items, i - 1) \in RowFor(n)
    <3> DEFINE S == {j \in DOMAIN items : items[j].id = i - 1}
    <3>1. i - 1 \in Wanted(n)
      BY DEF Wanted
    <3>2. S # {} /\ S \subseteq 1..n
      BY <1>3, <2>0, <3>1 DEF Carried
    <3>3. \E j \in S : \A k \in S : k <= j
      <4> HIDE DEF S
      <4> QED BY <3>2, LastOfThem
    <3>4. \E j \in DOMAIN items :
             items[j].id = i - 1 /\ \A k \in DOMAIN items : items[k].id = i - 1 => k <= j
      BY <3>3
    <3> DEFINE last == CHOOSE j \in DOMAIN items :
             items[j].id = i - 1 /\ \A k \in DOMAIN items : items[k].id = i - 1 => k <= j
    <3>5. last \in DOMAIN items
      BY <3>4
    <3>6. RowOf(items, i - 1) = items[last]
      BY DEF RowOf
    <3> HIDE DEF last, RowFor
    <3> QED BY <2>0, <3>5, <3>6
  <2> DEFINE found == [i \in 1..n |-> RowOf(items, i - 1)]
  <2>2. AlignedRows(answer, n) = found
    BY <1>3, Zenon DEF AlignedRows, items
  <2>3. found \in [1..n -> RowFor(n)]
    BY <2>1
  <2> HIDE DEF found, RowFor
  <2>4. found \in Seq(RowFor(n)) /\ Len(found) = n
    BY <2>3
  <2> QED BY <2>2, <2>4
<1>4. CASE items = Invalid
  BY <1>4 DEF AlignedRows, items
<1>5. CASE items # Invalid /\ ~(Wanted(n) \subseteq Carried(items))
  <2>1. AlignedRows(answer, n) = items
    BY <1>5, Zenon DEF AlignedRows, items
  <2> QED BY <1>2, <1>5, <2>1
<1> QED BY <1>3, <1>4, <1>5

LEMMA InOrderRows ==
  ASSUME NEW n \in Nat
  PROVE  /\ InOrder(n) \in Seq(RowFor(n)) /\ Len(InOrder(n)) = n
         /\ \A i \in 1..n : InOrder(n)[i].id = i - 1 /\ InOrder(n)[i].of = i
<1>1. \A i \in 1..n : [id |-> i - 1, of |-> i] \in RowFor(n)
  BY DEF RowFor
<1>2. InOrder(n) \in [1..n -> RowFor(n)]
  BY <1>1 DEF InOrder
<1>3. \A i \in 1..n : InOrder(n)[i].id = i - 1 /\ InOrder(n)[i].of = i
  BY DEF InOrder
<1> HIDE DEF RowFor
<1> QED BY <1>2, <1>3

LEMMA ReversedRows ==
  ASSUME NEW n \in Nat
  PROVE  /\ Reversed(n) \in Seq(RowFor(n)) /\ Len(Reversed(n)) = n
         /\ \A i \in 1..n : Reversed(n)[i].id = n - i /\ Reversed(n)[i].of = n + 1 - i
<1>1. \A i \in 1..n : [id |-> n - i, of |-> n + 1 - i] \in RowFor(n)
  BY DEF RowFor
<1>2. Reversed(n) \in [1..n -> RowFor(n)]
  BY <1>1 DEF Reversed
<1>3. \A i \in 1..n : Reversed(n)[i].id = n - i /\ Reversed(n)[i].of = n + 1 - i
  BY DEF Reversed
<1> HIDE DEF RowFor
<1> QED BY <1>2, <1>3

LEMMA NoIdsRows ==
  ASSUME NEW n \in Nat, NEW list \in Seq(RowFor(n))
  PROVE  /\ NoIds(list) \in Seq(RowFor(n)) /\ Len(NoIds(list)) = Len(list)
         /\ \A i \in DOMAIN list : NoIds(list)[i].id = NoId /\ NoIds(list)[i].of = list[i].of
<1> DEFINE m == Len(list)
<1>1. m \in Nat /\ DOMAIN list = 1..m /\ \A i \in 1..m : list[i] \in RowFor(n)
  BY DEF m
<1>2. ASSUME NEW i \in 1..m
      PROVE  /\ [list[i] EXCEPT !.id = NoId] \in RowFor(n)
             /\ [list[i] EXCEPT !.id = NoId].id = NoId
             /\ [list[i] EXCEPT !.id = NoId].of = list[i].of
  <2>1. list[i] \in RowFor(n)
    BY <1>1
  <2>2. \A r \in RowFor(n) : /\ [r EXCEPT !.id = NoId] \in RowFor(n)
                             /\ [r EXCEPT !.id = NoId].id = NoId
                             /\ [r EXCEPT !.id = NoId].of = r.of
    BY DEF RowFor, NoId
  <2> HIDE DEF m
  <2> QED BY <2>1, <2>2
<1>3. NoIds(list) = [i \in 1..m |-> [list[i] EXCEPT !.id = NoId]]
  BY <1>1 DEF NoIds
<1>4. \A i \in DOMAIN list : NoIds(list)[i].id = NoId /\ NoIds(list)[i].of = list[i].of
  BY <1>1, <1>2, <1>3
<1> HIDE DEF RowFor, m
<1>5. NoIds(list) \in [1..m -> RowFor(n)]
  BY <1>2, <1>3
<1>6. NoIds(list) \in Seq(RowFor(n)) /\ Len(NoIds(list)) = m
  BY <1>1, <1>5
<1> QED BY <1>4, <1>6 DEF m

LEMMA AnswersType ==
  ASSUME NEW n \in Nat, n # 0,
         NEW answer \in HonestAnswers(n) \cup MisleadingAnswers(n) \cup ShortAnswers(n)
  PROVE  answer \in Seq(RowFor(n))
<1>1. InOrder(n) \in Seq(RowFor(n)) /\ Reversed(n) \in Seq(RowFor(n))
      /\ Len(InOrder(n)) = n /\ Len(Reversed(n)) = n
  BY InOrderRows, ReversedRows
<1>2. NoIds(InOrder(n)) \in Seq(RowFor(n)) /\ NoIds(Reversed(n)) \in Seq(RowFor(n))
  BY <1>1, NoIdsRows
<1>3. [Reversed(n) EXCEPT ![1].id = NoId] \in Seq(RowFor(n))
  <2> DEFINE r == Reversed(n)
             first == [r[1] EXCEPT !.id = NoId]
             list == [r EXCEPT ![1] = first]
  <2>1. r[1] \in RowFor(n)
    <3> HIDE DEF RowFor
    <3> QED BY <1>1
  <2> HIDE DEF r
  <2>2. first \in RowFor(n)
    BY <2>1 DEF RowFor, NoId
  <2> HIDE DEF first, RowFor
  <2>3. list \in Seq(RowFor(n))
    BY <1>1, <2>2 DEF r
  <2>4. [r EXCEPT ![1].id = NoId] = list
    BY DEF first
  <2> QED BY <2>3, <2>4 DEF r
<1>4. <<[id |-> n, of |-> 0]>> \o InOrder(n) \in Seq(RowFor(n))
  <2> DEFINE extra == [id |-> n, of |-> 0]
  <2>1. extra \in RowFor(n)
    BY DEF RowFor
  <2> HIDE DEF extra, RowFor
  <2>2. <<extra>> \in Seq(RowFor(n))
    BY <2>1
  <2>3. <<extra>> \o InOrder(n) \in Seq(RowFor(n))
    BY <1>1, <2>2
  <2> QED BY <2>3 DEF extra
<1>5. SubSeq(InOrder(n), 1, n - 1) \in Seq(RowFor(n))
  <2> HIDE DEF RowFor
  <2> QED BY <1>1
<1>6. <<>> \in Seq(RowFor(n))
  BY EmptySeq
<1> HIDE DEF RowFor
<1> QED BY <1>1, <1>2, <1>3, <1>4, <1>5, <1>6 DEF HonestAnswers, MisleadingAnswers, ShortAnswers

\* An honest answer: each text has the row that scores it.
LEMMA HonestRows ==
  ASSUME NEW n \in Nat, n # 0, NEW answer \in HonestAnswers(n)
  PROVE  /\ AlignedRows(answer, n) \in Seq(RowFor(n))
         /\ Len(AlignedRows(answer, n)) = n
         /\ \A i \in 1..n : AlignedRows(answer, n)[i].of = i
<1> DEFINE items == AsItems(answer, n)
<1>1. answer \in Seq(RowFor(n)) /\ Len(answer) = n /\ DOMAIN answer = 1..n /\ answer # <<>>
  <2>1. Len(answer) = n
    BY InOrderRows, ReversedRows, NoIdsRows DEF HonestAnswers
  <2>2. answer \in Seq(RowFor(n))
    BY AnswersType
  <2> HIDE DEF RowFor
  <2> QED BY <2>1, <2>2
<1>2. items = answer
  <2>1. items = SubSeq(answer, 1, n)
    BY <1>1 DEF AsItems
  <2> HIDE DEF items, RowFor
  <2> QED BY <1>1, <2>1
<1>3. items # Invalid
  BY <1>1, <1>2 DEF Invalid
<1> HIDE DEF items
<1>4. ASSUME NEW at, \A i \in 1..n : at[i] \in 1..n /\ \A j \in 1..n : answer[j].id = i - 1 <=> j = at[i],
             \A i \in 1..n : answer[at[i]].of = i
      PROVE  /\ Len(AlignedRows(answer, n)) = n
             /\ \A i \in 1..n : AlignedRows(answer, n)[i].of = i
  <2>1. Wanted(n) \subseteq Carried(answer)
    <3> SUFFICES ASSUME NEW w \in 0..n - 1 PROVE w \in Carried(answer)
      BY DEF Wanted
    <3>1. w + 1 \in 1..n /\ (w + 1) - 1 = w
      OBVIOUS
    <3>2. at[w + 1] \in 1..n /\ answer[at[w + 1]].id = w
      BY <1>4, <3>1
    <3> QED BY <1>1, <3>2 DEF Carried
  <2>2. AlignedRows(answer, n) = [i \in 1..n |-> RowOf(answer, i - 1)]
    BY <1>2, <1>3, <2>1, Zenon DEF AlignedRows, items
  <2>3. ASSUME NEW i \in 1..n PROVE RowOf(answer, i - 1) = answer[at[i]]
    <3> DEFINE last == CHOOSE j \in DOMAIN answer :
                 answer[j].id = i - 1 /\ \A k \in DOMAIN answer : answer[k].id = i - 1 => k <= j
    <3>1. \A j \in 1..n : answer[j].id = i - 1 <=> j = at[i]
      BY <1>4
    <3>2. at[i] \in 1..n /\ at[i] <= at[i]
      BY <1>4
    <3>3. \E j \in DOMAIN answer :
             answer[j].id = i - 1 /\ \A k \in DOMAIN answer : answer[k].id = i - 1 => k <= j
      BY <1>1, <3>1, <3>2
    <3>4. last \in DOMAIN answer /\ answer[last].id = i - 1
      BY <3>3
    <3>5. last = at[i]
      BY <1>1, <3>1, <3>4
    <3> QED BY <3>5 DEF RowOf
  <2> DEFINE found == [i \in 1..n |-> RowOf(answer, i - 1)]
  <2>4. \A i \in 1..n : found[i].of = i
    BY <1>4, <2>3
  <2>5. Len(found) = n
    OBVIOUS
  <2> HIDE DEF found
  <2> QED BY <2>2, <2>4, <2>5 DEF found
<1>5. AlignedRows(answer, n) # Invalid /\ Len(AlignedRows(answer, n)) = n
      /\ \A i \in 1..n : AlignedRows(answer, n)[i].of = i
  <2>0. ASSUME Len(AlignedRows(answer, n)) = n PROVE AlignedRows(answer, n) # Invalid
    BY <2>0 DEF Invalid
  <2>1. CASE answer = InOrder(n)
    <3> DEFINE at == [i \in 1..n |-> i]
    <3>1. \A j \in 1..n : answer[j].id = j - 1 /\ answer[j].of = j
      BY <2>1, InOrderRows
    <3>2. \A i \in 1..n : at[i] = i /\ at[i] \in 1..n
      OBVIOUS
    <3> HIDE DEF at
    <3>3. \A i \in 1..n : at[i] \in 1..n /\ \A j \in 1..n : answer[j].id = i - 1 <=> j = at[i]
      BY <3>1, <3>2
    <3>4. \A i \in 1..n : answer[at[i]].of = i
      BY <3>1, <3>2
    <3> QED BY <1>4, <2>0, <3>3, <3>4
  <2>2. CASE answer = Reversed(n)
    <3> DEFINE at == [i \in 1..n |-> n + 1 - i]
    <3>1. \A j \in 1..n : answer[j].id = n - j /\ answer[j].of = n + 1 - j
      BY <2>2, ReversedRows
    <3>2. \A i \in 1..n : at[i] = n + 1 - i /\ at[i] \in 1..n
      OBVIOUS
    <3> HIDE DEF at
    <3>3. \A i \in 1..n : at[i] \in 1..n /\ \A j \in 1..n : answer[j].id = i - 1 <=> j = at[i]
      BY <3>1, <3>2
    <3>4. \A i \in 1..n : answer[at[i]].of = i
      BY <3>1, <3>2
    <3> QED BY <1>4, <2>0, <3>3, <3>4
  <2>3. CASE answer = NoIds(InOrder(n))
    <3>1. InOrder(n) \in Seq(RowFor(n)) /\ Len(InOrder(n)) = n /\ \A i \in 1..n : InOrder(n)[i].of = i
      BY InOrderRows
    <3>2. DOMAIN InOrder(n) = 1..n
      BY DEF InOrder
    <3>3. \A i \in 1..n : answer[i].id = NoId /\ answer[i].of = i
      BY <2>3, <3>1, <3>2, NoIdsRows
    <3>4. ~(Wanted(n) \subseteq Carried(answer))
      <4>1. 0 \in Wanted(n)
        BY DEF Wanted
      <4>2. 0 \notin Carried(answer)
        BY <1>1, <3>3 DEF Carried, NoId
      <4> QED BY <4>1, <4>2
    <3>5. AlignedRows(answer, n) = answer
      BY <1>2, <1>3, <3>4, Zenon DEF AlignedRows, items
    <3> QED BY <1>1, <2>0, <3>3, <3>5
  <2> QED BY <2>1, <2>2, <2>3 DEF HonestAnswers
<1>6. AlignedRows(answer, n) \in Seq(RowFor(n))
  BY <1>1, <1>5, AlignedType
<1> QED BY <1>5, <1>6

LEMMA ShortRows ==
  ASSUME NEW n \in Nat, n # 0, NEW answer \in ShortAnswers(n), answer \notin MisleadingAnswers(n)
  PROVE  AlignedRows(answer, n) = Invalid
<1>1. answer = SubSeq(InOrder(n), 1, n - 1) /\ answer # <<>>
  BY DEF ShortAnswers, MisleadingAnswers
<1>2. Len(answer) = n - 1
  <2>1. InOrder(n) \in Seq(RowFor(n)) /\ Len(InOrder(n)) = n
    BY InOrderRows
  <2> HIDE DEF RowFor
  <2> QED BY <1>1, <2>1
<1>3. Len(answer) < n
  BY <1>2
<1>4. AsItems(answer, n) = Invalid
  BY <1>1, <1>3 DEF AsItems
<1> QED BY <1>4 DEF AlignedRows

-----------------------------------------------------------------------------
(* What each ML call sends.                                                *)

\* Everyone is in the list, once.
LEMMA InTheirOrderLists ==
  ASSUME NEW S, S \subseteq Nat, IsFiniteSet(S)
  PROVE  /\ InTheirOrder(S) \in Seq(S)
         /\ Len(InTheirOrder(S)) = Cardinality(S)
         /\ \A i \in S : \E k \in 1..Cardinality(S) : InTheirOrder(S)[k] = i
         /\ \A k, l \in 1..Cardinality(S) : InTheirOrder(S)[k] = InTheirOrder(S)[l] => k = l
<1> DEFINE UpTo(i) == {j \in S : j <= i}
           place   == [i \in S |-> Cardinality(UpTo(i))]
           n       == Cardinality(S)
           order   == InTheirOrder(S)
<1>1. n \in Nat
  BY FS_CardinalityType
<1>2. ASSUME NEW i \in S PROVE IsFiniteSet(UpTo(i)) /\ Cardinality(UpTo(i)) \in 1..n
  <2>1. i \in UpTo(i) /\ UpTo(i) \subseteq S
    OBVIOUS
  <2>2. IsFiniteSet(UpTo(i)) /\ Cardinality(UpTo(i)) <= n
    BY <2>1, FS_Subset
  <2>3. Cardinality(UpTo(i)) \in Nat /\ Cardinality(UpTo(i)) # 0
    BY <2>1, <2>2, FS_CardinalityType, FS_EmptySet
  <2> QED BY <1>1, <2>2, <2>3
<1>3. ASSUME NEW i \in S, NEW j \in S, i < j PROVE Cardinality(UpTo(i)) # Cardinality(UpTo(j))
  <2>1. i \in Nat /\ j \in Nat
    OBVIOUS
  <2>2. ASSUME NEW x \in UpTo(i) PROVE x \in UpTo(j)
    BY <1>3, <2>1
  <2>3. j \in UpTo(j) /\ j \notin UpTo(i)
    BY <1>3, <2>1
  <2> QED BY <1>2, <2>2, <2>3, FS_Subset
<1>4. ASSUME NEW i \in S, NEW j \in S, place[i] = place[j] PROVE i = j
  <2>1. i \in Nat /\ j \in Nat
    OBVIOUS
  <2>2. ~(i < j) /\ ~(j < i)
    BY <1>3, <1>4
  <2> QED BY <2>1, <2>2
<1>5. place \in Injection(S, 1..n)
  <2>1. place \in [S -> 1..n]
    BY <1>2
  <2> QED BY <1>4, <2>1, Zenon DEF Injection, IsInjective
<1>6. place \in Surjection(S, 1..n)
  <2>1. IsFiniteSet(1..n) /\ Cardinality(1..n) = n
    BY <1>1, FS_Interval
  <2> HIDE DEF place, n
  <2>2. Cardinality(S) = n
    BY DEF n
  <2> QED BY <1>5, <2>1, <2>2, FS_Injection
<1>7. ASSUME NEW k \in 1..n PROVE order[k] \in S /\ place[order[k]] = k
  <2>1. PICK i \in S : place[i] = k
    BY <1>6, <1>7 DEF Surjection
  <2>2. Cardinality({j \in S : j <= i}) = k
    BY <2>1
  <2>3. order[k] = CHOOSE m \in S : Cardinality({j \in S : j <= m}) = k
    BY DEF InTheirOrder
  <2>4. order[k] \in S /\ Cardinality({j \in S : j <= order[k]}) = k
    BY <2>2, <2>3
  <2> QED BY <2>4
<1>8. order = [k \in 1..n |-> order[k]]
  <2> DEFINE At(k) == CHOOSE i \in S : Cardinality({j \in S : j <= i}) = k
  <2>1. order = [k \in 1..n |-> At(k)]
    BY Zenon DEF InTheirOrder
  <2> HIDE DEF At, order
  <2> QED BY <2>1
<1> HIDE DEF n, order
<1>9. order \in [1..n -> S]
  BY <1>7, <1>8
<1>10. order \in Seq(S) /\ Len(order) = n
  BY <1>1, <1>9
<1>11. ASSUME NEW i \in S PROVE \E k \in 1..n : order[k] = i
  <2>1. place[i] \in 1..n
    BY <1>2
  <2>2. order[place[i]] \in S /\ place[order[place[i]]] = place[i]
    BY <1>7, <2>1
  <2>3. order[place[i]] = i
    BY <1>4, <2>2
  <2> QED BY <2>1, <2>3
<1>12. ASSUME NEW k \in 1..n, NEW l \in 1..n, order[k] = order[l] PROVE k = l
  BY <1>7, <1>12
<1> QED BY <1>10, <1>11, <1>12 DEF n, order

Customers == {i \in Segs : RoleOf(i) = "customer"}

LEMMA CustomersAreFew ==
  ASSUME segs \in Seq(Segment)
  PROVE  Customers \subseteq Nat /\ IsFiniteSet(Customers) /\ Cardinality(Customers) \in Nat
<1>1. Segs = 1..Len(segs) /\ Len(segs) \in Nat
  BY DEF Segs
<1>2. Customers \subseteq Segs
  BY DEF Customers
<1>3. IsFiniteSet(1..Len(segs))
  BY <1>1, FS_Interval
<1>4. IsFiniteSet(Customers)
  BY <1>1, <1>2, <1>3, FS_Subset
<1> QED BY <1>1, <1>2, <1>4, FS_CardinalityType

LEMMA TextsType ==
  ASSUME segs \in Seq(Segment), NEW kind \in MLCalls,
         kind = "embed" => chunks \in Seq(Seq(Segs))
  PROVE  Texts(kind) \in Seq(Nat)
<1>1. CASE kind = "classify"
  <2>1. Segs = 1..Len(segs) /\ Len(segs) \in Nat
    BY DEF Segs
  <2> DEFINE all == [i \in Segs |-> i]
  <2>2. Texts(kind) = all
    BY <1>1 DEF Texts
  <2>3. all \in [1..Len(segs) -> Nat]
    BY <2>1
  <2> HIDE DEF all
  <2> QED BY <2>1, <2>2, <2>3
<1>2. CASE kind = "emotions"
  <2>1. Texts(kind) = InTheirOrder(Customers)
    BY <1>2 DEF Texts, Customers
  <2>2. InTheirOrder(Customers) \in Seq(Customers) /\ Customers \subseteq Nat
    BY CustomersAreFew, InTheirOrderLists
  <2> DEFINE list == InTheirOrder(Customers)
  <2> HIDE DEF Customers, list
  <2>3. list \in Seq(Customers)
    BY <2>2 DEF list
  <2>4. list \in Seq(Nat)
    BY <2>2, <2>3, SeqMonotonic
  <2> QED BY <2>1, <2>4 DEF list
<1>3. CASE kind = "embed"
  <2>1. DOMAIN chunks = 1..Len(chunks) /\ Len(chunks) \in Nat
    BY <1>3
  <2> DEFINE all == [k \in DOMAIN chunks |-> k]
  <2>2. Texts(kind) = all
    BY <1>3 DEF Texts
  <2>3. all \in [1..Len(chunks) -> Nat]
    BY <2>1
  <2> HIDE DEF all
  <2> QED BY <2>1, <2>2, <2>3
<1> QED BY <1>1, <1>2, <1>3 DEF MLCalls

-----------------------------------------------------------------------------
(* The inductive invariant.                                                *)

Stages == {"resolve", "classify", "emotions", "measure", "embed", "done"}

SpeakersKnown == DOMAIN speakers = IF stage = "resolve" THEN {} ELSE SpeakersOf(segs)

\* The rows that have come so far are the first ones, each of its own text.
RowsOfTheCall ==
  /\ rows \in Seq(Nat)
  /\ stage \notin MLCalls => rows = <<>>
  /\ stage \in MLCalls =>
       /\ rows = <<>> \/ Len(rows) < Len(Texts(stage))
       /\ stage \notin misled => \A k \in DOMAIN rows : rows[k] = Texts(stage)[k]

NotYetFailed ==
  /\ stage \in {"resolve", "classify"} => "classify" \notin warnings
  /\ stage \in {"resolve", "classify", "emotions"} => "emotions" \notin warnings
  /\ stage \in {"resolve", "classify", "emotions", "measure", "embed"} => "embed" \notin warnings

LabelsFit ==
  "classify" \notin misled /\ stage \in {"emotions", "measure", "embed", "done"} =>
    \A i \in Segs : labels[i] = (IF "classify" \in warnings THEN 0 ELSE i)

AxesFit ==
  "emotions" \notin misled /\ stage \in {"measure", "embed", "done"} =>
    \A i \in Segs : axes[i].of = (IF "emotions" \in warnings \/ RoleOf(i) # "customer" THEN 0 ELSE i)

AxisOf(of, form) == [of |-> of, axis |-> ParseAxis(IF of = 0 THEN "missing" ELSE form)]

AxesParsed == \A i \in Segs : axes[i] = NoAxis \/ axes[i] = AxisOf(axes[i].of, call.form)

Measured ==
  stage \in {"embed", "done"} =>
    /\ chunks = Chunks(segs, MaxChars)
    /\ metrics = [longest |-> LongestMonologue(segs), silences |-> SilenceGaps(segs)]

\* What the index holds of the chunks.
Covers ==
  /\ DOMAIN index = DOMAIN chunks /\ Len(index) = Len(chunks)
  /\ \A k \in DOMAIN index :
       /\ index[k].first = chunks[k][1] /\ index[k].last = chunks[k][Len(chunks[k])]
       /\ "embed" \notin misled => index[k].vector = k

IndexFits == stage = "done" => IF "embed" \in warnings THEN index = <<>> ELSE Covers

CallKnown == call \in Calls /\ patches \in Nat /\ stage \in Stages

AnalysisInv ==
  /\ CallKnown
  /\ SpeakersKnown
  /\ RowsOfTheCall
  /\ NotYetFailed
  /\ LabelsFit
  /\ AxesFit
  /\ AxesParsed
  /\ Measured
  /\ IndexFits

LEMMA CallType ==
  ASSUME CallKnown
  PROVE  segs \in Seq(Segment) /\ call.form \in AxisForms /\ MaxChars \in Nat /\ BatchSize \in Nat \ {0}
BY AnalysisAssumption DEF CallKnown, segs

LEMMA ChunksType ==
  ASSUME CallKnown, Measured, stage \in {"embed", "done"}
  PROVE  chunks \in Seq(Seq(Segs))
BY CallType, ChunksCut DEF Measured

LEMMA AnalysisInit ==
  ASSUME Init
  PROVE  AnalysisInv
<1>1. stage = "resolve" /\ rows = <<>> /\ warnings = {} /\ call \in Calls /\ patches = 0
  BY DEF Init
<1>2. CallKnown
  BY <1>1 DEF CallKnown, Stages
<1>3. SpeakersKnown
  <2>1. speakers = [s \in {} |-> {}]
    BY DEF Init
  <2> QED BY <1>1, <2>1 DEF SpeakersKnown
<1>4. RowsOfTheCall
  <2>1. rows \in Seq(Nat)
    BY <1>1, EmptySeq
  <2> QED BY <1>1, <2>1 DEF RowsOfTheCall, MLCalls
<1>5. NotYetFailed /\ LabelsFit /\ AxesFit /\ Measured /\ IndexFits
  BY <1>1 DEF NotYetFailed, LabelsFit, AxesFit, Measured, IndexFits
<1>6. AxesParsed
  BY DEF Init, AxesParsed
<1> QED BY <1>2, <1>3, <1>4, <1>5, <1>6 DEF AnalysisInv

\* The analysis from its start, over whatever rows are stored.
LEMMA RestartKeeps ==
  ASSUME CallKnown, Restarted, UNCHANGED call, patches' \in Nat, DOMAIN speakers' = SpeakersOf(segs)
  PROVE  AnalysisInv'
<1>1. /\ stage' = "classify" /\ rows' = <<>> /\ warnings' = {} /\ segs' = segs
      /\ axes' = [i \in Segs |-> NoAxis] /\ Segs' = Segs
  BY DEF Restarted, segs, Segs
<1>2. CallKnown'
  BY <1>1 DEF CallKnown, Stages
<1>3. SpeakersKnown'
  BY <1>1 DEF SpeakersKnown
<1>4. RowsOfTheCall'
  <2>1. rows' \in Seq(Nat)
    BY <1>1, EmptySeq
  <2>2. DOMAIN rows' = {}
    BY <1>1
  <2> QED BY <1>1, <2>1, <2>2 DEF RowsOfTheCall, MLCalls
<1>5. NotYetFailed' /\ LabelsFit' /\ AxesFit' /\ Measured' /\ IndexFits'
  BY <1>1 DEF NotYetFailed, LabelsFit, AxesFit, Measured, IndexFits
<1>6. AxesParsed'
  BY <1>1 DEF AxesParsed
<1> QED BY <1>2, <1>3, <1>4, <1>5, <1>6 DEF AnalysisInv

LEMMA MeasureKeeps ==
  ASSUME AnalysisInv, Measure
  PROVE  AnalysisInv'
<1>1. /\ stage = "measure" /\ stage' = "embed" /\ segs' = segs /\ Segs' = Segs
      /\ UNCHANGED <<call, speakers, rows, labels, axes, warnings, misled, patches>>
      /\ metrics' = [longest |-> LongestMonologue(segs), silences |-> SilenceGaps(segs)]
      /\ chunks' = Chunks(segs, MaxChars)
  BY DEF Measure, bounds, segs, Segs
<1>2. CallKnown'
  BY <1>1 DEF AnalysisInv, CallKnown, Stages
<1>3. SpeakersKnown'
  BY <1>1 DEF AnalysisInv, SpeakersKnown
<1>4. RowsOfTheCall'
  <2>1. rows = <<>>
    BY <1>1 DEF AnalysisInv, RowsOfTheCall, MLCalls
  <2>2. DOMAIN rows' = {} /\ rows' = <<>> /\ rows' \in Seq(Nat)
    BY <1>1, <2>1, EmptySeq
  <2> QED BY <1>1, <2>2 DEF RowsOfTheCall
<1>5. NotYetFailed' /\ LabelsFit' /\ AxesFit' /\ IndexFits'
  BY <1>1 DEF AnalysisInv, NotYetFailed, LabelsFit, AxesFit, IndexFits, RoleOf
<1>6. AxesParsed'
  BY <1>1 DEF AnalysisInv, AxesParsed
<1>7. Measured'
  BY <1>1 DEF Measured
<1> QED BY <1>2, <1>3, <1>4, <1>5, <1>6, <1>7 DEF AnalysisInv

LEMMA SameTexts ==
  ASSUME UNCHANGED <<call, speakers, chunks>>
  PROVE  /\ segs' = segs /\ Segs' = Segs /\ Customers' = Customers
         /\ \A kind \in MLCalls : Texts(kind)' = Texts(kind)
         /\ \A i \in Segs : RoleOf(i)' = RoleOf(i)
<1>1. segs' = segs /\ Segs' = Segs
  BY DEF segs, Segs
<1>2. \A i \in Segs : RoleOf(i)' = RoleOf(i)
  BY <1>1 DEF RoleOf
<1>3. Customers' = Customers
  BY <1>1, <1>2 DEF Customers
<1>4. ASSUME NEW kind \in MLCalls PROVE Texts(kind)' = Texts(kind)
  <2>1. CASE kind = "classify"
    BY <1>1, <2>1 DEF Texts
  <2>2. CASE kind = "emotions"
    <3>1. Texts(kind) = InTheirOrder(Customers)
      BY <2>2 DEF Texts, Customers
    <3>2. Texts(kind)' = InTheirOrder(Customers')
      BY <2>2 DEF Texts, Customers
    <3> QED BY <1>3, <3>1, <3>2
  <2>3. CASE kind = "embed"
    BY <2>3 DEF Texts
  <2> QED BY <2>1, <2>2, <2>3 DEF MLCalls
<1> QED BY <1>1, <1>2, <1>3, <1>4

\* What the index takes from the chunks and their vectors.
LEMMA IndexedCovers ==
  ASSUME NEW vectors \in Seq(Nat), chunks \in Seq(Seq(Segs)), Len(vectors) = Len(chunks)
  PROVE  /\ DOMAIN Indexed(vectors) = DOMAIN chunks /\ Len(Indexed(vectors)) = Len(chunks)
         /\ \A k \in DOMAIN chunks :
              /\ Indexed(vectors)[k].first = chunks[k][1]
              /\ Indexed(vectors)[k].last = chunks[k][Len(chunks[k])]
              /\ Indexed(vectors)[k].vector = vectors[k]
<1> DEFINE n == Len(chunks)
           Entry(k) == [first |-> chunks[k][1], last |-> chunks[k][Len(chunks[k])], vector |-> vectors[k]]
           entries == [k \in 1..n |-> Entry(k)]
<1>1. n \in Nat /\ DOMAIN chunks = 1..n /\ Len(vectors) = n
  OBVIOUS
<1>2. Indexed(vectors) = entries
  <2>1. (IF Len(vectors) < Len(chunks) THEN Len(vectors) ELSE Len(chunks)) = n
    BY <1>1
  <2> QED BY <2>1, Zenon DEF Indexed
<1>3. /\ \A k \in 1..n : entries[k] = Entry(k)
      /\ DOMAIN entries = 1..n
  OBVIOUS
<1>4. Len(entries) = n
  <2> HIDE DEF Entry, n
  <2> QED BY <1>1
<1>5. \A k : Entry(k).first = chunks[k][1] /\ Entry(k).last = chunks[k][Len(chunks[k])]
             /\ Entry(k).vector = vectors[k]
  OBVIOUS
<1> HIDE DEF entries, Entry
<1> QED BY <1>1, <1>2, <1>3, <1>4, <1>5

LEMMA UseKeeps ==
  ASSUME AnalysisInv, NEW kind \in MLCalls, stage = kind, NEW got \in Seq(Nat), Use(kind, got),
         UNCHANGED <<call, speakers, chunks, metrics, patches>>, misled \subseteq misled',
         \/ got = <<>> /\ warnings' = warnings \cup {kind}
         \/ /\ warnings' = warnings /\ Len(got) = Len(Texts(kind))
            /\ kind \notin misled' => \A k \in DOMAIN got : got[k] = Texts(kind)[k]
  PROVE  AnalysisInv'
<1>1. /\ CallKnown /\ SpeakersKnown /\ NotYetFailed /\ LabelsFit /\ AxesFit /\ AxesParsed /\ Measured
  BY DEF AnalysisInv
<1>2. /\ segs' = segs /\ Segs' = Segs /\ Customers' = Customers
      /\ \A i \in Segs : RoleOf(i)' = RoleOf(i)
  BY SameTexts
<1>3. /\ segs \in Seq(Segment)
      /\ kind = "embed" => chunks \in Seq(Seq(Segs))
  BY <1>1, CallType, ChunksType
<1>4. Texts(kind) \in Seq(Nat) /\ DOMAIN got = 1..Len(got)
  BY <1>3, TextsType
<1>5. stage' = After(kind) /\ rows' = <<>>
  BY DEF Use
<1>6. /\ kind = "classify" => stage' = "emotions"
      /\ kind = "emotions" => stage' = "measure"
      /\ kind = "embed" => stage' = "done"
  BY <1>5 DEF After
<1>7. CallKnown'
  BY <1>1, <1>6 DEF CallKnown, MLCalls, Stages
<1>8. SpeakersKnown'
  BY <1>1, <1>2, <1>6 DEF SpeakersKnown, MLCalls
<1>9. NotYetFailed'
  BY <1>1, <1>6 DEF NotYetFailed, MLCalls
<1>10. RowsOfTheCall'
  <2>1. rows' \in Seq(Nat) /\ DOMAIN rows' = {}
    BY <1>5, EmptySeq
  <2> QED BY <1>5, <2>1 DEF RowsOfTheCall
<1>11. Measured'
  BY <1>1, <1>2, <1>6 DEF Measured, MLCalls
<1>12. kind \notin misled' => kind \notin misled
  OBVIOUS
<1>13. LabelsFit'
  <2>1. CASE kind = "classify"
    <3>1. labels' = [i \in Segs |-> IF i \in DOMAIN got THEN got[i] ELSE 0]
      BY <2>1 DEF Use
    <3>2. CASE got = <<>> /\ warnings' = warnings \cup {kind}
      <4>1. DOMAIN got = {}
        BY <3>2
      <4> QED BY <1>2, <2>1, <3>1, <3>2, <4>1 DEF LabelsFit
    <3>3. CASE /\ warnings' = warnings /\ Len(got) = Len(Texts(kind))
               /\ kind \notin misled' => \A k \in DOMAIN got : got[k] = Texts(kind)[k]
      <4>1. Texts(kind) = [i \in Segs |-> i]
        BY <2>1 DEF Texts
      <4>2. DOMAIN got = Segs
        <5>1. DOMAIN Texts(kind) = Segs
          BY <4>1
        <5> QED BY <1>4, <3>3, <5>1
      <4>3. "classify" \notin warnings
        BY <1>1, <2>1 DEF NotYetFailed
      <4>4. kind \notin misled' => \A i \in Segs : labels'[i] = i
        BY <3>1, <3>3, <4>1, <4>2
      <4> QED BY <1>2, <2>1, <3>3, <4>3, <4>4 DEF LabelsFit
    <3> QED BY <3>2, <3>3
  <2>2. CASE kind # "classify"
    <3>1. labels' = labels
      BY <2>2 DEF Use
    <3>2. stage \in {"emotions", "measure", "embed", "done"}
      BY <2>2 DEF MLCalls
    <3>3. "classify" \in warnings' <=> "classify" \in warnings
      BY <2>2
    <3> QED BY <1>1, <1>2, <3>1, <3>2, <3>3 DEF LabelsFit
  <2> QED BY <2>1, <2>2
<1>14. AxesFit' /\ AxesParsed'
  <2>1. CASE kind = "emotions"
    <3> DEFINE Found(i) == \E k \in DOMAIN got : Texts(kind)[k] = i
               At(i) == CHOOSE k \in DOMAIN got : Texts(kind)[k] = i
    <3>1. axes' = [i \in Segs |-> IF Found(i) THEN AxisOf(got[At(i)], call.form) ELSE NoAxis]
      BY <2>1, Zenon DEF Use, AxisOf
    <3>2. ASSUME NEW i \in Segs, Found(i) PROVE At(i) \in DOMAIN got /\ Texts(kind)[At(i)] = i
      BY <3>2
    <3> HIDE DEF Found, At
    <3>3. \A of : AxisOf(of, call.form).of = of
      BY DEF AxisOf
    <3>4. NoAxis.of = 0
      BY DEF NoAxis
    <3>5. AxesParsed'
      <4> SUFFICES ASSUME NEW i \in Segs PROVE axes'[i] = NoAxis \/ axes'[i] = AxisOf(axes'[i].of, call.form)
        BY <1>2 DEF AxesParsed
      <4>1. axes'[i] = IF Found(i) THEN AxisOf(got[At(i)], call.form) ELSE NoAxis
        BY <3>1
      <4>2. CASE Found(i)
        <5>1. axes'[i] = AxisOf(got[At(i)], call.form)
          BY <4>1, <4>2
        <5>2. axes'[i].of = got[At(i)]
          BY <3>3, <5>1
        <5> QED BY <5>1, <5>2
      <4>3. CASE ~Found(i)
        BY <4>1, <4>3
      <4> QED BY <4>2, <4>3
    <3>6. CASE got = <<>> /\ warnings' = warnings \cup {kind}
      <4>1. DOMAIN got = {}
        BY <3>6
      <4>2. \A i \in Segs : axes'[i].of = 0
        BY <3>1, <3>4, <4>1 DEF Found
      <4>3. "emotions" \in warnings'
        BY <2>1, <3>6
      <4> QED BY <1>2, <3>5, <4>2, <4>3 DEF AxesFit
    <3>7. CASE /\ warnings' = warnings /\ Len(got) = Len(Texts(kind))
               /\ kind \notin misled' => \A k \in DOMAIN got : got[k] = Texts(kind)[k]
      <4>1. Texts(kind) = InTheirOrder(Customers)
        BY <2>1 DEF Texts, Customers
      <4>2. /\ Len(InTheirOrder(Customers)) = Cardinality(Customers)
            /\ InTheirOrder(Customers) \in Seq(Customers)
            /\ \A i \in Customers : \E k \in 1..Cardinality(Customers) : InTheirOrder(Customers)[k] = i
        BY <1>3, CustomersAreFew, InTheirOrderLists
      <4>3. DOMAIN got = 1..Cardinality(Customers)
        BY <1>4, <3>7, <4>1, <4>2
      <4>4. \A k \in 1..Cardinality(Customers) : InTheirOrder(Customers)[k] \in Customers
        <5> DEFINE list == InTheirOrder(Customers)
        <5> HIDE DEF list, Customers
        <5>1. list \in Seq(Customers) /\ Len(list) = Cardinality(Customers)
          BY <4>2 DEF list
        <5>2. \A k \in 1..Cardinality(Customers) : list[k] \in Customers
          BY <5>1, ElementOfSeq
        <5> QED BY <5>2 DEF list
      <4>5. ASSUME NEW i \in Segs PROVE Found(i) <=> i \in Customers
        BY <4>1, <4>2, <4>3, <4>4 DEF Found
      <4>6. "emotions" \notin warnings'
        BY <1>1, <2>1, <3>7 DEF NotYetFailed
      <4>7. ASSUME NEW i \in Segs, kind \notin misled'
            PROVE  axes'[i].of = IF RoleOf(i) # "customer" THEN 0 ELSE i
        <5>1. i \in Customers <=> RoleOf(i) = "customer"
          BY DEF Customers
        <5>2. axes'[i] = IF Found(i) THEN AxisOf(got[At(i)], call.form) ELSE NoAxis
          BY <3>1
        <5>3. CASE Found(i)
          <6>1. got[At(i)] = i
            BY <3>2, <3>7, <4>7, <5>3
          <6> QED BY <3>3, <4>5, <5>1, <5>2, <5>3, <6>1
        <5>4. CASE ~Found(i)
          BY <3>4, <4>5, <5>1, <5>2, <5>4
        <5> QED BY <5>3, <5>4
      <4>8. AxesFit'
        BY <1>2, <2>1, <4>6, <4>7 DEF AxesFit
      <4> QED BY <3>5, <4>8
    <3> QED BY <3>6, <3>7
  <2>2. CASE kind # "emotions"
    <3>1. axes' = axes
      BY <2>2 DEF Use
    <3>2. "emotions" \in warnings' <=> "emotions" \in warnings
      BY <2>2
    <3>3. stage' \in {"measure", "embed", "done"} => stage \in {"measure", "embed", "done"}
      BY <1>6, <2>2 DEF MLCalls
    <3>4. AxesFit'
      BY <1>1, <1>2, <3>1, <3>2, <3>3 DEF AxesFit
    <3>5. AxesParsed'
      BY <1>1, <1>2, <3>1 DEF AxesParsed
    <3> QED BY <3>4, <3>5
  <2> QED BY <2>1, <2>2
<1>15. IndexFits'
  <2>1. CASE kind = "embed"
    <3>1. index' = Indexed(got)
      BY <2>1 DEF Use
    <3>2. chunks \in Seq(Seq(Segs))
      BY <1>3, <2>1
    <3>3. CASE got = <<>> /\ warnings' = warnings \cup {kind}
      <4>1. index' = <<>>
        <5>1. Len(got) = 0 /\ Len(chunks) \in Nat
          BY <3>2, <3>3
        <5>2. (IF Len(got) < Len(chunks) THEN Len(got) ELSE Len(chunks)) = 0
          BY <5>1
        <5>3. 1..0 = {}
          OBVIOUS
        <5> QED BY <3>1, <5>2, <5>3 DEF Indexed
      <4> QED BY <2>1, <3>3, <4>1 DEF IndexFits
    <3>4. CASE /\ warnings' = warnings /\ Len(got) = Len(Texts(kind))
               /\ kind \notin misled' => \A k \in DOMAIN got : got[k] = Texts(kind)[k]
      <4>1. Texts(kind) = [k \in DOMAIN chunks |-> k] /\ DOMAIN chunks = 1..Len(chunks)
        BY <2>1, <3>2 DEF Texts
      <4>2. Len(got) = Len(chunks)
        <5>1. DOMAIN Texts(kind) = 1..Len(Texts(kind)) /\ Len(Texts(kind)) \in Nat
          BY <1>4
        <5>2. DOMAIN Texts(kind) = 1..Len(chunks) /\ Len(chunks) \in Nat
          BY <3>2, <4>1
        <5> QED BY <3>4, <5>1, <5>2
      <4>3. /\ DOMAIN index' = DOMAIN chunks /\ Len(index') = Len(chunks)
            /\ \A k \in DOMAIN chunks :
                 /\ index'[k].first = chunks[k][1]
                 /\ index'[k].last = chunks[k][Len(chunks[k])]
                 /\ index'[k].vector = got[k]
        BY <3>1, <3>2, <4>2, IndexedCovers
      <4>4. kind \notin misled' => \A k \in DOMAIN chunks : got[k] = k
        BY <1>4, <3>4, <4>1, <4>2
      <4>5. "embed" \notin warnings'
        BY <1>1, <2>1, <3>4 DEF NotYetFailed
      <4>6. Covers'
        BY <2>1, <4>3, <4>4 DEF Covers
      <4> QED BY <4>5, <4>6 DEF IndexFits
    <3> QED BY <3>3, <3>4
  <2>2. CASE kind # "embed"
    BY <1>6, <2>2 DEF IndexFits, MLCalls
  <2> QED BY <2>1, <2>2
<1> QED BY <1>7, <1>8, <1>9, <1>10, <1>11, <1>13, <1>14, <1>15 DEF AnalysisInv

LEMMA SkipKeeps ==
  ASSUME AnalysisInv, NEW kind \in MLCalls, Skip(kind)
  PROVE  AnalysisInv'
<1>1. /\ stage = kind /\ Texts(kind) = <<>> /\ Use(kind, <<>>)
      /\ UNCHANGED <<call, speakers, chunks, metrics, patches, warnings, misled>>
  BY DEF Skip, bounds
<1>2. <<>> \in Seq(Nat) /\ Len(<<>>) = 0 /\ DOMAIN <<>> = {}
  BY EmptySeq
<1>3. Len(<<>>) = Len(Texts(kind)) /\ \A k \in DOMAIN <<>> : <<>>[k] = Texts(kind)[k]
  BY <1>1, <1>2
<1> QED BY <1>1, <1>2, <1>3, UseKeeps

LEMMA RefusedKeeps ==
  ASSUME AnalysisInv, NEW kind \in MLCalls, Refused(kind)
  PROVE  AnalysisInv'
<1>1. /\ stage = kind /\ Use(kind, <<>>) /\ warnings' = warnings \cup {kind}
      /\ UNCHANGED <<call, speakers, chunks, metrics, patches, misled>>
  BY DEF Refused, Fails
<1>2. <<>> \in Seq(Nat)
  BY EmptySeq
<1> QED BY <1>1, <1>2, UseKeeps

\* The rows that a request adds to those that have come.
NewRows(kind, items) == [i \in DOMAIN items |-> Text(kind, items[i].of)]

LEMMA RequestSize ==
  ASSUME AnalysisInv, NEW kind \in MLCalls, stage = kind, Texts(kind) # <<>>
  PROVE  /\ Texts(kind) \in Seq(Nat) /\ rows \in Seq(Nat)
         /\ Expected(kind) \in Nat /\ Expected(kind) # 0
         /\ Len(rows) + Expected(kind) <= Len(Texts(kind))
<1>1. CallKnown /\ Measured /\ RowsOfTheCall
  BY DEF AnalysisInv
<1>2. segs \in Seq(Segment) /\ BatchSize \in Nat \ {0}
  BY <1>1, CallType
<1>3. kind = "embed" => chunks \in Seq(Seq(Segs))
  BY <1>1, ChunksType
<1>4. Texts(kind) \in Seq(Nat) /\ rows \in Seq(Nat)
  BY <1>1, <1>2, <1>3, TextsType DEF RowsOfTheCall
<1> DEFINE all == Texts(kind)
<1>5. all \in Seq(Nat) /\ all # <<>> /\ (rows = <<>> \/ Len(rows) < Len(all))
  BY <1>1, <1>4 DEF RowsOfTheCall
<1>6. Expected(kind) = IF Len(all) - Len(rows) < BatchSize THEN Len(all) - Len(rows) ELSE BatchSize
  BY DEF Expected
<1> HIDE DEF all
<1>7. Len(rows) \in Nat /\ Len(all) \in Nat /\ Len(rows) < Len(all)
  BY <1>4, <1>5
<1>8. Expected(kind) \in Nat /\ Expected(kind) # 0 /\ Len(rows) + Expected(kind) <= Len(all)
  BY <1>2, <1>6, <1>7
<1> QED BY <1>4, <1>8 DEF all

LEMMA MoreRows ==
  ASSUME AnalysisInv, NEW kind \in MLCalls, stage = kind, Texts(kind) # <<>>,
         NEW items \in Seq(RowFor(Expected(kind))), Len(items) = Expected(kind)
  PROVE  LET got == rows \o NewRows(kind, items) IN
         /\ got \in Seq(Nat) /\ Len(got) = Len(rows) + Expected(kind)
         /\ \A k \in 1..Len(rows) : got[k] = rows[k]
         /\ \A i \in 1..Expected(kind) :
              items[i].of = i => got[Len(rows) + i] = Texts(kind)[Len(rows) + i]
<1> DEFINE n == Expected(kind)
           new == NewRows(kind, items)
           all == Texts(kind)
           got == rows \o new
<1>1. /\ all \in Seq(Nat) /\ rows \in Seq(Nat) /\ n \in Nat /\ n # 0
      /\ Len(rows) + n <= Len(all)
  BY RequestSize
<1>2. DOMAIN items = 1..n /\ \A i \in 1..n : items[i].of \in 0..n
  <2>1. items \in Seq(RowFor(n)) /\ Len(items) = n
    OBVIOUS
  <2>2. \A r \in RowFor(n) : r.of \in 0..n
    BY DEF RowFor
  <2> HIDE DEF RowFor, n
  <2> QED BY <1>1, <2>1, <2>2
<1>3. \A of : Text(kind, of) = IF of = 0 THEN 0 ELSE all[Len(rows) + of]
  BY DEF Text
<1>4. new = [i \in 1..n |-> Text(kind, items[i].of)]
  BY <1>2 DEF NewRows
<1> HIDE DEF n, new, all
<1>5. ASSUME NEW i \in 1..n PROVE Text(kind, items[i].of) \in Nat
  <2>1. items[i].of \in 0..n
    BY <1>2
  <2>2. CASE items[i].of = 0
    BY <1>3, <2>2
  <2>3. CASE items[i].of # 0
    <3>1. Len(rows) + items[i].of \in 1..Len(all)
      <4>1. Len(rows) \in Nat /\ Len(all) \in Nat
        BY <1>1
      <4>2. \A of \in 0..n : of # 0 => Len(rows) + of \in 1..Len(all)
        BY <1>1, <4>1
      <4> QED BY <2>1, <2>3, <4>2, Zenon
    <3>2. all[Len(rows) + items[i].of] \in Nat
      BY <1>1, <3>1, ElementOfSeq
    <3> QED BY <1>3, <2>3, <3>2
  <2> QED BY <2>2, <2>3
<1>6. new \in [1..n -> Nat] /\ \A i \in 1..n : new[i] = Text(kind, items[i].of)
  BY <1>4, <1>5
<1>7. new \in Seq(Nat) /\ Len(new) = n
  BY <1>1, <1>6
<1>8. /\ got \in Seq(Nat) /\ Len(got) = Len(rows) + n
      /\ \A k \in 1..Len(rows) : got[k] = rows[k]
      /\ \A i \in 1..n : got[Len(rows) + i] = new[i]
  <2>1. /\ got \in Seq(Nat) /\ Len(got) = Len(rows) + n
        /\ \A k \in 1..Len(rows) + n :
             got[k] = IF k <= Len(rows) THEN rows[k] ELSE new[k - Len(rows)]
    BY <1>1, <1>7, ConcatProperties
  <2> HIDE DEF got
  <2>2. Len(rows) \in Nat
    BY <1>1
  <2>3. ASSUME NEW k \in 1..Len(rows) PROVE got[k] = rows[k]
    <3>1. k \in 1..Len(rows) + n /\ k <= Len(rows)
      BY <1>1, <2>2
    <3> QED BY <2>1, <3>1
  <2>4. ASSUME NEW i \in 1..n PROVE got[Len(rows) + i] = new[i]
    <3>1. /\ Len(rows) + i \in 1..Len(rows) + n /\ ~(Len(rows) + i <= Len(rows))
          /\ (Len(rows) + i) - Len(rows) = i
      BY <1>1, <2>2
    <3> QED BY <2>1, <3>1
  <2> QED BY <2>1, <2>3, <2>4
<1> HIDE DEF got
<1>9. ASSUME NEW i \in 1..n, items[i].of = i PROVE got[Len(rows) + i] = all[Len(rows) + i]
  <2>1. i # 0
    BY <1>1
  <2> QED BY <1>3, <1>6, <1>8, <1>9, <2>1
<1> QED BY <1>8, <1>9 DEF n, new, all, got

LEMMA PostKeeps ==
  ASSUME AnalysisInv, NEW kind \in MLCalls, Post(kind)
  PROVE  AnalysisInv'
<1> DEFINE n == Expected(kind)
<1>1. stage = kind /\ Texts(kind) # <<>>
  BY DEF Post
<1>2. PICK answer \in Answers(kind) : Answered(kind, answer)
  BY DEF Post
<1> DEFINE items == AlignedRows(answer, n)
           got == rows \o NewRows(kind, items)
<1>3. /\ Texts(kind) \in Seq(Nat) /\ rows \in Seq(Nat) /\ n \in Nat /\ n # 0
      /\ Len(rows) + n <= Len(Texts(kind))
  BY <1>1, RequestSize
<1>4. answer \in HonestAnswers(n) \cup MisleadingAnswers(n) \cup ShortAnswers(n)
  BY DEF Answers
<1>5. items = Invalid \/ (items \in Seq(RowFor(n)) /\ Len(items) = n)
  BY <1>3, <1>4, AnswersType, AlignedType
<1>6. /\ UNCHANGED <<call, speakers, chunks, metrics, patches>> /\ misled \subseteq misled'
      /\ kind \notin misled' => kind \notin misled /\ answer \notin MisleadingAnswers(n)
  BY <1>2 DEF Answered
<1>7. CASE ~Usable(kind, items)
  <2>1. Fails(kind)
    BY <1>2, <1>7, Zenon DEF Answered
  <2>2. Use(kind, <<>>) /\ warnings' = warnings \cup {kind} /\ <<>> \in Seq(Nat)
    BY <2>1, EmptySeq DEF Fails
  <2> QED BY <1>1, <1>6, <2>2, UseKeeps
<1>8. CASE Usable(kind, items)
  <2>1. items \in Seq(RowFor(n)) /\ Len(items) = n
    BY <1>5, <1>8 DEF Usable
  <2>2. /\ got \in Seq(Nat) /\ Len(got) = Len(rows) + n
        /\ \A k \in 1..Len(rows) : got[k] = rows[k]
        /\ \A i \in 1..n : items[i].of = i => got[Len(rows) + i] = Texts(kind)[Len(rows) + i]
    BY <1>1, <2>1, MoreRows
  <2>3. /\ warnings' = warnings
        /\ IF Len(got) = Len(Texts(kind))
             THEN Use(kind, got)
             ELSE rows' = got /\ UNCHANGED <<stage, labels, axes, index>>
    BY <1>2, <1>8, Zenon DEF Answered, NewRows
  <2>4. ASSUME kind \notin misled' PROVE \A k \in DOMAIN got : got[k] = Texts(kind)[k]
    <3>1. answer \in HonestAnswers(n)
      <4>1. items # Invalid
        BY <1>8 DEF Usable
      <4> QED BY <1>3, <1>4, <1>6, <2>4, <4>1, ShortRows
    <3>2. \A i \in 1..n : items[i].of = i
      BY <1>3, <3>1, HonestRows
    <3>3. \A k \in DOMAIN rows : rows[k] = Texts(kind)[k]
      BY <1>1, <1>6, <2>4 DEF AnalysisInv, RowsOfTheCall
    <3> HIDE DEF got, items, n
    <3> SUFFICES ASSUME NEW k \in DOMAIN got PROVE got[k] = Texts(kind)[k]
      OBVIOUS
    <3>4. Len(rows) \in Nat /\ DOMAIN rows = 1..Len(rows) /\ k \in 1..Len(rows) + n
      BY <1>3, <2>2
    <3>5. CASE k \in 1..Len(rows)
      BY <2>2, <3>3, <3>4, <3>5
    <3>6. CASE k \notin 1..Len(rows)
      <4> DEFINE i == k - Len(rows)
      <4>1. i \in 1..n /\ Len(rows) + i = k
        BY <1>3, <3>4, <3>6
      <4> HIDE DEF i
      <4> QED BY <2>2, <3>2, <4>1
    <3> QED BY <3>5, <3>6
  <2>5. CASE Len(got) = Len(Texts(kind))
    <3>1. Use(kind, got)
      BY <2>3, <2>5
    <3> HIDE DEF got, items, n
    <3> QED BY <1>1, <1>6, <2>2, <2>3, <2>4, <2>5, <3>1, UseKeeps
  <2>6. CASE Len(got) # Len(Texts(kind))
    <3>1. rows' = got /\ UNCHANGED <<stage, labels, axes, index>>
      BY <2>3, <2>6
    <3>2. /\ segs' = segs /\ Segs' = Segs /\ Texts(kind)' = Texts(kind)
          /\ \A i \in Segs : RoleOf(i)' = RoleOf(i)
      BY <1>6, SameTexts
    <3>3. Len(got) < Len(Texts(kind))
      <4> HIDE DEF got, items, n
      <4>1. Len(got) \in Nat /\ Len(Texts(kind)) \in Nat
        BY <1>3, <2>2
      <4> QED BY <1>3, <2>2, <2>6, <4>1
    <3> HIDE DEF got, items, n
    <3>4. RowsOfTheCall'
      <4>1. stage' = kind /\ Texts(stage)' = Texts(kind)
        BY <1>1, <3>1, <3>2
      <4> QED BY <2>2, <2>4, <3>1, <3>3, <4>1 DEF RowsOfTheCall
    <3>5. CallKnown' /\ SpeakersKnown' /\ NotYetFailed'
      BY <1>6, <2>3, <3>1, <3>2 DEF AnalysisInv, CallKnown, SpeakersKnown, NotYetFailed
    <3>6. LabelsFit' /\ AxesFit' /\ AxesParsed'
      BY <1>6, <2>3, <3>1, <3>2 DEF AnalysisInv, LabelsFit, AxesFit, AxesParsed
    <3>7. Measured'
      BY <1>6, <3>1, <3>2 DEF AnalysisInv, Measured
    <3>8. IndexFits'
      BY <1>1, <3>1 DEF IndexFits, MLCalls
    <3> QED BY <3>4, <3>5, <3>6, <3>7, <3>8 DEF AnalysisInv
  <2> QED BY <2>5, <2>6
<1> QED BY <1>7, <1>8

LEMMA AnalysisNext ==
  ASSUME AnalysisInv, [Next]_vars
  PROVE  AnalysisInv'
<1>1. CallKnown /\ SpeakersKnown
  BY DEF AnalysisInv
<1>2. CASE Resolve
  <2>1. Restarted /\ UNCHANGED <<call, patches>> /\ DOMAIN speakers' = SpeakersOf(segs)
    BY <1>2 DEF Resolve, bounds
  <2> QED BY <1>1, <2>1, RestartKeeps DEF CallKnown
<1>3. CASE StoredAgain
  <2>1. Restarted /\ UNCHANGED <<call, patches>> /\ DOMAIN speakers' = SpeakersOf(segs)
    BY <1>3 DEF StoredAgain
  <2> QED BY <1>1, <2>1, RestartKeeps DEF CallKnown
<1>4. CASE PatchSpeakers
  <2>1. PICK changed : Patch(changed)
    BY <1>4 DEF PatchSpeakers
  <2>2. Restarted /\ UNCHANGED call /\ patches' = patches + 1 /\ stage = "done"
        /\ speakers' = Corrected(changed)
    BY <2>1 DEF Patch
  <2>3. DOMAIN speakers' = SpeakersOf(segs)
    BY <1>1, <2>2 DEF SpeakersKnown, Corrected
  <2>4. patches' \in Nat
    BY <1>1, <2>2 DEF CallKnown
  <2> QED BY <1>1, <2>2, <2>3, <2>4, RestartKeeps
<1>5. CASE Measure
  BY <1>5, MeasureKeeps
<1>6. ASSUME NEW kind \in MLCalls, Skip(kind) \/ Refused(kind) \/ Post(kind) PROVE AnalysisInv'
  BY <1>6, SkipKeeps, RefusedKeeps, PostKeeps
<1>7. CASE UNCHANGED vars
  <2>1. /\ UNCHANGED <<call, stage, speakers, rows, labels, axes, chunks, metrics, index,
                    warnings, misled, patches>>
    BY <1>7 DEF vars, bounds
  <2>2. /\ segs' = segs /\ Segs' = Segs /\ \A kind \in MLCalls : Texts(kind)' = Texts(kind)
        /\ \A i \in Segs : RoleOf(i)' = RoleOf(i)
    BY <2>1, SameTexts
  <2>3. RowsOfTheCall'
    <3>1. stage \in MLCalls => Texts(stage)' = Texts(stage)
      <4> SUFFICES ASSUME stage \in MLCalls PROVE Texts(stage)' = Texts(stage)
        OBVIOUS
      <4>1. PICK kind \in MLCalls : kind = stage /\ kind = stage'
        BY <2>1
      <4>2. Texts(stage)' = Texts(kind)' /\ Texts(stage) = Texts(kind)
        BY <4>1
      <4> QED BY <2>2, <4>2
    <3> QED BY <2>1, <3>1 DEF AnalysisInv, RowsOfTheCall
  <2>4. CallKnown' /\ SpeakersKnown' /\ NotYetFailed' /\ LabelsFit' /\ AxesFit' /\ AxesParsed'
    BY <2>1, <2>2 DEF AnalysisInv, CallKnown, SpeakersKnown, NotYetFailed, LabelsFit, AxesFit, AxesParsed
  <2>5. Measured' /\ IndexFits'
    BY <2>1, <2>2 DEF AnalysisInv, Measured, IndexFits, Covers
  <2> QED BY <2>3, <2>4, <2>5 DEF AnalysisInv
<1> QED BY <1>2, <1>3, <1>4, <1>5, <1>6, <1>7 DEF Next

LEMMA AnalysisSafe == Spec => []AnalysisInv
<1>1. Init => AnalysisInv
  BY AnalysisInit
<1>2. AnalysisInv /\ [Next]_vars => AnalysisInv'
  BY AnalysisNext
<1> QED BY <1>1, <1>2, PTL DEF Spec

-----------------------------------------------------------------------------
(* Theorems.                                                               *)

LEMMA StepKeepsCorrections ==
  ASSUME AnalysisInv, [Next]_vars, NEW s \in Manual
  PROVE  speakers'[s].manual /\ (speakers'[s].role = speakers[s].role \/ patches' > patches)
<1>1. CallKnown /\ SpeakersKnown
  BY DEF AnalysisInv
<1>2. s \in DOMAIN speakers /\ speakers[s].manual
  BY DEF Manual
<1>3. s \in SpeakersOf(segs)
  BY <1>1, <1>2 DEF SpeakersKnown
<1>4. CASE speakers' = [t \in SpeakersOf(segs) |-> Stored(t)]
  <2>1. speakers'[s] = speakers[s]
    BY <1>2, <1>3, <1>4 DEF Stored
  <2> QED BY <1>2, <2>1
<1>5. CASE PatchSpeakers
  <2>1. PICK changed : Patch(changed)
    BY <1>5 DEF PatchSpeakers
  <2>2. patches' > patches
    BY <1>1, <2>1 DEF Patch, CallKnown
  <2>3. speakers'[s] = IF s \in DOMAIN changed THEN [role |-> changed[s], manual |-> TRUE] ELSE speakers[s]
    BY <1>2, <2>1 DEF Patch, Corrected
  <2>4. speakers'[s].manual
    BY <1>2, <2>3
  <2> QED BY <2>2, <2>4
<1>6. CASE speakers' = speakers
  BY <1>2, <1>6
<1>7. ASSUME Measure \/ UNCHANGED vars PROVE speakers' = speakers
  BY <1>7 DEF Measure, vars
<1>8. ASSUME NEW kind \in MLCalls, Skip(kind) \/ Refused(kind) \/ Post(kind) PROVE speakers' = speakers
  BY <1>8 DEF Skip, Refused, Post, Answered
<1>9. ASSUME Resolve \/ StoredAgain PROVE speakers' = [t \in SpeakersOf(segs) |-> Stored(t)]
  BY <1>9 DEF Resolve, StoredAgain
<1> QED BY <1>4, <1>5, <1>6, <1>7, <1>8, <1>9 DEF Next

\* No analysis, and no second worker that stores the transcript late, takes a
\* role back that a user has corrected (persist.py:57-78).
THEOREM CorrectionsAreKept == Spec => CorrectionsStay
<1>1. AnalysisInv /\ [Next]_vars =>
        [\A s \in Manual : speakers'[s].manual /\ (speakers'[s].role = speakers[s].role \/ patches' > patches)]_vars
  BY StepKeepsCorrections
<1> QED BY <1>1, AnalysisSafe, PTL DEF Spec, CorrectionsStay

\* Labels and emotions reach the segments whose text they score, however a call
\* is cut into requests and in whatever order honest answers come
\* (ml/__init__.py:322-347, 408-443, runner.py:401-438).
THEOREM ScoresAreTheSegments == Spec => []ScoresFindTheirSegments
<1>1. AnalysisInv => ScoresFindTheirSegments
  BY DEF AnalysisInv, LabelsFit, AxesFit, ScoresFindTheirSegments
<1> QED BY <1>1, AnalysisSafe, PTL

\* No segment reads as neutral that the service did not score as flat, and no
\* score is lost (ml/__init__.py:182-244, 470-500).
THEOREM UnscoredIsUnscored == Spec => []UnscoredIsNotNeutral
<1>1. ASSUME AnalysisInv PROVE UnscoredIsNotNeutral
  <2> SUFFICES ASSUME NEW i \in Segs
               PROVE  Valence(axes[i].axis) =
                        (IF axes[i].of = 0 THEN "none"
                         ELSE CASE call.form = "scored" -> "signed"
                                [] call.form = "flat" -> "zero"
                                [] OTHER -> "none")
    BY DEF UnscoredIsNotNeutral
  <2> DEFINE reads == CASE call.form = "scored" -> "signed"
                        [] call.form = "flat" -> "zero"
                        [] OTHER -> "none"
  <2>1. call.form \in AxisForms
    BY <1>1, CallType DEF AnalysisInv
  <2>2. axes[i] = NoAxis \/ axes[i] = AxisOf(axes[i].of, call.form)
    BY <1>1 DEF AnalysisInv, AxesParsed
  <2>3. CASE axes[i] = NoAxis
    BY <2>3 DEF NoAxis, Valence
  <2>4. CASE axes[i] = AxisOf(axes[i].of, call.form)
    <3>1. axes[i].axis = ParseAxis(IF axes[i].of = 0 THEN "missing" ELSE call.form)
      BY <2>4 DEF AxisOf
    <3>2. CASE axes[i].of = 0
      <4>1. axes[i].axis = ParseAxis("missing")
        BY <3>1, <3>2
      <4>2. Valence(ParseAxis("missing")) = "none"
        BY DEF ParseAxis, Valence
      <4> QED BY <3>2, <4>1, <4>2, Zenon
    <3>3. CASE axes[i].of # 0
      <4>1. axes[i].axis = ParseAxis(call.form)
        BY <3>1, <3>3
      <4>2. \A form \in AxisForms :
               Valence(ParseAxis(form)) = CASE form = "scored" -> "signed"
                                            [] form = "flat" -> "zero"
                                            [] OTHER -> "none"
        BY DEF AxisForms, ParseAxis, Valence
      <4>3. Valence(ParseAxis(call.form)) = reads
        BY <2>1, <4>2, Zenon
      <4> HIDE DEF reads
      <4>4. Valence(axes[i].axis) = IF axes[i].of = 0 THEN "none" ELSE reads
        BY <3>3, <4>1, <4>3
      <4> QED BY <4>4, Zenon DEF reads
    <3> QED BY <3>2, <3>3
  <2> QED BY <2>2, <2>3, <2>4
<1> QED BY <1>1, AnalysisSafe, PTL

\* The search index has every chunk with its own vector, or nothing
\* (persist.py:209-234).
THEOREM IndexIsAllOrNothing == Spec => []IndexIsWholeOrAbsent
<1>1. AnalysisInv => IndexIsWholeOrAbsent
  BY DEF AnalysisInv, IndexFits, Covers, IndexIsWholeOrAbsent
<1> QED BY <1>1, AnalysisSafe, PTL

\* The segments are chunked in order, none left out and none twice, and a chunk
\* ends exactly where the speaker changes, the pause is long or the text is
\* full, for a transcript of any length (ask.py:16-47).
THEOREM ChunksAreRight == Spec => []ChunksAreCutWhereTheyMust
<1>1. AnalysisInv => ChunksAreCutWhereTheyMust
  <2> SUFFICES ASSUME AnalysisInv, stage = "embed"
               PROVE  AllInOrder(chunks) /\ \A k \in DOMAIN chunks : CutRight(chunks, k)
    BY DEF ChunksAreCutWhereTheyMust
  <2>1. chunks = Chunks(segs, MaxChars) /\ segs \in Seq(Segment) /\ MaxChars \in Nat
    BY CallType DEF AnalysisInv, Measured
  <2> QED BY <2>1, ChunksCut
<1> QED BY <1>1, AnalysisSafe, PTL

-----------------------------------------------------------------------------
(* Moments.                                                                *)

LEMMA EndsOfTwo ==
  ASSUME NEW a \in Int, NEW b \in Int
  PROVE  /\ FE!Min({a, b}) <= a /\ FE!Min({a, b}) <= b
         /\ FE!Max({a, b}) >= a /\ FE!Max({a, b}) >= b
         /\ FE!Min({a, b}) \in Int /\ FE!Max({a, b}) \in Int
<1>1. \E x \in {a, b} : \A y \in {a, b} : x <= y
  <2>1. a <= b \/ b <= a
    OBVIOUS
  <2> QED BY <2>1
<1>2. \E x \in {a, b} : \A y \in {a, b} : x >= y
  <2>1. a >= b \/ b >= a
    OBVIOUS
  <2> QED BY <2>1
<1>3. FE!Min({a, b}) \in {a, b} /\ \A y \in {a, b} : FE!Min({a, b}) <= y
  BY <1>1 DEF FE!Min
<1>4. FE!Max({a, b}) \in {a, b} /\ \A y \in {a, b} : FE!Max({a, b}) >= y
  BY <1>2 DEF FE!Max
<1> QED BY <1>3, <1>4

\* The segments of a chunk lie between its first and its last.
LEMMA ChunkRises ==
  ASSUME NEW S, S \subseteq Nat, NEW c \in Seq(S),
         \A m \in 1..Len(c) - 1 : c[m + 1] = c[m] + 1
  PROVE  \A n \in 1..Len(c) : c[n] = c[1] + (n - 1)
<1> DEFINE T == {m \in Nat : m + 1 \in 1..Len(c) => c[m + 1] = c[1] + m}
<1>0. Len(c) \in Nat /\ \A n \in 1..Len(c) : c[n] \in Nat
  <2>1. \A n \in 1..Len(c) : c[n] \in Nat
    BY ElementOfSeq
  <2>2. Len(c) \in Nat
    OBVIOUS
  <2> QED BY <2>1, <2>2, Zenon
<1>1. 0 \in T
  <2>1. 1 \in 1..Len(c) => c[1] = c[1] + 0
    BY <1>0
  <2>2. 0 + 1 = 1
    OBVIOUS
  <2> QED BY <2>1, <2>2
<1>2. ASSUME NEW m \in Nat, m \in T PROVE m + 1 \in T
  <2> SUFFICES ASSUME (m + 1) + 1 \in 1..Len(c) PROVE c[(m + 1) + 1] = c[1] + (m + 1)
    OBVIOUS
  <2>1. m + 1 \in 1..Len(c) - 1 /\ m + 1 \in 1..Len(c) /\ 1 \in 1..Len(c)
    BY <1>0
  <2>2. c[(m + 1) + 1] = c[m + 1] + 1 /\ c[m + 1] = c[1] + m /\ c[1] \in Nat
    BY <1>0, <1>2, <2>1
  <2> QED BY <2>2
<1> HIDE DEF T
<1>3. \A m \in Nat : m \in T
  BY <1>1, <1>2, Induction
<1> SUFFICES ASSUME NEW n \in 1..Len(c) PROVE c[n] = c[1] + (n - 1)
  OBVIOUS
<1>4. n - 1 \in Nat /\ (n - 1) + 1 = n
  BY <1>0
<1>5. n - 1 \in T
  BY <1>3, <1>4
<1> QED BY <1>4, <1>5 DEF T

\* A moment found in the index spans all of the text it shows, though its
\* times are looked up from its first and last segment (report.py:228-258).
THEOREM MomentsAreWide == Spec => []MomentsSpanTheirText
<1>1. ASSUME AnalysisInv PROVE MomentsSpanTheirText
  <2> SUFFICES ASSUME stage = "done", InTurns, index # <<>>,
                      NEW k \in DOMAIN index, NEW n \in DOMAIN chunks[k]
               PROVE  LET moment == Packed(segs, index[k].first, index[k].last)
                          i == chunks[k][n]
                      IN moment.start <= segs[i].start /\ segs[i].end <= moment.end
    BY DEF MomentsSpanTheirText
  <2> DEFINE c == chunks[k]
             first == c[1]
             last == c[Len(c)]
             i == c[n]
  <2>1. segs \in Seq(Segment) /\ MaxChars \in Nat /\ Segs = 1..Len(segs) /\ Len(segs) \in Nat
    BY <1>1, CallType DEF AnalysisInv, Segs
  <2>2. Covers
    BY <1>1 DEF AnalysisInv, IndexFits
  <2>3. k \in DOMAIN chunks /\ index[k].first = first /\ index[k].last = last
    BY <2>2 DEF Covers
  <2>4. chunks \in Seq(Seq(Segs)) /\ AllInOrder(chunks)
    BY <1>1, <2>1, ChunksCut DEF AnalysisInv, Measured
  <2>5. c \in Seq(Segs) /\ \A m \in 1..Len(c) - 1 : c[m + 1] = c[m] + 1
    <3>1. c \in Seq(Segs)
      BY <2>3, <2>4
    <3>2. \A m \in 1..Len(c) - 1 : c[m + 1] = c[m] + 1
      BY <2>3, <2>4 DEF AllInOrder
    <3> QED BY <3>1, <3>2
  <2> HIDE DEF c
  <2>6. Len(c) \in Nat /\ n \in 1..Len(c) /\ 1 \in 1..Len(c) /\ Len(c) \in 1..Len(c)
    <3>1. n \in DOMAIN c
      BY DEF c
    <3> QED BY <2>5, <3>1
  <2>7. first \in Segs /\ last \in Segs /\ i \in Segs
    BY <2>5, <2>6, ElementOfSeq
  <2>8. first <= i /\ i <= last
    <3>1. \A m \in 1..Len(c) : c[m] = first + (m - 1)
      <4>1. Segs \subseteq Nat
        BY <2>1
      <4> HIDE DEF first
      <4>2. \A m \in 1..Len(c) : c[m] = c[1] + (m - 1)
        BY <2>5, <4>1, ChunkRises
      <4> QED BY <4>2 DEF first
    <3>2. i = first + (n - 1) /\ last = first + (Len(c) - 1)
      BY <2>6, <3>1
    <3> QED BY <2>1, <2>6, <2>7, <3>2
  <2> HIDE DEF first, last, i
  <2>9. segs[first].start <= segs[i].start /\ segs[i].end <= segs[last].end
    <3>0. \A j \in Segs : segs[j].start \in Int /\ segs[j].end \in Int
      <4>1. \A j \in Segs : segs[j] \in Segment
        BY <2>1
      <4>2. \A x \in Segment : x.start \in Int /\ x.end \in Int
        BY DEF Segment
      <4> QED BY <4>1, <4>2
    <3>1. first < i \/ first = i
      BY <2>1, <2>7, <2>8
    <3>2. i < last \/ i = last
      BY <2>1, <2>7, <2>8
    <3> QED BY <2>7, <3>0, <3>1, <3>2 DEF InTurns
  <2>10. \A j \in Segs : segs[j].start \in Int /\ segs[j].end \in Int
    <3>1. \A j \in Segs : segs[j] \in Segment
      BY <2>1
    <3>2. \A x \in Segment : x.start \in Int /\ x.end \in Int
      BY DEF Segment
    <3> QED BY <3>1, <3>2
  <2> DEFINE moment == Packed(segs, first, last)
  <2>11. /\ moment.start = FE!Min({segs[first].start, segs[last].start})
         /\ moment.end = FE!Max({segs[first].end, segs[last].end})
    BY DEF Packed
  <2>12. /\ moment.start <= segs[first].start /\ moment.start \in Int
         /\ moment.end >= segs[last].end /\ moment.end \in Int
    <3>1. /\ segs[first].start \in Int /\ segs[last].start \in Int
          /\ segs[first].end \in Int /\ segs[last].end \in Int
      BY <2>7, <2>10
    <3>2. /\ FE!Min({segs[first].start, segs[last].start}) <= segs[first].start
          /\ FE!Min({segs[first].start, segs[last].start}) \in Int
      BY <3>1, EndsOfTwo, Zenon
    <3>3. /\ FE!Max({segs[first].end, segs[last].end}) >= segs[last].end
          /\ FE!Max({segs[first].end, segs[last].end}) \in Int
      BY <3>1, EndsOfTwo, Zenon
    <3> HIDE DEF moment
    <3> QED BY <2>11, <3>2, <3>3
  <2> HIDE DEF moment
  <2>13. moment.start <= segs[i].start /\ segs[i].end <= moment.end
    BY <2>7, <2>9, <2>10, <2>12
  <2> QED BY <2>3, <2>13 DEF moment, i, c
<1> QED BY <1>1, AnalysisSafe, PTL

-----------------------------------------------------------------------------
(* Monologues.                                                             *)

Times == \A j \in Segs : segs[j].start \in Int /\ segs[j].end \in Int

LEMMA TimesType ==
  ASSUME segs \in Seq(Segment)
  PROVE  Times /\ Segs = 1..Len(segs) /\ Len(segs) \in Nat
<1>1. \A j \in Segs : segs[j] \in Segment
  BY DEF Segs
<1>2. \A x \in Segment : x.start \in Int /\ x.end \in Int
  BY DEF Segment
<1>3. Segs = 1..Len(segs) /\ Len(segs) \in Nat
  BY DEF Segs
<1> QED BY <1>1, <1>2, <1>3 DEF Times

\* When no one is heard while an earlier segment goes on, the segments are in
\* the order of their start.
LEMMA ByStartIsTheOrder ==
  ASSUME segs \in Seq(Segment), InTurns
  PROVE  /\ DOMAIN ByStart(segs) = Segs
         /\ \A k \in Segs : ByStart(segs)[k] = k
         /\ ByStart(segs) \in Seq(Segs) /\ Len(ByStart(segs)) = Len(segs)
<1>1. Times /\ Segs = 1..Len(segs) /\ Len(segs) \in Nat
  BY TimesType
<1>2. ASSUME NEW i \in Segs
      PROVE  Cardinality({j \in DOMAIN segs : Before(segs, j, i)}) = i
  <2>1. ASSUME NEW j \in Segs PROVE Before(segs, j, i) <=> j <= i
    <3>1. i \in Int /\ j \in Int /\ segs[i].start \in Int /\ segs[j].start \in Int
      BY <1>1 DEF Times
    <3>2. CASE j < i
      <4>1. segs[j].start <= segs[i].start
        BY <3>2 DEF InTurns
      <4> QED BY <3>1, <3>2, <4>1 DEF Before
    <3>3. CASE j = i
      BY <3>1, <3>3 DEF Before
    <3>4. CASE i < j
      <4>1. segs[i].start <= segs[j].start
        BY <3>4 DEF InTurns
      <4> QED BY <3>1, <3>4, <4>1 DEF Before
    <3> QED BY <3>1, <3>2, <3>3, <3>4
  <2>2. {j \in DOMAIN segs : Before(segs, j, i)} = {j \in Segs : j <= i}
    BY <2>1 DEF Segs
  <2>3. {j \in Segs : j <= i} = 1..i
    BY <1>1
  <2>4. i \in Nat /\ i >= 1
    BY <1>1
  <2>5. Cardinality(1..i) = i
    BY <2>4, FS_Interval
  <2> QED BY <2>2, <2>3, <2>5
<1> DEFINE Rank(i) == Cardinality({j \in DOMAIN segs : Before(segs, j, i)})
<1>3. \A i \in Segs : Rank(i) = i
  BY <1>2
<1>4. ByStart(segs) = [k \in Segs |-> CHOOSE i \in Segs : Rank(i) = k]
  BY Zenon DEF ByStart, Segs
<1> HIDE DEF Rank
<1>5. ASSUME NEW k \in Segs PROVE (CHOOSE i \in Segs : Rank(i) = k) = k
  BY <1>3
<1> DEFINE order == ByStart(segs)
<1>6. DOMAIN order = Segs /\ \A k \in Segs : order[k] = k
  BY <1>4, <1>5
<1>7. order = [k \in Segs |-> order[k]]
  <2> DEFINE At(k) == CHOOSE i \in Segs : Rank(i) = k
  <2>1. order = [k \in Segs |-> At(k)]
    BY <1>4
  <2> HIDE DEF At, order
  <2> QED BY <2>1
<1> HIDE DEF order
<1>8. order \in [1..Len(segs) -> Segs]
  BY <1>1, <1>6, <1>7
<1>9. order \in Seq(Segs) /\ Len(order) = Len(segs)
  BY <1>1, <1>8
<1> QED BY <1>6, <1>9 DEF order

Talk(ss) == [best : Seq(DOMAIN ss), run : Seq(DOMAIN ss)]
Silent == [best |-> <<>>, run |-> <<>>]

LEMMA SpokenType ==
  ASSUME NEW ss, NEW acc \in Talk(ss), NEW i \in DOMAIN ss
  PROVE  Spoken(ss, acc, i) \in Talk(ss)
<1>1. acc.best \in Seq(DOMAIN ss) /\ acc.run \in Seq(DOMAIN ss)
      /\ acc = [best |-> acc.best, run |-> acc.run]
  BY DEF Talk
<1>2. <<i>> \in Seq(DOMAIN ss) /\ Append(acc.run, i) \in Seq(DOMAIN ss)
  BY <1>1
<1>3. Longer(ss, acc.best, acc.run) \in Seq(DOMAIN ss)
  BY <1>1 DEF Longer
<1>4. /\ [acc EXCEPT !.run = <<i>>] = [best |-> acc.best, run |-> <<i>>]
      /\ [acc EXCEPT !.run = Append(acc.run, i)] = [best |-> acc.best, run |-> Append(acc.run, i)]
  <2>1. \A x : [acc EXCEPT !.run = x] = [best |-> acc.best, run |-> x]
    BY DEF Talk
  <2> QED BY <2>1
<1> QED BY <1>1, <1>2, <1>3, <1>4 DEF Spoken, Talk

\* How the monologues come about, a segment at a time.
TalkSteps(ss, after) ==
  /\ after \in [0..Len(ss) -> Talk(ss)]
  /\ after[0] = Silent
  /\ \A k \in 1..Len(ss) : after[k] = Spoken(ss, after[k - 1], k)

LEMMA MonologuesBySteps ==
  ASSUME NEW ss \in Seq(Segment), \A k \in DOMAIN ss : ByStart(ss)[k] = k
  PROVE  \E after : TalkSteps(ss, after) /\ Monologues(ss) = after[Len(ss)]
<1> DEFINE n == Len(ss)
           order == ByStart(ss)
           S == Talk(ss)
           step == [x \in S \X Nat |-> IF x[2] \in 1..n THEN Spoken(ss, x[1], x[2]) ELSE x[1]]
           IsAfter(g) == g = [k \in 0..n |-> IF k = 0 THEN [best |-> <<>>, run |-> <<>>]
                                             ELSE Spoken(ss, g[k - 1], order[k])]
<1>1. n \in Nat /\ DOMAIN ss = 1..n /\ \A k \in 1..n : order[k] = k
  <2>1. n \in Nat /\ DOMAIN ss = 1..n
    OBVIOUS
  <2> HIDE DEF n, order
  <2>2. \A k \in DOMAIN ss : order[k] = k
    BY DEF order
  <2> QED BY <2>1, <2>2
<1> HIDE DEF n
<1>2. Silent \in S
  <2>1. <<>> \in Seq(DOMAIN ss)
    OBVIOUS
  <2> QED BY <2>1 DEF Silent, Talk
<1>3. step \in [S \X Nat -> S]
  <2> SUFFICES ASSUME NEW x \in S \X Nat
               PROVE  (IF x[2] \in 1..n THEN Spoken(ss, x[1], x[2]) ELSE x[1]) \in S
    OBVIOUS
  <2> QED BY <1>1, SpokenType
<1>4. \A v \in S, k \in 1..n : step[<<v, k>>] = Spoken(ss, v, k)
  <2> SUFFICES ASSUME NEW v \in S, NEW k \in 1..n PROVE step[<<v, k>>] = Spoken(ss, v, k)
    OBVIOUS
  <2>1. <<v, k>> \in S \X Nat /\ <<v, k>>[1] = v /\ <<v, k>>[2] = k
    BY <1>1
  <2> HIDE DEF S
  <2> QED BY <2>1
<1> HIDE DEF step, S, order
<1>5. PICK f : AllSteps(S, Silent, step, f)
  BY <1>2, <1>3, Recursion
<1> DEFINE g == [k \in 0..n |-> f[k]]
<1>6. ASSUME NEW k \in 1..n PROVE f[k] = Spoken(ss, f[k - 1], k)
  <2>1. k \in Nat /\ k - 1 \in Nat /\ (k - 1) + 1 = k
    BY <1>1
  <2>2. f[k] = step[<<f[k - 1], k>>] /\ f[k - 1] \in S
    BY <1>5, <2>1 DEF AllSteps
  <2> QED BY <1>4, <2>2
<1>7. IsAfter(g)
  <2>1. ASSUME NEW k \in 0..n
        PROVE  g[k] = IF k = 0 THEN [best |-> <<>>, run |-> <<>>] ELSE Spoken(ss, g[k - 1], order[k])
    <3>1. CASE k = 0
      BY <1>5, <3>1 DEF AllSteps, Silent
    <3>2. CASE k # 0
      <4>1. k \in 1..n /\ g[k] = f[k] /\ g[k - 1] = f[k - 1]
        BY <1>1, <3>2
      <4>2. order[k] = k
        BY <1>1, <4>1
      <4> HIDE DEF g
      <4> QED BY <1>6, <3>2, <4>1, <4>2
    <3> QED BY <3>1, <3>2
  <2>2. g = [k \in 0..n |-> g[k]]
    OBVIOUS
  <2> HIDE DEF g
  <2> QED BY <2>1, <2>2, Zenon
<1> HIDE DEF g
<1>8. PICK h : h = CHOOSE each : IsAfter(each)
  OBVIOUS
<1>9. IsAfter(h)
  BY <1>7, <1>8
<1>10. Monologues(ss) = h[n]
  <2> DEFINE chosen == CHOOSE each : IsAfter(each)
  <2>1. Monologues(ss) = chosen[n]
    BY DEF Monologues, n, order
  <2> HIDE DEF IsAfter
  <2> QED BY <1>8, <2>1
<1>11. \A k \in 0..n : h[k] = IF k = 0 THEN Silent ELSE Spoken(ss, h[k - 1], order[k])
  BY <1>9, Zenon DEF Silent
<1>12. \A k \in 1..n : h[k] = Spoken(ss, h[k - 1], k)
  <2>1. \A k \in 1..n : k \in 0..n /\ k # 0 /\ order[k] = k
    BY <1>1
  <2> HIDE DEF IsAfter
  <2> QED BY <1>11, <2>1
<1>13. h[0] = Silent
  <2>1. 0 \in 0..n
    BY <1>1
  <2> HIDE DEF IsAfter
  <2> QED BY <1>11, <2>1
<1> HIDE DEF IsAfter
<1> DEFINE T == {m \in Nat : m \in 0..n => h[m] = f[m]}
<1>14. 0 \in T
  BY <1>5, <1>13 DEF AllSteps
<1>15. ASSUME NEW m \in Nat, m \in T PROVE m + 1 \in T
  <2> SUFFICES ASSUME m + 1 \in 0..n PROVE h[m + 1] = f[m + 1]
    OBVIOUS
  <2>1. m \in 0..n /\ (m + 1) - 1 = m /\ m + 1 \in 1..n
    BY <1>1
  <2>2. h[m + 1] = Spoken(ss, h[m], m + 1)
    BY <1>12, <2>1
  <2>3. f[m + 1] = Spoken(ss, f[m], m + 1)
    BY <1>6, <2>1
  <2> QED BY <1>15, <2>1, <2>2, <2>3
<1> HIDE DEF T
<1>16. \A k \in 0..n : h[k] = f[k]
  <2>1. \A k \in Nat : k \in T
    BY <1>14, <1>15, Induction
  <2> QED BY <1>1, <2>1 DEF T
<1>17. TalkSteps(ss, h)
  <2>1. h = [k \in 0..n |-> h[k]]
    BY <1>9, Zenon DEF IsAfter
  <2>2. \A k \in 0..n : h[k] \in S
    BY <1>1, <1>5, <1>16 DEF AllSteps
  <2>3. h \in [0..n -> S]
    BY <2>1, <2>2
  <2> QED BY <1>12, <1>13, <2>3 DEF TalkSteps, n, S
<1> QED BY <1>10, <1>17 DEF n

\* A run of neighbours, and the runs that there are up to a segment.
Streak(r) ==
  /\ r \in Seq(Segs) /\ r # <<>>
  /\ \A m \in 1..Len(r) - 1 : r[m + 1] = r[m] + 1 /\ GoesOn(segs, r[m], r[m + 1])

Stretch(a, b) ==
  /\ a \in Segs /\ b \in Segs /\ a <= b
  /\ \A m \in a..b - 1 : GoesOn(segs, m, m + 1)
  /\ segs[b].end - segs[a].start > 0

Outlasts(best, s) ==
  \A a, b \in Segs : Stretch(a, b) /\ b < s =>
    best # <<>> /\ segs[b].end - segs[a].start <= Lasts(segs, best)

HeardTo(acc, k) ==
  IF k = 0 THEN acc = Silent
  ELSE /\ Streak(acc.run) /\ acc.run[Len(acc.run)] = k
       /\ acc.run[1] = 1 \/ ~GoesOn(segs, acc.run[1] - 1, acc.run[1])
       /\ acc.best = <<>> \/ Streak(acc.best)
       /\ Outlasts(acc.best, acc.run[1])

LEMMA StreakEnds ==
  ASSUME segs \in Seq(Segment), NEW r, Streak(r)
  PROVE  /\ r[1] \in Segs /\ r[Len(r)] \in Segs /\ r[1] <= r[Len(r)]
         /\ Lasts(segs, r) = segs[r[Len(r)]].end - segs[r[1]].start
         /\ Lasts(segs, r) \in Int
         /\ Len(r) \in Nat /\ 1 \in 1..Len(r) /\ Len(r) \in 1..Len(r)
         /\ \A m \in 1..Len(r) : r[m] = r[1] + (m - 1)
<1>1. r \in Seq(Segs) /\ Len(r) \in Nat /\ Len(r) # 0
  BY DEF Streak
<1>2. 1 \in 1..Len(r) /\ Len(r) \in 1..Len(r)
  BY <1>1
<1>3. r[1] \in Segs /\ r[Len(r)] \in Segs
  BY <1>1, <1>2, ElementOfSeq
<1>4. Times /\ Segs = 1..Len(segs)
  BY TimesType
<1>5. \A m \in 1..Len(r) : r[m] = r[1] + (m - 1)
  <2>1. Segs \subseteq Nat
    BY <1>4
  <2> QED BY <1>1, <2>1, ChunkRises DEF Streak
<1>6. Lasts(segs, r) = segs[r[Len(r)]].end - segs[r[1]].start
  BY DEF Lasts
<1>7. Lasts(segs, r) \in Int
  <2>1. segs[r[Len(r)]].end \in Int /\ segs[r[1]].start \in Int
    BY <1>3, <1>4 DEF Times
  <2> QED BY <1>6, <2>1
<1>8. r[1] <= r[Len(r)]
  <2>1. r[Len(r)] = r[1] + (Len(r) - 1) /\ r[1] \in Nat
    BY <1>2, <1>3, <1>4, <1>5
  <2> QED BY <1>1, <2>1
<1> QED BY <1>1, <1>2, <1>3, <1>5, <1>6, <1>7, <1>8

\* The better of the two outlasts every run so far.
LEMMA LongerOutlasts ==
  ASSUME segs \in Seq(Segment), InTurns, NEW k \in Segs, NEW acc, HeardTo(acc, k)
  PROVE  LET l == Longer(segs, acc.best, acc.run) IN
         (l = <<>> \/ Streak(l)) /\ Outlasts(l, k + 1)
<1> DEFINE best == acc.best
           run == acc.run
           s == run[1]
           l == Longer(segs, best, run)
<1>1. Times /\ Segs = 1..Len(segs) /\ Len(segs) \in Nat /\ k # 0
  BY TimesType
<1>2. /\ Streak(run) /\ run[Len(run)] = k
      /\ s = 1 \/ ~GoesOn(segs, s - 1, s)
      /\ best = <<>> \/ Streak(best)
      /\ Outlasts(best, s)
  BY <1>1 DEF HeardTo
<1> HIDE DEF best, run
<1>3. /\ s \in Segs /\ s <= k
      /\ Lasts(segs, run) = segs[k].end - segs[s].start /\ Lasts(segs, run) \in Int
  BY <1>2, StreakEnds
<1>4. best # <<>> => Lasts(segs, best) \in Int
  BY <1>2, StreakEnds
<1> DEFINE least == IF best = <<>> THEN 0 ELSE Lasts(segs, best)
<1>5. l = IF Lasts(segs, run) > least THEN run ELSE best
  BY DEF Longer
<1>6. least \in Int
  BY <1>4
<1> HIDE DEF l, s
<1>7. ASSUME NEW a \in Segs, NEW b \in Segs, Stretch(a, b), b < k + 1
      PROVE  l # <<>> /\ segs[b].end - segs[a].start <= Lasts(segs, l)
  <2> DEFINE d == segs[b].end - segs[a].start
  <2>1. d \in Int /\ d > 0 /\ a <= b
    <3>1. segs[b].end \in Int /\ segs[a].start \in Int
      BY <1>1 DEF Times
    <3> QED BY <1>7, <3>1 DEF Stretch
  <2>2. run # <<>>
    BY <1>2 DEF Streak
  <2>3. CASE b < s
    <3>1. best # <<>> /\ d <= Lasts(segs, best)
      BY <1>2, <1>7, <2>3 DEF Outlasts
    <3> HIDE DEF d
    <3>2. l = run \/ l = best
      BY <1>5
    <3>3. l = run => Lasts(segs, run) > Lasts(segs, best) \/ run = best
      BY <1>5, <3>1
    <3> QED BY <1>3, <1>4, <2>1, <2>2, <3>1, <3>2, <3>3 DEF d
  <2>4. CASE ~(b < s)
    <3>1. s <= a
      <4> SUFFICES ASSUME a < s PROVE FALSE
        BY <1>1, <1>3
      <4>1. s - 1 \in a..b - 1 /\ s # 1 /\ (s - 1) + 1 = s
        BY <1>1, <1>3, <2>4
      <4>2. GoesOn(segs, s - 1, s)
        BY <1>7, <4>1 DEF Stretch
      <4> QED BY <1>2, <4>1, <4>2
    <3>2. segs[s].start <= segs[a].start
      <4>1. s < a \/ s = a
        BY <1>1, <1>3, <3>1
      <4>2. segs[a].start \in Int
        BY <1>1 DEF Times
      <4> QED BY <1>3, <4>1, <4>2 DEF InTurns
    <3>3. segs[b].end <= segs[k].end
      <4>1. b < k \/ b = k
        BY <1>1, <1>7
      <4>2. segs[b].end \in Int
        BY <1>1 DEF Times
      <4> QED BY <4>1, <4>2 DEF InTurns
    <3>4. d <= Lasts(segs, run)
      <4>1. segs[s].start \in Int /\ segs[a].start \in Int /\ segs[b].end \in Int /\ segs[k].end \in Int
        BY <1>1, <1>3 DEF Times
      <4> QED BY <1>3, <3>2, <3>3, <4>1
    <3> HIDE DEF d
    <3>5. CASE Lasts(segs, run) > least
      BY <1>5, <2>2, <3>4, <3>5 DEF d
    <3>6. CASE ~(Lasts(segs, run) > least)
      <4>1. l = best
        BY <1>5, <3>6
      <4>2. d <= least /\ least > 0
        BY <1>3, <1>6, <2>1, <3>4, <3>6
      <4>3. best # <<>> /\ least = Lasts(segs, best)
        BY <4>2
      <4> HIDE DEF least
      <4> QED BY <4>1, <4>2, <4>3 DEF d
    <3> QED BY <3>5, <3>6
  <2> QED BY <2>3, <2>4
<1>8. l = <<>> \/ Streak(l)
  BY <1>2, <1>5
<1> QED BY <1>7, <1>8 DEF Outlasts, l, best, run

LEMMA SpokenHeard ==
  ASSUME segs \in Seq(Segment), InTurns, NEW k \in 1..Len(segs), NEW acc \in Talk(segs),
         HeardTo(acc, k - 1)
  PROVE  HeardTo(Spoken(segs, acc, k), k)
<1> DEFINE run == acc.run
           next == Spoken(segs, acc, k)
           one == <<k>>
<1>1. k \in Nat /\ k # 0 /\ k \in Segs /\ (k - 1) + 1 = k /\ k - 1 \in Nat /\ Segs = 1..Len(segs)
  BY DEF Segs
<1>2. acc.best \in Seq(Segs) /\ run \in Seq(Segs)
  BY DEF Talk, Segs
<1>3. one \in Seq(Segs) /\ one # <<>> /\ Len(one) = 1 /\ one[1] = k /\ one[Len(one)] = k
  BY <1>1
<1> HIDE DEF one
<1>4. Streak(one)
  BY <1>3 DEF Streak
<1>5. CASE k = 1
  <2>1. acc.best = <<>> /\ run = <<>>
    BY <1>5 DEF HeardTo, Silent
  <2>2. next = [best |-> <<>>, run |-> one]
    BY <2>1 DEF Spoken, Talk, one
  <2>3. Outlasts(<<>>, 1)
    <3>1. \A b \in Segs : ~(b < 1)
      BY <1>1
    <3> QED BY <3>1 DEF Outlasts
  <2> HIDE DEF next
  <2>4. next.best = <<>> /\ next.run = one
    BY <2>2
  <2>5. HeardTo(next, k)
    BY <1>1, <1>3, <1>4, <1>5, <2>3, <2>4 DEF HeardTo
  <2> QED BY <2>5 DEF next
<1>6. CASE k # 1
  <2>1. k - 1 # 0 /\ k - 1 \in Segs
    BY <1>1, <1>6
  <2>2. /\ Streak(run) /\ run[Len(run)] = k - 1
        /\ run[1] = 1 \/ ~GoesOn(segs, run[1] - 1, run[1])
        /\ acc.best = <<>> \/ Streak(acc.best)
        /\ Outlasts(acc.best, run[1])
    BY <2>1 DEF HeardTo
  <2>3. run # <<>>
    BY <2>2 DEF Streak
  <2>4. CASE GoesOn(segs, k - 1, k)
    <3> DEFINE longer == Append(run, k)
               n == Len(run)
    <3>1. next = [best |-> acc.best, run |-> longer]
      BY <2>2, <2>3, <2>4 DEF Spoken, Talk
    <3>2. /\ longer \in Seq(Segs) /\ Len(longer) = n + 1 /\ longer[n + 1] = k
          /\ \A m \in 1..n : longer[m] = run[m]
          /\ n \in Nat /\ n # 0
      BY <1>1, <1>2, <2>3
    <3> HIDE DEF longer, next, n
    <3>3. longer # <<>>
      <4>1. Len(longer) # Len(<<>>)
        BY <3>2
      <4> QED BY <4>1
    <3>4. ASSUME NEW m \in 1..Len(longer) - 1
          PROVE  longer[m + 1] = longer[m] + 1 /\ GoesOn(segs, longer[m], longer[m + 1])
      <4>1. CASE m = n
        <5>1. longer[m + 1] = k /\ longer[m] = k - 1
          BY <2>2, <3>2, <4>1 DEF n
        <5> QED BY <1>1, <2>4, <5>1
      <4>2. CASE m # n
        <5>1. m \in 1..n /\ m + 1 \in 1..n /\ m \in 1..n - 1
          BY <3>2, <4>2
        <5> QED BY <2>2, <3>2, <5>1 DEF Streak, n
      <4> QED BY <4>1, <4>2
    <3>5. Streak(longer)
      BY <3>2, <3>3, <3>4 DEF Streak
    <3>6. longer[1] = run[1] /\ longer[Len(longer)] = k
      BY <3>2
    <3>7. next.best = acc.best /\ next.run = longer
      BY <3>1
    <3> HIDE DEF run
    <3>8. HeardTo(next, k)
      BY <1>1, <2>2, <3>5, <3>6, <3>7 DEF HeardTo
    <3> QED BY <3>8 DEF next
  <2>5. CASE ~GoesOn(segs, k - 1, k)
    <3> DEFINE l == Longer(segs, acc.best, run)
    <3>1. next = [best |-> l, run |-> one]
      BY <2>2, <2>3, <2>5, Zenon DEF Spoken, one
    <3>2. (l = <<>> \/ Streak(l)) /\ Outlasts(l, k)
      BY <1>1, <2>1, LongerOutlasts
    <3> HIDE DEF l, next
    <3>3. next.best = l /\ next.run = one
      BY <3>1
    <3>4. one[1] = k /\ ~GoesOn(segs, one[1] - 1, one[1])
      BY <1>3, <2>5
    <3>5. HeardTo(next, k)
      BY <1>1, <1>3, <1>4, <3>2, <3>3, <3>4 DEF HeardTo
    <3> QED BY <3>5 DEF next
  <2> QED BY <2>4, <2>5
<1> QED BY <1>5, <1>6

\* The longest monologue is a run, and none outlasts it.
LEMMA LongestOutlasts ==
  ASSUME segs \in Seq(Segment), InTurns
  PROVE  LET longest == LongestMonologue(segs) IN
         (longest = <<>> \/ Streak(longest)) /\ Outlasts(longest, Len(segs) + 1)
<1> DEFINE n == Len(segs)
           longest == LongestMonologue(segs)
<1>1. \A k \in DOMAIN segs : ByStart(segs)[k] = k
  BY ByStartIsTheOrder DEF Segs
<1>2. PICK after : TalkSteps(segs, after) /\ Monologues(segs) = after[n]
  BY <1>1, MonologuesBySteps
<1>3. n \in Nat /\ Segs = 1..n
  BY DEF Segs
<1> DEFINE T == {k \in Nat : k \in 0..n => HeardTo(after[k], k)}
<1>4. 0 \in T
  BY <1>2 DEF TalkSteps, HeardTo
<1>5. ASSUME NEW k \in Nat, k \in T PROVE k + 1 \in T
  <2> SUFFICES ASSUME k + 1 \in 0..n PROVE HeardTo(after[k + 1], k + 1)
    OBVIOUS
  <2>1. k \in 0..n /\ k + 1 \in 1..Len(segs) /\ (k + 1) - 1 = k
    BY <1>3
  <2>2. after[k] \in Talk(segs) /\ after[k + 1] = Spoken(segs, after[k], k + 1)
    BY <1>2, <2>1 DEF TalkSteps
  <2>3. HeardTo(after[k], (k + 1) - 1)
    BY <1>5, <2>1
  <2> QED BY <2>1, <2>2, <2>3, SpokenHeard
<1> HIDE DEF T
<1>6. n \in T
  BY <1>3, <1>4, <1>5, Induction
<1>7. HeardTo(after[n], n)
  BY <1>3, <1>6 DEF T
<1>8. longest = IF after[n].run = <<>> THEN <<>> ELSE Longer(segs, after[n].best, after[n].run)
  BY <1>2 DEF LongestMonologue
<1>9. CASE n = 0
  <2>1. longest = <<>>
    BY <1>7, <1>8, <1>9 DEF HeardTo, Silent
  <2>2. Segs = {}
    BY <1>3, <1>9
  <2> QED BY <2>1, <2>2 DEF Outlasts
<1>10. CASE n # 0
  <2>1. n \in Segs
    BY <1>3, <1>10
  <2>2. after[n].run # <<>>
    BY <1>7, <1>10 DEF HeardTo, Streak
  <2> DEFINE acc == after[n]
  <2>3. longest = Longer(segs, acc.best, acc.run)
    BY <1>8, <2>2
  <2> HIDE DEF acc, longest, n
  <2>4. HeardTo(acc, n)
    BY <1>7 DEF acc
  <2>5. (longest = <<>> \/ Streak(longest)) /\ Outlasts(longest, n + 1)
    BY <2>1, <2>3, <2>4, LongerOutlasts
  <2> QED BY <2>5 DEF longest, n
<1> QED BY <1>9, <1>10

\* A stretch of the order of the segments is one of the segments.
LEMMA StretchIsStretch ==
  ASSUME segs \in Seq(Segment), InTurns, NEW run \in Stretches, IsRun(run), Lasts(segs, run) > 0
  PROVE  \E a, b \in Segs : Stretch(a, b) /\ Lasts(segs, run) = segs[b].end - segs[a].start
<1> DEFINE order == ByStart(segs)
<1>1. Times /\ Segs = 1..Len(segs) /\ Len(segs) \in Nat
  BY TimesType
<1>2. DOMAIN order = Segs /\ \A k \in Segs : order[k] = k
  BY ByStartIsTheOrder
<1>3. PICK a \in DOMAIN order, b \in DOMAIN order : run = SubSeq(order, a, b) /\ run # <<>>
  BY DEF Stretches
<1> HIDE DEF order
<1>4. a \in Segs /\ b \in Segs /\ a \in Nat /\ b \in Nat /\ order \in Seq(Segs) /\ Len(order) = Len(segs)
  <2>1. order \in Seq(Segs) /\ Len(order) = Len(segs)
    BY ByStartIsTheOrder DEF order
  <2> QED BY <1>1, <1>2, <1>3, <2>1
<1>5. a <= b
  <2> SUFFICES ASSUME b < a PROVE FALSE
    BY <1>4
  <2>1. SubSeq(order, a, b) = <<>>
    BY <1>4, SubSeqEmpty
  <2> QED BY <1>3, <2>1
<1> DEFINE n == b - a + 1
<1>n. n \in Nat /\ 1 \in 1..n /\ n \in 1..n /\ a + 1 - 1 = a /\ a + n - 1 = b
  BY <1>4, <1>5
<1>m. \A m \in 1..n : a + m - 1 \in a..b
  BY <1>4, <1>5
<1>s. \A m \in a..b : m \in Segs
  BY <1>1, <1>4
<1> HIDE DEF n
<1>6. Len(run) = n /\ \A m \in 1..n : run[m] = a + m - 1
  <2>1. Len(run) = n /\ \A m \in 1..n : run[m] = order[a + m - 1]
    <3>1. \A m \in a..b : order[m] \in Segs
      BY <1>2, <1>s
    <3>2. /\ Len(SubSeq(order, a, b)) = IF a <= b THEN b - a + 1 ELSE 0
          /\ \A m \in 1..b - a + 1 : SubSeq(order, a, b)[m] = order[a + m - 1]
      BY <1>4, <3>1, SubSeqProperties
    <3>3. run = SubSeq(order, a, b)
      BY <1>3
    <3> QED BY <1>5, <3>2, <3>3, Zenon DEF n
  <2> QED BY <1>2, <1>m, <1>s, <2>1
<1>7. run[1] = a /\ run[Len(run)] = b
  BY <1>n, <1>6
<1>8. ASSUME NEW m \in a..b - 1 PROVE GoesOn(segs, m, m + 1)
  <2> DEFINE i == m - a + 1
  <2>1. /\ i \in 1..n /\ i + 1 \in 1..n /\ i \in 1..n - 1
        /\ a + i - 1 = m /\ a + (i + 1) - 1 = m + 1
    <3>1. a \in Nat /\ b \in Nat /\ m \in Int /\ a <= m /\ m <= b - 1
      BY <1>4
    <3>2. i \in Nat /\ 1 <= i /\ i + 1 <= n /\ n \in Nat
      BY <1>n, <3>1 DEF n
    <3>3. a + i - 1 = m /\ a + (i + 1) - 1 = m + 1
      BY <3>1
    <3> HIDE DEF i
    <3> QED BY <3>2, <3>3
  <2> HIDE DEF i
  <2>2. run[i] = m /\ run[i + 1] = m + 1
    BY <1>6, <2>1
  <2>3. GoesOn(segs, run[i], run[i + 1])
    BY <1>6, <2>1 DEF IsRun
  <2> QED BY <2>2, <2>3
<1>9. Lasts(segs, run) = segs[b].end - segs[a].start
  BY <1>7 DEF Lasts
<1>10. Stretch(a, b)
  BY <1>4, <1>5, <1>8, <1>9 DEF Stretch
<1> QED BY <1>4, <1>9, <1>10

\* What a silence leaves between.
LEMMA SilenceBetween ==
  ASSUME segs \in Seq(Segment), InTurns, NEW gap \in SilenceGaps(segs)
  PROVE  \E k \in Segs : /\ k + 1 \in Segs
                         /\ gap[1] = segs[k].end /\ gap[2] = segs[k + 1].start
                         /\ Gap(segs, k, k + 1) > SILENCE_GAP_MS
<1> DEFINE order == ByStart(segs)
<1>1. Segs = 1..Len(segs) /\ Len(segs) \in Nat
  BY TimesType
<1>2. DOMAIN order = Segs /\ \A k \in Segs : order[k] = k
  BY ByStartIsTheOrder
<1>3. Len(order) = Len(segs)
  BY ByStartIsTheOrder
<1>4. PICK k \in {k \in 1..Len(order) - 1 : Gap(segs, order[k], order[k + 1]) > SILENCE_GAP_MS} :
        gap = <<segs[order[k]].end, segs[order[k + 1]].start>>
  BY Zenon DEF SilenceGaps
<1>5. k \in 1..Len(order) - 1 /\ Gap(segs, order[k], order[k + 1]) > SILENCE_GAP_MS
  BY <1>4
<1> HIDE DEF order
<1>6. k \in Segs /\ k + 1 \in Segs
  BY <1>1, <1>3, <1>5
<1>7. order[k] = k /\ order[k + 1] = k + 1
  BY <1>2, <1>6
<1>8. gap[1] = segs[k].end /\ gap[2] = segs[k + 1].start
  BY <1>4, <1>7
<1> QED BY <1>5, <1>6, <1>7, <1>8

\* On a call whose speakers take turns the longest monologue is a run of
\* segments, no run lasts longer, no silence falls into it, and no one is heard
\* in a silence: for a transcript of any length (metrics.py:83-116, 152-158).
THEOREM MetricsAreRight == Spec => []MetricsDescribeTheCall
<1>1. ASSUME AnalysisInv PROVE MetricsDescribeTheCall
  <2> SUFFICES ASSUME stage = "done", InTurns
               PROVE  LET longest == metrics.longest IN
                      /\ longest # <<>> => IsRun(longest)
                      /\ \A run \in Stretches : IsRun(run) /\ Lasts(segs, run) > 0 =>
                           longest # <<>> /\ Lasts(segs, run) <= Lasts(segs, longest)
                      /\ \A gap \in metrics.silences :
                           /\ \A i \in Segs : segs[i].end <= gap[1] \/ segs[i].start >= gap[2]
                           /\ longest # <<>> =>
                                gap[1] < segs[longest[1]].start \/ gap[2] > segs[longest[Len(longest)]].end
    BY DEF MetricsDescribeTheCall
  <2> DEFINE longest == metrics.longest
  <2>1. segs \in Seq(Segment)
    BY <1>1, CallType DEF AnalysisInv
  <2>2. longest = LongestMonologue(segs) /\ metrics.silences = SilenceGaps(segs)
    BY <1>1 DEF AnalysisInv, Measured
  <2>3. Times /\ Segs = 1..Len(segs) /\ Len(segs) \in Nat
    BY <2>1, TimesType
  <2> HIDE DEF longest
  <2>4. (longest = <<>> \/ Streak(longest)) /\ Outlasts(longest, Len(segs) + 1)
    BY <2>1, <2>2, LongestOutlasts
  <2>5. longest # <<>> => IsRun(longest)
    BY <2>4 DEF Streak, IsRun
  <2>6. ASSUME NEW run \in Stretches, IsRun(run), Lasts(segs, run) > 0
        PROVE  longest # <<>> /\ Lasts(segs, run) <= Lasts(segs, longest)
    <3>1. PICK a \in Segs, b \in Segs : Stretch(a, b) /\ Lasts(segs, run) = segs[b].end - segs[a].start
      BY <2>1, <2>6, StretchIsStretch
    <3>2. b < Len(segs) + 1
      BY <2>3
    <3> QED BY <2>4, <3>1, <3>2 DEF Outlasts
  <2>7. ASSUME NEW gap \in metrics.silences
        PROVE  /\ \A i \in Segs : segs[i].end <= gap[1] \/ segs[i].start >= gap[2]
               /\ longest # <<>> =>
                    gap[1] < segs[longest[1]].start \/ gap[2] > segs[longest[Len(longest)]].end
    <3>1. PICK k \in Segs : /\ k + 1 \in Segs
                            /\ gap[1] = segs[k].end /\ gap[2] = segs[k + 1].start
                            /\ Gap(segs, k, k + 1) > SILENCE_GAP_MS
      BY <2>1, <2>2, <2>7, SilenceBetween
    <3>2. k \in Nat /\ segs[k].end \in Int /\ segs[k + 1].start \in Int
      BY <2>3, <3>1 DEF Times
    <3>3. segs[k + 1].start > segs[k].end + 2000
      BY <3>1, <3>2 DEF Gap, SILENCE_GAP_MS
    <3>4. ASSUME NEW i \in Segs, i <= k PROVE segs[i].end <= segs[k].end /\ segs[i].end \in Int
      <4>1. i \in Nat /\ segs[i].end \in Int
        BY <2>3 DEF Times
      <4>2. i < k \/ i = k
        BY <3>2, <3>4, <4>1
      <4> QED BY <3>2, <4>1, <4>2 DEF InTurns
    <3>5. ASSUME NEW i \in Segs, i > k PROVE segs[i].start >= segs[k + 1].start /\ segs[i].start \in Int
      <4>1. i \in Nat /\ segs[i].start \in Int
        BY <2>3 DEF Times
      <4>2. k + 1 < i \/ i = k + 1
        BY <3>2, <3>5, <4>1
      <4>3. k + 1 < i => segs[k + 1].start <= segs[i].start
        BY <3>1 DEF InTurns
      <4> QED BY <3>2, <4>1, <4>2, <4>3
    <3>6. \A i \in Segs : segs[i].end <= gap[1] \/ segs[i].start >= gap[2]
      <4>1. \A i \in Segs : i <= k \/ i > k
        BY <2>3, <3>2
      <4> QED BY <3>1, <3>4, <3>5, <4>1
    <3>7. ASSUME longest # <<>>
          PROVE  gap[1] < segs[longest[1]].start \/ gap[2] > segs[longest[Len(longest)]].end
      <4>1. Streak(longest)
        BY <2>4, <3>7
      <4> DEFINE a == longest[1]
                 b == longest[Len(longest)]
                 n == Len(longest)
      <4>2. /\ a \in Segs /\ b \in Segs /\ a <= b /\ n \in Nat /\ n \in 1..n /\ 1 \in 1..n
            /\ \A m \in 1..n : longest[m] = a + (m - 1)
        BY <2>1, <4>1, StreakEnds
      <4>3. a \in Nat /\ b \in Nat /\ b = a + (n - 1)
        BY <2>3, <4>2
      <4> HIDE DEF a, b, n
      <4>4. CASE k < a
        <5>1. segs[a].start >= segs[k + 1].start /\ segs[a].start \in Int
          BY <3>5, <4>2, <4>3, <4>4
        <5>2. segs[k].end < segs[a].start
          BY <3>2, <3>3, <5>1
        <5> QED BY <3>1, <5>2 DEF a
      <4>5. CASE b <= k
        <5>1. segs[b].end <= segs[k].end /\ segs[b].end \in Int
          BY <3>4, <4>2, <4>5
        <5>2. segs[k + 1].start > segs[b].end
          BY <3>2, <3>3, <5>1
        <5> QED BY <3>1, <5>2 DEF b
      <4>6. CASE a <= k /\ k < b
        <5> DEFINE m == k - a + 1
        <5>1. m \in 1..n /\ m + 1 \in 1..n /\ m \in 1..n - 1 /\ a + (m - 1) = k /\ a + ((m + 1) - 1) = k + 1
          BY <3>2, <4>2, <4>3, <4>6
        <5> HIDE DEF m
        <5>2. longest[m] = k /\ longest[m + 1] = k + 1
          BY <4>2, <5>1
        <5>3. GoesOn(segs, k, k + 1)
          BY <4>1, <5>1, <5>2 DEF Streak, n
        <5>4. segs[k + 1].start - segs[k].end <= 500
          BY <5>3 DEF GoesOn, Gap, MONOLOGUE_GAP_MS
        <5> QED BY <3>2, <3>3, <5>4
      <4> QED BY <3>2, <4>3, <4>4, <4>5, <4>6
    <3> QED BY <3>6, <3>7
  <2> QED BY <2>5, <2>6, <2>7 DEF longest
<1> QED BY <1>1, AnalysisSafe, PTL
=============================================================================
