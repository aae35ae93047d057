---------------------- MODULE TranscriptionWaitProofs ----------------------
(***************************************************************************)
(* TranscriptionWait for any number of workers, any deadline and interval: *)
(* its types, TimeoutIsFresh, SignalIsHeard and PausesAreKept.  That every *)
(* wait ends is a liveness property, and stays with TLC.                   *)
(***************************************************************************)
EXTENDS TranscriptionWait, TLAPS

Pcs == {"idle", "asking", "toldRunning", "toldEnded", "check", "listen", "asleep", "transcript", "failed",
        "timeout", "raised"}

Wait == [ pc : Pcs, byRedis : BOOLEAN, deadline : 0..MaxClock, until : Nat, polled : 0..MaxClock,
          took : BOOLEAN ]

Shape ==
  /\ clock \in 0..MaxClock
  /\ job \in JobEndings \cup {"running"}
  /\ flag \in BOOLEAN
  /\ tokens \in Nat /\ posts \in 0..MaxPosts /\ tokens <= posts
  /\ readyAt \in 0..MaxClock \cup {Never}
  /\ deaths \in 0..MaxDeaths
  /\ wait \in [Workers -> Wait]

\* The signal: an element is only ever there with the flag, and a job that is
\* ready is done and flagged.
Flagged == (tokens > 0 => flag) /\ (readyAt # Never => flag /\ job # "running")

Paused(w) == wait[w].pc \in {"check", "listen", "asleep"}

\* No pause is longer than the longest, and none is overslept.  The flag is only
\* read with time left.
Slept(w) ==
  /\ Paused(w) => clock <= wait[w].until /\ wait[w].until <= wait[w].polled + LongestPause
  /\ wait[w].pc = "check" => clock < wait[w].deadline
  /\ wait[w].pc = "timeout" => /\ wait[w].deadline <= clock
                               /\ wait[w].deadline - wait[w].polled <= LongestPause

\* A wait that has not begun has no pause to keep.
Rests(w) == wait[w].pc = "idle" => wait[w].until = 0

Listens(w) == wait[w].pc \in {"listen", "asleep"}

\* What a worker that listens knows of the signal.  While it listens no time
\* passes after the job is ready: a call is taken before the clock moves on.  In
\* "check" it may: the job got ready while the answer was under way.
Heard(w) ==
  wait[w].byRedis /\ ~Robbed(w) =>
    /\ flag /\ Listens(w) => tokens > 0
    /\ Listens(w) => clock <= readyAt
    /\ wait[w].pc = "timeout" => wait[w].deadline <= readyAt \/ wait[w].deadline <= wait[w].polled

Fine(w) == Slept(w) /\ Rests(w) /\ Heard(w)

WaitInv == Shape /\ Flagged /\ \A w \in Workers : Fine(w)

-----------------------------------------------------------------------------
(* Ticks.                                                                  *)

LEMMA Bounds ==
  /\ Deadline \in Nat \ {0} /\ Interval \in Nat \ {0} /\ MaxClock \in Nat
  /\ MaxPosts \in Nat /\ MaxDeaths \in Nat
BY WaitAssumption

\* A pause is at least half a second and at most the longest, slept or listened.
LEMMA PauseBounds ==
  ASSUME NEW left \in Nat \ {0}
  PROVE  LET pause == PauseTicks(left) IN
         /\ pause \in Nat \ {0} /\ pause <= LongestPause
         /\ BlpopTicks(pause) \in Nat \ {0} /\ BlpopTicks(pause) <= LongestPause
<1> DEFINE pause == PauseTicks(left)
<1>1. pause \in Nat \ {0} /\ pause <= Interval
  BY Bounds DEF PauseTicks, AtMost
<1> HIDE DEF pause
<1>2. /\ pause \div 2 \in Nat /\ Interval \div 2 \in Nat
      /\ pause \div 2 <= Interval \div 2
  BY <1>1, Bounds
<1>3. /\ BlpopTicks(pause) \in Nat \ {0} /\ BlpopTicks(Interval) \in Nat
      /\ BlpopTicks(pause) <= BlpopTicks(Interval)
  BY <1>2 DEF BlpopTicks, AtLeast
<1>4. LongestPause \in Nat /\ Interval <= LongestPause /\ BlpopTicks(Interval) <= LongestPause
  BY <1>3, Bounds DEF LongestPause, AtLeast
<1>5. pause <= LongestPause
  BY <1>1, <1>4, Bounds
<1>6. BlpopTicks(pause) <= LongestPause
  BY <1>3, <1>4
<1> QED BY <1>1, <1>3, <1>5, <1>6 DEF pause

LEMMA LongestPauseType == LongestPause \in Nat
<1>1. Interval \div 2 \in Nat
  BY Bounds
<1> QED BY <1>1, Bounds DEF LongestPause, BlpopTicks, AtLeast

-----------------------------------------------------------------------------
(* What the steps of a worker do to its record.                            *)

\* The others' records stay as they are.
Apart(w) == wait' \in [Workers -> Wait] /\ \A v \in Workers : v # w => wait'[v] = wait[v]

\* w's record but for its place.
SameWait(w) ==
  /\ wait'[w].byRedis = wait[w].byRedis /\ wait'[w].deadline = wait[w].deadline
  /\ wait'[w].until = wait[w].until /\ wait'[w].polled = wait[w].polled
  /\ wait'[w].took = wait[w].took

LEMMA Replaced ==
  ASSUME Shape, NEW w \in Workers, NEW r \in Wait, wait' = [wait EXCEPT ![w] = r]
  PROVE  Apart(w) /\ wait'[w] = r
BY DEF Shape, Apart

LEMMA WaitFields ==
  ASSUME Shape, NEW w \in Workers
  PROVE  /\ wait[w] \in Wait
         /\ wait[w].pc \in Pcs /\ wait[w].byRedis \in BOOLEAN /\ wait[w].took \in BOOLEAN
         /\ wait[w].deadline \in Nat /\ wait[w].until \in Nat /\ wait[w].polled \in Nat
         /\ wait[w].deadline <= MaxClock
<1>1. wait[w] \in Wait
  BY DEF Shape
<1> QED BY <1>1, Bounds DEF Wait

LEMMA Went ==
  ASSUME Shape, NEW w \in Workers, NEW pc \in Pcs, Goto(w, pc)
  PROVE  Apart(w) /\ SameWait(w) /\ wait'[w].pc = pc
<1> DEFINE r == [wait[w] EXCEPT !.pc = pc]
<1>1. wait' = [wait EXCEPT ![w] = r]
  BY DEF Goto
<1>2. r \in Wait /\ r.pc = pc /\ r.byRedis = wait[w].byRedis /\ r.deadline = wait[w].deadline
      /\ r.until = wait[w].until /\ r.polled = wait[w].polled /\ r.took = wait[w].took
  BY WaitFields DEF Wait
<1> HIDE DEF r
<1>3. Apart(w) /\ wait'[w] = r
  BY <1>1, <1>2, Replaced
<1> QED BY <1>2, <1>3 DEF SameWait

LEMMA IdleIsWait == Idle \in Wait /\ Idle.until = 0
BY Bounds DEF Idle, Wait, Pcs

\* A wait that is over, or has not begun.
LEMMA Ended ==
  ASSUME Shape, NEW w \in Workers, NEW pc \in Pcs,
         wait' = [wait EXCEPT ![w] = [Idle EXCEPT !.pc = pc, !.took = wait[w].took]]
  PROVE  Apart(w) /\ wait'[w].pc = pc /\ wait'[w].took = wait[w].took /\ wait'[w].until = 0
<1> DEFINE r == [Idle EXCEPT !.pc = pc, !.took = wait[w].took]
<1>1. r \in Wait /\ r.pc = pc /\ r.took = wait[w].took /\ r.until = 0
  BY WaitFields, IdleIsWait DEF Wait
<1>2. wait' = [wait EXCEPT ![w] = r]
  OBVIOUS
<1> HIDE DEF r
<1> QED BY <1>1, <1>2, Replaced

LEMMA Began ==
  ASSUME Shape, NEW w \in Workers, NEW byRedis \in BOOLEAN, Begin(w, byRedis)
  PROVE  Apart(w) /\ wait'[w].pc = "asking" /\ wait'[w].took = wait[w].took /\ wait'[w].until = 0
<1> DEFINE r == [Idle EXCEPT !.pc = "asking", !.byRedis = byRedis, !.deadline = clock + Deadline,
                             !.took = wait[w].took]
<1>1. clock + Deadline \in 0..MaxClock
  BY Bounds DEF Begin, Shape
<1>2. r \in Wait /\ r.pc = "asking" /\ r.took = wait[w].took /\ r.until = 0
  BY <1>1, WaitFields, IdleIsWait DEF Wait, Pcs
<1>3. wait' = [wait EXCEPT ![w] = r]
  BY DEF Begin
<1> HIDE DEF r
<1> QED BY <1>2, <1>3, Replaced

LEMMA Woke ==
  ASSUME Shape, NEW w \in Workers, WakeByToken(w)
  PROVE  /\ Apart(w) /\ wait'[w].pc = Again(w) /\ wait'[w].took
         /\ wait'[w].byRedis = wait[w].byRedis /\ wait'[w].deadline = wait[w].deadline
         /\ wait'[w].until = wait[w].until /\ wait'[w].polled = wait[w].polled
<1> DEFINE r == [wait[w] EXCEPT !.pc = Again(w), !.took = TRUE]
<1>1. wait' = [wait EXCEPT ![w] = r]
  BY DEF WakeByToken
<1>2. Again(w) \in Pcs
  BY DEF Again, Pcs
<1>3. r \in Wait /\ r.pc = Again(w) /\ r.took = TRUE /\ r.byRedis = wait[w].byRedis
      /\ r.deadline = wait[w].deadline /\ r.until = wait[w].until /\ r.polled = wait[w].polled
  BY <1>2, WaitFields DEF Wait
<1> HIDE DEF r
<1> QED BY <1>1, <1>3, Replaced

\* A poll that found the job running: time is out, or there is a pause.
LEMMA Found ==
  ASSUME Shape, NEW w \in Workers, FindsRunning(w)
  PROVE  /\ Apart(w)
         /\ wait'[w].polled = clock /\ wait'[w].deadline = wait[w].deadline
         /\ wait'[w].byRedis = wait[w].byRedis /\ wait'[w].took = wait[w].took
         /\ \/ wait'[w].pc = "timeout" /\ wait[w].deadline <= clock
            \/ /\ wait'[w].pc \in {"check", "asleep"} /\ clock < wait[w].deadline
               /\ clock <= wait'[w].until /\ wait'[w].until <= clock + LongestPause
<1> DEFINE left == wait[w].deadline - clock
           pause == PauseTicks(left)
           r == IF left <= 0
                  THEN [wait[w] EXCEPT !.polled = clock, !.pc = "timeout"]
                  ELSE [wait[w] EXCEPT !.polled = clock,
                          !.pc = IF wait[w].byRedis THEN "check" ELSE "asleep",
                          !.until = clock + (IF wait[w].byRedis THEN BlpopTicks(pause) ELSE pause)]
<1>1. wait' = [wait EXCEPT ![w] = r]
  BY DEF FindsRunning
<1>2. clock \in 0..MaxClock /\ clock \in Nat /\ left \in Int /\ wait[w] \in Wait
  BY WaitFields, Bounds DEF Shape
<1>3. CASE left <= 0
  <2>1. r \in Wait /\ r.polled = clock /\ r.pc = "timeout" /\ r.deadline = wait[w].deadline
        /\ r.byRedis = wait[w].byRedis /\ r.took = wait[w].took
    <3>1. r = [wait[w] EXCEPT !.polled = clock, !.pc = "timeout"]
      BY <1>3
    <3> HIDE DEF r
    <3> QED BY <1>2, <3>1 DEF Wait, Pcs
  <2>2. wait[w].deadline <= clock
    BY <1>2, <1>3, WaitFields
  <2> HIDE DEF r, left
  <2> QED BY <1>1, <2>1, <2>2, Replaced
<1>4. CASE ~(left <= 0)
  <2> DEFINE place == IF wait[w].byRedis THEN "check" ELSE "asleep"
             until == clock + (IF wait[w].byRedis THEN BlpopTicks(pause) ELSE pause)
  <2>1. left \in Nat \ {0} /\ clock < wait[w].deadline
    BY <1>2, <1>4, WaitFields
  <2> HIDE DEF left
  <2>2. pause \in Nat /\ BlpopTicks(pause) \in Nat /\ pause <= LongestPause /\ BlpopTicks(pause) <= LongestPause
    BY <2>1, PauseBounds
  <2> HIDE DEF pause
  <2>3. until \in Nat /\ clock <= until /\ until <= clock + LongestPause
    BY <1>2, <2>2, LongestPauseType
  <2>4. place \in {"check", "asleep"}
    OBVIOUS
  <2>5. r = [wait[w] EXCEPT !.polled = clock, !.pc = place, !.until = until]
    BY <1>4
  <2> HIDE DEF place, until, r
  <2>6. r \in Wait /\ r.polled = clock /\ r.pc = place /\ r.deadline = wait[w].deadline
        /\ r.byRedis = wait[w].byRedis /\ r.took = wait[w].took /\ r.until = until
    BY <1>2, <2>3, <2>4, <2>5 DEF Wait, Pcs
  <2> QED BY <1>1, <2>1, <2>3, <2>4, <2>6, Replaced
<1> QED BY <1>3, <1>4

-----------------------------------------------------------------------------
(* The steps.                                                              *)

LEMMA InitWait == Init => WaitInv
<1> SUFFICES ASSUME Init PROVE WaitInv
  OBVIOUS
<1>1. \A w \in Workers : wait[w].pc = "idle" /\ wait[w].until = 0
  BY DEF Init, Idle
<1>2. Shape
  <2>1. wait \in [Workers -> Wait]
    BY IdleIsWait DEF Init
  <2>2. clock = 0 /\ tokens = 0 /\ posts = 0 /\ deaths = 0 /\ readyAt = Never
    BY DEF Init
  <2>3. job \in JobEndings \cup {"running"} /\ flag \in BOOLEAN
    BY DEF Init
  <2> QED BY <2>1, <2>2, <2>3, Bounds DEF Shape
<1> QED BY <1>1, <1>2 DEF WaitInv, Init, Flagged, Fine, Slept, Rests, Heard, Listens, Paused

\* A step of w is no concern of the others; an element it takes marks it.
LEMMA OthersFine ==
  ASSUME Shape, NEW w \in Workers, Apart(w), NEW v \in Workers, v # w, Fine(v),
         UNCHANGED <<clock, flag, readyAt>>, wait[w].took => wait'[w].took,
         tokens' = tokens \/ wait'[w].took
  PROVE  Fine(v)'
<1>1. wait'[v] = wait[v] /\ \A u \in Workers : wait[u].took => wait'[u].took
  BY DEF Apart
<1>2. Robbed(v) => Robbed(v)'
  BY <1>1 DEF Robbed
<1>3. Slept(v)' /\ Rests(v)'
  BY <1>1 DEF Fine, Slept, Rests, Paused
<1>4. wait'[w].took => Robbed(v)'
  BY DEF Robbed
<1>5. Heard(v)'
  BY <1>1, <1>2, <1>4 DEF Fine, Heard, Listens, Paused
<1> QED BY <1>3, <1>5 DEF Fine

\* When w moves and nothing else happens.
LEMMA MoveKeeps ==
  ASSUME WaitInv, NEW w \in Workers, Apart(w), wait[w].took => wait'[w].took,
         UNCHANGED <<clock, job, flag, tokens, readyAt, posts>>, deaths' \in 0..MaxDeaths, Fine(w)'
  PROVE  WaitInv'
<1>1. Shape' /\ Flagged'
  BY DEF WaitInv, Shape, Flagged, Apart
<1>2. \A v \in Workers : v # w => Fine(v)'
  BY OthersFine DEF WaitInv
<1> QED BY <1>1, <1>2 DEF WaitInv

LEMMA WeKnow ==
  ASSUME WaitInv, NEW w \in Workers
  PROVE  /\ Shape /\ Flagged /\ Slept(w) /\ Rests(w) /\ Heard(w)
         /\ clock \in Nat /\ clock <= MaxClock /\ deaths \in 0..MaxDeaths
         /\ readyAt \in Nat /\ (readyAt = Never => clock < readyAt)
BY Bounds DEF WaitInv, Fine, Shape, Never

\* A wait that is over or begins has nothing to keep.
LEMMA EndKeeps ==
  ASSUME WaitInv, NEW w \in Workers, Apart(w),
         wait'[w].pc \in {"idle", "asking", "transcript", "failed", "raised"},
         wait'[w].took = wait[w].took, wait'[w].until = 0,
         UNCHANGED <<clock, job, flag, tokens, readyAt, posts>>, deaths' \in 0..MaxDeaths
  PROVE  WaitInv'
<1>1. Fine(w)'
  BY WeKnow DEF Fine, Slept, Rests, Heard, Listens, Paused
<1> QED BY <1>1, MoveKeeps

\* An answer is given: all that moves is the place.
LEMMA AnsweredKeeps ==
  ASSUME WaitInv, NEW w \in Workers, Answered(w)
  PROVE  WaitInv'
<1>1. Shape /\ UNCHANGED <<clock, job, flag, tokens, readyAt, posts, deaths>>
  BY DEF WaitInv, Answered, signalVars
<1> DEFINE pc == IF job = "running" THEN "toldRunning" ELSE "toldEnded"
<1>2. pc \in {"toldRunning", "toldEnded"} /\ pc \in Pcs
  BY DEF Pcs
<1>3. Goto(w, pc)
  BY DEF Answered
<1> HIDE DEF pc
<1>4. Apart(w) /\ SameWait(w) /\ wait'[w].pc = pc
  BY <1>1, <1>2, <1>3, Went
<1>5. Fine(w)'
  BY <1>2, <1>4 DEF Fine, Slept, Rests, Heard, Listens, Paused
<1> QED BY <1>1, <1>4, <1>5, MoveKeeps, WeKnow DEF SameWait

LEMMA FindsRunningKeeps ==
  ASSUME WaitInv, NEW w \in Workers, FindsRunning(w)
  PROVE  WaitInv'
<1>1. Shape /\ Flagged
  BY DEF WaitInv
<1>2. /\ Apart(w)
      /\ wait'[w].polled = clock /\ wait'[w].deadline = wait[w].deadline
      /\ wait'[w].byRedis = wait[w].byRedis /\ wait'[w].took = wait[w].took
      /\ \/ wait'[w].pc = "timeout" /\ wait[w].deadline <= clock
         \/ /\ wait'[w].pc \in {"check", "asleep"} /\ clock < wait[w].deadline
            /\ clock <= wait'[w].until /\ wait'[w].until <= clock + LongestPause
  BY <1>1, Found
<1>3. UNCHANGED <<clock, job, flag, tokens, readyAt, posts, deaths>>
  BY DEF FindsRunning, signalVars
<1>5. /\ clock \in Nat /\ readyAt \in Nat /\ wait[w].deadline \in Nat
  BY <1>1, WeKnow, WaitFields, Bounds
<1>6. Slept(w)' /\ Rests(w)'
  BY <1>2, <1>3, <1>5, LongestPauseType DEF Slept, Rests, Paused
<1>7. Heard(w)'
  <2>1. CASE wait'[w].pc = "asleep" /\ wait'[w].byRedis
    <3>1. wait[w].byRedis => wait'[w].pc # "asleep"
      <4>1. SUFFICES ASSUME wait[w].byRedis, wait'[w].pc = "asleep" PROVE FALSE
        OBVIOUS
      <4> DEFINE left == wait[w].deadline - clock
                 until == clock + BlpopTicks(PauseTicks(left))
      <4>2. wait' = [wait EXCEPT ![w] = IF left <= 0
                                          THEN [wait[w] EXCEPT !.polled = clock, !.pc = "timeout"]
                                          ELSE [wait[w] EXCEPT !.polled = clock, !.pc = "check",
                                                               !.until = until]]
        BY <4>1 DEF FindsRunning
      <4> HIDE DEF left, until
      <4>3. wait[w] \in Wait /\ wait \in [Workers -> Wait]
        BY <1>1, WaitFields DEF Shape
      <4>4. wait'[w].pc \in {"timeout", "check"}
        BY <4>2, <4>3 DEF Wait
      <4> QED BY <4>1, <4>4
    <3> QED BY <1>2, <2>1, <3>1
  <2>2. CASE ~(wait'[w].pc = "asleep" /\ wait'[w].byRedis)
    BY <1>2, <1>3, <1>5, <2>2 DEF Heard, Listens
  <2> QED BY <2>1, <2>2
<1>8. Fine(w)'
  BY <1>6, <1>7 DEF Fine
<1> QED BY <1>2, <1>3, <1>8, MoveKeeps, WeKnow

\* Asking again, or timing out, after a pause that ended in time.
LEMMA AgainIsFine ==
  ASSUME WaitInv, NEW w \in Workers, wait[w].pc \in {"check", "asleep"}, wait'[w].pc = Again(w),
         wait'[w].byRedis = wait[w].byRedis, wait'[w].deadline = wait[w].deadline,
         wait'[w].until = wait[w].until, wait'[w].polled = wait[w].polled,
         UNCHANGED <<clock, flag, readyAt>>, Robbed(w)' <=> Robbed(w)
  PROVE  Fine(w)'
<1>1. /\ wait'[w].pc \in {"asking", "timeout"}
      /\ wait'[w].pc = "timeout" => wait[w].deadline <= clock /\ wait[w].pc = "asleep"
  BY WeKnow, WaitFields DEF Again, Slept
<1>2. /\ clock \in Nat /\ wait[w].deadline \in Nat /\ wait[w].until \in Nat /\ wait[w].polled \in Nat
      /\ readyAt \in Nat
  BY WeKnow, WaitFields
<1>3. clock <= wait[w].until /\ wait[w].until <= wait[w].polled + LongestPause
  BY WeKnow DEF Slept, Paused
<1>4. Slept(w)'
  BY <1>1, <1>2, <1>3, LongestPauseType DEF Slept, Paused
<1>5. Rests(w)'
  BY <1>1 DEF Rests
<1>6. wait[w].byRedis /\ ~Robbed(w) /\ wait[w].pc = "asleep" => clock <= readyAt
  BY WeKnow DEF Heard, Listens
<1>7. Heard(w)'
  BY <1>1, <1>2, <1>6 DEF Heard, Listens
<1> QED BY <1>4, <1>5, <1>7 DEF Fine

\* w's own record does not matter to whether w was robbed.
LEMMA RobbedByOthers ==
  ASSUME NEW w \in Workers, Apart(w)
  PROVE  Robbed(w)' <=> Robbed(w)
BY DEF Apart, Robbed

LEMMA CheckKeeps ==
  ASSUME WaitInv, NEW w \in Workers, Check(w)
  PROVE  WaitInv'
<1>1. Shape /\ UNCHANGED <<clock, job, flag, tokens, readyAt, posts, deaths>> /\ wait[w].pc = "check"
  BY DEF WaitInv, Check, signalVars, At
<1>2. (IF flag THEN Again(w) ELSE "listen") \in Pcs
  BY DEF Again, Pcs
<1>3. Apart(w) /\ SameWait(w) /\ wait'[w].pc = IF flag THEN Again(w) ELSE "listen"
  BY <1>1, <1>2, Went DEF Check
<1>4. Robbed(w)' <=> Robbed(w)
  BY <1>3, RobbedByOthers
<1>5. ASSUME flag PROVE Fine(w)'
  BY <1>1, <1>3, <1>4, <1>5, AgainIsFine DEF SameWait, Paused
<1>6. ASSUME ~flag PROVE Fine(w)'
  <2>1. readyAt = Never /\ clock \in Nat /\ readyAt \in Nat /\ clock < readyAt
    BY <1>6, WeKnow DEF Flagged
  <2> QED BY <1>1, <1>3, <1>4, <1>6, <2>1, WeKnow DEF Fine, Slept, Rests, Heard, Listens, Paused, SameWait
<1>7. Fine(w)'
  BY <1>5, <1>6
<1> QED BY <1>1, <1>3, <1>7, MoveKeeps, WeKnow DEF SameWait

LEMMA ListenKeeps ==
  ASSUME WaitInv, NEW w \in Workers, Listen(w)
  PROVE  WaitInv'
<1>1. Shape /\ UNCHANGED <<clock, job, flag, tokens, readyAt, posts, deaths>> /\ wait[w].pc = "listen"
  BY DEF WaitInv, Listen, signalVars, At
<1>2. Apart(w) /\ SameWait(w) /\ wait'[w].pc = "asleep"
  BY <1>1, Went DEF Listen, Pcs
<1>3. Robbed(w)' <=> Robbed(w)
  BY <1>2, RobbedByOthers
<1>4. Fine(w)'
  BY <1>1, <1>2, <1>3, WeKnow DEF Fine, Slept, Rests, Heard, Listens, Paused, SameWait
<1> QED BY <1>1, <1>2, <1>4, MoveKeeps, WeKnow DEF SameWait

LEMMA WakeByTimeKeeps ==
  ASSUME WaitInv, NEW w \in Workers, WakeByTime(w)
  PROVE  WaitInv'
<1>1. /\ Shape /\ UNCHANGED <<clock, job, flag, tokens, readyAt, posts, deaths>>
      /\ wait[w].pc = "asleep" /\ clock >= wait[w].until
  BY DEF WaitInv, WakeByTime, Rested, signalVars, At
<1>2. Apart(w) /\ SameWait(w) /\ wait'[w].pc = Again(w)
  <2>1. Again(w) \in Pcs
    BY DEF Again, Pcs
  <2> QED BY <1>1, <2>1, Went DEF WakeByTime
<1>3. Fine(w)'
  BY <1>1, <1>2, RobbedByOthers, AgainIsFine DEF SameWait
<1> QED BY <1>1, <1>2, <1>3, MoveKeeps, WeKnow DEF SameWait

LEMMA WakeByTokenKeeps ==
  ASSUME WaitInv, NEW w \in Workers, WakeByToken(w)
  PROVE  WaitInv'
<1>1. /\ Shape /\ UNCHANGED <<clock, job, flag, readyAt, posts, deaths>>
      /\ wait[w].pc = "asleep" /\ tokens > 0 /\ tokens' = tokens - 1
  BY DEF WaitInv, WakeByToken, Called, At
<1>2. /\ Apart(w) /\ wait'[w].pc = Again(w) /\ wait'[w].took
      /\ wait'[w].byRedis = wait[w].byRedis /\ wait'[w].deadline = wait[w].deadline
      /\ wait'[w].until = wait[w].until /\ wait'[w].polled = wait[w].polled
  BY <1>1, Woke
<1>3. flag
  BY <1>1 DEF WaitInv, Flagged
<1>4. Fine(w)'
  BY <1>1, <1>2, RobbedByOthers, AgainIsFine
<1>5. Shape' /\ Flagged'
  BY <1>1, <1>2, <1>3 DEF WaitInv, Shape, Flagged, Apart
<1>6. \A v \in Workers : v # w => Fine(v)'
  BY <1>1, <1>2, OthersFine DEF WaitInv
<1> QED BY <1>4, <1>5, <1>6 DEF WaitInv

\* The job ends, or a webhook says something: what is known now is of now.
LEMMA SignalKeeps ==
  ASSUME WaitInv, JobEnds \/ Signal
  PROVE  WaitInv'
<1>1. /\ Shape /\ Flagged /\ UNCHANGED <<clock, wait, deaths>>
      /\ (flag => flag') /\ flag' \in BOOLEAN /\ tokens \in Nat /\ tokens' \in Nat /\ tokens <= tokens'
      /\ tokens' # tokens => flag'
      /\ flag' => flag \/ tokens' > 0
      /\ job # "running" => job' = job
      /\ readyAt' = IF readyAt = Never /\ job' # "running" /\ flag' THEN clock ELSE readyAt
  <2>1. Shape /\ Flagged /\ tokens \in Nat
    BY DEF WaitInv, Shape
  <2>2. CASE JobEnds
    BY <2>1, <2>2 DEF JobEnds, MarkReady, signalVars, Shape
  <2>3. CASE Signal
    BY <2>1, <2>3 DEF Signal, MarkReady
  <2> QED BY <2>2, <2>3
<1>2. Shape'
  BY <1>1, Bounds DEF JobEnds, Signal, Shape, signalVars
<1>3. Flagged'
  BY <1>1 DEF Flagged
<1>4. ASSUME NEW w \in Workers PROVE Fine(w)'
  <2>1. Slept(w) /\ Rests(w) /\ Heard(w) /\ clock \in Nat /\ readyAt \in Nat
    BY WeKnow
  <2>2. Slept(w)' /\ Rests(w)'
    BY <1>1, <2>1 DEF Slept, Rests, Paused
  <2>3. Robbed(w)' <=> Robbed(w)
    BY <1>1 DEF Robbed
  <2>4. readyAt' = readyAt \/ readyAt' = clock
    BY <1>1
  <2>5. wait[w].deadline \in Nat
    BY <1>1, WaitFields
  <2>6. (flag /\ Listens(w) => tokens > 0) => (flag' /\ Listens(w) => tokens' > 0)
    BY <1>1
  <2>7. (Listens(w) => clock <= readyAt) => (Listens(w) => clock <= readyAt')
    BY <2>1, <2>4
  <2>8. (wait[w].pc = "timeout" => wait[w].deadline <= readyAt \/ wait[w].deadline <= wait[w].polled)
        => (wait[w].pc = "timeout" => wait[w].deadline <= readyAt' \/ wait[w].deadline <= wait[w].polled)
    BY <2>1, <2>4, <2>5 DEF Slept
  <2>9. Heard(w)'
    BY <1>1, <2>1, <2>3, <2>6, <2>7, <2>8 DEF Heard, Listens, Paused
  <2> QED BY <2>2, <2>9 DEF Fine
<1> QED BY <1>2, <1>3, <1>4 DEF WaitInv

LEMMA TickKeeps ==
  ASSUME WaitInv, Tick
  PROVE  WaitInv'
<1>1. /\ Shape /\ Flagged /\ UNCHANGED <<job, flag, tokens, wait, readyAt, posts, deaths>>
      /\ clock' = clock + 1 /\ clock < MaxClock /\ clock \in Nat
  BY Bounds DEF WaitInv, Shape, Tick, signalVars
<1>2. Shape' /\ Flagged'
  BY <1>1, Bounds DEF Shape, Flagged
<1>3. ASSUME NEW w \in Workers PROVE Fine(w)'
  <2>1. /\ wait[w].deadline \in Nat /\ wait[w].until \in Nat /\ wait[w].polled \in Nat
        /\ Slept(w) /\ Rests(w) /\ Heard(w) /\ readyAt \in Nat
    BY <1>1, WaitFields, WeKnow
  <2>2. Paused(w) => wait[w].pc = "asleep" /\ clock < wait[w].until /\ (wait[w].byRedis => ~(tokens > 0))
    BY <1>1, <2>1 DEF Tick, Paused, Rested, Called, At
  <2>3. Slept(w)'
    BY <1>1, <2>1, <2>2, LongestPauseType DEF Slept, Paused
  <2>4. Rests(w)'
    BY <1>1, <2>1 DEF Rests
  <2>5. Robbed(w)' <=> Robbed(w)
    BY <1>1 DEF Robbed
  <2>6. wait[w].byRedis /\ ~Robbed(w) /\ Listens(w) => clock + 1 <= readyAt
    <3>1. SUFFICES ASSUME wait[w].byRedis, ~Robbed(w), Listens(w) PROVE clock + 1 <= readyAt
      OBVIOUS
    <3>2. ~flag
      BY <2>1, <2>2, <3>1 DEF Heard, Listens, Paused
    <3>3. readyAt = Never
      BY <1>1, <3>2 DEF Flagged
    <3> QED BY <1>1, <3>3, Bounds DEF Never
  <2>7. Heard(w)'
    BY <1>1, <2>1, <2>5, <2>6 DEF Heard, Listens, Paused
  <2> QED BY <2>3, <2>4, <2>7 DEF Fine
<1> QED BY <1>2, <1>3 DEF WaitInv

LEMMA OverKeeps ==
  ASSUME WaitInv, NEW w \in Workers,
         FindsEnded(w) \/ PollRaises(w) \/ RedisRaises(w) \/ Dies(w) \/ \E byRedis \in BOOLEAN : Begin(w, byRedis)
  PROVE  WaitInv'
<1>1. Shape /\ deaths \in 0..MaxDeaths
  BY DEF WaitInv, Shape
<1>2. CASE FindsEnded(w)
  <2>1. Fetched \in {"failed", "transcript"}
    BY DEF Fetched
  <2>2. Over(w, Fetched) /\ UNCHANGED <<clock, job, flag, tokens, readyAt, posts, deaths>>
    BY <1>2 DEF FindsEnded, signalVars
  <2>3. Apart(w) /\ wait'[w].pc = Fetched /\ wait'[w].took = wait[w].took /\ wait'[w].until = 0
    BY <1>1, <2>1, <2>2, Ended DEF Over, Pcs
  <2> QED BY <1>1, <2>1, <2>2, <2>3, EndKeeps
<1>3. CASE PollRaises(w) \/ RedisRaises(w)
  <2>1. Over(w, "raised") /\ UNCHANGED <<clock, job, flag, tokens, readyAt, posts, deaths>>
    BY <1>3 DEF PollRaises, RedisRaises, signalVars
  <2>2. Apart(w) /\ wait'[w].pc = "raised" /\ wait'[w].took = wait[w].took /\ wait'[w].until = 0
    BY <1>1, <2>1, Ended DEF Over, Pcs
  <2> QED BY <1>1, <2>1, <2>2, EndKeeps
<1>4. CASE Dies(w)
  <2>1. /\ wait' = [wait EXCEPT ![w] = [Idle EXCEPT !.took = wait[w].took]]
        /\ UNCHANGED <<clock, job, flag, tokens, readyAt, posts>> /\ deaths < MaxDeaths /\ deaths' = deaths + 1
    BY <1>4 DEF Dies, signalVars
  <2>2. deaths' \in 0..MaxDeaths
    BY <1>1, <2>1, Bounds
  <2> DEFINE r == [Idle EXCEPT !.took = wait[w].took]
  <2>3. r \in Wait /\ r.pc = "idle" /\ r.took = wait[w].took /\ r.until = 0
    <3>1. Idle.pc = "idle"
      BY DEF Idle
    <3> QED BY <1>1, <3>1, WaitFields, IdleIsWait DEF Wait
  <2> HIDE DEF r
  <2>4. Apart(w) /\ wait'[w] = r
    BY <1>1, <2>1, <2>3, Replaced DEF r
  <2> QED BY <2>1, <2>2, <2>3, <2>4, EndKeeps
<1>5. ASSUME NEW byRedis \in BOOLEAN, Begin(w, byRedis) PROVE WaitInv'
  <2>1. UNCHANGED <<clock, job, flag, tokens, readyAt, posts, deaths>>
    BY <1>5 DEF Begin, signalVars
  <2> QED BY <1>1, <1>5, <2>1, Began, EndKeeps
<1> QED BY <1>2, <1>3, <1>4, <1>5

LEMMA StepWait == WaitInv /\ [Next]_vars => WaitInv'
<1> SUFFICES ASSUME WaitInv, [Next]_vars PROVE WaitInv'
  OBVIOUS
<1>1. CASE JobEnds \/ Signal
  BY <1>1, SignalKeeps
<1>2. CASE Tick
  BY <1>2, TickKeeps
<1>3. ASSUME NEW w \in Workers, Step(w) PROVE WaitInv'
  BY <1>3, OverKeeps, AnsweredKeeps, FindsRunningKeeps, CheckKeeps, ListenKeeps, WakeByTokenKeeps,
     WakeByTimeKeeps DEF Step
<1>4. ASSUME NEW w \in Workers, RedisRaises(w) \/ Dies(w) \/ \E byRedis \in BOOLEAN : Begin(w, byRedis)
      PROVE  WaitInv'
  BY <1>4, OverKeeps
<1>5. CASE UNCHANGED vars
  BY <1>5 DEF vars, signalVars, WaitInv, Shape, Flagged, Fine, Slept, Rests, Heard, Listens, Paused, Robbed
<1> QED BY <1>1, <1>2, <1>3, <1>4, <1>5 DEF Next

LEMMA WaitIsSound == Spec => []WaitInv
<1> QED BY InitWait, StepWait, PTL DEF Spec

-----------------------------------------------------------------------------
(* What it comes to.                                                       *)

\* The state keeps its shape: the elements are never more than the webhooks that
\* arrived, and every deadline is one of the wait (runner.py:212-240).
THEOREM WaitTypes == Spec => []TypeOK
<1>1. WaitInv => TypeOK
  <2> SUFFICES ASSUME WaitInv PROVE TypeOK
    OBVIOUS
  <2>1. Shape /\ tokens \in 0..MaxPosts
    BY Bounds DEF WaitInv, Shape
  <2>2. \A w \in Workers :
          /\ wait[w].pc \in Pcs /\ wait[w].byRedis \in BOOLEAN /\ wait[w].took \in BOOLEAN
          /\ wait[w].deadline \in 0..MaxClock /\ wait[w].polled \in 0..MaxClock /\ wait[w].until \in Nat
    BY <2>1 DEF Shape, Wait
  <2> QED BY <2>1, <2>2 DEF TypeOK, Shape, Pcs
<1> QED BY <1>1, WaitIsSound, PTL

\* A wait is given up at most one pause after the last word that the job was
\* running, whatever the deadline and the interval (runner.py:212-240).
THEOREM TimeoutsAreFresh == Spec => []TimeoutIsFresh
<1>1. WaitInv => TimeoutIsFresh
  BY DEF WaitInv, Fine, Slept, TimeoutIsFresh, At
<1> QED BY <1>1, WaitIsSound, PTL

\* No signal is slept through, and no job that was ready before its deadline is
\* given up but on an answer that was under way when the deadline passed, unless
\* the other worker was woken instead (job_ready.py:50-71, runner.py:217-240).
THEOREM SignalsAreHeard == Spec => []SignalIsHeard
<1>1. WaitInv => SignalIsHeard
  <2> SUFFICES ASSUME WaitInv, NEW w \in Workers, wait[w].byRedis, ~Robbed(w)
               PROVE  /\ flag /\ At(w, "asleep") => Called(w)
                      /\ At(w, "timeout") => readyAt >= wait[w].deadline \/ wait[w].polled >= wait[w].deadline
    BY DEF SignalIsHeard
  <2>1. Heard(w) /\ readyAt \in Nat /\ wait[w].deadline \in Nat /\ wait[w].polled \in Nat
    BY WeKnow, WaitFields
  <2> QED BY <2>1 DEF Heard, Listens, At, Called
<1> QED BY <1>1, WaitIsSound, PTL

\* Whoever asks again in a pause was called: the flag is there.
LEMMA AsksInPause ==
  ASSUME WaitInv, NEW v \in Workers, NEW w \in Workers, ~At(w, "asking"), At(w, "asking")',
         clock < wait[w].until,
         Step(v) \/ RedisRaises(v) \/ Dies(v) \/ \E byRedis \in BOOLEAN : Begin(v, byRedis)
  PROVE  flag
<1>1. Shape /\ Flagged /\ Rests(w) /\ clock \in Nat /\ wait \in [Workers -> Wait]
  BY WeKnow DEF Shape
<1>2. wait[w].pc # "asking" /\ wait'[w].pc = "asking"
  BY DEF At
<1>3. w = v
  <2>1. SUFFICES ASSUME w # v PROVE wait'[w] = wait[w]
    BY <1>2
  <2>2. PICK r : wait' = [wait EXCEPT ![v] = r]
    BY DEF Step, Answered, FindsEnded, FindsRunning, PollRaises, Check, Listen, WakeByToken, WakeByTime,
           RedisRaises, Dies, Begin, Goto, Over
  <2> QED BY <1>1, <2>1, <2>2
<1>4. CASE Answered(v) \/ Listen(v)
  <2>1. PICK pc \in {"toldRunning", "toldEnded", "asleep"} : Goto(v, pc)
    BY <1>4 DEF Answered, Listen
  <2>2. wait'[v].pc = pc
    BY <1>1, <2>1, Went DEF Pcs
  <2> QED BY <1>2, <1>3, <2>2
<1>5. CASE FindsEnded(v) \/ PollRaises(v) \/ RedisRaises(v)
  <2>1. PICK pc \in {"failed", "transcript", "raised"} : Over(v, pc)
    BY <1>5 DEF FindsEnded, PollRaises, RedisRaises, Fetched
  <2>2. wait'[v].pc = pc
    BY <1>1, <2>1, Ended DEF Over, Pcs
  <2> QED BY <1>2, <1>3, <2>2
<1>6. CASE FindsRunning(v)
  BY <1>1, <1>2, <1>3, <1>6, Found
<1>7. CASE Check(v)
  <2>1. (IF flag THEN Again(v) ELSE "listen") \in Pcs
    BY DEF Again, Pcs
  <2>2. wait'[v].pc = IF flag THEN Again(v) ELSE "listen"
    BY <1>1, <1>7, <2>1, Went DEF Check
  <2> QED BY <1>2, <1>3, <2>2
<1>8. CASE WakeByToken(v)
  BY <1>1, <1>8 DEF WakeByToken, Called, Flagged
<1>9. CASE WakeByTime(v)
  BY <1>1, <1>3, <1>9, WaitFields DEF WakeByTime, Rested
<1>10. CASE Dies(v)
  <2>1. Idle.pc = "idle" /\ Idle \in Wait
    BY IdleIsWait DEF Idle
  <2> DEFINE r == [Idle EXCEPT !.took = wait[v].took]
  <2>2. r.pc = "idle"
    BY <2>1 DEF Wait
  <2>3. wait' = [wait EXCEPT ![v] = r]
    BY <1>10 DEF Dies
  <2> HIDE DEF r
  <2> QED BY <1>1, <1>2, <1>3, <2>2, <2>3
<1>11. CASE \E byRedis \in BOOLEAN : Begin(v, byRedis)
  <2>1. wait[w].pc = "idle"
    BY <1>3, <1>11 DEF Begin, At
  <2>2. wait[w].until = 0
    BY <1>1, <2>1 DEF Rests
  <2> QED BY <1>1, <2>2
<1> QED BY <1>4, <1>5, <1>6, <1>7, <1>8, <1>9, <1>10, <1>11 DEF Step

\* Between two polls there is the whole pause, unless a webhook came
\* (runner.py:233-239, job_ready.py:61-71).
THEOREM NoPauseIsCutShort == Spec => PausesAreKept
<1> DEFINE Kept(w) == ~At(w, "asking") /\ At(w, "asking")' /\ clock < wait[w].until => flag
<1>1. WaitInv /\ [Next]_vars => [\A w \in Workers : Kept(w)]_vars
  <2>1. SUFFICES ASSUME WaitInv, Next, NEW w \in Workers, ~At(w, "asking"), At(w, "asking")',
                        clock < wait[w].until
                 PROVE  flag
    OBVIOUS
  <2>2. wait' # wait
    BY <2>1 DEF At
  <2>3. ~JobEnds /\ ~Signal /\ ~Tick
    BY <2>2 DEF JobEnds, Signal, Tick
  <2> QED BY <2>1, <2>3, AsksInPause DEF Next
<1> QED BY <1>1, WaitIsSound, PTL DEF Spec, PausesAreKept
=============================================================================
