------------------------- MODULE TranscriptionWait -------------------------
(***************************************************************************)
(* Workers waiting for one PyAI job: _await_transcript (pipeline/runner.py)*)
(* polling it, and the ready signal (core/job_ready.py) with which the     *)
(* webhook cuts a pause short.  Two workers can wait for the same job, as  *)
(* a redelivered message submits it under the same idempotency key.        *)
(*                                                                         *)
(* Time is counted in half seconds and passes while a worker sleeps, and   *)
(* while a status request or its answer is under way; the rest of the loop *)
(* takes no time.                                                          *)
(***************************************************************************)
EXTENDS Integers, FiniteSets

CONSTANTS
  Workers,
  Deadline,   \* pyai_poll_deadline_seconds, in half seconds
  Interval,   \* pyai_poll_interval_seconds, in half seconds
  MaxPosts,   \* bound: webhooks that arrive
  MaxDeaths,  \* bound: workers that die while they wait
  MaxClock    \* bound: half seconds modelled

\* The interval is at least half a second, as max(0.5, ...) makes it.
ASSUME WaitAssumption ==
  /\ Deadline \in Nat \ {0}
  /\ Interval \in Nat \ {0}
  /\ MaxPosts \in Nat
  /\ MaxDeaths \in Nat
  /\ MaxClock \in Nat

VARIABLES
  clock,
  job,      \* the job's status at PyAI: "running", or how it ended
  flag,     \* the ready key is set; it outlives every wait (3600 s)
  tokens,   \* the length of the list BLPOP pops
  wait,     \* wait[w]: a worker in _await_transcript
  readyAt,  \* history: when the job was done and flagged, or Never
  posts,    \* webhooks that arrived
  deaths    \* workers that died

signalVars == <<flag, tokens>>
vars == <<clock, job, signalVars, wait, readyAt, posts, deaths>>

Never == MaxClock + 3

\* The statuses that end the loop: the two failures fetch_normalized knows, and
\* spellings only the loop knows ("error", "canceled").
JobEndings == {"completed", "failed", "error"}

\* "toldRunning" and "toldEnded": PyAI has answered, and the answer is under way.
\* polled is when the last answer came.
Idle == [pc |-> "idle", byRedis |-> FALSE, deadline |-> 0, until |-> 0, polled |-> 0, took |-> FALSE]

Init ==
  /\ clock = 0
  /\ job = "running"
  /\ flag = FALSE
  /\ tokens = 0
  /\ wait = [w \in Workers |-> Idle]
  /\ readyAt = Never
  /\ posts = 0
  /\ deaths = 0

-----------------------------------------------------------------------------
(* PyAI and the webhook.                                                   *)

MarkReady == readyAt' = IF readyAt = Never /\ job' # "running" /\ flag' THEN clock ELSE readyAt

JobEnds ==
  /\ job = "running"
  /\ job' \in JobEndings
  /\ UNCHANGED <<clock, signalVars, wait, posts, deaths>>
  /\ MarkReady

\* Mutant of Signal: published to whoever is listening, and not kept.
SignalPublishes ==
  /\ posts < MaxPosts
  /\ posts' = posts + 1
  /\ flag' = TRUE
  /\ tokens' = IF \E w \in Workers : wait[w].pc = "asleep" /\ wait[w].byRedis THEN tokens + 1 ELSE tokens
  /\ UNCHANGED <<clock, job, wait, deaths>>
  /\ MarkReady

\* The webhook, which does not look at what it is told of the job: flag and
\* list are written in one transaction.  Posts may be early, repeated or lost.
Signal ==
  /\ posts < MaxPosts
  /\ posts' = posts + 1
  /\ flag' = TRUE
  /\ tokens' = tokens + 1
  /\ UNCHANGED <<clock, job, wait, deaths>>
  /\ MarkReady

-----------------------------------------------------------------------------
(* The worker.                                                             *)

At(w, pc) == wait[w].pc = pc
Goto(w, pc) == wait' = [wait EXCEPT ![w].pc = pc]

\* The head of the loop.
Again(w) == IF clock < wait[w].deadline THEN "asking" ELSE "timeout"

\* With a webhook URL the pauses are RedisJobReadyWaiter.wait, else time.sleep.
\* The bound on the clock leaves room for the whole wait.
Begin(w, byRedis) ==
  /\ At(w, "idle")
  /\ clock + Deadline + 1 <= MaxClock
  /\ wait' = [wait EXCEPT ![w] = [Idle EXCEPT !.pc = "asking", !.byRedis = byRedis,
                                              !.deadline = clock + Deadline, !.took = wait[w].took]]
  /\ UNCHANGED <<clock, job, signalVars, readyAt, posts, deaths>>

AtLeast(n, m) == IF n > m THEN n ELSE m
AtMost(n, m) == IF n < m THEN n ELSE m

\* Mutant of BlpopTicks: int(timeout), and half a second never ends.
BlpopTicksTruncates(t) == IF t \div 2 = 0 THEN Never ELSE 2 * (t \div 2)

\* BLPOP takes whole seconds, at least one: 0 would block for ever.
BlpopTicks(t) == 2 * AtLeast(1, t \div 2)

\* Mutant of PauseTicks: the whole deadline is waited for the webhook.
PauseTicksDeadline(left) == left

\* The pause after a poll: the interval, or what is left to the deadline.
PauseTicks(left) == AtMost(Interval, left)

\* fetch_normalized on a job that has ended.
Fetched == IF job = "failed" THEN "failed" ELSE "transcript"

\* The bound on the polls: at most one in half a second.
IsPaced(w) == wait[w].until = 0 \/ wait[w].polled < clock

\* The wait is over.
Over(w, pc) == wait' = [wait EXCEPT ![w] = [Idle EXCEPT !.pc = pc, !.took = wait[w].took]]

\* get_job: PyAI answers with the job's status of that moment.
Answered(w) ==
  /\ At(w, "asking")
  /\ IsPaced(w)
  /\ Goto(w, IF job = "running" THEN "toldRunning" ELSE "toldEnded")
  /\ UNCHANGED <<clock, job, signalVars, readyAt, posts, deaths>>

\* The answer comes, and says that the job has ended: it is fetched.
FindsEnded(w) ==
  /\ At(w, "toldEnded")
  /\ Over(w, Fetched)
  /\ UNCHANGED <<clock, job, signalVars, readyAt, posts, deaths>>

\* The answer comes, and says that the job is running, whatever it is by now.
FindsRunning(w) ==
  /\ At(w, "toldRunning")
  /\ LET left == wait[w].deadline - clock
         pause == PauseTicks(left)
     IN wait' = [wait EXCEPT ![w] =
          IF left <= 0
            THEN [@ EXCEPT !.polled = clock, !.pc = "timeout"]
            ELSE [@ EXCEPT !.polled = clock,
                           !.pc = IF wait[w].byRedis THEN "check" ELSE "asleep",
                           !.until = clock + (IF wait[w].byRedis THEN BlpopTicks(pause) ELSE pause)]]
  /\ UNCHANGED <<clock, job, signalVars, readyAt, posts, deaths>>

Polling(w) == wait[w].pc \in {"asking", "toldRunning", "toldEnded"}

\* PyAI refuses the poll, or the client gives up on it: the error leaves the loop.
PollRaises(w) ==
  /\ Polling(w)
  /\ Over(w, "raised")
  /\ UNCHANGED <<clock, job, signalVars, readyAt, posts, deaths>>

\* Mutant of Check: the flag is read the wrong way round.
CheckInverted(w) ==
  /\ At(w, "check")
  /\ Goto(w, IF flag THEN "listen" ELSE Again(w))
  /\ UNCHANGED <<clock, job, signalVars, readyAt, posts, deaths>>

\* GET of the flag, before listening.
Check(w) ==
  /\ At(w, "check")
  /\ Goto(w, IF flag THEN Again(w) ELSE "listen")
  /\ UNCHANGED <<clock, job, signalVars, readyAt, posts, deaths>>

Listen(w) ==
  /\ At(w, "listen")
  /\ Goto(w, "asleep")
  /\ UNCHANGED <<clock, job, signalVars, readyAt, posts, deaths>>

Called(w) == At(w, "asleep") /\ wait[w].byRedis /\ tokens > 0
Rested(w) == At(w, "asleep") /\ clock >= wait[w].until

\* BLPOP returns an element, which no other listener gets.
WakeByToken(w) ==
  /\ Called(w)
  /\ tokens' = tokens - 1
  /\ wait' = [wait EXCEPT ![w].pc = Again(w), ![w].took = TRUE]
  /\ UNCHANGED <<clock, job, flag, readyAt, posts, deaths>>

\* The pause is over.  What wait() says of the flag is not used.
WakeByTime(w) ==
  /\ Rested(w)
  /\ ~Called(w)
  /\ Goto(w, Again(w))
  /\ UNCHANGED <<clock, job, signalVars, readyAt, posts, deaths>>

\* Redis is gone: the error leaves the loop.
RedisRaises(w) ==
  /\ wait[w].byRedis
  /\ wait[w].pc \in {"check", "listen", "asleep"}
  /\ Over(w, "raised")
  /\ UNCHANGED <<clock, job, signalVars, readyAt, posts, deaths>>

Waiting(w) == Polling(w) \/ wait[w].pc \in {"check", "listen", "asleep"}

\* The worker dies, and its message is delivered again.
Dies(w) ==
  /\ deaths < MaxDeaths
  /\ Waiting(w)
  /\ deaths' = deaths + 1
  /\ wait' = [wait EXCEPT ![w] = [Idle EXCEPT !.took = wait[w].took]]
  /\ UNCHANGED <<clock, job, signalVars, readyAt, posts>>

Tick ==
  /\ clock < MaxClock
  /\ clock' = clock + 1
  /\ \A w \in Workers : ~Called(w) /\ ~Rested(w) /\ wait[w].pc \notin {"check", "listen"}
  /\ UNCHANGED <<job, signalVars, wait, readyAt, posts, deaths>>

-----------------------------------------------------------------------------
Step(w) ==
  \/ Answered(w) \/ FindsEnded(w) \/ FindsRunning(w) \/ PollRaises(w)
  \/ Check(w) \/ Listen(w) \/ WakeByToken(w) \/ WakeByTime(w)

Next ==
  \/ JobEnds \/ Signal \/ Tick
  \/ \E w \in Workers : Step(w) \/ RedisRaises(w) \/ Dies(w) \/ \E byRedis \in BOOLEAN : Begin(w, byRedis)

\* Time passes and a worker that can go on does.  Nothing is assumed of PyAI: a
\* poll ends in an answer or, by the client's own timeout, in an error.
Fairness == WF_vars(Tick) /\ \A w \in Workers : WF_vars(Step(w))

Spec == Init /\ [][Next]_vars /\ Fairness

-----------------------------------------------------------------------------
(* Properties.                                                             *)

TypeOK ==
  /\ clock \in 0..MaxClock
  /\ job \in JobEndings \cup {"running"}
  /\ flag \in BOOLEAN
  /\ tokens \in 0..MaxPosts
  /\ readyAt \in 0..MaxClock \cup {Never}
  /\ posts \in 0..MaxPosts
  /\ deaths \in 0..MaxDeaths
  /\ \A w \in Workers :
       /\ wait[w].pc \in {"idle", "asking", "toldRunning", "toldEnded", "check", "listen", "asleep",
                         "transcript", "failed", "timeout", "raised"}
       /\ wait[w].byRedis \in BOOLEAN
       /\ wait[w].took \in BOOLEAN
       /\ wait[w].deadline \in 0..MaxClock
       /\ wait[w].polled \in 0..MaxClock
       /\ wait[w].until \in Nat

\* The longest a worker sleeps between two polls.
LongestPause == AtLeast(Interval, BlpopTicks(Interval))

\* A worker times out only on the word that the job is running, which came at
\* most one pause before the deadline; it was given when PyAI answered, and is as
\* old as its way was long (runner.py:212-240).
TimeoutIsFresh ==
  \A w \in Workers : At(w, "timeout") => wait[w].deadline - wait[w].polled <= LongestPause

\* The other worker got an element of the list.
Robbed(w) == \E v \in Workers \ {w} : wait[v].took

\* A worker does not sleep through a signal, whether it came while an answer was
\* under way, between the flag being read and BLPOP, or after, unless the other
\* worker was woken in its place.  Such a worker gives up a job that was done and
\* flagged before its deadline in one case only: the answer that had the job
\* still running was under way when the deadline passed (job_ready.py:50-71,
\* runner.py:217-240).
SignalIsHeard ==
  \A w \in Workers :
    wait[w].byRedis /\ ~Robbed(w) =>
      /\ flag /\ At(w, "asleep") => Called(w)
      /\ At(w, "timeout") => readyAt >= wait[w].deadline \/ wait[w].polled >= wait[w].deadline

\* A worker asks again before its pause is over only after a signal, which is
\* never taken back and turns every later pause into none (runner.py:233-239,
\* job_ready.py:61-71).
PausesAreKept ==
  [][\A w \in Workers : ~At(w, "asking") /\ At(w, "asking")' /\ clock < wait[w].until => flag]_vars

\* Every wait ends, with no help from PyAI or the webhook (runner.py:215-240,
\* job_ready.py:68).
WaitEnds == \A w \in Workers : []<>~Waiting(w)
=============================================================================
