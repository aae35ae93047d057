---------------------------- MODULE EventStream ----------------------------
(***************************************************************************)
(* The server-sent events of one call: stream_events (api/v1/calls.py)     *)
(* polling processing_events while transactions write them, and a client   *)
(* that reconnects with the id of the last frame it got.                   *)
(*                                                                         *)
(* An event is its created_at, a Python-side default taken when log_event  *)
(* flushes, before its transaction commits; two events never share one     *)
(* (microseconds).  A poll is two statements, each with a snapshot of its  *)
(* own.  What is kept of the status is whether it is terminal.  Keepalive  *)
(* comments carry nothing and are left out.                                *)
(***************************************************************************)
EXTENDS Naturals, Sequences, FiniteSets

CONSTANTS
  Writers,         \* the transactions that log events: worker, requests
  Budget,          \* polls in SSE_IDLE_BUDGET_SECONDS
  MaxEvents,       \* bound: events logged
  MaxConnections   \* bound: times the client connects

ASSUME BoundsAssumption ==
  /\ Budget \in Nat \ {0}
  /\ MaxEvents \in Nat
  /\ MaxConnections \in Nat

VARIABLES
  clock,        \* the time of the last flush
  pending,      \* pending[w]: events flushed by w and not committed
  events,       \* processing_events, as committed
  terminal,     \* the committed status is terminal
  exists,       \* the call has not been deleted
  conn,         \* the server's end of the connection
  got,          \* the events the client received, over all connections
  lastId,       \* the id of the client's last frame: an event, 0 or NoTime
  frame,        \* how the last connection ended
  connections,  \* how often the client connected
  overtaken,    \* history: events committed after a later-stamped one
  replays       \* history: the client reconnected with NoTime

callVars   == <<clock, pending, events, terminal, exists, overtaken>>
clientVars == <<got, lastId, frame, connections, replays>>
vars       == <<callVars, conn, clientVars>>

Times == 1..MaxEvents

\* A Last-Event-ID that is no time, such as "terminal".
NoTime == MaxEvents + 1

Closed == [pc |-> "closed", after |-> 0, seen |-> FALSE, owed |-> {}, out |-> <<>>, elapsed |-> 0]

Init ==
  /\ clock = 0
  /\ pending = [w \in Writers |-> {}]
  /\ events = {}
  /\ terminal = FALSE
  /\ exists = TRUE
  /\ conn = Closed
  /\ got = <<>>
  /\ lastId = 0
  /\ frame = "none"
  /\ connections = 0
  /\ overtaken = {}
  /\ replays = FALSE

-----------------------------------------------------------------------------
(* The writers.                                                            *)

\* log_event: the row is flushed with its created_at, in an open transaction.
Log(w) ==
  /\ exists
  /\ clock < MaxEvents
  /\ clock' = clock + 1
  /\ pending' = [pending EXCEPT ![w] = @ \cup {clock'}]
  /\ UNCHANGED <<events, terminal, exists, overtaken, conn, clientVars>>

\* The transaction commits, with whatever it did to the status.  The status
\* becomes terminal only together with an event (runner.py:132-135, 171-192,
\* calls.py:301-302); reanalyze and retries reopen the call without one.
Commit(w, ends) ==
  /\ exists
  /\ pending[w] # {} \/ ~ends
  /\ events' = events \cup pending[w]
  /\ overtaken' = overtaken \cup {e \in pending[w] : \E later \in events : later > e}
  /\ pending' = [pending EXCEPT ![w] = {}]
  /\ terminal' = ends
  /\ UNCHANGED <<clock, exists, conn, clientVars>>

Rollback(w) ==
  /\ pending[w] # {}
  /\ pending' = [pending EXCEPT ![w] = {}]
  /\ UNCHANGED <<clock, events, terminal, exists, overtaken, conn, clientVars>>

\* delete_call: the row goes, and its events with it.
Delete ==
  /\ exists
  /\ exists' = FALSE
  /\ events' = {}
  /\ pending' = [w \in Writers |-> {}]
  /\ UNCHANGED <<clock, terminal, overtaken, conn, clientVars>>

-----------------------------------------------------------------------------
(* The stream.                                                             *)

At(pc) == conn.pc = pc

\* A new connection: Last-Event-ID is the cursor if it is a time; if not, the
\* cursor starts from nothing.
Connect ==
  /\ At("closed")
  /\ connections < MaxConnections
  /\ connections' = connections + 1
  /\ conn' = [Closed EXCEPT !.pc = "status", !.after = IF lastId = NoTime THEN 0 ELSE lastId]
  /\ replays' = (replays \/ lastId = NoTime)
  /\ frame' = "none"
  /\ UNCHANGED <<callVars, got, lastId>>

\* The last frame of a stream; its id, if any, is what the client comes back with.
End(kind, id) ==
  /\ conn' = Closed
  /\ frame' = kind
  /\ lastId' = id
  /\ UNCHANGED <<callVars, got, connections, replays>>

NotFound ==
  /\ conn.pc \in {"status", "budget"}
  /\ ~exists
  /\ End("error", lastId)

ReadStatus ==
  /\ At("status")
  /\ exists
  /\ conn' = [conn EXCEPT !.pc = "events", !.seen = terminal, !.owed = events]
  /\ UNCHANGED <<callVars, clientVars>>

\* The members of S in increasing order: there is one such sequence.
Ascending(S) ==
  {seq \in [1..Cardinality(S) -> S] : \A i, j \in DOMAIN seq : i < j => seq[i] < seq[j]}

\* Mutant of ReadEvents: the cursor is included.
ReadEventsFrom ==
  /\ At("events")
  /\ \E out \in Ascending({e \in events : e >= conn.after}) :
       conn' = [conn EXCEPT !.pc = "send", !.out = out]
  /\ UNCHANGED <<callVars, clientVars>>

\* The events after the cursor, by created_at.
ReadEvents ==
  /\ At("events")
  /\ \E out \in Ascending({e \in events : e > conn.after}) :
       conn' = [conn EXCEPT !.pc = "send", !.out = out]
  /\ UNCHANGED <<callVars, clientVars>>

SendEvent ==
  /\ At("send")
  /\ conn.out # <<>>
  /\ conn' = [conn EXCEPT !.after = Head(conn.out), !.out = Tail(conn.out)]
  /\ got' = Append(got, Head(conn.out))
  /\ lastId' = Head(conn.out)
  /\ UNCHANGED <<callVars, frame, connections, replays>>

\* Mutant of SendTerminal: the status is read after the events, and what is
\* committed by then is owed.
SendTerminalFresh ==
  /\ At("send")
  /\ conn.out = <<>>
  /\ terminal
  /\ conn' = [Closed EXCEPT !.owed = events]
  /\ frame' = "terminal"
  /\ lastId' = NoTime
  /\ UNCHANGED <<callVars, got, connections, replays>>

SendTerminal ==
  /\ At("send")
  /\ conn.out = <<>>
  /\ conn.seen
  /\ conn' = [Closed EXCEPT !.owed = conn.owed]
  /\ frame' = "terminal"
  /\ lastId' = NoTime
  /\ UNCHANGED <<callVars, got, connections, replays>>

\* Mutant of Sleep: waiting costs nothing.
SleepFree ==
  /\ At("send")
  /\ conn.out = <<>>
  /\ ~conn.seen
  /\ conn' = [conn EXCEPT !.pc = "status", !.owed = {}]
  /\ UNCHANGED <<callVars, clientVars>>

\* One poll interval; then the next poll, if the budget allows one.
Sleep ==
  /\ At("send")
  /\ conn.out = <<>>
  /\ ~conn.seen
  /\ conn' = [conn EXCEPT !.elapsed = @ + 1, !.owed = {},
                          !.pc = IF conn.elapsed + 1 < Budget THEN "status" ELSE "budget"]
  /\ UNCHANGED <<callVars, clientVars>>

\* The timeout frame carries the cursor, or no id at all.
SendTimeout ==
  /\ At("budget")
  /\ exists
  /\ End("timeout", IF conn.after = 0 THEN lastId ELSE conn.after)

\* The connection breaks between two frames, and the client keeps its last id.
Cut ==
  /\ ~At("closed")
  /\ End("cut", lastId)

StreamStep == \/ NotFound \/ ReadStatus \/ ReadEvents \/ SendEvent \/ SendTerminal
              \/ Sleep \/ SendTimeout

Next ==
  \/ \E w \in Writers : Log(w) \/ Rollback(w) \/ \E ends \in BOOLEAN : Commit(w, ends)
  \/ Delete
  \/ Connect
  \/ Cut
  \/ StreamStep

\* The server's loop goes on; nobody has to write, connect or break.
Spec == Init /\ [][Next]_vars /\ WF_vars(StreamStep)

-----------------------------------------------------------------------------
Connection ==
  [ pc : {"closed", "status", "events", "send", "budget"}, after : 0..MaxEvents, seen : BOOLEAN,
    owed : SUBSET Times, out : Seq(Times), elapsed : 0..Budget ]

\* The shape of the state; with it, that a stream never outlives its budget.
TypeOK ==
  /\ clock \in 0..MaxEvents
  /\ pending \in [Writers -> SUBSET Times]
  /\ events \subseteq Times
  /\ terminal \in BOOLEAN /\ exists \in BOOLEAN /\ replays \in BOOLEAN
  /\ overtaken \subseteq Times
  /\ conn \in Connection
  /\ conn.pc \in {"status", "events", "send"} => conn.elapsed < Budget
  /\ got \in Seq(Times)
  /\ lastId \in 0..NoTime
  /\ frame \in {"none", "error", "terminal", "timeout", "cut"}
  /\ connections \in 0..MaxConnections

\* When the terminal frame comes, the client has every event that was committed
\* with the terminal status or before it: the status is read before the events
\* (calls.py:387-394, 409), so the event that says how the call ended is never
\* missing.  Only an event that committed after a later-stamped one may be, or
\* the history of a call that was deleted meanwhile.
TheEndIsHeard ==
  frame = "terminal" /\ exists => conn.owed \subseteq {got[i] : i \in DOMAIN got} \cup overtaken

\* Frames come in the order of their ids, and a client that comes back with the
\* id of an event, or of a timeout frame, gets nothing twice (calls.py:377-382,
\* 393, 437).  Only the terminal frame's id starts the history over.
NoReplay ==
  ~replays => \A i, j \in DOMAIN got : i < j => got[i] < got[j]

\* docs/frontend-contract.md:218 "exactly one of terminal, timeout, or error ends
\* any stream": a stream that is not cut comes to one of them.
StreamEnds == ~At("closed") ~> At("closed") /\ frame # "none"
=============================================================================
