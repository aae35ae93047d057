------------------------- MODULE EventStreamProofs -------------------------
(***************************************************************************)
(* EventStream for any writers, any budget, any number of events and of    *)
(* connections: its types, that no frame comes twice (NoReplay) and that   *)
(* the terminal frame is the last word (TheEndIsHeard).                    *)
(***************************************************************************)
EXTENDS EventStream, FiniteSetTheorems, SequenceTheorems, TLAPS

Frames(seq) == {seq[i] : i \in DOMAIN seq}

-----------------------------------------------------------------------------
(* The one ascending sequence of a set of times.                           *)

LEMMA AscendingCovers ==
  ASSUME NEW S \in SUBSET Times, NEW out \in Ascending(S)
  PROVE  /\ out \in Seq(Times)
         /\ DOMAIN out = 1..Len(out)
         /\ \A i, j \in DOMAIN out : i < j => out[i] < out[j]
         /\ Frames(out) = S
<1> DEFINE n == Cardinality(S)
<1>1. IsFiniteSet(S) /\ n \in Nat
  <2>1. IsFiniteSet(Times)
    BY FS_Interval, BoundsAssumption DEF Times
  <2> QED BY <2>1, FS_Subset, FS_CardinalityType
<1>2. out \in [1..n -> S] /\ \A i, j \in 1..n : i < j => out[i] < out[j]
  BY DEF Ascending
<1>3. S \subseteq Int
  BY BoundsAssumption DEF Times
<1> HIDE DEF n
<1>4. out \in Injection(1..n, S)
  <2>1. \A i, j \in 1..n : out[i] = out[j] => i = j
    <3> SUFFICES ASSUME NEW i \in 1..n, NEW j \in 1..n, out[i] = out[j], i # j PROVE FALSE
      OBVIOUS
    <3>1. out[i] \in Int /\ out[j] \in Int
      BY <1>2, <1>3
    <3>2. i < j \/ j < i
      BY <1>1
    <3> QED BY <1>2, <3>1, <3>2
  <2> QED BY <1>2, <2>1 DEF Injection, IsInjective
<1>5. Cardinality(1..n) = Cardinality(S)
  BY <1>1, FS_Interval DEF n
<1>6. out \in Surjection(1..n, S)
  BY <1>1, <1>4, <1>5, FS_Injection
<1>7. \A e \in S : \E i \in 1..n : out[i] = e
  BY <1>6 DEF Surjection
<1>8. out \in Seq(Times) /\ DOMAIN out = 1..Len(out) /\ DOMAIN out = 1..n
  BY <1>1, <1>2
<1> QED BY <1>2, <1>7, <1>8 DEF Frames

-----------------------------------------------------------------------------
(* The types.                                                              *)

LEMMA ClosedIsConnection == Closed \in Connection
<1>1. <<>> \in Seq(Times)
  OBVIOUS
<1> QED BY <1>1, BoundsAssumption DEF Closed, Connection, Times

LEMMA InitTypes == Init => TypeOK
<1> SUFFICES ASSUME Init PROVE TypeOK
  OBVIOUS
<1>1. conn \in Connection /\ conn.pc = "closed"
  BY ClosedIsConnection DEF Init, Closed
<1>2. got \in Seq(Times)
  BY DEF Init
<1>3. pending \in [Writers -> SUBSET Times]
  BY DEF Init
<1>4. clock = 0 /\ events = {} /\ overtaken = {} /\ lastId = 0 /\ frame = "none" /\ connections = 0
  BY DEF Init
<1>5. terminal \in BOOLEAN /\ exists \in BOOLEAN /\ replays \in BOOLEAN
  BY DEF Init
<1> QED BY <1>1, <1>2, <1>3, <1>4, <1>5, BoundsAssumption DEF TypeOK, Times, NoTime

\* What the writers and the server's steps do to the types.
LEMMA StepTypes == TypeOK /\ [Next]_vars => TypeOK'
<1> SUFFICES ASSUME TypeOK, [Next]_vars PROVE TypeOK'
  OBVIOUS
<1> USE BoundsAssumption
<1>0. Closed \in Connection
  BY ClosedIsConnection
<1>1. ASSUME NEW w \in Writers, Log(w) PROVE TypeOK'
  BY <1>1 DEF TypeOK, Log, clientVars, Times
<1>2. ASSUME NEW w \in Writers, Rollback(w) PROVE TypeOK'
  BY <1>2 DEF TypeOK, Rollback, clientVars
<1>3. ASSUME NEW w \in Writers, NEW ends \in BOOLEAN, Commit(w, ends) PROVE TypeOK'
  BY <1>3 DEF TypeOK, Commit, clientVars
<1>4. CASE Delete
  BY <1>4 DEF TypeOK, Delete, clientVars
<1>5. CASE Connect
  <2> DEFINE after == IF lastId = NoTime THEN 0 ELSE lastId
  <2>1. after \in 0..MaxEvents
    BY DEF TypeOK, NoTime
  <2>2. conn' = [Closed EXCEPT !.pc = "status", !.after = after]
    BY <1>5 DEF Connect
  <2> HIDE DEF after
  <2>3. conn' \in Connection /\ conn'.elapsed = 0
    BY <1>0, <2>1, <2>2 DEF Connection, Closed
  <2> QED BY <1>5, <2>3 DEF TypeOK, Connect, callVars
<1>6. ASSUME NEW kind \in {"error", "timeout", "cut"}, NEW id \in 0..NoTime, End(kind, id)
      PROVE  TypeOK'
  BY <1>0, <1>6 DEF TypeOK, End, callVars, Closed
<1>7. CASE NotFound \/ Cut
  BY <1>6, <1>7 DEF NotFound, Cut, TypeOK
<1>8. CASE SendTimeout
  BY <1>6, <1>8 DEF SendTimeout, TypeOK, Connection, NoTime
<1>9. CASE ReadStatus
  <2>1. conn' \in Connection /\ conn'.elapsed = conn.elapsed
    BY <1>9 DEF TypeOK, ReadStatus, Connection
  <2> QED BY <1>9, <2>1 DEF TypeOK, ReadStatus, At, callVars, clientVars
<1>10. CASE ReadEvents
  <2>1. PICK out \in Ascending({e \in events : e > conn.after}) :
          conn' = [conn EXCEPT !.pc = "send", !.out = out]
    BY <1>10 DEF ReadEvents
  <2>2. out \in Seq(Times)
    BY AscendingCovers DEF TypeOK
  <2>3. conn' \in Connection /\ conn'.elapsed = conn.elapsed
    BY <2>1, <2>2 DEF TypeOK, Connection
  <2> QED BY <1>10, <2>3 DEF TypeOK, ReadEvents, At, callVars, clientVars
<1>11. CASE SendEvent
  <2>1. Head(conn.out) \in Times /\ Tail(conn.out) \in Seq(Times)
    BY <1>11 DEF SendEvent, TypeOK, Connection
  <2> DEFINE first == Head(conn.out)
             rest  == Tail(conn.out)
  <2>3. conn' = [conn EXCEPT !.after = first, !.out = rest] /\ conn \in Connection
    BY <1>11 DEF TypeOK, SendEvent
  <2> HIDE DEF first, rest
  <2>4. first \in 0..MaxEvents /\ rest \in Seq(Times)
    BY <2>1 DEF first, rest, Times
  <2>2. conn' \in Connection /\ conn'.elapsed = conn.elapsed /\ conn'.pc = conn.pc
    BY <2>3, <2>4 DEF Connection
  <2> QED BY <1>11, <2>1, <2>2 DEF TypeOK, SendEvent, At, callVars, NoTime, Times
<1>12. CASE SendTerminal
  <2>1. conn' \in Connection /\ conn'.pc = "closed"
    BY <1>0, <1>12 DEF TypeOK, SendTerminal, Connection, Closed
  <2> QED BY <1>12, <2>1 DEF TypeOK, SendTerminal, callVars, NoTime
<1>13. CASE Sleep
  <2>1. conn' \in Connection /\ (conn'.pc \in {"status", "events", "send"} => conn'.elapsed < Budget)
    <3> DEFINE pc == IF conn.elapsed + 1 < Budget THEN "status" ELSE "budget"
    <3>1. /\ conn' = [conn EXCEPT !.elapsed = @ + 1, !.owed = {}, !.pc = pc]
          /\ conn \in Connection
          /\ conn.elapsed < Budget
      BY <1>13 DEF TypeOK, Sleep, At
    <3>2. /\ conn.elapsed + 1 \in 0..Budget
          /\ pc \in {"status", "budget"}
          /\ pc = "status" => conn.elapsed + 1 < Budget
      BY <3>1 DEF Connection
    <3> HIDE DEF pc
    <3> QED BY <3>1, <3>2 DEF Connection
  <2> QED BY <1>13, <2>1 DEF TypeOK, Sleep, callVars, clientVars
<1>14. CASE UNCHANGED vars
  BY <1>14 DEF TypeOK, vars, callVars, clientVars
<1> QED BY <1>1, <1>2, <1>3, <1>4, <1>5, <1>7, <1>8, <1>9, <1>10, <1>11, <1>12, <1>13, <1>14
        DEF Next, StreamStep

\* The state keeps its shape, and no stream polls beyond its budget
\* (SSE_IDLE_BUDGET_SECONDS, calls.py:373-441).
THEOREM StreamTypes == Spec => []TypeOK
<1> QED BY InitTypes, StepTypes, PTL DEF Spec

-----------------------------------------------------------------------------
(* No frame comes twice.  While the client has not come back with NoTime,  *)
(* what it got ends at its last id, which is where an open connection      *)
(* stands, and what is still to be sent lies beyond.                       *)

Outgoing ==
  /\ \A i \in DOMAIN conn.out : conn.out[i] > conn.after
  /\ \A i, j \in DOMAIN conn.out : i < j => conn.out[i] < conn.out[j]

Followed ==
  ~replays =>
    /\ NoReplay
    /\ \A i \in DOMAIN got : got[i] <= lastId
    /\ ~At("closed") => conn.after = lastId

InOrder == TypeOK /\ Outgoing /\ Followed

LEMMA InitOrder == Init => Outgoing /\ Followed
BY DEF Init, Outgoing, Followed, NoReplay, Closed, At

\* What a Head and a Tail are, for the SMT solver.
LEMMA HeadAndTail ==
  ASSUME NEW seq \in Seq(Times), seq # <<>>
  PROVE  /\ Head(seq) = seq[1] /\ Head(seq) \in Times
         /\ 1 \in DOMAIN seq
         /\ DOMAIN seq = 1..Len(seq) /\ Len(seq) \in Nat
         /\ Tail(seq) \in Seq(Times)
         /\ DOMAIN Tail(seq) = 1..Len(seq) - 1
         /\ \A i \in DOMAIN Tail(seq) : i + 1 \in DOMAIN seq /\ Tail(seq)[i] = seq[i + 1]
<1>1. Len(seq) \in Nat /\ Len(seq) # 0 /\ DOMAIN seq = 1..Len(seq)
  BY EmptySeq
<1>2. Head(seq) = seq[1] /\ 1 \in DOMAIN seq /\ seq[1] \in Times
  BY <1>1, HeadTailProperties
<1>3. /\ Tail(seq) \in Seq(Times) /\ Len(Tail(seq)) = Len(seq) - 1
      /\ \A i \in 1..Len(Tail(seq)) : Tail(seq)[i] = seq[i + 1]
  BY HeadTailProperties
<1>4. DOMAIN Tail(seq) = 1..Len(seq) - 1
  BY <1>3
<1> QED BY <1>1, <1>2, <1>3, <1>4

LEMMA Appended ==
  ASSUME NEW seq \in Seq(Times), NEW e \in Times
  PROVE  /\ Append(seq, e) \in Seq(Times)
         /\ DOMAIN seq = 1..Len(seq) /\ Len(seq) \in Nat
         /\ DOMAIN Append(seq, e) = 1..Len(seq) + 1
         /\ \A i \in DOMAIN seq : Append(seq, e)[i] = seq[i]
         /\ Append(seq, e)[Len(seq) + 1] = e
OBVIOUS

\* What the connection's record has in it.
LEMMA ConnectionFields ==
  ASSUME TypeOK
  PROVE  /\ conn.after \in 0..MaxEvents
         /\ conn.out \in Seq(Times)
         /\ conn.owed \in SUBSET Times
         /\ \A i \in DOMAIN conn.out : conn.out[i] \in Times
BY DEF TypeOK, Connection

\* A frame: the next event out is the last one got.
LEMMA FrameSent ==
  ASSUME TypeOK, SendEvent
  PROVE  /\ conn.out # <<>> /\ Head(conn.out) \in Times
         /\ conn'.pc = "send" /\ conn'.after = Head(conn.out) /\ conn'.out = Tail(conn.out)
         /\ conn'.owed = conn.owed
         /\ lastId' = Head(conn.out) /\ got' = Append(got, Head(conn.out))
<1>1. conn.out \in Seq(Times) /\ conn.out # <<>>
  BY ConnectionFields DEF SendEvent
<1>2. Head(conn.out) \in Times
  BY <1>1, HeadAndTail
<1> DEFINE first == Head(conn.out)
           rest  == Tail(conn.out)
<1>3. conn' = [conn EXCEPT !.after = first, !.out = rest] /\ conn \in Connection /\ conn.pc = "send"
  BY DEF TypeOK, SendEvent, At
<1> HIDE DEF first, rest
<1>4. conn'.pc = "send" /\ conn'.after = first /\ conn'.out = rest /\ conn'.owed = conn.owed
  BY <1>3 DEF Connection
<1> QED BY <1>1, <1>2, <1>4 DEF SendEvent, first, rest

\* A poll: everything after the cursor, in order.
LEMMA EventsRead ==
  ASSUME TypeOK, ReadEvents
  PROVE  /\ conn'.pc = "send" /\ conn'.after = conn.after /\ conn'.owed = conn.owed
         /\ conn'.out \in Seq(Times)
         /\ \A i, j \in DOMAIN conn'.out : i < j => conn'.out[i] < conn'.out[j]
         /\ Frames(conn'.out) = {e \in events : e > conn.after}
<1>1. PICK out \in Ascending({e \in events : e > conn.after}) :
        conn' = [conn EXCEPT !.pc = "send", !.out = out]
  BY DEF ReadEvents
<1>2. /\ out \in Seq(Times)
      /\ \A i, j \in DOMAIN out : i < j => out[i] < out[j]
      /\ Frames(out) = {e \in events : e > conn.after}
  <2>1. {e \in events : e > conn.after} \in SUBSET Times
    BY DEF TypeOK
  <2> QED BY <2>1, AscendingCovers
<1>3. conn'.pc = "send" /\ conn'.after = conn.after /\ conn'.owed = conn.owed /\ conn'.out = out
  BY <1>1 DEF TypeOK, Connection
<1> QED BY <1>2, <1>3

LEMMA StepOutgoing == TypeOK /\ Outgoing /\ [Next]_vars => Outgoing'
<1> SUFFICES ASSUME TypeOK, Outgoing, [Next]_vars PROVE Outgoing'
  OBVIOUS
<1>1. CASE conn'.out = <<>>
  BY <1>1 DEF Outgoing
<1>2. CASE conn'.out = conn.out /\ conn'.after = conn.after
  BY <1>2 DEF Outgoing
<1>3. CASE SendEvent
  <2>1. /\ conn.out \in Seq(Times) /\ conn.out # <<>>
        /\ conn'.after = conn.out[1] /\ conn'.out = Tail(conn.out)
    BY <1>3, FrameSent, ConnectionFields, HeadAndTail
  <2>2. \A i \in DOMAIN conn.out : conn.out[i] \in Nat
    BY ConnectionFields, BoundsAssumption DEF Times
  <2> QED BY <2>1, <2>2, HeadAndTail DEF Outgoing
<1>4. CASE ReadEvents
  <2>1. \A i \in DOMAIN conn'.out : conn'.out[i] > conn'.after
    BY <1>4, EventsRead DEF Frames
  <2> QED BY <1>4, <2>1, EventsRead DEF Outgoing
<1>5. conn \in Connection
  BY DEF TypeOK
<1>6. ASSUME NEW kind, NEW id, End(kind, id) PROVE conn'.out = <<>>
  BY <1>6 DEF End, Closed
<1>7. CASE NotFound \/ SendTimeout \/ Cut \/ Connect \/ SendTerminal
  <2>1. conn'.out = <<>>
    BY <1>6, <1>7 DEF NotFound, SendTimeout, Cut, Connect, SendTerminal, Closed
  <2> QED BY <1>1, <2>1
<1>8. CASE ReadStatus \/ Sleep
  BY <1>2, <1>5, <1>8 DEF ReadStatus, Sleep, Connection
<1>9. CASE Delete \/ UNCHANGED vars
  BY <1>2, <1>9 DEF Delete, vars
<1>10. ASSUME NEW w \in Writers, Log(w) \/ Rollback(w) \/ \E ends \in BOOLEAN : Commit(w, ends)
       PROVE  Outgoing'
  BY <1>2, <1>10 DEF Log, Rollback, Commit
<1> QED BY <1>3, <1>4, <1>7, <1>8, <1>9, <1>10 DEF Next, StreamStep

LEMMA StepFollowed == TypeOK /\ Outgoing /\ Followed /\ [Next]_vars => Followed'
<1> SUFFICES ASSUME TypeOK, Outgoing, Followed, [Next]_vars, ~replays' PROVE Followed'
  BY DEF Followed
<1>1. ~replays
  BY DEF Next, StreamStep, Log, Rollback, Commit, Delete, Connect, Cut, NotFound, End, ReadStatus,
         ReadEvents, SendEvent, SendTerminal, Sleep, SendTimeout, vars, clientVars
<1>2. /\ NoReplay
      /\ \A i \in DOMAIN got : got[i] <= lastId
      /\ ~At("closed") => conn.after = lastId
  BY <1>1 DEF Followed
<1>3. ASSUME got' = got, lastId' = lastId, conn'.pc = "closed" \/ conn'.after = lastId PROVE Followed'
  BY <1>1, <1>2, <1>3 DEF Followed, NoReplay, At
<1>4. conn \in Connection /\ conn.after \in Nat /\ lastId \in Nat /\ \A i \in DOMAIN got : got[i] \in Nat
  BY BoundsAssumption DEF TypeOK, Connection, NoTime, Times
<1>5. CASE Connect
  BY <1>3, <1>5 DEF Connect, Closed
<1>6. CASE NotFound \/ Cut
  BY <1>3, <1>6 DEF NotFound, Cut, End, Closed
<1>7. CASE SendTimeout
  <2>1. conn.after = lastId
    BY <1>2, <1>7 DEF SendTimeout, At
  <2> QED BY <1>3, <1>7, <2>1 DEF SendTimeout, End, Closed
<1>8. CASE ReadStatus \/ Sleep
  BY <1>2, <1>3, <1>4, <1>8 DEF ReadStatus, Sleep, At, Connection, clientVars
<1>9. CASE ReadEvents
  <2>1. conn'.after = lastId
    BY <1>2, <1>9, EventsRead DEF ReadEvents, At
  <2> QED BY <1>3, <1>9, <2>1 DEF ReadEvents, clientVars
<1>10. CASE SendEvent
  <2>1. conn.after = lastId
    BY <1>2, <1>10 DEF SendEvent, At
  <2>2. /\ lastId' = conn.out[1] /\ conn'.after = conn.out[1] /\ got' = Append(got, conn.out[1])
        /\ conn.out[1] \in Times /\ 1 \in DOMAIN conn.out
    BY <1>10, FrameSent, ConnectionFields, HeadAndTail
  <2>3. conn.out[1] > lastId
    BY <2>1, <2>2 DEF Outgoing
  <2> DEFINE e == conn.out[1]
  <2> HIDE DEF e
  <2>4. e \in Times /\ e \in Nat /\ got' = Append(got, e) /\ e > lastId /\ lastId' = e /\ conn'.after = e
    BY <2>2, <2>3, BoundsAssumption DEF e, Times
  <2>5. /\ DOMAIN got = 1..Len(got) /\ Len(got) \in Nat
        /\ DOMAIN got' = 1..Len(got) + 1
        /\ \A i \in DOMAIN got : got'[i] = got[i]
        /\ got'[Len(got) + 1] = e
    BY <2>4, Appended DEF TypeOK
  <2>6. \A i \in DOMAIN got : got[i] < e
    BY <1>2, <1>4, <2>4
  <2>7. \A i, j \in DOMAIN got' : i < j => got'[i] < got'[j]
    <3> SUFFICES ASSUME NEW i \in DOMAIN got', NEW j \in DOMAIN got', i < j PROVE got'[i] < got'[j]
      OBVIOUS
    <3>1. i \in DOMAIN got /\ got'[i] = got[i]
      BY <2>5
    <3>2. CASE j \in DOMAIN got
      BY <1>1, <1>2, <2>5, <3>1, <3>2 DEF NoReplay
    <3>3. CASE j = Len(got) + 1
      BY <2>5, <2>6, <3>1, <3>3
    <3> QED BY <2>5, <3>2, <3>3
  <2>8. \A i \in DOMAIN got' : got'[i] <= e
    BY <2>4, <2>5, <2>6, <1>4
  <2> QED BY <2>4, <2>7, <2>8 DEF Followed, NoReplay
<1>11. CASE SendTerminal
  <2>1. \A i \in DOMAIN got : got[i] <= NoTime
    <3>1. got \in [1..Len(got) -> Times]
      BY LenProperties DEF TypeOK
    <3>2. \A i \in DOMAIN got : got[i] \in 1..MaxEvents
      BY <3>1 DEF Times
    <3> QED BY <3>2, BoundsAssumption DEF NoTime
  <2>2. got' = got /\ lastId' = NoTime /\ conn'.pc = "closed"
    BY <1>11 DEF SendTerminal, Closed
  <2> QED BY <1>1, <1>2, <2>1, <2>2 DEF Followed, NoReplay, At
<1>12. CASE Delete \/ UNCHANGED vars
  BY <1>2, <1>12 DEF Delete, vars, clientVars, Followed, NoReplay, At
<1>13. ASSUME NEW w \in Writers, Log(w) \/ Rollback(w) \/ \E ends \in BOOLEAN : Commit(w, ends)
       PROVE  Followed'
  BY <1>2, <1>13 DEF Log, Rollback, Commit, clientVars, Followed, NoReplay, At
<1> QED BY <1>5, <1>6, <1>7, <1>8, <1>9, <1>10, <1>11, <1>12, <1>13 DEF Next, StreamStep

\* Frames come in the order of their ids, over all the connections of a client
\* that comes back with the id it last got (calls.py:377-382, 393, 437).
THEOREM NothingComesTwice == Spec => []NoReplay
<1>1. Init => InOrder
  BY InitTypes, InitOrder DEF InOrder
<1>2. InOrder /\ [Next]_vars => InOrder'
  BY StepTypes, StepOutgoing, StepFollowed DEF InOrder
<1>3. InOrder => NoReplay
  BY DEF InOrder, Followed, NoReplay
<1> QED BY <1>1, <1>2, <1>3, PTL DEF Spec

-----------------------------------------------------------------------------
(* The terminal frame is the last word.  Times are given out in order, and *)
(* a client that stands at an event has every earlier one, except those    *)
(* that were overtaken; the events of a poll continue from there, and what *)
(* is owed with a terminal status is behind the client or in that poll.    *)

Stamped ==
  /\ \A e \in events : e <= clock
  /\ \A w \in Writers : \A e \in pending[w] : e <= clock /\ e \notin events
  /\ \A v, w \in Writers : v # w => pending[v] \cap pending[w] = {}

Covered == Frames(got) \cup overtaken

Heard ==
  /\ conn.after \in {0} \cup events
  /\ lastId \in {0, NoTime} \cup events
  /\ \A e \in events : e <= conn.after => e \in Covered
  /\ lastId # NoTime => \A e \in events : e <= lastId => e \in Covered

InFlight ==
  At("send") =>
    /\ Frames(conn.out) \subseteq events
    /\ \A e \in events : e > conn.after =>
         e \in Frames(conn.out) \cup overtaken \/ \A i \in DOMAIN conn.out : conn.out[i] < e

Owing ==
  /\ conn.owed \subseteq events
  /\ At("send") => \A e \in conn.owed : e <= conn.after \/ e \in Frames(conn.out)

Ended == frame = "terminal" => At("closed") /\ conn.owed \subseteq Covered

Story == exists => Heard /\ InFlight /\ Owing /\ Ended

WholeStory == TypeOK /\ Outgoing /\ Stamped /\ Story

LEMMA InitStory == Init => Stamped /\ Story
BY BoundsAssumption
   DEF Init, Stamped, Story, Heard, InFlight, Owing, Ended, Covered, Frames, Closed, At, Times

LEMMA StepStamped == TypeOK /\ Stamped /\ [Next]_vars => Stamped'
<1> SUFFICES ASSUME TypeOK, Stamped, [Next]_vars PROVE Stamped'
  OBVIOUS
<1> USE BoundsAssumption
<1>1. ASSUME NEW w \in Writers, Log(w) PROVE Stamped'
  <2>1. /\ clock' = clock + 1 /\ clock \in Nat /\ events' = events
        /\ events \subseteq Nat
        /\ pending' = [pending EXCEPT ![w] = @ \cup {clock + 1}]
        /\ pending \in [Writers -> SUBSET Nat]
    BY <1>1 DEF Log, TypeOK, Times
  <2>2. \A v \in Writers : pending'[v] \subseteq pending[v] \cup {clock + 1}
    BY <2>1
  <2>3. \A v \in Writers : v # w => pending'[v] = pending[v]
    BY <2>1
  <2>4. \A v \in Writers : \A e \in pending'[v] : e <= clock' /\ e \notin events'
    <3> SUFFICES ASSUME NEW v \in Writers, NEW e \in pending'[v] PROVE e <= clock' /\ e \notin events'
      OBVIOUS
    <3>1. CASE e \in pending[v]
      BY <2>1, <3>1 DEF Stamped
    <3>2. CASE e = clock + 1
      BY <2>1, <3>2 DEF Stamped
    <3> QED BY <2>2, <3>1, <3>2
  <2>5. \A v \in Writers : clock + 1 \notin pending[v]
    BY <2>1 DEF Stamped
  <2>6. \A u, v \in Writers : u # v => pending'[u] \cap pending'[v] = {}
    BY <2>2, <2>3, <2>5 DEF Stamped
  <2>7. \A e \in events' : e <= clock'
    BY <2>1 DEF Stamped
  <2> QED BY <2>4, <2>6, <2>7 DEF Stamped
<1>2. ASSUME NEW w \in Writers, Rollback(w) PROVE Stamped'
  BY <1>2 DEF Rollback, Stamped, TypeOK
<1>3. ASSUME NEW w \in Writers, NEW ends \in BOOLEAN, Commit(w, ends) PROVE Stamped'
  BY <1>3 DEF Commit, Stamped, TypeOK
<1>4. CASE Delete
  BY <1>4 DEF Delete, Stamped, TypeOK
<1>5. CASE Connect \/ Cut \/ StreamStep \/ UNCHANGED vars
  BY <1>5 DEF Connect, Cut, StreamStep, NotFound, End, ReadStatus, ReadEvents, SendEvent, SendTerminal,
              Sleep, SendTimeout, vars, callVars, Stamped
<1> QED BY <1>1, <1>2, <1>3, <1>4, <1>5 DEF Next

\* A commit brings only events behind which nothing stands, or overtaken ones.
LEMMA CommitTells ==
  ASSUME TypeOK, Outgoing, Stamped, Story, NEW w \in Writers, NEW ends \in BOOLEAN, Commit(w, ends)
  PROVE  Story'
<1> SUFFICES ASSUME exists PROVE (Heard /\ InFlight /\ Owing /\ Ended)'
  BY DEF Commit, Story
<1>1. Heard /\ InFlight /\ Owing /\ Ended
  BY DEF Story
<1>2. /\ conn' = conn /\ got' = got /\ lastId' = lastId /\ frame' = frame
      /\ events \subseteq events' /\ overtaken \subseteq overtaken'
  BY DEF Commit, clientVars
<1>3. ASSUME NEW e \in events', NEW later \in events, later >= e
      PROVE  e \in events \/ e \in overtaken'
  <2> SUFFICES ASSUME e \notin events PROVE e \in overtaken'
    OBVIOUS
  <2>1. e \in pending[w]
    BY DEF Commit
  <2>2. later \in Nat /\ e \in Nat /\ later # e
    BY <2>1, BoundsAssumption DEF TypeOK, Times
  <2>3. later > e
    BY <1>3, <2>2
  <2> QED BY <2>1, <2>3 DEF Commit
<1>4. Covered \subseteq Covered'
  BY <1>2 DEF Covered, Frames
<1>5. overtaken' \subseteq Covered'
  BY DEF Covered
<1>6. events' \subseteq Nat \ {0} /\ conn.after \in Nat /\ lastId \in Nat
  <2>1. TypeOK'
    BY StepTypes DEF Next
  <2> QED BY <2>1, BoundsAssumption, ConnectionFields DEF TypeOK, Times, NoTime
<1>7. Heard'
  <2>1. \A e \in events' : e <= conn.after => e \in Covered'
    <3> SUFFICES ASSUME NEW e \in events', e <= conn.after PROVE e \in Covered'
      OBVIOUS
    <3>1. conn.after \in events
      BY <1>1, <1>6 DEF Heard
    <3>2. e \in events \/ e \in overtaken'
      BY <1>3, <1>6, <3>1
    <3> QED BY <1>1, <1>4, <1>5, <3>2 DEF Heard
  <2>2. ASSUME lastId # NoTime, NEW e \in events', e <= lastId PROVE e \in Covered'
    <3>1. lastId \in events
      BY <1>1, <1>6, <2>2 DEF Heard
    <3>2. e \in events \/ e \in overtaken'
      BY <1>3, <1>6, <2>2, <3>1
    <3> QED BY <1>1, <1>4, <1>5, <2>2, <3>2 DEF Heard
  <2> QED BY <1>1, <1>2, <2>1, <2>2 DEF Heard
<1>8. InFlight'
  <2> SUFFICES ASSUME At("send"), NEW e \in events', e > conn.after,
                      NEW i \in DOMAIN conn.out, ~(conn.out[i] < e)
               PROVE  e \in Frames(conn.out) \cup overtaken'
    BY <1>1, <1>2 DEF InFlight, At
  <2>1. conn.out[i] \in events
    BY <1>1 DEF InFlight, Frames
  <2>2. conn.out[i] >= e
    <3> DEFINE next == conn.out[i]
    <3>1. next \in Nat /\ e \in Nat /\ ~(next < e)
      BY <1>2, <1>6, <2>1
    <3> HIDE DEF next
    <3>2. next >= e
      BY <3>1
    <3> QED BY <3>2 DEF next
  <2>3. e \in events \/ e \in overtaken'
    BY <1>3, <2>1, <2>2
  <2>4. CASE e \in events
    <3>1. \/ e \in Frames(conn.out) \cup overtaken
          \/ \A k \in DOMAIN conn.out : conn.out[k] < e
      BY <1>1, <2>4 DEF InFlight
    <3> QED BY <1>2, <3>1
  <2> QED BY <2>3, <2>4
<1>9. Owing' /\ Ended'
  BY <1>1, <1>2, <1>4 DEF Owing, Ended, At
<1> QED BY <1>7, <1>8, <1>9

\* A frame takes the client to the next event; what it passes was overtaken.
LEMMA FrameTells ==
  ASSUME TypeOK, Outgoing, Story, exists, SendEvent
  PROVE  Story'
<1>1. Heard /\ InFlight /\ Owing /\ Ended /\ At("send")
  BY DEF Story, SendEvent
<1> DEFINE first == conn.out[1]
<1>2. /\ conn'.pc = "send" /\ conn'.after = first /\ conn'.out = Tail(conn.out) /\ conn'.owed = conn.owed
      /\ lastId' = first /\ got' = Append(got, first) /\ first \in Times
      /\ 1 \in DOMAIN conn.out /\ DOMAIN conn.out = 1..Len(conn.out) /\ Len(conn.out) \in Nat
      /\ DOMAIN Tail(conn.out) = 1..Len(conn.out) - 1
      /\ \A i \in DOMAIN Tail(conn.out) : i + 1 \in DOMAIN conn.out /\ Tail(conn.out)[i] = conn.out[i + 1]
  BY FrameSent, ConnectionFields, HeadAndTail
<1>3. events' = events /\ overtaken' = overtaken /\ frame' = frame /\ exists'
  BY DEF SendEvent, callVars
<1>4. Frames(got') = Frames(got) \cup {first}
  <2>1. /\ DOMAIN got = 1..Len(got) /\ Len(got) \in Nat /\ DOMAIN got' = 1..Len(got) + 1
        /\ \A i \in DOMAIN got : got'[i] = got[i]
        /\ got'[Len(got) + 1] = first
    BY <1>2, Appended DEF TypeOK
  <2>2. DOMAIN got' = DOMAIN got \cup {Len(got) + 1}
    BY <2>1
  <2> QED BY <2>1, <2>2 DEF Frames
<1>5. Frames(conn.out) = {first} \cup Frames(Tail(conn.out))
  <2>1. DOMAIN conn.out = {1} \cup {i + 1 : i \in DOMAIN Tail(conn.out)}
    <3>1. \A i \in DOMAIN conn.out : i = 1 \/ (i - 1 \in DOMAIN Tail(conn.out) /\ i = (i - 1) + 1)
      BY <1>2
    <3> QED BY <1>2, <3>1
  <2> QED BY <1>2, <2>1 DEF Frames
<1>6. Covered' = Covered \cup {first}
  BY <1>3, <1>4 DEF Covered
<1> HIDE DEF first
<1>7. /\ first \in Nat /\ conn.after \in Nat /\ events \subseteq Nat /\ conn.owed \subseteq Nat
      /\ \A i \in DOMAIN conn.out : conn.out[i] \in Nat
  BY <1>2, ConnectionFields, BoundsAssumption DEF TypeOK, Times
<1>8. first \in events /\ first > conn.after
  BY <1>1, <1>2, <1>5 DEF InFlight, Outgoing, first
<1>9. \A i \in DOMAIN Tail(conn.out) : first < Tail(conn.out)[i]
  <2> SUFFICES ASSUME NEW i \in DOMAIN Tail(conn.out) PROVE first < Tail(conn.out)[i]
    OBVIOUS
  <2>1. i + 1 \in DOMAIN conn.out /\ 1 < i + 1 /\ 1 \in DOMAIN conn.out /\ Tail(conn.out)[i] = conn.out[i + 1]
    BY <1>2
  <2> QED BY <2>1 DEF Outgoing, first
<1>10. \A e \in Frames(Tail(conn.out)) : e > first
  BY <1>7, <1>9, <1>2 DEF Frames
<1>11. ASSUME NEW e \in events, e <= first PROVE e \in Covered'
  <2>1. CASE e <= conn.after
    BY <1>1, <1>6, <2>1 DEF Heard
  <2>2. CASE e > conn.after
    <3>1. e \in Frames(conn.out) \cup overtaken \/ conn.out[1] < e
      BY <1>1, <1>2, <2>2 DEF InFlight
    <3>2. ~(first < e)
      BY <1>7, <1>11
    <3>3. e \in {first} \cup overtaken
      BY <1>5, <1>7, <1>10, <1>11, <3>1, <3>2 DEF first
    <3> QED BY <1>6, <3>3 DEF Covered
  <2> QED BY <1>7, <2>1, <2>2
<1>12. Heard'
  BY <1>2, <1>3, <1>8, <1>11 DEF Heard, first
<1>13. InFlight'
  <2>1. Frames(conn'.out) \subseteq events'
    BY <1>1, <1>2, <1>3, <1>5 DEF InFlight
  <2>2. ASSUME NEW e \in events, e > first
        PROVE  e \in Frames(conn'.out) \cup overtaken \/ \A i \in DOMAIN conn'.out : conn'.out[i] < e
    <3>1. e > conn.after
      BY <1>7, <1>8, <2>2
    <3>2. e \in Frames(conn.out) \cup overtaken \/ \A i \in DOMAIN conn.out : conn.out[i] < e
      BY <1>1, <3>1 DEF InFlight
    <3>3. e # first
      BY <1>7, <2>2
    <3>4. CASE e \in Frames(conn.out) \cup overtaken
      BY <1>2, <1>5, <3>3, <3>4
    <3>5. CASE \A i \in DOMAIN conn.out : conn.out[i] < e
      BY <1>2, <3>5
    <3> QED BY <3>2, <3>4, <3>5
  <2> QED BY <1>2, <1>3, <2>1, <2>2 DEF InFlight, first
<1>14. Owing'
  <2>1. \A e \in conn.owed : e <= first \/ e \in Frames(Tail(conn.out))
    <3> SUFFICES ASSUME NEW e \in conn.owed PROVE e <= first \/ e \in Frames(Tail(conn.out))
      OBVIOUS
    <3>1. e <= conn.after \/ e = first \/ e \in Frames(Tail(conn.out))
      BY <1>1, <1>5 DEF Owing
    <3> QED BY <1>7, <1>8, <3>1
  <2> QED BY <1>1, <1>2, <1>3, <2>1 DEF Owing, first
<1>15. Ended'
  BY <1>1, <1>2, <1>3 DEF Ended, At
<1> QED BY <1>12, <1>13, <1>14, <1>15 DEF Story

\* The connection is gone, and its client stands where it stood.
LEMMA EndTells ==
  ASSUME TypeOK, Story, NEW kind, NEW id, kind # "terminal", id \in {0, lastId, conn.after}, End(kind, id)
  PROVE  Story'
<1>1. conn' = Closed /\ frame' = kind /\ lastId' = id /\ UNCHANGED <<events, overtaken, exists, got>>
  BY DEF End, callVars
<1>2. conn'.pc = "closed" /\ conn'.after = 0 /\ conn'.owed = {}
  BY <1>1 DEF Closed
<1>3. events \subseteq Nat \ {0}
  BY BoundsAssumption DEF TypeOK, Times
<1>4. exists => Heard'
  BY <1>1, <1>2, <1>3 DEF Story, Heard, Covered, Frames
<1> QED BY <1>1, <1>2, <1>4 DEF Story, InFlight, Owing, Ended, At

LEMMA StepStory == TypeOK /\ Outgoing /\ Stamped /\ Story /\ [Next]_vars => Story'
<1> SUFFICES ASSUME TypeOK, Outgoing, Stamped, Story, [Next]_vars PROVE Story'
  OBVIOUS
<1>1. conn \in Connection /\ events \subseteq Nat \ {0} /\ conn.after \in Nat
  BY BoundsAssumption DEF TypeOK, Connection, Times
<1>2. exists => Heard /\ InFlight /\ Owing /\ Ended
  BY DEF Story
<1>3. ASSUME NEW w \in Writers, Log(w) \/ Rollback(w) PROVE Story'
  BY <1>2, <1>3 DEF Log, Rollback, clientVars, Story, Heard, InFlight, Owing, Ended, Covered, Frames, At
<1>4. ASSUME NEW w \in Writers, NEW ends \in BOOLEAN, Commit(w, ends) PROVE Story'
  BY <1>4, CommitTells
<1>5. CASE Delete
  BY <1>5 DEF Delete, Story
<1>6. CASE Connect
  <2>1. /\ conn'.pc = "status" /\ conn'.owed = {} /\ frame' = "none"
        /\ conn'.after = IF lastId = NoTime THEN 0 ELSE lastId
    BY <1>6 DEF Connect, Closed
  <2>2. UNCHANGED <<events, overtaken, exists, got, lastId>>
    BY <1>6 DEF Connect, callVars
  <2>3. exists => Heard'
    BY <1>1, <1>2, <2>1, <2>2 DEF Heard, Covered, Frames
  <2> QED BY <2>1, <2>2, <2>3 DEF Story, InFlight, Owing, Ended, At
<1>7. CASE NotFound
  BY <1>7, EndTells DEF NotFound
<1>8. CASE SendTimeout
  BY <1>8, EndTells DEF SendTimeout
<1>9. CASE Cut
  BY <1>9, EndTells DEF Cut
<1>10. CASE ReadStatus
  <2>1. conn'.pc = "events" /\ conn'.owed = events /\ conn'.after = conn.after
    BY <1>1, <1>10 DEF ReadStatus, Connection
  <2>2. UNCHANGED <<events, overtaken, exists, got, lastId, frame>> /\ At("status")
    BY <1>10 DEF ReadStatus, callVars, clientVars
  <2>3. exists => Heard'
    BY <1>2, <2>1, <2>2 DEF Heard, Covered, Frames
  <2> QED BY <1>2, <2>1, <2>2, <2>3 DEF Story, InFlight, Owing, Ended, At
<1>11. CASE ReadEvents
  <2>1. /\ conn'.pc = "send" /\ conn'.after = conn.after /\ conn'.owed = conn.owed
        /\ Frames(conn'.out) = {e \in events : e > conn.after}
    BY <1>11, EventsRead
  <2>2. UNCHANGED <<events, overtaken, exists, got, lastId, frame>> /\ At("events")
    BY <1>11 DEF ReadEvents, callVars, clientVars
  <2>3. exists => Heard'
    BY <1>2, <2>1, <2>2 DEF Heard, Covered, Frames
  <2>4. InFlight'
    BY <2>1, <2>2 DEF InFlight
  <2>5. exists => Owing'
    <3>1. \A e \in events : e <= conn.after \/ e > conn.after
      BY <1>1
    <3>2. exists => \A e \in conn.owed : e <= conn.after \/ e \in Frames(conn'.out)
      BY <1>2, <2>1, <3>1 DEF Owing
    <3> QED BY <1>2, <2>1, <2>2, <3>2 DEF Owing
  <2>6. exists => Ended'
    BY <1>2, <2>2 DEF Ended, At
  <2> QED BY <2>2, <2>3, <2>4, <2>5, <2>6 DEF Story
<1>12. CASE SendEvent
  <2>1. CASE exists
    BY <1>12, <2>1, FrameTells
  <2>2. CASE ~exists
    BY <1>12, <2>2 DEF SendEvent, callVars, Story
  <2> QED BY <2>1, <2>2
<1>13. CASE SendTerminal
  <2>1. conn'.pc = "closed" /\ conn'.after = 0 /\ conn'.owed = conn.owed /\ lastId' = NoTime
    BY <1>13 DEF SendTerminal, Closed
  <2>2. UNCHANGED <<events, overtaken, exists, got>> /\ At("send") /\ conn.out = <<>>
    BY <1>13 DEF SendTerminal, callVars
  <2>3. exists => Heard'
    BY <1>1, <2>1, <2>2 DEF Heard
  <2>4. exists => conn.owed \subseteq Covered
    BY <1>2, <2>2 DEF Owing, Heard, Frames
  <2>5. exists => Owing' /\ Ended'
    BY <1>2, <2>1, <2>2, <2>4 DEF Owing, Ended, At, Covered, Frames
  <2> QED BY <2>1, <2>2, <2>3, <2>5 DEF Story, InFlight, At
<1>14. CASE Sleep
  <2>1. conn'.pc \in {"status", "budget"} /\ conn'.owed = {} /\ conn'.after = conn.after
    BY <1>1, <1>14 DEF Sleep, Connection
  <2>2. UNCHANGED <<events, overtaken, exists, got, lastId, frame>> /\ At("send")
    BY <1>14 DEF Sleep, callVars, clientVars
  <2>3. exists => Heard'
    BY <1>2, <2>1, <2>2 DEF Heard, Covered, Frames
  <2> QED BY <1>2, <2>1, <2>2, <2>3 DEF Story, InFlight, Owing, Ended, At
<1>15. CASE UNCHANGED vars
  BY <1>2, <1>15 DEF vars, callVars, clientVars, Story, Heard, InFlight, Owing, Ended, Covered, Frames, At
<1> QED BY <1>3, <1>4, <1>5, <1>6, <1>7, <1>8, <1>9, <1>10, <1>11, <1>12, <1>13, <1>14, <1>15
        DEF Next, StreamStep

\* When the terminal frame comes, the client has all that was committed with the
\* terminal status or before it, but for what was committed after a later-stamped
\* event (calls.py:387-394, 409).
THEOREM TerminalIsLast == Spec => []TheEndIsHeard
<1>1. Init => WholeStory
  BY InitTypes, InitOrder, InitStory DEF WholeStory
<1>2. WholeStory /\ [Next]_vars => WholeStory'
  BY StepTypes, StepOutgoing, StepStamped, StepStory DEF WholeStory
<1>3. WholeStory => TheEndIsHeard
  BY DEF WholeStory, Story, Ended, TheEndIsHeard, Covered, Frames
<1> QED BY <1>1, <1>2, <1>3, PTL DEF Spec
=============================================================================
