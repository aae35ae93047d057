------------------------------- MODULE MLRows -------------------------------
(***************************************************************************)
(* The ML client (src/app/ml/__init__.py): what it makes of the rows that  *)
(* answer one request, and of the axes in an emotion row.                  *)
(*                                                                         *)
(* A row is the id it carries, a position in the request or NoId, and the  *)
(* text it scores: [id, of], of = 0 for a row that scores none of them.    *)
(***************************************************************************)
EXTENDS Integers, Sequences

NoId == -1

\* An answer is refused as a whole: no rows at all.
Invalid == <<>>

\* An answer that is one object, taken as the single row of itself.
Envelope == [id |-> NoId, of |-> 0]

\* _as_items: no list, or an empty one, leaves the envelope; too few rows are
\* refused, too many cut off at the end.
AsItems(answer, expected) ==
  LET items == IF answer = <<>> THEN <<Envelope>> ELSE answer IN
  IF Len(items) < expected THEN Invalid ELSE SubSeq(items, 1, expected)

\* The ids of a request are the positions in it, from 0.
Wanted(expected) == 0..expected - 1
Carried(items) == {items[i].id : i \in DOMAIN items}

\* The last row that carries an id: a dict keeps the last.
RowOf(items, id) ==
  items[CHOOSE i \in DOMAIN items :
          items[i].id = id /\ \A j \in DOMAIN items : items[j].id = id => j <= i]

\* Mutant of AlignedRows: responses are taken in the order they come.
AlignedRowsByPosition(answer, expected) == AsItems(answer, expected)

\* _aligned_rows: by id if every id is there, else in the order of the answer.
AlignedRows(answer, expected) ==
  LET items == AsItems(answer, expected) IN
  IF items = Invalid THEN Invalid
  ELSE IF Wanted(expected) \subseteq Carried(items)
    THEN [i \in 1..expected |-> RowOf(items, i - 1)]
    ELSE items

\* The answers a service that scores what it is sent may give to n texts.
InOrder(n)  == [i \in 1..n |-> [id |-> i - 1, of |-> i]]
Reversed(n) == [i \in 1..n |-> [id |-> n - i, of |-> n + 1 - i]]
NoIds(rows) == [i \in DOMAIN rows |-> [rows[i] EXCEPT !.id = NoId]]

HonestAnswers(n) == {InOrder(n), Reversed(n), NoIds(InOrder(n))}

\* Answers the client cannot tell apart from honest ones: rows without ids out
\* of order, one id missing, one row too many in front, an empty list.
MisleadingAnswers(n) ==
  { NoIds(Reversed(n)),
    [Reversed(n) EXCEPT ![1].id = NoId],
    <<[id |-> n, of |-> 0]>> \o InOrder(n),
    <<>> }

ShortAnswers(n) == {SubSeq(InOrder(n), 1, n - 1)}

-----------------------------------------------------------------------------
\* An axis of an emotion row: scored, scored and flat, flagged as unavailable,
\* flagged with scores all the same, or left out.
AxisForms == {"scored", "flat", "flagged", "flagged with scores", "missing"}

\* Mutant of ParseAxis: an axis that is not there is a flat one.
ParseAxisMissingIsFlat(form) ==
  LET unavailable == form \in {"flagged", "flagged with scores"}
  IN [unavailable |-> unavailable, scores |-> form \in {"scored", "flagged with scores"} /\ ~unavailable]

\* _parse_emotion_axes, one axis: whether it is unavailable, and has scores.
ParseAxis(form) ==
  LET unavailable == form \in {"flagged", "flagged with scores", "missing"}
  IN [unavailable |-> unavailable, scores |-> form \in {"scored", "flagged with scores"} /\ ~unavailable]

\* valence(): None where the axis was not scored.
Valence(axis) == IF axis.unavailable THEN "none" ELSE IF axis.scores THEN "signed" ELSE "zero"
=============================================================================
