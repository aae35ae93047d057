------------------------ MODULE MCTranscriptAnalysis ------------------------
(* Small calls for TranscriptAnalysis: three segments around every bound of  *)
(* a pause, three speakers with every mix of cues, and a call in which       *)
(* nobody is heard.                                                          *)
EXTENDS TranscriptAnalysis

Seg(speaker, start, length, cues, chars) ==
  [speaker |-> speaker, start |-> start, end |-> start + length, cues |-> cues, chars |-> chars]

\* Pauses just under and over the limits, and an interruption.
Pauses == {-600, 500, 501, 1501, 2001}

Timed(p, q, who, length, size) ==
  LET second == 1000 + p IN
  << Seg("a", 0, 1000, {}, 2),
     Seg(who[1], second, length, {"i'll send"}, 2),
     Seg(who[2], second + length + q, 800, {}, size) >>

Whose == {<<"a", "a">>, <<"a", "b">>, <<"b", "a">>}

\* The last two: a segment spoken inside another, and a full chunk.
TimedCalls ==
  { Timed(p, q, who, 300, 1) : p \in Pauses, q \in Pauses, who \in Whose }
  \cup { Timed(-600, q, who, 2600, 1) : q \in {-600, 500}, who \in Whose }
  \cup { Timed(500, 500, <<"a", "a">>, 300, 3) }

Cues == {{}, {"our product"}, {"our budget"}}

SpokenCalls ==
  { << Seg("a", 0, 1000, c[1], 1), Seg("b", 1000, 1000, c[2], 1), Seg("c", 2000, 1000, c[3], 1) >> :
      c \in Cues \X Cues \X Cues }

Call(s, outbound, stereo, channel, form) ==
  [segs |-> s, outbound |-> outbound, stereo |-> stereo, channel |-> channel, sellerChannel |-> 0, form |-> form]

Mono == [s \in {"a", "b", "c"} |-> NoChannel]

OneCall == <<Seg("a", 0, 1000, {}, 1), Seg("b", 1000, 1000, {}, 1), Seg("c", 2000, 1000, {}, 1)>>

MCCalls ==
  { Call(s, FALSE, FALSE, Mono, "scored") : s \in TimedCalls }
  \cup { Call(s, outbound, FALSE, Mono, "scored") : s \in SpokenCalls, outbound \in BOOLEAN }
  \cup { Call(OneCall, FALSE, TRUE, channel, "scored") : channel \in [{"a", "b", "c"} -> {0, 1, NoChannel}] }
  \cup { Call(OneCall, FALSE, FALSE, Mono, form) : form \in AxisForms }
  \cup { Call(<<>>, TRUE, FALSE, Mono, "scored") }
=============================================================================
