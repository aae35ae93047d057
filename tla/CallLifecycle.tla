--------------------------- MODULE CallLifecycle ---------------------------
(***************************************************************************)
(* What a client is promised of one call, without workers, queue or        *)
(* retries: the phases of docs/ARCHITECTURE.md:219-221, the report that    *)
(* stands behind a finished call, and that the analysis in it is of the    *)
(* transcript and the speaker roles the client can see.                    *)
(***************************************************************************)
VARIABLES
  phase,      \* how far the call is
  published,  \* the outcome stamped in the stored report, or none
  current     \* the latest analysis is of the stored transcript and roles

lifecycle == <<phase, published, current>>

Outcomes == {"SHIPPED", "PARTIAL"}

Init == phase = "new" /\ published = "none" /\ current = TRUE

\* A recording is there and the call waits for a worker.
Submit ==
  /\ phase = "new"
  /\ phase' = "pending"
  /\ UNCHANGED <<published, current>>

Start ==
  /\ phase = "pending"
  /\ phase' = "working"
  /\ UNCHANGED <<published, current>>

\* While it is worked on, a call gets a transcript, analyses and reports.
Work ==
  /\ phase = "working"
  /\ phase' = phase
  /\ published' \in Outcomes \cup {published}
  /\ current' \in BOOLEAN

\* The work starts over without a transcript.
StartOver ==
  /\ phase = "working"
  /\ phase' = "pending"
  /\ UNCHANGED <<published, current>>

\* The call finishes the way its report says, on a current analysis.
Finish ==
  /\ phase = "working"
  /\ published \in Outcomes
  /\ current
  /\ phase' = published
  /\ UNCHANGED <<published, current>>

Fail ==
  /\ phase \in {"pending", "working"}
  /\ phase' = "failed"
  /\ UNCHANGED <<published, current>>

\* A retry or a request takes up a failed call again; only a request or a
\* second look takes up a finished one, and new roles outdate its analysis.
TakeUp ==
  /\ \/ phase = "failed" /\ phase' \in {"pending", "working"}
     \/ phase \in Outcomes /\ phase' = "working"
  /\ current' \in BOOLEAN
  /\ UNCHANGED published

\* Roles corrected on a call that is not finished.
Correct ==
  /\ phase \notin Outcomes
  /\ current' \in BOOLEAN
  /\ UNCHANGED <<phase, published>>

Cancel ==
  /\ phase \in {"new", "pending", "working"}
  /\ phase' = "cancelled"
  /\ UNCHANGED <<published, current>>

Next == \/ Submit \/ Start \/ Work \/ StartOver \/ Finish \/ Fail \/ TakeUp
        \/ Correct \/ Cancel

Spec == Init /\ [][Next]_lifecycle
=============================================================================
