----------------------------- MODULE CallState -----------------------------
(***************************************************************************)
(* The call state machine of src/app/pipeline/state.py, as pure operators. *)
(*                                                                         *)
(* A call row keeps the columns the pipeline reads back: its status, the   *)
(* terminal outcome and failure kind recorded by the last terminal         *)
(* transition, and whether a PyAI job id is stored.  Timestamps, names and *)
(* media columns are left out.                                             *)
(***************************************************************************)

CallStatus == {"CREATED", "UPLOADING", "QUEUED", "TRANSCRIBING",
               "WAITING_FOR_RECAP", "ANALYZING", "VALIDATING", "INDEXING",
               "BUILDING_REPORT", "SHIPPED", "PARTIAL", "FAILED", "CANCELLED"}

TERMINAL_CALL_STATUSES == {"SHIPPED", "PARTIAL", "FAILED", "CANCELLED"}

FailureKind == {"INFRASTRUCTURE", "TRANSCRIPTION", "RECAP", "ML_INFERENCE",
                "VALIDATION", "STORAGE", "DATABASE", "USER_INPUT"}

\* The transition table.
ALLOWED ==
  [ CREATED           |-> {"UPLOADING", "QUEUED", "CANCELLED", "FAILED"},
    UPLOADING         |-> {"QUEUED", "FAILED", "CANCELLED"},
    QUEUED            |-> {"TRANSCRIBING", "CANCELLED", "FAILED"},
    TRANSCRIBING      |-> {"WAITING_FOR_RECAP", "ANALYZING", "FAILED", "CANCELLED"},
    WAITING_FOR_RECAP |-> {"ANALYZING", "PARTIAL", "FAILED", "CANCELLED"},
    ANALYZING         |-> {"VALIDATING", "FAILED", "CANCELLED"},
    VALIDATING        |-> {"INDEXING", "FAILED", "CANCELLED"},
    INDEXING          |-> {"BUILDING_REPORT", "FAILED", "CANCELLED"},
    BUILDING_REPORT   |-> {"SHIPPED", "PARTIAL", "FAILED"},
    SHIPPED           |-> {"ANALYZING"},
    PARTIAL           |-> {"ANALYZING", "QUEUED"},
    FAILED            |-> {"QUEUED", "ANALYZING"},
    CANCELLED         |-> {} ]

\* A column that was never written.
None == "none"

CallRow == [ status  : CallStatus,
             outcome : TERMINAL_CALL_STATUSES \cup {None},
             failure : FailureKind \cup {None},
             job     : BOOLEAN ]

NewCall == [status |-> "CREATED", outcome |-> None, failure |-> None, job |-> FALSE]

\* transition() returns without raising: staying put is legal except in a
\* terminal state, where only the listed successors are.
Legal(current, target) ==
  \/ target \in ALLOWED[current]
  \/ target = current /\ current \notin TERMINAL_CALL_STATUSES

\* Mutant of Moved: every transition stamps the outcome.
MovedStampsAlways(call, target, kind) ==
  [ status  |-> target,
    outcome |-> target,
    failure |-> IF target \in TERMINAL_CALL_STATUSES /\ kind # None
                  THEN kind ELSE call.failure,
    job     |-> call.job ]

\* The row transition() leaves behind.  Terminal targets stamp the outcome and,
\* when a kind is given, the failure kind; nothing ever clears either.
Moved(call, target, kind) ==
  [ status  |-> target,
    outcome |-> IF target \in TERMINAL_CALL_STATUSES THEN target ELSE call.outcome,
    failure |-> IF target \in TERMINAL_CALL_STATUSES /\ kind # None
                  THEN kind ELSE call.failure,
    job     |-> call.job ]

\* The UPDATE a session flushes: a column is written only where the in-memory
\* object differs from what the session last loaded or flushed.
Flushed(row, loaded, new) ==
  [ status  |-> IF new.status  # loaded.status  THEN new.status  ELSE row.status,
    outcome |-> IF new.outcome # loaded.outcome THEN new.outcome ELSE row.outcome,
    failure |-> IF new.failure # loaded.failure THEN new.failure ELSE row.failure,
    job     |-> IF new.job     # loaded.job     THEN new.job     ELSE row.job ]
=============================================================================
