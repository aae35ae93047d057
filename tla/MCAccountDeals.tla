---------------------------- MODULE MCAccountDeals ----------------------------
(* Three calls of accounts whose names match in different ways.            *)
EXTENDS AccountDeals

Risk(title, rank) == [title |-> title, rank |-> rank, confidence |-> 1]

MCAnalyses ==
  { [signals |-> [x \in {"pain_identified", "blocker_active"} |-> "present"],
     risks   |-> {Risk("security", 2)}],
    [signals |-> [x \in {"pain_identified"} |-> "weak"],
     risks   |-> {Risk("budget", 1), Risk("security", 2)}] }
=============================================================================
