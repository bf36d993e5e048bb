----------------------------- MODULE MCFeedback -----------------------------
(* An instance of FeedbackLoop for TLC. *)
EXTENDS FeedbackLoop

CONSTANTS p1, p2

MCProcesses == {p1, p2}
MCRouters == {p1}

MCOrder == <<"query_data", "structured_multistep:gate", "text2cypher">>
MCAnswered ==
    [q \in {"q1", "q2"} |-> [agent |-> "structured", mode |-> "text2cypher", tool |-> "query_data"]]
\* Users say that the first answer is right; the second only opens a new file.
MCVotes == [q \in {"q1", "q2"} |-> IF q = "q1" THEN {"passed"} ELSE {}]

\* StructuredPathPolicy
MCPolicies == {<<"retrieval_mode", "structured">>}
=============================================================================
