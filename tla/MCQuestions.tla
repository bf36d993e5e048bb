----------------------------- MODULE MCQuestions -----------------------------
(* An instance of QuestionAnswering for TLC. *)
EXTENDS QuestionAnswering

CONSTANTS r1, r2, old, new, idle1, idle2, idle3, worker1, worker2

MCRequests == {r1, r2}
MCIdle == <<old, idle1, idle2, idle3>>
MCOpenThreads == {old, new}
MCThreads == {new} \cup {old, idle1, idle2, idle3}
MCPoolThreads == {worker1, worker2}
MCSymmetry == Permutations(MCRequests) \cup Permutations(MCPoolThreads)

Question(mode, cues, areas) ==
    {[via |-> v, mode |-> mode, cues |-> cues, areas |-> areas] : v \in {"query", "stream"}}

\* The combinations that the gate, the guard and the reroutes tell apart.
MCProfiles == UNION {
    Question("data", {"data"}, {"docs"}), Question("data", {}, {"docs"}),
    Question("data", {"data"}, {"docs", "data"}),
    Question("docs", {"data"}, {"docs"}), Question("docs", {"data"}, {"data"}),
    Question("docs", {"data"}, {"docs", "data"}), Question("docs", {"docs"}, {"data"}),
    Question("hybrid", {}, {"docs"})}

\* For liveness: one conversation, and the questions that wait for something.
MCOneThread == {old}
MCWaiting ==
    Question("hybrid", {}, {"docs"}) \cup Question("docs", {"data"}, {"docs", "data"})
    \cup {[via |-> "query", mode |-> "data", cues |-> {}, areas |-> {"docs"}]}
==============================================================================
