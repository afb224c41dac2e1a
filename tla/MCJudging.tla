------------------------------- MODULE MCJudging -------------------------------
(* Judging for TLC: the calls are interchangeable. *)
EXTENDS Judging, TLC

CONSTANTS host, judge, winner

MCVerdicts ==
    {[status |-> "accepted", score |-> 1], [status |-> "winner", score |-> 2],
     [status |-> "winner", score |-> NoScore], [status |-> "rejected", score |-> NoScore]}
MCSubmissions == <<winner, judge>>
MCJudgeLists == {{judge}, {winner}}

Symmetry == Permutations(Calls)

===============================================================================
