--------------------------- MODULE JudgingScores ---------------------------
(***************************************************************************)
(* What judging.service.ts computes from the judges' scores it keeps in    *)
(* memory: the normalized score and the ranking.  That the record and the  *)
(* submission are written apart is left to module Judging.  Means are      *)
(* fractions <<sum, count>>.                                               *)
(***************************************************************************)
EXTENDS Integers, Sequences, FiniteSets

CONSTANTS
    Submissions,         \* the winners, which is what findByEvent lists when it is given
                         \* no address, numbered in its order
    Scores, MaxCalls     \* the scores given, of 0 .. 100; bound on scoring calls

VARIABLES
    judgeScores,    \* of every submission: the scores, in the order of its judges
    score,          \* the score saved with every submission, or NoScore
    called          \* scoring calls so far

vars == <<judgeScores, score, called>>

NoScore == -1

Init ==
    /\ judgeScores = [s \in Submissions |-> <<>>]
    /\ score = [s \in Submissions |-> NoScore] /\ called = 0

-----------------------------------------------------------------------------
\* recordJudgeScore and the save: the i-th judge of the submission scores (again).
Score(s, i, x) ==
    /\ called < MaxCalls /\ called' = called + 1
    /\ i <= Len(judgeScores[s]) + 1
    /\ judgeScores' = [judgeScores EXCEPT ![s] =
                         IF i <= Len(@) THEN [@ EXCEPT ![i] = x] ELSE Append(@, x)]
    /\ score' = [score EXCEPT ![s] = x]

\* clearScores of one submission or of all.
ClearScores(ss) ==
    /\ \E s \in ss : judgeScores[s] # <<>>
    /\ judgeScores' = [s \in Submissions |-> IF s \in ss THEN <<>> ELSE judgeScores[s]]
    /\ UNCHANGED <<score, called>>

Next ==
    \/ \E s \in Submissions, i \in 1 .. MaxCalls, x \in Scores : Score(s, i, x)
    \/ \E s \in Submissions : ClearScores({s})
    \/ ClearScores(Submissions)

Spec == Init /\ [][Next]_vars

-----------------------------------------------------------------------------
\* Of the scores in order, x is the k-th.
Smallest(xs, x, k) ==
    /\ Cardinality({j \in DOMAIN xs : xs[j] < x}) < k
    /\ Cardinality({j \in DOMAIN xs : xs[j] <= x}) >= k
Sorted(xs) == [k \in DOMAIN xs |-> CHOOSE x \in {xs[j] : j \in DOMAIN xs} : Smallest(xs, x, k)]

\* reduce, and the mean, of the scores at the places S.
Total(xs, S) ==
    LET sum[i \in 0 .. Len(xs)] ==
          IF i = 0 THEN 0 ELSE sum[i - 1] + (IF i \in S THEN xs[i] ELSE 0)
    IN  sum[Len(xs)]
Mean(xs, S) == <<Total(xs, S), Cardinality(S)>>

\* Mutant: the upper quartile is one place too high.
UpperQuartile(xs) ==
    LET at == (3 * Len(xs)) \div 4 + 2 IN Sorted(xs)[IF at <= Len(xs) THEN at ELSE Len(xs)]
Q1(xs) == Sorted(xs)[Len(xs) \div 4 + 1]
Q3(xs) == Sorted(xs)[(3 * Len(xs)) \div 4 + 1]

\* The places of what is within one and a half times the distance of the quartiles.
Filtered(xs) ==
    LET iqr == Q3(xs) - Q1(xs)
    IN  {i \in DOMAIN xs : /\ 2 * xs[i] >= 2 * Q1(xs) - 3 * iqr
                           /\ 2 * xs[i] <= 2 * Q3(xs) + 3 * iqr}

\* calculateNormalizedScore, of at least one score.
NormalizedScore(xs) ==
    Mean(xs, IF Len(xs) < 3 \/ Filtered(xs) = {} THEN DOMAIN xs ELSE Filtered(xs))

\* The score that rankSubmissions sorts by: a normalized score of 0 counts as none.
RankedScore(s) ==
    LET saved == IF score[s] = NoScore THEN <<0, 1>> ELSE <<score[s], 1>>
    IN  IF judgeScores[s] = <<>> THEN saved
        ELSE IF NormalizedScore(judgeScores[s])[1] = 0 THEN saved
        ELSE NormalizedScore(judgeScores[s])

Higher(p, q) == p[1] * q[2] > q[1] * p[2]

\* The sort is stable.
Rank(s) ==
    1 + Cardinality({t \in Submissions :
          \/ Higher(RankedScore(t), RankedScore(s))
          \/ t < s /\ ~Higher(RankedScore(s), RankedScore(t))})

-----------------------------------------------------------------------------
TypeOK ==
    /\ judgeScores \in [Submissions -> Seq(Scores)]
    /\ score \in [Submissions -> Scores \cup {NoScore}] /\ called \in 0 .. MaxCalls

\* One judge differs from all the others, who agree.
Dissents(xs, i) ==
    \A j, k \in DOMAIN xs \ {i} : xs[j] = xs[k] /\ xs[j] # xs[i]

\* When he counts for nothing: among five or more, and among four if he is below them.
LeftOut(xs, i) ==
    \/ Len(xs) >= 5
    \/ Len(xs) = 4 /\ \A j \in DOMAIN xs \ {i} : xs[i] < xs[j]

EverybodyCounts(xs) == NormalizedScore(xs) = Mean(xs, DOMAIN xs)

\* "Remove outliers": from five judges on, one judge who differs from all the others has
\* no part in the normalized score, whichever judge it is and however he scored before.
\* Among four he has none when he is below the others and all of his part when he is
\* above, since the upper quartile is then his own score; and of up to three judges
\* nobody is ever left out, whatever they say.
DissenterIsOutvoted ==
    \A s \in Submissions :
        LET xs == judgeScores[s]
        IN  /\ Len(xs) <= 3 => EverybodyCounts(xs)
            /\ \A i \in DOMAIN xs : Dissents(xs, i) =>
                 IF LeftOut(xs, i)
                 THEN \A j \in DOMAIN xs \ {i} :
                        NormalizedScore(xs)[1] = xs[j] * NormalizedScore(xs)[2]
                 ELSE EverybodyCounts(xs)

\* Ranks are a numbering of the submissions, and no judged submission is placed behind one
\* whose normalized score is lower, unless one of them is 0.
RankingFollowsScores ==
    /\ {Rank(s) : s \in Submissions} = 1 .. Cardinality(Submissions)
    /\ \A s, t \in Submissions :
         judgeScores[s] # <<>> /\ judgeScores[t] # <<>> =>
            LET a == NormalizedScore(judgeScores[s])
                b == NormalizedScore(judgeScores[t])
            IN  a[1] # 0 /\ b[1] # 0 /\ Higher(a, b) => Rank(s) < Rank(t)

=============================================================================
