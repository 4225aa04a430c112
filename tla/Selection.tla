----------------------------- MODULE Selection -----------------------------
(***************************************************************************)
(* Choosing a winner: the research commands of src/trade/cli/research.py   *)
(* and scripts/funding_ablation.py, which evaluate experiments one after   *)
(* the other (src/trade/research/runner.py, matrix.py, ablation.py,        *)
(* sweep.py), score and gate each on its folds (robustness.py), and rank   *)
(* or compare them (leaderboard.py, ablation.py).                          *)
(*                                                                         *)
(* A fold's report is what its walk-forward replay measured; the           *)
(* consistency score of a list of reports is a parameter.  Numbers are     *)
(* small integers; a share of folds is in percent.                         *)
(***************************************************************************)
EXTENDS Integers, FiniteSets, Sequences, SequencesExt

CONSTANTS
    Reports,      \* reports a replay can give: [fills, cas, dd, turnover]
    NFolds,       \* splits of the history
    NCells,       \* cells of a matrix, experiments in a directory, arms
    Sweeps,       \* lists of thresholds
    Gates,        \* maxDd, minPositive, minTraded, minFills, maxTurnover
    Score(_)      \* consistency_score of a list of reports

ASSUME SelectionAssumption ==
    /\ Reports \subseteq [fills : Nat, cas : Int, dd : Nat, turnover : Nat]
    /\ NFolds \in Nat \ {0}
    /\ NCells \in Nat \ {0}
    /\ Sweeps \subseteq Seq(Nat) \ {<<>>}
    /\ Gates \in [maxDd : Nat, minPositive : 0..100, minTraded : Nat,
                  minFills : Nat, maxTurnover : Nat]
    /\ \A rs \in SeqOf(Reports, NFolds) : Score(rs) \in Int
    /\ Score(<<>>) = 0

VARIABLES
    command,     \* "none", or what is being done: see Commands
    thetas,      \* the thresholds of a sweep
    rows,        \* what has been evaluated so far, one row for each cell
    ran,         \* history: what each evaluation really gave
    published,   \* what was reported last: rows, in the order reported
    chosen       \* the threshold recommended by the last sweep, 0 for none

vars == <<command, thetas, rows, ran, published, chosen>>

----------------------------------------------------------------------------
\* compute_robustness
Traded(rs) == Cardinality({i \in DOMAIN rs : rs[i].fills > 0})
Positive(rs) == Cardinality({i \in DOMAIN rs : rs[i].cas > 0})
Greatest(S) == CHOOSE m \in S : \A n \in S : n <= m
WorstDd(rs) == Greatest({0} \cup {rs[i].dd : i \in DOMAIN rs})
Turnover(rs) == FoldLeft(LAMBDA sum, r : sum + r.turnover, 0, rs)

TradedEnough(rs) == Traded(rs) >= Gates.minTraded

\* evaluate_gates.  The share of positive folds, and the mean turnover, of no
\* folds are 0.
Passes(rs) ==
    /\ WorstDd(rs) <= Gates.maxDd
    /\ 100 * Positive(rs) >= Gates.minPositive * Len(rs)
    /\ rs = <<>> => Gates.minPositive = 0
    /\ TradedEnough(rs)
    /\ Turnover(rs) <= Gates.maxTurnover * Len(rs)
    /\ \A i \in DOMAIN rs : rs[i].fills = 0 \/ rs[i].fills >= Gates.minFills

Row(cell, rs, passed) ==
    [cell |-> cell, passed |-> passed, score |-> Score(rs), dd |-> WorstDd(rs)]

\* run_experiment's gate, and that of _placeholder_result for one that raised.
Passed(outcome) == outcome.end = "evaluated" /\ Passes(outcome.folds)

\* Mutant: the row of a cell is filed under the cell before it.
RowOneBefore(cell, outcome) == Row(cell - 1, outcome.folds, Passed(outcome))

RowOf(cell, outcome) == Row(cell, outcome.folds, Passed(outcome))

\* Best score first, whether or not the gates are passed.
ByScore(r, s) == r.score > s.score

\* A result file that cannot be read, and its evaluation.
Torn == Row(0, <<>>, FALSE)
NotRun == [end |-> "crashed", folds |-> <<>>]

\* rank_matrix and leaderboard.rank.
Before(r, s) ==
    \/ r.passed /\ ~s.passed
    \/ r.passed = s.passed /\ r.score > s.score

\* The rows of some cells in some order, by rank, and by score alone.  What
\* breaks a tie is left out: rows of the same rank come in any order.
Listings(cells) ==
    LET places == 1..Cardinality(cells)
    IN  {[i \in places |-> rows[p[i]]] : p \in Bijection(places, cells)}

Ranked(cells) ==
    {r \in Listings(cells) : \A i, j \in DOMAIN r : Before(r[i], r[j]) => i < j}

RankedByScore(cells) ==
    {r \in Listings(cells) : \A i, j \in DOMAIN r : ByScore(r[i], r[j]) => i < j}

\* What an experiment can give: a report of each fold with a usable label.
Outcomes == [end : {"evaluated"}, folds : SeqOf(Reports, NFolds)]
              \cup [end : {"crashed", "no splits"}, folds : {<<>>}]

\* A row of an ablation: does its gate differ from the baseline's?
Compared(row, base) == [row |-> row, crossed |-> row.passed # base.passed]

----------------------------------------------------------------------------
Commands == {"session", "matrix", "ablation", "funding", "sweep"}

Init ==
    /\ command = "none"
    /\ thetas = <<>>
    /\ rows = <<>>
    /\ ran = <<>>
    /\ published = <<>>
    /\ chosen = 0

Begin(c, ts) ==
    /\ command = "none"
    /\ command' = c
    /\ thetas' = ts
    /\ rows' = <<>>
    /\ ran' = <<>>
    /\ published' = <<>>
    /\ chosen' = 0

\* A command that raises, or is killed, before it wrote its report.
Fail ==
    /\ command # "none"
    /\ command' = "none"
    /\ UNCHANGED <<thetas, rows, ran, published, chosen>>

Evaluate(row, outcome) ==
    /\ Len(rows) < NCells
    /\ rows' = Append(rows, row)
    /\ ran' = Append(ran, outcome)
    /\ UNCHANGED <<command, thetas, published, chosen>>

Report(rs) ==
    /\ published' = rs
    /\ command' = "none"
    /\ UNCHANGED <<thetas, rows, ran, chosen>>

(***************************************************************************)
(* research run: one experiment, whose file is named for its specification *)
(* and replaces that of an earlier run; one that raises writes none.  A    *)
(* process killed while it writes leaves a file that cannot be read.       *)
(***************************************************************************)
RunExperiment(cell, outcome) ==
    /\ command = "session"
    /\ cell <= Len(rows) + 1
    /\ outcome.end # "crashed"
    /\ LET put(s, v) == IF cell \in DOMAIN s THEN [s EXCEPT ![cell] = v] ELSE Append(s, v)
       IN  \/ rows' = put(rows, RowOf(cell, outcome)) /\ ran' = put(ran, outcome)
           \/ rows' = put(rows, Torn) /\ ran' = put(ran, NotRun)
    /\ published' = <<>>
    /\ UNCHANGED <<command, thetas, chosen>>

\* research rank: the leaderboard of the files that can be read.
RankDirectory ==
    /\ command = "session"
    /\ \E i \in DOMAIN rows : rows[i] # Torn
    /\ published' \in Ranked({i \in DOMAIN rows : rows[i] # Torn})
    /\ UNCHANGED <<command, thetas, rows, ran, chosen>>

\* research matrix: an exception becomes the row of its cell.
EvaluateCell(outcome) ==
    /\ command = "matrix"
    /\ Evaluate(RowOf(Len(rows) + 1, outcome), outcome)

PublishMatrix ==
    /\ command = "matrix"
    /\ Len(rows) = NCells
    /\ \E ranking \in Ranked(DOMAIN rows) : Report(ranking)

\* research ablation: the baseline, then the variants; one that raises loses
\* the command.
RunVariant(outcome) ==
    /\ command = "ablation"
    /\ outcome.end # "crashed"
    /\ Evaluate(RowOf(Len(rows) + 1, outcome), outcome)

\* The variants, best gain in score over the baseline first.
CompareVariants ==
    /\ command = "ablation"
    /\ Len(rows) = NCells
    /\ \E ranking \in RankedByScore(2..NCells) :
          Report([i \in DOMAIN ranking |-> Compared(ranking[i], rows[1])])

\* funding_ablation.py: the two arms are sweeps of one threshold, and gated
\* without asking whether there was a fold at all.
RunArm(folds) ==
    /\ command = "funding"
    /\ Len(rows) < 2
    /\ Evaluate(Row(Len(rows) + 1, folds, Passes(folds)),
                [end |-> "evaluated", folds |-> folds])

CompareArms ==
    /\ command = "funding"
    /\ Len(rows) = 2
    /\ Report(<<Compared(rows[2], rows[1])>>)

----------------------------------------------------------------------------
Fold(judged) == [k \in DOMAIN thetas |-> judged[thetas[k]]]

\* A fold of run_walk_forward_threshold_sweep: trained once, replayed at every
\* threshold of the list.  A fold without labels leaves no trace.
SweepFold(judged) ==
    /\ command = "sweep"
    /\ Len(ran) < NFolds
    /\ rows' = Append(rows, Fold(judged))
    /\ ran' = Append(ran, judged)
    /\ UNCHANGED <<command, thetas, published, chosen>>

\* Reports of the cells whose threshold is the k-th: of each fold, one for
\* every time the list has it.
ReportsAt(k) ==
    LET times == Cardinality({j \in DOMAIN thetas : thetas[j] = thetas[k]})
    IN  [i \in 1..times * Len(rows) |-> rows[(i - 1) \div times + 1][k]]

Aggregate(k) ==
    LET rs == ReportsAt(k) IN Row(k, rs, Passes(rs))

\* Best score, then lowest drawdown.
Better(r, s) == r.score > s.score \/ (r.score = s.score /\ r.dd < s.dd)

\* Mutant: the best threshold, whether or not it passed.
BestOfAll(as) ==
    {k \in DOMAIN as : \A j \in DOMAIN as : ~Better(as[j], as[k])}

\* _pick_recommendation, among the passers; turnover breaks what ties are left.
Recommendable(as) ==
    {k \in DOMAIN as :
        /\ as[k].passed
        /\ \A j \in DOMAIN as : as[j].passed => ~Better(as[j], as[k])}

Recommend ==
    /\ command = "sweep"
    /\ LET as == [k \in DOMAIN thetas |-> Aggregate(k)]
           best == Recommendable(as)
       IN  /\ published' = as
           /\ chosen' \in IF best = {} THEN {0} ELSE {thetas[k] : k \in best}
    /\ command' = "none"
    /\ UNCHANGED <<thetas, rows, ran>>

Next ==
    \/ \E c \in Commands \ {"sweep"} : Begin(c, <<>>)
    \/ \E ts \in Sweeps : Begin("sweep", ts)
    \/ Fail
    \/ \E cell \in 1..NCells, outcome \in Outcomes : RunExperiment(cell, outcome)
    \/ RankDirectory
    \/ \E outcome \in Outcomes : EvaluateCell(outcome) \/ RunVariant(outcome)
    \/ PublishMatrix
    \/ CompareVariants
    \/ \E folds \in SeqOf(Reports, NFolds) : RunArm(folds)
    \/ CompareArms
    \/ \E judged \in [ToSet(thetas) -> Reports] : SweepFold(judged)
    \/ Recommend

Spec == Init /\ [][Next]_vars

----------------------------------------------------------------------------
Judged(theta) == [f \in DOMAIN ran |-> ran[f][theta]]

Comparing == published # <<>> /\ "crossed" \in DOMAIN published[1]

TypeOK ==
    /\ command \in Commands \cup {"none"}
    /\ thetas \in Sweeps \cup {<<>>}
    /\ thetas = <<>> =>
          /\ Len(rows) <= NCells /\ Len(ran) = Len(rows)
          /\ \A i \in DOMAIN rows :
                rows[i] # Torn => rows[i].cell = i /\ ran[i] \in Outcomes
    /\ thetas # <<>> =>
          /\ Len(rows) <= NFolds /\ Len(ran) = Len(rows)
          /\ \A f \in DOMAIN rows : rows[f] = Fold(ran[f])
    /\ Len(published) \in 0..NCells \cup {Len(thetas)}
    /\ chosen \in {0} \cup ToSet(thetas)

\* What a row may rest on: an evaluation that took place, and passed.
Earned(row) ==
    LET outcome == ran[row.cell]
        folds == outcome.folds
    IN  /\ outcome.end = "evaluated"
        /\ Gates.minTraded <= Cardinality({f \in DOMAIN folds : folds[f].fills > 0})
        /\ \A f \in DOMAIN folds : folds[f].dd <= Gates.maxDd
        /\ row.score = Score(folds)

(***************************************************************************)
(* A ranking has one row for each cell of a matrix, the ones that raised   *)
(* included, or for each experiment with a result file; those that pass    *)
(* come first, best score first, and each rests on an evaluation of its    *)
(* own that traded in enough folds and kept every drawdown: a cell that    *)
(* raises, or a file cut short, costs the ranking its own row, no other.   *)
(***************************************************************************)
RankedAsJudged ==
    thetas = <<>> /\ published # <<>> /\ ~Comparing =>
        /\ IsInjective([i \in DOMAIN published |-> published[i].cell])
        /\ {published[i].cell : i \in DOMAIN published}
             = {i \in DOMAIN rows : rows[i] # Torn}
        /\ \A i \in DOMAIN published :
              LET row == published[i]
              IN  /\ row.passed => Earned(row)
                  /\ ~row.passed => /\ ~Passed(ran[row.cell])
                                    /\ \A j \in DOMAIN published :
                                         published[j].passed => j < i
                  /\ \A j \in 1..i - 1 :
                       row.passed => published[j].score >= row.score

(***************************************************************************)
(* An ablation compares every other arm with its baseline, best first, and *)
(* marks exactly those that the change takes over the gates, one way or    *)
(* the other.                                                              *)
(***************************************************************************)
ComparedAsJudged ==
    Comparing =>
        /\ {published[i].row.cell : i \in DOMAIN published} = 2..Len(rows)
        /\ \A i \in DOMAIN published :
              LET arm == published[i]
              IN  /\ arm.row.passed = Passed(ran[arm.row.cell])
                  /\ arm.crossed = (Passed(ran[1]) # arm.row.passed)
                  /\ \A j \in 1..i - 1 : published[j].row.score >= arm.row.score

ReportedAsJudged == RankedAsJudged /\ ComparedAsJudged

(***************************************************************************)
(* A sweep of different thresholds recommends one that passes the gates on *)
(* the folds replayed at it, and none that passes is better; it recommends *)
(* none only when none passes.                                             *)
(***************************************************************************)
RecommendedIsBest ==
    thetas # <<>> /\ IsInjective(thetas) /\ published # <<>> =>
        LET passers == {t \in ToSet(thetas) : Passes(Judged(t))}
            row(t) == Row(0, Judged(t), TRUE)
        IN  /\ passers = {} => chosen = 0
            /\ passers # {} => /\ chosen \in passers
                               /\ \A t \in passers : ~Better(row(t), row(chosen))

============================================================================
