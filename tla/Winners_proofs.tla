--------------------------- MODULE Winners_proofs ---------------------------
(***************************************************************************)
(* Proofs about how winners are chosen (Selection) and how they are frozen *)
(* and judged on bars that came later (FrozenModel).                       *)
(*                                                                         *)
(* Selection.  Whatever is reported is right because what is kept of each  *)
(* evaluation is (RowsOfRuns, RowsOfFolds) and because nothing but a       *)
(* session evaluates after it reported (Commanded).  A ranking is any      *)
(* sorted enumeration of its rows: no order among equals is assumed.       *)
(***************************************************************************)
EXTENDS Selection, FrozenModel, SumTheorems

-----------------------------------------------------------------------------
\* What an evaluation's row is.
RowType == [cell : Nat, passed : BOOLEAN, score : Int, dd : Nat]

Folds == SeqOf(Reports, NFolds)

LEMMA SelectionConstants ==
    /\ Reports \subseteq [fills : Nat, cas : Int, dd : Nat, turnover : Nat]
    /\ NFolds \in Nat \ {0} /\ NCells \in Nat \ {0}
    /\ Sweeps \subseteq Seq(Nat) \ {<<>>}
    /\ Gates.maxDd \in Nat /\ Gates.minTraded \in Nat
    /\ \A rs \in Folds : Score(rs) \in Int
BY SelectionAssumption DEF Folds

LEMMA FoldsType ==
    ASSUME NEW rs \in Folds
    PROVE  /\ Len(rs) \in 0..NFolds /\ DOMAIN rs = 1..Len(rs)
           /\ rs \in Seq(Reports) /\ IsFiniteSet(DOMAIN rs)
           /\ \A i \in DOMAIN rs : rs[i] \in Reports /\ rs[i].dd \in Nat
<1>1. PICK m \in 0..NFolds : rs \in [1..m -> Reports]
  BY DEF Folds, SeqOf
<1>2. m \in Nat /\ Len(rs) = m
  BY <1>1, SelectionConstants
<1>3. IsFiniteSet(DOMAIN rs)
  BY <1>1, <1>2, FS_Interval
<1>. QED  BY <1>1, <1>2, <1>3, SelectionConstants

LEMMA SeqIsFolds ==
    ASSUME NEW n \in 0..NFolds, NEW rs \in [1..n -> Reports]
    PROVE  rs \in Folds
BY DEF Folds, SeqOf

\* The values of a function on a finite set are finitely many.
LEMMA FiniteValues ==
    ASSUME NEW S, IsFiniteSet(S), NEW f
    PROVE  IsFiniteSet({f[x] : x \in S})
<1>. DEFINE T == {f[x] : x \in S}
            g == [x \in S |-> f[x]]
<1>1. g \in Surjection(S, T)
  BY DEF Surjection
<1>. HIDE DEF g, T
<1>2. IsFiniteSet(T)
  BY <1>1, FS_Surjection
<1>. QED  BY <1>2 DEF T

\* The worst drawdown of some folds is that of one of them, or none.
LEMMA WorstDdBounds ==
    ASSUME NEW rs \in Folds
    PROVE  WorstDd(rs) \in Nat /\ \A i \in DOMAIN rs : rs[i].dd <= WorstDd(rs)
<1>. DEFINE D == {rs[i].dd : i \in DOMAIN rs}
            S == {0} \cup D
<1>1. IsFiniteSet(D)
  <2>. DEFINE g == [i \in DOMAIN rs |-> rs[i].dd]
  <2>1. IsFiniteSet(DOMAIN rs)
    BY FoldsType
  <2>2. D = {g[i] : i \in DOMAIN rs}
    OBVIOUS
  <2>. HIDE DEF g, D
  <2>. QED  BY <2>1, <2>2, FiniteValues
<1>2. IsFiniteSet(S)
  BY <1>1, FS_Singleton, FS_Union
<1>3. S \subseteq Nat
  BY FoldsType
<1>. HIDE DEF D
<1>4. \E m \in S : \A n \in S : n <= m
  BY <1>2, <1>3, GreatestExists
<1>5. Greatest(S) \in S /\ \A n \in S : n <= Greatest(S)
  BY <1>4 DEF Greatest
<1>6. WorstDd(rs) = Greatest(S)
  BY DEF WorstDd, D
<1>7. \A i \in DOMAIN rs : rs[i].dd \in S
  BY DEF D
<1>. QED  BY <1>3, <1>5, <1>6, <1>7

LEMMA OutcomeFacts ==
    ASSUME NEW o \in Outcomes
    PROVE  o.folds \in Folds /\ Passed(o) \in BOOLEAN
<1>1. <<>> \in Folds
  <2>1. 0 \in 0..NFolds /\ <<>> \in [1..0 -> Reports]
    BY SelectionConstants
  <2>. QED  BY <2>1, SeqIsFolds
<1>2. o.folds \in Folds
  BY <1>1 DEF Outcomes, Folds
<1>3. Passed(o) \in BOOLEAN
  BY DEF Passed
<1>. QED  BY <1>2, <1>3

LEMMA RowFields ==
    ASSUME NEW c, NEW rs, NEW p
    PROVE  /\ Row(c, rs, p).cell = c /\ Row(c, rs, p).passed = p
           /\ Row(c, rs, p).score = Score(rs) /\ Row(c, rs, p).dd = WorstDd(rs)
BY DEF Row

LEMMA RowFacts ==
    ASSUME NEW c \in Nat, NEW o \in Outcomes
    PROVE  /\ RowOf(c, o) \in RowType
           /\ RowOf(c, o).cell = c /\ RowOf(c, o).passed = Passed(o)
           /\ RowOf(c, o).score = Score(o.folds)
<1>1. /\ o.folds \in Folds /\ Passed(o) \in BOOLEAN
      /\ Score(o.folds) \in Int /\ WorstDd(o.folds) \in Nat
  BY OutcomeFacts, WorstDdBounds, SelectionConstants
<1>2. RowOf(c, o) = [cell |-> c, passed |-> Passed(o), score |-> Score(o.folds),
                     dd |-> WorstDd(o.folds)]
  BY DEF RowOf, Row
<1>. HIDE DEF RowOf, Passed
<1>. QED  BY <1>1, <1>2 DEF RowType

LEMMA TornFacts == Torn \in RowType /\ Torn.cell = 0 /\ NotRun \in Outcomes
<1>1. <<>> \in Folds
  <2>1. 0 \in 0..NFolds /\ <<>> \in [1..0 -> Reports]
    BY SelectionConstants
  <2>. QED  BY <2>1, SeqIsFolds
<1>2. WorstDd(<<>>) \in Nat /\ Score(<<>>) \in Int
  BY <1>1, WorstDdBounds, SelectionConstants
<1>3. Torn = [cell |-> 0, passed |-> FALSE, score |-> Score(<<>>), dd |-> WorstDd(<<>>)]
  BY DEF Torn, Row
<1>4. Torn \in RowType /\ Torn.cell = 0
  BY <1>2, <1>3 DEF RowType
<1>5. NotRun \in Outcomes
  BY DEF NotRun, Outcomes
<1>. QED  BY <1>4, <1>5

\* A row that passed is earned: its evaluation took place, traded in enough
\* folds and kept every drawdown.
LEMMA PassedIsEarned ==
    ASSUME NEW o \in Outcomes, Passed(o)
    PROVE  /\ o.end = "evaluated"
           /\ Gates.minTraded <= Cardinality({f \in DOMAIN o.folds : o.folds[f].fills > 0})
           /\ \A f \in DOMAIN o.folds : o.folds[f].dd <= Gates.maxDd
<1>. DEFINE rs == o.folds
<1>1. o.end = "evaluated" /\ WorstDd(rs) <= Gates.maxDd /\ Traded(rs) >= Gates.minTraded
  <2>1. o.end = "evaluated" /\ Passes(rs)
    BY Zenon DEF Passed
  <2>. QED  BY <2>1, Zenon DEF Passes, TradedEnough
<1>2. rs \in Folds
  BY OutcomeFacts
<1>3. IsFiniteSet({f \in DOMAIN rs : rs[f].fills > 0})
  <2>1. IsFiniteSet(DOMAIN rs)
    BY <1>2, FoldsType
  <2>. QED  BY <2>1, FS_Subset
<1>4. Traded(rs) = Cardinality({f \in DOMAIN rs : rs[f].fills > 0}) /\ Traded(rs) \in Nat
  BY <1>3, FS_CardinalityType DEF Traded
<1>5. \A f \in DOMAIN rs : rs[f].dd <= WorstDd(rs) /\ rs[f].dd \in Nat
  BY <1>2, WorstDdBounds, FoldsType
<1>6. WorstDd(rs) \in Nat
  BY <1>2, WorstDdBounds
<1>7. \A f \in DOMAIN rs : rs[f].dd <= Gates.maxDd
  BY <1>1, <1>5, <1>6, SelectionConstants
<1>. QED  BY <1>1, <1>4, <1>7, SelectionConstants

-----------------------------------------------------------------------------
\* What is being done fixes what there may be: only a session has published
\* anything before it is over.
Commanded ==
    /\ command \in Commands \cup {"none"}
    /\ thetas \in Sweeps \cup {<<>>}
    /\ command = "sweep" => thetas # <<>>
    /\ command \in Commands \ {"sweep"} => thetas = <<>>
    /\ command \in Commands \ {"session"} => published = <<>>
    /\ Len(published) \in 0..NCells \cup {Len(thetas)}
    /\ chosen \in {0} \cup ToSet(thetas)

\* The row of each experiment is that of its evaluation, or cut short.
RowsOfRuns ==
    thetas = <<>> =>
        /\ rows \in Seq(RowType) /\ ran \in Seq(Outcomes)
        /\ Len(ran) = Len(rows) /\ Len(rows) <= NCells
        /\ \A i \in DOMAIN rows : \/ rows[i] = RowOf(i, ran[i])
                                  \/ rows[i] = Torn /\ ran[i] = NotRun
        /\ command \in Commands \ {"session"} => \A i \in DOMAIN rows : rows[i] # Torn

\* The row of each fold of a sweep has what was judged at each threshold.
RowsOfFolds ==
    thetas # <<>> =>
        /\ rows \in Seq([DOMAIN thetas -> Reports])
        /\ ran \in Seq([ToSet(thetas) -> Reports])
        /\ Len(ran) = Len(rows) /\ Len(rows) <= NFolds
        /\ \A f \in DOMAIN rows : rows[f] = Fold(ran[f])

IInv == Commanded /\ RowsOfRuns /\ RowsOfFolds /\ ReportedAsJudged /\ RecommendedIsBest

LEMMA IInvTypeOK == IInv => TypeOK
<1>. SUFFICES ASSUME IInv PROVE TypeOK
  OBVIOUS
<1>1. Commanded /\ RowsOfRuns /\ RowsOfFolds
  BY DEF IInv
<1>2. ASSUME thetas = <<>>
      PROVE  /\ Len(rows) <= NCells /\ Len(ran) = Len(rows)
             /\ \A i \in DOMAIN rows :
                   rows[i] # Torn => rows[i].cell = i /\ ran[i] \in Outcomes
  <2>1. Len(rows) <= NCells /\ Len(ran) = Len(rows)
    BY <1>1, <1>2 DEF RowsOfRuns
  <2>2. ASSUME NEW i \in DOMAIN rows, rows[i] # Torn
        PROVE  rows[i].cell = i /\ ran[i] \in Outcomes
    <3>1. rows[i] = RowOf(i, ran[i]) /\ i \in Nat /\ ran[i] \in Outcomes
      BY <1>1, <1>2, <2>2 DEF RowsOfRuns
    <3>. QED  BY <3>1, RowFacts
  <2>. QED  BY <2>1, <2>2
<1>3. thetas # <<>> =>
          /\ Len(rows) <= NFolds /\ Len(ran) = Len(rows)
          /\ \A f \in DOMAIN rows : rows[f] = Fold(ran[f])
  BY <1>1 DEF RowsOfFolds
<1>. QED  BY <1>1, <1>2, <1>3 DEF TypeOK, Commanded

-----------------------------------------------------------------------------
\* r has the row of each of some cells, once.
RowsOf(r, cells) ==
    /\ r \in Seq(RowType) /\ Len(r) = Cardinality(cells) /\ Len(r) \in 0..NCells
    /\ \A i \in DOMAIN r :
          /\ r[i].cell \in cells
          /\ ran[r[i].cell] \in Outcomes
          /\ r[i] = RowOf(r[i].cell, ran[r[i].cell])
    /\ \A i, j \in DOMAIN r : r[i].cell = r[j].cell => i = j
    /\ \A c \in cells : \E i \in DOMAIN r : r[i].cell = c

LEMMA SortedRows ==
    ASSUME thetas = <<>>, RowsOfRuns,
           NEW cells, cells \subseteq DOMAIN rows, \A i \in cells : rows[i] # Torn,
           NEW p \in Bijection(1..Cardinality(cells), cells)
    PROVE  RowsOf([i \in 1..Cardinality(cells) |-> rows[p[i]]], cells)
<1>. DEFINE n == Cardinality(cells)
            r == [i \in 1..n |-> rows[p[i]]]
<1>1. /\ rows \in Seq(RowType) /\ ran \in Seq(Outcomes) /\ Len(ran) = Len(rows)
      /\ Len(rows) \in Nat /\ Len(rows) <= NCells /\ NCells \in Nat
      /\ \A i \in cells : i \in 1..Len(rows) /\ rows[i] = RowOf(i, ran[i])
  BY SelectionConstants DEF RowsOfRuns
<1>2. n \in Nat /\ n <= Len(rows)
  <2>1. IsFiniteSet(1..Len(rows)) /\ Cardinality(1..Len(rows)) = Len(rows)
    <3>. DEFINE l == Len(rows)
    <3>1. l \in Nat
      BY <1>1
    <3>. HIDE DEF l
    <3>2. IsFiniteSet(1..l) /\ Cardinality(1..l) = l
      BY <3>1, FS_Interval
    <3>. QED  BY <3>2 DEF l
  <2>2. cells \subseteq 1..Len(rows)
    BY <1>1
  <2>. QED  BY <2>1, <2>2, FS_Subset, FS_CardinalityType
<1>3. /\ p \in [1..n -> cells]
      /\ \A i, j \in 1..n : p[i] = p[j] => i = j
      /\ \A c \in cells : \E i \in 1..n : p[i] = c
  BY DEF Bijection, Injection, Surjection, IsInjective
<1>. HIDE DEF n
<1>4. \A i \in 1..n : p[i] \in cells /\ p[i] \in 1..Len(rows) /\ ran[p[i]] \in Outcomes
  BY <1>1, <1>3
<1>5. \A i \in 1..n : /\ r[i] = RowOf(p[i], ran[p[i]]) /\ r[i].cell = p[i]
                      /\ r[i] \in RowType
  BY <1>1, <1>4, RowFacts
<1>6. DOMAIN r = 1..n /\ r \in Seq(RowType) /\ Len(r) = n
  BY <1>2, <1>5
<1>. HIDE DEF r
<1>7. n \in 0..NCells
  BY <1>1, <1>2
<1>8. \A i \in DOMAIN r : /\ r[i].cell \in cells /\ ran[r[i].cell] \in Outcomes
                          /\ r[i] = RowOf(r[i].cell, ran[r[i].cell])
  BY <1>4, <1>5, <1>6
<1>9. \A i, j \in DOMAIN r : r[i].cell = r[j].cell => i = j
  BY <1>3, <1>5, <1>6
<1>10. \A c \in cells : \E i \in DOMAIN r : r[i].cell = c
  BY <1>3, <1>5, <1>6
<1>11. RowsOf(r, cells)
  BY <1>6, <1>7, <1>8, <1>9, <1>10 DEF RowsOf, n
<1>. QED  BY <1>11 DEF r, n

\* Both orders have the rows of their cells in order.
LEMMA RankingFacts ==
    ASSUME thetas = <<>>, RowsOfRuns,
           NEW cells, cells \subseteq DOMAIN rows, \A i \in cells : rows[i] # Torn,
           NEW r \in Ranked(cells)
    PROVE  RowsOf(r, cells) /\ \A i, j \in DOMAIN r : Before(r[i], r[j]) => i < j
<1>. DEFINE n == Cardinality(cells)
<1>1. r \in Listings(cells) /\ \A i, j \in DOMAIN r : Before(r[i], r[j]) => i < j
  BY Zenon DEF Ranked
<1>2. PICK p \in Bijection(1..n, cells) : r = [i \in 1..n |-> rows[p[i]]]
  BY <1>1 DEF Listings
<1>3. RowsOf(r, cells)
  BY <1>2, SortedRows
<1>. QED  BY <1>1, <1>3

LEMMA ComparisonFacts ==
    ASSUME thetas = <<>>, RowsOfRuns,
           NEW cells, cells \subseteq DOMAIN rows, \A i \in cells : rows[i] # Torn,
           NEW r \in RankedByScore(cells)
    PROVE  RowsOf(r, cells) /\ \A i, j \in DOMAIN r : ByScore(r[i], r[j]) => i < j
<1>. DEFINE n == Cardinality(cells)
<1>1. r \in Listings(cells) /\ \A i, j \in DOMAIN r : ByScore(r[i], r[j]) => i < j
  BY Zenon DEF RankedByScore
<1>2. PICK p \in Bijection(1..n, cells) : r = [i \in 1..n |-> rows[p[i]]]
  BY <1>1 DEF Listings
<1>3. RowsOf(r, cells)
  BY <1>2, SortedRows
<1>. QED  BY <1>1, <1>3

\* Sorted by rank, rows are a ranking of their cells.
LEMMA RankedRows ==
    ASSUME NEW cells, cells \subseteq Nat, NEW r, RowsOf(r, cells),
           \A i, j \in DOMAIN r : Before(r[i], r[j]) => i < j
    PROVE  /\ IsInjective([i \in DOMAIN r |-> r[i].cell])
           /\ {r[i].cell : i \in DOMAIN r} = cells
           /\ \A i \in DOMAIN r :
                /\ r[i].passed => Earned(r[i])
                /\ ~r[i].passed => /\ ~Passed(ran[r[i].cell])
                                   /\ \A j \in DOMAIN r : r[j].passed => j < i
                /\ \A j \in 1..i - 1 : r[i].passed => r[j].score >= r[i].score
<1>1. \A i \in DOMAIN r :
         /\ r[i].cell \in cells /\ r[i].cell \in Nat /\ ran[r[i].cell] \in Outcomes
         /\ r[i] = RowOf(r[i].cell, ran[r[i].cell])
  BY DEF RowsOf
<1>2. r \in Seq(RowType) /\ DOMAIN r = 1..Len(r) /\ Len(r) \in Nat
  BY DEF RowsOf
<1>3. \A i \in DOMAIN r : r[i].passed \in BOOLEAN /\ r[i].score \in Int
  <2>1. \A i \in DOMAIN r : r[i] \in RowType
    BY <1>2
  <2>. QED  BY <2>1, Zenon DEF RowType
<1>4. \A i \in DOMAIN r : /\ r[i].passed = Passed(ran[r[i].cell])
                          /\ r[i].score = Score(ran[r[i].cell].folds)
  BY <1>1, RowFacts
<1>5. IsInjective([i \in DOMAIN r |-> r[i].cell])
  BY DEF RowsOf, IsInjective
<1>6. {r[i].cell : i \in DOMAIN r} = cells
  <2>1. \A c \in cells : \E i \in DOMAIN r : r[i].cell = c
    BY DEF RowsOf
  <2>. QED  BY <1>1, <2>1
<1>7. ASSUME NEW i \in DOMAIN r, r[i].passed PROVE Earned(r[i])
  <2>1. ran[r[i].cell] \in Outcomes /\ Passed(ran[r[i].cell])
    BY <1>1, <1>4, <1>7, Zenon
  <2>2. r[i].score = Score(ran[r[i].cell].folds)
    BY <1>4
  <2>. QED  BY <2>1, <2>2, PassedIsEarned, Zenon DEF Earned
<1>8. ASSUME NEW i \in DOMAIN r, ~r[i].passed
      PROVE  ~Passed(ran[r[i].cell]) /\ \A j \in DOMAIN r : r[j].passed => j < i
  <2>1. ~Passed(ran[r[i].cell])
    BY <1>4, <1>8, Zenon
  <2>2. ASSUME NEW j \in DOMAIN r, r[j].passed PROVE j < i
    <3>1. Before(r[j], r[i])
      BY <1>8, <2>2, Zenon DEF Before
    <3>. QED  BY <3>1
  <2>. QED  BY <2>1, <2>2
<1>9. ASSUME NEW i \in DOMAIN r, NEW j \in 1..i - 1, r[i].passed
      PROVE  r[j].score >= r[i].score
  <2>1. i \in Nat /\ j \in Nat /\ j < i /\ j \in DOMAIN r
    BY <1>2
  <2>2. ~Before(r[i], r[j])
    BY <2>1
  <2>3. r[j].passed
    BY <1>9, <2>2, Zenon DEF Before
  <2>4. r[i].passed = r[j].passed
    BY <1>3, <1>9, <2>1, <2>3, Zenon
  <2>5. ~(r[i].score > r[j].score)
    BY <2>2, <2>4, Zenon DEF Before
  <2>6. r[i].score \in Int /\ r[j].score \in Int
    BY <1>3, <2>1
  <2>. QED  BY <2>5, <2>6
<1>. QED  BY <1>5, <1>6, <1>7, <1>8, <1>9

\* A row is no comparison, and a comparison is no row.
LEMMA RowOrComparison ==
    /\ \A row \in RowType : "crossed" \notin DOMAIN row
    /\ \A row, base : "crossed" \in DOMAIN Compared(row, base)
BY DEF RowType, Compared

-----------------------------------------------------------------------------
\* A file written again keeps its place, a new one is the last.
LEMMA PutFacts ==
    ASSUME NEW S, NEW s \in Seq(S), NEW v \in S, NEW c \in 1..Len(s) + 1, NEW t,
           t = IF c \in DOMAIN s THEN [s EXCEPT ![c] = v] ELSE Append(s, v)
    PROVE  /\ t \in Seq(S) /\ DOMAIN t = DOMAIN s \cup {c} /\ t[c] = v
           /\ Len(t) = (IF c \in DOMAIN s THEN Len(s) ELSE Len(s) + 1)
           /\ \A i \in DOMAIN s : i # c => t[i] = s[i]
<1>1. CASE c \in DOMAIN s
  <2>1. t = [s EXCEPT ![c] = v] /\ DOMAIN s = 1..Len(s) /\ Len(s) \in Nat
    BY <1>1
  <2>2. t \in Seq(S) /\ Len(t) = Len(s) /\ DOMAIN t = DOMAIN s
    BY <1>1, <2>1
  <2>. QED  BY <1>1, <2>1, <2>2
<1>2. CASE c \notin DOMAIN s
  <2>1. t = Append(s, v) /\ c = Len(s) + 1 /\ Len(s) \in Nat
    BY <1>2
  <2>. QED  BY <1>2, <2>1
<1>. QED  BY <1>1, <1>2

\* One more evaluation with its row.
LEMMA RowsStep ==
    ASSUME thetas = <<>>, thetas' = thetas, RowsOfRuns,
           NEW c \in 1..Len(rows) + 1, c <= NCells,
           NEW o \in Outcomes, NEW w,
           w = RowOf(c, o) \/ (w = Torn /\ o = NotRun /\ command' = "session"),
           rows' = (IF c \in DOMAIN rows THEN [rows EXCEPT ![c] = w] ELSE Append(rows, w)),
           ran' = (IF c \in DOMAIN ran THEN [ran EXCEPT ![c] = o] ELSE Append(ran, o)),
           command' = command
    PROVE  RowsOfRuns'
<1>1. /\ rows \in Seq(RowType) /\ ran \in Seq(Outcomes)
      /\ Len(ran) = Len(rows) /\ Len(rows) <= NCells
      /\ DOMAIN rows = 1..Len(rows) /\ DOMAIN ran = DOMAIN rows /\ Len(rows) \in Nat
      /\ \A i \in DOMAIN rows : \/ rows[i] = RowOf(i, ran[i])
                                \/ rows[i] = Torn /\ ran[i] = NotRun
      /\ command \in Commands \ {"session"} => \A i \in DOMAIN rows : rows[i] # Torn
  BY DEF RowsOfRuns
<1>2. c \in Nat /\ c # 0 /\ c \in 1..Len(ran) + 1
  BY <1>1
<1>3. RowOf(c, o) \in RowType /\ RowOf(c, o).cell = c /\ Torn \in RowType /\ Torn.cell = 0
  BY <1>2, RowFacts, TornFacts
<1>4. w \in RowType /\ (w = RowOf(c, o) => w # Torn)
  BY <1>2, <1>3
<1>5. /\ rows' \in Seq(RowType) /\ DOMAIN rows' = DOMAIN rows \cup {c} /\ rows'[c] = w
      /\ Len(rows') = (IF c \in DOMAIN rows THEN Len(rows) ELSE Len(rows) + 1)
      /\ \A i \in DOMAIN rows : i # c => rows'[i] = rows[i]
  BY <1>1, <1>4, PutFacts
<1>6. /\ ran' \in Seq(Outcomes) /\ ran'[c] = o
      /\ Len(ran') = (IF c \in DOMAIN ran THEN Len(ran) ELSE Len(ran) + 1)
      /\ \A i \in DOMAIN ran : i # c => ran'[i] = ran[i]
  BY <1>1, <1>2, PutFacts
<1>7. Len(ran') = Len(rows') /\ Len(rows') <= NCells
  BY <1>1, <1>5, <1>6, SelectionConstants
<1>8. ASSUME NEW i \in DOMAIN rows'
      PROVE  \/ rows'[i] = RowOf(i, ran'[i])
             \/ rows'[i] = Torn /\ ran'[i] = NotRun
  BY <1>1, <1>5, <1>6
<1>9. ASSUME command' \in Commands \ {"session"}, NEW i \in DOMAIN rows'
      PROVE  rows'[i] # Torn
  BY <1>1, <1>4, <1>5, <1>9
<1>. QED  BY <1>5, <1>6, <1>7, <1>8, <1>9 DEF RowsOfRuns

\* Nothing has been reported.
LEMMA NothingReported ==
    ASSUME published' = <<>>
    PROVE  ReportedAsJudged' /\ RecommendedIsBest'
BY DEF ReportedAsJudged, RankedAsJudged, ComparedAsJudged, Comparing, RecommendedIsBest

\* What was reported stays true of what it reports on.
LEMMA StillReported ==
    ASSUME ReportedAsJudged, RecommendedIsBest,
           UNCHANGED <<thetas, rows, ran, published, chosen>>
    PROVE  ReportedAsJudged' /\ RecommendedIsBest'
<1>. USE DEF Comparing, Earned
<1>1. /\ thetas' = thetas /\ rows' = rows /\ ran' = ran /\ published' = published
      /\ chosen' = chosen
  OBVIOUS
<1>2. RankedAsJudged'
  BY <1>1 DEF RankedAsJudged, ReportedAsJudged
<1>3. ComparedAsJudged'
  BY <1>1 DEF ComparedAsJudged, ReportedAsJudged
<1>4. RecommendedIsBest'
  BY <1>1 DEF RecommendedIsBest, Judged
<1>. QED  BY <1>2, <1>3, <1>4 DEF ReportedAsJudged

\* A ranking was published.
LEMMA RankingReported ==
    ASSUME thetas = <<>>, RowsOfRuns, UNCHANGED <<thetas, rows, ran>>,
           published' \in Ranked({i \in DOMAIN rows : rows[i] # Torn})
    PROVE  ReportedAsJudged' /\ RecommendedIsBest' /\ Len(published') \in 0..NCells
<1>. DEFINE cells == {i \in DOMAIN rows : rows[i] # Torn}
<1>1. RowsOf(published', cells)
      /\ \A i, j \in DOMAIN published' : Before(published'[i], published'[j]) => i < j
  BY RankingFacts
<1>2. cells \subseteq Nat
  BY DEF RowsOfRuns
<1>3. RankedAsJudged'
  <2>. DEFINE r == published'
  <2>1. /\ IsInjective([i \in DOMAIN r |-> r[i].cell])
        /\ {r[i].cell : i \in DOMAIN r} = cells
        /\ \A i \in DOMAIN r :
             /\ r[i].passed => Earned(r[i])
             /\ ~r[i].passed => /\ ~Passed(ran[r[i].cell])
                                /\ \A j \in DOMAIN r : r[j].passed => j < i
             /\ \A j \in 1..i - 1 : r[i].passed => r[j].score >= r[i].score
    <3>. HIDE DEF r, cells
    <3>. QED  BY <1>1, <1>2, RankedRows DEF r
  <2>. QED  BY <2>1 DEF RankedAsJudged, Earned
<1>4. ComparedAsJudged'
  <2>1. published' \in Seq(RowType)
    BY <1>1 DEF RowsOf
  <2>2. published' # <<>> => published'[1] \in RowType
    BY <2>1
  <2>. QED  BY <2>2, RowOrComparison DEF ComparedAsJudged, Comparing
<1>5. RecommendedIsBest'
  BY DEF RecommendedIsBest
<1>. QED  BY <1>1, <1>3, <1>4, <1>5 DEF ReportedAsJudged, RowsOf

\* A comparison with the first row was published.
LEMMA ComparisonReported ==
    ASSUME thetas = <<>>, RowsOfRuns, UNCHANGED <<thetas, rows, ran>>,
           \A i \in DOMAIN rows : rows[i] # Torn, rows # <<>>,
           NEW r, RowsOf(r, 2..Len(rows)),
           \A i, j \in DOMAIN r : ByScore(r[i], r[j]) => i < j,
           published' = [i \in DOMAIN r |-> Compared(r[i], rows[1])]
    PROVE  ReportedAsJudged' /\ RecommendedIsBest' /\ Len(published') \in 0..NCells
<1>1. /\ r \in Seq(RowType) /\ Len(r) \in 0..NCells
      /\ \A i \in DOMAIN r :
            /\ r[i].cell \in 2..Len(rows) /\ ran[r[i].cell] \in Outcomes
            /\ r[i] = RowOf(r[i].cell, ran[r[i].cell])
      /\ \A c \in 2..Len(rows) : \E i \in DOMAIN r : r[i].cell = c
  BY DEF RowsOf
<1>2. DOMAIN r = 1..Len(r) /\ Len(r) \in Nat /\ Len(rows) \in Nat
      /\ DOMAIN published' = DOMAIN r /\ Len(published') = Len(r)
  BY <1>1 DEF RowsOfRuns
<1>3. \A i \in DOMAIN r : published'[i].row = r[i]
                          /\ published'[i].crossed = (r[i].passed # rows[1].passed)
  BY <1>2 DEF Compared
<1>4. rows[1].passed = Passed(ran[1])
  <2>1. 1 \in DOMAIN rows /\ ran[1] \in Outcomes
    BY DEF RowsOfRuns
  <2>2. rows[1] = RowOf(1, ran[1])
    BY <2>1 DEF RowsOfRuns
  <2>. QED  BY <2>1, <2>2, RowFacts
<1>5. \A i \in DOMAIN r : r[i].passed = Passed(ran[r[i].cell]) /\ r[i].cell \in Nat
  BY <1>1, <1>2, RowFacts
<1>6. {published'[i].row.cell : i \in DOMAIN published'} = 2..Len(rows)
  BY <1>1, <1>2, <1>3
<1>7. ASSUME NEW i \in DOMAIN published'
      PROVE  /\ published'[i].row.passed = Passed(ran[published'[i].row.cell])
             /\ published'[i].crossed = (Passed(ran[1]) # published'[i].row.passed)
             /\ \A j \in 1..i - 1 : published'[j].row.score >= published'[i].row.score
  <2>1. published'[i].row.passed = Passed(ran[published'[i].row.cell])
    BY <1>2, <1>3, <1>5
  <2>2. published'[i].crossed = (Passed(ran[1]) # published'[i].row.passed)
    BY <1>2, <1>3, <1>4
  <2>3. ASSUME NEW j \in 1..i - 1
        PROVE  published'[j].row.score >= published'[i].row.score
    <3>1. j \in DOMAIN r /\ i \in DOMAIN r /\ j < i /\ i \in Nat /\ j \in Nat
      BY <1>2
    <3>2. ~ByScore(r[i], r[j])
      BY <3>1
    <3>3. r[i] \in RowType /\ r[j] \in RowType
      BY <1>1, <3>1
    <3>4. r[i].score \in Int /\ r[j].score \in Int
      BY <3>3, Zenon DEF RowType
    <3>5. r[j].score >= r[i].score
      BY <3>2, <3>4 DEF ByScore
    <3>. QED  BY <1>3, <3>1, <3>5
  <2>. QED  BY <2>1, <2>2, <2>3
<1>8. ComparedAsJudged'
  BY <1>6, <1>7 DEF ComparedAsJudged
<1>9. RankedAsJudged'
  <2>1. published' # <<>> => Comparing'
    <3>. SUFFICES ASSUME published' # <<>> PROVE Comparing'
      OBVIOUS
    <3>1. 1 \in DOMAIN r
      BY <1>2
    <3>2. published'[1] = Compared(r[1], rows[1])
      BY <3>1
    <3>. QED  BY <3>2, RowOrComparison DEF Comparing
  <2>. QED  BY <2>1 DEF RankedAsJudged
<1>10. RecommendedIsBest'
  BY DEF RecommendedIsBest
<1>. QED  BY <1>1, <1>2, <1>8, <1>9, <1>10 DEF ReportedAsJudged

-----------------------------------------------------------------------------
LEMMA Ordering ==
    /\ \A a, b \in Int : a <= b => ~(a > b)
    /\ \A a, b \in Nat : a <= b => ~(b < a)
OBVIOUS

\* Of finitely many aggregates some of them none is better than one.
LEMMA BestExists ==
    ASSUME NEW as, IsFiniteSet(DOMAIN as), NEW P, P \subseteq DOMAIN as, P # {},
           \A k \in P : as[k].score \in Int /\ as[k].dd \in Nat
    PROVE  \E k \in P : \A j \in P : ~Better(as[j], as[k])
<1>. DEFINE score == [k \in P |-> as[k].score]
            scores == {score[k] : k \in P}
<1>1. IsFiniteSet(scores)
  <2>1. IsFiniteSet(P)
    BY FS_Subset
  <2>. HIDE DEF score
  <2>. QED  BY <2>1, FiniteValues
<1>2. scores \subseteq Int /\ scores # {}
  OBVIOUS
<1>3. PICK m \in scores : \A n \in scores : n <= m
  <2>. HIDE DEF scores
  <2>. QED  BY <1>1, <1>2, GreatestExists
<1>. DEFINE top == {k \in P : as[k].score = m}
            dds == {as[k].dd : k \in top}
<1>4. dds \subseteq Nat /\ dds # {}
  BY <1>3
<1>5. PICK d \in dds : \A n \in dds : d <= n
  <2>. HIDE DEF dds
  <2>. QED  BY <1>4, LeastNatural
<1>6. PICK k \in top : as[k].dd = d
  BY <1>5
<1>7. ASSUME NEW j \in P, Better(as[j], as[k]) PROVE FALSE
  <2>1. as[j].score \in Int /\ as[j].dd \in Nat /\ as[k].score \in Int /\ as[k].dd \in Nat
    BY <1>6
  <2>2. as[j].score <= as[k].score
    <3>1. score[j] \in scores /\ score[j] = as[j].score /\ as[k].score = m
      BY <1>6
    <3>. HIDE DEF scores, score
    <3>. QED  BY <1>3, <3>1, Zenon
  <2>3. as[j].score = as[k].score /\ as[j].dd < as[k].dd
    BY <1>7, <2>1, <2>2, Ordering, Zenon DEF Better
  <2>4. as[j].dd \in dds
    <3>1. as[k].score = m
      BY <1>6
    <3>. QED  BY <2>3, <3>1, Zenon
  <2>5. as[k].dd <= as[j].dd
    <3>. HIDE DEF dds
    <3>. QED  BY <1>5, <1>6, <2>4, Zenon
  <2>. QED  BY <2>1, <2>3, <2>5, Ordering, Zenon
<1>. QED  BY <1>6, <1>7

\* When no threshold is listed twice, each has one report of each fold.
LEMMA ReportsOfThreshold ==
    ASSUME thetas # <<>>, thetas \in Sweeps, IsInjective(thetas), RowsOfFolds,
           NEW k \in DOMAIN thetas
    PROVE  ReportsAt(k) = Judged(thetas[k]) /\ Judged(thetas[k]) \in Folds
<1>1. /\ rows \in Seq([DOMAIN thetas -> Reports]) /\ ran \in Seq([ToSet(thetas) -> Reports])
      /\ Len(ran) = Len(rows) /\ Len(rows) <= NFolds
      /\ \A f \in DOMAIN rows : rows[f] = Fold(ran[f])
      /\ thetas[k] \in ToSet(thetas)
  BY DEF RowsOfFolds, ToSet
<1>. DEFINE n == Len(rows)
<1>2. n \in 0..NFolds /\ DOMAIN rows = 1..n /\ DOMAIN ran = 1..n /\ n \in Nat
  BY <1>1, SelectionConstants
<1>. HIDE DEF n
<1>3. ASSUME NEW f \in 1..n
      PROVE  rows[f][k] = ran[f][thetas[k]] /\ ran[f][thetas[k]] \in Reports
  <2>1. rows[f] = Fold(ran[f])
    BY <1>1, <1>2
  <2>2. ran[f] \in [ToSet(thetas) -> Reports]
    BY <1>1, <1>2
  <2>. QED  BY <1>1, <2>1, <2>2 DEF Fold
<1>4. Cardinality({j \in DOMAIN thetas : thetas[j] = thetas[k]}) = 1
  <2>1. {j \in DOMAIN thetas : thetas[j] = thetas[k]} = {k}
    BY DEF IsInjective
  <2>. QED  BY <2>1, FS_Singleton
<1>5. ReportsAt(k) = [i \in 1..1 * n |-> rows[(i - 1) \div 1 + 1][k]]
  BY <1>4 DEF ReportsAt, n
<1>6. 1 * n = n /\ \A i \in 1..n : (i - 1) \div 1 + 1 = i
  BY <1>2
<1>7. ReportsAt(k) = [i \in 1..n |-> rows[i][k]]
  BY <1>5, <1>6
<1>8. Judged(thetas[k]) = [f \in 1..n |-> ran[f][thetas[k]]]
  BY <1>2 DEF Judged
<1>9. Judged(thetas[k]) \in [1..n -> Reports]
  BY <1>3, <1>8
<1>. QED  BY <1>2, <1>3, <1>7, <1>8, <1>9, SeqIsFolds

\* A sweep recommends what its promise says.
LEMMA Recommended ==
    ASSUME command = "sweep", IInv, Recommend PROVE IInv'
<1>. DEFINE as == [k \in DOMAIN thetas |-> Aggregate(k)]
            best == Recommendable(as)
<1>0. Commanded /\ RowsOfRuns /\ RowsOfFolds
  BY DEF IInv
<1>1. /\ published' = as
      /\ chosen' \in IF best = {} THEN {0} ELSE {thetas[k] : k \in best}
      /\ command' = "none" /\ thetas' = thetas /\ rows' = rows /\ ran' = ran
  BY DEF Recommend
<1>2. thetas # <<>> /\ thetas \in Sweeps /\ thetas \in Seq(Nat)
      /\ DOMAIN thetas = 1..Len(thetas) /\ Len(thetas) \in Nat
  <2>1. thetas # <<>> /\ thetas \in Sweeps
    BY <1>0 DEF Commanded
  <2>2. thetas \in Seq(Nat)
    BY <2>1, SelectionConstants
  <2>. QED  BY <2>1, <2>2
<1>3. best \subseteq DOMAIN thetas
  BY DEF Recommendable
<1>4. chosen' \in {0} \cup ToSet(thetas)
  <2>1. \A k \in best : thetas[k] \in ToSet(thetas)
    BY <1>3 DEF ToSet
  <2>. QED  BY <1>1, <2>1
<1>5. Commanded'
  <2>1. Len(published') = Len(thetas)
    BY <1>1, <1>2
  <2>. QED  BY <1>1, <1>2, <1>4, <2>1 DEF Commanded, Commands
<1>6. RowsOfRuns' /\ RowsOfFolds'
  <2>1. RowsOfRuns'
    BY <1>1, <1>2 DEF RowsOfRuns
  <2>2. RowsOfFolds'
    BY <1>0, <1>1, <1>2 DEF RowsOfFolds, Fold
  <2>. QED  BY <2>1, <2>2
<1>7. ReportedAsJudged'
  <2>1. ~Comparing'
    <3>. SUFFICES ASSUME published' # <<>> PROVE "crossed" \notin DOMAIN published'[1]
      BY DEF Comparing
    <3>1. 1 \in DOMAIN thetas
      BY <1>1, <1>2
    <3>2. published'[1] = Aggregate(1)
      BY <1>1, <3>1
    <3>. QED  BY <3>2 DEF Aggregate, Row
  <2>. QED  BY <1>1, <1>2, <2>1 DEF ReportedAsJudged, RankedAsJudged, ComparedAsJudged
<1>8. RecommendedIsBest'
  <2>. SUFFICES ASSUME IsInjective(thetas)
                PROVE  LET passers == {t \in ToSet(thetas) : Passes(Judged(t))}
                           row(t) == Row(0, Judged(t), TRUE)
                       IN  /\ passers = {} => chosen' = 0
                           /\ passers # {} => /\ chosen' \in passers
                                              /\ \A t \in passers : ~Better(row(t), row(chosen'))
    BY <1>1 DEF RecommendedIsBest, Judged
  <2>. DEFINE passers == {t \in ToSet(thetas) : Passes(Judged(t))}
              row(t) == Row(0, Judged(t), TRUE)
              P == {k \in DOMAIN thetas : Passes(Judged(thetas[k]))}
  <2>1. \A k \in DOMAIN thetas :
           /\ as[k] = Row(k, Judged(thetas[k]), Passes(Judged(thetas[k])))
           /\ Judged(thetas[k]) \in Folds
    BY <1>0, <1>2, ReportsOfThreshold DEF Aggregate
  <2>2. \A k \in DOMAIN thetas :
           /\ as[k].passed = Passes(Judged(thetas[k]))
           /\ as[k].score = row(thetas[k]).score /\ as[k].dd = row(thetas[k]).dd
    <3>. SUFFICES ASSUME NEW k \in DOMAIN thetas
                  PROVE  /\ as[k].passed = Passes(Judged(thetas[k]))
                         /\ as[k].score = row(thetas[k]).score
                         /\ as[k].dd = row(thetas[k]).dd
      OBVIOUS
    <3>. DEFINE p == Passes(Judged(thetas[k]))
    <3>1. as[k] = Row(k, Judged(thetas[k]), p)
      BY <2>1
    <3>. HIDE DEF as, p
    <3>2. /\ as[k].passed = p /\ as[k].score = Score(Judged(thetas[k]))
          /\ as[k].dd = WorstDd(Judged(thetas[k]))
      BY <3>1, RowFields
    <3>3. /\ row(thetas[k]).score = Score(Judged(thetas[k]))
          /\ row(thetas[k]).dd = WorstDd(Judged(thetas[k]))
      BY Zenon DEF Row
    <3>. QED  BY <3>2, <3>3, Zenon DEF p
  <2>3. \A k \in DOMAIN thetas : as[k].score \in Int /\ as[k].dd \in Nat
    <3>. HIDE DEF as
    <3>1. \A k \in DOMAIN thetas : /\ as[k].score = Score(Judged(thetas[k]))
                                   /\ as[k].dd = WorstDd(Judged(thetas[k]))
      BY <2>2, Zenon DEF Row
    <3>. QED  BY <2>1, <3>1, SelectionConstants, WorstDdBounds
  <2>4. DOMAIN as = DOMAIN thetas
    OBVIOUS
  <2>. HIDE DEF as
  <2>5. \A k \in DOMAIN thetas : k \in P <=> as[k].passed
    BY <2>2, Zenon
  <2>6. best = {k \in P : \A j \in P : ~Better(as[j], as[k])}
    BY <2>4, <2>5 DEF Recommendable
  <2>7. passers = {thetas[k] : k \in P}
    BY DEF ToSet
  <2>8. CASE P = {}
    <3>1. best = {} /\ passers = {}
      BY <2>6, <2>7, <2>8
    <3>. QED  BY <1>1, <3>1
  <2>9. CASE P # {}
    <3>1. IsFiniteSet(DOMAIN as) /\ P \subseteq DOMAIN as
      BY <1>2, <2>4, FS_Interval
    <3>2. best # {}
      <4>1. \E k \in P : \A j \in P : ~Better(as[j], as[k])
        <5>. HIDE DEF P
        <5>1. \A k \in P : as[k].score \in Int /\ as[k].dd \in Nat
          BY <2>3, <2>4, <3>1
        <5>. QED  BY <2>9, <3>1, <5>1, BestExists
      <4>. QED  BY <2>6, <4>1
    <3>3. PICK k \in best : chosen' = thetas[k]
      BY <1>1, <3>2
    <3>4. k \in P /\ \A j \in P : ~Better(as[j], as[k])
      BY <2>6, <3>3
    <3>5. chosen' \in passers
      BY <2>7, <3>3, <3>4
    <3>6. ASSUME NEW t \in passers PROVE ~Better(row(t), row(chosen'))
      <4>1. PICK j \in P : t = thetas[j]
        BY <2>7
      <4>2. ~Better(as[j], as[k])
        BY <3>4
      <4>3. /\ as[j].score = row(t).score /\ as[j].dd = row(t).dd
            /\ as[k].score = row(chosen').score /\ as[k].dd = row(chosen').dd
        BY <2>2, <3>3, <3>4, <4>1
      <4>. HIDE DEF row
      <4>. QED  BY <4>2, <4>3 DEF Better
    <3>7. passers # {}
      BY <3>5
    <3>. QED  BY <3>5, <3>6, <3>7
  <2>. QED  BY <2>8, <2>9
<1>. QED  BY <1>5, <1>6, <1>7, <1>8 DEF IInv

-----------------------------------------------------------------------------
LEMMA InitIInv == Init => IInv
<1>. SUFFICES ASSUME Init PROVE IInv
  OBVIOUS
<1>1. /\ command = "none" /\ thetas = <<>> /\ rows = <<>> /\ ran = <<>>
      /\ published = <<>> /\ chosen = 0
  BY DEF Init
<1>2. Commanded
  BY <1>1, SelectionConstants DEF Commanded, Commands
<1>3. RowsOfRuns /\ RowsOfFolds
  BY <1>1, SelectionConstants DEF RowsOfRuns, RowsOfFolds
<1>4. ReportedAsJudged /\ RecommendedIsBest
  BY <1>1 DEF ReportedAsJudged, RankedAsJudged, ComparedAsJudged, Comparing, RecommendedIsBest
<1>. QED  BY <1>2, <1>3, <1>4 DEF IInv

LEMMA BeginStep ==
    ASSUME NEW c \in Commands, NEW ts, IInv, Begin(c, ts),
           (c = "sweep" /\ ts \in Sweeps) \/ (c # "sweep" /\ ts = <<>>)
    PROVE  IInv'
<1>1. /\ command' = c /\ thetas' = ts /\ rows' = <<>> /\ ran' = <<>>
      /\ published' = <<>> /\ chosen' = 0
  BY DEF Begin
<1>2. ts \in Sweeps => ts # <<>>
  BY SelectionConstants
<1>3. Commanded'
  BY <1>1, <1>2, SelectionConstants DEF Commanded
<1>4. RowsOfRuns' /\ RowsOfFolds'
  BY <1>1, SelectionConstants DEF RowsOfRuns, RowsOfFolds
<1>. QED  BY <1>1, <1>3, <1>4, NothingReported DEF IInv

\* A step of a command that has one row for each experiment.
LEMMA EvaluationStep ==
    ASSUME IInv, command \in Commands \ {"sweep"}, command' = command,
           UNCHANGED <<thetas, chosen>>, published' = <<>>, RowsOfRuns'
    PROVE  IInv'
<1>1. Commanded /\ RowsOfFolds
  BY DEF IInv
<1>2. thetas = <<>> /\ thetas' = <<>>
  BY <1>1 DEF Commanded
<1>3. Commanded'
  BY <1>1, <1>2, SelectionConstants DEF Commanded
<1>4. RowsOfFolds'
  BY <1>2 DEF RowsOfFolds
<1>. QED  BY <1>3, <1>4, NothingReported DEF IInv

\* The last step of a command that has one row for each experiment.
LEMMA ReportStep ==
    ASSUME IInv, thetas = <<>>, command' \in {"none", "session"},
           UNCHANGED <<thetas, rows, ran, chosen>>,
           Len(published') \in 0..NCells, ReportedAsJudged', RecommendedIsBest'
    PROVE  IInv'
<1>1. Commanded /\ RowsOfRuns
  BY DEF IInv
<1>2. thetas' = <<>>
  OBVIOUS
<1>3. Commanded'
  BY <1>1, <1>2 DEF Commanded, Commands
<1>4. RowsOfRuns'
  <2>1. command' \notin Commands \ {"session"}
    BY DEF Commands
  <2>2. rows' = rows /\ ran' = ran
    OBVIOUS
  <2>. QED  BY <1>1, <2>1, <2>2 DEF RowsOfRuns
<1>5. RowsOfFolds'
  BY <1>2 DEF RowsOfFolds
<1>. QED  BY <1>3, <1>4, <1>5 DEF IInv

\* Evaluating one more experiment.
LEMMA EvaluateStep ==
    ASSUME IInv, command \in {"matrix", "ablation", "funding"},
           NEW o \in Outcomes, Evaluate(RowOf(Len(rows) + 1, o), o)
    PROVE  IInv'
<1>1. Commanded /\ RowsOfRuns
  BY DEF IInv
<1>2. /\ command \in Commands \ {"sweep"} /\ thetas = <<>> /\ published = <<>>
      /\ Len(rows) \in Nat /\ Len(ran) = Len(rows)
      /\ DOMAIN rows = 1..Len(rows) /\ DOMAIN ran = 1..Len(ran)
  BY <1>1 DEF Commanded, Commands, RowsOfRuns
<1>. DEFINE c == Len(rows) + 1
            w == RowOf(c, o)
<1>3. /\ Len(rows) < NCells
      /\ rows' = Append(rows, w) /\ ran' = Append(ran, o)
      /\ command' = command /\ thetas' = thetas /\ published' = published /\ chosen' = chosen
  BY DEF Evaluate
<1>4. c \in 1..Len(rows) + 1 /\ c <= NCells /\ c \notin DOMAIN rows /\ c \notin DOMAIN ran
  BY <1>2, <1>3, SelectionConstants
<1>5. RowsOfRuns'
  <2>1. w = RowOf(c, o)
    OBVIOUS
  <2>. HIDE DEF w, c
  <2>. QED  BY <1>1, <1>2, <1>3, <1>4, <2>1, RowsStep
<1>. QED  BY <1>2, <1>3, <1>5, EvaluationStep

LEMMA RunExperimentStep ==
    ASSUME IInv, NEW cell \in 1..NCells, NEW o \in Outcomes, RunExperiment(cell, o)
    PROVE  IInv'
<1>1. Commanded /\ RowsOfRuns
  BY DEF IInv
<1>2. /\ command = "session" /\ command \in Commands \ {"sweep"} /\ thetas = <<>>
      /\ Len(rows) \in Nat
  BY <1>1 DEF RunExperiment, Commanded, Commands, RowsOfRuns
<1>3. /\ command' = command /\ thetas' = thetas /\ published' = <<>> /\ chosen' = chosen
  BY DEF RunExperiment
<1>4. cell \in 1..Len(rows) + 1 /\ cell <= NCells
  BY <1>2, SelectionConstants DEF RunExperiment
<1>5. PICK w, e :
         /\ (w = RowOf(cell, o) /\ e = o) \/ (w = Torn /\ e = NotRun)
         /\ rows' = (IF cell \in DOMAIN rows THEN [rows EXCEPT ![cell] = w]
                                             ELSE Append(rows, w))
         /\ ran' = (IF cell \in DOMAIN ran THEN [ran EXCEPT ![cell] = e]
                                           ELSE Append(ran, e))
  BY DEF RunExperiment
<1>6. e \in Outcomes
  BY <1>5, TornFacts
<1>7. RowsOfRuns'
  BY <1>1, <1>2, <1>3, <1>4, <1>5, <1>6, RowsStep
<1>. QED  BY <1>2, <1>3, <1>7, EvaluationStep

\* The cells a ranking is over.
LEMMA AllRows ==
    ASSUME RowsOfRuns, thetas = <<>>, command \in Commands \ {"session"}
    PROVE  {i \in DOMAIN rows : rows[i] # Torn} = DOMAIN rows
BY DEF RowsOfRuns

LEMMA StepIInv == IInv /\ [Next]_vars => IInv'
<1>. SUFFICES ASSUME IInv, [Next]_vars PROVE IInv'
  OBVIOUS
<1>0. /\ Commanded /\ RowsOfRuns /\ RowsOfFolds /\ ReportedAsJudged /\ RecommendedIsBest
  BY DEF IInv
<1>1. ASSUME NEW c \in Commands \ {"sweep"}, Begin(c, <<>>) PROVE IInv'
  BY <1>1, BeginStep
<1>2. ASSUME NEW ts \in Sweeps, Begin("sweep", ts) PROVE IInv'
  <2>1. "sweep" \in Commands
    BY DEF Commands
  <2>. QED  BY <1>2, <2>1, BeginStep
<1>3. CASE Fail
  <2>1. /\ command' = "none" /\ UNCHANGED <<thetas, rows, ran, published, chosen>>
        /\ thetas' = thetas /\ rows' = rows /\ ran' = ran /\ published' = published
        /\ chosen' = chosen
    BY <1>3 DEF Fail
  <2>2. ReportedAsJudged' /\ RecommendedIsBest'
    BY <1>0, <2>1, StillReported
  <2>3. Commanded'
    BY <1>0, <2>1 DEF Commanded, Commands
  <2>4. RowsOfRuns' /\ RowsOfFolds'
    BY <1>0, <2>1 DEF RowsOfRuns, RowsOfFolds, Fold, Commands
  <2>. QED  BY <2>2, <2>3, <2>4 DEF IInv
<1>4. ASSUME NEW cell \in 1..NCells, NEW o \in Outcomes, RunExperiment(cell, o)
      PROVE  IInv'
  BY <1>4, RunExperimentStep
<1>5. CASE RankDirectory
  <2>1. /\ command = "session" /\ command' = command
        /\ UNCHANGED <<thetas, rows, ran>> /\ UNCHANGED <<thetas, rows, ran, chosen>>
        /\ published' \in Ranked({i \in DOMAIN rows : rows[i] # Torn})
    BY <1>5 DEF RankDirectory
  <2>2. thetas = <<>>
    BY <1>0, <2>1 DEF Commanded, Commands
  <2>3. ReportedAsJudged' /\ RecommendedIsBest' /\ Len(published') \in 0..NCells
    BY <1>0, <2>1, <2>2, RankingReported
  <2>. QED  BY <2>1, <2>2, <2>3, ReportStep
<1>6. ASSUME NEW o \in Outcomes, EvaluateCell(o) PROVE IInv'
  BY <1>6, EvaluateStep DEF EvaluateCell
<1>7. ASSUME NEW o \in Outcomes, RunVariant(o) PROVE IInv'
  BY <1>7, EvaluateStep DEF RunVariant
<1>8. CASE PublishMatrix
  <2>1. /\ command = "matrix" /\ command' = "none"
        /\ UNCHANGED <<thetas, rows, ran>> /\ UNCHANGED <<thetas, rows, ran, chosen>>
        /\ published' \in Ranked(DOMAIN rows)
    BY <1>8 DEF PublishMatrix, Report
  <2>2. thetas = <<>> /\ command \in Commands \ {"session"}
    BY <1>0, <2>1 DEF Commanded, Commands
  <2>3. published' \in Ranked({i \in DOMAIN rows : rows[i] # Torn})
    BY <1>0, <2>1, <2>2, AllRows
  <2>4. ReportedAsJudged' /\ RecommendedIsBest' /\ Len(published') \in 0..NCells
    BY <1>0, <2>1, <2>2, <2>3, RankingReported
  <2>. QED  BY <2>1, <2>2, <2>4, ReportStep
<1>9. CASE CompareVariants
  <2>1. PICK r \in RankedByScore(2..NCells) :
           published' = [i \in DOMAIN r |-> Compared(r[i], rows[1])]
    BY <1>9 DEF CompareVariants, Report
  <2>2. /\ command = "ablation" /\ command' = "none" /\ Len(rows) = NCells
        /\ UNCHANGED <<thetas, rows, ran>> /\ UNCHANGED <<thetas, rows, ran, chosen>>
    BY <1>9 DEF CompareVariants, Report
  <2>3. thetas = <<>> /\ command \in Commands \ {"session"}
    BY <1>0, <2>2 DEF Commanded, Commands
  <2>4. \A i \in DOMAIN rows : rows[i] # Torn
    BY <1>0, <2>3 DEF RowsOfRuns
  <2>5. 2..NCells \subseteq DOMAIN rows /\ rows # <<>>
    BY <1>0, <2>2, <2>3, SelectionConstants DEF RowsOfRuns
  <2>6. RowsOf(r, 2..NCells) /\ \A i, j \in DOMAIN r : ByScore(r[i], r[j]) => i < j
    BY <1>0, <2>3, <2>4, <2>5, ComparisonFacts
  <2>7. ReportedAsJudged' /\ RecommendedIsBest' /\ Len(published') \in 0..NCells
    BY <1>0, <2>1, <2>2, <2>3, <2>4, <2>5, <2>6, ComparisonReported
  <2>. QED  BY <2>2, <2>3, <2>7, ReportStep
<1>10. ASSUME NEW folds \in SeqOf(Reports, NFolds), RunArm(folds) PROVE IInv'
  <2>. DEFINE o == [end |-> "evaluated", folds |-> folds]
  <2>1. o \in Outcomes
    BY DEF Outcomes
  <2>2. o.folds = folds /\ Passed(o) = Passes(folds)
    <3>1. o.end = "evaluated" /\ o.folds = folds
      OBVIOUS
    <3>. HIDE DEF o
    <3>2. Passed(o) <=> Passes(folds)
      BY <3>1, Zenon DEF Passed
    <3>. QED  BY <3>1, <3>2, Zenon DEF Passed, Passes
  <2>3. RowOf(Len(rows) + 1, o) = Row(Len(rows) + 1, folds, Passes(folds))
    BY <2>2, Zenon DEF RowOf
  <2>. HIDE DEF o
  <2>4. command = "funding" /\ Evaluate(RowOf(Len(rows) + 1, o), o)
    BY <1>10, <2>3 DEF RunArm, o
  <2>. QED  BY <2>1, <2>4, EvaluateStep
<1>11. CASE CompareArms
  <2>1. /\ command = "funding" /\ command' = "none" /\ Len(rows) = 2
        /\ UNCHANGED <<thetas, rows, ran>> /\ UNCHANGED <<thetas, rows, ran, chosen>>
        /\ published' = <<Compared(rows[2], rows[1])>>
    BY <1>11 DEF CompareArms, Report
  <2>2. thetas = <<>> /\ command \in Commands \ {"session"}
    BY <1>0, <2>1 DEF Commanded, Commands
  <2>3. /\ \A i \in DOMAIN rows : rows[i] # Torn
        /\ rows \in Seq(RowType) /\ ran \in Seq(Outcomes) /\ Len(ran) = 2 /\ 2 <= NCells
        /\ \A i \in DOMAIN rows : rows[i] = RowOf(i, ran[i])
    BY <1>0, <2>1, <2>2 DEF RowsOfRuns
  <2>. DEFINE r == <<rows[2]>>
  <2>4. /\ 2 \in DOMAIN rows /\ rows # <<>> /\ rows[2] \in RowType /\ ran[2] \in Outcomes
        /\ rows[2] = RowOf(2, ran[2])
    <3>1. 2 \in DOMAIN rows /\ rows # <<>>
      <4>1. DOMAIN rows = 1..2
        BY <2>1, <2>3
      <4>. QED  BY <4>1
    <3>2. rows[2] \in RowType /\ ran[2] \in Outcomes
      BY <2>1, <2>3
    <3>. QED  BY <2>3, <3>1, <3>2
  <2>5. rows[2].cell = 2
    BY <2>4, RowFacts
  <2>6. 2..Len(rows) = {2} /\ Cardinality({2}) = 1
    BY <2>1, FS_Singleton
  <2>7. RowsOf(r, 2..Len(rows))
    <3>1. r \in Seq(RowType) /\ Len(r) = 1 /\ DOMAIN r = {1} /\ r[1] = rows[2]
      BY <2>4
    <3>. HIDE DEF r
    <3>2. Len(r) = Cardinality(2..Len(rows)) /\ Len(r) \in 0..NCells
      <4>1. Len(r) = Cardinality(2..Len(rows))
        BY <2>6, <3>1, Zenon
      <4>2. 1 \in 0..NCells
        BY SelectionConstants
      <4>. QED  BY <3>1, <4>1, <4>2, Zenon
    <3>3. \A i \in DOMAIN r : /\ r[i].cell \in 2..Len(rows) /\ ran[r[i].cell] \in Outcomes
                              /\ r[i] = RowOf(r[i].cell, ran[r[i].cell])
      BY <2>4, <2>5, <2>6, <3>1
    <3>4. \A i, j \in DOMAIN r : r[i].cell = r[j].cell => i = j
      BY <3>1
    <3>5. \A c \in 2..Len(rows) : \E i \in DOMAIN r : r[i].cell = c
      BY <2>5, <2>6, <3>1
    <3>. QED  BY <3>1, <3>2, <3>3, <3>4, <3>5 DEF RowsOf
  <2>8. \A i, j \in DOMAIN r : ByScore(r[i], r[j]) => i < j
    <3>1. rows[2].score \in Int
      BY <2>4, Zenon DEF RowType
    <3>2. DOMAIN r = {1} /\ r[1] = rows[2]
      OBVIOUS
    <3>. HIDE DEF r
    <3>3. ~(rows[2].score > rows[2].score)
      BY <3>1, Ordering
    <3>. QED  BY <3>2, <3>3, Zenon DEF ByScore
  <2>9. published' = [i \in DOMAIN r |-> Compared(r[i], rows[1])]
    BY <2>1
  <2>. HIDE DEF r
  <2>10. ReportedAsJudged' /\ RecommendedIsBest' /\ Len(published') \in 0..NCells
    BY <1>0, <2>1, <2>2, <2>3, <2>4, <2>7, <2>8, <2>9, ComparisonReported
  <2>. QED  BY <2>1, <2>2, <2>10, ReportStep
<1>12. ASSUME NEW judged \in [ToSet(thetas) -> Reports], SweepFold(judged) PROVE IInv'
  <2>1. /\ command = "sweep" /\ command' = command /\ thetas' = thetas
        /\ published' = published /\ chosen' = chosen /\ Len(ran) < NFolds
        /\ rows' = Append(rows, Fold(judged)) /\ ran' = Append(ran, judged)
    BY <1>12 DEF SweepFold
  <2>2. thetas # <<>> /\ published = <<>>
    BY <1>0, <2>1 DEF Commanded, Commands
  <2>3. /\ rows \in Seq([DOMAIN thetas -> Reports])
        /\ ran \in Seq([ToSet(thetas) -> Reports])
        /\ Len(ran) = Len(rows) /\ Len(rows) \in Nat
        /\ DOMAIN rows = 1..Len(rows) /\ DOMAIN ran = 1..Len(rows)
        /\ \A f \in DOMAIN rows : rows[f] = Fold(ran[f])
    BY <1>0, <2>2 DEF RowsOfFolds
  <2>4. Fold(judged) \in [DOMAIN thetas -> Reports]
    <3>1. \A k \in DOMAIN thetas : thetas[k] \in ToSet(thetas)
      BY DEF ToSet
    <3>. QED  BY <3>1 DEF Fold
  <2>5. /\ rows' \in Seq([DOMAIN thetas -> Reports]) /\ Len(rows') = Len(rows) + 1
        /\ ran' \in Seq([ToSet(thetas) -> Reports]) /\ Len(ran') = Len(rows) + 1
        /\ DOMAIN rows' = 1..Len(rows) + 1
    BY <2>1, <2>3, <2>4
  <2>6. ASSUME NEW f \in DOMAIN rows' PROVE rows'[f] = Fold(ran'[f])
    <3>1. CASE f = Len(rows) + 1
      BY <2>1, <2>3, <3>1
    <3>2. CASE f # Len(rows) + 1
      <4>1. f \in DOMAIN rows
        BY <2>3, <2>5, <3>2
      <4>2. rows'[f] = rows[f] /\ ran'[f] = ran[f]
        BY <2>1, <2>3, <4>1
      <4>. QED  BY <2>3, <4>1, <4>2
    <3>. QED  BY <3>1, <3>2
  <2>7. RowsOfFolds'
    <3>1. Len(rows') <= NFolds
      BY <2>1, <2>3, <2>5, SelectionConstants
    <3>2. \A f \in DOMAIN rows' : rows'[f] = [k \in DOMAIN thetas' |-> ran'[f][thetas'[k]]]
      BY <2>1, <2>6 DEF Fold
    <3>. QED  BY <2>1, <2>5, <3>1, <3>2 DEF RowsOfFolds, Fold
  <2>8. RowsOfRuns'
    BY <2>1, <2>2 DEF RowsOfRuns
  <2>9. Commanded'
    BY <1>0, <2>1 DEF Commanded
  <2>. QED  BY <2>1, <2>2, <2>7, <2>8, <2>9, NothingReported DEF IInv
<1>13. CASE Recommend
  <2>1. command = "sweep"
    BY <1>13 DEF Recommend
  <2>. QED  BY <1>13, <2>1, Recommended
<1>14. CASE UNCHANGED vars
  <2>1. /\ command' = command /\ UNCHANGED <<thetas, rows, ran, published, chosen>>
        /\ thetas' = thetas /\ rows' = rows /\ ran' = ran /\ published' = published
        /\ chosen' = chosen
    BY <1>14 DEF vars
  <2>2. ReportedAsJudged' /\ RecommendedIsBest'
    BY <1>0, <2>1, StillReported
  <2>3. Commanded'
    BY <1>0, <2>1 DEF Commanded
  <2>4. RowsOfRuns' /\ RowsOfFolds'
    BY <1>0, <2>1 DEF RowsOfRuns, RowsOfFolds, Fold
  <2>. QED  BY <2>2, <2>3, <2>4 DEF IInv
<1>. QED
  BY <1>1, <1>2, <1>3, <1>4, <1>5, <1>6, <1>7, <1>8, <1>9, <1>10, <1>11, <1>12, <1>13,
     <1>14 DEF Next

\* The invariant of every reachable state.
THEOREM Invariant == Spec => []IInv
BY InitIInv, StepIInv, PTL DEF Spec

(***************************************************************************)
(* Whatever is run, fails or is cut short, every row is filed under the    *)
(* experiment or fold it is of.                                            *)
(***************************************************************************)
THEOREM TypeCorrect == Spec => []TypeOK
BY IInvTypeOK, Invariant, PTL

(***************************************************************************)
(* A ranking or comparison, of any number of experiments, is of what was   *)
(* evaluated and nothing else, sorted as its command says.                 *)
(***************************************************************************)
THEOREM Reported == Spec => []ReportedAsJudged
<1>1. IInv => ReportedAsJudged
  BY DEF IInv
<1>. QED  BY <1>1, Invariant, PTL

(***************************************************************************)
(* A sweep of any number of different thresholds recommends a best one of  *)
(* those that pass on the folds replayed at them, and one if any passes.   *)
(***************************************************************************)
THEOREM RecommendsBest == Spec => []RecommendedIsBest
<1>1. IInv => RecommendedIsBest
  BY DEF IInv
<1>. QED  BY <1>1, Invariant, PTL

-----------------------------------------------------------------------------
(***************************************************************************)
(* FrozenModel: a frozen winner is judged out of sample by the calibrator  *)
(* of its own training, for any number of symbols and bars, unless a       *)
(* freeze was under way or cut short.                                      *)
(*                                                                         *)
(* Verified, the test of the two hashes, is not used: the hash leaves out  *)
(* the bars of the data sets, and what it guards against is here ruled out *)
(* by the order of the writes.                                             *)
(***************************************************************************)
\* An artifact directory holds one training, the one entry e speaks of.
Whole(a, e) ==
    /\ a.manifest = a.model
    /\ a.model.calibrated => a.calibrator = a.model
    /\ e.cutoff + 1 = a.model.bars

\* What the freeze at hand has in memory was trained on enough bars.
Trained ==
    pc \in {"model", "calibrator", "manifest"} =>
        work.bars > Horizon /\ work.code > 0

\* The directory being written holds the training in memory.
Writing ==
    /\ pc \in {"calibrator", "manifest"} => dirty /\ saved[winner].model = work
    /\ pc = "manifest" /\ work.calibrated => saved[winner].calibrator = work

\* The winners this run has frozen are the ones before the winner at hand.
Collected ==
    /\ pc # "finish" => \A s \in Symbols : s >= winner => entries[s] = NoEntry
    /\ \A s \in Symbols : entries[s] # NoEntry => Whole(saved[s], entries[s])

\* Nothing on disk is newer than the freeze manifest.
Settled ==
    ~dirty => \A s \in Symbols : frozen[s] # NoEntry => Whole(saved[s], frozen[s])

FreezeInv == FreezeType /\ Trained /\ Writing /\ Collected /\ Settled /\ OutOfSample

-----------------------------------------------------------------------------
LEMMA FreezeConstants ==
    /\ NSymbols \in Nat \ {0} /\ Horizon \in Nat \ {0}
    /\ MaxBars \in Nat /\ MaxBars > Horizon /\ MaxCode \in Nat \ {0}
BY FrozenModelAssumption

LEMMA FreezeTypes ==
    ASSUME FreezeType
    PROVE  /\ \A s \in Symbols :
                /\ history[s] \in 0..MaxBars
                /\ entries[s] \in Entries \cup {NoEntry}
                /\ frozen[s] \in Entries \cup {NoEntry}
                /\ saved[s].model \in Trainings /\ saved[s].calibrator \in Trainings
                /\ saved[s].manifest \in Trainings
           /\ winner \in Symbols /\ work \in Trainings
           /\ work.bars \in 0..MaxBars /\ work.code \in 0..MaxCode
BY DEF FreezeType, Trainings

LEMMA InitFreezeInv == FreezeInit => FreezeInv
<1>. SUFFICES ASSUME FreezeInit PROVE FreezeInv
  OBVIOUS
<1>. USE DEF FreezeInit
<1>1. FreezeType
  <2>1. NoTraining \in Trainings
    BY FreezeConstants DEF NoTraining, Trainings
  <2>2. NoArtifact \in [model : Trainings, calibrator : Trainings, manifest : Trainings]
    BY <2>1 DEF NoArtifact
  <2>3. NoVerdict \in [start : 0..MaxBars, model : 0..MaxBars, calibrator : 0..MaxBars,
                       dirty : BOOLEAN]
    BY FreezeConstants DEF NoVerdict
  <2>4. history \in [Symbols -> 0..MaxBars]
    <3>1. history \in [Symbols -> 0..Horizon + 1] /\ 0..Horizon + 1 \subseteq 0..MaxBars
      BY FreezeConstants
    <3>. QED  BY <3>1
  <2>5. 1 \in Symbols /\ 1 \in 1..MaxCode
    BY FreezeConstants DEF Symbols
  <2>. QED  BY <2>1, <2>2, <2>3, <2>4, <2>5 DEF FreezeType
<1>2. OutOfSample
  BY FreezeConstants DEF OutOfSample, NoVerdict
<1>3. Trained /\ Writing
  BY DEF Trained, Writing
<1>4. Collected /\ Settled
  BY DEF Collected, Settled
<1>. QED  BY <1>1, <1>2, <1>3, <1>4 DEF FreezeInv

\* Ending a run forgets what it held in memory.
LEMMA Ended ==
    ASSUME FreezeType, EndFreeze, saved' = saved
    PROVE  /\ pc' = "idle" /\ winner' \in Symbols /\ work' \in Trainings
           /\ entries' \in [Symbols -> Entries \cup {NoEntry}]
           /\ Trained' /\ Writing' /\ Collected'
<1>1. /\ pc' = "idle" /\ winner' = 1 /\ work' = NoTraining
      /\ entries' = [s \in Symbols |-> NoEntry]
  BY DEF EndFreeze
<1>2. 1 \in Symbols /\ NoTraining \in Trainings
  BY FreezeConstants DEF Symbols, NoTraining, Trainings
<1>3. \A s \in Symbols : entries'[s] = NoEntry
  BY <1>1
<1>4. Trained' /\ Writing'
  BY <1>1 DEF Trained, Writing
<1>5. Collected'
  BY <1>1, <1>3 DEF Collected
<1>. QED  BY <1>1, <1>2, <1>4, <1>5

LEMMA StepFreezeInv == FreezeInv /\ [FreezeNext]_freezeVars => FreezeInv'
<1>. SUFFICES ASSUME FreezeInv, [FreezeNext]_freezeVars PROVE FreezeInv'
  OBVIOUS
<1>0. FreezeType /\ Trained /\ Writing /\ Collected /\ Settled /\ OutOfSample
  BY DEF FreezeInv
<1>1. ASSUME NEW s \in Symbols, Extend(s) PROVE FreezeInv'
  <2>1. /\ history' = [history EXCEPT ![s] = @ + 1] /\ history[s] < MaxBars
        /\ code' = code /\ pc' = pc /\ winner' = winner /\ work' = work
        /\ entries' = entries /\ saved' = saved /\ frozen' = frozen
        /\ dirty' = dirty /\ verdict' = verdict
    BY <1>1 DEF Extend, freezing, disk
  <2>2. history' \in [Symbols -> 0..MaxBars]
    <3>1. history[s] + 1 \in 0..MaxBars
      BY <1>0, <2>1, FreezeTypes, FreezeConstants
    <3>. QED  BY <1>0, <2>1, <3>1 DEF FreezeType
  <2>3. FreezeType'
    BY <1>0, <2>1, <2>2 DEF FreezeType
  <2>. QED  BY <1>0, <2>1, <2>3 DEF FreezeInv, Trained, Writing, Collected, Settled, OutOfSample
<1>2. CASE Commit
  <2>1. /\ code' = code + 1 /\ code < MaxCode /\ history' = history
        /\ pc' = pc /\ winner' = winner /\ work' = work
        /\ entries' = entries /\ saved' = saved /\ frozen' = frozen
        /\ dirty' = dirty /\ verdict' = verdict
    BY <1>2 DEF Commit, freezing, disk
  <2>2. code' \in 1..MaxCode
    BY <1>0, <2>1, FreezeConstants DEF FreezeType
  <2>3. FreezeType'
    BY <1>0, <2>1, <2>2 DEF FreezeType
  <2>. QED  BY <1>0, <2>1, <2>3 DEF FreezeInv, Trained, Writing, Collected, Settled, OutOfSample
<1>3. CASE StartFreeze
  <2>1. /\ pc = "idle" /\ pc' = "train" /\ history' = history /\ code' = code
        /\ winner' = winner /\ work' = work
        /\ entries' = entries /\ saved' = saved /\ frozen' = frozen
        /\ dirty' = dirty /\ verdict' = verdict
    BY <1>3 DEF StartFreeze, freezing, disk
  <2>2. FreezeType'
    BY <1>0, <2>1 DEF FreezeType
  <2>. QED  BY <1>0, <2>1, <2>2 DEF FreezeInv, Trained, Writing, Collected, Settled, OutOfSample
<1>4. ASSUME NEW calibrated \in BOOLEAN, Train(calibrated) PROVE FreezeInv'
  <2>1. /\ pc = "train" /\ pc' = "model" /\ history' = history /\ code' = code
        /\ winner' = winner /\ entries' = entries /\ saved' = saved /\ frozen' = frozen
        /\ dirty' = dirty /\ verdict' = verdict
        /\ work' = [bars |-> history[winner], code |-> code, calibrated |-> calibrated]
        /\ history[winner] > Horizon
    BY <1>4 DEF Train, Trainable, disk
  <2>2. /\ work' \in Trainings /\ work'.bars > Horizon /\ work'.code > 0
    <3>1. history[winner] \in 0..MaxBars /\ code \in 0..MaxCode /\ code > 0
      BY <1>0, FreezeTypes, FreezeConstants DEF FreezeType
    <3>. QED  BY <2>1, <3>1 DEF Trainings
  <2>3. FreezeType'
    BY <1>0, <2>1, <2>2 DEF FreezeType
  <2>4. Trained' /\ Writing'
    BY <2>1, <2>2 DEF Trained, Writing
  <2>5. Collected' /\ Settled' /\ OutOfSample'
    BY <1>0, <2>1 DEF Collected, Settled, OutOfSample
  <2>. QED  BY <2>3, <2>4, <2>5 DEF FreezeInv
<1>5. CASE SaveModel
  <2>1. /\ pc = "model" /\ pc' = (IF work.calibrated THEN "calibrator" ELSE "manifest")
        /\ history' = history /\ code' = code
        /\ winner' = winner /\ work' = work /\ entries' = entries /\ frozen' = frozen
        /\ dirty' = TRUE /\ verdict' = verdict
        /\ saved' = [saved EXCEPT ![winner].model = work]
    BY <1>5 DEF SaveModel, freezing
  <2>2. winner \in Symbols /\ work \in Trainings
    BY <1>0, FreezeTypes
  <2>3. saved'[winner].model = work /\ \A s \in Symbols \ {winner} : saved'[s] = saved[s]
    BY <1>0, <2>1, <2>2 DEF FreezeType
  <2>4. FreezeType'
    <3>1. saved' \in [Symbols -> [model : Trainings, calibrator : Trainings,
                                  manifest : Trainings]]
      BY <1>0, <2>1, <2>2 DEF FreezeType
    <3>. QED  BY <1>0, <2>1, <3>1 DEF FreezeType
  <2>5. Trained'
    BY <1>0, <2>1 DEF Trained
  <2>6. Writing'
    BY <2>1, <2>3 DEF Writing
  <2>7. Collected'
    <3>1. winner \in Int /\ entries[winner] = NoEntry
      BY <1>0, <2>1, <2>2 DEF Collected, Symbols
    <3>. QED  BY <1>0, <2>1, <2>3, <3>1 DEF Collected
  <2>8. Settled' /\ OutOfSample'
    BY <1>0, <2>1 DEF Settled, OutOfSample
  <2>. QED  BY <2>4, <2>5, <2>6, <2>7, <2>8 DEF FreezeInv
<1>6. CASE SaveCalibrator
  <2>1. /\ pc = "calibrator" /\ pc' = "manifest"
        /\ history' = history /\ code' = code
        /\ winner' = winner /\ work' = work /\ entries' = entries /\ frozen' = frozen
        /\ dirty' = dirty /\ verdict' = verdict
        /\ saved' = [saved EXCEPT ![winner].calibrator = work]
    BY <1>6 DEF SaveCalibrator, freezing
  <2>2. winner \in Symbols /\ work \in Trainings
    BY <1>0, FreezeTypes
  <2>3. /\ saved'[winner].calibrator = work /\ saved'[winner].model = saved[winner].model
        /\ \A s \in Symbols \ {winner} : saved'[s] = saved[s]
    BY <1>0, <2>1, <2>2 DEF FreezeType
  <2>4. FreezeType'
    <3>1. saved' \in [Symbols -> [model : Trainings, calibrator : Trainings,
                                  manifest : Trainings]]
      BY <1>0, <2>1, <2>2 DEF FreezeType
    <3>. QED  BY <1>0, <2>1, <3>1 DEF FreezeType
  <2>5. Trained'
    BY <1>0, <2>1 DEF Trained
  <2>6. Writing' /\ dirty
    BY <1>0, <2>1, <2>3 DEF Writing
  <2>7. Collected'
    <3>1. winner \in Int /\ entries[winner] = NoEntry
      BY <1>0, <2>1, <2>2 DEF Collected, Symbols
    <3>. QED  BY <1>0, <2>1, <2>3, <3>1 DEF Collected
  <2>8. Settled' /\ OutOfSample'
    BY <1>0, <2>1, <2>6 DEF Settled, OutOfSample
  <2>. QED  BY <2>4, <2>5, <2>6, <2>7, <2>8 DEF FreezeInv
<1>7. CASE SaveManifest
  <2>. DEFINE e == [cutoff |-> work.bars - 1, hash |-> work.code]
  <2>1. /\ pc = "manifest" /\ history' = history /\ code' = code
        /\ work' = work /\ frozen' = frozen /\ dirty' = dirty /\ verdict' = verdict
        /\ saved' = [saved EXCEPT ![winner].manifest = work]
        /\ entries' = [entries EXCEPT ![winner] = e]
        /\ \/ winner < NSymbols /\ winner' = winner + 1 /\ pc' = "train"
           \/ pc' = "finish" /\ winner' = winner
    BY <1>7 DEF SaveManifest, Cutoff, Hash
  <2>2. /\ winner \in Symbols /\ work \in Trainings
        /\ work.bars \in 0..MaxBars /\ work.code \in 0..MaxCode
    BY <1>0, FreezeTypes
  <2>3. /\ saved'[winner].manifest = work /\ saved'[winner].model = saved[winner].model
        /\ saved'[winner].calibrator = saved[winner].calibrator
        /\ \A s \in Symbols \ {winner} : saved'[s] = saved[s]
    BY <1>0, <2>1, <2>2 DEF FreezeType
  <2>4. /\ entries'[winner] = e
        /\ \A s \in Symbols \ {winner} : entries'[s] = entries[s]
    BY <1>0, <2>1, <2>2 DEF FreezeType
  <2>5. e \in Entries /\ e.cutoff + 1 = work.bars
    <3>1. work.bars > Horizon /\ work.code > 0
      BY <1>0, <2>1 DEF Trained
    <3>2. work.bars - 1 \in Horizon .. MaxBars - 1 /\ work.code \in 1..MaxCode
      BY <2>2, <3>1, FreezeConstants
    <3>. QED  BY <2>2, <3>2 DEF Entries
  <2>. HIDE DEF e
  <2>6. winner' \in Symbols
    BY <2>1, <2>2, FreezeConstants DEF Symbols
  <2>7. FreezeType'
    <3>1. saved' \in [Symbols -> [model : Trainings, calibrator : Trainings,
                                  manifest : Trainings]]
      BY <1>0, <2>1, <2>2 DEF FreezeType
    <3>2. entries' \in [Symbols -> Entries \cup {NoEntry}]
      BY <1>0, <2>1, <2>2, <2>5 DEF FreezeType
    <3>. QED  BY <1>0, <2>1, <2>6, <3>1, <3>2 DEF FreezeType
  <2>8. Trained' /\ Writing'
    BY <2>1 DEF Trained, Writing
  <2>9. dirty /\ saved[winner].model = work
        /\ (work.calibrated => saved[winner].calibrator = work)
    BY <1>0, <2>1 DEF Writing
  <2>10. Collected'
    <3>1. Whole(saved'[winner], entries'[winner])
      BY <2>3, <2>4, <2>5, <2>9 DEF Whole
    <3>2. \A s \in Symbols : entries'[s] # NoEntry => Whole(saved'[s], entries'[s])
      BY <1>0, <2>3, <2>4, <3>1 DEF Collected
    <3>3. ASSUME pc' # "finish", NEW s \in Symbols, s >= winner'
          PROVE  entries'[s] = NoEntry
      <4>1. winner' = winner + 1
        BY <2>1, <3>3
      <4>2. s \in Int /\ winner \in Int
        BY <2>2 DEF Symbols
      <4>3. s # winner /\ s >= winner
        BY <3>3, <4>1, <4>2
      <4>4. entries[s] = NoEntry
        BY <1>0, <2>1, <4>3 DEF Collected
      <4>. QED  BY <2>4, <4>3, <4>4
    <3>. QED  BY <3>2, <3>3 DEF Collected
  <2>11. Settled' /\ OutOfSample'
    BY <1>0, <2>1, <2>9 DEF Settled, OutOfSample
  <2>. QED  BY <2>7, <2>8, <2>10, <2>11 DEF FreezeInv
<1>8. CASE WriteFreezeManifest
  <2>1. /\ frozen' = entries /\ dirty' = FALSE /\ EndFreeze
        /\ history' = history /\ code' = code /\ saved' = saved /\ verdict' = verdict
    BY <1>8 DEF WriteFreezeManifest
  <2>2. /\ pc' = "idle" /\ winner' \in Symbols /\ work' \in Trainings
        /\ entries' \in [Symbols -> Entries \cup {NoEntry}]
        /\ Trained' /\ Writing' /\ Collected'
    BY <1>0, <2>1, Ended
  <2>3. FreezeType'
    BY <1>0, <2>1, <2>2 DEF FreezeType
  <2>4. Settled'
    BY <1>0, <2>1 DEF Collected, Settled
  <2>5. OutOfSample'
    BY <1>0, <2>1 DEF OutOfSample
  <2>. QED  BY <2>2, <2>3, <2>4, <2>5 DEF FreezeInv
<1>9. CASE Abort
  <2>1. /\ frozen' = frozen /\ dirty' = dirty /\ EndFreeze
        /\ history' = history /\ code' = code /\ saved' = saved /\ verdict' = verdict
    BY <1>9 DEF Abort, disk
  <2>2. /\ pc' = "idle" /\ winner' \in Symbols /\ work' \in Trainings
        /\ entries' \in [Symbols -> Entries \cup {NoEntry}]
        /\ Trained' /\ Writing' /\ Collected'
    BY <1>0, <2>1, Ended
  <2>3. FreezeType'
    BY <1>0, <2>1, <2>2 DEF FreezeType
  <2>4. Settled' /\ OutOfSample'
    BY <1>0, <2>1 DEF Settled, OutOfSample
  <2>. QED  BY <2>2, <2>3, <2>4 DEF FreezeInv
<1>10. ASSUME NEW s \in Symbols, NEW last \in 0..MaxBars, Forward(s, last) PROVE FreezeInv'
  <2>1. /\ frozen[s] # NoEntry
        /\ verdict' = [ start      |-> frozen[s].cutoff + 1,
                        model      |-> saved[s].model.bars,
                        calibrator |-> LoadedCalibrator(saved[s]).bars,
                        dirty      |-> dirty ]
        /\ history' = history /\ code' = code /\ pc' = pc /\ winner' = winner
        /\ work' = work /\ entries' = entries /\ saved' = saved /\ frozen' = frozen
        /\ dirty' = dirty
    BY <1>10 DEF Forward, Judgeable, freezing, disk
  <2>2. /\ frozen[s] \in Entries
        /\ saved[s].model \in Trainings /\ saved[s].calibrator \in Trainings
    BY <1>0, <2>1, FreezeTypes
  <2>3. LoadedCalibrator(saved[s]) \in Trainings
    BY <2>2 DEF LoadedCalibrator
  <2>4. FreezeType'
    <3>1. frozen[s].cutoff + 1 \in 0..MaxBars
      BY <2>2, FreezeConstants DEF Entries
    <3>2. saved[s].model.bars \in 0..MaxBars /\ LoadedCalibrator(saved[s]).bars \in 0..MaxBars
      BY <2>2, <2>3 DEF Trainings
    <3>3. dirty \in BOOLEAN
      BY <1>0 DEF FreezeType
    <3>4. verdict' \in [start : 0..MaxBars, model : 0..MaxBars, calibrator : 0..MaxBars,
                        dirty : BOOLEAN]
      BY <2>1, <3>1, <3>2, <3>3
    <3>. QED  BY <1>0, <2>1, <3>4 DEF FreezeType
  <2>5. OutOfSample'
    <3>. SUFFICES ASSUME ~dirty
                  PROVE /\ saved[s].model.bars <= frozen[s].cutoff + 1
                        /\ LoadedCalibrator(saved[s]).bars = saved[s].model.bars
      BY <2>1 DEF OutOfSample
    <3>1. Whole(saved[s], frozen[s])
      BY <1>0, <2>1 DEF Settled
    <3>2. saved[s].model.bars \in Int
      BY <2>2, FreezeConstants DEF Trainings
    <3>. QED  BY <3>1, <3>2 DEF Whole, LoadedCalibrator
  <2>6. Trained' /\ Writing' /\ Collected' /\ Settled'
    BY <1>0, <2>1 DEF Trained, Writing, Collected, Settled
  <2>. QED  BY <2>4, <2>5, <2>6 DEF FreezeInv
<1>11. CASE UNCHANGED freezeVars
  <2>1. /\ history' = history /\ code' = code /\ pc' = pc /\ winner' = winner
        /\ work' = work /\ entries' = entries /\ saved' = saved /\ frozen' = frozen
        /\ dirty' = dirty /\ verdict' = verdict
    BY <1>11 DEF freezeVars
  <2>2. FreezeType'
    BY <1>0, <2>1 DEF FreezeType
  <2>. QED  BY <1>0, <2>1, <2>2 DEF FreezeInv, Trained, Writing, Collected, Settled, OutOfSample
<1>. QED  BY <1>1, <1>2, <1>3, <1>4, <1>5, <1>6, <1>7, <1>8, <1>9, <1>10, <1>11 DEF FreezeNext

\* The invariant of every reachable state.
THEOREM FreezeInvariant == FreezeSpec => []FreezeInv
BY InitFreezeInv, StepFreezeInv, PTL DEF FreezeSpec

(***************************************************************************)
(* The freeze only ever holds and writes what its types allow: an entry's  *)
(* cutoff is a bar that has resolved labels before it.                     *)
(***************************************************************************)
THEOREM FreezeTypeCorrect == FreezeSpec => []FreezeType
<1>1. FreezeInv => FreezeType
  BY DEF FreezeInv
<1>. QED  BY <1>1, FreezeInvariant, PTL

(***************************************************************************)
(* Forward tests are out of sample while no freeze is under way or was cut *)
(* short.                                                                  *)
(***************************************************************************)
THEOREM ForwardOutOfSample == FreezeSpec => []OutOfSample
<1>1. FreezeInv => OutOfSample
  BY DEF FreezeInv
<1>. QED  BY <1>1, FreezeInvariant, PTL
=============================================================================
