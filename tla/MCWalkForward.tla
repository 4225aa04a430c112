--------------------------- MODULE MCWalkForward ---------------------------
EXTENDS WalkForward

\* Eight bars.  The first is flat, three move in any way (up or down by a
\* barrier, or both ways within the bar), one rises and one falls.  Prices are
\* even.
MCBars == 8

Moves == {"flat", "up", "down", "wide"}

Shapes == {[i \in 0..MCBars - 1 |->
               CASE i \in 1..3 -> s[i] [] i = 4 -> "up" [] i = 5 -> "down"
                 [] OTHER -> "flat"] : s \in [1..3 -> Moves]}

CloseAt(s, i) ==
    10 + 2 * (Cardinality({j \in 0..i : s[j] = "up"})
                - Cardinality({j \in 0..i : s[j] = "down"}))

Timeline(s) ==
    [i \in 0..MCBars - 1 |->
        LET close == CloseAt(s, i)
            open == IF i = 0 THEN 10 ELSE CloseAt(s, i - 1)
        IN  [ open  |-> open,
              close |-> close,
              high  |-> IF s[i] = "wide" THEN close + 2 ELSE Greater(open, close),
              low   |-> IF s[i] = "wide" THEN close - 2 ELSE Lesser(open, close) ]]

\* A backtest replays all of its timeline, here the five bars that the three
\* free moves are among.
Brief(b) == [i \in 0..4 |-> b[i]]

MCHistories == {Timeline(s) : s \in Shapes} \cup {Brief(Timeline(s)) : s \in Shapes}

Rolling == [ strategy |-> "model", train |-> 4, test |-> 3, step |-> 1,
             expanding |-> FALSE, horizon |-> 1, directional |-> FALSE,
             short |-> TRUE ]

Expanding == [Rolling EXCEPT !.expanding = TRUE, !.horizon = 2, !.short = FALSE]

Short == [Rolling EXCEPT !.train = 3, !.test = 2, !.step = 2]

Plain == [Short EXCEPT !.train = 1, !.test = 5]

Whole == [Short EXCEPT !.train = 0, !.test = 5, !.step = 5]

MCPlans ==
    {[p EXCEPT !.directional = d] : p \in {Rolling, Expanding}, d \in BOOLEAN}
      \cup {Short} \cup {[Plain EXCEPT !.strategy = b] : b \in Benchmarks}
      \cup {[Whole EXCEPT !.strategy = b] : b \in Benchmarks \cup {"model"}}

\* A binary model's, or a three-class one's: sure, at a threshold, unsure, tied.
MCProbs ==
    {[down |-> 100 - u, flat |-> 0, up |-> u] : u \in {0, 40, 45, 50, 60, 100}}
      \cup {[down |-> 40, flat |-> 20, up |-> 40], [down |-> 10, flat |-> 80, up |-> 10]}

MCThresholds == <<55, 60>>

MCSizes == {1, 2}

\* The value of the second is missing where three closes are the same.
MCFeatures ==
    {[lookback |-> 1, since |-> 1, moving |-> 0], [lookback |-> 3, since |-> 0, moving |-> 3]}

============================================================================
