------------------------------ MODULE Decision ------------------------------
(***************************************************************************)
(* From class probabilities to a position: the strategies                  *)
(* (src/trade/strategies/model_driven.py, binary_model_driven.py), and the *)
(* record the paper engine journals beside them                            *)
(* (src/trade/paper/predictor.py).                                         *)
(*                                                                         *)
(* Probabilities are in percent; a binary model gives up and down only.  A *)
(* rule is [directional, theta, short]: the kind of model, the confidence  *)
(* threshold and allow_short.  size is what equity, notional fraction and  *)
(* price make the quantity: a positive number while equity is.             *)
(***************************************************************************)
EXTENDS Integers

Rule == [directional : BOOLEAN, theta : 1..100, short : BOOLEAN]

Probabilities == [down : 0..100, flat : 0..100, up : 0..100]

\* max(probs, key=...): the first of the largest, in the model's class order.
Best(p) ==
    IF p.down >= p.flat /\ p.down >= p.up THEN "down"
    ELSE IF p.flat >= p.up THEN "flat" ELSE "up"

\* ModelDrivenStrategy.on_bar
ThreeClassTarget(r, p, size) ==
    IF p[Best(p)] < r.theta THEN 0
    ELSE IF Best(p) = "up" THEN size
    ELSE IF Best(p) = "down" /\ r.short THEN -size
    ELSE 0

\* Mutant: a threshold that is met is enough.
BinaryTargetInclusive(r, p, size) ==
    IF p.up >= r.theta THEN size
    ELSE IF p.up < 100 - r.theta /\ r.short THEN -size
    ELSE 0

\* BinaryModelDrivenStrategy.on_bar
BinaryTarget(r, p, size) ==
    IF p.up > r.theta THEN size
    ELSE IF p.up < 100 - r.theta /\ r.short THEN -size
    ELSE 0

Target(r, p, size) ==
    IF r.directional THEN BinaryTarget(r, p, size) ELSE ThreeClassTarget(r, p, size)

\* PaperSymbolBundle._direction
ThreeClassDirection(r, p) ==
    LET meets == p[Best(p)] >= r.theta
    IN  IF ~meets \/ Best(p) = "flat" \/ (Best(p) = "down" /\ ~r.short) THEN "flat"
        ELSE IF Best(p) = "up" THEN "long" ELSE "short"

BinaryDirection(r, p) ==
    IF p.up > r.theta THEN "long"
    ELSE IF p.up < 100 - r.theta THEN (IF r.short THEN "short" ELSE "flat")
    ELSE "flat"

\* PaperSymbolBundle.decide, past the warm-up.
Decide(r, p, size) ==
    [ direction |-> IF r.directional THEN BinaryDirection(r, p)
                                     ELSE ThreeClassDirection(r, p),
      target    |-> Target(r, p, size) ]

=============================================================================
