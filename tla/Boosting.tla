------------------------------ MODULE Boosting ------------------------------
(***************************************************************************)
(* The research classifier (research/ml): the first tree that fit grows    *)
(* over resolved occurrences, how it scores a row, and the rank statistic  *)
(* that judges scores.                                                     *)
(*                                                                         *)
(* Every occurrence has the same probability before the first tree, so     *)
(* with n rows and P positives a row's gradient is (P - n * label) / n and *)
(* its hessian P (n - P) / n^2: gradients count 1/n, hessians and the      *)
(* regularization 1/n^2, and gains are ratios of integers.  None is a      *)
(* missing value (NaN).                                                    *)
(***************************************************************************)
EXTENDS Integers, Sequences, FiniteSets

LOCAL INSTANCE FiniteSetsExt
LOCAL INSTANCE SequencesExt

CONSTANTS
  None,
  Columns,      \* the number of columns
  Values,       \* the finite values of a column
  MaxRows,      \* bound: rows of a training set
  Params        \* [max_depth, min_samples_leaf, l2, max_bins] of the studied fits

ParamsAssumption ==
  \A p \in Params : /\ p.max_depth >= 1 /\ p.min_samples_leaf >= 1
                    /\ p.l2 >= 0 /\ p.max_bins >= 2

VARIABLES
  rows,         \* the training set, [x, label] each
  params

vars == <<rows, params>>

Total(f, set) == FoldSet(LAMBDA i, sum : sum + f[i], 0, set)

-----------------------------------------------------------------------------

Positives(data) == Cardinality({i \in DOMAIN data : data[i].label = 1})

Gradient(data) == [i \in DOMAIN data |-> Positives(data) - Len(data) * data[i].label]

\* The denominator of a node of m rows: its hessians and the regularization.
Weight(data, m) ==
  m * Positives(data) * (Len(data) - Positives(data)) + params.l2 * Len(data) * Len(data)

\* _gain of a set of rows, as [n, d].
Gain(data, g, set) == [n |-> Total(g, set) * Total(g, set), d |-> Weight(data, Cardinality(set))]

Plus(p, q) == [n |-> p.n * q.d + q.n * p.d, d |-> p.d * q.d]
Above(p, q) == p.n * q.d > q.n * p.d

\* The midpoints of at most max_bins of the column's finite values, doubled.
Thresholds(data, set, column) ==
  LET unique == SetToSortSeq({data[i].x[column] : i \in set} \ {None}, LAMBDA v, w : v < w)
      size == Len(unique)
      positions == IF size <= params.max_bins THEN 1..size
                   ELSE {1 + ((k * (size - 1)) \div (params.max_bins - 1)) : k \in 0..(params.max_bins - 1)}
      kept == SetToSortSeq(positions, LAMBDA k, l : k < l)
  IN  IF size < 2 THEN <<>> ELSE [k \in 1..(Len(kept) - 1) |-> unique[kept[k]] + unique[kept[k + 1]]]

\* Mutant: a missing value always goes left.
GoesLeftBlind(x, split) == IF x[split.column] = None THEN TRUE ELSE 2 * x[split.column] <= split.threshold

\* Which way predict sends a row.
GoesLeft(x, split) ==
  IF x[split.column] = None THEN split.nan_left ELSE 2 * x[split.column] <= split.threshold

\* The rows that a split trains its left side on.
LeftRows(data, set, split) ==
  {i \in set : IF data[i].x[split.column] = None THEN split.nan_left
               ELSE 2 * data[i].x[split.column] <= split.threshold}

Missing(data, set, column) == \E i \in set : data[i].x[column] = None

\* The candidates, in the order they are tried.
Candidates(data, set) ==
  LET Of(column) ==
        LET thresholds == Thresholds(data, set, column)
            ways == IF Missing(data, set, column) THEN <<TRUE, FALSE>> ELSE <<TRUE>>
        IN  FlattenSeq([k \in DOMAIN thresholds |->
               [w \in DOMAIN ways |->
                  [column |-> column, threshold |-> thresholds[k], nan_left |-> ways[w]]]])
  IN  FlattenSeq([column \in 1..Columns |-> Of(column)])

\* A candidate with what it gains, if both sides are large enough.
Weighed(data, g, set, split) ==
  LET left == LeftRows(data, set, split)
  IN  IF \/ Cardinality(left) < params.min_samples_leaf
         \/ Cardinality(set) - Cardinality(left) < params.min_samples_leaf
      THEN None
      ELSE [split |-> split, gain |-> Plus(Gain(data, g, left), Gain(data, g, set \ left))]

\* The first split of those that gain the most, None if none gains.
BestSplit(data, g, set) ==
  FoldLeft(LAMBDA best, split :
             LET weighed == Weighed(data, g, set, split)
             IN  IF weighed = None \/ ~Above(weighed.gain, Gain(data, g, set)) THEN best
                 ELSE IF best = None \/ Above(weighed.gain, best.gain) THEN weighed ELSE best,
           None, Candidates(data, set))

\* _leaf_value, as [n, d].
Leaf(data, g, set) ==
  [split |-> None, samples |-> Cardinality(set),
   value |-> [n |-> -Len(data) * Total(g, set), d |-> Weight(data, Cardinality(set))]]

RECURSIVE Grow(_, _, _, _)
Grow(data, g, set, depth) ==
  LET best == BestSplit(data, g, set)
  IN  IF \/ depth >= params.max_depth \/ Cardinality(set) < 2 * params.min_samples_leaf
         \/ best = None
      THEN Leaf(data, g, set)
      ELSE LET left == LeftRows(data, set, best.split)
           IN  [split |-> best.split, samples |-> Cardinality(set),
                left |-> Grow(data, g, left, depth + 1),
                right |-> Grow(data, g, set \ left, depth + 1)]

\* The first tree of fit; fit refuses a training set of one class.
Tree(data) == Grow(data, Gradient(data), DOMAIN data, 0)
Trainable(data) == Positives(data) \in 1..(Len(data) - 1)

-----------------------------------------------------------------------------

\* The mean of the ranks that equal scores share, doubled.
Rank(scores, i) ==
  LET below == Cardinality({j \in DOMAIN scores : scores[j] < scores[i]})
      equal == Cardinality({j \in DOMAIN scores : scores[j] = scores[i]})
  IN  below + 1 + below + equal

\* _auc, as [n, d]; None with one class.
Auc(scores, labels) ==
  LET positive == {i \in DOMAIN labels : labels[i] = 1}
      p == Cardinality(positive)
      q == Len(labels) - p
  IN  IF p = 0 \/ q = 0 THEN None
      ELSE [n |-> Total([i \in DOMAIN scores |-> Rank(scores, i)], positive) - p * (p + 1),
            d |-> 2 * p * q]

-----------------------------------------------------------------------------

Row == [x : [1..Columns -> Values \cup {None}], label : {0, 1}]

Init == rows = <<>> /\ params \in Params

\* build_dataset: the next resolved occurrence.
AddRow(row) ==
  /\ Len(rows) < MaxRows
  /\ rows' = Append(rows, row)
  /\ UNCHANGED params

Next == \E row \in Row : AddRow(row)

Spec == Init /\ [][Next]_vars

-----------------------------------------------------------------------------

(***************************************************************************)
(* A model answers as it was trained: if predict takes every training row  *)
(* down the tree, missing values too, each leaf's value is the Newton step *)
(* of exactly the rows that arrive there, as many as samples says and no   *)
(* fewer than min_samples_leaf.  And its scores are judged by what AUC     *)
(* means: of the pairs of a positive and a negative, those in which the    *)
(* positive is above, and half of those that tie.                          *)
(***************************************************************************)
RECURSIVE Answers(_, _)
Answers(node, set) ==
  IF node.split = None
  THEN /\ node = Leaf(rows, Gradient(rows), set)
       /\ set = DOMAIN rows \/ node.samples >= params.min_samples_leaf
  ELSE \A left \in {{i \in set : GoesLeft(rows[i].x, node.split)}} :
         Answers(node.left, left) /\ Answers(node.right, set \ left)

AucCountsPairs(scores, labels) ==
  LET pairs == {p \in (DOMAIN labels) \X (DOMAIN labels) : labels[p[1]] = 1 /\ labels[p[2]] = 0}
      Won(p) == scores[p[1]] > scores[p[2]]
      Tied(p) == scores[p[1]] = scores[p[2]]
  IN  Auc(scores, labels) = [n |-> 2 * Cardinality({p \in pairs : Won(p)})
                                   + Cardinality({p \in pairs : Tied(p)}),
                             d |-> 2 * Cardinality(pairs)]

ScoreOf(x) == IF x[1] = None THEN 0 ELSE x[1]

AnswersAsTrained ==
  Trainable(rows) =>
    /\ Answers(Tree(rows), DOMAIN rows)
    /\ AucCountsPairs([i \in DOMAIN rows |-> ScoreOf(rows[i].x)],
                       [i \in DOMAIN rows |-> rows[i].label])

=============================================================================
