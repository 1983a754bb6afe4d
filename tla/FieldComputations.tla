-------------------------- MODULE FieldComputations --------------------------
(***************************************************************************)
(* What is computed from arrays of samples: FVizFieldOperations.c (gather  *)
(* by ids, indexed averages, discontinuities, least squares) and           *)
(* FVizFieldStatistics.c (ranges and moments of the leaves of a data set,  *)
(* each in chunks that run in parallel).  Averages and moments are         *)
(* rational; values are multiples of a number that what they are divided   *)
(* by divides.                                                             *)
(***************************************************************************)
EXTENDS Integers, Sequences, SequencesExt, FiniteSets, FiniteSetsExt

CONSTANTS
    Samples,    \* [id, value, weight, ghost, place], of one component
    MaxSamples,
    NotFinite,  \* a value; the others are multiples of what they are divided by
    MaxLeaves,  \* of the data set, at most
    Grain       \* samples of a chunk

VARIABLES
    samples,    \* in the order of the leaves
    leaves      \* where each begins

fieldVars == <<samples, leaves>>

Init == samples = <<>> /\ leaves = <<1>>
Add == Len(samples) < MaxSamples /\ (\E s \in Samples : samples' = Append(samples, s)) /\ UNCHANGED leaves
NextLeaf == Len(leaves) < MaxLeaves /\ leaves' = Append(leaves, Len(samples) + 1) /\ UNCHANGED samples
Next == Add \/ NextLeaf

Finite(s) == s.value # NotFinite
AddUp(f, S) == FoldLeft(LAMBDA a, i : a + f[i], 0, SetToSeq(S))

-----------------------------------------------------------------------------
\* fviz_field_gather_by_ids: sorted ids, searched by halves.

IdOrder == SortSeq([i \in DOMAIN samples |-> i], LAMBDA i, j : samples[i].id < samples[j].id)

RECURSIVE LowerBound(_, _, _, _)
LowerBound(order, id, first, last) ==
    IF first >= last THEN first
    ELSE LET middle == first + ((last - first) \div 2) IN
         IF samples[order[middle]].id < id THEN LowerBound(order, id, middle + 1, last)
         ELSE LowerBound(order, id, first, middle)

\* The sample with an id, zero if there is none.
Lookup(order, id) ==
    LET at == LowerBound(order, id, 1, Len(order) + 1) IN
    IF at <= Len(order) /\ samples[order[at]].id = id THEN order[at] ELSE 0

\* Ids are unique and not negative; a missing one is filled in or an error.
Gather(targets, fill) ==
    LET order == IdOrder
        found == [k \in DOMAIN targets |-> Lookup(order, targets[k])]
    IN  [ok |-> /\ \A i \in DOMAIN samples : samples[i].id >= 0
                /\ \A i \in 1 .. Len(order) - 1 : samples[order[i]].id # samples[order[i + 1]].id
                /\ \A k \in DOMAIN targets : targets[k] >= 0 /\ (fill \/ found[k] # 0),
         values |-> [k \in DOMAIN targets |-> IF found[k] = 0 THEN 0 ELSE samples[found[k]].value],
         mask |-> [k \in DOMAIN targets |-> found[k] # 0]]

-----------------------------------------------------------------------------
\* Ids as destinations: averages and spreads.

\* Destinations 0 to 2; another one is an error.
Indexed == \A i \in DOMAIN samples : samples[i].id \in 0 .. 2
\* Samples that count: of a destination, and finite.
At(id) == {i \in DOMAIN samples : samples[i].id = id /\ Finite(samples[i])}
Weights == [i \in DOMAIN samples |-> samples[i].weight]
Weighted == [i \in DOMAIN samples |-> samples[i].value * samples[i].weight]

\* fviz_field_indexed_weighted_average: a sum and a weight; no average where that is zero.
Average(id) ==
    [valid |-> Indexed /\ AddUp(Weights, At(id)) # 0, sum |-> AddUp(Weighted, At(id)), weight |-> AddUp(Weights, At(id))]

Absolute(x) == IF x < 0 THEN -x ELSE x
\* fviz_field_compute_indexed_discontinuity_mask; the threshold in halves.
Discontinuous(id, threshold) ==
    Indexed /\ At(id) # {} /\ \E low \in {Min({samples[i].value : i \in At(id)})}, high \in {Max({samples[i].value : i \in At(id)})} :
        2 * (high - low) > threshold * Max({Absolute(low), Absolute(high)})

-----------------------------------------------------------------------------
\* Least squares: the inverse of the normal matrix by elimination, in fractions.

Over(n, d) == [n |-> n, d |-> d]
Fraction(n) == Over(n, 1)
Lowest(q) ==
    IF q.n = 0 THEN Fraction(0)
    ELSE LET common == Max({k \in 1 .. Min({Absolute(q.n), Absolute(q.d)}) : q.n % k = 0 /\ Absolute(q.d) % k = 0})
             sign == IF q.d < 0 THEN -1 ELSE 1
         IN  Over((sign * q.n) \div common, Absolute(q.d) \div common)
Minus(p, q) == Lowest(Over((p.n * q.d) - (q.n * p.d), p.d * q.d))
TimesQ(p, q) == Lowest(Over(p.n * q.n, p.d * q.d))
Divided(p, q) == Lowest(Over(p.n * q.d, p.d * q.n))
PlusQ(p, q) == Minus(p, Minus(Fraction(0), q))
Larger(p, q) == Absolute(p.n) * q.d > Absolute(q.n) * p.d

\* Two coefficients: a sample's row is its weight and its place.
Basis == [i \in DOMAIN samples |-> <<samples[i].weight, samples[i].place>>]
Normal(r, c) == AddUp([i \in DOMAIN samples |-> Basis[i][r] * Basis[i][c]], DOMAIN samples)
Augmented == [r \in 1 .. 2 |-> [c \in 1 .. 4 |-> Fraction(IF c <= 2 THEN Normal(r, c) ELSE IF c = r + 2 THEN 1 ELSE 0)]]

\* The first row below that has the largest number.
Pivot(m, row) ==
    CHOOSE p \in row .. 2 :
        \A q \in row .. 2 : ~Larger(m[q][row], m[p][row]) /\ (q < p => Larger(m[p][row], m[q][row]))
Swapped(m, row, p) == [m EXCEPT ![row] = m[p], ![p] = m[row]]
Scaled(m, row) == [m EXCEPT ![row] = [c \in 1 .. 4 |-> Divided(m[row][c], m[row][row])]]
Cleared(m, row) ==
    [r \in 1 .. 2 |-> IF r = row THEN m[r]
                      ELSE [c \in 1 .. 4 |-> Minus(m[r][c], TimesQ(m[r][row], m[row][c]))]]
Eliminated(m, row) ==
    LET pivoted == Swapped(m, row, Pivot(m, row)) IN
    IF pivoted[row][row].n = 0 THEN <<>> ELSE Cleared(Scaled(pivoted, row), row)

\* fviz_field_least_squares_operator; empty if it is refused.
Operator ==
    IF Len(samples) < 2 THEN <<>>
    ELSE LET one == Eliminated(Augmented, 1)
             two == IF one = <<>> THEN <<>> ELSE Eliminated(one, 2)
         IN  IF two = <<>> THEN <<>>
             ELSE [r \in 1 .. 2 |-> [i \in DOMAIN samples |->
                      PlusQ(TimesQ(two[r][3], Fraction(Basis[i][1])), TimesQ(two[r][4], Fraction(Basis[i][2])))]]

\* fviz_field_apply_tuple_matrix.
Applied(row, values) ==
    FoldLeft(LAMBDA sum, i : PlusQ(sum, TimesQ(row[i], Fraction(values[i]))), Fraction(0), [i \in DOMAIN values |-> i])

-----------------------------------------------------------------------------
\* Statistics: fviz_field_stats_range of a chunk, its parts merged chunk by chunk and leaf by
\* leaf.

NoStatistics == [count |-> 0, low |-> 0, lowAt |-> 0, high |-> 0, highAt |-> 0, mean |-> 0, m2 |-> 0, square |-> 0]

Counts(s) == ~s.ghost /\ Finite(s)

Seen(p, i) ==
    LET v == samples[i].value
        n == p.count + 1
        mean == p.mean + ((v - p.mean) \div n)
        lower == p.count = 0 \/ v < p.low
        higher == p.count = 0 \/ v > p.high
    IN  IF ~Counts(samples[i]) THEN p
        ELSE [count |-> n, mean |-> mean, m2 |-> p.m2 + ((v - p.mean) * (v - mean)),
              square |-> p.square + (((v * v) - p.square) \div n),
              low |-> IF lower THEN v ELSE p.low, lowAt |-> IF lower THEN i ELSE p.lowAt,
              high |-> IF higher THEN v ELSE p.high, highAt |-> IF higher THEN i ELSE p.highAt]

MergedStatistics(p, q) ==
    LET n == p.count + q.count
        delta == q.mean - p.mean
    IN  IF q.count = 0 THEN p
        ELSE IF p.count = 0 THEN q
        ELSE [count |-> n, mean |-> p.mean + ((delta * q.count) \div n),
              m2 |-> p.m2 + q.m2 + ((delta * delta * p.count * q.count) \div n),
              square |-> ((p.square * p.count) + (q.square * q.count)) \div n,
              low |-> Min({p.low, q.low}), lowAt |-> IF q.low < p.low THEN q.lowAt ELSE p.lowAt,
              high |-> Max({p.high, q.high}), highAt |-> IF q.high > p.high THEN q.highAt ELSE p.highAt]

ChunkRange(first, last) == FoldLeft(Seen, NoStatistics, [k \in 1 .. last - first + 1 |-> first + k - 1])
LastOf(leaf) == IF leaf = Len(leaves) THEN Len(samples) ELSE leaves[leaf + 1] - 1
Chunks(leaf) ==
    [c \in 1 .. (LastOf(leaf) - leaves[leaf] + Grain) \div Grain |->
        ChunkRange(leaves[leaf] + ((c - 1) * Grain), Min({LastOf(leaf), leaves[leaf] + (c * Grain) - 1}))]
LeafStatistics(leaf) == FoldLeft(MergedStatistics, NoStatistics, Chunks(leaf))
Statistics == FoldLeft(MergedStatistics, NoStatistics, [leaf \in DOMAIN leaves |-> LeafStatistics(leaf)])

-----------------------------------------------------------------------------
\* A gathered value is that of the sample with the id; it is refused for ids that are
\* negative or not unique, and for missing ones unless they are filled in.
GatherExact ==
    \A targets \in SeqOf(-1 .. 2, 2), fill \in BOOLEAN :
        \E gathered \in {Gather(targets, fill)} :
            /\ gathered.ok <=>
                   /\ \A i, j \in DOMAIN samples : samples[i].id >= 0 /\ (samples[i].id = samples[j].id => i = j)
                   /\ \A t \in ToSet(targets) : t >= 0 /\ (fill \/ \E i \in DOMAIN samples : samples[i].id = t)
            /\ gathered.ok => \A k \in DOMAIN targets :
                   /\ gathered.mask[k] <=> \E i \in DOMAIN samples : samples[i].id = targets[k]
                   /\ \A i \in DOMAIN samples : samples[i].id = targets[k] => gathered.values[k] = samples[i].value

\* An average lies between its samples; where nothing spreads it is what they all are.
AverageBetween ==
    \A id \in 0 .. 2 :
        \E a \in {Average(id)} :
            a.valid => /\ \E i \in At(id) : samples[i].value * a.weight <= a.sum
                       /\ \E i \in At(id) : samples[i].value * a.weight >= a.sum
                       /\ ~Discontinuous(id, 0) => \A i \in At(id) : samples[i].value * a.weight = a.sum

\* Least squares fit what lies on a line exactly, whatever the line, and refuse samples that
\* do not determine one.
FitsLines ==
    \E op \in {Operator} :
        IF op = <<>>
        THEN \A i, j \in DOMAIN samples : Basis[i][1] * Basis[j][2] = Basis[i][2] * Basis[j][1]
        ELSE \A a, b \in {-1, 0, 2} :
                 LET line == [i \in DOMAIN samples |-> (a * Basis[i][1]) + (b * Basis[i][2])] IN
                 Applied(op[1], line) = Fraction(a) /\ Applied(op[2], line) = Fraction(b)

\* Chunks and leaves do not show: the counts, the extremes with their first places, and the
\* moments are those of all samples that count.
ChunksTransparent ==
    \E s \in {Statistics}, all \in {{i \in DOMAIN samples : Counts(samples[i])}},
       values \in {[i \in DOMAIN samples |-> samples[i].value]},
       squares \in {[i \in DOMAIN samples |-> samples[i].value * samples[i].value]} :
        /\ s.count = Cardinality(all)
        /\ all # {} =>
            /\ s.low = Min({values[i] : i \in all}) /\ s.lowAt = Min({i \in all : values[i] = s.low})
            /\ s.high = Max({values[i] : i \in all}) /\ s.highAt = Min({i \in all : values[i] = s.high})
            /\ s.mean * s.count = AddUp(values, all)
            /\ s.square * s.count = AddUp(squares, all)
            /\ s.m2 * s.count = (s.count * AddUp(squares, all)) - (AddUp(values, all) * AddUp(values, all))

FieldsExact == GatherExact /\ AverageBetween /\ FitsLines /\ ChunksTransparent
=============================================================================
