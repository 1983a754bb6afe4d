----------------------------- MODULE Expressions -----------------------------
(***************************************************************************)
(* Expressions over arrays: FVizExpression.c (parser, shapes, evaluation   *)
(* and the cache of compiled expressions) and what FVizArrayCalculator.c   *)
(* writes.  A source is a sequence of tokens.  A tree is an operator, its  *)
(* operands and the component that it selects.  A value is a sequence of   *)
(* components, each a term that says how it is computed.                   *)
(***************************************************************************)
EXTENDS Integers, Sequences, SequencesExt, FiniteSets, FiniteSetsExt, TLC

CONSTANTS
    Tokens, MaxTokens,  \* that sources are written with, at most so many
    Arrays,             \* number of components of each variable
    Sources,            \* that are compiled through the cache
    CacheSize, MaxUses

VARIABLES
    source,
    entries,    \* of the cache, with the number of the last use
    uses,       \* of the cache
    recent      \* valid sources, the one used last first

expressionVars == <<source, entries, uses, recent>>

\* Functions and the number of their arguments.
Elementwise ==
    [f \in {"abs", "sqrt", "exp", "log", "log10", "sin", "cos", "tan", "floor", "ceil", "round"} |-> 1]
    @@ [f \in {"min", "max", "pow"} |-> 2] @@ [f \in {"clamp", "where"} |-> 3]
Arity ==
    Elementwise @@ [f \in {"mag", "magnitude", "length", "normalize"} |-> 1]
    @@ [f \in {"dot", "cross", "vec2"} |-> 2] @@ ("vec3" :> 3) @@ ("vec4" :> 4)

Constants == {"1", "2", "pi", "e"}
Selected == ".x" :> 0 @@ ".y" :> 1 @@ ".z" :> 2 @@ ".w" :> 3 @@ "[0]" :> 0 @@ "[2]" :> 2
Signs == {"(", ")", ",", "+", "-", "*", "/", "^", "?", ":", "==", "!=", "<", "<=", ">", ">=", "."}
Names(s) == ToSet(s) \ (Signs \cup Constants \cup DOMAIN Selected)

\* Operators of a level that bind from the left, the loosest first.
Binary == <<{"==", "!=", "<", "<=", ">", ">="}, {"+", "-"}, {"*", "/"}>>

Node(op, kids) == [op |-> op, kids |-> kids, at |-> 0]
Leaf(op) == Node(op, <<>>)

-----------------------------------------------------------------------------
\* The parser: what it has found, and the token that comes next, or the one it stops at.

At(s, k) == IF k <= Len(s) THEN s[k] ELSE "end"
Found(tree, k) == [ok |-> TRUE, tree |-> tree, next |-> k]
Failed(k) == [ok |-> FALSE, tree |-> Leaf("none"), next |-> k]

\* The operands found so far and what comes after them make a node, if they are found.
Grown(op, kids, r) == IF r.ok THEN Found(Node(op, Append(kids, r.tree)), r.next) ELSE r

RECURSIVE Conditional(_, _), Branches(_, _), Otherwise(_, _, _), Level(_, _, _), Chain(_, _, _), Power(_, _),
          Unary(_, _), Primary(_, _), Arguments(_, _, _), More(_, _, _)

Conditional(s, k) == Branches(s, Level(s, k, 1))
Branches(s, c) ==
    IF ~c.ok \/ At(s, c.next) # "?" THEN c ELSE Otherwise(s, c, Conditional(s, c.next + 1))
Otherwise(s, c, a) ==
    IF ~a.ok THEN a
    ELSE IF At(s, a.next) # ":" THEN Failed(a.next)
    ELSE Grown("if", <<c.tree, a.tree>>, Conditional(s, a.next + 1))

Level(s, k, n) == IF n > Len(Binary) THEN Power(s, Unary(s, k)) ELSE Chain(s, Level(s, k, n + 1), n)
Chain(s, left, n) ==
    IF ~left.ok \/ At(s, left.next) \notin Binary[n] THEN left
    ELSE Chain(s, Grown(s[left.next], <<left.tree>>, Level(s, left.next + 1, n + 1)), n)

Power(s, base) ==
    IF ~base.ok \/ At(s, base.next) # "^" THEN base
    ELSE Grown("^", <<base.tree>>, Power(s, Unary(s, base.next + 1)))

Unary(s, k) ==
    CASE At(s, k) = "+" -> Unary(s, k + 1)
      [] At(s, k) = "-" -> Grown("negate", <<>>, Unary(s, k + 1))
      [] OTHER -> Primary(s, k)

List(ok, args, k) == [ok |-> ok, args |-> args, next |-> k]
\* Up to four arguments; too few or too many are found at the closing parenthesis.
Arguments(s, k, args) ==
    IF Len(args) >= 4 THEN List(FALSE, args, k) ELSE More(s, args, Conditional(s, k))
More(s, args, a) ==
    IF ~a.ok THEN List(FALSE, args, a.next)
    ELSE IF At(s, a.next) = "," THEN Arguments(s, a.next + 1, Append(args, a.tree))
    ELSE List(TRUE, Append(args, a.tree), a.next)

Call(s, f, list) ==
    IF ~list.ok \/ At(s, list.next) # ")" THEN Failed(list.next)
    ELSE IF Len(list.args) # Arity[f] THEN Failed(list.next + 1)
    ELSE Found(Node(f, list.args), list.next + 1)
Parenthesis(s, inner) ==
    IF ~inner.ok THEN inner
    ELSE IF At(s, inner.next) = ")" THEN Found(inner.tree, inner.next + 1)
    ELSE Failed(inner.next)

Primary(s, k) ==
    LET t == At(s, k) IN
    CASE t = "(" -> Parenthesis(s, Conditional(s, k + 1))
      [] t \notin Signs \cup DOMAIN Selected \cup {"end", "1", "2"} /\ At(s, k + 1) = "(" ->
            IF t \notin DOMAIN Arity THEN Failed(k + 1)
            ELSE Call(s, t, IF At(s, k + 2) = ")" THEN List(TRUE, <<>>, k + 2) ELSE Arguments(s, k + 2, <<>>))
      [] t \in Constants -> Found(Leaf(t), k + 1)
      [] t \in Names(s) ->
            CASE At(s, k + 1) \in DOMAIN Selected ->
                     Found([op |-> "component", kids |-> <<Leaf(t)>>, at |-> Selected[s[k + 1]]], k + 2)
              [] At(s, k + 1) = "." -> Failed(k + 2)
              [] OTHER -> Found(Leaf(t), k + 1)
      [] OTHER -> Failed(k)

\* fviz_expression_compile: everything is an expression.
Whole(s, found) == IF found.ok /\ found.next <= Len(s) THEN Failed(found.next) ELSE found
Compile(s) == Whole(s, Conditional(s, 1))

-----------------------------------------------------------------------------
\* Components of a value, zero if they do not go together: fviz_expression_node_shape.

Broadcast(a, b) == IF a = b THEN a ELSE IF a = 1 THEN b ELSE IF b = 1 THEN a ELSE 0

RECURSIVE Shape(_)
Shape(t) ==
    LET n == [i \in DOMAIN t.kids |-> Shape(t.kids[i])]
        chosen(a, b, c) == IF a \in {1, Broadcast(b, c)} THEN Broadcast(b, c) ELSE 0
    IN  IF \E i \in DOMAIN n : n[i] = 0 THEN 0
        ELSE CASE t.op \in Constants -> 1
               [] t.op \in DOMAIN Arrays /\ t.kids = <<>> -> Arrays[t.op]
               [] t.op = "component" -> IF t.at >= n[1] THEN 0 ELSE 1
               [] t.op \in {"mag", "magnitude", "length"} -> 1
               [] t.op = "dot" -> IF n[1] = n[2] THEN 1 ELSE 0
               [] t.op = "cross" -> IF n = <<3, 3>> THEN 3 ELSE 0
               [] t.op \in {"vec2", "vec3", "vec4"} -> IF ToSet(n) = {1} THEN Len(n) ELSE 0
               [] t.op \in {"if", "where"} -> chosen(n[1], n[2], n[3])
               [] t.op = "clamp" -> IF Broadcast(n[1], n[2]) = 0 THEN 0 ELSE Broadcast(Broadcast(n[1], n[2]), n[3])
               [] Len(n) = 2 -> Broadcast(n[1], n[2])
               [] OTHER -> n[1]

\* A component that the value does not have is read as zero; one is spread over all.
Component(v, i) == IF i \in DOMAIN v THEN v[i] ELSE <<"zero">>
Spread(v, i) == Component(v, IF Len(v) = 1 THEN 1 ELSE i)
Size(v, w) == Broadcast(Len(v), Len(w))

\* fviz_expression_eval_node.
RECURSIVE Value(_)
Value(t) ==
    LET v == [i \in DOMAIN t.kids |-> Value(t.kids[i])]
        spread(n) == [i \in 1 .. n |-> <<t.op>> \o FlattenSeq([k \in DOMAIN v |-> Spread(v[k], i)])]
        magnitude == <<"mag">> \o FlattenSeq(v[1])
        product(i, j) == <<"*">> \o Component(v[1], i) \o Component(v[2], j)
    IN  CASE t.op \in Constants -> <<<<t.op>>>>
          [] t.op \in DOMAIN Arrays /\ t.kids = <<>> -> [i \in 1 .. Arrays[t.op] |-> <<t.op, ToString(i)>>]
          [] t.op = "component" -> <<Component(v[1], t.at + 1)>>
          [] t.op \in {"mag", "magnitude", "length"} -> <<magnitude>>
          [] t.op = "normalize" -> [i \in DOMAIN v[1] |-> <<"/">> \o v[1][i] \o magnitude]
          [] t.op = "dot" -> <<<<"sum">> \o FlattenSeq([i \in DOMAIN v[1] |-> product(i, i)])>>
          [] t.op = "cross" -> [i \in 1 .. 3 |-> <<"-">> \o product((i % 3) + 1, ((i + 1) % 3) + 1)
                                                      \o product(((i + 1) % 3) + 1, (i % 3) + 1)]
          [] t.op \in {"vec2", "vec3", "vec4"} -> [i \in DOMAIN v |-> Component(v[i], 1)]
          [] t.op \in {"if", "where"} -> spread(Size(v[2], v[3]))
          [] t.op = "clamp" -> spread(Broadcast(Size(v[1], v[2]), Len(v[3])))
          [] Len(v) = 2 -> spread(Size(v[1], v[2]))
          [] OTHER -> spread(Len(v[1]))

-----------------------------------------------------------------------------
Init ==
    /\ source \in {<<>>} \cup Sources
    /\ entries = <<>> /\ uses = 0 /\ recent = <<>>

\* A source is written on while it may become an expression.
Write ==
    /\ uses = 0 /\ source \notin Sources /\ Len(source) < MaxTokens
    /\ \E found \in {Compile(source)} : found.ok \/ found.next > Len(source)
    /\ \E t \in Tokens : source' = Append(source, t)
    /\ UNCHANGED <<entries, uses, recent>>

Cached(s) == SelectInSeq(entries, LAMBDA e : e.source = s)
Oldest == CHOOSE i \in DOMAIN entries : \A j \in DOMAIN entries : entries[i].used <= entries[j].used
Room == IF Len(entries) >= CacheSize THEN RemoveAt(entries, Oldest) ELSE entries

\* fviz_expression_cache_get: only what compiles is kept, in place of what was used longest ago.
Get(s) ==
    /\ source = <<>> /\ uses < MaxUses
    /\ uses' = uses + 1
    /\ \E found \in {Compile(s)} :
        /\ entries' =
              IF Cached(s) # 0 THEN [entries EXCEPT ![Cached(s)].used = uses + 1]
              ELSE IF found.ok THEN Append(Room, [source |-> s, tree |-> found.tree, used |-> uses + 1])
              ELSE entries
        /\ recent' = IF found.ok THEN <<s>> \o SelectSeq(recent, LAMBDA r : r # s) ELSE recent
    /\ UNCHANGED source

\* fviz_expression_cache_clear.
Clear ==
    /\ entries # <<>> /\ uses < MaxUses
    /\ entries' = <<>> /\ recent' = <<>> /\ uses' = uses + 1
    /\ UNCHANGED source

Next == Write \/ (\E s \in Sources : Get(s)) \/ Clear

-----------------------------------------------------------------------------
\* The array calculator: components of the output of an operation, and those it writes.

Tensor == {"equivalent", "mean", "principal", "max", "mid", "min", "half_span", "span",
           "deviatoric", "directions"}
Calculations == {"component", "magnitude", "scale_offset"} \cup Tensor
Calculates(op, n, component) ==
    /\ op = "component" => component < n
    /\ op \in Tensor => n \in {6, 9}
OutputComponents(op, n) ==
    CASE op = "scale_offset" -> n
      [] op = "principal" -> 3
      [] op = "deviatoric" -> 6
      [] op = "directions" -> 9
      [] OTHER -> 1
Written(op, n) ==
    CASE op = "scale_offset" -> 0 .. n - 1
      [] op = "principal" -> 0 .. 2
      [] op = "deviatoric" -> 0 .. 5
      [] op = "directions" -> 0 .. 8
      [] OTHER -> {0}

-----------------------------------------------------------------------------
\* What a source means, read from the operators that bind loosest.

\* Parentheses that are open before a token.
Open(s, k) == Cardinality({i \in 1 .. k - 1 : s[i] = "("}) - Cardinality({i \in 1 .. k - 1 : s[i] = ")"})
\* A sign between operands.
Between(s, k) ==
    /\ Open(s, k) = 0 /\ k > 1
    /\ s[k - 1] \notin Signs \ {")"}
Part(s, i, j) == SubSeq(s, i, j)

\* The places in s of signs of ops that bind loosest.
Top(s, ops) == {k \in DOMAIN s : s[k] \in ops /\ Between(s, k)}
\* The first colon after the question mark at q that closes it.
Colons(q, marks, colons) ==
    {k \in colons : k > q /\ Cardinality({i \in marks : i \in q + 1 .. k}) = Cardinality({i \in colons : i \in q + 1 .. k - 1})}
Commas(s) == SetToSortSeq({k \in DOMAIN s : s[k] = "," /\ Open(s, k) = 1}, <)
\* The parenthesis at k is closed by the last token.
Encloses(s, k) == {i \in k .. Len(s) : Open(s, i + 1) = 0} = {Len(s)}

\* The parts of s that the operator that binds loosest joins, none if nothing is joined.
PartsAt(s, ks) ==
    [i \in 1 .. Len(ks) + 1 |-> Part(s, IF i = 1 THEN 1 ELSE ks[i - 1] + 1, IF i > Len(ks) THEN Len(s) ELSE ks[i] - 1)]
Split(op, parts) == [op |-> op, parts |-> parts]
SplitAtMark(s, q, colons) == IF colons = {} THEN Split("none", <<>>) ELSE Split("if", PartsAt(s, <<q, Min(colons)>>))
SplitSource(s, marks, colons, levels) ==
    CASE marks # {} -> SplitAtMark(s, Min(marks), Colons(Min(marks), marks, colons))
      [] colons # {} -> Split("none", <<>>)
      [] levels # {} -> \* the loosest level, at its last sign
             LET k == Max(Top(s, Binary[Min(levels)])) IN Split(s[k], PartsAt(s, <<k>>))
      [] Top(s, {"^"}) # {} -> Split("^", PartsAt(s, <<Min(Top(s, {"^"}))>>))
      [] Len(s) > 1 /\ s[1] = "-" -> Split("negate", <<Tail(s)>>)
      [] Len(s) > 1 /\ s[1] = "+" -> Split("same", <<Tail(s)>>)
      [] Len(s) > 2 /\ s[1] = "(" /\ Encloses(s, 1) -> Split("same", <<Part(s, 2, Len(s) - 1)>>)
      [] Len(s) > 3 /\ s[1] \in DOMAIN Arity /\ s[2] = "(" /\ Encloses(s, 2) /\ Len(Commas(s)) + 1 = Arity[s[1]] ->
             Split(s[1], [i \in 1 .. Arity[s[1]] |->
                              PartsAt(Front(s), <<2>> \o Commas(s))[i + 1]])
      [] OTHER -> Split("leaf", <<>>)
Leafs(s) ==
    CASE Len(s) = 1 /\ s[1] \in Names(s) \cup Constants -> {Leaf(s[1])}
      [] Len(s) = 2 /\ s[1] \in Names(s) /\ s[2] \in DOMAIN Selected ->
             {[op |-> "component", kids |-> <<Leaf(s[1])>>, at |-> Selected[s[2]]]}
      [] OTHER -> {}

Combined(op, of) ==
    {Node(op, kids) : kids \in {ks \in [DOMAIN of -> UNION {of[i] : i \in DOMAIN of}] : \A i \in DOMAIN of : ks[i] \in of[i]}}

RECURSIVE Meanings(_), Joined(_, _)
\* The trees of a source: none or one.
Meanings(s) ==
    Joined(s, SplitSource(s, Top(s, {"?"}), Top(s, {":"}), {n \in 1 .. 3 : Top(s, Binary[n]) # {}}))
Joined(s, split) ==
    CASE split.op = "none" -> {}
      [] split.op = "leaf" -> Leafs(s)
      [] split.op = "same" -> Meanings(split.parts[1])
      [] OTHER -> Combined(split.op, [i \in DOMAIN split.parts |-> Meanings(split.parts[i])])

\* fviz_expression_compile accepts exactly the expressions, each with its meaning.
ParsesExactly(found) ==
    Meanings(source) = IF found.ok THEN {found.tree} ELSE {}

\* A source that stops to be an expression before its end stays that way, at that place.
OffsetStays(found) ==
    source # <<>> =>
        \E before \in {Compile(Front(source))} :
            ~before.ok /\ before.next < Len(source) => found = before

RECURSIVE Leaves(_), Nodes(_)
Leaves(t) == IF t.kids = <<>> THEN {t} ELSE UNION {Leaves(t.kids[i]) : i \in DOMAIN t.kids}
Nodes(t) == {t} \cup UNION {Nodes(t.kids[i]) : i \in DOMAIN t.kids}
Bound(t) == \A leaf \in Leaves(t) : leaf.op \in DOMAIN Arrays \cup Constants

RECURSIVE OneComponent(_, _)
OneComponent(t, i) ==
    IF t.kids = <<>>
    THEN IF t.op \in Constants THEN <<t.op>> ELSE <<t.op, ToString(IF Arrays[t.op] = 1 THEN 1 ELSE i)>>
    ELSE <<t.op>> \o FlattenSeq([k \in DOMAIN t.kids |-> OneComponent(t.kids[k], i)])

ByComponents == DOMAIN Elementwise \cup UNION ToSet(Binary) \cup {"^", "negate", "if"}
\* A condition of many components between scalars is refused (README, section 4).
VectorCondition(t) ==
    \E n \in Nodes(t) : n.op \in {"if", "where"} /\ Shape(n.kids[1]) > 1 /\ Shape(n.kids[2]) = 1 /\ Shape(n.kids[3]) = 1

\* A value has the components that its array has room for, reads none that an operand does
\* not have, and scalars are spread over vectors: a component is computed from the same
\* component of every vector.
EvaluatesExactly(found) ==
    found.ok /\ Bound(found.tree) =>
        \E t \in {found.tree}, n \in {Shape(found.tree)} :
            /\ n # 0 => \E v \in {Value(t)} :
                   /\ Len(v) = n
                   /\ \A i \in 1 .. n : "zero" \notin ToSet(v[i])
                   /\ (\A node \in Nodes(t) : node.kids = <<>> \/ node.op \in ByComponents)
                          => \A i \in 1 .. n : v[i] = OneComponent(t, i)
            /\ ((\A node \in Nodes(t) : node.kids = <<>> \/ node.op \in ByComponents) /\ ~VectorCondition(t))
                   => (n # 0 <=> Cardinality({Shape(leaf) : leaf \in Leaves(t)} \ {1}) <= 1)

\* The cache has the valid sources that were used last.
CacheKeepsLast ==
    /\ {e.source : e \in ToSet(entries)} = {recent[i] : i \in 1 .. Min({CacheSize, Len(recent)})}
    /\ \A e \in ToSet(entries) : e.tree = Compile(e.source).tree

\* An operation of the array calculator writes its output, all of it and no more.
CalculatesWithin ==
    \A op \in Calculations, n \in 1 .. 9, component \in 0 .. 9 :
        Calculates(op, n, component) => Written(op, n) = 0 .. OutputComponents(op, n) - 1

ExpressionsExact ==
    /\ \E found \in {Compile(source)} :
          ParsesExactly(found) /\ OffsetStays(found) /\ EvaluatesExactly(found)
    /\ CacheKeepsLast
    /\ source = <<>> => CalculatesWithin
=============================================================================
