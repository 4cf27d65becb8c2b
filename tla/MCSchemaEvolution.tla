------------------------- MODULE MCSchemaEvolution -------------------------
(* Small instances of SchemaEvolution for TLC, beside casts of arrays of    *)
(* every layout, hidden slots included, to the fields they may be cast to:  *)
(* an execution asks for one cast, or works on the table.                   *)
EXTENDS SchemaEvolution

VARIABLES asked, answer

Leaf(kind) == [kind |-> kind, fields |-> <<>>]
Of(kind, fields) == [kind |-> kind, fields |-> fields]
Pair(item) == [kind |-> "fixed", fields |-> <<item>>, size |-> 2]
MapOf(key, value, sorted) ==
    [kind |-> "map", sorted |-> sorted,
     fields |-> <<[name |-> "entries", nullable |-> FALSE,
                   type |-> Of("struct", <<key, value>>)]>>]
Field(name, type, nullable) == [name |-> name, type |-> type, nullable |-> nullable]
Opt(name, type) == Field(name, type, TRUE)
Req(name, type) == Field(name, type, FALSE)

Number == Leaf("int")
Text == Leaf("text")
Flag == Leaf("flag")
Row == Of("struct", <<Opt("a", Text)>>)
Dict(type) == Of("dict", <<Opt("values", type)>>)

Array(kind, rows, children) == [kind |-> kind, rows |-> rows, children |-> children]
Cells(kind, n, cells) == {Array(kind, rows, <<>>) : rows \in [1..n -> cells]}
Texts(n) == Cells("text", n, {Null, "t1", "tx"})
Rows(n) == {Array("struct", rows, <<column>>) : rows \in [1..n -> BOOLEAN], column \in Texts(n)}
At(valid, from, to) == [valid |-> valid, from |-> from, to |-> to]

\* Two rows over two slots: end to end, one beside a slice, one under a null.
Spans == { <<At(TRUE, 1, 1), At(TRUE, 2, 2)>>, <<At(TRUE, 1, 2), At(FALSE, 1, 0)>>,
           <<At(TRUE, 2, 2), At(TRUE, 1, 0)>>, <<At(FALSE, 1, 1), At(TRUE, 2, 2)>> }
ViewSpans == Spans \union { <<At(TRUE, 2, 2), At(TRUE, 1, 2)>> }
Over(kind, spans, values) ==
    {Array(kind, rows, <<child>>) : rows \in spans, child \in values}

Case(source, arrays, targets, policies) ==
    {[source |-> source, array |-> array, target |-> target, policy |-> policy, safe |-> safe] :
        array \in arrays, target \in targets, policy \in policies, safe \in BOOLEAN}

RowTargets == {Of("struct", <<Req("a", Number)>>), Of("struct", <<Opt("A", Text), Req("b", Number)>>),
               Of("struct", <<Req("a", Text)>>), Row,
               Of("struct", <<Opt("a", Number), Opt("A", Number)>>)}
EitherWay(name, types) == {Field(name, type, nullable) : type \in types, nullable \in BOOLEAN}

LeafCases ==
    Case(Text, Texts(2), EitherWay("v", {Number, Text, Flag, Row, Of("list", <<Opt("item", Text)>>)}),
         {"field", "bare"})
    \union Case(Flag, Cells("flag", 2, {Null, "f"}), EitherWay("v", {Number}), {"field"})

StructCases ==
    Case(Row, Rows(2), EitherWay("v", RowTargets), {"field"})
    \union Case(Of("struct", <<Opt("o", Row)>>),
         {Array("struct", rows, <<child>>) : rows \in [1..2 -> BOOLEAN], child \in Rows(2)},
         {Req("v", Of("struct", <<Field("o", type, FALSE)>>)) : type \in RowTargets}, {"field"})

ListCases ==
    Case(Of("list", <<Opt("item", Row)>>), Over("list", Spans, Rows(2)),
         {Req("v", Of("list", <<Field("item", type, nullable)>>)) :
             type \in RowTargets, nullable \in BOOLEAN}, {"field"})
    \union Case(Of("view", <<Opt("item", Text)>>), Over("view", ViewSpans, Texts(2)),
         EitherWay("v", {Of("view", <<Req("item", Number)>>), Of("view", <<Req("item", Text)>>),
                         Of("list", <<Opt("item", Text)>>)}), {"field"})
    \union Case(Pair(Opt("item", Text)),
         Over("fixed", {<<At(x, 1, 2), At(y, 3, 4)>> : x, y \in BOOLEAN},
              Cells("text", 4, {Null, "t1"})),
         EitherWay("v", {Pair(Req("item", Number)), Pair(Req("item", Text))}), {"field"})

Words == Cells("text", 2, {Null, "t", "t1", "tx"})
         \union {Array("text", words, <<>>) : words \in
                    {<<"t1", "tx", "t">>, <<"tx", "tx", "t1">>, <<"t1", "t01", "tx">>}}
DictArrays(n) == {Array("dict", keys, <<words>>) : keys \in [1..n -> 0..2], words \in Words}

DictCases ==
    Case(Dict(Text), DictArrays(3), EitherWay("v", {Dict(Number), Dict(Text), Text, Number}), {"field"})
    \union Case(Dict(Text), DictArrays(2), {Req("v", Dict(Text))}, {"bare"})
    \union Case(Of("struct", <<Opt("d", Dict(Text))>>),
         {Array("struct", rows, <<child>>) : rows \in [1..2 -> BOOLEAN], child \in DictArrays(2)},
         {Req("v", Of("struct", <<Req("d", Dict(Text)), Req("e", Dict(Number))>>)),
          Req("v", Of("struct", <<Opt("d", Dict(Text))>>))}, {"field"})
    \union Case(Of("list", <<Opt("item", Dict(Text))>>), Over("list", Spans, DictArrays(2)),
         {Req("v", Of("list", <<Req("item", Dict(Text))>>))}, {"field"})

RunArrays == {Array("runs", rows, <<values>>) :
                 rows \in {<<1, 1, 2>>, <<1, 2, 2>>}, values \in Texts(2)}
SlicedRuns == {[kind |-> "runs", rows |-> rows, children |-> <<values>>, slice |-> 1] :
                 rows \in {<<2, 2>>, <<1, 2>>}, values \in Texts(2)}
RunCases ==
    Case(Of("runs", <<Opt("values", Text)>>), RunArrays \union SlicedRuns,
         EitherWay("v", {Of("runs", <<Opt("values", Text)>>), Of("runs", <<Req("values", Text)>>),
                         Of("runs", <<Opt("values", Number)>>)}), {"field"})

UnionRows == {<<[id |-> x, at |-> 1], [id |-> y, at |-> IF y = x THEN 2 ELSE 1]>> : x, y \in {1, 2}}
UnionCases ==
    Case(Of("dense", <<Opt("x", Text), Opt("y", Text)>>),
         {Array("dense", rows, <<left, right>>) : rows \in UnionRows, left \in Texts(2),
             right \in {Array("text", <<"t1", Null>>, <<>>), Array("text", <<"tx", "t">>, <<>>)}},
         EitherWay("v", {Of("dense", <<Req("x", Number), Opt("y", Number)>>),
                         Of("dense", <<Opt("x", Text)>>)}), {"field"})
    \union Case(Of("sparse", <<Opt("x", Row), Opt("y", Text)>>),
         {Array("sparse", <<[id |-> x, at |-> 1], [id |-> y, at |-> 2]>>, <<left, right>>) :
             x, y \in {1, 2}, left \in Rows(2), right \in {Array("text", <<"t1", Null>>, <<>>)}},
         {Req("v", Of("sparse", <<Opt("x", type), Opt("y", Text)>>)) : type \in RowTargets},
         {"field"})

Entries == {Array("struct", <<TRUE, TRUE>>, <<keys, values>>) :
               keys \in Cells("text", 2, {"t1", "t01", "tx"}), values \in Texts(2)}
MapCases ==
    Case(MapOf(Req("key", Text), Opt("value", Text), FALSE), Over("map", Spans, Entries),
         EitherWay("v", {MapOf(Req("key", Number), Opt("value", Text), FALSE),
                         MapOf(Req("key", Text), Req("value", Text), FALSE),
                         MapOf(Req("key", Text), Opt("value", Number), TRUE)}), {"field"})

Unanswered == [kind |-> "unanswered"]
Cases(case) ==
    \/ case \in LeafCases \/ case \in StructCases \/ case \in ListCases
    \/ case \in DictCases \/ case \in RunCases \/ case \in UnionCases
    \/ case \in MapCases

Cast ==
    /\ answer = Unanswered
    /\ answer' = CastArray(asked.target, asked.policy, asked.source, asked.array, asked.safe)
    /\ UNCHANGED asked

-----------------------------------------------------------------------------
(* Properties.                                                             *)

Wanted(case) ==
    [row \in DOMAIN case.array.rows |->
        ValueOf(case.target, case.policy, case.source, ValueAt(case.array, row), case.safe)]

\* A slot that is present and hidden, under a target with a required column:
\* what is hidden is cast to null, which the required column refuses, though
\* plan.rs:4874-4876 has it that a masked null is legal.
RECURSIVE HidesPresent(_, _, _, _)
HidesPresent(target, source, array, shown) ==
    /\ Planned(target, source)
    /\ \/ /\ target.kind = "struct"
          /\ \E row \in DOMAIN array.rows \ shown : array.rows[row]
          /\ \E k \in DOMAIN target.fields : ~target.fields[k].nullable
       \/ \E k \in DOMAIN target.fields :
            LET from == IF target.kind = "struct"
                        THEN SourceOf(source.fields, target.fields[k].name) ELSE {k}
            IN \E j \in from :
                HidesPresent(target.fields[k].type, source.fields[j].type, array.children[j],
                             Exposed(array, j, shown))

\* A dictionary whose keys name all the values they can.
RECURSIVE FullDictionary(_)
FullDictionary(array) ==
    \/ /\ array.kind = "dict"
       /\ KeyCapacity <= Cardinality({ValueAt(array.children[1], place) :
                                          place \in Live(array, DOMAIN array.rows)})
    \/ \E k \in DOMAIN array.children : FullDictionary(array.children[k])

\* A cast answers, row by row, with the value each row had, converted as the
\* field asks, whatever the layout and whatever its hidden slots hold; and it
\* fails only when the types cannot be planned, a row that is seen has no such
\* value, or for one of three limits of the layouts.
CastIsOfValues ==
    /\ answer \notin {Unanswered, Failed} =>
          [row \in DOMAIN answer.rows |-> ValueAt(answer, row)] = Wanted(asked)
    /\ answer = Failed =>
          \/ Unplannable(asked.target.type, asked.source, FALSE)
          \/ \E row \in DOMAIN asked.array.rows : Wanted(asked)[row] = Broken
          \/ FullDictionary(asked.array)
          \/ HidesPresent(asked.target.type, asked.source, asked.array, DOMAIN asked.array.rows)
          \/ Sliced(asked.array)

ValuesIn(array) == [row \in DOMAIN array.rows |-> ValueAt(array, row)]
CastAgain(array) ==
    CastArray(asked.target, asked.policy, asked.target.type, array, asked.safe)

\* What a cast to a field returned is of that field: casting it again returns
\* it slot for slot, so a file read under the schema it was written with is
\* not rebuilt; and the array built anew from its values, whatever stood in
\* its hidden slots, holds them and keeps them through the cast, unless the
\* keys of a dictionary are too few to build it.
ResultIsOfField ==
    answer \notin {Unanswered, Failed} =>
        LET anew == ArrayFromValues(asked.target.type, ValuesIn(answer)) IN
        /\ anew = Failed => FullDictionary(answer)
        /\ \A array \in {answer, anew} \ {Failed} :
              \A again \in {CastAgain(array)} :
                  /\ array = answer => again = answer
                  /\ again # Failed
                  /\ ValuesIn(array) = ValuesIn(answer) /\ ValuesIn(again) = ValuesIn(answer)

\* What a cast returns is of the values it was given and of the field it was
\* asked for.
CastsHold == CastIsOfValues /\ ResultIsOfField

Column(name, type, nullable, id) ==
    [name |-> name, type |-> type, nullable |-> nullable, id |-> id, born |-> <<0, id>>]
RowOf(columns) == [kind |-> "struct", fields |-> columns]

TwoLevels == << Column("a", Number, FALSE, 1), Column("b", Text, TRUE, 2),
                Column("s", RowOf(<<Column("x", Number, TRUE, 4)>>), TRUE, 3) >>

Add(parent, column) == [kind |-> "add", parent |-> parent, column |-> column]
Drop(parent, name) == [kind |-> "drop", parent |-> parent, name |-> name]
Rename(parent, name, to) == [kind |-> "rename", parent |-> parent, name |-> name, to |-> to]
Nullable(parent, name) == [kind |-> "nullable", parent |-> parent, name |-> name]
Promote(parent, name) ==
    [kind |-> "type", parent |-> parent, name |-> name, type |-> Leaf("long")]

\* A column added, required, nested, a copy of one that is there, named as
\* another but for its case; each other operation; two in one update.
SomeUpdates == {
    <<Add(<<>>, Column("c", Number, FALSE, 0))>>,
    <<Add(<<>>, Column("c", RowOf(<<Column("x", Text, TRUE, 0)>>), TRUE, 0))>>,
    <<Add(<<"s">>, Column("y", Number, FALSE, 0))>>,
    <<Drop(<<>>, "b"), Add(<<>>, Column("b", Text, TRUE, 2))>>,
    <<Add(<<>>, Column("A", Text, TRUE, 0))>>,
    <<Drop(<<>>, "s")>>,
    <<Drop(<<"s">>, "x")>>,
    <<Rename(<<>>, "b", "c")>>,
    <<Rename(<<"s">>, "x", "y"), Nullable(<<>>, "a")>>,
    <<Promote(<<>>, "a")>>,
    <<Promote(<<"s">>, "x"), Add(<<>>, Column("c", Leaf("long"), TRUE, 0))>> }

Plainly(columns) == RowOf(Plain(columns))
Batch(rows, a, b, s, x) ==
    [source |-> Plainly(TwoLevels),
     array |-> Array("struct", rows, << Array("int", a, <<>>), Array("text", b, <<>>),
                  Array("struct", s, <<Array("int", x, <<>>)>>) >>)]
SomeBatches == {
    Batch(<<TRUE, TRUE>>, <<"i1", "i1">>, <<"t1", "null">>, <<TRUE, FALSE>>, <<"i1", "null">>),
    [source |-> RowOf(<<Opt("B", Text), Req("c", Number), Opt("a", Leaf("long"))>>),
     array |-> Array("struct", <<TRUE>>, << Array("text", <<"tx">>, <<>>),
                  Array("int", <<"i0">>, <<>>), Array("long", <<"null">>, <<>>) >>)] }

Alike == Permutations(Handles)
NoCase == [kind |-> "none"]
NoSchema == Init /\ asked = NoCase /\ answer = Unanswered
OneOf ==
    /\ Init
    /\ answer = Unanswered
    /\ asked = NoCase \/ Cases(asked)
Step ==
    \/ asked # NoCase /\ Cast /\ UNCHANGED vars
    \/ asked = NoCase /\ EvolveNext /\ UNCHANGED <<asked, answer>>
Spec == OneOf /\ [][Step]_<<vars, asked, answer>>

=============================================================================
