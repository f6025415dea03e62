--------------------------- MODULE MCConversions ---------------------------
(***************************************************************************)
(* Instances of GlobalIndex, RowConversions and PgText: small hashes, one  *)
(* or two columns of every type and route, texts of up to two characters.  *)
(***************************************************************************)
EXTENDS GlobalIndex, RowConversions, PgText

(* Up to three keys in the first flush, with equal hashes among them *)
Hashes == {0, 5, 9, 15}
Flushes == UNION {[1 .. n -> Hashes] : n \in 1 .. 3}
In(a, b, keep, n) == [first |-> a, second |-> b, keep |-> keep, files |-> n]
All == (1 .. 6) \X (0 .. 12)
Odd == {p \in All : (p[1] + p[2]) % 2 = 1}
MCInputs ==
  {In(<<a>>, <<b>>, All, 2) : a \in Flushes, b \in {<<0>>, <<5, 9>>, <<15, 5, 5>>}}
  \cup {In(<<a, <<15, 0>>>>, <<b>>, Odd, 1) : a \in Flushes, b \in {<<9, 9>>, <<15, 5, 5>>}}
  \cup {In(<<<<1, 2, 3, 4, 5, 6, 7>>, <<1, 2>>>>, <<<<8, 9>>, <<10>>>>, Odd, 3)}
-----------------------------------------------------------------------------
PgColumn(t, m)   == [type |-> t, mod |-> m, nullable |-> TRUE]
JsonColumn(t, n) == [type |-> t, nullable |-> n]
AvroColumn(t)    == [type |-> t]
NullValue == <<"null">>
V(S) == {<<"v", x>> : x \in S}

PgSimple(t, mod) ==
  CASE t = "BOOL" -> V({TRUE, FALSE})
    [] t \in {"BPCHAR", "TEXT", "JSONB", "BYTEA", "UUID", "INTERVAL"} -> V({"x", "y"})
    [] t = "NUMERIC" -> IF mod = <<>> THEN {<<"num", 15, 1>>, <<"num", 2000, 3>>, <<"num", 9000, 0>>, <<"nan">>}
                        ELSE {<<"num", 15, mod[2]>>, <<"num", -100, mod[2]>>, <<"nan">>}
    [] OTHER -> V({0, 1, -2})

RECURSIVE PgVals(_, _, _)
PgVals(t, mod, toast) ==
  toast \cup {NullValue} \cup
  (CASE t[1] = "ARRAY" ->
          {<<"arr", <<>>>>} \cup {<<"arr", <<x>>>> : x \in PgVals(t[2], <<>>, {})}
            \cup {<<"arr", <<x, NullValue>>>> : x \in PgVals(t[2], <<>>, {})}
     [] t[1] = "COMPOSITE" ->
          {<<"rec", <<x, y>>>> : x \in PgVals(t[2][1], <<>>, {}), y \in PgVals(t[2][2], <<>>, {})}
     [] OTHER -> PgSimple(t[1], mod))

Decimals == {<<"num", m, e>> : m \in {0, 1, -5, 15, 95, 99, 100, -149, 995}, e \in {-1, 0, 1, 2, 3}}

(* Values of the right kind, of the wrong one, and beyond the width *)
RECURSIVE JsonVals(_)
JsonVals(fs) ==
  LET t == fs.type
  IN  {NullValue} \cup
      (CASE t[1] = "decimal" -> Decimals
         [] Lower(t[1]) = "list"   -> {<<"arr", <<>>>>} \cup {<<"arr", <<x>>>> : x \in JsonVals(t[2])}
         [] Lower(t[1]) = "struct" ->
              {<<"rec", <<x, y>>>> : x \in JsonVals(t[2][1]) \cup {<<"missing">>}, y \in JsonVals(t[2][2])}
         [] t[1] \in {"int16", "int32", "int64"} -> V({0, 3, 5, -8, 9}) \cup {<<"float", 2>>}
         [] t[1] \in {"float32", "float64"}      -> V({3}) \cup {<<"float", 2>>, <<"str", "x">>}
         [] t[1] = "boolean" -> {<<"bool", TRUE>>, <<"bool", FALSE>>}
         [] t[1] = "date32"  -> {<<"date", 1>>, <<"str", "x">>}
         [] t[1] = "string"  -> {<<"str", "x">>, <<"str", "y">>, <<"date", 1>>})

RECURSIVE AvroVals(_)
AvroVals(t) ==
  CASE t[1] = "union"  -> {NullValue} \cup AvroVals(t[2])
    [] t[1] = "array"  -> {<<"arr", <<>>>>} \cup {<<"arr", <<x, y>>>> : x \in AvroVals(t[2]), y \in AvroVals(t[2])}
    [] t[1] = "map"    ->
         {<<"arr", <<>>>>} \cup {<<"arr", <<<<"rec", <<<<"v", "k">>, x>>>>>>>> : x \in AvroVals(t[2])}
    [] t[1] = "record" -> {<<"rec", <<x, y>>>> : x \in AvroVals(t[2][1]), y \in AvroVals(t[2][2])}
    [] t[1] = "null"   -> {NullValue}
    [] t[1] = "boolean" -> V({TRUE, FALSE})
    [] t[1] = "bytes"  -> V({"x", "raw"})
    [] t[1] \in {"string", "fixed"} -> V({"x", "y"})
    [] OTHER           -> V({0, 1})

MCValues(route, col) ==
  CASE route = "pg"   -> PgVals(col.type, col.mod, {<<"toast">>})
    [] route = "json" -> JsonVals(col) \cup {<<"missing">>}
    [] route = "avro" -> AvroVals(col.type)

Type(x) == <<x>>
Arr(t) == <<"ARRAY", t>>
Comp(t, u) == <<"COMPOSITE", <<t, u>>>>
Case(r, d) == [route |-> r, decl |-> d]

PgCases ==
  {Case("pg", <<PgColumn(Type(t), <<>>)>>) : t \in (DOMAIN CellKind) \cup {"INTERVAL"}}
  \cup {Case("pg", <<PgColumn(Type("NUMERIC"), m)>>) : m \in {<<3, 1>>, <<4, 2>>, <<2, 3>>, <<300, 0>>}}
  \cup {Case("pg", <<PgColumn(t, <<>>), PgColumn(Type("BOOL"), <<>>)>>) :
          t \in {Arr(Type("INT4")), Arr(Type("NUMERIC")), Arr(Type("INTERVAL")), Comp(Type("INT4"), Type("TEXT")),
                 Comp(Type("DATE"), Arr(Type("INT2"))), Arr(Comp(Type("INT4"), Type("BOOL")))}}

JsonCases ==
  {Case("json", <<JsonColumn(Type(t), n)>>) : t \in DOMAIN JsonType, n \in BOOLEAN}
  \cup {Case("json", <<JsonColumn(<<"decimal", ps[1], ps[2]>>, TRUE)>>) :
          ps \in {<<3, 1>>, <<2, 2>>, <<2, 3>>, <<2, -1>>, <<3, 0>>}}
  \cup {Case("json", <<JsonColumn(t, TRUE)>>) :
          t \in {<<"list", JsonColumn(Type("int32"), TRUE)>>,
                 <<"list", JsonColumn(<<"list", JsonColumn(Type("boolean"), TRUE)>>, TRUE)>>,
                 <<"list", JsonColumn(<<"List", JsonColumn(Type("boolean"), TRUE)>>, TRUE)>>,
                 <<"list", JsonColumn(<<"Struct", <<JsonColumn(Type("boolean"), TRUE),
                                                    JsonColumn(Type("string"), FALSE)>>>>, TRUE)>>,
                 <<"struct", <<JsonColumn(Type("boolean"), TRUE), JsonColumn(Type("int64"), FALSE)>>>>}}

AvroCases ==
  {Case("avro", <<AvroColumn(t), AvroColumn(Type("long"))>>) :
     t \in {Type(n) : n \in (DOMAIN AvroType) \ {"long"}}
           \cup {<<"fixed", 16>>, <<"fixed", 8>>, <<"union", Type("string")>>, <<"array", <<"union", Type("int")>>>>,
                 <<"union", <<"array", Type("int")>>>>, <<"map", <<"union", Type("int")>>>>,
                 <<"record", <<Type("int"), <<"union", Type("bytes")>>>>>>}}

MCCases == PgCases \cup JsonCases \cup AvroCases
-----------------------------------------------------------------------------
Chars == {"a", "N", "t", "\"", "\\", ",", "\t", "\n", "null"}
Words == {<<>>, NoText} \cup {<<c>> : c \in Chars} \cup {<<c, d>> : c \in Chars, d \in Chars}
Few == {NoText, <<>>, <<"a">>, <<"\"">>, <<"\\">>, <<",", "a">>, <<"null">>}
Lists == {<<t>> : t \in Words} \cup {<<t, u>> : t \in Words, u \in Few} \cup {<<t, u>> : t \in Few, u \in Words}

MCTexts ==
  {[form |-> f, values |-> v] : f \in {"array", "composite", "copy"}, v \in Lists}
  \cup {[form |-> "array", values |-> <<>>]}
  \cup {[form |-> "records", values |-> <<<<t, u>>>>] : t \in Few, u \in Few}
  \cup {[form |-> "records", values |-> <<<<t, u>>, <<u, t>>>>] : t \in Few, u \in Few}
=============================================================================
