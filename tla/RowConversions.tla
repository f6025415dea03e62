--------------------------- MODULE RowConversions ---------------------------
(***************************************************************************)
(* The three ways into a table's columns, each a conversion of the schema  *)
(* and a conversion of the rows that have to agree:                        *)
(*   pg     pg_replicate/util.rs and conversions/text.rs, cdc_event.rs     *)
(*   json   rest_ingest/schema_util.rs, json_converter.rs, decimal_utils.rs*)
(*   avro   rest_ingest/avro_converter.rs                                  *)
(* Rows go through the conversion into ColumnStoreBuffer::append_row, and  *)
(* a full batch is finished into Arrow arrays (storage/mooncake_table/     *)
(* data_batches.rs).                                                       *)
(*                                                                         *)
(* A value of a source is a tuple: <<"null">>, <<"v", x>>, the decimal     *)
(* <<"num", m, e>> for m * 10^-e, <<"nan">>, <<"arr", items>>,             *)
(* <<"rec", fields>>; JSON tells <<"float", x>> and <<"str", x>> from      *)
(* numbers and has <<"missing">> for a field left out; <<"toast">> is an   *)
(* unchanged TOASTed column of an update.                                  *)
(***************************************************************************)
EXTENDS Columns

CONSTANTS
  Bits128,             \* width of i128
  DefaultScale,        \* DECIMAL_DEFAULT_SCALE
  Cases,               \* the tables: [route, decl], decl the columns as the source declares them
  SourceValues(_, _),  \* the values of a declared column on a route
  MaxRows

VARIABLES
  schema,          \* the case
  buffer,          \* current_batch_builder
  sent,            \* the rows of the source that the conversion took
  rows,            \* the same rows converted
  arrays,          \* the finished columns, <<>> before
  fault            \* "none", "append": a builder refused a converted row, or "panic"

cvars == <<schema, buffer, sent, rows, arrays, fault>>

Refused == <<"refused">>

(* A conversion of several values fails with the first that fails *)
AllOf(seq, Wrapped(_)) == IF \E i \in DOMAIN seq : seq[i] = Refused THEN Refused ELSE Wrapped(seq)
-----------------------------------------------------------------------------
(* numeric_precision_scale: the precision is read into a u8, the scale into *)
(* an i8                                                                    *)
NumericType(mod) ==
  IF mod = <<>> THEN <<"Decimal128", MaxPrecision, DefaultScale>>
  ELSE <<"Decimal128", mod[1] % 256, ((mod[2] + 128) % 256) - 128>>

(* postgres_primitive_to_arrow_type; a numeric column is always nullable *)
PrimitiveField(t, mod, nullable) ==
  CASE t[1] = "BOOL"            -> Field(<<"Boolean">>, nullable)
    [] t[1] = "INT2"            -> Field(<<"Int16">>, nullable)
    [] t[1] = "INT4"            -> Field(<<"Int32">>, nullable)
    [] t[1] \in {"INT8", "OID"} -> Field(<<"Int64">>, nullable)
    [] t[1] = "FLOAT4"          -> Field(<<"Float32">>, nullable)
    [] t[1] = "FLOAT8"          -> Field(<<"Float64">>, nullable)
    [] t[1] = "NUMERIC"         -> Field(NumericType(mod), TRUE)
    [] t[1] = "DATE"            -> Field(<<"Date32">>, nullable)
    [] t[1] = "TIMESTAMP"       -> Field(<<"Timestamp", "none">>, nullable)
    [] t[1] = "TIMESTAMPTZ"     -> Field(<<"Timestamp", "UTC">>, nullable)
    [] t[1] = "TIME"            -> Field(<<"Time64">>, nullable)
    [] t[1] = "UUID"            -> Field(<<"FixedSizeBinary", 16>>, nullable)
    [] t[1] = "BYTEA"           -> Field(<<"Binary">>, nullable)
    [] OTHER                    -> Field(<<"Utf8">>, nullable)

(* postgres_type_to_arrow_type: what is inside an array or a composite is   *)
(* nullable and has no modifier                                             *)
RECURSIVE PgField(_, _, _)
PgField(t, mod, nullable) ==
  CASE t[1] = "ARRAY"     -> Field(<<"List", PgField(t[2], <<>>, TRUE)>>, nullable)
    [] t[1] = "COMPOSITE" -> Field(<<"Struct", [i \in DOMAIN t[2] |-> PgField(t[2][i], <<>>, TRUE)]>>, nullable)
    [] OTHER              -> PrimitiveField(t, mod, nullable)

(* The Cell of a simple type, and whether a column of the type is replicated *)
CellKind ==
  [BOOL |-> "Bool", BPCHAR |-> "String", TEXT |-> "String", INT2 |-> "I16", INT4 |-> "I32", INT8 |-> "I64",
   FLOAT4 |-> "F32", FLOAT8 |-> "F64", NUMERIC |-> "Numeric", BYTEA |-> "Bytes", DATE |-> "Date", TIME |-> "Time",
   TIMESTAMP |-> "TimeStamp", TIMESTAMPTZ |-> "TimeStampTz", UUID |-> "Uuid", JSONB |-> "Json", OID |-> "U32"]

IsSupportedType(t) == t[1] \in DOMAIN CellKind \cup {"ARRAY", "COMPOSITE"}

(* default_value: what takes the place of an unchanged TOASTed column; -1   *)
(* stands for the first date and the first time stamp                       *)
ZeroOf ==
  [Bool |-> FALSE, String |-> "", I16 |-> 0, I32 |-> 0, I64 |-> 0, F32 |-> 0, F64 |-> 0, Bytes |-> "", Date |-> -1,
   Time |-> 0, TimeStamp |-> -1, TimeStampTz |-> -1, Uuid |-> "nil", Json |-> "null", U32 |-> 0]

DefaultValue(t) ==
  CASE t[1] = "COMPOSITE" -> <<"Composite", <<>>>>
    [] t[1] = "ARRAY"     -> IF t[2][1] \in DOMAIN CellKind \cup {"COMPOSITE"} THEN <<"Array", <<>>>> ELSE Null
    [] t[1] = "NUMERIC"   -> <<"Numeric", <<"num", 0, 0>>>>
    [] OTHER              -> <<CellKind[t[1]], ZeroOf[CellKind[t[1]]]>>

(* try_from_str; null elements and fields are told apart by the parsers *)
RECURSIVE CellOf(_, _)
CellOf(t, v) ==
  CASE v = <<"null">>     -> Null
    [] t[1] = "ARRAY"     ->
         IF t[2][1] \notin DOMAIN CellKind \cup {"COMPOSITE"} THEN Refused
         ELSE AllOf([k \in DOMAIN v[2] |-> CellOf(t[2], v[2][k])], LAMBDA cells : <<"Array", cells>>)
    [] t[1] = "COMPOSITE" ->
         AllOf([k \in DOMAIN v[2] |-> CellOf(t[2][k], v[2][k])], LAMBDA cells : <<"Composite", cells>>)
    [] t[1] = "NUMERIC"   -> <<"Numeric", v>>
    [] OTHER              -> <<CellKind[t[1]], v[2]>>

(* try_from_tuple_data_slice, for one column *)
TupleCell(t, v) ==
  CASE v = <<"null">>  -> Null
    [] v = <<"toast">> -> DefaultValue(t)
    [] OTHER           -> CellOf(t, v)

(* From<Cell> for RowValue *)
RowKind ==
  [Bool |-> "Bool", String |-> "ByteArray", I16 |-> "Int32", I32 |-> "Int32", U32 |-> "Int64", I64 |-> "Int64",
   F32 |-> "Float32", F64 |-> "Float64", Date |-> "Int32", Time |-> "Int64", TimeStamp |-> "Int64",
   TimeStampTz |-> "Int64", Uuid |-> "FixedLenByteArray", Json |-> "ByteArray", Bytes |-> "ByteArray"]

NumericValue(v) == IF v = <<"nan">> THEN Null ELSE <<"Decimal", v[2]>>

RECURSIVE CellToRow(_)

ConvertArrayCell(cells) == [k \in DOMAIN cells |-> CellToRow(cells[k])]

CellToRow(cell) ==
  CASE cell = Null              -> Null
    [] cell[1] = "Numeric"      -> NumericValue(cell[2])
    [] cell[1] = "Array"        -> <<"Array", ConvertArrayCell(cell[2])>>
    [] cell[1] = "Composite"    -> <<"Struct", [k \in DOMAIN cell[2] |-> CellToRow(cell[2][k])]>>
    [] OTHER                    -> <<RowKind[cell[1]], cell[2]>>

PgValue(t, v) == IF TupleCell(t, v) = Refused THEN Refused ELSE CellToRow(TupleCell(t, v))

(* to_i128().unwrap() *)
RECURSIVE Oversized(_)
Oversized(v) ==
  CASE v[1] = "num"           -> ~InBits(v[2], Bits128)
    [] v[1] \in {"arr", "rec"} -> \E k \in DOMAIN v[2] : Oversized(v[2][k])
    [] OTHER                  -> FALSE
-----------------------------------------------------------------------------
(* build_field_from_schema *)
JsonType ==
  [int16 |-> "Int16", int32 |-> "Int32", int64 |-> "Int64", string |-> "Utf8", boolean |-> "Boolean",
   float32 |-> "Float32", float64 |-> "Float64", date32 |-> "Date32"]

(* to_lowercase, for the names that a list looks at in the spelling it got *)
Lower(name) == CASE name = "List" -> "list" [] name = "Struct" -> "struct" [] OTHER -> name

(* The schemas it refuses: a list holds neither lists nor structs, unless   *)
(* their names have a capital letter                                        *)
RECURSIVE JsonAccepts(_)
JsonAccepts(fs) ==
  CASE Lower(fs.type[1]) = "struct" -> \A i \in DOMAIN fs.type[2] : JsonAccepts(fs.type[2][i])
    [] Lower(fs.type[1]) = "list"   -> fs.type[2].type[1] \notin {"list", "struct"} /\ JsonAccepts(fs.type[2])
    [] OTHER                        -> TRUE

RECURSIVE JsonField(_)
JsonField(fs) ==
  LET t == fs.type
  IN  CASE t[1] \in DOMAIN JsonType -> Field(<<JsonType[t[1]]>>, fs.nullable)
        [] t[1] = "decimal" -> Field(<<"Decimal128", t[2], t[3]>>, fs.nullable)
        [] Lower(t[1]) = "struct" -> Field(<<"Struct", [i \in DOMAIN t[2] |-> JsonField(t[2][i])]>>, fs.nullable)
        [] Lower(t[1]) = "list"   -> Field(<<"List", JsonField(t[2])>>, fs.nullable)

Abs(n)    == IF n < 0 THEN -n ELSE n
Digits(n) == CHOOSE d \in 1 .. 9 : Abs(n) < 10 ^ d /\ (d = 1 \/ Abs(n) >= 10 ^ (d - 1))

(* m * 10^-e as a mantissa for the scale s, half away from zero *)
Rescaled(m, e, s) ==
  IF s >= e THEN m * 10 ^ (s - e)
  ELSE LET unit == 10 ^ (e - s)
           abs  == (Abs(m) + unit \div 2) \div unit
       IN  IF m < 0 THEN -abs ELSE abs

(* convert_mantissa_to_row_value *)
Mantissa(m) == IF InBits(m, Bits128) THEN <<"Decimal", m>> ELSE Refused

(* Mutant: the missing zeros are not added to the mantissa *)
HandleStandardUnpadded(m, e, p, s) ==
  IF Digits(m) > p \/ e > s \/ Digits(m) - e > p - s THEN Refused ELSE Mantissa(m)

HandleStandard(m, e, p, s) ==
  IF Digits(m) > p \/ e > s \/ Digits(m) - e > p - s THEN Refused
  ELSE Mantissa(m * 10 ^ (s - e))

(* For a scale above the precision, which no builder takes *)
HandleFractionalOnly(m, e, p, s) ==
  LET r == Rescaled(m, e, s)
  IN  IF Digits(r) - s > 0 \/ Digits(r) > p THEN Refused ELSE Mantissa(r)

HandleNegativeScale(m, p, s) ==
  LET unit == 10 ^ (-s)
      r    == Rescaled(m, 0, s) * unit
  IN  IF Digits(r) > p - s THEN Refused ELSE Mantissa(r)

ConvertDecimal(m, e, p, s) ==
  IF s < 0 THEN HandleNegativeScale(m, p, s)
  ELSE IF s > p THEN HandleFractionalOnly(m, e, p, s)
  ELSE HandleStandard(m, e, p, s)

Wrapped32(n) == ((n + 2 ^ (Bits32 - 1)) % 2 ^ Bits32) - 2 ^ (Bits32 - 1)

(* convert_value of the JSON converter *)
RECURSIVE JsonValue(_, _)
JsonValue(f, v) ==
  LET t == f.type[1]
      isI64 == v[1] = "v" /\ InBits(v[2], Bits64)
  IN  CASE t = "List" ->
             IF v[1] # "arr" THEN Refused
             ELSE AllOf([k \in DOMAIN v[2] |-> JsonValue(f.type[2], v[2][k])], LAMBDA vs : <<"Array", vs>>)
        [] v = <<"null">>                              -> IF f.nullable /\ t # "Int16" THEN Null ELSE Refused
        [] t = "Struct" /\ v[1] = "rec" ->
             AllOf([k \in DOMAIN v[2] |->
                      IF v[2][k] # <<"missing">> THEN JsonValue(f.type[2][k], v[2][k])
                      ELSE IF f.type[2][k].nullable THEN Null ELSE Refused], LAMBDA vs : <<"Struct", vs>>)
        [] t = "Boolean" /\ v[1] = "bool"              -> <<"Bool", v[2]>>
        [] t = "Int32" /\ isI64                        -> <<"Int32", Wrapped32(v[2])>>
        [] t = "Int64" /\ isI64                        -> <<"Int64", v[2]>>
        [] t = "Float32" /\ v[1] \in {"v", "float"}    -> <<"Float32", v[2]>>
        [] t = "Float64" /\ v[1] \in {"v", "float"}    -> <<"Float64", v[2]>>
        [] t = "Date32" /\ v[1] = "date"               -> <<"Int32", v[2]>>
        [] t = "Utf8" /\ v[1] = "str"                  -> <<"ByteArray", v[2]>>
        [] t = "Decimal128" /\ v[1] = "num"            -> ConvertDecimal(v[2], v[3], f.type[2], f.type[3])
        [] OTHER                                       -> Refused
-----------------------------------------------------------------------------
(* convert_schema_type of the Avro converter *)
AvroType ==
  [null |-> "Null", boolean |-> "Boolean", int |-> "Int32", long |-> "Int64", float |-> "Float32",
   double |-> "Float64", bytes |-> "Binary", string |-> "Utf8"]

RECURSIVE AvroField(_)
AvroField(t) ==
  CASE t[1] \in DOMAIN AvroType -> Field(<<AvroType[t[1]]>>, t[1] = "null")
    [] t[1] = "array"  -> Field(<<"List", AvroField(t[2])>>, FALSE)
    [] t[1] = "map"    -> Field(<<"List", Field(<<"Struct", <<Field(<<"Utf8">>, FALSE), AvroField(t[2])>>>>, FALSE)>>,
                                FALSE)
    [] t[1] = "union"  -> Field(AvroField(t[2]).type, TRUE)
    [] t[1] = "record" -> Field(<<"Struct", [i \in DOMAIN t[2] |-> AvroField(t[2][i])]>>, FALSE)
    [] t[1] = "fixed"  -> Field(<<"FixedSizeBinary", t[2]>>, FALSE)

(* convert_value of the Avro converter; a map is the list of its entries *)
AvroKind ==
  [boolean |-> "Bool", int |-> "Int32", long |-> "Int64", float |-> "Float32", double |-> "Float64",
   bytes |-> "ByteArray", string |-> "ByteArray"]

RECURSIVE AvroValue(_, _)
AvroValue(t, v) ==
  CASE t[1] = "union"  -> IF v = <<"null">> THEN Null ELSE AvroValue(t[2], v)
    [] t[1] = "array"  -> AllOf([k \in DOMAIN v[2] |-> AvroValue(t[2], v[2][k])], LAMBDA vs : <<"Array", vs>>)
    [] t[1] = "map"    -> AllOf([k \in DOMAIN v[2] |-> AvroValue(<<"record", <<<<"string">>, t[2]>>>>, v[2][k])],
                                LAMBDA vs : <<"Array", vs>>)
    [] t[1] = "record" -> AllOf([k \in DOMAIN v[2] |-> AvroValue(t[2][k], v[2][k])], LAMBDA vs : <<"Struct", vs>>)
    [] t[1] = "fixed"  -> IF t[2] = 16 THEN <<"FixedLenByteArray", v[2]>> ELSE Refused
    [] t[1] = "null"   -> Null
    [] OTHER           -> <<AvroKind[t[1]], v[2]>>
-----------------------------------------------------------------------------
ColumnField(route, col) ==
  CASE route = "pg"   -> PgField(col.type, col.mod, col.nullable)
    [] route = "json" -> JsonField(col)
    [] route = "avro" -> AvroField(col.type)

ConvertValue(route, col, v) ==
  CASE route = "pg"   -> PgValue(col.type, v)
    [] route = "json" -> JsonValue(JsonField(col), v)
    [] route = "avro" -> AvroValue(col.type, v)

Fields(c) == [i \in DOMAIN c.decl |-> ColumnField(c.route, c.decl[i])]

(* A schema that is refused makes no table *)
IsAccepted(c) ==
  \A i \in DOMAIN c.decl : CASE c.route = "pg"   -> IsSupportedType(c.decl[i].type)
                             [] c.route = "json" -> JsonAccepts(c.decl[i])
                             [] c.route = "avro" -> TRUE

CInit ==
  /\ schema \in {c \in Cases : IsAccepted(c)}
  /\ fault = IF \A i \in DOMAIN schema.decl : CanBuild(Fields(schema)[i].type) THEN "none" ELSE "panic"
  /\ buffer = IF fault = "none" THEN [i \in DOMAIN schema.decl |-> NewBuilder(Fields(schema)[i].type)] ELSE <<>>
  /\ sent = <<>> /\ rows = <<>> /\ arrays = <<>>

ValuesOf(c, i) == SourceValues(c.route, c.decl[i])

SourceRows(c) ==
  IF Len(c.decl) = 1 THEN {<<v>> : v \in ValuesOf(c, 1)}
  ELSE {<<v, w>> : v \in ValuesOf(c, 1), w \in ValuesOf(c, 2)}

(* A row arrives; one that cannot be converted is dropped *)
AppendConverted ==
  /\ fault = "none" /\ arrays = <<>> /\ Len(rows) < MaxRows
  /\ \E row \in SourceRows(schema) :
       LET values == [i \in DOMAIN row |-> ConvertValue(schema.route, schema.decl[i], row[i])]
           res    == AppendAll(buffer, values)
       IN  IF \E i \in DOMAIN values : values[i] = Refused THEN UNCHANGED <<buffer, sent, rows, fault>>
           ELSE /\ sent' = Append(sent, row)
                /\ rows' = Append(rows, values)
                /\ buffer' = res.b
                /\ fault' = IF schema.route = "pg" /\ \E i \in DOMAIN row : Oversized(row[i]) THEN "panic"
                            ELSE IF res.ok THEN "none" ELSE "append"
  /\ UNCHANGED <<schema, arrays>>

FinishColumns ==
  /\ fault = "none" /\ arrays = <<>> /\ rows # <<>>
  /\ arrays' = [i \in DOMAIN buffer |-> FinishArray(buffer[i], Fields(schema)[i].type)]
  /\ UNCHANGED <<schema, buffer, sent, rows, fault>>

CNext == AppendConverted \/ FinishColumns

CSpec == CInit /\ [][CNext]_cvars
-----------------------------------------------------------------------------
(* What a value means, at the source and in a finished column *)
RECURSIVE Normal(_, _)
Normal(m, e) ==
  IF m = 0 THEN <<"num", 0, 0>>
  ELSE IF m % 10 = 0 THEN Normal(m \div 10, e - 1) ELSE <<"num", m, e>>

RECURSIVE SourceMeaning(_, _)
SourceMeaning(dt, v) ==
  CASE v[1] \in {"null", "nan", "missing"} -> <<"null">>
    [] v[1] = "num" -> Normal(v[2], v[3])
    [] v[1] = "arr" -> <<"arr", [k \in DOMAIN v[2] |-> SourceMeaning(dt[2].type, v[2][k])]>>
    [] v[1] = "rec" -> <<"rec", [k \in DOMAIN v[2] |-> SourceMeaning(dt[2][k].type, v[2][k])]>>
    [] OTHER        -> <<"v", v[2]>>

RECURSIVE StoredMeaning(_, _)
StoredMeaning(dt, v) ==
  CASE v = Null           -> <<"null">>
    [] v[1] = "Decimal"   -> Normal(v[2], dt[3])
    [] v[1] = "Array"     -> <<"arr", [k \in DOMAIN v[2] |-> StoredMeaning(dt[2].type, v[2][k])]>>
    [] v[1] = "Struct"    -> <<"rec", [k \in DOMAIN v[2] |-> StoredMeaning(dt[2][k].type, v[2][k])]>>
    [] OTHER              -> <<"v", v[2]>>

(* Where the code changes a value knowingly or not:  an unchanged TOASTed    *)
(* column becomes a default, a numeric without a modifier loses its scale,   *)
(* a decimal of negative scale is stored unscaled, JSON integers wrap        *)
RECURSIVE Altered(_, _)
Altered(dt, v) ==
  CASE v[1] = "toast" -> TRUE
    [] v[1] = "num"   -> dt[3] < 0 \/ (schema.route = "pg" /\ v[3] # dt[3])
    [] v[1] = "arr"   -> \E k \in DOMAIN v[2] : Altered(dt[2].type, v[2][k])
    [] v[1] = "rec"   -> \E k \in DOMAIN v[2] : Altered(dt[2][k].type, v[2][k])
    [] v[1] = "v"     -> schema.route = "json" /\ dt[1] = "Int32" /\ ~InBits(v[2], Bits32)
    [] OTHER          -> FALSE

(* The value holds, or is, a null list of its column *)
RECURSIVE HasNullList(_, _)
HasNullList(dt, v) ==
  CASE dt[1] = "List"   -> v = Null
    [] dt[1] = "Struct" -> \E k \in DOMAIN dt[2] : HasNullList(dt[2][k].type, IF v = Null THEN Null ELSE v[2][k])
    [] OTHER            -> FALSE

(* append_null gives a list the offset of the one before it, whose items     *)
(* are then the null one's                                                   *)
Emptied(i, c) == i < Len(rows) /\ HasNullList(arrays[c].type, rows[i + 1][c])

FinishedCells == {<<i, c>> \in (DOMAIN rows) \X (DOMAIN schema.decl) : arrays # <<>>}

(* A finished column holds what the source sent, row by row: schema and row *)
(* conversion agree on every type, nested ones included, up to the known    *)
(* alterations.                                                             *)
ColumnsHoldRows ==
  \A <<i, c>> \in FinishedCells :
    Altered(arrays[c].type, sent[i][c]) \/ Emptied(i, c)
      \/ StoredMeaning(arrays[c].type, ValueAt(arrays[c], i)) = SourceMeaning(arrays[c].type, sent[i][c])

(* What a row converter accepts the builder of the schema converter's type  *)
(* accepts too, so that a row is never half appended; the exceptions are a  *)
(* default for an unchanged composite, numerics beyond 128 bits, and types  *)
(* without a builder, decimals of a scale above the precision among them.   *)
ConvertedRowsFit ==
  \/ fault = "none"
  \/ \E i \in DOMAIN schema.decl : ~CanBuild(Fields(schema)[i].type)
  \/ rows # <<>> /\ \E i \in DOMAIN schema.decl :
       Oversized(Last(sent)[i]) \/ (Last(sent)[i] = <<"toast">> /\ Fields(schema)[i].type[1] = "Struct")

(* A row arrives in its columns whole or not at all, and unchanged              *)
(* (append_row, finalize_current_batch).                                        *)
RowsArriveWhole == ColumnsHoldRows /\ ConvertedRowsFit

(* The arrays that are cast after they were built are compared as the wrong *)
(* kind of array                                                            *)
RECURSIVE IsCast(_)
IsCast(dt) ==
  CASE dt[1] = "List"   -> IsCast(dt[2].type)
    [] dt[1] = "Struct" -> \E k \in DOMAIN dt[2] : IsCast(dt[2][k].type)
    [] OTHER            -> dt[1] \in {"Int16", "Date32", "Timestamp", "Time64"}

RECURSIVE HoldsNull(_)
HoldsNull(v) == v = Null \/ (v[1] \in {"Array", "Struct"} /\ \E k \in DOMAIN v[2] : HoldsNull(v[2][k]))

(* A deletion by full row or by keys recognises the row it deletes in the   *)
(* batch that holds it, and in no slot that holds another value (a null     *)
(* slot passes for the default of its type).                                *)
RowsMatchTheirSlots ==
  \A <<i, c>> \in FinishedCells : \A j \in DOMAIN rows :
    LET dt == arrays[c].type
    IN  ~IsCast(dt) /\ ~Emptied(i, c) =>
          /\ rows[j][c] = rows[i][c] => ValueMatches(rows[j][c], arrays[c], i)
          /\ rows[j][c] # rows[i][c] /\ ~HoldsNull(rows[i][c]) => ~ValueMatches(rows[j][c], arrays[c], i)

(* The lookup key of a row read back from a file is that of the row that    *)
(* was written: the hash index of a file loaded in bulk finds the rows the  *)
(* source deletes later, and primitive keys are their own hash.             *)
KeysReadBack ==
  \A <<i, c>> \in FinishedCells :
    LET dt == arrays[c].type
    IN  /\ CanRead(dt) => ReadValue(arrays[c], i) = rows[i][c]
        /\ IsPrimitiveKey(dt) /\ rows[i][c] # Null => HasU64Key(rows[i][c])

(* A row is recognised where it is stored, in memory by its values and in a     *)
(* file by its key (value_matches_column, MoonlinkRow readers).                 *)
RowsAreRecognised == RowsMatchTheirSlots /\ KeysReadBack

(* A list is read back with its items whatever follows it in the column.    *)
ListsKeepTheirItems ==
  \A <<i, c>> \in FinishedCells :
    arrays[c].type[1] = "List" /\ rows[i][c] # Null => ValueAt(arrays[c], i) = rows[i][c]
=============================================================================
