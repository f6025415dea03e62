------------------------------ MODULE Columns ------------------------------
(***************************************************************************)
(* The values of a row (row/moonlink_type.rs), the builders that turn them *)
(* into Arrow columns (row/column_array_builder.rs), the comparison of a   *)
(* row with a column (row/moonlink_row.rs) and the way back from a column  *)
(* to rows (row/arrow_converter.rs).                                       *)
(*                                                                         *)
(* A data type is a tuple that starts with its name, a row value a pair of *)
(* its variant and its contents.  Contents are small integers and names;   *)
(* "raw" stands for bytes that are not UTF-8.                              *)
(***************************************************************************)
EXTENDS Integers, Sequences, SequencesExt, FiniteSetsExt

CONSTANTS
  Bits16, Bits32, Bits64    \* widths of i16, i32 and i64

Null == <<"Null">>

Field(type, nullable) == [type |-> type, nullable |-> nullable]

InBits(n, w) == -(2 ^ (w - 1)) <= n /\ n < 2 ^ (w - 1)
-----------------------------------------------------------------------------
(* ColumnArrayBuilder::new: several logical types share a physical builder *)
Physical(dt) ==
  CASE dt[1] \in {"Int16", "Int32", "Date32"}       -> "Int32"
    [] dt[1] \in {"Int64", "Timestamp", "Time64"}   -> "Int64"
    [] OTHER                                        -> dt[1]

Leaves == {"Boolean", "Int32", "Int64", "Float32", "Float64", "Decimal128", "Utf8", "FixedSizeBinary", "Binary"}

MaxPrecision == 38   \* of Decimal128Type

(* The types for which it does not panic: a decimal needs a precision that  *)
(* its type has and that is not below its scale                             *)
RECURSIVE CanBuild(_)
CanBuild(dt) ==
  CASE dt[1] \in {"List", "Map"} -> CanBuild(dt[2].type)
    [] dt[1] = "Struct"          -> \A i \in DOMAIN dt[2] : CanBuild(dt[2][i].type)
    [] dt[1] = "Decimal128"      -> dt[2] \in 1 .. MaxPrecision /\ dt[3] <= dt[2]
    [] OTHER                     -> Physical(dt) \in Leaves

RECURSIVE NewBuilder(_)
NewBuilder(dt) ==
  CASE dt[1] \in {"List", "Map"} ->
         [kind |-> dt[1], offsets |-> <<>>, valid |-> <<>>, inner |-> NewBuilder(dt[2].type)]
    [] dt[1] = "Struct" ->
         [kind |-> "Struct", valid |-> <<>>, children |-> [i \in DOMAIN dt[2] |-> NewBuilder(dt[2][i].type)]]
    [] OTHER ->
         [kind |-> Physical(dt), type |-> dt, vals |-> <<>>]

Length(b) == IF b.kind \in Leaves THEN Len(b.vals) ELSE Len(b.valid)

Ok(b)  == [ok |-> TRUE, b |-> b]
Err(b) == [ok |-> FALSE, b |-> b]

(* The row value a leaf builder takes *)
Takes ==
  [Boolean |-> "Bool", Int32 |-> "Int32", Int64 |-> "Int64", Float32 |-> "Float32", Float64 |-> "Float64",
   Decimal128 |-> "Decimal", Utf8 |-> "ByteArray", FixedSizeBinary |-> "FixedLenByteArray", Binary |-> "ByteArray"]

AppendLeaf(b, v) ==
  IF v # Null /\ (\/ v[1] # Takes[b.kind]
                  \/ b.kind = "Utf8" /\ v[2] = "raw"
                  \/ b.kind = "FixedSizeBinary" /\ b.type[2] # 16)
  THEN Err(b)
  ELSE Ok([b EXCEPT !.vals = Append(@, v)])

(* ListBuilderHelper::append_null *)
AppendNullList(b) ==
  [b EXCEPT !.offsets = Append(@, IF @ = <<>> THEN 0 ELSE Last(@)), !.valid = Append(@, FALSE)]

RECURSIVE AppendValue(_, _)

(* ListBuilderHelper::append_items *)
AppendItems(b, items) ==
  LET Next1(r, it) == IF r.ok THEN AppendValue(r.b, it) ELSE r
      inner == FoldLeft(Next1, Ok(b.inner), items)
  IN  [ok |-> inner.ok,
       b  |-> [b EXCEPT !.offsets = Append(@, Length(b.inner)), !.inner = inner.b,
                        !.valid = IF inner.ok THEN Append(@, TRUE) ELSE @]]

(* One value to each builder, up to the first that refuses its value *)
AppendAll(builders, vals) ==
  LET res   == [i \in DOMAIN builders |-> AppendValue(builders[i], vals[i])]
      bad   == {i \in DOMAIN builders : ~res[i].ok}
      until == IF bad = {} THEN Len(builders) ELSE Min(bad)
  IN  [ok |-> bad = {}, b |-> [i \in DOMAIN builders |-> IF i <= until THEN res[i].b ELSE builders[i]]]

(* StructBuilderHelper::append_values *)
AppendValues(b, vals) ==
  IF Len(vals) # Len(b.children) THEN Err(b)
  ELSE LET res == AppendAll(b.children, vals)
       IN  [ok |-> res.ok,
            b  |-> [b EXCEPT !.children = res.b, !.valid = IF res.ok THEN Append(@, TRUE) ELSE @]]

(* StructBuilderHelper::append_null *)
AppendNullStruct(b) ==
  [b EXCEPT !.children = AppendAll(@, [i \in DOMAIN @ |-> Null]).b, !.valid = Append(@, FALSE)]

AppendValue(b, v) ==
  CASE b.kind \in Leaves                             -> AppendLeaf(b, v)
    [] b.kind \in {"List", "Map"} /\ v = Null        -> Ok(AppendNullList(b))
    [] b.kind \in {"List", "Map"} /\ v[1] = "Array"  -> AppendItems(b, v[2])
    [] b.kind = "Struct" /\ v = Null                 -> Ok(AppendNullStruct(b))
    [] b.kind = "Struct" /\ v[1] = "Struct"          -> AppendValues(b, v[2])
    [] OTHER                                         -> Err(b)
-----------------------------------------------------------------------------
(* finish: an Int16 column is cast from the Int32 one, where what does not *)
(* fit becomes null                                                        *)
CastTo(dt, v) == IF dt[1] = "Int16" /\ v # Null /\ ~InBits(v[2], Bits16) THEN Null ELSE v

RECURSIVE FinishArray(_, _)
FinishArray(b, dt) ==
  CASE b.kind \in {"List", "Map"} ->
         LET values == FinishArray(b.inner, dt[2].type)
         IN  [type |-> dt, offsets |-> Append(b.offsets, Length(b.inner)), valid |-> b.valid, values |-> values]
    [] b.kind = "Struct" ->
         [type |-> dt, valid |-> b.valid,
          columns |-> [i \in DOMAIN b.children |-> FinishArray(b.children[i], dt[2][i].type)]]
    [] OTHER ->
         [type |-> dt, vals |-> [i \in DOMAIN b.vals |-> CastTo(dt, b.vals[i])]]

(* What a reader of the Arrow array finds in slot i, counted from one *)
RECURSIVE ValueAt(_, _)
ValueAt(arr, i) ==
  CASE arr.type[1] \in {"List", "Map"} ->
         IF ~arr.valid[i] THEN Null
         ELSE <<"Array", [k \in 1 .. arr.offsets[i + 1] - arr.offsets[i] |->
                            ValueAt(arr.values, arr.offsets[i] + k)]>>
    [] arr.type[1] = "Struct" ->
         IF ~arr.valid[i] THEN Null
         ELSE <<"Struct", [k \in DOMAIN arr.columns |-> ValueAt(arr.columns[k], i)]>>
    [] OTHER -> arr.vals[i]

(* A null slot of a leaf holds the default of its type *)
Default == [Int32 |-> 0, Int64 |-> 0, Float32 |-> 0, Float64 |-> 0, Decimal128 |-> 0, Boolean |-> FALSE,
            Utf8 |-> "", Binary |-> "", FixedSizeBinary |-> ""]

(* Mutant: always the first slot *)
SlotFirst(arr, i) == IF arr.vals[1] = Null THEN Default[Physical(arr.type)] ELSE arr.vals[1][2]

Slot(arr, i) == IF arr.vals[i] = Null THEN Default[Physical(arr.type)] ELSE arr.vals[i][2]
-----------------------------------------------------------------------------
(* The Arrow array a row value is downcast to *)
ArrayOf ==
  [Int32 |-> {"Int32"}, Int64 |-> {"Int64"}, Float32 |-> {"Float32"}, Float64 |-> {"Float64"},
   Decimal |-> {"Decimal128"}, Bool |-> {"Boolean"}, ByteArray |-> {"Binary", "Utf8"},
   FixedLenByteArray |-> {"FixedSizeBinary"}]

(* value_matches_column; it panics for a list value and a column that is   *)
(* not a list, which no row of the column's own schema can bring about     *)
RECURSIVE ValueMatches(_, _, _)
ValueMatches(v, arr, i) ==
  CASE v = Null -> ValueAt(arr, i) = Null
    [] v[1] = "Array" ->
         /\ arr.valid[i]
         /\ arr.offsets[i + 1] - arr.offsets[i] = Len(v[2])
         /\ \A k \in DOMAIN v[2] : ValueMatches(v[2][k], arr.values, arr.offsets[i] + k)
    [] v[1] = "Struct" ->
         /\ arr.type[1] = "Struct"
         /\ arr.valid[i]
         /\ Len(v[2]) = Len(arr.columns)
         /\ \A k \in DOMAIN v[2] : ValueMatches(v[2][k], arr.columns[k], i)
    [] OTHER -> arr.type[1] \in ArrayOf[v[1]] /\ Slot(arr, i) = v[2]

(* arrow_value_to_rowvalue: the types it knows, and the value it reads *)
CanRead(dt) ==
  \/ dt[1] \in {"Int16", "Int32", "Int64", "Float32", "Float64", "Boolean", "Date32", "Utf8", "Binary",
                "Time64", "Decimal128"}
  \/ dt[1] = "FixedSizeBinary" /\ dt[2] = 16
  \/ dt[1] = "Timestamp" /\ dt[2] \in {"none", "UTC"}

ReadValue(arr, i) == IF arr.vals[i] = Null THEN Null ELSE <<Takes[Physical(arr.type)], arr.vals[i][2]>>

(* IdentityProp::new_key: a primitive of 1, 2, 4 or 8 bytes is its own key *)
IsPrimitiveKey(dt) ==
  dt[1] \in {"Int16", "Int32", "Int64", "Float32", "Float64", "Date32", "Timestamp", "Time64"}

(* to_u64_key panics for the others *)
HasU64Key(v) == v[1] \in {"Int32", "Int64", "Float32", "Float64", "Bool"}
=============================================================================
