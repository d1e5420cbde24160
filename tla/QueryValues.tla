---------------------------- MODULE QueryValues ----------------------------
(***************************************************************************)
(* The values of HydraDB's query engine: property values, how WHERE        *)
(* compares them, which property-index keys an equality has to look up,    *)
(* and the order ORDER BY sorts the values of a result by.                 *)
(*                                                                         *)
(* A property value is [t, n, z].  An unsigned or signed integer keeps its *)
(* number in n; a float keeps its number of halves, with z set only in the *)
(* negative zero; a string is a two-letter word in the digits 1..9 (0 is   *)
(* "no letter"), which is enough to tell a prefix from a different word.   *)
(* MaxInt stands for u64::MAX and Floats for the numbers a float can hold, *)
(* so that some integers have no float and some floats no integer.         *)
(***************************************************************************)
EXTENDS Integers, Sequences, FiniteSets, SequencesExt

CONSTANTS
    MaxInt,      \* u64::MAX of the model
    Floats       \* the representable floats, in halves

Cmp(a, b) == IF a < b THEN -1 ELSE IF a = b THEN 0 ELSE 1

\* The first of n comparisons that is not a tie.
FirstDifference(n, At(_)) ==
    LET differ == {i \in 1..n : At(i) # 0}
    IN  IF differ = {} THEN 0 ELSE At(CHOOSE i \in differ : \A j \in differ : i <= j)

Val(t, n) == [t |-> t, n |-> n, z |-> FALSE]

NegativeZero == [t |-> "float", n |-> 0, z |-> TRUE]

Numeric == {"int", "sint", "float"}

----------------------------------------------------------------------------
(* Conversions between the number kinds.                                   *)

FromI64(n) == IF n >= 0 THEN Val("int", n) ELSE Val("sint", n)

\* An integer that some float holds exactly.
HasExactFloat(n) == 2 * n \in Floats

\* The floats that hold an unsigned, respectively a signed integer exactly.
IsExactU64(h) == h >= 0 /\ h < 2 * (MaxInt + 1) /\ h % 2 = 0

IsExactI64(h) == h >= -(MaxInt + 1) /\ h < MaxInt + 1 /\ h % 2 = 0

----------------------------------------------------------------------------
(* Numeric comparison across the number kinds.                             *)

CompareI64U64(l, r) == IF l < 0 THEN -1 ELSE Cmp(l, r)

\* An integer against a float: compare with the float's floor, and on a tie
\* the integer is smaller unless the float is its own floor.
CompareFloor(l, h) ==
    LET floor == h \div 2
    IN  IF l = floor THEN (IF h % 2 = 0 THEN 0 ELSE -1) ELSE Cmp(l, floor)

CompareU64F64(l, h) ==
    IF h < 0 THEN 1 ELSE IF h >= 2 * (MaxInt + 1) THEN -1 ELSE CompareFloor(l, h)

CompareI64F64(l, h) ==
    IF h < -(MaxInt + 1) THEN 1 ELSE IF h >= MaxInt + 1 THEN -1 ELSE CompareFloor(l, h)

\* Both zeros are numerically equal; every other pair follows the total order.
CompareF64(l, r) == Cmp(l, r)

\* The order of two numeric values of any kinds.
NumericOrder(l, r) ==
    CASE l.t = r.t /\ l.t # "float"       -> Cmp(l.n, r.n)
      [] l.t = "sint" /\ r.t = "int"      -> CompareI64U64(l.n, r.n)
      [] l.t = "int" /\ r.t = "sint"      -> -CompareI64U64(r.n, l.n)
      [] l.t = "float" /\ r.t = "float"   -> CompareF64(l.n, r.n)
      [] l.t = "int" /\ r.t = "float"     -> CompareU64F64(l.n, r.n)
      [] l.t = "float" /\ r.t = "int"     -> -CompareU64F64(r.n, l.n)
      [] l.t = "sint" /\ r.t = "float"    -> CompareI64F64(l.n, r.n)
      [] l.t = "float" /\ r.t = "sint"    -> -CompareI64F64(r.n, l.n)

BothNumeric(l, r) == l.t \in Numeric /\ r.t \in Numeric

----------------------------------------------------------------------------
(* WHERE comparisons: "true", "false", or "error" for an ordered           *)
(* comparison of values that have no common order.                         *)

CompareOrdering(o, op) ==
    CASE op = "=" -> o = 0 [] op = "<>" -> o # 0 [] op = "<" -> o < 0
      [] op = ">" -> o > 0 [] op = "<=" -> o <= 0 [] op = ">=" -> o >= 0

AsTruth(b) == IF b THEN "true" ELSE "false"

CompareValues(l, op, r) ==
    CASE BothNumeric(l, r) -> AsTruth(CompareOrdering(NumericOrder(l, r), op))
      [] ~BothNumeric(l, r) /\ op = "=" -> AsTruth(l = r)
      [] ~BothNumeric(l, r) /\ op = "<>" -> AsTruth(l # r)
      [] ~BothNumeric(l, r) /\ op \notin {"=", "<>"} ->
            IF l.t = "str" /\ r.t = "str"
            THEN AsTruth(CompareOrdering(Cmp(l.n, r.n), op))
            ELSE "error"

ValuesEqual(l, r) == CompareValues(l, "=", r) = "true"

StartsWith(s, p) ==
    /\ s.t = "str" /\ p.t = "str"
    /\ \/ p.n = 0
       \/ p.n % 10 = 0 /\ s.n \div 10 = p.n \div 10
       \/ s.n = p.n

----------------------------------------------------------------------------
(* Property-index keys.  A key is the value's kind and its sortable bits,  *)
(* so numerically equal values of different kinds have different keys, and *)
(* the two zeros of a float neighbouring ones.                             *)

SortableFloatBits(v) == IF v.z THEN 2 * v.n - 1 ELSE 2 * v.n

EncodeKey(v) == [kind |-> v.t, bits |-> IF v.t = "float" THEN SortableFloatBits(v) ELSE v.n]

FloatKey(h) == EncodeKey(Val("float", h))

\* Every key under which a value equal to v can be indexed.
EquivalentKeys(v) ==
    {EncodeKey(v)} \cup
    (CASE v.t = "int" ->
            (IF HasExactFloat(v.n) THEN {FloatKey(2 * v.n)} ELSE {})
            \cup (IF v.n = 0 THEN {EncodeKey(NegativeZero)} ELSE {})
       [] v.t = "sint" -> IF HasExactFloat(v.n) THEN {FloatKey(2 * v.n)} ELSE {}
       [] v.t = "float" ->
            (IF v.n = 0 THEN {FloatKey(0), EncodeKey(NegativeZero)} ELSE {})
            \cup (IF IsExactU64(v.n) THEN {EncodeKey(Val("int", v.n \div 2))}
                  ELSE IF IsExactI64(v.n) THEN {EncodeKey(FromI64(v.n \div 2))}
                  ELSE {})
       [] v.t \in {"bool", "str"} -> {})

----------------------------------------------------------------------------
(* Result values [k, v]: Null, a vertex id, a count, an average, a         *)
(* property or a list.  v is a sequence of property values; a vertex id    *)
(* inside a list has the type "id".                                        *)

Null == [k |-> "null", v |-> <<>>]
IdValue(n) == [k |-> "id", v |-> <<Val("id", n)>>]
CountValue(n) == [k |-> "count", v |-> <<Val("count", n)>>]
FloatValue(n) == [k |-> "float", v |-> <<Val("avg", n)>>]
PropValue(v) == [k |-> "prop", v |-> <<v>>]
ListValue(s) == [k |-> "list", v |-> s]

ElementValue(v) == IF v.t = "id" THEN IdValue(v.n) ELSE PropValue(v)

PropertyRank(v) == CASE v.t = "bool" -> 0 [] v.t \in Numeric -> 1 [] v.t = "str" -> 2

ValueRank(q) ==
    CASE q.k = "bool" -> 1 [] q.k \in {"id", "count"} -> 2 [] q.k = "float" -> 3
      [] q.k = "prop" -> 4 + PropertyRank(q.v[1]) [] q.k = "list" -> 8
      [] q.k = "path" -> 9 [] q.k = "null" -> 255

\* The order of two property values.
PropertyOrder(l, r) ==
    IF BothNumeric(l, r) THEN NumericOrder(l, r)
    ELSE IF l.t = r.t THEN Cmp(l.n, r.n)
    ELSE Cmp(PropertyRank(l), PropertyRank(r))

ScalarOrder(l, r) ==
    CASE l.k = "null" /\ r.k = "null" -> 0
      [] l.k \in {"id", "count"} /\ r.k \in {"id", "count"} -> Cmp(l.v[1].n, r.v[1].n)
      [] l.k = "float" /\ r.k = "float" -> Cmp(l.v[1].n, r.v[1].n)
      [] l.k = "prop" /\ r.k = "prop" -> PropertyOrder(l.v[1], r.v[1])
      [] OTHER -> Cmp(ValueRank(l), ValueRank(r))

\* The first position at which two lists differ decides, then their length.
ValueOrder(l, r) ==
    IF l.k # "list" \/ r.k # "list" THEN ScalarOrder(l, r)
    ELSE LET shorter == IF Len(l.v) <= Len(r.v) THEN Len(l.v) ELSE Len(r.v)
             At(i) == IF i <= shorter THEN ScalarOrder(ElementValue(l.v[i]), ElementValue(r.v[i]))
                      ELSE Cmp(Len(l.v), Len(r.v))
         IN  FirstDifference(shorter + 1, At)

\* The sort keys of two rows: the first key that differs, reversed when it
\* sorts descending.
CompareKeys(lk, rk, asc) ==
    FirstDifference(Len(asc), LAMBDA i : IF asc[i] THEN ValueOrder(lk[i], rk[i]) ELSE -ValueOrder(lk[i], rk[i]))
=============================================================================
