---------------------------- MODULE FixFieldMap ----------------------------
(***************************************************************************)
(* FieldMap: the std::map from tags to fields that a header, a body and a  *)
(* trailer of a FIX message are, and FixFieldSorter, the orders it is      *)
(* sorted by. A map is the sequence of its nodes in order. A node keeps    *)
(* the key it was inserted with, whatever field is put into it later.      *)
(*                                                                         *)
(* A field is [tag, value]. A value is a number, standing for the string   *)
(* of its decimal digits, as lexical_cast makes it.                        *)
(***************************************************************************)
EXTENDS Integers, Sequences, FiniteSetsExt

\* header_order: 8, 9 and 35 first, in this order.
OrderedPosition(tag) == CASE tag = 8 -> 1 [] tag = 9 -> 2 [] tag = 35 -> 3 [] OTHER -> 0

MutantHeaderLess(x, y) == x < y
HeaderLess(x, y) ==
    LET orderX == OrderedPosition(x)
        orderY == OrderedPosition(y)
    IN  \/ orderX # 0 /\ orderY # 0 /\ orderX < orderY
        \/ orderX # 0 /\ orderY = 0
        \/ orderX = 0 /\ orderY = 0 /\ x < y

\* trailer_order: 10 is before nothing, and nothing is before 10.
TrailerLess(x, y) == x # 10 /\ y # 10 /\ x < y

\* FixFieldSorter::operator()
Less(mode, x, y) ==
    \/ mode = "header" /\ HeaderLess(x, y)
    \/ mode = "trailer" /\ TrailerLess(x, y)
    \/ mode = "normal" /\ x < y

-----------------------------------------------------------------------------
\* The sum of a sequence of numbers, as a loop adds it up.
SumOf(s) ==
    LET sum[n \in 0 .. Len(s)] == IF n = 0 THEN 0 ELSE sum[n - 1] + s[n]
    IN  sum[Len(s)]

\* How many decimal digits n has, and what their characters add up to.
Decimal(n) ==
    LET d[m \in 0 .. n] ==
            IF m < 10 THEN [digits |-> 1, total |-> 48 + m]
            ELSE [digits |-> d[m \div 10].digits + 1,
                  total |-> d[m \div 10].total + 48 + (m % 10)]
    IN  d[n]

\* FixField: the bytes of <tag>=<value><SOH>, and their sum.
FieldLength(f) == Decimal(f.tag).digits + 1 + Decimal(f.value).digits + 1
FieldTotal(f) == Decimal(f.tag).total + 61 + Decimal(f.value).total + 1

\* A field, and a map: nodes under keys in strict order.
FieldType == [tag : Nat, value : Nat]
Nodes == [key : Nat, field : FieldType]
IsMap(mode, map) ==
    /\ map \in Seq(Nodes)
    /\ \A i, j \in DOMAIN map : i < j => Less(mode, map[i].key, map[j].key)

\* std::map::insert of a node: where there is one that is neither before nor behind
\* the tag, that node stays, and gets the field if it is to be overwritten.
UpTo(mode, map, tag) ==
    LET n == {i \in DOMAIN map : ~Less(mode, tag, map[i].key)} IN IF n = {} THEN 0 ELSE Max(n)
Inserted(map, p, f) ==
    SubSeq(map, 1, p) \o <<[key |-> f.tag, field |-> f]>> \o SubSeq(map, p + 1, Len(map))
PutField(mode, map, f, overwrite) ==
    LET p == UpTo(mode, map, f.tag)
    IN  IF p = 0 THEN Inserted(map, p, f)
        ELSE IF Less(mode, map[p].key, f.tag) THEN Inserted(map, p, f)
        ELSE IF overwrite THEN [map EXCEPT ![p] = [key |-> map[p].key, field |-> f]]
        ELSE map

\* setField(tag, val)
MutantMultimap(mode, map, f) == Inserted(map, UpTo(mode, map, f.tag), f)
SetField(mode, map, f) == PutField(mode, map, f, TRUE)

\* std::map::find: the first node that is not before the tag, if the tag is not
\* before that node; 0 where there is none.
Find(mode, map, tag) ==
    LET n == {i \in DOMAIN map : ~Less(mode, map[i].key, tag)}
    IN  IF n = {} THEN 0 ELSE IF Less(mode, tag, map[Min(n)].key) THEN 0 ELSE Min(n)

IsSetField(mode, map, tag) == Find(mode, map, tag) # 0
GetFieldValue(mode, map, tag) == map[Find(mode, map, tag)].field.value
RemoveField(mode, map, tag) ==
    LET n == Find(mode, map, tag)
    IN  IF n = 0 THEN map ELSE SubSeq(map, 1, n - 1) \o SubSeq(map, n + 1, Len(map))

\* The fields in order; getLength and getTotal.
FieldsOf(map) == [i \in DOMAIN map |-> map[i].field]
MutantGetLength(map) ==
    SumOf([i \in DOMAIN map |->
              IF map[i].field.tag \in {8, 10} THEN 0 ELSE FieldLength(map[i].field)])
GetLength(map) ==
    SumOf([i \in DOMAIN map |->
              IF map[i].field.tag \in {8, 9, 10} THEN 0 ELSE FieldLength(map[i].field)])
GetTotal(map) ==
    SumOf([i \in DOMAIN map |->
              IF map[i].field.tag = 10 THEN 0 ELSE FieldTotal(map[i].field)])
=============================================================================
