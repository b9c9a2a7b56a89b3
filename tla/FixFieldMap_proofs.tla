------------------------- MODULE FixFieldMap_proofs -------------------------
(***************************************************************************)
(* What the orders of FixFieldSorter are worth as the comparison of a      *)
(* std::map, for all tags: header_order is a strict total order that puts  *)
(* 8, 9 and 35 in front; trailer_order is one only as long as 10 is not    *)
(* among the tags.                                                         *)
(***************************************************************************)
EXTENDS FixFieldMap, SequenceTheorems, WellFoundedInduction, TLAPS

\* header_order::compare is a strict total order of the tags: a header has one node
\* for each tag, whatever the order they are set in.
THEOREM HeaderOrderTotal ==
    ASSUME NEW x \in Int, NEW y \in Int, NEW z \in Int
    PROVE  /\ ~HeaderLess(x, x)
           /\ HeaderLess(x, y) /\ HeaderLess(y, z) => HeaderLess(x, z)
           /\ HeaderLess(x, y) \/ x = y \/ HeaderLess(y, x)
  BY DEF HeaderLess, OrderedPosition

\* ... in which 8 is before every other tag, then come 9 and 35.
THEOREM HeaderOrderBegins ==
    ASSUME NEW x \in Int \ {8, 9, 35}
    PROVE  /\ HeaderLess(8, 9) /\ HeaderLess(9, 35) /\ HeaderLess(35, x)
           /\ ~HeaderLess(x, 8) /\ ~HeaderLess(x, 9) /\ ~HeaderLess(x, 35)
  BY DEF HeaderLess, OrderedPosition

\* trailer_order::compare orders all tags but 10.
THEOREM TrailerOrderTotal ==
    ASSUME NEW x \in Int \ {10}, NEW y \in Int \ {10}, NEW z \in Int \ {10}
    PROVE  /\ ~TrailerLess(x, x)
           /\ TrailerLess(x, y) /\ TrailerLess(y, z) => TrailerLess(x, z)
           /\ TrailerLess(x, y) \/ x = y \/ TrailerLess(y, x)
  BY DEF TrailerLess

\* With 10 it is no order a std::map may have: 10 is equivalent to every tag, two
\* of which are not equivalent to each other.
THEOREM TrailerOrderBroken ==
    ASSUME NEW x \in Int \ {10}, NEW y \in Int \ {10}, x < y
    PROVE  /\ ~TrailerLess(10, x) /\ ~TrailerLess(x, 10)
           /\ ~TrailerLess(10, y) /\ ~TrailerLess(y, 10)
           /\ TrailerLess(x, y)
  BY DEF TrailerLess

-----------------------------------------------------------------------------
\* Every set of numbers that is not empty has a least one, and a greatest if it is
\* bounded: induction, in a form that needs no predicate as a parameter.
LEMMA Least ==
    ASSUME NEW T \in SUBSET Nat, T # {}
    PROVE  \E n \in T : \A m \in T : n <= m
<1>1. PICK n \in T : \A m \in T : ~(<<m, n>> \in OpToRel(<, Nat))
  BY NatLessThanWellFounded, WFMin
<1>2. \A m \in T : <<m, n>> \in Nat \X Nat
  OBVIOUS
<1>3. \A m \in T : <<m, n>>[1] < <<m, n>>[2] => <<m, n>> \in OpToRel(<, Nat)
  BY <1>2 DEF OpToRel
<1>4. \A m \in T : ~(<<m, n>>[1] < <<m, n>>[2])
  BY <1>1, <1>3, Zenon
<1>5. \A m \in T : n <= m
  BY <1>4
<1>6. QED
  BY <1>5

LEMMA Greatest ==
    ASSUME NEW k \in Nat, NEW T \in SUBSET (1 .. k), T # {}
    PROVE  \E n \in T : \A m \in T : n >= m
<1> DEFINE U == {d \in Nat : \E m \in T : d = k - m}
<1>1. U # {}
  <2>1. PICK m \in T : TRUE
    OBVIOUS
  <2>2. k - m \in U
    BY <2>1
  <2> QED
    BY <2>2
<1>2. PICK d \in U : \A e \in U : d <= e
  BY <1>1, Least
<1>3. PICK n \in T : d = k - n
  OBVIOUS
<1>4. \A m \in T : k - m \in U
  OBVIOUS
<1>5. \A m \in T : n >= m
  BY <1>2, <1>3, <1>4
<1> QED
  BY <1>5

-----------------------------------------------------------------------------
Modes == {"header", "normal", "trailer"}

\* All three orders are transitive; that is all setField and removeField need of
\* them to keep a map in order.
LEMMA LessTransitive ==
    ASSUME NEW mode \in Modes, NEW x \in Nat, NEW y \in Nat, NEW z \in Nat,
           Less(mode, x, y), Less(mode, y, z)
    PROVE  Less(mode, x, z)
  BY DEF Modes, Less, HeaderLess, OrderedPosition, TrailerLess

\* Where insert looks: up to this node nothing is behind the tag, and all after it is.
LEMMA UpToPlace ==
    ASSUME NEW mode \in Modes, NEW map \in Seq(Nodes), NEW tag \in Nat
    PROVE  /\ UpTo(mode, map, tag) \in 0 .. Len(map)
           /\ UpTo(mode, map, tag) > 0 => ~Less(mode, tag, map[UpTo(mode, map, tag)].key)
           /\ \A j \in DOMAIN map : j > UpTo(mode, map, tag) => Less(mode, tag, map[j].key)
<1> DEFINE T == {i \in DOMAIN map : ~Less(mode, tag, map[i].key)}
<1>1. CASE T = {}
  BY <1>1 DEF UpTo
<1>2. CASE T # {}
  <2>1. Len(map) \in Nat /\ T \in SUBSET (1 .. Len(map))
    OBVIOUS
  <2>2. UpTo(mode, map, tag) = Max(T)
    BY <1>2 DEF UpTo
  <2> HIDE DEF T
  <2>3. \E n \in T : \A m \in T : n >= m
    BY <1>2, <2>1, Greatest
  <2>4. Max(T) \in T /\ \A m \in T : Max(T) >= m
    BY <2>3 DEF Max
  <2>5. Max(T) \in 1 .. Len(map)
    BY <2>1, <2>4
  <2>6. ~Less(mode, tag, map[Max(T)].key)
    BY <2>4 DEF T
  <2>7. ASSUME NEW j \in DOMAIN map, j > Max(T)
        PROVE  Less(mode, tag, map[j].key)
    <3>1. j \notin T
      BY <2>1, <2>4, <2>5, <2>7
    <3> QED
      BY <3>1 DEF T
  <2> QED
    BY <2>2, <2>5, <2>6, <2>7
<1> QED
  BY <1>1, <1>2

LEMMA InsertedNodes ==
    ASSUME NEW map \in Seq(Nodes), NEW p \in 0 .. Len(map), NEW f \in FieldType
    PROVE  /\ Inserted(map, p, f) \in Seq(Nodes)
           /\ Len(Inserted(map, p, f)) = Len(map) + 1
           /\ \A i \in 1 .. Len(map) + 1 :
                 Inserted(map, p, f)[i] =
                    IF i <= p THEN map[i]
                    ELSE IF i = p + 1 THEN [key |-> f.tag, field |-> f]
                    ELSE map[i - 1]
<1>1. [key |-> f.tag, field |-> f] \in Nodes
  BY DEF Nodes, FieldType
<1>2. SubSeq(map, 1, p) \in Seq(Nodes) /\ Len(SubSeq(map, 1, p)) = p
      /\ \A i \in 1 .. p : SubSeq(map, 1, p)[i] = map[i]
  OBVIOUS
<1>3. SubSeq(map, p + 1, Len(map)) \in Seq(Nodes)
      /\ Len(SubSeq(map, p + 1, Len(map))) = Len(map) - p
      /\ \A i \in 1 .. Len(map) - p : SubSeq(map, p + 1, Len(map))[i] = map[p + i]
  OBVIOUS
<1> DEFINE a == SubSeq(map, 1, p)
           c == SubSeq(map, p + 1, Len(map))
           x == [key |-> f.tag, field |-> f]
<1>4. Inserted(map, p, f) = a \o <<x>> \o c
  BY DEF Inserted
<1>5. /\ a \in Seq(Nodes) /\ c \in Seq(Nodes) /\ x \in Nodes
      /\ Len(a) = p /\ Len(c) = Len(map) - p
      /\ Len(map) \in Nat
  BY <1>1, <1>2, <1>3
<1>6. /\ \A i \in 1 .. p : a[i] = map[i]
      /\ \A i \in 1 .. Len(map) - p : c[i] = map[p + i]
  BY <1>2, <1>3
<1> HIDE DEF a, c, x
<1>7. a \o <<x>> \in Seq(Nodes) /\ Len(a \o <<x>>) = p + 1
  BY <1>5
<1>8. \A i \in 1 .. p + 1 : (a \o <<x>>)[i] = IF i <= p THEN a[i] ELSE x
  BY <1>5
<1>9. /\ (a \o <<x>>) \o c \in Seq(Nodes)
      /\ Len((a \o <<x>>) \o c) = Len(map) + 1
      /\ \A i \in 1 .. Len(map) + 1 :
            ((a \o <<x>>) \o c)[i] = IF i <= p + 1 THEN (a \o <<x>>)[i] ELSE c[i - (p + 1)]
  BY <1>5, <1>7
<1>10. ASSUME NEW i \in 1 .. Len(map) + 1
       PROVE  Inserted(map, p, f)[i] =
                 IF i <= p THEN map[i] ELSE IF i = p + 1 THEN x ELSE map[i - 1]
  <2>1. CASE i <= p + 1
    BY <2>1, <1>4, <1>5, <1>6, <1>8, <1>9
  <2>2. CASE i > p + 1
    <3>1. i - (p + 1) \in 1 .. Len(map) - p /\ p + (i - (p + 1)) = i - 1
      BY <2>2, <1>5
    <3>2. c[i - (p + 1)] = map[i - 1]
      <4> DEFINE k == i - (p + 1)
      <4>1. c[k] = map[p + k]
        BY <3>1, <1>6
      <4> QED
        BY <4>1, <3>1
    <3>3. Inserted(map, p, f)[i] = c[i - (p + 1)]
      BY <2>2, <1>4, <1>5, <1>9
    <3> QED
      BY <3>2, <3>3, <2>2, <1>5
  <2> QED
    BY <2>1, <2>2, <1>5
<1> QED
  BY <1>4, <1>9, <1>10 DEF x

\* setField keeps a map in order, in all three orders.
THEOREM PutFieldKeepsMap ==
    ASSUME NEW mode \in Modes, NEW map, IsMap(mode, map), NEW f \in FieldType,
           NEW overwrite \in BOOLEAN
    PROVE  IsMap(mode, PutField(mode, map, f, overwrite))
<1> DEFINE p == UpTo(mode, map, f.tag)
<1>1. map \in Seq(Nodes) /\ f.tag \in Nat
  BY DEF IsMap, FieldType
<1>2. /\ p \in 0 .. Len(map)
      /\ p > 0 => ~Less(mode, f.tag, map[p].key)
      /\ \A j \in DOMAIN map : j > p => Less(mode, f.tag, map[j].key)
  BY <1>1, UpToPlace
<1>3. \A i \in DOMAIN map : map[i].key \in Nat
  <2>1. \A i \in DOMAIN map : map[i] \in Nodes
    BY <1>1
  <2> QED
    BY <2>1 DEF Nodes
<1>4. ASSUME p = 0 \/ Less(mode, map[p].key, f.tag)
      PROVE  IsMap(mode, Inserted(map, p, f))
  <2> DEFINE new == Inserted(map, p, f)
  <2>1. /\ new \in Seq(Nodes)
        /\ Len(new) = Len(map) + 1
        /\ \A i \in 1 .. Len(map) + 1 :
              new[i].key = IF i <= p THEN map[i].key
                           ELSE IF i = p + 1 THEN f.tag ELSE map[i - 1].key
    <3> HIDE DEF p
    <3>1. /\ new \in Seq(Nodes)
          /\ Len(new) = Len(map) + 1
          /\ \A i \in 1 .. Len(map) + 1 :
                new[i] = IF i <= p THEN map[i]
                         ELSE IF i = p + 1 THEN [key |-> f.tag, field |-> f] ELSE map[i - 1]
      BY <1>1, <1>2, InsertedNodes
    <3> HIDE DEF new
    <3> QED
      BY <3>1
  <2>2. \A i \in 1 .. p : Less(mode, map[i].key, f.tag)
    BY <1>1, <1>2, <1>3, <1>4, LessTransitive DEF IsMap
  <2>0. Len(map) \in Nat /\ DOMAIN map = 1 .. Len(map) /\ p \in 0 .. Len(map)
    BY <1>1, <1>2
  <2> HIDE DEF new, p
  <2>3. ASSUME NEW i \in 1 .. Len(map) + 1, NEW j \in 1 .. Len(map) + 1, i < j
        PROVE  Less(mode, new[i].key, new[j].key)
    <3>1. CASE j <= p
      <4>1. new[i].key = map[i].key /\ new[j].key = map[j].key
            /\ i \in DOMAIN map /\ j \in DOMAIN map
        BY <3>1, <2>0, <2>1, <2>3
      <4> QED
        BY <4>1, <2>3 DEF IsMap
    <3>2. CASE j = p + 1
      BY <3>2, <2>0, <2>1, <2>2, <2>3
    <3>3. CASE j > p + 1 /\ i = p + 1
      <4>1. new[i].key = f.tag /\ new[j].key = map[j - 1].key
            /\ j - 1 > p /\ j - 1 \in DOMAIN map
        BY <3>3, <2>0, <2>1, <2>3
      <4> QED
        BY <4>1, <1>2
    <3>4. CASE j > p + 1 /\ i # p + 1
      <4>1. PICK k \in DOMAIN map : new[i].key = map[k].key /\ k < j - 1
        <5>1. CASE i <= p
          BY <5>1, <3>4, <2>0, <2>1, <2>3
        <5>2. CASE i > p + 1
          <6>1. i - 1 \in DOMAIN map /\ i - 1 < j - 1
            BY <5>2, <2>0, <2>3
          <6>2. new[i].key = map[i - 1].key
            BY <5>2, <2>0, <2>1, <2>3
          <6> QED
            BY <6>1, <6>2
        <5> QED
          BY <5>1, <5>2, <3>4, <2>0
      <4>2. new[j].key = map[j - 1].key /\ j - 1 \in DOMAIN map
        BY <3>4, <2>0, <2>1, <2>3
      <4> QED
        BY <4>1, <4>2 DEF IsMap
    <3> QED
      BY <3>1, <3>2, <3>3, <3>4, <2>0
  <2> QED
    BY <2>1, <2>3 DEF IsMap, new
<1>5. ASSUME p # 0
      PROVE  IsMap(mode, [map EXCEPT ![p] = [key |-> map[p].key, field |-> f]])
  <2> DEFINE new == [map EXCEPT ![p] = [key |-> map[p].key, field |-> f]]
  <2>0. p \in DOMAIN map /\ [key |-> map[p].key, field |-> f] \in Nodes
    <3>1. p \in DOMAIN map
      BY <1>1, <1>2, <1>5
    <3> QED
      BY <3>1, <1>3 DEF Nodes
  <2> HIDE DEF p
  <2>1. \A i \in DOMAIN map : new[i] \in Nodes /\ new[i].key = map[i].key
    <3>1. \A i \in DOMAIN map : i # p => new[i] = map[i]
      BY <1>1
    <3>2. new[p] = [key |-> map[p].key, field |-> f]
      BY <1>1, <2>0
    <3> QED
      BY <3>1, <3>2, <2>0, <1>1
  <2>2. new \in Seq(Nodes) /\ DOMAIN new = DOMAIN map
    BY <1>1, <2>0
  <2> QED
    BY <2>1, <2>2 DEF IsMap
<1> QED
  BY <1>1, <1>2, <1>4, <1>5 DEF PutField

THEOREM SetFieldKeepsMap ==
    ASSUME NEW mode \in Modes, NEW map, IsMap(mode, map), NEW f \in FieldType
    PROVE  IsMap(mode, SetField(mode, map, f))
  BY PutFieldKeepsMap DEF SetField

-----------------------------------------------------------------------------
\* A map in order, whose fields have their tags in T. Where the order is total on T, a
\* node always has a field with the tag it is under.
OwnKeys(mode, T) == mode # "trailer" \/ T = {10}
IsMapOf(mode, map, T) ==
    /\ IsMap(mode, map)
    /\ \A i \in DOMAIN map :
          /\ map[i].field.tag \in T
          /\ OwnKeys(mode, T) => map[i].field.tag = map[i].key

HasKey(map, tag) == \E i \in DOMAIN map : map[i].key = tag
HasField(map, f) == \E i \in DOMAIN map : map[i].field = f

LEMMA Equivalent ==
    ASSUME NEW mode \in Modes, mode # "trailer", NEW x \in Nat, NEW y \in Nat,
           ~Less(mode, x, y), ~Less(mode, y, x)
    PROVE  x = y
  BY DEF Modes, Less, HeaderLess, OrderedPosition

\* setField puts in nothing but its field, under its own tag where the order is total.
THEOREM PutFieldGood ==
    ASSUME NEW mode \in Modes, NEW T, NEW map, IsMapOf(mode, map, T),
           NEW f \in FieldType, f.tag \in T, NEW overwrite \in BOOLEAN
    PROVE  /\ IsMapOf(mode, PutField(mode, map, f, overwrite), T)
           /\ OwnKeys(mode, T) => HasKey(PutField(mode, map, f, overwrite), f.tag)
           /\ overwrite => HasField(PutField(mode, map, f, overwrite), f)
<1> USE DEF HasKey, HasField
<1> DEFINE p == UpTo(mode, map, f.tag)
           q == PutField(mode, map, f, overwrite)
           node == [key |-> f.tag, field |-> f]
<1>1. map \in Seq(Nodes) /\ f.tag \in Nat
  BY DEF IsMapOf, IsMap, FieldType
<1>2. p \in 0 .. Len(map) /\ (p > 0 => ~Less(mode, f.tag, map[p].key))
  BY <1>1, UpToPlace
<1>3. IsMap(mode, q)
  BY PutFieldKeepsMap DEF IsMapOf
<1>4. \A i \in DOMAIN map : map[i].key \in Nat
  <2>1. \A i \in DOMAIN map : map[i] \in Nodes
    BY <1>1
  <2> QED
    BY <2>1 DEF Nodes
<1>5. \A i \in DOMAIN map :
         /\ map[i].field.tag \in T
         /\ OwnKeys(mode, T) => map[i].field.tag = map[i].key
  BY DEF IsMapOf
<1>6. CASE p = 0 \/ Less(mode, map[p].key, f.tag)
  <2>1. q = Inserted(map, p, f)
    BY <1>2, <1>6 DEF PutField
  <2> HIDE DEF p, q
  <2>2. /\ q \in Seq(Nodes)
        /\ Len(q) = Len(map) + 1
        /\ \A i \in 1 .. Len(map) + 1 :
              q[i] = IF i <= p THEN map[i] ELSE IF i = p + 1 THEN node ELSE map[i - 1]
    BY <1>1, <1>2, <2>1, InsertedNodes
  <2>3. Len(map) \in Nat /\ DOMAIN map = 1 .. Len(map) /\ DOMAIN q = 1 .. Len(map) + 1
    BY <1>1, <2>2
  <2>4. \A i \in DOMAIN q : q[i] = node \/ \E j \in DOMAIN map : q[i] = map[j]
    <3>1. ASSUME NEW i \in DOMAIN q
          PROVE  q[i] = node \/ \E j \in DOMAIN map : q[i] = map[j]
      <4>1. CASE i <= p
        BY <4>1, <1>2, <2>2, <2>3
      <4>2. CASE i = p + 1
        BY <4>2, <1>2, <2>2, <2>3
      <4>3. CASE i > p + 1
        <5>1. i - 1 \in DOMAIN map
          BY <4>3, <1>2, <2>3
        <5>2. q[i] = map[i - 1]
          BY <4>3, <1>2, <2>2, <2>3
        <5> QED
          BY <5>1, <5>2
      <4> QED
        BY <4>1, <4>2, <4>3, <1>2, <2>3
    <3> QED
      BY <3>1
  <2>5. p + 1 \in DOMAIN q /\ q[p + 1] = node
    BY <1>2, <2>2, <2>3
  <2> QED
    BY <1>3, <1>5, <2>4, <2>5 DEF IsMapOf, q
<1>7. CASE p # 0 /\ ~Less(mode, map[p].key, f.tag)
  <2>1. p \in DOMAIN map
    BY <1>1, <1>2, <1>7
  <2>2. OwnKeys(mode, T) => map[p].key = f.tag
    <3>1. mode # "trailer" => map[p].key = f.tag
      BY <1>1, <1>2, <1>4, <1>7, <2>1, Equivalent
    <3>2. ASSUME T = {10} PROVE map[p].key = f.tag
      <4>1. f.tag = 10
        BY <3>2
      <4>2. map[p].field.tag \in T /\ map[p].field.tag = map[p].key
        <5>1. OwnKeys(mode, T)
          BY <3>2 DEF OwnKeys
        <5> HIDE DEF p
        <5> QED
          BY <1>5, <2>1, <5>1
      <4> QED
        BY <3>2, <4>1, <4>2
    <3> QED
      BY <3>1, <3>2 DEF OwnKeys
  <2>3. q = IF overwrite THEN [map EXCEPT ![p] = [key |-> map[p].key, field |-> f]] ELSE map
    BY <1>7 DEF PutField
  <2> HIDE DEF p, q
  <2>4. /\ DOMAIN q = DOMAIN map
        /\ \A i \in DOMAIN map :
              /\ q[i].key = map[i].key
              /\ q[i].field = map[i].field \/ (i = p /\ q[i].field = f)
    <3> DEFINE m == [key |-> map[p].key, field |-> f]
    <3>1. m.key = map[p].key /\ m.field = f
      OBVIOUS
    <3> HIDE DEF m
    <3> QED
      BY <3>1, <1>1, <2>1, <2>3 DEF m
  <2>5. overwrite => p \in DOMAIN q /\ q[p].field = f
    BY <1>1, <2>1, <2>3
  <2> QED
    BY <1>3, <1>5, <2>1, <2>2, <2>4, <2>5 DEF IsMapOf, q
<1> QED
  BY <1>6, <1>7

\* A sequence of nodes without its n-th.
Removed(map, n) == SubSeq(map, 1, n - 1) \o SubSeq(map, n + 1, Len(map))
Kept(n, i) == IF i < n THEN i ELSE i + 1

LEMMA RemovedNodes ==
    ASSUME NEW S, NEW map \in Seq(S), NEW n \in 1 .. Len(map)
    PROVE  /\ Removed(map, n) \in Seq(S) /\ Len(Removed(map, n)) = Len(map) - 1
           /\ DOMAIN Removed(map, n) = 1 .. Len(map) - 1
           /\ \A i \in DOMAIN Removed(map, n) :
                 Removed(map, n)[i] = map[Kept(n, i)] /\ Kept(n, i) \in DOMAIN map
<1> USE DEF Kept
<1> DEFINE r == Removed(map, n)
<1>0. Len(map) \in Nat /\ DOMAIN map = 1 .. Len(map)
  OBVIOUS
<1> DEFINE a == SubSeq(map, 1, n - 1)
           c == SubSeq(map, n + 1, Len(map))
<1>2. /\ a \in Seq(S) /\ Len(a) = n - 1 /\ \A i \in 1 .. n - 1 : a[i] = map[i]
      /\ c \in Seq(S) /\ Len(c) = Len(map) - n
      /\ \A i \in 1 .. Len(map) - n : c[i] = map[n + i]
  <2>1. /\ a \in Seq(S) /\ Len(a) = n - 1
        /\ \A i \in 1 .. n - 1 : a[i] = map[i]
    BY <1>0
  <2>2. /\ c \in Seq(S)
        /\ Len(c) = IF n + 1 <= Len(map) THEN Len(map) - (n + 1) + 1 ELSE 0
        /\ \A i \in 1 .. Len(map) - (n + 1) + 1 : c[i] = map[n + 1 + i - 1]
    <3>1. \A i \in n + 1 .. Len(map) : map[i] \in S
      BY <1>0
    <3> QED
      BY <3>1, <1>0, SubSeqProperties
  <2> HIDE DEF c
  <2>3. Len(c) = Len(map) - n /\ \A i \in 1 .. Len(map) - n : c[i] = map[n + i]
    <3>1. Len(c) = Len(map) - n
      <4>1. Len(c) = IF n + 1 <= Len(map) THEN Len(map) - (n + 1) + 1 ELSE 0
        BY <2>2, Zenon
      <4>2. Len(map) \in Nat /\ n \in 0 .. Len(map)
        BY <1>0
      <4> QED
        BY <4>1, <4>2
    <3>2. ASSUME NEW i \in 1 .. Len(map) - n
          PROVE  c[i] = map[n + i]
      <4>1. i \in 1 .. Len(map) - (n + 1) + 1 /\ n + 1 + i - 1 = n + i
        BY <1>0
      <4>2. c[i] = map[n + 1 + i - 1]
        BY <2>2, <4>1
      <4> QED
        BY <4>1, <4>2
    <3> QED
      BY <3>1, <3>2
  <2> QED
    BY <2>1, <2>2, <2>3
<1> HIDE DEF a, c, r
<1>3. /\ r \in Seq(S) /\ Len(r) = Len(map) - 1 /\ DOMAIN r = 1 .. Len(map) - 1
      /\ \A i \in 1 .. Len(map) - 1 : r[i] = IF i < n THEN a[i] ELSE c[i - (n - 1)]
  <2>1. r = a \o c
    BY DEF r, Removed, a, c
  <2>2. Len(a) \in Nat /\ Len(c) \in Nat /\ Len(a) + Len(c) = Len(map) - 1
    BY <1>0, <1>2
  <2>3. /\ r \in Seq(S) /\ Len(r) = Len(a) + Len(c)
        /\ \A i \in 1 .. Len(a) + Len(c) :
              r[i] = IF i <= Len(a) THEN a[i] ELSE c[i - Len(a)]
    BY <1>2, <2>1, ConcatProperties
  <2>4. \A i \in 1 .. Len(r) : r[i] = IF i <= Len(a) THEN a[i] ELSE c[i - Len(a)]
    BY <2>3
  <2>5. \A i \in 1 .. Len(r) : i <= Len(a) <=> i < n
    BY <1>0, <1>2, <2>3
  <2>6. Len(r) = Len(map) - 1 /\ DOMAIN r = 1 .. Len(map) - 1
    BY <2>2, <2>3, LenProperties
  <2>7. Len(a) = n - 1
    BY <1>2
  <2>8. ASSUME NEW i \in 1 .. Len(map) - 1
        PROVE  r[i] = IF i < n THEN a[i] ELSE c[i - (n - 1)]
    BY <2>4, <2>5, <2>6, <2>7
  <2> QED
    BY <2>3, <2>6, <2>8
<1>4. ASSUME NEW i \in DOMAIN r
      PROVE  r[i] = map[Kept(n, i)] /\ Kept(n, i) \in DOMAIN map
  <2>1. CASE i < n
    <3>1. i \in 1 .. Len(map) - 1 /\ i \in 1 .. n - 1
      BY <2>1, <1>0, <1>3
    <3>2. r[i] = a[i] /\ a[i] = map[i]
      BY <2>1, <3>1, <1>2, <1>3
    <3> QED
      BY <2>1, <3>1, <3>2, <1>0
  <2>2. CASE i >= n
    <3> DEFINE k == i - (n - 1)
    <3>1. k \in 1 .. Len(map) - n /\ n + k = i + 1
      BY <2>2, <1>0, <1>3
    <3>2. c[k] = map[n + k]
      BY <3>1, <1>2
    <3>3. r[i] = c[k]
      BY <2>2, <1>3
    <3> QED
      BY <2>2, <3>1, <3>2, <3>3, <1>0, <1>3
  <2> QED
    BY <2>1, <2>2, <1>3
<1> QED
  BY <1>3, <1>4 DEF r

\* What find gives is a node that is neither before nor behind the tag, if there is one.
Place(mode, map, tag) ==
    LET n == Find(mode, map, tag) IN
    /\ n \in 0 .. Len(map)
    /\ n # 0 => ~Less(mode, map[n].key, tag) /\ ~Less(mode, tag, map[n].key)
    /\ n = 0 => \A i \in DOMAIN map :
                   Less(mode, map[i].key, tag) \/ Less(mode, tag, map[i].key)

LEMMA FindPlace ==
    ASSUME NEW mode \in Modes, NEW map, IsMap(mode, map), NEW tag \in Nat
    PROVE  Place(mode, map, tag)
<1> DEFINE n == Find(mode, map, tag)
           S == {i \in DOMAIN map : ~Less(mode, map[i].key, tag)}
<1>1. /\ Len(map) \in Nat /\ DOMAIN map = 1 .. Len(map)
      /\ \A i \in DOMAIN map : map[i].key \in Nat
      /\ \A i, j \in DOMAIN map : i < j => Less(mode, map[i].key, map[j].key)
  <2>1. \A i \in DOMAIN map : map[i] \in Nodes
    BY ElementOfSeq, LenProperties DEF IsMap
  <2> QED
    BY <2>1, LenProperties DEF IsMap, Nodes
<1>2. CASE S = {}
  <2>1. n = 0
    BY <1>2 DEF Find
  <2> HIDE DEF n
  <2> QED
    BY <1>1, <1>2, <2>1 DEF Place, n
<1>3. CASE S # {}
  <2>1. n = IF Less(mode, tag, map[Min(S)].key) THEN 0 ELSE Min(S)
    BY <1>3 DEF Find
  <2>2. S \in SUBSET Nat
    BY <1>1
  <2> DEFINE k == Min(S)
  <2>3. k \in S /\ \A i \in S : k <= i
    <3> HIDE DEF S
    <3> QED
      BY <1>3, <2>2, Least DEF Min
  <2>4. k \in 1 .. Len(map) /\ ~Less(mode, map[k].key, tag)
    BY <1>1, <2>3
  <2>5. \A i \in DOMAIN map : i < k => Less(mode, map[i].key, tag)
    <3> HIDE DEF k
    <3> QED
      BY <1>1, <2>3, <2>4
  <2>6. ASSUME Less(mode, tag, map[k].key), NEW i \in DOMAIN map, ~(i < k)
        PROVE  Less(mode, tag, map[i].key)
    <3> HIDE DEF k, S
    <3>1. CASE i = k
      BY <2>6, <3>1
    <3>2. CASE i > k
      <4>1. Less(mode, map[k].key, map[i].key) /\ map[k].key \in Nat /\ map[i].key \in Nat
        BY <1>1, <2>4, <3>2
      <4> QED
        BY <2>6, <4>1, LessTransitive
    <3> QED
      BY <1>1, <2>4, <2>6, <3>1, <3>2
  <2>7. n = IF Less(mode, tag, map[k].key) THEN 0 ELSE k
    BY <2>1
  <2> HIDE DEF n, k, S
  <2> QED
    BY <1>1, <2>4, <2>5, <2>6, <2>7 DEF Place, n
<1> QED
  BY <1>2, <1>3

\* removeField keeps a map in order and puts in nothing.
THEOREM RemoveFieldGood ==
    ASSUME NEW mode \in Modes, NEW T, NEW map, IsMapOf(mode, map, T), NEW tag \in Nat
    PROVE  IsMapOf(mode, RemoveField(mode, map, tag), T)
<1> DEFINE n == Find(mode, map, tag)
           r == RemoveField(mode, map, tag)
<1>1. map \in Seq(Nodes) /\ Len(map) \in Nat /\ DOMAIN map = 1 .. Len(map)
  BY DEF IsMapOf, IsMap
<1>2. n \in 0 .. Len(map)
  BY FindPlace DEF IsMapOf, Place
<1>3. CASE n = 0
  BY <1>3 DEF RemoveField
<1>4. CASE n # 0
  <2>1. r = Removed(map, n)
    BY <1>4 DEF RemoveField, Removed
  <2>2. n \in 1 .. Len(map)
    BY <1>1, <1>2, <1>4
  <2> HIDE DEF n, r
  <2>3. /\ r \in Seq(Nodes) /\ DOMAIN r = 1 .. Len(map) - 1
        /\ \A i \in DOMAIN r : r[i] = map[Kept(n, i)] /\ Kept(n, i) \in DOMAIN map
    BY <1>1, <2>1, <2>2, RemovedNodes
  <2>4. \A i, j \in DOMAIN r : i < j => Kept(n, i) < Kept(n, j)
    BY <1>1, <2>2, <2>3 DEF Kept
  <2> QED
    BY <2>3, <2>4 DEF IsMapOf, IsMap, r
<1> QED
  BY <1>3, <1>4

-----------------------------------------------------------------------------
\* The fields of a header or a body: one for each tag, which setField replaces and
\* removeField removes.
FieldSet(map) == {map[i].field : i \in DOMAIN map}

\* Some fields over others, and without those with a tag.
TagSet(fields) == {f.tag : f \in fields}
Over(upper, lower) == upper \cup {f \in lower : f.tag \notin TagSet(upper)}
Just(f) == {f}
Dropped(fields, tag) == {f \in fields : f.tag # tag}

LEMMA OverOne ==
    ASSUME NEW f, NEW S
    PROVE  /\ Over(Just(f), S) = {f} \cup {g \in S : g.tag # f.tag}
           /\ Over(S, Just(f)) = S \cup {g \in {f} : \A x \in S : x.tag # f.tag}
<1> USE DEF Just
<1>1. {f} \cup {g \in S : g.tag # f.tag} = Over(Just(f), S)
  BY DEF Over, TagSet
<1>2. S \cup {g \in {f} : \A x \in S : x.tag # f.tag} = Over(S, Just(f))
  <2>1. f.tag \in TagSet(S) <=> \E x \in S : x.tag = f.tag
    BY DEF TagSet
  <2> QED
    BY <2>1 DEF Over
<1> QED
  BY <1>1, <1>2

LEMMA MapNodes ==
    ASSUME NEW mode \in Modes, mode # "trailer", NEW T, NEW map, IsMapOf(mode, map, T)
    PROVE  /\ map \in Seq(Nodes) /\ Len(map) \in Nat /\ DOMAIN map = 1 .. Len(map)
           /\ \A i \in DOMAIN map : /\ map[i].key \in Nat /\ map[i].field \in FieldType
                                    /\ map[i].field.tag = map[i].key
                                    /\ map[i].field.tag \in T
           /\ \A i, j \in DOMAIN map : i < j => Less(mode, map[i].key, map[j].key)
           /\ \A i, j \in DOMAIN map : map[i].field.tag = map[j].field.tag => i = j
<1>1. /\ map \in Seq(Nodes) /\ Len(map) \in Nat /\ DOMAIN map = 1 .. Len(map)
      /\ \A i, j \in DOMAIN map : i < j => Less(mode, map[i].key, map[j].key)
  BY LenProperties DEF IsMapOf, IsMap
<1>2. \A i \in DOMAIN map : /\ map[i].key \in Nat /\ map[i].field \in FieldType
                            /\ map[i].field.tag = map[i].key
                            /\ map[i].field.tag \in T
  <2>1. \A i \in DOMAIN map : map[i] \in Nodes
    BY <1>1, ElementOfSeq
  <2> QED
    BY <2>1 DEF Nodes, IsMapOf, OwnKeys
<1>3. ASSUME NEW i \in DOMAIN map, NEW j \in DOMAIN map, i < j
      PROVE  map[i].field.tag # map[j].field.tag
  <2>1. Less(mode, map[i].key, map[j].key)
    BY <1>1, <1>3
  <2>2. \A x \in Nat : ~Less(mode, x, x)
    BY DEF Less, HeaderLess, TrailerLess, OrderedPosition
  <2> QED
    BY <1>2, <2>1, <2>2
<1>4. \A i, j \in DOMAIN map : i < j \/ i = j \/ j < i
  BY <1>1
<1> QED
  BY <1>1, <1>2, <1>3, <1>4

LEMMA InsertedSet ==
    ASSUME NEW map \in Seq(Nodes), NEW p \in 0 .. Len(map), NEW f \in FieldType
    PROVE  FieldSet(Inserted(map, p, f)) = FieldSet(map) \cup {f}
<1> DEFINE q == Inserted(map, p, f)
<1>1. /\ Len(map) \in Nat /\ DOMAIN map = 1 .. Len(map)
      /\ q \in Seq(Nodes) /\ Len(q) = Len(map) + 1
      /\ \A i \in 1 .. Len(map) + 1 :
            q[i] = IF i <= p THEN map[i]
                   ELSE IF i = p + 1 THEN [key |-> f.tag, field |-> f]
                   ELSE map[i - 1]
  BY InsertedNodes, LenProperties
<1>2. DOMAIN q = 1 .. Len(map) + 1
  BY <1>1, LenProperties
<1> HIDE DEF q
<1>3. ASSUME NEW i \in DOMAIN q PROVE q[i].field \in FieldSet(map) \cup {f}
  <2>1. i <= p => i \in DOMAIN map
    BY <1>1, <1>2
  <2>2. ~(i <= p) /\ i # p + 1 => i - 1 \in DOMAIN map
    BY <1>1, <1>2
  <2> QED
    BY <1>1, <1>2, <2>1, <2>2 DEF FieldSet
<1>4. ASSUME NEW i \in DOMAIN map PROVE map[i].field \in FieldSet(q)
  <2>1. CASE i <= p
    <3>1. i \in DOMAIN q /\ q[i] = map[i]
      BY <1>1, <1>2, <2>1
    <3> QED
      BY <3>1 DEF FieldSet
  <2>2. CASE i > p
    <3> DEFINE k == i + 1
    <3>1. k \in DOMAIN q /\ ~(k <= p) /\ k # p + 1 /\ k - 1 = i
      BY <1>1, <1>2, <2>2
    <3> HIDE DEF k
    <3>2. q[k] = map[i]
      BY <1>1, <1>2, <3>1
    <3> QED
      BY <3>1, <3>2 DEF FieldSet
  <2> QED
    BY <1>1, <2>1, <2>2
<1>5. f \in FieldSet(q)
  <2>1. p + 1 \in DOMAIN q /\ q[p + 1].field = f
    BY <1>1, <1>2
  <2> QED
    BY <2>1 DEF FieldSet
<1>6. /\ \A g \in FieldSet(q) : g \in FieldSet(map) \cup {f}
      /\ \A g \in FieldSet(map) : g \in FieldSet(q)
  BY <1>3, <1>4 DEF FieldSet
<1> QED
  BY <1>5, <1>6 DEF q

THEOREM PutFieldSet ==
    ASSUME NEW mode \in Modes, mode # "trailer", NEW T, NEW map, IsMapOf(mode, map, T),
           NEW f \in FieldType
    PROVE  /\ FieldSet(PutField(mode, map, f, TRUE)) = Over(Just(f), FieldSet(map))
           /\ FieldSet(PutField(mode, map, f, FALSE)) = Over(FieldSet(map), Just(f))
<1> DEFINE S == FieldSet(map)
<1>0. /\ Over(Just(f), S) = {f} \cup {g \in S : g.tag # f.tag}
      /\ Over(S, Just(f)) = S \cup {g \in {f} : \A x \in S : x.tag # f.tag}
  <2> HIDE DEF S
  <2> QED
    BY OverOne, Zenon
<1> DEFINE p == UpTo(mode, map, f.tag)
<1>1. /\ map \in Seq(Nodes) /\ Len(map) \in Nat /\ DOMAIN map = 1 .. Len(map)
      /\ \A i \in DOMAIN map : /\ map[i].key \in Nat /\ map[i].field \in FieldType
                               /\ map[i].field.tag = map[i].key
      /\ \A i, j \in DOMAIN map : i < j => Less(mode, map[i].key, map[j].key)
      /\ \A i, j \in DOMAIN map : map[i].field.tag = map[j].field.tag => i = j
  BY MapNodes
<1>2. f.tag \in Nat /\ \A x \in Nat : ~Less(mode, x, x)
  BY DEF FieldType, Less, HeaderLess, TrailerLess, OrderedPosition
<1>3. /\ p \in 0 .. Len(map)
      /\ p > 0 => ~Less(mode, f.tag, map[p].key)
      /\ \A j \in DOMAIN map : j > p => Less(mode, f.tag, map[j].key)
  BY <1>1, <1>2, UpToPlace
<1>4. CASE p = 0 \/ Less(mode, map[p].key, f.tag)
  <2>1. \A overwrite \in BOOLEAN : PutField(mode, map, f, overwrite) = Inserted(map, p, f)
    BY <1>4 DEF PutField
  <2> HIDE DEF p
  <2>2. ASSUME NEW j \in DOMAIN map PROVE map[j].key # f.tag
    <3>1. CASE j > p
      BY <1>1, <1>2, <1>3, <3>1
    <3>2. CASE j = p
      BY <1>1, <1>2, <1>4, <3>2
    <3>3. CASE j < p
      <4>1. p \in DOMAIN map /\ Less(mode, map[p].key, f.tag)
        BY <1>1, <1>3, <1>4, <3>3
      <4>2. Less(mode, map[j].key, map[p].key) /\ map[j].key \in Nat /\ map[p].key \in Nat
        BY <1>1, <3>3, <4>1
      <4>3. Less(mode, map[j].key, f.tag)
        BY <1>2, <4>1, <4>2, LessTransitive
      <4> QED
        BY <1>2, <4>3
    <3> QED
      BY <1>1, <1>3, <3>1, <3>2, <3>3
  <2>3. \A x \in FieldSet(map) : x.tag # f.tag
    BY <1>1, <2>2 DEF FieldSet
  <2>4. FieldSet(Inserted(map, p, f)) = FieldSet(map) \cup {f}
    BY <1>1, <1>3, InsertedSet
  <2> QED
    BY <1>0, <2>1, <2>3, <2>4
<1>5. CASE ~(p = 0 \/ Less(mode, map[p].key, f.tag))
  <2> DEFINE q == [map EXCEPT ![p] = [key |-> map[p].key, field |-> f]]
  <2>1. PutField(mode, map, f, TRUE) = q /\ PutField(mode, map, f, FALSE) = map
    BY <1>5 DEF PutField
  <2>2. p \in DOMAIN map
    BY <1>1, <1>3, <1>5
  <2> HIDE DEF p
  <2>3. map[p].key = f.tag
    BY <1>1, <1>2, <1>3, <1>5, <2>2, Equivalent
  <2>4. DOMAIN q = DOMAIN map /\ \A i \in DOMAIN map : q[i].field = IF i = p THEN f ELSE map[i].field
    BY <2>2
  <2>5. \A i \in DOMAIN map : i # p => map[i].field.tag # f.tag
    BY <1>1, <2>2, <2>3
  <2> HIDE DEF q
  <2>6. \A g \in FieldSet(q) : g = f \/ (g \in FieldSet(map) /\ g.tag # f.tag)
    BY <2>4, <2>5 DEF FieldSet
  <2>7. f \in FieldSet(q)
    BY <2>2, <2>4 DEF FieldSet
  <2>8. \A g \in FieldSet(map) : g.tag # f.tag => g \in FieldSet(q)
    BY <1>1, <2>2, <2>3, <2>4 DEF FieldSet
  <2>9. map[p].field \in FieldSet(map) /\ map[p].field.tag = f.tag
    BY <1>1, <2>2, <2>3 DEF FieldSet
  <2> QED
    BY <1>0, <2>1, <2>6, <2>7, <2>8, <2>9
<1> QED
  BY <1>4, <1>5

LEMMA FindSet ==
    ASSUME NEW mode \in Modes, mode # "trailer", NEW T, NEW map, IsMapOf(mode, map, T),
           NEW tag \in Nat
    PROVE  /\ IsSetField(mode, map, tag) <=> Find(mode, map, tag) \in DOMAIN map
           /\ Find(mode, map, tag) \in DOMAIN map => map[Find(mode, map, tag)].field.tag = tag
           /\ \A i \in DOMAIN map : map[i].field.tag = tag => i = Find(mode, map, tag)
<1> DEFINE n == Find(mode, map, tag)
<1>1. /\ map \in Seq(Nodes) /\ Len(map) \in Nat /\ DOMAIN map = 1 .. Len(map)
      /\ \A i \in DOMAIN map : /\ map[i].key \in Nat
                               /\ map[i].field.tag = map[i].key
      /\ \A i, j \in DOMAIN map : map[i].field.tag = map[j].field.tag => i = j
  BY MapNodes
<1>2. /\ n \in 0 .. Len(map)
      /\ n # 0 => ~Less(mode, map[n].key, tag) /\ ~Less(mode, tag, map[n].key)
      /\ n = 0 => \A i \in DOMAIN map : Less(mode, map[i].key, tag) \/ Less(mode, tag, map[i].key)
  BY FindPlace DEF IsMapOf, Place
<1>3. \A x \in Nat : ~Less(mode, x, x)
  BY DEF Less, HeaderLess, TrailerLess, OrderedPosition
<1>4. IsSetField(mode, map, tag) <=> n # 0
  BY DEF IsSetField
<1> HIDE DEF n
<1>5. ASSUME n # 0 PROVE n \in DOMAIN map /\ map[n].field.tag = tag
  <2>1. n \in DOMAIN map
    BY <1>1, <1>2, <1>5
  <2>2. map[n].key = tag
    BY <1>1, <1>2, <1>5, <2>1, Equivalent
  <2> QED
    BY <1>1, <2>1, <2>2
<1>6. ASSUME NEW i \in DOMAIN map, map[i].field.tag = tag PROVE i = n
  <2>1. n # 0
    BY <1>1, <1>2, <1>3, <1>6
  <2> QED
    BY <1>1, <1>5, <1>6, <2>1
<1>7. n \in DOMAIN map => n # 0
  BY <1>1
<1> QED
  BY <1>4, <1>5, <1>6, <1>7 DEF n

LEMMA RemoveFieldSet ==
    ASSUME NEW mode \in Modes, mode # "trailer", NEW T, NEW map, IsMapOf(mode, map, T),
           NEW tag \in Nat
    PROVE  FieldSet(RemoveField(mode, map, tag)) = Dropped(FieldSet(map), tag)
<1> USE DEF Dropped
<1> DEFINE n == Find(mode, map, tag)
           r == RemoveField(mode, map, tag)
<1>1. /\ map \in Seq(Nodes) /\ Len(map) \in Nat /\ DOMAIN map = 1 .. Len(map)
      /\ \A i, j \in DOMAIN map : map[i].field.tag = map[j].field.tag => i = j
  BY MapNodes
<1>2. /\ n \in DOMAIN map => map[n].field.tag = tag
      /\ \A i \in DOMAIN map : map[i].field.tag = tag => i = n
      /\ n = 0 \/ n \in DOMAIN map
  <2>1. n \in 0 .. Len(map)
    BY FindPlace DEF IsMapOf, Place
  <2> HIDE DEF n
  <2> QED
    BY <1>1, <2>1, FindSet DEF n
<1>3. CASE n = 0
  <2>1. r = map
    BY <1>3 DEF RemoveField
  <2> HIDE DEF n, r
  <2>2. \A g \in FieldSet(map) : g.tag # tag
    BY <1>1, <1>2, <1>3 DEF FieldSet
  <2> QED
    BY <2>1, <2>2 DEF r
<1>4. CASE n # 0
  <2>1. r = Removed(map, n)
    BY <1>4 DEF RemoveField, Removed
  <2>2. n \in 1 .. Len(map)
    BY <1>1, <1>2, <1>4
  <2> HIDE DEF n, r
  <2>3. /\ DOMAIN r = 1 .. Len(map) - 1
        /\ \A i \in DOMAIN r : r[i] = map[Kept(n, i)] /\ Kept(n, i) \in DOMAIN map
    BY <1>1, <2>1, <2>2, RemovedNodes
  <2>4. \A i \in DOMAIN r : Kept(n, i) # n
    BY <1>1, <2>2, <2>3 DEF Kept
  <2>5. \A g \in FieldSet(r) : g \in FieldSet(map) /\ g.tag # tag
    BY <1>2, <2>3, <2>4 DEF FieldSet
  <2>6. ASSUME NEW j \in DOMAIN map, j # n PROVE map[j].field \in FieldSet(r)
    <3>1. CASE j < n
      <4>1. j \in DOMAIN r /\ Kept(n, j) = j
        BY <1>1, <2>2, <2>3, <3>1 DEF Kept
      <4> QED
        BY <2>3, <4>1 DEF FieldSet
    <3>2. CASE j > n
      <4> DEFINE k == j - 1
      <4>1. k \in DOMAIN r /\ Kept(n, k) = j
        BY <1>1, <2>2, <2>3, <3>2 DEF Kept
      <4> HIDE DEF k
      <4> QED
        BY <2>3, <4>1 DEF FieldSet
    <3> QED
      BY <1>1, <2>2, <2>6, <3>1, <3>2
  <2>7. \A g \in FieldSet(map) : g.tag # tag => g \in FieldSet(r)
    <3>1. map[n].field.tag = tag
      BY <1>1, <1>2, <2>2
    <3> QED
      BY <2>6, <3>1 DEF FieldSet
  <2> QED
    BY <2>5, <2>7 DEF r
<1> QED
  BY <1>3, <1>4

-----------------------------------------------------------------------------
\* Strong induction on the indices of a function, over a set in place of a predicate.
LEMMA LoopStays ==
    ASSUME NEW N \in Nat, NEW V, NEW g,
           \A n \in 0 .. N : (\A m \in 0 .. n - 1 : g[m] \in V) => g[n] \in V
    PROVE  \A n \in 0 .. N : g[n] \in V
<1> DEFINE B == {n \in 0 .. N : g[n] \notin V}
<1>1. CASE B = {}
  BY <1>1
<1>2. CASE B # {}
  <2>0. B \in SUBSET Nat
    OBVIOUS
  <2>1. PICK k \in B : \A m \in B : k <= m
    <3> HIDE DEF B
    <3> QED
      BY <1>2, <2>0, Least
  <2>2. k \in 0 .. N /\ g[k] \notin V
    OBVIOUS
  <2>3. \A m \in 0 .. k - 1 : m \in 0 .. N /\ m \notin B
    BY <2>1, <2>2
  <2>4. \A m \in 0 .. k - 1 : g[m] \in V
    BY <2>3
  <2> QED
    BY <2>2, <2>4
<1> QED
  BY <1>1, <1>2

\* A loop over 1 .. N, with a value in V after each round that is computed from that
\* of an earlier one, defines a function.
Loop(N, V, base, from, step) ==
    /\ N \in Nat
    /\ base \in V
    /\ \A n \in 1 .. N : from[n] \in 0 .. n - 1
    /\ \A n \in 1 .. N, v \in V : step[n][v] \in V

LEMMA LoopDefined ==
    ASSUME NEW N, NEW V, NEW base, NEW from, NEW step, Loop(N, V, base, from, step)
    PROVE  \E g \in [0 .. N -> V] :
              g[0] = base /\ \A n \in 1 .. N : g[n] = step[n][g[from[n]]]
<1> USE DEF Loop
<1> DEFINE Upto(k, g) ==
        g \in [0 .. k -> V] /\ g[0] = base /\ \A n \in 1 .. k : g[n] = step[n][g[from[n]]]
<1> DEFINE B == {k \in 0 .. N : ~\E g : Upto(k, g)}
<1>1. B = {}
  <2> SUFFICES ASSUME B # {} PROVE FALSE
    OBVIOUS
  <2>0. B \in SUBSET Nat
    OBVIOUS
  <2>1. PICK k \in B : \A m \in B : k <= m
    <3> HIDE DEF B
    <3> QED
      BY <2>0, Least
  <2>2. k \in 0 .. N /\ ~\E g : Upto(k, g)
    OBVIOUS
  <2>3. CASE k = 0
    <3>1. Upto(0, [n \in 0 .. 0 |-> base])
      OBVIOUS
    <3> QED
      BY <2>2, <2>3, <3>1
  <2>4. CASE k # 0
    <3>1. k - 1 \in 0 .. N /\ k - 1 \notin B
      <4> HIDE DEF B
      <4> QED
        BY <2>1, <2>2, <2>4
    <3>2. PICK g : Upto(k - 1, g)
      BY <3>1
    <3> DEFINE h == [n \in 0 .. k |-> IF n = k THEN step[k][g[from[k]]] ELSE g[n]]
    <3>3. from[k] \in 0 .. k - 1 /\ k \in 1 .. N
      BY <2>2, <2>4
    <3>4. g[from[k]] \in V /\ step[k][g[from[k]]] \in V
      BY <3>2, <3>3
    <3>5. h \in [0 .. k -> V]
      BY <3>2, <3>4, <2>2
    <3>6. h[0] = base
      BY <3>2, <2>2, <2>4
    <3>7. ASSUME NEW n \in 1 .. k
          PROVE  h[n] = step[n][h[from[n]]]
      <4>1. n \in 1 .. N /\ from[n] \in 0 .. n - 1
        BY <2>2
      <4>2. from[n] \in 0 .. k /\ from[n] # k
        BY <4>1, <2>2
      <4>3. h[from[n]] = g[from[n]]
        BY <4>2
      <4>4. CASE n = k
        BY <4>3, <4>4, <2>2
      <4>5. CASE n # k
        <5>1. n \in 1 .. k - 1 /\ n \in 0 .. k
          BY <4>5, <2>2
        <5>2. g[n] = step[n][g[from[n]]]
          BY <3>2, <5>1
        <5>3. h[n] = g[n]
          BY <4>5, <5>1
        <5> QED
          BY <5>2, <5>3, <4>3
      <4> QED
        BY <4>4, <4>5
    <3> HIDE DEF h
    <3>8. Upto(k, h)
      BY <3>5, <3>6, <3>7
    <3> QED
      BY <2>2, <3>8
  <2> QED
    BY <2>3, <2>4
<1>2. PICK g : Upto(N, g)
  <2>1. N \in 0 .. N
    OBVIOUS
  <2> QED
    BY <1>1, <2>1
<1> QED
  BY <1>2

\* The sums of the first numbers of a sequence.
Sums(s) == CHOOSE g : g = [n \in 0 .. Len(s) |-> IF n = 0 THEN 0 ELSE g[n - 1] + s[n]]

LEMMA SumsRight ==
    ASSUME NEW s \in Seq(Nat)
    PROVE  /\ Len(s) \in Nat
           /\ SumOf(s) = Sums(s)[Len(s)]
           /\ Sums(s)[0] = 0
           /\ \A n \in 1 .. Len(s) : Sums(s)[n] = Sums(s)[n - 1] + s[n]
           /\ \A n \in 0 .. Len(s) : Sums(s)[n] \in Nat
<1> DEFINE N == Len(s)
           Is(g) == g = [n \in 0 .. N |-> IF n = 0 THEN 0 ELSE g[n - 1] + s[n]]
           sum == CHOOSE g : Is(g)
           step == [n \in 1 .. N |-> [v \in Nat |-> v + s[n]]]
           from == [n \in 1 .. N |-> n - 1]
<1>1. N \in Nat /\ \A n \in 1 .. N : s[n] \in Nat
  OBVIOUS
<1>2. SumOf(s) = sum[N] /\ Sums(s) = sum
  BY DEF SumOf, Sums
<1> HIDE DEF N
<1>3. \A n \in 1 .. N : from[n] \in 0 .. n - 1
  BY <1>1
<1>4. \A n \in 1 .. N, v \in Nat : step[n][v] \in Nat
  BY <1>1
<1> HIDE DEF step, from
<1>5. PICK g \in [0 .. N -> Nat] :
          g[0] = 0 /\ \A n \in 1 .. N : g[n] = step[n][g[from[n]]]
  <2>1. Loop(N, Nat, 0, from, step)
    BY <1>1, <1>3, <1>4 DEF Loop
  <2> QED
    BY <2>1, LoopDefined
<1>6. \A n \in 0 .. N : g[n] = IF n = 0 THEN 0 ELSE g[n - 1] + s[n]
  <2>1. ASSUME NEW n \in 1 .. N
        PROVE  g[n] = g[n - 1] + s[n]
    <3>1. from[n] = n - 1 /\ g[n - 1] \in Nat
      BY <1>1, <1>5 DEF from
    <3>2. step[n][g[n - 1]] = g[n - 1] + s[n]
      BY <3>1 DEF step
    <3> QED
      BY <1>5, <3>1, <3>2
  <2> QED
    BY <2>1, <1>1, <1>5
<1>7. Is(g)
  BY <1>5, <1>6
<1> HIDE DEF Is
<1>8. Is(sum)
  BY <1>7
<1>9. \A n \in 0 .. N : sum[n] = IF n = 0 THEN 0 ELSE sum[n - 1] + s[n]
  BY <1>8 DEF Is
<1> HIDE DEF sum
<1>10. ASSUME NEW n \in 0 .. N, \A m \in 0 .. n - 1 : sum[m] \in Nat
       PROVE  sum[n] \in Nat
  <2>1. CASE n = 0
    BY <2>1, <1>9
  <2>2. CASE n # 0
    <3>1. n \in 1 .. N /\ n - 1 \in 0 .. n - 1
      BY <2>2, <1>1
    <3>2. s[n] \in Nat /\ sum[n - 1] \in Nat
      BY <3>1, <1>1, <1>10
    <3>3. sum[n] = sum[n - 1] + s[n]
      BY <2>2, <1>9
    <3> QED
      BY <3>2, <3>3
  <2> QED
    BY <2>1, <2>2
<1>11. \A n \in 0 .. N : sum[n] \in Nat
  BY <1>1, <1>10, LoopStays
<1>12. sum[0] = 0 /\ \A n \in 1 .. N : sum[n] = sum[n - 1] + s[n]
  BY <1>1, <1>9
<1> QED
  BY <1>1, <1>2, <1>11, <1>12 DEF N

LEMMA SumOfNat ==
    ASSUME NEW s \in Seq(Nat)
    PROVE  SumOf(s) \in Nat
<1>1. Len(s) \in 0 .. Len(s)
  BY SumsRight
<1> QED
  BY <1>1, SumsRight

LEMMA DivTen ==
    ASSUME NEW m \in Nat
    PROVE  m >= 10 => m \div 10 \in 0 .. m - 1 /\ m % 10 \in Nat
  OBVIOUS

LEMMA OneDigitMore ==
    ASSUME NEW x \in Nat, NEW y \in Nat, NEW z \in Nat
    PROVE  [digits |-> x + 1, total |-> y + 48 + z] \in [digits : Nat, total : Nat]
  OBVIOUS

LEMMA FunctionIsSeq ==
    ASSUME NEW n \in Nat, NEW S, NEW f \in [1 .. n -> S]
    PROVE  f \in Seq(S)
  OBVIOUS

LEMMA DecimalNat ==
    ASSUME NEW n \in Nat
    PROVE  Decimal(n).digits \in Nat /\ Decimal(n).total \in Nat
<1> DEFINE V == [digits : Nat, total : Nat]
           Is(g) == g = [m \in 0 .. n |->
                            IF m < 10 THEN [digits |-> 1, total |-> 48 + m]
                            ELSE [digits |-> g[m \div 10].digits + 1,
                                  total |-> g[m \div 10].total + 48 + (m % 10)]]
           d == CHOOSE g : Is(g)
           base == [digits |-> 1, total |-> 48]
           step == [m \in 1 .. n |-> [v \in V |->
                       IF m < 10 THEN [digits |-> 1, total |-> 48 + m]
                       ELSE [digits |-> v.digits + 1, total |-> v.total + 48 + (m % 10)]]]
           from == [m \in 1 .. n |-> IF m < 10 THEN 0 ELSE m \div 10]
<1>1. Decimal(n) = d[n]
  BY DEF Decimal
<1>2. \A m \in 1 .. n : from[m] \in 0 .. m - 1
  <2>1. ASSUME NEW m \in 1 .. n PROVE from[m] \in 0 .. m - 1
    <3>1. m \in Nat /\ from[m] = IF m < 10 THEN 0 ELSE m \div 10
      OBVIOUS
    <3> QED
      BY <3>1, DivTen
  <2> QED
    BY <2>1
<1>3. \A m \in 1 .. n, v \in V : step[m][v] \in V
  <2>1. ASSUME NEW m \in 1 .. n, NEW v \in V PROVE step[m][v] \in V
    <3>1. m % 10 \in Nat /\ v.digits \in Nat /\ v.total \in Nat
      OBVIOUS
    <3>2. step[m][v] = IF m < 10 THEN [digits |-> 1, total |-> 48 + m]
                       ELSE [digits |-> v.digits + 1, total |-> v.total + 48 + (m % 10)]
      OBVIOUS
    <3> HIDE DEF step
    <3> QED
      BY <3>1, <3>2
  <2> QED
    BY <2>1
<1>4. base \in V
  OBVIOUS
<1> HIDE DEF step, from
<1>5. PICK g \in [0 .. n -> V] :
          g[0] = base /\ \A m \in 1 .. n : g[m] = step[m][g[from[m]]]
  <2> HIDE DEF V, base, Is, d
  <2>1. Loop(n, V, base, from, step)
    BY <1>2, <1>3, <1>4 DEF Loop
  <2> QED
    BY <2>1, LoopDefined
<1>6. ASSUME NEW m \in 0 .. n
      PROVE  g[m] = IF m < 10 THEN [digits |-> 1, total |-> 48 + m]
                    ELSE [digits |-> g[m \div 10].digits + 1,
                          total |-> g[m \div 10].total + 48 + (m % 10)]
  <2>1. CASE m = 0
    BY <2>1, <1>5
  <2>2. CASE m # 0
    <3>1. m \in 1 .. n /\ from[m] \in 0 .. n
      BY <2>2, <1>2
    <3>2. g[m] = step[m][g[from[m]]] /\ g[from[m]] \in V
      BY <1>5, <3>1
    <3>3. CASE m < 10
      BY <3>1, <3>2, <3>3 DEF step
    <3>4. CASE m >= 10
      <4>1. from[m] = m \div 10
        BY <3>1, <3>4 DEF from
      <4> QED
        BY <3>1, <3>2, <3>4, <4>1 DEF step
    <3> QED
      BY <3>3, <3>4
  <2> QED
    BY <2>1, <2>2
<1>7. Is(g)
  BY <1>5, <1>6
<1> HIDE DEF Is
<1>8. Is(d)
  BY <1>7
<1>9. \A m \in 0 .. n : d[m] = IF m < 10 THEN [digits |-> 1, total |-> 48 + m]
                               ELSE [digits |-> d[m \div 10].digits + 1,
                                     total |-> d[m \div 10].total + 48 + (m % 10)]
  BY <1>8 DEF Is
<1> HIDE DEF d
<1>10. ASSUME NEW m \in 0 .. n, \A l \in 0 .. m - 1 : d[l] \in V
       PROVE  d[m] \in V
  <2>1. CASE m < 10
    <3>1. d[m] = [digits |-> 1, total |-> 48 + m]
      BY <2>1, <1>9
    <3>2. 48 + m \in Nat
      OBVIOUS
    <3> QED
      BY <3>1, <3>2
  <2>2. CASE m >= 10
    <3>1. m \div 10 \in 0 .. m - 1 /\ m % 10 \in Nat
      BY <2>2, DivTen
    <3>2. d[m \div 10] \in V
      BY <3>1, <1>10
    <3>3. d[m \div 10].digits \in Nat /\ d[m \div 10].total \in Nat
      BY <3>2
    <3>4. ~(m < 10)
      BY <2>2
    <3>5. d[m] = [digits |-> d[m \div 10].digits + 1,
                  total |-> d[m \div 10].total + 48 + (m % 10)]
      BY <3>4, <1>9, Zenon
    <3> QED
      BY <3>1, <3>3, <3>5, OneDigitMore, Zenon
  <2> QED
    BY <2>1, <2>2
<1>11. \A m \in 0 .. n : d[m] \in V
  <2> HIDE DEF V
  <2> QED
    BY <1>10, LoopStays
<1> QED
  BY <1>1, <1>11

\* Lengths and totals are natural numbers.
LEMMA FieldNumbers ==
    ASSUME NEW f \in FieldType
    PROVE  FieldLength(f) \in Nat /\ FieldTotal(f) \in Nat
  BY DecimalNat DEF FieldType, FieldLength, FieldTotal

LEMMA MapNumbers ==
    ASSUME NEW map \in Seq(Nodes)
    PROVE  GetLength(map) \in Nat /\ GetTotal(map) \in Nat
<1>1. \A i \in DOMAIN map : map[i].field \in FieldType
  <2>1. \A i \in DOMAIN map : map[i] \in Nodes
    OBVIOUS
  <2> QED
    BY <2>1 DEF Nodes
<1>2. \A i \in DOMAIN map : FieldLength(map[i].field) \in Nat /\ FieldTotal(map[i].field) \in Nat
  BY <1>1, FieldNumbers
<1> DEFINE l == [i \in DOMAIN map |->
                    IF map[i].field.tag \in {8, 9, 10} THEN 0 ELSE FieldLength(map[i].field)]
           t == [i \in DOMAIN map |->
                    IF map[i].field.tag = 10 THEN 0 ELSE FieldTotal(map[i].field)]
<1>3. DOMAIN map = 1 .. Len(map) /\ Len(map) \in Nat
  OBVIOUS
<1>4. l \in [1 .. Len(map) -> Nat] /\ t \in [1 .. Len(map) -> Nat]
  BY <1>2, <1>3
<1>5. l \in Seq(Nat) /\ t \in Seq(Nat)
  <2> HIDE DEF l, t
  <2> QED
    BY <1>3, <1>4, FunctionIsSeq
<1>6. GetLength(map) = SumOf(l) /\ GetTotal(map) = SumOf(t)
  BY DEF GetLength, GetTotal
<1> QED
  BY <1>5, <1>6, SumOfNat
=============================================================================
