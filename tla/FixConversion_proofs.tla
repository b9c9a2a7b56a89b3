------------------------ MODULE FixConversion_proofs ------------------------
(***************************************************************************)
(* The maps of a message under every sequence of its operations and of     *)
(* conversions, for all settings, tags, values and numbers: each map stays *)
(* in the order of its std::map, with one node for each tag, every string  *)
(* that has a version and a type begins with 8, 9, 35, and what the maps   *)
(* hold refines MessageContent. And the length, the checksum and the       *)
(* fields that a rendering has.                                            *)
(***************************************************************************)
EXTENDS FixConversion, FixFieldMap_proofs

\* The loop that sets some fields, round by round.
FilledTo(mode, map, fields, tags) ==
    CHOOSE g : g = [n \in 0 .. Len(fields) |->
                       IF n = 0 THEN map
                       ELSE IF fields[n].tag \in tags
                            THEN SetField(mode, g[n - 1], fields[n])
                       ELSE g[n - 1]]

LEMMA FilledLoop ==
    ASSUME NEW mode \in Modes, NEW map, IsMapOf(mode, map, Nat),
           NEW fields \in Seq(FieldType), NEW tags
    PROVE  /\ Len(fields) \in Nat
           /\ Filled(mode, map, fields, tags) = FilledTo(mode, map, fields, tags)[Len(fields)]
           /\ \A n \in 0 .. Len(fields) :
                 FilledTo(mode, map, fields, tags)[n] =
                    IF n = 0 THEN map
                    ELSE IF fields[n].tag \in tags
                         THEN SetField(mode, FilledTo(mode, map, fields, tags)[n - 1], fields[n])
                    ELSE FilledTo(mode, map, fields, tags)[n - 1]
<1> DEFINE N == Len(fields)
           V == {m \in Seq(Nodes) : IsMapOf(mode, m, Nat)}
           Is(g) == g = [n \in 0 .. N |->
                            IF n = 0 THEN map
                            ELSE IF fields[n].tag \in tags
                                 THEN SetField(mode, g[n - 1], fields[n])
                            ELSE g[n - 1]]
           set == CHOOSE g : Is(g)
           step == [n \in 1 .. N |-> [m \in V |->
                       IF fields[n].tag \in tags THEN SetField(mode, m, fields[n]) ELSE m]]
           from == [n \in 1 .. N |-> n - 1]
<1>1. Filled(mode, map, fields, tags) = set[N] /\ FilledTo(mode, map, fields, tags) = set
  BY DEF Filled, FilledTo
<1>2. N \in Nat /\ DOMAIN fields = 1 .. N /\ \A n \in 1 .. N : fields[n] \in FieldType
  OBVIOUS
<1> HIDE DEF N
<1>3. map \in V
  BY DEF IsMapOf, IsMap
<1>4. ASSUME NEW n \in 1 .. N, NEW m \in V
      PROVE  SetField(mode, m, fields[n]) \in V
  <2>1. fields[n] \in FieldType /\ fields[n].tag \in Nat
    BY <1>2 DEF FieldType
  <2>2. IsMapOf(mode, SetField(mode, m, fields[n]), Nat)
    BY <2>1, PutFieldGood DEF SetField
  <2> QED
    BY <2>2 DEF IsMapOf, IsMap
<1> HIDE DEF V
<1>5. \A n \in 1 .. N, m \in V : step[n][m] \in V
  <2>1. ASSUME NEW n \in 1 .. N, NEW m \in V PROVE step[n][m] \in V
    <3>1. step[n][m] = IF fields[n].tag \in tags THEN SetField(mode, m, fields[n]) ELSE m
      OBVIOUS
    <3> QED
      BY <3>1, <1>4
  <2> QED
    BY <2>1
<1>6. \A n \in 1 .. N : from[n] \in 0 .. n - 1
  BY <1>2
<1> HIDE DEF step, from
<1>7. PICK g \in [0 .. N -> V] :
          g[0] = map /\ \A n \in 1 .. N : g[n] = step[n][g[from[n]]]
  <2>1. Loop(N, V, map, from, step)
    BY <1>2, <1>3, <1>5, <1>6 DEF Loop
  <2> QED
    BY <2>1, LoopDefined
<1>8. ASSUME NEW n \in 0 .. N
      PROVE  g[n] = IF n = 0 THEN map
                    ELSE IF fields[n].tag \in tags THEN SetField(mode, g[n - 1], fields[n])
                    ELSE g[n - 1]
  <2>1. CASE n = 0
    BY <2>1, <1>7
  <2>2. CASE n # 0
    <3>1. n \in 1 .. N /\ n - 1 \in 0 .. N
      BY <2>2, <1>2
    <3>2. from[n] = n - 1 /\ g[n - 1] \in V
      BY <3>1, <1>7 DEF from
    <3>3. g[n] = step[n][g[n - 1]]
      BY <3>1, <3>2, <1>7
    <3> QED
      BY <2>2, <3>1, <3>2, <3>3 DEF step
  <2> QED
    BY <2>1, <2>2
<1>9. Is(g)
  BY <1>7, <1>8
<1> HIDE DEF Is
<1>10. Is(set)
  BY <1>9
<1>11. \A n \in 0 .. N :
          set[n] = IF n = 0 THEN map
                   ELSE IF fields[n].tag \in tags THEN SetField(mode, set[n - 1], fields[n])
                   ELSE set[n - 1]
  BY <1>10 DEF Is
<1> HIDE DEF set
<1> QED
  BY <1>1, <1>2, <1>11 DEF N

\* It keeps a map in order and puts in nothing else.
THEOREM FilledGood ==
    ASSUME NEW mode \in Modes, NEW T, T \in SUBSET Nat, NEW map, IsMapOf(mode, map, T),
           NEW fields \in Seq(FieldType), NEW tags,
           \A n \in DOMAIN fields : fields[n].tag \in tags => fields[n].tag \in T
    PROVE  IsMapOf(mode, Filled(mode, map, fields, tags), T)
<1> DEFINE N == Len(fields)
           V == {m \in Seq(Nodes) : IsMapOf(mode, m, T)}
           set == FilledTo(mode, map, fields, tags)
<1>1. N \in Nat /\ DOMAIN fields = 1 .. N /\ \A n \in 1 .. N : fields[n] \in FieldType
  OBVIOUS
<1>2. IsMapOf(mode, map, Nat)
  <2>1. 0 \in Nat /\ 0 \notin {10}
    OBVIOUS
  <2>2. OwnKeys(mode, Nat) => OwnKeys(mode, T)
    BY <2>1, Zenon DEF OwnKeys
  <2> QED
    BY <2>2 DEF IsMapOf
<1>3. /\ Filled(mode, map, fields, tags) = set[N]
      /\ \A n \in 0 .. N :
            set[n] = IF n = 0 THEN map
                     ELSE IF fields[n].tag \in tags THEN SetField(mode, set[n - 1], fields[n])
                     ELSE set[n - 1]
  BY <1>2, FilledLoop
<1> HIDE DEF N, set
<1>4. map \in V
  BY DEF IsMapOf, IsMap
<1>5. ASSUME NEW n \in 1 .. N, NEW m \in V, fields[n].tag \in tags
      PROVE  SetField(mode, m, fields[n]) \in V
  <2>1. IsMapOf(mode, SetField(mode, m, fields[n]), T)
    BY <1>1, <1>5, PutFieldGood DEF SetField
  <2> QED
    BY <2>1 DEF IsMapOf, IsMap
<1> HIDE DEF V
<1>6. ASSUME NEW n \in 0 .. N, \A m \in 0 .. n - 1 : set[m] \in V
      PROVE  set[n] \in V
  <2>1. CASE n = 0
    BY <2>1, <1>3, <1>4
  <2>2. CASE n # 0
    <3>1. n \in 1 .. N /\ n - 1 \in 0 .. n - 1
      BY <2>2, <1>1
    <3>2. set[n - 1] \in V
      BY <3>1, <1>6
    <3> QED
      BY <2>2, <3>1, <3>2, <1>3, <1>5
  <2> QED
    BY <2>1, <2>2
<1>7. \A n \in 0 .. N : set[n] \in V
  BY <1>1, <1>6, LoopStays
<1> QED
  BY <1>1, <1>3, <1>7 DEF V

-----------------------------------------------------------------------------
\* Fields whose tags are in T.
FieldsIn(T) == {f \in FieldType : f.tag \in T}

LEMMA FieldsInSeq ==
    ASSUME NEW U, NEW s \in Seq(FieldsIn(U))
    PROVE  s \in Seq(FieldType) /\ \A n \in DOMAIN s : s[n].tag \in U
<1>1. Len(s) \in Nat /\ DOMAIN s = 1 .. Len(s) /\ \A n \in 1 .. Len(s) : s[n] \in FieldsIn(U)
  BY ElementOfSeq, LenProperties
<1>2. \A n \in 1 .. Len(s) : s[n] \in FieldType /\ s[n].tag \in U
  BY <1>1 DEF FieldsIn
<1>3. s \in [1 .. Len(s) -> FieldsIn(U)]
  OBVIOUS
<1>4. s \in [1 .. Len(s) -> FieldType]
  BY <1>3 DEF FieldsIn
<1> QED
  BY <1>1, <1>2, <1>4, FunctionIsSeq

LEMMA FieldsOfSeq ==
    ASSUME NEW mode, NEW T, NEW map, IsMapOf(mode, map, T), NEW U, T \in SUBSET U
    PROVE  /\ map \in Seq(Nodes) /\ Len(map) \in Nat /\ DOMAIN map = 1 .. Len(map)
           /\ FieldsOf(map) \in Seq(FieldsIn(U))
           /\ Len(FieldsOf(map)) = Len(map)
           /\ \A i \in 1 .. Len(map) : FieldsOf(map)[i] = map[i].field
<1>0. map \in Seq(Nodes)
  BY DEF IsMapOf, IsMap
<1>1. Len(map) \in Nat /\ DOMAIN map = 1 .. Len(map) /\ \A i \in 1 .. Len(map) : map[i] \in Nodes
  BY <1>0
<1>2. \A i \in 1 .. Len(map) : map[i].field \in FieldsIn(U)
  <2>1. \A i \in 1 .. Len(map) : map[i].field \in FieldType
    BY <1>1 DEF Nodes
  <2>2. \A i \in 1 .. Len(map) : map[i].field.tag \in U
    BY <1>1 DEF IsMapOf
  <2> QED
    BY <2>1, <2>2 DEF FieldsIn
<1>3. FieldsOf(map) \in [1 .. Len(map) -> FieldsIn(U)]
  BY <1>1, <1>2 DEF FieldsOf
<1>4. FieldsOf(map) \in Seq(FieldsIn(U))
  <2> DEFINE fs == FieldsOf(map)
  <2> HIDE DEF fs
  <2>1. fs \in [1 .. Len(map) -> FieldsIn(U)]
    BY <1>3 DEF fs
  <2>2. fs \in Seq(FieldsIn(U))
    BY <1>1, <2>1, FunctionIsSeq
  <2> QED
    BY <2>2 DEF fs
<1>5. DOMAIN FieldsOf(map) = 1 .. Len(map) /\ \A i \in 1 .. Len(map) : FieldsOf(map)[i] = map[i].field
  BY <1>1 DEF FieldsOf
<1>6. Len(FieldsOf(map)) = Len(map)
  BY <1>1, <1>4, <1>5, LenProperties
<1> QED
  BY <1>0, <1>1, <1>4, <1>5, <1>6

\* A field of numbers.
LEMMA FieldOfNumbers ==
    ASSUME NEW tag \in Nat, NEW value \in Nat
    PROVE  Field(tag, value) \in FieldType /\ Field(tag, value).tag = tag
  BY DEF Field, FieldType

\* What setString takes of a string, and the settings up to a tag that is no number,
\* are fields.
LEMMA TakenSeq ==
    ASSUME NEW S, NEW s \in Seq(S)
    PROVE  Taken(s) \in Seq(S)
<1>1. CASE Wrong(s) = {}
  BY <1>1 DEF Taken
<1>2. CASE Wrong(s) # {}
  <2>1. Len(s) \in Nat /\ Wrong(s) \in SUBSET Nat /\ Wrong(s) \subseteq 1 .. Len(s)
    BY DEF Wrong
  <2>2. Min(Wrong(s)) \in 1 .. Len(s)
    BY <1>2, <2>1, Least DEF Min
  <2>3. SubSeq(s, 1, Min(Wrong(s)) - 1) \in Seq(S)
    BY <2>1, <2>2
  <2> QED
    BY <1>2, <2>3 DEF Taken
<1> QED
  BY <1>1, <1>2

LEMMA WithoutSeq ==
    ASSUME NEW S, NEW s \in Seq(S), NEW n \in DOMAIN s
    PROVE  Without(s, n) \in Seq(S)
<1>1. Len(s) \in Nat /\ n \in 1 .. Len(s) /\ \A i \in 1 .. Len(s) : s[i] \in S
  OBVIOUS
<1>2. SubSeq(s, 1, n - 1) \in Seq(S)
  BY <1>1, SubSeqProperties
<1>3. SubSeq(s, n + 1, Len(s)) \in Seq(S)
  BY <1>1, SubSeqProperties
<1> QED
  BY <1>2, <1>3, ConcatProperties DEF Without

LEMMA NumericSeq ==
    ASSUME NEW fields \in Seq([tag : Nat \cup {NoNumber}, value : Nat])
    PROVE  /\ Numeric(fields) \in Seq(FieldType)
           /\ \A n \in DOMAIN Numeric(fields) :
                 n \in DOMAIN fields /\ Numeric(fields)[n] = fields[n]
<1> DEFINE N == Len(fields)
           Good(k) == /\ IsNumeric(SubSeq(fields, 1, k))
                      /\ k = N \/ fields[k + 1].tag = NoNumber
           B == {k \in 0 .. N : k = N \/ fields[k + 1].tag = NoNumber}
<1>1. N \in Nat /\ \A n \in 1 .. N : fields[n] \in [tag : Nat \cup {NoNumber}, value : Nat]
  BY ElementOfSeq, LenProperties
<1>2. B \in SUBSET Nat /\ N \in B
  BY <1>1
<1>3. PICK k \in B : \A m \in B : k <= m
  <2> HIDE DEF B
  <2> QED
    BY <1>2, Least
<1>4. k \in 0 .. N /\ (k = N \/ fields[k + 1].tag = NoNumber)
  OBVIOUS
<1>5. \A m \in 0 .. N : /\ SubSeq(fields, 1, m) \in Seq([tag : Nat \cup {NoNumber}, value : Nat])
                        /\ Len(SubSeq(fields, 1, m)) = m
                        /\ \A n \in 1 .. m : SubSeq(fields, 1, m)[n] = fields[n]
  BY <1>1
<1>6. IsNumeric(SubSeq(fields, 1, k))
  <2>1. ASSUME NEW n \in 1 .. k PROVE fields[n].tag # NoNumber
    <3>1. n - 1 \in 0 .. N /\ ~(k <= n - 1)
      BY <1>1, <1>4
    <3>2. n - 1 \notin B
      <4> HIDE DEF B
      <4> QED
        BY <1>3, <3>1
    <3> QED
      BY <3>1, <3>2
  <2>2. DOMAIN SubSeq(fields, 1, k) = 1 .. k
    BY <1>4, <1>5, LenProperties
  <2> QED
    BY <2>1, <2>2, <1>4, <1>5 DEF IsNumeric
<1>7. k \in 0 .. N /\ Good(k)
  BY <1>4, <1>6
<1> DEFINE c == CHOOSE m \in 0 .. N : Good(m)
<1> HIDE DEF B
<1>8. c \in 0 .. N /\ Good(c)
  <2> HIDE DEF Good
  <2> QED
    BY <1>7
<1>9. Numeric(fields) = SubSeq(fields, 1, c)
  BY DEF Numeric
<1> HIDE DEF c
<1>10. DOMAIN SubSeq(fields, 1, c) = 1 .. c
  BY <1>5, <1>8, LenProperties
<1>11. \A n \in 1 .. c : n \in 1 .. N /\ fields[n] \in FieldType
  <2>1. ASSUME NEW n \in 1 .. c PROVE n \in 1 .. N /\ fields[n] \in FieldType
    <3>1. n \in 1 .. N
      BY <1>1, <1>8
    <3>2. fields[n].tag # NoNumber
      BY <1>5, <1>8, <1>10 DEF IsNumeric
    <3> QED
      BY <1>1, <3>1, <3>2 DEF FieldType
  <2> QED
    BY <2>1
<1>12. SubSeq(fields, 1, c) \in Seq(FieldType)
  BY <1>1, <1>8, <1>11, SubSeqProperties
<1> QED
  BY <1>5, <1>8, <1>9, <1>10, <1>11, <1>12

-----------------------------------------------------------------------------
\* The tags that header, body and trailer get from the application, from the settings,
\* from a conversion and from a rendering.
HeaderUsed ==
    HeaderTags \cup {8, 9, 35, 34, 52} \cup {HeaderSettings[n].tag : n \in DOMAIN HeaderSettings}
ConfiguredTags(type) == {MessageSettings[type][n].tag : n \in DOMAIN MessageSettings[type]}
BodyUsed ==
    BodyTags \cup {98, 108} \cup
        {tag \in UNION {ConfiguredTags(type) : type \in DOMAIN MessageSettings} : tag # NoNumber}
TrailerUsed == TrailerTags \cup {10}

\* H, B and R have all the tags that the maps may get: these, and those that a string
\* of them brings.
TagsIn(H, B, R) ==
    /\ H \in SUBSET Nat /\ B \in SUBSET Nat /\ R \in SUBSET Nat
    /\ HeaderUsed \subseteq H /\ BodyUsed \subseteq B /\ TrailerUsed \subseteq R
    /\ \A tag \in H \cup B \cup R :
          /\ tag \in HeaderFields => tag \in H
          /\ tag \in BodyFields => tag \in B
          /\ tag \in TrailerFields => tag \in R

LEMMA UsedNumbers ==
    ASSUME MessageAssumption, ConversionAssumption
    PROVE  HeaderUsed \subseteq Nat /\ BodyUsed \subseteq Nat /\ TrailerUsed \subseteq Nat
<1>1. \A n \in DOMAIN HeaderSettings : HeaderSettings[n].tag \in Nat
  <2>1. HeaderSettings \in Seq([tag : Nat, value : Nat])
    BY DEF ConversionAssumption
  <2>2. ASSUME NEW n \in DOMAIN HeaderSettings
        PROVE  HeaderSettings[n] \in [tag : Nat, value : Nat]
    <3>1. n \in 1 .. Len(HeaderSettings)
      BY <2>1, LenProperties
    <3> QED
      BY <2>1, <3>1, ElementOfSeq
  <2> QED
    BY <2>2
<1>2. \A type \in DOMAIN MessageSettings : \A n \in DOMAIN MessageSettings[type] :
         MessageSettings[type][n].tag \in Nat \cup {NoNumber}
  <2>1. \A type \in DOMAIN MessageSettings :
           MessageSettings[type] \in Seq([tag : Nat \cup {NoNumber}, value : Nat])
    BY DEF ConversionAssumption
  <2>2. ASSUME NEW type \in DOMAIN MessageSettings, NEW n \in DOMAIN MessageSettings[type]
        PROVE  MessageSettings[type][n] \in [tag : Nat \cup {NoNumber}, value : Nat]
    <3> DEFINE s == MessageSettings[type]
    <3>1. s \in Seq([tag : Nat \cup {NoNumber}, value : Nat])
      BY <2>1
    <3>2. n \in 1 .. Len(s)
      <4> HIDE DEF s
      <4>1. DOMAIN s = 1 .. Len(s)
        BY <3>1, LenProperties
      <4> QED
        BY <4>1 DEF s
    <3> HIDE DEF s
    <3>3. s[n] \in [tag : Nat \cup {NoNumber}, value : Nat]
      BY <3>1, <3>2, ElementOfSeq
    <3> QED
      BY <3>3 DEF s
  <2> QED
    BY <2>2
<1>3. HeaderUsed \subseteq Nat
  <2>1. {HeaderSettings[n].tag : n \in DOMAIN HeaderSettings} \subseteq Nat
    BY <1>1
  <2>2. {8, 9, 35, 34, 52} \subseteq Nat /\ HeaderTags \subseteq Nat
    BY DEF MessageAssumption
  <2> QED
    BY <2>1, <2>2, Zenon DEF HeaderUsed
<1>4. \A type \in DOMAIN MessageSettings : ConfiguredTags(type) \subseteq Nat \cup {NoNumber}
  BY <1>2 DEF ConfiguredTags
<1>5. BodyUsed \subseteq Nat
  <2>1. {tag \in UNION {ConfiguredTags(type) : type \in DOMAIN MessageSettings} : tag # NoNumber}
           \subseteq Nat
    BY <1>4
  <2>2. {98, 108} \subseteq Nat /\ BodyTags \subseteq Nat
    BY DEF MessageAssumption
  <2> QED
    BY <2>1, <2>2, Zenon DEF BodyUsed
<1>6. TrailerUsed \subseteq Nat
  BY DEF TrailerUsed, MessageAssumption
<1> QED
  BY <1>3, <1>5, <1>6

MapsInv(H, B, R) ==
    /\ IsMapOf("header", header, H)
    /\ IsMapOf("normal", body, B)
    /\ IsMapOf("trailer", trailer, R)
    /\ text \in Seq(FieldsIn(H \cup B \cup R))
    /\ renders \in 0 .. MaxRenders
    /\ seqNo \in Nat

LEMMA EmptyMap ==
    ASSUME NEW mode, NEW T
    PROVE  IsMapOf(mode, <<>>, T)
  BY DEF IsMapOf, IsMap

LEMMA SetFieldGood ==
    ASSUME NEW mode \in Modes, NEW T, NEW map, IsMapOf(mode, map, T),
           NEW tag \in Nat, tag \in T, NEW value \in Nat
    PROVE  IsMapOf(mode, SetField(mode, map, Field(tag, value)), T)
  BY FieldOfNumbers, PutFieldGood DEF SetField

\* toString sets the length in the header and the checksum in the trailer.
LEMMA LengthSet ==
    ASSUME NEW H, 9 \in H, NEW B, NEW R, NEW h, NEW b, NEW t,
           IsMapOf("header", h, H), IsMapOf("normal", b, B), IsMapOf("trailer", t, R)
    PROVE  /\ BodyLength(h, b, t) \in Nat
           /\ IsMapOf("header", WithLength(h, b, t), H)
           /\ HasKey(WithLength(h, b, t), 9)
<1>1. h \in Seq(Nodes) /\ b \in Seq(Nodes) /\ t \in Seq(Nodes)
  BY DEF IsMapOf, IsMap
<1>2. BodyLength(h, b, t) \in Nat
  <2>1. GetLength(h) \in Nat /\ GetLength(b) \in Nat /\ GetLength(t) \in Nat
    BY <1>1, MapNumbers
  <2> QED
    BY <2>1 DEF BodyLength
<1> DEFINE f == Field(9, BodyLength(h, b, t))
<1>3. f \in FieldType /\ f.tag = 9
  BY <1>2, FieldOfNumbers
<1>4. WithLength(h, b, t) = PutField("header", h, f, TRUE)
  BY DEF WithLength, SetField
<1> HIDE DEF f
<1>5. "header" \in Modes /\ "header" # "trailer" /\ f.tag \in Nat
  BY <1>3 DEF Modes
<1>6. IsMapOf("header", PutField("header", h, f, TRUE), H)
  BY <1>3, <1>5, PutFieldGood
<1>8. OwnKeys("header", H)
  BY DEF OwnKeys
<1>7. HasKey(PutField("header", h, f, TRUE), f.tag)
  BY <1>3, <1>5, <1>8, PutFieldGood
<1> QED
  BY <1>2, <1>3, <1>4, <1>6, <1>7

LEMMA ChecksumSet ==
    ASSUME NEW H, 9 \in H, NEW B, NEW R, 10 \in R, NEW h, NEW b, NEW t,
           IsMapOf("header", h, H), IsMapOf("normal", b, B), IsMapOf("trailer", t, R)
    PROVE  /\ Checksum(WithLength(h, b, t), b, t) \in Nat
           /\ IsMapOf("trailer", WithChecksum(h, b, t), R)
<1> DEFINE l == WithLength(h, b, t)
<1>1. IsMapOf("header", l, H)
  BY LengthSet
<1> HIDE DEF l
<1>2. l \in Seq(Nodes) /\ b \in Seq(Nodes) /\ t \in Seq(Nodes)
  BY <1>1 DEF IsMapOf, IsMap
<1>3. GetTotal(l) \in Nat /\ GetTotal(b) \in Nat /\ GetTotal(t) \in Nat
  BY <1>2, MapNumbers
<1>4. Checksum(l, b, t) \in Nat
  BY <1>3 DEF Checksum
<1>5. "trailer" \in Modes /\ 10 \in Nat
  BY DEF Modes
<1> QED
  BY <1>4, <1>5, SetFieldGood DEF WithChecksum, l

LEMMA RenderingSeq ==
    ASSUME NEW H, 9 \in H, NEW B, NEW R, 10 \in R, NEW h, NEW b, NEW t,
           IsMapOf("header", h, H), IsMapOf("normal", b, B), IsMapOf("trailer", t, R)
    PROVE  Rendering(h, b, t) \in Seq(FieldsIn(H \cup B \cup R))
<1> DEFINE U == H \cup B \cup R
<1>1. H \in SUBSET U /\ B \in SUBSET U /\ R \in SUBSET U
  OBVIOUS
<1> HIDE DEF U
<1>2. /\ FieldsOf(WithLength(h, b, t)) \in Seq(FieldsIn(U))
      /\ FieldsOf(b) \in Seq(FieldsIn(U))
      /\ FieldsOf(WithChecksum(h, b, t)) \in Seq(FieldsIn(U))
  BY <1>1, LengthSet, ChecksumSet, FieldsOfSeq
<1> QED
  BY <1>2, ConcatProperties DEF Rendering, U

\* A rendering keeps the invariant if what is rendered is in order.
LEMMA RenderOfKeeps ==
    ASSUME NEW H, 9 \in H, NEW B, NEW R, 10 \in R, NEW h, NEW b, MessageAssumption,
           IsMapOf("header", h, H), IsMapOf("normal", b, B), IsMapOf("trailer", trailer, R),
           renders \in 0 .. MaxRenders, RenderOf(h, b)
    PROVE  /\ IsMapOf("header", header', H)
           /\ IsMapOf("normal", body', B)
           /\ IsMapOf("trailer", trailer', R)
           /\ text' \in Seq(FieldsIn(H \cup B \cup R))
           /\ renders' \in 0 .. MaxRenders
<1>1. /\ header' = WithLength(h, b, trailer) /\ body' = b
      /\ trailer' = WithChecksum(h, b, trailer)
      /\ text' = Rendering(h, b, trailer)
  BY DEF RenderOf
<1>2. renders' \in 0 .. MaxRenders
  BY DEF RenderOf, MessageAssumption
<1> QED
  BY <1>1, <1>2, LengthSet, ChecksumSet, RenderingSeq

-----------------------------------------------------------------------------
LEMMA MapsInit ==
    ASSUME NEW H, NEW B, NEW R, TagsIn(H, B, R), MessageAssumption, ConversionAssumption, ConversionInit
    PROVE  MapsInv(H, B, R)
<1> USE DEF Modes, MessageAssumption, ConversionAssumption
<1>1. PICK type \in Types : header = Built(type)
  BY DEF ConversionInit, Init
<1>2. IsMapOf("header", Built(type), H)
  <2>1. 35 \in H
    BY DEF TagsIn, HeaderUsed
  <2>2. type \in Nat
    OBVIOUS
  <2> QED
    BY <2>1, <2>2, EmptyMap, SetFieldGood DEF Built
<1>3. body = <<>> /\ trailer = <<>> /\ text = <<>> /\ renders = 0 /\ seqNo = FirstSeqNo
  BY DEF ConversionInit, Init
<1>4. text \in Seq(FieldsIn(H \cup B \cup R))
  BY <1>3
<1>5. IsMapOf("normal", body, B) /\ IsMapOf("trailer", trailer, R)
  BY <1>3, EmptyMap
<1> QED
  BY <1>1, <1>2, <1>3, <1>4, <1>5 DEF MapsInv

LEMMA SetKeeps ==
    ASSUME NEW H, NEW B, NEW R, TagsIn(H, B, R), MessageAssumption, MapsInv(H, B, R),
           NEW tag \in AllTags, NEW value \in Values, NEW overwrite \in BOOLEAN,
           Set(Field(tag, value), overwrite), seqNo' = seqNo
    PROVE  MapsInv(H, B, R)'
<1> DEFINE f == Field(tag, value)
<1>1. f \in FieldType /\ f.tag = tag /\ tag \in Nat
  BY FieldOfNumbers DEF AllTags, MessageAssumption
<1> HIDE DEF f
<1>2. Set(f, overwrite)
  BY DEF f
<1>3. text' = text /\ renders' = renders
  BY <1>2 DEF Set
<1>4. CASE f.tag \in HeaderTags /\ header' = PutField("header", header, f, overwrite)
           /\ UNCHANGED <<body, trailer>>
  <2>1. IsMapOf("header", header', H)
    BY <1>1, <1>4, PutFieldGood DEF MapsInv, Modes, TagsIn, HeaderUsed
  <2> QED
    BY <1>3, <1>4, <2>1 DEF MapsInv
<1>5. CASE f.tag \in BodyTags /\ body' = PutField("normal", body, f, overwrite)
           /\ UNCHANGED <<header, trailer>>
  <2>1. IsMapOf("normal", body', B)
    BY <1>1, <1>5, PutFieldGood DEF MapsInv, Modes, TagsIn, BodyUsed
  <2> QED
    BY <1>3, <1>5, <2>1 DEF MapsInv
<1>6. CASE f.tag \in TrailerTags /\ trailer' = PutField("trailer", trailer, f, overwrite)
           /\ UNCHANGED <<header, body>>
  <2>1. IsMapOf("trailer", trailer', R)
    BY <1>1, <1>6, PutFieldGood DEF MapsInv, Modes, TagsIn, TrailerUsed
  <2> QED
    BY <1>3, <1>6, <2>1 DEF MapsInv
<1> QED
  BY <1>2, <1>4, <1>5, <1>6 DEF Set

LEMMA EraseKeeps ==
    ASSUME NEW H, NEW B, NEW R, TagsIn(H, B, R), MessageAssumption, MapsInv(H, B, R),
           NEW tag \in AllTags, Erase(tag), seqNo' = seqNo
    PROVE  MapsInv(H, B, R)'
<1>1. tag \in Nat
  BY DEF AllTags, MessageAssumption
<1>2. text' = text /\ renders' = renders
  BY DEF Erase
<1>3. /\ IsMapOf("header", RemoveField("header", header, tag), H)
      /\ IsMapOf("normal", RemoveField("normal", body, tag), B)
      /\ IsMapOf("trailer", RemoveField("trailer", trailer, tag), R)
  BY <1>1, RemoveFieldGood DEF MapsInv, Modes
<1>4. /\ header' \in {header, RemoveField("header", header, tag)}
      /\ body' \in {body, RemoveField("normal", body, tag)}
      /\ trailer' \in {trailer, RemoveField("trailer", trailer, tag)}
  BY DEF Erase
<1> QED
  BY <1>2, <1>3, <1>4 DEF MapsInv

LEMMA SetStringKeeps ==
    ASSUME NEW H, NEW B, NEW R, TagsIn(H, B, R), MapsInv(H, B, R),
           NEW s \in Strings, SetString(s), seqNo' = seqNo
    PROVE  MapsInv(H, B, R)'
<1> DEFINE U == H \cup B \cup R
           t == Taken(s)
<1>1. text \in Seq(FieldsIn(U))
  BY DEF MapsInv
<1>2. \A tag \in U : /\ tag \in HeaderFields => tag \in H
                     /\ tag \in BodyFields => tag \in B
                     /\ tag \in TrailerFields => tag \in R
  BY DEF TagsIn
<1> HIDE DEF U
<1>3. s \in Seq(FieldsIn(U))
  BY <1>1, WithoutSeq DEF Strings
<1>4. t \in Seq(FieldsIn(U))
  BY <1>3, TakenSeq
<1> HIDE DEF t
<1>5. t \in Seq(FieldType) /\ \A n \in DOMAIN t : t[n].tag \in U
  BY <1>4, FieldsInSeq
<1>0. H \in SUBSET Nat /\ B \in SUBSET Nat /\ R \in SUBSET Nat
  BY DEF TagsIn
<1>6. IsMapOf("header", ParsedHeader(t), H)
  BY <1>0, <1>2, <1>5, EmptyMap, FilledGood DEF ParsedHeader, Modes
<1>7. IsMapOf("normal", ParsedBody(t), B)
  BY <1>0, <1>2, <1>5, EmptyMap, FilledGood DEF ParsedBody, Modes
<1>8. IsMapOf("trailer", ParsedTrailer(t), R)
  BY <1>0, <1>2, <1>5, EmptyMap, FilledGood DEF ParsedTrailer, Modes
<1>9. /\ header' = ParsedHeader(t) /\ body' = ParsedBody(t) /\ trailer' = ParsedTrailer(t)
      /\ text' = text /\ renders' = renders
  BY DEF SetString, t
<1> QED
  BY <1>6, <1>7, <1>8, <1>9 DEF MapsInv

\* What the settings and the logon make of header and body.
LEMMA SettingsGood ==
    ASSUME NEW H, NEW B, NEW R, TagsIn(H, B, R), ConversionAssumption, MapsInv(H, B, R)
    PROVE  /\ IsMapOf("header", HeaderSet, H)
           /\ IsMapOf("normal", BodySet, B)
           /\ IsMapOf("normal", WithLogon(BodySet), B)
<1>1. IsMapOf("header", HeaderSet, H)
  <2>1. HeaderSettings \in Seq(FieldType)
    BY DEF ConversionAssumption, FieldType
  <2> QED
    BY <2>1, FilledGood DEF HeaderSet, MapsInv, Modes, TagsIn, HeaderUsed
<1>2. /\ Configured \in Seq([tag : Nat \cup {NoNumber}, value : Nat])
      /\ \A n \in DOMAIN Configured : Configured[n].tag \in B \cup {NoNumber}
  <2>1. CASE MsgType \in DOMAIN MessageSettings
    <3>1. Configured = MessageSettings[MsgType]
      BY <2>1 DEF Configured
    <3>2. ConfiguredTags(MsgType) \subseteq B \cup {NoNumber}
      <4>1. BodyUsed \subseteq B
        BY DEF TagsIn
      <4> QED
        BY <2>1, <4>1 DEF BodyUsed
    <3> QED
      BY <2>1, <3>1, <3>2 DEF ConversionAssumption, ConfiguredTags
  <2>2. CASE MsgType \notin DOMAIN MessageSettings
    <3>1. Configured = <<>>
      BY <2>2 DEF Configured
    <3> QED
      BY <3>1
  <2> QED
    BY <2>1, <2>2
<1> DEFINE fields == Numeric(Configured)
<1>3. /\ fields \in Seq(FieldType)
      /\ \A n \in DOMAIN fields : n \in DOMAIN Configured /\ fields[n] = Configured[n]
  BY <1>2, NumericSeq
<1> HIDE DEF fields
<1>4. \A n \in DOMAIN fields : fields[n].tag \in B
  <2>1. \A n \in DOMAIN fields : fields[n] \in FieldType
    BY <1>3, ElementOfSeq, LenProperties
  <2>2. \A n \in DOMAIN fields : fields[n].tag # NoNumber
    BY <2>1 DEF FieldType, ConversionAssumption
  <2> QED
    BY <1>2, <1>3, <2>2
<1>5. IsMapOf("normal", BodySet, B)
  <2>1. BodySet = Filled("normal", body, fields, Nat)
    BY DEF BodySet, fields
  <2> QED
    BY <1>3, <1>4, <2>1, FilledGood DEF MapsInv, TagsIn, Modes
<1>6. IsMapOf("normal", WithLogon(BodySet), B)
  <2>1. IsMapOf("normal", SetField("normal", BodySet, Field(98, EncryptType)), B)
    BY <1>5, SetFieldGood DEF TagsIn, BodyUsed, ConversionAssumption, Modes
  <2>2. IsMapOf("normal", SetField("normal", SetField("normal", BodySet, Field(98, EncryptType)),
                                   Field(108, HbInterval)), B)
    BY <2>1, SetFieldGood DEF TagsIn, BodyUsed, ConversionAssumption, Modes
  <2> QED
    BY <1>5, <2>2 DEF WithLogon
<1> QED
  BY <1>1, <1>5, <1>6

LEMMA StampedGood ==
    ASSUME NEW H, {52, 34} \subseteq H, NEW h, IsMapOf("header", h, H), NEW time \in Nat, seqNo \in Nat
    PROVE  IsMapOf("header", Stamped(h, time), H)
<1>1. IsMapOf("header", SetField("header", h, Field(52, time)), H)
  BY SetFieldGood DEF Modes
<1> QED
  BY <1>1, SetFieldGood DEF Stamped, Modes

LEMMA MapsStep ==
    ASSUME NEW H, NEW B, NEW R, TagsIn(H, B, R), MessageAssumption, ConversionAssumption, MapsInv(H, B, R),
           [ConversionNext]_allVars
    PROVE  MapsInv(H, B, R)'
<1>0. 9 \in H /\ {52, 34} \subseteq H /\ 10 \in R /\ IsMapOf("header", header, H) /\ IsMapOf("normal", body, B)
      /\ IsMapOf("trailer", trailer, R) /\ renders \in 0 .. MaxRenders /\ seqNo \in Nat
  BY DEF TagsIn, HeaderUsed, TrailerUsed, MapsInv
<1>1. CASE UNCHANGED allVars
  BY <1>1 DEF allVars, vars, MapsInv
<1>2. ASSUME NEW t \in AllTags, NEW v \in Values, NEW overwrite \in BOOLEAN,
             Set(Field(t, v), overwrite), seqNo' = seqNo
      PROVE  MapsInv(H, B, R)'
  BY <1>2, SetKeeps
<1>3. ASSUME NEW t \in AllTags, Erase(t), seqNo' = seqNo
      PROVE  MapsInv(H, B, R)'
  BY <1>3, EraseKeeps
<1>4. CASE Render /\ seqNo' = seqNo
  BY <1>0, <1>4, RenderOfKeeps DEF Render, MapsInv
<1>5. ASSUME NEW s \in Strings, SetString(s), seqNo' = seqNo
      PROVE  MapsInv(H, B, R)'
  BY <1>5, SetStringKeeps
<1>6. CASE Clear /\ seqNo' = seqNo
  BY <1>6, EmptyMap DEF Clear, MapsInv
<1>7. CASE Convert
  <2>1. PICK time \in Times : RenderOf(Stamped(HeaderSet, time), WithLogon(BodySet))
    BY <1>7 DEF Convert
  <2>2. time \in Nat
    BY DEF ConversionAssumption
  <2>3. IsMapOf("header", Stamped(HeaderSet, time), H)
    BY <1>0, <2>2, SettingsGood, StampedGood
  <2>4. seqNo' \in Nat
    BY <1>0, <1>7 DEF Convert
  <2> QED
    BY <1>0, <2>1, <2>3, <2>4, SettingsGood, RenderOfKeeps DEF MapsInv
<1>8. CASE ConvertUntyped
  BY <1>8, SettingsGood DEF ConvertUntyped, MapsInv
<1>9. CASE ConvertBadTag
  BY <1>9, SettingsGood DEF ConvertBadTag, MapsInv
<1>10. CASE ConvertWholeSecond
  BY <1>10, SettingsGood DEF ConvertWholeSecond, MapsInv
<1> QED
  BY <1>1, <1>2, <1>3, <1>4, <1>5, <1>6, <1>7, <1>8, <1>9, <1>10 DEF ConversionNext, Next

\* Whatever is done to a message, its three maps stay in the orders of their std::map,
\* under distinct keys, and its strings are made of tags and numbers.
THEOREM MessageTypeCorrect ==
    ASSUME MessageAssumption, ConversionAssumption
    PROVE  ConversionSpec => []TypeOK
<1>1. TagsIn(Nat, Nat, Nat)
  BY UsedNumbers DEF TagsIn
<1>2. ConversionInit => MapsInv(Nat, Nat, Nat)
  BY <1>1, MapsInit
<1>3. MapsInv(Nat, Nat, Nat) /\ [ConversionNext]_allVars => MapsInv(Nat, Nat, Nat)'
  BY <1>1, MapsStep
<1>4. MapsInv(Nat, Nat, Nat) => TypeOK
  BY FieldsInSeq DEF MapsInv, TypeOK, IsMapOf
<1> QED
  BY <1>2, <1>3, <1>4, PTL DEF ConversionSpec

\* A string is made of maps like these.
LEMMA TextRendered ==
    ASSUME NEW H, NEW B, NEW R, TagsIn(H, B, R), ConversionAssumption, MapsInv(H, B, R),
           [ConversionNext]_allVars
    PROVE  \/ text' = text
           \/ \E h, b : /\ IsMapOf("header", h, H) /\ IsMapOf("normal", b, B)
                        /\ text' = Rendering(h, b, trailer)
<1>1. text' = text \/ Render \/ Convert
  BY DEF ConversionNext, Next, Set, Erase, SetString, Clear, ConvertUntyped, ConvertBadTag,
         ConvertWholeSecond, allVars, vars
<1>2. CASE Render
  BY <1>2 DEF Render, RenderOf, MapsInv
<1>3. CASE Convert
  <2>1. PICK time \in Times : RenderOf(Stamped(HeaderSet, time), WithLogon(BodySet))
    BY <1>3 DEF Convert
  <2>2. time \in Nat /\ seqNo \in Nat /\ {52, 34} \subseteq H
    BY DEF ConversionAssumption, MapsInv, TagsIn, HeaderUsed
  <2>3. IsMapOf("header", HeaderSet, H) /\ IsMapOf("normal", WithLogon(BodySet), B)
    BY SettingsGood
  <2>4. IsMapOf("header", Stamped(HeaderSet, time), H)
    BY <2>2, <2>3, StampedGood
  <2> QED
    BY <2>1, <2>3, <2>4 DEF RenderOf
<1> QED
  BY <1>1, <1>2, <1>3

-----------------------------------------------------------------------------
\* Version and type are set in the header alone.
TypesInHeader == (BodyUsed \cup TrailerUsed) \cap {8, 35} = {}

\* A header that has 8, 9 and 35 begins with them.
LEMMA HeaderBegins ==
    ASSUME NEW h, IsMap("header", h), HasKey(h, 8), HasKey(h, 9), HasKey(h, 35)
    PROVE  /\ Len(h) \in Nat /\ Len(h) >= 3
           /\ h[1].key = 8 /\ h[2].key = 9 /\ h[3].key = 35
<1>1. /\ h \in Seq(Nodes) /\ Len(h) \in Nat /\ DOMAIN h = 1 .. Len(h)
      /\ \A i, j \in DOMAIN h : i < j => HeaderLess(h[i].key, h[j].key)
  BY LenProperties DEF IsMap, Less
<1>2. \A i \in DOMAIN h : h[i].key \in Nat
  <2>1. \A i \in DOMAIN h : h[i] \in Nodes
    BY <1>1, ElementOfSeq
  <2> QED
    BY <2>1 DEF Nodes
<1>3. PICK i \in DOMAIN h, j \in DOMAIN h, k \in DOMAIN h :
          h[i].key = 8 /\ h[j].key = 9 /\ h[k].key = 35
  BY DEF HasKey
<1>4. \A x \in Nat : /\ HeaderLess(x, 8) => FALSE
                     /\ HeaderLess(x, 9) => x = 8
                     /\ HeaderLess(x, 35) => x = 8 \/ x = 9
  BY DEF HeaderLess, OrderedPosition
<1>5. i = 1
  <2>1. ~(1 < i)
    BY <1>1, <1>2, <1>3, <1>4
  <2> QED
    BY <1>1, <2>1
<1>6. \A m, n \in DOMAIN h : h[m].key = h[n].key => m = n
  <2>1. \A x \in Nat : ~HeaderLess(x, x)
    BY DEF HeaderLess, OrderedPosition
  <2>2. ASSUME NEW m \in DOMAIN h, NEW n \in DOMAIN h, m < n
        PROVE  h[m].key # h[n].key
    <3>1. HeaderLess(h[m].key, h[n].key)
      BY <1>1, <2>2
    <3> QED
      BY <1>2, <2>1, <3>1
  <2>3. \A m, n \in DOMAIN h : m < n \/ m = n \/ n < m
    BY <1>1
  <2> QED
    BY <2>2, <2>3
<1>7. j = 2
  <2>1. j # 1 /\ j > 1
    BY <1>1, <1>3, <1>5
  <2>2. ASSUME j > 2 PROVE FALSE
    <3>1. 2 \in DOMAIN h /\ 2 # i
      BY <1>1, <1>5, <2>2
    <3>2. h[2].key = 8
      BY <1>1, <1>2, <1>3, <1>4, <2>2, <3>1
    <3> QED
      BY <1>3, <1>6, <3>1, <3>2
  <2> QED
    BY <1>1, <2>1, <2>2
<1>8. k = 3
  <2>1. k # 1 /\ k # 2 /\ k > 2
    BY <1>1, <1>3, <1>5, <1>7
  <2>2. ASSUME k > 3 PROVE FALSE
    <3>1. 3 \in DOMAIN h /\ 3 # i /\ 3 # j
      BY <1>1, <1>5, <1>7, <2>2
    <3>2. h[3].key = 8 \/ h[3].key = 9
      BY <1>1, <1>2, <1>3, <1>4, <2>2, <3>1
    <3> QED
      BY <1>3, <1>6, <3>1, <3>2
  <2> QED
    BY <1>1, <2>1, <2>2
<1> QED
  BY <1>1, <1>3, <1>5, <1>7, <1>8

\* What is at each place of three sequences, one behind the other.
LEMMA ThreeParts ==
    ASSUME NEW S, NEW x \in Seq(S), NEW y \in Seq(S), NEW z \in Seq(S)
    PROVE  /\ Len((x \o y) \o z) = Len(x) + Len(y) + Len(z)
           /\ DOMAIN ((x \o y) \o z) = 1 .. Len((x \o y) \o z)
           /\ \A i \in 1 .. Len(x) + Len(y) + Len(z) :
                 ((x \o y) \o z)[i] =
                    IF i <= Len(x) THEN x[i]
                    ELSE IF i <= Len(x) + Len(y) THEN y[i - Len(x)]
                    ELSE z[i - (Len(x) + Len(y))]
<1> DEFINE xy == x \o y
<1>1. /\ xy \in Seq(S) /\ Len(xy) = Len(x) + Len(y)
      /\ \A i \in 1 .. Len(x) + Len(y) :
            xy[i] = IF i <= Len(x) THEN x[i] ELSE y[i - Len(x)]
  BY ConcatProperties
<1>2. Len(x) \in Nat /\ Len(y) \in Nat /\ Len(z) \in Nat
  BY LenProperties
<1> HIDE DEF xy
<1>3. /\ xy \o z \in Seq(S) /\ Len(xy \o z) = Len(xy) + Len(z)
      /\ \A i \in 1 .. Len(xy) + Len(z) :
            (xy \o z)[i] = IF i <= Len(xy) THEN xy[i] ELSE z[i - Len(xy)]
  <2>1. xy \in Seq(S)
    BY <1>1
  <2> QED
    BY <2>1, ConcatProperties, Zenon
<1>4. DOMAIN (xy \o z) = 1 .. Len(xy \o z)
  BY <1>3, LenProperties
<1>5. ASSUME NEW i \in 1 .. Len(x) + Len(y) + Len(z)
      PROVE  (xy \o z)[i] = IF i <= Len(x) THEN x[i]
                             ELSE IF i <= Len(x) + Len(y) THEN y[i - Len(x)]
                             ELSE z[i - (Len(x) + Len(y))]
  <2>1. i \in 1 .. Len(xy) + Len(z)
    BY <1>1, <1>2
  <2>2. (xy \o z)[i] = IF i <= Len(xy) THEN xy[i] ELSE z[i - Len(xy)]
    BY <1>3, <2>1
  <2>3. i <= Len(xy) => xy[i] = IF i <= Len(x) THEN x[i] ELSE y[i - Len(x)]
    BY <1>1, <1>2, <2>1
  <2>4. i <= Len(x) => i <= Len(xy)
    BY <1>1, <1>2, <2>1
  <2> QED
    BY <1>1, <2>2, <2>3, <2>4
<1> QED
  BY <1>1, <1>2, <1>3, <1>4, <1>5 DEF xy

\* Where the nodes of three maps are in a string of them.
Places(l, b, c, r) ==
    /\ Len(l) \in Nat /\ DOMAIN l = 1 .. Len(l)
    /\ Len(b) \in Nat /\ DOMAIN b = 1 .. Len(b)
    /\ Len(c) \in Nat /\ DOMAIN c = 1 .. Len(c)
    /\ Len(r) = Len(l) + Len(b) + Len(c) /\ DOMAIN r = 1 .. Len(r)
    /\ \A i \in 1 .. Len(l) + Len(b) + Len(c) :
          r[i] = IF i <= Len(l) THEN l[i].field
                 ELSE IF i <= Len(l) + Len(b) THEN b[i - Len(l)].field
                 ELSE c[i - (Len(l) + Len(b))].field

LEMMA RenderingPlaces ==
    ASSUME NEW H, 9 \in H, NEW B, NEW R, 10 \in R, NEW h, NEW b, NEW t,
           IsMapOf("header", h, H), IsMapOf("normal", b, B), IsMapOf("trailer", t, R)
    PROVE  Places(WithLength(h, b, t), b, WithChecksum(h, b, t), Rendering(h, b, t))
<1> DEFINE l == WithLength(h, b, t)
           c == WithChecksum(h, b, t)
           r == Rendering(h, b, t)
           U == H \cup B \cup R
           x == FieldsOf(l)
           y == FieldsOf(b)
           z == FieldsOf(c)
<1>1. H \in SUBSET U /\ B \in SUBSET U /\ R \in SUBSET U
  OBVIOUS
<1>2. IsMapOf("header", l, H) /\ IsMapOf("trailer", c, R)
  BY LengthSet, ChecksumSet
<1>3. r = (x \o y) \o z
  BY DEF Rendering
<1> HIDE DEF U, l, c, r
<1>4. /\ Len(l) \in Nat /\ DOMAIN l = 1 .. Len(l)
      /\ Len(b) \in Nat /\ DOMAIN b = 1 .. Len(b)
      /\ Len(c) \in Nat /\ DOMAIN c = 1 .. Len(c)
  BY <1>1, <1>2, FieldsOfSeq
<1>5. /\ FieldsOf(l) \in Seq(FieldsIn(U)) /\ Len(FieldsOf(l)) = Len(l)
      /\ \A i \in 1 .. Len(l) : FieldsOf(l)[i] = l[i].field
  <2>1. IsMapOf("header", l, H) /\ H \in SUBSET U
    BY <1>1, <1>2
  <2> QED
    BY <2>1, FieldsOfSeq
<1>6. /\ FieldsOf(b) \in Seq(FieldsIn(U)) /\ Len(FieldsOf(b)) = Len(b)
      /\ \A i \in 1 .. Len(b) : FieldsOf(b)[i] = b[i].field
  BY <1>1, FieldsOfSeq
<1>7. /\ FieldsOf(c) \in Seq(FieldsIn(U)) /\ Len(FieldsOf(c)) = Len(c)
      /\ \A i \in 1 .. Len(c) : FieldsOf(c)[i] = c[i].field
  BY <1>1, <1>2, FieldsOfSeq
<1> DEFINE xyz == (x \o y) \o z
<1> HIDE DEF x, y, z
<1>8. x \in Seq(FieldsIn(U)) /\ y \in Seq(FieldsIn(U)) /\ z \in Seq(FieldsIn(U))
  BY <1>5, <1>6, <1>7 DEF x, y, z
<1>9. /\ Len(xyz) = Len(x) + Len(y) + Len(z)
      /\ DOMAIN xyz = 1 .. Len(xyz)
      /\ \A i \in 1 .. Len(x) + Len(y) + Len(z) :
            xyz[i] = IF i <= Len(x) THEN x[i]
                     ELSE IF i <= Len(x) + Len(y) THEN y[i - Len(x)]
                     ELSE z[i - (Len(x) + Len(y))]
  BY <1>8, ThreeParts
<1>10. r = xyz
  BY <1>3
<1> HIDE DEF xyz
<1>11. Len(x) = Len(l) /\ Len(y) = Len(b) /\ Len(z) = Len(c)
  BY <1>5, <1>6, <1>7 DEF x, y, z
<1>12. ASSUME NEW i \in 1 .. Len(l) + Len(b) + Len(c)
       PROVE  r[i] = IF i <= Len(l) THEN l[i].field
                     ELSE IF i <= Len(l) + Len(b) THEN b[i - Len(l)].field
                     ELSE c[i - (Len(l) + Len(b))].field
  <2>1. r[i] = IF i <= Len(l) THEN x[i]
               ELSE IF i <= Len(l) + Len(b) THEN y[i - Len(l)]
               ELSE z[i - (Len(l) + Len(b))]
    BY <1>9, <1>10, <1>11
  <2>2. CASE i <= Len(l)
    BY <2>1, <2>2, <1>4, <1>5 DEF x
  <2>3. CASE i > Len(l) /\ i <= Len(l) + Len(b)
    <3>1. i - Len(l) \in 1 .. Len(b) /\ ~(i <= Len(l))
      BY <2>3, <1>4
    <3> QED
      BY <2>1, <2>3, <3>1, <1>6 DEF y
  <2>4. CASE i > Len(l) + Len(b)
    <3>1. /\ i - (Len(l) + Len(b)) \in 1 .. Len(c)
          /\ ~(i <= Len(l)) /\ ~(i <= Len(l) + Len(b))
      BY <2>4, <1>4
    <3> QED
      BY <2>1, <3>1, <1>7 DEF z
  <2> QED
    BY <2>2, <2>3, <2>4, <1>4
<1> QED
  BY <1>4, <1>9, <1>10, <1>11, <1>12 DEF Places, l, c, r

\* So does what toString makes of such a message.
Begins(r) == Len(r) >= 3 /\ \A n \in 1 .. 3 : r[n].tag = HeaderOrder[n]

LEMMA RenderingBegins ==
    ASSUME NEW H, 9 \in H, NEW B, NEW R, 10 \in R, (B \cup R) \cap {8, 35} = {},
           NEW h, NEW b, NEW t,
           IsMapOf("header", h, H), IsMapOf("normal", b, B), IsMapOf("trailer", t, R),
           {8, 35} \subseteq Tags(Rendering(h, b, t))
    PROVE  Begins(Rendering(h, b, t))
<1> DEFINE l == WithLength(h, b, t)
           c == WithChecksum(h, b, t)
           r == Rendering(h, b, t)
<1>2. /\ IsMapOf("header", l, H) /\ HasKey(l, 9)
      /\ IsMapOf("normal", b, B) /\ IsMapOf("trailer", c, R)
  BY LengthSet, ChecksumSet
<1>3. Places(l, b, c, r)
  BY RenderingPlaces
<1> HIDE DEF l, c, r
<1> USE <1>3 DEF Places
<1>8. Len(r) \in Nat
  OBVIOUS
<1>10. ASSUME NEW i \in DOMAIN r, r[i].tag \in {8, 35}
       PROVE  HasKey(l, r[i].tag)
  <2>1. CASE i <= Len(l)
    <3>1. i \in 1 .. Len(l) /\ i \in 1 .. Len(l) + Len(b) + Len(c)
      BY <2>1, <1>8
    <3>5. i \in DOMAIN l /\ r[i] = l[i].field
      BY <2>1, <3>1
    <3>2. l[i].key = l[i].field.tag
      BY <3>5, <1>2 DEF IsMapOf, OwnKeys
    <3> QED
      BY <3>5, <3>2 DEF HasKey
  <2>2. CASE i > Len(l) /\ i <= Len(l) + Len(b)
    <3> DEFINE k == i - Len(l)
    <3>1. k \in DOMAIN b /\ i \in 1 .. Len(l) + Len(b) + Len(c) /\ ~(i <= Len(l))
      BY <2>2, <1>8
    <3>2. r[i] = b[k].field
      BY <2>2, <3>1
    <3>3. b[k].field.tag \in B
      BY <3>1, <1>2 DEF IsMapOf
    <3> QED
      BY <3>2, <3>3, <1>10
  <2>3. CASE i > Len(l) + Len(b)
    <3> DEFINE k == i - (Len(l) + Len(b))
    <3>1. /\ k \in DOMAIN c /\ i \in 1 .. Len(l) + Len(b) + Len(c)
          /\ ~(i <= Len(l)) /\ ~(i <= Len(l) + Len(b))
      BY <2>3, <1>8
    <3>2. r[i] = c[k].field
      BY <3>1
    <3>3. c[k].field.tag \in R
      BY <3>1, <1>2 DEF IsMapOf
    <3> QED
      BY <3>2, <3>3, <1>10
  <2> QED
    BY <2>1, <2>2, <2>3, <1>8
<1>11. HasKey(l, 8) /\ HasKey(l, 35)
  BY <1>10 DEF Tags, r
<1>12. /\ Len(l) >= 3 /\ l[1].key = 8 /\ l[2].key = 9 /\ l[3].key = 35
  BY <1>2, <1>11, HeaderBegins DEF IsMapOf
<1>13. /\ Len(r) >= 3
       /\ r[1] = l[1].field /\ r[2] = l[2].field /\ r[3] = l[3].field
  <2>1. Len(r) >= 3
    BY <1>12
  <2>2. ASSUME NEW i \in 1 .. 3 PROVE r[i] = l[i].field
    <3>1. i \in 1 .. Len(l) /\ i \in 1 .. Len(l) + Len(b) + Len(c) /\ i <= Len(l)
      BY <1>12
    <3> QED
      BY <3>1
  <2> QED
    BY <2>1, <2>2
<1>14. l[1].field.tag = 8 /\ l[2].field.tag = 9 /\ l[3].field.tag = 35
  <2>1. 1 \in DOMAIN l /\ 2 \in DOMAIN l /\ 3 \in DOMAIN l
    BY <1>12
  <2>2. \A i \in DOMAIN l : l[i].field.tag = l[i].key
    BY <1>2 DEF IsMapOf, OwnKeys
  <2> QED
    BY <2>1, <2>2, <1>12
<1>15. r[1].tag = HeaderOrder[1] /\ r[2].tag = HeaderOrder[2] /\ r[3].tag = HeaderOrder[3]
  BY <1>13, <1>14 DEF HeaderOrder
<1>16. \A n \in 1 .. 3 : n = 1 \/ n = 2 \/ n = 3
  OBVIOUS
<1> QED
  BY <1>13, <1>15, <1>16 DEF r, Begins

\* Every string that has a version and a type begins with 8, 9 and 35, whatever was set,
\* removed, made from a string or converted before, in whatever order.
THEOREM HeaderFirstCorrect ==
    ASSUME MessageAssumption, ConversionAssumption, TypesInHeader
    PROVE  ConversionSpec => []HeaderFirst
<1> DEFINE T == Nat \ {8, 35}
           IInv == MapsInv(Nat, T, T) /\ HeaderFirst
<1>1. TagsIn(Nat, T, T)
  <2>1. BodyUsed \subseteq T /\ TrailerUsed \subseteq T /\ HeaderUsed \subseteq Nat
    BY UsedNumbers DEF TypesInHeader
  <2>2. T \in SUBSET Nat /\ Nat \in SUBSET Nat
    OBVIOUS
  <2>3. \A tag \in Nat : /\ tag \in BodyFields => tag \in T
                         /\ tag \in TrailerFields => tag \in T
    BY DEF BodyFields, TrailerFields, HeaderFields
  <2> HIDE DEF T
  <2> QED
    BY <2>1, <2>2, <2>3 DEF TagsIn
<1>2. ConversionInit => IInv
  <2>1. ConversionInit => text = <<>>
    BY DEF ConversionInit, Init
  <2>2. text = <<>> => HeaderFirst
    BY DEF HeaderFirst, Tags
  <2> QED
    BY <1>1, <2>1, <2>2, MapsInit
<1>3. IInv /\ [ConversionNext]_allVars => IInv'
  <2> SUFFICES ASSUME IInv, [ConversionNext]_allVars
               PROVE  IInv'
    OBVIOUS
  <2>1. MapsInv(Nat, T, T)'
    BY <1>1, MapsStep
  <2>2. ASSUME text' = text
        PROVE  HeaderFirst'
    BY <2>2 DEF HeaderFirst, Tags
  <2>3. ASSUME NEW h, NEW b, IsMapOf("header", h, Nat), IsMapOf("normal", b, T),
               text' = Rendering(h, b, trailer)
        PROVE  HeaderFirst'
    <3>1. IsMapOf("trailer", trailer, T)
      BY DEF MapsInv
    <3>2. {8, 35} \subseteq Tags(Rendering(h, b, trailer)) =>
            Begins(Rendering(h, b, trailer))
      <4>1. 9 \in Nat /\ 10 \in T /\ (T \cup T) \cap {8, 35} = {}
        OBVIOUS
      <4> HIDE DEF T
      <4> QED
        BY <2>3, <3>1, <4>1, RenderingBegins
    <3> QED
      BY <2>3, <3>2 DEF HeaderFirst, Tags, Begins
  <2>4. \/ text' = text
        \/ \E h, b : /\ IsMapOf("header", h, Nat) /\ IsMapOf("normal", b, T)
                     /\ text' = Rendering(h, b, trailer)
    BY <1>1, TextRendered
  <2> QED
    BY <2>1, <2>2, <2>3, <2>4
<1>4. IInv => HeaderFirst
  OBVIOUS
<1> QED
  BY <1>2, <1>3, <1>4, PTL DEF ConversionSpec

-----------------------------------------------------------------------------
(* What a message holds, as a set of fields, refines MessageContent. *)

\* What is no part of the content: length and checksum.
Visible(fields) == {f \in fields : f.tag \notin {9, 10}}

LEMMA SameOver ==
    /\ \A fields : Promise!Tags(fields) = TagSet(fields)
    /\ \A upper, lower : Promise!Over(upper, lower) = Over(upper, lower)
  BY DEF Promise!Tags, Promise!Over, TagSet, Over

LEMMA VisibleOver ==
    ASSUME NEW U, NEW L
    PROVE  Visible(Over(U, L)) = Over(Visible(U), Visible(L))
<1> DEFINE a == Visible(Over(U, L))
           b == Over(Visible(U), Visible(L))
<1>1. ASSUME NEW f \in a PROVE f \in b
  BY DEF Visible, Over, TagSet
<1>2. ASSUME NEW f \in b PROVE f \in a
  BY DEF Visible, Over, TagSet
<1> QED
  BY <1>1, <1>2

\* Fields with tags of their own may be added before or after.
Apart(U, Y) == \A f \in U, g \in Y : f.tag # g.tag

LEMMA OverBeside ==
    ASSUME NEW U, NEW L, NEW Y, Apart(U, Y)
    PROVE  Over(U, L) \cup Y = Over(U, L \cup Y)
<1>1. \A y \in Y : y.tag \notin TagSet(U)
  BY DEF Apart, TagSet
<1> QED
  BY <1>1 DEF Over

LEMMA OverTwice ==
    ASSUME NEW U, NEW V, NEW L
    PROVE  Over(U, Over(V, L)) = Over(Over(U, V), L)
<1>1. \A x : x \in TagSet(Over(U, V)) <=> x \in TagSet(U) \/ x \in TagSet(V)
  BY DEF Over, TagSet
<1> HIDE DEF TagSet
<1>2. \A f : f \in Over(U, Over(V, L)) <=>
               \/ f \in U
               \/ f \in V /\ f.tag \notin TagSet(U)
               \/ f \in L /\ f.tag \notin TagSet(U) /\ f.tag \notin TagSet(V)
  BY DEF Over
<1>3. \A f : f \in Over(Over(U, V), L) <=>
               \/ f \in U
               \/ f \in V /\ f.tag \notin TagSet(U)
               \/ f \in L /\ f.tag \notin TagSet(U) /\ f.tag \notin TagSet(V)
  BY <1>1 DEF Over
<1> QED
  BY <1>2, <1>3

LEMMA OverTwo ==
    ASSUME NEW f, NEW g, f.tag # g.tag, NEW L
    PROVE  Over(Just(f), Over(Just(g), L)) = Over({f, g}, L)
<1> DEFINE U == Just(f)
           V == Just(g)
<1>1. Over(U, V) = {f, g}
  BY DEF Over, TagSet, Just
<1> HIDE DEF U, V
<1>2. Over(U, Over(V, L)) = Over(Over(U, V), L)
  BY OverTwice
<1> QED
  BY <1>1, <1>2 DEF U, V

-----------------------------------------------------------------------------
\* The maps, seen as sets.
LEMMA SetFieldOver ==
    ASSUME NEW mode \in Modes, mode # "trailer", NEW T, NEW map, IsMapOf(mode, map, T),
           NEW f \in FieldType
    PROVE  FieldSet(SetField(mode, map, f)) = Over(Just(f), FieldSet(map))
  BY PutFieldSet DEF SetField

FieldsAmong(s) == {s[n] : n \in DOMAIN s}
Distinct(s) == \A i, j \in DOMAIN s : s[i].tag = s[j].tag => i = j

\* Setting all of some fields with distinct tags lays them over those of the map.
LEMMA FilledOver ==
    ASSUME NEW mode \in Modes, mode # "trailer", NEW map, IsMapOf(mode, map, Nat),
           NEW fields \in Seq(FieldType), Distinct(fields)
    PROVE  FieldSet(Filled(mode, map, fields, Nat)) = Over(FieldsAmong(fields), FieldSet(map))
<1> DEFINE N == Len(fields)
           set == FilledTo(mode, map, fields, Nat)
           Upto(n) == {fields[i] : i \in 1 .. n}
           ok == [n \in 0 .. N |->
                    IF IsMapOf(mode, set[n], Nat)
                       /\ FieldSet(set[n]) = Over(Upto(n), FieldSet(map)) THEN 1 ELSE 0]
<1>1. /\ N \in Nat /\ DOMAIN fields = 1 .. N
      /\ \A n \in 1 .. N : fields[n] \in FieldType /\ fields[n].tag \in Nat
  <2>1. \A n \in 1 .. N : fields[n] \in FieldType
    BY ElementOfSeq, LenProperties
  <2> QED
    BY <2>1, LenProperties DEF FieldType
<1>2. /\ Filled(mode, map, fields, Nat) = set[N]
      /\ \A n \in 0 .. N :
            set[n] = IF n = 0 THEN map
                     ELSE IF fields[n].tag \in Nat THEN SetField(mode, set[n - 1], fields[n])
                     ELSE set[n - 1]
  BY FilledLoop
<1> HIDE DEF N, set
<1>3. ASSUME NEW n \in 1 .. N, IsMapOf(mode, set[n - 1], Nat),
             FieldSet(set[n - 1]) = Over(Upto(n - 1), FieldSet(map))
      PROVE  IsMapOf(mode, set[n], Nat) /\ FieldSet(set[n]) = Over(Upto(n), FieldSet(map))
  <2>1. set[n] = SetField(mode, set[n - 1], fields[n])
    BY <1>1, <1>2
  <2>2. IsMapOf(mode, set[n], Nat)
    BY <1>1, <1>3, <2>1, PutFieldGood DEF SetField
  <2>3. FieldSet(set[n]) = Over(Just(fields[n]), Over(Upto(n - 1), FieldSet(map)))
    <3>1. fields[n] \in FieldType
      BY <1>1
    <3>2. FieldSet(SetField(mode, set[n - 1], fields[n])) = Over(Just(fields[n]), FieldSet(set[n - 1]))
      BY <1>3, <3>1, SetFieldOver, Zenon
    <3> QED
      BY <1>3, <2>1, <3>2, Zenon
  <2>4. Over(Just(fields[n]), Upto(n - 1)) = Upto(n)
    <3>1. \A i \in 1 .. n - 1 : i \in DOMAIN fields /\ fields[i].tag # fields[n].tag
      BY <1>1 DEF Distinct
    <3>2. \A i \in 1 .. n : i = n \/ i \in 1 .. n - 1
      BY <1>1
    <3>3. n \in 1 .. n /\ \A i \in 1 .. n - 1 : i \in 1 .. n
      BY <1>1
    <3>4. TagSet(Just(fields[n])) = {fields[n].tag}
      BY DEF TagSet, Just
    <3>5. Over(Just(fields[n]), Upto(n - 1)) = {fields[n]} \cup Upto(n - 1)
      BY <3>1, <3>4 DEF Over, Just
    <3> QED
      BY <3>2, <3>3, <3>5
  <2> QED
    <3> DEFINE U == Just(fields[n])
               V == Upto(n - 1)
               L == FieldSet(map)
    <3>1. FieldSet(set[n]) = Over(U, Over(V, L)) /\ Over(U, V) = Upto(n)
      BY <2>3, <2>4
    <3> HIDE DEF U, V, L
    <3>2. Over(U, Over(V, L)) = Over(Over(U, V), L)
      BY OverTwice
    <3> QED
      BY <2>2, <3>1, <3>2 DEF L
<1>4. ASSUME NEW n \in 0 .. N, \A m \in 0 .. n - 1 : ok[m] \in {1}
      PROVE  ok[n] \in {1}
  <2>1. CASE n = 0
    <3>1. Upto(0) = {} /\ set[0] = map
      BY <1>1, <1>2
    <3> HIDE DEF Upto
    <3>2. Over(Upto(0), FieldSet(map)) = FieldSet(map)
      BY <3>1 DEF Over, TagSet
    <3> QED
      BY <2>1, <3>1, <3>2
  <2>2. CASE n # 0
    <3>1. n \in 1 .. N /\ n - 1 \in 0 .. n - 1 /\ n - 1 \in 0 .. N
      BY <1>1, <2>2
    <3>2. ok[n - 1] = 1
      BY <1>4, <3>1
    <3> HIDE DEF Upto
    <3> QED
      BY <1>3, <3>1, <3>2
  <2> QED
    BY <2>1, <2>2
<1>5. ok[N] = 1
  <2> HIDE DEF ok
  <2>1. \A n \in 0 .. N : ok[n] \in {1}
    BY <1>1, <1>4, LoopStays
  <2> QED
    BY <1>1, <2>1
<1>6. FieldSet(set[N]) = Over(Upto(N), FieldSet(map))
  <2> HIDE DEF Upto
  <2> QED
    BY <1>1, <1>5
<1> QED
  BY <1>1, <1>2, <1>6 DEF FieldsAmong

\* Whatever is set, nothing else comes in.
LEMMA FilledAmong ==
    ASSUME NEW mode \in Modes, mode # "trailer", NEW fields \in Seq(FieldType), NEW tags
    PROVE  FieldSet(Filled(mode, <<>>, fields, tags)) \subseteq FieldsAmong(fields)
<1> DEFINE N == Len(fields)
           set == FilledTo(mode, <<>>, fields, tags)
           V == {m \in Seq(Nodes) : /\ IsMapOf(mode, m, Nat)
                                    /\ FieldSet(m) \subseteq FieldsAmong(fields)}
<1>1. /\ N \in Nat /\ DOMAIN fields = 1 .. N
      /\ \A n \in 1 .. N : fields[n] \in FieldType /\ fields[n].tag \in Nat
  <2>1. \A n \in 1 .. N : fields[n] \in FieldType
    BY ElementOfSeq, LenProperties
  <2> QED
    BY <2>1, LenProperties DEF FieldType
<1>2. /\ Filled(mode, <<>>, fields, tags) = set[N]
      /\ \A n \in 0 .. N :
            set[n] = IF n = 0 THEN <<>>
                     ELSE IF fields[n].tag \in tags THEN SetField(mode, set[n - 1], fields[n])
                     ELSE set[n - 1]
  BY EmptyMap, FilledLoop
<1> HIDE DEF N, set
<1>3. <<>> \in V
  BY EmptyMap DEF FieldSet
<1>4. ASSUME NEW n \in 1 .. N, NEW m \in V PROVE SetField(mode, m, fields[n]) \in V
  <2>1. IsMapOf(mode, SetField(mode, m, fields[n]), Nat)
    BY <1>1, PutFieldGood DEF SetField
  <2>2. FieldSet(SetField(mode, m, fields[n])) = Over(Just(fields[n]), FieldSet(m))
    BY <1>1, SetFieldOver
  <2>3. fields[n] \in FieldsAmong(fields)
    BY <1>1 DEF FieldsAmong
  <2> QED
    BY <2>1, <2>2, <2>3 DEF IsMapOf, IsMap, Over, Just
<1> HIDE DEF V
<1>5. ASSUME NEW n \in 0 .. N, \A m \in 0 .. n - 1 : set[m] \in V
      PROVE  set[n] \in V
  <2>1. CASE n = 0
    BY <1>2, <1>3, <2>1
  <2>2. CASE n # 0
    <3>1. n \in 1 .. N /\ n - 1 \in 0 .. n - 1
      BY <1>1, <2>2
    <3> QED
      BY <1>2, <1>4, <1>5, <2>2, <3>1
  <2> QED
    BY <2>1, <2>2
<1>6. \A n \in 0 .. N : set[n] \in V
  BY <1>1, <1>5, LoopStays
<1> QED
  BY <1>1, <1>2, <1>6 DEF V

-----------------------------------------------------------------------------
\* No two settings of a header, or of a message, have the same tag.
SettingsDistinct ==
    /\ Distinct(HeaderSettings)
    /\ \A type \in DOMAIN MessageSettings : Distinct(Numeric(MessageSettings[type]))

\* The application and the settings give the header, the body and the trailer what
\* setString takes for fields of a header, a body and a trailer, and the trailer its
\* checksum alone.
KnownPlaces ==
    HeaderUsed \subseteq HeaderFields /\ BodyUsed \subseteq BodyFields /\ TrailerUsed \subseteq {10}

KnownMaps == MapsInv(HeaderFields, BodyFields, {10})

LEMMA KnownTags ==
    ASSUME KnownPlaces
    PROVE  TagsIn(HeaderFields, BodyFields, {10})
<1>1. HeaderFields \in SUBSET Nat /\ BodyFields \in SUBSET Nat /\ {10} \in SUBSET Nat
  BY DEF HeaderFields, BodyFields
<1>2. \A tag \in HeaderFields \cup BodyFields \cup {10} : tag \in TrailerFields => tag \in {10}
  BY DEF HeaderFields, BodyFields, TrailerFields
<1> QED
  BY <1>1, <1>2 DEF TagsIn, KnownPlaces

\* Header and body have no tag in common, and what they hold is the content.
KnownPair(h, b) == IsMapOf("header", h, HeaderFields) /\ IsMapOf("normal", b, BodyFields)
Given(h, b) == Visible(FieldSet(h)) \cup Visible(FieldSet(b))

LEMMA AnyTags ==
    ASSUME NEW mode, NEW T, T \in SUBSET Nat, NEW map, IsMapOf(mode, map, T)
    PROVE  IsMapOf(mode, map, Nat)
<1>1. 0 \in Nat /\ 0 \notin {10}
  OBVIOUS
<1>2. OwnKeys(mode, Nat) => OwnKeys(mode, T)
  BY <1>1, Zenon DEF OwnKeys
<1> QED
  BY <1>2 DEF IsMapOf

LEMMA PairFields ==
    ASSUME NEW h, NEW b, KnownPair(h, b)
    PROVE  /\ IsMapOf("header", h, Nat) /\ IsMapOf("normal", b, Nat)
           /\ \A f \in FieldSet(h) : f \in FieldType /\ f.tag \in HeaderFields
           /\ \A f \in FieldSet(b) : f \in FieldType /\ f.tag \in BodyFields
           /\ \A f, g \in FieldSet(h) : f.tag = g.tag => f = g
<1>1. /\ IsMapOf("header", h, HeaderFields) /\ IsMapOf("normal", b, BodyFields)
      /\ HeaderFields \in SUBSET Nat /\ BodyFields \in SUBSET Nat
      /\ "header" \in Modes /\ "normal" \in Modes
  BY DEF KnownPair, HeaderFields, BodyFields, Modes
<1>2. IsMapOf("header", h, Nat) /\ IsMapOf("normal", b, Nat)
  BY <1>1, AnyTags
<1>3. /\ \A i \in DOMAIN h : h[i].field \in FieldType /\ h[i].field.tag \in HeaderFields
      /\ \A i, j \in DOMAIN h : h[i].field.tag = h[j].field.tag => i = j
  BY <1>1, MapNodes
<1>4. \A i \in DOMAIN b : b[i].field \in FieldType /\ b[i].field.tag \in BodyFields
  BY <1>1, MapNodes
<1> QED
  BY <1>2, <1>3, <1>4 DEF FieldSet

LEMMA ContentOfMaps ==
    ASSUME NEW h, NEW b, NEW t, KnownPair(h, b), IsMapOf("trailer", t, {10})
    PROVE  Content((FieldsOf(h) \o FieldsOf(b)) \o FieldsOf(t)) = Given(h, b)
<1> DEFINE U == Nat
           x == FieldsOf(h)
           y == FieldsOf(b)
           z == FieldsOf(t)
           r == (x \o y) \o z
<1>1. /\ HeaderFields \in SUBSET U /\ BodyFields \in SUBSET U /\ {10} \in SUBSET U
      /\ IsMapOf("header", h, HeaderFields) /\ IsMapOf("normal", b, BodyFields)
  BY DEF HeaderFields, BodyFields, KnownPair
<1> HIDE DEF U
<1>2. /\ Len(h) \in Nat /\ DOMAIN h = 1 .. Len(h) /\ x \in Seq(FieldsIn(U)) /\ Len(x) = Len(h)
      /\ \A i \in 1 .. Len(h) : x[i] = h[i].field
  <2>1. IsMapOf("header", h, HeaderFields) /\ HeaderFields \in SUBSET U
    BY <1>1
  <2>2. Len(h) \in Nat /\ DOMAIN h = 1 .. Len(h)
    BY <2>1, FieldsOfSeq
  <2>3. FieldsOf(h) \in Seq(FieldsIn(U))
    BY <2>1, FieldsOfSeq
  <2>4. Len(FieldsOf(h)) = Len(h)
    BY <2>1, FieldsOfSeq
  <2>5. \A i \in 1 .. Len(h) : FieldsOf(h)[i] = h[i].field
    BY <2>2 DEF FieldsOf
  <2> QED
    BY <2>2, <2>3, <2>4, <2>5
<1>3. /\ Len(b) \in Nat /\ DOMAIN b = 1 .. Len(b) /\ y \in Seq(FieldsIn(U)) /\ Len(y) = Len(b)
      /\ \A i \in 1 .. Len(b) : y[i] = b[i].field
  <2>1. IsMapOf("normal", b, BodyFields) /\ BodyFields \in SUBSET U
    BY <1>1
  <2>2. Len(b) \in Nat /\ DOMAIN b = 1 .. Len(b)
    BY <2>1, FieldsOfSeq
  <2>3. FieldsOf(b) \in Seq(FieldsIn(U))
    BY <2>1, FieldsOfSeq
  <2>4. Len(FieldsOf(b)) = Len(b)
    BY <2>1, FieldsOfSeq
  <2>5. \A i \in 1 .. Len(b) : FieldsOf(b)[i] = b[i].field
    BY <2>2 DEF FieldsOf
  <2> QED
    BY <2>2, <2>3, <2>4, <2>5
<1>4. /\ Len(t) \in Nat /\ DOMAIN t = 1 .. Len(t) /\ z \in Seq(FieldsIn(U)) /\ Len(z) = Len(t)
      /\ \A i \in 1 .. Len(t) : z[i] = t[i].field
  BY <1>1, FieldsOfSeq
<1> HIDE DEF x, y, z
<1>5. /\ Len(r) = Len(x) + Len(y) + Len(z)
      /\ DOMAIN r = 1 .. Len(r)
      /\ \A i \in 1 .. Len(x) + Len(y) + Len(z) :
            r[i] = IF i <= Len(x) THEN x[i]
                   ELSE IF i <= Len(x) + Len(y) THEN y[i - Len(x)]
                   ELSE z[i - (Len(x) + Len(y))]
  <2>1. x \in Seq(FieldsIn(U)) /\ y \in Seq(FieldsIn(U)) /\ z \in Seq(FieldsIn(U))
    BY <1>2, <1>3, <1>4
  <2> QED
    BY <2>1, ThreeParts
<1> HIDE DEF r
<1>6. ASSUME NEW i \in DOMAIN r, r[i].tag # 10
      PROVE  r[i] \in FieldSet(h) \cup FieldSet(b)
  <2>1. CASE i <= Len(h)
    <3>1. i \in 1 .. Len(h) /\ r[i] = x[i]
      BY <1>2, <1>3, <1>4, <1>5, <2>1
    <3> QED
      BY <1>2, <3>1 DEF FieldSet
  <2>2. CASE i > Len(h) /\ i <= Len(h) + Len(b)
    <3> DEFINE k == i - Len(h)
    <3>1. k \in 1 .. Len(b) /\ r[i] = y[k]
      BY <1>2, <1>3, <1>4, <1>5, <2>2
    <3> HIDE DEF k
    <3> QED
      BY <1>3, <3>1 DEF FieldSet
  <2>3. CASE i > Len(h) + Len(b)
    <3> DEFINE k == i - (Len(h) + Len(b))
    <3>1. k \in 1 .. Len(t) /\ r[i] = z[k]
      BY <1>2, <1>3, <1>4, <1>5, <2>3
    <3> HIDE DEF k
    <3>2. t[k].field.tag \in {10}
      BY <1>4, <3>1 DEF IsMapOf
    <3> QED
      BY <1>4, <1>6, <3>1, <3>2
  <2> QED
    BY <1>2, <1>3, <1>5, <2>1, <2>2, <2>3
<1>7. ASSUME NEW i \in DOMAIN h PROVE \E k \in DOMAIN r : r[k] = h[i].field
  <2>1. i \in DOMAIN r /\ r[i] = x[i]
    BY <1>2, <1>3, <1>4, <1>5
  <2> QED
    BY <1>2, <2>1
<1>8. ASSUME NEW i \in DOMAIN b PROVE \E k \in DOMAIN r : r[k] = b[i].field
  <2> DEFINE k == Len(h) + i
  <2>1. k \in DOMAIN r /\ ~(k <= Len(x)) /\ k <= Len(x) + Len(y) /\ k - Len(x) = i
    BY <1>2, <1>3, <1>4, <1>5
  <2> HIDE DEF k
  <2>2. r[k] = y[i]
    BY <1>5, <2>1
  <2> QED
    BY <1>3, <2>1, <2>2
<1>9. \A f \in Content(r) : f \in Given(h, b)
  BY <1>6 DEF Content, Given, Visible
<1>10. \A f \in Given(h, b) : f \in Content(r)
  BY <1>7, <1>8 DEF Content, Given, Visible, FieldSet
<1> QED
  BY <1>9, <1>10 DEF r, x, y, z, Content, Given

\* The settings and the logon, laid over a header and a body.
LEMMA ContentAmong ==
    ASSUME NEW s
    PROVE  Content(s) = Visible(FieldsAmong(s))
  BY DEF Content, Visible, FieldsAmong

LEMMA HeaderSetOver ==
    ASSUME ConversionAssumption, SettingsDistinct, KnownPlaces, KnownPair(header, body)
    PROVE  /\ Visible(FieldSet(HeaderSet)) = Over(Content(HeaderSettings), Visible(FieldSet(header)))
           /\ TagSet(Content(HeaderSettings)) \subseteq HeaderFields
<1>1. HeaderSettings \in Seq(FieldType)
  BY DEF ConversionAssumption, FieldType
<1>2. FieldSet(HeaderSet) = Over(FieldsAmong(HeaderSettings), FieldSet(header))
  BY <1>1, PairFields, FilledOver DEF HeaderSet, Modes, SettingsDistinct
<1>3. Visible(FieldSet(HeaderSet)) = Over(Visible(FieldsAmong(HeaderSettings)), Visible(FieldSet(header)))
  BY <1>2, VisibleOver
<1>4. \A n \in DOMAIN HeaderSettings : HeaderSettings[n].tag \in HeaderFields
  BY DEF KnownPlaces, HeaderUsed
<1> QED
  BY <1>3, <1>4, ContentAmong DEF TagSet, Content

\* The type that is looked up is the one that MessageContent says.
LEMMA TypeFound ==
    ASSUME ConversionAssumption, SettingsDistinct, KnownPlaces,
           KnownPair(header, body), KnownPair(HeaderSet, body)
    PROVE  /\ Promise!Named(Given(header, body)) = Given(HeaderSet, body)
           /\ IsTyped <=> Promise!HasType(Given(header, body))
           /\ IsTyped => MsgType = Promise!TypeOf(Given(header, body))
<1> DEFINE S == FieldSet(HeaderSet)
           N == Given(HeaderSet, body)
           C == Given(header, body)
           D == Content(HeaderSettings)
           n == Find("header", HeaderSet, 35)
<1>1. Promise!Named(C) = N
  <2>1. /\ Visible(S) = Over(D, Visible(FieldSet(header)))
        /\ TagSet(D) \subseteq HeaderFields
    BY HeaderSetOver
  <2>2. Apart(D, Visible(FieldSet(body)))
    <3>1. \A f \in D : f.tag \in HeaderFields
      BY <2>1 DEF TagSet
    <3>2. \A f \in Visible(FieldSet(body)) : f.tag \in BodyFields
      BY PairFields DEF Visible
    <3> QED
      BY <3>1, <3>2 DEF Apart, BodyFields
  <2> DEFINE V == Visible(FieldSet(header))
             Y == Visible(FieldSet(body))
  <2>3. N = Over(D, V) \cup Y /\ C = V \cup Y
    BY <2>1 DEF Given
  <2>4. Promise!Named(C) = Over(D, C)
    BY SameOver DEF Promise!Named
  <2> HIDE DEF V, Y, D, C, N
  <2>5. Apart(D, Y)
    BY <2>2 DEF Y
  <2>6. Over(D, V) \cup Y = Over(D, V \cup Y)
    BY <2>5, OverBeside
  <2> QED
    BY <2>3, <2>4, <2>6
<1>2. /\ \A f \in S : f.tag \in HeaderFields
      /\ \A f, g \in S : f.tag = g.tag => f = g
      /\ \A f \in FieldSet(body) : f.tag \in BodyFields
  BY PairFields
<1>3. \A f \in N : f.tag = 35 => f \in S
  BY <1>2 DEF Given, Visible, BodyFields, HeaderFields
<1>4. \A f \in S : f.tag = 35 => f \in N
  BY DEF Given, Visible
<1>5. /\ IsTyped <=> n \in DOMAIN HeaderSet
      /\ n \in DOMAIN HeaderSet => HeaderSet[n].field.tag = 35
      /\ \A i \in DOMAIN HeaderSet : HeaderSet[i].field.tag = 35 => i = n
  <2>1. IsMapOf("header", HeaderSet, HeaderFields) /\ "header" \in Modes /\ 35 \in Nat
    BY DEF KnownPair, Modes
  <2> HIDE DEF n
  <2>2. IsSetField("header", HeaderSet, 35) <=> Find("header", HeaderSet, 35) \in DOMAIN HeaderSet
    BY <2>1, FindSet
  <2>3. Find("header", HeaderSet, 35) \in DOMAIN HeaderSet =>
           HeaderSet[Find("header", HeaderSet, 35)].field.tag = 35
    BY <2>1, FindSet
  <2>4. \A i \in DOMAIN HeaderSet :
           HeaderSet[i].field.tag = 35 => i = Find("header", HeaderSet, 35)
    BY <2>1, FindSet
  <2> QED
    BY <2>2, <2>3, <2>4 DEF IsTyped, n
<1>6. MsgType = HeaderSet[n].field.value
  BY DEF MsgType, GetFieldValue
<1> HIDE DEF n, N, C
<1>7. IsTyped <=> \E f \in S : f.tag = 35
  BY <1>5 DEF FieldSet
<1>8. IsTyped <=> Promise!HasType(C)
  BY <1>1, <1>3, <1>4, <1>7, SameOver DEF Promise!HasType, TagSet
<1>9. ASSUME IsTyped PROVE MsgType = Promise!TypeOf(C)
  <2>1. HeaderSet[n].field \in S /\ HeaderSet[n].field.tag = 35
    BY <1>5, <1>9 DEF FieldSet
  <2>2. \A f \in N : f.tag = 35 <=> f = HeaderSet[n].field
    BY <1>2, <1>3, <2>1
  <2>3. HeaderSet[n].field \in N
    BY <1>4, <2>1
  <2>4. (CHOOSE f \in N : f.tag = 35) = HeaderSet[n].field
    BY <2>2, <2>3
  <2> QED
    BY <1>1, <1>6, <2>4 DEF Promise!TypeOf
<1> QED
  BY <1>1, <1>8, <1>9 DEF C, N

\* What the settings and the logon put into a body.
LEMMA BodySetOver ==
    ASSUME ConversionAssumption, SettingsDistinct, KnownPair(header, body),
           IsMapOf("normal", BodySet, BodyFields)
    PROVE  /\ Visible(FieldSet(BodySet)) =
                 Over(Promise!MessageFields(MsgType), Visible(FieldSet(body)))
           /\ Visible(FieldSet(WithLogon(BodySet))) =
                 Over(Promise!LogonFields(MsgType), Visible(FieldSet(BodySet)))
<1> DEFINE fields == Numeric(Configured)
<1>1. fields \in Seq(FieldType) /\ Distinct(fields)
      /\ Promise!MessageFields(MsgType) = Content(fields)
  <2>1. CASE MsgType \in DOMAIN MessageSettings
    <3>1. /\ Configured = MessageSettings[MsgType]
          /\ Configured \in Seq([tag : Nat \cup {NoNumber}, value : Nat])
      BY <2>1 DEF Configured, ConversionAssumption
    <3>2. fields \in Seq(FieldType)
      BY <3>1, NumericSeq
    <3> QED
      BY <2>1, <3>1, <3>2 DEF SettingsDistinct, Promise!MessageFields
  <2>2. CASE MsgType \notin DOMAIN MessageSettings
    <3>1. Configured = <<>>
      BY <2>2 DEF Configured
    <3>2. Configured \in Seq([tag : Nat \cup {NoNumber}, value : Nat])
      BY <3>1
    <3>3. /\ fields \in Seq(FieldType)
          /\ \A n \in DOMAIN fields : n \in DOMAIN Configured
      BY <3>2, NumericSeq
    <3> HIDE DEF fields
    <3>4. DOMAIN fields = {}
      <4>1. DOMAIN Configured = {}
        BY <3>1
      <4> QED
        BY <3>3, <4>1
    <3> QED
      BY <2>2, <3>3, <3>4 DEF Distinct, Content, Promise!MessageFields
  <2> QED
    BY <2>1, <2>2
<1>2. BodySet = Filled("normal", body, fields, Nat)
  BY DEF BodySet
<1> HIDE DEF fields
<1>3. Visible(FieldSet(BodySet)) = Over(Content(fields), Visible(FieldSet(body)))
  <2>1. FieldSet(BodySet) = Over(FieldsAmong(fields), FieldSet(body))
    BY <1>1, <1>2, PairFields, FilledOver DEF Modes
  <2>2. Visible(FieldSet(BodySet)) = Over(Visible(FieldsAmong(fields)), Visible(FieldSet(body)))
    BY <2>1, VisibleOver
  <2> QED
    BY <2>2, ContentAmong
<1>4. CASE MsgType = LogonType
  <2> DEFINE f == Field(98, EncryptType)
             g == Field(108, HbInterval)
             first == SetField("normal", BodySet, f)
             S == FieldSet(BodySet)
  <2>1. f \in FieldType /\ g \in FieldType /\ f.tag = 98 /\ g.tag = 108
    BY FieldOfNumbers DEF ConversionAssumption
  <2>2. WithLogon(BodySet) = SetField("normal", first, g)
    BY <1>4 DEF WithLogon
  <2>3. Promise!LogonFields(MsgType) = {g, f}
    BY <1>4 DEF Promise!LogonFields
  <2> HIDE DEF f, g
  <2>4. "normal" \in Modes /\ "normal" # "trailer" /\ IsMapOf("normal", BodySet, Nat)
    BY AnyTags DEF Modes, BodyFields
  <2>5. IsMapOf("normal", first, Nat)
    <3>1. f.tag \in Nat
      BY <2>1
    <3> QED
      BY <2>1, <2>4, <3>1, PutFieldGood DEF SetField
  <2>6. FieldSet(first) = Over(Just(f), S)
    BY <2>1, <2>4, SetFieldOver
  <2> HIDE DEF first
  <2>7. FieldSet(SetField("normal", first, g)) = Over(Just(g), FieldSet(first))
    BY <2>1, <2>4, <2>5, SetFieldOver
  <2> HIDE DEF S
  <2>8. Over(Just(g), Over(Just(f), S)) = Over({g, f}, S)
    BY <2>1, OverTwo
  <2>9. FieldSet(WithLogon(BodySet)) = Over({g, f}, S)
    BY <2>2, <2>6, <2>7, <2>8
  <2>10. Visible(Over({g, f}, S)) = Over(Visible({g, f}), Visible(S))
    BY VisibleOver
  <2>11. Visible({g, f}) = {g, f}
    BY <2>1 DEF Visible
  <2> QED
    BY <1>1, <1>3, <2>3, <2>9, <2>10, <2>11 DEF S
<1>5. CASE MsgType # LogonType
  <2>1. WithLogon(BodySet) = BodySet /\ Promise!LogonFields(MsgType) = {}
    BY <1>5 DEF WithLogon, Promise!LogonFields
  <2>2. \A L : Over({}, L) = L
    BY DEF Over, TagSet
  <2> QED
    BY <1>1, <1>3, <2>1, <2>2
<1> QED
  BY <1>4, <1>5

LEMMA StampedOver ==
    ASSUME NEW h, IsMapOf("header", h, Nat), NEW time \in Nat, seqNo \in Nat
    PROVE  Visible(FieldSet(Stamped(h, time))) = Over(Promise!Stamps(time), Visible(FieldSet(h)))
<1> DEFINE f == Field(52, time)
           g == Field(34, seqNo)
           first == SetField("header", h, f)
           S == FieldSet(h)
<1>1. f \in FieldType /\ g \in FieldType /\ f.tag = 52 /\ g.tag = 34
  BY FieldOfNumbers
<1>2. Stamped(h, time) = SetField("header", first, g) /\ Promise!Stamps(time) = {g, f}
  BY DEF Stamped, Promise!Stamps, Field
<1>3. "header" \in Modes /\ "header" # "trailer"
  BY DEF Modes
<1> HIDE DEF f, g
<1>4. IsMapOf("header", first, Nat)
  <2>1. f.tag \in Nat
    BY <1>1
  <2> QED
    BY <1>1, <1>3, <2>1, PutFieldGood DEF SetField
<1>5. FieldSet(first) = Over(Just(f), S)
  BY <1>1, <1>3, SetFieldOver
<1> HIDE DEF first
<1>6. FieldSet(SetField("header", first, g)) = Over(Just(g), FieldSet(first))
  BY <1>1, <1>3, <1>4, SetFieldOver
<1> HIDE DEF S
<1>7. Over(Just(g), Over(Just(f), S)) = Over({g, f}, S)
  BY <1>1, OverTwo
<1>8. Visible(Over({g, f}, S)) = Over(Visible({g, f}), Visible(S))
  BY VisibleOver
<1>9. Visible({g, f}) = {g, f}
  BY <1>1 DEF Visible
<1> QED
  BY <1>2, <1>5, <1>6, <1>7, <1>8, <1>9 DEF S

\* The body length is no part of the content.
LEMMA LengthUnseen ==
    ASSUME NEW h, NEW b, KnownPair(h, b), NEW t, IsMapOf("trailer", t, {10})
    PROVE  Given(WithLength(h, b, t), b) = Given(h, b)
<1> DEFINE n == BodyLength(h, b, t)
           f == Field(9, n)
           S == FieldSet(h)
<1>1. IsMapOf("header", h, HeaderFields) /\ IsMapOf("normal", b, BodyFields) /\ 9 \in HeaderFields
  BY DEF KnownPair, HeaderFields
<1>2. n \in Nat
  BY <1>1, LengthSet
<1>3. f \in FieldType /\ f.tag = 9 /\ "header" \in Modes
  BY <1>2, FieldOfNumbers DEF Modes
<1>4. WithLength(h, b, t) = SetField("header", h, f)
  BY DEF WithLength
<1> HIDE DEF n, f
<1>5. FieldSet(SetField("header", h, f)) = Over(Just(f), S)
  BY <1>1, <1>3, SetFieldOver
<1> HIDE DEF S
<1>6. Visible(Over(Just(f), S)) = Visible(S)
  BY <1>3 DEF Visible, Over, TagSet, Just
<1> QED
  BY <1>4, <1>5, <1>6 DEF Given, S

\* The set of fields that a conversion renders.
LEMMA ConvertedOver ==
    ASSUME ConversionAssumption, SettingsDistinct, KnownPlaces,
           KnownPair(header, body), KnownPair(HeaderSet, body), KnownPair(HeaderSet, BodySet),
           KnownPair(HeaderSet, WithLogon(BodySet)), NEW time \in Nat, seqNo \in Nat, IsTyped
    PROVE  Given(Stamped(HeaderSet, time), WithLogon(BodySet)) =
              Promise!Converted(Given(header, body), time)
<1> DEFINE C == Given(header, body)
           St == Promise!Stamps(time)
           Lo == Promise!LogonFields(MsgType)
           Me == Promise!MessageFields(MsgType)
           HS == Visible(FieldSet(HeaderSet))
           B == Visible(FieldSet(body))
<1>1. Promise!Converted(C, time) = Over(St, Over(Over(Lo, Me), HS \cup B))
  <2>1. Promise!Named(C) = HS \cup B /\ Promise!TypeOf(C) = MsgType
    BY TypeFound DEF Given
  <2>2. Promise!ForType(MsgType) = Over(Lo, Me)
    BY SameOver DEF Promise!ForType
  <2> HIDE DEF C, St, Lo, Me, HS, B
  <2> QED
    BY <2>1, <2>2, SameOver DEF Promise!Converted, St
<1>2. Visible(FieldSet(Stamped(HeaderSet, time))) = Over(St, HS)
  BY PairFields, StampedOver
<1>3. Visible(FieldSet(WithLogon(BodySet))) = Over(Lo, Over(Me, B))
  BY BodySetOver DEF KnownPair
<1>4. Over(Lo, Over(Me, B)) = Over(Over(Lo, Me), B)
  <2> HIDE DEF Lo, Me, B
  <2> QED
    BY OverTwice
<1> DEFINE OL == Over(Lo, Me)
           X == Over(OL, B)
<1>5. \A f \in X : f.tag \in BodyFields
  <2>1. X = Visible(FieldSet(WithLogon(BodySet)))
    BY <1>3, <1>4
  <2>2. \A f \in FieldSet(WithLogon(BodySet)) : f.tag \in BodyFields
    BY PairFields
  <2> HIDE DEF X
  <2> QED
    BY <2>1, <2>2 DEF Visible
<1>6. \A f \in HS : f.tag \in HeaderFields
  <2>1. \A f \in FieldSet(HeaderSet) : f.tag \in HeaderFields
    BY PairFields
  <2> QED
    BY <2>1 DEF Visible
<1>7. \A f \in St : f.tag \in HeaderFields
  BY DEF Promise!Stamps, HeaderFields
<1>8. \A tag : ~(tag \in HeaderFields /\ tag \in BodyFields)
  BY DEF BodyFields
<1> HIDE DEF St, HS, B, Lo, Me
<1>9. Apart(OL, HS)
  <2> HIDE DEF OL
  <2>1. \A f \in OL : f \in X
    BY DEF Over
  <2> HIDE DEF X
  <2> QED
    BY <1>5, <1>6, <1>8, <2>1 DEF Apart
<1>10. Apart(St, X)
  <2> HIDE DEF X
  <2> QED
    BY <1>5, <1>7, <1>8 DEF Apart
<1> HIDE DEF OL
<1>11. X \cup HS = Over(OL, B \cup HS)
  BY <1>9, OverBeside
<1>12. Over(St, HS) \cup X = Over(St, HS \cup X)
  <2> HIDE DEF X
  <2> QED
    BY <1>10, OverBeside
<1>13. Promise!Converted(C, time) = Over(St, HS) \cup X
  <2>1. B \cup HS = HS \cup B /\ X \cup HS = HS \cup X
    OBVIOUS
  <2> HIDE DEF X, C
  <2> QED
    BY <1>1, <1>11, <1>12, <2>1 DEF OL
<1>14. Given(Stamped(HeaderSet, time), WithLogon(BodySet)) = Over(St, HS) \cup X
  <2> HIDE DEF X
  <2> QED
    BY <1>2, <1>3, <1>4 DEF Given, X, OL
<1> QED
  BY <1>13, <1>14

-----------------------------------------------------------------------------
\* The state as MessageContent sees it.
NowContent == Content(FieldsOf(header) \o FieldsOf(body) \o FieldsOf(trailer))
NowRendered == Content(text)

LEMMA ContentNow ==
    ASSUME KnownMaps, KnownMaps'
    PROVE  /\ KnownPair(header, body) /\ KnownPair(header', body')
           /\ NowContent = Given(header, body) /\ NowContent' = Given(header', body')
<1>1. KnownPair(header, body) /\ IsMapOf("trailer", trailer, {10})
  BY DEF KnownMaps, MapsInv, KnownPair
<1>2. KnownPair(header', body') /\ IsMapOf("trailer", trailer', {10})
  BY DEF KnownMaps, MapsInv, KnownPair
<1>3. NowContent = Given(header, body)
  BY <1>1, ContentOfMaps DEF NowContent
<1>4. NowContent' = Given(header', body')
  BY <1>2, ContentOfMaps DEF NowContent
<1> QED
  BY <1>1, <1>2, <1>3, <1>4

LEMMA OverBelow ==
    ASSUME NEW f, NEW L, NEW Y, Apart(Just(f), Y)
    PROVE  Over(L, Just(f)) \cup Y = Over(L \cup Y, Just(f))
<1>1. f.tag \in TagSet(L \cup Y) <=> f.tag \in TagSet(L)
  BY DEF Apart, TagSet, Just
<1> QED
  BY <1>1 DEF Over, Just

\* setField of a field that a header or a body may have, but 9.
Joined(A, B) == A \cup B

Seen(mode, map, Y, f) ==
    /\ mode \in Modes /\ mode # "trailer" /\ IsMapOf(mode, map, Nat)
    /\ f \in FieldType /\ f.tag # 9 /\ f.tag # 10 /\ Apart(Just(f), Y)

SetOver(mode, map, Y, f) ==
    Joined(Visible(FieldSet(PutField(mode, map, f, TRUE))), Y) =
       Over(Just(f), Joined(Visible(FieldSet(map)), Y))
SetUnder(mode, map, Y, f) ==
    Joined(Visible(FieldSet(PutField(mode, map, f, FALSE))), Y) =
       Over(Joined(Visible(FieldSet(map)), Y), Just(f))

LEMMA SetAbove ==
    ASSUME NEW mode, NEW map, NEW Y, NEW f, Seen(mode, map, Y, f)
    PROVE  SetOver(mode, map, Y, f)
<1> DEFINE S == FieldSet(map)
           V == Visible(S)
<1>1. FieldSet(PutField(mode, map, f, TRUE)) = Over(Just(f), S)
  BY PutFieldSet DEF Seen
<1>2. Visible(Just(f)) = Just(f)
  BY DEF Visible, Just, Seen
<1> HIDE DEF S
<1>3. Visible(Over(Just(f), S)) = Over(Visible(Just(f)), V)
  BY VisibleOver
<1> HIDE DEF V
<1>4. Over(Just(f), V) \cup Y = Over(Just(f), V \cup Y)
  BY OverBeside DEF Seen
<1> QED
  BY <1>1, <1>2, <1>3, <1>4 DEF S, V, Joined, SetOver

LEMMA SetBelow ==
    ASSUME NEW mode, NEW map, NEW Y, NEW f, Seen(mode, map, Y, f)
    PROVE  SetUnder(mode, map, Y, f)
<1> DEFINE S == FieldSet(map)
           V == Visible(S)
<1>1. FieldSet(PutField(mode, map, f, FALSE)) = Over(S, Just(f))
  BY PutFieldSet DEF Seen
<1>2. Visible(Just(f)) = Just(f)
  BY DEF Visible, Just, Seen
<1> HIDE DEF S
<1>3. Visible(Over(S, Just(f))) = Over(V, Visible(Just(f)))
  BY VisibleOver
<1> HIDE DEF V
<1>4. Over(V, Just(f)) \cup Y = Over(V \cup Y, Just(f))
  BY OverBelow DEF Seen
<1> QED
  BY <1>1, <1>2, <1>3, <1>4 DEF S, V, Joined, SetUnder

\* A length set by the application is not seen.
LEMMA SetLength ==
    ASSUME NEW map, IsMapOf("header", map, Nat), NEW f \in FieldType, f.tag = 9,
           NEW overwrite \in BOOLEAN
    PROVE  Visible(FieldSet(PutField("header", map, f, overwrite))) = Visible(FieldSet(map))
<1> DEFINE S == FieldSet(map)
<1>1. /\ FieldSet(PutField("header", map, f, TRUE)) = Over(Just(f), S)
      /\ FieldSet(PutField("header", map, f, FALSE)) = Over(S, Just(f))
  BY PutFieldSet DEF Modes
<1> HIDE DEF S
<1>2. Visible(Over(Just(f), S)) = Visible(S)
  BY DEF Visible, Over, TagSet, Just
<1>3. Visible(Over(S, Just(f))) = Visible(S)
  BY DEF Visible, Over, Just
<1>4. overwrite = TRUE \/ overwrite = FALSE
  OBVIOUS
<1> QED
  BY <1>1, <1>2, <1>3, <1>4 DEF S

-----------------------------------------------------------------------------
\* Every step is one of MessageContent, or none.
MayBeSet == [tag : AllTags, value : Values] \cup [tag : {35}, value : Types]
Unseen == UNCHANGED <<NowContent, NowRendered, seqNo>>

LEMMA SetPromised ==
    ASSUME KnownMaps, KnownMaps', MessageAssumption, KnownPlaces,
           NEW tag \in AllTags, NEW value \in Values, NEW overwrite \in BOOLEAN,
           Set(Field(tag, value), overwrite), seqNo' = seqNo
    PROVE  \/ Unseen
           \/ Promise!Set(Field(tag, value)) \/ Promise!SetUnlessThere(Field(tag, value))
<1> DEFINE f == Field(tag, value)
<1>1. f \in FieldType /\ f.tag = tag /\ tag \in Nat
  BY FieldOfNumbers DEF AllTags, MessageAssumption
<1> HIDE DEF f
<1>2. Set(f, overwrite)
  BY DEF f
<1>3. NowRendered' = NowRendered
  BY <1>2 DEF Set, NowRendered
<1>4. /\ KnownPair(header, body) /\ KnownPair(header', body')
      /\ NowContent = Given(header, body) /\ NowContent' = Given(header', body')
  BY ContentNow
<1>5. /\ IsMapOf("header", header, Nat) /\ IsMapOf("normal", body, Nat)
      /\ \A g \in FieldSet(header) : g.tag \in HeaderFields
      /\ \A g \in FieldSet(body) : g.tag \in BodyFields
  BY <1>4, PairFields
<1>6. /\ HeaderTags \subseteq HeaderFields /\ BodyTags \subseteq BodyFields
      /\ \A t \in HeaderFields : t \notin BodyFields /\ t # 10
      /\ \A t \in BodyFields : t \notin {9, 10}
  BY DEF KnownPlaces, HeaderUsed, BodyUsed, HeaderFields, BodyFields, TrailerFields
<1>7. ASSUME NowContent' = Over(Just(f), NowContent)
      PROVE  Promise!Set(f)
  BY <1>3, <1>7, SameOver DEF Just, Promise!Set, NowContent, NowRendered
<1>8. ASSUME NowContent' = Over(NowContent, Just(f))
      PROVE  Promise!SetUnlessThere(f)
  BY <1>3, <1>8, SameOver DEF Just, Promise!SetUnlessThere, NowContent, NowRendered
<1>9. ASSUME NowContent' = NowContent
      PROVE  Unseen
  BY <1>3, <1>9 DEF Unseen
<1>10. overwrite = TRUE \/ overwrite = FALSE
  OBVIOUS
<1>11. CASE f.tag \in HeaderTags /\ header' = PutField("header", header, f, overwrite)
            /\ UNCHANGED <<body, trailer>>
  <2>1. CASE f.tag = 9
    <3>1. Visible(FieldSet(header')) = Visible(FieldSet(header))
      BY <1>1, <1>5, <1>11, <2>1, SetLength
    <3>2. NowContent' = NowContent
      BY <1>4, <1>11, <3>1 DEF Given
    <3> QED
      BY <1>9, <3>2
  <2>2. CASE f.tag # 9
    <3> DEFINE Y == Visible(FieldSet(body))
    <3>1. f.tag # 9 /\ f.tag # 10 /\ f.tag \notin BodyFields
      BY <1>6, <1>11, <2>2
    <3>2. Apart(Just(f), Y)
      BY <1>5, <3>1 DEF Apart, Visible, Just
    <3> HIDE DEF Y
    <3>3. SetOver("header", header, Y, f) /\ SetUnder("header", header, Y, f)
      <4>1. Seen("header", header, Y, f)
        BY <1>1, <1>5, <3>1, <3>2 DEF Seen, Modes
      <4> QED
        BY <4>1, SetAbove, SetBelow
    <3>4. /\ NowContent = Joined(Visible(FieldSet(header)), Y)
          /\ NowContent' = Joined(Visible(FieldSet(PutField("header", header, f, overwrite))), Y)
      BY <1>4, <1>11 DEF Given, Joined, Y
    <3> QED
      BY <1>7, <1>8, <1>10, <3>3, <3>4 DEF f, SetOver, SetUnder
  <2> QED
    BY <2>1, <2>2
<1>12. CASE f.tag \in BodyTags /\ body' = PutField("normal", body, f, overwrite)
            /\ UNCHANGED <<header, trailer>>
  <2> DEFINE Y == Visible(FieldSet(header))
  <2>1. f.tag # 9 /\ f.tag # 10 /\ f.tag \notin HeaderFields
    BY <1>6, <1>12
  <2>2. Apart(Just(f), Y)
    BY <1>5, <2>1 DEF Apart, Visible, Just
  <2> HIDE DEF Y
  <2>3. SetOver("normal", body, Y, f) /\ SetUnder("normal", body, Y, f)
    <3>1. Seen("normal", body, Y, f)
      BY <1>1, <1>5, <2>1, <2>2 DEF Seen, Modes
    <3> QED
      BY <3>1, SetAbove, SetBelow
  <2>4. /\ NowContent = Joined(Visible(FieldSet(body)), Y)
        /\ NowContent' = Joined(Visible(FieldSet(PutField("normal", body, f, overwrite))), Y)
    BY <1>4, <1>12 DEF Given, Joined, Y
  <2> QED
    BY <1>7, <1>8, <1>10, <2>3, <2>4 DEF f, SetOver, SetUnder
<1>13. CASE UNCHANGED <<header, body>>
  <2>1. NowContent' = NowContent
    BY <1>4, <1>13
  <2> QED
    BY <1>9, <2>1
<1> QED
  BY <1>2, <1>11, <1>12, <1>13 DEF Set

LEMMA ErasePromised ==
    ASSUME KnownMaps, KnownMaps', MessageAssumption, KnownPlaces,
           NEW f, f.tag \in AllTags, Erase(f.tag), seqNo' = seqNo
    PROVE  Promise!Remove(f.tag)
<1> DEFINE tag == f.tag
<1>1. tag \in Nat
  BY DEF AllTags, MessageAssumption
<1>2. NowRendered' = NowRendered
  BY DEF Erase, NowRendered
<1>3. /\ KnownPair(header, body) /\ KnownPair(header', body')
      /\ NowContent = Given(header, body) /\ NowContent' = Given(header', body')
  BY ContentNow
<1>4. /\ IsMapOf("header", header, Nat) /\ IsMapOf("normal", body, Nat)
      /\ \A g \in FieldSet(header) : g.tag \in HeaderFields
      /\ \A g \in FieldSet(body) : g.tag \in BodyFields
  BY <1>3, PairFields
<1>5. /\ HeaderTags \subseteq HeaderFields /\ BodyTags \subseteq BodyFields
      /\ TrailerTags \subseteq {10}
      /\ \A t \in HeaderFields : t \notin BodyFields
  BY DEF KnownPlaces, HeaderUsed, BodyUsed, TrailerUsed, BodyFields
<1>6. /\ FieldSet(RemoveField("header", header, tag)) = Dropped(FieldSet(header), tag)
      /\ FieldSet(RemoveField("normal", body, tag)) = Dropped(FieldSet(body), tag)
  BY <1>1, <1>4, RemoveFieldSet DEF Modes
<1>7. NowContent' = Dropped(NowContent, tag)
  <2>1. CASE tag \in HeaderTags /\ header' = RemoveField("header", header, tag) /\ body' = body
    <3>1. FieldSet(header') = Dropped(FieldSet(header), tag)
      BY <1>6, <2>1
    <3>2. Dropped(FieldSet(body), tag) = FieldSet(body)
      BY <1>4, <1>5, <2>1 DEF Dropped
    <3> QED
      BY <1>3, <2>1, <3>1, <3>2 DEF Given, Visible, Dropped
  <2>2. CASE tag \in BodyTags /\ body' = RemoveField("normal", body, tag) /\ header' = header
    <3>1. FieldSet(body') = Dropped(FieldSet(body), tag)
      BY <1>6, <2>2
    <3>2. Dropped(FieldSet(header), tag) = FieldSet(header)
      BY <1>4, <1>5, <2>2 DEF Dropped
    <3> QED
      BY <1>3, <2>2, <3>1, <3>2 DEF Given, Visible, Dropped
  <2>3. CASE tag \in TrailerTags /\ header' = header /\ body' = body
    <3>1. tag = 10
      BY <1>5, <2>3
    <3> QED
      BY <1>3, <2>3, <3>1 DEF Given, Visible, Dropped
  <2> QED
    BY <2>1, <2>2, <2>3 DEF Erase
<1> QED
  BY <1>2, <1>7 DEF Promise!Remove, Dropped, NowContent, NowRendered

\* A rendering of h and b has the content of both, and so has the message then.
LEMMA RenderedGiven ==
    ASSUME KnownMaps, KnownMaps', NEW h, NEW b, KnownPair(h, b), RenderOf(h, b)
    PROVE  NowContent' = Given(h, b) /\ NowRendered' = Given(h, b)
<1>1. /\ header' = WithLength(h, b, trailer) /\ body' = b
      /\ trailer' = WithChecksum(h, b, trailer)
      /\ text' = Rendering(h, b, trailer)
  BY DEF RenderOf
<1>2. IsMapOf("trailer", trailer, {10})
  BY DEF KnownMaps, MapsInv
<1>3. NowContent' = Given(header', body')
  BY ContentNow
<1>4. Given(header', body') = Given(h, b)
  BY <1>1, <1>2, LengthUnseen
<1>5. text' = FieldsOf(header') \o FieldsOf(body') \o FieldsOf(trailer')
  BY <1>1 DEF Rendering
<1>6. NowRendered' = NowContent'
  BY <1>5 DEF NowRendered, NowContent
<1> QED
  BY <1>3, <1>4, <1>6

LEMMA RenderPromised ==
    ASSUME KnownMaps, KnownMaps', Render, seqNo' = seqNo
    PROVE  Promise!Render
<1>1. KnownPair(header, body) /\ NowContent = Given(header, body)
  BY ContentNow
<1>2. RenderOf(header, body)
  BY DEF Render
<1>3. NowContent' = NowContent /\ NowRendered' = NowContent
  BY <1>1, <1>2, RenderedGiven
<1> QED
  BY <1>3 DEF Promise!Render, NowContent, NowRendered

\* What a conversion sets, in its pairs of maps.
LEMMA SettingsPairs ==
    ASSUME KnownMaps, ConversionAssumption, KnownPlaces
    PROVE  /\ KnownPair(header, body) /\ KnownPair(HeaderSet, body)
           /\ KnownPair(HeaderSet, BodySet) /\ KnownPair(HeaderSet, WithLogon(BodySet))
           /\ \A time \in Nat : KnownPair(Stamped(HeaderSet, time), WithLogon(BodySet))
<1>1. TagsIn(HeaderFields, BodyFields, {10}) /\ MapsInv(HeaderFields, BodyFields, {10})
  BY KnownTags DEF KnownMaps
<1>2. /\ IsMapOf("header", HeaderSet, HeaderFields)
      /\ IsMapOf("normal", BodySet, BodyFields)
      /\ IsMapOf("normal", WithLogon(BodySet), BodyFields)
  BY <1>1, SettingsGood
<1>3. /\ IsMapOf("header", header, HeaderFields) /\ IsMapOf("normal", body, BodyFields)
      /\ seqNo \in Nat /\ {52, 34} \subseteq HeaderFields
  BY DEF KnownMaps, MapsInv, HeaderFields
<1>4. \A time \in Nat : IsMapOf("header", Stamped(HeaderSet, time), HeaderFields)
  BY <1>2, <1>3, StampedGood
<1> QED
  BY <1>2, <1>3, <1>4 DEF KnownPair

LEMMA ConvertPromised ==
    ASSUME KnownMaps, KnownMaps', ConversionAssumption, SettingsDistinct, KnownPlaces, Convert
    PROVE  \E time \in Times : Promise!Convert(time)
<1>1. PICK time \in Times : RenderOf(Stamped(HeaderSet, time), WithLogon(BodySet))
  BY DEF Convert
<1>2. time \in Nat /\ seqNo \in Nat /\ IsTyped /\ seqNo' = seqNo + 1
  BY DEF ConversionAssumption, KnownMaps, MapsInv, Convert
<1>3. NowContent = Given(header, body)
  BY ContentNow
<1>4. /\ NowContent' = Given(Stamped(HeaderSet, time), WithLogon(BodySet))
      /\ NowRendered' = Given(Stamped(HeaderSet, time), WithLogon(BodySet))
  BY <1>1, <1>2, SettingsPairs, RenderedGiven
<1>5. Given(Stamped(HeaderSet, time), WithLogon(BodySet)) =
         Promise!Converted(Given(header, body), time)
  BY <1>2, SettingsPairs, ConvertedOver
<1>6. Promise!HasType(Given(header, body))
  BY <1>2, SettingsPairs, TypeFound
<1>7. /\ Promise!HasType(NowContent)
      /\ NowContent' = Promise!Converted(NowContent, time)
      /\ NowRendered' = NowContent'
  BY <1>3, <1>4, <1>5, <1>6
<1>8. Promise!Convert(time)
  BY <1>2, <1>7 DEF Promise!Convert, NowContent, NowRendered
<1> QED
  BY <1>8

\* A message made of a string has what is left of the rendering.
LEMMA StringAmong ==
    ASSUME NEW S, text \in Seq(S), NEW s \in Strings
    PROVE  /\ Taken(s) \in Seq(S)
           /\ FieldsAmong(Taken(s)) \subseteq FieldsAmong(text)
<1>1. s \in Seq(S) /\ FieldsAmong(s) \subseteq FieldsAmong(text)
  <2>1. ASSUME NEW n \in DOMAIN text
        PROVE  FieldsAmong(Without(text, n)) \subseteq FieldsAmong(text)
    <3> DEFINE r == Removed(text, n)
    <3>1. n \in 1 .. Len(text)
      BY LenProperties
    <3>2. \A i \in DOMAIN r : r[i] = text[Kept(n, i)] /\ Kept(n, i) \in DOMAIN text
      BY <3>1, RemovedNodes
    <3>3. Without(text, n) = r
      BY DEF Without, Removed
    <3> HIDE DEF r
    <3> QED
      BY <3>2, <3>3 DEF FieldsAmong
  <2> QED
    BY <2>1, WithoutSeq DEF Strings
<1>2. Taken(s) \in Seq(S)
  BY <1>1, TakenSeq
<1>3. FieldsAmong(Taken(s)) \subseteq FieldsAmong(s)
  <2>1. CASE Wrong(s) = {}
    BY <2>1 DEF Taken
  <2>2. CASE Wrong(s) # {}
    <3>1. Len(s) \in Nat /\ Wrong(s) \in SUBSET Nat /\ Wrong(s) \subseteq 1 .. Len(s)
      BY <1>1, LenProperties DEF Wrong
    <3>2. Min(Wrong(s)) \in 1 .. Len(s)
      BY <2>2, <3>1, Least DEF Min
    <3> DEFINE m == Min(Wrong(s)) - 1
               t == SubSeq(s, 1, m)
    <3>3. m \in 0 .. Len(s) /\ Taken(s) = t
      BY <2>2, <3>1, <3>2 DEF Taken
    <3> HIDE DEF m
    <3>4. Len(t) = m /\ DOMAIN t = 1 .. m /\ \A i \in 1 .. m : t[i] = s[i] /\ i \in DOMAIN s
      BY <1>1, <3>1, <3>3
    <3> HIDE DEF t
    <3> QED
      BY <3>3, <3>4 DEF FieldsAmong
  <2> QED
    BY <2>1, <2>2
<1> QED
  BY <1>1, <1>2, <1>3

LEMMA SetStringPromised ==
    ASSUME KnownMaps, KnownMaps', NEW s \in Strings, SetString(s), seqNo' = seqNo
    PROVE  Promise!Make
<1> DEFINE t == Taken(s)
<1>1. t \in Seq(FieldType) /\ FieldsAmong(t) \subseteq FieldsAmong(text)
  <2>1. text \in Seq(FieldType)
    BY FieldsInSeq DEF KnownMaps, MapsInv
  <2> QED
    BY <2>1, StringAmong
<1>2. /\ header' = ParsedHeader(t) /\ body' = ParsedBody(t) /\ text' = text
  BY DEF SetString
<1> HIDE DEF t
<1>3. FieldSet(ParsedHeader(t)) \subseteq FieldsAmong(t)
  BY <1>1, FilledAmong DEF ParsedHeader, Modes
<1>4. FieldSet(ParsedBody(t)) \subseteq FieldsAmong(t)
  BY <1>1, FilledAmong DEF ParsedBody, Modes
<1>5. NowContent' = Given(header', body')
  BY ContentNow
<1>6. NowRendered = Visible(FieldsAmong(text))
  BY ContentAmong DEF NowRendered
<1>7. Given(header', body') \subseteq Visible(FieldsAmong(text))
  BY <1>1, <1>2, <1>3, <1>4 DEF Given, Visible
<1>8. NowContent' \subseteq NowRendered /\ NowRendered' = NowRendered
  BY <1>2, <1>5, <1>6, <1>7 DEF NowRendered
<1> QED
  BY <1>8 DEF Promise!Make, NowContent, NowRendered

LEMMA ClearPromised ==
    ASSUME KnownMaps, KnownMaps', Clear, seqNo' = seqNo
    PROVE  Promise!Make
<1>1. NowContent' = Given(header', body') /\ header' = <<>> /\ body' = <<>> /\ text' = text
  BY ContentNow DEF Clear
<1>2. NowContent' = {}
  BY <1>1 DEF Given, Visible, FieldSet
<1>3. NowContent' \subseteq NowRendered /\ NowRendered' = NowRendered
  BY <1>1, <1>2 DEF NowRendered
<1> QED
  BY <1>3 DEF Promise!Make, NowContent, NowRendered

\* A conversion that fails has laid some of the settings over the message.
LEMMA FailPromised ==
    ASSUME KnownMaps, KnownMaps', ConversionAssumption, SettingsDistinct, KnownPlaces,
           ConvertUntyped \/ ConvertBadTag \/ ConvertWholeSecond
    PROVE  Promise!Fail
<1> DEFINE C == Given(header, body)
           D == Content(HeaderSettings)
           Lo == Promise!LogonFields(MsgType)
           Me == Promise!MessageFields(MsgType)
           H == Visible(FieldSet(header))
           B == Visible(FieldSet(body))
<1>1. NowContent = C /\ NowContent' = Given(header', body') /\ C = H \cup B
  BY ContentNow DEF Given
<1>2. /\ Visible(FieldSet(HeaderSet)) = Over(D, H)
      /\ Visible(FieldSet(BodySet)) = Over(Me, B)
      /\ Visible(FieldSet(WithLogon(BodySet))) = Over(Lo, Visible(FieldSet(BodySet)))
  <2>1. IsMapOf("normal", BodySet, BodyFields)
    BY SettingsPairs DEF KnownPair
  <2> QED
    BY <2>1, SettingsPairs, HeaderSetOver, BodySetOver
<1>3. /\ IsTyped <=> Promise!HasType(C)
      /\ IsTyped => MsgType = Promise!TypeOf(C)
  BY SettingsPairs, TypeFound
<1>4. /\ header' = HeaderSet /\ text' = text /\ seqNo' = seqNo
      /\ \/ body' = body
         \/ IsTyped /\ body' = BodySet
         \/ IsTyped /\ body' = WithLogon(BodySet)
  BY DEF ConvertUntyped, ConvertBadTag, ConvertWholeSecond
<1> DEFINE B2 == Visible(FieldSet(body'))
<1>5. \/ B2 = B
      \/ IsTyped /\ B2 = Over(Me, B)
      \/ IsTyped /\ B2 = Over(Lo, Over(Me, B))
  BY <1>2, <1>4
<1>6. NowContent' = Over(D, H) \cup B2
  BY <1>1, <1>2, <1>4 DEF Given
<1> HIDE DEF C, D, Lo, Me, H, B, B2
<1>7. \A U, L : TagSet(L) \subseteq TagSet(Over(U, L)) /\ Over(U, L) \subseteq U \cup L
  BY DEF TagSet, Over
<1>8. TagSet(NowContent) \subseteq TagSet(NowContent')
  <2>1. TagSet(B) \subseteq TagSet(B2)
    BY <1>5, <1>7
  <2>2. TagSet(H) \subseteq TagSet(Over(D, H))
    BY <1>7
  <2>3. ASSUME NEW tag \in TagSet(H \cup B)
        PROVE  tag \in TagSet(Over(D, H) \cup B2)
    <3>1. tag \in TagSet(H) \/ tag \in TagSet(B)
      BY DEF TagSet
    <3>2. tag \in TagSet(Over(D, H)) \/ tag \in TagSet(B2)
      BY <2>1, <2>2, <3>1
    <3> QED
      BY <3>2 DEF TagSet
  <2>4. NowContent = H \cup B
    BY <1>1
  <2> QED
    BY <1>6, <2>3, <2>4
<1>9. NowContent' \ NowContent \subseteq D \cup (IF IsTyped THEN Lo \cup Me ELSE {})
  BY <1>1, <1>5, <1>6, <1>7
<1>10. NowContent' \ NowContent \subseteq
          D \cup (IF Promise!HasType(NowContent)
                  THEN Promise!LogonFields(Promise!TypeOf(NowContent))
                       \cup Promise!MessageFields(Promise!TypeOf(NowContent))
                  ELSE {})
  BY <1>1, <1>3, <1>9 DEF Lo, Me
<1>11. NowRendered' = NowRendered
  BY <1>4 DEF NowRendered
<1> QED
  BY <1>4, <1>8, <1>10, <1>11, SameOver DEF Promise!Fail, NowContent, NowRendered, D

-----------------------------------------------------------------------------
\* A message that is built has what may be set, and was not rendered.
LEMMA InitPromised ==
    ASSUME KnownMaps, MessageAssumption, ConversionInit
    PROVE  Promise!Init
<1>1. PICK type \in Types : header = Built(type)
  BY DEF ConversionInit, Init
<1>2. body = <<>> /\ trailer = <<>> /\ text = <<>>
  BY DEF ConversionInit, Init
<1> DEFINE typed == Field(35, type)
<1>3. typed \in FieldType
  BY FieldOfNumbers DEF MessageAssumption, Field
<1>4. Built(type) = SetField("header", <<>>, typed)
  BY DEF Built
<1>5. typed \in [tag : {35}, value : Types]
  BY DEF Field
<1> HIDE DEF typed
<1>6. IsMapOf("header", <<>>, Nat)
  BY EmptyMap
<1>7. FieldSet(header) = Over(Just(typed), FieldSet(<<>>))
  BY <1>1, <1>3, <1>4, <1>6, PutFieldSet DEF SetField, Modes
<1>8. FieldSet(<<>>) = {}
  BY DEF FieldSet
<1>9. \A f \in FieldSet(header) : f = typed
  BY <1>7, <1>8 DEF Over, Just
<1>11. FieldSet(header) \subseteq MayBeSet
  BY <1>5, <1>9 DEF MayBeSet
<1>12. NowContent = Given(header, body)
  <2>1. KnownPair(header, body) /\ IsMapOf("trailer", trailer, {10})
    BY DEF KnownMaps, MapsInv, KnownPair
  <2> QED
    BY <2>1, ContentOfMaps DEF NowContent
<1>13. NowContent \subseteq MayBeSet
  BY <1>2, <1>8, <1>11, <1>12 DEF Given, Visible
<1>14. NowRendered = {}
  BY <1>2 DEF NowRendered, Content
<1> QED
  BY <1>13, <1>14 DEF Promise!Init, MayBeSet, NowContent, NowRendered

LEMMA NextPromised ==
    ASSUME KnownMaps, KnownMaps', MessageAssumption, ConversionAssumption, SettingsDistinct,
           KnownPlaces, Values # {}, [ConversionNext]_allVars
    PROVE  Promise!Next \/ Unseen
<1>1. CASE UNCHANGED allVars
  BY <1>1 DEF allVars, vars, Unseen, NowContent, NowRendered
<1>2. ASSUME NEW t \in AllTags, NEW v \in Values, NEW overwrite \in BOOLEAN,
             Set(Field(t, v), overwrite), seqNo' = seqNo
      PROVE  Promise!Next \/ Unseen
  <2>1. Field(t, v) \in MayBeSet
    BY DEF MayBeSet, Field
  <2>2. Unseen \/ Promise!Set(Field(t, v)) \/ Promise!SetUnlessThere(Field(t, v))
    BY <1>2, SetPromised
  <2> QED
    BY <2>1, <2>2 DEF Promise!Next, MayBeSet
<1>3. ASSUME NEW t \in AllTags, Erase(t), seqNo' = seqNo
      PROVE  Promise!Next
  <2>1. PICK v : v \in Values
    OBVIOUS
  <2> DEFINE f == Field(t, v)
  <2>2. f \in MayBeSet /\ f.tag = t
    BY <2>1 DEF MayBeSet, Field
  <2> HIDE DEF f
  <2>3. Promise!Remove(f.tag)
    BY <1>3, <2>2, ErasePromised
  <2> QED
    BY <2>2, <2>3 DEF Promise!Next, MayBeSet
<1>4. CASE Render /\ seqNo' = seqNo
  BY <1>4, RenderPromised DEF Promise!Next
<1>5. ASSUME NEW s \in Strings, SetString(s), seqNo' = seqNo
      PROVE  Promise!Next
  BY <1>5, SetStringPromised DEF Promise!Next
<1>6. CASE Clear /\ seqNo' = seqNo
  BY <1>6, ClearPromised DEF Promise!Next
<1>7. CASE Convert
  BY <1>7, ConvertPromised DEF Promise!Next
<1>8. CASE ConvertUntyped \/ ConvertBadTag \/ ConvertWholeSecond
  BY <1>8, FailPromised DEF Promise!Next
<1> QED
  BY <1>1, <1>2, <1>3, <1>4, <1>5, <1>6, <1>7, <1>8 DEF ConversionNext, Next

\* convertToBuffer keeps what MessageContent promises whoever fills and sends a
\* message, for all settings without a tag twice, all tags that the application sets in
\* the map where they belong, and all values: every operation on the maps, every
\* conversion and every exception half way is a step of the set of fields, or no step.
THEOREM ContentPromisedCorrect ==
    ASSUME MessageAssumption, ConversionAssumption, KnownPlaces, SettingsDistinct, Values # {}
    PROVE  ConversionSpec => ContentPromised
<1>1. ConversionInit => KnownMaps
  BY KnownTags, MapsInit DEF KnownMaps
<1>2. KnownMaps /\ [ConversionNext]_allVars => KnownMaps'
  BY KnownTags, MapsStep DEF KnownMaps
<1>3. KnownMaps /\ ConversionInit => Promise!Init
  BY InitPromised
<1>4. KnownMaps /\ KnownMaps' /\ [ConversionNext]_allVars =>
         [Promise!Next]_<<NowContent, NowRendered, seqNo>>
  BY NextPromised DEF Unseen
<1>5. KnownMaps /\ KnownMaps' /\ [ConversionNext]_allVars =>
         [Promise!Next]_<<Content(FieldsOf(header) \o FieldsOf(body) \o FieldsOf(trailer)),
                         Content(text), seqNo>>
  BY <1>4 DEF NowContent, NowRendered
<1> QED
  BY <1>1, <1>2, <1>3, <1>5, PTL DEF ConversionSpec, ContentPromised, Promise!Spec

-----------------------------------------------------------------------------
(***************************************************************************)
(* What length and checksum a rendering has, for all tags, values and      *)
(* settings, as long as 8, 9, 10, 89 and 93 stay where they belong, and    *)
(* whatever was rendered, made from a string or converted before.          *)
(***************************************************************************)

-----------------------------------------------------------------------------
(* Sums. *)

LEMMA Balance ==
    ASSUME NEW w \in Nat, NEW x \in Nat, NEW y \in Nat, NEW z \in Nat, w - x = y - z
    PROVE  w + z = y + x
  OBVIOUS

\* Where two sequences have the same numbers, behind a and behind c, their sums grow by
\* the same.
Same(s, a, u, c, N) == \A j \in 1 .. N : s[a + j] = u[c + j]
GrowAlike(s, a, b, u, c, d) == Sums(s)[b] + Sums(u)[c] = Sums(s)[a] + Sums(u)[d]

LEMMA SameStretch ==
    ASSUME NEW s \in Seq(Nat), NEW u \in Seq(Nat), NEW a \in Nat, NEW c \in Nat, NEW N \in Nat,
           NEW b \in 0 .. Len(s), NEW d \in 0 .. Len(u), b = a + N, d = c + N,
           Same(s, a, u, c, N)
    PROVE  GrowAlike(s, a, b, u, c, d)
<1> DEFINE g == [j \in 0 .. N |-> Sums(s)[a + j] - Sums(u)[c + j]]
           e == Sums(s)[a] - Sums(u)[c]
<1>1. /\ Len(s) \in Nat /\ Len(u) \in Nat
      /\ \A n \in 1 .. Len(s) : Sums(s)[n] = Sums(s)[n - 1] + s[n]
      /\ \A n \in 0 .. Len(s) : Sums(s)[n] \in Nat
      /\ \A n \in 1 .. Len(u) : Sums(u)[n] = Sums(u)[n - 1] + u[n]
      /\ \A n \in 0 .. Len(u) : Sums(u)[n] \in Nat
  BY SumsRight
<1>2. \A n \in 1 .. Len(s) : s[n] \in Nat
  OBVIOUS
<1>3. ASSUME NEW n \in 0 .. N, \A m \in 0 .. n - 1 : g[m] \in {e}
      PROVE  g[n] \in {e}
  <2>1. CASE n = 0
    BY <2>1
  <2>2. CASE n # 0
    <3>1. n - 1 \in 0 .. n - 1 /\ n - 1 \in 0 .. N /\ n \in 1 .. N
      BY <2>2
    <3>2. a + n \in 1 .. Len(s) /\ c + n \in 1 .. Len(u)
      BY <1>1, <3>1
    <3>3. a + (n - 1) \in 0 .. Len(s) /\ c + (n - 1) \in 0 .. Len(u)
      BY <3>2, <3>1
    <3>4. /\ Sums(s)[a + n] = Sums(s)[a + (n - 1)] + s[a + n]
          /\ Sums(u)[c + n] = Sums(u)[c + (n - 1)] + u[c + n]
      <4>1. (a + n) - 1 = a + (n - 1) /\ (c + n) - 1 = c + (n - 1)
        OBVIOUS
      <4> QED
        BY <1>1, <3>2, <4>1
    <3>5. g[n - 1] = e /\ g[n - 1] = Sums(s)[a + (n - 1)] - Sums(u)[c + (n - 1)]
      BY <1>3, <3>1
    <3>6. s[a + n] = u[c + n] /\ s[a + n] \in Nat
      BY <1>2, <3>1, <3>2 DEF Same
    <3>7. Sums(s)[a + (n - 1)] \in Nat /\ Sums(u)[c + (n - 1)] \in Nat
      BY <1>1, <3>3
    <3>8. Sums(s)[a + n] - Sums(u)[c + n] = Sums(s)[a + (n - 1)] - Sums(u)[c + (n - 1)]
      BY <3>4, <3>6, <3>7
    <3>9. g[n] = Sums(s)[a + n] - Sums(u)[c + n]
      BY <3>1
    <3> HIDE DEF g, e
    <3> QED
      BY <3>5, <3>8, <3>9
  <2> QED
    BY <2>1, <2>2
<1>4. g[N] = e
  <2> HIDE DEF g, e
  <2>1. \A n \in 0 .. N : g[n] \in {e}
    BY <1>3, LoopStays
  <2> QED
    BY <2>1
<1>5. Sums(s)[b] - Sums(u)[d] = Sums(s)[a] - Sums(u)[c]
  BY <1>4
<1>6. /\ Sums(s)[b] \in Nat /\ Sums(u)[d] \in Nat
      /\ Sums(s)[a] \in Nat /\ Sums(u)[c] \in Nat
  BY <1>1
<1> HIDE DEF g, e
<1>7. Sums(s)[b] + Sums(u)[c] = Sums(s)[a] + Sums(u)[d]
  <2> DEFINE w == Sums(s)[b]
             x == Sums(u)[d]
             y == Sums(s)[a]
             z == Sums(u)[c]
  <2>1. w \in Nat /\ x \in Nat /\ y \in Nat /\ z \in Nat /\ w - x = y - z
    BY <1>5, <1>6
  <2> HIDE DEF w, x, y, z
  <2>2. w + z = y + x
    BY <2>1, Balance
  <2> QED
    BY <2>2 DEF w, x, y, z
<1> QED
  BY <1>7 DEF GrowAlike

\* Where there are only zeros, the sum does not grow.
LEMMA ZeroStretch ==
    ASSUME NEW s \in Seq(Nat), NEW N \in 0 .. Len(s), \A j \in 1 .. N : s[j] = 0
    PROVE  Sums(s)[N] = 0
<1> DEFINE g == [j \in 0 .. N |-> Sums(s)[j]]
<1>1. /\ Len(s) \in Nat /\ N \in Nat /\ Sums(s)[0] = 0
      /\ \A n \in 1 .. Len(s) : Sums(s)[n] = Sums(s)[n - 1] + s[n]
  BY SumsRight
<1>2. ASSUME NEW n \in 0 .. N, \A m \in 0 .. n - 1 : g[m] \in {0}
      PROVE  g[n] \in {0}
  <2>1. CASE n = 0
    BY <2>1, <1>1
  <2>2. CASE n # 0
    <3>1. n - 1 \in 0 .. n - 1 /\ n - 1 \in 0 .. N /\ n \in 1 .. N /\ n \in 1 .. Len(s)
      BY <2>2, <1>1
    <3>2. Sums(s)[n] = Sums(s)[n - 1] + s[n] /\ s[n] = 0
      BY <1>1, <3>1
    <3>3. g[n - 1] = 0 /\ g[n - 1] = Sums(s)[n - 1] /\ g[n] = Sums(s)[n]
      BY <1>2, <3>1
    <3> HIDE DEF g
    <3> QED
      BY <3>2, <3>3
  <2> QED
    BY <2>1, <2>2
<1>3. g[N] = 0
  <2> HIDE DEF g
  <2>1. \A n \in 0 .. N : g[n] \in {0}
    BY <1>1, <1>2, LoopStays
  <2> QED
    BY <1>1, <2>1
<1> QED
  BY <1>1, <1>3

LEMMA SumOfThree ==
    ASSUME NEW x \in Seq(Nat), NEW y \in Seq(Nat), NEW z \in Seq(Nat)
    PROVE  /\ (x \o y) \o z \in Seq(Nat)
           /\ SumOf((x \o y) \o z) = SumOf(x) + SumOf(y) + SumOf(z)
<1> DEFINE s == (x \o y) \o z
           p == Len(x)
           q == Len(x) + Len(y)
           n == Len(s)
<1>1. /\ s \in Seq(Nat)
      /\ Len(s) = Len(x) + Len(y) + Len(z)
      /\ \A i \in 1 .. Len(x) + Len(y) + Len(z) :
            s[i] = IF i <= Len(x) THEN x[i]
                   ELSE IF i <= Len(x) + Len(y) THEN y[i - Len(x)]
                   ELSE z[i - (Len(x) + Len(y))]
  <2>1. x \o y \in Seq(Nat)
    BY ConcatProperties
  <2> QED
    BY <2>1, ConcatProperties, ThreeParts
<1>2. Len(x) \in Nat /\ Len(y) \in Nat /\ Len(z) \in Nat
  BY LenProperties
<1> HIDE DEF s
<1>3. Same(s, 0, x, 0, Len(x))
  BY <1>1, <1>2 DEF Same
<1>4. Same(s, p, y, 0, Len(y))
  BY <1>1, <1>2 DEF Same
<1>5. Same(s, q, z, 0, Len(z))
  <2>1. ASSUME NEW j \in 1 .. Len(z) PROVE s[q + j] = z[0 + j]
    <3>1. /\ q + j \in 1 .. Len(x) + Len(y) + Len(z)
          /\ ~(q + j <= Len(x)) /\ ~(q + j <= Len(x) + Len(y))
          /\ (q + j) - (Len(x) + Len(y)) = 0 + j
      BY <1>2
    <3> QED
      BY <1>1, <3>1
  <2> QED
    BY <2>1 DEF Same
<1>6. /\ p \in 0 .. n /\ q \in 0 .. n /\ n \in 0 .. n /\ 0 \in 0 .. n /\ p \in Nat /\ q \in Nat
      /\ Len(x) \in 0 .. Len(x) /\ Len(y) \in 0 .. Len(y) /\ Len(z) \in 0 .. Len(z)
      /\ p = 0 + Len(x) /\ q = p + Len(y) /\ n = q + Len(z)
  BY <1>1, <1>2
<1>7. Len(x) = 0 + Len(x) /\ Len(y) = 0 + Len(y) /\ Len(z) = 0 + Len(z) /\ 0 \in Nat
  BY <1>2
<1> HIDE DEF p, q, n
<1>8. GrowAlike(s, 0, p, x, 0, Len(x))
  BY <1>1, <1>2, <1>3, <1>6, <1>7, SameStretch
<1>9. GrowAlike(s, p, q, y, 0, Len(y))
  BY <1>1, <1>2, <1>4, <1>6, <1>7, SameStretch
<1>10. GrowAlike(s, q, n, z, 0, Len(z))
  BY <1>1, <1>2, <1>5, <1>6, <1>7, SameStretch
<1>11. /\ SumOf(s) = Sums(s)[n] /\ Sums(s)[0] = 0
       /\ Sums(s)[p] \in Nat /\ Sums(s)[q] \in Nat /\ Sums(s)[n] \in Nat
  BY <1>1, <1>6, SumsRight DEF n
<1>12. /\ SumOf(x) = Sums(x)[Len(x)] /\ Sums(x)[0] = 0 /\ SumOf(x) \in Nat
       /\ SumOf(y) = Sums(y)[Len(y)] /\ Sums(y)[0] = 0 /\ SumOf(y) \in Nat
       /\ SumOf(z) = Sums(z)[Len(z)] /\ Sums(z)[0] = 0 /\ SumOf(z) \in Nat
  BY SumsRight, SumOfNat
<1>13. Sums(s)[p] = SumOf(x)
  BY <1>8, <1>11, <1>12 DEF GrowAlike
<1>14. Sums(s)[q] = Sums(s)[p] + SumOf(y)
  BY <1>9, <1>11, <1>12 DEF GrowAlike
<1>15. Sums(s)[n] = Sums(s)[q] + SumOf(z)
  BY <1>10, <1>11, <1>12 DEF GrowAlike
<1>16. SumOf(s) = SumOf(x) + SumOf(y) + SumOf(z)
  BY <1>11, <1>12, <1>13, <1>14, <1>15
<1> QED
  BY <1>1, <1>16 DEF s

\* Zeros at the begin and one at the end make no difference.
LEMMA SumOfMiddle ==
    ASSUME NEW s \in Seq(Nat), NEW d \in Seq(Nat), NEW n \in Nat, n < Len(s),
           Len(d) = Len(s) - 1 - n, s[Len(s)] = 0,
           \A j \in 1 .. n : s[j] = 0,
           \A j \in 1 .. Len(d) : d[j] = s[n + j]
    PROVE  SumOf(d) = SumOf(s)
<1> DEFINE m == Len(s) - 1
<1>1. /\ Len(s) \in Nat /\ Len(d) \in Nat
      /\ SumOf(s) = Sums(s)[Len(s)]
      /\ SumOf(d) = Sums(d)[Len(d)] /\ Sums(d)[0] = 0
      /\ SumOf(d) \in Nat
  BY SumsRight, SumOfNat
<1>2. n \in 0 .. Len(s) /\ m \in 0 .. Len(s) /\ m = n + Len(d) /\ Len(s) \in 1 .. Len(s)
  BY <1>1
<1>3. Sums(s)[n] = 0
  BY <1>2, ZeroStretch
<1>4. GrowAlike(s, n, m, d, 0, Len(d))
  <2>1. Same(s, n, d, 0, Len(d))
    BY <1>1 DEF Same
  <2>2. Len(d) = 0 + Len(d) /\ Len(d) \in 0 .. Len(d) /\ 0 \in Nat
    BY <1>1
  <2> HIDE DEF m
  <2> QED
    BY <1>1, <1>2, <2>1, <2>2, SameStretch
<1>5. Sums(s)[m] \in Nat /\ Sums(s)[Len(s)] = Sums(s)[m] + s[Len(s)]
  BY <1>2, SumsRight
<1> HIDE DEF m
<1> QED
  BY <1>1, <1>3, <1>4, <1>5 DEF GrowAlike

\* A zero between the others makes none.
LEMMA SumOfInserted ==
    ASSUME NEW s \in Seq(Nat), NEW u \in Seq(Nat), NEW p \in 0 .. Len(s), Len(u) = Len(s) + 1,
           \A i \in 1 .. Len(s) + 1 :
              u[i] = IF i <= p THEN s[i] ELSE IF i = p + 1 THEN 0 ELSE s[i - 1]
    PROVE  SumOf(u) = SumOf(s)
<1> DEFINE N == Len(s) - p
           q == p + 1
           m == Len(s)
           n == Len(u)
<1>1. /\ Len(s) \in Nat /\ Len(u) \in Nat
      /\ SumOf(s) = Sums(s)[m] /\ Sums(s)[0] = 0
      /\ SumOf(u) = Sums(u)[n] /\ Sums(u)[0] = 0
      /\ SumOf(u) \in Nat /\ SumOf(s) \in Nat
  BY SumsRight, SumOfNat
<1>2. /\ p \in Nat /\ p \in 0 .. m /\ p \in 0 .. n /\ p = 0 + p /\ 0 \in Nat
      /\ q \in Nat /\ q \in 1 .. n /\ N \in Nat
      /\ m \in 0 .. m /\ n \in 0 .. n /\ n = q + N /\ m = p + N
  BY <1>1
<1>3. Same(u, 0, s, 0, p)
  BY <1>1 DEF Same
<1>4. Same(u, q, s, p, N)
  <2>1. ASSUME NEW j \in 1 .. N PROVE u[q + j] = s[p + j]
    <3>1. /\ q + j \in 1 .. Len(s) + 1 /\ ~(q + j <= p) /\ q + j # p + 1
          /\ (q + j) - 1 = p + j
      BY <1>1, <1>2
    <3> QED
      BY <3>1
  <2> QED
    BY <2>1 DEF Same
<1>5. Sums(u)[q] = Sums(u)[p] + 0
  <2>1. q - 1 = p /\ u[q] = 0
    BY <1>1, <1>2
  <2> QED
    BY <1>2, <2>1, SumsRight
<1>6. Sums(u)[p] \in Nat /\ Sums(s)[p] \in Nat
  BY <1>1, <1>2, SumsRight
<1>7. q \in 0 .. n
  BY <1>2
<1> HIDE DEF q, N, m, n
<1>8. GrowAlike(u, 0, p, s, 0, p)
  BY <1>2, <1>3, SameStretch DEF m, n
<1>9. GrowAlike(u, q, n, s, p, m)
  BY <1>2, <1>4, <1>7, SameStretch DEF m, n
<1>10. Sums(u)[p] = Sums(s)[p]
  BY <1>1, <1>6, <1>8 DEF GrowAlike
<1>11. Sums(u)[n] = Sums(s)[m]
  BY <1>1, <1>5, <1>6, <1>9, <1>10 DEF GrowAlike
<1> QED
  BY <1>1, <1>11

-----------------------------------------------------------------------------
(* Weights of the fields of a map: what getLength and getTotal add up. *)

LengthWeight == [f \in FieldType |-> IF f.tag \in {8, 9, 10} THEN 0 ELSE FieldLength(f)]
TotalWeight == [f \in FieldType |-> IF f.tag = 10 THEN 0 ELSE FieldTotal(f)]
Weighed(W, map) == [i \in DOMAIN map |-> W[map[i].field]]

LEMMA WeightsAreNumbers ==
    /\ LengthWeight \in [FieldType -> Nat]
    /\ TotalWeight \in [FieldType -> Nat]
    /\ \A f \in FieldType :
          /\ LengthWeight[f] = IF f.tag \in {8, 9, 10} THEN 0 ELSE FieldLength(f)
          /\ TotalWeight[f] = IF f.tag = 10 THEN 0 ELSE FieldTotal(f)
<1>1. \A f \in FieldType : FieldLength(f) \in Nat /\ FieldTotal(f) \in Nat
  BY FieldNumbers
<1> QED
  BY <1>1 DEF LengthWeight, TotalWeight

LEMMA WeighedSeq ==
    ASSUME NEW W \in [FieldType -> Nat], NEW map \in Seq(Nodes)
    PROVE  /\ Len(map) \in Nat
           /\ \A i \in 1 .. Len(map) : map[i].field \in FieldType
           /\ Weighed(W, map) \in Seq(Nat)
           /\ Len(Weighed(W, map)) = Len(map)
           /\ \A i \in 1 .. Len(map) : Weighed(W, map)[i] = W[map[i].field]
<1>1. /\ Len(map) \in Nat /\ DOMAIN map = 1 .. Len(map)
      /\ \A i \in 1 .. Len(map) : map[i].field \in FieldType
  <2>1. \A i \in 1 .. Len(map) : map[i] \in Nodes
    OBVIOUS
  <2> QED
    BY <2>1 DEF Nodes
<1> DEFINE w == Weighed(W, map)
<1>2. /\ w \in [1 .. Len(map) -> Nat]
      /\ \A i \in 1 .. Len(map) : w[i] = W[map[i].field]
  BY <1>1 DEF Weighed
<1> HIDE DEF w
<1>3. w \in Seq(Nat)
  BY <1>1, <1>2, FunctionIsSeq
<1>4. Len(w) = Len(map)
  BY <1>1, <1>2, <1>3, LenProperties
<1> QED
  BY <1>1, <1>2, <1>3, <1>4 DEF w

LEMMA GetWeighed ==
    ASSUME NEW map \in Seq(Nodes)
    PROVE  /\ GetLength(map) = SumOf(Weighed(LengthWeight, map))
           /\ GetTotal(map) = SumOf(Weighed(TotalWeight, map))
<1>1. \A i \in DOMAIN map : map[i].field \in FieldType
  BY WeightsAreNumbers, WeighedSeq, LenProperties
<1>2. Weighed(LengthWeight, map) =
         [i \in DOMAIN map |->
             IF map[i].field.tag \in {8, 9, 10} THEN 0 ELSE FieldLength(map[i].field)]
  BY <1>1, WeightsAreNumbers DEF Weighed
<1>3. Weighed(TotalWeight, map) =
         [i \in DOMAIN map |-> IF map[i].field.tag = 10 THEN 0 ELSE FieldTotal(map[i].field)]
  BY <1>1, WeightsAreNumbers DEF Weighed
<1> QED
  BY <1>2, <1>3, Zenon DEF GetLength, GetTotal

\* A string of three maps has the weights of the three, one behind the other.
Weighs(W, s, r) ==
    s \in Seq(Nat) /\ Len(s) = Len(r) /\ \A i \in 1 .. Len(r) : s[i] = W[r[i]]

LEMMA PlacesWeighed ==
    ASSUME NEW W \in [FieldType -> Nat], NEW l \in Seq(Nodes), NEW b \in Seq(Nodes),
           NEW c \in Seq(Nodes), NEW r, Places(l, b, c, r)
    PROVE  \E s : /\ Weighs(W, s, r)
                  /\ SumOf(s) = SumOf(Weighed(W, l)) + SumOf(Weighed(W, b)) + SumOf(Weighed(W, c))
<1> DEFINE x == Weighed(W, l)
           y == Weighed(W, b)
           z == Weighed(W, c)
           s == (x \o y) \o z
<1>1. /\ Len(l) \in Nat /\ x \in Seq(Nat) /\ Len(x) = Len(l)
      /\ \A i \in 1 .. Len(l) : x[i] = W[l[i].field]
  BY WeighedSeq
<1>2. /\ Len(b) \in Nat /\ y \in Seq(Nat) /\ Len(y) = Len(b)
      /\ \A i \in 1 .. Len(b) : y[i] = W[b[i].field]
  BY WeighedSeq
<1>3. /\ Len(c) \in Nat /\ z \in Seq(Nat) /\ Len(z) = Len(c)
      /\ \A i \in 1 .. Len(c) : z[i] = W[c[i].field]
  BY WeighedSeq
<1> HIDE DEF x, y, z
<1>4. /\ s \in Seq(Nat) /\ SumOf(s) = SumOf(x) + SumOf(y) + SumOf(z)
  BY <1>1, <1>2, <1>3, SumOfThree
<1>5. /\ Len(s) = Len(x) + Len(y) + Len(z)
      /\ DOMAIN s = 1 .. Len(s)
      /\ \A i \in 1 .. Len(x) + Len(y) + Len(z) :
            s[i] = IF i <= Len(x) THEN x[i]
                   ELSE IF i <= Len(x) + Len(y) THEN y[i - Len(x)]
                   ELSE z[i - (Len(x) + Len(y))]
  <2>1. x \in Seq(Nat) /\ y \in Seq(Nat) /\ z \in Seq(Nat)
    BY <1>1, <1>2, <1>3
  <2> QED
    BY <2>1, ThreeParts
<1> HIDE DEF s
<1>6. ASSUME NEW i \in 1 .. Len(r) PROVE s[i] = W[r[i]]
  <2> USE DEF Places
  <2>0. i \in 1 .. Len(l) + Len(b) + Len(c) /\ i \in 1 .. Len(x) + Len(y) + Len(z)
    BY <1>1, <1>2, <1>3
  <2>1. CASE i <= Len(l)
    <3>1. i \in 1 .. Len(l)
      BY <2>0, <2>1, <1>1
    <3>2. s[i] = x[i]
      BY <2>0, <2>1, <1>1, <1>5
    <3>3. r[i] = l[i].field
      BY <2>0, <2>1
    <3> QED
      BY <3>1, <3>2, <3>3, <1>1
  <2>2. CASE i > Len(l) /\ i <= Len(l) + Len(b)
    <3> DEFINE k == i - Len(l)
    <3>1. k \in 1 .. Len(b) /\ ~(i <= Len(l))
      BY <2>0, <2>2, <1>1, <1>2
    <3>2. s[i] = y[k]
      BY <2>0, <2>2, <3>1, <1>1, <1>2, <1>5
    <3>3. r[i] = b[k].field
      BY <2>0, <2>2, <3>1
    <3> QED
      BY <3>1, <3>2, <3>3, <1>2
  <2>3. CASE i > Len(l) + Len(b)
    <3> DEFINE k == i - (Len(l) + Len(b))
    <3>1. k \in 1 .. Len(c) /\ ~(i <= Len(l)) /\ ~(i <= Len(l) + Len(b))
      BY <2>0, <2>3, <1>1, <1>2, <1>3
    <3>2. s[i] = z[k]
      BY <2>0, <3>1, <1>1, <1>2, <1>5
    <3>3. r[i] = c[k].field
      BY <2>0, <3>1
    <3> QED
      BY <3>1, <3>2, <3>3, <1>3
  <2> QED
    BY <2>1, <2>2, <2>3, <1>1, <1>2
<1>7. Weighs(W, s, r)
  BY <1>1, <1>2, <1>3, <1>4, <1>5, <1>6 DEF Weighs, Places
<1> QED
  BY <1>4, <1>7 DEF x, y, z

\* The length of a header does not depend on its body length field.
LEMMA LengthStays ==
    ASSUME NEW H, 9 \in H, NEW h, IsMapOf("header", h, H), NEW f \in FieldType, f.tag = 9
    PROVE  GetLength(SetField("header", h, f)) = GetLength(h)
<1> DEFINE p == UpTo("header", h, f.tag)
           q == SetField("header", h, f)
           W == LengthWeight
<1>1. h \in Seq(Nodes) /\ "header" \in Modes /\ f.tag \in Nat
  BY DEF IsMapOf, IsMap, Modes
<1>2. p \in 0 .. Len(h) /\ (p > 0 => ~Less("header", f.tag, h[p].key)) /\ Len(h) \in Nat
  BY <1>1, UpToPlace, LenProperties
<1>3. q \in Seq(Nodes)
  <2>1. IsMapOf("header", q, H)
    BY <1>1, PutFieldGood DEF SetField
  <2> QED
    BY <2>1 DEF IsMapOf, IsMap
<1>4. /\ W \in [FieldType -> Nat] /\ W[f] = 0
      /\ \A g \in FieldType : g.tag = 9 => W[g] = 0
  BY WeightsAreNumbers
<1> HIDE DEF W
<1>5. /\ \A i \in 1 .. Len(h) : h[i].field \in FieldType
      /\ Weighed(W, h) \in Seq(Nat) /\ Len(Weighed(W, h)) = Len(h)
      /\ \A i \in 1 .. Len(h) : Weighed(W, h)[i] = W[h[i].field]
  BY <1>1, <1>4, WeighedSeq
<1>6. CASE p = 0 \/ Less("header", h[p].key, f.tag)
  <2>1. q = Inserted(h, p, f)
    BY <1>2, <1>6 DEF SetField, PutField
  <2> HIDE DEF p, q
  <2>2. /\ Len(q) = Len(h) + 1
        /\ \A i \in 1 .. Len(h) + 1 :
              q[i] = IF i <= p THEN h[i]
                     ELSE IF i = p + 1 THEN [key |-> f.tag, field |-> f]
                     ELSE h[i - 1]
    BY <1>1, <1>2, <2>1, InsertedNodes
  <2> DEFINE s == Weighed(W, h)
             u == Weighed(W, q)
  <2>3. /\ u \in Seq(Nat) /\ Len(u) = Len(q)
        /\ \A i \in 1 .. Len(q) : u[i] = W[q[i].field]
    BY <1>3, <1>4, WeighedSeq
  <2> HIDE DEF s, u
  <2>4. s \in Seq(Nat) /\ Len(s) = Len(h) /\ \A i \in 1 .. Len(h) : s[i] = W[h[i].field]
    BY <1>5 DEF s
  <2>5. ASSUME NEW i \in 1 .. Len(s) + 1
        PROVE  u[i] = IF i <= p THEN s[i] ELSE IF i = p + 1 THEN 0 ELSE s[i - 1]
    <3>1. u[i] = W[q[i].field] /\ i \in 1 .. Len(h) + 1
      BY <2>2, <2>3, <2>4
    <3>2. CASE i <= p
      <4>1. i \in 1 .. Len(h) /\ q[i] = h[i]
        BY <1>2, <2>2, <3>1, <3>2
      <4> QED
        BY <2>4, <3>1, <3>2, <4>1
    <3>3. CASE i = p + 1
      <4>1. q[i].field = f /\ ~(i <= p)
        BY <1>2, <2>2, <3>1, <3>3
      <4> QED
        BY <1>4, <3>1, <3>3, <4>1
    <3>4. CASE i > p + 1
      <4>1. i - 1 \in 1 .. Len(h) /\ q[i] = h[i - 1] /\ ~(i <= p) /\ i # p + 1
        BY <1>2, <2>2, <3>1, <3>4
      <4> QED
        BY <2>4, <3>1, <4>1
    <3> QED
      BY <1>2, <3>1, <3>2, <3>3, <3>4
  <2>6. SumOf(u) = SumOf(s)
    <3>1. p \in 0 .. Len(s) /\ Len(u) = Len(s) + 1
      BY <1>2, <2>2, <2>3, <2>4
    <3> QED
      BY <2>3, <2>4, <2>5, <3>1, SumOfInserted
  <2>7. GetLength(q) = SumOf(u) /\ GetLength(h) = SumOf(s)
    BY <1>1, <1>3, GetWeighed DEF u, s, W
  <2> QED
    BY <2>6, <2>7 DEF q
<1>7. CASE ~(p = 0 \/ Less("header", h[p].key, f.tag))
  <2>1. p \in DOMAIN h /\ p \in 1 .. Len(h)
    BY <1>1, <1>2, <1>7
  <2>2. q = [h EXCEPT ![p] = [key |-> h[p].key, field |-> f]]
    BY <1>7 DEF SetField, PutField
  <2>3. h[p].key = f.tag
    <3>1. h[p].key \in Nat
      <4>1. h[p] \in Nodes
        BY <1>1, <2>1
      <4> QED
        BY <4>1 DEF Nodes
    <3> QED
      BY <1>1, <1>2, <1>7, <3>1, Equivalent
  <2>4. h[p].field.tag = 9
    BY <2>1, <2>3 DEF IsMapOf, OwnKeys
  <2> HIDE DEF p, q
  <2>5. DOMAIN q = DOMAIN h /\ \A i \in DOMAIN h : q[i].field = IF i = p THEN f ELSE h[i].field
    BY <2>1, <2>2
  <2>6. W[h[p].field] = 0
    BY <1>4, <1>5, <2>1, <2>4
  <2>7. Weighed(W, q) = Weighed(W, h)
    BY <1>4, <2>5, <2>6 DEF Weighed
  <2> QED
    BY <1>1, <1>3, <2>7, GetWeighed DEF W, q
<1> QED
  BY <1>6, <1>7

\* A trailer that gets nothing but checksums has one node at most, and no weight.
LEMMA TrailerOfTen ==
    ASSUME NEW t, IsMapOf("trailer", t, {10})
    PROVE  /\ t \in Seq(Nodes) /\ Len(t) \in {0, 1}
           /\ GetLength(t) = 0 /\ GetTotal(t) = 0
<1>1. /\ t \in Seq(Nodes) /\ Len(t) \in Nat /\ DOMAIN t = 1 .. Len(t)
      /\ \A i, j \in DOMAIN t : i < j => TrailerLess(t[i].key, t[j].key)
  BY LenProperties DEF IsMapOf, IsMap, Less
<1>2. \A i \in DOMAIN t : t[i].key = 10 /\ t[i].field.tag = 10
  BY DEF IsMapOf, OwnKeys
<1>3. Len(t) \in {0, 1}
  <2>1. CASE Len(t) > 1
    <3>1. 1 \in DOMAIN t /\ 2 \in DOMAIN t
      BY <1>1, <2>1
    <3> QED
      BY <1>1, <1>2, <3>1 DEF TrailerLess
  <2> QED
    BY <1>1, <2>1
<1>4. \A f \in FieldType : f.tag = 10 => LengthWeight[f] = 0 /\ TotalWeight[f] = 0
  BY WeightsAreNumbers
<1>5. ASSUME NEW W \in [FieldType -> Nat], \A f \in FieldType : f.tag = 10 => W[f] = 0
      PROVE  SumOf(Weighed(W, t)) = 0
  <2> DEFINE s == Weighed(W, t)
  <2>1. /\ s \in Seq(Nat) /\ Len(s) = Len(t)
        /\ \A i \in 1 .. Len(t) : s[i] = W[t[i].field] /\ t[i].field \in FieldType
    BY <1>1, WeighedSeq
  <2> HIDE DEF s
  <2>2. \A i \in 1 .. Len(s) : s[i] = 0
    BY <1>1, <1>2, <1>5, <2>1
  <2>3. Len(s) \in 0 .. Len(s)
    BY <1>1, <2>1
  <2>4. SumOf(s) = Sums(s)[Len(s)]
    BY <2>1, SumsRight
  <2>5. Sums(s)[Len(s)] = 0
    BY <2>1, <2>2, <2>3, ZeroStretch
  <2> QED
    BY <2>4, <2>5 DEF s
<1>6. SumOf(Weighed(LengthWeight, t)) = 0 /\ SumOf(Weighed(TotalWeight, t)) = 0
  BY <1>4, <1>5, WeightsAreNumbers
<1> QED
  BY <1>1, <1>3, <1>6, GetWeighed

LEMMA TrailerIsChecksum ==
    ASSUME NEW t, IsMapOf("trailer", t, {10}), NEW f \in FieldType, f.tag = 10
    PROVE  /\ SetField("trailer", t, f) \in Seq(Nodes)
           /\ Len(SetField("trailer", t, f)) = 1
           /\ SetField("trailer", t, f)[1].field = f
<1> DEFINE c == SetField("trailer", t, f)
<1>1. IsMapOf("trailer", c, {10}) /\ HasField(c, f)
  <2>1. "trailer" \in Modes /\ f.tag \in {10}
    BY DEF Modes
  <2> QED
    BY <2>1, PutFieldGood DEF SetField
<1> HIDE DEF c
<1>2. c \in Seq(Nodes) /\ Len(c) \in {0, 1}
  BY <1>1, TrailerOfTen
<1>3. PICK i \in 1 .. Len(c) : c[i].field = f
  BY <1>1, <1>2, LenProperties DEF HasField
<1>4. Len(c) = 1 /\ i = 1
  BY <1>2, <1>3
<1> QED
  BY <1>2, <1>3, <1>4 DEF c

-----------------------------------------------------------------------------
\* What BodyLengthRight and ChecksumRight say of a string that is not empty.
LengthOf(r) ==
    LET n == Position(r, 9) IN
    /\ r[Len(r)].tag = 10
    /\ r[n].value = SumOf([i \in 1 .. Len(r) - 1 - n |-> FieldLength(r[n + i])])
ChecksumOf(r) ==
    r[Len(r)].value = SumOf([i \in 1 .. Len(r) - 1 |-> FieldTotal(r[i])]) % 256

\* The header of a rendering has one body length, and nothing but the version before it.
LengthAt(l, n, v) ==
    /\ n \in 1 .. Len(l)
    /\ l[n].field = Field(9, v)
    /\ \A i \in 1 .. Len(l) :
          /\ i < n => l[i].field.tag = 8
          /\ i > n => l[i].field.tag \notin {8, 9}

LEMMA LengthFound ==
    ASSUME NEW H, 9 \in H, NEW l, IsMapOf("header", l, H), NEW v \in Nat,
           HasField(l, Field(9, v))
    PROVE  \E n : LengthAt(l, n, v)
<1>1. /\ l \in Seq(Nodes) /\ Len(l) \in Nat /\ DOMAIN l = 1 .. Len(l)
      /\ \A i, j \in DOMAIN l : i < j => HeaderLess(l[i].key, l[j].key)
  BY LenProperties DEF IsMapOf, IsMap, Less
<1>2. \A i \in DOMAIN l : l[i].key \in Nat /\ l[i].field.tag = l[i].key
  <2>1. \A i \in DOMAIN l : l[i] \in Nodes
    BY <1>1, ElementOfSeq
  <2> QED
    BY <2>1 DEF Nodes, IsMapOf, OwnKeys
<1>3. PICK n \in DOMAIN l : l[n].field = Field(9, v)
  BY DEF HasField
<1>4. l[n].key = 9
  BY <1>2, <1>3 DEF Field
<1>5. \A x \in Nat : /\ HeaderLess(x, 9) => x = 8
                     /\ HeaderLess(9, x) => x # 8 /\ x # 9
  BY DEF HeaderLess, OrderedPosition
<1>6. \A i \in 1 .. Len(l) :
         /\ i < n => l[i].field.tag = 8
         /\ i > n => l[i].field.tag \notin {8, 9}
  BY <1>1, <1>2, <1>4, <1>5
<1> QED
  BY <1>1, <1>3, <1>6 DEF LengthAt

\* Three maps in a string, the first with its length, the last with its checksum alone.
Whole(l, b, c, r, v, w) ==
    /\ l \in Seq(Nodes) /\ b \in Seq(Nodes) /\ c \in Seq(Nodes)
    /\ Places(l, b, c, r)
    /\ \E n : LengthAt(l, n, v)
    /\ \A i \in 1 .. Len(l) : l[i].field.tag # 10
    /\ \A i \in 1 .. Len(b) : b[i].field.tag \notin {8, 9, 10}
    /\ Len(c) = 1 /\ c[1].field = Field(10, w)
    /\ v \in Nat /\ w \in Nat
    /\ v = GetLength(l) + GetLength(b)
    /\ w = (GetTotal(l) + GetTotal(b)) % 256

LEMMA WholePlaces ==
    ASSUME NEW l, NEW b, NEW c, NEW r, NEW v, NEW w, Whole(l, b, c, r, v, w)
    PROVE  /\ Len(l) \in Nat /\ Len(b) \in Nat
           /\ Len(r) = Len(l) + Len(b) + 1 /\ DOMAIN r = 1 .. Len(r)
           /\ r[Len(r)] = Field(10, w)
           /\ \A i \in 1 .. Len(r) : r[i] \in FieldType
           /\ \A i \in 1 .. Len(l) : r[i] = l[i].field
           /\ \A i \in 1 .. Len(r) - 1 : i > Len(l) => r[i].tag \notin {8, 9, 10}
<1> USE DEF Whole, Places
<1>1. /\ Len(l) \in Nat /\ Len(b) \in Nat /\ Len(c) = 1
      /\ Len(r) = Len(l) + Len(b) + 1 /\ DOMAIN r = 1 .. Len(r)
      /\ \A i \in 1 .. Len(l) + Len(b) + 1 :
          r[i] = IF i <= Len(l) THEN l[i].field
                 ELSE IF i <= Len(l) + Len(b) THEN b[i - Len(l)].field
                 ELSE c[i - (Len(l) + Len(b))].field
  OBVIOUS
<1>2. /\ \A i \in 1 .. Len(l) : l[i].field \in FieldType
      /\ \A i \in 1 .. Len(b) : b[i].field \in FieldType /\ b[i].field.tag \notin {8, 9, 10}
      /\ c[1].field = Field(10, w) /\ Field(10, w) \in FieldType
  BY WeightsAreNumbers, WeighedSeq, FieldOfNumbers
<1> USE ONLY <1>1, <1>2
<1>3. \A i \in 1 .. Len(l) : r[i] = l[i].field
  OBVIOUS
<1>4. ASSUME NEW i \in 1 .. Len(r) - 1, i > Len(l)
      PROVE  r[i] \in FieldType /\ r[i].tag \notin {8, 9, 10}
  <2> DEFINE k == i - Len(l)
  <2>1. k \in 1 .. Len(b) /\ ~(i <= Len(l)) /\ i <= Len(l) + Len(b)
        /\ i \in 1 .. Len(l) + Len(b) + 1
    BY <1>4
  <2>2. r[i] = b[k].field
    BY <2>1
  <2> QED
    BY <2>1, <2>2
<1>5. r[Len(r)] = Field(10, w)
  <2>1. /\ Len(r) - (Len(l) + Len(b)) = 1 /\ ~(Len(r) <= Len(l)) /\ ~(Len(r) <= Len(l) + Len(b))
        /\ Len(r) \in 1 .. Len(l) + Len(b) + 1
    OBVIOUS
  <2> QED
    BY <2>1
<1>6. ASSUME NEW i \in 1 .. Len(r) PROVE r[i] \in FieldType
  <2>1. i \in 1 .. Len(l) \/ (i \in 1 .. Len(r) - 1 /\ i > Len(l)) \/ i = Len(r)
    OBVIOUS
  <2> QED
    BY <1>3, <1>4, <1>5, <2>1
<1> QED
  BY <1>3, <1>4, <1>5, <1>6

\* The checksum field has no weight.
LEMMA WholeWeighs ==
    ASSUME NEW W \in [FieldType -> Nat], \A f \in FieldType : f.tag = 10 => W[f] = 0,
           NEW l, NEW b, NEW c, NEW r, NEW v, NEW w, Whole(l, b, c, r, v, w)
    PROVE  \E s : /\ Weighs(W, s, r)
                  /\ SumOf(s) = SumOf(Weighed(W, l)) + SumOf(Weighed(W, b))
<1>1. /\ l \in Seq(Nodes) /\ b \in Seq(Nodes) /\ c \in Seq(Nodes)
      /\ Places(l, b, c, r) /\ Len(c) = 1 /\ c[1].field = Field(10, w) /\ w \in Nat
  BY DEF Whole
<1>2. PICK s : /\ Weighs(W, s, r)
               /\ SumOf(s) = SumOf(Weighed(W, l)) + SumOf(Weighed(W, b)) + SumOf(Weighed(W, c))
  BY <1>1, PlacesWeighed
<1>3. W[c[1].field] = 0
  BY <1>1, FieldOfNumbers
<1> DEFINE z == Weighed(W, c)
<1>4. z \in Seq(Nat) /\ Len(z) = 1 /\ z[1] = 0
  <2>1. 1 \in 1 .. Len(c)
    BY <1>1
  <2> QED
    BY <1>1, <1>3, <2>1, WeighedSeq
<1> HIDE DEF z
<1>5. SumOf(z) = 0
  <2>1. 1 \in 0 .. Len(z) /\ \A j \in 1 .. 1 : z[j] = 0
    BY <1>4
  <2> QED
    BY <1>4, <2>1, ZeroStretch, SumsRight
<1>6. SumOf(Weighed(W, l)) \in Nat /\ SumOf(Weighed(W, b)) \in Nat
  <2>1. Weighed(W, l) \in Seq(Nat) /\ Weighed(W, b) \in Seq(Nat)
    BY <1>1, WeighedSeq
  <2> QED
    BY <2>1, SumOfNat
<1> QED
  BY <1>2, <1>5, <1>6 DEF z

LEMMA LengthOfWhole ==
    ASSUME NEW l, NEW b, NEW c, NEW r, NEW v, NEW w, Whole(l, b, c, r, v, w)
    PROVE  LengthOf(r)
<1>1. /\ Len(l) \in Nat /\ Len(b) \in Nat
      /\ Len(r) = Len(l) + Len(b) + 1 /\ DOMAIN r = 1 .. Len(r)
      /\ r[Len(r)] = Field(10, w)
      /\ \A i \in 1 .. Len(r) : r[i] \in FieldType
      /\ \A i \in 1 .. Len(l) : r[i] = l[i].field
      /\ \A i \in 1 .. Len(r) - 1 : i > Len(l) => r[i].tag \notin {8, 9, 10}
  BY WholePlaces
<1>2. PICK n : LengthAt(l, n, v)
  BY DEF Whole
<1>3. /\ n \in 1 .. Len(l) /\ r[n] = Field(9, v)
      /\ \A i \in 1 .. Len(l) : /\ i < n => r[i].tag = 8
                                /\ i > n => r[i].tag \notin {8, 9, 10}
  <2>1. /\ n \in 1 .. Len(l) /\ l[n].field = Field(9, v)
        /\ \A i \in 1 .. Len(l) : /\ i < n => l[i].field.tag = 8
                                  /\ i > n => l[i].field.tag \notin {8, 9}
    BY <1>2 DEF LengthAt
  <2>2. \A i \in 1 .. Len(l) : l[i].field.tag # 10
    BY DEF Whole
  <2>3. \A i \in 1 .. Len(l) : r[i] = l[i].field
    BY <1>1
  <2> QED
    BY <2>1, <2>2, <2>3
<1>4. Field(9, v).tag = 9 /\ Field(9, v).value = v /\ Field(10, w).tag = 10
  BY DEF Field
<1>5. \A i \in 1 .. Len(r) - 1 : i > n => r[i].tag \notin {8, 9, 10}
  BY <1>1, <1>3
<1>6. Position(r, 9) = n
  <2>1. \A i \in 1 .. Len(r) : r[i].tag = 9 => i = n
    BY <1>1, <1>3, <1>4, <1>5
  <2>2. n \in 1 .. Len(r) /\ r[n].tag = 9
    BY <1>1, <1>3, <1>4
  <2> QED
    BY <1>1, <2>1, <2>2 DEF Position
<1> DEFINE d == [i \in 1 .. Len(r) - 1 - n |-> FieldLength(r[n + i])]
           W == LengthWeight
<1>7. /\ W \in [FieldType -> Nat]
      /\ \A f \in FieldType : W[f] = IF f.tag \in {8, 9, 10} THEN 0 ELSE FieldLength(f)
  BY WeightsAreNumbers
<1>8. PICK s : Weighs(W, s, r) /\ SumOf(s) = SumOf(Weighed(W, l)) + SumOf(Weighed(W, b))
  <2> HIDE DEF W
  <2>1. \A f \in FieldType : f.tag = 10 => W[f] = 0
    BY <1>7
  <2> QED
    BY <1>7, <2>1, WholeWeighs
<1>9. SumOf(s) = v
  <2>1. l \in Seq(Nodes) /\ b \in Seq(Nodes) /\ v = GetLength(l) + GetLength(b)
    BY DEF Whole
  <2> QED
    BY <1>8, <2>1, GetWeighed
<1> HIDE DEF W
<1>10. s \in Seq(Nat) /\ Len(s) = Len(r) /\ \A i \in 1 .. Len(r) : s[i] = W[r[i]]
  BY <1>8 DEF Weighs
<1>11. /\ s[Len(s)] = 0
       /\ \A j \in 1 .. n : s[j] = 0
  <2>1. Len(r) \in 1 .. Len(r) /\ r[Len(r)].tag = 10
    BY <1>1, <1>4
  <2>2. \A j \in 1 .. n : j \in 1 .. Len(r) /\ r[j].tag \in {8, 9}
    BY <1>1, <1>3, <1>4
  <2> QED
    BY <1>1, <1>7, <1>10, <2>1, <2>2
<1>12. d \in Seq(Nat) /\ Len(d) = Len(s) - 1 - n /\ \A j \in 1 .. Len(d) : d[j] = s[n + j]
  <2> DEFINE m == Len(r) - 1 - n
  <2>1. m \in Nat /\ n \in Nat
    BY <1>1, <1>3
  <2>2. \A j \in 1 .. m : n + j \in 1 .. Len(r) - 1 /\ n + j > n /\ n + j \in 1 .. Len(r)
    BY <1>1, <2>1
  <2>3. \A j \in 1 .. m : r[n + j] \in FieldType /\ r[n + j].tag \notin {8, 9, 10}
    BY <1>1, <1>5, <2>2
  <2>4. \A j \in 1 .. m : d[j] = FieldLength(r[n + j]) /\ d[j] \in Nat
    BY <2>3, FieldNumbers
  <2>5. d \in [1 .. m -> Nat]
    BY <2>4
  <2> HIDE DEF d, m
  <2>6. d \in Seq(Nat) /\ Len(d) = m
    <3>1. d \in Seq(Nat)
      BY <2>1, <2>5, FunctionIsSeq
    <3> QED
      BY <2>1, <2>5, <3>1, LenProperties
  <2>7. ASSUME NEW j \in 1 .. m PROVE d[j] = s[n + j]
    <3>1. n + j \in 1 .. Len(r) /\ r[n + j] \in FieldType /\ r[n + j].tag \notin {8, 9, 10}
      BY <2>2, <2>3
    <3>2. s[n + j] = W[r[n + j]]
      BY <1>10, <3>1
    <3>3. W[r[n + j]] = FieldLength(r[n + j])
      BY <1>7, <3>1
    <3> QED
      BY <2>4, <3>2, <3>3
  <2> QED
    BY <1>10, <2>6, <2>7 DEF m
<1>13. n \in Nat /\ n < Len(s)
  BY <1>1, <1>3, <1>10
<1>14. SumOf(d) = SumOf(s)
  <2> HIDE DEF d
  <2> QED
    BY <1>10, <1>11, <1>12, <1>13, SumOfMiddle
<1>15. r[Len(r)].tag = 10 /\ r[n].value = SumOf(d)
  BY <1>1, <1>3, <1>4, <1>9, <1>14
<1> QED
  BY <1>6, <1>15 DEF LengthOf

LEMMA ChecksumOfWhole ==
    ASSUME NEW l, NEW b, NEW c, NEW r, NEW v, NEW w, Whole(l, b, c, r, v, w)
    PROVE  ChecksumOf(r)
<1>1. /\ Len(l) \in Nat /\ Len(b) \in Nat
      /\ Len(r) = Len(l) + Len(b) + 1
      /\ r[Len(r)] = Field(10, w)
      /\ \A i \in 1 .. Len(r) : r[i] \in FieldType
      /\ \A i \in 1 .. Len(l) : r[i] = l[i].field
      /\ \A i \in 1 .. Len(r) - 1 : i > Len(l) => r[i].tag \notin {8, 9, 10}
  BY WholePlaces
<1>2. Field(10, w).tag = 10 /\ Field(10, w).value = w
  BY DEF Field
<1> DEFINE W == TotalWeight
           d == [i \in 1 .. Len(r) - 1 |-> FieldTotal(r[i])]
<1>3. /\ W \in [FieldType -> Nat]
      /\ \A f \in FieldType : W[f] = IF f.tag = 10 THEN 0 ELSE FieldTotal(f)
  BY WeightsAreNumbers
<1>4. PICK s : Weighs(W, s, r) /\ SumOf(s) = SumOf(Weighed(W, l)) + SumOf(Weighed(W, b))
  <2> HIDE DEF W
  <2>1. \A f \in FieldType : f.tag = 10 => W[f] = 0
    BY <1>3
  <2> QED
    BY <1>3, <2>1, WholeWeighs
<1>5. SumOf(s) % 256 = w
  <2>1. l \in Seq(Nodes) /\ b \in Seq(Nodes) /\ w = (GetTotal(l) + GetTotal(b)) % 256
    BY DEF Whole
  <2>2. GetTotal(l) = SumOf(Weighed(W, l)) /\ GetTotal(b) = SumOf(Weighed(W, b))
    BY <2>1, GetWeighed
  <2> QED
    BY <1>4, <2>1, <2>2
<1> HIDE DEF W
<1>6. s \in Seq(Nat) /\ Len(s) = Len(r) /\ \A i \in 1 .. Len(r) : s[i] = W[r[i]]
  BY <1>4 DEF Weighs
<1>7. s[Len(s)] = 0
  <2>1. Len(r) \in 1 .. Len(r) /\ r[Len(r)].tag = 10
    BY <1>1, <1>2
  <2> QED
    BY <1>1, <1>3, <1>6, <2>1
<1>8. d \in Seq(Nat) /\ Len(d) = Len(s) - 1 - 0 /\ \A j \in 1 .. Len(d) : d[j] = s[0 + j]
  <2> DEFINE m == Len(r) - 1
  <2>1. m \in Nat /\ m = Len(r) - 1 - 0
    BY <1>1
  <2>2. \A j \in 1 .. m : j \in 1 .. Len(r) /\ 0 + j = j
    BY <1>1, <2>1
  <2>3. \A j \in 1 .. m : r[j] \in FieldType /\ r[j].tag # 10
    <3>1. \A j \in 1 .. Len(l) : r[j].tag # 10
      BY <1>1 DEF Whole
    <3>2. \A j \in 1 .. m : j \in 1 .. Len(l) \/ j > Len(l)
      BY <1>1
    <3> QED
      BY <1>1, <2>2, <3>1, <3>2
  <2>4. \A j \in 1 .. m : d[j] = FieldTotal(r[j]) /\ d[j] \in Nat
    BY <2>3, FieldNumbers
  <2>5. d \in [1 .. m -> Nat]
    BY <2>4
  <2> HIDE DEF d, m
  <2>6. d \in Seq(Nat) /\ Len(d) = m
    <3>1. d \in Seq(Nat)
      BY <2>1, <2>5, FunctionIsSeq
    <3> QED
      BY <2>1, <2>5, <3>1, LenProperties
  <2>7. \A j \in 1 .. m : d[j] = s[j]
    BY <1>3, <1>6, <2>2, <2>3, <2>4
  <2>8. \A j \in 1 .. m : d[j] = s[0 + j]
    BY <2>2, <2>7
  <2> QED
    BY <1>6, <2>1, <2>6, <2>8
<1>9. SumOf(d) = SumOf(s)
  <2>1. 0 \in Nat /\ 0 < Len(s) /\ \A j \in 1 .. 0 : s[j] = 0
    BY <1>1, <1>6
  <2> HIDE DEF d
  <2> QED
    BY <1>6, <1>7, <1>8, <2>1, SumOfMiddle
<1>10. r[Len(r)].value = SumOf(d) % 256
  BY <1>1, <1>2, <1>5, <1>9
<1> QED
  BY <1>10 DEF ChecksumOf

\* What toString makes of a message whose body has no version, length or checksum and
\* whose trailer has nothing but a checksum.
LEMMA RenderingWhole ==
    ASSUME NEW H, 9 \in H, 10 \notin H, NEW B, B \cap {8, 9, 10} = {},
           NEW h, NEW b, NEW t,
           IsMapOf("header", h, H), IsMapOf("normal", b, B), IsMapOf("trailer", t, {10})
    PROVE  Whole(WithLength(h, b, t), b, WithChecksum(h, b, t), Rendering(h, b, t),
                 BodyLength(h, b, t), Checksum(WithLength(h, b, t), b, t))
<1> DEFINE l == WithLength(h, b, t)
           c == WithChecksum(h, b, t)
           r == Rendering(h, b, t)
           v == BodyLength(h, b, t)
           w == Checksum(l, b, t)
<1>1. 10 \in {10}
  OBVIOUS
<1>2. v \in Nat /\ w \in Nat /\ IsMapOf("header", l, H)
  BY <1>1, LengthSet, ChecksumSet
<1>3. Places(l, b, c, r)
  BY <1>1, RenderingPlaces
<1>4. l = SetField("header", h, Field(9, v)) /\ c = SetField("trailer", t, Field(10, w))
  BY DEF WithLength, WithChecksum
<1>5. v = GetLength(h) + GetLength(b) + GetLength(t)
  BY DEF BodyLength
<1>6. w = (GetTotal(l) + GetTotal(b) + GetTotal(t)) % 256
  BY DEF Checksum
<1> HIDE DEF l, c, r, v, w
<1>7. Field(9, v) \in FieldType /\ Field(9, v).tag = 9 /\ Field(10, w) \in FieldType /\ Field(10, w).tag = 10
  BY <1>2, FieldOfNumbers
<1>8. HasField(l, Field(9, v))
  <2> DEFINE f == Field(9, v)
  <2>1. "header" \in Modes /\ f \in FieldType /\ f.tag \in H
    BY <1>7 DEF Modes
  <2> HIDE DEF f
  <2>2. HasField(PutField("header", h, f, TRUE), f)
    BY <2>1, PutFieldGood
  <2> QED
    BY <1>4, <2>2 DEF SetField, f
<1>9. \E n : LengthAt(l, n, v)
  BY <1>2, <1>8, LengthFound
<1>10. GetLength(l) = GetLength(h)
  BY <1>4, <1>7, LengthStays
<1>11. l \in Seq(Nodes) /\ b \in Seq(Nodes) /\ h \in Seq(Nodes)
  BY <1>2 DEF IsMapOf, IsMap
<1>12. GetLength(t) = 0 /\ GetTotal(t) = 0
  BY TrailerOfTen
<1>13. /\ GetLength(h) \in Nat /\ GetLength(b) \in Nat
       /\ GetTotal(l) \in Nat /\ GetTotal(b) \in Nat
  BY <1>11, MapNumbers
<1>14. c \in Seq(Nodes) /\ Len(c) = 1 /\ c[1].field = Field(10, w)
  BY <1>4, <1>7, TrailerIsChecksum
<1>15. \A i \in 1 .. Len(l) : l[i].field.tag # 10
  BY <1>2, <1>11, LenProperties DEF IsMapOf
<1>16. \A i \in 1 .. Len(b) : b[i].field.tag \notin {8, 9, 10}
  BY <1>11, LenProperties DEF IsMapOf
<1>17. v = GetLength(l) + GetLength(b)
  BY <1>5, <1>10, <1>12, <1>13
<1>18. w = (GetTotal(l) + GetTotal(b)) % 256
  BY <1>6, <1>12, <1>13
<1> HIDE DEF Whole
<1>19. Whole(l, b, c, r, v, w)
  BY <1>2, <1>3, <1>9, <1>11, <1>14, <1>15, <1>16, <1>17, <1>18 DEF Whole
<1> QED
  BY <1>19 DEF l, c, r, v, w

-----------------------------------------------------------------------------
\* The application and the settings give the header no checksum, the body neither
\* version nor length nor checksum, and none of the three a signature, whose place the
\* order of a trailer does not tell (TrailerOrderBroken).
OwnPlaces ==
    /\ HeaderUsed \cap {10, 89, 93} = {}
    /\ BodyUsed \cap {8, 9, 10, 89, 93} = {}
    /\ TrailerUsed \subseteq {10}

InHeader == Nat \ {10, 89, 93}
InBody == Nat \ {8, 9, 10, 89, 93}
RightMaps == MapsInv(InHeader, InBody, {10})
RightText == text # <<>> => LengthOf(text) /\ ChecksumOf(text)

LEMMA RightTags ==
    ASSUME MessageAssumption, ConversionAssumption, OwnPlaces
    PROVE  TagsIn(InHeader, InBody, {10})
<1>1. HeaderUsed \subseteq InHeader /\ BodyUsed \subseteq InBody /\ TrailerUsed \subseteq {10}
  BY UsedNumbers DEF OwnPlaces, InHeader, InBody
<1>2. \A tag \in InHeader \cup InBody \cup {10} :
         /\ tag \in HeaderFields => tag \in InHeader
         /\ tag \in BodyFields => tag \in InBody
         /\ tag \in TrailerFields => tag \in {10}
  BY DEF InHeader, InBody, HeaderFields, BodyFields, TrailerFields
<1>3. InHeader \in SUBSET Nat /\ InBody \in SUBSET Nat /\ {10} \in SUBSET Nat
  BY DEF InHeader, InBody
<1> QED
  BY <1>1, <1>2, <1>3 DEF TagsIn

LEMMA RightAlways ==
    ASSUME MessageAssumption, ConversionAssumption, OwnPlaces
    PROVE  ConversionSpec => [](RightMaps /\ RightText)
<1>1. ConversionInit => RightMaps /\ RightText
  <2>1. ConversionInit => text = <<>>
    BY DEF ConversionInit, Init
  <2> QED
    BY <2>1, RightTags, MapsInit DEF RightMaps, RightText
<1>2. RightMaps /\ RightText /\ [ConversionNext]_allVars => RightMaps' /\ RightText'
  <2> SUFFICES ASSUME RightMaps, RightText, [ConversionNext]_allVars
               PROVE  RightMaps' /\ RightText'
    OBVIOUS
  <2>1. RightMaps'
    BY RightTags, MapsStep DEF RightMaps
  <2>2. ASSUME text' = text PROVE RightText'
    BY <2>2 DEF RightText
  <2>3. ASSUME NEW h, NEW b, IsMapOf("header", h, InHeader), IsMapOf("normal", b, InBody),
               text' = Rendering(h, b, trailer)
        PROVE  RightText'
    <3>1. 9 \in InHeader /\ 10 \notin InHeader /\ InBody \cap {8, 9, 10} = {}
      BY DEF InHeader, InBody
    <3>2. IsMapOf("trailer", trailer, {10})
      BY DEF RightMaps, MapsInv
    <3>3. Whole(WithLength(h, b, trailer), b, WithChecksum(h, b, trailer),
                Rendering(h, b, trailer), BodyLength(h, b, trailer),
                Checksum(WithLength(h, b, trailer), b, trailer))
      BY <2>3, <3>1, <3>2, RenderingWhole
    <3>4. LengthOf(Rendering(h, b, trailer)) /\ ChecksumOf(Rendering(h, b, trailer))
      BY <3>3, LengthOfWhole, ChecksumOfWhole
    <3> QED
      BY <2>3, <3>4 DEF RightText
  <2>4. \/ text' = text
        \/ \E h, b : /\ IsMapOf("header", h, InHeader) /\ IsMapOf("normal", b, InBody)
                     /\ text' = Rendering(h, b, trailer)
    BY RightTags, TextRendered DEF RightMaps
  <2> QED
    BY <2>1, <2>2, <2>3, <2>4
<1> QED
  BY <1>1, <1>2, PTL DEF ConversionSpec

\* Every string has the length of what is between its length and its checksum, which is
\* its last field: whatever the message had before, its old length and checksum included.
THEOREM BodyLengthRightCorrect ==
    ASSUME MessageAssumption, ConversionAssumption, OwnPlaces
    PROVE  ConversionSpec => []BodyLengthRight
<1>1. RightMaps /\ RightText => BodyLengthRight
  BY DEF RightText, BodyLengthRight, LengthOf
<1> QED
  BY <1>1, RightAlways, PTL

\* Every string ends with the sum of the bytes before its checksum, modulo 256.
THEOREM ChecksumRightCorrect ==
    ASSUME MessageAssumption, ConversionAssumption, OwnPlaces
    PROVE  ConversionSpec => []ChecksumRight
<1>1. RightMaps /\ RightText => ChecksumRight
  BY DEF RightText, ChecksumRight, ChecksumOf
<1> QED
  BY <1>1, RightAlways, PTL

-----------------------------------------------------------------------------
(* setString undoes toString. *)

\* A field that is there already, under its own tag, is put where it is.
LEMMA SetAgain ==
    ASSUME NEW mode \in Modes, NEW map \in Seq(Nodes), IsMap(mode, map), NEW f \in FieldType,
           NEW i \in DOMAIN map, map[i].field = f, map[i].key = f.tag
    PROVE  SetField(mode, map, f) = map
<1> DEFINE p == UpTo(mode, map, f.tag)
<1>1. /\ f.tag \in Nat /\ Len(map) \in Nat /\ DOMAIN map = 1 .. Len(map)
      /\ \A j, k \in DOMAIN map : j < k => Less(mode, map[j].key, map[k].key)
  BY LenProperties DEF FieldType, IsMap
<1>2. /\ p \in 0 .. Len(map)
      /\ p > 0 => ~Less(mode, f.tag, map[p].key)
      /\ \A j \in DOMAIN map : j > p => Less(mode, f.tag, map[j].key)
  BY <1>1, UpToPlace
<1>3. ~Less(mode, f.tag, f.tag)
  BY <1>1 DEF Less, HeaderLess, TrailerLess, OrderedPosition
<1> HIDE DEF p
<1>4. p = i
  <2>1. ~(i > p)
    BY <1>2, <1>3
  <2>2. CASE p > i
    <3>1. p \in DOMAIN map
      BY <1>1, <1>2, <2>2
    <3> QED
      BY <1>1, <1>2, <2>2, <3>1
  <2> QED
    BY <1>1, <1>2, <2>1, <2>2
<1>5. p # 0 /\ ~Less(mode, map[p].key, f.tag)
  BY <1>1, <1>3, <1>4
<1>6. SetField(mode, map, f) = [map EXCEPT ![p] = [key |-> map[p].key, field |-> f]]
  BY <1>5 DEF SetField, PutField, p
<1>7. map[p] = [key |-> map[p].key, field |-> f]
  <2>1. map[p] \in Nodes /\ map[p].field = f
    BY <1>4, ElementOfSeq, <1>1
  <2> QED
    BY <2>1 DEF Nodes
<1> QED
  BY <1>4, <1>6, <1>7

\* A field that is behind all others is put at the end.
LEMMA SetAtEnd ==
    ASSUME NEW mode \in Modes, NEW map \in Seq(Nodes), IsMap(mode, map), NEW f \in FieldType,
           NEW k \in 1 .. Len(map), map[k] = [key |-> f.tag, field |-> f]
    PROVE  SetField(mode, SubSeq(map, 1, k - 1), f) = SubSeq(map, 1, k)
<1> DEFINE m == SubSeq(map, 1, k - 1)
           p == UpTo(mode, m, f.tag)
           q == Inserted(m, k - 1, f)
<1>1. /\ f.tag \in Nat /\ Len(map) \in Nat /\ DOMAIN map = 1 .. Len(map)
      /\ \A i, j \in DOMAIN map : i < j => Less(mode, map[i].key, map[j].key)
      /\ \A i \in DOMAIN map : map[i].key \in Nat
  <2>1. \A i \in DOMAIN map : map[i] \in Nodes
    BY ElementOfSeq, LenProperties
  <2> QED
    BY <2>1, LenProperties DEF FieldType, IsMap, Nodes
<1>2. /\ m \in Seq(Nodes) /\ Len(m) = k - 1 /\ DOMAIN m = 1 .. k - 1
      /\ \A i \in 1 .. k - 1 : m[i] = map[i]
  <2>1. k \in Nat /\ k - 1 \in 0 .. Len(map)
    BY <1>1
  <2> QED
    BY <1>1, <2>1
<1> HIDE DEF m
<1>3. /\ p \in 0 .. k - 1
      /\ \A j \in DOMAIN m : j > p => Less(mode, f.tag, m[j].key)
  BY <1>1, <1>2, UpToPlace
<1>4. \A x, y \in Nat : Less(mode, x, y) => ~Less(mode, y, x)
  BY DEF Less, HeaderLess, TrailerLess, OrderedPosition, Modes
<1>5. \A j \in 1 .. k - 1 : Less(mode, m[j].key, f.tag) /\ m[j].key \in Nat
  <2>1. \A j \in 1 .. k - 1 : j \in DOMAIN map /\ k \in DOMAIN map /\ j < k
    BY <1>1
  <2>2. map[k].key = f.tag
    OBVIOUS
  <2> QED
    BY <1>1, <1>2, <2>1, <2>2
<1> HIDE DEF p
<1>6. p = k - 1
  <2>1. CASE p < k - 1
    <3>1. k - 1 \in 1 .. k - 1 /\ k - 1 > p
      BY <1>3, <2>1
    <3> QED
      BY <1>1, <1>2, <1>3, <1>4, <1>5, <3>1
  <2> QED
    BY <1>3, <2>1
<1>7. SetField(mode, m, f) = q
  <2>1. p = 0 \/ (p \in 1 .. k - 1 /\ Less(mode, m[p].key, f.tag))
    BY <1>5, <1>6
  <2> QED
    BY <1>6, <2>1 DEF SetField, PutField, p
<1>8. /\ q \in Seq(Nodes) /\ Len(q) = k
      /\ \A i \in 1 .. k : q[i] = IF i <= k - 1 THEN m[i]
                                 ELSE IF i = k THEN [key |-> f.tag, field |-> f]
                                 ELSE m[i - 1]
  <2> DEFINE j == k - 1
  <2>1. j \in 0 .. Len(m) /\ Len(m) + 1 = k /\ j + 1 = k
    BY <1>1, <1>2
  <2> HIDE DEF j
  <2>2. /\ Inserted(m, j, f) \in Seq(Nodes)
        /\ Len(Inserted(m, j, f)) = Len(m) + 1
        /\ \A i \in 1 .. Len(m) + 1 :
              Inserted(m, j, f)[i] = IF i <= j THEN m[i]
                                     ELSE IF i = j + 1 THEN [key |-> f.tag, field |-> f]
                                     ELSE m[i - 1]
    BY <1>2, <2>1, InsertedNodes
  <2>3. q = Inserted(m, j, f)
    BY DEF j
  <2> HIDE DEF q
  <2> QED
    BY <2>1, <2>2, <2>3 DEF j
<1> HIDE DEF q
<1>9. \A i \in 1 .. k : q[i] = map[i]
  BY <1>1, <1>2, <1>8
<1> DEFINE u == SubSeq(map, 1, k)
<1>10. u \in Seq(Nodes) /\ Len(u) = k /\ \A i \in 1 .. k : u[i] = map[i]
  BY <1>1
<1> HIDE DEF u
<1>11. q = u
  <2>1. DOMAIN q = 1 .. k /\ DOMAIN u = 1 .. k
    BY <1>8, <1>10, LenProperties
  <2> QED
    BY <1>8, <1>9, <1>10, <2>1
<1> QED
  BY <1>7, <1>11 DEF m, u

\* The nodes of a map, as fields somewhere among others that go elsewhere, are put
\* together to the map again.
Stretch(map, fields, tags, a) ==
    /\ a \in Nat /\ Len(map) \in Nat /\ a + Len(map) <= Len(fields)
    /\ \A i \in 1 .. Len(map) :
          /\ map[i] = [key |-> fields[a + i].tag, field |-> fields[a + i]]
          /\ fields[a + i].tag \in tags
    /\ \A n \in 1 .. Len(fields) : n <= a \/ n > a + Len(map) => fields[n].tag \notin tags

LEMMA FilledStretch ==
    ASSUME NEW mode \in Modes, NEW map, IsMap(mode, map),
           NEW fields \in Seq(FieldType), NEW tags, NEW a, Stretch(map, fields, tags, a)
    PROVE  Filled(mode, <<>>, fields, tags) = map
<1> DEFINE N == Len(fields)
           M == Len(map)
           set == FilledTo(mode, <<>>, fields, tags)
           take == [n \in 0 .. N |-> IF n <= a THEN 0 ELSE IF n <= a + M THEN n - a ELSE M]
           right == [n \in 0 .. N |-> IF set[n] = SubSeq(map, 1, take[n]) THEN 1 ELSE 0]
<1>1. /\ N \in Nat /\ M \in Nat /\ a \in Nat /\ a + M <= N
      /\ map \in Seq(Nodes)
      /\ \A n \in 1 .. N : fields[n] \in FieldType
  BY LenProperties, ElementOfSeq DEF Stretch, IsMap
<1>2. /\ Filled(mode, <<>>, fields, tags) = set[N]
      /\ \A n \in 0 .. N :
            set[n] = IF n = 0 THEN <<>>
                     ELSE IF fields[n].tag \in tags THEN SetField(mode, set[n - 1], fields[n])
                     ELSE set[n - 1]
  <2>1. IsMapOf(mode, <<>>, Nat)
    BY EmptyMap
  <2> QED
    BY <2>1, FilledLoop
<1>3. /\ \A i \in 1 .. M :
            /\ map[i] = [key |-> fields[a + i].tag, field |-> fields[a + i]]
            /\ fields[a + i].tag \in tags
      /\ \A n \in 1 .. N : n <= a \/ n > a + M => fields[n].tag \notin tags
  BY DEF Stretch
<1> HIDE DEF N, M, set
<1>4. SubSeq(map, 1, 0) = <<>> /\ SubSeq(map, 1, M) = map
  BY <1>1 DEF M
<1>5. ASSUME NEW n \in 0 .. N, \A m \in 0 .. n - 1 : right[m] \in {1}
      PROVE  right[n] \in {1}
  <2>1. CASE n = 0
    <3>1. take[n] = 0 /\ set[n] = <<>>
      BY <1>1, <1>2, <2>1
    <3> QED
      BY <1>4, <3>1
  <2>2. CASE n # 0
    <3>1. n \in 1 .. N /\ n - 1 \in 0 .. n - 1 /\ n - 1 \in 0 .. N
      BY <2>2, <1>1
    <3>2. set[n - 1] = SubSeq(map, 1, take[n - 1])
      <4>1. right[n - 1] = IF set[n - 1] = SubSeq(map, 1, take[n - 1]) THEN 1 ELSE 0
        BY <3>1
      <4> HIDE DEF right, take
      <4>2. right[n - 1] = 1
        BY <1>5, <3>1
      <4> QED
        BY <4>1, <4>2
    <3>3. set[n] = IF fields[n].tag \in tags THEN SetField(mode, set[n - 1], fields[n])
                   ELSE set[n - 1]
      BY <1>2, <2>2
    <3>4. CASE n <= a \/ n > a + M
      <4>1. take[n] = take[n - 1]
        BY <1>1, <3>1, <3>4
      <4>2. fields[n].tag \notin tags
        BY <1>3, <3>1, <3>4
      <4> HIDE DEF take
      <4>3. set[n] = SubSeq(map, 1, take[n])
        BY <3>2, <3>3, <4>1, <4>2
      <4> QED
        BY <4>3
    <3>5. CASE n > a /\ n <= a + M
      <4> DEFINE k == n - a
      <4>1. take[n] = k /\ take[n - 1] = k - 1 /\ k \in 1 .. M /\ a + k = n
        BY <1>1, <3>1, <3>5
      <4> HIDE DEF take, k
      <4>2. map[k] = [key |-> fields[n].tag, field |-> fields[n]] /\ fields[n].tag \in tags
        BY <1>3, <4>1
      <4>3. set[n] = SetField(mode, SubSeq(map, 1, k - 1), fields[n])
        BY <3>2, <3>3, <4>1, <4>2
      <4>4. fields[n] \in FieldType /\ k \in 1 .. Len(map)
        BY <1>1, <3>1, <4>1 DEF M
      <4>5. set[n] = SubSeq(map, 1, take[n])
        BY <1>1, <4>1, <4>2, <4>3, <4>4, SetAtEnd
      <4> QED
        BY <4>5
    <3> HIDE DEF right, take
    <3> QED
      BY <1>1, <3>4, <3>5
  <2> QED
    BY <2>1, <2>2
<1>6. set[N] = SubSeq(map, 1, take[N])
  <2> HIDE DEF right
  <2>1. \A n \in 0 .. N : right[n] \in {1}
    BY <1>1, <1>5, LoopStays
  <2>2. N \in 0 .. N
    BY <1>1
  <2>3. right[N] = 1
    BY <2>1, <2>2
  <2> QED
    BY <2>2, <2>3 DEF right
<1>7. take[N] = M
  BY <1>1
<1> HIDE DEF take
<1> QED
  BY <1>2, <1>4, <1>6, <1>7

Undone(r) == Rendering(ParsedHeader(r), ParsedBody(r), ParsedTrailer(r)) = r

\* The nodes of each of three maps in a string of them.
LEMMA PlacesStretch ==
    ASSUME NEW l, NEW b, NEW c, NEW r, Places(l, b, c, r), NEW H, NEW B, NEW R,
           IsMapOf("header", l, H), IsMapOf("normal", b, B), IsMapOf("trailer", c, R), R = {10},
           H \cap B = {}, H \cap R = {}, B \cap R = {}
    PROVE  /\ Stretch(l, r, H, 0)
           /\ Stretch(b, r, B, Len(l))
           /\ Stretch(c, r, R, Len(l) + Len(b))
<1>1. /\ Len(l) \in Nat /\ Len(b) \in Nat /\ Len(c) \in Nat
      /\ Len(r) = Len(l) + Len(b) + Len(c)
      /\ \A i \in 1 .. Len(l) + Len(b) + Len(c) :
            r[i] = IF i <= Len(l) THEN l[i].field
                   ELSE IF i <= Len(l) + Len(b) THEN b[i - Len(l)].field
                   ELSE c[i - (Len(l) + Len(b))].field
  BY DEF Places
<1>2. /\ \A i \in 1 .. Len(l) : l[i] = [key |-> l[i].field.tag, field |-> l[i].field] /\ l[i].field.tag \in H
      /\ \A i \in 1 .. Len(b) : b[i] = [key |-> b[i].field.tag, field |-> b[i].field] /\ b[i].field.tag \in B
      /\ \A i \in 1 .. Len(c) : c[i] = [key |-> c[i].field.tag, field |-> c[i].field] /\ c[i].field.tag \in R
  <2>1. ASSUME NEW mode, NEW T, NEW map, IsMapOf(mode, map, T), OwnKeys(mode, T),
               NEW i \in 1 .. Len(map)
        PROVE  map[i] = [key |-> map[i].field.tag, field |-> map[i].field] /\ map[i].field.tag \in T
    <3>1. map[i] \in Nodes /\ i \in DOMAIN map
      BY <2>1, ElementOfSeq, LenProperties DEF IsMapOf, IsMap
    <3> QED
      BY <2>1, <3>1 DEF IsMapOf, Nodes
  <2>2. OwnKeys("header", H) /\ OwnKeys("normal", B) /\ OwnKeys("trailer", R)
    BY DEF OwnKeys
  <2> QED
    BY <2>1, <2>2
<1>3. \A i \in 1 .. Len(l) : r[0 + i] = l[i].field
  <2>1. ASSUME NEW i \in 1 .. Len(l) PROVE r[i] = l[i].field /\ 0 + i = i
    BY <1>1
  <2> QED
    BY <2>1
<1>4. \A i \in 1 .. Len(b) : r[Len(l) + i] = b[i].field
  <2>1. ASSUME NEW i \in 1 .. Len(b) PROVE r[Len(l) + i] = b[i].field
    <3> DEFINE n == Len(l) + i
    <3>1. /\ n \in 1 .. Len(l) + Len(b) + Len(c) /\ ~(n <= Len(l)) /\ n <= Len(l) + Len(b)
          /\ n - Len(l) = i
      BY <1>1
    <3> HIDE DEF n
    <3>2. r[n] = b[n - Len(l)].field
      BY <1>1, <3>1
    <3> QED
      BY <3>1, <3>2 DEF n
  <2> QED
    BY <2>1
<1>5. \A i \in 1 .. Len(c) : r[(Len(l) + Len(b)) + i] = c[i].field
  <2>1. ASSUME NEW i \in 1 .. Len(c) PROVE r[(Len(l) + Len(b)) + i] = c[i].field
    <3> DEFINE n == (Len(l) + Len(b)) + i
    <3>1. /\ n \in 1 .. Len(l) + Len(b) + Len(c) /\ ~(n <= Len(l)) /\ ~(n <= Len(l) + Len(b))
          /\ n - (Len(l) + Len(b)) = i
      BY <1>1
    <3> HIDE DEF n
    <3>2. r[n] = c[n - (Len(l) + Len(b))].field
      BY <1>1, <3>1
    <3> QED
      BY <3>1, <3>2 DEF n
  <2> QED
    BY <2>1
<1>6. ASSUME NEW n \in 1 .. Len(r)
      PROVE  /\ n <= Len(l) => r[n].tag \in H
             /\ n > Len(l) /\ n <= Len(l) + Len(b) => r[n].tag \in B
             /\ n > Len(l) + Len(b) => r[n].tag \in R
  <2>1. CASE n <= Len(l)
    <3>1. n \in 1 .. Len(l) /\ r[n] = l[n].field /\ ~(n > Len(l)) /\ ~(n > Len(l) + Len(b))
      BY <1>1, <2>1
    <3> QED
      BY <1>1, <1>2, <3>1
  <2>2. CASE n > Len(l) /\ n <= Len(l) + Len(b)
    <3> DEFINE k == n - Len(l)
    <3>1. k \in 1 .. Len(b) /\ Len(l) + k = n /\ ~(n <= Len(l)) /\ ~(n > Len(l) + Len(b))
      BY <1>1, <2>2
    <3> HIDE DEF k
    <3>2. r[n] = b[k].field
      BY <1>4, <3>1
    <3> QED
      BY <1>2, <3>1, <3>2
  <2>3. CASE n > Len(l) + Len(b)
    <3> DEFINE k == n - (Len(l) + Len(b))
    <3>1. k \in 1 .. Len(c) /\ (Len(l) + Len(b)) + k = n /\ ~(n <= Len(l)) /\ ~(n <= Len(l) + Len(b))
      BY <1>1, <2>3
    <3> HIDE DEF k
    <3>2. r[n] = c[k].field
      BY <1>5, <3>1
    <3> QED
      BY <1>2, <3>1, <3>2
  <2> QED
    BY <1>1, <2>1, <2>2, <2>3
<1>7. Stretch(l, r, H, 0)
  <2>1. \A n \in 1 .. Len(r) : n <= 0 \/ n > 0 + Len(l) => r[n].tag \notin H
    BY <1>1, <1>6
  <2>2. 0 \in Nat /\ 0 + Len(l) <= Len(r)
    BY <1>1
  <2> QED
    BY <1>1, <1>2, <1>3, <2>1, <2>2 DEF Stretch
<1>8. Stretch(b, r, B, Len(l))
  <2>1. \A n \in 1 .. Len(r) : n <= Len(l) \/ n > Len(l) + Len(b) => r[n].tag \notin B
    BY <1>1, <1>6
  <2> QED
    BY <1>1, <1>2, <1>4, <2>1 DEF Stretch
<1>9. Stretch(c, r, R, Len(l) + Len(b))
  <2> DEFINE a == Len(l) + Len(b)
  <2>1. /\ a \in Nat /\ a + Len(c) <= Len(r)
        /\ \A n \in 1 .. Len(r) : n <= a \/ n > a + Len(c) => r[n].tag \notin R
    BY <1>1, <1>6
  <2>2. \A i \in 1 .. Len(c) : r[a + i] = c[i].field
    BY <1>5
  <2> HIDE DEF a
  <2>3. Stretch(c, r, R, a)
    BY <1>1, <1>2, <2>1, <2>2 DEF Stretch
  <2> QED
    BY <2>3 DEF a
<1> QED
  BY <1>7, <1>8, <1>9

LEMMA RenderingUndone ==
    ASSUME NEW h, NEW b, NEW t, IsMapOf("header", h, HeaderFields),
           IsMapOf("normal", b, BodyFields), IsMapOf("trailer", t, {10})
    PROVE  Undone(Rendering(h, b, t))
<1> DEFINE l == WithLength(h, b, t)
           c == WithChecksum(h, b, t)
           r == Rendering(h, b, t)
           v == BodyLength(h, b, t)
           w == Checksum(l, b, t)
<1>1. /\ 9 \in HeaderFields /\ 10 \notin HeaderFields /\ BodyFields \cap {8, 9, 10} = {}
      /\ HeaderFields \cap BodyFields = {} /\ HeaderFields \cap {10} = {}
      /\ BodyFields \cap {10} = {} /\ 10 \in {10}
  BY DEF HeaderFields, BodyFields, TrailerFields
<1>2. Whole(l, b, c, r, v, w)
  BY <1>1, RenderingWhole
<1>3. IsMapOf("header", l, HeaderFields) /\ IsMapOf("trailer", c, {10})
  BY <1>1, LengthSet, ChecksumSet
<1>4. r \in Seq(FieldType)
  <2>1. r \in Seq(FieldsIn(HeaderFields \cup BodyFields \cup {10}))
    BY <1>1, RenderingSeq
  <2> HIDE DEF r
  <2> QED
    BY <2>1, FieldsInSeq
<1>5. /\ r = FieldsOf(l) \o FieldsOf(b) \o FieldsOf(c)
      /\ Rendering(l, b, c) =
            FieldsOf(WithLength(l, b, c)) \o FieldsOf(b) \o FieldsOf(WithChecksum(l, b, c))
  BY DEF Rendering
<1> HIDE DEF l, c, r, v, w
<1>6. /\ l \in Seq(Nodes) /\ IsMap("header", l) /\ IsMap("normal", b)
      /\ c \in Seq(Nodes) /\ IsMap("trailer", c)
  BY <1>3 DEF IsMapOf, IsMap
<1>7. ParsedHeader(r) = l /\ ParsedBody(r) = b /\ ParsedTrailer(r) = c
  <2>1. /\ Stretch(l, r, HeaderFields, 0)
        /\ Stretch(b, r, BodyFields, Len(l))
        /\ Stretch(c, r, {10}, Len(l) + Len(b))
    <3>1. Places(l, b, c, r)
      BY <1>2 DEF Whole
    <3> QED
      BY <1>1, <1>3, <3>1, PlacesStretch
  <2>2. Stretch(c, r, TrailerFields, Len(l) + Len(b))
    <3>1. \A n \in 1 .. Len(r) : r[n].tag \notin {89, 93}
      <4>1. r \in Seq(FieldsIn(HeaderFields \cup BodyFields \cup {10}))
        BY <1>1, RenderingSeq DEF r
      <4>2. \A n \in DOMAIN r : r[n].tag \in HeaderFields \cup BodyFields \cup {10}
        BY <4>1, FieldsInSeq
      <4> QED
        BY <1>4, <4>2, LenProperties DEF HeaderFields, BodyFields, TrailerFields
    <3> QED
      BY <2>1, <3>1 DEF Stretch, TrailerFields
  <2>3. "header" \in Modes /\ "normal" \in Modes /\ "trailer" \in Modes
    BY DEF Modes
  <2>4. Filled("header", <<>>, r, HeaderFields) = l
    BY <1>4, <1>6, <2>1, <2>3, FilledStretch
  <2>5. Filled("normal", <<>>, r, BodyFields) = b
    BY <1>4, <1>6, <2>1, <2>3, FilledStretch
  <2>6. Filled("trailer", <<>>, r, TrailerFields) = c
    BY <1>4, <1>6, <2>2, <2>3, FilledStretch
  <2> QED
    BY <2>4, <2>5, <2>6 DEF ParsedHeader, ParsedBody, ParsedTrailer
<1>8. /\ v \in Nat /\ w \in Nat
      /\ v = GetLength(l) + GetLength(b) /\ w = (GetTotal(l) + GetTotal(b)) % 256
      /\ \E n : LengthAt(l, n, v)
      /\ Len(c) = 1 /\ c[1].field = Field(10, w)
  BY <1>2 DEF Whole
<1>9. GetLength(c) = 0 /\ GetTotal(c) = 0
  BY <1>3, TrailerOfTen
<1>10. /\ GetLength(l) \in Nat /\ GetLength(b) \in Nat
       /\ GetTotal(l) \in Nat /\ GetTotal(b) \in Nat
  <2>1. b \in Seq(Nodes)
    BY DEF IsMapOf, IsMap
  <2> QED
    BY <1>6, <2>1, MapNumbers
<1>11. WithLength(l, b, c) = l
  <2>1. BodyLength(l, b, c) = v
    BY <1>8, <1>9, <1>10 DEF BodyLength
  <2>2. PICK n \in 1 .. Len(l) : l[n].field = Field(9, v)
    BY <1>8 DEF LengthAt
  <2> DEFINE f == Field(9, v)
  <2>3. n \in DOMAIN l /\ l[n].key = f.tag
    <3>1. n \in DOMAIN l
      BY <1>6, <2>2, LenProperties
    <3> QED
      BY <1>3, <2>2, <3>1 DEF IsMapOf, OwnKeys
  <2>4. f \in FieldType /\ "header" \in Modes
    BY <1>8, FieldOfNumbers DEF Modes
  <2> HIDE DEF f
  <2>5. SetField("header", l, f) = l
    BY <1>6, <2>2, <2>3, <2>4, SetAgain DEF f
  <2> QED
    BY <2>1, <2>5 DEF WithLength, f
<1>12. WithChecksum(l, b, c) = c
  <2>1. Checksum(WithLength(l, b, c), b, c) = w
    BY <1>8, <1>9, <1>10, <1>11 DEF Checksum
  <2> DEFINE f == Field(10, w)
  <2>2. 1 \in DOMAIN c /\ c[1].field = f
    BY <1>6, <1>8, LenProperties
  <2>3. c[1].key = f.tag
    BY <1>3, <2>2 DEF IsMapOf, OwnKeys
  <2>4. f \in FieldType /\ "trailer" \in Modes
    BY <1>8, FieldOfNumbers DEF Modes
  <2> HIDE DEF f
  <2>5. SetField("trailer", c, f) = c
    BY <1>6, <2>2, <2>3, <2>4, SetAgain
  <2> QED
    BY <2>1, <2>5 DEF WithChecksum, f
<1>13. Rendering(l, b, c) = r
  BY <1>5, <1>11, <1>12
<1> QED
  BY <1>7, <1>13 DEF Undone, r

UndoneText == text # <<>> => Undone(text)

\* A message made of any string that toString ever made is rendered to this string
\* again: every field comes back in its map, at its place, once, and length and
\* checksum, which are computed anew from the old ones, do not change.
THEOREM RoundTripCorrect ==
    ASSUME MessageAssumption, ConversionAssumption, KnownPlaces
    PROVE  ConversionSpec => []RoundTrip
<1>1. TagsIn(HeaderFields, BodyFields, {10})
  BY KnownTags
<1>2. ConversionInit => KnownMaps /\ UndoneText
  <2>1. ConversionInit => text = <<>>
    BY DEF ConversionInit, Init
  <2> QED
    BY <1>1, <2>1, MapsInit DEF KnownMaps, UndoneText
<1>3. KnownMaps /\ UndoneText /\ [ConversionNext]_allVars => KnownMaps' /\ UndoneText'
  <2> SUFFICES ASSUME KnownMaps, UndoneText, [ConversionNext]_allVars
               PROVE  KnownMaps' /\ UndoneText'
    OBVIOUS
  <2>1. KnownMaps'
    BY <1>1, MapsStep DEF KnownMaps
  <2>2. ASSUME text' = text PROVE UndoneText'
    BY <2>2 DEF UndoneText
  <2>3. ASSUME NEW h, NEW b,
               IsMapOf("header", h, HeaderFields), IsMapOf("normal", b, BodyFields),
               text' = Rendering(h, b, trailer)
        PROVE  UndoneText'
    <3>1. IsMapOf("trailer", trailer, {10})
      BY DEF KnownMaps, MapsInv
    <3>2. Undone(Rendering(h, b, trailer))
      BY <2>3, <3>1, RenderingUndone
    <3> QED
      BY <2>3, <3>2 DEF UndoneText
  <2>4. \/ text' = text
        \/ \E h, b : /\ IsMapOf("header", h, HeaderFields) /\ IsMapOf("normal", b, BodyFields)
                     /\ text' = Rendering(h, b, trailer)
    BY <1>1, TextRendered DEF KnownMaps
  <2> QED
    BY <2>1, <2>2, <2>3, <2>4
<1>4. KnownMaps /\ UndoneText => RoundTrip
  BY DEF UndoneText, Undone, RoundTrip, Tags
<1> QED
  BY <1>2, <1>3, <1>4, PTL DEF ConversionSpec
=============================================================================
