------------------------ MODULE FixDeserialise_proofs ------------------------
(***************************************************************************)
(* What is delivered of a connection, for all legal messages and any       *)
(* number of them.                                                         *)
(***************************************************************************)
EXTENDS FixDeserialise, FiniteSetTheorems, SequenceTheorems, TLAPS

Loops == INSTANCE FixFieldMap_proofs

LEMMA LoopNat ==
    ASSUME NEW N, NEW from, NEW step, Loops!Loop(N, Nat, 0, from, step)
    PROVE  \E g \in [0 .. N -> Nat] :
              g[0] = 0 /\ \A n \in 1 .. N : g[n] = step[n][g[from[n]]]
  BY Loops!LoopDefined

-----------------------------------------------------------------------------
(* Numbers. *)

LEMMA DigitsRight ==
    /\ DOMAIN DigitValue = {"0", "1", "2", "3", "4", "5", "6", "7", "8", "9"}
    /\ \A d \in DOMAIN DigitValue : DigitValue[d] \in Nat
    /\ DigitValue["8"] = 8 /\ DigitValue["9"] = 9
    /\ DigitValue["3"] = 3 /\ DigitValue["5"] = 5
    /\ DigitValue["0"] = 0 /\ DigitValue["1"] = 1
<1>1. \A n \in 1 .. 10 : n \in {1, 2, 3, 4, 5, 6, 7, 8, 9, 10}
  OBVIOUS
<1>2. {Digits[n] : n \in 1 .. 10} = {"0", "1", "2", "3", "4", "5", "6", "7", "8", "9"}
  BY <1>1 DEF Digits
<1>3. ASSUME NEW d \in {Digits[n] : n \in 1 .. 10}
      PROVE  DigitValue[d] \in Nat
  <2> DEFINE k == CHOOSE n \in 1 .. 10 : Digits[n] = d
  <2>1. k \in 1 .. 10
    OBVIOUS
  <2>2. DigitValue[d] = k - 1
    BY DEF DigitValue
  <2> QED
    BY <2>1, <2>2
<1>4. ASSUME NEW m \in 1 .. 10
      PROVE  DigitValue[Digits[m]] = m - 1
  <2>1. \A n \in 1 .. 10 : Digits[n] = Digits[m] => n = m
    BY <1>1 DEF Digits
  <2>2. (CHOOSE n \in 1 .. 10 : Digits[n] = Digits[m]) = m
    BY <2>1
  <2> QED
    BY <2>2 DEF DigitValue
<1>5. /\ Digits[9] = "8" /\ Digits[10] = "9" /\ Digits[4] = "3" /\ Digits[6] = "5"
      /\ Digits[1] = "0" /\ Digits[2] = "1"
  BY DEF Digits
<1>6. /\ DigitValue[Digits[9]] = 8 /\ DigitValue[Digits[10]] = 9
      /\ DigitValue[Digits[4]] = 3 /\ DigitValue[Digits[6]] = 5
      /\ DigitValue[Digits[1]] = 0 /\ DigitValue[Digits[2]] = 1
  BY <1>4
<1>7. DOMAIN DigitValue = {Digits[n] : n \in 1 .. 10}
  BY DEF DigitValue
<1> QED
  BY <1>2, <1>3, <1>5, <1>6, <1>7

\* The loop of Magnitude, round by round.
UpTo(s) ==
    CHOOSE g : g = [k \in 0 .. Len(s) |-> IF k = 0 THEN 0 ELSE 10 * g[k - 1] + DigitValue[s[k]]]

LEMMA MagnitudeRight ==
    ASSUME NEW S, NEW s \in Seq(S), AreDigits(s)
    PROVE  /\ Magnitude(s) \in Nat
           /\ Magnitude(s) = UpTo(s)[Len(s)]
           /\ UpTo(s)[0] = 0
           /\ \A k \in 1 .. Len(s) : UpTo(s)[k] = 10 * UpTo(s)[k - 1] + DigitValue[s[k]]
<1> DEFINE N == Len(s)
           Is(g) == g = [k \in 0 .. N |-> IF k = 0 THEN 0 ELSE 10 * g[k - 1] + DigitValue[s[k]]]
           value == CHOOSE g : Is(g)
           step == [k \in 1 .. N |-> [x \in Nat |-> 10 * x + DigitValue[s[k]]]]
           from == [k \in 1 .. N |-> k - 1]
<1>1. N \in Nat /\ \A k \in 1 .. N : DigitValue[s[k]] \in Nat
  BY LenProperties, DigitsRight DEF AreDigits
<1>2. Magnitude(s) = value[N] /\ UpTo(s) = value
  BY DEF Magnitude, UpTo
<1> HIDE DEF N
<1>3. \A k \in 1 .. N : from[k] \in 0 .. k - 1
  BY <1>1
<1>4. \A k \in 1 .. N, x \in Nat : step[k][x] \in Nat
  BY <1>1
<1> HIDE DEF step, from
<1>5. PICK g \in [0 .. N -> Nat] :
          g[0] = 0 /\ \A k \in 1 .. N : g[k] = step[k][g[from[k]]]
  <2>1. Loops!Loop(N, Nat, 0, from, step)
    BY <1>1, <1>3, <1>4 DEF Loops!Loop
  <2> QED
    BY <2>1, Loops!LoopDefined
<1>6. \A k \in 0 .. N : g[k] = IF k = 0 THEN 0 ELSE 10 * g[k - 1] + DigitValue[s[k]]
  <2>1. ASSUME NEW k \in 1 .. N
        PROVE  g[k] = 10 * g[k - 1] + DigitValue[s[k]]
    <3>1. from[k] = k - 1 /\ g[k - 1] \in Nat
      BY <1>1, <1>5 DEF from
    <3>2. step[k][g[k - 1]] = 10 * g[k - 1] + DigitValue[s[k]]
      BY <3>1 DEF step
    <3> QED
      BY <1>5, <3>1, <3>2
  <2> QED
    BY <2>1, <1>1, <1>5
<1>7. Is(g)
  BY <1>5, <1>6
<1> HIDE DEF Is
<1>8. Is(value)
  BY <1>7
<1>9. \A k \in 0 .. N : value[k] = IF k = 0 THEN 0 ELSE 10 * value[k - 1] + DigitValue[s[k]]
  BY <1>8 DEF Is
<1> HIDE DEF value
<1>10. ASSUME NEW k \in 0 .. N, \A m \in 0 .. k - 1 : value[m] \in Nat
       PROVE  value[k] \in Nat
  <2>1. CASE k = 0
    BY <2>1, <1>9
  <2>2. CASE k # 0
    <3>1. k \in 1 .. N /\ k - 1 \in 0 .. k - 1
      BY <2>2, <1>1
    <3>2. DigitValue[s[k]] \in Nat /\ value[k - 1] \in Nat
      BY <3>1, <1>1, <1>10
    <3>3. value[k] = 10 * value[k - 1] + DigitValue[s[k]]
      BY <2>2, <1>9
    <3> QED
      BY <3>2, <3>3
  <2> QED
    BY <2>1, <2>2
<1>11. \A k \in 0 .. N : value[k] \in Nat
  BY <1>1, <1>10, Loops!LoopStays
<1>12. value[0] = 0 /\ \A k \in 1 .. N : value[k] = 10 * value[k - 1] + DigitValue[s[k]]
  <2>1. value[0] = 0
    <3>1. 0 \in 0 .. N
      BY <1>1
    <3> QED
      BY <1>9, <3>1
  <2>2. ASSUME NEW k \in 1 .. N
        PROVE  value[k] = 10 * value[k - 1] + DigitValue[s[k]]
    <3>1. k \in 0 .. N /\ k # 0
      BY <1>1
    <3> QED
      BY <1>9, <3>1
  <2> QED
    BY <2>1, <2>2
<1>13. N \in 0 .. N
  BY <1>1
<1> QED
  BY <1>2, <1>11, <1>12, <1>13 DEF N

LEMMA NumberRight ==
    ASSUME NEW s, IsNumber(s)
    PROVE  Number(s) \in Int
  BY DeserialiseAssumption DEF IsNumber

\* A number of digits has no sign.
LEMMA DigitsNumber ==
    ASSUME NEW S, NEW s \in Seq(S), AreDigits(s)
    PROVE  /\ Unsigned(s) = s
           /\ Number(s) = Magnitude(s)
<1>1. s # <<>> /\ s[1] \in DOMAIN DigitValue
  <2>1. 1 \in DOMAIN s
    BY EmptySeq, LenProperties DEF AreDigits
  <2> QED
    BY <2>1 DEF AreDigits
<1>2. "+" \notin DOMAIN DigitValue /\ "-" \notin DOMAIN DigitValue
  BY DigitsRight
<1>3. ~Signed(s)
  BY <1>1, <1>2 DEF Signed
<1> QED
  BY <1>3 DEF Unsigned, Number

\* What lexical_cast takes has a byte, and none of them is SOH.
LEMMA NumberBytes ==
    ASSUME NEW T \in Seq(STRING), IsNumber(T)
    PROVE  Len(T) >= 1 /\ \A k \in 1 .. Len(T) : T[k] # SOH
<1>1. Len(T) \in Nat /\ DOMAIN T = 1 .. Len(T)
  BY LenProperties
<1>2. /\ Unsigned(T) # <<>>
      /\ \A k \in DOMAIN Unsigned(T) : Unsigned(T)[k] \in DOMAIN DigitValue
  BY DEF IsNumber, AreDigits
<1>3. SOH \notin DOMAIN DigitValue /\ SOH # "+" /\ SOH # "-"
  BY DigitsRight DEF SOH
<1>4. T # <<>>
  BY <1>2 DEF Unsigned, Signed
<1>5. Len(T) >= 1
  BY <1>1, <1>4, EmptySeq
<1>6. ASSUME NEW k \in 1 .. Len(T)
      PROVE  T[k] # SOH
  <2>1. CASE ~Signed(T)
    BY <1>1, <1>2, <1>3, <2>1 DEF Unsigned
  <2>2. CASE Signed(T) /\ k = 1
    BY <1>3, <2>2 DEF Signed
  <2>3. CASE Signed(T) /\ k # 1
    <3> DEFINE R == Tail(T)
               q == k - 1
    <3>1. /\ R \in Seq(STRING) /\ Len(R) = Len(T) - 1
          /\ \A i \in 1 .. Len(R) : R[i] = T[i + 1]
      BY <1>4, HeadTailProperties
    <3>2. q \in 1 .. Len(R) /\ q + 1 = k
      BY <1>1, <2>3, <3>1
    <3> HIDE DEF R, q
    <3>3. q \in DOMAIN R /\ R[q] = T[k]
      <4>1. DOMAIN R = 1 .. Len(R)
        BY <3>1, LenProperties
      <4> QED
        BY <3>1, <3>2, <4>1
    <3>4. Unsigned(T) = R
      BY <2>3 DEF Unsigned, R
    <3>5. R[q] \in DOMAIN DigitValue
      BY <1>2, <3>3, <3>4
    <3> QED
      BY <1>3, <3>3, <3>5
  <2> QED
    BY <2>1, <2>2, <2>3
<1> QED
  BY <1>5, <1>6

LEMMA FirstTags ==
    /\ IsNumber(<<"8">>) /\ Number(<<"8">>) = 8
    /\ IsNumber(<<"9">>) /\ Number(<<"9">>) = 9
    /\ IsNumber(<<"3", "5">>) /\ Number(<<"3", "5">>) = 35
    /\ IsNumber(<<"1", "0">>) /\ Number(<<"1", "0">>) = 10
<1>1. /\ "8" \in DOMAIN DigitValue /\ "9" \in DOMAIN DigitValue
      /\ "3" \in DOMAIN DigitValue /\ "5" \in DOMAIN DigitValue
      /\ "1" \in DOMAIN DigitValue /\ "0" \in DOMAIN DigitValue
  BY DigitsRight
<1>2. ASSUME NEW d \in DOMAIN DigitValue
      PROVE  AreDigits(<<d>>) /\ Number(<<d>>) = DigitValue[d]
  <2> DEFINE s == <<d>>
  <2>1. s \in Seq(DOMAIN DigitValue) /\ Len(s) = 1 /\ s[1] = d /\ s # <<>>
    OBVIOUS
  <2>2. AreDigits(s)
    <3>1. \A k \in DOMAIN s : k = 1
      OBVIOUS
    <3> HIDE DEF s
    <3>2. \A k \in DOMAIN s : s[k] \in DOMAIN DigitValue
      BY <2>1, <3>1
    <3> QED
      BY <2>1, <3>2, Zenon DEF AreDigits
  <2> HIDE DEF s
  <2>3. /\ Magnitude(s) = UpTo(s)[1] /\ UpTo(s)[0] = 0
        /\ \A k \in 1 .. 1 : UpTo(s)[k] = 10 * UpTo(s)[k - 1] + DigitValue[s[k]]
    BY <2>1, <2>2, MagnitudeRight
  <2>4. UpTo(s)[1] = 10 * UpTo(s)[1 - 1] + DigitValue[s[1]] /\ DigitValue[s[1]] \in Nat
    BY <2>1, <2>3, DigitsRight
  <2>5. Magnitude(s) = DigitValue[s[1]]
    BY <2>3, <2>4
  <2>6. Number(s) = Magnitude(s)
    BY <2>1, <2>2, DigitsNumber
  <2> QED
    BY <2>1, <2>2, <2>5, <2>6 DEF s
<1>3. ASSUME NEW d \in DOMAIN DigitValue, NEW f \in DOMAIN DigitValue
      PROVE  AreDigits(<<d, f>>) /\ Number(<<d, f>>) = 10 * DigitValue[d] + DigitValue[f]
  <2> DEFINE s == <<d, f>>
  <2>1. /\ s \in Seq(DOMAIN DigitValue) /\ Len(s) = 2 /\ s[1] = d /\ s[2] = f
        /\ s # <<>>
    OBVIOUS
  <2>2. AreDigits(s)
    <3>1. \A k \in DOMAIN s : k = 1 \/ k = 2
      OBVIOUS
    <3> HIDE DEF s
    <3>2. \A k \in DOMAIN s : s[k] \in DOMAIN DigitValue
      BY <2>1, <3>1
    <3> QED
      BY <2>1, <3>2, Zenon DEF AreDigits
  <2> HIDE DEF s
  <2>3. /\ Magnitude(s) = UpTo(s)[2] /\ UpTo(s)[0] = 0
        /\ \A k \in 1 .. 2 : UpTo(s)[k] = 10 * UpTo(s)[k - 1] + DigitValue[s[k]]
    BY <2>1, <2>2, MagnitudeRight
  <2>4. DigitValue[d] \in Nat /\ DigitValue[f] \in Nat
    BY DigitsRight
  <2>5. UpTo(s)[1] = 10 * UpTo(s)[0] + DigitValue[d] /\ UpTo(s)[2] = 10 * UpTo(s)[1] + DigitValue[f]
    <3>1. /\ UpTo(s)[1] = 10 * UpTo(s)[1 - 1] + DigitValue[s[1]]
          /\ UpTo(s)[2] = 10 * UpTo(s)[2 - 1] + DigitValue[s[2]]
      BY <2>3
    <3> QED
      BY <2>1, <3>1
  <2>6. UpTo(s)[1] = DigitValue[d]
    BY <2>3, <2>4, <2>5
  <2>7. Magnitude(s) = 10 * DigitValue[d] + DigitValue[f]
    BY <2>3, <2>5, <2>6
  <2>8. Number(s) = Magnitude(s)
    BY <2>1, <2>2, DigitsNumber
  <2> QED
    BY <2>2, <2>7, <2>8 DEF s
<1>4. ASSUME NEW s \in Seq(DOMAIN DigitValue), AreDigits(s),
             NEW N \in 0 .. 35, Number(s) = N
      PROVE  IsNumber(s)
  <2>1. Unsigned(s) = s
    BY <1>4, DigitsNumber
  <2>2. Number(s) \in - IntMax - 1 .. IntMax
    <3>1. N \in - IntMax - 1 .. IntMax
      BY DeserialiseAssumption
    <3> QED
      BY <1>4, <3>1, Zenon
  <2> QED
    BY <1>4, <2>1, <2>2 DEF IsNumber
<1>5. /\ AreDigits(<<"3", "5">>) /\ Number(<<"3", "5">>) = 35
      /\ AreDigits(<<"1", "0">>) /\ Number(<<"1", "0">>) = 10
  BY <1>1, <1>3, DigitsRight
<1>6. /\ AreDigits(<<"8">>) /\ Number(<<"8">>) = 8
      /\ AreDigits(<<"9">>) /\ Number(<<"9">>) = 9
  BY <1>1, <1>2, DigitsRight
<1>7. /\ <<"8">> \in Seq(DOMAIN DigitValue) /\ <<"9">> \in Seq(DOMAIN DigitValue)
      /\ <<"3", "5">> \in Seq(DOMAIN DigitValue) /\ <<"1", "0">> \in Seq(DOMAIN DigitValue)
  BY <1>1
<1>8. 8 \in 0 .. 35 /\ 9 \in 0 .. 35 /\ 35 \in 0 .. 35 /\ 10 \in 0 .. 35
  OBVIOUS
<1>9. /\ IsNumber(<<"8">>) /\ IsNumber(<<"9">>)
      /\ IsNumber(<<"3", "5">>) /\ IsNumber(<<"1", "0">>)
  BY <1>4, <1>5, <1>6, <1>7, <1>8, Zenon
<1> QED
  BY <1>5, <1>6, <1>9

-----------------------------------------------------------------------------
(* Where the messages end. *)

\* End(n) of any sequence of messages, and its loop, round by round.
EndOf(s, n) ==
    LET end[k \in 0 .. n] == IF k = 0 THEN 0 ELSE end[k - 1] + Len(s[k].bytes)
    IN  end[n]
EndsTo(s, n) ==
    CHOOSE g : g = [k \in 0 .. n |-> IF k = 0 THEN 0 ELSE g[k - 1] + Len(s[k].bytes)]

LEMMA BytesOf ==
    ASSUME NEW s \in Seq(Messages), NEW n \in 1 .. Len(s)
    PROVE  s[n].bytes \in Seq(STRING) /\ Len(s[n].bytes) \in Nat
<1>1. s[n] \in Messages
  BY ElementOfSeq
<1>2. s[n].bytes \in Seq(STRING)
  BY <1>1, DeserialiseAssumption
<1> QED
  BY <1>2, LenProperties

LEMMA EndLoop ==
    ASSUME NEW s, NEW n \in Nat, \A k \in 1 .. n : Len(s[k].bytes) \in Nat
    PROVE  /\ EndOf(s, n) = EndsTo(s, n)[n]
           /\ EndsTo(s, n)[0] = 0
           /\ \A k \in 1 .. n : EndsTo(s, n)[k] = EndsTo(s, n)[k - 1] + Len(s[k].bytes)
           /\ \A k \in 0 .. n : EndsTo(s, n)[k] \in Nat
<1> DEFINE N == n
           Is(g) == g = [k \in 0 .. N |-> IF k = 0 THEN 0 ELSE g[k - 1] + Len(s[k].bytes)]
           ends == CHOOSE g : Is(g)
           step == [k \in 1 .. N |-> [x \in Nat |-> x + Len(s[k].bytes)]]
           from == [k \in 1 .. N |-> k - 1]
<1>1. N \in Nat /\ \A k \in 1 .. N : Len(s[k].bytes) \in Nat
  OBVIOUS
<1>2. EndOf(s, N) = ends[N] /\ EndsTo(s, N) = ends
  BY DEF EndOf, EndsTo
<1> HIDE DEF N
<1>3. \A k \in 1 .. N : from[k] \in 0 .. k - 1
  BY <1>1
<1>4. \A k \in 1 .. N, x \in Nat : step[k][x] \in Nat
  BY <1>1
<1> HIDE DEF step, from
<1>5. PICK g \in [0 .. N -> Nat] :
          g[0] = 0 /\ \A k \in 1 .. N : g[k] = step[k][g[from[k]]]
  <2>1. Loops!Loop(N, Nat, 0, from, step)
    BY <1>1, <1>3, <1>4 DEF Loops!Loop
  <2> QED
    BY <2>1, LoopNat
<1>6. \A k \in 0 .. N : g[k] = IF k = 0 THEN 0 ELSE g[k - 1] + Len(s[k].bytes)
  <2>1. ASSUME NEW k \in 1 .. N
        PROVE  g[k] = g[k - 1] + Len(s[k].bytes)
    <3>1. from[k] = k - 1 /\ g[k - 1] \in Nat
      BY <1>1, <1>5 DEF from
    <3>2. step[k][g[k - 1]] = g[k - 1] + Len(s[k].bytes)
      BY <3>1 DEF step
    <3> QED
      BY <1>5, <3>1, <3>2
  <2> QED
    BY <2>1, <1>1, <1>5
<1>7. Is(g)
  BY <1>5, <1>6
<1> HIDE DEF Is
<1>8. Is(ends)
  BY <1>7
<1>9. \A k \in 0 .. N : ends[k] = IF k = 0 THEN 0 ELSE ends[k - 1] + Len(s[k].bytes)
  BY <1>8 DEF Is
<1> HIDE DEF ends
<1>10. ends[0] = 0
  <2>1. 0 \in 0 .. N
    BY <1>1
  <2> QED
    BY <1>9, <2>1
<1>11. ASSUME NEW k \in 1 .. N
       PROVE  ends[k] = ends[k - 1] + Len(s[k].bytes)
  <2>1. k \in 0 .. N /\ k # 0
    BY <1>1
  <2> QED
    BY <1>9, <2>1
<1>12. ASSUME NEW k \in 0 .. N, \A m \in 0 .. k - 1 : ends[m] \in Nat
       PROVE  ends[k] \in Nat
  <2>1. CASE k = 0
    BY <2>1, <1>10
  <2>2. CASE k # 0
    <3>1. k \in 1 .. N /\ k - 1 \in 0 .. k - 1
      BY <2>2, <1>1
    <3>2. Len(s[k].bytes) \in Nat /\ ends[k - 1] \in Nat
      BY <3>1, <1>1, <1>12
    <3>3. ends[k] = ends[k - 1] + Len(s[k].bytes)
      BY <3>1, <1>11
    <3> QED
      BY <3>2, <3>3
  <2> QED
    BY <2>1, <2>2
<1>13. \A k \in 0 .. N : ends[k] \in Nat
  BY <1>1, <1>12, Loops!LoopStays
<1> QED
  BY <1>2, <1>10, <1>11, <1>13 DEF N

LEMMA EndAgrees ==
    ASSUME NEW s \in Seq(Messages), NEW N \in 0 .. Len(s),
           NEW u \in Seq(Messages), NEW M \in 0 .. Len(u),
           NEW Q \in 0 .. N, Q <= M, \A k \in 1 .. Q : s[k] = u[k]
    PROVE  EndsTo(s, N)[Q] = EndsTo(u, M)[Q]
<1>1. Len(s) \in Nat /\ Len(u) \in Nat /\ Q \in Nat
  BY LenProperties
<1> DEFINE x == EndsTo(s, N)
           y == EndsTo(u, M)
           g == [k \in 0 .. Q |-> IF x[k] = y[k] THEN 0 ELSE 1]
<1>2. /\ x[0] = 0 /\ \A k \in 1 .. N : x[k] = x[k - 1] + Len(s[k].bytes)
      /\ y[0] = 0 /\ \A k \in 1 .. M : y[k] = y[k - 1] + Len(u[k].bytes)
  <2>1. /\ N \in Nat /\ \A k \in 1 .. N : Len(s[k].bytes) \in Nat
        /\ M \in Nat /\ \A k \in 1 .. M : Len(u[k].bytes) \in Nat
    BY <1>1, BytesOf
  <2> QED
    BY <2>1, EndLoop
<1> HIDE DEF x, y
<1>3. ASSUME NEW k \in 0 .. Q, \A m \in 0 .. k - 1 : g[m] \in {0}
      PROVE  g[k] \in {0}
  <2>1. CASE k = 0
    BY <1>2, <2>1
  <2>2. CASE k # 0
    <3>1. k \in 1 .. N /\ k \in 1 .. M /\ k \in 1 .. Q /\ k - 1 \in 0 .. k - 1 /\ k - 1 \in 0 .. Q
      BY <1>1, <2>2
    <3>2. x[k - 1] = y[k - 1]
      <4>1. g[k - 1] = 0
        BY <1>3, <3>1
      <4> QED
        BY <3>1, <4>1
    <3>3. x[k] = y[k]
      BY <1>2, <3>1, <3>2
    <3> QED
      BY <3>3
  <2> QED
    BY <2>1, <2>2
<1>4. g[Q] \in {0}
  <2> HIDE DEF g
  <2>1. \A k \in 0 .. Q : g[k] \in {0}
    BY <1>1, <1>3, Loops!LoopStays
  <2>2. Q \in 0 .. Q
    BY <1>1
  <2> QED
    BY <2>1, <2>2
<1>5. x[Q] = y[Q]
  BY <1>1, <1>4
<1> QED
  BY <1>5 DEF x, y

\* Each message ends behind the one before, and stays where it is when others follow.
LEMMA EndRight ==
    ASSUME NEW s \in Seq(Messages)
    PROVE  /\ EndOf(s, 0) = 0
           /\ \A n \in 1 .. Len(s) : EndOf(s, n) = EndOf(s, n - 1) + Len(s[n].bytes)
           /\ \A n \in 0 .. Len(s) : EndOf(s, n) \in Nat
<1>1. Len(s) \in Nat
  BY LenProperties
<1>2. ASSUME NEW n \in 0 .. Len(s)
      PROVE  EndOf(s, n) \in Nat /\ (n = 0 => EndOf(s, n) = 0)
  <2>1. n \in Nat /\ n \in 0 .. n /\ \A k \in 1 .. n : Len(s[k].bytes) \in Nat
    BY <1>1, BytesOf
  <2> QED
    BY <2>1, EndLoop
<1>3. ASSUME NEW n \in 1 .. Len(s)
      PROVE  EndOf(s, n) = EndOf(s, n - 1) + Len(s[n].bytes)
  <2>1. /\ n \in 0 .. Len(s) /\ n - 1 \in 0 .. Len(s) /\ n \in 1 .. n
        /\ n - 1 \in 0 .. n /\ n - 1 <= n - 1
    BY <1>1
  <2>2. EndsTo(s, n)[n - 1] = EndsTo(s, n - 1)[n - 1]
    BY <2>1, EndAgrees
  <2>3. n \in Nat /\ n - 1 \in Nat /\ \A k \in 1 .. n : Len(s[k].bytes) \in Nat
    BY <1>1, BytesOf
  <2>4. EndOf(s, n) = EndsTo(s, n)[n] /\ EndsTo(s, n)[n] = EndsTo(s, n)[n - 1] + Len(s[n].bytes)
    BY <2>1, <2>3, EndLoop
  <2>5. EndOf(s, n - 1) = EndsTo(s, n - 1)[n - 1]
    BY <2>3, EndLoop
  <2> QED
    BY <2>2, <2>4, <2>5
<1>4. EndOf(s, 0) = 0
  BY <1>1, <1>2
<1> QED
  BY <1>2, <1>3, <1>4

LEMMA EndStays ==
    ASSUME NEW s \in Seq(Messages), NEW m \in Messages, NEW n \in 0 .. Len(s)
    PROVE  /\ Append(s, m) \in Seq(Messages) /\ Len(Append(s, m)) = Len(s) + 1
           /\ EndOf(Append(s, m), n) = EndOf(s, n)
<1> DEFINE u == Append(s, m)
<1>1. /\ u \in Seq(Messages) /\ Len(u) = Len(s) + 1 /\ \A k \in 1 .. Len(s) : u[k] = s[k]
      /\ Len(s) \in Nat
  BY AppendProperties, LenProperties
<1> HIDE DEF u
<1>2. n \in 0 .. Len(u) /\ n \in 0 .. n /\ \A k \in 1 .. n : s[k] = u[k]
  BY <1>1
<1>3. EndsTo(s, n)[n] = EndsTo(u, n)[n]
  BY <1>1, <1>2, EndAgrees
<1>4. EndOf(u, n) = EndOf(s, n)
  <2>1. /\ n \in Nat /\ \A k \in 1 .. n : Len(s[k].bytes) \in Nat
        /\ \A k \in 1 .. n : Len(u[k].bytes) \in Nat
    BY <1>1, BytesOf
  <2> QED
    BY <1>3, <2>1, EndLoop
<1> QED
  BY <1>1, <1>4 DEF u

-----------------------------------------------------------------------------
(* Searching the stream. *)

\* c is not in [i, j - 1) of s.
Free(s, c, i, j) == \A k \in i + 1 .. j - 1 : s[k] # c

LEMMA FindRight ==
    ASSUME NEW c, NEW i \in Nat, NEW j \in Nat, Has(c, i, j)
    PROVE  /\ Find(c, i, j) \in 0 .. j - i - 1
           /\ stream[i + 1 + Find(c, i, j)] = c
           /\ \A l \in 0 .. Find(c, i, j) - 1 : stream[i + 1 + l] # c
<1> DEFINE B == {k \in 0 .. j - i - 1 : stream[i + 1 + k] = c}
<1>1. B \in SUBSET Nat /\ B # {}
  <2>1. PICK p \in i + 1 .. j : stream[p] = c
    BY DEF Has
  <2> DEFINE q == p - i - 1
  <2>2. q \in 0 .. j - i - 1 /\ i + 1 + q = p
    OBVIOUS
  <2> HIDE DEF q
  <2>3. q \in B
    BY <2>1, <2>2
  <2>4. B \in SUBSET Nat
    OBVIOUS
  <2> HIDE DEF B
  <2> QED
    BY <2>3, <2>4
<1>2. PICK k \in B : \A m \in B : k <= m
  <2> HIDE DEF B
  <2> QED
    BY <1>1, Loops!Least
<1>3. k \in 0 .. j - i - 1 /\ stream[i + 1 + k] = c
  OBVIOUS
<1>4. \A l \in 0 .. k - 1 : stream[i + 1 + l] # c
  <2>1. \A l \in 0 .. k - 1 : l \in 0 .. j - i - 1 /\ ~(k <= l)
    BY <1>3
  <2> QED
    BY <1>2, <2>1
<1> QED
  BY <1>3, <1>4 DEF Find

\* The first one is the one that is found.
LEMMA FindFirst ==
    ASSUME NEW c, NEW i \in Nat, NEW j \in Nat, NEW p \in i + 1 .. j,
           stream[p] = c, Free(stream, c, i, p)
    PROVE  Has(c, i, j) /\ Find(c, i, j) = p - i - 1
<1>0. \A q \in i + 1 .. p - 1 : stream[q] # c
  BY DEF Free
<1>1. Has(c, i, j)
  BY DEF Has
<1> DEFINE f == Find(c, i, j)
<1>2. /\ f \in 0 .. j - i - 1 /\ stream[i + 1 + f] = c
      /\ \A l \in 0 .. f - 1 : stream[i + 1 + l] # c
  BY <1>1, FindRight
<1> HIDE DEF f
<1>3. ~(f < p - i - 1)
  <2>1. f < p - i - 1 => i + 1 + f \in i + 1 .. p - 1
    BY <1>2
  <2> QED
    BY <1>0, <1>2, <2>1
<1>4. ~(f > p - i - 1)
  <2>1. f > p - i - 1 => p - i - 1 \in 0 .. f - 1 /\ i + 1 + (p - i - 1) = p
    BY <1>2
  <2> QED
    BY <1>2, <2>1
<1>5. f = p - i - 1
  BY <1>2, <1>3, <1>4
<1> QED
  BY <1>1, <1>5 DEF f

LEMMA FieldWidthRight ==
    ASSUME NEW i \in Nat, NEW j \in Nat
    PROVE  FieldWidth(i, j) \in 0 .. j - i \/ FieldWidth(i, j) = 0
  BY FindRight DEF FieldWidth

LEMMA BytesRight ==
    ASSUME stream \in Seq(STRING), NEW i \in Nat, NEW j \in 0 .. Len(stream)
    PROVE  /\ Bytes(i, j) \in Seq(STRING)
           /\ Len(Bytes(i, j)) = IF i < j THEN j - i ELSE 0
           /\ \A k \in 1 .. j - i : Bytes(i, j)[k] = stream[i + k]
<1>1. i + 1 >= 1 /\ Len(stream) \in Nat
  BY LenProperties
<1>2. CASE i < j
  <2>1. i + 1 \in 1 .. Len(stream) /\ i + 1 <= j
    BY <1>1, <1>2
  <2> QED
    BY <1>1, <2>1, SubSeqProperties DEF Bytes
<1>3. CASE ~(i < j)
  <2>1. Bytes(i, j) = << >>
    BY <1>1, <1>3, SubSeqProperties DEF Bytes
  <2> QED
    BY <2>1, <1>3
<1> QED
  BY <1>2, <1>3

LEMMA FieldValueRight ==
    ASSUME stream \in Seq(STRING), NEW i \in Nat, NEW j \in 0 .. Len(stream)
    PROVE  FieldValue(i, j) \in Seq(STRING)
<1>1. Len(stream) \in Nat /\ j \in Nat
  BY LenProperties
<1> DEFINE e == IF Has(SOH, i, j) THEN i + Find(SOH, i, j) ELSE j
<1>2. e \in 0 .. Len(stream)
  BY <1>1, FindRight
<1>3. FieldValue(i, j) = IF Has("=", i, e) THEN Bytes(i + Find("=", i, e) + 1, e) ELSE Bytes(i, e)
  BY DEF FieldValue
<1> HIDE DEF e
<1>4. CASE Has("=", i, e)
  <2>1. i + Find("=", i, e) + 1 \in Nat
    BY <1>1, <1>2, <1>4, FindRight
  <2> QED
    BY <1>2, <1>3, <1>4, <2>1, BytesRight
<1>5. CASE ~Has("=", i, e)
  BY <1>2, <1>3, <1>5, BytesRight
<1> QED
  BY <1>4, <1>5

-----------------------------------------------------------------------------
(* The messages in the stream. *)

StreamInv ==
    /\ sent \in Seq(Messages)
    /\ stream \in Seq(STRING)
    /\ Len(stream) = EndOf(sent, Len(sent))
    /\ \A n \in 1 .. Len(sent) : \A p \in 1 .. Len(sent[n].bytes) :
          stream[EndOf(sent, n - 1) + p] = sent[n].bytes[p]

LEMMA EndIs ==
    ASSUME NEW n
    PROVE  End(n) = EndOf(sent, n)
  BY DEF End, EndOf

\* A message has a byte.
LEMMA NoMessageEmpty ==
    ASSUME NEW m \in Messages
    PROVE  m.bytes \in Seq(STRING) /\ Len(m.bytes) \in Nat \ {0} /\ m.type \in Seq(STRING)
<1>1. m.bytes \in Seq(STRING) /\ m.type \in Seq(STRING) /\ Len(m.bytes) \in Nat
  BY DeserialiseAssumption, LenProperties
<1>2. IsLegal(m)
  BY LegalAssumption
<1>3. PICK v \in DOMAIN m.bytes : TRUE
  BY <1>2 DEF IsLegal
<1>4. v \in 1 .. Len(m.bytes)
  BY <1>1, <1>3, LenProperties
<1> QED
  BY <1>1, <1>4

LEMMA Ends ==
    ASSUME sent \in Seq(Messages)
    PROVE  /\ Len(sent) \in Nat
           /\ End(0) = 0
           /\ \A n \in 0 .. Len(sent) : End(n) \in Nat
           /\ \A n \in 1 .. Len(sent) : sent[n] \in Messages
           /\ \A n \in 1 .. Len(sent) : End(n) = End(n - 1) + Len(sent[n].bytes)
           /\ \A n \in 1 .. Len(sent) : Len(sent[n].bytes) \in Nat \ {0}
<1>1. Len(sent) \in Nat /\ \A n \in 1 .. Len(sent) : sent[n] \in Messages
  BY ElementOfSeq, LenProperties
<1> QED
  BY <1>1, EndIs, EndRight, NoMessageEmpty

\* Of two messages the later one ends later.
LEMMA EndOfGrows ==
    ASSUME NEW s \in Seq(Messages), NEW m \in 0 .. Len(s), NEW n \in 0 .. Len(s), m < n
    PROVE  EndOf(s, m) < EndOf(s, n)
<1> DEFINE B == {k \in m + 1 .. Len(s) : ~(EndOf(s, m) < EndOf(s, k))}
<1>1. Len(s) \in Nat
  BY LenProperties
<1>2. CASE B = {}
  <2>1. n \in m + 1 .. Len(s)
    BY <1>1
  <2> QED
    BY <1>2, <2>1
<1>3. CASE B # {}
  <2>1. B \in SUBSET Nat
    BY <1>1
  <2>2. PICK k \in B : \A l \in B : k <= l
    <3> HIDE DEF B
    <3> QED
      BY <1>3, <2>1, Loops!Least
  <2>3. k \in m + 1 .. Len(s) /\ ~(EndOf(s, m) < EndOf(s, k))
    OBVIOUS
  <2>4. k \in 1 .. Len(s) /\ k \in 0 .. Len(s) /\ k - 1 \in 0 .. Len(s)
    BY <1>1, <2>3
  <2>5. /\ EndOf(s, k - 1) < EndOf(s, k)
        /\ EndOf(s, k - 1) \in Nat /\ EndOf(s, k) \in Nat /\ EndOf(s, m) \in Nat
    <3>1. EndOf(s, k - 1) \in Nat /\ EndOf(s, k) \in Nat /\ EndOf(s, m) \in Nat
      BY <2>4, EndRight
    <3>2. EndOf(s, k) = EndOf(s, k - 1) + Len(s[k].bytes)
      BY <2>4, EndRight
    <3>3. Len(s[k].bytes) \in Nat \ {0}
      BY <2>4, ElementOfSeq, NoMessageEmpty
    <3> QED
      BY <3>1, <3>2, <3>3
  <2>6. EndOf(s, m) <= EndOf(s, k - 1)
    <3>1. CASE k - 1 = m
      BY <2>5, <3>1
    <3>2. CASE k - 1 # m
      <4>1. k - 1 \in m + 1 .. Len(s) /\ k - 1 \notin B
        BY <1>1, <2>2, <2>3, <3>2
      <4>2. EndOf(s, m) < EndOf(s, k - 1)
        BY <4>1
      <4> QED
        BY <2>5, <4>2
    <3> QED
      BY <3>1, <3>2
  <2> QED
    BY <2>3, <2>5, <2>6
<1> QED
  BY <1>2, <1>3

LEMMA EndsGrow ==
    ASSUME sent \in Seq(Messages), NEW m \in 0 .. Len(sent), NEW n \in 0 .. Len(sent), m < n
    PROVE  End(m) < End(n)
  BY EndIs, EndOfGrows

\* Every byte is one of a message.
LEMMA InMessage ==
    ASSUME StreamInv, NEW p \in 1 .. Len(stream)
    PROVE  \E n \in 1 .. Len(sent) : p \in End(n - 1) + 1 .. End(n)
<1>0. sent \in Seq(Messages) /\ Len(stream) = End(Len(sent)) /\ Len(stream) \in Nat
  BY EndIs, LenProperties DEF StreamInv
<1> DEFINE B == {k \in 0 .. Len(sent) : p <= End(k)}
<1>1. Len(sent) \in Nat /\ Len(sent) \in 0 .. Len(sent)
  BY <1>0, Ends
<1>2. B \in SUBSET Nat /\ Len(sent) \in B
  BY <1>0, <1>1, Ends
<1>3. PICK k \in B : \A l \in B : k <= l
  <2> HIDE DEF B
  <2> QED
    BY <1>2, Loops!Least
<1>4. k \in 0 .. Len(sent) /\ p <= End(k)
  OBVIOUS
<1>5. k # 0
  BY <1>0, <1>4, Ends
<1>6. k - 1 \in 0 .. Len(sent) /\ k \in 1 .. Len(sent) /\ k - 1 \notin B
  BY <1>1, <1>3, <1>4, <1>5
<1>7. ~(p <= End(k - 1)) /\ End(k - 1) \in Nat /\ End(k) \in Nat
  BY <1>0, <1>4, <1>6, Ends
<1> QED
  BY <1>4, <1>6, <1>7

LEMMA StreamInit == Init => StreamInv
<1>1. << >> \in Seq(Messages) /\ Len(<< >>) = 0 /\ << >> \in Seq(STRING)
  OBVIOUS
<1> SUFFICES ASSUME Init PROVE StreamInv
  OBVIOUS
<1>2. EndOf(<< >>, 0) = 0
  BY <1>1, EndRight
<1> QED
  BY <1>1, <1>2 DEF Init, StreamInv

\* What the peer sends comes behind what it has sent.
LEMMA StreamGrows ==
    ASSUME StreamInv, NEW m \in Messages, PeerSends(m)
    PROVE  /\ StreamInv'
           /\ \A n \in 0 .. Len(sent) : End(n)' = End(n)
           /\ Len(sent') = Len(sent) + 1 /\ \A n \in 1 .. Len(sent) : sent'[n] = sent[n]
           /\ sent'[Len(sent) + 1] = m
           /\ Len(stream') = Len(stream) + Len(m.bytes)
           /\ \A p \in 1 .. Len(stream) : stream'[p] = stream[p]
<1> DEFINE N == Len(sent)
           L == Len(stream)
           b == m.bytes
<1>1. sent' = Append(sent, m) /\ stream' = stream \o b
  BY DEF PeerSends
<1>2. /\ sent \in Seq(Messages) /\ stream \in Seq(STRING) /\ L = End(N)
      /\ \A n \in 1 .. N : \A p \in 1 .. Len(sent[n].bytes) :
            stream[End(n - 1) + p] = sent[n].bytes[p]
  BY EndIs DEF StreamInv
<1>3. N \in Nat /\ L \in Nat /\ b \in Seq(STRING) /\ Len(b) \in Nat \ {0}
  BY <1>2, LenProperties, NoMessageEmpty
<1>4. /\ sent' \in Seq(Messages) /\ Len(sent') = N + 1
      /\ \A n \in 1 .. N : sent'[n] = sent[n]
      /\ sent'[N + 1] = m
  BY <1>1, <1>2, AppendProperties
<1>5. /\ stream' \in Seq(STRING) /\ Len(stream') = L + Len(b)
      /\ \A p \in 1 .. L : stream'[p] = stream[p]
      /\ \A p \in 1 .. Len(b) : stream'[L + p] = b[p]
  <2>1. /\ stream' \in Seq(STRING) /\ Len(stream') = L + Len(b)
        /\ \A p \in 1 .. L + Len(b) : stream'[p] = IF p <= L THEN stream[p] ELSE b[p - L]
    BY <1>1, <1>2, <1>3, ConcatProperties
  <2> HIDE DEF L, b
  <2>2. ASSUME NEW p \in 1 .. L
        PROVE  stream'[p] = stream[p]
    <3>1. p \in 1 .. L + Len(b) /\ p <= L
      BY <1>3
    <3> QED
      BY <2>1, <3>1
  <2>3. ASSUME NEW p \in 1 .. Len(b)
        PROVE  stream'[L + p] = b[p]
    <3> DEFINE q == L + p
    <3>1. q \in 1 .. L + Len(b) /\ ~(q <= L) /\ q - L = p
      BY <1>3
    <3> HIDE DEF q
    <3>2. stream'[q] = b[q - L]
      BY <2>1, <3>1
    <3>3. stream'[q] = b[p]
      BY <3>1, <3>2
    <3> QED
      BY <3>3 DEF q
  <2> QED
    BY <2>1, <2>2, <2>3
<1> DEFINE ends(n) == EndOf(sent', n)
<1>6. ASSUME NEW n
      PROVE  End(n)' = ends(n)
  BY DEF End, EndOf
<1>7. \A n \in 0 .. N : ends(n) = End(n)
  BY <1>1, <1>2, EndIs, EndStays
<1>8. ends(N + 1) = L + Len(b)
  <2>1. N + 1 \in 1 .. Len(sent') /\ N \in 0 .. N /\ N + 1 - 1 = N
    BY <1>3, <1>4
  <2>2. EndOf(sent', N + 1) = EndOf(sent', N + 1 - 1) + Len(sent'[N + 1].bytes)
    BY <1>4, <2>1, EndRight
  <2> QED
    BY <1>2, <1>4, <1>7, <2>1, <2>2
<1> HIDE DEF ends
<1>9. ASSUME NEW n \in 1 .. N + 1, NEW p \in 1 .. Len(sent'[n].bytes)
      PROVE  stream'[ends(n - 1) + p] = sent'[n].bytes[p]
  <2>1. CASE n = N + 1
    <3>1. n - 1 = N /\ N \in 0 .. N
      BY <1>3, <2>1
    <3>2. ends(n - 1) = L /\ sent'[n] = m
      BY <1>2, <1>4, <1>7, <2>1, <3>1
    <3> QED
      BY <1>5, <3>2
  <2>2. CASE n # N + 1
    <3>1. n \in 1 .. N /\ n - 1 \in 0 .. N /\ n \in 0 .. N
      BY <1>3, <2>2
    <3>2. sent'[n] = sent[n] /\ ends(n - 1) = End(n - 1)
      BY <1>4, <1>7, <3>1
    <3>3. /\ End(n) = End(n - 1) + Len(sent[n].bytes) /\ End(n - 1) \in Nat /\ End(n) \in Nat
          /\ Len(sent[n].bytes) \in Nat
      BY <1>2, <3>1, Ends
    <3>4. End(n) <= L
      <4>1. CASE n = N
        BY <1>2, <1>3, <4>1
      <4>2. CASE n # N
        <5>1. n < N /\ N \in 0 .. N
          BY <1>3, <3>1, <4>2
        <5>2. End(n) < End(N)
          BY <1>2, <3>1, <5>1, EndsGrow
        <5> QED
          BY <1>2, <1>3, <3>3, <5>2
      <4> QED
        BY <4>1, <4>2
    <3>5. p \in Nat /\ p <= Len(sent[n].bytes) /\ p >= 1
      BY <3>2, <3>3
    <3>6. End(n - 1) + p \in 1 .. L
      BY <1>3, <3>3, <3>4, <3>5
    <3> QED
      BY <1>2, <1>5, <3>1, <3>2, <3>6
  <2> QED
    BY <2>1, <2>2
<1>10. StreamInv'
  <2>1. StreamInv' <=>
          /\ sent' \in Seq(Messages)
          /\ stream' \in Seq(STRING)
          /\ Len(stream') = ends(Len(sent'))
          /\ \A n \in 1 .. Len(sent') : \A p \in 1 .. Len(sent'[n].bytes) :
                stream'[ends(n - 1) + p] = sent'[n].bytes[p]
    BY DEF StreamInv, ends
  <2> QED
    BY <1>4, <1>5, <1>8, <1>9, <2>1
<1> QED
  BY <1>4, <1>5, <1>6, <1>7, <1>10

-----------------------------------------------------------------------------
(* Where a call may leave _remBuffer, and TypeOK. *)

ReadInv ==
    /\ read \in 0 .. Len(stream)
    /\ rem \in 0 .. read
    /\ terminated \in BOOLEAN
    /\ delivered \in Seq([type : KnownTypes, from : Nat, to : Nat])
    /\ \A i \in 1 .. Len(delivered) :
          delivered[i].from \in 0 .. read /\ delivered[i].to \in delivered[i].from .. read
    /\ \A i, j \in 1 .. Len(delivered) : i < j => delivered[i].to <= delivered[j].from

Inv == StreamInv /\ ReadInv

LEMMA Numbers ==
    ASSUME Inv
    PROVE  /\ Len(stream) \in Nat /\ read \in Nat /\ rem \in Nat
           /\ rem <= read /\ read <= Len(stream)
           /\ sent \in Seq(Messages) /\ stream \in Seq(STRING)
           /\ Len(stream) = End(Len(sent))
<1>1. Len(stream) \in Nat /\ sent \in Seq(Messages) /\ stream \in Seq(STRING)
  BY LenProperties DEF Inv, StreamInv
<1>2. Len(stream) = End(Len(sent))
  BY EndIs DEF Inv, StreamInv
<1> QED
  BY <1>1, <1>2 DEF Inv, ReadInv

\* A message that was sent is in the stream.
LEMMA EndsInStream ==
    ASSUME Inv, NEW n \in 0 .. Len(sent)
    PROVE  End(n) \in 0 .. Len(stream)
<1>1. /\ sent \in Seq(Messages) /\ Len(stream) = End(Len(sent)) /\ Len(sent) \in Nat
      /\ End(n) \in Nat /\ Len(stream) \in Nat
  BY Numbers, Ends
<1>2. CASE n = Len(sent)
  BY <1>1, <1>2
<1>3. CASE n # Len(sent)
  <2>1. Len(sent) \in 0 .. Len(sent) /\ n < Len(sent)
    BY <1>1, <1>3
  <2>2. End(n) < End(Len(sent))
    BY <1>1, <2>1, EndsGrow
  <2> QED
    BY <1>1, <2>2
<1> QED
  BY <1>2, <1>3

LEMMA ReadsInStream ==
    ASSUME Inv, NEW e \in MayEnd
    PROVE  e \in 0 .. Len(stream)
<1>1. CASE Segmentation = "any"
  BY <1>1, Numbers DEF MayEnd
<1>2. CASE Segmentation = "coalescing"
  <2>1. e \in {End(n) : n \in 1 .. Len(sent)}
    BY <1>2 DEF MayEnd
  <2>2. PICK n \in 1 .. Len(sent) : e = End(n)
    BY <2>1
  <2>3. n \in 0 .. Len(sent)
    BY Numbers, Ends
  <2> QED
    BY <2>2, <2>3, EndsInStream
<1>3. CASE Segmentation = "perMessage"
  <2>1. e \in {End(n) : n \in {m \in 1 .. Len(sent) : End(m - 1) = read}}
    BY <1>3 DEF MayEnd
  <2>2. PICK n \in 1 .. Len(sent) : e = End(n)
    BY <2>1
  <2>3. n \in 0 .. Len(sent)
    BY Numbers, Ends
  <2> QED
    BY <2>2, <2>3, EndsInStream
<1> QED
  BY <1>1, <1>2, <1>3, DeserialiseAssumption

\* A call that does not throw has found the three fields and the body length in
\* front, and the string it cuts ends within what was read.
LEMMA CallRight ==
    ASSUME Inv, NEW e \in 0 .. Len(stream), e > read, ~Throws(e)
    PROVE  /\ BodyLengthAt(e) \in rem .. e - 1
           /\ MsgTypeAt(e) \in BodyLengthAt(e) .. e
           /\ IsNumber(FieldValue(BodyLengthAt(e), e))
           /\ ChecksumPos(e) + 1 \in 0 .. e - read
           /\ MsgEndPos(e) = ChecksumPos(e) + FieldWidth(read + ChecksumPos(e) + 1, e)
           /\ MsgEndPos(e) \in ChecksumPos(e) .. e - read - 1
           /\ Remainder(e) \in read .. e
<1> DEFINE x == BodyLengthAt(e)
           y == MsgTypeAt(e)
           N == Number(FieldValue(x, e))
           c == ChecksumPos(e)
           w == FieldWidth(read + c + 1, e)
           p == MsgEndPos(e)
<1>1. e \in Nat /\ read \in Nat /\ rem \in Nat /\ rem <= read /\ stream \in Seq(STRING)
  BY Numbers
<1>2. x \in rem .. e
  <2>1. FieldWidth(rem, e) \in 0 .. e - rem
    BY <1>1, FieldWidthRight
  <2> QED
    BY <1>1, <2>1 DEF BodyLengthAt
<1>3. x # e
  <2>1. x = e => p = e - rem
    BY DEF MsgEndPos
  <2>2. ~(p + 1 > e - read)
    BY DEF Throws
  <2> HIDE DEF x, p
  <2> QED
    BY <1>1, <2>1, <2>2
<1>4. x \in rem .. e - 1 /\ x \in Nat
  BY <1>1, <1>2, <1>3
<1>5. IsNumber(FieldValue(x, e)) /\ c + 1 \in 0 .. e - read /\ ~(p + 1 > e - read)
  BY <1>1, <1>4 DEF Throws
<1>6. N \in Int
  BY <1>5, NumberRight
<1>7. y \in x .. e
  <2>1. FieldWidth(x, e) \in 0 .. e - x
    BY <1>1, <1>4, FieldWidthRight
  <2> QED
    BY <1>1, <1>4, <2>1 DEF MsgTypeAt
<1>8. c = y - rem + N + 2 /\ p = c + w
  BY <1>3 DEF ChecksumPos, MsgEndPos
<1>9. Remainder(e) = read + p + 1
  BY DEF Remainder
<1> HIDE DEF x, y, N, c, p
<1>10. c \in Int /\ c + 1 >= 0 /\ c + 1 <= e - read
  BY <1>1, <1>4, <1>5, <1>6, <1>7, <1>8
<1>11. w \in 0 .. e - (read + c + 1)
  <2>1. read + c + 1 \in Nat /\ read + c + 1 <= e
    BY <1>1, <1>10
  <2> QED
    BY <1>1, <2>1, FieldWidthRight
<1> HIDE DEF w
<1>12. p \in c .. e - read - 1 /\ p + 1 <= e - read
  <2>1. p = c + w /\ c \in Int /\ w \in Nat
    BY <1>1, <1>8, <1>10, <1>11
  <2>2. ~(p + 1 > e - read) /\ e \in Nat /\ read \in Nat
    BY <1>1, <1>5
  <2>3. p \in Int /\ p >= c /\ p + 1 <= e - read
    BY <2>1, <2>2
  <2> QED
    BY <2>1, <2>2, <2>3
<1>13. read + p + 1 \in read .. e
  BY <1>1, <1>10, <1>12
<1> QED
  BY <1>4, <1>5, <1>6, <1>7, <1>8, <1>9, <1>10, <1>12, <1>13 DEF x, y, N, c, w, p

LEMMA InvInit == Init => Inv
<1>1. Init => ReadInv
  <2>1. << >> \in Seq([type : KnownTypes, from : Nat, to : Nat]) /\ Len(<< >>) = 0
    OBVIOUS
  <2> SUFFICES ASSUME Init PROVE ReadInv
    OBVIOUS
  <2>2. /\ delivered \in Seq([type : KnownTypes, from : Nat, to : Nat])
        /\ Len(stream) = 0 /\ Len(delivered) = 0
        /\ read = 0 /\ rem = 0 /\ terminated = FALSE
    BY <2>1 DEF Init
  <2>3. \A i \in 1 .. Len(delivered) : FALSE
    BY <2>2
  <2>4. read \in 0 .. Len(stream) /\ rem \in 0 .. read /\ terminated \in BOOLEAN
    <3>1. 0 \in 0 .. 0
      OBVIOUS
    <3> QED
      BY <2>2, <3>1, Zenon
  <2>5. \A i \in 1 .. Len(delivered) :
           delivered[i].from \in 0 .. read /\ delivered[i].to \in delivered[i].from .. read
    BY <2>3, Zenon
  <2>6. \A i, j \in 1 .. Len(delivered) : i < j => delivered[i].to <= delivered[j].from
    BY <2>3, Zenon
  <2> QED
    BY <2>2, <2>4, <2>5, <2>6, Zenon DEF ReadInv
<1> QED
  BY <1>1, StreamInit DEF Inv

\* What a call adds to delivered.
LEMMA DeliverRight ==
    ASSUME Inv, NEW e \in 0 .. Len(stream), Deliver(e)
    PROVE  /\ e > read /\ ~Throws(e) /\ MsgType(e) \in KnownTypes
           /\ SetStringTakes(read, Remainder(e))
           /\ read' = e /\ rem' = Remainder(e) /\ Remainder(e) \in read .. e
           /\ terminated' = terminated /\ sent' = sent /\ stream' = stream
           /\ delivered' = Append(delivered, Content(e))
           /\ Content(e) \in [type : KnownTypes, from : Nat, to : Nat]
           /\ Content(e).from = read /\ Content(e).to = Remainder(e)
<1>1. /\ e > read /\ read' = e /\ sent' = sent /\ stream' = stream
      /\ rem' = Remainder(e) /\ terminated' = terminated
      /\ delivered' = Append(delivered, Content(e)) /\ Outcome(e) = "delivers"
  BY DEF Deliver, Arrives
<1>2. ~Throws(e) /\ MsgType(e) \in KnownTypes /\ SetStringTakes(read, Remainder(e))
  BY <1>1 DEF Outcome
<1>3. Remainder(e) \in read .. e /\ read \in Nat /\ e \in Nat
  BY <1>1, <1>2, CallRight, Numbers
<1> QED
  BY <1>1, <1>2, <1>3 DEF Content

LEMMA InvReceive ==
    ASSUME Inv, NEW e \in 0 .. Len(stream), Receive(e)
    PROVE  Inv'
<1>1. /\ Len(stream) \in Nat /\ read \in Nat /\ rem \in Nat /\ e \in Nat
      /\ e <= Len(stream) /\ rem <= read
  BY Numbers
<1>2. /\ terminated \in BOOLEAN
      /\ delivered \in Seq([type : KnownTypes, from : Nat, to : Nat])
      /\ \A i \in 1 .. Len(delivered) :
            delivered[i].from \in 0 .. read /\ delivered[i].to \in delivered[i].from .. read
      /\ \A i, j \in 1 .. Len(delivered) : i < j => delivered[i].to <= delivered[j].from
  BY DEF Inv, ReadInv
<1>3. e > read /\ read' = e /\ sent' = sent /\ stream' = stream
  BY DEF Receive, Deliver, PassOver, Terminate, Arrives
<1>4. StreamInv'
  BY <1>3 DEF Inv, StreamInv
<1>5. read' \in 0 .. Len(stream')
  BY <1>1, <1>3
<1>6. CASE delivered' = delivered /\ rem' \in 0 .. read' /\ terminated' \in BOOLEAN
  <2>1. \A i \in 1 .. Len(delivered) :
           delivered[i].from \in 0 .. e /\ delivered[i].to \in delivered[i].from .. e
    BY <1>1, <1>2, <1>3
  <2> QED
    BY <1>2, <1>3, <1>4, <1>5, <1>6, <2>1 DEF Inv, ReadInv
<1>7. CASE Deliver(e)
  <2> DEFINE d == Content(e)
             D == delivered'
             r == Remainder(e)
             S == [type : KnownTypes, from : Nat, to : Nat]
             l == Len(delivered)
  <2>1. /\ D = Append(delivered, d) /\ d \in S /\ d.from = read /\ d.to = r
        /\ r \in read .. e /\ rem' = r /\ terminated' = terminated
    BY <1>7, DeliverRight
  <2>2. delivered \in Seq(S) /\ l \in Nat
    BY <1>2, LenProperties
  <2> HIDE DEF d, D, r, S
  <2>3. D \in Seq(S) /\ Len(D) = l + 1 /\ D[l + 1] = d /\ \A i \in 1 .. l : D[i] = delivered[i]
    BY <2>1, <2>2, AppendProperties
  <2>4. ASSUME NEW i \in 1 .. Len(D)
        PROVE  D[i].from \in 0 .. e /\ D[i].to \in D[i].from .. e
    <3>1. CASE i = l + 1
      BY <1>1, <1>3, <2>1, <2>3, <3>1
    <3>2. CASE i # l + 1
      <4>1. i \in 1 .. l
        BY <2>2, <2>3, <3>2
      <4>2. /\ D[i] = delivered[i] /\ delivered[i].from \in 0 .. read
            /\ delivered[i].to \in delivered[i].from .. read
        BY <1>2, <2>3, <4>1
      <4> QED
        BY <1>1, <1>3, <4>2
    <3> QED
      BY <3>1, <3>2
  <2>5. ASSUME NEW i \in 1 .. Len(D), NEW j \in 1 .. Len(D), i < j
        PROVE  D[i].to <= D[j].from
    <3>1. i \in 1 .. l /\ (j \in 1 .. l \/ j = l + 1)
      BY <2>2, <2>3, <2>5
    <3>2. D[i] = delivered[i] /\ delivered[i].from \in 0 .. read /\ delivered[i].to \in delivered[i].from .. read
      BY <1>2, <2>3, <3>1
    <3>3. CASE j = l + 1
      BY <1>1, <2>1, <2>3, <3>2, <3>3
    <3>4. CASE j \in 1 .. l
      BY <1>2, <2>3, <2>5, <3>1, <3>4
    <3> QED
      BY <3>1, <3>3, <3>4
  <2>6. rem' \in 0 .. read' /\ terminated' \in BOOLEAN
    BY <1>1, <1>2, <1>3, <2>1
  <2>7. ReadInv'
    BY <1>3, <1>5, <2>3, <2>4, <2>5, <2>6 DEF ReadInv, D, S
  <2> QED
    BY <1>4, <2>7 DEF Inv
<1>8. CASE PassOver(e)
  <2>1. Outcome(e) = "passes over" /\ rem' = Remainder(e) /\ delivered' = delivered /\ terminated' = terminated
    BY <1>8 DEF PassOver
  <2>2. ~Throws(e)
    BY <2>1 DEF Outcome
  <2>3. Remainder(e) \in read .. e
    BY <1>3, <2>2, CallRight
  <2>4. rem' \in 0 .. read'
    <3> DEFINE r == Remainder(e)
    <3> HIDE DEF r
    <3>1. r \in read .. e /\ rem' = r
      BY <2>1, <2>3 DEF r
    <3>2. r \in 0 .. e
      BY <1>1, <3>1
    <3> QED
      BY <1>3, <3>1, <3>2
  <2> QED
    BY <1>2, <1>6, <2>1, <2>4
<1>9. CASE Terminate(e)
  <2>1. delivered' = delivered /\ rem' = rem /\ terminated' = TRUE
    BY <1>9 DEF Terminate
  <2>2. rem' \in 0 .. read'
    BY <1>1, <1>3, <2>1
  <2> QED
    BY <1>6, <2>1, <2>2
<1> QED
  BY <1>7, <1>8, <1>9 DEF Receive

LEMMA InvNext == Inv /\ [Next]_vars => Inv'
<1> SUFFICES ASSUME Inv, [Next]_vars PROVE Inv'
  OBVIOUS
<1>1. ASSUME NEW m \in Messages, PeerSends(m)
      PROVE  Inv'
  <2>1. StreamInv' /\ Len(stream') = Len(stream) + Len(m.bytes)
    BY <1>1, StreamGrows DEF Inv
  <2>2. read \in 0 .. Len(stream')
    BY <2>1, Numbers, NoMessageEmpty
  <2>3. read' = read /\ rem' = rem /\ terminated' = terminated /\ delivered' = delivered
    BY <1>1 DEF PeerSends
  <2>4. ReadInv'
    BY <2>2, <2>3 DEF Inv, ReadInv
  <2> QED
    BY <2>1, <2>4 DEF Inv
<1>2. ASSUME NEW e \in MayEnd, Receive(e)
      PROVE  Inv'
  BY <1>2, ReadsInStream, InvReceive
<1>3. CASE UNCHANGED vars
  BY <1>3 DEF vars, Inv, StreamInv, ReadInv
<1> QED
  BY <1>1, <1>2, <1>3 DEF Next

\* What a read does to what remains and to what was delivered rests on where its fields
\* are: all of it lies within the bytes read, of the messages that were sent
\* (FIXProtocolAdaptor.hpp:443-507).
THEOREM InvAlways == Spec => []Inv
  BY InvInit, InvNext, PTL DEF Spec

\* Whatever legal messages are sent, and however the reads are cut, _remBuffer and the
\* strings messages are made of lie within the bytes that were read (TypeOK).
THEOREM TypeCorrect == Spec => []TypeOK
<1>1. Inv => TypeOK
  <2> SUFFICES ASSUME Inv PROVE TypeOK
    OBVIOUS
  <2>1. sent \in Seq(Messages) /\ Len(stream) = End(Len(sent))
    BY Numbers
  <2>2. DOMAIN delivered = 1 .. Len(delivered)
    BY LenProperties DEF Inv, ReadInv
  <2> QED
    BY <2>1, <2>2 DEF TypeOK, Inv, ReadInv
<1> QED
  BY <1>1, InvAlways, PTL

-----------------------------------------------------------------------------
(* The fields of a message. *)

\* m is legal, its BeginString ending at v, BodyLength at l, MsgType at t, and the
\* checksum beginning at c.
Parts(m, v, l, t, c) ==
    LET b == m.bytes
        L == Len(b)
    IN  /\ b \in Seq(STRING)
        /\ v \in Nat /\ l \in Nat /\ t \in Nat /\ c \in Nat /\ L \in Nat
        /\ 2 < v /\ v + 2 < l /\ l + 3 < t /\ t <= c /\ c + 3 < L
        /\ b[1] = "8" /\ b[2] = "=" /\ b[v] = SOH
        /\ Free(b, SOH, 0, v)
        /\ Free(b, "=", 2, v + 1)
        /\ b[v + 1] = "9" /\ b[v + 2] = "=" /\ b[l] = SOH
        /\ Free(b, SOH, v, l)
        /\ IsNumber(SubSeq(b, v + 3, l - 1))
        /\ Number(SubSeq(b, v + 3, l - 1)) = c - l
        /\ b[l + 1] = "3" /\ b[l + 2] = "5" /\ b[l + 3] = "=" /\ b[t] = SOH
        /\ Free(b, SOH, l, t)
        /\ SubSeq(b, l + 4, t - 1) = m.type
        /\ b[c] = SOH
        /\ \A k \in t .. c - 1 :
              b[k] = SOH =>
                 \E e \in k + 1 .. c - 1 : TagAt(b, k, e) /\ Number(SubSeq(b, k + 1, e)) # 9
        /\ b[c + 1] = "1" /\ b[c + 2] = "0" /\ b[c + 3] = "=" /\ b[L] = SOH
        /\ Free(b, SOH, c, L)

LEMMA ShortField ==
    ASSUME NEW b, NEW i \in Nat, NEW j \in Nat, NEW d, FieldAt(b, i, j, <<d>>)
    PROVE  /\ i + 2 < j /\ b[i + 1] = d /\ b[i + 2] = "=" /\ b[j] = SOH
           /\ Free(b, SOH, i, j)
<1> DEFINE tag == <<d>>
<1>1. Len(tag) = 1 /\ 1 \in DOMAIN tag /\ tag[1] = d
  OBVIOUS
<1> HIDE DEF tag
<1>2. /\ i + Len(tag) + 1 < j
      /\ \A k \in DOMAIN tag : b[i + k] = tag[k]
      /\ b[i + Len(tag) + 1] = "="
      /\ b[j] = SOH
      /\ \A k \in i + 1 .. j - 1 : b[k] # SOH
  BY DEF FieldAt, tag
<1>3. i + Len(tag) + 1 = i + 2
  BY <1>1
<1> QED
  BY <1>1, <1>2, <1>3 DEF Free

LEMMA LongField ==
    ASSUME NEW b, NEW i \in Nat, NEW j \in Nat, NEW d, NEW f, FieldAt(b, i, j, <<d, f>>)
    PROVE  /\ i + 3 < j /\ b[i + 1] = d /\ b[i + 2] = f /\ b[i + 3] = "=" /\ b[j] = SOH
           /\ Free(b, SOH, i, j)
<1> DEFINE tag == <<d, f>>
<1>1. Len(tag) = 2 /\ 1 \in DOMAIN tag /\ 2 \in DOMAIN tag /\ tag[1] = d /\ tag[2] = f
  OBVIOUS
<1> HIDE DEF tag
<1>2. /\ i + Len(tag) + 1 < j
      /\ \A k \in DOMAIN tag : b[i + k] = tag[k]
      /\ b[i + Len(tag) + 1] = "="
      /\ b[j] = SOH
      /\ \A k \in i + 1 .. j - 1 : b[k] # SOH
  BY DEF FieldAt, tag
<1>3. i + Len(tag) + 1 = i + 3
  BY <1>1
<1> QED
  BY <1>1, <1>2, <1>3 DEF Free

LEMMA HasParts ==
    ASSUME NEW m \in Messages
    PROVE  \E v, l, t, c : Parts(m, v, l, t, c)
<1> DEFINE b == m.bytes
           L == Len(b)
<1>1. b \in Seq(STRING) /\ L \in Nat \ {0} /\ DOMAIN b = 1 .. L
  BY NoMessageEmpty, LenProperties
<1>2. IsLegal(m)
  BY LegalAssumption
<1>3. PICK v \in DOMAIN b, l \in DOMAIN b, t \in DOMAIN b, c \in DOMAIN b :
       /\ FieldAt(b, 0, v, <<"8">>)
       /\ \A k \in 3 .. v : b[k] # "="
       /\ FieldAt(b, v, l, <<"9">>)
       /\ IsNumber(SubSeq(b, v + 3, l - 1))
       /\ Number(SubSeq(b, v + 3, l - 1)) = c - l
       /\ FieldAt(b, l, t, <<"3", "5">>)
       /\ SubSeq(b, l + 4, t - 1) = m.type
       /\ t <= c
       /\ b[c] = SOH
       /\ \A k \in t .. c - 1 :
             b[k] = SOH =>
                \E e \in k + 1 .. c - 1 : TagAt(b, k, e) /\ Number(SubSeq(b, k + 1, e)) # 9
       /\ FieldAt(b, c, L, <<"1", "0">>)
  BY <1>2, Zenon DEF IsLegal
<1>4. v \in Nat /\ l \in Nat /\ t \in Nat /\ c \in Nat /\ L \in Nat
  BY <1>1
<1> HIDE DEF b, L
<1>5. /\ 0 + 2 < v /\ b[0 + 1] = "8" /\ b[0 + 2] = "=" /\ b[v] = SOH
      /\ Free(b, SOH, 0, v)
  <2>1. 0 \in Nat
    OBVIOUS
  <2> QED
    BY <1>3, <1>4, <2>1, ShortField
<1>6. /\ v + 2 < l /\ b[v + 1] = "9" /\ b[v + 2] = "=" /\ b[l] = SOH
      /\ Free(b, SOH, v, l)
  <2>1. FieldAt(b, v, l, <<"9">>)
    BY <1>3
  <2> QED
    BY <1>4, <2>1, ShortField
<1>7. /\ l + 3 < t /\ b[l + 1] = "3" /\ b[l + 2] = "5" /\ b[l + 3] = "=" /\ b[t] = SOH
      /\ Free(b, SOH, l, t)
  <2>1. FieldAt(b, l, t, <<"3", "5">>)
    BY <1>3
  <2> QED
    BY <1>4, <2>1, LongField
<1>8. /\ c + 3 < L /\ b[c + 1] = "1" /\ b[c + 2] = "0" /\ b[c + 3] = "=" /\ b[L] = SOH
      /\ Free(b, SOH, c, L)
  <2>1. FieldAt(b, c, L, <<"1", "0">>)
    BY <1>3
  <2> QED
    BY <1>4, <2>1, LongField
<1>9. 2 < v /\ b[1] = "8" /\ b[2] = "=" /\ Free(b, "=", 2, v + 1)
  BY <1>3, <1>4, <1>5 DEF Free
<1>10. Parts(m, v, l, t, c)
  BY <1>1, <1>3, <1>4, <1>5, <1>6, <1>7, <1>8, <1>9, Zenon DEF Parts, b, L
<1> QED
  BY <1>10

-----------------------------------------------------------------------------
(* What a call reads when a message is in front. *)

LEMMA FieldWidthIs ==
    ASSUME NEW i \in Nat, NEW e \in Nat, NEW p \in i + 1 .. e,
           stream[p] = SOH, Free(stream, SOH, i, p)
    PROVE  FieldWidth(i, e) = p - i
<1>1. Has(SOH, i, e) /\ Find(SOH, i, e) = p - i - 1
  BY FindFirst
<1> QED
  BY <1>1 DEF FieldWidth

LEMMA FieldValueIs ==
    ASSUME NEW i \in Nat, NEW e \in Nat, NEW p \in i + 1 .. e,
           stream[p] = SOH, Free(stream, SOH, i, p),
           NEW r \in i + 1 .. p - 1, stream[r] = "=", Free(stream, "=", i, r)
    PROVE  FieldValue(i, e) = Bytes(r, p - 1)
<1>1. Has(SOH, i, e) /\ Find(SOH, i, e) = p - i - 1
  BY FindFirst
<1>2. i + (p - i - 1) = p - 1 /\ p - 1 \in Nat
  OBVIOUS
<1>3. Has("=", i, p - 1) /\ Find("=", i, p - 1) = r - i - 1
  BY <1>2, FindFirst
<1>4. i + (r - i - 1) + 1 = r
  OBVIOUS
<1> QED
  BY <1>1, <1>2, <1>3, <1>4 DEF FieldValue

LEMMA TagIs ==
    ASSUME NEW i \in Nat, NEW e \in Nat, NEW r \in i + 1 .. e,
           stream[r] = "=", Free(stream, "=", i, r)
    PROVE  Has("=", i, e) /\ Tag(i, e) = Bytes(i, r - 1)
<1>1. Has("=", i, e) /\ Find("=", i, e) = r - i - 1
  BY FindFirst
<1>2. i + (r - i - 1) = r - 1
  OBVIOUS
<1> QED
  BY <1>1, <1>2 DEF Tag

\* b is in the stream, behind o.
At(o, b) ==
    /\ stream \in Seq(STRING) /\ b \in Seq(STRING) /\ o \in Nat
    /\ o + Len(b) <= Len(stream)
    /\ \A p \in 1 .. Len(b) : stream[o + p] = b[p]

LEMMA MessageAt ==
    ASSUME Inv, NEW n \in 1 .. Len(sent)
    PROVE  /\ sent[n] \in Messages
           /\ At(End(n - 1), sent[n].bytes)
           /\ End(n) = End(n - 1) + Len(sent[n].bytes)
           /\ End(n - 1) \in Nat /\ End(n) \in 0 .. Len(stream)
<1>1. sent \in Seq(Messages) /\ stream \in Seq(STRING)
  BY Numbers
<1>2. n \in 0 .. Len(sent) /\ n - 1 \in 0 .. Len(sent)
  BY <1>1, Ends
<1>3. /\ sent[n] \in Messages /\ End(n) = End(n - 1) + Len(sent[n].bytes)
      /\ End(n - 1) \in Nat
  BY <1>1, <1>2, Ends
<1>4. End(n) \in 0 .. Len(stream) /\ Len(stream) \in Nat
  BY <1>2, EndsInStream, Numbers
<1>5. \A p \in 1 .. Len(sent[n].bytes) : stream[End(n - 1) + p] = sent[n].bytes[p]
  BY EndIs DEF Inv, StreamInv
<1>6. sent[n].bytes \in Seq(STRING)
  BY <1>3, NoMessageEmpty
<1> QED
  BY <1>1, <1>3, <1>4, <1>5, <1>6 DEF At

LEMMA NotBetween ==
    ASSUME NEW o, NEW b, At(o, b), NEW c, NEW i \in Nat, NEW j \in Nat, j <= Len(b) + 1,
           Free(b, c, i, j)
    PROVE  Free(stream, c, o + i, o + j)
<1>1. o \in Nat /\ Len(b) \in Nat /\ \A p \in 1 .. Len(b) : stream[o + p] = b[p]
  BY LenProperties DEF At
<1>2. ASSUME NEW q \in o + i + 1 .. o + j - 1
      PROVE  stream[q] # c
  <2> DEFINE k == q - o
  <2>1. k \in i + 1 .. j - 1 /\ k \in 1 .. Len(b) /\ o + k = q
    BY <1>1
  <2> HIDE DEF k
  <2>2. stream[o + k] = b[k] /\ b[k] # c
    BY <1>1, <2>1 DEF Free
  <2> QED
    BY <2>1, <2>2
<1>3. \A q \in o + i + 1 .. o + j - 1 : stream[q] # c
  BY <1>2
<1> QED
  BY <1>1, <1>3 DEF Free

\* The bytes of a message, in the stream and in the message.
LEMMA BytesAre ==
    ASSUME NEW o, NEW b, At(o, b), NEW i \in Nat, NEW j \in i .. Len(b)
    PROVE  Bytes(o + i, o + j) = SubSeq(b, i + 1, j)
<1>0. /\ stream \in Seq(STRING) /\ b \in Seq(STRING) /\ o \in Nat
      /\ o + Len(b) <= Len(stream) /\ \A p \in 1 .. Len(b) : stream[o + p] = b[p]
  BY DEF At
<1>1. Len(stream) \in Nat /\ Len(b) \in Nat /\ o + i \in Nat /\ o + j \in 0 .. Len(stream)
      /\ j \in Nat
  BY <1>0, LenProperties
<1> DEFINE x == Bytes(o + i, o + j)
           y == SubSeq(b, i + 1, j)
<1>2. /\ x \in Seq(STRING)
      /\ Len(x) = j - i
      /\ \A k \in 1 .. j - i : x[k] = stream[o + i + k]
  <2> DEFINE a == o + i
             d == o + j
  <2>1. a \in Nat /\ d \in 0 .. Len(stream)
    BY <1>0, <1>1
  <2>2. d - a = j - i /\ (a < d \/ j - i = 0)
    BY <1>0, <1>1
  <2>3. x = Bytes(a, d)
    OBVIOUS
  <2> HIDE DEF a, d, x
  <2>4. /\ x \in Seq(STRING)
        /\ Len(x) = IF a < d THEN d - a ELSE 0
        /\ \A k \in 1 .. d - a : x[k] = stream[a + k]
    BY <1>0, <2>1, <2>3, BytesRight
  <2>5. /\ x \in Seq(STRING) /\ Len(x) = j - i
        /\ \A k \in 1 .. j - i : x[k] = stream[a + k]
    BY <2>2, <2>4
  <2> QED
    BY <2>5 DEF a
<1>3. /\ y \in Seq(STRING)
      /\ Len(y) = j - i
      /\ \A k \in 1 .. j - i : y[k] = b[i + k]
  <2>1. \A q \in i + 1 .. j : b[q] \in STRING
    BY <1>0, <1>1, ElementOfSeq
  <2>2. /\ y \in Seq(STRING)
        /\ Len(y) = IF i + 1 <= j THEN j - (i + 1) + 1 ELSE 0
        /\ \A k \in 1 .. j - (i + 1) + 1 : y[k] = b[i + 1 + k - 1]
    BY <1>1, <2>1, SubSeqProperties
  <2>3. j - (i + 1) + 1 = j - i /\ (i + 1 <= j \/ j - i = 0)
    BY <1>0, <1>1
  <2>4. \A k \in 1 .. j - i : i + 1 + k - 1 = i + k
    BY <1>1
  <2> HIDE DEF y
  <2> QED
    BY <2>2, <2>3, <2>4
<1> HIDE DEF x, y
<1>4. ASSUME NEW k \in 1 .. j - i
      PROVE  x[k] = y[k]
  <2> DEFINE q == i + k
  <2>1. q \in 1 .. Len(b) /\ o + i + k = o + q
    BY <1>0, <1>1
  <2> HIDE DEF q
  <2>2. stream[o + q] = b[q]
    BY <1>0, <2>1
  <2>3. x[k] = stream[o + q] /\ y[k] = b[q]
    BY <1>2, <1>3, <2>1 DEF q
  <2> QED
    BY <2>2, <2>3
<1>5. x = y
  BY <1>2, <1>3, <1>4, SeqEqual
<1> QED
  BY <1>5 DEF x, y

\* ... are found by a call that has them in front.
Found(o, m, v, l, t, c, e) ==
    /\ FieldWidth(o, e) = v
    /\ FieldWidth(o + v, e) = l - v
    /\ FieldValue(o + v, e) = SubSeq(m.bytes, v + 3, l - 1)
    /\ FieldValue(o + l, e) = m.type
    /\ FieldWidth(o + c + 3, e) = Len(m.bytes) - c - 3

LEMMA FrontFields ==
    ASSUME NEW o, NEW m, NEW v, NEW l, NEW t, NEW c, Parts(m, v, l, t, c), At(o, m.bytes),
           NEW e \in o + Len(m.bytes) .. Len(stream)
    PROVE  Found(o, m, v, l, t, c, e)
<1> DEFINE b == m.bytes
           L == Len(b)
<1>1. /\ o \in Nat /\ v \in Nat /\ l \in Nat /\ t \in Nat /\ c \in Nat /\ L \in Nat
      /\ e \in Nat /\ o + L <= e
      /\ 2 < v /\ v + 2 < l /\ l + 3 < t /\ t <= c /\ c + 3 < L
  BY LenProperties DEF At, Parts
<1>2. At(o, b) /\ \A p \in 1 .. L : stream[o + p] = b[p]
  BY DEF At
<1>3. /\ b[v] = SOH /\ Free(b, SOH, 0, v)
      /\ b[l] = SOH /\ Free(b, SOH, v, l)
      /\ b[t] = SOH /\ Free(b, SOH, l, t)
      /\ b[L] = SOH /\ Free(b, SOH, c, L)
      /\ b[v + 1] = "9" /\ b[v + 2] = "=" /\ SubSeq(b, l + 4, t - 1) = m.type
      /\ b[l + 1] = "3" /\ b[l + 2] = "5" /\ b[l + 3] = "="
  BY DEF Parts
<1> HIDE DEF b, L
<1>4. v \in 1 .. L /\ l \in 1 .. L /\ t \in 1 .. L /\ L \in 1 .. L
  BY <1>1
<1>5. /\ stream[o + v] = SOH /\ stream[o + l] = SOH
      /\ stream[o + t] = SOH /\ stream[o + L] = SOH
  BY <1>2, <1>3, <1>4
<1>6. FieldWidth(o, e) = v
  <2> DEFINE p == o + v
  <2>1. p \in o + 1 .. e /\ p - o = v
    BY <1>1
  <2>2. Free(stream, SOH, o + 0, o + v)
    <3>1. 0 \in Nat /\ v <= Len(b) + 1 /\ Free(b, SOH, 0, v)
      BY <1>1, <1>3 DEF L
    <3> QED
      BY <1>1, <1>2, <3>1, NotBetween
  <2>3. Free(stream, SOH, o, p)
    BY <1>1, <2>2
  <2>4. stream[p] = SOH
    BY <1>5
  <2> HIDE DEF p
  <2> QED
    BY <1>1, <2>1, <2>3, <2>4, FieldWidthIs
<1>7. FieldWidth(o + v, e) = l - v /\ FieldValue(o + v, e) = SubSeq(b, v + 3, l - 1)
  <2> DEFINE i == o + v
             p == o + l
             r == o + v + 2
  <2>1. i \in Nat /\ p \in i + 1 .. e /\ p - i = l - v /\ r \in i + 1 .. p - 1
    BY <1>1
  <2>2. Free(stream, SOH, i, p)
    <3>1. l <= Len(b) + 1
      BY <1>1 DEF L
    <3> QED
      BY <1>1, <1>2, <1>3, <3>1, NotBetween
  <2>3. stream[p] = SOH /\ stream[r] = "="
    <3>1. v + 2 \in 1 .. L /\ r = o + (v + 2)
      BY <1>1
    <3>2. stream[o + (v + 2)] = "="
      BY <1>2, <1>3, <3>1
    <3> QED
      BY <1>5, <3>1, <3>2
  <2>4. Free(stream, "=", i, r)
    <3>1. v + 1 \in 1 .. L /\ \A q \in i + 1 .. r - 1 : q = o + (v + 1)
      BY <1>1
    <3>2. stream[o + (v + 1)] = "9"
      BY <1>2, <1>3, <3>1
    <3> QED
      BY <3>1, <3>2 DEF Free
  <2>5. Bytes(r, p - 1) = SubSeq(b, v + 3, l - 1)
    <3>1. /\ v + 2 \in Nat /\ l - 1 \in v + 2 .. Len(b) /\ v + 2 + 1 = v + 3
          /\ r = o + (v + 2) /\ p - 1 = o + (l - 1)
      BY <1>1 DEF L
    <3>2. Bytes(o + (v + 2), o + (l - 1)) = SubSeq(b, v + 2 + 1, l - 1)
      BY <1>2, <3>1, BytesAre
    <3> QED
      BY <3>1, <3>2
  <2> HIDE DEF i, p, r
  <2>6. FieldWidth(i, e) = l - v
    BY <1>1, <2>1, <2>2, <2>3, FieldWidthIs
  <2>7. FieldValue(i, e) = Bytes(r, p - 1)
    BY <1>1, <2>1, <2>2, <2>3, <2>4, FieldValueIs
  <2> QED
    BY <2>5, <2>6, <2>7 DEF i
<1>8. FieldValue(o + l, e) = m.type
  <2> DEFINE i == o + l
             p == o + t
             r == o + l + 3
  <2>1. i \in Nat /\ p \in i + 1 .. e /\ r \in i + 1 .. p - 1
    BY <1>1
  <2>2. Free(stream, SOH, i, p)
    <3>1. t <= Len(b) + 1
      BY <1>1 DEF L
    <3> QED
      BY <1>1, <1>2, <1>3, <3>1, NotBetween
  <2>3. stream[p] = SOH /\ stream[r] = "="
    <3>1. l + 3 \in 1 .. L /\ r = o + (l + 3)
      BY <1>1
    <3>2. stream[o + (l + 3)] = "="
      BY <1>2, <1>3, <3>1
    <3> QED
      BY <1>5, <3>1, <3>2
  <2>4. Free(stream, "=", i, r)
    <3>1. /\ l + 1 \in 1 .. L /\ l + 2 \in 1 .. L
          /\ \A q \in i + 1 .. r - 1 : q = o + (l + 1) \/ q = o + (l + 2)
      BY <1>1
    <3>2. stream[o + (l + 1)] = "3" /\ stream[o + (l + 2)] = "5"
      BY <1>2, <1>3, <3>1
    <3> QED
      BY <3>1, <3>2 DEF Free
  <2>5. Bytes(r, p - 1) = SubSeq(b, l + 4, t - 1)
    <3>1. /\ l + 3 \in Nat /\ t - 1 \in l + 3 .. Len(b) /\ l + 3 + 1 = l + 4
          /\ r = o + (l + 3) /\ p - 1 = o + (t - 1)
      BY <1>1 DEF L
    <3>2. Bytes(o + (l + 3), o + (t - 1)) = SubSeq(b, l + 3 + 1, t - 1)
      BY <1>2, <3>1, BytesAre
    <3> QED
      BY <3>1, <3>2
  <2> HIDE DEF i, p, r
  <2>6. FieldValue(i, e) = Bytes(r, p - 1)
    BY <1>1, <2>1, <2>2, <2>3, <2>4, FieldValueIs
  <2> QED
    BY <1>3, <2>5, <2>6 DEF i
<1>9. FieldWidth(o + c + 3, e) = L - c - 3
  <2> DEFINE i == o + c + 3
             p == o + L
  <2>1. i \in Nat /\ p \in i + 1 .. e /\ p - i = L - c - 3
    BY <1>1
  <2>2. Free(stream, SOH, i, p)
    <3>1. L <= Len(b) + 1
      BY <1>1 DEF L
    <3>2. Free(stream, SOH, o + c, o + L)
      BY <1>1, <1>2, <1>3, <3>1, NotBetween
    <3> QED
      BY <1>1, <3>2 DEF Free
  <2> HIDE DEF i, p
  <2>3. FieldWidth(i, e) = L - c - 3
    BY <1>1, <1>5, <2>1, <2>2, FieldWidthIs DEF p
  <2> QED
    BY <2>3 DEF i
<1> QED
  BY <1>6, <1>7, <1>8, <1>9 DEF Found, b, L

\* A call with a message in front cuts that message out.
LEMMA FrontMessage ==
    ASSUME Inv, NEW n \in 1 .. Len(sent), rem = read, End(n - 1) = read,
           NEW e \in End(n) .. Len(stream)
    PROVE  /\ ~Throws(e)
           /\ MsgType(e) = sent[n].type
           /\ Remainder(e) = End(n)
<1> DEFINE o == End(n - 1)
           m == sent[n]
           L == Len(m.bytes)
<1>1. m \in Messages /\ At(o, m.bytes) /\ End(n) = o + L /\ o \in Nat /\ End(n) \in 0 .. Len(stream)
  BY MessageAt
<1>2. PICK v, l, t, c : Parts(m, v, l, t, c)
  BY <1>1, HasParts
<1>3. L \in Nat /\ e \in o + L .. Len(stream) /\ Len(stream) \in Nat /\ e \in Nat
  BY <1>1, NoMessageEmpty, Numbers
<1>4. /\ v \in Nat /\ l \in Nat /\ t \in Nat /\ c \in Nat
      /\ 2 < v /\ v + 2 < l /\ l + 3 < t /\ t <= c /\ c + 3 < L
      /\ IsNumber(SubSeq(m.bytes, v + 3, l - 1)) /\ Number(SubSeq(m.bytes, v + 3, l - 1)) = c - l
  BY <1>2 DEF Parts
<1>5. rem = o /\ read = o
  OBVIOUS
<1> HIDE DEF o, m
<1>6. /\ FieldWidth(o, e) = v
      /\ FieldWidth(o + v, e) = l - v
      /\ FieldValue(o + v, e) = SubSeq(m.bytes, v + 3, l - 1)
      /\ FieldValue(o + l, e) = m.type
      /\ FieldWidth(o + c + 3, e) = L - c - 3
  <2>1. e \in o + Len(m.bytes) .. Len(stream)
    BY <1>3 DEF L
  <2>2. Found(o, m, v, l, t, c, e)
    BY <1>1, <1>2, <2>1, FrontFields
  <2> QED
    BY <2>2 DEF Found, L
<1> HIDE DEF L
<1>7. BodyLengthAt(e) = o + v
  BY <1>6, <1>5 DEF BodyLengthAt
<1>8. MsgTypeAt(e) = o + l
  <2>1. o + v + (l - v) = o + l
    BY <1>1, <1>4
  <2> QED
    BY <1>6, <1>7, <2>1 DEF MsgTypeAt
<1>9. o + v < e /\ o + l < e /\ o + v # e
  BY <1>1, <1>3, <1>4
<1>10. MsgType(e) = m.type
  BY <1>6, <1>7, <1>8, <1>9 DEF MsgType
<1>11. IsNumber(FieldValue(BodyLengthAt(e), e)) /\ Number(FieldValue(BodyLengthAt(e), e)) = c - l
  BY <1>4, <1>6, <1>7
<1>12. ChecksumPos(e) = c + 2
  <2> DEFINE y == MsgTypeAt(e)
             N == Number(FieldValue(BodyLengthAt(e), e))
  <2>1. ChecksumPos(e) = y - rem + N + 2
    BY DEF ChecksumPos
  <2>2. y = o + l /\ rem = o /\ N = c - l
    BY <1>5, <1>8, <1>11
  <2> HIDE DEF y, N
  <2>3. y - rem + N + 2 = c + 2
    BY <1>1, <1>4, <2>2
  <2> QED
    BY <2>1, <2>3, Zenon
<1>13. MsgEndPos(e) = L - 1
  <2>1. o + (c + 2) + 1 = o + c + 3 /\ c + 2 + (L - c - 3) = L - 1
    BY <1>1, <1>3, <1>4
  <2> QED
    BY <1>6, <1>5, <1>7, <1>9, <1>12, <2>1 DEF MsgEndPos
<1>14. ~Throws(e)
  <2>1. c + 2 + 1 \in 0 .. e - o /\ ~(L - 1 + 1 > e - o)
    BY <1>1, <1>3, <1>4
  <2> QED
    BY <1>5, <1>11, <1>12, <1>13, <2>1 DEF Throws
<1>15. Remainder(e) = o + L
  <2>1. o + (L - 1) + 1 = o + L
    BY <1>1, <1>3
  <2> QED
    BY <1>5, <1>13, <2>1 DEF Remainder
<1> QED
  BY <1>1, <1>10, <1>14, <1>15 DEF m

-----------------------------------------------------------------------------
(* setString takes a legal message. *)

LEMMA FieldStartsFinite ==
    ASSUME NEW i \in Nat, NEW j \in Nat, NEW k
    PROVE  /\ IsFiniteSet({l \in FieldStarts(i, j) : l < k})
           /\ Cardinality({l \in FieldStarts(i, j) : l < k}) \in Nat
<1>1. IsFiniteSet(i .. j - 1)
  BY FS_Interval
<1>2. {l \in FieldStarts(i, j) : l < k} \subseteq i .. j - 1
  BY DEF FieldStarts
<1> QED
  BY <1>1, <1>2, FS_Subset, FS_CardinalityType

LEMMA CardinalityOne ==
    ASSUME NEW T, NEW x, T = {x}
    PROVE  Cardinality(T) = 1
  BY FS_Singleton

LEMMA CardinalityTwo ==
    ASSUME NEW T, NEW x, NEW y, x # y, T = {x, y}
    PROVE  IsFiniteSet(T) /\ Cardinality(T) = 2
<1>1. IsFiniteSet({x}) /\ Cardinality({x}) = 1
  BY FS_Singleton
<1>2. T = {x} \cup {y} /\ y \notin {x}
  OBVIOUS
<1>3. IsFiniteSet({x} \cup {y}) /\ Cardinality({x} \cup {y}) = 2
  BY <1>1, <1>2, FS_AddElement
<1> QED
  BY <1>2, <1>3

LEMMA CardinalityThree ==
    ASSUME NEW T, IsFiniteSet(T), NEW x \in T, NEW y \in T, NEW z \in T,
           x # y, x # z, y # z
    PROVE  Cardinality(T) >= 3
<1> DEFINE P == {x, y}
           U == P \cup {z}
<1>1. IsFiniteSet(P) /\ Cardinality(P) = 2
  BY CardinalityTwo
<1>2. z \notin P /\ U \subseteq T
  OBVIOUS
<1> HIDE DEF P
<1>3. IsFiniteSet(U) /\ Cardinality(U) = 3
  BY <1>1, <1>2, FS_AddElement
<1> HIDE DEF U
<1>4. Cardinality(U) <= Cardinality(T) /\ Cardinality(T) \in Nat
  BY <1>2, FS_Subset, FS_CardinalityType
<1> QED
  BY <1>3, <1>4

LEMMA ShortSubSeq ==
    ASSUME NEW b \in Seq(STRING), NEW i \in Nat, i < Len(b)
    PROVE  SubSeq(b, i + 1, i + 1) = <<b[i + 1]>>
<1> DEFINE x == SubSeq(b, i + 1, i + 1)
           y == <<b[i + 1]>>
<1>1. i + 1 \in 1 .. Len(b) /\ b[i + 1] \in STRING
  BY LenProperties, ElementOfSeq
<1>2. x \in Seq(STRING) /\ Len(x) = 1 /\ x[1] = b[i + 1]
  <2>1. \A k \in i + 1 .. i + 1 : b[k] \in STRING
    BY <1>1
  <2>2. /\ x \in Seq(STRING)
        /\ Len(x) = IF i + 1 <= i + 1 THEN i + 1 - (i + 1) + 1 ELSE 0
        /\ \A k \in 1 .. i + 1 - (i + 1) + 1 : x[k] = b[i + 1 + k - 1]
    BY <1>1, <2>1, SubSeqProperties
  <2>3. i + 1 <= i + 1 /\ i + 1 - (i + 1) + 1 = 1 /\ 1 \in 1 .. 1 /\ i + 1 + 1 - 1 = i + 1
    OBVIOUS
  <2> HIDE DEF x
  <2> QED
    BY <2>2, <2>3
<1>3. y \in Seq(STRING) /\ Len(y) = 1 /\ y[1] = b[i + 1]
  BY <1>1
<1> HIDE DEF x, y
<1>4. \A k \in 1 .. Len(x) : x[k] = y[k]
  BY <1>2, <1>3
<1>5. x = y
  BY <1>2, <1>3, <1>4, SeqEqual
<1> QED
  BY <1>5 DEF x, y

LEMMA LongSubSeq ==
    ASSUME NEW b \in Seq(STRING), NEW i \in Nat, i + 1 < Len(b)
    PROVE  SubSeq(b, i + 1, i + 2) = <<b[i + 1], b[i + 2]>>
<1> DEFINE x == SubSeq(b, i + 1, i + 2)
           y == <<b[i + 1], b[i + 2]>>
<1>1. i + 1 \in 1 .. Len(b) /\ b[i + 1] \in STRING /\ i + 2 \in 1 .. Len(b) /\ b[i + 2] \in STRING
  BY LenProperties, ElementOfSeq
<1>2. x \in Seq(STRING) /\ Len(x) = 2 /\ x[1] = b[i + 1] /\ x[2] = b[i + 2]
  <2>1. \A k \in i + 1 .. i + 2 : b[k] \in STRING
    <3>1. \A k \in i + 1 .. i + 2 : k = i + 1 \/ k = i + 2
      OBVIOUS
    <3> QED
      BY <1>1, <3>1
  <2>2. /\ x \in Seq(STRING)
        /\ Len(x) = IF i + 1 <= i + 2 THEN i + 2 - (i + 1) + 1 ELSE 0
        /\ \A k \in 1 .. i + 2 - (i + 1) + 1 : x[k] = b[i + 1 + k - 1]
    BY <1>1, <2>1, SubSeqProperties
  <2>3. /\ i + 1 <= i + 2 /\ i + 2 - (i + 1) + 1 = 2 /\ 1 \in 1 .. 2 /\ 2 \in 1 .. 2
        /\ i + 1 + 1 - 1 = i + 1 /\ i + 1 + 2 - 1 = i + 2
    OBVIOUS
  <2> HIDE DEF x
  <2> QED
    BY <2>2, <2>3
<1>3. y \in Seq(STRING) /\ Len(y) = 2 /\ y[1] = b[i + 1] /\ y[2] = b[i + 2]
  BY <1>1
<1> HIDE DEF x, y
<1>4. \A k \in 1 .. Len(x) : x[k] = y[k]
  BY <1>2, <1>3
<1>5. x = y
  BY <1>2, <1>3, <1>4, SeqEqual
<1> QED
  BY <1>5 DEF x, y

\* The field behind x has its "=" behind z: its tag, in the stream and in the message.
TagIn(o, b, x, z) ==
    Has("=", o + x, o + Len(b)) /\ Tag(o + x, o + Len(b)) = SubSeq(b, x + 1, z)

LEMMA TagOf ==
    ASSUME NEW o, NEW b, At(o, b), NEW x \in Nat, NEW z \in Nat, NEW y, y = z + 1,
           x <= z, z < Len(b), b[y] = "=", Free(b, "=", x, y)
    PROVE  TagIn(o, b, x, z)
<1>1. o \in Nat /\ Len(b) \in Nat /\ \A p \in 1 .. Len(b) : stream[o + p] = b[p]
  BY LenProperties DEF At
<1> DEFINE i == o + x
           e == o + Len(b)
           r == o + y
<1>2. i \in Nat /\ e \in Nat /\ r \in i + 1 .. e /\ r - 1 = o + z /\ y \in 1 .. Len(b)
  BY <1>1
<1>3. stream[r] = "="
  BY <1>1, <1>2
<1>4. Free(stream, "=", i, r)
  <2>1. y \in Nat /\ y <= Len(b) + 1
    BY <1>1
  <2> QED
    BY <2>1, NotBetween
<1>5. Bytes(i, r - 1) = SubSeq(b, x + 1, z)
  <2>1. z \in x .. Len(b)
    BY <1>1
  <2>2. Bytes(o + x, o + z) = SubSeq(b, x + 1, z)
    BY <2>1, BytesAre
  <2> QED
    BY <1>2, <2>2
<1> HIDE DEF i, e, r
<1>6. Has("=", i, e) /\ Tag(i, e) = Bytes(i, r - 1)
  BY <1>2, <1>3, <1>4, TagIs
<1> QED
  BY <1>5, <1>6 DEF TagIn, i, e

LEMMA NotDigits ==
    "=" \notin DOMAIN DigitValue /\ SOH \notin DOMAIN DigitValue
  BY DigitsRight DEF SOH

\* The "=" behind digits is the first one.
LEMMA DigitsTag ==
    ASSUME NEW b, NEW x \in Nat, NEW y \in Nat,
           \A p \in x + 1 .. y : b[p] \in DOMAIN DigitValue
    PROVE  Free(b, "=", x, y + 1)
<1>1. \A p \in x + 1 .. y + 1 - 1 : p \in x + 1 .. y
  OBVIOUS
<1> QED
  BY <1>1, NotDigits DEF Free

\* [k, j) of the stream begins with a number and a "=".
Tagged(k, j) == Has("=", k, j) /\ IsNumber(Tag(k, j))

\* The first three fields and the last, and those between, as setString sees them.
FrontTagged(o, m, v, l, t, c, j) ==
    /\ Tagged(o, j) /\ Number(Tag(o, j)) = 8
    /\ Tagged(o + v, j) /\ Number(Tag(o + v, j)) = 9
    /\ Tagged(o + l, j) /\ Number(Tag(o + l, j)) = 35
    /\ Tagged(o + c, j)
    /\ \A x \in t .. c - 1 : m.bytes[x] = SOH => Tagged(o + x, j)

LEMMA FrontTags ==
    ASSUME NEW o, NEW m, NEW v, NEW l, NEW t, NEW c, Parts(m, v, l, t, c), At(o, m.bytes)
    PROVE  FrontTagged(o, m, v, l, t, c, o + Len(m.bytes))
<1> DEFINE b == m.bytes
           L == Len(b)
           j == o + L
<1>1. /\ o \in Nat /\ v \in Nat /\ l \in Nat /\ t \in Nat /\ c \in Nat /\ L \in Nat
      /\ 2 < v /\ v + 2 < l /\ l + 3 < t /\ t <= c /\ c + 3 < L
  BY LenProperties DEF At, Parts
<1>2. At(o, b) /\ b \in Seq(STRING)
  BY DEF At
<1>3. /\ b[1] = "8" /\ b[2] = "="
      /\ b[v + 1] = "9" /\ b[v + 2] = "="
      /\ b[l + 1] = "3" /\ b[l + 2] = "5" /\ b[l + 3] = "="
      /\ b[c + 1] = "1" /\ b[c + 2] = "0" /\ b[c + 3] = "="
  BY DEF Parts
<1>4. j = o + Len(b)
  OBVIOUS
<1>5. \A k \in t .. c - 1 :
         b[k] = SOH =>
            \E e \in k + 1 .. c - 1 : TagAt(b, k, e) /\ Number(SubSeq(b, k + 1, e)) # 9
  BY DEF Parts
<1> HIDE DEF b, j
<1>6. Tagged(o, j) /\ Number(Tag(o, j)) = 8
  <2>1. /\ 0 \in Nat /\ 1 \in Nat /\ 2 = 1 + 1 /\ 0 <= 1 /\ 1 < Len(b)
        /\ 0 < Len(b)
    BY <1>1
  <2>2. Free(b, "=", 0, 2)
    <3>1. \A k \in 0 + 1 .. 2 - 1 : k = 1
      BY <1>1
    <3>2. \A k \in 0 + 1 .. 2 - 1 : b[k] # "="
      BY <1>3, <3>1
    <3> QED
      BY <1>1, <3>2 DEF Free
  <2>3. TagIn(o, b, 0, 1)
    BY <1>2, <1>3, <2>1, <2>2, TagOf
  <2>4. SubSeq(b, 1, 1) = <<b[1]>>
    BY <1>2, <2>1, ShortSubSeq
  <2>5. Has("=", o, j) /\ Tag(o, j) = <<"8">>
    BY <1>1, <1>3, <1>4, <2>3, <2>4 DEF TagIn
  <2> QED
    BY <2>5, FirstTags DEF Tagged
<1>7. Tagged(o + v, j) /\ Number(Tag(o + v, j)) = 9
  <2>1. /\ v \in Nat /\ v + 1 \in Nat /\ v + 2 = v + 1 + 1 /\ v <= v + 1 /\ v + 1 < Len(b)
        /\ v < Len(b)
    BY <1>1
  <2>2. Free(b, "=", v, v + 2)
    <3>1. \A k \in v + 1 .. v + 2 - 1 : k = v + 1
      BY <1>1
    <3>2. \A k \in v + 1 .. v + 2 - 1 : b[k] # "="
      BY <1>3, <3>1
    <3> QED
      BY <1>1, <3>2 DEF Free
  <2>3. TagIn(o, b, v, v + 1)
    BY <1>2, <1>3, <2>1, <2>2, TagOf
  <2>4. SubSeq(b, v + 1, v + 1) = <<b[v + 1]>>
    BY <1>2, <2>1, ShortSubSeq
  <2>5. Has("=", o + v, j) /\ Tag(o + v, j) = <<"9">>
    BY <1>1, <1>3, <1>4, <2>3, <2>4 DEF TagIn
  <2> QED
    BY <2>5, FirstTags DEF Tagged
<1>8. Tagged(o + l, j) /\ Number(Tag(o + l, j)) = 35
  <2>1. /\ l \in Nat /\ l + 2 \in Nat /\ l + 3 = l + 2 + 1 /\ l <= l + 2 /\ l + 2 < Len(b)
        /\ l + 1 < Len(b)
    BY <1>1
  <2>2. Free(b, "=", l, l + 3)
    <3>1. \A k \in l + 1 .. l + 3 - 1 : k = l + 1 \/ k = l + 2
      BY <1>1
    <3>2. \A k \in l + 1 .. l + 3 - 1 : b[k] # "="
      BY <1>3, <3>1
    <3> QED
      BY <1>1, <3>2 DEF Free
  <2>3. TagIn(o, b, l, l + 2)
    BY <1>2, <1>3, <2>1, <2>2, TagOf
  <2>4. SubSeq(b, l + 1, l + 2) = <<b[l + 1], b[l + 2]>>
    BY <1>2, <2>1, LongSubSeq
  <2>5. Has("=", o + l, j) /\ Tag(o + l, j) = <<"3", "5">>
    BY <1>1, <1>3, <1>4, <2>3, <2>4 DEF TagIn
  <2> QED
    BY <2>5, FirstTags DEF Tagged
<1>9. Tagged(o + c, j)
  <2>1. /\ c \in Nat /\ c + 2 \in Nat /\ c + 3 = c + 2 + 1 /\ c <= c + 2 /\ c + 2 < Len(b)
        /\ c + 1 < Len(b)
    BY <1>1
  <2>2. Free(b, "=", c, c + 3)
    <3>1. \A k \in c + 1 .. c + 3 - 1 : k = c + 1 \/ k = c + 2
      BY <1>1
    <3>2. \A k \in c + 1 .. c + 3 - 1 : b[k] # "="
      BY <1>3, <3>1
    <3> QED
      BY <1>1, <3>2 DEF Free
  <2>3. TagIn(o, b, c, c + 2)
    BY <1>2, <1>3, <2>1, <2>2, TagOf
  <2>4. SubSeq(b, c + 1, c + 2) = <<b[c + 1], b[c + 2]>>
    BY <1>2, <2>1, LongSubSeq
  <2>5. Has("=", o + c, j) /\ Tag(o + c, j) = <<"1", "0">>
    BY <1>1, <1>3, <1>4, <2>3, <2>4 DEF TagIn
  <2> QED
    BY <2>5, FirstTags DEF Tagged
<1>10. ASSUME NEW x \in t .. c - 1, b[x] = SOH
      PROVE  Tagged(o + x, j)
  <2>1. PICK e \in x + 1 .. c - 1 : TagAt(b, x, e)
    BY <1>5, <1>10
  <2>2. x \in Nat /\ e \in Nat /\ x < e /\ x <= e /\ e < Len(b)
    BY <1>1
  <2>3. /\ b[e + 1] = "=" /\ \A p \in x + 1 .. e : b[p] \in DOMAIN DigitValue
        /\ IsNumber(SubSeq(b, x + 1, e))
    BY <2>1 DEF TagAt
  <2>4. Free(b, "=", x, e + 1)
    BY <2>2, <2>3, DigitsTag
  <2>5. TagIn(o, b, x, e)
    BY <1>2, <2>2, <2>3, <2>4, TagOf
  <2> QED
    BY <1>4, <2>3, <2>5 DEF Tagged, TagIn
<1> QED
  BY <1>6, <1>7, <1>8, <1>9, <1>10 DEF FrontTagged, b, j

LEMMA SetStringTakesMessage ==
    ASSUME NEW o, NEW m \in Messages, At(o, m.bytes), NEW j, j = o + Len(m.bytes)
    PROVE  SetStringTakes(o, j)
<1> DEFINE b == m.bytes
           L == Len(b)
           F == FieldStarts(o, j)
<1>1. PICK v, l, t, c : Parts(m, v, l, t, c)
  BY HasParts
<1>2. /\ o \in Nat /\ v \in Nat /\ l \in Nat /\ t \in Nat /\ c \in Nat /\ L \in Nat
      /\ 2 < v /\ v + 2 < l /\ l + 3 < t /\ t <= c /\ c + 3 < L /\ j = o + L /\ j \in Nat
  BY <1>1, LenProperties DEF At, Parts
<1>3. /\ Free(b, SOH, 0, v) /\ b[v] = SOH /\ Free(b, SOH, v, l) /\ b[l] = SOH
      /\ Free(b, SOH, l, t) /\ b[t] = SOH /\ Free(b, SOH, c, L) /\ b[L] = SOH
  BY <1>1 DEF Parts
<1>4. \A p \in 1 .. L : stream[o + p] = b[p]
  BY DEF At
<1>5. /\ Tagged(o, j) /\ Number(Tag(o, j)) = 8
      /\ Tagged(o + v, j) /\ Number(Tag(o + v, j)) = 9
      /\ Tagged(o + l, j) /\ Number(Tag(o + l, j)) = 35
      /\ Tagged(o + c, j)
      /\ \A x \in t .. c - 1 : b[x] = SOH => Tagged(o + x, j)
  <2>1. FrontTagged(o, m, v, l, t, c, j)
    BY <1>1, FrontTags
  <2> QED
    BY <2>1 DEF FrontTagged
<1> HIDE DEF b, L
<1>6. o \in F /\ o + v \in F /\ o + l \in F
  <2>1. v \in 1 .. L /\ l \in 1 .. L
    BY <1>2
  <2>2. stream[o + v] = SOH /\ stream[o + l] = SOH
    BY <1>3, <1>4, <2>1
  <2> QED
    BY <1>2, <2>2 DEF FieldStarts
<1>7. ASSUME NEW k \in F
      PROVE  \/ k = o \/ k = o + v \/ k = o + l \/ k = o + c
             \/ \E x \in t .. c - 1 : k = o + x /\ b[x] = SOH
  <2>1. k \in o .. j - 1 /\ (k = o \/ stream[k] = SOH)
    BY DEF FieldStarts
  <2>2. CASE k = o
    BY <2>2
  <2>3. CASE k # o
    <3> DEFINE x == k - o
    <3>1. x \in 1 .. L - 1 /\ x \in 1 .. L /\ k = o + x
      BY <1>2, <2>1, <2>3
    <3> HIDE DEF x
    <3>2. b[x] = SOH
      BY <1>4, <2>1, <2>3, <3>1
    <3>3. ~(x < v)
      BY <1>2, <1>3, <3>1, <3>2 DEF Free
    <3>4. ~(v < x /\ x < l)
      BY <1>2, <1>3, <3>1, <3>2 DEF Free
    <3>5. ~(l < x /\ x < t)
      BY <1>2, <1>3, <3>1, <3>2 DEF Free
    <3>6. ~(c < x)
      BY <1>2, <1>3, <3>1, <3>2 DEF Free
    <3>7. x = v \/ x = l \/ x = c \/ x \in t .. c - 1
      BY <1>2, <3>1, <3>3, <3>4, <3>5, <3>6
    <3> QED
      BY <3>1, <3>2, <3>7
  <2> QED
    BY <2>2, <2>3
<1>8. \A k \in F : Tagged(k, j)
  BY <1>5, <1>7
<1> DEFINE B(k) == {i \in F : i < k}
<1>9. B(o) = {} /\ B(o + v) = {o} /\ B(o + l) = {o, o + v}
  <2>1. \A k \in F : k = o \/ k = o + v \/ k = o + l \/ k >= o + t
    BY <1>2, <1>7
  <2>2. F \subseteq Nat
    BY <1>2 DEF FieldStarts
  <2> HIDE DEF F
  <2>3. B(o) = {}
    <3>1. \A i \in F : ~(i < o)
      BY <1>2, <2>1, <2>2
    <3> QED
      BY <3>1
  <2>4. B(o + v) = {o}
    <3>1. /\ \A i \in F : i < o + v => i = o
          /\ o < o + v
      BY <1>2, <2>1, <2>2
    <3> QED
      BY <1>6, <3>1
  <2>5. B(o + l) = {o, o + v}
    <3>1. /\ \A i \in F : i < o + l => i = o \/ i = o + v
          /\ o < o + l /\ o + v < o + l
      BY <1>2, <2>1, <2>2
    <3> QED
      BY <1>6, <3>1
  <2> QED
    BY <2>3, <2>4, <2>5
<1>10. Cardinality(B(o)) = 0 /\ Cardinality(B(o + v)) = 1 /\ Cardinality(B(o + l)) = 2
  <2>1. o # o + v
    BY <1>2
  <2> HIDE DEF B
  <2>2. Cardinality(B(o)) = 0
    BY <1>9, FS_EmptySet
  <2>3. Cardinality(B(o + v)) = 1
    BY <1>9, CardinalityOne
  <2>4. Cardinality(B(o + l)) = 2
    BY <1>9, <2>1, CardinalityTwo
  <2> QED
    BY <2>2, <2>3, <2>4
<1>11. ASSUME NEW k \in F, k # o, k # o + v, k # o + l
       PROVE  ~(Cardinality(B(k)) < 3)
  <2>1. k > o + l /\ k \in Nat
    BY <1>2, <1>7, <1>11
  <2>2. o \in B(k) /\ o + v \in B(k) /\ o + l \in B(k)
    BY <1>2, <1>6, <2>1
  <2>3. o # o + v /\ o # o + l /\ o + v # o + l
    BY <1>2
  <2>4. IsFiniteSet(B(k)) /\ Cardinality(B(k)) \in Nat
    BY <1>2, FieldStartsFinite
  <2> HIDE DEF B
  <2>5. Cardinality(B(k)) >= 3
    BY <2>2, <2>3, <2>4, CardinalityThree
  <2> QED
    BY <2>4, <2>5
<1>12. ASSUME NEW k \in F
       PROVE  Cardinality(B(k)) < 3 => Number(Tag(k, j)) = <<8, 9, 35>>[Cardinality(B(k)) + 1]
  <2> HIDE DEF B, F
  <2>1. CASE k = o
    BY <1>5, <1>10, <2>1
  <2>2. CASE k = o + v
    BY <1>5, <1>10, <2>2
  <2>3. CASE k = o + l
    BY <1>5, <1>10, <2>3
  <2>4. CASE k # o /\ k # o + v /\ k # o + l
    BY <1>11, <2>4
  <2> QED
    BY <2>1, <2>2, <2>3, <2>4
<1>13. stream[j] = SOH
  <2>1. L \in 1 .. L
    BY <1>2
  <2> QED
    BY <1>2, <1>3, <1>4, <2>1
<1> QED
  BY <1>8, <1>12, <1>13, Zenon DEF SetStringTakes, Tagged

-----------------------------------------------------------------------------
(* A clean point: nothing remains, and what is read begins with a message. *)

LEMMA CleanCall ==
    ASSUME Inv, NEW n \in 1 .. Len(sent), rem = read, End(n - 1) = read,
           NEW e \in End(n) .. Len(stream), Receive(e)
    PROVE  /\ rem' = End(n) /\ terminated' = terminated
           /\ delivered' = delivered \o
                (IF IsKnown(sent[n])
                 THEN <<[type |-> sent[n].type, from |-> read, to |-> End(n)]>>
                 ELSE <<>>)
<1>1. ~Throws(e) /\ MsgType(e) = sent[n].type /\ Remainder(e) = End(n)
  BY FrontMessage
<1>2. sent[n] \in Messages /\ At(read, sent[n].bytes) /\ End(n) = read + Len(sent[n].bytes)
  BY MessageAt
<1>3. SetStringTakes(read, Remainder(e))
  BY <1>1, <1>2, SetStringTakesMessage
<1>4. delivered \in Seq([type : KnownTypes, from : Nat, to : Nat])
  BY DEF Inv, ReadInv
<1>5. CASE IsKnown(sent[n])
  <2>1. Outcome(e) = "delivers"
    BY <1>1, <1>3, <1>5 DEF Outcome, IsKnown
  <2>2. Deliver(e)
    BY <2>1 DEF Receive, PassOver, Terminate
  <2>3. e \in 0 .. Len(stream)
    BY MessageAt, Numbers
  <2>4. /\ rem' = End(n) /\ terminated' = terminated /\ delivered' = Append(delivered, Content(e))
        /\ Content(e) \in [type : KnownTypes, from : Nat, to : Nat]
    BY <1>1, <2>2, <2>3, DeliverRight
  <2>5. Content(e) = [type |-> sent[n].type, from |-> read, to |-> End(n)]
    BY <1>1 DEF Content
  <2>6. Append(delivered, Content(e)) = delivered \o <<Content(e)>>
    BY <1>4, <2>4, AppendIsConcat
  <2> QED
    BY <1>5, <2>4, <2>5, <2>6
<1>6. CASE ~IsKnown(sent[n])
  <2>1. Outcome(e) = "passes over"
    BY <1>1, <1>6 DEF Outcome, IsKnown
  <2>2. rem' = End(n) /\ terminated' = terminated /\ delivered' = delivered
    BY <1>1, <2>1 DEF Receive, Deliver, PassOver, Terminate
  <2>3. delivered \o << >> = delivered
    BY <1>4, ConcatEmptySeq
  <2> QED
    BY <1>6, <2>2, <2>3
<1> QED
  BY <1>5, <1>6

CleanStep ==
    \A n \in 1 .. Len(sent) :
       rem = read /\ End(n - 1) = read /\ End(n) <= read' /\ read' # read =>
          /\ ~terminated'
          /\ delivered' = delivered \o
                (IF IsKnown(sent[n])
                 THEN <<[type |-> sent[n].type, from |-> read, to |-> End(n)]>>
                 ELSE <<>>)

LEMMA CleanNext == Inv /\ [Next]_vars => [CleanStep]_vars
<1> SUFFICES ASSUME Inv, Next,
                    NEW n \in 1 .. Len(sent),
                    rem = read, End(n - 1) = read, End(n) <= read', read' # read
             PROVE  /\ ~terminated'
                    /\ delivered' = delivered \o
                          (IF IsKnown(sent[n])
                           THEN <<[type |-> sent[n].type, from |-> read, to |-> End(n)]>>
                           ELSE <<>>)
  BY DEF CleanStep
<1>1. PICK e \in MayEnd : Receive(e)
  BY DEF Next, PeerSends
<1>2. read' = e /\ ~terminated
  BY <1>1 DEF Receive, Deliver, PassOver, Terminate, Arrives
<1>3. e \in End(n) .. Len(stream)
  <2>1. e \in 0 .. Len(stream) /\ End(n) \in 0 .. Len(stream)
    BY ReadsInStream, MessageAt
  <2> QED
    BY <1>2, <2>1, Numbers
<1>4. terminated' = terminated
  BY <1>1, <1>3, CleanCall
<1>5. delivered' = delivered \o
         (IF IsKnown(sent[n])
          THEN <<[type |-> sent[n].type, from |-> read, to |-> End(n)]>>
          ELSE <<>>)
  BY <1>1, <1>3, CleanCall
<1> QED
  BY <1>2, <1>4, <1>5

\* However the reads are cut, a message that a read has in front, with nothing left
\* over from before, is delivered if it is all there, and the thread lives on: the
\* three fields, the body length and the checksum field lead deserialise to its end,
\* and setString takes it (FIXProtocolAdaptor.hpp:443-507, FixBaseMessage.hpp:97).
THEOREM CleanReadsDeliver == Spec => CleanReadDelivers
<1>1. Spec => [][CleanStep]_vars
  BY InvAlways, CleanNext, PTL DEF Spec
<1> QED
  BY <1>1 DEF CleanReadDelivers, CleanStep

-----------------------------------------------------------------------------
(* Reads that keep the messages apart. *)

\* Taken and Received, of any state.
TakenOf(s, r) == Cardinality({n \in 1 .. Len(s) : EndOf(s, n) <= r})
ReceivedOf(d, st) ==
    [i \in DOMAIN d |-> [type |-> d[i].type, bytes |-> SubSeq(st, d[i].from + 1, d[i].to)]]

LEMMA TakenIs ==
    ASSUME NEW s \in Seq(Messages), NEW k \in 0 .. Len(s)
    PROVE  TakenOf(s, EndOf(s, k)) = k
<1>1. Len(s) \in Nat
  BY LenProperties
<1>2. ASSUME NEW n \in 1 .. Len(s)
      PROVE  EndOf(s, n) <= EndOf(s, k) <=> n <= k
  <2>1. n \in 0 .. Len(s) /\ EndOf(s, n) \in Nat /\ EndOf(s, k) \in Nat
    BY <1>1, EndRight
  <2>2. CASE n < k
    BY <2>1, <2>2, EndOfGrows
  <2>3. CASE n = k
    BY <2>1, <2>3
  <2>4. CASE n > k
    <3>1. k < n
      BY <2>4
    <3>2. EndOf(s, k) < EndOf(s, n)
      BY <2>1, <3>1, EndOfGrows
    <3> QED
      BY <2>1, <2>4, <3>2
  <2> QED
    BY <1>1, <2>2, <2>3, <2>4
<1>3. {n \in 1 .. Len(s) : EndOf(s, n) <= EndOf(s, k)} = 1 .. k
  <2>1. \A n \in 1 .. k : n \in 1 .. Len(s) /\ n <= k
    BY <1>1
  <2>2. \A n \in 1 .. Len(s) : n <= k => n \in 1 .. k
    BY <1>1
  <2> QED
    BY <1>2, <2>1, <2>2
<1>4. Cardinality(1 .. k) = k
  BY FS_Interval
<1> QED
  BY <1>3, <1>4 DEF TakenOf

DeliveredSet == [type : KnownTypes, from : Nat, to : Nat]

LEMMA ReceivedRight ==
    ASSUME NEW d \in Seq(DeliveredSet), NEW st \in Seq(STRING),
           \A i \in 1 .. Len(d) : d[i].to <= Len(st)
    PROVE  /\ ReceivedOf(d, st) \in Seq([type : KnownTypes, bytes : Seq(STRING)])
           /\ Len(ReceivedOf(d, st)) = Len(d)
           /\ \A i \in 1 .. Len(d) :
                 ReceivedOf(d, st)[i] =
                    [type |-> d[i].type, bytes |-> SubSeq(st, d[i].from + 1, d[i].to)]
<1>1. Len(d) \in Nat /\ DOMAIN d = 1 .. Len(d) /\ Len(st) \in Nat
  BY LenProperties
<1>2. ASSUME NEW i \in 1 .. Len(d)
      PROVE  d[i].type \in KnownTypes /\ SubSeq(st, d[i].from + 1, d[i].to) \in Seq(STRING)
  <2> DEFINE a == d[i].from + 1
             z == d[i].to
  <2>1. d[i] \in DeliveredSet
    BY ElementOfSeq
  <2>2. d[i].type \in KnownTypes /\ a \in Nat \ {0} /\ z \in Nat
    BY <2>1 DEF DeliveredSet
  <2>3. z <= Len(st)
    OBVIOUS
  <2> HIDE DEF a, z
  <2>4. \A k \in a .. z : st[k] \in STRING
    BY <1>1, <2>2, <2>3, ElementOfSeq
  <2>5. SubSeq(st, a, z) \in Seq(STRING)
    BY <2>2, <2>4, SubSeqProperties
  <2> QED
    BY <2>2, <2>5 DEF a, z
<1> DEFINE R == ReceivedOf(d, st)
           S == [type : KnownTypes, bytes : Seq(STRING)]
<1>3. R \in [1 .. Len(d) -> S]
  BY <1>1, <1>2 DEF ReceivedOf
<1>4. \A i \in 1 .. Len(d) :
         R[i] = [type |-> d[i].type, bytes |-> SubSeq(st, d[i].from + 1, d[i].to)]
  BY <1>1 DEF ReceivedOf
<1> HIDE DEF R, S
<1>5. R \in Seq(S)
  BY <1>1, <1>3, Loops!FunctionIsSeq
<1>6. Len(R) = Len(d)
  <2>1. DOMAIN R = 1 .. Len(d) /\ DOMAIN R = 1 .. Len(R) /\ Len(R) \in Nat
    BY <1>3, <1>5, LenProperties
  <2> QED
    BY <1>1, <2>1
<1> QED
  BY <1>4, <1>5, <1>6 DEF R, S

\* What was received stays what it is when more arrives.
LEMMA ReceivedStays ==
    ASSUME NEW d \in Seq(DeliveredSet), NEW st \in Seq(STRING), NEW su \in Seq(STRING),
           Len(st) <= Len(su), \A p \in 1 .. Len(st) : su[p] = st[p],
           \A i \in 1 .. Len(d) : d[i].to <= Len(st)
    PROVE  ReceivedOf(d, su) = ReceivedOf(d, st)
<1>1. Len(d) \in Nat /\ DOMAIN d = 1 .. Len(d) /\ Len(st) \in Nat /\ Len(su) \in Nat
  BY LenProperties
<1>2. ASSUME NEW i \in 1 .. Len(d)
      PROVE  SubSeq(su, d[i].from + 1, d[i].to) = SubSeq(st, d[i].from + 1, d[i].to)
  <2> DEFINE a == d[i].from + 1
             z == d[i].to
             x == SubSeq(su, a, z)
             y == SubSeq(st, a, z)
  <2>1. d[i] \in DeliveredSet
    BY ElementOfSeq
  <2>2. a \in Nat \ {0} /\ z \in Nat /\ z <= Len(st)
    BY <2>1 DEF DeliveredSet
  <2> HIDE DEF a, z
  <2>3. \A k \in a .. z : k \in 1 .. Len(st) /\ k \in 1 .. Len(su)
    BY <1>1, <2>2
  <2>4. \A k \in a .. z : su[k] \in STRING /\ st[k] \in STRING /\ su[k] = st[k]
    BY <2>3, ElementOfSeq
  <2>5. /\ x \in Seq(STRING) /\ y \in Seq(STRING) /\ Len(x) = Len(y)
        /\ Len(x) = IF a <= z THEN z - a + 1 ELSE 0
        /\ \A k \in 1 .. z - a + 1 : x[k] = su[a + k - 1] /\ y[k] = st[a + k - 1]
    BY <2>2, <2>4, SubSeqProperties
  <2> HIDE DEF x, y
  <2>6. ASSUME NEW k \in 1 .. Len(x)
        PROVE  x[k] = y[k]
    <3> DEFINE q == a + k - 1
    <3>1. k \in 1 .. z - a + 1 /\ q \in a .. z
      BY <2>2, <2>5
    <3>2. x[k] = su[q] /\ y[k] = st[q]
      BY <2>5, <3>1
    <3> HIDE DEF q
    <3> QED
      BY <2>4, <3>1, <3>2
  <2>7. x = y
    BY <2>5, <2>6, SeqEqual
  <2> QED
    BY <2>7 DEF a, z, x, y
<1> QED
  BY <1>1, <1>2 DEF ReceivedOf

LEMMA ReceivedGrows ==
    ASSUME NEW d \in Seq(DeliveredSet), NEW st \in Seq(STRING),
           \A i \in 1 .. Len(d) : d[i].to <= Len(st),
           NEW x \in DeliveredSet, x.to <= Len(st)
    PROVE  ReceivedOf(Append(d, x), st) =
              Append(ReceivedOf(d, st), [type |-> x.type, bytes |-> SubSeq(st, x.from + 1, x.to)])
<1> DEFINE D == Append(d, x)
           N == Len(d)
           r == [type |-> x.type, bytes |-> SubSeq(st, x.from + 1, x.to)]
           S == [type : KnownTypes, bytes : Seq(STRING)]
           P == ReceivedOf(d, st)
           Q == ReceivedOf(D, st)
           A == Append(P, r)
<1>1. /\ D \in Seq(DeliveredSet) /\ Len(D) = N + 1 /\ D[N + 1] = x
      /\ \A i \in 1 .. N : D[i] = d[i]
      /\ N \in Nat
  BY AppendProperties, LenProperties
<1> HIDE DEF D
<1>2. ASSUME NEW i \in 1 .. Len(D)
      PROVE  D[i].to <= Len(st)
  <2>1. i \in 1 .. N \/ i = N + 1
    BY <1>1
  <2> QED
    BY <1>1, <2>1
<1>3. /\ P \in Seq(S) /\ Len(P) = N
      /\ \A i \in 1 .. N :
            P[i] = [type |-> d[i].type, bytes |-> SubSeq(st, d[i].from + 1, d[i].to)]
  BY ReceivedRight
<1>4. /\ Q \in Seq(S) /\ Len(Q) = N + 1
      /\ \A i \in 1 .. N + 1 :
            Q[i] = [type |-> D[i].type, bytes |-> SubSeq(st, D[i].from + 1, D[i].to)]
  BY <1>1, <1>2, ReceivedRight
<1>5. Q[N + 1] = r
  <2>1. N + 1 \in 1 .. N + 1
    BY <1>1
  <2> QED
    BY <1>1, <1>4, <2>1
<1>6. r \in S
  <2>1. N + 1 \in 1 .. Len(Q)
    BY <1>1, <1>4
  <2> HIDE DEF r, Q, S
  <2> QED
    BY <1>4, <1>5, <2>1, ElementOfSeq
<1> HIDE DEF P, Q, r, S, N
<1>7. A \in Seq(S) /\ Len(A) = N + 1 /\ A[N + 1] = r /\ \A i \in 1 .. N : A[i] = P[i]
  BY <1>3, <1>6, AppendProperties
<1> HIDE DEF A
<1>8. ASSUME NEW i \in 1 .. Len(Q)
      PROVE  Q[i] = A[i]
  <2>1. CASE i = N + 1
    BY <1>5, <1>7, <2>1
  <2>2. CASE i # N + 1
    <3>1. i \in 1 .. N /\ i \in 1 .. N + 1
      BY <1>1, <1>4, <2>2
    <3>2. D[i] = d[i]
      BY <1>1, <3>1
    <3> QED
      BY <1>3, <1>4, <1>7, <3>1, <3>2
  <2> QED
    BY <2>1, <2>2
<1>9. Q = A
  BY <1>4, <1>7, <1>8, SeqEqual
<1> QED
  BY <1>9 DEF Q, A, P, r, D

\* Between two calls nothing remains, and the next read begins with a message.
CleanInv ==
    /\ Inv
    /\ ~terminated
    /\ rem = read
    /\ \E k \in 0 .. Len(sent) : read = End(k)

LEMMA TakenAt ==
    ASSUME Inv, NEW k \in 0 .. Len(sent), read = End(k)
    PROVE  Taken = k
<1>1. sent \in Seq(Messages)
  BY Numbers
<1>2. Taken = TakenOf(sent, read)
  BY EndIs DEF Taken, TakenOf
<1> QED
  BY <1>1, <1>2, EndIs, TakenIs

LEMMA ReceivedIs ==
    /\ Received = ReceivedOf(delivered, stream)
    /\ Received' = ReceivedOf(delivered', stream')
<1>1. Received = ReceivedOf(delivered, stream)
  BY DEF Received, ReceivedOf, Bytes
<1>2. Received' = ReceivedOf(delivered', stream')
  BY DEF Received, ReceivedOf, Bytes
<1> QED
  BY <1>1, <1>2

\* A read takes one message, which is delivered or passed over.
LEMMA CleanTake ==
    ASSUME CleanInv, Segmentation = "perMessage", NEW e \in MayEnd, Receive(e)
    PROVE  /\ \E n \in 1 .. Len(sent) :
                /\ Taken = n - 1 /\ Taken' = n /\ sent' = sent
                /\ Received' = IF IsKnown(sent[n]) THEN Append(Received, sent[n]) ELSE Received
           /\ CleanInv'
<1>1. Inv /\ ~terminated /\ rem = read
  BY DEF CleanInv
<1>2. PICK n \in 1 .. Len(sent) : e = End(n) /\ End(n - 1) = read
  <2>1. e \in {End(n) : n \in {m \in 1 .. Len(sent) : End(m - 1) = read}}
    BY DEF MayEnd
  <2> QED
    BY <2>1
<1>3. /\ sent[n] \in Messages /\ At(read, sent[n].bytes) /\ End(n) = read + Len(sent[n].bytes)
      /\ read \in Nat /\ End(n) \in 0 .. Len(stream)
  BY <1>1, <1>2, MessageAt
<1>4. e \in End(n) .. Len(stream)
  BY <1>1, <1>2, <1>3, Numbers
<1>5. read' = e /\ sent' = sent /\ stream' = stream
  BY DEF Receive, Deliver, PassOver, Terminate, Arrives
<1>6. /\ rem' = End(n) /\ terminated' = terminated
      /\ delivered' = delivered \o
           (IF IsKnown(sent[n])
            THEN <<[type |-> sent[n].type, from |-> read, to |-> End(n)]>>
            ELSE <<>>)
  BY <1>1, <1>2, <1>4, CleanCall
<1>7. sent \in Seq(Messages) /\ stream \in Seq(STRING) /\ Len(sent) \in Nat /\ Len(stream) \in Nat
  BY <1>1, Numbers, Ends
<1>8. n - 1 \in 0 .. Len(sent) /\ n \in 0 .. Len(sent)
  BY <1>7
<1>9. Taken = n - 1
  BY <1>1, <1>2, <1>8, TakenAt
<1>10. Taken' = n
  <2>1. Taken' = TakenOf(sent', read')
    BY DEF Taken, TakenOf, End, EndOf
  <2>2. read' = EndOf(sent, n)
    BY <1>2, <1>5, EndIs
  <2> QED
    BY <1>5, <1>7, <1>8, <2>1, <2>2, TakenIs
<1>11. Received' = IF IsKnown(sent[n]) THEN Append(Received, sent[n]) ELSE Received
  <2> DEFINE x == [type |-> sent[n].type, from |-> read, to |-> End(n)]
             r == [type |-> x.type, bytes |-> SubSeq(stream, x.from + 1, x.to)]
  <2>1. delivered \in Seq(DeliveredSet)
    BY <1>1 DEF Inv, ReadInv, DeliveredSet
  <2>2. \A i \in 1 .. Len(delivered) : delivered[i].to <= Len(stream)
    <3>1. \A i \in 1 .. Len(delivered) :
             delivered[i].from \in 0 .. read /\ delivered[i].to \in delivered[i].from .. read
      BY <1>1 DEF Inv, ReadInv
    <3>2. read <= Len(stream)
      BY <1>1, Numbers
    <3> QED
      BY <1>3, <1>7, <3>1, <3>2
  <2>3. CASE IsKnown(sent[n])
    <3>1. x \in DeliveredSet /\ x.to <= Len(stream)
      BY <1>3, <1>7, <2>3 DEF DeliveredSet, IsKnown
    <3>2. delivered' = Append(delivered, x)
      BY <1>6, <2>1, <2>3, <3>1, AppendIsConcat
    <3>3. ReceivedOf(Append(delivered, x), stream) = Append(ReceivedOf(delivered, stream), r)
      <4> HIDE DEF x
      <4> QED
        BY <1>7, <2>1, <2>2, <3>1, ReceivedGrows
    <3>4. r = sent[n]
      <4>1. SubSeq(stream, read + 1, End(n)) = sent[n].bytes
        <5> DEFINE b == sent[n].bytes
        <5>1. b \in Seq(STRING) /\ Len(b) \in Nat
          BY <1>3, NoMessageEmpty
        <5>2. 0 \in Nat /\ Len(b) \in 0 .. Len(b) /\ read + 0 = read /\ 0 + 1 = 1
          BY <1>3, <5>1
        <5>3. Bytes(read + 0, read + Len(b)) = SubSeq(b, 0 + 1, Len(b))
          BY <1>3, <5>2, BytesAre
        <5>4. SubSeq(b, 1, Len(b)) = b
          BY <5>1, SubSeqFull
        <5> QED
          BY <1>3, <5>2, <5>3, <5>4 DEF Bytes
      <4>2. x.type = sent[n].type /\ x.from = read /\ x.to = End(n)
        OBVIOUS
      <4>3. sent[n] = [type |-> sent[n].type, bytes |-> sent[n].bytes]
        BY <1>3, DeserialiseAssumption
      <4> HIDE DEF x
      <4> QED
        BY <4>1, <4>2, <4>3
    <3> HIDE DEF x, r
    <3> QED
      BY <1>5, <2>3, <3>2, <3>3, <3>4, ReceivedIs
  <2>4. CASE ~IsKnown(sent[n])
    <3>1. delivered' = delivered
      BY <1>6, <2>1, <2>4, ConcatEmptySeq
    <3> QED
      BY <1>5, <2>4, <3>1, ReceivedIs
  <2> QED
    BY <2>3, <2>4
<1>12. CleanInv'
  <2>1. Inv'
    BY <1>1, <1>4, ReadsInStream, InvReceive
  <2>2. ~terminated' /\ rem' = read'
    BY <1>1, <1>2, <1>5, <1>6
  <2>3. \E k \in 0 .. Len(sent') : read' = End(k)'
    <3>1. End(n)' = End(n)
      BY <1>5 DEF End
    <3> QED
      BY <1>2, <1>5, <1>8, <3>1
  <2> QED
    BY <2>1, <2>2, <2>3 DEF CleanInv
<1> QED
  BY <1>5, <1>9, <1>10, <1>11, <1>12

\* What the peer sends changes nothing for those already taken.
LEMMA CleanSend ==
    ASSUME CleanInv, NEW m \in Messages, PeerSends(m)
    PROVE  Taken' = Taken /\ Received' = Received /\ CleanInv'
<1>1. Inv /\ ~terminated /\ rem = read
  BY DEF CleanInv
<1>2. PICK k \in 0 .. Len(sent) : read = End(k)
  BY DEF CleanInv
<1>3. /\ StreamInv' /\ Len(sent') = Len(sent) + 1
      /\ \A n \in 0 .. Len(sent) : End(n)' = End(n)
      /\ Len(stream') = Len(stream) + Len(m.bytes)
      /\ \A p \in 1 .. Len(stream) : stream'[p] = stream[p]
  BY <1>1, StreamGrows DEF Inv
<1>4. /\ read' = read /\ rem' = rem /\ terminated' = terminated /\ delivered' = delivered
  BY DEF PeerSends
<1>5. /\ sent \in Seq(Messages) /\ stream \in Seq(STRING) /\ Len(sent) \in Nat
      /\ Len(stream) \in Nat /\ Len(m.bytes) \in Nat /\ read \in Nat /\ read <= Len(stream)
  BY <1>1, Numbers, Ends, NoMessageEmpty
<1>6. sent' \in Seq(Messages) /\ stream' \in Seq(STRING)
  BY <1>3 DEF StreamInv
<1>7. k \in 0 .. Len(sent') /\ read' = End(k)'
  BY <1>2, <1>3, <1>4, <1>5
<1>8. Taken = k
  BY <1>1, <1>2, TakenAt
<1>9. Taken' = k
  <2>1. Taken' = TakenOf(sent', read')
    BY DEF Taken, TakenOf, End, EndOf
  <2>2. End(k)' = EndOf(sent', k)
    BY DEF End, EndOf
  <2> QED
    BY <1>6, <1>7, <2>1, <2>2, TakenIs
<1>10. Received' = Received
  <2>1. delivered \in Seq(DeliveredSet)
    BY <1>1 DEF Inv, ReadInv, DeliveredSet
  <2>2. \A i \in 1 .. Len(delivered) : delivered[i].to <= Len(stream)
    <3>1. \A i \in 1 .. Len(delivered) :
             delivered[i].from \in 0 .. read /\ delivered[i].to \in delivered[i].from .. read
      BY <1>1 DEF Inv, ReadInv
    <3> QED
      BY <1>5, <3>1
  <2>3. Len(stream) <= Len(stream')
    BY <1>3, <1>5
  <2>4. ReceivedOf(delivered, stream') = ReceivedOf(delivered, stream)
    BY <1>3, <1>5, <1>6, <2>1, <2>2, <2>3, ReceivedStays
  <2> QED
    BY <1>4, <2>4, ReceivedIs
<1>11. Inv'
  <2>1. [Next]_vars
    BY DEF Next
  <2> QED
    BY <1>1, <2>1, InvNext
<1> QED
  BY <1>1, <1>4, <1>7, <1>8, <1>9, <1>10, <1>11 DEF CleanInv

LEMMA CleanInvInit == Init => CleanInv
<1> SUFFICES ASSUME Init PROVE CleanInv
  OBVIOUS
<1>1. Inv
  BY InvInit
<1>2. 0 \in 0 .. Len(sent) /\ End(0) = 0
  BY <1>1, Numbers, Ends
<1> QED
  BY <1>1, <1>2 DEF Init, CleanInv

LEMMA CleanInvNext == Segmentation = "perMessage" /\ CleanInv /\ [Next]_vars => CleanInv'
<1> SUFFICES ASSUME Segmentation = "perMessage", CleanInv, [Next]_vars PROVE CleanInv'
  OBVIOUS
<1>1. ASSUME NEW m \in Messages, PeerSends(m)
      PROVE  CleanInv'
  BY <1>1, CleanSend
<1>2. ASSUME NEW e \in MayEnd, Receive(e)
      PROVE  CleanInv'
  BY <1>2, CleanTake
<1>3. CASE UNCHANGED vars
  <2>1. Inv'
    BY <1>3, InvNext DEF CleanInv
  <2>2. ~terminated' /\ rem' = read'
    BY <1>3 DEF vars, CleanInv
  <2>3. \E k \in 0 .. Len(sent') : read' = End(k)'
    <3>1. PICK k \in 0 .. Len(sent) : read = End(k)
      BY DEF CleanInv
    <3>2. End(k)' = End(k)
      BY <1>3 DEF vars, End
    <3> QED
      BY <1>3, <3>1, <3>2 DEF vars
  <2> QED
    BY <2>1, <2>2, <2>3 DEF CleanInv
<1> QED
  BY <1>1, <1>2, <1>3 DEF Next

LEMMA DeliveryInit == Init => Delivery!Init
<1> SUFFICES ASSUME Init PROVE Delivery!Init
  OBVIOUS
<1>1. Inv
  BY InvInit
<1>2. sent = << >> /\ read = 0 /\ delivered = << >>
  BY DEF Init
<1>3. 0 \in 0 .. Len(sent) /\ read = End(0)
  BY <1>1, <1>2, Numbers, Ends
<1>4. Taken = 0
  BY <1>1, <1>3, TakenAt
<1>5. Received = << >>
  <2>1. << >> \in Seq(DeliveredSet) /\ stream \in Seq(STRING) /\ \A i \in 1 .. Len(<< >>) : FALSE
    BY <1>1, Numbers
  <2>2. Len(ReceivedOf(<< >>, stream)) = 0 /\ ReceivedOf(<< >>, stream) \in Seq([type : KnownTypes, bytes : Seq(STRING)])
    BY <2>1, ReceivedRight
  <2>3. ReceivedOf(<< >>, stream) = << >>
    BY <2>2, EmptySeq
  <2> QED
    BY <1>2, <2>3, ReceivedIs
<1> QED
  BY <1>2, <1>4, <1>5 DEF Delivery!Init

LEMMA DeliveryNext ==
    Segmentation = "perMessage" /\ CleanInv /\ [Next]_vars => [Delivery!Next]_(Delivery!vars)
<1> SUFFICES ASSUME Segmentation = "perMessage", CleanInv, [Next]_vars
             PROVE  [Delivery!Next]_(Delivery!vars)
  OBVIOUS
<1>1. ASSUME NEW m \in Messages, PeerSends(m)
      PROVE  Delivery!Next
  <2>1. sent' = Append(sent, m)
    BY <1>1 DEF PeerSends
  <2>2. Taken' = Taken /\ Received' = Received
    BY <1>1, CleanSend
  <2>3. Delivery!PeerSends(m)
    BY <2>1, <2>2 DEF Delivery!PeerSends
  <2> QED
    BY <2>3 DEF Delivery!Next
<1>2. ASSUME NEW e \in MayEnd, Receive(e)
      PROVE  Delivery!Next
  <2>1. PICK n \in 1 .. Len(sent) :
           /\ Taken = n - 1 /\ Taken' = n /\ sent' = sent
           /\ Received' = IF IsKnown(sent[n]) THEN Append(Received, sent[n]) ELSE Received
    BY <1>2, CleanTake
  <2>2. Len(sent) \in Nat
    BY Numbers, Ends DEF CleanInv
  <2>3. Taken < Len(sent) /\ Taken' = Taken + 1
    BY <2>1, <2>2
  <2>4. Delivery!Take
    BY <2>1, <2>3 DEF Delivery!Take
  <2> QED
    BY <2>4 DEF Delivery!Next
<1>3. CASE UNCHANGED vars
  BY <1>3 DEF vars, Delivery!vars, Taken, Received, Bytes, End
<1> QED
  BY <1>1, <1>2, <1>3 DEF Next

\* As long as a read takes one message, whatever messages are sent and however many,
\* each of a type the adaptor knows is delivered, once, as it was sent and in the
\* order of sending: deserialise with setString implements MessageDelivery
\* (FIXProtocolAdaptor.hpp:440-534).
THEOREM DeliveryImplemented ==
    ASSUME Segmentation = "perMessage"
    PROVE  Spec => ImplementsDelivery
<1>1. CleanInv /\ [Next]_vars => CleanInv'
  BY CleanInvNext
<1>2. CleanInv /\ [Next]_vars => [Delivery!Next]_(Delivery!vars)
  BY DeliveryNext
<1>3. Spec => []CleanInv
  BY <1>1, CleanInvInit, PTL DEF Spec
<1>4. Spec => Delivery!Spec
  BY <1>2, <1>3, DeliveryInit, PTL DEF Spec, Delivery!Spec
<1> QED
  BY <1>4 DEF ImplementsDelivery

\* ... and no message ends the io_service thread: as long as a read takes one message,
\* no lexical_cast, no substr and no setString throws, whatever is in the fields behind
\* the first three (FIXProtocolAdaptor.hpp:478-507, TcpClientTransport.cpp:156-161).
THEOREM ThreadLivesOn ==
    ASSUME Segmentation = "perMessage"
    PROVE  Spec => [](~terminated)
<1>1. CleanInv /\ [Next]_vars => CleanInv'
  BY CleanInvNext
<1>2. Spec => []CleanInv
  BY <1>1, CleanInvInit, PTL DEF Spec
<1>3. CleanInv => ~terminated
  BY DEF CleanInv
<1> QED
  BY <1>2, <1>3, PTL

-----------------------------------------------------------------------------
(* A read that begins within a message. *)

LEMMA TwoPlaces ==
    ASSUME NEW i \in Nat
    PROVE  \A p \in i + 1 .. i + 2 : p = i + 1 \/ p = i + 2
  OBVIOUS

\* Behind each SOH of a message there is a field, behind that of the BeginString one
\* whose tag is not 9.
LEMMA MessageFields ==
    ASSUME NEW m, NEW v, NEW l, NEW t, NEW c, Parts(m, v, l, t, c),
           NEW s \in 1 .. Len(m.bytes) - 1, m.bytes[s] = SOH
    PROVE  /\ s >= v
           /\ \E z \in s + 1 .. Len(m.bytes) - 1 :
                 TagAt(m.bytes, s, z) /\ (s # v => Number(SubSeq(m.bytes, s + 1, z)) # 9)
<1> DEFINE b == m.bytes
           L == Len(b)
<1>1. /\ b \in Seq(STRING)
      /\ v \in Nat /\ l \in Nat /\ t \in Nat /\ c \in Nat /\ L \in Nat
      /\ 2 < v /\ v + 2 < l /\ l + 3 < t /\ t <= c /\ c + 3 < L
  BY DEF Parts
<1>2. /\ Free(b, SOH, 0, v) /\ Free(b, SOH, v, l) /\ Free(b, SOH, l, t) /\ Free(b, SOH, c, L)
      /\ b[v + 1] = "9" /\ b[v + 2] = "="
      /\ b[l + 1] = "3" /\ b[l + 2] = "5" /\ b[l + 3] = "="
      /\ b[c + 1] = "1" /\ b[c + 2] = "0" /\ b[c + 3] = "="
  BY DEF Parts
<1>3. \A k \in t .. c - 1 :
         b[k] = SOH =>
            \E e \in k + 1 .. c - 1 : TagAt(b, k, e) /\ Number(SubSeq(b, k + 1, e)) # 9
  BY DEF Parts
<1>4. b[s] = SOH /\ s \in 1 .. L - 1
  OBVIOUS
<1>5. "9" \in DOMAIN DigitValue /\ "3" \in DOMAIN DigitValue /\ "5" \in DOMAIN DigitValue
      /\ "1" \in DOMAIN DigitValue /\ "0" \in DOMAIN DigitValue
  BY DigitsRight
<1> HIDE DEF b, L
<1>6. ~(s < v)
  BY <1>1, <1>2, <1>4 DEF Free
<1>7. ~(v < s /\ s < l)
  BY <1>1, <1>2, <1>4 DEF Free
<1>8. ~(l < s /\ s < t)
  BY <1>1, <1>2, <1>4 DEF Free
<1>9. ~(c < s)
  BY <1>1, <1>2, <1>4 DEF Free
<1>10. s = v \/ s = l \/ s = c \/ s \in t .. c - 1
  BY <1>1, <1>4, <1>6, <1>7, <1>8, <1>9
<1> DEFINE Goal(z) == TagAt(b, s, z) /\ (s # v => Number(SubSeq(b, s + 1, z)) # 9)
<1>11. \E z \in s + 1 .. L - 1 : Goal(z)
  <2>1. CASE s = v
    <3>1. v + 1 \in s + 1 .. L - 1
      BY <1>1, <2>1
    <3>2. \A p \in s + 1 .. v + 1 : b[p] \in DOMAIN DigitValue
      <4>1. \A p \in s + 1 .. v + 1 : p = v + 1
        BY <1>1, <2>1
      <4> QED
        BY <1>2, <1>5, <4>1
    <3>3. b[v + 1 + 1] = "=" /\ v + 1 > s
      BY <1>1, <1>2, <2>1
    <3>4. IsNumber(SubSeq(b, s + 1, v + 1))
      <4>1. v \in Nat /\ v < Len(b)
        BY <1>1 DEF L
      <4>2. SubSeq(b, v + 1, v + 1) = <<b[v + 1]>>
        BY <1>1, <4>1, ShortSubSeq
      <4>3. SubSeq(b, s + 1, v + 1) = <<"9">>
        BY <1>2, <2>1, <4>2
      <4> QED
        BY <4>3, FirstTags
    <3>5. TagAt(b, s, v + 1)
      BY <3>2, <3>3, <3>4 DEF TagAt
    <3> QED
      BY <2>1, <3>1, <3>5
  <2>2. CASE s = l
    <3>1. l + 2 \in s + 1 .. L - 1 /\ l \in Nat /\ l + 1 < Len(b)
      BY <1>1, <2>2 DEF L
    <3>2. \A p \in s + 1 .. l + 2 : b[p] \in DOMAIN DigitValue
      <4>1. \A p \in l + 1 .. l + 2 : p = l + 1 \/ p = l + 2
        BY <1>1, TwoPlaces
      <4>2. \A p \in l + 1 .. l + 2 : b[p] \in DOMAIN DigitValue
        BY <1>2, <1>5, <4>1
      <4> QED
        BY <2>2, <4>2, Zenon
    <3>3. b[l + 2 + 1] = "=" /\ l + 2 > s
      <4>1. l \in Nat /\ l + 2 + 1 = l + 3 /\ l + 2 > l
        BY <1>1
      <4> QED
        BY <1>2, <2>2, <4>1
    <3>4. SubSeq(b, l + 1, l + 2) = <<"3", "5">>
      BY <1>1, <1>2, <3>1, LongSubSeq
    <3>5. SubSeq(b, s + 1, l + 2) = <<"3", "5">>
      BY <2>2, <3>4
    <3>6. IsNumber(SubSeq(b, s + 1, l + 2)) /\ Number(SubSeq(b, s + 1, l + 2)) # 9
      <4>1. IsNumber(<<"3", "5">>) /\ Number(<<"3", "5">>) # 9
        BY FirstTags
      <4> QED
        BY <3>5, <4>1, Zenon
    <3>7. TagAt(b, s, l + 2)
      BY <3>2, <3>3, <3>6 DEF TagAt
    <3> QED
      BY <3>1, <3>6, <3>7
  <2>3. CASE s = c
    <3>1. c + 2 \in s + 1 .. L - 1 /\ c \in Nat /\ c + 1 < Len(b)
      BY <1>1, <2>3 DEF L
    <3>2. \A p \in s + 1 .. c + 2 : b[p] \in DOMAIN DigitValue
      <4>1. \A p \in c + 1 .. c + 2 : p = c + 1 \/ p = c + 2
        BY <1>1, TwoPlaces
      <4>2. \A p \in c + 1 .. c + 2 : b[p] \in DOMAIN DigitValue
        BY <1>2, <1>5, <4>1
      <4> QED
        BY <2>3, <4>2, Zenon
    <3>3. b[c + 2 + 1] = "=" /\ c + 2 > s
      <4>1. c \in Nat /\ c + 2 + 1 = c + 3 /\ c + 2 > c
        BY <1>1
      <4> QED
        BY <1>2, <2>3, <4>1
    <3>4. SubSeq(b, c + 1, c + 2) = <<"1", "0">>
      BY <1>1, <1>2, <3>1, LongSubSeq
    <3>5. SubSeq(b, s + 1, c + 2) = <<"1", "0">>
      BY <2>3, <3>4
    <3>6. IsNumber(SubSeq(b, s + 1, c + 2)) /\ Number(SubSeq(b, s + 1, c + 2)) # 9
      <4>1. IsNumber(<<"1", "0">>) /\ Number(<<"1", "0">>) # 9
        BY FirstTags
      <4> QED
        BY <3>5, <4>1, Zenon
    <3>7. TagAt(b, s, c + 2)
      BY <3>2, <3>3, <3>6 DEF TagAt
    <3> QED
      BY <3>1, <3>6, <3>7
  <2>4. CASE s \in t .. c - 1
    <3>1. PICK z \in s + 1 .. c - 1 : TagAt(b, s, z) /\ Number(SubSeq(b, s + 1, z)) # 9
      BY <1>3, <1>4, <2>4
    <3>2. z \in s + 1 .. L - 1
      BY <1>1, <1>4
    <3> QED
      BY <3>1, <3>2
  <2> QED
    BY <1>10, <2>1, <2>2, <2>3, <2>4
<1>12. s >= v
  BY <1>1, <1>4, <1>6
<1> QED
  BY <1>11, <1>12 DEF b, L

\* (k, r) of the stream is a tag: digits, the "=" being at r.
DigitsTo(k, r) ==
    /\ r > k + 1
    /\ stream[r] = "="
    /\ \A q \in k + 1 .. r - 1 : stream[q] \in DOMAIN DigitValue

\* A tag in a message is one in the stream.
LEMMA TagInStream ==
    ASSUME NEW o, NEW b, At(o, b), NEW x \in Nat, NEW z \in x + 1 .. Len(b) - 1, TagAt(b, x, z)
    PROVE  /\ DigitsTo(o + x, o + z + 1)
           /\ Bytes(o + x, o + z) = SubSeq(b, x + 1, z)
<1>1. o \in Nat /\ Len(b) \in Nat /\ \A p \in 1 .. Len(b) : stream[o + p] = b[p]
  BY LenProperties DEF At
<1>2. b[z + 1] = "=" /\ \A p \in x + 1 .. z : b[p] \in DOMAIN DigitValue
  BY DEF TagAt
<1>3. stream[o + z + 1] = "="
  <2> DEFINE y == z + 1
  <2>1. y \in 1 .. Len(b) /\ o + z + 1 = o + y
    BY <1>1
  <2>2. stream[o + y] = b[y]
    BY <1>1, <2>1
  <2> QED
    BY <1>2, <2>1, <2>2
<1>4. ASSUME NEW q \in o + x + 1 .. o + z + 1 - 1
      PROVE  stream[q] \in DOMAIN DigitValue
  <2> DEFINE p == q - o
  <2>1. p \in x + 1 .. z /\ p \in 1 .. Len(b) /\ q = o + p
    BY <1>1
  <2> HIDE DEF p
  <2> QED
    BY <1>1, <1>2, <2>1
<1>5. o + z + 1 > o + x + 1
  BY <1>1
<1>6. Bytes(o + x, o + z) = SubSeq(b, x + 1, z)
  <2>1. z \in x .. Len(b) /\ z \in Nat
    BY <1>1
  <2> QED
    BY <2>1, BytesAre
<1> QED
  BY <1>1, <1>3, <1>4, <1>5, <1>6 DEF DigitsTo

\* The tag that setString reads at such a place, if it finds one.
LEMMA TagRead ==
    ASSUME NEW k \in Nat, NEW r \in Nat, DigitsTo(k, r), NEW j \in Nat, Has("=", k, j)
    PROVE  r <= j /\ Tag(k, j) = Bytes(k, r - 1)
<1> DEFINE f == Find("=", k, j)
<1>1. f \in 0 .. j - k - 1 /\ stream[k + 1 + f] = "="
  BY FindRight
<1> HIDE DEF f
<1>2. r > k + 1 /\ stream[r] = "=" /\ \A q \in k + 1 .. r - 1 : stream[q] # "="
  BY NotDigits DEF DigitsTo
<1>3. ~(k + 1 + f < r)
  BY <1>1, <1>2
<1>4. r \in k + 1 .. j
  BY <1>1, <1>2, <1>3
<1>5. Free(stream, "=", k, r)
  BY <1>2 DEF Free
<1>6. Tag(k, j) = Bytes(k, r - 1)
  BY <1>2, <1>4, <1>5, TagIs
<1> QED
  BY <1>4, <1>6

\* The first field of a tail of a message is not its BeginString, if it has a tag.
LEMMA FalseStart ==
    ASSUME NEW m, NEW v, NEW l, NEW t, NEW c, Parts(m, v, l, t, c),
           NEW o, At(o, m.bytes), NEW x \in 1 .. Len(m.bytes) - 1,
           NEW j \in 0 .. Len(stream), Tagged(o + x, j),
           NEW s \in x + 1 .. Len(m.bytes), m.bytes[s] = SOH, Free(m.bytes, SOH, x, s)
    PROVE  s > v
<1> DEFINE b == m.bytes
           L == Len(b)
           f == Find("=", o + x, j)
           T == Tag(o + x, j)
<1>1. /\ At(o, b) /\ stream \in Seq(STRING) /\ o \in Nat /\ L \in Nat
      /\ x \in 1 .. L - 1 /\ j \in Nat /\ j <= Len(stream) /\ Len(stream) \in Nat
      /\ s \in x + 1 .. L /\ b[s] = SOH
  BY LenProperties DEF At
<1>2. \A p \in 1 .. L : stream[o + p] = b[p]
  BY DEF At
<1>3. v \in Nat /\ Free(b, SOH, 0, v) /\ Free(b, "=", 2, v + 1)
  BY DEF Parts
<1>4. f \in 0 .. j - (o + x) - 1 /\ stream[o + x + 1 + f] = "="
  BY <1>1, FindRight DEF Tagged
<1>5. T = Bytes(o + x, o + x + f) /\ IsNumber(T)
  BY DEF Tagged, Tag
<1> HIDE DEF b, L, f, T
<1>6. f >= 1 /\ \A k \in 1 .. f : stream[o + x + k] # SOH
  <2> DEFINE i == o + x
             e == o + x + f
  <2>1. i \in Nat /\ e \in 0 .. Len(stream) /\ e - i = f /\ f \in Nat
    BY <1>1, <1>4
  <2>2. T = Bytes(i, e)
    BY <1>5
  <2> HIDE DEF i, e
  <2>3. /\ T \in Seq(STRING) /\ Len(T) = (IF i < e THEN e - i ELSE 0)
        /\ \A k \in 1 .. e - i : T[k] = stream[i + k]
    BY <1>1, <2>1, <2>2, BytesRight
  <2>4. Len(T) >= 1 /\ \A k \in 1 .. Len(T) : T[k] # SOH
    BY <1>5, <2>3, NumberBytes
  <2>5. Len(T) = f
    BY <2>1, <2>3
  <2>6. \A k \in 1 .. f : stream[i + k] # SOH
    BY <2>1, <2>3, <2>4, <2>5
  <2> QED
    BY <2>4, <2>5, <2>6 DEF i
<1> DEFINE y == x + 1 + f
<1>7. y \in Nat /\ y >= 3 /\ s \in Nat /\ o + x + 1 + f = o + y
  BY <1>1, <1>4, <1>6
<1>8. s > y
  <2>1. stream[o + s] = SOH
    <3>1. s \in 1 .. L
      BY <1>1
    <3> QED
      BY <1>1, <1>2, <3>1
  <2>2. o + s # o + x + 1 + f
    BY <1>4, <2>1 DEF SOH
  <2>3. ~(s < y)
    <3> DEFINE k == s - x
    <3>1. s < y => k \in 1 .. f /\ o + x + k = o + s
      BY <1>1, <1>4
    <3> HIDE DEF k
    <3> QED
      BY <1>6, <2>1, <3>1
  <2>4. s \in Nat /\ o \in Nat /\ x \in Nat /\ f \in Nat
    BY <1>1, <1>4, <1>7
  <2> QED
    BY <2>2, <2>3, <2>4
<1>9. b[y] = "="
  <2>1. y \in 1 .. L
    BY <1>1, <1>7, <1>8
  <2> QED
    BY <1>2, <1>4, <1>7, <2>1
<1> HIDE DEF y
<1>10. ~(s < v)
  <2>1. s < v => s \in 0 + 1 .. v - 1
    BY <1>1, <1>3
  <2> QED
    BY <1>1, <1>3, <2>1 DEF Free
<1>11. s # v
  <2>1. s = v => y \in 2 + 1 .. v + 1 - 1
    BY <1>3, <1>7, <1>8
  <2> QED
    BY <1>3, <1>9, <2>1 DEF Free
<1> QED
  BY <1>3, <1>7, <1>10, <1>11

\* A Logon or a HeartBeat is made of a string that begins a message or has one field.
LEMMA DeliverBegins ==
    ASSUME Inv, NEW e \in 0 .. Len(stream), Deliver(e), ~AtMostOneField(read, Remainder(e))
    PROVE  BeginsMessage(read)
<1> DEFINE to == Remainder(e)
<1>1. /\ e > read /\ SetStringTakes(read, to) /\ to \in read .. e
      /\ read \in Nat /\ to \in Nat /\ e \in Nat /\ e <= Len(stream) /\ Len(stream) \in Nat
      /\ Len(sent) \in Nat
  <2>1. e > read /\ SetStringTakes(read, to) /\ to \in read .. e
    BY DeliverRight
  <2>2. /\ read \in Nat /\ e \in Nat /\ e <= Len(stream) /\ Len(stream) \in Nat
        /\ Len(sent) \in Nat
    BY Numbers, Ends
  <2> HIDE DEF to
  <2> QED
    BY <2>1, <2>2
<1> DEFINE S == {q \in read + 1 .. to - 1 : stream[q] = SOH}
<1>0. PICK k \in S : \A q \in S : k <= q
  <2>1. S \in SUBSET Nat /\ S # {}
    BY <1>1 DEF AtMostOneField
  <2> HIDE DEF S
  <2> QED
    BY <2>1, Loops!Least
<1> HIDE DEF to
<1>2. PICK n \in 1 .. Len(sent) : read + 1 \in End(n - 1) + 1 .. End(n)
  <2>1. read + 1 \in 1 .. Len(stream)
    BY <1>1
  <2> QED
    BY <2>1, InMessage DEF Inv
<1> SUFFICES ASSUME read # End(n - 1) PROVE FALSE
  BY DEF BeginsMessage
<1> DEFINE m == sent[n]
           o == End(n - 1)
           b == m.bytes
           L == Len(b)
           x == read - o
<1>3. /\ m \in Messages /\ At(o, b) /\ End(n) = o + L /\ o \in Nat /\ L \in Nat
      /\ End(n) <= Len(stream)
  BY <1>1, MessageAt, NoMessageEmpty
<1>4. read # o /\ read + 1 \in o + 1 .. End(n)
  BY <1>2
<1> HIDE DEF m, o
<1>5. x \in 1 .. L - 1 /\ read = o + x /\ x \in Nat
  BY <1>1, <1>3, <1>4
<1> HIDE DEF x, b, L
<1>6. PICK v, l, t, c : Parts(m, v, l, t, c)
  BY <1>3, HasParts
<1> DEFINE F == FieldStarts(read, to)
           B(i) == {j \in F : j < i}
           first == <<8, 9, 35>>
<1>7. \A i \in F : /\ Tagged(i, to)
                   /\ Cardinality(B(i)) < 3
                      => Number(Tag(i, to)) = first[Cardinality(B(i)) + 1]
  BY <1>1 DEF SetStringTakes, Tagged
<1>8. Tagged(read, to) /\ Number(Tag(read, to)) = 8
  <2>1. read \in F
    BY <1>1 DEF FieldStarts
  <2>2. B(read) = {}
    BY <1>1 DEF FieldStarts
  <2>3. first[0 + 1] = 8
    OBVIOUS
  <2> HIDE DEF B, F, first
  <2>4. Cardinality(B(read)) = 0
    BY <2>2, FS_EmptySet
  <2>5. Number(Tag(read, to)) = first[0 + 1]
    BY <1>7, <2>1, <2>4
  <2> QED
    BY <1>7, <2>1, <2>3, <2>5
<1> DEFINE s == k - o
<1>9. /\ k \in Nat /\ k \in read + 1 .. to - 1 /\ stream[k] = SOH
      /\ Free(stream, SOH, read, k)
  <2>1. k \in read + 1 .. to - 1 /\ stream[k] = SOH
    BY <1>0
  <2>2. \A q \in read + 1 .. k - 1 : q \in read + 1 .. to - 1 /\ ~(k <= q)
    BY <1>1, <2>1
  <2>3. \A q \in read + 1 .. k - 1 : stream[q] # SOH
    BY <1>0, <2>2
  <2> QED
    BY <1>1, <2>1, <2>3 DEF Free
<1>10. s \in x + 1 .. L /\ s \in Nat /\ s \in 1 .. L /\ k = o + s /\ b[s] = SOH
  <2>1. b[L] = SOH /\ L \in 1 .. L
    <3>1. b[L] = SOH /\ c \in Nat /\ c + 3 < L
      BY <1>6 DEF Parts, b, L
    <3> QED
      BY <1>3, <3>1
  <2>2. stream[o + L] = SOH
    BY <1>3, <2>1 DEF At, L
  <2>3. ~(o + L < k)
    <3>1. o + L < k => o + L \in read + 1 .. k - 1
      BY <1>3, <1>5, <1>9
    <3> QED
      BY <1>9, <2>2, <3>1 DEF Free
  <2>4. s \in x + 1 .. L /\ s \in Nat /\ s \in 1 .. L /\ k = o + s
    BY <1>1, <1>3, <1>5, <1>9, <2>3
  <2>5. stream[o + s] = b[s]
    BY <1>3, <2>4 DEF At, L
  <2> QED
    BY <1>9, <2>4, <2>5
<1> HIDE DEF s, S
<1>11. s > v
  <2>1. \A p \in x + 1 .. s - 1 : o + p \in read + 1 .. k - 1 /\ p \in 1 .. L
    BY <1>3, <1>5, <1>10
  <2>2. \A p \in x + 1 .. s - 1 : b[p] # SOH
    BY <1>3, <1>9, <2>1 DEF At, Free, L
  <2>3. Free(b, SOH, x, s)
    BY <2>2 DEF Free
  <2>4. to \in 0 .. Len(stream) /\ Tagged(o + x, to)
    BY <1>1, <1>3, <1>5, <1>8
  <2> QED
    BY <1>3, <1>5, <1>6, <1>10, <2>3, <2>4, FalseStart DEF b, L
<1>12. Tagged(k, to) /\ Number(Tag(k, to)) = 9
  <2>1. k \in F /\ read \in F
    BY <1>1, <1>9 DEF FieldStarts
  <2>2. ASSUME NEW i \in F, i < k
        PROVE  i = read
    <3>1. i \in read .. to - 1 /\ (i = read \/ stream[i] = SOH)
      BY DEF FieldStarts
    <3>2. i \in read + 1 .. k - 1 => stream[i] # SOH
      BY <1>9 DEF Free
    <3> QED
      BY <1>1, <1>9, <2>2, <3>1, <3>2
  <2>3. B(k) = {read}
    <3>1. read < k
      BY <1>1, <1>9
    <3> HIDE DEF F
    <3> QED
      BY <2>1, <2>2, <3>1
  <2>4. first[1 + 1] = 9
    OBVIOUS
  <2> HIDE DEF B, F, first
  <2>5. Cardinality(B(k)) = 1
    BY <2>3, CardinalityOne
  <2>6. Number(Tag(k, to)) = first[1 + 1]
    BY <1>7, <2>1, <2>5
  <2> QED
    BY <1>7, <2>1, <2>4, <2>6
<1>13. k \in 1 .. Len(stream) - 1
  BY <1>1, <1>9
<1>14. CASE s < L
  <2>1. s \in 1 .. L - 1
    BY <1>3, <1>10, <1>14
  <2>2. PICK z \in s + 1 .. L - 1 :
           TagAt(b, s, z) /\ (s # v => Number(SubSeq(b, s + 1, z)) # 9)
    BY <1>6, <1>10, <2>1, MessageFields DEF b, L
  <2>3. Number(SubSeq(b, s + 1, z)) # 9
    <3>1. v \in Nat
      BY <1>6 DEF Parts
    <3>2. s # v
      BY <1>10, <1>11, <3>1
    <3> QED
      BY <2>2, <3>2
  <2>4. DigitsTo(o + s, o + z + 1) /\ Bytes(o + s, o + z) = SubSeq(b, s + 1, z)
    BY <1>3, <1>10, <2>2, TagInStream DEF L
  <2> DEFINE r == o + z + 1
  <2>5. r \in Nat /\ r - 1 = o + z
    BY <1>3, <1>10
  <2>6. DigitsTo(k, r) /\ Bytes(k, r - 1) = SubSeq(b, s + 1, z)
    BY <1>10, <2>4, <2>5
  <2>7. Has("=", k, to)
    BY <1>12 DEF Tagged
  <2> HIDE DEF r
  <2>8. Tag(k, to) = Bytes(k, r - 1)
    BY <1>1, <1>9, <2>5, <2>6, <2>7, TagRead
  <2> QED
    BY <1>12, <2>3, <2>6, <2>8
<1>15. CASE ~(s < L)
  <2>1. k = End(n)
    BY <1>3, <1>10, <1>15
  <2>2. n # Len(sent)
    BY <1>1, <1>13, <2>1, Numbers
  <2>3. n + 1 \in 1 .. Len(sent) /\ n + 1 - 1 = n
    BY <1>1, <2>2
  <2> DEFINE M == sent[n + 1]
             C == M.bytes
  <2>4. M \in Messages /\ At(k, C) /\ C \in Seq(STRING)
    BY <2>1, <2>3, MessageAt, NoMessageEmpty
  <2>5. PICK w, y, u, a : Parts(M, w, y, u, a)
    BY <2>4, HasParts
  <2>6. C[1] = "8" /\ C[2] = "=" /\ 2 < Len(C) /\ Len(C) \in Nat
    <3>1. C[1] = "8" /\ C[2] = "="
      BY <2>5 DEF Parts
    <3>2. /\ w \in Nat /\ y \in Nat /\ u \in Nat /\ a \in Nat /\ Len(C) \in Nat
          /\ 2 < w /\ w + 2 < y /\ y + 3 < u /\ u <= a /\ a + 3 < Len(C)
      BY <2>5 DEF Parts
    <3> QED
      BY <3>1, <3>2
  <2> HIDE DEF M, C
  <2>7. TagAt(C, 0, 1)
    <3>1. "8" \in DOMAIN DigitValue
      BY DigitsRight
    <3>2. \A p \in 0 + 1 .. 1 : C[p] \in DOMAIN DigitValue
      <4>1. \A p \in 0 + 1 .. 1 : p = 1
        OBVIOUS
      <4> QED
        BY <2>6, <3>1, <4>1
    <3>3. 1 > 0 /\ C[1 + 1] = "="
      BY <2>6
    <3>4. SubSeq(C, 0 + 1, 1) = <<"8">>
      <4>1. 0 \in Nat /\ 0 < Len(C) /\ 0 + 1 = 1
        BY <2>6
      <4>2. SubSeq(C, 0 + 1, 0 + 1) = <<C[0 + 1]>>
        BY <2>4, <4>1, ShortSubSeq
      <4> QED
        BY <2>6, <4>1, <4>2
    <3> QED
      BY <3>2, <3>3, <3>4, FirstTags DEF TagAt
  <2>8. DigitsTo(k + 0, k + 1 + 1) /\ Bytes(k + 0, k + 1) = SubSeq(C, 0 + 1, 1)
    <3>1. 0 \in Nat /\ 1 \in 0 + 1 .. Len(C) - 1
      BY <2>6
    <3> QED
      BY <2>4, <2>7, <3>1, TagInStream
  <2>9. SubSeq(C, 0 + 1, 0 + 1) = <<C[0 + 1]>>
    <3>1. 0 \in Nat /\ 0 < Len(C)
      BY <2>6
    <3> QED
      BY <2>4, <3>1, ShortSubSeq
  <2>10. DigitsTo(k, k + 2) /\ Bytes(k, k + 1) = <<"8">>
    <3>1. k + 0 = k /\ k + 1 + 1 = k + 2 /\ 0 + 1 = 1
      BY <1>9
    <3> QED
      BY <2>6, <2>8, <2>9, <3>1
  <2>11. Tag(k, to) = <<"8">>
    <3>1. Has("=", k, to)
      BY <1>12 DEF Tagged
    <3>2. k + 2 \in Nat /\ k + 2 - 1 = k + 1
      BY <1>9
    <3>3. Tag(k, to) = Bytes(k, k + 2 - 1)
      BY <1>1, <1>9, <2>10, <3>1, <3>2, TagRead
    <3> QED
      BY <2>10, <3>2, <3>3
  <2>12. Number(<<"8">>) # 9
    BY FirstTags
  <2> QED
    BY <1>12, <2>11, <2>12
<1> QED
  BY <1>14, <1>15

Starts(i) == BeginsMessage(delivered[i].from) \/ AtMostOneField(delivered[i].from, delivered[i].to)

BeginInv ==
    /\ Inv
    /\ \A i \in 1 .. Len(delivered) : Starts(i)

LEMMA BeginInvInit == Init => BeginInv
<1> SUFFICES ASSUME Init PROVE BeginInv
  OBVIOUS
<1>1. \A i \in 1 .. Len(delivered) : FALSE
  BY DEF Init
<1> QED
  BY <1>1, InvInit, Zenon DEF BeginInv

\* What was said of a string stays true of it when the peer sends more.
LEMMA StartsStays ==
    ASSUME Inv, NEW m \in Messages, PeerSends(m), NEW i \in 1 .. Len(delivered), Starts(i)
    PROVE  Starts(i)'
<1>1. delivered' = delivered /\ stream' = stream \o m.bytes
  BY DEF PeerSends
<1>2. Len(sent') = Len(sent) + 1 /\ \A n \in 0 .. Len(sent) : End(n)' = End(n)
  BY StreamGrows DEF Inv
<1>3. Len(sent) \in Nat /\ stream \in Seq(STRING) /\ read \in Nat /\ read <= Len(stream)
  BY Numbers, Ends
<1> DEFINE d == delivered[i]
<1>4. d.from \in Nat /\ d.to \in Nat /\ d.to <= Len(stream)
  <2>1. d.from \in 0 .. read /\ d.to \in d.from .. read
    BY DEF Inv, ReadInv
  <2> HIDE DEF d
  <2>2. Len(stream) \in Nat
    BY Numbers
  <2> QED
    BY <1>3, <2>1, <2>2
<1>5. BeginsMessage(d.from) \/ AtMostOneField(d.from, d.to)
  BY DEF Starts
<1>6. Starts(i)' <=> BeginsMessage(d.from)' \/ AtMostOneField(d.from, d.to)'
  BY <1>1 DEF Starts, BeginsMessage, AtMostOneField
<1> HIDE DEF d
<1>7. ASSUME BeginsMessage(d.from)
      PROVE  BeginsMessage(d.from)'
  <2>1. PICK n \in 1 .. Len(sent) : d.from = End(n - 1)
    BY <1>7 DEF BeginsMessage
  <2>2. n - 1 \in 0 .. Len(sent) /\ n \in 1 .. Len(sent')
    BY <1>2, <1>3
  <2>3. d.from = End(n - 1)'
    BY <1>2, <2>1, <2>2
  <2>4. \E k \in 1 .. Len(sent') : d.from = End(k - 1)'
    BY <2>2, <2>3
  <2>5. d' = d
    BY <1>1 DEF d
  <2> QED
    BY <2>4, <2>5 DEF BeginsMessage
<1>8. ASSUME AtMostOneField(d.from, d.to)
      PROVE  AtMostOneField(d.from, d.to)'
  <2>1. \A k \in d.from + 1 .. d.to - 1 : stream[k] # SOH
    BY <1>8 DEF AtMostOneField
  <2>2. \A k \in d.from + 1 .. d.to - 1 : k \in 1 .. Len(stream)
    BY <1>3, <1>4
  <2>3. \A k \in 1 .. Len(stream) : stream'[k] = stream[k]
    BY <1>1, <1>3, NoMessageEmpty, ConcatProperties
  <2>4. \A k \in d.from + 1 .. d.to - 1 : stream'[k] # SOH
    BY <2>1, <2>2, <2>3
  <2>5. d' = d
    BY <1>1 DEF d
  <2> QED
    BY <2>4, <2>5 DEF AtMostOneField, SOH
<1>9. d' = d
  BY <1>1 DEF d
<1> QED
  BY <1>5, <1>6, <1>7, <1>8, <1>9

LEMMA BeginInvNext == BeginInv /\ [Next]_vars => BeginInv'
<1> SUFFICES ASSUME BeginInv, [Next]_vars PROVE BeginInv'
  OBVIOUS
<1>1. Inv /\ Inv' /\ Len(sent) \in Nat
  BY InvNext, Numbers, Ends DEF BeginInv
<1>2. \A i \in 1 .. Len(delivered) : Starts(i)
  BY DEF BeginInv
<1>3. ASSUME NEW m \in Messages, PeerSends(m)
      PROVE  BeginInv'
  <2>1. \A i \in 1 .. Len(delivered) : Starts(i)'
    BY <1>1, <1>2, <1>3, StartsStays
  <2>2. delivered' = delivered
    BY <1>3 DEF PeerSends
  <2>3. \A i \in 1 .. Len(delivered') : Starts(i)'
    BY <2>1, <2>2
  <2> QED
    BY <1>1, <2>3, Zenon DEF BeginInv
<1>4. CASE sent' = sent /\ stream' = stream /\ delivered' = delivered
  <2>1. ASSUME NEW i \in 1 .. Len(delivered)
        PROVE  Starts(i)'
    <3>1. Starts(i)
      BY <1>2
    <3> QED
      BY <1>4, <3>1 DEF Starts, BeginsMessage, AtMostOneField, End
  <2> QED
    BY <1>1, <1>4, <2>1 DEF BeginInv
<1>5. ASSUME NEW e \in MayEnd, Deliver(e)
      PROVE  BeginInv'
  <2>1. e \in 0 .. Len(stream)
    BY <1>1, ReadsInStream
  <2> DEFINE d == Content(e)
             S == [type : KnownTypes, from : Nat, to : Nat]
             l == Len(delivered)
  <2>2. /\ delivered' = Append(delivered, d) /\ d \in S /\ d.from = read /\ d.to = Remainder(e)
        /\ sent' = sent /\ stream' = stream
    BY <1>1, <1>5, <2>1, DeliverRight
  <2>3. delivered \in Seq(S)
    BY <1>1 DEF Inv, ReadInv
  <2>4. BeginsMessage(d.from) \/ AtMostOneField(d.from, d.to)
    BY <1>1, <1>5, <2>1, <2>2, DeliverBegins
  <2> HIDE DEF d, S
  <2>5. /\ Len(delivered') = l + 1 /\ l \in Nat /\ delivered'[l + 1] = d
        /\ \A i \in 1 .. l : delivered'[i] = delivered[i]
    BY <2>2, <2>3, AppendProperties, LenProperties
  <2>6. /\ \A i : BeginsMessage(i) => \E n \in 1 .. Len(sent') : i = End(n - 1)'
        /\ \A i, j : AtMostOneField(i, j) => SOH \notin {stream'[k] : k \in i + 1 .. j - 1}
    BY <2>2 DEF BeginsMessage, AtMostOneField, End
  <2>7. ASSUME NEW i \in 1 .. Len(delivered')
        PROVE  Starts(i)'
    <3> DEFINE x == IF i = l + 1 THEN d ELSE delivered[i]
    <3>1. delivered'[i] = x
      BY <2>5
    <3>2. BeginsMessage(x.from) \/ AtMostOneField(x.from, x.to)
      <4>1. i = l + 1 \/ i \in 1 .. l
        BY <2>5
      <4> QED
        BY <1>2, <2>4, <4>1 DEF Starts
    <3> HIDE DEF x
    <3>3. \/ \E n \in 1 .. Len(sent') : x.from = End(n - 1)'
          \/ SOH \notin {stream'[k] : k \in x.from + 1 .. x.to - 1}
      BY <2>6, <3>2
    <3> QED
      BY <3>1, <3>3 DEF Starts, BeginsMessage, AtMostOneField, SOH
  <2> QED
    BY <1>1, <2>7 DEF BeginInv
<1>6. ASSUME NEW e \in MayEnd, PassOver(e) \/ Terminate(e)
      PROVE  BeginInv'
  BY <1>4, <1>6 DEF PassOver, Terminate, Arrives
<1>7. CASE UNCHANGED vars
  BY <1>4, <1>7 DEF vars
<1> QED
  BY <1>3, <1>5, <1>6, <1>7 DEF Next, Receive

\* However the reads are cut and whatever an earlier one has left over, a string that
\* a Logon or a HeartBeat is made of begins a message or has no second field, and no
\* two of them share a byte: a second field has to read as 9=, which behind an SOH of
\* a message none does but the BodyLength, and before that there is no tail with a tag
\* (FIXProtocolAdaptor.hpp:443-507, FixBaseMessage.hpp:97).
THEOREM DeliveriesBegin == Spec => []DeliveriesBeginMessages
<1>1. Spec => []BeginInv
  BY BeginInvNext, BeginInvInit, PTL DEF Spec
<1>2. BeginInv => DeliveriesBeginMessages
  <2> SUFFICES ASSUME BeginInv PROVE DeliveriesBeginMessages
    OBVIOUS
  <2>1. DOMAIN delivered = 1 .. Len(delivered)
    BY LenProperties DEF BeginInv, Inv, ReadInv
  <2> QED
    BY <2>1 DEF DeliveriesBeginMessages, BeginInv, Starts, Inv, ReadInv
<1> QED
  BY <1>1, <1>2, PTL
=============================================================================
