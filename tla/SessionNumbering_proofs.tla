----------------------- MODULE SessionNumbering_proofs -----------------------
(* That SessionNumbering never hands out a number twice. *)
EXTENDS SessionNumbering, TLAPS

\* A number above all those handed out can be handed out next.
LEMMA TransmitStep ==
    ASSUME NumberingInv, Transmit
    PROVE  NumberingInv'
<1> USE DEF NumberingInv
<1>1. next' \in Int /\ wire' \in Seq(Int)
  BY DEF Transmit
<1>2. DOMAIN wire' = 1 .. Len(wire) + 1 /\ DOMAIN wire = 1 .. Len(wire) /\ Len(wire) \in Nat
  BY DEF Transmit
<1>3. \A i \in DOMAIN wire' : wire'[i] = IF i = Len(wire) + 1 THEN next ELSE wire[i]
  BY <1>2 DEF Transmit
<1>4. \A i \in DOMAIN wire : wire[i] \in Int
  BY <1>2
<1>5. NextIsFresh'
  <2> SUFFICES ASSUME ~Resets, NEW i \in DOMAIN wire' PROVE wire'[i] < next'
    BY DEF NextIsFresh
  <2>1. CASE i = Len(wire) + 1
    BY <2>1, <1>3 DEF Transmit
  <2>2. CASE i \in DOMAIN wire
    BY <2>2, <1>2, <1>3, <1>4 DEF Transmit, NextIsFresh
  <2> QED
    BY <2>1, <2>2, <1>2
<1>6. NeverReused'
  <2> SUFFICES ASSUME ~Resets, NEW i \in DOMAIN wire', NEW j \in DOMAIN wire', i < j
               PROVE  wire'[i] < wire'[j]
    BY DEF NeverReused
  <2>1. i \in DOMAIN wire /\ wire'[i] = wire[i]
    BY <1>2, <1>3
  <2>2. CASE j = Len(wire) + 1
    BY <2>1, <2>2, <1>3 DEF NextIsFresh
  <2>3. CASE j \in DOMAIN wire
    BY <2>1, <2>3, <1>2, <1>3 DEF NeverReused
  <2> QED
    BY <2>2, <2>3, <1>2
<1> QED
  BY <1>1, <1>5, <1>6

\* Without resets a session never hands the same number out twice, nor two
\* numbers out of order.
THEOREM NeverReusedCorrect ==
    ASSUME Begin \in Int
    PROVE  Spec => []NeverReused
<1>1. Init => NumberingInv
  BY DEF Init, NumberingInv, NextIsFresh, NeverReused
<1>2. NumberingInv /\ [Next]_vars => NumberingInv'
  <2> SUFFICES ASSUME NumberingInv, [Next]_vars PROVE NumberingInv'
    OBVIOUS
  <2>1. CASE Transmit
    BY <2>1, TransmitStep
  <2>2. CASE Forfeit
    <3>1. DOMAIN wire = 1 .. Len(wire) /\ \A i \in DOMAIN wire : wire[i] \in Int
      BY DEF NumberingInv
    <3> QED
      BY <2>2, <3>1 DEF Forfeit, NumberingInv, NextIsFresh, NeverReused
  <2>3. CASE Reset
    BY <2>3 DEF Reset, NumberingInv, NextIsFresh, NeverReused
  <2>4. CASE UNCHANGED vars
    BY <2>4 DEF vars, NumberingInv, NextIsFresh, NeverReused
  <2> QED
    BY <2>1, <2>2, <2>3, <2>4 DEF Next
<1>3. NumberingInv => NeverReused
  BY DEF NumberingInv
<1> QED
  BY <1>1, <1>2, <1>3, PTL DEF Spec
=============================================================================
