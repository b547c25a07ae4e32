----------------------------- MODULE IrOpt_proof -----------------------------
(***************************************************************************)
(* Proofs about the pass of IrOpt, for every function it may be given.     *)
(*                                                                         *)
(* The flag of ir_opt.c says nothing of the instructions already pushed,   *)
(* so neither property is inductive.  OptInv ties the flag to the last of  *)
(* them: it is a transfer of control while the flag is set, and otherwise  *)
(* the instruction before i; and no label is ever dropped.                 *)
(***************************************************************************)
EXTENDS IrOpt, TLAPS

Last == new_code[Len(new_code)]

\* What has been pushed lies before i.
Past == \A m \in 1 .. Len(new_code) : new_code[m] < i

\* Where the new array begins and ends, and what the flag says of its end.
Ends ==
    /\ i = 1 => new_code = << >> /\ ~unreachable
    /\ i > 1 => /\ Len(new_code) > 0
                /\ new_code[1] = 1
                /\ unreachable => Op(Last) \in Transfers
                /\ ~unreachable => Last = i - 1

LabelsKept ==
    \A j \in 1 .. i - 1 : IsLabel(j) => \E m \in 1 .. Len(new_code) : new_code[m] = j

OptInv == OptTypeOK /\ Past /\ Ends /\ LabelsKept /\ FallsThroughInPlace

-----------------------------------------------------------------------------
LEMMA InitInv == OptInit => OptInv
<1> SUFFICES ASSUME OptInit PROVE OptInv
  OBVIOUS
<1>1. Size \in Nat /\ i = 1 /\ unreachable = FALSE /\ new_code = << >>
  BY CodesAssumption DEF OptInit, Size
<1>2. Len(new_code) = 0 /\ new_code \in Seq(1 .. Size)
  BY <1>1
<1>3. OptTypeOK
  <2>1. unreachable \in BOOLEAN
    BY <1>1, Zenon
  <2>2. i \in 1 .. Size + 1
    BY <1>1
  <2> QED
    BY <1>1, <1>2, <2>1, <2>2 DEF OptTypeOK
<1>4. Past /\ Ends /\ LabelsKept /\ FallsThroughInPlace
  BY <1>1, <1>2 DEF Past, Ends, LabelsKept, FallsThroughInPlace
<1> QED
  BY <1>3, <1>4 DEF OptInv

\* The instructions do not change: what is said of them stays true.
LEMMA CodeStays ==
    ASSUME UNCHANGED code
    PROVE  Size' = Size /\ \A j : Op(j)' = Op(j) /\ (IsLabel(j)' <=> IsLabel(j))
  BY DEF Size, Op, IsLabel

\* An instruction that is dropped.
LEMMA DropStep ==
    ASSUME OptInv, Visit, Dead
    PROVE  OptInv'
<1>1. /\ Size \in Nat /\ i \in 1 .. Size /\ i \in Nat /\ i' = i + 1
      /\ new_code' = new_code /\ UNCHANGED code
  BY DEF OptInv, OptTypeOK, Visit
<1>a. unreachable /\ unreachable' /\ unreachable' \in BOOLEAN /\ ~IsLabel(i)
  BY Zenon DEF Visit, Dead
<1>2. Size' = Size /\ \A j : Op(j)' = Op(j) /\ (IsLabel(j)' <=> IsLabel(j))
  BY <1>1, CodeStays
<1>3. new_code \in Seq(1 .. Size) /\ Len(new_code) \in Nat
  BY DEF OptInv, OptTypeOK
<1>4. \A m \in 1 .. Len(new_code) : new_code[m] \in Nat
  BY <1>1, <1>3
<1>5. i > 1 /\ Len(new_code) > 0 /\ new_code[1] = 1 /\ Op(Last) \in Transfers
  BY <1>1, <1>a DEF OptInv, Ends
<1>6. OptTypeOK'
  BY <1>1, <1>a, <1>2, <1>3 DEF OptTypeOK
<1>7. Past'
  BY <1>1, <1>4 DEF OptInv, Past
<1>8. Ends'
  BY <1>1, <1>a, <1>2, <1>5 DEF Ends, Last
<1>9. LabelsKept'
  BY <1>1, <1>a, <1>2 DEF OptInv, LabelsKept
<1>10. FallsThroughInPlace'
  <2> SUFFICES ASSUME NEW m \in 1 .. Len(new_code)
               PROVE  /\ m < Len(new_code) => new_code[m] < new_code[m + 1]
                      /\ Op(new_code[m]) \notin Transfers =>
                            IF m < Len(new_code) THEN new_code[m + 1] = new_code[m] + 1
                            ELSE new_code[m] = i' - 1
    BY <1>1, <1>2 DEF FallsThroughInPlace
  <2>1. CASE m < Len(new_code)
    BY <2>1 DEF OptInv, FallsThroughInPlace
  <2>2. CASE m = Len(new_code)
    BY <2>2, <1>5, <1>3 DEF Last
  <2> QED
    BY <2>1, <2>2, <1>3
<1> QED
  BY <1>6, <1>7, <1>8, <1>9, <1>10 DEF OptInv

\* An instruction that is kept.
LEMMA KeepStep ==
    ASSUME OptInv, Visit, ~Dead
    PROVE  OptInv'
<1> DEFINE n == Len(new_code)
<1>1. /\ Size \in Nat /\ i \in 1 .. Size /\ i \in Nat /\ i' = i + 1
      /\ new_code' = Append(new_code, i) /\ UNCHANGED code
  BY DEF OptInv, OptTypeOK, Visit
<1>2. unreachable' <=> Op(i) \in Transfers
  BY DEF Visit
<1>3. unreachable' \in BOOLEAN
  BY Zenon DEF Visit
<1>4. Size' = Size /\ \A j : Op(j)' = Op(j) /\ (IsLabel(j)' <=> IsLabel(j))
  BY <1>1, CodeStays
<1>5. new_code \in Seq(1 .. Size) /\ n \in Nat
  BY DEF OptInv, OptTypeOK
<1>6. /\ new_code' \in Seq(1 .. Size) /\ Len(new_code') = n + 1
      /\ new_code'[n + 1] = i
      /\ \A m \in 1 .. n : new_code'[m] = new_code[m]
  BY <1>1, <1>5
<1> HIDE DEF n
<1>7. \A m \in 1 .. n : new_code[m] \in Nat /\ new_code[m] < i
  BY <1>5, <1>1 DEF n, OptInv, Past
<1>8. OptTypeOK'
  BY <1>1, <1>3, <1>4, <1>6 DEF OptTypeOK
<1>9. Past'
  <2> SUFFICES ASSUME NEW m \in 1 .. n + 1 PROVE new_code'[m] < i + 1
    BY <1>1, <1>6 DEF Past
  <2>1. m \in 1 .. n \/ m = n + 1
    BY <1>5
  <2> QED
    BY <2>1, <1>1, <1>6, <1>7
<1>10. Ends'
  <2>1. i' > 1 /\ Len(new_code') > 0 /\ Last' = i
    BY <1>1, <1>5, <1>6 DEF Last
  <2>2. CASE i = 1
    <3>1. n = 0
      BY <2>2 DEF OptInv, Ends, n
    <3>2. new_code'[1] = 1
      BY <3>1, <2>2, <1>6
    <3> QED
      BY <2>1, <3>2, <1>1, <1>2, <1>4 DEF Ends
  <2>3. CASE i > 1
    <3>1. n > 0 /\ new_code[1] = 1
      BY <2>3 DEF OptInv, Ends, n
    <3>2. new_code'[1] = 1
      BY <3>1, <1>5, <1>6
    <3> QED
      BY <2>1, <3>2, <1>1, <1>2, <1>4 DEF Ends
  <2> QED
    BY <1>1, <2>2, <2>3
<1>11. LabelsKept'
  <2> SUFFICES ASSUME NEW j \in 1 .. i, IsLabel(j)
               PROVE  \E m \in 1 .. n + 1 : new_code'[m] = j
    BY <1>1, <1>4, <1>6 DEF LabelsKept
  <2>1. CASE j = i
    BY <2>1, <1>5, <1>6
  <2>2. CASE j # i
    <3>1. PICK m \in 1 .. n : new_code[m] = j
      BY <2>2, <1>1 DEF OptInv, LabelsKept, n
    <3>2. m \in 1 .. n + 1 /\ new_code'[m] = j
      BY <3>1, <1>5, <1>6
    <3> QED
      BY <3>2
  <2> QED
    BY <2>1, <2>2
<1>12. FallsThroughInPlace'
  <2> SUFFICES ASSUME NEW m \in 1 .. n + 1
               PROVE  /\ m < n + 1 => new_code'[m] < new_code'[m + 1]
                      /\ Op(new_code'[m]) \notin Transfers =>
                            IF m < n + 1 THEN new_code'[m + 1] = new_code'[m] + 1
                            ELSE new_code'[m] = i' - 1
    BY <1>4, <1>6 DEF FallsThroughInPlace
  <2>1. CASE m = n + 1
    BY <2>1, <1>1, <1>6, <1>5
  <2>2. CASE m = n
    <3>1. new_code'[m] = new_code[m] /\ new_code'[m + 1] = i /\ new_code[m] < i
      BY <2>2, <1>5, <1>6, <1>7
    <3>2. Op(new_code[m]) \notin Transfers => new_code[m] = i - 1
      BY <2>2, <1>5 DEF OptInv, FallsThroughInPlace, n
    <3> QED
      BY <3>1, <3>2, <2>2, <1>1, <1>5, <1>7
  <2>3. CASE m < n
    <3>1. new_code'[m] = new_code[m] /\ new_code'[m + 1] = new_code[m + 1]
      BY <2>3, <1>5, <1>6
    <3>2. /\ new_code[m] < new_code[m + 1]
          /\ Op(new_code[m]) \notin Transfers => new_code[m + 1] = new_code[m] + 1
      BY <2>3, <1>5 DEF OptInv, FallsThroughInPlace, n
    <3> QED
      BY <3>1, <3>2, <2>3, <1>5
  <2> QED
    BY <2>1, <2>2, <2>3, <1>5
<1> QED
  BY <1>8, <1>9, <1>10, <1>11, <1>12 DEF OptInv

LEMMA NextInv == OptInv /\ [Visit]_optVars => OptInv'
<1> SUFFICES ASSUME OptInv, [Visit]_optVars PROVE OptInv'
  OBVIOUS
<1>1. CASE Visit /\ Dead
  BY <1>1, DropStep
<1>2. CASE Visit /\ ~Dead
  BY <1>2, KeepStep
<1>3. CASE UNCHANGED optVars
  BY <1>3 DEF optVars, OptInv, OptTypeOK, Past, Ends, Last, LabelsKept, FallsThroughInPlace,
              Size, Op, IsLabel
<1> QED
  BY <1>1, <1>2, <1>3

\* Of what has been visited, nothing is lost that a kept instruction leads to.
LEMMA InvFlow == OptInv => NoneLost
<1> SUFFICES ASSUME OptInv PROVE NoneLost
  OBVIOUS
<1>1. Size \in Nat /\ i \in Nat /\ Len(new_code) \in Nat
  BY DEF OptInv, OptTypeOK
<1>2. i > 1 => 1 \in Pushed
  BY <1>1 DEF OptInv, Ends, Pushed
<1>3. ASSUME NEW m \in 1 .. Len(new_code), NEW b \in Flow(new_code[m]), b < i
      PROVE  b \in Pushed
  <2>1. b \in 1 .. Size /\ b \in Nat
    BY <1>1 DEF Flow
  <2>2. CASE Op(new_code[m]) \notin Transfers /\ b = new_code[m] + 1
    <3>1. CASE m < Len(new_code)
      <4>1. new_code[m + 1] = b /\ m + 1 \in 1 .. Len(new_code)
        BY <3>1, <2>2, <1>1 DEF OptInv, FallsThroughInPlace
      <4> QED
        BY <4>1 DEF Pushed
    <3>2. CASE ~(m < Len(new_code))
      <4>1. new_code[m] = i - 1
        BY <3>2, <2>2 DEF OptInv, FallsThroughInPlace
      <4> QED
        BY <4>1, <2>2, <1>1, <1>3
    <3> QED
      BY <3>1, <3>2
  <2>3. CASE IsLabel(b)
    BY <2>3, <2>1, <1>1, <1>3 DEF OptInv, LabelsKept, Pushed
  <2> QED
    BY <2>2, <2>3 DEF Flow
<1> QED
  BY <1>2, <1>3 DEF NoneLost, Pushed

-----------------------------------------------------------------------------
\* The index of ir_opt.c stays within the function, and what is pushed is
\* always an index into it.
THEOREM OptTyping == OptSpec => []OptTypeOK
<1>1. OptInv => OptTypeOK
  BY DEF OptInv
<1> QED
  BY InitInv, NextInv, <1>1, PTL DEF OptSpec

\* Dead-code elimination loses no instruction that control can reach, keeps
\* the order, and never lets control fall through a gap.
THEOREM OptKeepsFlow == OptSpec => []FlowIsKept
<1>1. OptInv => FlowIsKept
  BY InvFlow DEF OptInv, FlowIsKept
<1> QED
  BY InitInv, NextInv, <1>1, PTL DEF OptSpec
=============================================================================
