---------------------------- MODULE Calls_proof ----------------------------
(***************************************************************************)
(* What a call carries, for every signature of at most 29 arguments: the   *)
(* function called holds its parameters and finds its variable arguments,  *)
(* and the caller stores what it returned and has its stack pointer back   *)
(* where it began, except for the signatures that ArgumentGap, VarargGap   *)
(* and ResultGap describe; and for each of those it goes wrong.            *)
(*                                                                         *)
(* The argument is about the places of the words.  The loop that passes    *)
(* arguments gives every word a place of its own, so all words passed are  *)
(* still there when the function is entered.  The loop that looks for      *)
(* parameters goes through the same places up to the first signature gap,  *)
(* and at the gap to one that holds no word of the argument.  The result   *)
(* goes to places that hold nothing still needed, and the words released   *)
(* are those reserved and evaluated.                                       *)
(***************************************************************************)
EXTENDS Calls, WellFoundedInduction, TLAPS

(* A non-empty set of naturals has a least element: the loops over         *)
(* arguments and registers that stop at the first match find one.          *)
LEMMA LeastElement ==
    ASSUME NEW T, T \subseteq Nat, T # {}
    PROVE  \E x \in T : \A y \in T : x <= y
<1>1. IsWellFoundedOn(OpToRel(<, Nat), Nat)
  BY NatLessThanWellFounded
<1>2. PICK x \in T : \A y \in T : ~(<<y, x>> \in OpToRel(<, Nat))
  BY <1>1, WFMin
<1>3. \A y \in T : ~(y < x)
  BY <1>2 DEF OpToRel
<1> QED
  BY <1>3

-----------------------------------------------------------------------------
\* Types and signatures.

(* The kinds of types, by their fields.                                    *)
LEMMA TypeKinds ==
    ASSUME NEW t, NEW target, IsType(t, target)
    PROVE  /\ t.agg \in Nat /\ t.float \in {0, 4, 8, 16} /\ t.count \in 0 .. 4 /\ t.elem \in {0, 4, 8}
           /\ t.agg % 4 = 0
           /\ t.float # 0 => t.agg = 0
           /\ t.agg = 0 => t.count = 0 /\ ~IsMixed(t)
           /\ t.count > 0 => t.elem \in {4, 8} /\ t.agg = t.elem * t.count /\ ~IsMixed(t)
           /\ t.count = 0 => t.elem = 0
           /\ IsMixed(t) => t.agg = 16 /\ t.count = 0 /\ t.mixed \in {<<1, 2>>, <<2, 1>>}
           /\ IsLongDouble(t) <=> t.float = 16
           /\ t.float = 16 => target = "x86_64"
<1>1. CASE t \in {Scalar(0), Scalar(4), Scalar(8)} \/ (target = "x86_64" /\ t = Scalar(16))
  BY <1>1 DEF Scalar, IsMixed, IsLongDouble
<1>2. CASE t.agg \in Nat \ {0} /\ t.agg % 4 = 0 /\ t = Struct(t.agg)
  BY <1>2 DEF Scalar, Struct, IsMixed, IsLongDouble
<1>3. CASE \E elem \in {4, 8}, count \in 1 .. 4 : t = Homogeneous(elem, count)
  <2>1. PICK elem \in {4, 8}, count \in 1 .. 4 : t = Homogeneous(elem, count)
    BY <1>3
  <2>2. /\ t.agg = elem * count /\ t.float = 0 /\ t.elem = elem /\ t.count = count /\ t.mixed = << >>
    BY <2>1 DEF Scalar, Struct, Homogeneous
  <2>3. elem * count \in Nat \ {0} /\ (elem * count) % 4 = 0
    <3>1. CASE elem = 4
      BY <3>1
    <3>2. CASE elem = 8
      BY <3>2
    <3> QED BY <3>1, <3>2
  <2>4. /\ t.agg \in Nat \ {0} /\ t.agg % 4 = 0 /\ t.float = 0 /\ t.count \in 1 .. 4
        /\ t.elem \in {4, 8} /\ t.agg = t.elem * t.count
    BY <2>1, <2>2, <2>3
  <2>5. ~IsMixed(t) /\ ~IsLongDouble(t)
    BY <2>2 DEF IsMixed, IsLongDouble
  <2> QED BY <2>4, <2>5
<1>4. CASE t \in {Mixed(1, 2), Mixed(2, 1)}
  <2>1. /\ t.agg = 16 /\ t.float = 0 /\ t.elem = 0 /\ t.count = 0
        /\ t.mixed = <<1, 2>> \/ t.mixed = <<2, 1>>
    BY <1>4 DEF Scalar, Struct, Mixed
  <2>2. <<1, 2>> # << >> /\ <<2, 1>> # << >>
    OBVIOUS
  <2>3. t.mixed # << >>
    <3>1. CASE t.mixed = <<1, 2>>
      BY ONLY <3>1, <2>2, Zenon
    <3>2. CASE t.mixed = <<2, 1>>
      BY ONLY <3>2, <2>2, Zenon
    <3> QED BY <2>1, <3>1, <3>2
  <2>5. IsMixed(t) /\ ~IsLongDouble(t)
    <3>1. ~(t.float >= 12)
      BY <2>1
    <3> QED BY <3>1, <2>3 DEF IsMixed, IsLongDouble
  <2>4. t.agg % 4 = 0 /\ t.float = 0 /\ t.count = 0 /\ t.elem = 0 /\ t.agg = 16
    BY <2>1
  <2>6. t.mixed \in {<<1, 2>>, <<2, 1>>}
    BY <2>1
  <2> HIDE <1>4
  <2> QED BY <2>4, <2>5, <2>6
<1> QED BY <1>1, <1>2, <1>3, <1>4 DEF IsType

LEMMA IntegerFields ==
    ASSUME NEW t, IsInteger(t)
    PROVE  t.agg = 0 /\ t.float = 0 /\ t.count = 0 /\ t.elem = 0 /\ ~IsMixed(t) /\ ~IsLongDouble(t)
BY DEF IsInteger, Scalar, IsMixed, IsLongDouble

Target == sig.target

LEMMA SignatureFacts ==
    ASSUME sig \in Signatures
    PROVE  /\ N \in 0 .. 29 /\ Fixed \in 0 .. N /\ sig.varargs \in 0 .. N
           /\ DOMAIN Params = 1 .. N
           /\ \A i \in 1 .. N : IsType(Params[i], Target)
           /\ IsType(sig.ret, Target)
           /\ Target \in {"x86_64", "arm64"} /\ sig.ptr \in BOOLEAN
           /\ sig.ptr => sig.varargs = 0 /\ sig.ret.agg = 0 /\ \A i \in 1 .. N : Params[i].agg = 0
           /\ sig.varargs > 0 => Fixed < N /\ \A i \in 1 .. N : IsInteger(Params[i])
<1>1. IsSignature(sig)
  BY SignatureAssumption
<1>2. \A i \in 1 .. Len(sig.params) : sig.params[i] \in Range(sig.params)
  BY <1>1 DEF IsSignature, Range
<1>3. N \in 0 .. 29 /\ sig.varargs \in 0 .. N /\ DOMAIN Params = 1 .. N /\ (sig.varargs > 0 => sig.varargs < N)
  <2>1. \E S : Params \in Seq(S)
    BY <1>1 DEF IsSignature, Params
  <2>2. Len(Params) \in Nat /\ DOMAIN Params = 1 .. Len(Params)
    BY <2>1
  <2>3. /\ Len(Params) <= 29 /\ sig.varargs \in 0 .. Len(Params)
        /\ (sig.varargs > 0 => sig.varargs < Len(Params))
    BY <1>1 DEF IsSignature, Params, MaxArguments
  <2>4. N = Len(Params)
    BY DEF N
  <2>5. \A x \in Nat : x <= 29 => x \in 0 .. 29
    OBVIOUS
  <2> QED BY <2>2, <2>3, <2>4, <2>5, Zenon
<1>4. Fixed \in 0 .. N /\ (sig.varargs > 0 => Fixed < N)
  BY <1>3 DEF Fixed
<1> QED BY <1>1, <1>2, <1>3, <1>4 DEF IsSignature, N, Params, Target

-----------------------------------------------------------------------------
\* The recursive functions.

(* Any two of the walks over the arguments: a value at the start, and a    *)
(* step from one to the next, define a function.                           *)
Walks(f, n, a, step) == f = [i \in 0 .. n |-> IF i = 0 THEN a ELSE step[<<i, f[i - 1]>>]]

LEMMA Recursion ==
    ASSUME NEW n \in Nat, NEW S, NEW a \in S, NEW step \in [(1 .. n) \X S -> S]
    PROVE  \E f \in [0 .. n -> S] : Walks(f, n, a, step)
<1> DEFINE Good(m, f) == /\ f \in [0 .. m -> S] /\ f[0] = a
                         /\ \A i \in 1 .. m : f[i] = step[<<i, f[i - 1]>>]
           Bad == {m \in 0 .. n : ~\E f : Good(m, f)}
<1>1. \E f : Good(0, f)
  <2>1. Good(0, [i \in 0 .. 0 |-> a])
    OBVIOUS
  <2> QED BY <2>1
<1>2. ASSUME NEW m \in 0 .. n - 1, \E f : Good(m, f)
      PROVE  \E f : Good(m + 1, f)
  <2>1. PICK f : Good(m, f)
    BY <1>2
  <2> DEFINE g == [i \in 0 .. m + 1 |-> IF i = m + 1 THEN step[<<m + 1, f[m]>>] ELSE f[i]]
  <2>2. f[m] \in S /\ step[<<m + 1, f[m]>>] \in S
    BY <2>1
  <2>3. g \in [0 .. m + 1 -> S]
    BY <2>1, <2>2
  <2>4. g[0] = a
    BY <2>1
  <2>5. ASSUME NEW i \in 1 .. m + 1
        PROVE  g[i] = step[<<i, g[i - 1]>>]
    <3>1. g[i - 1] = f[i - 1] /\ i - 1 \in 0 .. m
      OBVIOUS
    <3>2. CASE i = m + 1
      <4>1. g[i] = step[<<m + 1, f[m]>>] /\ i - 1 = m
        BY <3>2
      <4> HIDE DEF g
      <4> QED BY <4>1, <3>1, <3>2
    <3>3. CASE i # m + 1
      <4>1. i \in 1 .. m /\ g[i] = f[i]
        BY <3>3
      <4> HIDE DEF g
      <4> QED BY <4>1, <3>1, <2>1
    <3> QED BY <3>2, <3>3
  <2> HIDE DEF g
  <2> QED BY <2>3, <2>4, <2>5
<1>3. Bad = {}
  <2>1. SUFFICES ASSUME Bad # {} PROVE FALSE
    OBVIOUS
  <2>2. PICK m \in Bad : \A y \in Bad : m <= y
    <3> HIDE DEF Good
    <3>1. Bad \subseteq Nat
      OBVIOUS
    <3> HIDE DEF Bad
    <3> QED BY <2>1, <3>1, LeastElement
  <2>3. m \in 0 .. n /\ ~\E f : Good(m, f)
    OBVIOUS
  <2> HIDE DEF Good
  <2>4. m # 0
    BY <2>3, <1>1
  <2>5. m - 1 \in 0 .. n - 1 /\ m - 1 \notin Bad
    BY <2>2, <2>3, <2>4
  <2>6. \E f : Good(m - 1, f)
    BY <2>5
  <2>7. \E f : Good(m - 1 + 1, f)
    BY <2>5, <2>6, <1>2
  <2> QED BY <2>7, <2>3
<1>4. PICK f : Good(n, f)
  <2> HIDE DEF Good
  <2> QED BY <1>3
<1>5. f = [i \in 0 .. n |-> IF i = 0 THEN a ELSE step[<<i, f[i - 1]>>]]
  BY <1>4
<1> QED BY <1>4, <1>5 DEF Walks

(* Words on the evaluation stack.                                          *)
LEMMA EvalTotals ==
    ASSUME sig \in Signatures
    PROVE  /\ EvalTotal \in [0 .. N -> Nat]
           /\ EvalTotal[0] = 0
           /\ \A i \in 1 .. N : EvalTotal[i] = EvalTotal[i - 1] + EvalWords(Params[i])
<1>0. N \in Nat
  <2>1. N \in 0 .. 29
    BY SignatureFacts, Zenon
  <2> QED BY <2>1
<1> DEFINE step == [p \in (1 .. N) \X Nat |-> p[2] + EvalWords(Params[p[1]])]
           Body(F) == [i \in 0 .. N |-> IF i = 0 THEN 0 ELSE F[i - 1] + EvalWords(Params[i])]
<1>1. \A i \in 1 .. N : EvalWords(Params[i]) \in Nat
  BY DEF EvalWords, Unit
<1>2. step \in [(1 .. N) \X Nat -> Nat]
  BY <1>1
<1>3. PICK f \in [0 .. N -> Nat] : Walks(f, N, 0, step)
  <2> HIDE DEF step
  <2>1. 0 \in Nat
    OBVIOUS
  <2> QED BY <1>0, <1>2, <2>1, Recursion, Zenon
<1>4. \A i \in 1 .. N : i - 1 \in 0 .. N /\ f[i - 1] \in Nat
  BY <1>0
<1>5. f = Body(f)
  <2>1. \A i \in 1 .. N : step[<<i, f[i - 1]>>] = f[i - 1] + EvalWords(Params[i])
    BY <1>4
  <2>2. \A i \in 0 .. N : i # 0 => i \in 1 .. N
    BY <1>0
  <2> HIDE DEF step
  <2> QED BY <1>3, <2>1, <2>2 DEF Walks
<1>6. EvalTotal = CHOOSE F : F = Body(F)
  BY DEF EvalTotal
<1>7. EvalTotal = Body(EvalTotal)
  <2> HIDE DEF Body
  <2> QED BY <1>5, <1>6
<1>8. EvalTotal[0] = 0 /\ \A i \in 1 .. N : EvalTotal[i] = EvalTotal[i - 1] + EvalWords(Params[i])
  <2>1. 0 \in 0 .. N /\ \A i \in 1 .. N : i \in 0 .. N /\ i # 0
    BY <1>0
  <2> QED BY <1>7, <2>1
<1> DEFINE Bad == {i \in 0 .. N : EvalTotal[i] \notin Nat}
<1>9. Bad = {}
  <2>1. SUFFICES ASSUME Bad # {} PROVE FALSE
    OBVIOUS
  <2>2. Bad \subseteq Nat
    OBVIOUS
  <2>3. PICK i \in Bad : \A j \in Bad : i <= j
    <3> HIDE DEF Bad
    <3> QED BY <2>1, <2>2, LeastElement
  <2>4. i # 0 /\ i \in 1 .. N
    BY <1>8, <1>0
  <2>5. i - 1 \in 0 .. N /\ ~(i <= i - 1)
    BY <2>4, <1>0
  <2>6. EvalTotal[i - 1] \in Nat
    BY <2>5, <2>3
  <2> QED BY <2>4, <2>6, <1>8, <1>1
<1> QED BY <1>7, <1>8, <1>9

-----------------------------------------------------------------------------
\* Routes: the places of one argument, and the cursor behind it.

Cursors == [g : Nat, s : Nat, m : Nat]
Between(p, c, d) ==
    \/ \E x \in c.g .. d.g - 1 : p = <<"g", x>>
    \/ \E x \in c.s .. d.s - 1 : p = <<"s", x>>
    \/ \E x \in c.m .. d.m - 1 : p = <<"m", x>>
IsRoute(r, c, n) ==
    /\ r.cur \in Cursors /\ c.g <= r.cur.g /\ c.s <= r.cur.s /\ c.m <= r.cur.m
    /\ DOMAIN r.at = 1 .. n
    /\ \A j \in 1 .. n : Between(r.at[j], c, r.cur)
    /\ \A i, j \in 1 .. n : r.at[i] = r.at[j] => i = j

LEMMA InGprFacts ==
    ASSUME NEW c \in Cursors, NEW n \in Nat
    PROVE  /\ IsRoute(InGpr(c, n), c, n)
           /\ \A w \in 1 .. n : InGpr(c, n).at[w] = <<"g", c.g + w - 1>>
           /\ InGpr(c, n).cur = [g |-> c.g + n, s |-> c.s, m |-> c.m]
<1> DEFINE r == InGpr(c, n)
<1>1. /\ DOMAIN r.at = 1 .. n /\ \A w \in 1 .. n : r.at[w] = <<"g", c.g + w - 1>>
  BY DEF InGpr
<1>2. r.cur = [g |-> c.g + n, s |-> c.s, m |-> c.m]
  BY DEF InGpr, Cursors
<1>3. r.cur \in Cursors /\ r.cur.g = c.g + n /\ r.cur.s = c.s /\ r.cur.m = c.m
  BY <1>2 DEF Cursors
<1>4. \A w \in 1 .. n : c.g + w - 1 \in c.g .. c.g + n - 1
  BY DEF Cursors
<1>5. \A v, w \in 1 .. n : c.g + v - 1 = c.g + w - 1 => v = w
  BY DEF Cursors
<1>6. c.g \in Nat /\ c.s \in Nat /\ c.m \in Nat
  BY DEF Cursors
<1> HIDE DEF r
<1>7. \A j \in 1 .. n : Between(r.at[j], c, r.cur)
  <2>1. TAKE j \in 1 .. n
  <2>2. c.g + j - 1 \in c.g .. r.cur.g - 1
    <3>1. c.g + j - 1 \in c.g .. c.g + n - 1
      BY <1>4
    <3>2. \A x, y, z \in Nat : z = x + y => z - 1 = x + y - 1
      OBVIOUS
    <3> QED BY <3>1, <3>2, <1>3, <1>6
  <2>3. r.at[j] = <<"g", c.g + j - 1>>
    BY <1>1
  <2> QED BY <2>2, <2>3 DEF Between
<1>8. \A i, j \in 1 .. n : r.at[i] = r.at[j] => i = j
  <2>1. TAKE i, j \in 1 .. n
  <2>2. r.at[i] = <<"g", c.g + i - 1>> /\ r.at[j] = <<"g", c.g + j - 1>>
    BY <1>1
  <2> QED BY <2>2, <1>5
<1> QED BY <1>1, <1>2, <1>3, <1>6, <1>7, <1>8 DEF IsRoute, r

LEMMA InSseFacts ==
    ASSUME NEW c \in Cursors, NEW n \in Nat
    PROVE  /\ IsRoute(InSse(c, n), c, n)
           /\ \A w \in 1 .. n : InSse(c, n).at[w] = <<"s", c.s + w - 1>>
           /\ InSse(c, n).cur = [g |-> c.g, s |-> c.s + n, m |-> c.m]
<1> DEFINE r == InSse(c, n)
<1>1. /\ DOMAIN r.at = 1 .. n /\ \A w \in 1 .. n : r.at[w] = <<"s", c.s + w - 1>>
  BY DEF InSse
<1>2. r.cur = [g |-> c.g, s |-> c.s + n, m |-> c.m]
  BY DEF InSse, Cursors
<1>3. r.cur \in Cursors /\ r.cur.g = c.g /\ r.cur.s = c.s + n /\ r.cur.m = c.m
  BY <1>2 DEF Cursors
<1>4. \A w \in 1 .. n : c.s + w - 1 \in c.s .. c.s + n - 1
  BY DEF Cursors
<1>5. \A v, w \in 1 .. n : c.s + v - 1 = c.s + w - 1 => v = w
  BY DEF Cursors
<1>6. c.g \in Nat /\ c.s \in Nat /\ c.m \in Nat
  BY DEF Cursors
<1> HIDE DEF r
<1>7. \A j \in 1 .. n : Between(r.at[j], c, r.cur)
  <2>1. TAKE j \in 1 .. n
  <2>2. c.s + j - 1 \in c.s .. r.cur.s - 1
    <3>1. c.s + j - 1 \in c.s .. c.s + n - 1
      BY <1>4
    <3>2. \A x, y, z \in Nat : z = x + y => z - 1 = x + y - 1
      OBVIOUS
    <3> QED BY <3>1, <3>2, <1>3, <1>6
  <2>3. r.at[j] = <<"s", c.s + j - 1>>
    BY <1>1
  <2> QED BY <2>2, <2>3 DEF Between
<1>8. \A i, j \in 1 .. n : r.at[i] = r.at[j] => i = j
  <2>1. TAKE i, j \in 1 .. n
  <2>2. r.at[i] = <<"s", c.s + i - 1>> /\ r.at[j] = <<"s", c.s + j - 1>>
    BY <1>1
  <2> QED BY <2>2, <1>5
<1> QED BY <1>1, <1>2, <1>3, <1>6, <1>7, <1>8 DEF IsRoute, r

LEMMA OnStackFacts ==
    ASSUME NEW c \in Cursors, NEW n \in Nat
    PROVE  /\ IsRoute(OnStack(c, n), c, n)
           /\ \A w \in 1 .. n : OnStack(c, n).at[w] = <<"m", c.m + w - 1>>
           /\ OnStack(c, n).cur = [g |-> c.g, s |-> c.s, m |-> c.m + n]
<1> DEFINE r == OnStack(c, n)
<1>1. /\ DOMAIN r.at = 1 .. n /\ \A w \in 1 .. n : r.at[w] = <<"m", c.m + w - 1>>
  BY DEF OnStack
<1>2. r.cur = [g |-> c.g, s |-> c.s, m |-> c.m + n]
  BY DEF OnStack, Cursors
<1>3. r.cur \in Cursors /\ r.cur.g = c.g /\ r.cur.s = c.s /\ r.cur.m = c.m + n
  BY <1>2 DEF Cursors
<1>4. \A w \in 1 .. n : c.m + w - 1 \in c.m .. c.m + n - 1
  BY DEF Cursors
<1>5. \A v, w \in 1 .. n : c.m + v - 1 = c.m + w - 1 => v = w
  BY DEF Cursors
<1>6. c.g \in Nat /\ c.s \in Nat /\ c.m \in Nat
  BY DEF Cursors
<1> HIDE DEF r
<1>7. \A j \in 1 .. n : Between(r.at[j], c, r.cur)
  <2>1. TAKE j \in 1 .. n
  <2>2. c.m + j - 1 \in c.m .. r.cur.m - 1
    <3>1. c.m + j - 1 \in c.m .. c.m + n - 1
      BY <1>4
    <3>2. \A x, y, z \in Nat : z = x + y => z - 1 = x + y - 1
      OBVIOUS
    <3> QED BY <3>1, <3>2, <1>3, <1>6
  <2>3. r.at[j] = <<"m", c.m + j - 1>>
    BY <1>1
  <2> QED BY <2>2, <2>3 DEF Between
<1>8. \A i, j \in 1 .. n : r.at[i] = r.at[j] => i = j
  <2>1. TAKE i, j \in 1 .. n
  <2>2. r.at[i] = <<"m", c.m + i - 1>> /\ r.at[j] = <<"m", c.m + j - 1>>
    BY <1>1
  <2> QED BY <2>2, <1>5
<1> QED BY SMTT(30), <1>1, <1>2, <1>3, <1>6, <1>7, <1>8 DEF IsRoute, r

(* A mixed aggregate takes one register of each kind.                      *)
LEMMA InBothFacts ==
    ASSUME NEW c \in Cursors, NEW t, NEW target, IsType(t, target), IsMixed(t)
    PROVE  /\ IsRoute(InBoth(t, c), c, 2)
           /\ InBoth(t, c).at = IF t.mixed[1] = 2 THEN <<<<"s", c.s>>, <<"g", c.g>>>>
                                                  ELSE <<<<"g", c.g>>, <<"s", c.s>>>>
           /\ InBoth(t, c).cur = [g |-> c.g + 1, s |-> c.s + 1, m |-> c.m]
<1>0. t.mixed \in {<<1, 2>>, <<2, 1>>}
  BY TypeKinds
<1> DEFINE g == InGpr(c, 1)
           s == InSse(c, 1)
<1>1. c.g \in Nat /\ c.s \in Nat /\ c.m \in Nat
  BY DEF Cursors
<1>2. /\ g.cur = [g |-> c.g + 1, s |-> c.s, m |-> c.m] /\ g.at[1] = <<"g", c.g>>
      /\ s.cur = [g |-> c.g, s |-> c.s + 1, m |-> c.m] /\ s.at[1] = <<"s", c.s>>
  <2>1. 1 \in 1 .. 1 /\ 1 \in Nat /\ c.g + 1 - 1 = c.g /\ c.s + 1 - 1 = c.s
    BY <1>1
  <2>2. g.at[1] = <<"g", c.g + 1 - 1>>
    BY <2>1, InGprFacts
  <2>3. s.at[1] = <<"s", c.s + 1 - 1>>
    BY <2>1, InSseFacts
  <2>4. g.cur = [g |-> c.g + 1, s |-> c.s, m |-> c.m] /\ s.cur = [g |-> c.g, s |-> c.s + 1, m |-> c.m]
    BY <2>1, InGprFacts, InSseFacts
  <2> HIDE DEF g, s
  <2> QED BY <2>1, <2>2, <2>3, <2>4
<1>3. g.cur \in Cursors /\ s.cur \in Cursors
  BY <1>1, <1>2 DEF Cursors
<1>4. /\ InSse(g.cur, 1).cur = [g |-> c.g + 1, s |-> c.s + 1, m |-> c.m]
      /\ InSse(g.cur, 1).at[1] = <<"s", c.s>>
      /\ InGpr(s.cur, 1).cur = [g |-> c.g + 1, s |-> c.s + 1, m |-> c.m]
      /\ InGpr(s.cur, 1).at[1] = <<"g", c.g>>
  <2> HIDE DEF g, s
  <2>1. 1 \in 1 .. 1 /\ 1 \in Nat /\ c.g + 1 - 1 = c.g /\ c.s + 1 - 1 = c.s
    BY <1>1
  <2>2. InSse(g.cur, 1).at[1] = <<"s", g.cur.s + 1 - 1>>
    BY ZenonT(30), <2>1, <1>3, InSseFacts
  <2>5. InGpr(s.cur, 1).at[1] = <<"g", s.cur.g + 1 - 1>>
    BY ZenonT(30), <2>1, <1>3, InGprFacts
  <2>3. g.cur.g = c.g + 1 /\ g.cur.s = c.s /\ g.cur.m = c.m /\ s.cur.g = c.g /\ s.cur.s = c.s + 1 /\ s.cur.m = c.m
    BY <1>2
  <2>4. /\ InSse(g.cur, 1).cur = [g |-> g.cur.g, s |-> g.cur.s + 1, m |-> g.cur.m]
        /\ InGpr(s.cur, 1).cur = [g |-> s.cur.g + 1, s |-> s.cur.s, m |-> s.cur.m]
    BY <2>1, <1>3, InGprFacts, InSseFacts, Zenon
  <2> QED BY <2>1, <2>2, <2>3, <2>4, <2>5
<1> DEFINE r == InBoth(t, c)
<1>5. /\ r.at = IF t.mixed[1] = 2 THEN <<<<"s", c.s>>, <<"g", c.g>>>> ELSE <<<<"g", c.g>>, <<"s", c.s>>>>
      /\ r.cur = [g |-> c.g + 1, s |-> c.s + 1, m |-> c.m]
  <2> HIDE DEF g, s
  <2>1. CASE t.mixed = <<1, 2>>
    <3>1. t.mixed[1] = 1 /\ t.mixed[2] = 2
      BY <2>1
    <3>2. r = [at |-> <<g.at[1], InSse(g.cur, 1).at[1]>>, cur |-> InSse(g.cur, 1).cur]
      BY <3>1 DEF InBoth, g
    <3> HIDE DEF r
    <3> QED BY <3>1, <3>2, <1>2, <1>4
  <2>2. CASE t.mixed = <<2, 1>>
    <3>1. t.mixed[1] = 2 /\ t.mixed[2] = 1
      BY <2>2
    <3>2. r = [at |-> <<s.at[1], InGpr(s.cur, 1).at[1]>>, cur |-> InGpr(s.cur, 1).cur]
      BY <3>1 DEF InBoth, s
    <3> HIDE DEF r
    <3> QED BY <3>1, <3>2, <1>2, <1>4
  <2> QED BY <2>1, <2>2, <1>0
<1>6. IsRoute(r, c, 2)
  <2> HIDE DEF r
  <2>1. r.cur \in Cursors /\ r.cur.g = c.g + 1 /\ r.cur.s = c.s + 1 /\ r.cur.m = c.m
    BY <1>1, <1>5 DEF Cursors
  <2>2. c.g \in c.g .. r.cur.g - 1 /\ c.s \in c.s .. r.cur.s - 1
    BY <2>1, <1>1
  <2>3. DOMAIN r.at = 1 .. 2 /\ (\A j \in 1 .. 2 : r.at[j] \in {<<"g", c.g>>, <<"s", c.s>>}) /\ r.at[1] # r.at[2]
    BY <1>5
  <2>4. \A j \in 1 .. 2 : Between(r.at[j], c, r.cur)
    BY <2>2, <2>3 DEF Between
  <2>5. \A i, j \in 1 .. 2 : r.at[i] = r.at[j] => i = j
    BY <2>3
  <2> QED BY <2>1, <2>3, <2>4, <2>5, <1>1 DEF IsRoute
<1> QED BY <1>5, <1>6 DEF r

(* The words of a type.                                                    *)
LEMMA WordCounts ==
    ASSUME NEW t, NEW target, IsType(t, target)
    PROVE  /\ Words(t) \in Nat \ {0} /\ ArmWords(t) \in Nat \ {0} /\ SseSlots(t) \in Nat
           /\ t.count > 0 => SseSlots(t) = Words(t)
           /\ t.agg = 0 => Words(t) = 1 /\ ArmWords(t) = 1
           /\ t.agg > 0 => Words(t) = (t.agg + 7) \div 8
           /\ t.agg <= 16 => ArmWords(t) = Words(t)
<1>1. t.agg \in Nat /\ (t.count > 0 => t.agg = t.elem * t.count) /\ t.count \in Nat
  BY TypeKinds
<1>2. t.count \in 0 .. 4 /\ t.elem \in {0, 4, 8} /\ t.count > 0 => t.agg > 0
  BY TypeKinds
<1>3. t.elem * t.count \in Nat
  <2>1. t.count \in 0 .. 4 /\ t.elem \in {0, 4, 8}
    BY TypeKinds
  <2> QED BY <2>1
<1>4. WordsOf(t.agg) \in Nat /\ (t.agg > 0 => WordsOf(t.agg) # 0) /\ WordsOf(t.elem * t.count) \in Nat
  BY <1>1, <1>3 DEF WordsOf
<1>5. t.count > 0 => t.agg > 0
  BY TypeKinds
<1>6. WordsOf(t.agg) = (t.agg + 7) \div 8
  BY DEF WordsOf
<1>7. Words(t) \in Nat \ {0} /\ SseSlots(t) \in Nat
  BY <1>1, <1>4 DEF Words, SseSlots
<1>8. t.count > 0 => SseSlots(t) = Words(t)
  BY <1>1, <1>5 DEF Words, SseSlots
<1>9. (t.agg = 0 => Words(t) = 1) /\ (t.agg > 0 => Words(t) = (t.agg + 7) \div 8)
  BY <1>1, <1>6 DEF Words
<1> QED BY <1>1, <1>7, <1>8, <1>9 DEF ArmWords

Straight(r, c) == \E n \in Nat \ {0} : r = InGpr(c, n) \/ r = InSse(c, n) \/ r = OnStack(c, n)
Routed(r, t, c) == Straight(r, c) \/ (~Arm /\ IsMixed(t) /\ r = InBoth(t, c))

(* Both loops only take registers of one kind, or stack words, but for the *)
(* mixed aggregates of x86-64.                                             *)
LEMMA StepsRouted ==
    ASSUME NEW t, NEW target, IsType(t, target), NEW c
    PROVE  Routed(CallerStep(t, c), t, c) /\ Routed(CalleeStep(t, c), t, c)
<1>1. /\ Words(t) \in Nat \ {0} /\ ArmWords(t) \in Nat \ {0}
      /\ t.count > 0 => SseSlots(t) \in Nat \ {0} /\ t.count \in Nat \ {0}
  <2>1. t.count \in Nat
    BY TypeKinds
  <2> QED BY <2>1, WordCounts
<1>2. 1 \in Nat \ {0} /\ 2 \in Nat \ {0}
  OBVIOUS
<1>3. CASE Arm
  <2>1. Straight(ArmCaller(t, c), c)
    BY <1>1, <1>2 DEF ArmCaller, Straight
  <2>2. Straight(ArmCallee(t, c), c)
    BY <1>1, <1>2 DEF ArmCallee, Straight
  <2> QED BY <1>3, <2>1, <2>2 DEF CallerStep, CalleeStep, Routed
<1>4. CASE ~Arm
  <2>1. Straight(X86Caller(t, c), c) \/ (IsMixed(t) /\ X86Caller(t, c) = InBoth(t, c))
    BY <1>1, <1>2 DEF X86Caller, Straight
  <2>2. Straight(X86Callee(t, c), c) \/ (IsMixed(t) /\ X86Callee(t, c) = InBoth(t, c))
    BY <1>1, <1>2 DEF X86Callee, Straight
  <2> QED BY <1>4, <2>1, <2>2 DEF CallerStep, CalleeStep, Routed
<1> QED BY <1>3, <1>4

LEMMA RoutedIsRoute ==
    ASSUME NEW t, NEW target, IsType(t, target), NEW c \in Cursors, NEW r, Routed(r, t, c)
    PROVE  \E n \in Nat \ {0} : IsRoute(r, c, n)
<1>1. CASE Straight(r, c)
  <2>1. PICK n \in Nat \ {0} : r = InGpr(c, n) \/ r = InSse(c, n) \/ r = OnStack(c, n)
    BY <1>1 DEF Straight
  <2>2. n \in Nat
    OBVIOUS
  <2>3. IsRoute(InGpr(c, n), c, n) /\ IsRoute(InSse(c, n), c, n) /\ IsRoute(OnStack(c, n), c, n)
    BY <2>2, InGprFacts, InSseFacts, OnStackFacts
  <2> QED BY <2>1, <2>3, Zenon
<1>2. CASE IsMixed(t) /\ r = InBoth(t, c)
  <2>2. IsRoute(InBoth(t, c), c, 2)
    BY <1>2, InBothFacts
  <2>3. 2 \in Nat \ {0}
    OBVIOUS
  <2> QED BY <1>2, <2>2, <2>3, Zenon
<1> QED BY <1>1, <1>2 DEF Routed

LEMMA StepIsRoute ==
    ASSUME NEW t, NEW target, IsType(t, target), NEW c \in Cursors
    PROVE  /\ \E n \in Nat \ {0} : IsRoute(CallerStep(t, c), c, n)
           /\ \E n \in Nat \ {0} : IsRoute(CalleeStep(t, c), c, n)
BY StepsRouted, RoutedIsRoute

(* The cursors before and after every argument, on both sides.             *)
LEMMA StartIsCursor == StartCursor \in Cursors /\ StartCursor.s = 0 /\ StartCursor.m = 0
BY DEF StartCursor, Cursor, Cursors

LEMMA CallerCursors ==
    ASSUME sig \in Signatures
    PROVE  /\ CallerCursor \in [0 .. N -> Cursors]
           /\ CallerCursor[0] = StartCursor
           /\ \A i \in 1 .. N : CallerCursor[i] = CallerStep(Params[i], CallerCursor[i - 1]).cur
<1>0. N \in Nat /\ \A i \in 1 .. N : IsType(Params[i], Target)
  <2>1. N \in 0 .. 29 /\ \A i \in 1 .. N : IsType(Params[i], Target)
    BY SignatureFacts, Zenon
  <2> QED BY <2>1
<1> DEFINE step == [p \in (1 .. N) \X Cursors |-> CallerStep(Params[p[1]], p[2]).cur]
           Body(F) == [i \in 0 .. N |-> IF i = 0 THEN StartCursor ELSE CallerStep(Params[i], F[i - 1]).cur]
<1>1. \A i \in 1 .. N, c \in Cursors : CallerStep(Params[i], c).cur \in Cursors
  <2>1. TAKE i \in 1 .. N, c \in Cursors
  <2>2. IsType(Params[i], Target)
    BY <1>0
  <2> QED BY <2>2, StepIsRoute DEF IsRoute
<1>2. step \in [(1 .. N) \X Cursors -> Cursors]
  BY <1>1
<1>3. PICK f \in [0 .. N -> Cursors] : Walks(f, N, StartCursor, step)
  <2> HIDE DEF step
  <2> QED BY <1>0, <1>2, StartIsCursor, Recursion, Zenon
<1>4. \A i \in 1 .. N : i - 1 \in 0 .. N /\ f[i - 1] \in Cursors
  BY <1>0
<1>5. f = Body(f)
  <2>1. \A i \in 1 .. N : step[<<i, f[i - 1]>>] = CallerStep(Params[i], f[i - 1]).cur
    BY <1>4
  <2>2. \A i \in 0 .. N : i # 0 => i \in 1 .. N
    BY <1>0
  <2> HIDE DEF step
  <2> QED BY <1>3, <2>1, <2>2 DEF Walks
<1>6. CallerCursor = CHOOSE F : F = Body(F)
  BY DEF CallerCursor
<1>7. CallerCursor = Body(CallerCursor)
  <2> HIDE DEF Body
  <2> QED BY <1>5, <1>6
<1>8. /\ CallerCursor[0] = StartCursor
      /\ \A i \in 1 .. N : CallerCursor[i] = CallerStep(Params[i], CallerCursor[i - 1]).cur
  <2>1. 0 \in 0 .. N /\ \A i \in 1 .. N : i \in 0 .. N /\ i # 0
    BY <1>0
  <2> QED BY <1>7, <2>1
<1> DEFINE Bad == {i \in 0 .. N : CallerCursor[i] \notin Cursors}
<1>9. Bad = {}
  <2>1. SUFFICES ASSUME Bad # {} PROVE FALSE
    OBVIOUS
  <2>2. Bad \subseteq Nat
    OBVIOUS
  <2>3. PICK i \in Bad : \A j \in Bad : i <= j
    <3> HIDE DEF Bad
    <3> QED BY <2>1, <2>2, LeastElement
  <2>4. i # 0 /\ i \in 1 .. N
    BY <1>8, <1>0, StartIsCursor
  <2>5. i - 1 \in 0 .. N /\ ~(i <= i - 1)
    BY <2>4, <1>0
  <2>6. CallerCursor[i - 1] \in Cursors
    BY <2>5, <2>3
  <2> QED BY <2>4, <2>6, <1>8, <1>1
<1> QED BY <1>7, <1>8, <1>9

LEMMA CalleeCursors ==
    ASSUME sig \in Signatures
    PROVE  /\ CalleeCursor \in [0 .. N -> Cursors]
           /\ CalleeCursor[0] = StartCursor
           /\ \A i \in 1 .. N : CalleeCursor[i] = CalleeStep(Params[i], CalleeCursor[i - 1]).cur
<1>0. N \in Nat /\ \A i \in 1 .. N : IsType(Params[i], Target)
  <2>1. N \in 0 .. 29 /\ \A i \in 1 .. N : IsType(Params[i], Target)
    BY SignatureFacts, Zenon
  <2> QED BY <2>1
<1> DEFINE step == [p \in (1 .. N) \X Cursors |-> CalleeStep(Params[p[1]], p[2]).cur]
           Body(F) == [i \in 0 .. N |-> IF i = 0 THEN StartCursor ELSE CalleeStep(Params[i], F[i - 1]).cur]
<1>1. \A i \in 1 .. N, c \in Cursors : CalleeStep(Params[i], c).cur \in Cursors
  <2>1. TAKE i \in 1 .. N, c \in Cursors
  <2>2. IsType(Params[i], Target)
    BY <1>0
  <2> QED BY <2>2, StepIsRoute DEF IsRoute
<1>2. step \in [(1 .. N) \X Cursors -> Cursors]
  BY <1>1
<1>3. PICK f \in [0 .. N -> Cursors] : Walks(f, N, StartCursor, step)
  <2> HIDE DEF step
  <2> QED BY <1>0, <1>2, StartIsCursor, Recursion, Zenon
<1>4. \A i \in 1 .. N : i - 1 \in 0 .. N /\ f[i - 1] \in Cursors
  BY <1>0
<1>5. f = Body(f)
  <2>1. \A i \in 1 .. N : step[<<i, f[i - 1]>>] = CalleeStep(Params[i], f[i - 1]).cur
    BY <1>4
  <2>2. \A i \in 0 .. N : i # 0 => i \in 1 .. N
    BY <1>0
  <2> HIDE DEF step
  <2> QED BY <1>3, <2>1, <2>2 DEF Walks
<1>6. CalleeCursor = CHOOSE F : F = Body(F)
  BY DEF CalleeCursor
<1>7. CalleeCursor = Body(CalleeCursor)
  <2> HIDE DEF Body
  <2> QED BY <1>5, <1>6
<1>8. /\ CalleeCursor[0] = StartCursor
      /\ \A i \in 1 .. N : CalleeCursor[i] = CalleeStep(Params[i], CalleeCursor[i - 1]).cur
  <2>1. 0 \in 0 .. N /\ \A i \in 1 .. N : i \in 0 .. N /\ i # 0
    BY <1>0
  <2> QED BY <1>7, <2>1
<1> DEFINE Bad == {i \in 0 .. N : CalleeCursor[i] \notin Cursors}
<1>9. Bad = {}
  <2>1. SUFFICES ASSUME Bad # {} PROVE FALSE
    OBVIOUS
  <2>2. Bad \subseteq Nat
    OBVIOUS
  <2>3. PICK i \in Bad : \A j \in Bad : i <= j
    <3> HIDE DEF Bad
    <3> QED BY <2>1, <2>2, LeastElement
  <2>4. i # 0 /\ i \in 1 .. N
    BY <1>8, <1>0, StartIsCursor
  <2>5. i - 1 \in 0 .. N /\ ~(i <= i - 1)
    BY <2>4, <1>0
  <2>6. CalleeCursor[i - 1] \in Cursors
    BY <2>5, <2>3
  <2> QED BY <2>4, <2>6, <1>8, <1>1
<1> QED BY <1>7, <1>8, <1>9

(* What never falls from one step to the next never falls.                 *)
LEMMA Monotone ==
    ASSUME NEW n \in Nat, NEW f \in [0 .. n -> Nat], \A i \in 1 .. n : f[i - 1] <= f[i]
    PROVE  \A i, j \in 0 .. n : i <= j => f[i] <= f[j]
<1> SUFFICES ASSUME NEW i \in 0 .. n PROVE \A j \in 0 .. n : i <= j => f[i] <= f[j]
  OBVIOUS
<1> DEFINE Bad == {j \in 0 .. n : i <= j /\ ~(f[i] <= f[j])}
<1>1. SUFFICES Bad = {}
  OBVIOUS
<1>2. SUFFICES ASSUME Bad # {} PROVE FALSE
  OBVIOUS
<1>3. Bad \subseteq Nat
  OBVIOUS
<1>4. PICK j \in Bad : \A y \in Bad : j <= y
  <2> HIDE DEF Bad
  <2> QED BY <1>2, <1>3, LeastElement
<1>5. j # i /\ i <= j - 1 /\ j - 1 \in 0 .. n /\ j \in 1 .. n
  OBVIOUS
<1>6. j - 1 \notin Bad
  BY <1>4, <1>5
<1>7. f[i] <= f[j - 1] /\ f[j - 1] <= f[j]
  BY <1>5, <1>6
<1>8. f[i] \in Nat /\ f[j - 1] \in Nat /\ f[j] \in Nat
  BY <1>5
<1> QED BY <1>7, <1>8

LEMMA EvalTotalsRise ==
    ASSUME sig \in Signatures
    PROVE  \A i, j \in 0 .. N : i <= j => EvalTotal[i] <= EvalTotal[j]
<1>1. N \in Nat
  <2>1. N \in 0 .. 29
    BY SignatureFacts, Zenon
  <2> QED BY <2>1
<1>2. \A i \in 1 .. N : EvalTotal[i - 1] <= EvalTotal[i]
  <2>1. TAKE i \in 1 .. N
  <2>2. i - 1 \in 0 .. N
    BY <1>1
  <2>3. EvalTotal[i - 1] \in Nat /\ EvalTotal[i] = EvalTotal[i - 1] + EvalWords(Params[i])
    BY <2>2, EvalTotals
  <2>4. EvalWords(Params[i]) \in Nat
    BY DEF EvalWords, Unit
  <2> QED BY <2>3, <2>4
<1> QED BY <1>1, <1>2, EvalTotals, Monotone, Zenon

LEMMA CallerCursorsRise ==
    ASSUME sig \in Signatures
    PROVE  \A i, j \in 0 .. N : i <= j => /\ CallerCursor[i].g <= CallerCursor[j].g
                                         /\ CallerCursor[i].s <= CallerCursor[j].s
                                         /\ CallerCursor[i].m <= CallerCursor[j].m
<1>1. N \in Nat /\ \A i \in 1 .. N : IsType(Params[i], Target)
  <2>1. N \in 0 .. 29 /\ \A i \in 1 .. N : IsType(Params[i], Target)
    BY SignatureFacts, Zenon
  <2> QED BY <2>1
<1>2. \A i \in 0 .. N : CallerCursor[i] \in Cursors
  BY CallerCursors
<1>3. \A i \in 1 .. N : /\ CallerCursor[i - 1].g <= CallerCursor[i].g
                        /\ CallerCursor[i - 1].s <= CallerCursor[i].s
                        /\ CallerCursor[i - 1].m <= CallerCursor[i].m
  <2>1. TAKE i \in 1 .. N
  <2>2. i - 1 \in 0 .. N
    BY <1>1
  <2>3. CallerCursor[i - 1] \in Cursors /\ IsType(Params[i], Target)
    BY <1>1, <1>2, <2>2
  <2>4. PICK n \in Nat \ {0} : IsRoute(CallerStep(Params[i], CallerCursor[i - 1]), CallerCursor[i - 1], n)
    BY <2>3, StepIsRoute
  <2>5. CallerCursor[i] = CallerStep(Params[i], CallerCursor[i - 1]).cur
    BY CallerCursors
  <2> QED BY <2>4, <2>5 DEF IsRoute
<1> DEFINE g == [i \in 0 .. N |-> CallerCursor[i].g]
           s == [i \in 0 .. N |-> CallerCursor[i].s]
           m == [i \in 0 .. N |-> CallerCursor[i].m]
<1>4. g \in [0 .. N -> Nat] /\ s \in [0 .. N -> Nat] /\ m \in [0 .. N -> Nat]
  BY <1>2 DEF Cursors
<1>5. \A i \in 1 .. N : i \in 0 .. N /\ i - 1 \in 0 .. N
  BY <1>1
<1>6. \A i \in 1 .. N : g[i - 1] <= g[i] /\ s[i - 1] <= s[i] /\ m[i - 1] <= m[i]
  BY <1>3, <1>5
<1>7. \A i, j \in 0 .. N : i <= j => g[i] <= g[j] /\ s[i] <= s[j] /\ m[i] <= m[j]
  <2> HIDE DEF g, s, m
  <2>1. \A i, j \in 0 .. N : i <= j => g[i] <= g[j]
    BY <1>1, <1>4, <1>6, Monotone, Zenon
  <2>2. \A i, j \in 0 .. N : i <= j => s[i] <= s[j]
    BY <1>1, <1>4, <1>6, Monotone, Zenon
  <2>3. \A i, j \in 0 .. N : i <= j => m[i] <= m[j]
    BY <1>1, <1>4, <1>6, Monotone, Zenon
  <2> QED BY <2>1, <2>2, <2>3
<1> QED BY <1>7

(* An argument is at least a unit, and a long double more.                 *)
LEMMA EvalTotalUnits ==
    ASSUME sig \in Signatures
    PROVE  /\ EvalTotal[N] \in Nat /\ EvalTotal[N] >= N * Unit
           /\ (EvalTotal[N] = N * Unit) <=> ~\E i \in 1 .. N : IsLongDouble(Params[i])
<1>1. N \in Nat /\ \A i \in 1 .. N : IsType(Params[i], Target)
  <2>1. N \in 0 .. 29 /\ \A i \in 1 .. N : IsType(Params[i], Target)
    BY SignatureFacts, Zenon
  <2> QED BY <2>1
<1>2. Unit \in Nat /\ \A i \in 1 .. N : IsLongDouble(Params[i]) => Unit = 1
  <2>1. \A i \in 1 .. N : IsLongDouble(Params[i]) => Target = "x86_64"
    BY <1>1, TypeKinds
  <2> QED BY <2>1 DEF Unit, Arm, Target
<1> DEFINE Long(n) == \E i \in 1 .. n : IsLongDouble(Params[i])
           Good(n) == /\ EvalTotal[n] >= n * Unit
                      /\ (EvalTotal[n] = n * Unit) <=> ~Long(n)
           Bad == {n \in 0 .. N : ~Good(n)}
<1>3. \A i \in 0 .. N : EvalTotal[i] \in Nat
  BY EvalTotals
<1>4. Bad = {}
  <2>1. SUFFICES ASSUME Bad # {} PROVE FALSE
    OBVIOUS
  <2>2. Bad \subseteq Nat
    OBVIOUS
  <2>3. PICK n \in Bad : \A y \in Bad : n <= y
    <3> HIDE DEF Bad
    <3> QED BY <2>1, <2>2, LeastElement
  <2>4. n # 0
    <3>1. Good(0)
      BY EvalTotals, <1>2
    <3> HIDE DEF Good
    <3> QED BY <3>1, <2>3
  <2>5. n \in 1 .. N /\ n - 1 \in 0 .. N /\ ~(n <= n - 1)
    BY <2>4, <1>1
  <2>6. Good(n - 1)
    <3> HIDE DEF Good
    <3> QED BY <2>3, <2>5
  <2>7. EvalTotal[n] = EvalTotal[n - 1] + EvalWords(Params[n]) /\ EvalTotal[n - 1] \in Nat
    BY <2>5, <1>3, EvalTotals
  <2>8. Long(n) <=> Long(n - 1) \/ IsLongDouble(Params[n])
    BY <2>5
  <2>9. EvalWords(Params[n]) = IF IsLongDouble(Params[n]) THEN Unit + 1 ELSE Unit
    BY <1>2, <2>5 DEF EvalWords
  <2>10. n * Unit = (n - 1) * Unit + Unit /\ (n - 1) * Unit \in Nat
    <3>1. Unit = 1 \/ Unit = 2
      BY DEF Unit
    <3> QED BY <3>1, <2>5
  <2> HIDE DEF Long
  <2>11. Good(n)
    BY <1>2, <2>6, <2>7, <2>8, <2>9, <2>10
  <2> HIDE DEF Good
  <2> QED BY <2>3, <2>11
<1>5. Good(N) /\ EvalTotal[N] \in Nat
  <2> HIDE DEF Good
  <2>1. N \in 0 .. N
    BY <1>1
  <2> QED BY <1>4, <2>1, <1>3
<1> QED BY <1>5

-----------------------------------------------------------------------------
\* The way of a call, and the evaluated arguments.

LEMMA Sizes ==
    ASSUME sig \in Signatures
    PROVE  /\ N \in Nat /\ Fixed \in Nat /\ Fixed <= N /\ sig.varargs \in Nat /\ N = Fixed + sig.varargs
           /\ Unit \in {1, 2} /\ PtrWords \in Nat /\ RetBuffer \in Nat
           /\ sig.ret.agg \in Nat /\ Words(sig.ret) \in Nat \ {0}
           /\ \A i \in 1 .. N : IsType(Params[i], Target)
           /\ IsType(sig.ret, Target)
<1>1. /\ N \in 0 .. 29 /\ Fixed \in 0 .. N /\ sig.varargs \in 0 .. N
      /\ \A i \in 1 .. N : IsType(Params[i], Target)
      /\ IsType(sig.ret, Target)
  BY SignatureFacts, Zenon
<1>2. N \in Nat /\ Fixed \in Nat /\ Fixed <= N /\ sig.varargs \in Nat /\ N = Fixed + sig.varargs
  <2>1. N \in Nat /\ Fixed \in Nat /\ Fixed <= N /\ sig.varargs \in Nat
    BY <1>1
  <2>2. Fixed = N - sig.varargs
    BY DEF Fixed
  <2> QED BY <2>1, <2>2
<1>3. sig.ret.agg \in Nat
  BY <1>1, TypeKinds
<1>4. Unit \in {1, 2} /\ PtrWords \in Nat
  BY DEF Unit, PtrWords
<1>5. RetBuffer \in Nat
  BY <1>3 DEF RetBuffer
<1>6. Words(sig.ret) \in Nat \ {0}
  BY <1>1, WordCounts
<1> QED BY <1>1, <1>2, <1>3, <1>4, <1>5, <1>6

LEMMA PathFacts ==
    ASSUME sig \in Signatures
    PROVE  /\ Path \in {"scalar", "vararg", "aggregate", "plain"}
           /\ Path = "plain" => ~HasFloat /\ ~HasAggregate /\ sig.ret.agg = 0
           /\ Path = "vararg" => Arm /\ sig.varargs > 0 /\ ~HasAggregate /\ sig.ret.agg <= 16
           /\ Path = "scalar" => ~HasAggregate /\ sig.ret.agg = 0
           /\ Path = "aggregate" => HasAggregate \/ sig.ret.agg > 0
           /\ Indirect => Path = "aggregate" /\ PtrWords = 0
           /\ Path # "aggregate" => RetBuffer = 0
           /\ (Arm \/ ~Indirect) => RetBuffer = 0
<1>1. sig.ret.agg \in Nat
  BY Sizes
<1>2. /\ Path \in {"scalar", "vararg", "aggregate", "plain"}
      /\ Path = "plain" => ~HasFloat /\ ~HasAggregate /\ sig.ret.agg = 0
      /\ Path = "vararg" => Arm /\ sig.varargs > 0 /\ ~HasAggregate /\ sig.ret.agg <= 16
      /\ Path = "scalar" => ~HasAggregate /\ sig.ret.agg = 0
      /\ Path = "aggregate" => HasAggregate \/ sig.ret.agg > 0
  BY <1>1 DEF Path
<1>3. Indirect /\ ~Arm => Path = "aggregate"
  BY <1>1, <1>2 DEF Indirect
<1>4. Indirect => Path = "aggregate"
  BY <1>1, <1>2 DEF Indirect
<1>5. sig.ptr => sig.ret.agg = 0
  BY SignatureFacts
<1>6. Indirect => PtrWords = 0
  BY <1>1, <1>5 DEF Indirect, PtrWords
<1>7. (Arm \/ ~Indirect) => RetBuffer = 0
  BY DEF RetBuffer
<1> QED BY <1>2, <1>4, <1>6, <1>7

(* The slots of the evaluated arguments, and of the pointer called, cover  *)
(* the evaluated words, each word once.                                    *)
LEMMA ArgAddrs ==
    ASSUME sig \in Signatures
    PROVE  /\ \A i \in 0 .. N : ArgAddr(i) \in Int /\ ArgAddr(i) <= 0
           /\ \A i, j \in 0 .. N : i <= j => ArgAddr(j) <= ArgAddr(i)
           /\ \A i \in 1 .. N : ArgAddr(i) + EvalWords(Params[i]) = ArgAddr(i - 1)
           /\ \A i \in 1 .. N : EvalWords(Params[i]) \in {1, 2} /\ (IsLongDouble(Params[i]) => EvalWords(Params[i]) = 2)
           /\ ArgAddr(0) = -PtrWords
<1>1. N \in Nat /\ PtrWords \in Nat
  BY Sizes
<1>2. \A i \in 0 .. N : EvalTotal[i] \in Nat
  BY EvalTotals
<1>3. \A i \in 0 .. N : ArgAddr(i) = -(PtrWords + EvalTotal[i]) /\ ArgAddr(i) \in Int /\ ArgAddr(i) <= 0
  BY <1>1, <1>2 DEF ArgAddr
<1>4. \A i, j \in 0 .. N : i <= j => ArgAddr(j) <= ArgAddr(i)
  BY <1>1, <1>2, <1>3, EvalTotalsRise
<1>5. \A i \in 1 .. N : EvalWords(Params[i]) \in {1, 2} /\ (IsLongDouble(Params[i]) => EvalWords(Params[i]) = 2)
  BY DEF EvalWords, Unit
<1>6. \A i \in 1 .. N : ArgAddr(i) + EvalWords(Params[i]) = ArgAddr(i - 1)
  <2>1. TAKE i \in 1 .. N
  <2>2. i \in 0 .. N /\ i - 1 \in 0 .. N
    BY <1>1
  <2>3. EvalTotal[i] = EvalTotal[i - 1] + EvalWords(Params[i])
    BY EvalTotals
  <2>4. EvalWords(Params[i]) \in Nat
    BY <1>5
  <2> QED BY <1>1, <1>2, <1>3, <2>2, <2>3, <2>4
<1>7. ArgAddr(0) = -PtrWords
  BY <1>1, EvalTotals DEF ArgAddr
<1> QED BY <1>3, <1>4, <1>5, <1>6, <1>7

LEMMA SlotsCover ==
    ASSUME sig \in Signatures, NEW a \in ArgAddr(N) .. -1
    PROVE  \E i \in 0 .. N : a \in SlotOf(i)
<1>1. N \in Nat /\ a \in Int /\ ArgAddr(N) <= a /\ a <= -1
  <2>1. N \in Nat
    BY Sizes
  <2>2. ArgAddr(N) \in Int
    BY <2>1, ArgAddrs
  <2> QED BY <2>1, <2>2
<1> DEFINE Above == {i \in 0 .. N : ArgAddr(i) <= a}
<1>2. PICK i \in Above : \A j \in Above : i <= j
  <2>1. Above \subseteq Nat /\ N \in Above
    BY <1>1
  <2> HIDE DEF Above
  <2> QED BY <2>1, LeastElement
<1>3. i \in 0 .. N /\ ArgAddr(i) <= a /\ ArgAddr(i) \in Int
  BY ArgAddrs
<1>4. CASE i = 0
  BY <1>1, <1>3, <1>4 DEF SlotOf
<1>5. CASE i # 0
  <2>1. i - 1 \in 0 .. N /\ ~(i <= i - 1)
    BY <1>1, <1>5
  <2>2. ~(ArgAddr(i - 1) <= a)
    BY <1>2, <2>1
  <2>3. ArgAddr(i - 1) \in Int
    BY <2>1, ArgAddrs
  <2>4. a \in ArgAddr(i) .. ArgAddr(i - 1) - 1
    BY <1>1, <1>3, <2>2, <2>3
  <2> QED BY <1>3, <1>5, <2>4 DEF SlotOf
<1> QED BY <1>4, <1>5

LEMMA SlotsApart ==
    ASSUME sig \in Signatures, NEW a, NEW i \in 0 .. N, NEW j \in 0 .. N, a \in SlotOf(i), a \in SlotOf(j)
    PROVE  i = j
<1>1. N \in Nat /\ \A l \in 0 .. N : ArgAddr(l) \in Int
  BY Sizes, ArgAddrs
<1>2. ASSUME NEW l \in 0 .. N, NEW h \in 0 .. N, a \in SlotOf(l), a \in SlotOf(h), l < h
      PROVE  FALSE
  <2>1. h # 0 /\ h - 1 \in 0 .. N /\ l <= h - 1
    BY <1>1, <1>2
  <2>2. a \in Int /\ a <= ArgAddr(h - 1) - 1
    BY <1>1, <1>2, <2>1 DEF SlotOf
  <2>3. ArgAddr(h - 1) <= ArgAddr(l)
    BY <2>1, ArgAddrs
  <2>4. ArgAddr(l) <= a
    BY <1>1, <1>2 DEF SlotOf
  <2>5. ArgAddr(h - 1) \in Int /\ ArgAddr(l) \in Int
    BY <1>1, <2>1
  <2> QED BY <2>2, <2>3, <2>4, <2>5
<1>3. i \in Nat /\ j \in Nat
  OBVIOUS
<1>4. ~(i < j) /\ ~(j < i)
  BY <1>2
<1> QED BY <1>3, <1>4

(* Every argument lies in the lowest words of its own slot.                *)
EvalIn(m) ==
    \A i \in 1 .. N :
        /\ ArgAddr(i) \in DOMAIN m /\ m[ArgAddr(i)] = Evaluated(i, 0)
        /\ IsLongDouble(Params[i]) => ArgAddr(i) + 1 \in DOMAIN m /\ m[ArgAddr(i) + 1] = Evaluated(i, 1)

Foreign(word) == word[1][1] # Ret /\ word[2][1] # Ret
AllForeign(m) == \A a \in DOMAIN m : Foreign(m[a])

LEMMA EvaluatesAll ==
    ASSUME sig \in Signatures, Evaluate
    PROVE  /\ EvalIn(mem') /\ AllForeign(mem')
           /\ \A a \in DOMAIN mem' : a \in ArgAddr(N) .. -1
<1>1. N \in Nat /\ \A l \in 0 .. N : ArgAddr(l) \in Int
  BY Sizes, ArgAddrs
<1> DEFINE HolderOf(a) == CHOOSE i \in 0 .. N : a \in SlotOf(i)
<1>2. mem' = [a \in ArgAddr(N) .. -1 |-> Evaluated(HolderOf(a), a - ArgAddr(HolderOf(a)))]
  BY DEF Evaluate
<1>3. \A a \in ArgAddr(N) .. -1 : HolderOf(a) \in 0 .. N /\ a \in SlotOf(HolderOf(a))
  BY SlotsCover
<1>4. \A a \in ArgAddr(N) .. -1, i \in 0 .. N : a \in SlotOf(i) => HolderOf(a) = i
  <2> HIDE DEF At
  <2> QED BY <1>3, SlotsApart
<1> HIDE DEF At
<1>5. ASSUME NEW i \in 1 .. N, NEW w \in {0, 1}, w < EvalWords(Params[i])
      PROVE  ArgAddr(i) + w \in DOMAIN mem' /\ mem'[ArgAddr(i) + w] = Evaluated(i, w)
  <2> DEFINE a == ArgAddr(i) + w
  <2>1. i \in 0 .. N /\ i - 1 \in 0 .. N /\ i # 0 /\ 0 \in 0 .. N /\ N \in 0 .. N
    BY <1>1
  <2>2. ArgAddr(i) \in Int /\ ArgAddr(i - 1) \in Int /\ ArgAddr(i - 1) <= 0 /\ ArgAddr(N) <= ArgAddr(i) /\ ArgAddr(N) \in Int
    BY <1>1, <2>1, ArgAddrs
  <2>3. ArgAddr(i) + EvalWords(Params[i]) = ArgAddr(i - 1) /\ EvalWords(Params[i]) \in {1, 2}
    BY ArgAddrs
  <2>4. a \in ArgAddr(i) .. ArgAddr(i - 1) - 1 /\ a \in ArgAddr(N) .. -1
    BY <2>2, <2>3, <1>5
  <2>5. a \in SlotOf(i)
    BY <2>1, <2>4 DEF SlotOf
  <2>6. HolderOf(a) = i
    BY <2>1, <2>4, <2>5, <1>4
  <2>7. a - ArgAddr(i) = w
    BY <2>2
  <2> HIDE DEF a
  <2>8. mem'[a] = Evaluated(i, w) /\ a \in DOMAIN mem'
    BY <1>2, <2>4, <2>6, <2>7
  <2> QED BY <2>8 DEF a
<1>6. EvalIn(mem')
  <2> SUFFICES ASSUME NEW i \in 1 .. N
               PROVE  /\ ArgAddr(i) \in DOMAIN mem' /\ mem'[ArgAddr(i)] = Evaluated(i, 0)
                      /\ IsLongDouble(Params[i]) => ArgAddr(i) + 1 \in DOMAIN mem' /\ mem'[ArgAddr(i) + 1] = Evaluated(i, 1)
    <3>1. UNCHANGED sig
      BY DEF Evaluate
    <3> QED BY DEF EvalIn
  <2>1. 0 < EvalWords(Params[i]) /\ (IsLongDouble(Params[i]) => 1 < EvalWords(Params[i]))
    BY ArgAddrs
  <2>2. ArgAddr(i) + 0 = ArgAddr(i)
    BY <1>1
  <2>3. ArgAddr(i) + 0 \in DOMAIN mem' /\ mem'[ArgAddr(i) + 0] = Evaluated(i, 0)
    BY <1>5, <2>1
  <2>4. IsLongDouble(Params[i]) => ArgAddr(i) + 1 \in DOMAIN mem' /\ mem'[ArgAddr(i) + 1] = Evaluated(i, 1)
    BY <1>5, <2>1
  <2> QED BY <2>2, <2>3, <2>4
<1>7. \A i \in 0 .. N, w \in Int : Foreign(Evaluated(i, w))
  BY DEF Foreign, Evaluated, Pointer, WordOf, JunkWord, Junk, Ret
<1>8. AllForeign(mem')
  <2> SUFFICES ASSUME NEW a \in DOMAIN mem' PROVE Foreign(mem'[a])
    BY DEF AllForeign
  <2>1. a \in ArgAddr(N) .. -1 /\ mem'[a] = Evaluated(HolderOf(a), a - ArgAddr(HolderOf(a)))
    BY <1>2
  <2>2. HolderOf(a) \in 0 .. N /\ a - ArgAddr(HolderOf(a)) \in Int
    BY <1>1, <1>3, <2>1
  <2> QED BY <1>7, <2>1, <2>2
<1> QED BY <1>2, <1>6, <1>8

(* What only depends on the signature stays.                               *)
LEMMA SigStays ==
    ASSUME sig' = sig
    PROVE  /\ N' = N /\ Params' = Params /\ Fixed' = Fixed /\ Path' = Path /\ Arm' = Arm /\ Unit' = Unit
           /\ Indirect' = Indirect /\ RetBuffer' = RetBuffer /\ PtrWords' = PtrWords
           /\ EvalTotal' = EvalTotal /\ CallerCursor' = CallerCursor /\ CalleeCursor' = CalleeCursor
           /\ StartCursor' = StartCursor
<1>1. N' = N /\ Params' = Params /\ Fixed' = Fixed /\ Arm' = Arm /\ Unit' = Unit
  BY DEF N, Params, Fixed, Arm, Unit
<1>2. Path' = Path
  BY DEF Path, N, Params, Arm, HasFloat, HasAggregate
<1>3. Indirect' = Indirect /\ RetBuffer' = RetBuffer /\ PtrWords' = PtrWords
  BY DEF Indirect, RetBuffer, PtrWords, Unit, Arm
<1>4. EvalTotal' = EvalTotal
  BY DEF EvalTotal, N, Params, EvalWords, Unit, Arm, IsLongDouble
<1>5. StartCursor' = StartCursor
  BY DEF StartCursor, Arm, Indirect
<1>6. CallerCursor' = CallerCursor
  BY DEF CallerCursor, N, Params, CallerStep, ArmCaller, X86Caller, StartCursor, Arm, Cursor, Indirect
<1>7. CalleeCursor' = CalleeCursor
  BY DEF CalleeCursor, N, Params, CalleeStep, ArmCallee, X86Callee, StartCursor, Arm, Cursor, Indirect
<1> QED BY <1>1, <1>2, <1>3, <1>4, <1>5, <1>6, <1>7

LEMMA OverFacts ==
    ASSUME NEW new, NEW m
    PROVE  /\ DOMAIN Over(new, m) = DOMAIN new \cup DOMAIN m
           /\ \A a \in DOMAIN new : Over(new, m)[a] = new[a]
           /\ \A a \in DOMAIN m : a \notin DOMAIN new => Over(new, m)[a] = m[a]
BY DEF Over

-----------------------------------------------------------------------------
\* The steps of a call, and the stack pointer in each.

Base == IF Path = "plain" THEN -reserved ELSE ArgAddr(N) - RetBuffer - reserved

Called == phase \in {"place", "take", "return", "cleanup"}
Phases == {"evaluate", "plain", "vararg", "reserve", "place", "take", "return", "cleanup", "store",
           "done", "rejected"}

Control ==
    /\ sig \in Signatures /\ reserved \in Nat /\ phase \in Phases
    /\ phase \in {"plain", "vararg"} => Path = phase
    /\ phase \in {"reserve", "place"} => Path \in {"scalar", "aggregate"}
    /\ phase \in {"plain", "vararg", "reserve"} => sp = ArgAddr(N)
    /\ Called => sp = Base
    /\ phase = "evaluate" => mem = Empty
    /\ phase \in {"evaluate", "plain", "vararg", "reserve"} => regs = Empty
    /\ phase \notin {"cleanup", "store", "done"} => ret = [g |-> << >>, s |-> << >>, st |-> << >>]

\* Where an argument goes.
Route(i) == CallerStep(Params[i], CallerCursor[i - 1]).at

KInv ==
    /\ phase \in {"evaluate", "plain", "vararg", "reserve", "rejected"} => k = 1
    /\ phase = "place" => k \in 1 .. N
    /\ phase = "take" => k \in 1 .. Fixed + 1

LEMMA BaseIsInt ==
    ASSUME Control
    PROVE  Base \in Int /\ ArgAddr(N) \in Int
<1>1. N \in Nat /\ RetBuffer \in Nat /\ reserved \in Nat
  BY Sizes DEF Control
<1>2. ArgAddr(N) \in Int
  BY <1>1, ArgAddrs DEF Control
<1> QED BY <1>1, <1>2 DEF Base

LEMMA InitControl == Init => Control /\ KInv
BY DEF Init, Control, Phases, Called, KInv

LEMMA ControlStays ==
    ASSUME Control, KInv, [Next]_vars
    PROVE  Control' /\ KInv'
<1>1. /\ N \in Nat /\ Fixed \in Nat /\ Fixed <= N /\ RetBuffer \in Nat /\ reserved \in Nat /\ ArgAddr(N) \in Int
      /\ sig \in Signatures
  BY SMTT(30), Sizes, BaseIsInt DEF Control
<1>2. sig' = sig
  BY DEF Next, vars, Evaluate, Reserve, Place, PassPlain, PassVararg, VarargFatal, TakeParam, VaList,
         Return, Cleanup, Store, Done
<1>3. /\ N' = N /\ Fixed' = Fixed /\ Path' = Path /\ RetBuffer' = RetBuffer /\ PtrWords' = PtrWords
      /\ EvalTotal' = EvalTotal
  BY <1>2, SigStays
<1>4. ArgAddr(N)' = ArgAddr(N)
  BY <1>3 DEF ArgAddr
<1>5. Path \in {"scalar", "vararg", "aggregate", "plain"}
  BY <1>1, PathFacts
<1> USE <1>1, <1>2, <1>3, <1>4
<1>6. CASE Evaluate
  BY <1>5, <1>6 DEF Evaluate, Control, KInv, Called, Phases
<1>7. CASE Reserve
  <2>1. CallerCursor[N].m \in Nat
    <3>1. CallerCursor[N] \in Cursors
      BY CallerCursors
    <3> QED BY <3>1 DEF Cursors
  <2>2. reserved' \in Nat
    BY <1>7, <2>1 DEF Reserve, RoundUp2
  <2>3. sp' = ArgAddr(N) - RetBuffer - reserved' /\ Path # "plain"
    BY <1>7 DEF Reserve, Control
  <2> QED BY <1>7, <2>2, <2>3 DEF Reserve, Control, KInv, Called, Phases, Base
<1>8. CASE Place
  <2>1. reserved' = reserved /\ sp' = sp /\ Base' = Base
    BY <1>8 DEF Place, Base
  <2> QED BY <1>8, <2>1 DEF Place, Control, KInv, Called, Phases
<1>9. CASE PassPlain
  <2>1. reserved' \in Nat /\ sp' = -reserved' /\ phase' = "take"
    BY <1>9 DEF PassPlain, RoundUp2
  <2>2. Path = "plain"
    BY <1>9 DEF PassPlain, Control
  <2> QED BY <1>9, <2>1, <2>2 DEF PassPlain, Control, KInv, Called, Phases, Base
<1>10. CASE PassVararg
  <2>1. Path = "vararg" /\ RetBuffer = 0
    BY <1>10, PathFacts DEF PassVararg, Control
  <2>2. reserved' \in Nat /\ sp' = ArgAddr(N) - reserved' /\ phase' = "take"
    BY <1>10 DEF PassVararg, RoundUp2, Control
  <2> QED BY <1>10, <2>1, <2>2 DEF PassVararg, Control, KInv, Called, Phases, Base
<1>11. CASE VarargFatal
  BY <1>11 DEF VarargFatal, Control, KInv, Called, Phases
<1>12. CASE TakeParam
  <2>1. reserved' = reserved /\ sp' = sp /\ Base' = Base
    BY <1>12 DEF TakeParam, Base
  <2> QED BY <1>12, <2>1 DEF TakeParam, Control, KInv, Called, Phases
<1>13. CASE VaList
  <2>1. reserved' = reserved /\ sp' = sp /\ Base' = Base
    BY <1>13 DEF VaList, Base
  <2> QED BY <1>13, <2>1 DEF VaList, Control, KInv, Called, Phases
<1>14. CASE Return
  <2>1. reserved' = reserved /\ sp' = sp /\ Base' = Base
    BY <1>14 DEF Return, Base
  <2> QED BY <1>14, <2>1 DEF Return, Control, KInv, Called, Phases
<1>15. CASE Cleanup
  BY <1>15 DEF Cleanup, Control, KInv, Called, Phases
<1>16. CASE Store
  BY <1>16 DEF Store, Control, KInv, Called, Phases
<1>17. CASE Done \/ UNCHANGED vars
  <2>1. UNCHANGED vars
    BY <1>17 DEF Done
  <2> QED BY <2>1 DEF vars, Control, KInv, Called, Phases, Base
<1> QED BY <1>6, <1>7, <1>8, <1>9, <1>10, <1>11, <1>12, <1>13, <1>14, <1>15, <1>16, <1>17 DEF Next

-----------------------------------------------------------------------------
\* Placing one argument.

\* What is moved to the j-th place of argument i.
PieceOf(i, j, inSse) ==
    LET t == Params[i]
    IN  IF t.float = 4 THEN Narrow(WordOf(i, 0))
        ELSE IF t.agg = 0 THEN WordOf(i, IF IsLongDouble(t) THEN j - 1 ELSE 0)
        ELSE IF Arm /\ t.elem = 4 /\ inSse THEN <<<<i, j>>, Junk>>
        ELSE IF Arm /\ t.agg > 16 /\ ~inSse THEN Pointer(i)
        ELSE WordOf(i, j - 1)
PieceAt(i, j) == PieceOf(i, j, Route(i)[1][1] = "s")
InReg(p) == p[1] = "s" \/ (p[1] = "g" /\ (Arm \/ p[2] < 6))

LEMMA RouteFacts ==
    ASSUME sig \in Signatures, NEW i \in 1 .. N
    PROVE  /\ CallerCursor[i - 1] \in Cursors /\ CallerCursor[i] \in Cursors
           /\ IsType(Params[i], Target)
           /\ CallerCursor[i] = CallerStep(Params[i], CallerCursor[i - 1]).cur
           /\ \E n \in Nat \ {0} : IsRoute(CallerStep(Params[i], CallerCursor[i - 1]), CallerCursor[i - 1], n)
           /\ IsLongDouble(Params[i]) => DOMAIN Route(i) = 1 .. 2
<1>1. N \in Nat /\ IsType(Params[i], Target) /\ i \in 0 .. N /\ i - 1 \in 0 .. N
  BY Sizes
<1>2. CallerCursor[i - 1] \in Cursors /\ CallerCursor[i] \in Cursors
      /\ CallerCursor[i] = CallerStep(Params[i], CallerCursor[i - 1]).cur
  BY <1>1, CallerCursors
<1>3. \E n \in Nat \ {0} : IsRoute(CallerStep(Params[i], CallerCursor[i - 1]), CallerCursor[i - 1], n)
  BY <1>1, <1>2, StepIsRoute
<1>4. ASSUME IsLongDouble(Params[i]) PROVE DOMAIN Route(i) = 1 .. 2
  <2>1. ~Arm
    BY <1>1, <1>4, TypeKinds DEF Arm, Target
  <2> DEFINE t == Params[i]
             c == CallerCursor[i - 1]
  <2>4. t.float = 16 /\ t.agg = 0 /\ t.count = 0 /\ ~IsMixed(t)
    BY <1>1, <1>4, TypeKinds
  <2> HIDE DEF t, c
  <2>5. X86Caller(t, c) = OnStack(c, 2)
    BY <1>4, <2>4 DEF X86Caller, t
  <2>2. Route(i) = OnStack(CallerCursor[i - 1], 2).at
    BY <2>1, <2>5 DEF Route, CallerStep, t, c
  <2>3. 2 \in Nat
    OBVIOUS
  <2>6. DOMAIN OnStack(CallerCursor[i - 1], 2).at = 1 .. 2
    BY <1>2, <2>3, OnStackFacts DEF IsRoute
  <2> QED BY <2>2, <2>6
<1> QED BY <1>1, <1>2, <1>3, <1>4

LEMMA PieceIs ==
    ASSUME sig \in Signatures, EvalIn(mem), NEW i \in 1 .. N, NEW j \in DOMAIN Route(i), NEW inSse \in BOOLEAN
    PROVE  Piece(Params[i], j, inSse, ArgAddr(i)) = PieceOf(i, j, inSse)
<1> DEFINE t == Params[i]
           src == ArgAddr(i)
<1>1. IsType(t, Target) /\ i # 0 /\ src \in Int
  <2>1. N \in Nat
    BY Sizes
  <2>2. i \in 0 .. N /\ i # 0
    BY <2>1
  <2> QED BY <2>2, RouteFacts, ArgAddrs
<1>2. Read(mem, src) = IF t.agg > 0 THEN Pointer(i) ELSE WordOf(i, 0)
  BY <1>1 DEF EvalIn, Evaluated, Read
<1>3. Pointee(Pointer(i)) = i
  BY DEF Pointee, Pointer
<1>4. ASSUME IsLongDouble(t) PROVE j \in {1, 2} /\ Read(mem, src + j - 1) = WordOf(i, j - 1)
  <2>1. j \in {1, 2}
    BY <1>4, RouteFacts
  <2>2. t.agg = 0
    BY <1>1, <1>4, TypeKinds
  <2>3. Read(mem, src + 0) = WordOf(i, 0) /\ Read(mem, src + 1) = WordOf(i, 1)
    BY <1>1, <1>2, <1>4, <2>2 DEF EvalIn, Evaluated, Read
  <2>4. CASE j = 1
    <3>1. src + j - 1 = src + 0 /\ j - 1 = 0
      BY <2>4, <1>1
    <3> QED BY <3>1, <2>3, <2>4
  <2>5. CASE j = 2
    <3>1. src + j - 1 = src + 1 /\ j - 1 = 1
      BY <2>5, <1>1
    <3> QED BY <3>1, <2>3, <2>5
  <2> QED BY <2>1, <2>4, <2>5
<1>5. /\ t.agg \in Nat /\ t.float \in {0, 4, 8, 16} /\ t.elem \in {0, 4, 8}
      /\ t.float # 0 => t.agg = 0
      /\ t.agg = 0 => t.elem # 4
      /\ IsLongDouble(t) <=> t.float = 16
      /\ t.float = 16 => ~Arm
  BY <1>1, TypeKinds DEF Arm, Target
<1> HIDE DEF t, src
<1>6. Piece(t, j, inSse, src) = PieceOf(i, j, inSse)
  <2>1. CASE Arm
    <3>1. Piece(t, j, inSse, src) = ArmPiece(t, j, inSse, src)
      BY <2>1 DEF Piece
    <3>2. CASE t.float = 4
      <4>1. t.agg = 0
        BY <1>5, <3>2
      <4> QED BY <3>1, <3>2, <4>1, <1>2, <1>5 DEF ArmPiece, PieceOf, t
    <3>3. CASE t.float # 4 /\ t.agg = 0
      <4>1. t.elem # 4 /\ ~IsLongDouble(t)
        BY <1>5, <3>3, <2>1
      <4>2. ArmPiece(t, j, inSse, src) = Read(mem, src)
        BY <3>3, <4>1 DEF ArmPiece
      <4> QED BY <3>1, <3>3, <4>1, <4>2, <1>2 DEF PieceOf, t
    <3>4. CASE t.agg > 0
      <4>1. t.float # 4 /\ t.agg # 0 /\ Read(mem, src) = Pointer(i)
        BY <1>2, <1>5, <3>4
      <4>2. CASE t.elem = 4 /\ inSse
        BY <3>1, <4>1, <4>2, <1>3, <2>1 DEF ArmPiece, PieceOf, t
      <4>3. CASE ~(t.elem = 4 /\ inSse) /\ t.agg > 16 /\ ~inSse
        <5>1. ~(t.agg <= 16) /\ ~inSse
          BY <4>3, <1>5
        <5>2. ArmPiece(t, j, inSse, src) = Read(mem, src)
          BY <5>1, <4>1, <4>3 DEF ArmPiece
        <5> QED BY <3>1, <4>1, <4>3, <5>2, <2>1 DEF PieceOf, t
      <4>4. CASE ~(t.elem = 4 /\ inSse) /\ ~(t.agg > 16 /\ ~inSse)
        <5>1. t.agg > 0 /\ (t.agg <= 16 \/ inSse) /\ ~(t.elem = 4 /\ inSse)
          BY <3>4, <4>4, <1>5
        <5>2. ArmPiece(t, j, inSse, src) = WordOf(Pointee(Read(mem, src)), j - 1)
          BY <5>1, <4>1, <4>4 DEF ArmPiece
        <5> QED BY <3>1, <4>1, <4>4, <5>2, <1>3 DEF PieceOf, t
      <4> QED BY <4>2, <4>3, <4>4
    <3> QED BY <3>2, <3>3, <3>4, <1>5
  <2>2. CASE ~Arm
    <3>1. Piece(t, j, inSse, src) = X86Piece(t, j, src)
      BY <2>2 DEF Piece
    <3>2. CASE t.float = 4
      BY <3>1, <3>2, <1>2, <1>5 DEF X86Piece, PieceOf, t
    <3>3. CASE IsLongDouble(t)
      BY <3>1, <3>3, <1>4, <1>5 DEF X86Piece, PieceOf, t
    <3>4. CASE t.agg > 0
      BY <3>1, <3>4, <2>2, <1>2, <1>3, <1>5 DEF X86Piece, PieceOf, t
    <3>5. CASE t.float # 4 /\ ~IsLongDouble(t) /\ ~(t.agg > 0)
      BY <3>1, <3>5, <1>2, <1>5 DEF X86Piece, PieceOf, t
    <3> QED BY <3>2, <3>3, <3>4, <3>5
  <2> QED BY <2>1, <2>2
<1> QED BY <1>6 DEF t, src

(* Between two cursors lie only places of the three kinds, and no place is *)
(* on both sides of a cursor.                                              *)
LEMMA BetweenApart ==
    ASSUME NEW b \in Cursors, NEW c \in Cursors, NEW d \in Cursors, NEW e \in Cursors,
           c.g <= d.g, c.s <= d.s, c.m <= d.m,
           NEW p, Between(p, b, c), NEW q, Between(q, d, e)
    PROVE  /\ p # q
           /\ p[1] = "m" /\ q[1] = "m" => p[2] \in Nat /\ q[2] \in Nat /\ p[2] < q[2]
BY DEF Between, Cursors

LEMMA BetweenKinds ==
    ASSUME NEW c \in Cursors, NEW d \in Cursors, NEW p, Between(p, c, d)
    PROVE  /\ p[1] \in {"g", "s", "m"} /\ p = <<p[1], p[2]>> /\ p[2] \in Nat
           /\ p[1] = "g" => c.g <= p[2] /\ p[2] < d.g
           /\ p[1] = "s" => c.s <= p[2] /\ p[2] < d.s
           /\ p[1] = "m" => c.m <= p[2] /\ p[2] < d.m
BY DEF Between, Cursors

LEMMA RoutePlaces ==
    ASSUME sig \in Signatures, NEW i \in 1 .. N, NEW j \in DOMAIN Route(i)
    PROVE  /\ Between(Route(i)[j], CallerCursor[i - 1], CallerCursor[i])
           /\ Route(i)[j][1] \in {"g", "s", "m"} /\ Route(i)[j] = <<Route(i)[j][1], Route(i)[j][2]>>
           /\ Route(i)[j][2] \in Nat
           /\ \A l \in DOMAIN Route(i) : Route(i)[l] = Route(i)[j] => l = j
<1>1. PICK n \in Nat \ {0} : IsRoute(CallerStep(Params[i], CallerCursor[i - 1]), CallerCursor[i - 1], n)
  BY RouteFacts
<1>2. CallerCursor[i] = CallerStep(Params[i], CallerCursor[i - 1]).cur
      /\ CallerCursor[i - 1] \in Cursors /\ CallerCursor[i] \in Cursors
  BY RouteFacts
<1>3. Between(Route(i)[j], CallerCursor[i - 1], CallerCursor[i])
  BY <1>1, <1>2 DEF IsRoute, Route
<1>4. \A l \in DOMAIN Route(i) : Route(i)[l] = Route(i)[j] => l = j
  BY <1>1 DEF IsRoute, Route
<1> QED BY <1>2, <1>3, <1>4, BetweenKinds

(* The places of different arguments differ.                               *)
LEMMA RoutesApart ==
    ASSUME sig \in Signatures, NEW i \in 1 .. N, NEW h \in 1 .. N, i # h,
           NEW j \in DOMAIN Route(i), NEW l \in DOMAIN Route(h)
    PROVE  Route(i)[j] # Route(h)[l]
<1>1. ASSUME NEW a \in 1 .. N, NEW b \in 1 .. N, a < b, NEW x \in DOMAIN Route(a), NEW y \in DOMAIN Route(b)
      PROVE  Route(a)[x] # Route(b)[y]
  <2>1. N \in Nat
    BY Sizes
  <2>2. a \in 0 .. N /\ b - 1 \in 0 .. N /\ a <= b - 1
    BY <2>1, <1>1
  <2>3. /\ CallerCursor[a].g <= CallerCursor[b - 1].g /\ CallerCursor[a].s <= CallerCursor[b - 1].s
        /\ CallerCursor[a].m <= CallerCursor[b - 1].m
    BY <2>2, CallerCursorsRise
  <2>4. /\ CallerCursor[a - 1] \in Cursors /\ CallerCursor[a] \in Cursors
        /\ CallerCursor[b - 1] \in Cursors /\ CallerCursor[b] \in Cursors
    BY RouteFacts
  <2>5. /\ Between(Route(a)[x], CallerCursor[a - 1], CallerCursor[a])
        /\ Between(Route(b)[y], CallerCursor[b - 1], CallerCursor[b])
    BY RoutePlaces
  <2> QED BY <2>3, <2>4, <2>5, BetweenApart
<1>2. i < h \/ h < i
  BY Sizes
<1> QED BY <1>1, <1>2

LEMMA PlacesOne ==
    ASSUME Control, KInv, EvalIn(mem), Place
    PROVE  /\ \A j \in DOMAIN Route(k) :
                 /\ Route(k)[j][1] = "m" =>
                       sp + Route(k)[j][2] \in DOMAIN mem' /\ mem'[sp + Route(k)[j][2]] = PieceAt(k, j)
                 /\ InReg(Route(k)[j]) =>
                       Route(k)[j] \in DOMAIN regs' /\ regs'[Route(k)[j]] = PieceAt(k, j)
           /\ \A a \in DOMAIN mem :
                 (\A j \in DOMAIN Route(k) : Route(k)[j][1] = "m" => a # sp + Route(k)[j][2])
                     => a \in DOMAIN mem' /\ mem'[a] = mem[a]
           /\ \A p \in DOMAIN regs : (\A j \in DOMAIN Route(k) : p # Route(k)[j]) => p \in DOMAIN regs' /\ regs'[p] = regs[p]
           /\ \A a \in DOMAIN mem' :
                 \/ a \in DOMAIN mem
                 \/ \E j \in DOMAIN Route(k) : Route(k)[j][1] = "m" /\ a = sp + Route(k)[j][2]
           /\ \A p \in DOMAIN regs' :
                 \/ p \in DOMAIN regs
                 \/ \E j \in DOMAIN Route(k) : p = Route(k)[j] /\ InReg(p)
<1> DEFINE at == Route(k)
           src == sp + reserved + RetBuffer + EvalTotal[N] - EvalTotal[k]
           inSse == at[1][1] = "s"
           there(p) == CHOOSE j \in DOMAIN at : at[j] = p
           registers == {p \in Range(at) : p[1] = "s" \/ (p[1] = "g" /\ (Arm \/ p[2] < 6))}
           stack == {sp + p[2] : p \in {q \in Range(at) : q[1] = "m"}}
           newRegs == [p \in registers |-> Piece(Params[k], there(p), inSse, src)]
           newMem == [a \in stack |-> Piece(Params[k], there(<<"m", a - sp>>), inSse, src)]
<1>1. sig \in Signatures /\ k \in 1 .. N /\ N \in Nat /\ phase = "place"
  BY Sizes DEF Control, KInv, Place
<1>2. regs' = Over(newRegs, regs) /\ mem' = Over(newMem, mem)
  BY DEF Place, Route
<1>3. src = ArgAddr(k) /\ sp \in Int
  <2>1. Path # "plain" /\ sp = ArgAddr(N) - RetBuffer - reserved
    BY <1>1 DEF Control, Called, Base
  <2>2. EvalTotal[N] \in Nat /\ EvalTotal[k] \in Nat
    BY <1>1, EvalTotals
  <2>3. PtrWords \in Nat /\ RetBuffer \in Nat /\ reserved \in Nat
    BY <1>1, Sizes DEF Control
  <2> QED BY <2>1, <2>2, <2>3 DEF ArgAddr
<1>4. inSse \in BOOLEAN
  OBVIOUS
<1>5. \A j \in DOMAIN at : Piece(Params[k], j, inSse, src) = PieceAt(k, j)
  <2> HIDE DEF src
  <2>1. \A j \in DOMAIN at : Piece(Params[k], j, inSse, ArgAddr(k)) = PieceOf(k, j, inSse)
    BY <1>1, <1>4, PieceIs
  <2> QED BY <2>1, <1>3 DEF PieceAt
<1>6. \A j \in DOMAIN at : there(at[j]) = j
  BY <1>1, RoutePlaces
<1>7. \A j \in DOMAIN at : at[j][1] \in {"g", "s", "m"} /\ at[j] = <<at[j][1], at[j][2]>> /\ at[j][2] \in Nat
  BY <1>1, RoutePlaces
<1>8. \A p \in Range(at) : \E j \in DOMAIN at : p = at[j]
  BY DEF Range
<1>9. \A j \in DOMAIN at : at[j] \in Range(at)
  BY DEF Range
<1> HIDE DEF there, inSse, src, at
<1>10. /\ DOMAIN newRegs = registers
       /\ \A j \in DOMAIN at : InReg(at[j]) => at[j] \in registers /\ newRegs[at[j]] = PieceAt(k, j)
       /\ \A p \in registers : \E j \in DOMAIN at : p = at[j] /\ InReg(p)
  BY <1>5, <1>6, <1>8, <1>9 DEF InReg
<1>11. ASSUME NEW j \in DOMAIN at, at[j][1] = "m"
       PROVE  sp + at[j][2] \in stack /\ newMem[sp + at[j][2]] = PieceAt(k, j)
  <2>1. sp + at[j][2] \in stack
    BY <1>9, <1>11
  <2>2. (sp + at[j][2]) - sp = at[j][2]
    BY <1>3, <1>7
  <2>3. <<"m", (sp + at[j][2]) - sp>> = at[j]
    BY <2>2, <1>7, <1>11
  <2>4. newMem[sp + at[j][2]] = Piece(Params[k], there(<<"m", (sp + at[j][2]) - sp>>), inSse, src)
    BY <2>1
  <2> QED BY <2>1, <2>3, <2>4, <1>5, <1>6
<1>12. \A a \in stack : \E j \in DOMAIN at : at[j][1] = "m" /\ a = sp + at[j][2]
  BY <1>8
<1>13. DOMAIN newMem = stack
  OBVIOUS
<1> HIDE DEF newMem, newRegs, stack, registers
<1>14. /\ DOMAIN mem' = stack \cup DOMAIN mem
       /\ \A a \in stack : mem'[a] = newMem[a]
       /\ \A a \in DOMAIN mem : a \notin stack => mem'[a] = mem[a]
  <2>1. /\ DOMAIN Over(newMem, mem) = DOMAIN newMem \cup DOMAIN mem
        /\ \A a \in DOMAIN newMem : Over(newMem, mem)[a] = newMem[a]
        /\ \A a \in DOMAIN mem : a \notin DOMAIN newMem => Over(newMem, mem)[a] = mem[a]
    BY OverFacts
  <2> QED BY <1>2, <1>13, <2>1
<1>15. /\ DOMAIN regs' = registers \cup DOMAIN regs
       /\ \A a \in registers : regs'[a] = newRegs[a]
       /\ \A a \in DOMAIN regs : a \notin registers => regs'[a] = regs[a]
  <2>1. /\ DOMAIN Over(newRegs, regs) = DOMAIN newRegs \cup DOMAIN regs
        /\ \A a \in DOMAIN newRegs : Over(newRegs, regs)[a] = newRegs[a]
        /\ \A a \in DOMAIN regs : a \notin DOMAIN newRegs => Over(newRegs, regs)[a] = regs[a]
    BY OverFacts
  <2> QED BY <1>2, <1>10, <2>1
<1>16. \A j \in DOMAIN at :
           /\ at[j][1] = "m" => sp + at[j][2] \in DOMAIN mem' /\ mem'[sp + at[j][2]] = PieceAt(k, j)
           /\ InReg(at[j]) => at[j] \in DOMAIN regs' /\ regs'[at[j]] = PieceAt(k, j)
  BY <1>10, <1>11, <1>14, <1>15
<1>17. \A a \in DOMAIN mem : (\A j \in DOMAIN at : at[j][1] = "m" => a # sp + at[j][2])
                                 => a \in DOMAIN mem' /\ mem'[a] = mem[a]
  BY <1>12, <1>14
<1>18. \A p \in DOMAIN regs : (\A j \in DOMAIN at : p # at[j]) => p \in DOMAIN regs' /\ regs'[p] = regs[p]
  BY <1>10, <1>15
<1>19. \A a \in DOMAIN mem' : a \in DOMAIN mem \/ \E j \in DOMAIN at : at[j][1] = "m" /\ a = sp + at[j][2]
  BY <1>12, <1>14
<1>20. \A p \in DOMAIN regs' : p \in DOMAIN regs \/ \E j \in DOMAIN at : p = at[j] /\ InReg(p)
  BY <1>10, <1>15
<1> QED BY <1>16, <1>17, <1>18, <1>19, <1>20 DEF at

-----------------------------------------------------------------------------
\* Calls with integers only: what PassPlain and PassVararg leave.

ScratchOf(n) ==
    IF Arm THEN IF sig.ptr /\ n = 17 THEN Pointer(0) ELSE WordOf(n, 0)
    ELSE WordOf(7 + ((n - 7) % 6), 0)
Limit == IF Arm THEN 8 ELSE 6
Filled(n) ==
    /\ \A x \in 1 .. n : <<"g", x - 1>> \in DOMAIN regs /\ regs[<<"g", x - 1>>] = WordOf(x, 0)
    /\ \A p \in DOMAIN regs : \E x \in 1 .. n : p = <<"g", x - 1>>

LEMMA NoAggregates ==
    ASSUME sig \in Signatures, ~HasAggregate
    PROVE  \A i \in 1 .. N : Params[i].agg = 0
<1> SUFFICES ASSUME NEW i \in 1 .. N PROVE Params[i].agg = 0
  OBVIOUS
<1>1. IsType(Params[i], Target)
  BY Sizes
<1>2. Params[i].agg \in Nat
  BY <1>1, TypeKinds
<1>3. ~(Params[i].agg > 0)
  BY DEF HasAggregate
<1> QED BY <1>2, <1>3

LEMMA PlainArgs ==
    ASSUME sig \in Signatures, EvalIn(mem), ~HasAggregate
    PROVE  \A i \in 1 .. N : Arg(i) = WordOf(i, 0)
<1> SUFFICES ASSUME NEW i \in 1 .. N PROVE Arg(i) = WordOf(i, 0)
  OBVIOUS
<1>1. Params[i].agg = 0 /\ i # 0
  BY Sizes, NoAggregates
<1>2. ~(Params[i].agg > 0)
  BY <1>1
<1> QED BY <1>1, <1>2 DEF EvalIn, Evaluated, Arg

LEMMA ToRegistersFills ==
    ASSUME sig \in Signatures, EvalIn(mem), ~HasAggregate, NEW n \in 0 .. N, regs' = ToRegisters(n)
    PROVE  Filled(n)'
<1>1. N \in Nat
  BY Sizes
<1>2. \A i \in 1 .. n : Arg(i) = WordOf(i, 0)
  BY <1>1, PlainArgs
<1> DEFINE D == {<<"g", i - 1>> : i \in 1 .. n}
<1>3. DOMAIN regs' = D /\ \A p \in D : regs'[p] = Arg(p[2] + 1)
  BY DEF ToRegisters
<1>4. ASSUME NEW x \in 1 .. n
      PROVE  <<"g", x - 1>> \in D /\ regs'[<<"g", x - 1>>] = WordOf(x, 0)
  <2>1. <<"g", x - 1>> \in D
    OBVIOUS
  <2>2. <<"g", x - 1>>[2] + 1 = x
    BY <1>1
  <2> HIDE DEF D
  <2>3. regs'[<<"g", x - 1>>] = Arg(<<"g", x - 1>>[2] + 1)
    BY <2>1, <1>3
  <2> QED BY <2>1, <2>2, <2>3, <1>2
<1>5. \A p \in D : \E x \in 1 .. n : p = <<"g", x - 1>>
  OBVIOUS
<1> HIDE DEF D
<1> QED BY <1>3, <1>4, <1>5 DEF Filled

LEMMA PassesPlain ==
    ASSUME Control, EvalIn(mem), AllForeign(mem), PassPlain
    PROVE  /\ Filled(IF N > Limit THEN Limit ELSE N)'
           /\ \A n \in Limit + 1 .. N :
                 sp' + n - Limit - 1 \in DOMAIN mem' /\ mem'[sp' + n - Limit - 1] = ScratchOf(n)
           /\ AllForeign(mem')
<1> DEFINE extra == IF N > Limit THEN N - Limit ELSE 0
           taken == IF Arm THEN RoundUp2(extra) ELSE extra
           new == [a \in 0 - taken .. extra - taken - 1 |-> Scratch(a + taken + Limit + 1)]
<1>1. sig \in Signatures /\ N \in Nat /\ Path = "plain" /\ ~HasAggregate
  <2>1. sig \in Signatures /\ Path = "plain"
    BY DEF Control, PassPlain
  <2> QED BY <2>1, Sizes, PathFacts
<1>2. Limit \in {6, 8} /\ (Arm => Limit = 8) /\ (~Arm => Limit = 6)
  BY DEF Limit
<1>3. sig' = sig
  BY DEF PassPlain
<1>4. /\ regs' = ToRegisters(N - extra) /\ sp' = -taken /\ mem' = Over(new, mem)
  BY DEF PassPlain, Limit
<1>5. extra \in Nat /\ taken \in Nat
  BY <1>1, <1>2 DEF RoundUp2
<1>6. N' = N /\ Limit' = Limit
  BY <1>3, SigStays DEF Limit
<1>7. Filled(IF N > Limit THEN Limit ELSE N)'
  <2>1. N - extra = IF N > Limit THEN Limit ELSE N
    BY <1>1, <1>2
  <2>2. N - extra \in 0 .. N
    BY <1>1, <1>2
  <2> DEFINE n == N - extra
  <2> HIDE DEF extra
  <2>3. PICK q : q = n
    OBVIOUS
  <2>4. Filled(q)'
    <3>1. q \in 0 .. N /\ regs' = ToRegisters(q)
      BY <1>4, <2>2, <2>3
    <3> QED BY <3>1, <1>1, ToRegistersFills
  <2>5. q = (IF N > Limit THEN Limit ELSE N)'
    BY <2>1, <2>3, <1>6
  <2> QED BY <2>4, <2>5
<1>8. \A i \in 1 .. N : Arg(i) = WordOf(i, 0)
  BY <1>1, PlainArgs
<1>9. ASSUME NEW n \in Limit + 1 .. N
      PROVE  Scratch(n) = ScratchOf(n) /\ Foreign(Scratch(n))
  <2>1. n \in 1 .. N /\ n \in Nat /\ n >= 7
    BY <1>1, <1>2
  <2>2. CASE Arm
    <3>1. Scratch(n) = ScratchOf(n)
      BY <2>1, <2>2, <1>8 DEF Scratch, ArmScratch, ScratchOf
    <3> QED BY <3>1, <2>1, <2>2 DEF ScratchOf, Foreign, Pointer, WordOf, Ret
  <2>3. CASE ~Arm
    <3> DEFINE x == 7 + ((n - 7) % 6)
    <3>1. x \in Nat /\ x <= n
      BY <2>1
    <3>2. x \in 1 .. N
      BY <3>1, <2>1, <1>1
    <3>3. Scratch(n) = WordOf(x, 0) /\ ScratchOf(n) = WordOf(x, 0)
      BY <3>2, <2>3, <1>8 DEF Scratch, X86Scratch, ScratchOf
    <3> HIDE DEF x
    <3> QED BY <3>1, <3>3 DEF Foreign, WordOf, Ret
  <2> QED BY <2>2, <2>3
<1>10. /\ DOMAIN mem' = DOMAIN new \cup DOMAIN mem
       /\ \A a \in DOMAIN new : mem'[a] = new[a]
       /\ \A a \in DOMAIN mem : a \notin DOMAIN new => mem'[a] = mem[a]
  <2> HIDE DEF new
  <2>1. /\ DOMAIN Over(new, mem) = DOMAIN new \cup DOMAIN mem
        /\ \A a \in DOMAIN new : Over(new, mem)[a] = new[a]
        /\ \A a \in DOMAIN mem : a \notin DOMAIN new => Over(new, mem)[a] = mem[a]
    BY OverFacts
  <2> QED BY <1>4, <2>1
<1>11. ASSUME NEW n \in Limit + 1 .. N
       PROVE  sp' + n - Limit - 1 \in DOMAIN mem' /\ mem'[sp' + n - Limit - 1] = ScratchOf(n)
  <2>1. extra = N - Limit /\ n \in Nat
    BY <1>1, <1>2
  <2> HIDE DEF taken, extra
  <2> DEFINE a == sp' + n - Limit - 1
  <2>2. a \in 0 - taken .. extra - taken - 1 /\ a + taken + Limit + 1 = n
    BY <2>1, <1>1, <1>2, <1>4, <1>5
  <2> HIDE DEF a
  <2>3. a \in DOMAIN new /\ new[a] = Scratch(n)
    BY <2>2
  <2> HIDE DEF new
  <2>4. a \in DOMAIN mem' /\ mem'[a] = ScratchOf(n)
    BY <2>3, <1>9, <1>10
  <2> QED BY <2>4 DEF a
<1>12. AllForeign(mem')
  <2> SUFFICES ASSUME NEW a \in DOMAIN mem' PROVE Foreign(mem'[a])
    BY DEF AllForeign
  <2>1. CASE a \in DOMAIN new
    <3> HIDE DEF taken, extra
    <3>1. a \in 0 - taken .. extra - taken - 1
      BY <2>1
    <3>2. a \in Int /\ 0 - taken <= a /\ a <= extra - taken - 1
      BY <3>1, <1>5
    <3>3. extra = N - Limit
      BY <3>2, <1>5, <1>1, <1>2 DEF extra
    <3>4. a + taken + Limit + 1 \in Limit + 1 .. N
      BY <3>2, <3>3, <1>1, <1>2, <1>5
    <3>5. new[a] = Scratch(a + taken + Limit + 1)
      BY <3>1
    <3> HIDE DEF new
    <3> QED BY <3>4, <3>5, <1>9, <1>10, <2>1
  <2>2. CASE a \notin DOMAIN new
    <3> HIDE DEF new
    <3> QED BY <2>2, <1>10 DEF AllForeign
  <2> QED BY <2>1, <2>2
<1> QED BY <1>7, <1>11, <1>12

LEMMA PassesVararg ==
    ASSUME Control, EvalIn(mem), AllForeign(mem), PassVararg
    PROVE  /\ Filled(IF N <= 8 THEN N ELSE Fixed)'
           /\ Fixed <= 8
           /\ AllForeign(mem')
<1> DEFINE inRegs == IF N <= 8 THEN N ELSE Fixed
           taken == RoundUp2(N - inRegs)
           new == [a \in sp - taken .. sp - taken + N - inRegs - 1 |-> Arg(a - sp + taken + inRegs + 1)]
<1>1. sig \in Signatures /\ Path = "vararg" /\ ~HasAggregate
  <2>1. sig \in Signatures /\ Path = "vararg"
    BY DEF Control, PassVararg
  <2> QED BY <2>1, PathFacts
<1>2. N \in Nat /\ Fixed \in Nat /\ Fixed <= N /\ sp \in Int /\ ArgAddr(N) \in Int
  <2>1. sp = ArgAddr(N)
    BY DEF Control, PassVararg
  <2> QED BY <1>1, <2>1, Sizes, BaseIsInt
<1>3. sig' = sig /\ Fixed <= 8
  BY DEF PassVararg
<1>4. /\ regs' = ToRegisters(inRegs) /\ mem' = Over(new, mem)
  BY DEF PassVararg
<1>5. inRegs \in 0 .. N /\ taken \in Nat
  BY <1>2 DEF RoundUp2
<1>6. N' = N /\ Fixed' = Fixed
  BY <1>3, SigStays
<1>7. Filled(IF N <= 8 THEN N ELSE Fixed)'
  <2>1. PICK q : q = inRegs
    OBVIOUS
  <2>2. Filled(q)'
    <3>1. q \in 0 .. N /\ regs' = ToRegisters(q)
      BY <1>4, <1>5, <2>1
    <3> QED BY <3>1, <1>1, ToRegistersFills
  <2>3. q = (IF N <= 8 THEN N ELSE Fixed)'
    BY <2>1, <1>6
  <2> QED BY <2>2, <2>3
<1>8. \A i \in 1 .. N : Arg(i) = WordOf(i, 0)
  BY <1>1, PlainArgs
<1>9. AllForeign(mem')
  <2> SUFFICES ASSUME NEW a \in DOMAIN mem' PROVE Foreign(mem'[a])
    BY DEF AllForeign
  <2>1. /\ DOMAIN mem' = DOMAIN new \cup DOMAIN mem
        /\ \A b \in DOMAIN new : mem'[b] = new[b]
        /\ \A b \in DOMAIN mem : b \notin DOMAIN new => mem'[b] = mem[b]
    <3> HIDE DEF new
    <3>1. /\ DOMAIN Over(new, mem) = DOMAIN new \cup DOMAIN mem
          /\ \A b \in DOMAIN new : Over(new, mem)[b] = new[b]
          /\ \A b \in DOMAIN mem : b \notin DOMAIN new => Over(new, mem)[b] = mem[b]
      BY OverFacts
    <3> QED BY <1>4, <3>1
  <2>2. CASE a \in DOMAIN new
    <3> HIDE DEF taken, inRegs
    <3>1. a \in sp - taken .. sp - taken + N - inRegs - 1
      BY <2>2
    <3> DEFINE x == a - sp + taken + inRegs + 1
    <3>2. x \in 1 .. N
      BY <3>1, <1>2, <1>5
    <3>3. new[a] = Arg(x)
      BY <3>1
    <3> HIDE DEF new, x
    <3>4. mem'[a] = WordOf(x, 0) /\ x # Ret
      BY <3>2, <3>3, <1>8, <2>1, <2>2, <1>2 DEF Ret
    <3> QED BY <3>4 DEF Foreign, WordOf, Ret
  <2>3. CASE a \notin DOMAIN new
    <3> HIDE DEF new
    <3> QED BY <2>1, <2>3 DEF AllForeign
  <2> QED BY <2>2, <2>3
<1> QED BY <1>3, <1>7, <1>9

-----------------------------------------------------------------------------
\* What lies in memory and registers until the callee returns.

Sent(i, j) ==
    /\ Route(i)[j][1] = "m" =>
          sp + Route(i)[j][2] \in DOMAIN mem /\ mem[sp + Route(i)[j][2]] = PieceAt(i, j)
    /\ InReg(Route(i)[j]) => Route(i)[j] \in DOMAIN regs /\ regs[Route(i)[j]] = PieceAt(i, j)

ByPlaces == phase \in {"place", "take"} /\ Path \in {"scalar", "aggregate"}
OwnedRegs == \A p \in DOMAIN regs : InReg(p) /\ \E i \in 1 .. N : \E j \in DOMAIN Route(i) : p = Route(i)[j]
Waiting == phase \in {"plain", "vararg", "reserve", "place"}
NotReturned == phase \notin {"cleanup", "store", "done", "rejected"}

Data ==
    /\ Waiting => EvalIn(mem)
    /\ NotReturned => AllForeign(mem)
    /\ phase = "place" => CallerCursor[N].m <= reserved
    /\ ByPlaces => /\ \A i \in 1 .. N : (phase = "place" => i < k) => \A j \in DOMAIN Route(i) : Sent(i, j)
                   /\ OwnedRegs
    /\ phase = "take" /\ Path = "plain" =>
          /\ Filled(IF N > Limit THEN Limit ELSE N)
          /\ \A n \in Limit + 1 .. N :
                sp + n - Limit - 1 \in DOMAIN mem /\ mem[sp + n - Limit - 1] = ScratchOf(n)
    /\ phase = "take" /\ Path = "vararg" => Fixed <= 8 /\ Filled(IF N <= 8 THEN N ELSE Fixed)

LEMMA InitData == Init => Data
BY DEF Init, Data, Waiting, NotReturned, AllForeign, Empty, ByPlaces

LEMMA RouteStays ==
    ASSUME sig' = sig
    PROVE  /\ \A i : Route(i)' = Route(i)
           /\ \A i, j : PieceAt(i, j)' = PieceAt(i, j)
           /\ \A p : InReg(p)' <=> InReg(p)
           /\ \A i : ArgAddr(i)' = ArgAddr(i)
           /\ \A i, w : Evaluated(i, w)' = Evaluated(i, w)
<1>1. Params' = Params /\ CallerCursor' = CallerCursor /\ Arm' = Arm /\ EvalTotal' = EvalTotal /\ PtrWords' = PtrWords
  BY SigStays
<1>2. \A i : Route(i)' = Route(i)
  BY <1>1 DEF Route, CallerStep, ArmCaller, X86Caller
<1> QED BY <1>1, <1>2 DEF PieceAt, PieceOf, InReg, ArgAddr, Evaluated

(* A piece is its argument's, or junk.                                     *)
LEMMA PieceForeign ==
    ASSUME NEW i \in Nat, NEW j
    PROVE  Foreign(PieceAt(i, j))
<1>1. i # -1 /\ 0 # -1
  OBVIOUS
<1> QED BY <1>1 DEF Foreign, PieceAt, PieceOf, Narrow, WordOf, Pointer, Junk, Ret

LEMMA PlaceKeepsData ==
    ASSUME Control, KInv, Data, Place
    PROVE  Data'
<1>1. sig \in Signatures /\ k \in 1 .. N /\ N \in Nat /\ phase = "place"
      /\ Path \in {"scalar", "aggregate"} /\ EvalIn(mem) /\ AllForeign(mem)
  BY Sizes DEF Control, KInv, Place, Data, Waiting, NotReturned
<1>2. sig' = sig /\ sp' = sp /\ reserved' = reserved
  BY DEF Place
<1>3. /\ N' = N /\ Path' = Path /\ CallerCursor' = CallerCursor
      /\ \A i : Route(i)' = Route(i) /\ ArgAddr(i)' = ArgAddr(i)
      /\ \A i, j : PieceAt(i, j)' = PieceAt(i, j)
      /\ \A p : InReg(p)' <=> InReg(p)
  BY <1>2, SigStays, RouteStays
<1>4. sp = ArgAddr(N) - RetBuffer - reserved /\ sp \in Int /\ ArgAddr(N) \in Int /\ RetBuffer \in Nat /\ reserved \in Nat
  <2>1. Path # "plain"
    BY <1>1
  <2>2. ArgAddr(N) \in Int /\ RetBuffer \in Nat /\ reserved \in Nat
    BY <1>1, BaseIsInt, Sizes DEF Control
  <2> QED BY <1>1, <2>1, <2>2 DEF Control, Called, Base
<1>5. \A j \in DOMAIN Route(k) : Route(k)[j][1] = "m" => Route(k)[j][2] \in Nat /\ Route(k)[j][2] < reserved
  <2>1. TAKE j \in DOMAIN Route(k)
  <2>2. HAVE Route(k)[j][1] = "m"
  <2>3. CallerCursor[k - 1] \in Cursors /\ CallerCursor[k] \in Cursors /\ CallerCursor[N] \in Cursors
    <3>1. N \in 1 .. N
      BY <1>1
    <3> QED BY <1>1, <3>1, RouteFacts
  <2>4. Route(k)[j][2] \in Nat /\ Route(k)[j][2] < CallerCursor[k].m
    BY <1>1, <2>2, <2>3, RoutePlaces, BetweenKinds
  <2>5. CallerCursor[k].m <= CallerCursor[N].m
    <3>1. k \in 0 .. N /\ N \in 0 .. N /\ k <= N
      BY <1>1
    <3> QED BY <1>1, <3>1, CallerCursorsRise
  <2>6. CallerCursor[N].m <= reserved
    BY <1>1 DEF Data
  <2>7. CallerCursor[k].m \in Nat /\ CallerCursor[N].m \in Nat
    BY <2>3 DEF Cursors
  <2> QED BY <2>4, <2>5, <2>6, <2>7, <1>4
<1>6. EvalIn(mem)'
  <2>1. ASSUME NEW i \in 1 .. N, NEW w \in {0, 1}, ArgAddr(i) + w \in DOMAIN mem
        PROVE  ArgAddr(i) + w \in DOMAIN mem' /\ mem'[ArgAddr(i) + w] = mem[ArgAddr(i) + w]
    <3>1. ArgAddr(i) \in Int /\ ArgAddr(N) <= ArgAddr(i)
      <4>1. i \in 0 .. N /\ N \in 0 .. N /\ i <= N
        BY <1>1
      <4> QED BY <1>1, <4>1, ArgAddrs
    <3>2. \A j \in DOMAIN Route(k) : Route(k)[j][1] = "m" => ArgAddr(i) + w # sp + Route(k)[j][2]
      BY <3>1, <1>4, <1>5
    <3> QED BY <3>2, <2>1, <1>1, PlacesOne
  <2>2. ASSUME NEW i \in 1 .. N
        PROVE  /\ ArgAddr(i) \in DOMAIN mem' /\ mem'[ArgAddr(i)] = Evaluated(i, 0)
               /\ IsLongDouble(Params[i]) => ArgAddr(i) + 1 \in DOMAIN mem' /\ mem'[ArgAddr(i) + 1] = Evaluated(i, 1)
    <3>1. ArgAddr(i) \in Int
      <4>1. i \in 0 .. N
        BY <1>1
      <4> QED BY <1>1, <4>1, ArgAddrs
    <3>2. ArgAddr(i) + 0 = ArgAddr(i)
      BY <3>1
    <3>3. ArgAddr(i) \in DOMAIN mem /\ mem[ArgAddr(i)] = Evaluated(i, 0)
      BY <1>1 DEF EvalIn
    <3>4. ArgAddr(i) + 0 \in DOMAIN mem' /\ mem'[ArgAddr(i) + 0] = mem[ArgAddr(i) + 0]
      BY <2>1, <3>2, <3>3
    <3>5. IsLongDouble(Params[i]) => ArgAddr(i) + 1 \in DOMAIN mem' /\ mem'[ArgAddr(i) + 1] = Evaluated(i, 1)
      BY <2>1, <1>1 DEF EvalIn
    <3> QED BY <3>2, <3>3, <3>4, <3>5
  <2>3. \A i : Evaluated(i, 0)' = Evaluated(i, 0) /\ Evaluated(i, 1)' = Evaluated(i, 1)
    BY <1>2, RouteStays
  <2>4. Params' = Params
    BY <1>2, SigStays
  <2> QED BY <2>2, <2>3, <2>4, <1>3 DEF EvalIn
<1>7. AllForeign(mem)'
  <2> SUFFICES ASSUME NEW a \in DOMAIN mem' PROVE Foreign(mem'[a])
    BY DEF AllForeign
  <2>1. CASE \E j \in DOMAIN Route(k) : Route(k)[j][1] = "m" /\ a = sp + Route(k)[j][2]
    <3>1. PICK j \in DOMAIN Route(k) : Route(k)[j][1] = "m" /\ a = sp + Route(k)[j][2]
      BY <2>1
    <3>2. mem'[a] = PieceAt(k, j)
      BY <3>1, <1>1, PlacesOne
    <3>3. k \in Nat
      BY <1>1
    <3> QED BY <3>2, <3>3, PieceForeign
  <2>2. CASE ~\E j \in DOMAIN Route(k) : Route(k)[j][1] = "m" /\ a = sp + Route(k)[j][2]
    <3>1. a \in DOMAIN mem /\ mem'[a] = mem[a]
      BY <2>2, <1>1, PlacesOne
    <3> QED BY <3>1, <1>1 DEF AllForeign
  <2> QED BY <2>1, <2>2
<1>8. \A i \in 1 .. N : i <= k => \A j \in DOMAIN Route(i) : Sent(i, j)'
  <2>1. TAKE i \in 1 .. N
  <2>2. HAVE i <= k
  <2>3. TAKE j \in DOMAIN Route(i)
  <2> DEFINE p == Route(i)[j]
  <2>4. /\ p[1] = "m" => sp + p[2] \in DOMAIN mem' /\ mem'[sp + p[2]] = PieceAt(i, j)
        /\ InReg(p) => p \in DOMAIN regs' /\ regs'[p] = PieceAt(i, j)
    <3>1. CASE i = k
      BY <3>1, <1>1, PlacesOne
    <3>2. CASE i # k
      <4>1. i < k
        BY <2>2, <3>2, <1>1
      <4>2. Sent(i, j)
        BY <4>1, <1>1 DEF Data, ByPlaces
      <4>3. \A l \in DOMAIN Route(k) : p # Route(k)[l]
        BY <3>2, <1>1, RoutesApart
      <4>4. p = <<p[1], p[2]>> /\ p[2] \in Nat
        BY <1>1, RoutePlaces
      <4>5. \A l \in DOMAIN Route(k) : Route(k)[l] = <<Route(k)[l][1], Route(k)[l][2]>> /\ Route(k)[l][2] \in Nat
        BY <1>1, RoutePlaces
      <4> HIDE DEF p
      <4>6. p[1] = "m" => \A l \in DOMAIN Route(k) : Route(k)[l][1] = "m" => sp + p[2] # sp + Route(k)[l][2]
        <5>1. HAVE p[1] = "m"
        <5>2. TAKE l \in DOMAIN Route(k)
        <5>3. HAVE Route(k)[l][1] = "m"
        <5>4. p[2] # Route(k)[l][2]
          BY <4>3, <4>4, <4>5, <5>1, <5>3
        <5> QED BY <5>4, <4>4, <4>5, <1>4
      <4>7. p[1] = "m" => sp + p[2] \in DOMAIN mem' /\ mem'[sp + p[2]] = PieceAt(i, j)
        BY <4>2, <4>6, <1>1, PlacesOne DEF Sent, p
      <4>8. InReg(p) => p \in DOMAIN regs' /\ regs'[p] = PieceAt(i, j)
        BY <4>2, <4>3, <1>1, PlacesOne DEF Sent, p
      <4> QED BY <4>7, <4>8
    <3> QED BY <3>1, <3>2
  <2> QED BY <2>4, <1>2, <1>3 DEF Sent
<1>9. OwnedRegs'
  <2>1. \A p \in DOMAIN regs' : InReg(p) /\ \E i \in 1 .. N : \E j \in DOMAIN Route(i) : p = Route(i)[j]
    <3>1. TAKE p \in DOMAIN regs'
    <3>2. CASE p \in DOMAIN regs
      BY <3>2, <1>1 DEF Data, ByPlaces, OwnedRegs
    <3>3. CASE \E j \in DOMAIN Route(k) : p = Route(k)[j] /\ InReg(p)
      BY <3>3, <1>1
    <3> QED BY <3>2, <3>3, <1>1, PlacesOne
  <2> QED BY <2>1, <1>3 DEF OwnedRegs
<1>10. phase' \in {"place", "take"} /\ (phase' = "place" => k' = k + 1) /\ (phase' = "take" => k = N)
  BY <1>1 DEF Place
<1>11. \A i \in 1 .. N : (phase' = "place" => i < k') => i <= k
  BY <1>1, <1>10
<1>12. ByPlaces' => (\A i \in 1 .. N : (phase' = "place" => i < k') => \A j \in DOMAIN Route(i) : Sent(i, j)') /\ OwnedRegs'
  BY <1>8, <1>9, <1>11
<1>13. (phase = "place" => CallerCursor[N].m <= reserved)'
  BY <1>1, <1>2, <1>3 DEF Data
<1>14. Path' # "plain" /\ Path' # "vararg"
  BY <1>1, <1>3
<1> QED BY <1>3, <1>6, <1>7, <1>12, <1>13, <1>14 DEF Data

LEMMA ReserveKeepsData ==
    ASSUME Control, KInv, Data, Reserve
    PROVE  Data'
<1>1. sig \in Signatures /\ N \in Nat /\ phase = "reserve" /\ k = 1 /\ regs = Empty
      /\ Path \in {"scalar", "aggregate"} /\ EvalIn(mem) /\ AllForeign(mem)
  BY Sizes DEF Control, KInv, Reserve, Data, Waiting, NotReturned
<1>2. sig' = sig /\ mem' = mem /\ regs' = regs /\ k' = k
  BY DEF Reserve
<1>3. /\ N' = N /\ Path' = Path /\ CallerCursor' = CallerCursor /\ Params' = Params
      /\ \A i : Route(i)' = Route(i) /\ ArgAddr(i)' = ArgAddr(i)
      /\ \A i, w : Evaluated(i, w)' = Evaluated(i, w)
  BY <1>2, SigStays, RouteStays
<1>4. EvalIn(mem)' /\ AllForeign(mem)'
  BY <1>1, <1>2, <1>3 DEF EvalIn, AllForeign
<1>5. CallerCursor[N].m <= reserved'
  <2>1. CallerCursor[N] \in Cursors
    BY <1>1, CallerCursors
  <2>2. CallerCursor[N].m \in Nat
    BY <2>1 DEF Cursors
  <2>3. \A x \in Nat : x <= 2 * ((x + 1) \div 2)
    OBVIOUS
  <2> QED BY <2>2, <2>3 DEF Reserve, RoundUp2
<1>6. (phase = "place" => CallerCursor[N].m <= reserved)'
  BY <1>3, <1>5
<1>7. \A i \in 1 .. N : ~(phase' = "place" => i < k')
  BY <1>1, <1>2 DEF Reserve
<1>8. OwnedRegs'
  BY <1>1, <1>2 DEF OwnedRegs, Empty
<1>9. Path' # "plain" /\ Path' # "vararg"
  BY <1>1, <1>3
<1> QED BY <1>3, <1>4, <1>6, <1>7, <1>8, <1>9 DEF Data

LEMMA EvaluateKeepsData ==
    ASSUME Control, KInv, Data, Evaluate
    PROVE  Data'
<1>1. sig \in Signatures /\ sig' = sig
  BY DEF Control, Evaluate
<1>2. /\ N' = N /\ Params' = Params
      /\ \A i : ArgAddr(i)' = ArgAddr(i)
      /\ \A i, w : Evaluated(i, w)' = Evaluated(i, w)
  BY <1>1, SigStays, RouteStays
<1>3. EvalIn(mem') /\ AllForeign(mem')
  BY <1>1, EvaluatesAll
<1>4. EvalIn(mem)' /\ AllForeign(mem)'
  BY <1>2, <1>3 DEF EvalIn, AllForeign
<1>5. phase' \notin {"place", "take"}
  BY PathFacts, <1>1 DEF Evaluate
<1> QED BY <1>4, <1>5 DEF Data, ByPlaces

LEMMA PassKeepsData ==
    ASSUME Control, KInv, Data, PassPlain \/ PassVararg
    PROVE  Data'
<1>1. sig \in Signatures /\ sig' = sig /\ phase' = "take" /\ EvalIn(mem) /\ AllForeign(mem)
  BY DEF Control, Data, Waiting, NotReturned, PassPlain, PassVararg
<1>2. N' = N /\ Fixed' = Fixed /\ Path' = Path /\ Arm' = Arm
  BY <1>1, SigStays
<1>3. CASE PassPlain
  <2>1. Path = "plain"
    BY <1>3 DEF Control, PassPlain
  <2>2. /\ Filled(IF N > Limit THEN Limit ELSE N)'
        /\ \A n \in Limit + 1 .. N :
              sp' + n - Limit - 1 \in DOMAIN mem' /\ mem'[sp' + n - Limit - 1] = ScratchOf(n)
        /\ AllForeign(mem')
    BY <1>1, <1>3, PassesPlain
  <2>3. Limit' = Limit /\ \A n : ScratchOf(n)' = ScratchOf(n)
    BY <1>1, <1>2 DEF Limit, ScratchOf
  <2>4. (\A n \in Limit + 1 .. N :
              sp + n - Limit - 1 \in DOMAIN mem /\ mem[sp + n - Limit - 1] = ScratchOf(n))'
    BY <1>2, <2>2, <2>3
  <2>5. AllForeign(mem)'
    BY <2>2 DEF AllForeign
  <2>6. ~ByPlaces' /\ ~Waiting'
    BY <1>1, <1>2, <2>1 DEF ByPlaces, Waiting
  <2> QED BY <1>1, <1>2, <2>1, <2>2, <2>4, <2>5, <2>6 DEF Data
<1>4. CASE PassVararg
  <2>1. Path = "vararg"
    BY <1>4 DEF Control, PassVararg
  <2>2. Filled(IF N <= 8 THEN N ELSE Fixed)' /\ Fixed <= 8 /\ AllForeign(mem')
    BY <1>1, <1>4, PassesVararg
  <2>3. AllForeign(mem)'
    BY <2>2 DEF AllForeign
  <2>4. ~ByPlaces' /\ ~Waiting'
    BY <1>1, <1>2, <2>1 DEF ByPlaces, Waiting
  <2> QED BY <1>1, <1>2, <2>1, <2>2, <2>3, <2>4 DEF Data
<1> QED BY <1>3, <1>4

LEMMA DataStays ==
    ASSUME Control, KInv, Data, [Next]_vars
    PROVE  Data'
<1>1. CASE TakeParam \/ Done \/ UNCHANGED vars
  <2>1. UNCHANGED <<sig, phase, sp, mem, regs, reserved>> /\ (phase = "place" => k' = k)
    BY <1>1 DEF TakeParam, Done, vars
  <2>2. /\ N' = N /\ Fixed' = Fixed /\ Path' = Path /\ CallerCursor' = CallerCursor /\ Params' = Params /\ Arm' = Arm
        /\ \A i : Route(i)' = Route(i) /\ ArgAddr(i)' = ArgAddr(i)
        /\ \A i, j : PieceAt(i, j)' = PieceAt(i, j)
        /\ \A p : InReg(p)' <=> InReg(p)
        /\ \A i, w : Evaluated(i, w)' = Evaluated(i, w)
    BY <2>1, SigStays, RouteStays
  <2>3. Limit' = Limit /\ \A n : ScratchOf(n)' = ScratchOf(n)
    BY <2>1, <2>2 DEF Limit, ScratchOf
  <2>4. /\ EvalIn(mem) => EvalIn(mem)'
        /\ AllForeign(mem) => AllForeign(mem)'
        /\ OwnedRegs => OwnedRegs'
        /\ \A n : Filled(n) => Filled(n)'
    BY <2>1, <2>2 DEF EvalIn, AllForeign, OwnedRegs, Filled
  <2>5. /\ \A i, j : Sent(i, j) => Sent(i, j)'
    BY <2>1, <2>2 DEF Sent
  <2>6. /\ Filled(IF N > Limit THEN Limit ELSE N) => Filled(IF N > Limit THEN Limit ELSE N)'
        /\ Filled(IF N <= 8 THEN N ELSE Fixed) => Filled(IF N <= 8 THEN N ELSE Fixed)'
    BY <2>1, <2>2, <2>3 DEF Filled
  <2>7. (Waiting' <=> Waiting) /\ (NotReturned' <=> NotReturned) /\ (ByPlaces' <=> ByPlaces)
    BY <2>1, <2>2 DEF Waiting, NotReturned, ByPlaces
  <2>8. ByPlaces => \A i \in 1 .. N : (phase' = "place" => i < k') => (phase = "place" => i < k)
    BY <2>1
  <2>9. ByPlaces' => /\ \A i \in 1 .. N' : (phase' = "place" => i < k') => \A j \in DOMAIN Route(i)' : Sent(i, j)'
                     /\ OwnedRegs'
    <3>1. HAVE ByPlaces'
    <3>2. OwnedRegs'
      BY <2>4, <2>7, <3>1 DEF Data
    <3>3. ASSUME NEW i \in 1 .. N, phase' = "place" => i < k', NEW j \in DOMAIN Route(i)
          PROVE  Sent(i, j)'
      <4>1. Sent(i, j)
        BY <2>1, <2>7, <3>1, <3>3 DEF Data
      <4> QED BY <4>1, <2>5
    <3> QED BY <3>2, <3>3, <2>2
  <2>10. (phase = "take" /\ Path = "plain" =>
              /\ Filled(IF N > Limit THEN Limit ELSE N)
              /\ \A n \in Limit + 1 .. N :
                    sp + n - Limit - 1 \in DOMAIN mem /\ mem[sp + n - Limit - 1] = ScratchOf(n))'
    BY <2>1, <2>2, <2>3, <2>6 DEF Data
  <2> QED BY <2>1, <2>2, <2>4, <2>6, <2>7, <2>9, <2>10 DEF Data
<1>2. CASE VaList
  <2>1. phase = "take" /\ phase' = "return" /\ mem' = mem
    BY <1>2 DEF VaList
  <2>2. AllForeign(mem)'
    BY <2>1 DEF Data, NotReturned, AllForeign
  <2> QED BY <2>1, <2>2 DEF Data, Waiting, ByPlaces
<1>3. CASE VarargFatal \/ Return \/ Cleanup \/ Store
  <2>1. phase' \in {"rejected", "cleanup", "store", "done"}
    BY <1>3 DEF VarargFatal, Return, Cleanup, Store
  <2> QED BY <2>1 DEF Data, Waiting, NotReturned, ByPlaces
<1> QED BY <1>1, <1>2, <1>3, EvaluateKeepsData, ReserveKeepsData, PlaceKeepsData, PassKeepsData DEF Next

-----------------------------------------------------------------------------
\* The result: what the callee leaves.

InMemory == sig.ret.agg > 16 /\ sig.ret.count = 0
InBuffer(a) == InMemory /\ a \in Buffer .. Buffer + Words(sig.ret) - 1

RetRegs ==
    LET t == sig.ret
    IN  /\ t.float = 16 => ret.st = <<WordOf(Ret, 0), WordOf(Ret, 1)>> /\ ret.s = << >>
        /\ t.float = 4 => ret.s = <<Narrow(WordOf(Ret, 0))>>
        /\ t.float = 8 => ret.s = <<WordOf(Ret, 0)>>
        /\ t.agg = 0 /\ t.float = 0 => ret.g = <<WordOf(Ret, 0)>>
        /\ IsMixed(t) /\ ~Arm => ret.g = <<Eightbyte(1)>> /\ ret.s = <<Eightbyte(2)>>
        /\ t.count > 0 /\ ~Arm => ret.s = ResultWords
        /\ t.count > 0 /\ Arm =>
              ret.s = [e \in 1 .. t.count |-> IF t.elem = 4 THEN <<<<Ret, e>>, Junk>> ELSE WordOf(Ret, e - 1)]
        /\ t.agg \in 1 .. 16 /\ t.count = 0 /\ (Arm \/ ~IsMixed(t)) => ret.g = ResultWords

Returned ==
    phase = "cleanup" =>
        /\ RetRegs
        /\ InMemory => \A a \in Buffer .. Buffer + Words(sig.ret) - 1 : a \in DOMAIN mem /\ mem[a] = WordOf(Ret, a - Buffer)
        /\ \A a \in DOMAIN mem : ~InBuffer(a) => Foreign(mem[a])

LEMMA RetKinds ==
    ASSUME sig \in Signatures
    PROVE  LET t == sig.ret
           IN  /\ t.agg \in Nat /\ t.float \in {0, 4, 8, 16} /\ t.count \in 0 .. 4 /\ t.elem \in {0, 4, 8}
               /\ t.agg % 4 = 0
               /\ t.float # 0 => t.agg = 0
               /\ t.agg = 0 => t.count = 0 /\ ~IsMixed(t)
               /\ t.count > 0 => t.elem \in {4, 8} /\ t.agg = t.elem * t.count /\ ~IsMixed(t) /\ t.agg > 0
               /\ IsMixed(t) => t.agg = 16 /\ t.count = 0 /\ t.mixed \in {<<1, 2>>, <<2, 1>>}
               /\ IsLongDouble(t) <=> t.float = 16
               /\ t.float = 16 => ~Arm
<1>1. IsType(sig.ret, Target)
  BY Sizes
<1>2. sig.ret.float = 16 => ~Arm
  BY <1>1, TypeKinds DEF Arm, Target
<1>3. sig.ret.count > 0 => sig.ret.agg > 0
  BY <1>1, TypeKinds
<1> QED BY <1>1, <1>2, <1>3, TypeKinds

LEMMA ReturnGives ==
    ASSUME Control, Data, Return
    PROVE  Returned'
<1> DEFINE t == sig.ret
           none == [g |-> << >>, s |-> << >>, st |-> << >>]
           new == [a \in Buffer .. Buffer + Words(sig.ret) - 1 |-> WordOf(Ret, a - Buffer)]
<1>1. sig \in Signatures /\ sig' = sig /\ ret = none /\ AllForeign(mem) /\ Arm' = Arm
  <2>1. phase = "return" /\ sig' = sig
    BY DEF Return
  <2> QED BY <2>1, SigStays DEF Control, Data, NotReturned
<1>2. Buffer' = Buffer /\ (InMemory' <=> InMemory) /\ Words(sig.ret)' = Words(sig.ret) /\ ResultWords' = ResultWords
  BY <1>1 DEF Return, Buffer, InMemory, Words, ResultWords
<1>3. /\ t.agg \in Nat /\ t.float \in {0, 4, 8, 16} /\ t.count \in 0 .. 4 /\ t.elem \in {0, 4, 8}
      /\ t.float # 0 => t.agg = 0
      /\ t.agg = 0 => t.count = 0 /\ ~IsMixed(t)
      /\ t.count > 0 => ~IsMixed(t) /\ t.agg > 0
      /\ IsMixed(t) => t.agg = 16 /\ t.count = 0
      /\ IsLongDouble(t) <=> t.float = 16
      /\ t.float = 16 => ~Arm
  BY <1>1, RetKinds
<1>4. ret' = IF t.agg = 0 THEN ReturnScalar ELSE IF Arm THEN ArmReturn ELSE X86Return
  BY DEF Return
<1>5. /\ t.float = 16 => ret'.st = <<WordOf(Ret, 0), WordOf(Ret, 1)>> /\ ret'.s = << >>
      /\ t.float = 4 => ret'.s = <<Narrow(WordOf(Ret, 0))>>
      /\ t.float = 8 => ret'.s = <<WordOf(Ret, 0)>>
      /\ t.agg = 0 /\ t.float = 0 => ret'.g = <<WordOf(Ret, 0)>>
  <2>1. t.float = 16 => ReturnScalar = [none EXCEPT !.st = <<WordOf(Ret, 0), WordOf(Ret, 1)>>]
    BY <1>1, <1>3 DEF ReturnScalar
  <2>2. t.float = 4 => ReturnScalar = [none EXCEPT !.s = <<Narrow(WordOf(Ret, 0))>>]
    BY <1>1, <1>3 DEF ReturnScalar
  <2>3. t.float = 8 => ReturnScalar = [none EXCEPT !.s = <<WordOf(Ret, 0)>>]
    BY <1>1, <1>3 DEF ReturnScalar
  <2>4. t.float = 0 => ReturnScalar = [none EXCEPT !.g = <<WordOf(Ret, 0)>>]
    BY <1>1, <1>3 DEF ReturnScalar
  <2> HIDE DEF t
  <2> QED BY <1>3, <1>4, <2>1, <2>2, <2>3, <2>4
<1>6. /\ IsMixed(t) /\ ~Arm => ret'.g = <<Eightbyte(1)>> /\ ret'.s = <<Eightbyte(2)>>
      /\ t.count > 0 /\ ~Arm => ret'.s = ResultWords
  <2>1. IsMixed(t) => X86Return = [none EXCEPT !.g = <<Eightbyte(1)>>, !.s = <<Eightbyte(2)>>]
    BY <1>1, <1>3 DEF X86Return
  <2>2. t.count > 0 => X86Return = [none EXCEPT !.s = ResultWords]
    BY <1>1, <1>3 DEF X86Return
  <2> HIDE DEF t
  <2>3. ASSUME IsMixed(t), ~Arm
        PROVE  ret'.g = <<Eightbyte(1)>> /\ ret'.s = <<Eightbyte(2)>>
    <3>1. t.agg # 0
      BY <1>3, <2>3
    <3>2. ret' = [none EXCEPT !.g = <<Eightbyte(1)>>, !.s = <<Eightbyte(2)>>]
      BY <3>1, <2>1, <2>3, <1>4
    <3> QED BY <3>2
  <2>4. ASSUME t.count > 0, ~Arm
        PROVE  ret'.s = ResultWords
    <3>1. t.agg # 0
      BY <1>3, <2>4
    <3>2. ret' = [none EXCEPT !.s = ResultWords]
      BY <3>1, <2>2, <2>4, <1>4
    <3> QED BY <3>2
  <2> QED BY <2>3, <2>4
<1>7. t.count > 0 /\ Arm =>
          ret'.s = [e \in 1 .. t.count |-> IF t.elem = 4 THEN <<<<Ret, e>>, Junk>> ELSE WordOf(Ret, e - 1)]
  <2> DEFINE elements == [e \in 1 .. t.count |-> IF t.elem = 4 THEN <<<<Ret, e>>, Junk>> ELSE WordOf(Ret, e - 1)]
  <2>1. t.count > 0 => ArmReturn = [none EXCEPT !.s = elements]
    BY SMTT(30), <1>1, <1>3 DEF ArmReturn
  <2> SUFFICES ASSUME t.count > 0, Arm PROVE ret'.s = elements
    OBVIOUS
  <2> HIDE DEF t, elements
  <2>2. t.agg # 0
    BY <1>3
  <2>3. ret' = [none EXCEPT !.s = elements]
    BY <2>1, <2>2, <1>4
  <2> QED BY <2>3
<1>8. t.agg \in 1 .. 16 /\ t.count = 0 /\ (Arm \/ ~IsMixed(t)) => ret'.g = ResultWords
  <2>1. t.agg \in 1 .. 16 /\ t.count = 0 => ArmReturn = [none EXCEPT !.g = ResultWords]
    BY SMTT(30), <1>1, <1>3 DEF ArmReturn
  <2>2. t.agg \in 1 .. 16 /\ t.count = 0 /\ ~IsMixed(t) => X86Return = [none EXCEPT !.g = ResultWords]
    BY SMTT(30), <1>1, <1>3 DEF X86Return
  <2> HIDE DEF t
  <2>3. t.agg \in 1 .. 16 => t.agg # 0
    OBVIOUS
  <2> QED BY <1>4, <2>1, <2>2, <2>3
<1>9. RetRegs'
  <2>1. Eightbyte(1)' = Eightbyte(1) /\ Eightbyte(2)' = Eightbyte(2)
    BY <1>1 DEF Eightbyte
  <2> QED BY <1>1, <1>2, <1>5, <1>6, <1>7, <1>8, <2>1 DEF RetRegs
<1>10. CASE InMemory
  <2>1. mem' = Over(new, mem)
    BY <1>10 DEF Return, InMemory
  <2>2. /\ DOMAIN Over(new, mem) = DOMAIN new \cup DOMAIN mem
        /\ \A a \in DOMAIN new : Over(new, mem)[a] = new[a]
        /\ \A a \in DOMAIN mem : a \notin DOMAIN new => Over(new, mem)[a] = mem[a]
    <3> HIDE DEF new
    <3> QED BY OverFacts
  <2>3. DOMAIN new = Buffer .. Buffer + Words(sig.ret) - 1 /\ \A a \in DOMAIN new : new[a] = WordOf(Ret, a - Buffer)
    OBVIOUS
  <2> HIDE DEF new
  <2>4. (\A a \in Buffer .. Buffer + Words(sig.ret) - 1 : a \in DOMAIN mem /\ mem[a] = WordOf(Ret, a - Buffer))'
    BY <1>2, <2>1, <2>2, <2>3
  <2>5. (\A a \in DOMAIN mem : ~InBuffer(a) => Foreign(mem[a]))'
    BY <1>1, <1>2, <1>10, <2>1, <2>2, <2>3 DEF InBuffer, AllForeign
  <2> QED BY <1>9, <2>4, <2>5 DEF Returned
<1>11. CASE ~InMemory
  <2>1. mem' = mem
    BY <1>11 DEF Return, InMemory
  <2>2. (\A a \in DOMAIN mem : ~InBuffer(a) => Foreign(mem[a]))'
    BY <2>1, <1>1 DEF AllForeign
  <2> QED BY <1>2, <1>9, <1>11, <2>2 DEF Returned
<1> QED BY <1>10, <1>11

\* Halves and words of the result.
RetHalves == IF sig.ret.float = 4 THEN 2 ELSE HalvesOf(sig.ret)
Count == IF IsLongDouble(sig.ret) THEN 2 ELSE Words(sig.ret)

LEMMA ResultIs ==
    ASSUME sig \in Signatures
    PROVE  /\ RetHalves \in Nat \ {0} /\ Count \in Nat \ {0} /\ RetHalves <= 2 * Count
           /\ Len(Result) = RetHalves
           /\ \A h \in 1 .. RetHalves : Result[h] = <<Ret, h>>
           /\ sig.ret.agg > 0 => RetHalves = sig.ret.agg \div 4 /\ Count = Words(sig.ret)
           /\ sig.ret.agg = 0 /\ sig.ret.float # 16 => RetHalves = 2 /\ Count = 1
           /\ sig.ret.float = 16 => RetHalves = 4 /\ Count = 2
<1> DEFINE t == sig.ret
<1>1. /\ t.agg \in Nat /\ t.float \in {0, 4, 8, 16} /\ t.agg % 4 = 0
      /\ t.float # 0 => t.agg = 0
      /\ IsLongDouble(t) <=> t.float = 16
  BY RetKinds
<1>2. /\ Words(t) \in Nat \ {0} /\ (t.agg = 0 => Words(t) = 1) /\ (t.agg > 0 => Words(t) = (t.agg + 7) \div 8)
  BY Sizes, WordCounts
<1> HIDE DEF t
<1>3. ASSUME t.agg > 0
      PROVE  RetHalves = t.agg \div 4 /\ Count = Words(t)
  <2>1. t.float = 0
    BY <1>1, <1>3
  <2>2. HalvesOf(t) = t.agg \div 4
    BY <1>1, <1>3, <2>1 DEF HalvesOf
  <2> QED BY <1>1, <2>1, <2>2 DEF RetHalves, Count, t
<1>4. ASSUME t.agg = 0, t.float # 16
      PROVE  RetHalves = 2 /\ Count = 1
  <2>1. ~(t.agg > 0) /\ ~IsLongDouble(t)
    BY <1>1, <1>4
  <2>2. t.float # 4 => HalvesOf(t) = 2
    BY <2>1 DEF HalvesOf
  <2> QED BY <1>2, <1>4, <2>1, <2>2 DEF RetHalves, Count, t
<1>5. ASSUME t.float = 16
      PROVE  RetHalves = 4 /\ Count = 2
  <2>1. ~(t.agg > 0) /\ IsLongDouble(t)
    BY <1>1, <1>5
  <2>2. HalvesOf(t) = 4
    BY <1>5, <2>1 DEF HalvesOf
  <2> QED BY <1>5, <2>1, <2>2 DEF RetHalves, Count, t
<1>6. RetHalves \in Nat \ {0} /\ Count \in Nat \ {0} /\ RetHalves <= 2 * Count
  <2>1. CASE t.agg > 0
    <3>1. t.agg \div 4 \in Nat \ {0} /\ t.agg \div 4 <= 2 * ((t.agg + 7) \div 8)
      BY <1>1, <2>1
    <3> QED BY <3>1, <2>1, <1>2, <1>3
  <2> QED BY <2>1, <1>1, <1>4, <1>5
<1>7. Len(Result) = RetHalves /\ \A h \in 1 .. RetHalves : Result[h] = <<Ret, h>>
  <2>1. CASE t.float = 4
    <3>1. Result = <<<<Ret, 2 * 0 + 1>>, <<Ret, 2 * 0 + 2>>>>
      BY <2>1 DEF Result, WordOf, t
    <3>2. RetHalves = 2
      BY <2>1, <1>1, <1>4
    <3> QED BY <3>1, <3>2
  <2>2. CASE t.float # 4
    <3>1. Result = [h \in 1 .. RetHalves |-> <<Ret, h>>]
      BY <2>2 DEF Result, Value, RetHalves, t
    <3> QED BY <3>1, <1>6
  <2> QED BY <2>1, <2>2
<1> QED BY <1>3, <1>4, <1>5, <1>6, <1>7 DEF t

(* The h-th half of words is the first or second of its word.              *)
LEMMA HalfAt ==
    ASSUME NEW h \in Nat \ {0}
    PROVE  \E w \in Nat \ {0} :
              \/ h = 2 * w - 1 /\ \A words : HalfOf(words, h) = words[w][1]
              \/ h = 2 * w /\ \A words : HalfOf(words, h) = words[w][2]
<1> DEFINE w == (h + 1) \div 2
<1>1. w \in Nat \ {0}
  OBVIOUS
<1>2. CASE h % 2 = 1
  <2>1. h = 2 * w - 1 /\ 2 - (h % 2) = 1
    BY <1>2
  <2>2. \A words : HalfOf(words, h) = words[w][1]
    BY <2>1 DEF HalfOf
  <2> QED BY <1>1, <2>1, <2>2
<1>3. CASE h % 2 = 0
  <2>1. h = 2 * w /\ 2 - (h % 2) = 2
    BY <1>3
  <2>2. \A words : HalfOf(words, h) = words[w][2]
    BY <2>1 DEF HalfOf
  <2> QED BY <1>1, <2>1, <2>2
<1>4. h % 2 = 0 \/ h % 2 = 1
  OBVIOUS
<1> QED BY <1>2, <1>3, <1>4

(* Words of a value, one after the other, are its halves.                  *)
LEMMA HalvesOfWords ==
    ASSUME NEW n, NEW count \in Nat, NEW words,
           \A w \in 1 .. count : words[w] = WordOf(n, w - 1),
           NEW h \in Nat \ {0}, h <= 2 * count
    PROVE  HalfOf(words, h) = <<n, h>>
<1>1. PICK w \in Nat \ {0} :
         \/ h = 2 * w - 1 /\ \A x : HalfOf(x, h) = x[w][1]
         \/ h = 2 * w /\ \A x : HalfOf(x, h) = x[w][2]
  BY HalfAt
<1>2. w \in 1 .. count
  BY <1>1
<1>3. words[w] = <<<<n, 2 * (w - 1) + 1>>, <<n, 2 * (w - 1) + 2>>>>
  BY <1>2 DEF WordOf
<1>4. 2 * (w - 1) + 1 = 2 * w - 1 /\ 2 * (w - 1) + 2 = 2 * w
  OBVIOUS
<1> QED BY <1>1, <1>3, <1>4

\* The words of the result, read one by one from a list.
AllWords(words) == \A w \in 1 .. Count : words[w] = WordOf(Ret, w - 1)

Lost ==
    \/ Indirect /\ (sig.ret.count > 0 \/ (~Arm /\ N > 0))
    \/ ~Arm /\ Path = "aggregate" /\ IsLongDouble(sig.ret)

LEMMA NthFacts ==
    ASSUME NEW n \in Nat, NEW words, DOMAIN words = 1 .. n, words \in Seq(Range(words))
    PROVE  Len(words) = n /\ \A w \in 1 .. n : Nth(words, w) = words[w]
<1>1. Len(words) = n
  <2>1. Len(words) \in Nat /\ DOMAIN words = 1 .. Len(words)
    OBVIOUS
  <2>2. \A x \in Nat : 1 .. x = 1 .. n => x = n
    <3>1. TAKE x \in Nat
    <3>2. HAVE 1 .. x = 1 .. n
    <3>3. ~(x < n)
      <4>1. x < n => n \in 1 .. n /\ n \notin 1 .. x
        OBVIOUS
      <4> QED BY <4>1, <3>2
    <3>4. ~(n < x)
      <4>1. n < x => x \in 1 .. x /\ x \notin 1 .. n
        OBVIOUS
      <4> QED BY <4>1, <3>2
    <3> QED BY <3>3, <3>4
  <2> QED BY <2>1, <2>2
<1> QED BY <1>1 DEF Nth

(* A list given word by word.                                              *)
LEMMA ListFacts ==
    ASSUME NEW n \in Nat, NEW f, f = [w \in 1 .. n |-> f[w]]
    PROVE  Len(f) = n /\ \A w \in 1 .. n : Nth(f, w) = f[w]
<1>1. DOMAIN f = 1 .. n
  OBVIOUS
<1>2. f \in Seq(Range(f))
  <2>1. \A w \in 1 .. n : f[w] \in Range(f)
    BY <1>1 DEF Range
  <2> QED BY <2>1
<1> QED BY <1>1, <1>2, NthFacts

LEMMA ScalarPushed ==
    ASSUME Control, phase = "cleanup", Returned, sig.ret.agg = 0
    PROVE  /\ sig.ret.float # 16 => Len(PushedResult) = Count /\ AllWords(PushedResult)
           /\ sig.ret.float = 16 /\ Path = "scalar" => PushedResult = <<WordOf(Ret, 1), WordOf(Ret, 0)>>
           /\ sig.ret.float = 16 /\ Path # "scalar" => PushedResult = <<JunkWord>>
<1> DEFINE t == sig.ret
<1>1. sig \in Signatures /\ RetRegs
  BY DEF Control, Returned
<1>2. /\ t.float \in {0, 4, 8, 16} /\ t.count = 0 /\ ~IsMixed(t)
      /\ IsLongDouble(t) <=> t.float = 16
  BY <1>1, RetKinds
<1>3. Words(t) = 1 /\ (t.float # 16 => Count = 1)
  BY <1>1, ResultIs, Sizes, WordCounts
<1>4. ASSUME t.float = 0
      PROVE  Len(PushedResult) = 1 /\ PushedResult[1] = WordOf(Ret, 0)
  <2>1. ret.g = <<WordOf(Ret, 0)>>
    BY <1>1, <1>4 DEF RetRegs
  <2>2. ArmResult = [w \in 1 .. 1 |-> Nth(ret.g, w)] /\ X86Result = [w \in 1 .. 1 |-> Nth(ret.g, w)]
    BY <1>2, <1>3 DEF ArmResult, X86Result
  <2>3. PushedResult = [w \in 1 .. 1 |-> Nth(ret.g, w)]
    BY <1>4, <2>2 DEF PushedResult
  <2>4. Nth(ret.g, 1) = WordOf(Ret, 0)
    BY <2>1 DEF Nth
  <2> QED BY <2>3, <2>4
<1>5. ASSUME t.float = 4 \/ t.float = 8
      PROVE  PushedResult = <<WordOf(Ret, 0)>>
  <2>1. PushedResult = FloatResult
    BY <1>2, <1>5 DEF PushedResult
  <2>2. CASE t.float = 4
    <3>1. ret.s = <<Narrow(WordOf(Ret, 0))>>
      BY <1>1, <2>2 DEF RetRegs
    <3>2. Nth(ret.s, 1) = Narrow(WordOf(Ret, 0))
      BY <3>1 DEF Nth
    <3>3. Widen(Narrow(WordOf(Ret, 0))) = WordOf(Ret, 0)
      BY DEF Widen, Narrow, WordOf
    <3> QED BY <2>1, <2>2, <3>2, <3>3 DEF FloatResult
  <2>3. CASE t.float = 8
    <3>1. ret.s = <<WordOf(Ret, 0)>>
      BY <1>1, <2>3 DEF RetRegs
    <3>2. Nth(ret.s, 1) = WordOf(Ret, 0)
      BY <3>1 DEF Nth
    <3> QED BY <2>1, <2>3, <3>2 DEF FloatResult
  <2> QED BY <1>5, <2>2, <2>3
<1>6. ASSUME t.float = 16
      PROVE  /\ Path = "scalar" => PushedResult = <<WordOf(Ret, 1), WordOf(Ret, 0)>>
             /\ Path # "scalar" => PushedResult = <<JunkWord>>
  <2>1. ret.st = <<WordOf(Ret, 0), WordOf(Ret, 1)>> /\ ret.s = << >>
    BY <1>1, <1>6 DEF RetRegs
  <2>2. Path = "scalar" => PushedResult = <<ret.st[2], ret.st[1]>>
    BY <1>2, <1>6 DEF PushedResult
  <2>3. ret.st[2] = WordOf(Ret, 1) /\ ret.st[1] = WordOf(Ret, 0)
    BY <2>1
  <2>4. Path # "scalar" => PushedResult = FloatResult
    BY <1>6 DEF PushedResult
  <2>5. Nth(ret.s, 1) = JunkWord
    BY <2>1 DEF Nth
  <2>6. FloatResult = <<JunkWord>>
    BY <1>6, <2>5 DEF FloatResult
  <2> QED BY <2>2, <2>3, <2>4, <2>6
<1>7. t.float # 16 => Len(PushedResult) = Count /\ AllWords(PushedResult)
  <2>1. HAVE t.float # 16
  <2>2. Len(PushedResult) = 1 /\ PushedResult[1] = WordOf(Ret, 0)
    <3>1. CASE t.float = 0
      BY <3>1, <1>4
    <3>2. CASE t.float # 0
      <4>1. PushedResult = <<WordOf(Ret, 0)>>
        BY <1>2, <1>5, <2>1, <3>2
      <4> QED BY <4>1
    <3> QED BY <3>1, <3>2
  <2>3. \A w \in 1 .. 1 : w = 1 /\ w - 1 = 0
    OBVIOUS
  <2>4. Count = 1
    BY <1>3, <2>1
  <2> HIDE DEF t
  <2> QED BY <2>2, <2>3, <2>4 DEF AllWords
<1> QED BY <1>6, <1>7

LEMMA X86Pushed ==
    ASSUME Control, phase = "cleanup", Returned, sig.ret.agg > 0, ~Arm
    PROVE  /\ sig.ret.agg > 16 => PushedResult = << >>
           /\ sig.ret.agg <= 16 => Len(PushedResult) = Count /\ AllWords(PushedResult)
<1> DEFINE t == sig.ret
<1>1. sig \in Signatures /\ RetRegs
  BY DEF Control, Returned
<1>2. /\ t.float = 0 /\ t.agg \in Nat /\ t.count \in 0 .. 4
      /\ t.count > 0 => ~IsMixed(t)
      /\ IsMixed(t) => t.agg = 16 /\ t.count = 0 /\ t.mixed \in {<<1, 2>>, <<2, 1>>}
  BY <1>1, RetKinds
<1>3. PushedResult = X86Result
  BY <1>2 DEF PushedResult
<1>4. Words(t) \in Nat \ {0} /\ Count = Words(t) /\ (t.count > 0 => SseSlots(t) = Words(t))
      /\ Words(t) = (t.agg + 7) \div 8
  BY <1>1, ResultIs, Sizes, WordCounts
<1>5. ASSUME t.agg > 16 PROVE PushedResult = << >>
  <2>1. ~(t.agg <= 16) /\ ~IsMixed(t)
    BY <1>2, <1>5
  <2> QED BY <1>3, <1>5, <2>1 DEF X86Result
<1>6. ASSUME t.agg <= 16 PROVE Len(PushedResult) = Count /\ AllWords(PushedResult)
  <2>1. ~(t.agg > 16) /\ t.agg \in 1 .. 16
    BY <1>2, <1>6
  <2>2. ResultWords = [w \in 1 .. Count |-> WordOf(Ret, w - 1)]
    BY <1>4 DEF ResultWords
  <2>3. /\ Len(ResultWords) = Count
        /\ \A w \in 1 .. Count : Nth(ResultWords, w) = WordOf(Ret, w - 1) /\ ResultWords[w] = WordOf(Ret, w - 1)
    <3>1. \A w \in 1 .. Count : ResultWords[w] = WordOf(Ret, w - 1)
      BY <2>2
    <3>2. Count \in Nat /\ ResultWords = [w \in 1 .. Count |-> ResultWords[w]]
      BY <1>4, <2>2
    <3> QED BY <3>1, <3>2, ListFacts
  <2>4. CASE IsMixed(t)
    <3> DEFINE e1 == Nth(IF t.mixed[1] = 2 THEN ret.s ELSE ret.g, 1)
               e2 == Nth(IF t.mixed[2] = 2 THEN ret.s ELSE ret.g, 1)
    <3>1. PushedResult = <<e1, e2>>
      BY <1>2, <1>3, <2>1, <2>4 DEF X86Result
    <3>2. ret.g = <<Eightbyte(1)>> /\ ret.s = <<Eightbyte(2)>>
      BY <1>1, <2>4 DEF RetRegs
    <3>3. Nth(ret.g, 1) = Eightbyte(1) /\ Nth(ret.s, 1) = Eightbyte(2)
      BY <3>2 DEF Nth
    <3>6. e1 = WordOf(Ret, 0) /\ e2 = WordOf(Ret, 1)
      <4>1. CASE t.mixed = <<1, 2>>
        <5>1. t.mixed[1] = 1 /\ t.mixed[2] = 2
          BY <4>1
        <5>2. (CHOOSE e \in 1 .. 2 : sig.ret.mixed[e] = 1) = 1 /\ (CHOOSE e \in 1 .. 2 : sig.ret.mixed[e] = 2) = 2
          BY <5>1
        <5>3. e1 = Eightbyte(1) /\ e2 = Eightbyte(2)
          BY <3>3, <5>1
        <5>4. 1 - 1 = 0 /\ 2 - 1 = 1
          OBVIOUS
        <5> HIDE DEF e1, e2, t
        <5> QED BY <5>2, <5>3, <5>4 DEF Eightbyte
      <4>2. CASE t.mixed = <<2, 1>>
        <5>1. t.mixed[1] = 2 /\ t.mixed[2] = 1
          BY <4>2
        <5>2. (CHOOSE e \in 1 .. 2 : sig.ret.mixed[e] = 1) = 2 /\ (CHOOSE e \in 1 .. 2 : sig.ret.mixed[e] = 2) = 1
          BY <5>1
        <5>3. e1 = Eightbyte(2) /\ e2 = Eightbyte(1)
          BY <3>3, <5>1
        <5>4. 1 - 1 = 0 /\ 2 - 1 = 1
          OBVIOUS
        <5> HIDE DEF e1, e2, t
        <5> QED BY <5>2, <5>3, <5>4 DEF Eightbyte
      <4> QED BY <1>2, <2>4, <4>1, <4>2
    <3>7. Count = 2
      BY <1>2, <1>4, <2>4
    <3> HIDE DEF e1, e2, t
    <3>8. PushedResult[1] = WordOf(Ret, 0) /\ PushedResult[2] = WordOf(Ret, 1) /\ Len(PushedResult) = 2
      BY <3>1, <3>6
    <3>9. \A w \in 1 .. 2 : (w = 1 /\ w - 1 = 0) \/ (w = 2 /\ w - 1 = 1)
      OBVIOUS
    <3> QED BY <3>7, <3>8, <3>9 DEF AllWords
  <2>5. CASE ~IsMixed(t) /\ t.count > 0
    <3>1. PushedResult = [w \in 1 .. Count |-> Nth(ret.s, w)]
      BY <1>3, <1>4, <1>6, <2>1, <2>5 DEF X86Result
    <3>2. ret.s = ResultWords
      BY <1>1, <2>5 DEF RetRegs
    <3> QED BY <1>4, <2>3, <3>1, <3>2 DEF AllWords
  <2>6. CASE ~IsMixed(t) /\ ~(t.count > 0)
    <3>1. PushedResult = [w \in 1 .. Count |-> Nth(ret.g, w)]
      BY <1>3, <1>4, <1>6, <2>1, <2>6 DEF X86Result
    <3>2. ret.g = ResultWords
      BY <1>1, <1>2, <2>1, <2>6 DEF RetRegs
    <3> QED BY <1>4, <2>3, <3>1, <3>2 DEF AllWords
  <2> QED BY <2>4, <2>5, <2>6
<1> QED BY <1>5, <1>6

LEMMA ArmPushed ==
    ASSUME Control, phase = "cleanup", Returned, sig.ret.agg > 0, Arm
    PROVE  /\ Len(PushedResult) = Count
           /\ ~(sig.ret.agg > 16 /\ sig.ret.count > 0) =>
                 \A words : (\A w \in 1 .. Count : words[w] = PushedResult[w]) =>
                     \A h \in 1 .. RetHalves : HalfOf(words, h) = <<Ret, h>>
           /\ sig.ret.agg > 16 /\ sig.ret.count > 0 => PushedResult[1][1][1] # Ret
<1> DEFINE t == sig.ret
           w0(w) == IF t.elem = 8 THEN Nth(ret.s, w) ELSE <<Nth(ret.s, 2 * w - 1)[1], Nth(ret.s, 2 * w)[1]>>
<1>1. sig \in Signatures /\ RetRegs /\ \A a \in DOMAIN mem : ~InBuffer(a) => Foreign(mem[a])
  BY DEF Control, Returned
<1>2. /\ t.float = 0 /\ t.agg \in Nat /\ t.count \in 0 .. 4 /\ t.elem \in {0, 4, 8}
      /\ t.count > 0 => t.elem \in {4, 8} /\ t.agg = t.elem * t.count
  BY <1>1, RetKinds
<1>3. PushedResult = ArmResult
  BY <1>2 DEF PushedResult
<1>4. /\ Count \in Nat \ {0} /\ Count = Words(t) /\ Words(t) = (t.agg + 7) \div 8
      /\ RetHalves \in Nat \ {0} /\ RetHalves <= 2 * Count /\ RetHalves = t.agg \div 4
  BY <1>1, ResultIs, Sizes, WordCounts
<1>5. ASSUME NEW words, \A w \in 1 .. Count : words[w] = WordOf(Ret, w - 1), NEW h \in 1 .. RetHalves
      PROVE  HalfOf(words, h) = <<Ret, h>>
  <2>1. h \in Nat \ {0} /\ h <= 2 * Count /\ Count \in Nat
    BY <1>4
  <2> QED BY <1>5, <2>1, HalvesOfWords
<1>6. CASE t.agg > 16
  <2>1. ~(t.agg <= 16)
    BY <1>2, <1>6
  <2>2. PushedResult = [w \in 1 .. Count |-> Read(mem, Buffer + w - 1)]
    BY <1>3, <1>4, <1>6, <2>1 DEF ArmResult
  <2>3. Len(PushedResult) = Count
    BY <1>4, <2>2
  <2>4. ASSUME ~(t.count > 0), NEW w \in 1 .. Count
        PROVE  PushedResult[w] = WordOf(Ret, w - 1)
    <3>1. InMemory
      BY <1>2, <1>6, <2>4 DEF InMemory
    <3>2. Buffer = 100
      BY DEF Buffer
    <3>3. Buffer + w - 1 \in Buffer .. Buffer + Words(sig.ret) - 1 /\ (Buffer + w - 1) - Buffer = w - 1
      BY <1>4, <3>2
    <3>4. Buffer + w - 1 \in DOMAIN mem /\ mem[Buffer + w - 1] = WordOf(Ret, (Buffer + w - 1) - Buffer)
      BY <3>1, <3>3 DEF Returned
    <3> QED BY <2>2, <3>3, <3>4 DEF Read
  <2>5. ASSUME t.count > 0
        PROVE  PushedResult[1][1][1] # Ret
    <3>1. ~InMemory
      BY <1>2, <2>5 DEF InMemory
    <3>2. \A a \in DOMAIN mem : Foreign(mem[a])
      BY <1>1, <3>1 DEF InBuffer
    <3>3. PushedResult[1] = Read(mem, Buffer + 1 - 1)
      <4>1. 1 \in 1 .. Count
        BY <1>4
      <4> QED BY <2>2, <4>1
    <3> QED BY <3>2, <3>3 DEF Read, Foreign, JunkWord, Junk, Ret
  <2>6. ~(t.count > 0) => \A words : (\A w \in 1 .. Count : words[w] = PushedResult[w]) =>
                              \A h \in 1 .. RetHalves : HalfOf(words, h) = <<Ret, h>>
    BY <1>5, <2>4
  <2> QED BY <1>6, <2>3, <2>5, <2>6
<1>7. CASE ~(t.agg > 16) /\ t.count > 0
  <2>1. t.agg <= 16
    BY <1>2, <1>7
  <2>2. PushedResult = [w \in 1 .. Count |-> w0(w)]
    BY <1>3, <1>4, <1>7, <2>1 DEF ArmResult
  <2>3. Len(PushedResult) = Count
    <3> HIDE DEF w0
    <3> QED BY <1>4, <2>2
  <2>4. ret.s = [e \in 1 .. t.count |-> IF t.elem = 4 THEN <<<<Ret, e>>, Junk>> ELSE WordOf(Ret, e - 1)]
    BY <1>1, <1>7 DEF RetRegs
  <2>5. \A e \in 1 .. t.count : Nth(ret.s, e) = IF t.elem = 4 THEN <<<<Ret, e>>, Junk>> ELSE WordOf(Ret, e - 1)
    <3>1. ret.s = [e \in 1 .. t.count |-> ret.s[e]] /\ t.count \in Nat
      BY <1>2, <2>4
    <3>2. \A e \in 1 .. t.count : Nth(ret.s, e) = ret.s[e]
      BY <3>1, ListFacts
    <3> QED BY <2>4, <3>2
  <2>6. ASSUME NEW words, \A w \in 1 .. Count : words[w] = PushedResult[w], NEW h \in 1 .. RetHalves
        PROVE  HalfOf(words, h) = <<Ret, h>>
    <3>1. CASE t.elem = 8
      <4>1. Count = t.count
        BY <1>2, <1>4, <1>7, <3>1
      <4>2. \A w \in 1 .. Count : words[w] = WordOf(Ret, w - 1)
        <5>1. TAKE w \in 1 .. Count
        <5>2. words[w] = Nth(ret.s, w)
          BY <2>2, <2>6, <3>1
        <5>3. Nth(ret.s, w) = WordOf(Ret, w - 1)
          <6>1. w \in 1 .. t.count /\ t.elem # 4
            BY <3>1, <4>1
          <6> HIDE DEF t
          <6> QED BY <2>5, <6>1
        <5> QED BY <5>2, <5>3
      <4> QED BY <4>2, <1>5
    <3>2. CASE t.elem = 4
      <4>1. RetHalves = t.count
        BY <1>2, <1>4, <1>7, <3>2
      <4>2. PICK w \in Nat \ {0} :
               \/ h = 2 * w - 1 /\ \A x : HalfOf(x, h) = x[w][1]
               \/ h = 2 * w /\ \A x : HalfOf(x, h) = x[w][2]
        <5>1. h \in Nat \ {0}
          OBVIOUS
        <5> QED BY <5>1, HalfAt
      <4>3. w \in 1 .. Count
        BY <1>4, <4>2
      <4>4. words[w] = <<Nth(ret.s, 2 * w - 1)[1], Nth(ret.s, 2 * w)[1]>>
        BY <2>2, <2>6, <3>2, <4>3
      <4>5. Nth(ret.s, h) = <<<<Ret, h>>, Junk>>
        BY <2>5, <3>2, <4>1
      <4>6. CASE h = 2 * w - 1 /\ \A x : HalfOf(x, h) = x[w][1]
        <5>1. words[w][1] = Nth(ret.s, h)[1]
          BY <4>4, <4>6
        <5> QED BY <4>5, <4>6, <5>1
      <4>7. CASE h = 2 * w /\ \A x : HalfOf(x, h) = x[w][2]
        <5>1. words[w][2] = Nth(ret.s, h)[1]
          BY <4>4, <4>7
        <5> QED BY <4>5, <4>7, <5>1
      <4> QED BY <4>2, <4>6, <4>7
    <3> QED BY <1>2, <1>7, <3>1, <3>2
  <2> QED BY <1>7, <2>3, <2>6
<1>8. CASE ~(t.agg > 16) /\ ~(t.count > 0)
  <2>1. PushedResult = [w \in 1 .. Count |-> Nth(ret.g, w)]
    BY <1>3, <1>4, <1>8 DEF ArmResult
  <2>2. ret.g = [w \in 1 .. Count |-> WordOf(Ret, w - 1)]
    <3>1. t.agg \in 1 .. 16 /\ t.count = 0
      BY <1>2, <1>8
    <3>2. ret.g = ResultWords
      BY <1>1, <3>1 DEF RetRegs
    <3> QED BY <1>4, <3>2 DEF ResultWords
  <2>3. \A w \in 1 .. Count : PushedResult[w] = WordOf(Ret, w - 1)
    <3>1. ret.g = [w \in 1 .. Count |-> ret.g[w]] /\ Count \in Nat
      BY <2>2, <1>4
    <3>2. \A w \in 1 .. Count : Nth(ret.g, w) = ret.g[w]
      BY <3>1, ListFacts
    <3> QED BY <2>1, <2>2, <3>2
  <2>4. Len(PushedResult) = Count
    BY <1>4, <2>1
  <2>5. \A words : (\A w \in 1 .. Count : words[w] = PushedResult[w]) =>
            \A h \in 1 .. RetHalves : HalfOf(words, h) = <<Ret, h>>
    BY <1>5, <2>3
  <2> QED BY <1>8, <2>4, <2>5
<1> QED BY <1>6, <1>7, <1>8

\* What the store is going to read, and how much it takes off the stack.
Upwards == ~Arm /\ (sig.ret.agg > 16 \/ IsLongDouble(sig.ret))
Stored(w) == Read(mem, IF Upwards THEN sp + w - 1 ELSE sp + Unit * (Count - w))
StoredWords == [w \in 1 .. Count |-> Stored(w)]
Popped == IF Upwards THEN RoundUp2(Count) ELSE Unit * Count
Left == IF Path = "aggregate" THEN N * Unit - EvalTotal[N] ELSE 0

StoreInv ==
    phase = "store" =>
        /\ sp \in Int
        /\ ~Lost => /\ \A h \in 1 .. RetHalves : HalfOf(StoredWords, h) = <<Ret, h>>
                    /\ sp + Popped = Left
        /\ Lost => HalfOf(StoredWords, 1) # <<Ret, 1>>

LEMMA HalfOne == \A words : HalfOf(words, 1) = words[1][1]
<1>1. (1 + 1) \div 2 = 1 /\ 2 - (1 % 2) = 1
  OBVIOUS
<1> QED BY <1>1 DEF HalfOf

(* The words pushed, and the stack pointer at the last of them.            *)
LEMMA CleanupPushes ==
    ASSUME Control, Cleanup, Len(PushedResult) \in Nat
    PROVE  /\ sp' = Base + Released - Unit * Len(PushedResult) /\ sp' \in Int
           /\ \A j \in 1 .. Len(PushedResult) :
                 Read(mem', sp' + Unit * (j - 1)) = PushedResult[Len(PushedResult) - j + 1]
           /\ Len(PushedResult) = 0 => \A a : Read(mem', a) = Read(mem, a)
<1> DEFINE words == PushedResult
           top == sp + Released - Unit * Len(words)
           D == {top + Unit * (j - 1) : j \in 1 .. Len(words)}
           new == [a \in D |-> words[Len(words) - (a - top) \div Unit]]
<1>1. sig \in Signatures /\ sp = Base /\ sp' = top /\ mem' = Over(new, mem)
  BY DEF Control, Called, Cleanup
<1>2. Unit \in {1, 2} /\ PtrWords \in Nat /\ N \in Nat /\ EvalTotal[N] \in Nat /\ reserved \in Nat /\ Base \in Int
  <2>1. N \in Nat /\ N \in 0 .. N
    BY <1>1, Sizes
  <2> QED BY <1>1, <2>1, Sizes, EvalTotals, BaseIsInt DEF Control
<1>3. Released \in Int
  BY <1>2 DEF Released
<1>4. top \in Int
  BY <1>1, <1>2, <1>3
<1>5. /\ DOMAIN mem' = D \cup DOMAIN mem
      /\ \A a \in D : mem'[a] = new[a]
      /\ \A a \in DOMAIN mem : a \notin D => mem'[a] = mem[a]
  <2>1. DOMAIN new = D
    OBVIOUS
  <2> HIDE DEF new
  <2>2. /\ DOMAIN Over(new, mem) = DOMAIN new \cup DOMAIN mem
        /\ \A a \in DOMAIN new : Over(new, mem)[a] = new[a]
        /\ \A a \in DOMAIN mem : a \notin DOMAIN new => Over(new, mem)[a] = mem[a]
    BY OverFacts
  <2> QED BY <1>1, <2>1, <2>2
<1>6. ASSUME NEW j \in 1 .. Len(words)
      PROVE  Read(mem', sp' + Unit * (j - 1)) = words[Len(words) - j + 1]
  <2> DEFINE a == top + Unit * (j - 1)
             n == Len(words)
  <2>1. a \in D
    OBVIOUS
  <2>2. n \in Nat /\ j \in 1 .. n
    OBVIOUS
  <2> HIDE DEF top, n, words
  <2>3. (a - top) \div Unit = j - 1
    <3>1. CASE Unit = 1
      BY <3>1, <1>4, <2>2
    <3>2. CASE Unit = 2
      BY <3>2, <1>4, <2>2
    <3> QED BY <3>1, <3>2, <1>2
  <2>4. new[a] = words[n - (a - top) \div Unit]
    BY <2>1 DEF n
  <2>5. n - (j - 1) = n - j + 1
    BY <2>2
  <2>6. sp' + Unit * (j - 1) = a
    BY <1>1
  <2> HIDE DEF a, new, D
  <2>7. a \in DOMAIN mem' /\ mem'[a] = words[n - j + 1]
    BY <2>1, <2>3, <2>4, <2>5, <1>5
  <2> QED BY <2>6, <2>7 DEF Read, n
<1>7. ASSUME Len(words) = 0
      PROVE  \A a : Read(mem', a) = Read(mem, a)
  <2>1. D = {}
    BY <1>7
  <2> HIDE DEF D
  <2> QED BY <2>1, <1>5 DEF Read
<1> QED BY <1>1, <1>4, <1>6, <1>7

LEMMA StackBack ==
    ASSUME Control, ~Lost, Len(PushedResult) = IF sig.ret.agg > 16 /\ ~Arm THEN 0 ELSE Count
    PROVE  Base + Released - Unit * Len(PushedResult) + Popped = Left
<1> DEFINE t == sig.ret
<1>1. sig \in Signatures /\ reserved \in Nat /\ N \in Nat /\ PtrWords \in Nat /\ RetBuffer \in Nat /\ Unit \in {1, 2}
      /\ EvalTotal[N] \in Nat /\ Count \in Nat \ {0}
  <2>1. sig \in Signatures /\ reserved \in Nat
    BY DEF Control
  <2>2. N \in Nat /\ N \in 0 .. N
    BY <2>1, Sizes
  <2> QED BY <2>1, <2>2, Sizes, EvalTotals, ResultIs
<1>2. /\ t.agg \in Nat /\ (IsLongDouble(t) => t.agg = 0 /\ ~Arm /\ Count = 2)
      /\ t.agg > 0 => Count = (t.agg + 7) \div 8
  <2>1. t.agg > 0 => Words(t) = (t.agg + 7) \div 8
    BY <1>1, Sizes, WordCounts
  <2> QED BY <1>1, <2>1, RetKinds, ResultIs
<1>3. /\ Path \in {"scalar", "vararg", "aggregate", "plain"}
      /\ Path = "plain" => ~HasFloat /\ t.agg = 0
      /\ Path = "vararg" => Arm /\ t.agg <= 16
      /\ Path = "scalar" => t.agg = 0
      /\ Path # "aggregate" => RetBuffer = 0
      /\ (Arm \/ ~Indirect) => RetBuffer = 0
  BY <1>1, PathFacts
<1>4. ArgAddr(N) = -(PtrWords + EvalTotal[N]) /\ ArgAddr(N) \in Int
  BY <1>1 DEF ArgAddr
<1>8. Released \in Int /\ Base \in Int
  <2>1. N * Unit \in Nat
    BY <1>1
  <2> QED BY <1>1, <2>1, BaseIsInt DEF Released
<1>5. Base + Released = IF Path = "aggregate" THEN N * Unit - EvalTotal[N] - RetBuffer ELSE 0
  <2>0. N * Unit \in Nat
    BY <1>1
  <2>1. CASE Path = "scalar"
    BY SMTT(30), <2>1, <1>1, <1>3, <1>4 DEF Base, Released
  <2>2. CASE Path = "plain"
    BY <2>2, <1>1, <1>3, <1>4 DEF Base, Released
  <2>3. CASE Path = "aggregate"
    <3>1. Base = -(PtrWords + EvalTotal[N]) - RetBuffer - reserved
      BY <2>3, <1>4 DEF Base
    <3>2. Released = reserved + N * Unit + PtrWords
      BY <2>3 DEF Released
    <3>3. \A p, e, r, v, u \in Int : -(p + e) - r - v + (v + u + p) = u - e - r
      OBVIOUS
    <3>4. N * Unit \in Int /\ EvalTotal[N] \in Int /\ RetBuffer \in Int /\ PtrWords \in Int /\ reserved \in Int
      BY <2>0, <1>1
    <3> QED BY SMTT(30), <2>3, <3>1, <3>2, <3>3, <3>4
  <2>4. CASE Path = "vararg"
    <3>1. EvalTotal[N] = N * Unit
      <4>1. \A i \in 1 .. N : ~IsLongDouble(Params[i])
        <5>1. TAKE i \in 1 .. N
        <5>2. IsType(Params[i], Target)
          BY <1>1, Sizes
        <5> QED BY <5>2, <2>4, <1>3, TypeKinds DEF Arm, Target
      <4> QED BY <4>1, <1>1, EvalTotalUnits
    <3>2. RetBuffer = 0 /\ Path # "plain" /\ Path # "scalar" /\ Path # "aggregate"
      BY <2>4, <1>3
    <3>3. Base = -(PtrWords + EvalTotal[N]) - 0 - reserved
      BY <1>4, <3>2 DEF Base
    <3>4. Released = reserved + EvalTotal[N] + PtrWords
      BY <3>1, <3>2 DEF Released
    <3>5. Base + Released = 0
      BY SMTT(30), <3>3, <3>4, <1>1
    <3> QED BY <3>2, <3>5
  <2> QED BY <2>1, <2>2, <2>3, <2>4, <1>3
<1>6. CASE t.agg > 16 /\ ~Arm
  <2>1. Indirect /\ Path = "aggregate"
    <3>1. Indirect
      BY <1>6 DEF Indirect
    <3> QED BY <3>1, <1>1, PathFacts
  <2>2. RetBuffer = 2 * ((t.agg + 15) \div 16)
    BY <2>1, <1>6 DEF RetBuffer
  <2>3. RoundUp2(Count) = 2 * ((t.agg + 15) \div 16)
    <3>1. \A x \in Nat : 2 * (((x + 7) \div 8 + 1) \div 2) = 2 * ((x + 15) \div 16)
      OBVIOUS
    <3>2. Count = (t.agg + 7) \div 8
      BY <1>2, <1>6
    <3> QED BY <3>1, <3>2, <1>2 DEF RoundUp2
  <2>4. Len(PushedResult) = 0 /\ Popped = RetBuffer
    BY <1>6, <2>2, <2>3 DEF Popped, Upwards
  <2>5. Base + Released = N * Unit - EvalTotal[N] - RetBuffer /\ Left = N * Unit - EvalTotal[N]
    BY <1>5, <2>1 DEF Left
  <2>6. Unit * Len(PushedResult) = 0
    BY <1>1, <2>4
  <2>7. N * Unit - EvalTotal[N] \in Int
    <3>1. N * Unit \in Int
      BY <1>1
    <3> QED BY <3>1, <1>1
  <2>8. \A x, b, r, z \in Int : b + r = x - z => b + r - 0 + z = x
    OBVIOUS
  <2> QED BY SMTT(30), <2>4, <2>5, <2>6, <2>7, <2>8, <1>1, <1>8
<1>7. CASE ~(t.agg > 16 /\ ~Arm)
  <2>1. Len(PushedResult) = Count
    BY <1>7
  <2>2. RetBuffer = 0
    BY <1>3, <1>7 DEF Indirect
  <2>3. Popped = Unit * Count
    <3>1. CASE IsLongDouble(t)
      <4>1. Count = 2 /\ ~Arm /\ Upwards /\ Unit = 1
        BY <1>2, <3>1 DEF Upwards, Unit
      <4> QED BY <4>1 DEF Popped, RoundUp2
    <3>2. CASE ~IsLongDouble(t)
      BY <1>7, <3>2 DEF Popped, Upwards
    <3> QED BY <3>1, <3>2
  <2>4. Base + Released - Unit * Count + Unit * Count = Base + Released
    <3>1. Unit * Count \in Int
      BY <1>1
    <3>2. \A b, r, u \in Int : b + r - u + u = b + r
      OBVIOUS
    <3> QED BY <3>1, <3>2, <1>8
  <2>5. Base + Released = Left
    <3>1. Path = "aggregate" => Base + Released = N * Unit - EvalTotal[N] - 0
      BY <1>5, <2>2
    <3>2. N * Unit \in Int /\ EvalTotal[N] \in Int
      BY <1>1
    <3>3. \A x, y \in Int : x - y - 0 = x - y
      OBVIOUS
    <3> QED BY <3>1, <3>2, <3>3, <1>5 DEF Left
  <2> QED BY <2>1, <2>3, <2>4, <2>5
<1> QED BY <1>6, <1>7

LEMMA RetStays ==
    ASSUME sig' = sig
    PROVE  /\ Count' = Count /\ RetHalves' = RetHalves /\ (Upwards' <=> Upwards) /\ Unit' = Unit
           /\ Popped' = Popped /\ Left' = Left /\ (Lost' <=> Lost) /\ Result' = Result
           /\ (ResultGap' <=> ResultGap)
<1>1. N' = N /\ Params' = Params /\ Path' = Path /\ Arm' = Arm /\ Unit' = Unit /\ Indirect' = Indirect
      /\ EvalTotal' = EvalTotal
  BY SigStays
<1>2. Count' = Count /\ RetHalves' = RetHalves /\ Result' = Result
  BY DEF Count, RetHalves, Result, IsLongDouble, Words, HalvesOf, Value
<1>3. Upwards' <=> Upwards
  BY <1>1 DEF Upwards, IsLongDouble
<1>4. Popped' = Popped
  BY <1>1, <1>2 DEF Popped, Upwards, RoundUp2, IsLongDouble
<1> QED BY <1>1, <1>2, <1>3, <1>4 DEF Left, Lost, ResultGap, IsLongDouble

LEMMA CleanupGives ==
    ASSUME Control, Returned, Cleanup
    PROVE  StoreInv'
<1> DEFINE t == sig.ret
           words == PushedResult
<1>1. sig \in Signatures /\ sig' = sig /\ phase = "cleanup" /\ sp = Base
  BY DEF Control, Called, Cleanup
<1>2. /\ t.agg \in Nat /\ t.float \in {0, 4, 8, 16} /\ t.count \in 0 .. 4
      /\ t.float # 0 => t.agg = 0
      /\ t.agg = 0 => t.count = 0
      /\ IsLongDouble(t) <=> t.float = 16
      /\ t.float = 16 => ~Arm
  BY <1>1, RetKinds
<1>3. /\ Count' = Count /\ RetHalves' = RetHalves /\ (Upwards' <=> Upwards) /\ Unit' = Unit
      /\ Popped' = Popped /\ Left' = Left /\ (Lost' <=> Lost)
  BY <1>1, RetStays
<1>4. RetHalves \in Nat \ {0} /\ Count \in Nat \ {0} /\ RetHalves <= 2 * Count /\ Unit \in {1, 2} /\ (~Arm => Unit = 1)
  BY <1>1, ResultIs, Sizes DEF Unit
<1>5. \A w : Stored(w)' = Read(mem', IF Upwards THEN sp' + w - 1 ELSE sp' + Unit * (Count - w))
  BY <1>3 DEF Stored
<1>6. StoredWords' = [w \in 1 .. Count |-> Read(mem', IF Upwards THEN sp' + w - 1 ELSE sp' + Unit * (Count - w))]
  BY <1>3, <1>5 DEF StoredWords
<1>7. \A w \in 1 .. Count : StoredWords'[w] = Read(mem', IF Upwards THEN sp' + w - 1 ELSE sp' + Unit * (Count - w))
  BY <1>6
<1>8. SUFFICES /\ sp' \in Int
               /\ ~Lost => /\ \A h \in 1 .. RetHalves : HalfOf(StoredWords', h) = <<Ret, h>>
                           /\ sp' + Popped = Left
               /\ Lost => HalfOf(StoredWords', 1) # <<Ret, 1>>
  BY <1>3 DEF StoreInv
<1>9. 1 \in 1 .. Count
  BY <1>4
<1>10. ASSUME NEW all, \A w \in 1 .. Count : all[w] = WordOf(Ret, w - 1)
       PROVE  \A h \in 1 .. RetHalves : HalfOf(all, h) = <<Ret, h>>
  <2>1. TAKE h \in 1 .. RetHalves
  <2>2. h \in Nat \ {0} /\ h <= 2 * Count /\ Count \in Nat
    BY <1>4
  <2> QED BY <1>10, <2>2, HalvesOfWords
\* The words pushed, read downwards.
<1>11. ASSUME ~Upwards, Len(words) = Count
       PROVE  \A w \in 1 .. Count : StoredWords'[w] = words[w]
  <2>1. TAKE w \in 1 .. Count
  <2> DEFINE j == Count - w + 1
  <2>2. j \in 1 .. Count /\ j - 1 = Count - w /\ Count - j + 1 = w
    BY <1>4
  <2>3. Read(mem', sp' + Unit * (j - 1)) = words[Len(words) - j + 1]
    BY <1>1, <1>4, <1>11, <2>2, CleanupPushes
  <2> HIDE DEF j
  <2> QED BY <1>7, <1>11, <2>2, <2>3
<1>12. CASE t.agg = 0 /\ t.float # 16
  <2>1. Len(words) = Count /\ AllWords(words)
    BY <1>1, <1>12, ScalarPushed
  <2>2. ~Upwards /\ ~Lost
    BY <1>2, <1>12 DEF Upwards, Lost, Indirect
  <2>3. \A w \in 1 .. Count : StoredWords'[w] = WordOf(Ret, w - 1)
    BY <1>11, <2>1, <2>2 DEF AllWords
  <2>4. \A h \in 1 .. RetHalves : HalfOf(StoredWords', h) = <<Ret, h>>
    BY <1>10, <2>3
  <2>5. sp' = Base + Released - Unit * Len(words) /\ sp' \in Int
    BY <1>4, <2>1, CleanupPushes
  <2>6. Len(words) = IF sig.ret.agg > 16 /\ ~Arm THEN 0 ELSE Count
    BY <1>12, <2>1
  <2>7. sp' + Popped = Left
    BY <2>2, <2>5, <2>6, StackBack
  <2> QED BY <2>2, <2>4, <2>5, <2>7
<1>13. CASE t.float = 16
  <2>1. t.agg = 0 /\ ~Arm /\ IsLongDouble(t) /\ Upwards /\ Count = 2 /\ RetHalves = 4 /\ Unit = 1
    BY <1>1, <1>2, <1>4, <1>13, ResultIs DEF Upwards
  <2>2. Lost <=> Path = "aggregate"
    BY <1>2, <2>1 DEF Lost, Indirect
  <2>3. Path \in {"scalar", "aggregate"}
    <3>1. HasFloat
      BY <1>13 DEF HasFloat
    <3>2. ~(Path = "vararg" \/ Path = "plain")
      BY <1>1, <2>1, <3>1, PathFacts
    <3> QED BY <1>1, <3>2, PathFacts
  <2>4. CASE Path = "scalar"
    <3>1. words = <<WordOf(Ret, 1), WordOf(Ret, 0)>>
      BY <1>1, <1>13, <2>1, <2>4, ScalarPushed
    <3>2. Len(words) = 2 /\ words[1] = WordOf(Ret, 1) /\ words[2] = WordOf(Ret, 0)
      BY <3>1
    <3> HIDE DEF words
    <3>3. \A j \in 1 .. 2 : Read(mem', sp' + Unit * (j - 1)) = words[2 - j + 1]
      BY <3>2, CleanupPushes DEF words
    <3>4. sp' = Base + Released - Unit * Len(words) /\ sp' \in Int
      BY <3>2, CleanupPushes DEF words
    <3>5. \A w \in 1 .. 2 : StoredWords'[w] = WordOf(Ret, w - 1)
      <4>1. Read(mem', sp' + Unit * (1 - 1)) = words[2 - 1 + 1] /\ Read(mem', sp' + Unit * (2 - 1)) = words[2 - 2 + 1]
        BY <3>3
      <4>2. sp' + Unit * (1 - 1) = sp' + 1 - 1 /\ sp' + Unit * (2 - 1) = sp' + 2 - 1 /\ 2 - 1 + 1 = 2 /\ 2 - 2 + 1 = 1
        BY <2>1, <3>4
      <4>3. StoredWords'[1] = Read(mem', sp' + 1 - 1) /\ StoredWords'[2] = Read(mem', sp' + 2 - 1)
        BY <1>7, <2>1
      <4>4. \A w \in 1 .. 2 : (w = 1 /\ w - 1 = 0) \/ (w = 2 /\ w - 1 = 1)
        OBVIOUS
      <4> QED BY <4>1, <4>2, <4>3, <4>4, <3>2
    <3>6. \A h \in 1 .. RetHalves : HalfOf(StoredWords', h) = <<Ret, h>>
      BY <1>10, <2>1, <3>5
    <3>7. ~Lost
      BY <2>2, <2>4
    <3>8. Len(words) = IF sig.ret.agg > 16 /\ ~Arm THEN 0 ELSE Count
      BY <2>1, <3>2
    <3>9. sp' + Popped = Left
      BY <3>4, <3>7, <3>8, StackBack DEF words
    <3> QED BY <3>4, <3>6, <3>7, <3>9
  <2>5. CASE Path = "aggregate"
    <3>1. words = <<JunkWord>>
      BY <1>1, <1>13, <2>1, <2>5, ScalarPushed
    <3>2. Len(words) = 1 /\ words[1] = JunkWord
      BY <3>1
    <3> HIDE DEF words
    <3>3. \A j \in 1 .. 1 : Read(mem', sp' + Unit * (j - 1)) = words[1 - j + 1]
      BY <3>2, CleanupPushes DEF words
    <3>4. sp' \in Int
      BY <3>2, CleanupPushes DEF words
    <3>5. StoredWords'[1] = JunkWord
      <4>1. Read(mem', sp' + Unit * (1 - 1)) = words[1 - 1 + 1]
        BY <3>3
      <4>2. sp' + Unit * (1 - 1) = sp' + 1 - 1 /\ 1 - 1 + 1 = 1
        BY <2>1, <3>4
      <4>3. StoredWords'[1] = Read(mem', sp' + 1 - 1)
        BY <1>7, <1>9, <2>1
      <4> QED BY <4>1, <4>2, <4>3, <3>2
    <3>6. HalfOf(StoredWords', 1) # <<Ret, 1>>
      BY <3>5, HalfOne DEF JunkWord, Junk, Ret
    <3> QED BY <2>2, <2>5, <3>4, <3>6
  <2> QED BY <2>3, <2>4, <2>5
<1>14. CASE t.agg > 0 /\ ~(t.agg > 16 /\ ~Arm)
  <2>1. ~Upwards
    BY <1>2, <1>14 DEF Upwards
  <2>2. /\ Len(words) = Count
        /\ ~(t.agg > 16 /\ t.count > 0) =>
              \A all : (\A w \in 1 .. Count : all[w] = words[w]) =>
                  \A h \in 1 .. RetHalves : HalfOf(all, h) = <<Ret, h>>
        /\ t.agg > 16 /\ t.count > 0 => words[1][1][1] # Ret
    <3>1. CASE Arm
      BY <1>1, <1>14, <3>1, ArmPushed
    <3>2. CASE ~Arm
      <4>1. Len(words) = Count /\ AllWords(words) /\ ~(t.agg > 16)
        BY <1>1, <1>2, <1>14, <3>2, X86Pushed
      <4>2. ASSUME NEW all, \A w \in 1 .. Count : all[w] = words[w]
            PROVE  \A h \in 1 .. RetHalves : HalfOf(all, h) = <<Ret, h>>
        <5>1. \A w \in 1 .. Count : all[w] = WordOf(Ret, w - 1)
          BY <4>1, <4>2 DEF AllWords
        <5> QED BY <5>1, <1>10
      <4> QED BY <4>1, <4>2
    <3> QED BY <3>1, <3>2
  <2> HIDE DEF words
  <2>3. \A w \in 1 .. Count : StoredWords'[w] = words[w]
    BY <1>11, <2>1, <2>2
  <2>4. Lost <=> (t.agg > 16 /\ t.count > 0)
    BY <1>2, <1>14 DEF Lost, Indirect
  <2>5. sp' = Base + Released - Unit * Len(words) /\ sp' \in Int
    BY <1>4, <2>2, CleanupPushes DEF words
  <2>6. ~Lost => sp' + Popped = Left
    <3>1. Len(words) = IF sig.ret.agg > 16 /\ ~Arm THEN 0 ELSE Count
      BY <1>14, <2>2
    <3> QED BY <2>5, <3>1, StackBack DEF words
  <2>7. Lost => HalfOf(StoredWords', 1) # <<Ret, 1>>
    <3>1. HAVE Lost
    <3>2. words[1][1][1] # Ret
      BY <2>2, <2>4, <3>1
    <3>3. HalfOf(StoredWords', 1) = words[1][1]
      BY <2>3, <1>9, HalfOne
    <3> QED BY <3>2, <3>3
  <2>8. ~Lost => \A h \in 1 .. RetHalves : HalfOf(StoredWords', h) = <<Ret, h>>
    BY <2>2, <2>3, <2>4
  <2> QED BY <2>5, <2>6, <2>7, <2>8
<1>15. CASE t.agg > 16 /\ ~Arm
  <2>1. Upwards /\ Indirect /\ Unit = 1 /\ ~IsLongDouble(t) /\ PtrWords = 0 /\ Path = "aggregate"
    <3>1. Indirect
      BY <1>15 DEF Indirect
    <3> QED BY <3>1, <1>1, <1>2, <1>4, <1>15, PathFacts DEF Upwards
  <2>2. words = << >>
    BY <1>1, <1>2, <1>15, X86Pushed
  <2>3. Len(words) = 0
    BY <2>2
  <2> HIDE DEF words
  <2>4. (\A a : Read(mem', a) = Read(mem, a)) /\ sp' = Base + Released - Unit * Len(words) /\ sp' \in Int
    BY <2>3, CleanupPushes DEF words
  <2>5. N \in Nat /\ reserved \in Nat /\ Base \in Int
    BY <1>1, Sizes, BaseIsInt DEF Control
  <2>6. Buffer = Base + reserved /\ Buffer \in Int
    BY <1>1, <1>15, <2>5 DEF Buffer
  <2>7. Released = reserved + N * 1 + 0
    BY <2>1 DEF Released
  <2>8. sp' = Buffer + N
    BY <2>1, <2>3, <2>4, <2>5, <2>6, <2>7
  <2>9. \A w \in 1 .. Count : StoredWords'[w] = Read(mem, Buffer + N + w - 1)
    BY <1>7, <2>1, <2>4, <2>8
  <2>10. Lost <=> t.count > 0 \/ N > 0
    BY <1>15, <2>1 DEF Lost
  <2>11. /\ InMemory => \A a \in Buffer .. Buffer + Words(sig.ret) - 1 : a \in DOMAIN mem /\ mem[a] = WordOf(Ret, a - Buffer)
         /\ \A a \in DOMAIN mem : ~InBuffer(a) => Foreign(mem[a])
    BY <1>1 DEF Returned
  <2>12. Count = Words(t)
    BY <1>1, <1>2, <1>15, ResultIs
  <2>13. ASSUME ~Lost
         PROVE  \A w \in 1 .. Count : StoredWords'[w] = WordOf(Ret, w - 1)
    <3>1. TAKE w \in 1 .. Count
    <3>2. InMemory /\ N = 0
      BY <1>2, <1>15, <2>5, <2>10, <2>13 DEF InMemory
    <3>3. Buffer + w - 1 \in Buffer .. Buffer + Words(sig.ret) - 1 /\ (Buffer + w - 1) - Buffer = w - 1
      BY <2>6, <2>12, <1>4
    <3>4. Buffer + N + w - 1 = Buffer + w - 1
      BY <2>6, <3>2
    <3>5. Buffer + w - 1 \in DOMAIN mem /\ mem[Buffer + w - 1] = WordOf(Ret, (Buffer + w - 1) - Buffer)
      BY <2>11, <3>2, <3>3
    <3> QED BY <2>9, <3>3, <3>4, <3>5 DEF Read
  <2>14. ASSUME Lost
         PROVE  HalfOf(StoredWords', 1) # <<Ret, 1>>
    <3> DEFINE a == Buffer + N
    <3>1. StoredWords'[1] = Read(mem, a)
      <4>1. Buffer + N + 1 - 1 = Buffer + N
        BY <2>5, <2>6
      <4> QED BY <1>9, <2>9, <4>1
    <3>2. CASE a \in DOMAIN mem /\ InBuffer(a)
      <4>1. N > 0
        BY <1>2, <2>10, <2>14, <3>2 DEF InBuffer, InMemory
      <4>2. a - Buffer = N
        BY <2>5, <2>6
      <4>3. mem[a] = WordOf(Ret, a - Buffer)
        BY <2>11, <3>2 DEF InBuffer
      <4>4. Read(mem, a)[1] = <<Ret, 2 * N + 1>>
        BY <3>2, <4>2, <4>3 DEF Read, WordOf
      <4>5. 2 * N + 1 # 1
        BY <4>1, <2>5
      <4> QED BY <3>1, <4>4, <4>5, HalfOne
    <3>3. CASE a \in DOMAIN mem /\ ~InBuffer(a)
      <4>1. Read(mem, a)[1][1] # Ret
        BY <2>11, <3>3 DEF Read, Foreign
      <4> QED BY <3>1, <4>1, HalfOne
    <3>4. CASE a \notin DOMAIN mem
      <4>1. Read(mem, a) = JunkWord
        BY <3>4 DEF Read
      <4> QED BY <3>1, <4>1, HalfOne DEF JunkWord, Junk, Ret
    <3> QED BY <3>2, <3>3, <3>4
  <2>15. ~Lost => sp' + Popped = Left
    <3>1. Len(words) = IF sig.ret.agg > 16 /\ ~Arm THEN 0 ELSE Count
      BY <1>15, <2>3
    <3> QED BY <2>4, <3>1, StackBack DEF words
  <2> QED BY <1>10, <2>4, <2>13, <2>14, <2>15
<1> QED BY <1>2, <1>12, <1>13, <1>14, <1>15

LEMMA GapIs ==
    ASSUME sig \in Signatures
    PROVE  ResultGap <=> Lost \/ Left # 0
<1>1. EvalTotal[N] \in Nat /\ (EvalTotal[N] = N * Unit <=> ~\E i \in 1 .. N : IsLongDouble(Params[i]))
  BY EvalTotalUnits
<1>2. N * Unit \in Int
  BY Sizes
<1>3. \A x, y \in Int : x - y # 0 <=> y # x
  OBVIOUS
<1>4. Left # 0 <=> Path = "aggregate" /\ \E i \in 1 .. N : IsLongDouble(Params[i])
  BY <1>1, <1>2, <1>3 DEF Left
<1>5. \A i \in 1 .. N : IsLongDouble(Params[i]) => ~Arm
  <2>1. TAKE i \in 1 .. N
  <2>2. IsType(Params[i], Target)
    BY Sizes
  <2> QED BY <2>2, TypeKinds DEF Arm, Target
<1> QED BY <1>4, <1>5 DEF ResultGap, Lost

LEMMA StoreGives ==
    ASSUME Control, StoreInv, Store
    PROVE  ResultArrives'
<1>1. sig \in Signatures /\ sig' = sig /\ phase = "store"
  BY DEF Control, Store
<1>2. got' = [h \in 1 .. 2 * Count |-> HalfOf(StoredWords, h)] /\ sp' = sp + Popped
  BY DEF Store, Count, StoredWords, Stored, Upwards, Popped
<1>3. /\ RetHalves \in Nat \ {0} /\ Count \in Nat \ {0} /\ RetHalves <= 2 * Count
      /\ Len(Result) = RetHalves /\ \A h \in 1 .. RetHalves : Result[h] = <<Ret, h>>
  BY <1>1, ResultIs
<1>4. \A h \in 1 .. RetHalves : got'[h] = HalfOf(StoredWords, h)
  BY <1>2, <1>3
<1>5. Result' = Result /\ (ResultGap' <=> ResultGap)
  BY <1>1, RetStays
<1>6. /\ ~Lost => /\ \A h \in 1 .. RetHalves : HalfOf(StoredWords, h) = <<Ret, h>>
                  /\ sp + Popped = Left
      /\ Lost => HalfOf(StoredWords, 1) # <<Ret, 1>>
  BY <1>1 DEF StoreInv
<1>7. ResultGap <=> sp' # 0 \/ \E h \in 1 .. Len(Result) : got'[h] # Result[h]
  <2>1. CASE Lost
    <3>1. 1 \in 1 .. RetHalves
      BY <1>3
    <3>2. got'[1] # Result[1]
      BY <1>3, <1>4, <1>6, <2>1, <3>1
    <3> QED BY <1>1, <1>3, <2>1, <3>1, <3>2, GapIs
  <2>2. CASE ~Lost
    <3>1. \A h \in 1 .. Len(Result) : got'[h] = Result[h]
      BY <1>3, <1>4, <1>6, <2>2
    <3>2. sp' = Left
      BY <1>2, <1>6, <2>2
    <3> QED BY <1>1, <2>2, <3>1, <3>2, GapIs
  <2> QED BY <2>1, <2>2
<1> QED BY <1>5, <1>7 DEF ResultArrives

ResultInv == Control /\ KInv /\ Data /\ Returned /\ StoreInv /\ ResultArrives

LEMMA ResultInit == Init => ResultInv
<1>1. Init => phase = "evaluate"
  BY DEF Init
<1> QED BY <1>1, InitControl, InitData DEF ResultInv, Returned, StoreInv, ResultArrives

LEMMA ResultStep == ResultInv /\ [Next]_vars => ResultInv'
<1> SUFFICES ASSUME ResultInv, [Next]_vars PROVE ResultInv'
  OBVIOUS
<1>1. Control' /\ KInv' /\ Data' /\ Control /\ Data /\ Returned /\ StoreInv /\ ResultArrives
  BY ControlStays, DataStays DEF ResultInv
<1>2. CASE Return
  <2>1. phase' = "cleanup"
    BY <1>2 DEF Return
  <2> QED BY <1>1, <1>2, <2>1, ReturnGives DEF ResultInv, StoreInv, ResultArrives
<1>3. CASE Cleanup
  <2>1. phase' = "store"
    BY <1>3 DEF Cleanup
  <2> QED BY <1>1, <1>3, <2>1, CleanupGives DEF ResultInv, Returned, ResultArrives
<1>4. CASE Store
  <2>1. phase' = "done"
    BY <1>4 DEF Store
  <2> QED BY <1>1, <1>4, <2>1, StoreGives DEF ResultInv, Returned, StoreInv
<1>5. CASE Evaluate \/ Reserve \/ Place \/ PassPlain \/ PassVararg \/ VarargFatal \/ TakeParam \/ VaList
  <2>1. phase' \in {"plain", "vararg", "reserve", "place", "take", "return", "rejected"}
    <3>1. CASE Evaluate
      BY <3>1, <1>1, PathFacts DEF Evaluate, Control
    <3>2. CASE TakeParam
      BY <3>2 DEF TakeParam
    <3> QED BY <1>5, <3>1, <3>2 DEF Reserve, Place, PassPlain, PassVararg, VarargFatal, VaList
  <2> QED BY <1>1, <2>1 DEF ResultInv, Returned, StoreInv, ResultArrives
<1>6. CASE Done \/ UNCHANGED vars
  <2>1. UNCHANGED vars
    BY <1>6 DEF Done
  <2>2. UNCHANGED <<sig, phase, sp, mem, reserved, ret, got>>
    BY <2>1 DEF vars
  <2>3. /\ Count' = Count /\ RetHalves' = RetHalves /\ (Upwards' <=> Upwards) /\ Unit' = Unit
        /\ Popped' = Popped /\ Left' = Left /\ (Lost' <=> Lost) /\ Result' = Result
        /\ (ResultGap' <=> ResultGap) /\ Arm' = Arm
    BY <2>2, RetStays, SigStays
  <2>4. Returned'
    <3>1. Buffer' = Buffer /\ (InMemory' <=> InMemory) /\ Words(sig.ret)' = Words(sig.ret) /\ ResultWords' = ResultWords
          /\ Eightbyte(1)' = Eightbyte(1) /\ Eightbyte(2)' = Eightbyte(2)
      BY <2>2, <2>3 DEF Buffer, InMemory, Words, ResultWords, Eightbyte
    <3>2. RetRegs <=> RetRegs'
      BY <2>2, <2>3, <3>1 DEF RetRegs
    <3>3. \A a : InBuffer(a)' <=> InBuffer(a)
      BY <3>1 DEF InBuffer
    <3> QED BY <1>1, <2>2, <3>1, <3>2, <3>3 DEF Returned
  <2>5. StoreInv'
    <3>1. StoredWords' = StoredWords
      BY <2>2, <2>3 DEF StoredWords, Stored
    <3> QED BY <1>1, <2>2, <2>3, <3>1 DEF StoreInv
  <2>6. ResultArrives'
    BY <1>1, <2>2, <2>3 DEF ResultArrives
  <2> QED BY <1>1, <2>4, <2>5, <2>6 DEF ResultInv
<1> QED BY <1>2, <1>3, <1>4, <1>5, <1>6 DEF Next

(* The caller of any function, through its name or a pointer, with any     *)
(* arguments, stores the result returned and has its stack back, unless    *)
(* the signature is one of the gaps: and on each of these it does not.     *)
THEOREM ResultsArrive == Spec => []ResultArrives
<1>1. Init => ResultInv
  BY ResultInit
<1>2. ResultInv /\ [Next]_vars => ResultInv'
  BY ResultStep
<1>3. ResultInv => ResultArrives
  BY DEF ResultInv
<1> QED BY <1>1, <1>2, <1>3, PTL DEF Spec

-----------------------------------------------------------------------------
\* Signatures with integers only, and variable arguments.

(* An integer takes the next general register, or a word, on both sides.   *)
LEMMA IntegerSteps ==
    ASSUME NEW t, IsInteger(t), NEW c \in Cursors
    PROVE  /\ CallerStep(t, c) = IF c.g < Limit THEN InGpr(c, 1) ELSE OnStack(c, 1)
           /\ CalleeStep(t, c) = IF c.g < Limit THEN InGpr(c, 1) ELSE OnStack(c, 1)
<1>1. t.agg = 0 /\ t.float = 0 /\ t.count = 0 /\ ~IsMixed(t) /\ ~IsLongDouble(t)
  BY IntegerFields
<1>2. Words(t) = 1 /\ ArmWords(t) = 1
  BY <1>1 DEF Words, ArmWords
<1>3. c.g \in Nat
  BY DEF Cursors
<1>4. CASE Arm
  <2>1. c.g + 1 <= 8 <=> c.g < 8
    BY <1>3
  <2>2. ArmCaller(t, c) = IF c.g < 8 THEN InGpr(c, 1) ELSE OnStack(c, 1)
    BY <1>1, <1>2, <2>1 DEF ArmCaller
  <2>3. ArmCallee(t, c) = IF c.g < 8 THEN InGpr(c, 1) ELSE OnStack(c, 1)
    BY <1>1, <1>2, <2>1 DEF ArmCallee
  <2> QED BY <1>4, <2>2, <2>3 DEF CallerStep, CalleeStep, Limit
<1>5. CASE ~Arm
  <2>1. c.g + 1 <= 6 <=> c.g < 6
    BY <1>3
  <2>2. X86Caller(t, c) = IF c.g < 6 THEN InGpr(c, 1) ELSE OnStack(c, 1)
    BY <1>1, <1>2, <2>1 DEF X86Caller
  <2>3. X86Callee(t, c) = IF c.g < 6 THEN InGpr(c, 1) ELSE OnStack(c, 1)
    BY <1>1, <1>2, <2>1 DEF X86Callee
  <2> QED BY <1>5, <2>2, <2>3 DEF CallerStep, CalleeStep, Limit
<1> QED BY <1>4, <1>5

AllIntegers == \A i \in 1 .. N : IsInteger(Params[i])
CursorAt(x) ==
    [g |-> IF x <= Limit THEN x ELSE Limit, s |-> 0, m |-> IF x <= Limit THEN 0 ELSE x - Limit]
PlaceAt(x) == IF x < Limit THEN <<"g", x>> ELSE <<"m", x - Limit>>

(* The cursor and the place of the x-th integer, case by case.             *)
LEMMA ByCount ==
    /\ \A x : /\ CursorAt(x).g = IF x <= Limit THEN x ELSE Limit
              /\ CursorAt(x).m = IF x <= Limit THEN 0 ELSE x - Limit
    /\ \A x : x < Limit => PlaceAt(x) = <<"g", x>>
    /\ \A x : ~(x < Limit) => PlaceAt(x) = <<"m", x - Limit>>
    /\ \A x : At(<<"m", x>>) = Read(mem, sp + x) /\ At(<<"g", x>>) = Read(regs, <<"g", x>>)
    /\ \A x : ~Arm => ScratchOf(x) = WordOf(7 + ((x - 7) % 6), 0)
BY DEF CursorAt, PlaceAt, At, ScratchOf

(* An integer moves the cursor of both sides to the next place.            *)
LEMMA CursorAtStep ==
    ASSUME NEW t, IsInteger(t), NEW x \in Nat
    PROVE  /\ CursorAt(x) \in Cursors
           /\ CallerStep(t, CursorAt(x)).cur = CursorAt(x + 1)
           /\ CalleeStep(t, CursorAt(x)).cur = CursorAt(x + 1)
           /\ DOMAIN CallerStep(t, CursorAt(x)).at = 1 .. 1
           /\ DOMAIN CalleeStep(t, CursorAt(x)).at = 1 .. 1
           /\ CallerStep(t, CursorAt(x)).at[1] = PlaceAt(x)
           /\ CalleeStep(t, CursorAt(x)).at[1] = PlaceAt(x)
<1> DEFINE c == CursorAt(x)
<1>1. Limit \in Nat
  BY DEF Limit
<1>2. c \in Cursors /\ c.s = 0 /\ c.g = (IF x <= Limit THEN x ELSE Limit) /\ c.m = (IF x <= Limit THEN 0 ELSE x - Limit)
  BY <1>1 DEF CursorAt, Cursors
<1>3. PICK y : y = x + 1
  OBVIOUS
<1>4. c.g < Limit <=> x < Limit
  BY <1>1, <1>2
<1> HIDE DEF c
<1>5. CASE x < Limit
  <2>1. /\ DOMAIN InGpr(c, 1).at = 1 .. 1 /\ InGpr(c, 1).at[1] = <<"g", c.g + 1 - 1>>
        /\ InGpr(c, 1).cur = [g |-> c.g + 1, s |-> c.s, m |-> c.m]
    <3>1. 1 \in Nat /\ 1 \in 1 .. 1
      OBVIOUS
    <3>2. /\ IsRoute(InGpr(c, 1), c, 1)
          /\ \A w \in 1 .. 1 : InGpr(c, 1).at[w] = <<"g", c.g + w - 1>>
          /\ InGpr(c, 1).cur = [g |-> c.g + 1, s |-> c.s, m |-> c.m]
      BY ZenonT(30), <1>2, <3>1, InGprFacts
    <3> QED BY <3>1, <3>2 DEF IsRoute
  <2>2. c.g = x /\ c.g + 1 - 1 = x /\ c.m = 0
    BY <1>1, <1>2, <1>5
  <2>3. CursorAt(y) = [g |-> x + 1, s |-> 0, m |-> 0]
    BY <1>1, <1>3, <1>5 DEF CursorAt
  <2>4. CallerStep(t, c) = InGpr(c, 1) /\ CalleeStep(t, c) = InGpr(c, 1)
    BY <1>2, <1>4, <1>5, IntegerSteps
  <2> QED BY <1>2, <1>3, <1>5, <2>1, <2>2, <2>3, <2>4 DEF PlaceAt, c
<1>6. CASE ~(x < Limit)
  <2>1. /\ DOMAIN OnStack(c, 1).at = 1 .. 1 /\ OnStack(c, 1).at[1] = <<"m", c.m + 1 - 1>>
        /\ OnStack(c, 1).cur = [g |-> c.g, s |-> c.s, m |-> c.m + 1]
    <3>1. 1 \in Nat /\ 1 \in 1 .. 1
      OBVIOUS
    <3>2. /\ IsRoute(OnStack(c, 1), c, 1)
          /\ \A w \in 1 .. 1 : OnStack(c, 1).at[w] = <<"m", c.m + w - 1>>
          /\ OnStack(c, 1).cur = [g |-> c.g, s |-> c.s, m |-> c.m + 1]
      BY ZenonT(30), <1>2, <3>1, OnStackFacts
    <3> QED BY <3>1, <3>2 DEF IsRoute
  <2>2. c.g = Limit /\ c.m = x - Limit /\ c.m + 1 - 1 = x - Limit /\ c.m + 1 = x + 1 - Limit
    BY <1>1, <1>2, <1>6
  <2>3. CursorAt(y) = [g |-> Limit, s |-> 0, m |-> x + 1 - Limit]
    <3>1. IF y <= Limit THEN FALSE ELSE y - Limit = x + 1 - Limit
      BY <1>1, <1>3, <1>6
    <3> QED BY <3>1 DEF CursorAt
  <2>4. CallerStep(t, c) = OnStack(c, 1) /\ CalleeStep(t, c) = OnStack(c, 1)
    BY <1>2, <1>4, <1>6, IntegerSteps
  <2> QED BY <1>2, <1>3, <1>6, <2>1, <2>2, <2>3, <2>4 DEF PlaceAt, c
<1> QED BY <1>5, <1>6

(* The cursors of both loops, when all arguments are integers.             *)
LEMMA IntegerCursors ==
    ASSUME sig \in Signatures, AllIntegers
    PROVE  \A i \in 0 .. N : /\ CallerCursor[i] = CursorAt(StartCursor.g + i)
                             /\ CalleeCursor[i] = CursorAt(StartCursor.g + i)
<1>1. N \in Nat
  BY Sizes
<1>2. StartCursor.g \in {0, 1} /\ StartCursor = Cursor(StartCursor.g) /\ Limit \in {6, 8}
  BY DEF StartCursor, Cursor, Limit
<1>3. CallerCursor[0] = CursorAt(StartCursor.g) /\ CalleeCursor[0] = CursorAt(StartCursor.g)
  <2>1. CallerCursor[0] = StartCursor /\ CalleeCursor[0] = StartCursor
    BY CallerCursors, CalleeCursors
  <2>2. StartCursor.g <= Limit
    BY <1>2
  <2>3. CursorAt(StartCursor.g) = Cursor(StartCursor.g)
    BY <2>2 DEF CursorAt, Cursor
  <2> QED BY <1>2, <2>1, <2>3
<1> DEFINE Good(i) == CallerCursor[i] = CursorAt(StartCursor.g + i) /\ CalleeCursor[i] = CursorAt(StartCursor.g + i)
           Bad == {i \in 0 .. N : ~Good(i)}
<1>4. SUFFICES ASSUME Bad # {} PROVE FALSE
  OBVIOUS
<1>5. Bad \subseteq Nat
  OBVIOUS
<1>6. PICK i \in Bad : \A y \in Bad : i <= y
  <2> HIDE DEF Bad
  <2> QED BY <1>4, <1>5, LeastElement
<1>7. i # 0
  <2>1. StartCursor.g + 0 = StartCursor.g
    BY <1>2
  <2> QED BY <1>3, <1>6, <2>1
<1>8. i \in 1 .. N /\ i - 1 \in 0 .. N
  BY <1>1, <1>7
<1>9. i - 1 \notin Bad
  BY <1>6, <1>8
<1>10. Good(i - 1)
  BY <1>8, <1>9
<1>11. /\ CallerCursor[i] = CallerStep(Params[i], CallerCursor[i - 1]).cur
       /\ CalleeCursor[i] = CalleeStep(Params[i], CalleeCursor[i - 1]).cur
  BY <1>8, CallerCursors, CalleeCursors
<1>12. StartCursor.g + (i - 1) \in Nat /\ StartCursor.g + (i - 1) + 1 = StartCursor.g + i
  BY <1>1, <1>2, <1>8
<1>13. IsInteger(Params[i])
  BY <1>8 DEF AllIntegers
<1>14. Good(i)
  BY <1>10, <1>11, <1>12, <1>13, CursorAtStep
<1> QED BY <1>6, <1>14

(* The one place of an integer, and what is passed there.                  *)
LEMMA IntegerRoute ==
    ASSUME sig \in Signatures, AllIntegers, NEW i \in 1 .. N
    PROVE  /\ DOMAIN Route(i) = 1 .. 1 /\ Route(i)[1] = PlaceAt(StartCursor.g + i - 1)
           /\ PieceAt(i, 1) = WordOf(i, 0)
<1>1. IsInteger(Params[i])
  BY DEF AllIntegers
<1>2. N \in Nat /\ StartCursor.g \in {0, 1}
  BY Sizes DEF StartCursor, Cursor
<1>3. i - 1 \in 0 .. N /\ StartCursor.g + (i - 1) \in Nat /\ StartCursor.g + (i - 1) = StartCursor.g + i - 1
  BY <1>2
<1>4. CallerCursor[i - 1] = CursorAt(StartCursor.g + (i - 1))
  BY <1>3, IntegerCursors
<1>5. DOMAIN Route(i) = 1 .. 1 /\ Route(i)[1] = PlaceAt(StartCursor.g + (i - 1))
  BY <1>1, <1>3, <1>4, CursorAtStep DEF Route
<1>6. PieceAt(i, 1) = WordOf(i, 0)
  <2>1. Params[i].agg = 0 /\ Params[i].float = 0 /\ ~IsLongDouble(Params[i])
    BY <1>1, IntegerFields
  <2> QED BY <2>1 DEF PieceAt, PieceOf
<1> QED BY <1>3, <1>5, <1>6

(* The words of different values differ, and from junk and pointers.       *)
LEMMA WordsDiffer ==
    ASSUME NEW n, NEW m
    PROVE  /\ WordOf(n, 0) = WordOf(m, 0) => n = m
           /\ n # 0 => WordOf(n, 0) # JunkWord
           /\ Pointer(m) # WordOf(n, 0)
<1>1. /\ WordOf(n, 0)[1] = <<n, 1>> /\ WordOf(m, 0)[1] = <<m, 1>>
      /\ JunkWord[1] = <<0, 0>> /\ Pointer(m)[1] = <<m, -1>>
  BY DEF WordOf, JunkWord, Junk, Pointer
<1>2. <<n, 1>>[1] = n /\ <<m, 1>>[1] = m /\ <<0, 0>>[1] = 0 /\ <<n, 1>>[2] = 1 /\ <<m, -1>>[2] = -1
  OBVIOUS
<1> QED BY <1>1, <1>2

(* A variadic function has integer parameters, and its call goes by one of *)
(* three ways.                                                             *)
LEMMA VarargFacts ==
    ASSUME sig \in Signatures, sig.varargs > 0
    PROVE  /\ AllIntegers /\ ~HasAggregate /\ ~sig.ptr /\ Fixed < N
           /\ Arm => StartCursor.g = 0 /\ Path # "plain"
           /\ Path # "aggregate" => StartCursor.g = 0
           /\ (Path = "vararg") => Arm
<1>1. AllIntegers /\ ~sig.ptr /\ Fixed < N
  <2>1. sig.varargs # 0
    BY Sizes
  <2>2. /\ sig.ptr \in BOOLEAN /\ (sig.ptr => sig.varargs = 0)
        /\ sig.varargs > 0 => Fixed < N /\ \A i \in 1 .. N : IsInteger(Params[i])
    BY SignatureFacts, Zenon
  <2> QED BY <2>1, <2>2 DEF AllIntegers
<1>2. ~HasAggregate
  <2>1. \A i \in 1 .. N : Params[i].agg = 0
    BY <1>1, IntegerFields DEF AllIntegers
  <2> QED BY <2>1 DEF HasAggregate
<1>3. Indirect => Path = "aggregate"
  BY PathFacts
<1>4. Arm => Path # "plain"
  <2> SUFFICES ASSUME Arm, Path = "plain" PROVE FALSE
    OBVIOUS
  <2>1. sig.ret.agg = 0 /\ ~HasFloat
    BY PathFacts
  <2>2. sig.ret.agg <= 16
    BY <2>1
  <2> QED BY <1>2, <2>1, <2>2 DEF Path
<1> QED BY <1>1, <1>2, <1>3, <1>4, PathFacts DEF StartCursor, Cursor

Given(j) == IF Arm THEN ArmVaArg(CalleeCursor[Fixed], j) ELSE X86VaArg(CalleeCursor[Fixed], j)

(* Past the parameters, where va_arg begins.                               *)
LEMMA ListStart ==
    ASSUME sig \in Signatures, sig.varargs > 0
    PROVE  /\ N \in Nat /\ Fixed \in Nat /\ sig.varargs \in Nat \ {0} /\ N = Fixed + sig.varargs
           /\ StartCursor.g \in {0, 1} /\ AllIntegers
           /\ CalleeCursor[Fixed].g = IF StartCursor.g + Fixed <= Limit THEN StartCursor.g + Fixed ELSE Limit
           /\ CalleeCursor[Fixed].m = IF StartCursor.g + Fixed <= Limit THEN 0 ELSE (StartCursor.g + Fixed) - Limit
<1>1. /\ N \in Nat /\ Fixed \in Nat /\ sig.varargs \in Nat /\ N = Fixed + sig.varargs /\ Fixed \in 0 .. N
  BY Sizes
<1>2. CalleeCursor[Fixed] = CursorAt(StartCursor.g + Fixed)
  BY <1>1, VarargFacts, IntegerCursors
<1>3. StartCursor.g \in {0, 1}
  BY DEF StartCursor, Cursor
<1>4. /\ CalleeCursor[Fixed].g = IF StartCursor.g + Fixed <= Limit THEN StartCursor.g + Fixed ELSE Limit
      /\ CalleeCursor[Fixed].m = IF StartCursor.g + Fixed <= Limit THEN 0 ELSE (StartCursor.g + Fixed) - Limit
  BY <1>2, ByCount
<1>5. AllIntegers /\ sig.varargs \in Nat \ {0}
  BY <1>1, VarargFacts
<1> QED BY <1>1, <1>3, <1>4, <1>5

(* The list of a call of path plain, one variable argument at a time,      *)
LEMMA PlainList ==
    ASSUME Control, Data, phase = "take", Path = "plain", sig.varargs > 0, NEW j \in 1 .. sig.varargs
    PROVE  /\ ~Arm
           /\ Given(j) = IF Fixed >= 6 THEN ScratchOf(Fixed + j)
                         ELSE IF Fixed + j <= 6 THEN WordOf(Fixed + j, 0) ELSE JunkWord
<1> DEFINE c == CalleeCursor[Fixed]
           n == Fixed + j
<1>0. sig \in Signatures
  BY DEF Control
<1>1. /\ N \in Nat /\ Fixed \in Nat /\ sig.varargs \in Nat \ {0} /\ N = Fixed + sig.varargs
      /\ ~Arm /\ StartCursor.g = 0 /\ Limit = 6
  BY <1>0, ListStart, VarargFacts DEF Limit
<1>2. c.g = (IF Fixed <= 6 THEN Fixed ELSE 6) /\ c.m = (IF Fixed <= 6 THEN 0 ELSE Fixed - 6)
  BY <1>0, <1>1, ListStart
<1>3. Given(j) = X86VaArg(c, j)
  BY <1>1 DEF Given
<1>4. sp \in Int
  BY BaseIsInt DEF Control, Called
<1>5. n \in 1 .. N
  BY <1>1
<1>6. /\ Filled(IF N > 6 THEN 6 ELSE N)
      /\ \A x \in 7 .. N : sp + x - 6 - 1 \in DOMAIN mem /\ mem[sp + x - 6 - 1] = ScratchOf(x)
  <2>1. /\ Filled(IF N > Limit THEN Limit ELSE N)
        /\ \A x \in Limit + 1 .. N : sp + x - Limit - 1 \in DOMAIN mem /\ mem[sp + x - Limit - 1] = ScratchOf(x)
    BY DEF Data
  <2>2. Limit + 1 = 7
    BY <1>1
  <2> QED BY <1>1, <2>1, <2>2
<1> HIDE DEF c, n
<1>7. CASE Fixed >= 6
  <2>1. c.g >= 6 /\ c.m = Fixed - 6
    BY <1>1, <1>2, <1>7
  <2>2. X86VaArg(c, j) = Read(mem, sp + c.m + j - 1)
    BY <2>1 DEF X86VaArg
  <2>3. sp + c.m + j - 1 = sp + n - 6 - 1 /\ n \in 7 .. N
    BY <1>1, <1>4, <1>5, <1>7, <2>1 DEF n
  <2>4. sp + n - 6 - 1 \in DOMAIN mem /\ mem[sp + n - 6 - 1] = ScratchOf(n)
    BY <1>6, <2>3
  <2> QED BY <1>1, <1>3, <1>7, <2>2, <2>3, <2>4 DEF Read, n
<1>8. CASE ~(Fixed >= 6)
  <2>1. c.g = Fixed /\ ~(c.g >= 6)
    BY <1>1, <1>2, <1>8
  <2>2. X86VaArg(c, j) = IF n <= 6 THEN Read(regs, <<"g", Fixed + j - 1>>) ELSE JunkWord
    BY <2>1 DEF X86VaArg, n
  <2>3. ASSUME n <= 6 PROVE Read(regs, <<"g", Fixed + j - 1>>) = WordOf(n, 0)
    <3>1. n \in 1 .. (IF N > 6 THEN 6 ELSE N) /\ Fixed + j - 1 = n - 1
      BY <1>1, <1>5, <2>3 DEF n
    <3>2. <<"g", n - 1>> \in DOMAIN regs /\ regs[<<"g", n - 1>>] = WordOf(n, 0)
      BY <1>6, <3>1 DEF Filled
    <3> QED BY <3>1, <3>2 DEF Read
  <2> QED BY <1>1, <1>3, <1>8, <2>2, <2>3 DEF n
<1> QED BY <1>7, <1>8

(* that of a call of path vararg,                                          *)
LEMMA VarargList ==
    ASSUME Control, Data, phase = "take", Path = "vararg", sig.varargs > 0, NEW j \in 1 .. sig.varargs
    PROVE  Arm /\ Given(j) = IF N <= 8 THEN WordOf(Fixed + j, 0) ELSE JunkWord
<1> DEFINE c == CalleeCursor[Fixed]
           n == Fixed + j
<1>0. sig \in Signatures
  BY DEF Control
<1>1. /\ N \in Nat /\ Fixed \in Nat /\ sig.varargs \in Nat \ {0} /\ N = Fixed + sig.varargs
      /\ Arm /\ StartCursor.g = 0 /\ Limit = 8
  BY <1>0, ListStart, VarargFacts DEF Limit
<1>2. Fixed <= 8 /\ Filled(IF N <= 8 THEN N ELSE Fixed)
  BY DEF Data
<1>3. c.g = Fixed
  BY <1>0, <1>1, <1>2, ListStart
<1>4. Given(j) = IF n <= 8 THEN Read(regs, <<"g", n - 1>>) ELSE JunkWord
  BY <1>1, <1>3 DEF Given, ArmVaArg
<1>5. n \in Nat /\ Fixed < n /\ n <= N
  BY <1>1
<1> HIDE DEF c, n
<1>6. CASE N <= 8
  <2>1. n <= 8 /\ n \in 1 .. N
    BY <1>1, <1>5, <1>6
  <2>2. <<"g", n - 1>> \in DOMAIN regs /\ regs[<<"g", n - 1>>] = WordOf(n, 0)
    BY <1>2, <1>6, <2>1 DEF Filled
  <2> QED BY <1>1, <1>4, <1>6, <2>1, <2>2 DEF Read, n
<1>7. CASE ~(N <= 8)
  <2>1. <<"g", n - 1>> \notin DOMAIN regs
    <3> SUFFICES ASSUME <<"g", n - 1>> \in DOMAIN regs PROVE FALSE
      OBVIOUS
    <3>1. PICK x \in 1 .. Fixed : <<"g", n - 1>> = <<"g", x - 1>>
      BY <1>2, <1>7 DEF Filled
    <3>2. n - 1 = x - 1
      BY <3>1
    <3> QED BY <1>1, <1>5, <3>2
  <2> QED BY <1>1, <1>4, <1>7, <2>1 DEF Read
<1> QED BY <1>6, <1>7

(* Of the words placed one by one, each is read where it was placed.       *)
LEMMA SentWord ==
    ASSUME Control, Data, phase = "take", Path \in {"scalar", "aggregate"}, AllIntegers, NEW i \in 1 .. N
    PROVE  At(PlaceAt(StartCursor.g + i - 1)) = WordOf(i, 0)
<1> DEFINE p == PlaceAt(StartCursor.g + i - 1)
<1>1. sig \in Signatures
  BY DEF Control
<1>2. DOMAIN Route(i) = 1 .. 1 /\ Route(i)[1] = p /\ PieceAt(i, 1) = WordOf(i, 0)
  BY <1>1, IntegerRoute
<1>3. Sent(i, 1)
  BY <1>2 DEF Data, ByPlaces
<1>4. StartCursor.g \in {0, 1} /\ N \in Nat
  BY <1>1, Sizes DEF StartCursor, Cursor
<1>5. CASE StartCursor.g + i - 1 < Limit
  <2>1. p = <<"g", StartCursor.g + i - 1>>
    BY <1>5 DEF PlaceAt
  <2>2. p[1] = "g" /\ p[2] = StartCursor.g + i - 1
    BY <2>1
  <2>3. InReg(p)
    BY <1>5, <2>2 DEF InReg, Limit
  <2> HIDE DEF p
  <2> QED BY <1>2, <1>3, <2>2, <2>3 DEF Sent, At, Read, p
<1>6. CASE ~(StartCursor.g + i - 1 < Limit)
  <2>1. PICK x : x = StartCursor.g + i - 1
    OBVIOUS
  <2>2. p[1] = "m"
    BY <1>6, <2>1 DEF PlaceAt
  <2> HIDE DEF p
  <2> QED BY <1>2, <1>3, <2>2 DEF Sent, At, Read, p
<1> QED BY <1>5, <1>6

(* and that of one whose arguments are placed one by one.                  *)
LEMMA PlacedList ==
    ASSUME Control, Data, phase = "take", Path \in {"scalar", "aggregate"}, sig.varargs > 0,
           NEW j \in 1 .. sig.varargs
    PROVE  Given(j) = IF (~Arm /\ StartCursor.g + Fixed >= 6) \/ StartCursor.g + Fixed + j <= Limit
                      THEN WordOf(Fixed + j, 0) ELSE JunkWord
<1> DEFINE c == CalleeCursor[Fixed]
           n == Fixed + j
           g == StartCursor.g
<1>0. sig \in Signatures
  BY DEF Control
<1>1. /\ N \in Nat /\ Fixed \in Nat /\ sig.varargs \in Nat \ {0} /\ N = Fixed + sig.varargs
      /\ g \in {0, 1} /\ AllIntegers /\ (Arm => g = 0) /\ Limit = IF Arm THEN 8 ELSE 6
  BY <1>0, ListStart, VarargFacts DEF Limit
<1>2. /\ c.g = IF g + Fixed <= Limit THEN g + Fixed ELSE Limit
      /\ c.m = IF g + Fixed <= Limit THEN 0 ELSE (g + Fixed) - Limit
  BY <1>0, ListStart
<1>3. n \in 1 .. N
  BY <1>1
<1>4. At(PlaceAt(g + n - 1)) = WordOf(n, 0)
  BY <1>1, <1>3, SentWord
<1>5. sp \in Int
  BY BaseIsInt DEF Control, Called
<1>6. \A x : <<"g", x>>[1] = "g" /\ <<"m", x>>[1] = "m" /\ <<"m", x>>[2] = x
  OBVIOUS
<1> HIDE DEF c, n, g
<1>7. CASE ~Arm /\ g + Fixed >= 6
  <2>1. c.g >= 6 /\ c.m = g + Fixed - 6
    BY <1>1, <1>2, <1>7
  <2>2. Given(j) = Read(mem, sp + c.m + j - 1)
    BY <1>7, <2>1 DEF Given, X86VaArg, c
  <2>3. ~(g + n - 1 < Limit) /\ sp + ((g + n - 1) - Limit) = sp + c.m + j - 1
    BY <1>1, <1>3, <1>5, <1>7, <2>1 DEF n
  <2>4. At(PlaceAt(g + n - 1)) = Read(mem, sp + ((g + n - 1) - Limit))
    BY <2>3, ByCount
  <2> QED BY <1>4, <1>7, <2>2, <2>3, <2>4 DEF n, g
<1>8. CASE ~(~Arm /\ g + Fixed >= 6) /\ g + n <= Limit
  <2>1. c.g = g + Fixed /\ (~Arm => ~(c.g >= 6)) /\ c.g + j = g + n /\ c.g + j - 1 = g + n - 1 /\ g + n - 1 < Limit
    BY <1>1, <1>2, <1>3, <1>8 DEF n
  <2>2. Given(j) = Read(regs, <<"g", g + n - 1>>)
    <3>1. CASE Arm
      <4>1. c.g + j <= 8
        BY <1>1, <1>8, <2>1, <3>1
      <4> QED BY <2>1, <3>1, <4>1 DEF Given, ArmVaArg, c
    <3>2. CASE ~Arm
      <4>1. c.g + j <= 6
        BY <1>1, <1>8, <2>1, <3>2
      <4> QED BY <2>1, <3>2, <4>1 DEF Given, X86VaArg, c
    <3> QED BY <3>1, <3>2
  <2>3. At(PlaceAt(g + n - 1)) = Read(regs, <<"g", g + n - 1>>)
    BY <1>6, <2>1 DEF At, PlaceAt
  <2>4. g + Fixed + j = g + n
    BY <1>1 DEF n
  <2> QED BY <1>4, <1>8, <2>2, <2>3, <2>4 DEF n, g
<1>9. CASE ~(~Arm /\ g + Fixed >= 6) /\ ~(g + n <= Limit)
  <2>1. (~Arm => ~(c.g >= 6)) /\ ~(c.g + j <= Limit)
    BY <1>1, <1>2, <1>3, <1>9 DEF n
  <2>2. Given(j) = JunkWord
    <3>1. CASE Arm
      BY <1>1, <2>1, <3>1 DEF Given, ArmVaArg, c
    <3>2. CASE ~Arm
      BY <1>1, <2>1, <3>2 DEF Given, X86VaArg, c
    <3> QED BY <3>1, <3>2
  <2>4. g + Fixed + j = g + n
    BY <1>1 DEF n
  <2> QED BY <1>9, <2>2, <2>4 DEF g
<1> QED BY <1>7, <1>8, <1>9

(* What the list yields, against the arguments after the last parameter.   *)
LEMMA ListGives ==
    ASSUME Control, Data, phase = "take", sig.varargs > 0
    PROVE  VarargGap <=> \E j \in 1 .. sig.varargs : Given(j) # WordOf(Fixed + j, 0)
<1>0. sig \in Signatures
  BY DEF Control
<1>1. /\ N \in Nat /\ Fixed \in Nat /\ sig.varargs \in Nat \ {0} /\ N = Fixed + sig.varargs
      /\ StartCursor.g \in {0, 1} /\ Limit = (IF Arm THEN 8 ELSE 6)
      /\ ~sig.ptr /\ (Arm => StartCursor.g = 0 /\ Path # "plain") /\ (Path # "aggregate" => StartCursor.g = 0)
  BY <1>0, ListStart, VarargFacts DEF Limit
<1>2. VarargGap <=> (Path = "plain" /\ N > 12) \/ (IF Arm THEN N > 8 ELSE StartCursor.g + Fixed < 6 /\ StartCursor.g + N > 6)
  BY <1>1 DEF VarargGap, TooManyIntegers, TooManyVarargs
<1>3. \A j \in 1 .. sig.varargs : Fixed + j # 0 /\ WordOf(Fixed + j, 0) # JunkWord
  <2>1. \A j \in 1 .. sig.varargs : Fixed + j # 0
    BY <1>1
  <2> QED BY <2>1, WordsDiffer
<1>4. sig.varargs \in 1 .. sig.varargs /\ Fixed + sig.varargs = N
  BY <1>1
<1>5. CASE Path = "plain"
  <2>1. ~Arm /\ StartCursor.g = 0
    BY <1>1, <1>5
  <2>2. \A j \in 1 .. sig.varargs :
            Given(j) = IF Fixed >= 6 THEN ScratchOf(Fixed + j)
                       ELSE IF Fixed + j <= 6 THEN WordOf(Fixed + j, 0) ELSE JunkWord
    BY <1>1, <1>5, PlainList
  <2>3. CASE Fixed >= 6
    <3>1. \A j \in 1 .. sig.varargs : Given(j) = WordOf(7 + (((Fixed + j) - 7) % 6), 0)
      BY <2>1, <2>2, <2>3, ByCount
    <3>2. VarargGap <=> N > 12
      BY <1>1, <1>2, <1>5, <2>1, <2>3
    <3>3. CASE N > 12
      <4>1. (N - 7) % 6 \in 0 .. 5
        BY <1>1, <3>3
      <4>2. 7 + ((N - 7) % 6) # N
        BY <1>1, <3>3, <4>1
      <4>3. Given(sig.varargs) = WordOf(7 + (((Fixed + sig.varargs) - 7) % 6), 0)
        BY <1>4, <3>1
      <4>4. Given(sig.varargs) # WordOf(Fixed + sig.varargs, 0)
        BY <1>4, <4>2, <4>3, WordsDiffer
      <4> QED BY <1>4, <3>2, <3>3, <4>4
    <3>4. CASE ~(N > 12)
      <4> SUFFICES ASSUME NEW j \in 1 .. sig.varargs PROVE Given(j) = WordOf(Fixed + j, 0)
        BY <3>2, <3>4
      <4>1. (Fixed + j) - 7 \in 0 .. 5 /\ Fixed + j \in Nat
        BY <1>1, <2>3, <3>4
      <4>2. ((Fixed + j) - 7) % 6 = (Fixed + j) - 7
        <5>1. \A x \in 0 .. 5 : x % 6 = x
          OBVIOUS
        <5> QED BY <4>1, <5>1
      <4>3. 7 + (((Fixed + j) - 7) % 6) = Fixed + j
        BY <4>1, <4>2, <1>1
      <4> QED BY <3>1, <4>3
    <3> QED BY <3>3, <3>4
  <2>4. CASE ~(Fixed >= 6)
    <3>1. VarargGap <=> N > 6
      BY <1>1, <1>2, <2>1, <2>4
    <3>2. CASE N > 6
      <4>1. Given(sig.varargs) = JunkWord
        BY <1>1, <1>4, <2>2, <2>4, <3>2
      <4> QED BY <1>3, <1>4, <3>1, <3>2, <4>1
    <3>3. CASE ~(N > 6)
      <4>1. \A j \in 1 .. sig.varargs : Fixed + j <= 6
        BY <1>1, <3>3
      <4> QED BY <2>2, <2>4, <3>1, <3>3, <4>1
    <3> QED BY <3>2, <3>3
  <2> QED BY <2>3, <2>4
<1>6. CASE Path = "vararg"
  <2>1. Arm /\ \A j \in 1 .. sig.varargs : Given(j) = IF N <= 8 THEN WordOf(Fixed + j, 0) ELSE JunkWord
    BY <1>4, <1>6, VarargList
  <2>2. VarargGap <=> ~(N <= 8)
    BY <1>1, <1>2, <1>6, <2>1
  <2> QED BY <1>3, <1>4, <2>1, <2>2
<1>7. CASE Path \in {"scalar", "aggregate"}
  <2>1. \A j \in 1 .. sig.varargs :
            Given(j) = IF (~Arm /\ StartCursor.g + Fixed >= 6) \/ StartCursor.g + Fixed + j <= Limit
                       THEN WordOf(Fixed + j, 0) ELSE JunkWord
    BY <1>1, <1>7, PlacedList
  <2>2. CASE ~Arm /\ StartCursor.g + Fixed >= 6
    <3>1. ~VarargGap
      BY <1>1, <1>2, <1>7, <2>2
    <3> QED BY <2>1, <2>2, <3>1
  <2>3. CASE ~(~Arm /\ StartCursor.g + Fixed >= 6)
    <3>1. VarargGap <=> ~(StartCursor.g + N <= Limit)
      BY <1>1, <1>2, <1>7, <2>3
    <3>2. CASE StartCursor.g + N <= Limit
      <4>1. \A j \in 1 .. sig.varargs : StartCursor.g + Fixed + j <= Limit
        BY <1>1, <3>2
      <4> QED BY <2>1, <3>1, <3>2, <4>1
    <3>3. CASE ~(StartCursor.g + N <= Limit)
      <4>1. ~(StartCursor.g + Fixed + sig.varargs <= Limit)
        BY <1>1, <3>3
      <4>2. Given(sig.varargs) = JunkWord
        BY <1>4, <2>1, <2>3, <4>1
      <4> QED BY <1>3, <1>4, <3>1, <3>3, <4>2
    <3> QED BY <3>2, <3>3
  <2> QED BY <2>2, <2>3
<1> QED BY <1>0, <1>5, <1>6, <1>7, PathFacts

LEMMA VarargGapStays ==
    ASSUME sig' = sig
    PROVE  VarargGap' <=> VarargGap
BY SigStays DEF VarargGap, TooManyIntegers, TooManyVarargs

(* The list is read once, and no later step changes it.                    *)
LEMMA VarargStep == ResultInv /\ VarargsArrive /\ [Next]_vars => VarargsArrive'
<1> SUFFICES ASSUME ResultInv, VarargsArrive, [Next]_vars PROVE VarargsArrive'
  OBVIOUS
<1>1. Control /\ Data /\ sig \in Signatures
  BY DEF ResultInv, Control
<1>2. CASE VaList
  <2>1. sig' = sig /\ phase = "take"
    BY <1>2 DEF VaList
  <2>2. (VarargGap' <=> VarargGap) /\ Fixed' = Fixed
    BY <2>1, VarargGapStays, SigStays
  <2>3. \A j \in 1 .. sig.varargs : va'[j] = Given(j)
    BY <1>2 DEF VaList, Given
  <2>4. CASE sig.varargs > 0
    <3>1. VarargGap <=> \E j \in 1 .. sig.varargs : Given(j) # WordOf(Fixed + j, 0)
      BY <1>1, <2>1, <2>4, ListGives
    <3> QED BY <2>1, <2>2, <2>3, <3>1 DEF VarargsArrive
  <2>5. CASE ~(sig.varargs > 0)
    <3>1. 1 .. sig.varargs = {}
      BY <1>1, <2>5, Sizes
    <3>2. ~VarargGap
      BY <2>5 DEF VarargGap
    <3> QED BY <2>1, <2>2, <3>1, <3>2 DEF VarargsArrive
  <2> QED BY <2>4, <2>5
<1>3. CASE Return \/ Cleanup \/ Store \/ Done \/ UNCHANGED vars
  <2>1. sig' = sig /\ va' = va /\ (Entered' => Entered)
    BY <1>3 DEF Return, Cleanup, Store, Done, vars, Entered
  <2>2. (VarargGap' <=> VarargGap) /\ Fixed' = Fixed
    BY <2>1, VarargGapStays, SigStays
  <2> QED BY <2>1, <2>2 DEF VarargsArrive
<1>4. CASE Evaluate \/ Reserve \/ Place \/ PassPlain \/ PassVararg \/ VarargFatal \/ TakeParam
  <2>1. phase' \in {"plain", "vararg", "reserve", "place", "take", "rejected"}
    <3>1. CASE Evaluate
      BY <3>1, <1>1, PathFacts DEF Evaluate
    <3>2. CASE TakeParam
      BY <3>2 DEF TakeParam
    <3> QED BY <1>4, <3>1, <3>2 DEF Reserve, Place, PassPlain, PassVararg, VarargFatal
  <2> QED BY <2>1 DEF VarargsArrive, Entered
<1> QED BY <1>2, <1>3, <1>4 DEF Next

(* va_arg yields the arguments after the last parameter, in a function of  *)
(* any number of parameters and arguments, unless the saved registers do   *)
(* not hold the whole list: and then it yields something else.             *)
THEOREM VariableArgumentsArrive == Spec => []VarargsArrive
<1>1. Init => ResultInv /\ VarargsArrive
  <2>1. Init => phase = "evaluate"
    BY DEF Init
  <2> QED BY <2>1, ResultInit DEF VarargsArrive, Entered
<1>2. ResultInv /\ VarargsArrive /\ [Next]_vars => (ResultInv /\ VarargsArrive)'
  BY ResultStep, VarargStep
<1> QED BY <1>1, <1>2, PTL DEF Spec

-----------------------------------------------------------------------------
\* Arguments: the two loops side by side.

GapAt(i) ==
    LET c == CallerCursor[i - 1]
    IN  NinthFloat(Params[i], c) \/ LargeFloats(Params[i], c) \/ NoRegisterLeft(Params[i], c)

(* The loops of caller and callee treat an argument alike, unless it is    *)
(* one of the two kinds of floats that they part on.                       *)
LEMMA StepsAgree ==
    ASSUME NEW t, IsType(t, Target), NEW c \in Cursors, ~NinthFloat(t, c), ~LargeFloats(t, c)
    PROVE  CallerStep(t, c) = CalleeStep(t, c)
<1>1. /\ t.agg \in Nat /\ t.float \in {0, 4, 8, 16} /\ t.count \in Nat
      /\ t.float # 0 => t.agg = 0
      /\ t.agg = 0 => t.count = 0 /\ ~IsMixed(t)
      /\ t.count > 0 => ~IsMixed(t)
      /\ IsMixed(t) => t.agg = 16 /\ t.count = 0
      /\ IsLongDouble(t) <=> t.float = 16
      /\ t.float = 16 => ~Arm
  BY TypeKinds DEF Arm, Target
<1>2. /\ Words(t) \in Nat /\ ArmWords(t) \in Nat /\ SseSlots(t) \in Nat
      /\ t.count > 0 => SseSlots(t) = Words(t)
      /\ t.agg = 0 => Words(t) = 1 /\ ArmWords(t) = 1
      /\ t.agg <= 16 => ArmWords(t) = Words(t)
  BY WordCounts
<1>3. c.g \in Nat /\ c.s \in Nat /\ c.m \in Nat
  BY DEF Cursors
<1>4. ASSUME t.float \in {4, 8} PROVE ~(c.s < 8) => ~(c.g < IF Arm THEN 8 ELSE 6)
  <2>1. t.float \in 1 .. 11
    BY <1>4
  <2> QED BY <1>3, <2>1 DEF NinthFloat
<1>5. CASE Arm
  <2>1. CallerStep(t, c) = ArmCaller(t, c) /\ CalleeStep(t, c) = ArmCallee(t, c)
    BY <1>5 DEF CallerStep, CalleeStep
  <2>2. CASE t.float > 0
    <3>1. t.float \in {4, 8} /\ t.count = 0 /\ t.agg = 0
      BY <1>1, <1>5, <2>2
    <3>2. ArmCaller(t, c) = IF c.s < 8 THEN InSse(c, 1) ELSE OnStack(c, 1)
      BY <2>2, <3>1 DEF ArmCaller
    <3>3. ArmCallee(t, c) = IF c.s < 8 THEN InSse(c, 1) ELSE
                            IF c.g + ArmWords(t) <= 8 THEN InGpr(c, ArmWords(t)) ELSE OnStack(c, ArmWords(t))
      BY <2>2, <3>1 DEF ArmCallee
    <3>4. ~(c.s < 8) => ~(c.g + ArmWords(t) <= 8) /\ ArmWords(t) = 1
      BY <1>2, <1>3, <1>4, <1>5, <3>1
    <3> QED BY <2>1, <3>2, <3>3, <3>4
  <2>3. CASE ~(t.float > 0) /\ t.count > 0
    <3>1. c.s + t.count > 8 => ~(t.agg > 16)
      BY <1>5, <2>3 DEF LargeFloats
    <3>2. ~(c.s + t.count <= 8) => Words(t) = ArmWords(t)
      BY <1>1, <1>2, <1>3, <3>1
    <3>3. ArmCaller(t, c) = IF c.s + t.count <= 8 THEN InSse(c, t.count) ELSE OnStack(c, ArmWords(t))
      BY <2>3 DEF ArmCaller
    <3>4. ArmCallee(t, c) = IF c.s + t.count <= 8 THEN InSse(c, t.count) ELSE OnStack(c, Words(t))
      BY <2>3 DEF ArmCallee
    <3> QED BY <2>1, <3>2, <3>3, <3>4
  <2>4. CASE ~(t.float > 0) /\ ~(t.count > 0)
    BY <2>1, <2>4 DEF ArmCaller, ArmCallee
  <2> QED BY <2>2, <2>3, <2>4
<1>6. CASE ~Arm
  <2>1. CallerStep(t, c) = X86Caller(t, c) /\ CalleeStep(t, c) = X86Callee(t, c)
    BY <1>6 DEF CallerStep, CalleeStep
  <2>2. CASE t.float = 16
    <3>1. IsLongDouble(t) /\ ~(t.float \in 1 .. 11) /\ ~IsMixed(t) /\ ~(t.count > 0)
      BY <1>1, <2>2
    <3> QED BY <2>1, <3>1 DEF X86Caller, X86Callee
  <2>3. CASE t.float \in {4, 8}
    <3>1. ~IsLongDouble(t) /\ t.float \in 1 .. 11 /\ ~IsMixed(t) /\ t.count = 0 /\ t.agg = 0
      BY <1>1, <2>3
    <3>2. ~(t.count > 0) /\ t.agg <= 16
      BY <3>1
    <3>3. X86Caller(t, c) = IF c.s < 8 THEN InSse(c, 1) ELSE OnStack(c, 1)
      BY <3>1, <3>2 DEF X86Caller
    <3>4. X86Callee(t, c) = IF c.s < 8 THEN InSse(c, 1) ELSE
                            IF c.g + Words(t) <= 6 THEN InGpr(c, Words(t)) ELSE OnStack(c, Words(t))
      BY <3>1, <3>2 DEF X86Callee
    <3>5. ~(c.s < 8) => ~(c.g + Words(t) <= 6) /\ Words(t) = 1
      BY <1>2, <1>3, <1>4, <1>6, <2>3, <3>1
    <3> QED BY <2>1, <3>3, <3>4, <3>5
  <2>4. CASE IsMixed(t)
    <3>1. ~IsLongDouble(t) /\ ~(t.float \in 1 .. 11) /\ ~(t.count > 0)
      BY <1>1, <2>4
    <3> QED BY <2>1, <2>4, <3>1 DEF X86Caller, X86Callee
  <2>5. CASE t.count > 0
    <3>1. ~IsLongDouble(t) /\ ~(t.float \in 1 .. 11) /\ ~IsMixed(t)
      BY <1>1, <2>5
    <3>2. SseSlots(t) = Words(t)
      BY <1>2, <2>5
    <3>3. X86Callee(t, c) = IF c.s + SseSlots(t) <= 8 THEN InSse(c, SseSlots(t)) ELSE OnStack(c, SseSlots(t))
      BY <2>5, <3>1 DEF X86Callee
    <3>4. CASE t.agg <= 16
      <4>1. X86Caller(t, c) = IF c.s + SseSlots(t) <= 8 THEN InSse(c, SseSlots(t)) ELSE OnStack(c, Words(t))
        BY <2>5, <3>1, <3>4 DEF X86Caller
      <4> QED BY <2>1, <3>2, <3>3, <4>1
    <3>5. CASE ~(t.agg <= 16)
      <4>1. X86Caller(t, c) = OnStack(c, Words(t))
        BY <3>1, <3>5 DEF X86Caller
      <4>2. t.agg > 16
        BY <1>1, <3>5
      <4>3. ~(c.s + SseSlots(t) <= 8)
        BY <1>6, <2>5, <4>2 DEF LargeFloats
      <4> QED BY <2>1, <3>2, <3>3, <4>1, <4>3
    <3> QED BY <3>4, <3>5
  <2>6. CASE t.float = 0 /\ ~IsMixed(t) /\ ~(t.count > 0)
    <3>1. ~IsLongDouble(t) /\ ~(t.float \in 1 .. 11)
      BY <1>1, <2>6
    <3> QED BY <2>1, <2>6, <3>1 DEF X86Caller, X86Callee
  <2> QED BY <1>1, <2>2, <2>3, <2>4, <2>5, <2>6
<1> QED BY <1>5, <1>6

(* So their cursors are the same up to the first gap.                      *)
LEMMA CursorsAgree ==
    ASSUME sig \in Signatures, NEW i \in 0 .. N, \A h \in 1 .. i : ~GapAt(h)
    PROVE  CalleeCursor[i] = CallerCursor[i]
<1>1. N \in Nat
  BY Sizes
<1> DEFINE Bad == {h \in 0 .. i : CalleeCursor[h] # CallerCursor[h]}
<1>2. SUFFICES ASSUME Bad # {} PROVE FALSE
  BY <1>1
<1>3. Bad \subseteq Nat
  OBVIOUS
<1>4. PICK h \in Bad : \A y \in Bad : h <= y
  <2> HIDE DEF Bad
  <2> QED BY <1>2, <1>3, LeastElement
<1>5. CalleeCursor[0] = CallerCursor[0]
  BY CallerCursors, CalleeCursors
<1>6. h \in 1 .. i /\ h \in 1 .. N /\ h - 1 \in 0 .. i /\ h - 1 \in 0 .. N /\ h - 1 < h
  BY <1>1, <1>4, <1>5
<1>7. CalleeCursor[h - 1] = CallerCursor[h - 1]
  BY <1>4, <1>6
<1>8. /\ CallerCursor[h] = CallerStep(Params[h], CallerCursor[h - 1]).cur
      /\ CalleeCursor[h] = CalleeStep(Params[h], CalleeCursor[h - 1]).cur
      /\ CallerCursor[h - 1] \in Cursors
  BY <1>6, CallerCursors, CalleeCursors
<1>9. ~NinthFloat(Params[h], CallerCursor[h - 1]) /\ ~LargeFloats(Params[h], CallerCursor[h - 1])
  BY <1>6 DEF GapAt
<1>10. IsType(Params[h], Target)
  BY <1>6, Sizes
<1>11. CalleeCursor[h] = CallerCursor[h]
  BY <1>7, <1>8, <1>9, <1>10, StepsAgree
<1> QED BY <1>4, <1>11

-----------------------------------------------------------------------------
\* An argument that is no gap: it is where the callee looks for it.

Reaches(at) == \A j \in DOMAIN at : at[j][1] = "m" \/ InReg(at[j])

(* The places of an argument all of whose words are of one kind.           *)
LEMMA StraightRoutes ==
    ASSUME NEW c \in Cursors, NEW n \in Nat \ {0}
    PROVE  /\ DOMAIN InSse(c, n).at = 1 .. n /\ InSse(c, n).at[1][1] = "s" /\ Reaches(InSse(c, n).at)
           /\ DOMAIN OnStack(c, n).at = 1 .. n /\ OnStack(c, n).at[1][1] = "m" /\ Reaches(OnStack(c, n).at)
           /\ DOMAIN InGpr(c, n).at = 1 .. n /\ InGpr(c, n).at[1][1] = "g"
           /\ (Arm \/ c.g + n <= 6) => Reaches(InGpr(c, n).at)
<1>1. n \in Nat /\ 1 \in 1 .. n
  OBVIOUS
<1>2. DOMAIN InSse(c, n).at = 1 .. n /\ \A w \in 1 .. n : InSse(c, n).at[w] = <<"s", c.s + w - 1>>
  BY <1>1, InSseFacts DEF IsRoute
<1>3. DOMAIN OnStack(c, n).at = 1 .. n /\ \A w \in 1 .. n : OnStack(c, n).at[w] = <<"m", c.m + w - 1>>
  BY <1>1, OnStackFacts DEF IsRoute
<1>4. DOMAIN InGpr(c, n).at = 1 .. n /\ \A w \in 1 .. n : InGpr(c, n).at[w] = <<"g", c.g + w - 1>>
  BY <1>1, InGprFacts DEF IsRoute
<1>5. \A x : <<"s", x>>[1] = "s" /\ <<"m", x>>[1] = "m" /\ <<"g", x>>[1] = "g" /\ <<"g", x>>[2] = x
  OBVIOUS
<1>6. \A w \in 1 .. n : InSse(c, n).at[w][1] = "s" /\ OnStack(c, n).at[w][1] = "m" /\ InGpr(c, n).at[w][1] = "g"
  BY <1>2, <1>3, <1>4, <1>5
<1>7. Reaches(InSse(c, n).at) /\ Reaches(OnStack(c, n).at)
  BY <1>2, <1>3, <1>6 DEF Reaches, InReg
<1>8. ASSUME Arm \/ c.g + n <= 6 PROVE Reaches(InGpr(c, n).at)
  <2> SUFFICES ASSUME NEW w \in 1 .. n PROVE InReg(InGpr(c, n).at[w])
    BY <1>4 DEF Reaches
  <2>1. InGpr(c, n).at[w][1] = "g" /\ InGpr(c, n).at[w][2] = c.g + w - 1
    BY <1>4, <1>5
  <2>2. CASE Arm
    BY <2>1, <2>2 DEF InReg
  <2>3. CASE c.g + n <= 6
    <3>1. c.g \in Nat
      BY DEF Cursors
    <3>2. c.g + w - 1 < 6
      BY <1>1, <2>3, <3>1
    <3> QED BY <2>1, <3>2 DEF InReg
  <2> QED BY <1>8, <2>2, <2>3
<1> QED BY <1>1, <1>2, <1>3, <1>4, <1>6, <1>7, <1>8

\* The words that carry an argument, and whether each is put where it goes.
Carried(t, at) ==
    /\ t.float = 16 => DOMAIN at = 1 .. 2
    /\ t.agg = 0 /\ t.float # 16 => DOMAIN at = 1 .. 1
    /\ t.agg > 0 /\ Arm /\ t.count > 0 /\ at[1][1] = "s" => DOMAIN at = 1 .. t.count
    /\ t.agg > 16 /\ Arm /\ at[1][1] # "s" => t.count = 0 /\ DOMAIN at = 1 .. 1
    /\ t.agg > 0 /\ ~(Arm /\ (t.agg > 16 \/ (t.count > 0 /\ at[1][1] = "s"))) => DOMAIN at = 1 .. Words(t)
    /\ t.agg > 16 /\ Arm /\ at[1][1] = "s" => t.count > 0
    /\ Reaches(at)

(* Outside the gaps the places of an argument carry it whole.              *)
LEMMA CarriedBy ==
    ASSUME NEW t, IsType(t, Target), NEW c \in Cursors,
           ~LargeFloats(t, c), ~NoRegisterLeft(t, c)
    PROVE  Carried(t, CallerStep(t, c).at)
<1>1. /\ t.agg \in Nat /\ t.float \in {0, 4, 8, 16} /\ t.count \in Nat
      /\ t.float # 0 => t.agg = 0
      /\ t.agg = 0 => t.count = 0 /\ ~IsMixed(t)
      /\ t.count > 0 => ~IsMixed(t)
      /\ IsMixed(t) => t.agg = 16 /\ t.count = 0
      /\ IsLongDouble(t) <=> t.float = 16
      /\ t.float = 16 => ~Arm
  BY TypeKinds DEF Arm, Target
<1>2. /\ Words(t) \in Nat \ {0} /\ ArmWords(t) \in Nat \ {0} /\ SseSlots(t) \in Nat
      /\ t.count > 0 => SseSlots(t) = Words(t)
      /\ t.agg = 0 => Words(t) = 1 /\ ArmWords(t) = 1
      /\ t.agg <= 16 => ArmWords(t) = Words(t)
      /\ t.agg > 16 => ArmWords(t) = 1
  BY WordCounts DEF ArmWords
<1>3. c.g \in Nat /\ c.s \in Nat /\ c.m \in Nat
  BY DEF Cursors
<1>4. CASE Arm
  <2>1. CallerStep(t, c) = ArmCaller(t, c)
    BY <1>4 DEF CallerStep
  <2>2. CASE t.float > 0
    <3>1. t.float # 16 /\ t.agg = 0 /\ t.count = 0
      BY <1>1, <1>4, <2>2
    <3>2. CallerStep(t, c) = InSse(c, 1) \/ CallerStep(t, c) = OnStack(c, 1)
      <4>1. ArmCaller(t, c) = IF c.s < 8 THEN InSse(c, 1) ELSE OnStack(c, 1)
        BY <2>2, <3>1 DEF ArmCaller
      <4> QED BY <2>1, <4>1
    <3>3. DOMAIN CallerStep(t, c).at = 1 .. 1 /\ Reaches(CallerStep(t, c).at)
      BY <3>2, StraightRoutes
    <3> QED BY <3>1, <3>3 DEF Carried
  <2>3. CASE ~(t.float > 0) /\ t.count > 0 /\ c.s + t.count <= 8
    <3>1. CallerStep(t, c) = InSse(c, t.count) /\ t.count \in Nat \ {0}
      BY <1>1, <2>1, <2>3 DEF ArmCaller
    <3>2. DOMAIN CallerStep(t, c).at = 1 .. t.count /\ CallerStep(t, c).at[1][1] = "s" /\ Reaches(CallerStep(t, c).at)
      BY <3>1, StraightRoutes
    <3>3. t.agg # 0 /\ t.float = 0
      BY <1>1, <2>3
    <3> QED BY <1>1, <1>4, <2>3, <3>2, <3>3 DEF Carried
  <2>4. CASE ~(t.float > 0) /\ t.count > 0 /\ ~(c.s + t.count <= 8)
    <3>1. CallerStep(t, c) = OnStack(c, ArmWords(t))
      BY <2>1, <2>4 DEF ArmCaller
    <3>2. ~(t.agg > 16)
      <4>1. c.s + t.count > 8
        BY <1>1, <1>3, <2>4
      <4> QED BY <1>4, <2>4, <4>1 DEF LargeFloats
    <3>3. DOMAIN CallerStep(t, c).at = 1 .. Words(t) /\ CallerStep(t, c).at[1][1] = "m" /\ Reaches(CallerStep(t, c).at)
      BY <1>1, <1>2, <3>1, <3>2, StraightRoutes
    <3>4. t.agg # 0 /\ t.float = 0
      BY <1>1, <2>4
    <3> QED BY <1>1, <2>4, <3>2, <3>3, <3>4 DEF Carried
  <2>5. CASE ~(t.float > 0) /\ ~(t.count > 0)
    <3>1. CallerStep(t, c) = InGpr(c, ArmWords(t)) \/ CallerStep(t, c) = OnStack(c, ArmWords(t))
      BY <2>1, <2>5 DEF ArmCaller
    <3>2. DOMAIN CallerStep(t, c).at = 1 .. ArmWords(t) /\ CallerStep(t, c).at[1][1] # "s" /\ Reaches(CallerStep(t, c).at)
      <4>1. CASE CallerStep(t, c) = InGpr(c, ArmWords(t))
        BY <1>2, <1>4, <4>1, StraightRoutes
      <4>2. CASE CallerStep(t, c) = OnStack(c, ArmWords(t))
        BY <1>2, <4>2, StraightRoutes
      <4> QED BY <3>1, <4>1, <4>2
    <3>3. t.count = 0 /\ t.float = 0
      BY <1>1, <2>5
    <3>4. t.agg > 0 /\ ~(t.agg > 16) => ArmWords(t) = Words(t)
      BY <1>1, <1>2
    <3> QED BY <1>2, <1>4, <3>2, <3>3, <3>4 DEF Carried
  <2> QED BY <2>2, <2>3, <2>4, <2>5
<1>5. CASE ~Arm
  <2>1. CallerStep(t, c) = X86Caller(t, c)
    BY <1>5 DEF CallerStep
  <2>2. CASE t.float # 0
    <3>1. t.agg = 0 /\ ~IsMixed(t)
      BY <1>1, <2>2
    <3>2. CASE t.float = 16
      <4>1. CallerStep(t, c) = OnStack(c, 2) /\ 2 \in Nat \ {0}
        BY <1>1, <2>1, <3>2 DEF X86Caller
      <4>2. DOMAIN CallerStep(t, c).at = 1 .. 2 /\ Reaches(CallerStep(t, c).at)
        BY <4>1, StraightRoutes
      <4> QED BY <3>1, <3>2, <4>2 DEF Carried
    <3>3. CASE t.float # 16
      <4>1. t.float \in 1 .. 11 /\ ~IsLongDouble(t) /\ ~(t.count > 0)
        BY <1>1, <2>2, <3>3, <3>1
      <4>2. CallerStep(t, c) = InSse(c, 1) \/ CallerStep(t, c) = OnStack(c, 1)
        <5>1. X86Caller(t, c) = IF c.s < 8 THEN InSse(c, 1) ELSE OnStack(c, 1)
          BY <4>1, <3>1 DEF X86Caller
        <5> QED BY <2>1, <5>1
      <4>3. DOMAIN CallerStep(t, c).at = 1 .. 1 /\ Reaches(CallerStep(t, c).at)
        BY <4>2, StraightRoutes
      <4> QED BY <3>1, <3>3, <4>3 DEF Carried
    <3> QED BY <3>2, <3>3
  <2>3. CASE IsMixed(t)
    <3>1. ~IsLongDouble(t) /\ ~(t.float \in 1 .. 11) /\ t.agg = 16 /\ t.count = 0 /\ t.float = 0
      BY <1>1, <2>3
    <3>2. CallerStep(t, c) = InBoth(t, c)
      BY <2>1, <2>3, <3>1 DEF X86Caller
    <3>3. c.g < 6
      BY <1>3, <1>5, <2>3 DEF NoRegisterLeft
    <3>4. PICK at : at = InBoth(t, c).at
      OBVIOUS
    <3>5. at = (IF t.mixed[1] = 2 THEN <<<<"s", c.s>>, <<"g", c.g>>>> ELSE <<<<"g", c.g>>, <<"s", c.s>>>>)
      BY <2>3, <3>4, InBothFacts
    <3>6. DOMAIN at = 1 .. 2 /\ \A j \in 1 .. 2 : at[j] = <<"s", c.s>> \/ at[j] = <<"g", c.g>>
      BY <3>5
    <3>7. Reaches(at)
      BY <3>3, <3>6 DEF Reaches, InReg
    <3>8. Words(t) = 2
      BY <3>1 DEF Words, WordsOf
    <3> QED BY <1>5, <3>1, <3>2, <3>4, <3>6, <3>7, <3>8 DEF Carried
  <2>4. CASE t.float = 0 /\ ~IsMixed(t)
    <3>1. ~IsLongDouble(t) /\ ~(t.float \in 1 .. 11)
      BY <1>1, <2>4
    <3>2. \/ t.count > 0 /\ CallerStep(t, c) = InSse(c, Words(t))
          \/ CallerStep(t, c) = OnStack(c, Words(t))
          \/ c.g + Words(t) <= 6 /\ CallerStep(t, c) = InGpr(c, Words(t))
      <4>1. CASE t.count > 0 /\ t.agg <= 16
        BY <1>2, <2>1, <2>4, <3>1, <4>1 DEF X86Caller
      <4>2. CASE ~(t.count > 0 /\ t.agg <= 16)
        BY <2>1, <2>4, <3>1, <4>2 DEF X86Caller
      <4> QED BY <4>1, <4>2
    <3>3. DOMAIN CallerStep(t, c).at = 1 .. Words(t) /\ Reaches(CallerStep(t, c).at)
      <4>1. CASE CallerStep(t, c) = InSse(c, Words(t)) \/ CallerStep(t, c) = OnStack(c, Words(t))
        BY <1>2, <4>1, StraightRoutes
      <4>2. CASE c.g + Words(t) <= 6 /\ CallerStep(t, c) = InGpr(c, Words(t))
        BY <1>2, <4>2, StraightRoutes
      <4> QED BY <3>2, <4>1, <4>2
    <3> QED BY <1>2, <1>5, <2>4, <3>3 DEF Carried
  <2> QED BY <2>2, <2>3, <2>4
<1> QED BY <1>4, <1>5

(* The halves of a value, and the words or elements they lie in.           *)
LEMMA HalfCounts ==
    ASSUME NEW t, NEW target, IsType(t, target)
    PROVE  /\ t.agg > 0 => HalvesOf(t) = t.agg \div 4 /\ t.agg \div 4 \in Nat \ {0} /\ t.agg \div 4 <= 2 * Words(t)
           /\ t.count > 0 => t.agg \div 4 <= 2 * t.count /\ (t.elem = 4 => t.agg \div 4 = t.count)
           /\ t.float = 16 => HalvesOf(t) = 4
           /\ t.float = 4 => HalvesOf(t) = 1
           /\ t.float \in {0, 8} /\ t.agg = 0 => HalvesOf(t) = 2
<1>1. /\ t.agg \in Nat /\ t.float \in {0, 4, 8, 16} /\ t.agg % 4 = 0 /\ t.count \in 0 .. 4 /\ t.elem \in {0, 4, 8}
      /\ t.float # 0 => t.agg = 0
      /\ t.count > 0 => t.elem \in {4, 8} /\ t.agg = t.elem * t.count
      /\ IsLongDouble(t) <=> t.float = 16
  BY TypeKinds
<1>2. t.agg > 0 => HalvesOf(t) = t.agg \div 4 /\ t.agg \div 4 \in Nat \ {0} /\ t.agg \div 4 <= 2 * Words(t)
  <2> SUFFICES ASSUME t.agg > 0 PROVE HalvesOf(t) = t.agg \div 4 /\ t.agg \div 4 \in Nat \ {0} /\ t.agg \div 4 <= 2 * Words(t)
    OBVIOUS
  <2>1. HalvesOf(t) = t.agg \div 4
    <3>1. ~IsLongDouble(t) /\ t.float # 4
      BY <1>1
    <3> QED BY <3>1 DEF HalvesOf
  <2>2. Words(t) = (t.agg + 7) \div 8
    BY WordCounts
  <2>3. \A x \in Nat \ {0} : x % 4 = 0 => x \div 4 \in Nat \ {0} /\ x \div 4 <= 2 * ((x + 7) \div 8)
    OBVIOUS
  <2> QED BY <1>1, <2>1, <2>2, <2>3
<1>3. t.count > 0 => t.agg \div 4 <= 2 * t.count /\ (t.elem = 4 => t.agg \div 4 = t.count)
  <2>1. CASE t.count > 0 /\ t.elem = 4
    <3>1. t.agg = 4 * t.count
      BY <1>1, <2>1
    <3> QED BY <1>1, <2>1, <3>1
  <2>2. CASE t.count > 0 /\ t.elem = 8
    <3>1. t.agg = 8 * t.count
      BY <1>1, <2>2
    <3> QED BY <1>1, <2>2, <3>1
  <2> QED BY <1>1, <2>1, <2>2
<1>4. t.float = 16 => HalvesOf(t) = 4
  BY <1>1 DEF HalvesOf
<1>5. t.float = 4 => HalvesOf(t) = 1
  BY <1>1 DEF HalvesOf
<1>6. t.float \in {0, 8} /\ t.agg = 0 => HalvesOf(t) = 2
  BY <1>1 DEF HalvesOf
<1> QED BY <1>2, <1>3, <1>4, <1>5, <1>6

\* The two ways to take a parameter.
ByAddress(t) == Arm /\ t.agg > 16 /\ t.count = 0
Singles(t, at) == at[1][1] = "s" /\ (t.float = 4 \/ (Arm /\ t.elem = 4))
WordsAt(at) == [j \in DOMAIN at |-> At(at[j])]
HalvesAt(t, at) ==
    [h \in 1 .. HalvesOf(t) |-> IF Singles(t, at) THEN WordsAt(at)[h][1] ELSE HalfOf(WordsAt(at), h)]

(* What the function called receives: by address, or half by half.         *)
LEMMA ReceivedIs ==
    ASSUME NEW t, NEW at
    PROVE  /\ ByAddress(t) => Received(t, at) = IF IsPointer(WordsAt(at)[1]) THEN Value(Pointee(WordsAt(at)[1]), t)
                                                                           ELSE WordsAt(at)[1]
           /\ ~ByAddress(t) => Received(t, at) = HalvesAt(t, at)
BY DEF Received, ByAddress, HalvesAt, WordsAt, Singles

(* It is the value, if the words sent are in its places,                   *)
LEMMA ReceivedRight ==
    ASSUME sig \in Signatures, NEW i \in 1 .. N, NEW at, at = Route(i), Carried(Params[i], at),
           \A j \in DOMAIN at : At(at[j]) = PieceAt(i, j)
    PROVE  Received(Params[i], at) = Value(i, Params[i])
<1> DEFINE t == Params[i]
           words == WordsAt(at)
<1>1. IsType(t, Target) /\ i \in Nat
  BY Sizes
<1>2. /\ t.agg \in Nat /\ t.float \in {0, 4, 8, 16} /\ t.count \in Nat /\ t.elem \in {0, 4, 8}
      /\ t.float # 0 => t.agg = 0
      /\ t.agg = 0 => t.count = 0 /\ t.elem # 4
      /\ t.count > 0 => t.agg > 0
      /\ IsLongDouble(t) <=> t.float = 16
      /\ t.count = 0 => t.elem = 0
  BY <1>1, TypeKinds
<1>3. \A j \in DOMAIN at : words[j] = PieceOf(i, j, at[1][1] = "s")
  BY DEF WordsAt, PieceAt
<1>4. /\ t.agg > 0 => HalvesOf(t) = t.agg \div 4 /\ t.agg \div 4 \in Nat \ {0} /\ t.agg \div 4 <= 2 * Words(t)
      /\ t.count > 0 => t.agg \div 4 <= 2 * t.count /\ (t.elem = 4 => t.agg \div 4 = t.count)
      /\ t.float = 16 => HalvesOf(t) = 4
      /\ t.float = 4 => HalvesOf(t) = 1
      /\ t.float \in {0, 8} /\ t.agg = 0 => HalvesOf(t) = 2
  BY <1>1, HalfCounts
<1>5. Carried(t, at)
  OBVIOUS
<1>6. /\ ByAddress(t) => Received(t, at) = IF IsPointer(words[1]) THEN Value(Pointee(words[1]), t) ELSE words[1]
      /\ ~ByAddress(t) => Received(t, at) = HalvesAt(t, at)
  BY ReceivedIs
<1>7. Words(t) \in Nat
  BY <1>1, WordCounts
<1> DEFINE inSse == at[1][1] = "s"
<1>p. \A j :
        /\ t.float = 4 => PieceOf(i, j, inSse) = Narrow(WordOf(i, 0))
        /\ t.float # 4 /\ t.agg = 0 => PieceOf(i, j, inSse) = WordOf(i, IF IsLongDouble(t) THEN j - 1 ELSE 0)
        /\ t.float # 4 /\ t.agg # 0 /\ Arm /\ t.elem = 4 /\ inSse => PieceOf(i, j, inSse) = <<<<i, j>>, Junk>>
        /\ t.float # 4 /\ t.agg # 0 /\ ~(Arm /\ t.elem = 4 /\ inSse) /\ Arm /\ t.agg > 16 /\ ~inSse
              => PieceOf(i, j, inSse) = Pointer(i)
        /\ t.float # 4 /\ t.agg # 0 /\ ~(Arm /\ t.elem = 4 /\ inSse) /\ ~(Arm /\ t.agg > 16 /\ ~inSse)
              => PieceOf(i, j, inSse) = WordOf(i, j - 1)
  BY DEF PieceOf
<1>v. /\ t.float = 4 => Value(i, t) = <<<<i, -3>>>>
      /\ t.float # 4 => Value(i, t) = [h \in 1 .. HalvesOf(t) |-> <<i, h>>]
  BY DEF Value
<1>0. SUFFICES Received(t, at) = Value(i, t)
  OBVIOUS
<1> HIDE DEF t, words
<1>8. ASSUME ~ByAddress(t), ~Singles(t, at), t.float # 4, NEW W \in Nat,
             \A w \in 1 .. W : words[w] = WordOf(i, w - 1),
             HalvesOf(t) <= 2 * W, HalvesOf(t) \in Nat
      PROVE  Received(t, at) = Value(i, t)
  <2>1. Received(t, at) = [h \in 1 .. HalvesOf(t) |-> HalfOf(words, h)]
    BY <1>6, <1>8 DEF HalvesAt, words
  <2>2. \A h \in 1 .. HalvesOf(t) : HalfOf(words, h) = <<i, h>>
    <3> SUFFICES ASSUME NEW h \in 1 .. HalvesOf(t) PROVE HalfOf(words, h) = <<i, h>>
      OBVIOUS
    <3>1. h \in Nat \ {0} /\ h <= 2 * W
      BY <1>8
    <3> QED BY <1>8, <3>1, HalvesOfWords
  <2> QED BY <1>8, <1>v, <2>1, <2>2
<1>9. CASE ByAddress(t)
  <2>1. t.agg > 16 /\ Arm /\ t.count = 0 /\ t.agg # 0 /\ t.elem = 0 /\ t.float # 4
    BY <1>2, <1>9 DEF ByAddress
  <2>2. at[1][1] # "s" /\ DOMAIN at = 1 .. 1
    BY <1>5, <2>1 DEF Carried
  <2>3. words[1] = Pointer(i)
    <3>1. words[1] = PieceOf(i, 1, at[1][1] = "s")
      BY <1>3, <2>2
    <3> QED BY <1>p, <2>1, <2>2, <3>1
  <2>4. IsPointer(Pointer(i)) /\ Pointee(Pointer(i)) = i
    BY DEF IsPointer, Pointee, Pointer
  <2> QED BY <1>6, <1>9, <2>3, <2>4
<1>10. CASE t.float = 4
  <2>1. t.agg = 0 /\ DOMAIN at = 1 .. 1 /\ ~ByAddress(t)
    BY <1>2, <1>5, <1>10 DEF Carried, ByAddress
  <2>2. words[1] = <<<<i, -3>>, Junk>>
    <3>1. words[1] = Narrow(WordOf(i, 0))
      BY <1>3, <1>10, <1>p, <2>1
    <3> QED BY <3>1 DEF Narrow, WordOf
  <2>3. HalfOf(words, 1) = words[1][1]
    BY HalfOne
  <2>4. words[1][1] = <<i, -3>>
    BY <2>2
  <2>5. Received(t, at) = [h \in 1 .. 1 |-> <<i, -3>>]
    BY <1>4, <1>6, <1>10, <2>1, <2>3, <2>4 DEF HalvesAt, words
  <2>6. [h \in 1 .. 1 |-> <<i, -3>>] = <<<<i, -3>>>>
    OBVIOUS
  <2> QED BY <1>10, <1>v, <2>5, <2>6
<1>11. CASE t.float # 4 /\ t.agg = 0
  <2>1. ~ByAddress(t) /\ ~Singles(t, at)
    BY <1>2, <1>11 DEF ByAddress, Singles
  <2>2. CASE t.float = 16
    <3>1. DOMAIN at = 1 .. 2
      BY <1>5, <2>2 DEF Carried
    <3>2. \A w \in 1 .. 2 : words[w] = WordOf(i, w - 1)
      BY <1>2, <1>3, <1>11, <1>p, <2>2, <3>1
    <3> QED BY <1>4, <1>8, <1>11, <2>1, <2>2, <3>2
  <2>3. CASE t.float # 16
    <3>1. DOMAIN at = 1 .. 1 /\ ~IsLongDouble(t) /\ t.float \in {0, 8}
      BY <1>2, <1>5, <1>11, <2>3 DEF Carried
    <3>2. \A w \in 1 .. 1 : words[w] = WordOf(i, 0)
      BY <1>3, <1>11, <1>p, <3>1
    <3>3. \A w \in 1 .. 1 : w - 1 = 0
      OBVIOUS
    <3>4. \A w \in 1 .. 1 : words[w] = WordOf(i, w - 1)
      BY <3>2, <3>3
    <3> QED BY <1>4, <1>8, <1>11, <2>1, <3>1, <3>4
  <2> QED BY <2>2, <2>3
<1>12. CASE t.agg > 0 /\ ~ByAddress(t)
  <2>1. t.agg # 0 /\ t.float # 4 /\ t.float = 0
    BY <1>2, <1>12
  <2>2. CASE Arm /\ t.elem = 4 /\ at[1][1] = "s"
    <3>1. t.count > 0
      BY <1>2, <2>2
    <3>2. DOMAIN at = 1 .. t.count /\ HalvesOf(t) = t.count
      BY <1>4, <1>5, <1>12, <2>2, <3>1 DEF Carried
    <3>3. \A h \in 1 .. t.count : words[h] = <<<<i, h>>, Junk>>
      BY <1>3, <1>p, <2>1, <2>2, <3>2
    <3>4. \A h \in 1 .. t.count : words[h][1] = <<i, h>>
      BY <3>3
    <3>5. Received(t, at) = [h \in 1 .. HalvesOf(t) |-> words[h][1]]
      BY <1>6, <1>12, <2>2 DEF HalvesAt, Singles, words
    <3> QED BY <1>v, <2>1, <3>2, <3>4, <3>5
  <2>3. CASE ~(Arm /\ t.elem = 4 /\ at[1][1] = "s")
    <3>1. ~Singles(t, at)
      BY <2>1, <2>3 DEF Singles
    <3>2. ~(Arm /\ t.agg > 16 /\ ~(at[1][1] = "s"))
      BY <1>2, <1>5, <1>12 DEF Carried, ByAddress
    <3>3. \A j \in DOMAIN at : words[j] = WordOf(i, j - 1)
      BY <1>3, <1>p, <2>1, <2>3, <3>2
    <3>4. CASE Arm /\ t.count > 0 /\ at[1][1] = "s"
      <4>1. DOMAIN at = 1 .. t.count
        BY <1>5, <1>12, <3>4 DEF Carried
      <4>2. HalvesOf(t) <= 2 * t.count /\ HalvesOf(t) \in Nat
        BY <1>4, <1>12, <3>4
      <4> QED BY <1>2, <1>8, <1>12, <2>1, <3>1, <3>3, <4>1, <4>2
    <3>5. CASE ~(Arm /\ t.count > 0 /\ at[1][1] = "s")
      <4>1. ~(Arm /\ (t.agg > 16 \/ (t.count > 0 /\ at[1][1] = "s")))
        <5>1. Arm /\ t.agg > 16 => FALSE
          BY <1>5, <3>2, <3>5 DEF Carried
        <5> QED BY <3>5, <5>1
      <4>2. DOMAIN at = 1 .. Words(t)
        BY <1>5, <1>12, <4>1 DEF Carried
      <4>3. HalvesOf(t) <= 2 * Words(t) /\ HalvesOf(t) \in Nat
        BY <1>4, <1>12
      <4> QED BY <1>7, <1>8, <1>12, <2>1, <3>1, <3>3, <4>2, <4>3
    <3> QED BY <3>4, <3>5
  <2> QED BY <2>2, <2>3
<1> QED BY <1>2, <1>9, <1>10, <1>11, <1>12

\* What the callee takes for a parameter.
Taken(i) == Received(Params[i], CalleeStep(Params[i], CalleeCursor[i - 1]).at)

(* Before and after the first gap, by one lemma each: the callee reads the *)
(* places of the caller, and what it finds there decides.                  *)
LEMMA RightIf ==
    ASSUME sig \in Signatures, NEW i \in 1 .. N, \A h \in 1 .. i : ~GapAt(h),
           \A j \in DOMAIN Route(i) : At(Route(i)[j]) = PieceAt(i, j)
    PROVE  Taken(i) = Value(i, Params[i])
<1>1. N \in Nat /\ IsType(Params[i], Target)
  BY Sizes
<1>2. i - 1 \in 0 .. N /\ i \in 1 .. i /\ \A h \in 1 .. i - 1 : h \in 1 .. i
  BY <1>1
<1>3. CalleeCursor[i - 1] = CallerCursor[i - 1] /\ CallerCursor[i - 1] \in Cursors
  BY <1>2, CursorsAgree, CallerCursors
<1>4. /\ ~NinthFloat(Params[i], CallerCursor[i - 1]) /\ ~LargeFloats(Params[i], CallerCursor[i - 1])
      /\ ~NoRegisterLeft(Params[i], CallerCursor[i - 1])
  BY <1>2 DEF GapAt
<1>5. CalleeStep(Params[i], CalleeCursor[i - 1]).at = Route(i)
  BY <1>1, <1>3, <1>4, StepsAgree DEF Route
<1>6. Carried(Params[i], Route(i))
  BY <1>1, <1>3, <1>4, CarriedBy DEF Route
<1> QED BY <1>5, <1>6, ReceivedRight DEF Taken

(* and is not, if the first of them belongs to something else.             *)
LEMMA WrongIf ==
    ASSUME NEW t, NEW target, IsType(t, target), NEW i, NEW at, 1 \in DOMAIN at, ~ByAddress(t),
           At(at[1])[1] # <<i, 1>>, At(at[1])[1] # <<i, -3>>
    PROVE  Received(t, at) # Value(i, t)
<1>1. /\ t.float = 4 => HalvesOf(t) = 1
      /\ HalvesOf(t) \in Nat \ {0}
  <2>1. t.agg \in Nat /\ t.float \in {0, 4, 8, 16}
    BY TypeKinds
  <2>2. CASE t.agg > 0
    BY <2>1, <2>2, HalfCounts
  <2>3. CASE t.agg = 0
    <3>1. t.float = 16 \/ t.float = 4 \/ t.float \in {0, 8}
      BY <2>1
    <3>2. HalvesOf(t) = 4 \/ HalvesOf(t) = 1 \/ HalvesOf(t) = 2
      BY <2>3, <3>1, HalfCounts
    <3> QED BY <3>2, HalfCounts
  <2> QED BY <2>1, <2>2, <2>3
<1>2. Received(t, at) = HalvesAt(t, at)
  BY ReceivedIs
<1>3. WordsAt(at)[1] = At(at[1])
  BY DEF WordsAt
<1>4. HalfOf(WordsAt(at), 1) = WordsAt(at)[1][1]
  BY HalfOne
<1>5. HalvesAt(t, at)[1] = At(at[1])[1]
  BY <1>1, <1>3, <1>4 DEF HalvesAt
<1>6. Value(i, t)[1] \in {<<i, 1>>, <<i, -3>>}
  BY <1>1 DEF Value
<1> QED BY <1>2, <1>5, <1>6

(* Up to the first gap every argument arrives,                             *)
LEMMA PlacedRight ==
    ASSUME Control, Data, phase = "take", Path \in {"scalar", "aggregate"},
           NEW i \in 1 .. N, \A h \in 1 .. i : ~GapAt(h)
    PROVE  Taken(i) = Value(i, Params[i])
<1>1. sig \in Signatures
  BY DEF Control
<1>2. ~NoRegisterLeft(Params[i], CallerCursor[i - 1]) /\ ~LargeFloats(Params[i], CallerCursor[i - 1])
  <2>1. i \in 1 .. i
    OBVIOUS
  <2> QED BY <2>1 DEF GapAt
<1>3. Carried(Params[i], Route(i))
  BY <1>1, <1>2, RouteFacts, CarriedBy DEF Route
<1>4. \A j \in DOMAIN Route(i) : At(Route(i)[j]) = PieceAt(i, j)
  <2> SUFFICES ASSUME NEW j \in DOMAIN Route(i) PROVE At(Route(i)[j]) = PieceAt(i, j)
    OBVIOUS
  <2>1. Sent(i, j)
    BY DEF Data, ByPlaces
  <2>2. Route(i)[j][1] = "m" \/ InReg(Route(i)[j])
    BY <1>3 DEF Carried, Reaches
  <2>3. CASE Route(i)[j][1] = "m"
    BY <2>1, <2>3 DEF Sent, At, Read
  <2>4. CASE Route(i)[j][1] # "m" /\ InReg(Route(i)[j])
    BY <2>1, <2>4 DEF Sent, At, Read
  <2> QED BY <2>2, <2>3, <2>4
<1> QED BY <1>1, <1>4, RightIf

(* A register that an argument was not put in holds none of it.            *)
LEMMA NotOwned ==
    ASSUME Control, Data, phase = "take", Path \in {"scalar", "aggregate"},
           NEW i \in 1 .. N, NEW p, p[1] # "m", ~InReg(p) \/ \A j \in DOMAIN Route(i) : Route(i)[j] # p
    PROVE  At(p)[1][1] # i
<1>1. sig \in Signatures /\ N \in Nat
  BY Sizes DEF Control
<1>2. At(p) = Read(regs, p)
  BY DEF At
<1>3. CASE p \notin DOMAIN regs
  <2>1. At(p) = <<<<0, 0>>, <<0, 0>>>>
    BY <1>2, <1>3 DEF Read, JunkWord, Junk
  <2> QED BY <1>1, <2>1
<1>4. CASE p \in DOMAIN regs
  <2>1. OwnedRegs /\ \A h \in 1 .. N : \A j \in DOMAIN Route(h) : Sent(h, j)
    BY DEF Data, ByPlaces
  <2>2. PICK h \in 1 .. N : \E j \in DOMAIN Route(h) : p = Route(h)[j]
    BY <1>4, <2>1 DEF OwnedRegs
  <2>3. PICK j \in DOMAIN Route(h) : p = Route(h)[j]
    BY <2>2
  <2>4. InReg(p) /\ h # i
    BY <1>4, <2>1, <2>3 DEF OwnedRegs
  <2>5. At(p) = PieceAt(h, j)
    BY <1>2, <1>4, <2>1, <2>3, <2>4 DEF Sent, Read
  <2>6. PieceAt(h, j)[1][1] = h
    BY DEF PieceAt, PieceOf, Narrow, WordOf, Pointer
  <2> QED BY <2>4, <2>5, <2>6
<1> QED BY <1>3, <1>4

(* Looked for in a register, but passed on the stack.                      *)
LEMMA MissingIf ==
    ASSUME Control, Data, phase = "take", Path \in {"scalar", "aggregate"},
           NEW i \in 1 .. N, NEW at, 1 \in DOMAIN at, at[1][1] # "m", ~ByAddress(Params[i]),
           \A j \in DOMAIN Route(i) : Route(i)[j][1] = "m"
    PROVE  Received(Params[i], at) # Value(i, Params[i])
<1>1. At(at[1])[1][1] # i
  <2>1. \A j \in DOMAIN Route(i) : Route(i)[j] # at[1]
    OBVIOUS
  <2> QED BY <2>1, NotOwned
<1>2. At(at[1])[1] # <<i, 1>> /\ At(at[1])[1] # <<i, -3>>
  BY <1>1
<1>3. IsType(Params[i], Target)
  BY Sizes DEF Control
<1> QED BY <1>2, <1>3, WrongIf

(* Where the two sides look for a ninth float,                             *)
LEMMA NinthFloatSteps ==
    ASSUME NEW t, IsType(t, Target), NEW c \in Cursors, NinthFloat(t, c)
    PROVE  CallerStep(t, c) = OnStack(c, 1) /\ CalleeStep(t, c) = InGpr(c, 1) /\ ~ByAddress(t)
<1>1. t.float \in {4, 8} /\ t.agg = 0 /\ t.count = 0 /\ ~IsMixed(t) /\ ~IsLongDouble(t)
  <2>1. t.float \in {0, 4, 8, 16} /\ t.float \in 1 .. 11
    BY TypeKinds DEF NinthFloat
  <2>2. t.float \in {4, 8}
    BY <2>1
  <2> QED BY <2>2, TypeKinds
<1>2. Words(t) = 1 /\ ArmWords(t) = 1
  BY <1>1, WordCounts
<1>3. c.g \in Nat /\ c.s \in Nat /\ ~(c.s < 8) /\ c.g + 1 <= IF Arm THEN 8 ELSE 6
  BY DEF Cursors, NinthFloat
<1>4. t.float > 0 /\ t.float \in 1 .. 11 /\ ~(t.count > 0) /\ t.agg <= 16 /\ ~(t.agg > 16)
  BY <1>1
<1>5. CASE Arm
  <2>1. ArmCaller(t, c) = OnStack(c, 1)
    BY <1>3, <1>4 DEF ArmCaller
  <2>2. ArmCallee(t, c) = InGpr(c, 1)
    BY <1>2, <1>3, <1>4, <1>5 DEF ArmCallee
  <2> QED BY <1>4, <1>5, <2>1, <2>2 DEF CallerStep, CalleeStep, ByAddress
<1>6. CASE ~Arm
  <2>1. X86Caller(t, c) = OnStack(c, 1)
    BY <1>1, <1>3, <1>4 DEF X86Caller
  <2>2. X86Callee(t, c) = InGpr(c, 1)
    BY <1>1, <1>2, <1>3, <1>4, <1>6 DEF X86Callee
  <2> QED BY <1>4, <1>6, <2>1, <2>2 DEF CallerStep, CalleeStep, ByAddress
<1> QED BY <1>5, <1>6

(* and where for large floats.                                             *)
LEMMA LargeFloatsSteps ==
    ASSUME NEW t, IsType(t, Target), NEW c \in Cursors, LargeFloats(t, c)
    PROVE  /\ t.agg > 16 /\ ~ByAddress(t)
           /\ Arm => CallerStep(t, c) = OnStack(c, 1) /\ CalleeStep(t, c) = OnStack(c, Words(t))
           /\ ~Arm => CallerStep(t, c) = OnStack(c, Words(t)) /\ CalleeStep(t, c) = InSse(c, Words(t))
<1>1. /\ t.count > 0 /\ t.agg > 16 /\ t.count # 0
      /\ Arm => c.s + t.count > 8
      /\ ~Arm => c.s + SseSlots(t) <= 8
  BY DEF LargeFloats
<1>2. t.agg \in Nat /\ t.count \in Nat /\ ~IsMixed(t) /\ t.float = 0 /\ ~IsLongDouble(t)
  <2>1. t.agg # 0
    BY <1>1
  <2>2. t.float \in {0, 4, 8, 16} /\ (t.float # 0 => t.agg = 0) /\ (IsLongDouble(t) <=> t.float = 16)
    BY TypeKinds
  <2> QED BY <1>1, <2>1, <2>2, TypeKinds
<1>3. ~(t.float > 0) /\ ~(t.float \in 1 .. 11) /\ ~(t.agg <= 16) /\ c.s \in Nat
  BY <1>1, <1>2 DEF Cursors
<1>4. ArmWords(t) = 1 /\ SseSlots(t) = Words(t)
  BY <1>1, WordCounts DEF ArmWords
<1>5. CASE Arm
  <2>1. ~(c.s + t.count <= 8)
    BY <1>1, <1>2, <1>3, <1>5
  <2>2. ArmCaller(t, c) = OnStack(c, 1)
    BY <1>1, <1>3, <1>4, <2>1 DEF ArmCaller
  <2>3. ArmCallee(t, c) = OnStack(c, Words(t))
    BY <1>1, <1>3, <2>1 DEF ArmCallee
  <2> QED BY <1>1, <1>5, <2>2, <2>3 DEF CallerStep, CalleeStep, ByAddress
<1>6. CASE ~Arm
  <2>1. X86Caller(t, c) = OnStack(c, Words(t))
    BY <1>2, <1>3 DEF X86Caller
  <2>2. X86Callee(t, c) = InSse(c, Words(t))
    BY <1>1, <1>2, <1>3, <1>4, <1>6 DEF X86Callee
  <2> QED BY <1>1, <1>6, <2>1, <2>2 DEF CallerStep, CalleeStep, ByAddress
<1> QED BY <1>5, <1>6

(* and the argument of the first gap does not.                             *)
LEMMA PlacedWrong ==
    ASSUME Control, Data, phase = "take", Path \in {"scalar", "aggregate"},
           NEW i \in 1 .. N, \A h \in 1 .. i - 1 : ~GapAt(h), GapAt(i)
    PROVE  Taken(i) # Value(i, Params[i])
<1> DEFINE t == Params[i]
           c == CallerCursor[i - 1]
           at == CalleeStep(t, c).at
<1>1. sig \in Signatures
  BY DEF Control
<1>2. IsType(t, Target) /\ N \in Nat
  BY <1>1, Sizes
<1>3. i - 1 \in 0 .. N /\ i \in Nat
  BY <1>2
<1>4. c \in Cursors /\ CalleeCursor[i - 1] = c
  BY <1>1, <1>3, CallerCursors, CursorsAgree
<1>5. Taken(i) = Received(t, at) /\ Route(i) = CallerStep(t, c).at
  BY <1>4 DEF Taken, Route
<1>6. NinthFloat(t, c) \/ LargeFloats(t, c) \/ NoRegisterLeft(t, c)
  BY DEF GapAt
<1>7. \A n \in Nat \ {0} :
        /\ 1 \in DOMAIN InGpr(c, n).at /\ InGpr(c, n).at[1][1] # "m"
        /\ 1 \in DOMAIN InSse(c, n).at /\ InSse(c, n).at[1][1] # "m"
        /\ 1 \in DOMAIN OnStack(c, n).at /\ OnStack(c, n).at[1] = <<"m", c.m>>
        /\ \A j \in DOMAIN OnStack(c, n).at : OnStack(c, n).at[j][1] = "m"
  <2> SUFFICES ASSUME NEW n \in Nat \ {0}
               PROVE  /\ 1 \in DOMAIN InGpr(c, n).at /\ InGpr(c, n).at[1][1] # "m"
                      /\ 1 \in DOMAIN InSse(c, n).at /\ InSse(c, n).at[1][1] # "m"
                      /\ 1 \in DOMAIN OnStack(c, n).at /\ OnStack(c, n).at[1] = <<"m", c.m>>
                      /\ \A j \in DOMAIN OnStack(c, n).at : OnStack(c, n).at[j][1] = "m"
    OBVIOUS
  <2>1. n \in Nat /\ 1 \in 1 .. n
    OBVIOUS
  <2>2. c.m \in Nat
    BY <1>4 DEF Cursors
  <2>3. /\ DOMAIN OnStack(c, n).at = 1 .. n
        /\ \A w \in 1 .. n : OnStack(c, n).at[w] = <<"m", c.m + w - 1>>
    BY <1>4, <2>1, OnStackFacts DEF IsRoute
  <2>4. OnStack(c, n).at[1] = <<"m", c.m>>
    <3>1. c.m + 1 - 1 = c.m
      BY <2>2
    <3> QED BY <2>1, <2>3, <3>1
  <2>5. \A j \in DOMAIN OnStack(c, n).at : OnStack(c, n).at[j][1] = "m"
    BY <2>3
  <2>6. /\ DOMAIN InGpr(c, n).at = 1 .. n /\ InGpr(c, n).at[1][1] = "g"
        /\ DOMAIN InSse(c, n).at = 1 .. n /\ InSse(c, n).at[1][1] = "s"
    BY <1>4, StraightRoutes
  <2> QED BY <2>1, <2>3, <2>4, <2>5, <2>6
<1>8. Words(t) \in Nat \ {0}
  BY <1>2, WordCounts
<1> HIDE DEF t, c, at
<1>9. CASE NinthFloat(t, c)
  <2>1. CallerStep(t, c) = OnStack(c, 1) /\ CalleeStep(t, c) = InGpr(c, 1) /\ ~ByAddress(t)
    BY <1>2, <1>4, <1>9, NinthFloatSteps
  <2>2. \A j \in DOMAIN Route(i) : Route(i)[j][1] = "m"
    BY <1>5, <1>7, <2>1
  <2>3. 1 \in DOMAIN at /\ at[1][1] # "m"
    BY <1>7, <2>1 DEF at
  <2> QED BY <1>5, <2>1, <2>2, <2>3, MissingIf DEF t
<1>10. CASE LargeFloats(t, c) /\ ~Arm
  <2>1. CallerStep(t, c) = OnStack(c, Words(t)) /\ CalleeStep(t, c) = InSse(c, Words(t)) /\ ~ByAddress(t)
    BY <1>2, <1>4, <1>10, LargeFloatsSteps
  <2>2. \A j \in DOMAIN Route(i) : Route(i)[j][1] = "m"
    BY <1>5, <1>7, <1>8, <2>1
  <2>3. 1 \in DOMAIN at /\ at[1][1] # "m"
    BY <1>7, <1>8, <2>1 DEF at
  <2> QED BY <1>5, <2>1, <2>2, <2>3, MissingIf DEF t
<1>11. CASE LargeFloats(t, c) /\ Arm
  <2>1. CallerStep(t, c) = OnStack(c, 1) /\ CalleeStep(t, c) = OnStack(c, Words(t)) /\ ~ByAddress(t) /\ t.agg > 16
    BY <1>2, <1>4, <1>11, LargeFloatsSteps
  <2>2. /\ 1 \in DOMAIN Route(i) /\ Route(i)[1] = <<"m", c.m>>
        /\ 1 \in DOMAIN at /\ at[1] = <<"m", c.m>>
    BY <1>5, <1>7, <1>8, <2>1 DEF at
  <2>3. Sent(i, 1)
    BY <2>2 DEF Data, ByPlaces
  <2>4. Route(i)[1][1] = "m" /\ Route(i)[1][2] = c.m
    BY <2>2
  <2>5. At(at[1]) = PieceAt(i, 1)
    BY <2>2, <2>3, <2>4 DEF Sent, At, Read
  <2>6. PieceAt(i, 1) = Pointer(i)
    <3>1. t.agg # 0 /\ t.float # 4
      <4>1. t.agg # 0
        BY <2>1
      <4> QED BY <1>2, <4>1, TypeKinds
    <3>2. ~(Route(i)[1][1] = "s")
      BY <2>4
    <3>3. PieceAt(i, 1) = IF Arm /\ t.elem = 4 /\ (Route(i)[1][1] = "s") THEN <<<<i, 1>>, Junk>>
                          ELSE IF Arm /\ t.agg > 16 /\ ~(Route(i)[1][1] = "s") THEN Pointer(i) ELSE WordOf(i, 1 - 1)
      BY <3>1 DEF PieceAt, PieceOf, t
    <3> QED BY <1>11, <2>1, <3>2, <3>3
  <2>7. At(at[1])[1] = <<i, -1>>
    BY <2>5, <2>6 DEF Pointer
  <2>8. At(at[1])[1] # <<i, 1>> /\ At(at[1])[1] # <<i, -3>>
    BY <2>7
  <2>9. Received(t, at) # Value(i, t)
    BY <1>2, <2>1, <2>2, <2>8, WrongIf
  <2> QED BY <1>5, <2>9 DEF t
<1>12. CASE NoRegisterLeft(t, c)
  <2>1. ~Arm /\ IsMixed(t) /\ c.g >= 6 /\ c.g \in Nat
    BY <1>4, <1>12 DEF NoRegisterLeft, Cursors
  <2>2. /\ t.agg = 16 /\ t.count = 0 /\ t.float = 0 /\ t.mixed \in {<<1, 2>>, <<2, 1>>} /\ ~IsLongDouble(t)
    <3>1. /\ t.agg = 16 /\ t.count = 0 /\ t.mixed \in {<<1, 2>>, <<2, 1>>}
          /\ (t.float # 0 => t.agg = 0) /\ t.float \in {0, 4, 8, 16} /\ (IsLongDouble(t) <=> t.float = 16)
      BY <1>2, <2>1, TypeKinds
    <3> QED BY <3>1
  <2>3. at = IF t.mixed[1] = 2 THEN <<<<"s", c.s>>, <<"g", c.g>>>> ELSE <<<<"g", c.g>>, <<"s", c.s>>>>
    <3>1. CalleeStep(t, c) = InBoth(t, c)
      <4>1. ~(t.float \in 1 .. 11)
        BY <2>2
      <4> QED BY <2>1, <2>2, <4>1 DEF CalleeStep, X86Callee
    <3>2. InBoth(t, c).at = IF t.mixed[1] = 2 THEN <<<<"s", c.s>>, <<"g", c.g>>>> ELSE <<<<"g", c.g>>, <<"s", c.s>>>>
      <4>1. c \in Cursors /\ IsMixed(t) /\ IsType(t, Target)
        BY <1>2, <1>4, <2>1
      <4>2. PICK both : both = InBoth(t, c).at
        OBVIOUS
      <4>3. both = IF t.mixed[1] = 2 THEN <<<<"s", c.s>>, <<"g", c.g>>>> ELSE <<<<"g", c.g>>, <<"s", c.s>>>>
        BY <4>1, <4>2, InBothFacts
      <4> QED BY <4>2, <4>3
    <3> QED BY <3>1, <3>2 DEF at
  <2>4. At(<<"g", c.g>>)[1][1] # i
    <3>1. ~InReg(<<"g", c.g>>) /\ <<"g", c.g>>[1] # "m"
      BY <2>1 DEF InReg
    <3>2. PICK p : p = <<"g", c.g>>
      OBVIOUS
    <3>3. ~InReg(p) /\ p[1] # "m"
      BY <3>1, <3>2
    <3>4. At(p)[1][1] # i
      BY <3>3, NotOwned
    <3> QED BY <3>2, <3>4
  <2>5. ~ByAddress(t) /\ HalvesOf(t) = 4
    <3>1. HalvesOf(t) = 16 \div 4
      BY <2>2 DEF HalvesOf
    <3> QED BY <2>1, <3>1 DEF ByAddress
  <2>6. /\ Received(t, at) = HalvesAt(t, at) /\ ~Singles(t, at)
        /\ Value(i, t) = [h \in 1 .. 4 |-> <<i, h>>]
    BY <2>1, <2>2, <2>5, ReceivedIs DEF Singles, Value
  <2>7. Received(t, at) = [h \in 1 .. 4 |-> HalfOf(WordsAt(at), h)]
    BY <2>5, <2>6 DEF HalvesAt
  <2>8. CASE t.mixed[1] = 2
    <3>1. at[2] = <<"g", c.g>> /\ 2 \in DOMAIN at
      BY <2>3, <2>8
    <3>2. WordsAt(at)[2] = At(<<"g", c.g>>)
      BY <3>1 DEF WordsAt
    <3>3. HalfOf(WordsAt(at), 3) = WordsAt(at)[2][1]
      BY DEF HalfOf
    <3>4. Received(t, at)[3] = At(<<"g", c.g>>)[1]
      BY <2>7, <3>2, <3>3
    <3>5. Value(i, t)[3] = <<i, 3>> /\ <<i, 3>>[1] = i
      BY <2>6
    <3> QED BY <1>5, <2>4, <3>4, <3>5 DEF t
  <2>9. CASE t.mixed[1] # 2
    <3>1. at[1] = <<"g", c.g>> /\ 1 \in DOMAIN at
      BY <2>3, <2>9
    <3>2. At(at[1])[1] # <<i, 1>> /\ At(at[1])[1] # <<i, -3>>
      BY <2>4, <3>1
    <3>3. Received(t, at) # Value(i, t)
      BY <1>2, <2>5, <3>1, <3>2, WrongIf
    <3> QED BY <1>5, <3>3 DEF t
  <2> QED BY <2>8, <2>9
<1> QED BY <1>6, <1>9, <1>10, <1>11, <1>12

-----------------------------------------------------------------------------
\* Arguments that are all integers, and the invariant of the parameters.

(* A type that is no aggregate and no float is the integer.                *)
LEMMA IntegerIs ==
    ASSUME NEW t, NEW target, IsType(t, target), t.agg = 0, t.float = 0
    PROVE  IsInteger(t)
<1>1. CASE t \in {Scalar(0), Scalar(4), Scalar(8)} \/ (target = "x86_64" /\ t = Scalar(16))
  BY <1>1 DEF Scalar, IsInteger
<1>2. CASE t.agg \in Nat \ {0} /\ t.agg % 4 = 0 /\ t = Struct(t.agg)
  BY <1>2
<1>3. CASE \E elem \in {4, 8}, count \in 1 .. 4 : t = Homogeneous(elem, count)
  <2>1. PICK elem \in {4, 8}, count \in 1 .. 4 : t = Homogeneous(elem, count)
    BY <1>3
  <2>2. t.count = count
    BY <2>1 DEF Homogeneous, Struct, Scalar
  <2>3. t.count > 0
    BY <2>2
  <2> QED BY <2>3, TypeKinds
<1>4. CASE t \in {Mixed(1, 2), Mixed(2, 1)}
  <2>1. t.agg = 16
    BY <1>4 DEF Mixed, Struct, Scalar
  <2> QED BY <2>1
<1> QED BY <1>1, <1>2, <1>3, <1>4 DEF IsType

(* The paths plain and vararg carry integers only.                         *)
LEMMA IntegerPaths ==
    ASSUME sig \in Signatures, Path \in {"plain", "vararg"}
    PROVE  AllIntegers /\ StartCursor.g = 0
<1>1. StartCursor.g = 0
  <2>1. ~Indirect
    BY PathFacts
  <2> QED BY <2>1 DEF StartCursor, Cursor
<1>2. CASE Path = "plain"
  <2> SUFFICES ASSUME NEW i \in 1 .. N PROVE IsInteger(Params[i])
    BY <1>1 DEF AllIntegers
  <2>1. ~HasFloat /\ ~HasAggregate
    BY <1>2, PathFacts
  <2>2. IsType(Params[i], Target)
    BY Sizes
  <2>3. Params[i].agg = 0
    BY <2>1, NoAggregates
  <2>4. ~(Params[i].float > 0)
    BY <2>1 DEF HasFloat
  <2>5. Params[i].float = 0
    BY <2>2, <2>4, TypeKinds
  <2> QED BY <2>2, <2>3, <2>5, IntegerIs
<1>3. CASE Path = "vararg"
  BY <1>1, <1>3, PathFacts, VarargFacts
<1> QED BY <1>2, <1>3

(* An integer alone is never a gap.                                        *)
LEMMA IntegerNoGap ==
    ASSUME NEW i, IsInteger(Params[i])
    PROVE  ~GapAt(i)
<1>1. Params[i].float = 0 /\ Params[i].count = 0 /\ ~IsMixed(Params[i])
  BY IntegerFields
<1> QED BY <1>1 DEF GapAt, NinthFloat, LargeFloats, NoRegisterLeft

(* What the place of an integer holds decides what its parameter is.       *)
LEMMA IntegerTaken ==
    ASSUME sig \in Signatures, AllIntegers, StartCursor.g = 0, NEW i \in 1 .. N
    PROVE  /\ At(PlaceAt(i - 1)) = WordOf(i, 0) => Taken(i) = Value(i, Params[i])
           /\ At(PlaceAt(i - 1))[1] # <<i, 1>> /\ At(PlaceAt(i - 1))[1] # <<i, -3>> => Taken(i) # Value(i, Params[i])
<1>1. N \in Nat /\ IsType(Params[i], Target) /\ IsInteger(Params[i])
  BY Sizes DEF AllIntegers
<1>2. i - 1 \in 0 .. N /\ i - 1 \in Nat /\ StartCursor.g + i - 1 = i - 1 /\ StartCursor.g + (i - 1) = i - 1
  BY <1>1
<1>3. DOMAIN Route(i) = 1 .. 1 /\ Route(i)[1] = PlaceAt(i - 1) /\ PieceAt(i, 1) = WordOf(i, 0)
  BY <1>2, IntegerRoute
<1>4. \A h \in 1 .. i : ~GapAt(h)
  BY <1>1, IntegerNoGap DEF AllIntegers
<1>5. ASSUME At(PlaceAt(i - 1)) = WordOf(i, 0) PROVE Taken(i) = Value(i, Params[i])
  <2>1. \A j \in DOMAIN Route(i) : At(Route(i)[j]) = PieceAt(i, j)
    BY <1>3, <1>5
  <2> QED BY <1>4, <2>1, RightIf
<1>6. PICK at : at = CalleeStep(Params[i], CalleeCursor[i - 1]).at
  OBVIOUS
<1>7. 1 \in DOMAIN at /\ at[1] = PlaceAt(i - 1)
  <2>1. CalleeCursor[i - 1] = CursorAt(i - 1)
    BY <1>2, IntegerCursors
  <2> QED BY <1>1, <1>2, <1>6, <2>1, CursorAtStep
<1>8. ~ByAddress(Params[i])
  <2>1. ~(Params[i].agg > 16)
    BY <1>1, IntegerFields
  <2> QED BY <2>1 DEF ByAddress
<1>9. ASSUME At(PlaceAt(i - 1))[1] # <<i, 1>>, At(PlaceAt(i - 1))[1] # <<i, -3>>
      PROVE  Taken(i) # Value(i, Params[i])
  <2>1. Received(Params[i], at) # Value(i, Params[i])
    BY <1>1, <1>7, <1>8, <1>9, WrongIf
  <2> QED BY <1>6, <2>1 DEF Taken
<1> QED BY <1>5, <1>9

(* What the place of the i-th integer holds after PassPlain,               *)
LEMMA PlainWord ==
    ASSUME Control, Data, phase = "take", Path = "plain", NEW i \in 1 .. N
    PROVE  At(PlaceAt(i - 1)) = IF i <= Limit THEN WordOf(i, 0) ELSE ScratchOf(i)
<1>1. N \in Nat /\ Limit \in {6, 8} /\ sp \in Int
  BY Sizes, BaseIsInt DEF Control, Called, Limit
<1>2. /\ Filled(IF N > Limit THEN Limit ELSE N)
      /\ \A n \in Limit + 1 .. N :
            sp + n - Limit - 1 \in DOMAIN mem /\ mem[sp + n - Limit - 1] = ScratchOf(n)
  BY DEF Data
<1>3. CASE i <= Limit
  <2>1. i - 1 < Limit /\ i \in 1 .. (IF N > Limit THEN Limit ELSE N)
    BY <1>1, <1>3
  <2>2. <<"g", i - 1>> \in DOMAIN regs /\ regs[<<"g", i - 1>>] = WordOf(i, 0)
    BY <1>2, <2>1 DEF Filled
  <2>3. At(PlaceAt(i - 1)) = Read(regs, <<"g", i - 1>>)
    BY <2>1, ByCount
  <2> QED BY <1>3, <2>2, <2>3 DEF Read
<1>4. CASE ~(i <= Limit)
  <2>1. ~(i - 1 < Limit) /\ i \in Limit + 1 .. N /\ sp + i - Limit - 1 = sp + ((i - 1) - Limit)
    BY <1>1, <1>4
  <2>2. At(PlaceAt(i - 1)) = Read(mem, sp + ((i - 1) - Limit))
    BY <2>1, ByCount
  <2>3. sp + i - Limit - 1 \in DOMAIN mem /\ mem[sp + i - Limit - 1] = ScratchOf(i)
    BY <1>2, <2>1
  <2> QED BY <1>4, <2>1, <2>2, <2>3 DEF Read
<1> QED BY <1>3, <1>4

(* and after PassVararg.                                                   *)
LEMMA VarargWord ==
    ASSUME Control, Data, phase = "take", Path = "vararg", NEW i \in 1 .. Fixed
    PROVE  At(PlaceAt(i - 1)) = WordOf(i, 0)
<1>1. N \in Nat /\ Fixed \in Nat /\ Fixed <= N /\ Limit = 8
  BY Sizes, PathFacts DEF Control, Limit
<1>2. Fixed <= 8 /\ Filled(IF N <= 8 THEN N ELSE Fixed)
  BY DEF Data
<1>3. i - 1 < Limit /\ i \in 1 .. (IF N <= 8 THEN N ELSE Fixed)
  BY <1>1, <1>2
<1>4. <<"g", i - 1>> \in DOMAIN regs /\ regs[<<"g", i - 1>>] = WordOf(i, 0)
  BY <1>2, <1>3 DEF Filled
<1>5. At(PlaceAt(i - 1)) = Read(regs, <<"g", i - 1>>)
  BY <1>3, ByCount
<1> QED BY <1>4, <1>5 DEF Read

(* Exactly on the gaps, some parameter is not what it should be.           *)
LEMMA TakenGives ==
    ASSUME Control, Data, phase = "take"
    PROVE  ArgumentGap <=> \E i \in 1 .. Fixed : Taken(i) # Value(i, Params[i])
<1>0. sig \in Signatures
  BY DEF Control
<1>1. N \in Nat /\ Fixed \in Nat /\ Fixed <= N /\ Path \in {"scalar", "vararg", "aggregate", "plain"}
  BY <1>0, Sizes, PathFacts
<1>2. \A i \in 1 .. Fixed : i \in 1 .. N
  BY <1>1
<1>3. ArgumentGap <=> TooManyIntegers(Fixed) \/ \E i \in 1 .. Fixed : GapAt(i)
  BY DEF ArgumentGap, GapAt
<1>4. CASE Path \in {"scalar", "aggregate"}
  <2>1. ~TooManyIntegers(Fixed)
    BY <1>4 DEF TooManyIntegers
  <2>2. CASE \A i \in 1 .. Fixed : ~GapAt(i)
    <3> SUFFICES ASSUME NEW i \in 1 .. Fixed PROVE Taken(i) = Value(i, Params[i])
      BY <1>3, <2>1, <2>2
    <3>1. \A h \in 1 .. i : h \in 1 .. Fixed
      BY <1>1
    <3>2. \A h \in 1 .. i : ~GapAt(h)
      BY <2>2, <3>1
    <3> QED BY <1>2, <1>4, <3>2, PlacedRight
  <2>3. CASE \E i \in 1 .. Fixed : GapAt(i)
    <3> DEFINE G == {i \in 1 .. Fixed : GapAt(i)}
    <3>1. G # {} /\ G \subseteq Nat
      BY <2>3
    <3>2. PICK i \in G : \A y \in G : i <= y
      <4> HIDE DEF G
      <4> QED BY <3>1, LeastElement
    <3>3. i \in 1 .. Fixed /\ GapAt(i)
      OBVIOUS
    <3>4. \A h \in 1 .. i - 1 : ~GapAt(h)
      <4> SUFFICES ASSUME NEW h \in 1 .. i - 1, GapAt(h) PROVE FALSE
        OBVIOUS
      <4>1. h \in 1 .. Fixed /\ ~(i <= h)
        BY <1>1, <3>3
      <4> QED BY <3>2, <4>1
    <3>5. Taken(i) # Value(i, Params[i])
      BY <1>2, <1>4, <3>3, <3>4, PlacedWrong
    <3> QED BY <1>3, <2>3, <3>3, <3>5
  <2> QED BY <2>2, <2>3
<1>5. ASSUME AllIntegers PROVE ~\E i \in 1 .. Fixed : GapAt(i)
  BY <1>2, <1>5, IntegerNoGap DEF AllIntegers
<1>6. CASE Path = "vararg"
  <2>1. AllIntegers /\ StartCursor.g = 0 /\ ~TooManyIntegers(Fixed)
    BY <1>0, <1>6, IntegerPaths DEF TooManyIntegers
  <2>2. \A i \in 1 .. Fixed : Taken(i) = Value(i, Params[i])
    BY <1>0, <1>2, <1>6, <2>1, VarargWord, IntegerTaken
  <2> QED BY <1>3, <1>5, <2>1, <2>2
<1>7. CASE Path = "plain"
  <2>1. AllIntegers /\ StartCursor.g = 0
    BY <1>0, <1>7, IntegerPaths
  <2>2. \A i \in 1 .. Fixed : At(PlaceAt(i - 1)) = IF i <= Limit THEN WordOf(i, 0) ELSE ScratchOf(i)
    BY <1>2, <1>7, PlainWord
  <2>3. ArgumentGap <=> IF Arm THEN sig.ptr /\ Fixed >= 17 ELSE Fixed > 12
    BY <1>3, <1>5, <1>7, <2>1 DEF TooManyIntegers
  <2>4. CASE ~ArgumentGap
    <3> SUFFICES ASSUME NEW i \in 1 .. Fixed PROVE Taken(i) = Value(i, Params[i])
      BY <2>4
    <3>1. At(PlaceAt(i - 1)) = WordOf(i, 0)
      <4>1. CASE i <= Limit
        BY <2>2, <4>1
      <4>2. CASE ~(i <= Limit) /\ Arm
        <5>1. ~(sig.ptr /\ i = 17)
          BY <1>1, <2>3, <2>4, <4>2
        <5>2. ScratchOf(i) = WordOf(i, 0)
          BY <4>2, <5>1 DEF ScratchOf
        <5> QED BY <2>2, <4>2, <5>2
      <4>3. CASE ~(i <= Limit) /\ ~Arm
        <5>1. i - 7 \in 0 .. 5 /\ i \in Nat
          BY <1>1, <2>3, <2>4, <4>3 DEF Limit
        <5>2. \A x \in 0 .. 5 : x % 6 = x
          OBVIOUS
        <5>3. 7 + ((i - 7) % 6) = i
          BY <5>1, <5>2
        <5>4. ScratchOf(i) = WordOf(i, 0)
          BY <4>3, <5>3, ByCount
        <5> QED BY <2>2, <4>3, <5>4
      <4> QED BY <4>1, <4>2, <4>3
    <3> QED BY <1>0, <1>2, <2>1, <3>1, IntegerTaken
  <2>5. CASE ArgumentGap
    <3>1. CASE Arm
      <4>1. 17 \in 1 .. Fixed /\ ~(17 <= Limit)
        BY <1>1, <2>3, <2>5, <3>1 DEF Limit
      <4>2. ScratchOf(17) = Pointer(0)
        BY <2>3, <2>5, <3>1 DEF ScratchOf
      <4>3. At(PlaceAt(17 - 1)) = Pointer(0)
        BY <2>2, <4>1, <4>2
      <4>4. At(PlaceAt(17 - 1))[1] = <<0, -1>>
        BY <4>3 DEF Pointer
      <4>5. <<0, -1>> # <<17, 1>> /\ <<0, -1>> # <<17, -3>>
        OBVIOUS
      <4>6. Taken(17) # Value(17, Params[17])
        BY <1>0, <1>2, <2>1, <4>1, <4>4, <4>5, IntegerTaken
      <4> QED BY <2>5, <4>1, <4>6
    <3>2. CASE ~Arm
      <4>1. 13 \in 1 .. Fixed /\ ~(13 <= Limit)
        BY <1>1, <2>3, <2>5, <3>2 DEF Limit
      <4>2. 7 + ((13 - 7) % 6) = 7
        OBVIOUS
      <4>3. At(PlaceAt(13 - 1)) = WordOf(7, 0)
        BY <2>2, <3>2, <4>1, <4>2, ByCount
      <4>4. At(PlaceAt(13 - 1))[1] = <<7, 1>>
        BY <4>3 DEF WordOf
      <4>5. <<7, 1>> # <<13, 1>> /\ <<7, 1>> # <<13, -3>>
        OBVIOUS
      <4>6. Taken(13) # Value(13, Params[13])
        BY <1>0, <1>2, <2>1, <4>1, <4>4, <4>5, IntegerTaken
      <4> QED BY <2>5, <4>1, <4>6
    <3> QED BY <3>1, <3>2
  <2> QED BY <2>4, <2>5
<1> QED BY <1>1, <1>4, <1>6, <1>7

\* The parameters taken so far.
ParamInv ==
    /\ phase \in {"evaluate", "plain", "vararg", "reserve", "place"} => params = << >>
    /\ phase = "take" => params = [i \in 1 .. k - 1 |-> Taken(i)]

(* A sequence is a function, and appending extends it by one.              *)
LEMMA SequenceIsFunction ==
    ASSUME NEW S, NEW s \in Seq(S)
    PROVE  s \in [1 .. Len(s) -> S]
OBVIOUS

LEMMA AppendOne ==
    ASSUME NEW n \in Nat, NEW f, NEW s, s = [i \in 1 .. n |-> f[i]]
    PROVE  Append(s, f[n + 1]) = [i \in 1 .. n + 1 |-> f[i]]
<1> DEFINE S == {f[i] : i \in 1 .. n + 1}
           a == Append(s, f[n + 1])
<1>1. s \in Seq(S) /\ Len(s) = n
  OBVIOUS
<1>2. f[n + 1] \in S
  OBVIOUS
<1>3. a \in Seq(S) /\ Len(a) = n + 1 /\ \A i \in 1 .. n + 1 : a[i] = f[i]
  BY <1>1, <1>2
<1>4. a \in [1 .. n + 1 -> S]
  <2>1. a \in [1 .. Len(a) -> S]
    BY <1>3, SequenceIsFunction
  <2> QED BY <1>3, <2>1
<1>5. a = [i \in 1 .. n + 1 |-> a[i]]
  <2> HIDE DEF a, S
  <2> QED BY <1>4, Zenon
<1>6. \A i \in 1 .. n + 1 : a[i] = f[i]
  BY <1>3
<1> HIDE DEF a, S
<1>7. [i \in 1 .. n + 1 |-> a[i]] = [i \in 1 .. n + 1 |-> f[i]]
  BY <1>6, Zenon
<1>8. a = [i \in 1 .. n + 1 |-> f[i]]
  BY <1>5, <1>7
<1> QED BY <1>8 DEF a

(* A parameter depends on the signature and on what was passed.            *)
LEMMA TakenStays ==
    ASSUME UNCHANGED <<sig, mem, regs, sp>>
    PROVE  /\ \A i : Taken(i)' = Taken(i)
           /\ (ArgumentGap' <=> ArgumentGap)
<1>1. /\ N' = N /\ Params' = Params /\ Fixed' = Fixed /\ Path' = Path /\ Arm' = Arm
      /\ CalleeCursor' = CalleeCursor /\ CallerCursor' = CallerCursor
  BY SigStays
<1>2. \A t, at : Received(t, at)' = Received(t, at)
  BY <1>1 DEF Received, At, Read
<1>3. \A t, c : CalleeStep(t, c)' = CalleeStep(t, c)
  BY <1>1 DEF CalleeStep, ArmCallee, X86Callee
<1>4. \A i : Taken(i)' = Taken(i)
  BY <1>1, <1>2, <1>3 DEF Taken
<1>5. ArgumentGap' <=> ArgumentGap
  BY <1>1 DEF ArgumentGap, TooManyIntegers, NinthFloat, LargeFloats, NoRegisterLeft
<1> QED BY <1>4, <1>5

LEMMA GapStays ==
    ASSUME sig' = sig
    PROVE  ArgumentGap' <=> ArgumentGap
<1>1. /\ N' = N /\ Params' = Params /\ Fixed' = Fixed /\ Path' = Path /\ Arm' = Arm
      /\ CallerCursor' = CallerCursor
  BY SigStays
<1> QED BY <1>1 DEF ArgumentGap, TooManyIntegers, NinthFloat, LargeFloats, NoRegisterLeft

(* Every step keeps the parameters taken.                                  *)
LEMMA ParamStep == Control /\ KInv /\ ParamInv /\ [Next]_vars => ParamInv'
<1> SUFFICES ASSUME Control, KInv, ParamInv, [Next]_vars PROVE ParamInv'
  OBVIOUS
<1>1. CASE Evaluate
  <2>1. params' = params /\ phase = "evaluate" /\ phase' # "take"
    BY <1>1, PathFacts DEF Evaluate, Control
  <2> QED BY <2>1 DEF ParamInv
<1>2. CASE Reserve \/ Place \/ PassPlain \/ PassVararg
  <2>1. params' = << >>
    BY <1>2 DEF Reserve, Place, PassPlain, PassVararg, ParamInv
  <2>2. phase' = "take" => k' = 1
    BY <1>2 DEF Reserve, Place, PassPlain, PassVararg, KInv
  <2>3. \A f : << >> = [i \in 1 .. 1 - 1 |-> f[i]]
    <3>1. 1 .. 1 - 1 = {}
      OBVIOUS
    <3> QED BY <3>1
  <2>4. phase' = "take" => params' = [i \in 1 .. k' - 1 |-> Taken(i)']
    <3> DEFINE f == [i \in {} |-> Taken(i)']
    <3>1. 1 .. 1 - 1 = {}
      OBVIOUS
    <3>2. [i \in {} |-> Taken(i)'] = << >>
      OBVIOUS
    <3> QED BY <2>1, <2>2, <3>1, <3>2
  <2> QED BY <2>1, <2>4 DEF ParamInv
<1>3. CASE TakeParam
  <2>1. phase = "take" /\ phase' = "take" /\ k' = k + 1 /\ k <= Fixed /\ UNCHANGED <<sig, mem, regs, sp>>
        /\ params' = Append(params, Taken(k))
    BY <1>3 DEF TakeParam, Taken
  <2>2. k \in Nat \ {0} /\ (k - 1) + 1 = k /\ k' - 1 = k
    <3>1. k \in 1 .. Fixed + 1 /\ Fixed \in Nat
      BY <2>1, Sizes DEF KInv, Control
    <3> QED BY <2>1, <3>1
  <2>3. params = [i \in 1 .. k - 1 |-> Taken(i)]
    BY <2>1 DEF ParamInv
  <2>4. PICK f : f = [i \in 1 .. k |-> Taken(i)]
    OBVIOUS
  <2>5. \A i \in 1 .. k : f[i] = Taken(i)
    BY <2>4
  <2>6. [i \in 1 .. k - 1 |-> Taken(i)] = [i \in 1 .. k - 1 |-> f[i]]
    <3>1. \A i \in 1 .. k - 1 : f[i] = Taken(i)
      BY <2>2, <2>5
    <3> QED BY <3>1
  <2>7. Append(params, f[k]) = [i \in 1 .. k |-> f[i]]
    <3>1. k - 1 \in Nat
      BY <2>2
    <3>2. Append(params, f[(k - 1) + 1]) = [i \in 1 .. (k - 1) + 1 |-> f[i]]
      BY <2>3, <2>6, <3>1, AppendOne
    <3> QED BY <2>2, <3>2
  <2>8. f[k] = Taken(k)
    BY <2>2, <2>5
  <2>9. [i \in 1 .. k |-> f[i]] = [i \in 1 .. k |-> Taken(i)]
    BY <2>5
  <2>10. params' = [i \in 1 .. k |-> Taken(i)]
    BY <2>1, <2>7, <2>8, <2>9
  <2>11. \A i : Taken(i)' = Taken(i)
    BY <2>1, TakenStays
  <2>12. params' = [i \in 1 .. k' - 1 |-> Taken(i)']
    BY <2>2, <2>10, <2>11
  <2> QED BY <2>1, <2>12 DEF ParamInv
<1>4. CASE VarargFatal \/ VaList \/ Return \/ Cleanup \/ Store
  <2>1. phase' \in {"rejected", "return", "cleanup", "store", "done"}
    BY <1>4 DEF VarargFatal, VaList, Return, Cleanup, Store
  <2> QED BY <2>1 DEF ParamInv
<1>5. CASE Done \/ UNCHANGED vars
  <2>1. UNCHANGED <<sig, mem, regs, sp>> /\ UNCHANGED <<phase, k, params>>
    BY <1>5 DEF Done, vars
  <2>2. \A i : Taken(i)' = Taken(i)
    BY <2>1, TakenStays
  <2> QED BY <2>1, <2>2 DEF ParamInv
<1> QED BY <1>1, <1>2, <1>3, <1>4, <1>5 DEF Next

(* When the list starts all parameters are taken: the values, unless the   *)
(* signature is a gap; no later step changes them.                         *)
LEMMA ArgumentStep == ResultInv /\ ParamInv /\ ArgumentsArrive /\ [Next]_vars => ArgumentsArrive'
<1> SUFFICES ASSUME ResultInv, ParamInv, ArgumentsArrive, [Next]_vars PROVE ArgumentsArrive'
  OBVIOUS
<1>1. Control /\ Data /\ KInv /\ sig \in Signatures
  BY DEF ResultInv, Control
<1>2. CASE VaList
  <2>1. sig' = sig /\ phase = "take" /\ k = Fixed + 1 /\ params' = params
    BY <1>2 DEF VaList
  <2>2. (ArgumentGap' <=> ArgumentGap) /\ Fixed' = Fixed /\ Params' = Params
    BY <2>1, GapStays, SigStays
  <2>3. k - 1 = Fixed
    BY <1>1, <2>1, Sizes
  <2>4. params = [i \in 1 .. Fixed |-> Taken(i)]
    BY <2>1, <2>3 DEF ParamInv
  <2>5. \A i \in 1 .. Fixed : params[i] = Taken(i)
    BY <2>4
  <2>6. ArgumentGap <=> \E i \in 1 .. Fixed : Taken(i) # Value(i, Params[i])
    BY <1>1, <2>1, TakenGives
  <2> QED BY <2>1, <2>2, <2>5, <2>6 DEF ArgumentsArrive
<1>3. CASE Return \/ Cleanup \/ Store \/ Done \/ UNCHANGED vars
  <2>1. sig' = sig /\ params' = params /\ (Entered' => Entered)
    BY <1>3 DEF Return, Cleanup, Store, Done, vars, Entered
  <2>2. (ArgumentGap' <=> ArgumentGap) /\ Fixed' = Fixed /\ Params' = Params
    BY <2>1, GapStays, SigStays
  <2> QED BY <2>1, <2>2 DEF ArgumentsArrive
<1>4. CASE Evaluate \/ Reserve \/ Place \/ PassPlain \/ PassVararg \/ VarargFatal \/ TakeParam
  <2>1. phase' \in {"plain", "vararg", "reserve", "place", "take", "rejected"}
    <3>1. CASE Evaluate
      BY <3>1, <1>1, PathFacts DEF Evaluate
    <3>2. CASE TakeParam
      BY <3>2 DEF TakeParam
    <3> QED BY <1>4, <3>1, <3>2 DEF Reserve, Place, PassPlain, PassVararg, VarargFatal
  <2> QED BY <2>1 DEF ArgumentsArrive, Entered
<1> QED BY <1>2, <1>3, <1>4 DEF Next

(* The function called holds every one of its parameters, however many it  *)
(* has and of whatever types, unless the signature is one of the gaps: and *)
(* on each of these it holds something else.                               *)
THEOREM FixedArgumentsArrive == Spec => []ArgumentsArrive
<1>1. Init => ResultInv /\ ParamInv /\ ArgumentsArrive
  <2>1. Init => phase = "evaluate" /\ params = << >>
    BY DEF Init
  <2> QED BY <2>1, ResultInit DEF ParamInv, ArgumentsArrive, Entered
<1>2. ResultInv /\ ParamInv /\ ArgumentsArrive /\ [Next]_vars => (ResultInv /\ ParamInv /\ ArgumentsArrive)'
  <2>1. ResultInv => Control /\ KInv
    BY DEF ResultInv
  <2> QED BY <2>1, ResultStep, ParamStep, ArgumentStep
<1> QED BY <1>1, <1>2, PTL DEF Spec

=============================================================================
