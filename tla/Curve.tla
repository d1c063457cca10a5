-------------------------------- MODULE Curve --------------------------------
(***************************************************************************)
(* The arithmetic of the SAE exchange: numbers of fixed width (bn.hpp),    *)
(* Montgomery multiplication, the curve (p256.cpp) and the exchange's use  *)
(* of it (sae.cpp), with the limbs' width, the prime and the curve as      *)
(* parameters; against the same exchange in plain integers.                *)
(***************************************************************************)
EXTENDS Integers, Sequences, SequencesExt

CONSTANTS
  Width, Limbs,     \* 32 and 8
  Prime, CoeffB,    \* y^2 = x^3 - 3x + CoeffB modulo Prime, which is 3 modulo 4
  Order,            \* of the group, a prime
  Z,                \* 10: -Z is what sswu() takes for z
  SeedBits,         \* bits of the strings that are reduced, longer than a number
  Seeds, Hashes,    \* what a password's points are derived from, and hashes of the addresses
  Scalars           \* random numbers tried

VARIABLES
  fp,       \* the field of Prime
  pwe,      \* the password element, once there; before that, PT
  meant,    \* the same point, in integers
  side      \* each side's rand, own_scalar, own_element and K
curveVars == <<fp, pwe, meant, side>>

Base  == 2 ^ Width
Bits  == Width * Limbs
Times(n) == [i \in 1 .. n |-> i]

(***************************************************************************)
(* Bn256: little-endian limbs                                              *)
(***************************************************************************)
Bn(n)    == [i \in 1 .. Limbs |-> (n \div Base ^ (i - 1)) % Base]
Value(a) == FoldRight(LAMBDA limb, n : (n * Base) + limb, a, 0)
Numbers  == [1 .. Limbs -> 0 .. Base - 1]
Zero     == Bn(0)
BitOf(a, i) == (a[(i \div Width) + 1] \div 2 ^ (i % Width)) % 2

\* c[i] is the carry, or borrow, out of limb i.
BnAdd(a, b) ==
  LET c[i \in 0 .. Limbs] == IF i = 0 THEN 0 ELSE (a[i] + b[i] + c[i - 1]) \div Base
  IN [r |-> [i \in 1 .. Limbs |-> (a[i] + b[i] + c[i - 1]) % Base], carry |-> c[Limbs]]

BnSub(a, b) ==
  LET c[i \in 0 .. Limbs] == IF i = 0 THEN 0 ELSE IF a[i] - b[i] - c[i - 1] < 0 THEN 1 ELSE 0
  IN [r |-> [i \in 1 .. Limbs |-> (a[i] - b[i] - c[i - 1]) % Base], borrow |-> c[Limbs]]

\* a < b, by bn_cmp().
Less(a, b) == \E i \in 1 .. Limbs : a[i] < b[i] /\ \A j \in i + 1 .. Limbs : a[j] = b[j]

\* A number one bit longer, with its carry, less the modulus when it reaches it.
Kept(long, less) == IF long.carry = 1 \/ less.borrow = 0 THEN less.r ELSE long.r
Reduce(long, m)  == Kept(long, BnSub(long.r, m))

\* faulty: the sum's carry is forgotten
ModAddNoCarry(a, b, m) == Reduce([BnAdd(a, b) EXCEPT !.carry = 0], m)
ModAdd(a, b, m) == Reduce(BnAdd(a, b), m)
ModSub(a, b, m) == LET d == BnSub(a, b) IN IF d.borrow = 1 THEN BnAdd(d.r, m).r ELSE d.r

Shr1(a) ==
  [i \in 1 .. Limbs |-> (a[i] \div 2) + (IF i < Limbs THEN (a[i + 1] % 2) * 2 ^ (Width - 1) ELSE 0)]
Shl1(a, bit) ==
  [r |-> [i \in 1 .. Limbs |-> ((a[i] * 2) % Base) + (IF i = 1 THEN bit ELSE a[i - 1] \div 2 ^ (Width - 1))],
   carry |-> a[Limbs] \div 2 ^ (Width - 1)]

\* bn_mod_bytes(): a big-endian string of bits, modulo m.
ModBits(string, m) ==
  FoldLeft(LAMBDA r, bit : Reduce(Shl1(r, bit), m), Zero, string)

(***************************************************************************)
(* Field: Montgomery arithmetic                                            *)
(***************************************************************************)
MakeField(m) ==
  LET x == FoldLeft(LAMBDA y, i : (y * (2 - m[1] * y)) % Base, m[1], Times(5))
      Doubled(t) == FoldLeft(LAMBDA u, i : ModAdd(u, u, m), t, Times(Bits))
  IN [m |-> m, n0 |-> (0 - x) % Base, oneM |-> Doubled(Bn(1)), rr |-> Doubled(Doubled(Bn(1)))]

\* t + a * b[i], then t + m * mfac with its lowest limb, now 0, dropped.
Accumulators == [1 .. Limbs + 2 -> 0 .. Base - 1]
AddProduct[t \in Accumulators, a \in Numbers, limb \in 0 .. Base - 1] ==
  LET v[j \in 0 .. Limbs + 1] ==
        IF j = 0 THEN 0 ELSE (IF j > Limbs THEN 0 ELSE a[j] * limb) + t[j] + (v[j - 1] \div Base)
  IN [j \in 1 .. Limbs + 2 |-> IF j = Limbs + 2 THEN v[j - 1] \div Base ELSE v[j] % Base]
Shifted[t \in Accumulators, high \in 0 .. Base - 1] ==
  [j \in 1 .. Limbs + 2 |-> IF j <= Limbs THEN t[j + 1] ELSE high + (IF j = Limbs + 1 THEN t[j + 1] ELSE 0)]
Reduced[t \in Accumulators] == Shifted[AddProduct[t, fp.m, (t[1] * fp.n0) % Base], t[Limbs + 2]]
Normal[t \in Accumulators]  == Reduce([r |-> SubSeq(t, 1, Limbs), carry |-> t[Limbs + 1]], fp.m)

Mul[a \in Numbers, b \in Numbers] ==
  LET t[i \in 0 .. Limbs] ==
        IF i = 0 THEN [j \in 1 .. Limbs + 2 |-> 0] ELSE Reduced[AddProduct[t[i - 1], a, b[i]]]
  IN Normal[t[Limbs]]

Sqr[a \in Numbers] == Mul[a, a]
Plus[a \in Numbers, b \in Numbers]  == ModAdd(a, b, fp.m)
Minus[a \in Numbers, b \in Numbers] == ModSub(a, b, fp.m)
ToMont(a)   == Mul[a, fp.rr]
FromMont(a) == Mul[a, Bn(1)]
Exp(a, e) ==
  LET r[i \in 0 .. Bits] ==
        IF i = Bits THEN fp.oneM
        ELSE IF BitOf(e, i) = 1 THEN Mul[Sqr[r[i + 1]], a] ELSE Sqr[r[i + 1]]
  IN r[0]
Inv(a) == Exp(a, BnSub(fp.m, Bn(2)).r)

(***************************************************************************)
(* The curve: jacobian points; z = 0 is infinity                           *)
(***************************************************************************)
Jacobian == [x : Numbers, y : Numbers, z : Numbers]
Infinity == [x |-> Zero, y |-> Zero, inf |-> TRUE]
JInf     == [x |-> Zero, y |-> Zero, z |-> Zero]

ToJacobian(p) == IF p.inf THEN JInf ELSE [x |-> ToMont(p.x), y |-> ToMont(p.y), z |-> fp.oneM]

ToAffine[p \in Jacobian] ==
  IF p.z = Zero THEN Infinity
  ELSE LET zi  == Inv(p.z)
           zi2 == Sqr[zi]
       IN [x |-> FromMont(Mul[p.x, zi2]), y |-> FromMont(Mul[p.y, Mul[zi2, zi]]), inf |-> FALSE]

Twice(a) == Plus[a, a]

DoubleOf[alpha \in Numbers, beta4 \in Numbers, gamma \in Numbers, z3 \in Numbers] ==
  LET x3 == Minus[Sqr[alpha], Twice(beta4)]
      g8 == Twice(Twice(Sqr[gamma]))
  IN [x |-> x3, y |-> Minus[Mul[alpha, Minus[beta4, x3]], Twice(g8)], z |-> z3]

JDbl[p \in Jacobian] ==
  LET delta == Sqr[p.z]
      gamma == Sqr[p.y]
      t0    == Mul[Minus[p.x, delta], Plus[p.x, delta]]
  IN DoubleOf[Plus[Twice(t0), t0], Twice(Twice(Mul[p.x, gamma])), gamma,
              Minus[Minus[Sqr[Plus[p.y, p.z]], gamma], delta]]

\* Of u1, s1, h = u2 - u1, rr = s2 - s1 and 2 z1 z2.
SumOf[u1 \in Numbers, s1 \in Numbers, h \in Numbers, rr \in Numbers, zs \in Numbers] ==
  LET i  == Sqr[Twice(h)]
      j  == Mul[h, i]
      r2 == Twice(rr)
      v  == Mul[u1, i]
      x3 == Minus[Minus[Sqr[r2], j], Twice(v)]
  IN [x |-> x3, y |-> Minus[Mul[r2, Minus[v, x3]], Twice(Mul[s1, j])], z |-> Mul[zs, h]]

JAdd[a \in Jacobian, b \in Jacobian] ==
  LET z1z1 == Sqr[a.z]
      z2z2 == Sqr[b.z]
      u1 == Mul[a.x, z2z2]
      s1 == Mul[Mul[a.y, b.z], z2z2]
      h  == Minus[Mul[b.x, z1z1], u1]
      rr == Minus[Mul[Mul[b.y, a.z], z1z1], s1]
  IN IF a.z = Zero THEN b
     ELSE IF b.z = Zero THEN a
     ELSE IF h = Zero THEN IF rr = Zero THEN JDbl[a] ELSE JInf
     ELSE SumOf[u1, s1, h, rr, Minus[Minus[Sqr[Plus[a.z, b.z]], z1z1], z2z2]]

\* Of a montgomery x: x^3 - 3x + b, the curve's A being -3.
MinusA   == Minus[Zero, ToMont(Bn(3))]
MontB    == ToMont(Bn(CoeffB))
Cubic[x \in Numbers] == Plus[Plus[Mul[Sqr[x], x], Mul[MinusA, x]], MontB]
IsOnCurve(p) ==
  /\ ~p.inf /\ Less(p.x, fp.m) /\ Less(p.y, fp.m)
  /\ Sqr[ToMont(p.y)] = Cubic[ToMont(p.x)]

AddPoint(a, b) == ToAffine[JAdd[ToJacobian(a), ToJacobian(b)]]

Step[r \in Jacobian, p \in Jacobian, bit \in {0, 1}] == IF bit = 1 THEN JAdd[r, p] ELSE r
MulPoint(p, scalar) ==
  LET r[i \in 0 .. Bits] == IF i = Bits THEN JInf ELSE Step[JDbl[r[i + 1]], ToJacobian(p), BitOf(scalar, i)]
  IN ToAffine[r[0]]

Negate(p) == IF p.inf \/ p.y = Zero THEN p ELSE [p EXCEPT !.y = BnSub(fp.m, p.y).r]

\* sswu(), of t1 = z u^2 and m = t1 + t1^2: the first candidate for x; the one that is on the curve;
\* its point, with the parity of u.
MinusZ == Minus[Zero, ToMont(Bn(Z))]
Candidate[t1 \in Numbers, m \in Numbers] ==
  IF m = Zero THEN Mul[MontB, Inv(Mul[MinusZ, MinusA])]
  ELSE Mul[Mul[Minus[Zero, MontB], Inv(MinusA)], Plus[fp.oneM, Inv(m)]]
OnCurve[x \in Numbers, t1 \in Numbers] ==
  IF Exp(Cubic[x], Shr1(BnSub(fp.m, Bn(1)).r)) \in {Zero, fp.oneM} THEN x ELSE Mul[t1, x]
WithParity[y \in Numbers, u \in Numbers] == IF y[1] % 2 = u[1] % 2 THEN y ELSE BnSub(fp.m, y).r
PointAt[x \in Numbers, u \in Numbers] ==
  [x |-> FromMont(x), y |-> WithParity[FromMont(Exp(Cubic[x], Shr1(Shr1(BnAdd(fp.m, Bn(1)).r)))), u],
   inf |-> FALSE]
Sswu(u) ==
  LET t1 == Mul[MinusZ, Sqr[ToMont(u)]]
  IN PointAt[OnCurve[Candidate[t1, Plus[t1, Sqr[t1]]], t1], u]

(***************************************************************************)
(* The same in integers                                                    *)
(***************************************************************************)
RefInverse(n) == CHOOSE i \in 0 .. Prime - 1 : (n * i) % Prime = 1
RefInf == <<>>
RefPoints == {RefInf} \cup ((0 .. Prime - 1) \X (0 .. Prime - 1))
RefAdd[p \in RefPoints, q \in RefPoints] ==
  IF p = RefInf THEN q ELSE IF q = RefInf THEN p
  ELSE IF p[1] = q[1] /\ (p[2] + q[2]) % Prime = 0 THEN RefInf
  ELSE LET slope == (IF p = q THEN (3 * p[1] * p[1] - 3) * RefInverse(2 * p[2])
                     ELSE (q[2] - p[2]) * RefInverse((q[1] - p[1]) % Prime)) % Prime
           x == (slope * slope - p[1] - q[1]) % Prime
       IN <<x, (slope * (p[1] - x) - p[2]) % Prime>>
RefMul(n, p) == LET r[i \in 0 .. n] == IF i = 0 THEN RefInf ELSE RefAdd[r[i - 1], p] IN r[n]
RefNeg(p) == IF p = RefInf THEN p ELSE <<p[1], (0 - p[2]) % Prime>>
\* RFC 9380, 6.6.2: the first of two candidates that has a square root, and the root of u's parity.
RefSswu(u) ==
  LET Square(n) == \E r \in 0 .. Prime - 1 : (r * r - n) % Prime = 0
      Poly(x) == (x * x * x - 3 * x + CoeffB) % Prime
      t  == (0 - Z * u * u) % Prime
      m  == (t + t * t) % Prime
      x1 == IF m = 0 THEN (CoeffB * RefInverse((3 * Z) % Prime)) % Prime
            ELSE (CoeffB * RefInverse(3) * (1 + RefInverse(m))) % Prime
      x  == IF Square(Poly(x1)) THEN x1 ELSE (t * x1) % Prime
  IN <<x, CHOOSE y \in 0 .. Prime - 1 : (y * y - Poly(x)) % Prime = 0 /\ y % 2 = u % 2>>
Ref(p) == IF p.inf THEN RefInf ELSE <<Value(p.x), Value(p.y)>>

(***************************************************************************)
(* The exchange                                                            *)
(***************************************************************************)
String(n) == [i \in 1 .. SeedBits |-> (n \div 2 ^ (SeedBits - i)) % 2]
Nothing == [rand |-> Zero, scalar |-> Zero, element |-> Infinity, k |-> Infinity, done |-> FALSE]

\* derive_pt(): two password elements, added.
DerivePt ==
  /\ pwe.stage = "none"
  /\ \E s, t \in Seeds :
       /\ \E p1 \in {Sswu(ModBits(String(s), fp.m))}, p2 \in {Sswu(ModBits(String(t), fp.m))} :
            pwe' = [stage |-> "pt", point |-> AddPoint(p1, p2)]
       /\ meant' = RefAdd[RefSswu(s % Prime), RefSswu(t % Prime)]
  /\ UNCHANGED <<fp, side>>

\* Session::start(): the password element of these addresses; a degenerate one is refused.
Derive ==
  /\ pwe.stage = "pt"
  /\ \E h \in Hashes :
       /\ \E val \in {BnAdd(ModBits(String(h), Bn(Order - 1)), Bn(1)).r} :
            \E p \in {MulPoint(pwe.point, val)} :
              ~p.inf /\ IsOnCurve(p) /\ pwe' = [stage |-> "pwe", point |-> p]
       /\ meant' = RefMul((h % (Order - 1)) + 1, meant)
  /\ UNCHANGED <<fp, side>>

In2ToOrder(a) == Less(Bn(1), a) /\ Less(a, Bn(Order))

\* The rest of start(): a commit; numbers out of range are drawn again.
Commit(s) ==
  /\ pwe.stage = "pwe" /\ ~side[s].done /\ side[s].rand = Zero
  /\ \E rand, mask \in Scalars :
       LET scalar == ModAdd(Bn(rand), Bn(mask), Bn(Order))
       IN /\ In2ToOrder(Bn(rand)) /\ In2ToOrder(Bn(mask)) /\ In2ToOrder(scalar)
          /\ side' = [side EXCEPT ![s] =
               [Nothing EXCEPT !.rand = Bn(rand), !.scalar = scalar,
                               !.element = Negate(MulPoint(pwe.point, Bn(mask)))]]
  /\ UNCHANGED <<fp, pwe, meant>>

\* read_commit() of the other side's commit.
ReadCommit(s) ==
  LET own == side[s]
      peer == side[3 - s]
  IN /\ own.rand # Zero /\ peer.rand # Zero /\ ~own.done
     /\ In2ToOrder(peer.scalar) \/ peer.scalar = Bn(1)
     /\ IsOnCurve(peer.element)
     /\ ~(peer.scalar = own.scalar /\ peer.element = own.element)
     /\ \E p \in {MulPoint(pwe.point, peer.scalar)} : \E sum \in {AddPoint(p, peer.element)} :
          \E k \in {MulPoint(sum, own.rand)} :
            ~k.inf /\ side' = [side EXCEPT ![s].k = k, ![s].done = TRUE]
     /\ UNCHANGED <<fp, pwe, meant>>

Init ==
  /\ fp = MakeField(Bn(Prime))
  /\ pwe = [stage |-> "none", point |-> Infinity] /\ meant = RefInf
  /\ side = [s \in 1 .. 2 |-> Nothing]

Next == DerivePt \/ Derive \/ \E s \in 1 .. 2 : Commit(s) \/ ReadCommit(s)

Spec == Init /\ [][Next]_curveVars

\* The limbs, carries and Montgomery forms of bn.hpp and the jacobian formulas of p256.cpp compute
\* what the integers say: the password element is the one derived, and both sides of an exchange
\* (start(), read_commit()) end with the same K, rand * rand' times that element.
SharedSecret ==
  /\ Ref(pwe.point) = meant
  /\ \A s \in 1 .. 2 : side[s].done =>
       Ref(side[s].k) = RefMul((Value(side[1].rand) * Value(side[2].rand)) % Order, meant)
=============================================================================
