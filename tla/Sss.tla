---------------------------------- MODULE Sss ----------------------------------
(***************************************************************************)
(* Secret sharing: the field of tools/gf2.py and split and join of         *)
(* tools/sss.py.  A number is the set of the positions of its one bits, so *)
(* that the exclusive or of gf2.py is a symmetric difference.              *)
(***************************************************************************)
EXTENDS Integers, Sequences, FiniteSetsExt

CONSTANT Poly  \* the exponents of the field polynomial, {256, 10, 5, 2, 0}

ASSUME PolyAssumption ==
  Poly \in SUBSET Nat /\ IsFiniteSet(Poly) /\ Cardinality(Poly) > 1 /\ 0 \in Poly

N == Max(Poly)
Fe == SUBSET (0 .. N - 1)        \* GF2FE; the polynomial itself is let through too
Zero == {}
One == {0}

(* The field element of an integer.                                        *)
AsFe(v) == {i \in 0 .. N - 1 : (v \div 2 ^ i) % 2 = 1}
-------------------------------------------------------------------------------
(* gf2.py *)

Add(a, b) == (a \ b) \union (b \ a)
Shifted(a, n) == {i + n : i \in a}
Reduced(a) == IF N \in a THEN Add(a, Poly) ELSE a

(* Only the N bits of a field element are looked at, also if a is Poly.    *)
Mul(a, b) ==
  LET times[j \in 0 .. N] == IF j = 0 THEN b ELSE Reduced(Shifted(times[j - 1], 1))
  IN FoldSet(LAMBDA j, c : Add(times[j], c), Zero, a \intersect (0 .. N - 1))

Degree(a) == IF a = Zero THEN 0 ELSE Max(a)

(* Long division: quotient and remainder.                                  *)
DivMod(a, b) ==
  LET nb == Degree(b)
      div[na \in -1 .. N, r \in SUBSET (0 .. N), m \in SUBSET (0 .. N)] ==
        IF na < nb THEN <<r, m>>
        ELSE IF na \in m
        THEN div[na - 1, Add(r, {na - nb}), Add(m, Shifted(b, na - nb))]
        ELSE div[na - 1, r, m]
  IN div[Degree(a), Zero, a]

Egcd(a, b) ==
  LET egcd[u \in SUBSET (0 .. N), v \in SUBSET (0 .. N)] ==
        IF u = Zero THEN <<v, Zero, One>>
        ELSE LET qr == DivMod(v, u)
                 e == egcd[qr[2], u]
             IN <<e[1], Add(e[3], Mul(qr[1], e[2])), e[2]>>
  IN egcd[a, b]

InverseOf(a) == Egcd(Poly, a)[3]
-------------------------------------------------------------------------------
(* sss.py *)

(* randpoly: what secrets.randbelow() may give, from Random; a last        *)
(* coefficient of zero is drawn again.                                     *)
RandPolysBugAny(secret, k, Random) ==
  {p \in [1 .. k -> Random \union {secret}] :
     p[1] = secret /\ \A i \in 2 .. k : p[i] \in Random}

RandPolys(secret, k, Random) ==
  {p \in [1 .. k -> Random \union {secret}] :
     /\ p[1] = secret
     /\ \A i \in 2 .. k : p[i] \in Random
     /\ p[k] # Zero}

EvalPoly(x, p) ==
  LET eval[i \in 1 .. Len(p) + 1] ==
        IF i > Len(p) THEN Zero ELSE Add(Mul(eval[i + 1], x), p[i])
  IN eval[1]

Split(p, n) == [v \in 1 .. n |-> <<AsFe(v), EvalPoly(AsFe(v), p)>>]

(* lp_i and lagrange at zero, where a difference to x is the element.      *)
ProductOf(fe) ==
  LET product[i \in 0 .. Len(fe)] == IF i = 0 THEN One ELSE Mul(product[i - 1], fe[i])
  IN product[Len(fe)]

LpI(xi, others) ==
  Mul(ProductOf(others), InverseOf(ProductOf([j \in DOMAIN others |-> Add(xi, others[j])])))

Join(shares) ==
  LET x(i) == shares[i][1]
      others(i) == [j \in 1 .. Len(shares) - 1 |-> x(IF j < i THEN j ELSE j + 1)]
      sum[i \in 0 .. Len(shares)] ==
        IF i = 0 THEN Zero ELSE Add(sum[i - 1], Mul(shares[i][2], LpI(x(i), others(i))))
  IN sum[Len(shares)]
-------------------------------------------------------------------------------
(* What the proofs take for known *)

(* What the operations of gf2.py do if the polynomial is irreducible.      *)
FieldLaws ==
  /\ One \in Fe /\ One # Zero
  /\ \A a, b \in Fe : Mul(a, b) \in Fe /\ Mul(a, b) = Mul(b, a)
  /\ \A a, b, c \in Fe : Mul(a, Mul(b, c)) = Mul(Mul(a, b), c)
  /\ \A a, b, c \in Fe : Mul(a, Add(b, c)) = Add(Mul(a, b), Mul(a, c))
  /\ \A a \in Fe : Mul(One, a) = a
  /\ \A a \in Fe \ {Zero} : InverseOf(a) \in Fe /\ Mul(a, InverseOf(a)) = One

(* What a power of 2 is.                                                   *)
Powers == 2 ^ 0 = 1 /\ \A i \in 0 .. N - 1 : 2 ^ (i + 1) = 2 * 2 ^ i
===============================================================================
