----------------------------- MODULE LibraryProofs ----------------------------
(***************************************************************************)
(* The libraries, proved for any sizes.                                    *)
(*                                                                         *)
(* Vrf, for any prime order and any cofactor that is no multiple of it.    *)
(* Points are compared modulo Order: clearing the cofactor forgets the     *)
(* rest.  Order being prime, what is no multiple of it has an inverse,     *)
(* which gives both the exponent of a key that nobody made honestly and    *)
(* that a product is a multiple of Order only when a factor is.            *)
(*                                                                         *)
(* Wire, for any width of bytes and integers and any messages.  A codec is *)
(* a decoder that reads a value from its encoding, whatever follows        *)
(* (Reads), and whose result only depends on the bytes that it has read    *)
(* (Local); it is exact when those bytes are the encoding of the result.   *)
(* Structs, slices and maps of codecs are codecs.                          *)
(***************************************************************************)
EXTENDS Vrf, Wire, FiniteSetTheorems, FunctionTheorems, SequenceTheorems,
        WellFoundedInduction, TLAPS

-----------------------------------------------------------------------------
(* Numbers. *)

\* A set of numbers that is not empty has a least one.
LEMMA LeastNumber ==
    ASSUME NEW S \in SUBSET Nat, S # {}
    PROVE  \E m \in S : \A n \in S : m <= n
<1>1. PICK R : /\ IsWellFoundedOn(R, Nat)
               /\ \A m, n \in Nat : m < n => <<m, n>> \in R
  <2> DEFINE Less == OpToRel(<, Nat)
  <2>1. IsWellFoundedOn(Less, Nat)
    BY NatLessThanWellFounded
  <2>2. \A m, n \in Nat : m < n => <<m, n>> \in Less
    BY DEF OpToRel
  <2> QED
    BY <2>1, <2>2, Zenon
<1>2. S \subseteq Nat
  OBVIOUS
<1>3. PICK m \in S : \A n \in S : ~(<<n, m>> \in R)
  <2>1. IsWellFoundedOn(R, Nat)
    BY <1>1
  <2> QED
    BY <1>2, <2>1, WFMin, Zenon
<1>4. \A n \in S : ~(n < m)
  BY <1>1, <1>2, <1>3, Zenon
<1> QED
  BY <1>2, <1>4

\* Division with remainder, which is the only one.
LEMMA DivMod ==
    ASSUME NEW a \in Int, NEW m \in Nat \ {0}
    PROVE  /\ a % m \in 0..(m - 1) /\ a \div m \in Int
           /\ a = m * (a \div m) + (a % m)
           /\ \A q \in Int, r \in 0..(m - 1) : a = m * q + r => a % m = r
<1>1. a % m \in 0..(m - 1) /\ a \div m \in Int
  OBVIOUS
<1>2. a = m * (a \div m) + (a % m)
  OBVIOUS
<1>3. ASSUME NEW q \in Int, NEW r \in 0..(m - 1), a = m * q + r
      PROVE  a % m = r
  BY <1>3
<1> QED
  BY <1>1, <1>2, <1>3

-----------------------------------------------------------------------------
(* The random function. *)

\* a and b differ by a multiple of m.
Cong(a, b, m) == \E k \in Int : a - b = k * m

Group == Cofactor * Order

\* The sizes of the group.
LEMMA OrderFacts ==
    /\ Order \in Nat /\ Order >= 2 /\ Cofactor \in Nat /\ Cofactor >= 1
    /\ Cofactor * Order \in Nat \ {0}
    /\ NumChallenges \in Nat /\ NumChallenges <= Order
<1>1. Order \in Nat /\ Cofactor \in Nat \ {0} /\ NumChallenges \in 1..Order /\ Cofactor % Order # 0
  BY GroupAssumption
<1>2. Order # 1
  BY <1>1
<1>3. Order >= 2 /\ Cofactor >= 1
  BY <1>1, <1>2
<1>4. Cofactor * Order \in Nat \ {0}
  BY <1>1, <1>3
<1> QED
  BY <1>1, <1>3, <1>4
-----------------------------------------------------------------------------
(* Congruence. *)

\* Sums, differences and products respect it.
LEMMA CongFacts ==
    ASSUME NEW m \in Nat \ {0}
    PROVE  /\ \A a \in Int : Cong(a, a, m)
           /\ \A a, b \in Int : Cong(a, b, m) => Cong(b, a, m)
           /\ \A a, b, c \in Int : Cong(a, b, m) /\ Cong(b, c, m) => Cong(a, c, m)
           /\ \A a, b, c, d \in Int : Cong(a, b, m) /\ Cong(c, d, m) =>
                    /\ Cong(a + c, b + d, m)
                    /\ Cong(a - c, b - d, m)
                    /\ Cong(a * c, b * d, m)
<1>1. ASSUME NEW a \in Int
      PROVE  Cong(a, a, m)
  <2>1. a - a = 0 * m
    OBVIOUS
  <2> QED
    BY <2>1 DEF Cong
<1>2. ASSUME NEW a \in Int, NEW b \in Int, Cong(a, b, m)
      PROVE  Cong(b, a, m)
  <2>1. PICK k \in Int : a - b = k * m
    BY <1>2 DEF Cong
  <2>2. b - a = (-k) * m /\ -k \in Int
    BY <2>1
  <2> QED
    BY <2>2 DEF Cong
<1>3. ASSUME NEW a \in Int, NEW b \in Int, NEW c \in Int, Cong(a, b, m), Cong(b, c, m)
      PROVE  Cong(a, c, m)
  <2>1. PICK k \in Int : a - b = k * m
    BY <1>3 DEF Cong
  <2>2. PICK n \in Int : b - c = n * m
    BY <1>3 DEF Cong
  <2>3. a - c = (k + n) * m /\ k + n \in Int
    BY <2>1, <2>2
  <2> QED
    BY <2>3 DEF Cong
<1>4. ASSUME NEW a \in Int, NEW b \in Int, NEW c \in Int, NEW d \in Int,
             Cong(a, b, m), Cong(c, d, m)
      PROVE  /\ Cong(a + c, b + d, m)
             /\ Cong(a - c, b - d, m)
             /\ Cong(a * c, b * d, m)
  <2>1. PICK k \in Int : a - b = k * m
    BY <1>4 DEF Cong
  <2>2. PICK n \in Int : c - d = n * m
    BY <1>4 DEF Cong
  <2>3. (a + c) - (b + d) = (k + n) * m /\ k + n \in Int
    BY <2>1, <2>2
  <2>4. (a - c) - (b - d) = (k - n) * m /\ k - n \in Int
    BY <2>1, <2>2
  <2>5. a * c - b * d = (a * n + k * d) * m /\ a * n + k * d \in Int
    <3>1. a * c - b * d = a * (c - d) + (a - b) * d
      OBVIOUS
    <3>2. a * (n * m) + (k * m) * d = (a * n + k * d) * m
      OBVIOUS
    <3> QED
      BY <2>1, <2>2, <3>1, <3>2
  <2> QED
    BY <2>3, <2>4, <2>5 DEF Cong
<1> QED
  BY <1>1, <1>2, <1>3, <1>4

\* Numbers have the same remainder when they are congruent.
LEMMA CongMod ==
    ASSUME NEW m \in Nat \ {0}, NEW a \in Int, NEW b \in Int
    PROVE  /\ Cong(a % m, a, m) /\ a % m \in 0..(m - 1)
           /\ a % m = b % m <=> Cong(a, b, m)
<1>1. PICK q \in Int, r \in 0..(m - 1) : a = m * q + r /\ r = a % m
  BY DivMod
<1>2. PICK p \in Int, t \in 0..(m - 1) : b = m * p + t /\ t = b % m
  BY DivMod
<1>3. a = m * q + r /\ b = m * p + t /\ r \in Int /\ t \in Int
  BY <1>1, <1>2
<1>4. Cong(r, a, m)
  <2>1. r - a = (-q) * m /\ -q \in Int
    BY <1>3
  <2> QED
    BY <2>1 DEF Cong
<1>5. ASSUME r = t
      PROVE  Cong(a, b, m)
  <2>1. a - b = (q - p) * m /\ q - p \in Int
    BY <1>3, <1>5
  <2> QED
    BY <2>1 DEF Cong
<1>6. ASSUME Cong(a, b, m)
      PROVE  r = t
  <2>1. PICK k \in Int : a - b = k * m
    BY <1>6 DEF Cong
  <2>2. a = m * (p + k) + t /\ p + k \in Int
    BY <1>3, <2>1
  <2>3. a % m = t
    BY <2>2, DivMod
  <2> QED
    BY <1>1, <2>3
<1> QED
  BY <1>1, <1>2, <1>4, <1>5, <1>6

\* What is no multiple of the order has an inverse.  The least positive number
\* d congruent to a multiple of a divides every number that is one, Order too,
\* and Order is prime.
LEMMA HasInverse ==
    ASSUME NEW a \in Int, ~Cong(a, 0, Order)
    PROVE  \E i \in Int : Cong(i * a, 1, Order)
<1> DEFINE Reached(n) == \E i \in Int : Cong(i * a, n, Order)
<1>0. Order \in Nat \ {0} /\ Order \in Int /\ Order >= 2
  BY OrderFacts
<1>1. PICK d \in 1..Order : Reached(d) /\ \A n \in 1..Order : Reached(n) => d <= n
  <2> DEFINE S == {n \in 1..Order : Reached(n)}
  <2>1. Order \in S
    <3>1. 0 * a - Order = (-1) * Order
      BY <1>0
    <3> QED
      BY <1>0, <3>1 DEF Cong
  <2>2. S \in SUBSET Nat /\ S # {}
    <3>1. 1..Order \subseteq Nat
      BY <1>0
    <3>2. S \subseteq 1..Order
      BY Zenon
    <3> QED
      BY <2>1, <3>1, <3>2, Zenon
  <2> HIDE DEF S
  <2>3. PICK d \in S : \A n \in S : d <= n
    BY <2>2, LeastNumber
  <2> QED
    BY <2>3 DEF S
<1>2. PICK j \in Int : Cong(j * a, d, Order)
  BY <1>1
<1>3. d \in Nat \ {0} /\ d \in Int /\ d <= Order
  BY <1>0, <1>1
<1>4. ASSUME NEW n \in Int, Reached(n)
      PROVE  n % d = 0
  <2>1. PICK i \in Int : Cong(i * a, n, Order)
    BY <1>4
  <2>2. PICK q \in Int, r \in 0..(d - 1) : n = d * q + r /\ r = n % d
    BY <1>3, DivMod
  <2>3. Cong(q * (j * a), q * d, Order)
    <3>1. j * a \in Int /\ Cong(q, q, Order)
      BY <1>0, CongFacts
    <3> QED
      BY <1>0, <1>2, <1>3, <3>1, CongFacts
  <2>4. q * (j * a) \in Int /\ q * d \in Int /\ i * a \in Int
    BY <1>3
  <2>5. Cong(i * a - q * (j * a), n - q * d, Order)
    BY <1>0, <2>1, <2>3, <2>4, CongFacts
  <2>6. i * a - q * (j * a) = (i - q * j) * a /\ i - q * j \in Int
    OBVIOUS
  <2>7. n - q * d = r
    BY <1>3, <2>2
  <2>8. Reached(r)
    BY <2>5, <2>6, <2>7
  <2>9. r # 0 => r \in 1..Order /\ r < d
    BY <1>0, <1>3, <2>2
  <2>10. ~(d <= r) \/ r = 0
    BY <1>3, <2>2
  <2>11. r = 0
    <3> HIDE DEF Reached
    <3> QED
      BY <1>1, <2>8, <2>9, <2>10
  <2> QED
    BY <2>2, <2>11
<1>5. Order % d = 0
  <2>1. 0 * a - Order = (-1) * Order
    BY <1>0
  <2>2. Reached(Order)
    BY <1>0, <2>1 DEF Cong
  <2> QED
    BY <1>0, <1>4, <2>2
<1>6. a % d = 0
  <2>1. 1 * a = a /\ Cong(a, a, Order)
    BY <1>0, CongFacts
  <2>2. Reached(a)
    BY <2>1
  <2> QED
    BY <1>4, <2>2
<1>7. d # Order
  <2>1. SUFFICES ASSUME d = Order PROVE FALSE
    OBVIOUS
  <2>2. 0 % Order = 0
    BY <1>0
  <2>3. a % Order = 0 % Order
    BY <1>6, <2>1, <2>2
  <2>4. 0 \in Int
    OBVIOUS
  <2>5. Cong(a, 0, Order)
    BY <1>0, <2>3, <2>4, CongMod, Zenon
  <2> QED
    BY <2>5
<1>8. d = 1
  <2>1. d \notin 2..(Order - 1)
    BY <1>5, GroupAssumption
  <2> QED
    BY <1>0, <1>3, <1>7, <2>1
<1> QED
  <2>1. Cong(j * a, 1, Order)
    BY <1>2, <1>8
  <2> QED
    BY <2>1

\* So that it can be cancelled.
LEMMA Cancel ==
    ASSUME NEW a \in Int, ~Cong(a, 0, Order), NEW b \in Int, NEW c \in Int,
           Cong(a * b, a * c, Order)
    PROVE  Cong(b, c, Order)
<1>0. Order \in Nat \ {0}
  BY OrderFacts
<1>1. PICK i \in Int : Cong(i * a, 1, Order)
  BY HasInverse
<1>2. ASSUME NEW n \in Int
      PROVE  Cong(i * (a * n), n, Order)
  <2>1. Cong(n, n, Order) /\ i * a \in Int
    BY <1>0, CongFacts
  <2>2. Cong((i * a) * n, 1 * n, Order)
    BY <1>0, <1>1, <2>1, CongFacts
  <2>3. (i * a) * n = i * (a * n) /\ 1 * n = n
    OBVIOUS
  <2> QED
    BY <2>2, <2>3
<1>3. Cong(i * (a * b), i * (a * c), Order)
  <2>1. a * b \in Int /\ a * c \in Int /\ Cong(i, i, Order)
    BY <1>0, CongFacts
  <2> QED
    BY <1>0, <2>1, CongFacts
<1>4. i * (a * b) \in Int /\ i * (a * c) \in Int
  OBVIOUS
<1>5. Cong(b, i * (a * b), Order)
  BY <1>0, <1>2, <1>4, CongFacts
<1>6. Cong(b, i * (a * c), Order)
  BY <1>0, <1>3, <1>4, <1>5, CongFacts
<1> QED
  BY <1>0, <1>2, <1>4, <1>6, CongFacts

\* The cofactor can.
LEMMA CofactorCancels ==
    /\ ~Cong(Cofactor, 0, Order)
    /\ \A a, b \in Int : Cong(a * Cofactor, b * Cofactor, Order) => Cong(a, b, Order)
<1>0. Order \in Nat \ {0} /\ Cofactor \in Int
  BY OrderFacts
<1>1. ~Cong(Cofactor, 0, Order)
  <2>1. Cofactor % Order # 0
    BY GroupAssumption
  <2>2. 0 % Order = 0
    BY <1>0
  <2>3. Cofactor % Order # 0 % Order
    BY <2>1, <2>2
  <2> QED
    <3>1. 0 \in Int
      OBVIOUS
    <3>2. Cofactor % Order = 0 % Order <=> Cong(Cofactor, 0, Order)
      BY <1>0, <3>1, CongMod, Zenon
    <3> QED
      BY <2>3, <3>2
<1>2. ASSUME NEW a \in Int, NEW b \in Int, Cong(a * Cofactor, b * Cofactor, Order)
      PROVE  Cong(a, b, Order)
  <2>1. a * Cofactor = Cofactor * a /\ b * Cofactor = Cofactor * b
    BY <1>0
  <2> QED
    BY <1>0, <1>1, <1>2, <2>1, Cancel
<1> QED
  BY <1>1, <1>2
-----------------------------------------------------------------------------
(* Points. *)

\* The group is the integers modulo Group; what is congruent there is so modulo
\* Order.
LEMMA GroupFacts ==
    /\ Group \in Nat \ {0} /\ Point = 0..(Group - 1) /\ Point \subseteq Int
    /\ \A a \in Int : /\ a % Group \in Point
                      /\ Cong(a % Group, a, Group) /\ Cong(a % Group, a, Order)
    /\ \A a, b \in Int : Cong(a, b, Group) => Cong(a, b, Order)
<1>0. Group \in Nat \ {0} /\ Point = 0..(Group - 1) /\ Order \in Int /\ Cofactor \in Int
  BY OrderFacts DEF Group, Point
<1>1. ASSUME NEW a \in Int, NEW b \in Int, Cong(a, b, Group)
      PROVE  Cong(a, b, Order)
  <2>1. PICK k \in Int : a - b = k * Group
    BY <1>1 DEF Cong
  <2>2. k * Group = (k * Cofactor) * Order /\ k * Cofactor \in Int
    BY <1>0 DEF Group
  <2> QED
    BY <2>1, <2>2 DEF Cong
<1>2. ASSUME NEW a \in Int
      PROVE  a % Group \in Point /\ Cong(a % Group, a, Group) /\ Cong(a % Group, a, Order)
  <2>1. a % Group \in 0..(Group - 1) /\ Cong(a % Group, a, Group)
    BY <1>0, CongMod
  <2>2. a % Group \in Int
    BY <1>0, <2>1
  <2> QED
    BY <1>0, <1>1, <2>1, <2>2
<1>3. Point \subseteq Int
  BY <1>0
<1> QED
  BY <1>0, <1>1, <1>2, <1>3

\* Clearing the cofactor of a point keeps its remainder modulo Order, and
\* nothing else.
LEMMA ClearFacts ==
    /\ \A p \in Int : MultByCofactor(p) \in Point /\ Cong(MultByCofactor(p), Cofactor * p, Order)
    /\ \A p \in Int : MultByCofactor(p) = Cofactor * (p % Order)
    /\ \A p, q \in Int : MultByCofactor(p) = MultByCofactor(q) <=> Cong(p, q, Order)
    /\ \A p \in Int : MultByCofactor(p) = Identity <=> Cong(p, 0, Order)
<1>0. /\ Order \in Nat \ {0} /\ Cofactor \in Nat \ {0}
      /\ Group \in Nat \ {0} /\ Group = Cofactor * Order
  BY OrderFacts DEF Group
<1>1. ASSUME NEW p \in Int
      PROVE  MultByCofactor(p) \in Point /\ Cong(MultByCofactor(p), Cofactor * p, Order)
  <2>1. Cofactor * p \in Int
    BY <1>0
  <2> QED
    BY <2>1, GroupFacts DEF MultByCofactor, Group
<1>2. ASSUME NEW p \in Int
      PROVE  MultByCofactor(p) = Cofactor * (p % Order)
  <2>1. PICK q \in Int, r \in 0..(Order - 1) : p = Order * q + r /\ r = p % Order
    BY <1>0, DivMod
  <2>2. p = Order * q + r /\ r \in Int /\ 0 <= r /\ r <= Order - 1
    BY <1>0, <2>1
  <2>3. Cofactor * p = Group * q + Cofactor * r
    BY <1>0, <2>2
  <2>4. Cofactor * r \in 0..(Group - 1)
    <3>1. Cofactor * r >= 0 /\ Cofactor * r \in Int
      BY <1>0, <2>2
    <3>2. Cofactor * (Order - 1 - r) >= 0
      BY <1>0, <2>2
    <3>3. Cofactor * (Order - 1 - r) = Group - Cofactor - Cofactor * r
      BY <1>0, <2>2
    <3>4. Cofactor * r <= Group - 1
      BY <1>0, <3>1, <3>2, <3>3
    <3> QED
      BY <1>0, <3>1, <3>4
  <2>5. Cofactor * p \in Int
    BY <1>0
  <2>6. (Cofactor * p) % Group = Cofactor * r
    <3>1. ASSUME NEW n \in Int, NEW t \in 0..(Group - 1), n = Group * q + t
          PROVE  n % Group = t
      BY <1>0, <2>1, <3>1, DivMod, Zenon
    <3> QED
      BY <2>3, <2>4, <2>5, <3>1, Zenon
  <2> QED
    BY <1>0, <2>1, <2>6 DEF MultByCofactor
<1>3. ASSUME NEW p \in Int, NEW q \in Int
      PROVE  MultByCofactor(p) = MultByCofactor(q) <=> Cong(p, q, Order)
  <2>1. ASSUME NEW a \in Int, NEW b \in Int, Cofactor * a = Cofactor * b
        PROVE  a = b
    <3>1. Cofactor * (a - b) = 0
      BY <1>0, <2>1
    <3> QED
      BY <1>0, <3>1
  <2>2. p % Order \in Int /\ q % Order \in Int
    BY <1>0
  <2>3. MultByCofactor(p) = MultByCofactor(q) <=> p % Order = q % Order
    BY <1>2, <2>1, <2>2, Zenon
  <2>4. p % Order = q % Order <=> Cong(p, q, Order)
    BY <1>0, CongMod, Zenon
  <2> QED
    BY <2>3, <2>4
<1>4. ASSUME NEW p \in Int
      PROVE  MultByCofactor(p) = Identity <=> Cong(p, 0, Order)
  <2>1. 0 \in Int
    OBVIOUS
  <2>2. MultByCofactor(0) = Identity
    <3>1. Cofactor * 0 = 0 /\ 0 % (Cofactor * Order) = 0
      BY <1>0
    <3> QED
      BY <3>1 DEF MultByCofactor, Identity
  <2> QED
    BY <1>3, <2>1, <2>2, Zenon
<1> QED
  BY <1>1, <1>2, <1>3, <1>4

\* Every key has an exponent, whoever made it.
LEMMA ExponentFacts ==
    ASSUME NEW key \in Int
    PROVE  /\ Exponent(key) \in Scalar /\ Exponent(key) \in Int
           /\ Cong(Exponent(key) * Cofactor, key, Order)
<1>0. Order \in Nat \ {0} /\ Cofactor \in Int /\ Scalar = 0..(Order - 1) /\ Scalar \subseteq Int
  BY OrderFacts DEF Scalar
<1>1. ASSUME NEW x \in Scalar
      PROVE  MultByCofactor(ScalarBaseMult(x)) = MultByCofactor(key)
                <=> Cong(x * Cofactor, key, Order)
  <2>1. x * Cofactor \in Int /\ ScalarBaseMult(x) = (x * Cofactor) % Group
    BY <1>0 DEF ScalarBaseMult, ScalarMult, Group
  <2>2. ScalarBaseMult(x) \in Int /\ Cong(ScalarBaseMult(x), x * Cofactor, Order)
    BY <2>1, GroupFacts
  <2>3. Cong(ScalarBaseMult(x), key, Order) <=> Cong(x * Cofactor, key, Order)
    BY <1>0, <2>1, <2>2, CongFacts
  <2> QED
    BY <2>2, <2>3, ClearFacts
<1>2. \E x \in Scalar : Cong(x * Cofactor, key, Order)
  <2>1. PICK i \in Int : Cong(i * Cofactor, 1, Order)
    BY <1>0, CofactorCancels, HasInverse
  <2> DEFINE x == (i * key) % Order
  <2>2. i * key \in Int
    OBVIOUS
  <2>3. x \in Scalar /\ x \in Int /\ Cong(x, i * key, Order)
    BY <1>0, <2>2, CongMod
  <2> HIDE DEF x
  <2>4. Cong(x * Cofactor, (i * key) * Cofactor, Order)
    <3>1. Cong(Cofactor, Cofactor, Order)
      BY <1>0, CongFacts
    <3> QED
      BY <1>0, <2>2, <2>3, <3>1, CongFacts
  <2>5. Cong((i * Cofactor) * key, 1 * key, Order)
    <3>1. Cong(key, key, Order) /\ i * Cofactor \in Int
      BY <1>0, CongFacts
    <3> QED
      BY <1>0, <2>1, <3>1, CongFacts
  <2>6. (i * Cofactor) * key = (i * key) * Cofactor /\ 1 * key = key
    BY <1>0
  <2>7. x * Cofactor \in Int /\ (i * key) * Cofactor \in Int
    BY <1>0, <2>3
  <2>8. Cong(x * Cofactor, key, Order)
    BY <1>0, <2>4, <2>5, <2>6, <2>7, CongFacts
  <2> QED
    BY <2>3, <2>8
<1>3. \E x \in Scalar : MultByCofactor(ScalarBaseMult(x)) = MultByCofactor(key)
  BY <1>1, <1>2
<1>4. /\ Exponent(key) \in Scalar
      /\ MultByCofactor(ScalarBaseMult(Exponent(key))) = MultByCofactor(key)
  BY <1>3 DEF Exponent
<1> QED
  BY <1>0, <1>1, <1>4

\* A point gives the output of the message with point hp when it is as good as
\* the exponent times hp.
LEMMA OutputFacts ==
    ASSUME NEW key \in Int, NEW hp \in Int, NEW p \in Int
    PROVE  ProofToHash(p) = Output(key, hp) <=> Cong(p, Exponent(key) * hp, Order)
<1>0. Order \in Nat \ {0}
  BY OrderFacts
<1> DEFINE e == Exponent(key)
<1>1. e \in Int /\ e * hp \in Int
  BY ExponentFacts
<1> HIDE DEF e
<1>2. ScalarMult(e, hp) \in Int /\ Cong(ScalarMult(e, hp), e * hp, Order)
  BY <1>1, GroupFacts DEF ScalarMult, Group
<1>3. ProofToHash(p) = Output(key, hp) <=> Cong(p, ScalarMult(e, hp), Order)
  BY <1>2, ClearFacts DEF ProofToHash, Output, e
<1>4. Cong(p, ScalarMult(e, hp), Order) <=> Cong(p, e * hp, Order)
  BY <1>0, <1>1, <1>2, CongFacts
<1> QED
  BY <1>3, <1>4 DEF e
-----------------------------------------------------------------------------
(* The invariant. *)

Cleared == {MultByCofactor(p) : p \in Point}

Phases == {"start", "hashed", "error", "proved", "committed"}

\* The key is one that the client has taken, a message has a point without
\* small-order part, and a proof is that of Prove or one that a server has
\* committed to.
IInv ==
    /\ y \in Point /\ ValidKey(y)
    /\ phase \in Phases
    /\ phase \in {"hashed", "proved", "committed"} => h \in Cleared
    /\ phase = "proved" =>
        \E x, k \in Scalar, c \in Challenge :
            /\ y = ScalarBaseMult(x)
            /\ proof = [gamma |-> ScalarMult(x, h), u |-> ScalarBaseMult(k),
                        v |-> ScalarMult(k, h), c |-> c, s |-> Response(k, c, x)]
    /\ phase = "committed" => proof \in [gamma : Point, u : Point, v : Point]

\* A message hashes to a cleared point or to none.
LEMMA HashFacts ==
    ASSUME NEW points \in [1..MaxTries -> Point \cup {NotAPoint}]
    PROVE  HashToCurve(points) # NotAPoint => HashToCurve(points) \in Cleared
<1> DEFINE good == {i \in DOMAIN points : points[i] \notin {NotAPoint, Identity}}
           first == CHOOSE i \in good : \A j \in good : i <= j
<1>1. ASSUME good # {}
      PROVE  first \in good
  <2>1. good \in SUBSET Nat
    BY GroupAssumption
  <2> HIDE DEF good
  <2>2. \E i \in good : \A j \in good : i <= j
    BY <1>1, <2>1, LeastNumber
  <2> QED
    BY <2>2
<1>2. \A i \in good : points[i] \in Point
  OBVIOUS
<1>3. HashToCurve(points) = IF good = {} THEN NotAPoint ELSE MultByCofactor(points[first])
  BY DEF HashToCurve
<1> HIDE DEF good, first
<1> QED
  BY <1>1, <1>2, <1>3 DEF Cleared

\* Hash, Prove and Commit keep it.
LEMMA Invariance == Spec => []IInv
<1>1. ASSUME Init
      PROVE  IInv
  BY <1>1 DEF Init, IInv, Phases
<1>2. ASSUME IInv, [Next]_vars
      PROVE  IInv'
  <2>1. CASE Hash
    <3>1. PICK points \in [1..MaxTries -> Point \cup {NotAPoint}] : h' = HashToCurve(points)
      BY <2>1 DEF Hash
    <3>2. phase' = "hashed" => h' \in Cleared
      BY <2>1, <3>1, HashFacts DEF Hash
    <3> QED
      BY <1>2, <2>1, <3>2 DEF Hash, IInv, Phases
  <2>2. CASE Prove
    <3>1. PICK x \in Scalar, k \in Scalar, c \in Challenge :
            /\ y = ScalarBaseMult(x)
            /\ proof' = [gamma |-> ScalarMult(x, h), u |-> ScalarBaseMult(k),
                         v |-> ScalarMult(k, h), c |-> c, s |-> Response(k, c, x)]
      BY <2>2 DEF Prove
    <3>2. y' = y /\ h' = h /\ phase = "hashed" /\ phase' = "proved"
      BY <2>2 DEF Prove
    <3> QED
      BY <1>2, <3>1, <3>2 DEF IInv, Phases, ValidKey
  <2>3. CASE Commit
    BY <1>2, <2>3 DEF Commit, IInv, Phases, ValidKey
  <2>4. CASE UNCHANGED vars
    BY <1>2, <2>4 DEF vars, IInv, ValidKey
  <2> QED
    BY <1>2, <2>1, <2>2, <2>3, <2>4 DEF Next
<1> QED
  BY <1>1, <1>2, PTL DEF Spec
-----------------------------------------------------------------------------
(* Properties. *)

\* The points that labels come from, and the state that the properties are about.
LEMMA StateFacts ==
    ASSUME IInv
    PROVE  /\ y \in Int /\ ~Cong(y, 0, Order) /\ ~Cong(Exponent(y), 0, Order)
           /\ Cleared \subseteq Int
           /\ \A a, b \in Cleared : Cong(a, b, Order) => a = b
<1>0. Order \in Nat \ {0} /\ Cofactor \in Int /\ Point \subseteq Int
  BY OrderFacts, GroupFacts
<1>1. y \in Int /\ ~Cong(y, 0, Order)
  BY <1>0, ClearFacts DEF IInv, ValidKey
<1>2. ~Cong(Exponent(y), 0, Order)
  <2>1. SUFFICES ASSUME Cong(Exponent(y), 0, Order)
                 PROVE  FALSE
    OBVIOUS
  <2>2. Exponent(y) \in Int /\ Cong(Exponent(y) * Cofactor, y, Order)
    BY <1>1, ExponentFacts
  <2>3. Cong(Exponent(y) * Cofactor, 0 * Cofactor, Order)
    <3>1. Cong(Cofactor, Cofactor, Order) /\ 0 \in Int
      BY <1>0, CongFacts
    <3> QED
      BY <1>0, <2>1, <2>2, <3>1, CongFacts
  <2>4. 0 * Cofactor = 0 /\ 0 \in Int /\ Exponent(y) * Cofactor \in Int
    BY <1>0, <2>2
  <2> QED
    BY <1>0, <1>1, <2>2, <2>3, <2>4, CongFacts
<1>3. Cleared \subseteq Int
  <2>1. \A p \in Point : MultByCofactor(p) \in Int
    BY <1>0, ClearFacts
  <2> QED
    BY <2>1, Zenon DEF Cleared
<1>4. ASSUME NEW a \in Cleared, NEW b \in Cleared, Cong(a, b, Order)
      PROVE  a = b
  <2>1. PICK p \in Int, q \in Int : a = MultByCofactor(p) /\ b = MultByCofactor(q)
    BY <1>0 DEF Cleared
  <2>2. /\ Cong(a, Cofactor * p, Order) /\ Cong(b, Cofactor * q, Order)
        /\ Cofactor * p \in Int /\ Cofactor * q \in Int /\ a \in Int /\ b \in Int
    <3>1. Cofactor * p \in Int /\ Cofactor * q \in Int /\ a \in Int /\ b \in Int
      BY <1>0, <1>3
    <3> QED
      BY <2>1, <3>1, ClearFacts, Zenon
  <2>3. Cong(Cofactor * p, a, Order)
    BY <1>0, <2>2, CongFacts
  <2>4. Cong(Cofactor * p, b, Order)
    BY <1>0, <1>4, <2>2, <2>3, CongFacts
  <2>5. Cong(Cofactor * p, Cofactor * q, Order)
    BY <1>0, <2>2, <2>4, CongFacts
  <2>6. Cong(p, q, Order)
    BY <1>0, <2>5, CofactorCancels, Cancel
  <2> QED
    BY <2>1, <2>6, ClearFacts
<1> QED
  BY <1>1, <1>2, <1>3, <1>4

\* Labels of different points differ.
LEMMA DistinctLabels == ASSUME IInv PROVE LabelsDistinct
<1> SUFFICES ASSUME phase = "hashed", NEW hp \in Cleared, Output(y, hp) = Output(y, h)
             PROVE  hp = h
  BY DEF LabelsDistinct, Cleared
<1>0. Order \in Nat \ {0} /\ h \in Cleared
  BY OrderFacts DEF IInv
<1>1. hp \in Int /\ h \in Int /\ y \in Int /\ ~Cong(Exponent(y), 0, Order)
  BY <1>0, StateFacts
<1> DEFINE e == Exponent(y)
<1>2. e \in Int /\ e * hp \in Int /\ e * h \in Int
  BY <1>1, ExponentFacts
<1>3. ProofToHash(e * hp) = Output(y, hp)
  <2>1. Cong(e * hp, e * hp, Order)
    BY <1>0, <1>2, CongFacts
  <2> QED
    BY <1>1, <1>2, <2>1, OutputFacts
<1>4. Cong(e * hp, e * h, Order)
  BY <1>1, <1>2, <1>3, OutputFacts
<1>5. Cong(hp, h, Order)
  BY <1>1, <1>2, <1>4, Cancel
<1> QED
  BY <1>0, <1>5, StateFacts

\* What Prove makes is verified, and has the output of the key.
LEMMA ProofsAreVerified == ASSUME IInv PROVE ProofsVerify
<1> SUFFICES ASSUME phase = "proved"
             PROVE  Verify(y, proof) /\ ProofToHash(proof.gamma) = Output(y, h)
  BY DEF ProofsVerify
<1>1. PICK x \in Scalar, k \in Scalar, c \in Challenge :
        /\ y = ScalarBaseMult(x)
        /\ proof = [gamma |-> ScalarMult(x, h), u |-> ScalarBaseMult(k),
                    v |-> ScalarMult(k, h), c |-> c, s |-> Response(k, c, x)]
  BY DEF IInv
<1>2. /\ Order \in Nat \ {0} /\ Group \in Nat \ {0} /\ Cofactor \in Int /\ Group = Cofactor * Order
      /\ x \in Int /\ k \in Int /\ c \in Int /\ y \in Int /\ h \in Int
  <2>1. Order \in Nat \ {0} /\ Cofactor \in Int /\ NumChallenges \in Int
    BY OrderFacts
  <2>2. h \in Int /\ y \in Int
    <3>1. h \in Cleared
      BY DEF IInv
    <3> QED
      BY <3>1, StateFacts
  <2> QED
    BY <2>1, <2>2, GroupFacts DEF Scalar, Challenge, Group
<1>r. \A a \in Int : a % Group \in Int /\ Cong(a % Group, a, Group)
  BY GroupFacts
<1> DEFINE s == Response(k, c, x)
<1>3. s \in Int /\ \E t \in Int : s = k + c * x - t * Order
  <2>1. k + c * x \in Int
    BY <1>2
  <2>2. s \in Int /\ Cong(s, k + c * x, Order)
    <3>1. ASSUME NEW n \in Int
          PROVE  n % Order \in Int /\ Cong(n % Order, n, Order)
      <4>1. Cong(n % Order, n, Order) /\ n % Order \in 0..(Order - 1)
        BY <1>2, CongMod, Zenon
      <4>2. 0..(Order - 1) \subseteq Int
        BY <1>2
      <4> QED
        BY <4>1, <4>2
    <3> QED
      BY <2>1, <3>1, Zenon DEF Response
  <2>3. PICK m \in Int : s - (k + c * x) = m * Order
    BY <2>2 DEF Cong
  <2> HIDE DEF s
  <2>4. s = k + c * x - (-m) * Order /\ -m \in Int
    BY <1>2, <2>1, <2>2, <2>3
  <2> QED
    BY <2>2, <2>4
<1> HIDE DEF s
<1>4. PICK t \in Int : s = k + c * x - t * Order
  BY <1>3
\* A multiple of the generator and of the message: the same k and s, the
\* exponent x of the key and of gamma.
<1>5. ASSUME NEW g \in Int, Cong(Order * g, 0, Group)
      PROVE  ScalarMult(k, g) = Subtract(ScalarMult(s, g), ScalarMult(c, ScalarMult(x, g)))
  <2>1. /\ k * g \in Int /\ s * g \in Int /\ x * g \in Int /\ c * (x * g) \in Int
        /\ c * ((x * g) % Group) \in Int
    <3>1. (x * g) % Group \in Int
      BY <1>2
    <3> QED
      BY <1>2, <1>3, <3>1
  <2>2. /\ ScalarMult(k, g) = (k * g) % Group /\ ScalarMult(s, g) = (s * g) % Group
        /\ ScalarMult(c, ScalarMult(x, g)) = (c * ((x * g) % Group)) % Group
    BY DEF ScalarMult, Group
  <2>3. Cong((s * g) % Group, s * g, Group)
    BY <1>2, <2>1, CongMod
  <2>4. Cong((c * ((x * g) % Group)) % Group, c * (x * g), Group)
    <3>1. /\ Cong((x * g) % Group, x * g, Group) /\ (x * g) % Group \in Int
          /\ Cong(c, c, Group)
      BY <1>2, <1>r, <2>1, CongFacts, Zenon
    <3>2. Cong(c * ((x * g) % Group), c * (x * g), Group)
      BY <1>2, <2>1, <3>1, CongFacts
    <3>3. /\ Cong((c * ((x * g) % Group)) % Group, c * ((x * g) % Group), Group)
          /\ (c * ((x * g) % Group)) % Group \in Int
      BY <1>r, <2>1, Zenon
    <3> QED
      BY <1>2, <2>1, <3>2, <3>3, CongFacts
  <2>5. s * g - c * (x * g) = k * g - t * (Order * g)
    BY <1>2, <1>4
  <2>6. Cong(k * g - t * (Order * g), k * g, Group)
    <3>1. PICK m \in Int : Order * g - 0 = m * Group
      BY <1>5 DEF Cong
    <3>2. (k * g - t * (Order * g)) - k * g = (-t * m) * Group /\ -t * m \in Int
      BY <1>2, <2>1, <3>1
    <3> QED
      BY <3>2 DEF Cong
  <2> DEFINE a == ScalarMult(s, g)
             b == ScalarMult(c, ScalarMult(x, g))
  <2>7. a \in Int /\ b \in Int
    BY <1>2, <2>1, <2>2
  <2>8. Cong(a, s * g, Group) /\ Cong(b, c * (x * g), Group)
    BY <2>2, <2>3, <2>4
  <2> HIDE DEF a, b
  <2>9. Cong(a - b, s * g - c * (x * g), Group)
    BY <1>2, <2>1, <2>7, <2>8, CongFacts
  <2>10. Cong(a - b, k * g, Group)
    <3>1. a - b \in Int /\ s * g - c * (x * g) \in Int
      BY <2>1, <2>7
    <3> QED
      BY <1>2, <2>1, <2>5, <2>6, <2>9, <3>1, CongFacts
  <2>11. (a - b) % Group = (k * g) % Group
    <3>1. a - b \in Int
      BY <2>7
    <3> QED
      BY <1>2, <2>1, <2>10, <3>1, CongMod
  <2> QED
    BY <2>2, <2>11 DEF Subtract, Group, a, b
<1>6. Verify(y, proof)
  <2>1. proof.u = Subtract(ScalarBaseMult(s), ScalarMult(c, y))
    <3>1. Order * Cofactor - 0 = 1 * Group
      BY <1>2
    <3>2. Cong(Order * Cofactor, 0, Group)
      BY <3>1 DEF Cong
    <3> QED
      BY <1>1, <1>2, <1>5, <3>2 DEF ScalarBaseMult
  <2>2. proof.v = Subtract(ScalarMult(s, h), ScalarMult(c, proof.gamma))
    <3>1. PICK p \in Int : h = Cofactor * (p % Order)
      BY GroupFacts, ClearFacts DEF IInv, Cleared
    <3>2. p % Order \in Int
      BY <1>2
    <3>3. Order * h - 0 = (p % Order) * Group
      BY <1>2, <3>1, <3>2
    <3>4. Cong(Order * h, 0, Group)
      BY <3>2, <3>3 DEF Cong
    <3> QED
      BY <1>1, <1>2, <1>5, <3>4
  <2> QED
    BY <1>1, <2>1, <2>2 DEF Verify, s
<1>7. ProofToHash(proof.gamma) = Output(y, h)
  <2>1. x * Cofactor \in Int /\ Cong(y, x * Cofactor, Order)
    BY <1>1, <1>2, GroupFacts DEF ScalarBaseMult, ScalarMult, Group
  <2>2. Exponent(y) \in Int /\ Cong(Exponent(y) * Cofactor, y, Order)
    BY <1>2, ExponentFacts
  <2>3. Exponent(y) * Cofactor \in Int
    BY <1>2, <2>2
  <2>4. Cong(Exponent(y) * Cofactor, x * Cofactor, Order)
    BY <1>2, <2>1, <2>2, <2>3, CongFacts
  <2>5. Cong(x, Exponent(y), Order)
    BY <1>2, <2>2, <2>4, CofactorCancels, CongFacts
  <2>6. Cong(x * h, Exponent(y) * h, Order)
    <3>1. Cong(h, h, Order)
      BY <1>2, CongFacts
    <3> QED
      BY <1>2, <2>2, <2>5, <3>1, CongFacts
  <2>7. x * h \in Int /\ Exponent(y) * h \in Int
    BY <1>2, <2>2
  <2>8. proof.gamma \in Int /\ Cong(proof.gamma, x * h, Order)
    BY <1>1, <2>7, GroupFacts DEF ScalarMult, Group
  <2>9. Cong(proof.gamma, Exponent(y) * h, Order)
    BY <1>2, <2>6, <2>7, <2>8, CongFacts
  <2> QED
    BY <1>2, <2>8, <2>9, OutputFacts
<1> QED
  BY <1>6, <1>7

\* Two challenges that a server can answer for the points of a proof fix gamma:
\* subtracting the equations of Verify, s1 - s2 is (c1 - c2) times the exponent
\* by those of u, so that those of v make gamma the exponent times h.
LEMMA TwoAnswers ==
    ASSUME IInv, phase = "committed",
           NEW c1 \in Answerable, NEW c2 \in Answerable, c1 # c2
    PROVE  ProofToHash(proof.gamma) = Output(y, h)
<1> DEFINE e == Exponent(y)
           gamma == proof.gamma
<1>1. PICK s1 \in Scalar :
        Verify(y, [gamma |-> proof.gamma, u |-> proof.u, v |-> proof.v, c |-> c1, s |-> s1])
  BY DEF Answerable
<1>2. PICK s2 \in Scalar :
        Verify(y, [gamma |-> proof.gamma, u |-> proof.u, v |-> proof.v, c |-> c2, s |-> s2])
  BY DEF Answerable
<1>3. /\ Order \in Nat \ {0} /\ Group \in Nat \ {0} /\ Cofactor \in Int
      /\ c1 \in 0..(Order - 1) /\ c2 \in 0..(Order - 1) /\ c1 \in Int /\ c2 \in Int
      /\ s1 \in Int /\ s2 \in Int
  <2>1. c1 \in Challenge /\ c2 \in Challenge
    BY DEF Answerable
  <2>2. /\ Order \in Nat \ {0} /\ Group \in Nat \ {0} /\ Cofactor \in Int
        /\ NumChallenges \in Int /\ NumChallenges <= Order
    BY OrderFacts DEF Group
  <2>3. c1 \in 0..(Order - 1) /\ c2 \in 0..(Order - 1)
    BY <2>1, <2>2 DEF Challenge
  <2>4. s1 \in Int /\ s2 \in Int
    BY <2>2 DEF Scalar
  <2> QED
    BY <2>2, <2>3, <2>4
<1>4. /\ y \in Int /\ h \in Int /\ e \in Int
      /\ Cong(e * Cofactor, y, Order)
  <2>1. h \in Cleared
    BY DEF IInv
  <2> QED
    BY <2>1, StateFacts, ExponentFacts
<1>5. gamma \in Int /\ proof.u \in Int /\ proof.v \in Int
  BY GroupFacts DEF IInv
<1> HIDE DEF e, gamma
<1>s. /\ \A a, b \in Int : Cong(a, b, Order) => Cong(b, a, Order)
      /\ \A a, b, c \in Int : Cong(a, b, Order) /\ Cong(b, c, Order) => Cong(a, c, Order)
  BY <1>3, CongFacts
\* What each equation says modulo Order.
<1>6. ASSUME NEW s \in Int, NEW c \in Int, NEW p \in Int, NEW q \in Int, NEW r \in Int,
             r = Subtract(ScalarMult(s, p), ScalarMult(c, q))
      PROVE  Cong(s * p - c * q, r, Order)
  <2> DEFINE a == ScalarMult(s, p)
             b == ScalarMult(c, q)
  <2>1. s * p \in Int /\ c * q \in Int
    OBVIOUS
  <2>2. a \in Int /\ b \in Int /\ Cong(a, s * p, Order) /\ Cong(b, c * q, Order)
    BY <2>1, GroupFacts DEF ScalarMult, Group
  <2>3. r = (a - b) % Group
    BY <1>6 DEF Subtract, Group
  <2> HIDE DEF a, b
  <2>4. Cong(r, a - b, Order) /\ a - b \in Int
    BY <2>2, <2>3, GroupFacts
  <2>5. Cong(a - b, s * p - c * q, Order) /\ s * p - c * q \in Int
    BY <1>3, <2>1, <2>2, CongFacts
  <2>6. Cong(r, s * p - c * q, Order)
    BY <1>3, <2>4, <2>5, CongFacts
  <2> QED
    BY <1>6, <1>s, <2>5, <2>6, Zenon
\* The difference of two equations.
<1>7. ASSUME NEW p \in Int, NEW q \in Int, NEW r \in Int,
             r = Subtract(ScalarMult(s1, p), ScalarMult(c1, q)),
             r = Subtract(ScalarMult(s2, p), ScalarMult(c2, q))
      PROVE  Cong((s1 - s2) * p, (c1 - c2) * q, Order)
  <2>1. Cong(s1 * p - c1 * q, r, Order) /\ Cong(s2 * p - c2 * q, r, Order)
    BY <1>3, <1>6, <1>7
  <2>2. s1 * p - c1 * q \in Int /\ s2 * p - c2 * q \in Int
    BY <1>3
  <2>3. Cong(s1 * p - c1 * q, s2 * p - c2 * q, Order)
    BY <1>3, <2>1, <2>2, CongFacts
  <2>4. PICK k \in Int : (s1 * p - c1 * q) - (s2 * p - c2 * q) = k * Order
    BY <2>3 DEF Cong
  <2>5. (s1 - s2) * p - (c1 - c2) * q = (s1 * p - c1 * q) - (s2 * p - c2 * q)
    BY <1>3
  <2> QED
    BY <2>4, <2>5 DEF Cong
<1>8. s1 - s2 \in Int /\ c1 - c2 \in Int /\ ~Cong(c1 - c2, 0, Order)
  <2>1. ASSUME Cong(c1 - c2, 0, Order)
        PROVE  FALSE
    <3>1. Cong(c1, c2, Order)
      <4>1. (c1 - c2) - 0 = c1 - c2
        BY <1>3
      <4> QED
        BY <2>1, <4>1 DEF Cong
    <3>2. c1 % Order = c2 % Order
      BY <1>3, <3>1, CongMod
    <3>3. c1 % Order = c1 /\ c2 % Order = c2
      BY <1>3
    <3> QED
      BY <3>2, <3>3
  <2> QED
    BY <1>3, <2>1
\* By the equations of u, s1 - s2 is (c1 - c2) * e.
<1>9. Cong(s1 - s2, (c1 - c2) * e, Order)
  <2>1. Cong((s1 - s2) * Cofactor, (c1 - c2) * y, Order)
    BY <1>1, <1>2, <1>3, <1>4, <1>5, <1>7 DEF Verify, ScalarBaseMult
  <2>2. Cong((c1 - c2) * (e * Cofactor), (c1 - c2) * y, Order)
    <3>1. Cong(c1 - c2, c1 - c2, Order) /\ e * Cofactor \in Int
      BY <1>3, <1>4, <1>8, CongFacts
    <3> QED
      BY <1>3, <1>4, <1>8, <3>1, CongFacts
  <2>3. /\ (s1 - s2) * Cofactor \in Int /\ (c1 - c2) * y \in Int
        /\ (c1 - c2) * (e * Cofactor) \in Int /\ (c1 - c2) * e \in Int
        /\ (c1 - c2) * (e * Cofactor) = ((c1 - c2) * e) * Cofactor
    BY <1>3, <1>4, <1>8
  <2>4. Cong((c1 - c2) * y, (c1 - c2) * (e * Cofactor), Order)
    BY <1>s, <2>2, <2>3, Zenon
  <2>5. Cong((s1 - s2) * Cofactor, (c1 - c2) * (e * Cofactor), Order)
    BY <1>s, <2>1, <2>3, <2>4, Zenon
  <2> QED
    BY <1>8, <2>3, <2>5, CofactorCancels
\* By those of v, (c1 - c2) * gamma is (c1 - c2) * e * h.
<1>10. Cong(gamma, e * h, Order)
  <2>1. Cong((s1 - s2) * h, (c1 - c2) * gamma, Order)
    BY <1>1, <1>2, <1>3, <1>4, <1>5, <1>7 DEF Verify, gamma
  <2>2. /\ (s1 - s2) * h \in Int /\ (c1 - c2) * gamma \in Int
        /\ (c1 - c2) * e \in Int /\ ((c1 - c2) * e) * h \in Int /\ e * h \in Int
        /\ ((c1 - c2) * e) * h = (c1 - c2) * (e * h)
    BY <1>3, <1>4, <1>5, <1>8
  <2>3. Cong((s1 - s2) * h, ((c1 - c2) * e) * h, Order)
    <3>1. Cong(h, h, Order)
      BY <1>3, <1>4, CongFacts
    <3> QED
      BY <1>3, <1>4, <1>8, <1>9, <2>2, <3>1, CongFacts
  <2>4. Cong((c1 - c2) * gamma, (s1 - s2) * h, Order)
    BY <1>3, <2>1, <2>2, CongFacts
  <2>5. Cong((c1 - c2) * gamma, (c1 - c2) * (e * h), Order)
    BY <1>3, <2>2, <2>3, <2>4, CongFacts
  <2> QED
    BY <1>5, <1>8, <2>2, <2>5, Cancel
<1> QED
  BY <1>4, <1>5, <1>10, OutputFacts DEF e, gamma

\* A server that can answer more than one challenge shows the output of the key.
LEMMA CommittedIsUnique == ASSUME IInv PROVE FullUniqueness
<1> SUFFICES ASSUME phase = "committed", ProofToHash(proof.gamma) # Output(y, h)
             PROVE  Cardinality(Answerable) <= 1
  BY DEF FullUniqueness
<1>1. \A c1, c2 \in Answerable : c1 = c2
  BY TwoAnswers
<1>2. CASE Answerable = {}
  BY <1>2, FS_EmptySet
<1>3. CASE Answerable # {}
  <2>1. PICK c : Answerable = {c}
    BY <1>1, <1>3
  <2>2. Cardinality(Answerable) = 1
    BY <2>1, FS_Singleton, Zenon
  <2> QED
    BY <2>2
<1> QED
  BY <1>2, <1>3

-----------------------------------------------------------------------------
(* Theorems. *)

\* Messages with different points never have the same label under a key that
\* the client takes: whatever the order, the cofactor and the key.
THEOREM LabelsAreDistinct == Spec => []LabelsDistinct
<1>1. IInv => LabelsDistinct
  BY DistinctLabels
<1> QED
  BY <1>1, Invariance, PTL

\* Every proof of Prove is verified and shows the output of the key, and a
\* server that does not follow Prove has at most one challenge to its favour.
THEOREM OneOutputPerLabel == Spec => []OneOutput
<1>1. IInv => OneOutput
  BY ProofsAreVerified, CommittedIsUnique DEF OneOutput
<1> QED
  BY <1>1, Invariance, PTL

-----------------------------------------------------------------------------
(* Recursive functions, digits and integers. *)

\* A function that is defined by its value at 0 and by the step from each
\* value to the next exists.
Iterates(f, n, S, first, step) ==
    /\ f \in [0..n -> S]
    /\ f[0] = first
    /\ \A i \in 1..n : f[i] = step[<<i, f[i - 1]>>]
    /\ \A g : /\ g = [i \in 0..n |-> g[i]] /\ g[0] = first
              /\ \A i \in 1..n : g[i - 1] \in S => g[i] = step[<<i, g[i - 1]>>]
              => g = f

\* A function that is defined so exists, and is the only one.
LEMMA Recursion ==
    ASSUME NEW n \in Nat, NEW S, NEW first \in S, NEW step \in [(1..n) \X S -> S]
    PROVE  \E f : Iterates(f, n, S, first, step)
<1> DEFINE Done(k, f) == /\ f \in [0..k -> S] /\ f[0] = first
                         /\ \A i \in 1..k : f[i] = step[<<i, f[i - 1]>>]
           Bad == {k \in 0..n : ~ \E f : Done(k, f)}
<1>1. Bad = {}
  <2>1. SUFFICES ASSUME Bad # {} PROVE FALSE
    OBVIOUS
  <2>2. Bad \in SUBSET Nat
    OBVIOUS
  <2>3. PICK k \in Bad : \A j \in Bad : k <= j
    BY <2>1, <2>2, LeastNumber
  <2>4. k # 0
    <3>1. Done(0, [i \in 0..0 |-> first])
      OBVIOUS
    <3> QED
      BY <3>1, <2>3
  <2>5. k \in 1..n /\ k - 1 \in 0..n /\ k - 1 \notin Bad
    BY <2>3, <2>4
  <2>6. PICK f : Done(k - 1, f)
    BY <2>5
  <2> DEFINE g == [i \in 0..k |-> IF i = k THEN step[<<k, f[k - 1]>>] ELSE f[i]]
  <2>7. f[k - 1] \in S /\ step[<<k, f[k - 1]>>] \in S
    BY <2>5, <2>6
  <2>8. g \in [0..k -> S] /\ g[0] = first
    BY <2>5, <2>6, <2>7
  <2>9. ASSUME NEW i \in 1..k
        PROVE  g[i] = step[<<i, g[i - 1]>>]
    <3>1. i - 1 \in 0..k /\ i - 1 # k /\ g[i - 1] = f[i - 1]
      BY <2>5
    <3>2. CASE i = k
      BY <2>5, <3>1, <3>2
    <3>3. CASE i # k
      <4>1. i \in 1..(k - 1)
        BY <2>5, <3>3
      <4>2. g[i] = f[i]
        BY <3>3
      <4> QED
        BY <2>6, <3>1, <4>1, <4>2
    <3> QED
      BY <3>2, <3>3
  <2>10. Done(k, g)
    BY <2>8, <2>9
  <2> QED
    BY <2>3, <2>10
<1>2. PICK f : Done(n, f)
  <2>1. n \in 0..n
    OBVIOUS
  <2>2. n \notin Bad
    BY <1>1
  <2>3. \E f : Done(n, f)
    BY <2>1, <2>2
  <2> QED
    BY <2>3
<1>3. ASSUME NEW g, g = [i \in 0..n |-> g[i]], g[0] = first,
             \A i \in 1..n : g[i - 1] \in S => g[i] = step[<<i, g[i - 1]>>]
      PROVE  g = f
  <2> DEFINE Differ == {i \in 0..n : g[i] # f[i]}
  <2>1. Differ = {}
    <3>1. SUFFICES ASSUME Differ # {} PROVE FALSE
      OBVIOUS
    <3>2. Differ \in SUBSET Nat
      OBVIOUS
    <3>3. PICK k \in Differ : \A j \in Differ : k <= j
      BY <3>1, <3>2, LeastNumber
    <3>4. k # 0
      BY <1>2, <1>3, <3>3
    <3>5. k \in 1..n /\ k - 1 \in 0..n /\ k - 1 \notin Differ
      BY <3>3, <3>4
    <3>6. g[k - 1] = f[k - 1] /\ f[k - 1] \in S
      BY <1>2, <3>5
    <3>7. g[k] = f[k]
      BY <1>2, <1>3, <3>5, <3>6
    <3> QED
      BY <3>3, <3>7
  <2>2. \A i \in 0..n : g[i] = f[i]
    BY <2>1
  <2>3. f = [i \in 0..n |-> f[i]]
    BY <1>2
  <2> QED
    BY <1>3, <2>2, <2>3
<1> QED
  BY <1>2, <1>3 DEF Iterates

\* Bytes are digits, and 0 and 1 are bytes.
LEMMA Widths == /\ Base \in Nat /\ Base >= 2 /\ IntLen \in Nat /\ IntLen >= 1
                /\ Byte \subseteq Nat /\ 0 \in Byte /\ 1 \in Byte
  BY WidthAssumption DEF Byte

\* A number is its lowest digit and the rest.
LEMMA Digits ==
    /\ \A k \in Nat : /\ k % Base \in Byte /\ k % Base \in Nat /\ k \div Base \in Nat
                      /\ (k % Base) + Base * (k \div Base) = k
    /\ \A k \in Nat, d \in Byte : /\ d + Base * k \in Nat
                                  /\ (d + Base * k) % Base = d
                                       /\ (d + Base * k) \div Base = k
<1>1. Base \in Nat \ {0} /\ Base \in Nat
  BY Widths
<1>2. ASSUME NEW k \in Nat
      PROVE  /\ k % Base \in Byte /\ k % Base \in Nat /\ k \div Base \in Nat
             /\ (k % Base) + Base * (k \div Base) = k
  <2>1. /\ k % Base \in 0..(Base - 1) /\ k \div Base \in Int
        /\ k = Base * (k \div Base) + (k % Base)
    BY <1>1, DivMod
  <2>2. k \div Base \in Nat
    BY <1>1
  <2> QED
    BY <1>1, <2>1, <2>2 DEF Byte
<1>3. ASSUME NEW k \in Nat, NEW d \in Byte
      PROVE  /\ d + Base * k \in Nat
             /\ (d + Base * k) % Base = d /\ (d + Base * k) \div Base = k
  <2>1. d \in 0..(Base - 1)
    BY DEF Byte
  <2>2. PICK m : m = d + Base * k
    OBVIOUS
  <2>3. Base * k \in Nat
    BY <1>1
  <2>4. m \in Nat /\ m = Base * k + d
    BY <2>1, <2>2, <2>3, <1>1
  <2>5. m % Base = d
    <3>1. m \in Int /\ k \in Int
      BY <2>4
    <3>2. \A q \in Int, r \in 0..(Base - 1) : m = Base * q + r => m % Base = r
      BY <1>1, <3>1, DivMod, Zenon
    <3> QED
      BY <2>1, <2>4, <3>1, <3>2, Zenon
  <2>6. m \div Base \in Nat /\ m = Base * (m \div Base) + d
    <3>1. (m % Base) + Base * (m \div Base) = m /\ m \div Base \in Nat
      BY <1>2, <2>4
    <3>2. Base * (m \div Base) \in Nat
      BY <1>1, <3>1
    <3> QED
      BY <2>1, <2>5, <3>1, <3>2
  <2>7. Base * (m \div Base) = Base * k
    BY <1>1, <2>1, <2>3, <2>4, <2>6
  <2>8. m \div Base = k
    BY <1>1, <2>6, <2>7
  <2> QED
    BY <2>2, <2>4, <2>5, <2>8
<1> QED
  BY <1>2, <1>3

\* Shifted drops the lowest byte again and again.
LEMMA ShiftedFacts ==
    ASSUME NEW data \in Nat
    PROVE  /\ Shifted(data) \in [0..IntLen -> Nat]
           /\ Shifted(data)[0] = data
           /\ \A i \in 1..IntLen : Shifted(data)[i] = Shifted(data)[i - 1] \div Base
<1> DEFINE step == [p \in (1..IntLen) \X Nat |-> p[2] \div Base]
<1>1. step \in [(1..IntLen) \X Nat -> Nat]
  <2>1. \A p \in (1..IntLen) \X Nat : p[2] \div Base \in Nat
    BY Widths
  <2> QED
    BY <2>1
<1>2. \A i \in 1..IntLen, n \in Nat : step[<<i, n>>] = n \div Base
  OBVIOUS
<1> HIDE DEF step
<1>3. PICK f : Iterates(f, IntLen, Nat, data, step)
  BY <1>1, Widths, Recursion
<1>4. \A i \in 1..IntLen : i \in 0..IntLen /\ i # 0 /\ i - 1 \in 0..IntLen
        /\ f[i - 1] \in Nat
  BY <1>3, Widths DEF Iterates
<1>5. \A i \in 1..IntLen : f[i] = f[i - 1] \div Base
  BY <1>2, <1>3, <1>4 DEF Iterates
<1>6. f = [i \in 0..IntLen |-> IF i = 0 THEN data ELSE f[i - 1] \div Base]
  BY <1>3, <1>5, Widths DEF Iterates
<1> DEFINE g == CHOOSE nums : nums = [i \in 0..IntLen |-> IF i
             = 0 THEN data ELSE nums[i - 1] \div Base]
<1>7. Shifted(data) = g
  BY DEF Shifted
<1>8. g = [i \in 0..IntLen |-> IF i = 0 THEN data ELSE g[i - 1] \div Base]
  BY <1>6
<1> HIDE DEF g
<1>9. 0 \in 0..IntLen /\ g[0] = data /\ \A i \in 1..IntLen : g[i] = g[i - 1] \div Base
  BY <1>4, <1>8, Widths
<1>10. g = [i \in 0..IntLen |-> g[i]]
  BY <1>8
<1>11. g = f
  BY <1>2, <1>3, <1>9, <1>10 DEF Iterates
<1> QED
  BY <1>3, <1>5, <1>7, <1>11 DEF Iterates

\* What holds of 0 and of the next number holds up to n.
LEMMA Induction ==
    ASSUME NEW n \in Nat, NEW S, 0 \in S, \A i \in 1..n : i - 1 \in S => i \in S
    PROVE  \A i \in 0..n : i \in S
<1> DEFINE Bad == {i \in 0..n : i \notin S}
<1>1. SUFFICES ASSUME Bad # {} PROVE FALSE
  OBVIOUS
<1>2. Bad \in SUBSET Nat
  OBVIOUS
<1>3. PICK k \in Bad : \A j \in Bad : k <= j
  BY <1>1, <1>2, LeastNumber
<1>4. k \in 1..n /\ k - 1 \in 0..n /\ k - 1 \notin Bad
  BY <1>3
<1> QED
  BY <1>3, <1>4

\* Value adds bytes, the highest first.
LEMMA ValueFacts ==
    ASSUME NEW digits, \A i \in 1..IntLen : digits[i] \in Byte
    PROVE  \E v \in [0..IntLen -> Nat] :
                /\ Value(digits) = v[IntLen] /\ v[0] = 0
                /\ \A i \in 1..IntLen : v[i] = digits[IntLen - i + 1] + Base * v[i - 1]
<1> DEFINE step == [p \in (1..IntLen) \X Nat |-> digits[IntLen - p[1] + 1] + Base * p[2]]
<1>1. step \in [(1..IntLen) \X Nat -> Nat]
  <2>1. ASSUME NEW p \in (1..IntLen) \X Nat
        PROVE  digits[IntLen - p[1] + 1] + Base * p[2] \in Nat
    <3>1. IntLen - p[1] + 1 \in 1..IntLen /\ p[2] \in Nat
      BY Widths
    <3>2. digits[IntLen - p[1] + 1] \in Nat
      BY <3>1, Widths
    <3>3. \A n \in Nat : Base * n \in Nat
      BY Widths
    <3> QED
      BY <3>1, <3>2, <3>3
  <2> QED
    BY <2>1
<1>2. \A i \in 1..IntLen, n \in Nat : step[<<i, n>>] = digits[IntLen - i + 1] + Base * n
  OBVIOUS
<1> HIDE DEF step
<1>3. PICK f : Iterates(f, IntLen, Nat, 0, step)
  BY <1>1, Widths, Recursion
<1>4. \A i \in 1..IntLen : i \in 0..IntLen /\ i # 0 /\ i - 1 \in 0..IntLen
        /\ f[i - 1] \in Nat
  BY <1>3, Widths DEF Iterates
<1>5. \A i \in 1..IntLen : f[i] = digits[IntLen - i + 1] + Base * f[i - 1]
  BY <1>2, <1>3, <1>4 DEF Iterates
<1>6. f = [i \in 0..IntLen |-> IF i
        = 0 THEN 0 ELSE digits[IntLen - i + 1] + Base * f[i - 1]]
  BY <1>3, <1>5, Widths DEF Iterates
<1> DEFINE g == CHOOSE nums : nums = [i \in 0..IntLen |->
                    IF i = 0 THEN 0 ELSE digits[IntLen - i + 1] + Base * nums[i - 1]]
<1>7. Value(digits) = g[IntLen]
  BY DEF Value
<1>8. g = [i \in 0..IntLen |-> IF i
        = 0 THEN 0 ELSE digits[IntLen - i + 1] + Base * g[i - 1]]
  BY <1>6
<1> HIDE DEF g
<1>9. 0 \in 0..IntLen /\ g[0] = 0
      /\ \A i \in 1..IntLen : g[i] = digits[IntLen - i + 1] + Base * g[i - 1]
  BY <1>4, <1>8, Widths
<1>10. g = [i \in 0..IntLen |-> g[i]]
  BY <1>8
<1>11. g = f
  BY <1>2, <1>3, <1>9, <1>10 DEF Iterates
<1> QED
  BY <1>3, <1>5, <1>7, <1>11 DEF Iterates

\* A number that fits is the value of its bytes, and bytes are those of their value.
LEMMA WriteIntFacts ==
    ASSUME NEW n \in Nat
    PROVE  /\ WriteInt(n) \in Bytes /\ Len(WriteInt(n)) = IntLen
           /\ \A i \in 1..IntLen : WriteInt(n)[i] = Shifted(n)[i - 1] % Base
<1>1. \A i \in 1..IntLen : Shifted(n)[i - 1] \in Nat
  BY ShiftedFacts, Widths
<1>2. \A i \in 1..IntLen : Shifted(n)[i - 1] % Base \in Byte
  BY <1>1, Digits
<1> QED
  BY <1>2, Widths DEF WriteInt, Bytes

\* What WriteInt writes has the value that was written, if it fits.
LEMMA ValueOfInt ==
    ASSUME NEW n \in Uint64, NEW digits, \A i \in 1..IntLen : digits[i] = WriteInt(n)[i]
    PROVE  Value(digits) = n
<1>1. n \in Nat /\ Shifted(n)[IntLen] = 0
  BY DEF Uint64
<1> DEFINE sh == Shifted(n)
<1>2. /\ sh \in [0..IntLen -> Nat] /\ sh[0] = n
      /\ \A i \in 1..IntLen : sh[i] = sh[i - 1] \div Base /\ digits[i] = sh[i - 1] % Base
  BY <1>1, ShiftedFacts, WriteIntFacts
<1>3. \A i \in 1..IntLen : digits[i] \in Byte
  <2>1. \A i \in 1..IntLen : sh[i - 1] \in Nat
    BY <1>2, Widths
  <2> QED
    BY <1>2, <2>1, Digits
<1>4. PICK v \in [0..IntLen -> Nat] :
            /\ Value(digits) = v[IntLen] /\ v[0] = 0
            /\ \A i \in 1..IntLen : v[i] = digits[IntLen - i + 1] + Base * v[i - 1]
  BY <1>3, ValueFacts
<1> HIDE DEF sh
<1> DEFINE S == {i \in 0..IntLen : v[i] = sh[IntLen - i]}
<1>5. 0 \in S
  BY <1>1, <1>4, Widths DEF sh
<1>6. ASSUME NEW i \in 1..IntLen, i - 1 \in S
      PROVE  i \in S
  <2>1. IntLen - i + 1 \in 1..IntLen /\ IntLen - i \in 0..IntLen /\ i \in 0..IntLen
        /\ IntLen - i + 1 - 1 = IntLen - i /\ IntLen - (i - 1) = IntLen - i + 1
    BY Widths
  <2>2. PICK k : k = sh[IntLen - i]
    OBVIOUS
  <2>3. k \in Nat
    BY <1>2, <2>1, <2>2
  <2>4. digits[IntLen - i + 1] = k % Base /\ sh[IntLen - i + 1] = k \div Base
    BY <1>2, <2>1, <2>2
  <2>5. v[i - 1] = k \div Base
    BY <1>6, <2>1, <2>4
  <2>6. v[i] = (k % Base) + Base * (k \div Base)
    BY <1>4, <2>4, <2>5
  <2>7. (k % Base) + Base * (k \div Base) = k
    BY <2>3, Digits
  <2> QED
    BY <2>1, <2>2, <2>6, <2>7
<1>7. IntLen \in S
  <2> HIDE DEF S
  <2>1. \A i \in 0..IntLen : i \in S
    BY <1>5, <1>6, Widths, Induction
  <2> QED
    BY <2>1, Widths
<1> QED
  BY <1>2, <1>4, <1>7, Widths

\* Bytes are what WriteInt writes for their value, which fits.
LEMMA IntOfValue ==
    ASSUME NEW digits, \A i \in 1..IntLen : digits[i] \in Byte
    PROVE  /\ Value(digits) \in Uint64
           /\ \A i \in 1..IntLen : WriteInt(Value(digits))[i] = digits[i]
<1>1. PICK v \in [0..IntLen -> Nat] :
            /\ Value(digits) = v[IntLen] /\ v[0] = 0
            /\ \A i \in 1..IntLen : v[i] = digits[IntLen - i + 1] + Base * v[i - 1]
  BY ValueFacts
<1>2. PICK n : n = v[IntLen]
  OBVIOUS
<1>3. n \in Nat
  BY <1>2, Widths
<1> DEFINE sh == Shifted(n)
<1>4. /\ sh \in [0..IntLen -> Nat] /\ sh[0] = n
      /\ \A i \in 1..IntLen : sh[i] = sh[i - 1] \div Base
           /\ WriteInt(n)[i] = sh[i - 1] % Base
  BY <1>3, ShiftedFacts, WriteIntFacts
<1> HIDE DEF sh
<1>5. ASSUME NEW i \in 1..IntLen, sh[i - 1] = v[IntLen - (i - 1)]
      PROVE  sh[i] = v[IntLen - i] /\ WriteInt(n)[i] = digits[i]
  <2>1. /\ IntLen - i + 1 \in 1..IntLen /\ IntLen - (i - 1) = IntLen - i + 1
        /\ IntLen - i + 1 - 1 = IntLen - i /\ IntLen - (IntLen - i + 1) + 1 = i
        /\ IntLen - i \in 0..IntLen
    BY Widths
  <2>2. PICK k, d : k = v[IntLen - i] /\ d = digits[i]
    OBVIOUS
  <2>3. k \in Nat /\ d \in 0..(Base - 1)
    BY <2>1, <2>2 DEF Byte
  <2>4. sh[i - 1] = d + Base * k
    BY <1>1, <1>5, <2>1, <2>2
  <2>5. d \in Byte
    BY <2>3 DEF Byte
  <2>6. (d + Base * k) % Base = d /\ (d + Base * k) \div Base = k
    BY <2>3, <2>5, Digits
  <2> QED
    BY <1>4, <2>2, <2>4, <2>6
<1> DEFINE S == {i \in 0..IntLen : sh[i] = v[IntLen - i]}
<1>6. 0 \in S
  BY <1>2, <1>4, Widths
<1>7. ASSUME NEW i \in 1..IntLen, i - 1 \in S
      PROVE  i \in S
  BY <1>5, <1>7
<1>8. \A i \in 0..IntLen : i \in S
  <2> HIDE DEF S
  <2> QED
    BY <1>6, <1>7, Widths, Induction
<1>9. sh[IntLen] = 0
  BY <1>1, <1>8, Widths
<1>10. ASSUME NEW i \in 1..IntLen
       PROVE  WriteInt(n)[i] = digits[i]
  <2>1. i - 1 \in 0..IntLen
    BY Widths
  <2>2. sh[i - 1] = v[IntLen - (i - 1)]
    BY <1>8, <2>1
  <2> QED
    BY <1>5, <2>2
<1>11. n \in Uint64
  BY <1>3, <1>9 DEF Uint64, sh
<1> QED
  BY <1>1, <1>2, <1>10, <1>11

-----------------------------------------------------------------------------
(* Byte strings, readers and what they read. *)

\* Byte strings, put together and taken apart.
LEMMA Concats ==
    /\ <<>> \in Bytes
    /\ \A s \in Bytes : /\ s \o <<>> = s /\ <<>> \o s = s
                        /\ Len(s) \in Nat /\ DOMAIN s = 1..Len(s)
    /\ \A s, t \in Bytes : s \o t \in Bytes /\ Len(s \o t) = Len(s) + Len(t)
    /\ \A s, t, u \in Bytes : (s \o t) \o u = s \o (t \o u)
<1>1. \A s, t \in Bytes : s \o t \in Bytes /\ Len(s \o t) = Len(s) + Len(t)
  BY ConcatProperties DEF Bytes
<1>2. \A s, t, u \in Bytes : (s \o t) \o u = s \o (t \o u)
  BY ConcatAssociative DEF Bytes
<1>3. \A s \in Bytes : s \o <<>> = s /\ <<>> \o s = s
  BY ConcatEmptySeq DEF Bytes
<1> QED
  BY <1>1, <1>2, <1>3 DEF Bytes

\* Two byte strings that were joined can be cut apart where they meet.
LEMMA Joined ==
    ASSUME NEW s \in Bytes, NEW t \in Bytes
    PROVE  /\ SubSeq(s \o t, 1, Len(s)) = s
           /\ SubSeq(s \o t, Len(s) + 1, Len(s \o t)) = t
<1>1. /\ s \o t \in Bytes /\ Len(s \o t) = Len(s) + Len(t)
      /\ Len(s) \in Nat /\ Len(t) \in Nat
  BY Concats
<1>2. /\ \A i \in 1..Len(s) : (s \o t)[i] = s[i] /\ (s \o t)[i] \in Byte
      /\ \A i \in 1..Len(t) : (s \o t)[Len(s) + i] = t[i] /\ (s \o t)[Len(s) + i] \in Byte
  BY <1>1 DEF Bytes
<1>3. SubSeq(s \o t, 1, Len(s)) = s
  <2>1. /\ SubSeq(s \o t, 1, Len(s)) \in Seq(Byte)
        /\ Len(SubSeq(s \o t, 1, Len(s))) = IF 1 <= Len(s) THEN Len(s) - 1 + 1 ELSE 0
        /\ \A i \in 1..(Len(s) - 1 + 1) : SubSeq(s \o t, 1, Len(s))[i] = (s \o t)[1 + i - 1]
    BY <1>1, <1>2, SubSeqProperties
  <2>2. Len(SubSeq(s \o t, 1, Len(s))) = Len(s)
    BY <1>1, <2>1
  <2>3. \A i \in 1..Len(s) : SubSeq(s \o t, 1, Len(s))[i] = s[i]
    BY <1>1, <1>2, <2>1
  <2> QED
    BY <2>1, <2>2, <2>3, SeqEqual DEF Bytes
<1>4. SubSeq(s \o t, Len(s) + 1, Len(s \o t)) = t
  <2> DEFINE n == Len(s) + Len(t)
             sub == SubSeq(s \o t, Len(s) + 1, n)
  <2>1. \A i \in (Len(s) + 1)..n : (s \o t)[i] \in Byte
    BY <1>1 DEF Bytes
  <2>2. Len(s) + 1 \in Int /\ n \in Int
    BY <1>1
  <2>3. /\ sub \in Seq(Byte)
        /\ Len(sub) = IF Len(s) + 1 <= n THEN n - (Len(s) + 1) + 1 ELSE 0
        /\ \A i \in 1..(n - (Len(s) + 1) + 1) : sub[i] = (s \o t)[Len(s) + 1 + i - 1]
    BY <2>1, <2>2, SubSeqProperties
  <2>4. Len(sub) = Len(t)
    BY <1>1, <2>3
  <2>5. ASSUME NEW i \in 1..Len(t)
        PROVE  sub[i] = t[i]
    <3>1. i \in 1..(n - (Len(s) + 1) + 1) /\ Len(s) + 1 + i - 1 = Len(s) + i
      BY <1>1
    <3> QED
      BY <1>2, <2>3, <3>1
  <2>6. sub = t
    BY <2>3, <2>4, <2>5, SeqEqual DEF Bytes
  <2> QED
    BY <1>1, <2>6
<1> QED
  BY <1>3, <1>4

\* Two parts of a byte string, joined, are the whole.
LEMMA Split ==
    ASSUME NEW b \in Bytes, NEW n \in 0..Len(b)
    PROVE  /\ SubSeq(b, 1, n) \in Bytes /\ Len(SubSeq(b, 1, n)) = n
           /\ SubSeq(b, n + 1, Len(b)) \in Bytes
           /\ b = SubSeq(b, 1, n) \o SubSeq(b, n + 1, Len(b))
           /\ \A i \in 1..n : SubSeq(b, 1, n)[i] = b[i]
<1>1. Len(b) \in Nat /\ n \in Nat /\ \A i \in 1..Len(b) : b[i] \in Byte
  BY DEF Bytes
<1>2. /\ SubSeq(b, 1, n) \in Seq(Byte)
      /\ Len(SubSeq(b, 1, n)) = IF 1 <= n THEN n - 1 + 1 ELSE 0
      /\ \A i \in 1..(n - 1 + 1) : SubSeq(b, 1, n)[i] = b[1 + i - 1]
  BY <1>1, SubSeqProperties
<1>3. SubSeq(b, n + 1, Len(b)) \in Seq(Byte)
  <2>1. \A i \in (n + 1)..Len(b) : b[i] \in Byte
    BY <1>1
  <2>2. n + 1 \in Int /\ Len(b) \in Int
    BY <1>1
  <2> QED
    BY <2>1, <2>2, SubSeqProperties
<1>4. b = SubSeq(b, 1, n) \o SubSeq(b, n + 1, Len(b))
  <2>1. 1 \in 1..(Len(b) + 1) /\ n \in (1 - 1)..Len(b) /\ Len(b) \in n..Len(b)
          /\ b \in Seq(Byte)
    BY <1>1 DEF Bytes
  <2>2. SubSeq(b, 1, n) \o SubSeq(b, n + 1, Len(b)) = SubSeq(b, 1, Len(b))
    BY <2>1, ConcatAdjacentSubSeq
  <2>3. SubSeq(b, 1, Len(b)) = b
    BY <2>1, SubSeqFull
  <2> QED
    BY <2>2, <2>3
<1>5. Len(SubSeq(b, 1, n)) = n /\ \A i \in 1..n : SubSeq(b, 1, n)[i] = b[i]
  BY <1>1, <1>2
<1> QED
  BY <1>2, <1>3, <1>4, <1>5 DEF Bytes

\* A reader reads val from the bytes enc, whatever follows them.
Reads(reader, enc, val) ==
    /\ enc \in Bytes
    /\ \A rest \in Bytes : reader[enc \o rest] = Ok(val, rest)

\* What a reader reads is decided by the bytes that it reads.
Local(reader) ==
    \A b \in Bytes :
        ~reader[b].err =>
            /\ reader[b] = Ok(reader[b].val, reader[b].rest) /\ reader[b].rest \in Bytes
            /\ \E enc \in Bytes : /\ b = enc \o reader[b].rest
                                  /\ Reads(reader, enc, reader[b].val)

\* What a reader reads is a value of a type, from the value's encoding.
Exact(reader, type, enc) ==
    \A b \in Bytes :
        ~reader[b].err =>
            /\ reader[b] = Ok(reader[b].val, reader[b].rest) /\ reader[b].rest \in Bytes
            /\ reader[b].val \in type
            /\ b = enc[reader[b].val] \o reader[b].rest

\* What a reader returns.
Results ==
    /\ Failed.err = TRUE
    /\ \A val, rest : /\ Ok(val, rest).err = FALSE
                      /\ Ok(val, rest).val = val /\ Ok(val, rest).rest = rest

\* Its fields.
LEMMA ResultFacts == Results
  BY DEF Results, Failed, Ok

\* A reader that reads encodings is decided by what it reads.
LEMMA ExactIsLocal ==
    ASSUME NEW reader, NEW type, NEW enc, Exact(reader, type, enc),
           \A val \in type : Reads(reader, enc[val], val)
    PROVE  Local(reader)
<1>1. ASSUME NEW b \in Bytes, ~reader[b].err
      PROVE  /\ reader[b] = Ok(reader[b].val, reader[b].rest) /\ reader[b].rest \in Bytes
             /\ \E e \in Bytes : /\ b = e \o reader[b].rest
                                 /\ Reads(reader, e, reader[b].val)
  <2>1. /\ reader[b] = Ok(reader[b].val, reader[b].rest) /\ reader[b].rest \in Bytes
        /\ reader[b].val \in type /\ b = enc[reader[b].val] \o reader[b].rest
    BY <1>1 DEF Exact
  <2>2. Reads(reader, enc[reader[b].val], reader[b].val)
    BY <2>1
  <2>3. enc[reader[b].val] \in Bytes
    BY <2>2 DEF Reads
  <2> QED
    BY <2>1, <2>2, <2>3
<1> QED
  BY <1>1 DEF Local

-----------------------------------------------------------------------------
(* Integers, slices and flags. *)

IntEnc == [n \in Uint64 |-> WriteInt(n)]

\* An integer is read back,
LEMMA IntReads ==
    ASSUME NEW n \in Uint64
    PROVE  Reads(IntDecode, WriteInt(n), n)
<1>1. n \in Nat
  BY DEF Uint64
<1>2. WriteInt(n) \in Bytes /\ Len(WriteInt(n)) = IntLen
  BY <1>1, WriteIntFacts
<1>3. ASSUME NEW rest \in Bytes
      PROVE  IntDecode[WriteInt(n) \o rest] = Ok(n, rest)
  <2> DEFINE b == WriteInt(n) \o rest
  <2>1. b \in Bytes /\ Len(b) >= IntLen
    BY <1>2, Concats, Widths
  <2>2. SubSeq(b, 1, IntLen) = WriteInt(n) /\ SubSeq(b, IntLen + 1, Len(b)) = rest
    BY <1>2, Joined
  <2>3. Value(WriteInt(n)) = n
    BY ValueOfInt
  <2> HIDE DEF b
  <2>4. ~(Len(b) < IntLen)
    BY <2>1, Widths, Concats
  <2>5. ReadInt(b) = Ok(n, rest)
    BY <2>2, <2>3, <2>4 DEF ReadInt
  <2>6. IntDecode[b] = ReadInt(b)
    BY <2>1 DEF IntDecode
  <2> QED
    BY <2>5, <2>6 DEF b
<1> QED
  BY <1>2, <1>3 DEF Reads

\* and bytes that are read as one are its encoding.
LEMMA IntExact == Exact(IntDecode, Uint64, IntEnc)
<1>1. ASSUME NEW b \in Bytes, ~IntDecode[b].err
      PROVE  /\ IntDecode[b] = Ok(IntDecode[b].val, IntDecode[b].rest)
             /\ IntDecode[b].rest \in Bytes /\ IntDecode[b].val \in Uint64
             /\ b = IntEnc[IntDecode[b].val] \o IntDecode[b].rest
  <2> DEFINE digits == SubSeq(b, 1, IntLen)
             rest == SubSeq(b, IntLen + 1, Len(b))
  <2>1. IntDecode[b] = ReadInt(b)
    BY DEF IntDecode
  <2>2. ~(Len(b) < IntLen)
    BY <1>1, <2>1, ResultFacts DEF ReadInt, Results
  <2>3. IntDecode[b] = Ok(Value(digits), rest)
    BY <2>1, <2>2 DEF ReadInt
  <2>4. IntLen \in 0..Len(b)
    BY <2>2, Concats, Widths
  <2>5. /\ digits \in Bytes /\ Len(digits) = IntLen /\ rest \in Bytes /\ b = digits \o rest
    BY <2>4, Split
  <2> HIDE DEF digits, rest
  <2>6. \A i \in 1..IntLen : digits[i] \in Byte
    BY <2>5 DEF Bytes
  <2>7. /\ Value(digits) \in Uint64
        /\ \A i \in 1..IntLen : WriteInt(Value(digits))[i] = digits[i]
    BY <2>6, IntOfValue
  <2>8. WriteInt(Value(digits)) = digits
    <3>1. Value(digits) \in Nat
      BY <2>7 DEF Uint64
    <3>2. WriteInt(Value(digits)) \in Bytes /\ Len(WriteInt(Value(digits))) = IntLen
      BY <3>1, WriteIntFacts
    <3> QED
      BY <2>5, <2>7, <3>2, SeqEqual DEF Bytes
  <2>9. IntDecode[b].val = Value(digits) /\ IntDecode[b].rest = rest
    BY <2>3, ResultFacts DEF Results
  <2>10. IntEnc[Value(digits)] = digits
    BY <2>7, <2>8 DEF IntEnc
  <2> QED
    BY <2>3, <2>5, <2>7, <2>9, <2>10
<1> QED
  BY <1>1 DEF Exact

BytesEnc == [s \in Slbyte |-> WriteSlice1D(s)]

\* What ReadSlice1D makes of an integer and what follows it.
LEMMA Slice1DReads ==
    ASSUME NEW s \in Slbyte
    PROVE  Reads(Slice1DDecode, WriteSlice1D(s), s)
<1>1. s \in Bytes /\ Len(s) \in Uint64 /\ Len(s) \in Nat
  BY DEF Slbyte, Uint64
<1>2. WriteInt(Len(s)) \in Bytes
  BY <1>1, WriteIntFacts
<1>3. WriteSlice1D(s) \in Bytes
  BY <1>1, <1>2, Concats DEF WriteSlice1D
<1>4. ASSUME NEW rest \in Bytes
      PROVE  Slice1DDecode[WriteSlice1D(s) \o rest] = Ok(s, rest)
  <2> DEFINE b == WriteSlice1D(s) \o rest
  <2>1. b \in Bytes /\ s \o rest \in Bytes /\ b = WriteInt(Len(s)) \o (s \o rest)
    BY <1>1, <1>2, <1>3, Concats DEF WriteSlice1D
  <2>2. IntDecode[b] = Ok(Len(s), s \o rest)
    BY <1>1, <2>1, IntReads DEF Reads
  <2>3. ReadInt(b) = Ok(Len(s), s \o rest)
    BY <2>1, <2>2 DEF IntDecode
  <2> HIDE DEF b
  <2>4. ReadSlice1D(b) = ReadBytes(s \o rest, Len(s))
    BY <2>3, ResultFacts DEF ReadSlice1D, Results
  <2>5. ~(Len(s \o rest) < Len(s))
    BY <1>1, Concats
  <2>6. ReadBytes(s \o rest, Len(s)) = Ok(s, rest)
    BY <1>1, <2>5, Joined DEF ReadBytes
  <2>7. Slice1DDecode[b] = ReadSlice1D(b)
    BY <2>1 DEF Slice1DDecode
  <2> QED
    BY <2>4, <2>6, <2>7 DEF b
<1> QED
  BY <1>3, <1>4 DEF Reads

\* Bytes that are read as a slice are its encoding.
LEMMA Slice1DExact == Exact(Slice1DDecode, Slbyte, BytesEnc)
<1>1. ASSUME NEW b \in Bytes, ~Slice1DDecode[b].err
      PROVE  /\ Slice1DDecode[b] = Ok(Slice1DDecode[b].val, Slice1DDecode[b].rest)
             /\ Slice1DDecode[b].rest \in Bytes /\ Slice1DDecode[b].val \in Slbyte
             /\ b = BytesEnc[Slice1DDecode[b].val] \o Slice1DDecode[b].rest
  <2>1. Slice1DDecode[b] = ReadSlice1D(b) /\ IntDecode[b] = ReadInt(b)
    BY DEF Slice1DDecode, IntDecode
  <2>2. ~ReadInt(b).err
    BY <1>1, <2>1, ResultFacts DEF ReadSlice1D, Results
  <2>3. PICK n, c : n = ReadInt(b).val /\ c = ReadInt(b).rest
    OBVIOUS
  <2>4. n \in Uint64 /\ c \in Bytes /\ b = WriteInt(n) \o c
    BY <2>1, <2>2, <2>3, IntExact DEF Exact, IntEnc
  <2>5. ReadSlice1D(b) = ReadBytes(c, n)
    BY <2>2, <2>3 DEF ReadSlice1D
  <2>6. ~(Len(c) < n)
    BY <1>1, <2>1, <2>5, ResultFacts DEF ReadBytes, Results
  <2>7. n \in Nat
    BY <2>4 DEF Uint64
  <2>8. n \in 0..Len(c)
    BY <2>4, <2>6, <2>7, Concats
  <2>9. PICK s, rest : s = SubSeq(c, 1, n) /\ rest = SubSeq(c, n + 1, Len(c))
    OBVIOUS
  <2>10. s \in Bytes /\ Len(s) = n /\ rest \in Bytes /\ c = s \o rest
    BY <2>4, <2>8, <2>9, Split
  <2>11. Slice1DDecode[b] = Ok(s, rest)
    BY <2>1, <2>5, <2>6, <2>9 DEF ReadBytes
  <2>12. s \in Slbyte /\ BytesEnc[s] = WriteInt(n) \o s
    BY <2>4, <2>10 DEF Slbyte, BytesEnc, WriteSlice1D
  <2>13. WriteInt(n) \in Bytes
    BY <2>7, WriteIntFacts
  <2>14. b = BytesEnc[s] \o rest
    <3>1. (WriteInt(n) \o s) \o rest = WriteInt(n) \o (s \o rest)
      BY <2>10, <2>13, Concats
    <3> QED
      BY <2>4, <2>10, <2>12, <3>1
  <2>15. Slice1DDecode[b].val = s /\ Slice1DDecode[b].rest = rest
    BY <2>11, ResultFacts DEF Results
  <2> QED
    BY <2>10, <2>11, <2>12, <2>14, <2>15
<1> QED
  BY <1>1 DEF Exact

-----------------------------------------------------------------------------
(* Parts, one after the other. *)

\* Before each part the bytes are those of the part and what is left after it.
Chain(n, encs, s) ==
    /\ encs \in [1..n -> Bytes] /\ s \in [0..n -> Bytes]
    /\ \A i \in 1..n : s[i - 1] = encs[i] \o s[i]

\* The bytes of parts, one after the other.
LEMMA FlattenFacts ==
    ASSUME NEW n \in Nat, NEW encs, NEW s, Chain(n, encs, s)
    PROVE  FlattenSeq(encs) \in Bytes /\ s[0] = FlattenSeq(encs) \o s[n]
<1>0. /\ encs \in [1..n -> Bytes] /\ s \in [0..n -> Bytes]
      /\ \A i \in 1..n : s[i - 1] = encs[i] \o s[i]
  BY DEF Chain
<1> USE <1>0
<1>1. Len(encs) = n
  OBVIOUS
<1>2. CASE n = 0
  <2>1. encs = <<>> /\ FlattenSeq(encs) = encs
    BY <1>1, <1>2 DEF FlattenSeq
  <2>2. s[0] \in Bytes
    OBVIOUS
  <2>3. s[0] = <<>> \o s[0]
    BY <2>2, Concats
  <2> QED
    BY <1>2, <2>1, <2>3, Concats
<1>3. CASE n # 0
  <2> DEFINE step == [p \in (1..n) \X Bytes |-> p[2] \o encs[p[1]]]
  <2>1. step \in [(1..n) \X Bytes -> Bytes]
    <3>1. \A p \in (1..n) \X Bytes : p[2] \o encs[p[1]] \in Bytes
      BY Concats
    <3> QED
      BY <3>1
  <2>2. \A i \in 1..n, b \in Bytes : step[<<i, b>>] = b \o encs[i]
    OBVIOUS
  <2> HIDE DEF step
  <2>3. PICK f : Iterates(f, n, Bytes, <<>>, step)
    BY <2>1, Concats, Recursion
  <2>4. /\ f \in [0..n -> Bytes] /\ f[0] = <<>>
        /\ \A i \in 1..n : f[i] = f[i - 1] \o encs[i]
    <3>1. \A i \in 1..n : f[i - 1] \in Bytes
      BY <2>3 DEF Iterates
    <3> QED
      BY <2>2, <2>3, <3>1 DEF Iterates
  <2> DEFINE flat(g) == [i \in 1..n |-> IF i = 1 THEN encs[i] ELSE g[i - 1] \o encs[i]]
             whole == [i \in 1..n |-> f[i]]
             g == CHOOSE x : x = flat(x)
  <2>5. f[1] = encs[1]
    <3>1. 1 \in 1..n /\ 1 - 1 = 0
      BY <1>3
    <3>2. f[1] = <<>> \o encs[1] /\ encs[1] \in Bytes
      BY <2>4, <3>1
    <3> QED
      BY <3>2, Concats
  <2>6. whole = flat(whole)
    <3>1. ASSUME NEW i \in 1..n
          PROVE  whole[i] = IF i = 1 THEN encs[i] ELSE whole[i - 1] \o encs[i]
      <4>1. CASE i = 1
        BY <2>5, <4>1
      <4>2. CASE i # 1
        <5>1. i - 1 \in 1..n
          BY <4>2
        <5>2. whole[i] = f[i] /\ whole[i - 1] = f[i - 1]
          BY <5>1
        <5>3. f[i] = f[i - 1] \o encs[i]
          BY <2>4
        <5> QED
          BY <4>2, <5>2, <5>3
      <4> QED
        BY <4>1, <4>2
    <3>2. whole = [i \in 1..n |-> whole[i]]
      OBVIOUS
    <3> HIDE DEF whole
    <3> QED
      BY <3>1, <3>2
  <2>7. FlattenSeq(encs) = g[n]
    BY <1>1, <1>3 DEF FlattenSeq
  <2>8. g = flat(g)
    <3> HIDE DEF flat, whole
    <3>1. \E x : x = flat(x)
      BY <2>6, Zenon
    <3> QED
      BY <3>1, Zenon DEF g
  <2> HIDE DEF g
  <2>9. \A i \in 0..n : i \in {j \in 0..n : j # 0 => g[j] = f[j]}
    <3> DEFINE S == {j \in 0..n : j # 0 => g[j] = f[j]}
    <3>1. 0 \in S
      OBVIOUS
    <3>2. ASSUME NEW i \in 1..n, i - 1 \in S
          PROVE  i \in S
      <4>1. g[i] = IF i = 1 THEN encs[i] ELSE g[i - 1] \o encs[i]
        BY <2>8
      <4>2. CASE i = 1
        BY <2>5, <4>1, <4>2
      <4>3. CASE i # 1
        <5>1. i - 1 \in 0..n /\ i - 1 # 0
          BY <4>3
        <5>2. g[i - 1] = f[i - 1]
          BY <3>2, <5>1
        <5>3. f[i] = f[i - 1] \o encs[i]
          BY <2>4
        <5>4. g[i] = f[i]
          BY <4>1, <4>3, <5>2, <5>3
        <5> QED
          BY <5>4
      <4> QED
        BY <4>2, <4>3
    <3> HIDE DEF S
    <3>3. \A i \in 0..n : i \in S
      BY <3>1, <3>2, Induction
    <3> QED
      BY <3>3 DEF S
  <2>10. FlattenSeq(encs) = f[n]
    BY <1>3, <2>7, <2>9
  <2>11. \A i \in 0..n : i \in {j \in 0..n : s[0] = f[j] \o s[j]}
    <3> DEFINE S == {j \in 0..n : s[0] = f[j] \o s[j]}
    <3>1. 0 \in S
      <4>1. 0 \in 0..n /\ s[0] \in Bytes /\ f[0] = <<>>
        BY <2>4
      <4>2. s[0] = f[0] \o s[0]
        BY <4>1, Concats
      <4> QED
        BY <4>1, <4>2
    <3>2. ASSUME NEW i \in 1..n, i - 1 \in S
          PROVE  i \in S
      <4>1. i - 1 \in 0..n /\ i \in 0..n
        OBVIOUS
      <4>2. PICK p, e, t : p = f[i - 1] /\ e = encs[i] /\ t = s[i]
        OBVIOUS
      <4>3. p \in Bytes /\ e \in Bytes /\ t \in Bytes
        BY <2>4, <4>1, <4>2
      <4>4. s[0] = p \o (e \o t)
        BY <3>2, <4>2
      <4>5. f[i] = p \o e
        BY <2>4, <4>2
      <4>6. (p \o e) \o t = p \o (e \o t)
        BY <4>3, Concats
      <4>7. s[0] = f[i] \o s[i]
        BY <4>2, <4>4, <4>5, <4>6
      <4> QED
        BY <4>1, <4>7
    <3> HIDE DEF S
    <3>3. \A i \in 0..n : i \in S
      BY <3>1, <3>2, Induction
    <3> QED
      BY <3>3 DEF S
  <2>12. f[n] \in Bytes
    BY <2>4
  <2>13. s[0] = f[n] \o s[n]
    BY <2>11
  <2> QED
    BY <2>10, <2>12, <2>13
<1> QED
  BY <1>2, <1>3

\* The bytes that are left after each part.
LEMMA WhatIsLeft ==
    ASSUME NEW n \in Nat, NEW encs \in [1..n -> Bytes], NEW rest \in Bytes
    PROVE  \E s : Chain(n, encs, s) /\ s[n] = rest /\ s[0] = FlattenSeq(encs) \o rest
<1> DEFINE step == [p \in (1..n) \X Bytes |-> encs[n - p[1] + 1] \o p[2]]
<1>1. step \in [(1..n) \X Bytes -> Bytes]
  <2>1. ASSUME NEW p \in (1..n) \X Bytes
        PROVE  encs[n - p[1] + 1] \o p[2] \in Bytes
    <3>1. n - p[1] + 1 \in 1..n /\ p[2] \in Bytes
      OBVIOUS
    <3>2. encs[n - p[1] + 1] \in Bytes
      BY <3>1
    <3> QED
      BY <3>1, <3>2, Concats
  <2> QED
    BY <2>1
<1>2. \A i \in 1..n, b \in Bytes : step[<<i, b>>] = encs[n - i + 1] \o b
  OBVIOUS
<1> HIDE DEF step
<1>3. PICK f : Iterates(f, n, Bytes, rest, step)
  BY <1>1, Recursion
<1> DEFINE suffix == [i \in 0..n |-> f[n - i]]
<1>4. /\ f \in [0..n -> Bytes] /\ f[0] = rest
      /\ \A i \in 1..n : f[i] = encs[n - i + 1] \o f[i - 1]
  <2>1. \A i \in 1..n : f[i - 1] \in Bytes
    BY <1>3 DEF Iterates
  <2> QED
    BY <1>2, <1>3, <2>1 DEF Iterates
<1>5. suffix \in [0..n -> Bytes] /\ suffix[n] = rest
  BY <1>4
<1>6. ASSUME NEW i \in 1..n
      PROVE  suffix[i - 1] = encs[i] \o suffix[i]
  <2>1. /\ i - 1 \in 0..n /\ i \in 0..n /\ n - (i - 1) = n - i + 1 /\ n - i + 1 \in 1..n
        /\ n - (n - i + 1) + 1 = i /\ n - i + 1 - 1 = n - i
    OBVIOUS
  <2>2. suffix[i - 1] = f[n - i + 1] /\ suffix[i] = f[n - i]
    BY <2>1
  <2> QED
    BY <1>4, <2>1, <2>2
<1> HIDE DEF suffix
<1>7. Chain(n, encs, suffix)
  BY <1>5, <1>6 DEF Chain
<1>8. suffix[0] = FlattenSeq(encs) \o rest
  BY <1>5, <1>7, FlattenFacts
<1> QED
  BY <1>5, <1>7, <1>8

-----------------------------------------------------------------------------
(* Readers, one after the other. *)

\* One reader after those before it.
Part(reader, before) ==
    IF before.err THEN Failed
    ELSE LET r == reader[before.rest]
         IN  IF r.err THEN Failed ELSE Ok(Append(before.val, r.val), r.rest)

\* What is read after each reader.
Steps(readers, n, b, read) ==
    /\ read[0] = Ok(<<>>, b)
    /\ \A i \in 1..n : read[i] = Part(readers[i], read[i - 1])

\* ReadParts reads one part after the other.
LEMMA PartsSteps ==
    ASSUME NEW n \in Nat, NEW readers, Len(readers) = n, NEW b
    PROVE  \E read : Steps(readers, n, b, read) /\ ReadParts(readers, b) = read[n]
<1> DEFINE Done(k, f) == f = [i \in 0..k |-> f[i]] /\ Steps(readers, k, b, f)
           Bad == {k \in 0..n : ~ \E f : Done(k, f)}
<1>1. Bad = {}
  <2>1. SUFFICES ASSUME Bad # {} PROVE FALSE
    OBVIOUS
  <2>2. Bad \in SUBSET Nat
    OBVIOUS
  <2>3. PICK k \in Bad : \A j \in Bad : k <= j
    BY <2>1, <2>2, LeastNumber
  <2>4. k # 0
    <3>1. Done(0, [i \in 0..0 |-> Ok(<<>>, b)])
      BY DEF Steps
    <3> QED
      BY <3>1, <2>3
  <2>5. k \in 1..n /\ k - 1 \in 0..n /\ k - 1 \notin Bad
    BY <2>3, <2>4
  <2>6. PICK f : Done(k - 1, f)
    BY <2>5
  <2> DEFINE g == [i \in 0..k |-> IF i = k THEN Part(readers[k], f[k - 1]) ELSE f[i]]
  <2>7. g[0] = Ok(<<>>, b)
    BY <2>5, <2>6 DEF Steps
  <2>8. ASSUME NEW i \in 1..k
        PROVE  g[i] = Part(readers[i], g[i - 1])
    <3>1. i - 1 \in 0..k /\ i - 1 # k /\ g[i - 1] = f[i - 1]
      BY <2>5
    <3>2. CASE i = k
      BY <2>5, <3>1, <3>2
    <3>3. CASE i # k
      <4>1. i \in 1..(k - 1)
        BY <2>5, <3>3
      <4>2. g[i] = f[i]
        BY <3>3
      <4> QED
        BY <2>6, <3>1, <4>1, <4>2 DEF Steps
    <3> QED
      BY <3>2, <3>3
  <2>9. Done(k, g)
    BY <2>7, <2>8 DEF Steps
  <2> QED
    BY <2>3, <2>9
<1>2. PICK f : Done(n, f)
  <2>1. n \in 0..n
    OBVIOUS
  <2>2. n \notin Bad
    BY <1>1
  <2>3. \E f : Done(n, f)
    BY <2>1, <2>2
  <2> QED
    BY <2>3
<1> DEFINE body(g) == [i \in 0..n |->
                IF i = 0 THEN Ok(<<>>, b)
                ELSE IF g[i - 1].err THEN Failed
                ELSE LET r == readers[i][g[i - 1].rest]
                     IN  IF r.err THEN Failed ELSE Ok(Append(g[i - 1].val, r.val), r.rest)]
           read == CHOOSE g : g = body(g)
<1>3. f = body(f)
  <2>1. ASSUME NEW i \in 0..n
        PROVE  f[i] = IF i = 0 THEN Ok(<<>>, b)
                      ELSE IF f[i - 1].err THEN Failed
                      ELSE LET r == readers[i][f[i - 1].rest]
                           IN  IF r.err THEN Failed ELSE Ok(Append(f[i - 1].val, r.val),
                             r.rest)
    BY <1>2 DEF Steps, Part
  <2>2. f = [i \in 0..n |-> f[i]]
    BY <1>2
  <2> HIDE DEF Done
  <2> QED
    BY <2>1, <2>2
<1>4. read = body(read)
  <2> HIDE DEF body
  <2>1. \E g : g = body(g)
    BY <1>3, Zenon
  <2> QED
    BY <2>1, Zenon DEF read
<1>5. ReadParts(readers, b) = read[n]
  BY DEF ReadParts
<1> HIDE DEF read
<1>6. Steps(readers, n, b, read)
  <2>1. read[0] = Ok(<<>>, b)
    BY <1>4
  <2>2. ASSUME NEW i \in 1..n
        PROVE  read[i] = Part(readers[i], read[i - 1])
    <3>1. i \in 0..n /\ i # 0
      OBVIOUS
    <3> QED
      BY <1>4, <3>1 DEF Part
  <2> QED
    BY <2>1, <2>2 DEF Steps
<1> QED
  BY <1>5, <1>6, Zenon

\* The readers read vals, one after the other, and leave the bytes s.
Runs(readers, n, vals, s) ==
    /\ s \in [0..n -> Bytes] /\ vals = [i \in 1..n |-> vals[i]]
    /\ \A i \in 1..n : readers[i][s[i - 1]] = Ok(vals[i], s[i])

\* Values are appended one by one.
LEMMA AppendNext ==
    ASSUME NEW n \in Nat, NEW vals, NEW i \in 1..n
    PROVE  Append([j \in 1..(i - 1) |-> vals[j]], vals[i]) = [j \in 1..i |-> vals[j]]
<1> DEFINE S == {vals[j] : j \in 1..n}
           s == [j \in 1..(i - 1) |-> vals[j]]
           t == [j \in 1..i |-> vals[j]]
<1>1. s \in Seq(S) /\ t \in Seq(S) /\ Len(s) = i - 1 /\ Len(t) = i /\ vals[i] \in S
  OBVIOUS
<1>2. /\ Append(s, vals[i]) \in Seq(S) /\ Len(Append(s, vals[i])) = i
      /\ \A j \in 1..i : Append(s, vals[i])[j] = t[j]
  <2>1. \A j \in 1..i : t[j] = IF j = i THEN vals[i] ELSE s[j]
    OBVIOUS
  <2> HIDE DEF s, t, S
  <2>2. /\ Append(s, vals[i]) \in Seq(S) /\ Len(Append(s, vals[i])) = Len(s) + 1
        /\ \A j \in 1..Len(s) : Append(s, vals[i])[j] = s[j]
        /\ Append(s, vals[i])[Len(s) + 1] = vals[i]
    BY <1>1, AppendProperties
  <2> QED
    BY <1>1, <2>1, <2>2
<1> HIDE DEF s, t, S
<1>3. Append(s, vals[i]) = t
  BY <1>1, <1>2, SeqEqual
<1> QED
  BY <1>3 DEF s, t

\* When each reader reads its value, all are read.
LEMMA PartsRun ==
    ASSUME NEW n \in Nat, NEW readers, Len(readers) = n, NEW vals, NEW s,
           Runs(readers, n, vals, s)
    PROVE  ReadParts(readers, s[0]) = Ok(vals, s[n])
<1>1. PICK read : Steps(readers, n, s[0], read) /\ ReadParts(readers, s[0]) = read[n]
  BY PartsSteps
<1> DEFINE S == {i \in 0..n : read[i] = Ok([j \in 1..i |-> vals[j]], s[i])}
<1>2. 0 \in S
  <2>1. [j \in 1..0 |-> vals[j]] = <<>>
    OBVIOUS
  <2> QED
    BY <1>1, <2>1 DEF Steps
<1>3. ASSUME NEW i \in 1..n, i - 1 \in S
      PROVE  i \in S
  <2>1. read[i - 1] = Ok([j \in 1..(i - 1) |-> vals[j]], s[i - 1]) /\ i \in 0..n
    BY <1>3
  <2>2. read[i] = Part(readers[i], read[i - 1])
    BY <1>1 DEF Steps
  <2>3. readers[i][s[i - 1]] = Ok(vals[i], s[i])
    BY DEF Runs
  <2>4. read[i] = Ok(Append([j \in 1..(i - 1) |-> vals[j]], vals[i]), s[i])
    <3> DEFINE before == [j \in 1..(i - 1) |-> vals[j]]
    <3> HIDE DEF before
    <3>1. read[i - 1] = Ok(before, s[i - 1])
      BY <2>1 DEF before
    <3>2. read[i] = Ok(Append(before, vals[i]), s[i])
      BY <2>2, <2>3, <3>1, ResultFacts DEF Part, Results
    <3> QED
      BY <3>2 DEF before
  <2>5. read[i] = Ok([j \in 1..i |-> vals[j]], s[i])
    BY <2>4, AppendNext
  <2> QED
    BY <2>1, <2>5
<1>4. n \in S
  <2> HIDE DEF S
  <2>1. \A i \in 0..n : i \in S
    BY <1>2, <1>3, Induction
  <2> QED
    BY <2>1
<1>5. vals = [j \in 1..n |-> vals[j]]
  BY DEF Runs
<1>6. read[n] = Ok([j \in 1..n |-> vals[j]], s[n])
  BY <1>4
<1> QED
  BY <1>1, <1>5, <1>6

\* A reader returns bytes that are left when it succeeds.
Sound(reader) ==
    \A b \in Bytes : ~reader[b].err =>
        reader[b] = Ok(reader[b].val, reader[b].rest) /\ reader[b].rest \in Bytes

\* When all are read, each reader has read its value.
LEMMA PartsSplit ==
    ASSUME NEW n \in Nat, NEW readers, Len(readers) = n, NEW b \in Bytes,
           \A i \in 1..n : Sound(readers[i]), ~ReadParts(readers, b).err
    PROVE  \E vals, s : Runs(readers, n, vals, s) /\ s[0] = b
<1>1. PICK read : Steps(readers, n, b, read) /\ ReadParts(readers, b) = read[n]
  BY PartsSteps
<1> DEFINE S == {i \in 0..n : ~read[n - i].err}
<1>2. 0 \in S
  BY <1>1
<1>3. ASSUME NEW i \in 1..n, i - 1 \in S
      PROVE  i \in S
  <2>1. n - (i - 1) \in 1..n /\ n - (i - 1) - 1 = n - i /\ i \in 0..n
    OBVIOUS
  <2>2. PICK k : k = n - (i - 1)
    OBVIOUS
  <2>3. ~read[k].err /\ read[k] = Part(readers[k], read[k - 1])
    BY <1>1, <1>3, <2>1, <2>2 DEF Steps
  <2>4. ~read[k - 1].err
    BY <2>3, ResultFacts DEF Part, Results
  <2> QED
    BY <2>1, <2>2, <2>4
<1>4. \A i \in 0..n : ~read[i].err
  <2>1. \A i \in 0..n : i \in S
    <3> HIDE DEF S
    <3> QED
      BY <1>2, <1>3, Induction
  <2>2. ASSUME NEW i \in 0..n
        PROVE  ~read[i].err
    <3>1. n - i \in 0..n /\ n - (n - i) = i
      OBVIOUS
    <3> QED
      BY <2>1, <3>1
  <2> QED
    BY <2>2
<1> DEFINE left == [i \in 0..n |-> read[i].rest]
           vals == [i \in 1..n |-> readers[i][left[i - 1]].val]
           T == {i \in 0..n : left[i] \in Bytes}
<1>5. left[0] = b
  BY <1>1, ResultFacts DEF Steps, Results
<1>6. ASSUME NEW i \in 1..n, i - 1 \in T
      PROVE  left[i] \in Bytes /\ readers[i][left[i - 1]] = Ok(vals[i], left[i])
  <2>1. i - 1 \in 0..n /\ i \in 0..n
    OBVIOUS
  <2>2. PICK c, r : c = read[i - 1].rest /\ r = readers[i][c]
    OBVIOUS
  <2>3. read[i] = Part(readers[i], read[i - 1]) /\ ~read[i].err /\ ~read[i - 1].err
    BY <1>1, <1>4, <2>1 DEF Steps
  <2>4. ~r.err /\ read[i].rest = r.rest
    BY <2>2, <2>3, ResultFacts DEF Part, Results
  <2>5. c \in Bytes /\ left[i - 1] = c
    BY <1>6, <2>1, <2>2
  <2>6. r = Ok(r.val, r.rest) /\ r.rest \in Bytes
    BY <2>2, <2>4, <2>5 DEF Sound
  <2>7. left[i] = r.rest /\ vals[i] = r.val
    BY <2>1, <2>2, <2>4, <2>5
  <2> QED
    BY <2>2, <2>5, <2>6, <2>7
<1>7. \A i \in 0..n : left[i] \in Bytes
  <2>1. 0 \in T
    BY <1>5
  <2>2. ASSUME NEW i \in 1..n, i - 1 \in T
        PROVE  i \in T
    <3>1. left[i] \in Bytes
      <4> HIDE DEF left, vals, T
      <4> QED
        BY <1>6, <2>2
    <3>2. i \in 0..n
      OBVIOUS
    <3> QED
      BY <3>1, <3>2
  <2>3. \A i \in 0..n : i \in T
    <3> HIDE DEF T
    <3> QED
      BY <2>1, <2>2, Induction
  <2> QED
    BY <2>3
<1>8. Runs(readers, n, vals, left)
  <2>1. left \in [0..n -> Bytes]
    BY <1>7
  <2>2. vals = [i \in 1..n |-> vals[i]]
    OBVIOUS
  <2>3. ASSUME NEW i \in 1..n
        PROVE  readers[i][left[i - 1]] = Ok(vals[i], left[i])
    <3>1. i - 1 \in T
      BY <1>7
    <3> HIDE DEF left, vals, T
    <3> QED
      BY <1>6, <3>1
  <2> HIDE DEF left, vals
  <2> QED
    BY <2>1, <2>2, <2>3 DEF Runs
<1> HIDE DEF left, vals
<1> QED
  BY <1>5, <1>8, Zenon

-----------------------------------------------------------------------------
(* Structs. *)

\* A decoder reads each value of a type from its encoding, and nothing else
\* decides what it reads.
Codec(reader, type, enc) ==
    /\ Local(reader)
    /\ \A val \in type : Reads(reader, enc[val], val)

\* The names of a struct's n fields differ.
Fields(n, fields) ==
    /\ n \in Nat /\ fields = [i \in 1..n |-> fields[i]] /\ Len(fields) = n
    /\ \A i, j \in 1..n : fields[i][1] = fields[j][1] => i = j

Names(n, fields) == {fields[i][1] : i \in 1..n}

\* What the decoder of a struct returns, from what its readers read.
Decodes(n, fields, readers, b) ==
    /\ readers = [i \in 1..n |-> fields[i][2]] /\ Len(readers) = n
    /\ ReadParts(readers, b).err => StructDecode(fields)[b] = Failed
    /\ ~ReadParts(readers, b).err =>
            \E o : /\ o = [name \in Names(n, fields) |-> o[name]]
                   /\ \A i \in 1..n : o[fields[i][1]] = ReadParts(readers, b).val[i]
                   /\ StructDecode(fields)[b] = Ok(o, ReadParts(readers, b).rest)

\* It returns that for every bytes.
LEMMA StructDecodes ==
    ASSUME NEW n, NEW fields, Fields(n, fields), NEW b \in Bytes
    PROVE  Decodes(n, fields, [i \in 1..n |-> fields[i][2]], b)
<1> DEFINE readers == [i \in 1..n |-> fields[i][2]]
<1>1. n \in Nat /\ DOMAIN fields = 1..n
  BY DEF Fields
<1>2. readers = [i \in 1..n |-> fields[i][2]] /\ Len(readers) = n
  BY <1>1
<1>3. PICK r : r = ReadParts(readers, b)
  OBVIOUS
<1> DEFINE o == [name \in Names(n, fields) |-> r.val[CHOOSE i \in 1..n : fields[i][1]
             = name]]
<1>4. StructDecode(fields)[b] = IF r.err THEN Failed ELSE Ok(o, r.rest)
  BY <1>1, <1>3 DEF StructDecode, Names
<1>5. ASSUME NEW i \in 1..n
      PROVE  o[fields[i][1]] = r.val[i]
  <2>1. fields[i][1] \in Names(n, fields)
    BY DEF Names
  <2>2. PICK j : j = CHOOSE k \in 1..n : fields[k][1] = fields[i][1]
    OBVIOUS
  <2>3. j \in 1..n /\ fields[j][1] = fields[i][1]
    BY <2>2
  <2>4. j = i
    BY <2>3 DEF Fields
  <2> QED
    BY <2>1, <2>2, <2>4
<1>6. o = [name \in Names(n, fields) |-> o[name]]
  OBVIOUS
<1> HIDE DEF o, readers
<1>7. Decodes(n, fields, readers, b)
  BY <1>2, <1>3, <1>4, <1>5, <1>6 DEF Decodes
<1> QED
  BY <1>7 DEF readers

\* The decoders of its fields read a struct, and leave the bytes s.
FieldsRead(n, fields, o, s) ==
    /\ o = [name \in Names(n, fields) |-> o[name]] /\ s \in [0..n -> Bytes]
    /\ \A i \in 1..n : fields[i][2][s[i - 1]] = Ok(o[fields[i][1]], s[i])

\* When each field is read, the struct is,
LEMMA StructRun ==
    ASSUME NEW n, NEW fields, Fields(n, fields), NEW o, NEW s, FieldsRead(n, fields, o, s)
    PROVE  StructDecode(fields)[s[0]] = Ok(o, s[n])
<1>0. /\ o = [name \in Names(n, fields) |-> o[name]] /\ s \in [0..n -> Bytes]
      /\ \A i \in 1..n : fields[i][2][s[i - 1]] = Ok(o[fields[i][1]], s[i])
  BY DEF FieldsRead
<1> USE <1>0
<1>1. n \in Nat /\ s[0] \in Bytes
  BY DEF Fields
<1>2. PICK readers : Decodes(n, fields, readers, s[0])
  BY <1>1, StructDecodes
<1> DEFINE vals == [i \in 1..n |-> o[fields[i][1]]]
<1>3. Runs(readers, n, vals, s)
  BY <1>2 DEF Runs, Decodes
<1>4. ReadParts(readers, s[0]) = Ok(vals, s[n])
  BY <1>1, <1>2, <1>3, PartsRun DEF Decodes
<1>5. PICK x : /\ x = [name \in Names(n, fields) |-> x[name]]
               /\ \A i \in 1..n : x[fields[i][1]] = vals[i]
               /\ StructDecode(fields)[s[0]] = Ok(x, s[n])
  <2> HIDE DEF vals
  <2> QED
    BY <1>2, <1>4, ResultFacts DEF Results, Decodes
<1>6. \A name \in Names(n, fields) : x[name] = o[name]
  BY <1>5 DEF Names
<1>7. x = o
  BY <1>5, <1>6
<1> QED
  BY <1>5, <1>7

\* The fields of o are read from b.
Taken(n, fields, b, o, s) ==
    /\ FieldsRead(n, fields, o, s)
    /\ StructDecode(fields)[b] = Ok(o, s[n]) /\ s[0] = b

\* and when the struct is read, each field is.
LEMMA StructSplit ==
    ASSUME NEW n, NEW fields, Fields(n, fields), NEW b \in Bytes,
           \A i \in 1..n : Sound(fields[i][2]), ~StructDecode(fields)[b].err
    PROVE  \E o, s : Taken(n, fields, b, o, s)
<1>1. n \in Nat
  BY DEF Fields
<1>2. PICK readers : Decodes(n, fields, readers, b)
  BY StructDecodes
<1>3. ~ReadParts(readers, b).err
  BY <1>2, ResultFacts DEF Results, Decodes
<1>4. \A i \in 1..n : Sound(readers[i])
  BY <1>2 DEF Decodes
<1>5. PICK vals, s : Runs(readers, n, vals, s) /\ s[0] = b
  <2>1. Len(readers) = n
    BY <1>2 DEF Decodes
  <2>2. \E vals, s : Runs(readers, n, vals, s) /\ s[0] = b
    BY <1>1, <1>3, <1>4, <2>1, PartsSplit
  <2> QED
    BY <2>2
<1>6. ReadParts(readers, b) = Ok(vals, s[n])
  BY <1>1, <1>2, <1>5, PartsRun DEF Decodes
<1>7. PICK o : /\ o = [name \in Names(n, fields) |-> o[name]]
               /\ \A i \in 1..n : o[fields[i][1]] = vals[i]
               /\ StructDecode(fields)[b] = Ok(o, s[n])
  BY <1>2, <1>3, <1>6, ResultFacts DEF Results, Decodes
<1>8. ASSUME NEW i \in 1..n
      PROVE  fields[i][2][s[i - 1]] = Ok(o[fields[i][1]], s[i])
  <2>1. readers[i][s[i - 1]] = Ok(vals[i], s[i])
    BY <1>5 DEF Runs
  <2> QED
    BY <1>2, <1>7, <2>1 DEF Decodes
<1>9. s \in [0..n -> Bytes]
  BY <1>5 DEF Runs
<1>10. Taken(n, fields, b, o, s)
  BY <1>5, <1>7, <1>8, <1>9 DEF Taken, FieldsRead
<1> QED
  BY <1>10

\* The fields of a struct are written as encs.
Written(n, fields, encs, o) ==
    /\ encs \in [1..n -> Bytes] /\ o = [name \in Names(n, fields) |-> o[name]]
    /\ \A i \in 1..n : Reads(fields[i][2], encs[i], o[fields[i][1]])

\* A struct is read from the encodings of its fields.
LEMMA StructReads ==
    ASSUME NEW n, NEW fields, Fields(n, fields), NEW o, NEW encs,
           Written(n, fields, encs, o)
    PROVE  Reads(StructDecode(fields), FlattenSeq(encs), o)
<1>0. /\ encs \in [1..n -> Bytes] /\ o = [name \in Names(n, fields) |-> o[name]]
      /\ \A i \in 1..n : Reads(fields[i][2], encs[i], o[fields[i][1]])
  BY DEF Written
<1> USE <1>0
<1>1. n \in Nat
  BY DEF Fields
<1>2. FlattenSeq(encs) \in Bytes
  <2>1. PICK s : Chain(n, encs, s)
    BY <1>1, Concats, WhatIsLeft
  <2> QED
    BY <1>1, <2>1, FlattenFacts
<1>3. ASSUME NEW rest \in Bytes
      PROVE  StructDecode(fields)[FlattenSeq(encs) \o rest] = Ok(o, rest)
  <2>1. PICK s : Chain(n, encs, s) /\ s[n] = rest /\ s[0] = FlattenSeq(encs) \o rest
    BY <1>1, WhatIsLeft
  <2>2. ASSUME NEW i \in 1..n
        PROVE  fields[i][2][s[i - 1]] = Ok(o[fields[i][1]], s[i])
    <3>1. s[i] \in Bytes /\ s[i - 1] = encs[i] \o s[i]
      BY <2>1 DEF Chain
    <3>2. Reads(fields[i][2], encs[i], o[fields[i][1]])
      OBVIOUS
    <3> QED
      BY <3>1, <3>2 DEF Reads
  <2>3. FieldsRead(n, fields, o, s)
    BY <2>1, <2>2 DEF Chain, FieldsRead
  <2>4. StructDecode(fields)[s[0]] = Ok(o, s[n])
    BY <2>3, StructRun
  <2> QED
    BY <2>1, <2>4
<1> QED
  BY <1>2, <1>3 DEF Reads

\* What Local says of success,
LEMMA LocalIsSound ==
    ASSUME NEW reader, Local(reader)
    PROVE  Sound(reader)
  BY DEF Local, Sound

\* of a result,
LEMMA LocalFacts ==
    ASSUME NEW reader, NEW b \in Bytes, NEW val, NEW rest, Local(reader),
           reader[b] = Ok(val, rest)
    PROVE  rest \in Bytes /\ \E enc \in Bytes : b = enc \o rest /\ Reads(reader, enc, val)
<1>1. ~reader[b].err /\ reader[b].val = val /\ reader[b].rest = rest
  BY ResultFacts DEF Results
<1> QED
  BY <1>1 DEF Local

\* and Exact of a result.
LEMMA ExactFacts ==
    ASSUME NEW reader, NEW type, NEW enc, NEW b \in Bytes, NEW val, NEW rest,
           Exact(reader, type, enc), reader[b] = Ok(val, rest)
    PROVE  rest \in Bytes /\ val \in type /\ b = enc[val] \o rest
<1>1. ~reader[b].err /\ reader[b].val = val /\ reader[b].rest = rest
  BY ResultFacts DEF Results
<1> QED
  BY <1>1 DEF Exact

\* What a struct's decoder reads is decided by the bytes that it reads.
LEMMA StructLocal ==
    ASSUME NEW n, NEW fields, Fields(n, fields), \A i \in 1..n : Local(fields[i][2])
    PROVE  Local(StructDecode(fields))
<1> DEFINE D == StructDecode(fields)
<1>1. ASSUME NEW b \in Bytes, ~D[b].err
      PROVE  /\ D[b] = Ok(D[b].val, D[b].rest) /\ D[b].rest \in Bytes
             /\ \E enc \in Bytes : b = enc \o D[b].rest /\ Reads(D, enc, D[b].val)
  <2>1. PICK o, s : Taken(n, fields, b, o, s)
    BY <1>1, LocalIsSound, StructSplit
  <2>2. n \in Nat
    BY DEF Fields
  <2> HIDE DEF D
  <2>3. ASSUME NEW i \in 1..n
        PROVE  \E enc \in Bytes : /\ s[i - 1] = enc \o s[i]
                                  /\ Reads(fields[i][2], enc, o[fields[i][1]])
    <3>1. Local(fields[i][2]) /\ s[i - 1] \in Bytes
      BY <2>1, <2>2 DEF Taken, FieldsRead
    <3>2. fields[i][2][s[i - 1]] = Ok(o[fields[i][1]], s[i])
      BY <2>1 DEF Taken, FieldsRead
    <3> QED
      BY <3>1, <3>2, LocalFacts
  <2> DEFINE part(i) == CHOOSE enc \in Bytes :
                            /\ s[i - 1] = enc \o s[i]
                            /\ Reads(fields[i][2], enc, o[fields[i][1]])
             encs == [i \in 1..n |-> part(i)]
  <2>4. \A i \in 1..n : /\ part(i) \in Bytes /\ s[i - 1] = part(i) \o s[i]
                        /\ Reads(fields[i][2], part(i), o[fields[i][1]])
    BY <2>3
  <2> HIDE DEF part
  <2>5. /\ encs \in [1..n -> Bytes]
        /\ \A i \in 1..n : /\ s[i - 1] = encs[i] \o s[i]
                           /\ Reads(fields[i][2], encs[i], o[fields[i][1]])
    BY <2>4
  <2> HIDE DEF encs
  <2>6. FlattenSeq(encs) \in Bytes /\ b = FlattenSeq(encs) \o s[n]
    <3>1. s \in [0..n -> Bytes] /\ s[0] = b
      BY <2>1 DEF Taken, FieldsRead
    <3>2. Chain(n, encs, s)
      BY <2>5, <3>1 DEF Chain
    <3> QED
      BY <2>2, <3>1, <3>2, FlattenFacts
  <2>7. Reads(D, FlattenSeq(encs), o)
    <3>1. Written(n, fields, encs, o)
      BY <2>1, <2>5 DEF Taken, FieldsRead, Written
    <3> QED
      BY <3>1, StructReads DEF D
  <2>8. s[n] \in Bytes /\ D[b].val = o /\ D[b].rest = s[n]
    BY <2>1, <2>2, ResultFacts DEF Results, Taken, FieldsRead, D
  <2> HIDE DEF D
  <2> QED
    BY <2>1, <2>6, <2>7, <2>8 DEF Taken, FieldsRead, D
<1> QED
  BY <1>1 DEF Local

\* Codecs of the fields make a codec of the struct, exact if they are.
LEMMA StructCodec ==
    ASSUME NEW n, NEW fields, NEW types, NEW encs, NEW type, NEW enc, Fields(n, fields),
           \A i \in 1..n : Codec(fields[i][2], types[i], encs[i]),
           \A o : o \in type <=>
                /\ o = [name \in Names(n, fields) |-> o[name]]
                /\ \A i \in 1..n : o[fields[i][1]] \in types[i],
           \A o \in type : enc[o] = FlattenSeq([i \in 1..n |-> encs[i][o[fields[i][1]]]])
    PROVE  /\ Codec(StructDecode(fields), type, enc)
           /\ (\A i \in 1..n : Exact(fields[i][2], types[i], encs[i]))
                    => Exact(StructDecode(fields), type, enc)
<1> DEFINE D == StructDecode(fields)
<1>1. Local(D)
  BY StructLocal DEF Codec
<1>2. ASSUME NEW o \in type
      PROVE  Reads(D, enc[o], o)
  <2> DEFINE part(i) == encs[i][o[fields[i][1]]]
             parts == [i \in 1..n |-> part(i)]
  <2>1. \A i \in 1..n : Reads(fields[i][2], parts[i], o[fields[i][1]])
    BY DEF Codec
  <2>2. parts \in [1..n -> Bytes]
    <3>1. \A i \in 1..n : part(i) \in Bytes
      BY <2>1 DEF Reads
    <3> HIDE DEF part
    <3> QED
      BY <3>1
  <2>3. enc[o] = FlattenSeq(parts) /\ o = [name \in Names(n, fields) |-> o[name]]
    OBVIOUS
  <2> HIDE DEF parts
  <2>4. Written(n, fields, parts, o)
    BY <2>1, <2>2, <2>3 DEF Written
  <2>5. Reads(D, FlattenSeq(parts), o)
    BY <2>4, StructReads, Zenon
  <2> QED
    BY <2>3, <2>5
<1>3. ASSUME \A i \in 1..n : Exact(fields[i][2], types[i], encs[i]), NEW b \in Bytes,
               ~D[b].err
      PROVE  /\ D[b] = Ok(D[b].val, D[b].rest) /\ D[b].rest \in Bytes
             /\ D[b].val \in type /\ b = enc[D[b].val] \o D[b].rest
  <2>1. \A i \in 1..n : Sound(fields[i][2])
    BY LocalIsSound DEF Codec
  <2>2. PICK o, s : Taken(n, fields, b, o, s)
    BY <1>3, <2>1, StructSplit
  <2>3. n \in Nat
    BY DEF Fields
  <2> DEFINE part(i) == encs[i][o[fields[i][1]]]
             parts == [i \in 1..n |-> part(i)]
  <2>4. ASSUME NEW i \in 1..n
        PROVE  /\ o[fields[i][1]] \in types[i] /\ parts[i] \in Bytes
               /\ s[i - 1] = parts[i] \o s[i]
    <3>1. Exact(fields[i][2], types[i], encs[i]) /\ s[i - 1] \in Bytes
      BY <1>3, <2>2, <2>3 DEF Taken, FieldsRead
    <3>2. fields[i][2][s[i - 1]] = Ok(o[fields[i][1]], s[i])
      BY <2>2 DEF Taken, FieldsRead
    <3>3. o[fields[i][1]] \in types[i] /\ s[i - 1] = encs[i][o[fields[i][1]]] \o s[i]
      <4>1. PICK r, t, e, c, v, d : /\ r = fields[i][2] /\ t = types[i] /\ e = encs[i]
                                    /\ c = s[i - 1] /\ v = o[fields[i][1]] /\ d = s[i]
        OBVIOUS
      <4>2. Exact(r, t, e) /\ c \in Bytes /\ r[c] = Ok(v, d)
        BY <3>1, <3>2, <4>1
      <4>3. v \in t /\ c = e[v] \o d
        <5>1. ~r[c].err /\ r[c].val = v /\ r[c].rest = d
          BY <4>2, ResultFacts DEF Results
        <5> QED
          BY <4>2, <5>1 DEF Exact
      <4> QED
        BY <4>1, <4>3
    <3>4. Reads(fields[i][2], encs[i][o[fields[i][1]]], o[fields[i][1]])
      BY <3>3 DEF Codec
    <3> QED
      BY <3>3, <3>4 DEF Reads
  <2>5. parts \in [1..n -> Bytes]
    <3>1. \A i \in 1..n : part(i) \in Bytes
      BY <2>4
    <3> HIDE DEF part
    <3> QED
      BY <3>1
  <2>6. o \in type
    BY <2>2, <2>4 DEF Taken, FieldsRead
  <2>7. enc[o] = FlattenSeq(parts)
    BY <2>6
  <2> HIDE DEF parts
  <2>8. b = FlattenSeq(parts) \o s[n]
    BY <2>2, <2>3, <2>4, <2>5, FlattenFacts DEF Chain, Taken, FieldsRead
  <2>9. s[n] \in Bytes /\ D[b].val = o /\ D[b].rest = s[n]
    BY <2>2, <2>3, ResultFacts DEF Results, Taken, FieldsRead
  <2> HIDE DEF D
  <2> QED
    BY <2>2, <2>6, <2>7, <2>8, <2>9 DEF Taken, FieldsRead, D
<1> HIDE DEF D
<1>4. Codec(D, type, enc)
  BY <1>1, <1>2 DEF Codec
<1>5. ASSUME \A i \in 1..n : Exact(fields[i][2], types[i], encs[i])
      PROVE  Exact(D, type, enc)
  BY <1>3, <1>5 DEF Exact
<1> QED
  BY <1>4, <1>5 DEF D

-----------------------------------------------------------------------------
(* Slices. *)

\* Slices of what a reader reads.
SlicesDecode(reader) == [b \in Bytes |-> ReadSlices(reader, b)]
SlicesEnc(type, enc) ==
    [o \in SliceOf(type) |-> WriteSlices([i \in DOMAIN o |-> enc[o[i]]])]

\* The elements of a slice are written as encs.
Listed(n, reader, encs, vals) ==
    /\ n \in Uint64 /\ encs \in [1..n -> Bytes] /\ vals = [i \in 1..n |-> vals[i]]
    /\ \A i \in 1..n : Reads(reader, encs[i], vals[i])

\* What ReadSlices makes of an integer and what follows it.
LEMMA SlicesStart ==
    ASSUME NEW reader, NEW b \in Bytes, NEW n, NEW c, ReadInt(b) = Ok(n, c), n \in Nat
    PROVE  \E readers : /\ readers = [i \in 1..n |-> reader] /\ Len(readers) = n
                        /\ SlicesDecode(reader)[b] = ReadParts(readers, c)
<1>1. SlicesDecode(reader)[b] = ReadParts([i \in 1..n |-> reader], c)
  <2>1. SlicesDecode(reader)[b] = ReadSlices(reader, b)
    BY DEF SlicesDecode
  <2> QED
    BY <2>1, ResultFacts DEF ReadSlices, Results
<1>2. Len([i \in 1..n |-> reader]) = n
  OBVIOUS
<1> QED
  BY <1>1, <1>2

\* A slice is read from its length and the encodings of its elements.
LEMMA SlicesReads ==
    ASSUME NEW n, NEW reader, NEW encs, NEW vals, Listed(n, reader, encs, vals)
    PROVE  Reads(SlicesDecode(reader), WriteInt(n) \o FlattenSeq(encs), vals)
<1>1. n \in Uint64 /\ n \in Nat /\ encs \in [1..n -> Bytes] /\ WriteInt(n) \in Bytes
  BY WriteIntFacts DEF Listed, Uint64
<1>2. FlattenSeq(encs) \in Bytes
  <2>1. PICK s : Chain(n, encs, s)
    BY <1>1, Concats, WhatIsLeft
  <2> QED
    BY <1>1, <2>1, FlattenFacts
<1>3. WriteInt(n) \o FlattenSeq(encs) \in Bytes
  BY <1>1, <1>2, Concats
<1>4. ASSUME NEW rest \in Bytes
      PROVE  SlicesDecode(reader)[(WriteInt(n) \o FlattenSeq(encs)) \o rest]
               = Ok(vals, rest)
  <2>1. PICK b, c : /\ b = (WriteInt(n) \o FlattenSeq(encs)) \o rest
                    /\ c = FlattenSeq(encs) \o rest
    OBVIOUS
  <2>2. b \in Bytes /\ c \in Bytes /\ b = WriteInt(n) \o c
    BY <1>1, <1>2, <1>3, <2>1, Concats
  <2>3. IntDecode[b] = Ok(n, c)
    BY <1>1, <2>2, IntReads DEF Reads
  <2>4. ReadInt(b) = Ok(n, c)
    BY <2>2, <2>3 DEF IntDecode
  <2>5. PICK readers : /\ readers = [i \in 1..n |-> reader] /\ Len(readers) = n
                       /\ SlicesDecode(reader)[b] = ReadParts(readers, c)
    BY <1>1, <2>2, <2>4, SlicesStart
  <2>6. PICK s : Chain(n, encs, s) /\ s[n] = rest /\ s[0] = c
    <3>1. PICK s : Chain(n, encs, s) /\ s[n] = rest /\ s[0] = FlattenSeq(encs) \o rest
      BY <1>1, WhatIsLeft
    <3> QED
      BY <2>1, <3>1
  <2>7. ASSUME NEW i \in 1..n
        PROVE  readers[i][s[i - 1]] = Ok(vals[i], s[i])
    <3>1. s[i] \in Bytes /\ s[i - 1] = encs[i] \o s[i]
      BY <1>1, <2>6 DEF Chain
    <3>2. Reads(reader, encs[i], vals[i]) /\ readers[i] = reader
      BY <2>5 DEF Listed
    <3> QED
      BY <3>1, <3>2 DEF Reads
  <2>8. Runs(readers, n, vals, s)
    <3>1. s \in [0..n -> Bytes] /\ vals = [i \in 1..n |-> vals[i]]
      BY <2>6 DEF Chain, Listed
    <3> QED
      BY <2>7, <3>1 DEF Runs
  <2>9. ReadParts(readers, s[0]) = Ok(vals, s[n])
    BY <1>1, <2>5, <2>8, PartsRun
  <2> QED
    BY <2>1, <2>5, <2>6, <2>9
<1> QED
  BY <1>3, <1>4 DEF Reads

\* A slice is read from b: n, and then vals, which leave the bytes s.
Counted(n, reader, b, vals, s) ==
    /\ n \in Uint64 /\ s \in [0..n -> Bytes] /\ vals = [i \in 1..n |-> vals[i]]
    /\ SlicesDecode(reader)[b] = Ok(vals, s[n]) /\ b = WriteInt(n) \o s[0]
    /\ \A i \in 1..n : reader[s[i - 1]] = Ok(vals[i], s[i])

\* When a slice is read, its length is, and each element.
LEMMA SlicesSplit ==
    ASSUME NEW reader, NEW b \in Bytes, Sound(reader), ~SlicesDecode(reader)[b].err
    PROVE  \E n, vals, s : Counted(n, reader, b, vals, s)
<1>1. SlicesDecode(reader)[b] = ReadSlices(reader, b) /\ IntDecode[b] = ReadInt(b)
  BY DEF SlicesDecode, IntDecode
<1>2. ~IntDecode[b].err
  BY <1>1, ResultFacts DEF ReadSlices, Results
<1>3. PICK n, c : n = IntDecode[b].val /\ c = IntDecode[b].rest
  OBVIOUS
<1>4. n \in Uint64 /\ n \in Nat /\ c \in Bytes /\ b = WriteInt(n) \o c
        /\ ReadInt(b) = Ok(n, c)
  BY <1>1, <1>2, <1>3, IntExact DEF Exact, IntEnc, Uint64
<1>5. PICK readers : /\ readers = [i \in 1..n |-> reader] /\ Len(readers) = n
                     /\ SlicesDecode(reader)[b] = ReadParts(readers, c)
  BY <1>4, SlicesStart
<1>6. \A i \in 1..n : Sound(readers[i])
  BY <1>5
<1>7. \E vals, s : Runs(readers, n, vals, s) /\ s[0] = c
  <2>1. ~ReadParts(readers, c).err
    BY <1>5
  <2> QED
    BY <1>4, <1>5, <1>6, <2>1, PartsSplit
<1>8. PICK vals, s : Runs(readers, n, vals, s) /\ s[0] = c
  BY <1>7
<1>9. ReadParts(readers, c) = Ok(vals, s[n])
  BY <1>4, <1>5, <1>8, PartsRun
<1>10. ASSUME NEW i \in 1..n
       PROVE  reader[s[i - 1]] = Ok(vals[i], s[i])
  <2>1. readers[i] = reader
    BY <1>5
  <2>2. readers[i][s[i - 1]] = Ok(vals[i], s[i])
    BY <1>8 DEF Runs
  <2> QED
    BY <2>1, <2>2
<1>11. Counted(n, reader, b, vals, s)
  <2>1. s \in [0..n -> Bytes] /\ vals = [i \in 1..n |-> vals[i]]
    BY <1>8 DEF Runs
  <2> QED
    BY <1>4, <1>5, <1>8, <1>9, <1>10, <2>1 DEF Counted
<1> QED
  BY <1>11

\* What is read as a slice is decided by the bytes that are read.
LEMMA SlicesLocal ==
    ASSUME NEW reader, Local(reader)
    PROVE  Local(SlicesDecode(reader))
<1> DEFINE D == SlicesDecode(reader)
<1>1. ASSUME NEW b \in Bytes, ~D[b].err
      PROVE  /\ D[b] = Ok(D[b].val, D[b].rest) /\ D[b].rest \in Bytes
             /\ \E enc \in Bytes : b = enc \o D[b].rest /\ Reads(D, enc, D[b].val)
  <2>1. PICK n, vals, s : Counted(n, reader, b, vals, s)
    BY <1>1, LocalIsSound, SlicesSplit
  <2>2. /\ n \in Uint64 /\ n \in Nat /\ s \in [0..n -> Bytes]
             /\ vals = [i \in 1..n |-> vals[i]]
        /\ D[b] = Ok(vals, s[n]) /\ b = WriteInt(n) \o s[0]
    BY <2>1 DEF Counted, Uint64
  <2>3. ASSUME NEW i \in 1..n
        PROVE  \E enc \in Bytes : s[i - 1] = enc \o s[i] /\ Reads(reader, enc, vals[i])
    <3>1. s[i - 1] \in Bytes
      BY <2>2
    <3>2. PICK c, v, d : c = s[i - 1] /\ v = vals[i] /\ d = s[i]
      OBVIOUS
    <3>3. reader[c] = Ok(v, d)
      BY <2>1, <3>2 DEF Counted
    <3>4. c \in Bytes
      BY <3>1, <3>2
    <3>5. \E enc \in Bytes : c = enc \o d /\ Reads(reader, enc, v)
      BY <3>3, <3>4, LocalFacts
    <3> QED
      BY <3>2, <3>5
  <2> DEFINE part(i) == CHOOSE enc \in Bytes : s[i - 1] = enc \o s[i]
               /\ Reads(reader, enc, vals[i])
             encs == [i \in 1..n |-> part(i)]
  <2>4. \A i \in 1..n : /\ part(i) \in Bytes /\ s[i - 1] = part(i) \o s[i]
                        /\ Reads(reader, part(i), vals[i])
    BY <2>3
  <2> HIDE DEF part
  <2>5. /\ encs \in [1..n -> Bytes]
        /\ \A i \in 1..n : s[i - 1] = encs[i] \o s[i] /\ Reads(reader, encs[i], vals[i])
    BY <2>4
  <2> HIDE DEF encs
  <2>6. FlattenSeq(encs) \in Bytes /\ s[0] = FlattenSeq(encs) \o s[n]
    <3>1. Chain(n, encs, s)
      BY <2>2, <2>5 DEF Chain
    <3> QED
      BY <2>2, <3>1, FlattenFacts
  <2>7. Reads(D, WriteInt(n) \o FlattenSeq(encs), vals)
    <3>1. Listed(n, reader, encs, vals)
      BY <2>2, <2>5 DEF Listed
    <3> QED
      BY <3>1, SlicesReads
  <2>8. s[n] \in Bytes /\ D[b].val = vals /\ D[b].rest = s[n]
    BY <2>2, ResultFacts DEF Results
  <2>9. WriteInt(n) \o FlattenSeq(encs) \in Bytes /\ WriteInt(n) \in Bytes
    BY <2>7, <2>2, WriteIntFacts DEF Reads
  <2>10. b = (WriteInt(n) \o FlattenSeq(encs)) \o s[n]
    <3>1. PICK w, f, t : w = WriteInt(n) /\ f = FlattenSeq(encs) /\ t = s[n]
      OBVIOUS
    <3>2. (w \o f) \o t = w \o (f \o t)
      BY <2>6, <2>8, <2>9, <3>1, Concats
    <3> QED
      BY <2>2, <2>6, <3>1, <3>2
  <2> HIDE DEF D
  <2> QED
    BY <2>2, <2>7, <2>8, <2>9, <2>10
<1> QED
  BY <1>1 DEF Local

\* A codec of elements makes one of slices, exact if it is.
LEMMA SlicesCodec ==
    ASSUME NEW reader, NEW type, NEW enc, Codec(reader, type, enc)
    PROVE  /\ Codec(SlicesDecode(reader), SliceOf(type), SlicesEnc(type, enc))
           /\ Exact(reader, type, enc)
                => Exact(SlicesDecode(reader), SliceOf(type), SlicesEnc(type, enc))
<1> DEFINE D == SlicesDecode(reader)
           E == SlicesEnc(type, enc)
<1>1. Local(D)
  BY SlicesLocal DEF Codec
<1>2. ASSUME NEW o \in SliceOf(type)
      PROVE  E[o] = WriteInt(Len(o)) \o FlattenSeq([i \in 1..Len(o) |-> enc[o[i]]])
  <2>1. DOMAIN o = 1..Len(o) /\ Len(o) \in Nat
    BY DEF SliceOf
  <2>2. Len([i \in 1..Len(o) |-> enc[o[i]]]) = Len(o)
    BY <2>1
  <2>3. E[o] = WriteSlices([i \in DOMAIN o |-> enc[o[i]]])
    BY DEF SlicesEnc
  <2>4. E[o] = WriteSlices([i \in 1..Len(o) |-> enc[o[i]]])
    BY <2>1, <2>3
  <2> HIDE DEF E
  <2> QED
    BY <2>2, <2>4 DEF WriteSlices
<1>3. ASSUME NEW o \in SliceOf(type)
      PROVE  Reads(D, E[o], o)
  <2>1. PICK n : n = Len(o)
    OBVIOUS
  <2>2. n \in Uint64 /\ n \in Nat /\ o = [i \in 1..n |-> o[i]]
          /\ \A i \in 1..n : o[i] \in type
    BY <2>1 DEF SliceOf
  <2> DEFINE parts == [i \in 1..n |-> enc[o[i]]]
  <2>3. \A i \in 1..n : Reads(reader, enc[o[i]], o[i])
    BY <2>2 DEF Codec
  <2>4. \A i \in 1..n : enc[o[i]] \in Bytes
    BY <2>3 DEF Reads
  <2>5. parts \in [1..n -> Bytes] /\ \A i \in 1..n : Reads(reader, parts[i], o[i])
    BY <2>3, <2>4
  <2>6. E[o] = WriteInt(n) \o FlattenSeq(parts)
    BY <1>2, <2>1
  <2> HIDE DEF parts, E
  <2>7. Listed(n, reader, parts, o)
    BY <2>2, <2>5 DEF Listed
  <2> QED
    BY <2>6, <2>7, SlicesReads
<1>4. ASSUME Exact(reader, type, enc), NEW b \in Bytes, ~D[b].err
      PROVE  /\ D[b] = Ok(D[b].val, D[b].rest) /\ D[b].rest \in Bytes
             /\ D[b].val \in SliceOf(type) /\ b = E[D[b].val] \o D[b].rest
  <2>0. Sound(reader)
    BY LocalIsSound DEF Codec
  <2>1. PICK n, vals, s : Counted(n, reader, b, vals, s)
    BY <1>4, <2>0, SlicesSplit
  <2>2. /\ n \in Uint64 /\ n \in Nat /\ s \in [0..n -> Bytes]
             /\ vals = [i \in 1..n |-> vals[i]]
        /\ D[b] = Ok(vals, s[n]) /\ b = WriteInt(n) \o s[0]
    BY <2>1 DEF Counted, Uint64
  <2>3. ASSUME NEW i \in 1..n
        PROVE  /\ vals[i] \in type /\ enc[vals[i]] \in Bytes
               /\ s[i - 1] = enc[vals[i]] \o s[i]
    <3>1. s[i - 1] \in Bytes
      BY <2>2
    <3>2. reader[s[i - 1]] = Ok(vals[i], s[i])
      BY <2>1 DEF Counted
    <3>3. vals[i] \in type /\ s[i - 1] = enc[vals[i]] \o s[i]
      <4>1. PICK c, v, d : c = s[i - 1] /\ v = vals[i] /\ d = s[i]
        OBVIOUS
      <4>2. ~reader[c].err /\ reader[c].val = v /\ reader[c].rest = d
        BY <3>2, <4>1, ResultFacts DEF Results
      <4> QED
        BY <1>4, <3>1, <4>1, <4>2 DEF Exact
    <3>4. Reads(reader, enc[vals[i]], vals[i])
      BY <3>3 DEF Codec
    <3> QED
      BY <3>3, <3>4 DEF Reads
  <2> DEFINE parts == [i \in 1..n |-> enc[vals[i]]]
  <2>4. vals \in SliceOf(type) /\ Len(vals) = n
    <3>1. vals \in [1..n -> type]
      BY <2>2, <2>3
    <3>2. vals \in Seq(type) /\ Len(vals) = n
      BY <2>2, <3>1
    <3> QED
      BY <2>2, <3>2 DEF SliceOf
  <2>5. Chain(n, parts, s)
    BY <2>2, <2>3 DEF Chain
  <2>6. E[vals] = WriteInt(n) \o FlattenSeq(parts)
    BY <1>2, <2>4
  <2> HIDE DEF parts, E
  <2>7. FlattenSeq(parts) \in Bytes /\ s[0] = FlattenSeq(parts) \o s[n]
    BY <2>2, <2>5, FlattenFacts
  <2>8. s[n] \in Bytes /\ D[b].val = vals /\ D[b].rest = s[n] /\ WriteInt(n) \in Bytes
    BY <2>2, ResultFacts, WriteIntFacts DEF Results
  <2>9. b = E[vals] \o s[n]
    <3>1. PICK w, f, t : w = WriteInt(n) /\ f = FlattenSeq(parts) /\ t = s[n]
      OBVIOUS
    <3>2. (w \o f) \o t = w \o (f \o t)
      BY <2>7, <2>8, <3>1, Concats
    <3> QED
      BY <2>2, <2>6, <2>7, <3>1, <3>2
  <2> HIDE DEF D
  <2> QED
    BY <2>2, <2>4, <2>8, <2>9
<1> HIDE DEF D, E
<1>5. Codec(D, SliceOf(type), E)
  BY <1>1, <1>3 DEF Codec
<1>6. ASSUME Exact(reader, type, enc)
      PROVE  Exact(D, SliceOf(type), E)
  BY <1>4, <1>6 DEF Exact
<1> QED
  BY <1>5, <1>6 DEF D, E

-----------------------------------------------------------------------------
\* The encodings of bytes and flags.
ByteEnc == [x \in Byte |-> WriteByte(x)]
BoolEnc == [x \in BOOLEAN |-> WriteBool(x)]

\* A byte before others is the first, and the others are left.
LEMMA FirstByte ==
    ASSUME NEW x \in Byte, NEW rest \in Bytes
    PROVE  /\ <<x>> \in Bytes /\ ~(Len(<<x>> \o rest) < 1) /\ <<x>> \o rest \in Bytes
           /\ (<<x>> \o rest)[1] = x /\ Tail(<<x>> \o rest) = rest
<1>1. <<x>> \in Bytes /\ Len(<<x>>) = 1
  BY DEF Bytes
<1>2. PICK b : b = <<x>> \o rest
  OBVIOUS
<1>3. Len(b) = 1 + Len(rest) /\ Len(rest) \in Nat /\ b \in Bytes /\ Len(b) \in Nat
  BY <1>1, <1>2, Concats
<1>4. b[1] = x
  BY <1>1, <1>2, <1>3 DEF Bytes
<1>5. SubSeq(b, 2, Len(b)) = rest
  BY <1>1, <1>2, Joined
<1>6. Tail(b) = SubSeq(b, 2, Len(b))
  BY <1>3 DEF Bytes
<1> QED
  BY <1>1, <1>2, <1>3, <1>4, <1>5, <1>6

\* The first byte and the others are the whole.
LEMMA FirstLeft ==
    ASSUME NEW b \in Bytes, ~(Len(b) < 1)
    PROVE  b[1] \in Byte /\ Tail(b) \in Bytes /\ b = <<b[1]>> \o Tail(b)
<1>1. Len(b) \in Nat /\ 1 \in 0..Len(b) /\ b[1] \in Byte
  BY Concats DEF Bytes
<1>2. Tail(b) = SubSeq(b, 2, Len(b))
  BY DEF Bytes
<1>3. PICK n, s, t : n = 1 /\ s = SubSeq(b, 1, n) /\ t = SubSeq(b, n + 1, Len(b))
  OBVIOUS
<1>4. s \in Bytes /\ Len(s) = 1 /\ s[1] = b[1] /\ t \in Bytes /\ b = s \o t
  <2>1. n \in 0..Len(b)
    BY <1>1, <1>3
  <2>2. s \in Bytes /\ Len(s) = n /\ t \in Bytes /\ b = s \o t
          /\ \A i \in 1..n : s[i] = b[i]
    BY <1>3, <2>1, Split
  <2> QED
    BY <1>3, <2>2
<1>5. <<b[1]>> \in Bytes /\ Len(<<b[1]>>) = 1 /\ <<b[1]>>[1] = b[1]
  BY <1>1 DEF Bytes
<1>6. s = <<b[1]>>
  BY <1>4, <1>5, SeqEqual DEF Bytes
<1>7. Tail(b) = t
  BY <1>2, <1>3
<1> QED
  BY <1>1, <1>4, <1>6, <1>7

\* ReadByte, ReadInt and ReadSlice1D are exact; ReadBool is not.
LEMMA ByteCodec == Codec(ByteDecode, Byte, ByteEnc) /\ Exact(ByteDecode, Byte, ByteEnc)
<1>1. ASSUME NEW x \in Byte
      PROVE  Reads(ByteDecode, ByteEnc[x], x)
  <2>1. ByteEnc[x] = <<x>> /\ <<x>> \in Bytes
    BY FirstByte, Concats DEF ByteEnc, WriteByte
  <2>2. ASSUME NEW rest \in Bytes
        PROVE  ByteDecode[<<x>> \o rest] = Ok(x, rest)
    BY FirstByte DEF ByteDecode, ReadByte
  <2> QED
    BY <2>1, <2>2 DEF Reads
<1>2. ASSUME NEW b \in Bytes, ~ByteDecode[b].err
      PROVE  /\ ByteDecode[b] = Ok(ByteDecode[b].val, ByteDecode[b].rest)
             /\ ByteDecode[b].rest \in Bytes /\ ByteDecode[b].val \in Byte
             /\ b = ByteEnc[ByteDecode[b].val] \o ByteDecode[b].rest
  <2>1. ByteDecode[b] = ReadByte(b)
    BY DEF ByteDecode
  <2>2. ~(Len(b) < 1)
    BY <1>2, <2>1, ResultFacts DEF ReadByte, Results
  <2>3. ByteDecode[b] = Ok(b[1], Tail(b))
    BY <2>1, <2>2 DEF ReadByte
  <2>4. b[1] \in Byte /\ Tail(b) \in Bytes /\ b = <<b[1]>> \o Tail(b)
    BY <2>2, FirstLeft
  <2>5. ByteDecode[b].val = b[1] /\ ByteDecode[b].rest = Tail(b)
    <3>1. PICK v, t : v = b[1] /\ t = Tail(b)
      OBVIOUS
    <3>2. ByteDecode[b] = Ok(v, t)
      BY <2>3, <3>1
    <3>3. ByteDecode[b].val = v /\ ByteDecode[b].rest = t
      BY <3>2, ResultFacts DEF Results
    <3> QED
      BY <3>1, <3>3
  <2>6. ByteEnc[b[1]] = <<b[1]>>
    BY <2>4 DEF ByteEnc, WriteByte
  <2> QED
    BY <2>3, <2>4, <2>5, <2>6
<1>3. Exact(ByteDecode, Byte, ByteEnc)
  BY <1>2 DEF Exact
<1>4. \A x \in Byte : Reads(ByteDecode, ByteEnc[x], x)
  BY <1>1
<1>5. Local(ByteDecode)
  BY <1>3, <1>4, ExactIsLocal
<1> QED
  BY <1>3, <1>4, <1>5 DEF Codec

\* Any byte but 0 is TRUE.
LEMMA BoolCodec == Codec(BoolDecode, BOOLEAN, BoolEnc)
<1>1. ASSUME NEW x \in Byte
      PROVE  Reads(BoolDecode, <<x>>, x # 0)
  <2>1. <<x>> \in Bytes
    BY FirstByte, Concats
  <2>2. ASSUME NEW rest \in Bytes
        PROVE  BoolDecode[<<x>> \o rest] = Ok(x # 0, rest)
    <3>1. PICK b : b = <<x>> \o rest
      OBVIOUS
    <3>2. ~(Len(b) < 1) /\ b \in Bytes /\ b[1] = x /\ Tail(b) = rest
      BY <3>1, FirstByte
    <3>3. BoolDecode[b] = Ok(b[1] # 0, Tail(b))
      BY <3>2 DEF BoolDecode, ReadBool
    <3> QED
      BY <3>1, <3>2, <3>3
  <2> QED
    BY <2>1, <2>2 DEF Reads
<1>2. ASSUME NEW x \in BOOLEAN
      PROVE  Reads(BoolDecode, BoolEnc[x], x)
  <2>1. CASE x = TRUE
    <3>1. BoolEnc[TRUE] = <<1>> /\ 1 \in Byte /\ (1 # 0) = TRUE
      BY Widths DEF BoolEnc, WriteBool
    <3>2. Reads(BoolDecode, <<1>>, 1 # 0)
      BY <1>1, <3>1
    <3>3. Reads(BoolDecode, <<1>>, TRUE)
      BY <3>1, <3>2
    <3> QED
      BY <2>1, <3>1, <3>3
  <2>2. CASE x = FALSE
    <3>1. BoolEnc[FALSE] = <<0>> /\ 0 \in Byte /\ (0 # 0) = FALSE
      BY Widths DEF BoolEnc, WriteBool
    <3>2. Reads(BoolDecode, <<0>>, 0 # 0)
      BY <1>1, <3>1
    <3>3. Reads(BoolDecode, <<0>>, FALSE)
      BY <3>1, <3>2
    <3> QED
      BY <2>2, <3>1, <3>3
  <2> QED
    BY <2>1, <2>2
<1>3. ASSUME NEW b \in Bytes, ~BoolDecode[b].err
      PROVE  /\ BoolDecode[b] = Ok(BoolDecode[b].val, BoolDecode[b].rest)
             /\ BoolDecode[b].rest \in Bytes
             /\ \E enc \in Bytes : /\ b = enc \o BoolDecode[b].rest
                                   /\ Reads(BoolDecode, enc, BoolDecode[b].val)
  <2>1. BoolDecode[b] = ReadBool(b)
    BY DEF BoolDecode
  <2>2. ~(Len(b) < 1)
    BY <1>3, <2>1, ResultFacts DEF ReadBool, Results
  <2>3. BoolDecode[b] = Ok(b[1] # 0, Tail(b))
    BY <2>1, <2>2 DEF ReadBool
  <2>4. b[1] \in Byte /\ Tail(b) \in Bytes /\ b = <<b[1]>> \o Tail(b)
    BY <2>2, FirstLeft
  <2>5. BoolDecode[b].val = (b[1] # 0) /\ BoolDecode[b].rest = Tail(b)
    <3>1. PICK v, t : v = (b[1] # 0) /\ t = Tail(b)
      OBVIOUS
    <3>2. BoolDecode[b] = Ok(v, t)
      BY <2>3, <3>1
    <3>3. BoolDecode[b].val = v /\ BoolDecode[b].rest = t
      BY <3>2, ResultFacts DEF Results
    <3> QED
      BY <3>1, <3>3
  <2>6. Reads(BoolDecode, <<b[1]>>, b[1] # 0) /\ <<b[1]>> \in Bytes
    BY <1>1, <2>4, FirstByte
  <2> QED
    BY <2>3, <2>4, <2>5, <2>6
<1> QED
  BY <1>2, <1>3 DEF Codec, Local

\* ReadInt.
LEMMA IntCodec == Codec(IntDecode, Uint64, IntEnc) /\ Exact(IntDecode, Uint64, IntEnc)
<1>1. \A n \in Uint64 : Reads(IntDecode, IntEnc[n], n)
  BY IntReads DEF IntEnc
<1> QED
  BY <1>1, IntExact, ExactIsLocal DEF Codec

\* ReadSlice1D.
LEMMA BytesCodec ==
    Codec(Slice1DDecode, Slbyte, BytesEnc) /\ Exact(Slice1DDecode, Slbyte, BytesEnc)
<1>1. \A s \in Slbyte : Reads(Slice1DDecode, BytesEnc[s], s)
  BY Slice1DReads DEF BytesEnc
<1> QED
  BY <1>1, Slice1DExact, ExactIsLocal DEF Codec

\* Slices of slices, and slices of those.
Bytes2 == SliceOf(Slbyte)
Bytes2Enc == SlicesEnc(Slbyte, BytesEnc)
Bytes3 == SliceOf(Bytes2)
Bytes3Enc == SlicesEnc(Bytes2, Bytes2Enc)

\* ReadSlice2D.
LEMMA Slice2DCodec == Codec(Slice2DDecode, Bytes2, Bytes2Enc)
<1>1. [b1 \in Bytes |-> ReadSlice1D(b1)] = Slice1DDecode
  BY DEF Slice1DDecode
<1>2. Slice2DDecode = SlicesDecode(Slice1DDecode)
  BY <1>1 DEF Slice2DDecode, SlicesDecode, ReadSlice2D
<1>3. Codec(SlicesDecode(Slice1DDecode), SliceOf(Slbyte), SlicesEnc(Slbyte, BytesEnc))
  BY BytesCodec, SlicesCodec
<1> QED
  BY <1>2, <1>3 DEF Bytes2, Bytes2Enc

\* ReadSlice3D.
LEMMA Slice3DCodec == Codec(Slice3DDecode, Bytes3, Bytes3Enc)
<1>1. [b1 \in Bytes |-> ReadSlice2D(b1)] = Slice2DDecode
  BY DEF Slice2DDecode
<1>2. Slice3DDecode = SlicesDecode(Slice2DDecode)
  BY <1>1 DEF Slice3DDecode, SlicesDecode, ReadSlice3D
<1>3. Codec(SlicesDecode(Slice2DDecode), SliceOf(Bytes2), SlicesEnc(Bytes2, Bytes2Enc))
  BY Slice2DCodec, SlicesCodec
<1> QED
  BY <1>2, <1>3 DEF Bytes3, Bytes3Enc

-----------------------------------------------------------------------------
(* Structs by their number of fields. *)

\* One byte string is itself,
LEMMA FlattenOne ==
    ASSUME NEW a \in Bytes
    PROVE  FlattenSeq(<<a>>) = a
<1> DEFINE s == [i \in 0..1 |-> IF i = 0 THEN a ELSE <<>>]
<1>1. s \in [0..1 -> Bytes] /\ s[0] = a /\ s[1] = <<>>
  BY Concats
<1>2. <<a>> \in [1..1 -> Bytes] /\ <<a>>[1] = a /\ a = a \o <<>>
  BY Concats
<1> HIDE DEF s
<1>3. Chain(1, <<a>>, s)
  <2>1. ASSUME NEW i \in 1..1
        PROVE  s[i - 1] = <<a>>[i] \o s[i]
    <3>1. i = 1 /\ i - 1 = 0
      OBVIOUS
    <3> QED
      BY <1>1, <1>2, <3>1
  <2> QED
    BY <1>1, <1>2, <2>1 DEF Chain
<1>4. FlattenSeq(<<a>>) \in Bytes /\ s[0] = FlattenSeq(<<a>>) \o s[1]
  BY <1>3, FlattenFacts
<1> QED
  BY <1>1, <1>4, Concats

\* and more are those before the last, and the last.
LEMMA FlattenLast ==
    ASSUME NEW n \in Nat, NEW encs \in [1..(n + 1) -> Bytes], NEW before,
           before = [i \in 1..n |-> encs[i]]
    PROVE  FlattenSeq(encs) = FlattenSeq(before) \o encs[n + 1]
<1>1. PICK k : k = n + 1
  OBVIOUS
<1>2. k \in Nat /\ encs \in [1..k -> Bytes] /\ k \in 1..k /\ k - 1 = n /\ encs[k] \in Bytes
  BY <1>1
<1>3. PICK s : Chain(k, encs, s) /\ s[k] = <<>> /\ s[0] = FlattenSeq(encs) \o <<>>
  BY <1>2, Concats, WhatIsLeft
<1>4. FlattenSeq(encs) \in Bytes
  BY <1>2, <1>3, FlattenFacts
<1>5. s \in [0..k -> Bytes] /\ \A i \in 1..k : s[i - 1] = encs[i] \o s[i]
  BY <1>3 DEF Chain
<1>6. s[n] = encs[k]
  <2>1. s[n] = encs[k] \o <<>>
    BY <1>2, <1>3, <1>5
  <2> QED
    BY <1>2, <2>1, Concats
<1> DEFINE t == [i \in 0..n |-> s[i]]
<1>7. Chain(n, before, t)
  <2>1. t \in [0..n -> Bytes] /\ before \in [1..n -> Bytes]
    BY <1>1, <1>5
  <2>2. ASSUME NEW i \in 1..n
        PROVE  t[i - 1] = before[i] \o t[i]
    <3>1. i - 1 \in 0..n /\ i \in 0..n /\ i \in 1..k
      BY <1>1
    <3> QED
      BY <1>5, <3>1
  <2> HIDE DEF t
  <2> QED
    BY <2>1, <2>2 DEF Chain
<1>8. FlattenSeq(before) \in Bytes /\ t[0] = FlattenSeq(before) \o t[n]
  <2> HIDE DEF t
  <2> QED
    BY <1>7, FlattenFacts
<1>9. t[0] = s[0] /\ t[n] = s[n]
  OBVIOUS
<1> QED
  BY <1>1, <1>3, <1>4, <1>6, <1>8, <1>9, Concats

\* Byte strings, one after the other.
Cat2(a, b) == a \o b
Cat3(a, b, c) == Cat2(a, b) \o c
Cat4(a, b, c, d) == Cat3(a, b, c) \o d
Cat5(a, b, c, d, e) == Cat4(a, b, c, d) \o e
Cat6(a, b, c, d, e, f) == Cat5(a, b, c, d, e) \o f

\* FlattenSeq of two to six byte strings.
LEMMA Flatten2 ==
    \A a, b \in Bytes : FlattenSeq(<<a, b>>) = Cat2(a, b)
<1> SUFFICES ASSUME NEW a \in Bytes, NEW b \in Bytes
             PROVE  FlattenSeq(<<a, b>>) = Cat2(a, b)
  OBVIOUS
<1>1. /\ <<a, b>> \in [1..(1 + 1) -> Bytes] /\ <<a, b>>[1 + 1] = b
      /\ <<a>> = [i \in 1..1 |-> <<a, b>>[i]]
  OBVIOUS
<1>2. FlattenSeq(<<a, b>>) = FlattenSeq(<<a>>) \o <<a, b>>[1 + 1]
  BY <1>1, FlattenLast
<1>3. FlattenSeq(<<a>>) = a
  BY FlattenOne, SMT
<1>4. <<a, b>>[1 + 1] = b
  BY <1>1
<1> QED
  BY <1>2, <1>3, <1>4, Zenon DEF Cat2

\* Of three.
LEMMA Flatten3 ==
    \A a, b, c \in Bytes : FlattenSeq(<<a, b, c>>) = Cat3(a, b, c)
<1> SUFFICES ASSUME NEW a \in Bytes, NEW b \in Bytes, NEW c \in Bytes
             PROVE  FlattenSeq(<<a, b, c>>) = Cat3(a, b, c)
  OBVIOUS
<1>1. /\ <<a, b, c>> \in [1..(2 + 1) -> Bytes] /\ <<a, b, c>>[2 + 1] = c
      /\ <<a, b>> = [i \in 1..2 |-> <<a, b, c>>[i]]
  OBVIOUS
<1>2. FlattenSeq(<<a, b, c>>) = FlattenSeq(<<a, b>>) \o <<a, b, c>>[2 + 1]
  BY <1>1, FlattenLast
<1>3. FlattenSeq(<<a, b>>) = Cat2(a, b)
  BY Flatten2, SMT
<1>4. <<a, b, c>>[2 + 1] = c
  BY <1>1
<1> QED
  BY <1>2, <1>3, <1>4, Zenon DEF Cat3

\* Of four.
LEMMA Flatten4 ==
    \A a, b, c, d \in Bytes : FlattenSeq(<<a, b, c, d>>) = Cat4(a, b, c, d)
<1> SUFFICES ASSUME NEW a \in Bytes, NEW b \in Bytes, NEW c \in Bytes, NEW d \in Bytes
             PROVE  FlattenSeq(<<a, b, c, d>>) = Cat4(a, b, c, d)
  OBVIOUS
<1>1. /\ <<a, b, c, d>> \in [1..(3 + 1) -> Bytes] /\ <<a, b, c, d>>[3 + 1] = d
      /\ <<a, b, c>> = [i \in 1..3 |-> <<a, b, c, d>>[i]]
  OBVIOUS
<1>2. FlattenSeq(<<a, b, c, d>>) = FlattenSeq(<<a, b, c>>) \o <<a, b, c, d>>[3 + 1]
  BY <1>1, FlattenLast
<1>3. FlattenSeq(<<a, b, c>>) = Cat3(a, b, c)
  BY Flatten3, SMT
<1>4. <<a, b, c, d>>[3 + 1] = d
  BY <1>1
<1> QED
  BY <1>2, <1>3, <1>4, Zenon DEF Cat4

\* Of five.
LEMMA Flatten5 ==
    \A a, b, c, d, e \in Bytes : FlattenSeq(<<a, b, c, d, e>>) = Cat5(a, b, c, d, e)
<1> SUFFICES ASSUME NEW a \in Bytes, NEW b \in Bytes, NEW c \in Bytes, NEW d \in Bytes,
           NEW e \in Bytes
             PROVE  FlattenSeq(<<a, b, c, d, e>>) = Cat5(a, b, c, d, e)
  OBVIOUS
<1>1. /\ <<a, b, c, d, e>> \in [1..(4 + 1) -> Bytes] /\ <<a, b, c, d, e>>[4 + 1] = e
      /\ <<a, b, c, d>> = [i \in 1..4 |-> <<a, b, c, d, e>>[i]]
  OBVIOUS
<1>2. FlattenSeq(<<a, b, c, d, e>>) = FlattenSeq(<<a, b, c, d>>) \o <<a, b, c, d, e>>[4 + 1]
  BY <1>1, FlattenLast
<1>3. FlattenSeq(<<a, b, c, d>>) = Cat4(a, b, c, d)
  BY Flatten4, SMT
<1>4. <<a, b, c, d, e>>[4 + 1] = e
  BY <1>1
<1> QED
  BY <1>2, <1>3, <1>4, Zenon DEF Cat5

\* Of six.
LEMMA Flatten6 ==
    \A a, b, c, d, e, f \in Bytes : FlattenSeq(<<a, b, c, d, e, f>>)
      = Cat6(a, b, c, d, e, f)
<1> SUFFICES ASSUME NEW a \in Bytes, NEW b \in Bytes, NEW c \in Bytes, NEW d \in Bytes,
           NEW e \in Bytes, NEW f \in Bytes
             PROVE  FlattenSeq(<<a, b, c, d, e, f>>) = Cat6(a, b, c, d, e, f)
  OBVIOUS
<1>1. /\ <<a, b, c, d, e, f>> \in [1..(5 + 1) -> Bytes] /\ <<a, b, c, d, e, f>>[5 + 1] = f
      /\ <<a, b, c, d, e>> = [i \in 1..5 |-> <<a, b, c, d, e, f>>[i]]
  OBVIOUS
<1>2. FlattenSeq(<<a, b, c, d, e, f>>)
        = FlattenSeq(<<a, b, c, d, e>>) \o <<a, b, c, d, e, f>>[5 + 1]
  BY <1>1, FlattenLast
<1>3. FlattenSeq(<<a, b, c, d, e>>) = Cat5(a, b, c, d, e)
  BY Flatten5, SMT
<1>4. <<a, b, c, d, e, f>>[5 + 1] = f
  BY <1>1
<1> QED
  BY <1>2, <1>3, <1>4, Zenon DEF Cat6

-----------------------------------------------------------------------------
(* Structs of one field and of more: the values of the type, and how they    *)
(* are encoded.                                                              *)

\* A struct of one field.
Struct1(type, enc, n1, S1, e1) ==
    /\ \A o : o \in type <=>
            /\ o = [name \in {n1} |-> o[name]]
            /\ o[n1] \in S1
    /\ \A o \in type :
            enc[o] = e1[o[n1]]

\* Its codec, from that of its field.
LEMMA Struct1Codec ==
    ASSUME NEW type, NEW enc,
           NEW n1, NEW D1, NEW S1, NEW e1, Codec(D1, S1, e1),
           Struct1(type, enc, n1, S1, e1)
    PROVE  LET fields == << <<n1, D1>> >> IN
           /\ Codec(StructDecode(fields), type, enc)
           /\ Exact(D1, S1, e1)
                => Exact(StructDecode(fields), type, enc)
<1> DEFINE fields == << <<n1, D1>> >>
           types == <<S1>>
           encs == <<e1>>
<1>1. /\ fields[1][1] = n1 /\ fields[1][2] = D1 /\ types[1] = S1 /\ encs[1] = e1
  OBVIOUS
<1>2. 1..1 = {1} /\ 1 \in Nat
  OBVIOUS
<1>3. fields = [i \in 1..1 |-> fields[i]] /\ Len(fields) = 1
  OBVIOUS
<1> HIDE DEF fields, types, encs
<1>4. Fields(1, fields)
  BY <1>1, <1>2, <1>3 DEF Fields, Struct1
<1>5. Names(1, fields) = {n1}
  BY <1>1, <1>2 DEF Names
<1>6. \A i \in 1..1 : Codec(fields[i][2], types[i], encs[i])
  BY <1>1, <1>2
<1>7. \A o : o \in type <=>
                /\ o = [name \in Names(1, fields) |-> o[name]]
                /\ \A i \in 1..1 : o[fields[i][1]] \in types[i]
  <2>1. ASSUME NEW o
        PROVE  (\A i \in 1..1 : o[fields[i][1]] \in types[i])
                    <=> /\ o[n1] \in S1
    BY <1>1, <1>2
  <2> QED
    BY <1>5, <2>1 DEF Struct1
<1>8. ASSUME NEW o \in type
      PROVE  enc[o] = FlattenSeq([i \in 1..1 |-> encs[i][o[fields[i][1]]]])
  <2>1. [i \in 1..1 |-> encs[i][o[fields[i][1]]]]
            = <<e1[o[n1]]>>
    BY <1>1, <1>2
  <2>2. e1[o[n1]] \in Bytes
    BY DEF Struct1, Codec, Reads
  <2>3. PICK x1 : /\ x1 = e1[o[n1]]
    OBVIOUS
  <2>4. FlattenSeq(<<x1>>) = x1
    <3>1. x1 \in Bytes
      BY <2>2, <2>3
    <3> QED
      BY <3>1, FlattenOne, SMT
  <2>5. enc[o] = e1[o[n1]]
    BY DEF Struct1
  <2> QED
    BY <2>1, <2>3, <2>4, <2>5
<1>9. /\ Codec(StructDecode(fields), type, enc)
      /\ (\A i \in 1..1 : Exact(fields[i][2], types[i], encs[i]))
                    => Exact(StructDecode(fields), type, enc)
  BY <1>4, <1>6, <1>7, <1>8, StructCodec
<1>10. ASSUME Exact(D1, S1, e1)
       PROVE  \A i \in 1..1 : Exact(fields[i][2], types[i], encs[i])
  BY <1>1, <1>2, <1>10
<1> QED
  BY <1>9, <1>10 DEF fields

\* A struct of two fields.
Struct2(type, enc, n1, S1, e1, n2, S2, e2) ==
    /\ n1 # n2
    /\ \A o : o \in type <=>
            /\ o = [name \in {n1, n2} |-> o[name]]
            /\ o[n1] \in S1 /\ o[n2] \in S2
    /\ \A o \in type :
            enc[o] = Cat2(e1[o[n1]], e2[o[n2]])

\* Its codec, from those of its fields.
LEMMA Struct2Codec ==
    ASSUME NEW type, NEW enc,
           NEW n1, NEW D1, NEW S1, NEW e1, Codec(D1, S1, e1),
           NEW n2, NEW D2, NEW S2, NEW e2, Codec(D2, S2, e2),
           Struct2(type, enc, n1, S1, e1, n2, S2, e2)
    PROVE  LET fields == << <<n1, D1>>, <<n2, D2>> >> IN
           /\ Codec(StructDecode(fields), type, enc)
           /\ Exact(D1, S1, e1) /\ Exact(D2, S2, e2)
                => Exact(StructDecode(fields), type, enc)
<1> DEFINE fields == << <<n1, D1>>, <<n2, D2>> >>
           types == <<S1, S2>>
           encs == <<e1, e2>>
<1>1. /\ fields[1][1] = n1 /\ fields[1][2] = D1 /\ types[1] = S1 /\ encs[1] = e1
      /\ fields[2][1] = n2 /\ fields[2][2] = D2 /\ types[2] = S2 /\ encs[2] = e2
  OBVIOUS
<1>2. 1..2 = {1, 2} /\ 2 \in Nat
  OBVIOUS
<1>3. fields = [i \in 1..2 |-> fields[i]] /\ Len(fields) = 2
  OBVIOUS
<1> HIDE DEF fields, types, encs
<1>4. Fields(2, fields)
  BY <1>1, <1>2, <1>3 DEF Fields, Struct2
<1>5. Names(2, fields) = {n1, n2}
  BY <1>1, <1>2 DEF Names
<1>6. \A i \in 1..2 : Codec(fields[i][2], types[i], encs[i])
  BY <1>1, <1>2
<1>7. \A o : o \in type <=>
                /\ o = [name \in Names(2, fields) |-> o[name]]
                /\ \A i \in 1..2 : o[fields[i][1]] \in types[i]
  <2>1. ASSUME NEW o
        PROVE  (\A i \in 1..2 : o[fields[i][1]] \in types[i])
                    <=> /\ o[n1] \in S1
                        /\ o[n2] \in S2
    BY <1>1, <1>2
  <2> QED
    BY <1>5, <2>1 DEF Struct2
<1>8. ASSUME NEW o \in type
      PROVE  enc[o] = FlattenSeq([i \in 1..2 |-> encs[i][o[fields[i][1]]]])
  <2>1. [i \in 1..2 |-> encs[i][o[fields[i][1]]]]
            = <<e1[o[n1]], e2[o[n2]]>>
    BY <1>1, <1>2
  <2>2. /\ e1[o[n1]] \in Bytes
        /\ e2[o[n2]] \in Bytes
    BY DEF Struct2, Codec, Reads
  <2>3. PICK x1, x2 : /\ x1 = e1[o[n1]]
                /\ x2 = e2[o[n2]]
    OBVIOUS
  <2>4. FlattenSeq(<<x1, x2>>) = Cat2(x1, x2)
    <3>1. x1 \in Bytes /\ x2 \in Bytes
      BY <2>2, <2>3
    <3> QED
      BY <3>1, Flatten2, SMT
  <2>5. enc[o] = Cat2(e1[o[n1]], e2[o[n2]])
    BY DEF Struct2
  <2> QED
    BY <2>1, <2>3, <2>4, <2>5
<1>9. /\ Codec(StructDecode(fields), type, enc)
      /\ (\A i \in 1..2 : Exact(fields[i][2], types[i], encs[i]))
                    => Exact(StructDecode(fields), type, enc)
  BY <1>4, <1>6, <1>7, <1>8, StructCodec
<1>10. ASSUME Exact(D1, S1, e1), Exact(D2, S2, e2)
       PROVE  \A i \in 1..2 : Exact(fields[i][2], types[i], encs[i])
  BY <1>1, <1>2, <1>10
<1> QED
  BY <1>9, <1>10 DEF fields

\* A struct of three fields.
Struct3(type, enc, n1, S1, e1, n2, S2, e2, n3, S3, e3) ==
    /\ n1 # n2 /\ n1 # n3 /\ n2 # n3
    /\ \A o : o \in type <=>
            /\ o = [name \in {n1, n2, n3} |-> o[name]]
            /\ o[n1] \in S1 /\ o[n2] \in S2 /\ o[n3] \in S3
    /\ \A o \in type :
            enc[o] = Cat3(e1[o[n1]], e2[o[n2]], e3[o[n3]])

\* Its codec, from those of its fields.
LEMMA Struct3Codec ==
    ASSUME NEW type, NEW enc,
           NEW n1, NEW D1, NEW S1, NEW e1, Codec(D1, S1, e1),
           NEW n2, NEW D2, NEW S2, NEW e2, Codec(D2, S2, e2),
           NEW n3, NEW D3, NEW S3, NEW e3, Codec(D3, S3, e3),
           Struct3(type, enc, n1, S1, e1, n2, S2, e2, n3, S3, e3)
    PROVE  LET fields == << <<n1, D1>>, <<n2, D2>>, <<n3, D3>> >> IN
           /\ Codec(StructDecode(fields), type, enc)
           /\ Exact(D1, S1, e1) /\ Exact(D2, S2, e2) /\ Exact(D3, S3, e3)
                => Exact(StructDecode(fields), type, enc)
<1> DEFINE fields == << <<n1, D1>>, <<n2, D2>>, <<n3, D3>> >>
           types == <<S1, S2, S3>>
           encs == <<e1, e2, e3>>
<1>1. /\ fields[1][1] = n1 /\ fields[1][2] = D1 /\ types[1] = S1 /\ encs[1] = e1
      /\ fields[2][1] = n2 /\ fields[2][2] = D2 /\ types[2] = S2 /\ encs[2] = e2
      /\ fields[3][1] = n3 /\ fields[3][2] = D3 /\ types[3] = S3 /\ encs[3] = e3
  OBVIOUS
<1>2. 1..3 = {1, 2, 3} /\ 3 \in Nat
  OBVIOUS
<1>3. fields = [i \in 1..3 |-> fields[i]] /\ Len(fields) = 3
  OBVIOUS
<1> HIDE DEF fields, types, encs
<1>4. Fields(3, fields)
  BY <1>1, <1>2, <1>3 DEF Fields, Struct3
<1>5. Names(3, fields) = {n1, n2, n3}
  BY <1>1, <1>2 DEF Names
<1>6. \A i \in 1..3 : Codec(fields[i][2], types[i], encs[i])
  BY <1>1, <1>2
<1>7. \A o : o \in type <=>
                /\ o = [name \in Names(3, fields) |-> o[name]]
                /\ \A i \in 1..3 : o[fields[i][1]] \in types[i]
  <2>1. ASSUME NEW o
        PROVE  (\A i \in 1..3 : o[fields[i][1]] \in types[i])
                    <=> /\ o[n1] \in S1
                        /\ o[n2] \in S2
                        /\ o[n3] \in S3
    BY <1>1, <1>2
  <2> QED
    BY <1>5, <2>1 DEF Struct3
<1>8. ASSUME NEW o \in type
      PROVE  enc[o] = FlattenSeq([i \in 1..3 |-> encs[i][o[fields[i][1]]]])
  <2>1. [i \in 1..3 |-> encs[i][o[fields[i][1]]]]
            = <<e1[o[n1]], e2[o[n2]], e3[o[n3]]>>
    BY <1>1, <1>2
  <2>2. /\ e1[o[n1]] \in Bytes
        /\ e2[o[n2]] \in Bytes
        /\ e3[o[n3]] \in Bytes
    BY DEF Struct3, Codec, Reads
  <2>3. PICK x1, x2, x3 : /\ x1 = e1[o[n1]]
                /\ x2 = e2[o[n2]]
                /\ x3 = e3[o[n3]]
    OBVIOUS
  <2>4. FlattenSeq(<<x1, x2, x3>>) = Cat3(x1, x2, x3)
    <3>1. x1 \in Bytes /\ x2 \in Bytes /\ x3 \in Bytes
      BY <2>2, <2>3
    <3> QED
      BY <3>1, Flatten3, SMT
  <2>5. enc[o] = Cat3(e1[o[n1]], e2[o[n2]], e3[o[n3]])
    BY DEF Struct3
  <2> QED
    BY <2>1, <2>3, <2>4, <2>5
<1>9. /\ Codec(StructDecode(fields), type, enc)
      /\ (\A i \in 1..3 : Exact(fields[i][2], types[i], encs[i]))
                    => Exact(StructDecode(fields), type, enc)
  BY <1>4, <1>6, <1>7, <1>8, StructCodec
<1>10. ASSUME Exact(D1, S1, e1), Exact(D2, S2, e2), Exact(D3, S3, e3)
       PROVE  \A i \in 1..3 : Exact(fields[i][2], types[i], encs[i])
  BY <1>1, <1>2, <1>10
<1> QED
  BY <1>9, <1>10 DEF fields

Struct4(type, enc, n1, S1, e1, n2, S2, e2, n3, S3, e3,
            n4, S4, e4) ==
    /\ n1 # n2 /\ n1 # n3 /\ n1 # n4 /\ n2 # n3 /\ n2 # n4 /\ n3 # n4
    /\ \A o : o \in type <=>
            /\ o = [name \in {n1, n2, n3, n4} |-> o[name]]
            /\ o[n1] \in S1 /\ o[n2] \in S2 /\ o[n3] \in S3
            /\ o[n4] \in S4
    /\ \A o \in type :
            enc[o] = Cat4(e1[o[n1]], e2[o[n2]], e3[o[n3]], e4[o[n4]])

\* Its codec, from those of its fields.
LEMMA Struct4Codec ==
    ASSUME NEW type, NEW enc,
           NEW n1, NEW D1, NEW S1, NEW e1, Codec(D1, S1, e1),
           NEW n2, NEW D2, NEW S2, NEW e2, Codec(D2, S2, e2),
           NEW n3, NEW D3, NEW S3, NEW e3, Codec(D3, S3, e3),
           NEW n4, NEW D4, NEW S4, NEW e4, Codec(D4, S4, e4),
           Struct4(type, enc, n1, S1, e1, n2, S2, e2, n3, S3, e3,
                   n4, S4, e4)
    PROVE  LET fields == << <<n1, D1>>, <<n2, D2>>, <<n3, D3>>, <<n4, D4>> >> IN
           /\ Codec(StructDecode(fields), type, enc)
           /\ Exact(D1, S1, e1) /\ Exact(D2, S2, e2) /\ Exact(D3, S3, e3)
                /\ Exact(D4, S4, e4)
                => Exact(StructDecode(fields), type, enc)
<1> DEFINE fields == << <<n1, D1>>, <<n2, D2>>, <<n3, D3>>, <<n4, D4>> >>
           types == <<S1, S2, S3, S4>>
           encs == <<e1, e2, e3, e4>>
<1>1. /\ fields[1][1] = n1 /\ fields[1][2] = D1 /\ types[1] = S1 /\ encs[1] = e1
      /\ fields[2][1] = n2 /\ fields[2][2] = D2 /\ types[2] = S2 /\ encs[2] = e2
      /\ fields[3][1] = n3 /\ fields[3][2] = D3 /\ types[3] = S3 /\ encs[3] = e3
      /\ fields[4][1] = n4 /\ fields[4][2] = D4 /\ types[4] = S4 /\ encs[4] = e4
  OBVIOUS
<1>2. 1..4 = {1, 2, 3, 4} /\ 4 \in Nat
  OBVIOUS
<1>3. fields = [i \in 1..4 |-> fields[i]] /\ Len(fields) = 4
  OBVIOUS
<1> HIDE DEF fields, types, encs
<1>4. Fields(4, fields)
  BY <1>1, <1>2, <1>3 DEF Fields, Struct4
<1>5. Names(4, fields) = {n1, n2, n3, n4}
  BY <1>1, <1>2 DEF Names
<1>6. \A i \in 1..4 : Codec(fields[i][2], types[i], encs[i])
  BY <1>1, <1>2
<1>7. \A o : o \in type <=>
                /\ o = [name \in Names(4, fields) |-> o[name]]
                /\ \A i \in 1..4 : o[fields[i][1]] \in types[i]
  <2>1. ASSUME NEW o
        PROVE  (\A i \in 1..4 : o[fields[i][1]] \in types[i])
                    <=> /\ o[n1] \in S1
                        /\ o[n2] \in S2
                        /\ o[n3] \in S3
                        /\ o[n4] \in S4
    BY <1>1, <1>2
  <2> QED
    BY <1>5, <2>1 DEF Struct4
<1>8. ASSUME NEW o \in type
      PROVE  enc[o] = FlattenSeq([i \in 1..4 |-> encs[i][o[fields[i][1]]]])
  <2>1. [i \in 1..4 |-> encs[i][o[fields[i][1]]]]
            = <<e1[o[n1]], e2[o[n2]], e3[o[n3]], e4[o[n4]]>>
    BY <1>1, <1>2
  <2>2. /\ e1[o[n1]] \in Bytes
        /\ e2[o[n2]] \in Bytes
        /\ e3[o[n3]] \in Bytes
        /\ e4[o[n4]] \in Bytes
    BY DEF Struct4, Codec, Reads
  <2>3. PICK x1, x2, x3, x4 : /\ x1 = e1[o[n1]]
                /\ x2 = e2[o[n2]]
                /\ x3 = e3[o[n3]]
                /\ x4 = e4[o[n4]]
    OBVIOUS
  <2>4. FlattenSeq(<<x1, x2, x3, x4>>) = Cat4(x1, x2, x3, x4)
    <3>1. x1 \in Bytes /\ x2 \in Bytes /\ x3 \in Bytes /\ x4 \in Bytes
      BY <2>2, <2>3
    <3> QED
      BY <3>1, Flatten4, SMT
  <2>5. enc[o] = Cat4(e1[o[n1]], e2[o[n2]], e3[o[n3]], e4[o[n4]])
    BY DEF Struct4
  <2> QED
    BY <2>1, <2>3, <2>4, <2>5
<1>9. /\ Codec(StructDecode(fields), type, enc)
      /\ (\A i \in 1..4 : Exact(fields[i][2], types[i], encs[i]))
                    => Exact(StructDecode(fields), type, enc)
  BY <1>4, <1>6, <1>7, <1>8, StructCodec
<1>10. ASSUME Exact(D1, S1, e1), Exact(D2, S2, e2), Exact(D3, S3, e3), Exact(D4, S4, e4)
       PROVE  \A i \in 1..4 : Exact(fields[i][2], types[i], encs[i])
  BY <1>1, <1>2, <1>10
<1> QED
  BY <1>9, <1>10 DEF fields

Struct5(type, enc, n1, S1, e1, n2, S2, e2, n3, S3, e3,
            n4, S4, e4, n5, S5, e5) ==
    /\ n1 # n2 /\ n1 # n3 /\ n1 # n4 /\ n1 # n5 /\ n2 # n3 /\ n2 # n4
    /\ n2 # n5 /\ n3 # n4 /\ n3 # n5 /\ n4 # n5
    /\ \A o : o \in type <=>
            /\ o = [name \in {n1, n2, n3, n4, n5} |-> o[name]]
            /\ o[n1] \in S1 /\ o[n2] \in S2 /\ o[n3] \in S3
            /\ o[n4] \in S4 /\ o[n5] \in S5
    /\ \A o \in type :
            enc[o] = Cat5(e1[o[n1]], e2[o[n2]], e3[o[n3]], e4[o[n4]], e5[o[n5]])

\* Its codec, from those of its fields.
LEMMA Struct5Codec ==
    ASSUME NEW type, NEW enc,
           NEW n1, NEW D1, NEW S1, NEW e1, Codec(D1, S1, e1),
           NEW n2, NEW D2, NEW S2, NEW e2, Codec(D2, S2, e2),
           NEW n3, NEW D3, NEW S3, NEW e3, Codec(D3, S3, e3),
           NEW n4, NEW D4, NEW S4, NEW e4, Codec(D4, S4, e4),
           NEW n5, NEW D5, NEW S5, NEW e5, Codec(D5, S5, e5),
           Struct5(type, enc, n1, S1, e1, n2, S2, e2, n3, S3, e3,
                   n4, S4, e4, n5, S5, e5)
    PROVE  LET fields == << <<n1, D1>>, <<n2, D2>>, <<n3, D3>>, <<n4, D4>>, <<n5, D5>> >> IN
           /\ Codec(StructDecode(fields), type, enc)
           /\ Exact(D1, S1, e1) /\ Exact(D2, S2, e2) /\ Exact(D3, S3, e3)
                /\ Exact(D4, S4, e4)
                /\ Exact(D5, S5, e5)
                => Exact(StructDecode(fields), type, enc)
<1> DEFINE fields == << <<n1, D1>>, <<n2, D2>>, <<n3, D3>>, <<n4, D4>>, <<n5, D5>> >>
           types == <<S1, S2, S3, S4, S5>>
           encs == <<e1, e2, e3, e4, e5>>
<1>1. /\ fields[1][1] = n1 /\ fields[1][2] = D1 /\ types[1] = S1 /\ encs[1] = e1
      /\ fields[2][1] = n2 /\ fields[2][2] = D2 /\ types[2] = S2 /\ encs[2] = e2
      /\ fields[3][1] = n3 /\ fields[3][2] = D3 /\ types[3] = S3 /\ encs[3] = e3
      /\ fields[4][1] = n4 /\ fields[4][2] = D4 /\ types[4] = S4 /\ encs[4] = e4
      /\ fields[5][1] = n5 /\ fields[5][2] = D5 /\ types[5] = S5 /\ encs[5] = e5
  OBVIOUS
<1>2. 1..5 = {1, 2, 3, 4, 5} /\ 5 \in Nat
  OBVIOUS
<1>3. fields = [i \in 1..5 |-> fields[i]] /\ Len(fields) = 5
  OBVIOUS
<1> HIDE DEF fields, types, encs
<1>4. Fields(5, fields)
  BY <1>1, <1>2, <1>3 DEF Fields, Struct5
<1>5. Names(5, fields) = {n1, n2, n3, n4, n5}
  BY <1>1, <1>2 DEF Names
<1>6. \A i \in 1..5 : Codec(fields[i][2], types[i], encs[i])
  BY <1>1, <1>2
<1>7. \A o : o \in type <=>
                /\ o = [name \in Names(5, fields) |-> o[name]]
                /\ \A i \in 1..5 : o[fields[i][1]] \in types[i]
  <2>1. ASSUME NEW o
        PROVE  (\A i \in 1..5 : o[fields[i][1]] \in types[i])
                    <=> /\ o[n1] \in S1
                        /\ o[n2] \in S2
                        /\ o[n3] \in S3
                        /\ o[n4] \in S4
                        /\ o[n5] \in S5
    BY <1>1, <1>2
  <2> QED
    BY <1>5, <2>1 DEF Struct5
<1>8. ASSUME NEW o \in type
      PROVE  enc[o] = FlattenSeq([i \in 1..5 |-> encs[i][o[fields[i][1]]]])
  <2>1. [i \in 1..5 |-> encs[i][o[fields[i][1]]]]
            = <<e1[o[n1]], e2[o[n2]], e3[o[n3]], e4[o[n4]], e5[o[n5]]>>
    BY <1>1, <1>2
  <2>2. /\ e1[o[n1]] \in Bytes
        /\ e2[o[n2]] \in Bytes
        /\ e3[o[n3]] \in Bytes
        /\ e4[o[n4]] \in Bytes
        /\ e5[o[n5]] \in Bytes
    BY DEF Struct5, Codec, Reads
  <2>3. PICK x1, x2, x3, x4, x5 : /\ x1 = e1[o[n1]]
                /\ x2 = e2[o[n2]]
                /\ x3 = e3[o[n3]]
                /\ x4 = e4[o[n4]]
                /\ x5 = e5[o[n5]]
    OBVIOUS
  <2>4. FlattenSeq(<<x1, x2, x3, x4, x5>>) = Cat5(x1, x2, x3, x4, x5)
    <3>1. x1 \in Bytes /\ x2 \in Bytes /\ x3 \in Bytes /\ x4 \in Bytes /\ x5 \in Bytes
      BY <2>2, <2>3
    <3> QED
      BY <3>1, Flatten5, SMT
  <2>5. enc[o] = Cat5(e1[o[n1]], e2[o[n2]], e3[o[n3]], e4[o[n4]], e5[o[n5]])
    BY DEF Struct5
  <2> QED
    BY <2>1, <2>3, <2>4, <2>5
<1>9. /\ Codec(StructDecode(fields), type, enc)
      /\ (\A i \in 1..5 : Exact(fields[i][2], types[i], encs[i]))
                    => Exact(StructDecode(fields), type, enc)
  BY <1>4, <1>6, <1>7, <1>8, StructCodec
<1>10. ASSUME Exact(D1, S1, e1), Exact(D2, S2, e2), Exact(D3, S3, e3), Exact(D4, S4, e4),
              Exact(D5, S5, e5)
       PROVE  \A i \in 1..5 : Exact(fields[i][2], types[i], encs[i])
  BY <1>1, <1>2, <1>10
<1> QED
  BY <1>9, <1>10 DEF fields

Struct6(type, enc, n1, S1, e1, n2, S2, e2, n3, S3, e3,
            n4, S4, e4, n5, S5, e5, n6, S6, e6) ==
    /\ n1 # n2 /\ n1 # n3 /\ n1 # n4 /\ n1 # n5 /\ n1 # n6 /\ n2 # n3
    /\ n2 # n4 /\ n2 # n5 /\ n2 # n6 /\ n3 # n4 /\ n3 # n5 /\ n3 # n6
    /\ n4 # n5 /\ n4 # n6 /\ n5 # n6
    /\ \A o : o \in type <=>
            /\ o = [name \in {n1, n2, n3, n4, n5, n6} |-> o[name]]
            /\ o[n1] \in S1 /\ o[n2] \in S2 /\ o[n3] \in S3
            /\ o[n4] \in S4 /\ o[n5] \in S5 /\ o[n6] \in S6
    /\ \A o \in type :
            enc[o] = Cat6(e1[o[n1]], e2[o[n2]], e3[o[n3]], e4[o[n4]], e5[o[n5]], e6[o[n6]])

\* Its codec, from those of its fields.
LEMMA Struct6Codec ==
    ASSUME NEW type, NEW enc,
           NEW n1, NEW D1, NEW S1, NEW e1, Codec(D1, S1, e1),
           NEW n2, NEW D2, NEW S2, NEW e2, Codec(D2, S2, e2),
           NEW n3, NEW D3, NEW S3, NEW e3, Codec(D3, S3, e3),
           NEW n4, NEW D4, NEW S4, NEW e4, Codec(D4, S4, e4),
           NEW n5, NEW D5, NEW S5, NEW e5, Codec(D5, S5, e5),
           NEW n6, NEW D6, NEW S6, NEW e6, Codec(D6, S6, e6),
           Struct6(type, enc, n1, S1, e1, n2, S2, e2, n3, S3, e3,
                   n4, S4, e4, n5, S5, e5, n6, S6, e6)
    PROVE  LET fields == << <<n1, D1>>, <<n2, D2>>, <<n3, D3>>, <<n4, D4>>, <<n5, D5>>,
             <<n6, D6>> >> IN
           /\ Codec(StructDecode(fields), type, enc)
           /\ Exact(D1, S1, e1) /\ Exact(D2, S2, e2) /\ Exact(D3, S3, e3)
                /\ Exact(D4, S4, e4)
                /\ Exact(D5, S5, e5) /\ Exact(D6, S6, e6)
                => Exact(StructDecode(fields), type, enc)
<1> DEFINE fields == << <<n1, D1>>, <<n2, D2>>, <<n3, D3>>, <<n4, D4>>, <<n5, D5>>, <<n6,
             D6>> >>
           types == <<S1, S2, S3, S4, S5, S6>>
           encs == <<e1, e2, e3, e4, e5, e6>>
<1>1. /\ fields[1][1] = n1 /\ fields[1][2] = D1 /\ types[1] = S1 /\ encs[1] = e1
      /\ fields[2][1] = n2 /\ fields[2][2] = D2 /\ types[2] = S2 /\ encs[2] = e2
      /\ fields[3][1] = n3 /\ fields[3][2] = D3 /\ types[3] = S3 /\ encs[3] = e3
      /\ fields[4][1] = n4 /\ fields[4][2] = D4 /\ types[4] = S4 /\ encs[4] = e4
      /\ fields[5][1] = n5 /\ fields[5][2] = D5 /\ types[5] = S5 /\ encs[5] = e5
      /\ fields[6][1] = n6 /\ fields[6][2] = D6 /\ types[6] = S6 /\ encs[6] = e6
  OBVIOUS
<1>2. 1..6 = {1, 2, 3, 4, 5, 6} /\ 6 \in Nat
  OBVIOUS
<1>3. fields = [i \in 1..6 |-> fields[i]] /\ Len(fields) = 6
  OBVIOUS
<1> HIDE DEF fields, types, encs
<1>4. Fields(6, fields)
  BY <1>1, <1>2, <1>3 DEF Fields, Struct6
<1>5. Names(6, fields) = {n1, n2, n3, n4, n5, n6}
  BY <1>1, <1>2 DEF Names
<1>6. \A i \in 1..6 : Codec(fields[i][2], types[i], encs[i])
  BY <1>1, <1>2
<1>7. \A o : o \in type <=>
                /\ o = [name \in Names(6, fields) |-> o[name]]
                /\ \A i \in 1..6 : o[fields[i][1]] \in types[i]
  <2>1. ASSUME NEW o
        PROVE  (\A i \in 1..6 : o[fields[i][1]] \in types[i])
                    <=> /\ o[n1] \in S1
                        /\ o[n2] \in S2
                        /\ o[n3] \in S3
                        /\ o[n4] \in S4
                        /\ o[n5] \in S5
                        /\ o[n6] \in S6
    BY <1>1, <1>2
  <2> QED
    BY <1>5, <2>1 DEF Struct6
<1>8. ASSUME NEW o \in type
      PROVE  enc[o] = FlattenSeq([i \in 1..6 |-> encs[i][o[fields[i][1]]]])
  <2>1. [i \in 1..6 |-> encs[i][o[fields[i][1]]]]
            = <<e1[o[n1]], e2[o[n2]], e3[o[n3]], e4[o[n4]], e5[o[n5]], e6[o[n6]]>>
    BY <1>1, <1>2
  <2>2. /\ e1[o[n1]] \in Bytes
        /\ e2[o[n2]] \in Bytes
        /\ e3[o[n3]] \in Bytes
        /\ e4[o[n4]] \in Bytes
        /\ e5[o[n5]] \in Bytes
        /\ e6[o[n6]] \in Bytes
    BY DEF Struct6, Codec, Reads
  <2>3. PICK x1, x2, x3, x4, x5, x6 : /\ x1 = e1[o[n1]]
                /\ x2 = e2[o[n2]]
                /\ x3 = e3[o[n3]]
                /\ x4 = e4[o[n4]]
                /\ x5 = e5[o[n5]]
                /\ x6 = e6[o[n6]]
    OBVIOUS
  <2>4. FlattenSeq(<<x1, x2, x3, x4, x5, x6>>) = Cat6(x1, x2, x3, x4, x5, x6)
    <3>1. x1 \in Bytes /\ x2 \in Bytes /\ x3 \in Bytes /\ x4 \in Bytes /\ x5 \in Bytes
            /\ x6 \in Bytes
      BY <2>2, <2>3
    <3> QED
      BY <3>1, Flatten6, SMT
  <2>5. enc[o] = Cat6(e1[o[n1]], e2[o[n2]], e3[o[n3]], e4[o[n4]], e5[o[n5]], e6[o[n6]])
    BY DEF Struct6
  <2> QED
    BY <2>1, <2>3, <2>4, <2>5
<1>9. /\ Codec(StructDecode(fields), type, enc)
      /\ (\A i \in 1..6 : Exact(fields[i][2], types[i], encs[i]))
                    => Exact(StructDecode(fields), type, enc)
  BY <1>4, <1>6, <1>7, <1>8, StructCodec
<1>10. ASSUME Exact(D1, S1, e1), Exact(D2, S2, e2), Exact(D3, S3, e3), Exact(D4, S4, e4),
              Exact(D5, S5, e5), Exact(D6, S6, e6)
       PROVE  \A i \in 1..6 : Exact(fields[i][2], types[i], encs[i])
  BY <1>1, <1>2, <1>10
<1> QED
  BY <1>9, <1>10 DEF fields

-----------------------------------------------------------------------------
(* The codec of each type, in the order of the source. *)

PreSigDigEnc == [o \in PreSigDig |-> PreSigDigEncode(o)]

\* PreSigDig.
LEMMA PreSigDigCodec ==
    Codec(PreSigDigDecode, PreSigDig, PreSigDigEnc)
      /\ Exact(PreSigDigDecode, PreSigDig, PreSigDigEnc)
<1>1. Struct2(PreSigDig, PreSigDigEnc, "Epoch", Uint64, IntEnc, "Dig", Slbyte, BytesEnc)
  BY DEF Struct2, Cat2, PreSigDig, PreSigDigEncode, PreSigDigEnc, BytesEnc, IntEnc
<1> QED
  BY <1>1, BytesCodec, IntCodec, Struct2Codec DEF PreSigDigDecode

SigDigEnc == [o \in SigDig |-> SigDigEncode(o)]

\* SigDig.
LEMMA SigDigCodec ==
    Codec(SigDigDecode, SigDig, SigDigEnc) /\ Exact(SigDigDecode, SigDig, SigDigEnc)
<1>1. Struct3(SigDig, SigDigEnc, "Epoch", Uint64, IntEnc, "Dig", Slbyte, BytesEnc, "Sig",
        Slbyte, BytesEnc)
  BY DEF Struct3, Cat2, Cat3, SigDig, SigDigEncode, SigDigEnc, BytesEnc, IntEnc
<1> QED
  BY <1>1, BytesCodec, IntCodec, Struct3Codec DEF SigDigDecode

MapLabelPreEnc == [o \in MapLabelPre |-> MapLabelPreEncode(o)]

\* MapLabelPre.
LEMMA MapLabelPreCodec ==
    Codec(MapLabelPreDecode, MapLabelPre, MapLabelPreEnc)
      /\ Exact(MapLabelPreDecode, MapLabelPre, MapLabelPreEnc)
<1>1. Struct2(MapLabelPre, MapLabelPreEnc, "Uid", Uint64, IntEnc, "Ver", Uint64, IntEnc)
  BY DEF Struct2, Cat2, MapLabelPre, MapLabelPreEncode, MapLabelPreEnc, IntEnc
<1> QED
  BY <1>1, IntCodec, Struct2Codec DEF MapLabelPreDecode

CommitOpenEnc == [o \in CommitOpen |-> CommitOpenEncode(o)]

\* CommitOpen.
LEMMA CommitOpenCodec ==
    Codec(CommitOpenDecode, CommitOpen, CommitOpenEnc)
      /\ Exact(CommitOpenDecode, CommitOpen, CommitOpenEnc)
<1>1. Struct2(CommitOpen, CommitOpenEnc, "Val", Slbyte, BytesEnc, "Rand", Slbyte, BytesEnc)
  BY DEF Struct2, Cat2, CommitOpen, CommitOpenEncode, CommitOpenEnc, BytesEnc
<1> QED
  BY <1>1, BytesCodec, Struct2Codec DEF CommitOpenDecode

MapValPreEnc == [o \in MapValPre |-> MapValPreEncode(o)]

\* MapValPre.
LEMMA MapValPreCodec ==
    Codec(MapValPreDecode, MapValPre, MapValPreEnc)
      /\ Exact(MapValPreDecode, MapValPre, MapValPreEnc)
<1>1. Struct2(MapValPre, MapValPreEnc, "Epoch", Uint64, IntEnc, "PkCommit", Slbyte,
        BytesEnc)
  BY DEF Struct2, Cat2, MapValPre, MapValPreEncode, MapValPreEnc, BytesEnc, IntEnc
<1> QED
  BY <1>1, BytesCodec, IntCodec, Struct2Codec DEF MapValPreDecode

MembEnc == [o \in Memb |-> MembEncode(o)]

\* Memb.
LEMMA MembCodec == Codec(MembDecode, Memb, MembEnc) /\ Exact(MembDecode, Memb, MembEnc)
<1>1. Struct4(Memb, MembEnc, "LabelProof", Slbyte, BytesEnc, "EpochAdded", Uint64, IntEnc,
        "PkOpen",
              CommitOpen, CommitOpenEnc, "MerkleProof", Slbyte, BytesEnc)
  BY DEF Struct4, Cat2, Cat3, Cat4, Memb, MembEncode, MembEnc, BytesEnc, CommitOpenEnc,
      IntEnc
<1> QED
  BY <1>1, BytesCodec, CommitOpenCodec, IntCodec, Struct4Codec DEF MembDecode

MembHideEnc == [o \in MembHide |-> MembHideEncode(o)]

\* MembHide.
LEMMA MembHideCodec ==
    Codec(MembHideDecode, MembHide, MembHideEnc)
      /\ Exact(MembHideDecode, MembHide, MembHideEnc)
<1>1. Struct3(MembHide, MembHideEnc, "LabelProof", Slbyte, BytesEnc, "MapVal", Slbyte,
        BytesEnc, "MerkleProof",
              Slbyte, BytesEnc)
  BY DEF Struct3, Cat2, Cat3, MembHide, MembHideEncode, MembHideEnc, BytesEnc
<1> QED
  BY <1>1, BytesCodec, Struct3Codec DEF MembHideDecode

NonMembEnc == [o \in NonMemb |-> NonMembEncode(o)]

\* NonMemb.
LEMMA NonMembCodec ==
    Codec(NonMembDecode, NonMemb, NonMembEnc) /\ Exact(NonMembDecode, NonMemb, NonMembEnc)
<1>1. Struct2(NonMemb, NonMembEnc, "LabelProof", Slbyte, BytesEnc, "MerkleProof", Slbyte,
        BytesEnc)
  BY DEF Struct2, Cat2, NonMemb, NonMembEncode, NonMembEnc, BytesEnc
<1> QED
  BY <1>1, BytesCodec, Struct2Codec DEF NonMembDecode

ServerPutArgEnc == [o \in ServerPutArg |-> ServerPutArgEncode(o)]

\* ServerPutArg.
LEMMA ServerPutArgCodec ==
    Codec(ServerPutArgDecode, ServerPutArg, ServerPutArgEnc)
      /\ Exact(ServerPutArgDecode, ServerPutArg, ServerPutArgEnc)
<1>1. Struct2(ServerPutArg, ServerPutArgEnc, "Uid", Uint64, IntEnc, "Pk", Slbyte, BytesEnc)
  BY DEF Struct2, Cat2, ServerPutArg, ServerPutArgEncode, ServerPutArgEnc, BytesEnc, IntEnc
<1> QED
  BY <1>1, BytesCodec, IntCodec, Struct2Codec DEF ServerPutArgDecode

ServerPutReplyEnc == [o \in ServerPutReply |-> ServerPutReplyEncode(o)]

\* ServerPutReply.
LEMMA ServerPutReplyCodec == Codec(ServerPutReplyDecode, ServerPutReply, ServerPutReplyEnc)
<1>1. Struct4(ServerPutReply, ServerPutReplyEnc, "Dig", SigDig, SigDigEnc, "Latest", Memb,
        MembEnc, "Bound", NonMemb, NonMembEnc,
              "Err", BOOLEAN, BoolEnc)
  BY DEF Struct4, Cat2, Cat3, Cat4, ServerPutReply, ServerPutReplyEncode, ServerPutReplyEnc,
      BoolEnc, MembEnc, NonMembEnc, SigDigEnc
<1> QED
  BY <1>1, BoolCodec, MembCodec, NonMembCodec, SigDigCodec,
       Struct4Codec DEF ServerPutReplyDecode

ServerGetArgEnc == [o \in ServerGetArg |-> ServerGetArgEncode(o)]

\* ServerGetArg.
LEMMA ServerGetArgCodec ==
    Codec(ServerGetArgDecode, ServerGetArg, ServerGetArgEnc)
      /\ Exact(ServerGetArgDecode, ServerGetArg, ServerGetArgEnc)
<1>1. Struct1(ServerGetArg, ServerGetArgEnc, "Uid", Uint64, IntEnc)
  BY DEF Struct1, ServerGetArg, ServerGetArgEncode, ServerGetArgEnc, IntEnc
<1> QED
  BY <1>1, IntCodec, Struct1Codec DEF ServerGetArgDecode

MembHides == SliceOf(MembHide)
MembHidesEnc == SlicesEnc(MembHide, MembHideEnc)

\* MembHideSlice1DDecode.
LEMMA MembHidesCodec ==
    /\ Codec(MembHideSlice1DDecode, MembHides, MembHidesEnc)
    /\ \A o \in MembHides : MembHidesEnc[o] = MembHideSlice1DEncode(o)
<1>1. MembHideSlice1DDecode = SlicesDecode(MembHideDecode)
  BY DEF MembHideSlice1DDecode, SlicesDecode
<1>2. Codec(SlicesDecode(MembHideDecode), SliceOf(MembHide), SlicesEnc(MembHide,
        MembHideEnc))
  BY MembHideCodec, SlicesCodec
<1>3. ASSUME NEW o \in MembHides
      PROVE  MembHidesEnc[o] = MembHideSlice1DEncode(o)
  <2>1. MembHidesEnc[o] = WriteSlices([i \in DOMAIN o |-> MembHideEnc[o[i]]])
    BY DEF MembHidesEnc, MembHides, SlicesEnc
  <2>2. \A i \in DOMAIN o : MembHideEnc[o[i]] = MembHideEncode(o[i])
    BY DEF MembHides, SliceOf, MembHideEnc
  <2>3. [i \in DOMAIN o |-> MembHideEnc[o[i]]] = [i \in DOMAIN o |-> MembHideEncode(o[i])]
    BY <2>2
  <2> QED
    BY <2>1, <2>3 DEF MembHideSlice1DEncode
<1> QED
  BY <1>1, <1>2, <1>3 DEF MembHides, MembHidesEnc

ServerGetReplyEnc == [o \in ServerGetReply |-> ServerGetReplyEncode(o)]

\* ServerGetReply.
LEMMA ServerGetReplyCodec == Codec(ServerGetReplyDecode, ServerGetReply, ServerGetReplyEnc)
<1>1. Struct5(ServerGetReply, ServerGetReplyEnc, "Dig", SigDig, SigDigEnc, "Hist",
        MembHides, MembHidesEnc, "IsReg", BOOLEAN,
              BoolEnc, "Latest", Memb, MembEnc, "Bound", NonMemb, NonMembEnc)
  BY MembHidesCodec DEF Struct5, Cat2, Cat3, Cat4, Cat5, ServerGetReply,
      ServerGetReplyEncode, ServerGetReplyEnc, BoolEnc, MembEnc, NonMembEnc, SigDigEnc,
      MembHides
<1> QED
  BY <1>1, BoolCodec, MembCodec, MembHidesCodec, NonMembCodec, SigDigCodec,
       Struct5Codec DEF ServerGetReplyDecode

ServerSelfMonArgEnc == [o \in ServerSelfMonArg |-> ServerSelfMonArgEncode(o)]

\* ServerSelfMonArg.
LEMMA ServerSelfMonArgCodec ==
    Codec(ServerSelfMonArgDecode, ServerSelfMonArg, ServerSelfMonArgEnc)
      /\ Exact(ServerSelfMonArgDecode, ServerSelfMonArg, ServerSelfMonArgEnc)
<1>1. Struct1(ServerSelfMonArg, ServerSelfMonArgEnc, "Uid", Uint64, IntEnc)
  BY DEF Struct1, ServerSelfMonArg, ServerSelfMonArgEncode, ServerSelfMonArgEnc, IntEnc
<1> QED
  BY <1>1, IntCodec, Struct1Codec DEF ServerSelfMonArgDecode

ServerSelfMonReplyEnc == [o \in ServerSelfMonReply |-> ServerSelfMonReplyEncode(o)]

\* ServerSelfMonReply.
LEMMA ServerSelfMonReplyCodec ==
    Codec(ServerSelfMonReplyDecode, ServerSelfMonReply, ServerSelfMonReplyEnc)
      /\ Exact(ServerSelfMonReplyDecode, ServerSelfMonReply, ServerSelfMonReplyEnc)
<1>1. Struct2(ServerSelfMonReply, ServerSelfMonReplyEnc, "Dig", SigDig, SigDigEnc,
        "Bound", NonMemb, NonMembEnc)
  BY DEF Struct2, Cat2, ServerSelfMonReply, ServerSelfMonReplyEncode, ServerSelfMonReplyEnc,
      NonMembEnc, SigDigEnc
<1> QED
  BY <1>1, NonMembCodec, SigDigCodec, Struct2Codec DEF ServerSelfMonReplyDecode

ServerAuditArgEnc == [o \in ServerAuditArg |-> ServerAuditArgEncode(o)]

\* ServerAuditArg.
LEMMA ServerAuditArgCodec ==
    Codec(ServerAuditArgDecode, ServerAuditArg, ServerAuditArgEnc)
      /\ Exact(ServerAuditArgDecode, ServerAuditArg, ServerAuditArgEnc)
<1>1. Struct1(ServerAuditArg, ServerAuditArgEnc, "Epoch", Uint64, IntEnc)
  BY DEF Struct1, ServerAuditArg, ServerAuditArgEncode, ServerAuditArgEnc, IntEnc
<1> QED
  BY <1>1, IntCodec, Struct1Codec DEF ServerAuditArgDecode

AdtrUpdateReplyEnc == [o \in AdtrUpdateReply |-> AdtrUpdateReplyEncode(o)]

\* AdtrUpdateReply.
LEMMA AdtrUpdateReplyCodec ==
    Codec(AdtrUpdateReplyDecode, AdtrUpdateReply, AdtrUpdateReplyEnc)
<1>1. Struct1(AdtrUpdateReply, AdtrUpdateReplyEnc, "Err", BOOLEAN, BoolEnc)
  BY DEF Struct1, AdtrUpdateReply, AdtrUpdateReplyEncode, AdtrUpdateReplyEnc, BoolEnc
<1> QED
  BY <1>1, BoolCodec, Struct1Codec DEF AdtrUpdateReplyDecode

AdtrGetArgEnc == [o \in AdtrGetArg |-> AdtrGetArgEncode(o)]

\* AdtrGetArg.
LEMMA AdtrGetArgCodec ==
    Codec(AdtrGetArgDecode, AdtrGetArg, AdtrGetArgEnc)
      /\ Exact(AdtrGetArgDecode, AdtrGetArg, AdtrGetArgEnc)
<1>1. Struct1(AdtrGetArg, AdtrGetArgEnc, "Epoch", Uint64, IntEnc)
  BY DEF Struct1, AdtrGetArg, AdtrGetArgEncode, AdtrGetArgEnc, IntEnc
<1> QED
  BY <1>1, IntCodec, Struct1Codec DEF AdtrGetArgDecode

AdtrEpochInfoEnc == [o \in AdtrEpochInfo |-> AdtrEpochInfoEncode(o)]

\* AdtrEpochInfo.
LEMMA AdtrEpochInfoCodec ==
    Codec(AdtrEpochInfoDecode, AdtrEpochInfo, AdtrEpochInfoEnc)
      /\ Exact(AdtrEpochInfoDecode, AdtrEpochInfo, AdtrEpochInfoEnc)
<1>1. Struct3(AdtrEpochInfo, AdtrEpochInfoEnc, "Dig", Slbyte, BytesEnc, "ServSig", Slbyte,
        BytesEnc, "AdtrSig", Slbyte,
              BytesEnc)
  BY DEF Struct3, Cat2, Cat3, AdtrEpochInfo, AdtrEpochInfoEncode, AdtrEpochInfoEnc, BytesEnc
<1> QED
  BY <1>1, BytesCodec, Struct3Codec DEF AdtrEpochInfoDecode

AdtrGetReplyEnc == [o \in AdtrGetReply |-> AdtrGetReplyEncode(o)]

\* AdtrGetReply.
LEMMA AdtrGetReplyCodec == Codec(AdtrGetReplyDecode, AdtrGetReply, AdtrGetReplyEnc)
<1>1. Struct2(AdtrGetReply, AdtrGetReplyEnc, "X", AdtrEpochInfo, AdtrEpochInfoEnc, "Err",
        BOOLEAN, BoolEnc)
  BY DEF Struct2, Cat2, AdtrGetReply, AdtrGetReplyEncode, AdtrGetReplyEnc, AdtrEpochInfoEnc,
      BoolEnc
<1> QED
  BY <1>1, AdtrEpochInfoCodec, BoolCodec, Struct2Codec DEF AdtrGetReplyDecode

MerkleProofEnc == [o \in MerkleProof |-> MerkleProofEncode(o)]

\* MerkleProof.
LEMMA MerkleProofCodec == Codec(MerkleProofDecode, MerkleProof, MerkleProofEnc)
<1>1. Struct4(MerkleProof, MerkleProofEnc, "Siblings", Slbyte, BytesEnc, "FoundOtherLeaf",
        BOOLEAN, BoolEnc, "LeafLabel",
              Slbyte, BytesEnc, "LeafVal", Slbyte, BytesEnc)
  BY DEF Struct4, Cat2, Cat3, Cat4, MerkleProof, MerkleProofEncode, MerkleProofEnc, BoolEnc,
      BytesEnc
<1> QED
  BY <1>1, BoolCodec, BytesCodec, Struct4Codec DEF MerkleProofDecode

\* WriteSlice2D and WriteSlice3D are encoders of slices.
LEMMA Slice2DEnc == \A o \in Bytes2 : Bytes2Enc[o] = WriteSlice2D(o)
<1>1. ASSUME NEW o \in Bytes2
      PROVE  Bytes2Enc[o] = WriteSlice2D(o)
  <2>1. Bytes2Enc[o] = WriteSlices([i \in DOMAIN o |-> BytesEnc[o[i]]])
    BY DEF Bytes2Enc, Bytes2, SlicesEnc
  <2>2. \A i \in DOMAIN o : BytesEnc[o[i]] = WriteSlice1D(o[i])
    BY DEF Bytes2, SliceOf, BytesEnc
  <2>3. [i \in DOMAIN o |-> BytesEnc[o[i]]] = [i \in DOMAIN o |-> WriteSlice1D(o[i])]
    BY <2>2
  <2> QED
    BY <2>1, <2>3 DEF WriteSlice2D
<1> QED
  BY <1>1

\* WriteSlice3D.
LEMMA Slice3DEnc == \A o \in Bytes3 : Bytes3Enc[o] = WriteSlice3D(o)
<1>1. ASSUME NEW o \in Bytes3
      PROVE  Bytes3Enc[o] = WriteSlice3D(o)
  <2>1. Bytes3Enc[o] = WriteSlices([i \in DOMAIN o |-> Bytes2Enc[o[i]]])
    BY DEF Bytes3Enc, Bytes3, SlicesEnc
  <2>2. \A i \in DOMAIN o : Bytes2Enc[o[i]] = WriteSlice2D(o[i])
    BY Slice2DEnc DEF Bytes3, SliceOf
  <2>3. [i \in DOMAIN o |-> Bytes2Enc[o[i]]] = [i \in DOMAIN o |-> WriteSlice2D(o[i])]
    BY <2>2
  <2> QED
    BY <2>1, <2>3 DEF WriteSlice3D
<1> QED
  BY <1>1

ArgsEnc == [o \in Args |-> TypesEncode(o)]

\* The compiler's test type.
LEMMA ArgsCodec == Codec(TypesDecode, Args, ArgsEnc)
<1>1. Struct6(Args, ArgsEnc, "a1", BOOLEAN, BoolEnc, "a2", Byte, ByteEnc, "a3", Uint64,
        IntEnc, "a4", Slbyte,
              BytesEnc, "a5", Bytes2, Bytes2Enc, "a6", Bytes3, Bytes3Enc)
  BY Slice2DEnc, Slice3DEnc DEF Struct6, Cat2, Cat3, Cat4, Cat5, Cat6, Args, TypesEncode,
      ArgsEnc, BoolEnc, ByteEnc, BytesEnc, IntEnc, Bytes2, Bytes3
<1> QED
  BY <1>1, BoolCodec, ByteCodec, BytesCodec, IntCodec, Slice2DCodec, Slice3DCodec,
      Struct6Codec DEF TypesDecode

-----------------------------------------------------------------------------
(* Maps, and the messages that have one. *)

\* The entry of a map.
Entry == [key : Slbyte, val : Slbyte]
EntryEncode(o) == WriteSlice1D(o.key) \o WriteSlice1D(o.val)
EntryEnc == [o \in Entry |-> EntryEncode(o)]

\* MapstringSlbyteDecode reads an entry as a struct of two slices.
LEMMA EntryCodec == Codec(EntryDecode, Entry, EntryEnc)
<1>1. Struct2(Entry, EntryEnc, "key", Slbyte, BytesEnc, "val", Slbyte, BytesEnc)
  BY DEF Struct2, Cat2, Entry, EntryEncode, EntryEnc, BytesEnc
<1> QED
  BY <1>1, BytesCodec, Struct2Codec DEF EntryDecode

\* An order in which a map's entries are written has every key once.
LEMMA OrderListsKeys ==
    ASSUME NEW keys, IsFiniteSet(keys), NEW order \in SetToSeqs(keys)
    PROVE  /\ Cardinality(keys) \in Nat /\ order \in [1..Cardinality(keys) -> keys]
           /\ \A i, j \in 1..Cardinality(keys) : order[i] = order[j] => i = j
           /\ \A key \in keys : \E i \in 1..Cardinality(keys) : order[i] = key
<1>1. PICK n : n = Cardinality(keys)
  OBVIOUS
<1>2. n \in Nat
  BY <1>1, FS_CardinalityType
<1>3. order \in [1..n -> keys] /\ \A i, j \in 1..n : order[i] = order[j] => i = j
  BY <1>1 DEF SetToSeqs
<1>4. order \in Injection(1..n, keys)
  BY <1>3, Fun_IsInj
<1>5. Cardinality(1..n) = n
  BY <1>2, FS_Interval
<1>6. order \in Surjection(1..n, keys)
  BY <1>1, <1>4, <1>5, FS_Injection
<1>7. \A key \in keys : \E i \in 1..n : order[i] = key
  BY <1>6 DEF Surjection, Range
<1> QED
  BY <1>1, <1>2, <1>3, <1>7

\* The entries of a map in the order in which they are written.
EntriesOf(updates, order) ==
    [i \in 1..Cardinality(DOMAIN updates) |-> [key |-> order[i], val |-> updates[order[i]]]]

\* They are encoded as the map is, and make the map again.
LEMMA EntriesFacts ==
    ASSUME NEW updates \in Updates, NEW order \in SetToSeqs(DOMAIN updates)
    PROVE  /\ EntriesOf(updates, order) \in SliceOf(Entry)
           /\ SlicesEnc(Entry, EntryEnc)[EntriesOf(updates, order)]
                = MapstringSlbyteEncode(updates, order)
           /\ MapOf(EntriesOf(updates, order)) = updates
<1> DEFINE n == Cardinality(DOMAIN updates)
           keys == DOMAIN updates
           entries == EntriesOf(updates, order)
<1>1. /\ updates \in [keys -> Slbyte] /\ keys \subseteq Slbyte
      /\ IsFiniteSet(keys) /\ n \in Uint64
  BY UpdatesAssumption
<1>2. /\ n \in Nat /\ order \in [1..n -> keys]
      /\ \A i, j \in 1..n : order[i] = order[j] => i = j
      /\ \A key \in keys : \E i \in 1..n : order[i] = key
  BY <1>1, OrderListsKeys
<1>3. entries = [i \in 1..n |-> [key |-> order[i], val |-> updates[order[i]]]]
  BY DEF EntriesOf
<1> HIDE DEF n, keys, entries
<1>4. entries \in [1..n -> Entry]
  <2>1. ASSUME NEW i \in 1..n
        PROVE  [key |-> order[i], val |-> updates[order[i]]] \in Entry
    BY <1>1, <1>2 DEF Entry
  <2> QED
    BY <1>3, <2>1
<1>5. entries \in Seq(Entry) /\ Len(entries) = n /\ DOMAIN entries = 1..n
  BY <1>2, <1>4
<1>6. entries \in SliceOf(Entry)
  BY <1>1, <1>5 DEF SliceOf
<1>7. DOMAIN order = 1..n
  BY <1>2
<1>8. SlicesEnc(Entry, EntryEnc)[entries] = MapstringSlbyteEncode(updates, order)
  <2>1. SlicesEnc(Entry, EntryEnc)[entries]
          = WriteSlices([i \in 1..n |-> EntryEnc[entries[i]]])
    BY <1>5, <1>6 DEF SlicesEnc
  <2>2. ASSUME NEW i \in 1..n
        PROVE  EntryEnc[entries[i]]
                 = WriteSlice1D(order[i]) \o WriteSlice1D(updates[order[i]])
    <3>1. entries[i] \in Entry /\ entries[i].key = order[i]
            /\ entries[i].val = updates[order[i]]
      BY <1>3, <1>4
    <3> QED
      BY <3>1 DEF EntryEnc, EntryEncode
  <2>3. [i \in 1..n |-> EntryEnc[entries[i]]]
            = [i \in 1..n |-> WriteSlice1D(order[i]) \o WriteSlice1D(updates[order[i]])]
    BY <2>2
  <2>4. MapstringSlbyteEncode(updates, order)
            = WriteSlices([i \in 1..n |->
                            WriteSlice1D(order[i]) \o WriteSlice1D(updates[order[i]])])
    BY <1>7 DEF MapstringSlbyteEncode
  <2> QED
    BY <2>1, <2>3, <2>4
<1>9. MapOf(entries) = updates
  <2> DEFINE last(key) == CHOOSE i \in DOMAIN entries :
                            /\ entries[i].key = key
                            /\ \A j \in DOMAIN entries : entries[j].key = key => j <= i
  <2>1. \A i \in 1..n : entries[i].key = order[i] /\ entries[i].val = updates[order[i]]
    BY <1>3
  <2>2. {entries[i].key : i \in DOMAIN entries} = keys
    BY <1>2, <1>5, <2>1
  <2>3. ASSUME NEW key \in keys
        PROVE  entries[last(key)].val = updates[key]
    <3>1. PICK k \in 1..n : order[k] = key
      BY <1>2
    <3>2. \A j \in 1..n : entries[j].key = key => j = k
      BY <1>2, <2>1, <3>1
    <3>3. k \in DOMAIN entries /\ entries[k].key = key
          /\ \A j \in DOMAIN entries : entries[j].key = key => j <= k
      BY <1>5, <2>1, <3>1, <3>2
    <3>4. last(key) \in DOMAIN entries /\ entries[last(key)].key = key
      BY <3>3
    <3>5. last(key) = k
      BY <1>5, <3>2, <3>4
    <3> HIDE DEF last
    <3> QED
      BY <2>1, <3>1, <3>5
  <2>4. MapOf(entries) = [key \in keys |-> entries[last(key)].val]
    BY <2>2 DEF MapOf
  <2> HIDE DEF last
  <2>5. updates = [key \in keys |-> updates[key]]
    BY <1>1
  <2> QED
    BY <2>3, <2>4, <2>5
<1> QED
  BY <1>6, <1>8, <1>9 DEF entries

\* The encoding of one map with its entries in one order.
UpdatesEnc(updates, order) == [x \in {updates} |-> MapstringSlbyteEncode(x, order)]

\* Whatever the order, the map is read.
LEMMA UpdatesCodec ==
    ASSUME NEW updates \in Updates, NEW order \in SetToSeqs(DOMAIN updates)
    PROVE  Codec(MapstringSlbyteDecode, {updates}, UpdatesEnc(updates, order))
<1> DEFINE D == SlicesDecode(EntryDecode)
           M == MapstringSlbyteDecode
<1>1. Codec(D, SliceOf(Entry), SlicesEnc(Entry, EntryEnc))
  BY EntryCodec, SlicesCodec
<1>2. ASSUME NEW b \in Bytes
      PROVE  M[b] = IF D[b].err THEN Failed ELSE Ok(MapOf(D[b].val), D[b].rest)
  BY DEF MapstringSlbyteDecode, SlicesDecode
<1> HIDE DEF D, M
<1>3. ASSUME NEW enc, NEW val, Reads(D, enc, val)
      PROVE  Reads(M, enc, MapOf(val))
  <2>1. ASSUME NEW rest \in Bytes
        PROVE  M[enc \o rest] = Ok(MapOf(val), rest)
    <3>1. enc \o rest \in Bytes /\ D[enc \o rest] = Ok(val, rest)
      BY <1>3, Concats DEF Reads
    <3> QED
      BY <1>2, <3>1, ResultFacts DEF Results
  <2> QED
    BY <1>3, <2>1 DEF Reads
<1>4. ASSUME NEW b \in Bytes, ~M[b].err
      PROVE  /\ M[b] = Ok(M[b].val, M[b].rest) /\ M[b].rest \in Bytes
             /\ \E enc \in Bytes : b = enc \o M[b].rest /\ Reads(M, enc, M[b].val)
  <2>1. ~D[b].err
    BY <1>2, <1>4, ResultFacts DEF Results
  <2>2. M[b] = Ok(MapOf(D[b].val), D[b].rest)
    BY <1>2, <2>1
  <2>3. M[b].val = MapOf(D[b].val) /\ M[b].rest = D[b].rest
    BY <2>2, ResultFacts DEF Results
  <2>4. D[b].rest \in Bytes /\ \E enc \in Bytes : b = enc \o D[b].rest
          /\ Reads(D, enc, D[b].val)
    BY <1>1, <2>1 DEF Codec, Local
  <2> QED
    BY <1>3, <2>2, <2>3, <2>4
<1>5. Reads(M, UpdatesEnc(updates, order)[updates], updates)
  <2>1. PICK e : e = EntriesOf(updates, order)
    OBVIOUS
  <2>2. /\ e \in SliceOf(Entry) /\ MapOf(e) = updates
        /\ SlicesEnc(Entry, EntryEnc)[e] = MapstringSlbyteEncode(updates, order)
    BY <2>1, EntriesFacts
  <2>3. Reads(D, MapstringSlbyteEncode(updates, order), e)
    BY <1>1, <2>2 DEF Codec
  <2>4. UpdatesEnc(updates, order)[updates] = MapstringSlbyteEncode(updates, order)
    BY DEF UpdatesEnc
  <2> QED
    BY <1>3, <2>2, <2>3, <2>4
<1>6. Codec(M, {updates}, UpdatesEnc(updates, order))
  BY <1>4, <1>5 DEF Codec, Local
<1> QED
  BY <1>6 DEF M

-----------------------------------------------------------------------------
(* The messages with a map: the map is fixed, and the order of its entries. *)

UpdateProofOf(u) == [Updates : {u}, Sig : Slbyte]
UpdateProofEnc(u, order) == [o \in UpdateProofOf(u) |-> UpdateProofEncode(o, order)]

\* UpdateProof.
LEMMA UpdateProofCodec ==
    ASSUME NEW u \in Updates, NEW order \in SetToSeqs(DOMAIN u)
    PROVE  Codec(UpdateProofDecode, UpdateProofOf(u), UpdateProofEnc(u, order))
<1>1. Struct2(UpdateProofOf(u), UpdateProofEnc(u, order), "Updates", {u}, UpdatesEnc(u,
        order),
              "Sig", Slbyte, BytesEnc)
  BY DEF Struct2, Cat2, UpdateProofOf, UpdateProofEncode, UpdateProofEnc, UpdatesEnc,
       BytesEnc
<1>2. Codec(MapstringSlbyteDecode, {u}, UpdatesEnc(u, order))
  BY UpdatesCodec
<1> QED
  BY <1>1, <1>2, BytesCodec, Struct2Codec DEF UpdateProofDecode

ServerAuditReplyOf(u) == [P : UpdateProofOf(u), Err : BOOLEAN]
ServerAuditReplyEnc(u, order) ==
    [o \in ServerAuditReplyOf(u) |-> ServerAuditReplyEncode(o, order)]

\* ServerAuditReply.
LEMMA ServerAuditReplyCodec ==
    ASSUME NEW u \in Updates, NEW order \in SetToSeqs(DOMAIN u)
    PROVE  Codec(ServerAuditReplyDecode, ServerAuditReplyOf(u), ServerAuditReplyEnc(u,
             order))
<1>1. Struct2(ServerAuditReplyOf(u), ServerAuditReplyEnc(u, order), "P", UpdateProofOf(u),
              UpdateProofEnc(u, order), "Err", BOOLEAN, BoolEnc)
  BY DEF Struct2, Cat2, ServerAuditReplyOf, ServerAuditReplyEncode, ServerAuditReplyEnc,
      UpdateProofEnc, BoolEnc
<1>2. Codec(UpdateProofDecode, UpdateProofOf(u), UpdateProofEnc(u, order))
  BY UpdateProofCodec
<1> QED
  BY <1>1, <1>2, BoolCodec, Struct2Codec DEF ServerAuditReplyDecode

AdtrUpdateArgOf(u) == [P : UpdateProofOf(u)]
AdtrUpdateArgEnc(u, order) == [o \in AdtrUpdateArgOf(u) |-> AdtrUpdateArgEncode(o, order)]

\* AdtrUpdateArg.
LEMMA AdtrUpdateArgCodec ==
    ASSUME NEW u \in Updates, NEW order \in SetToSeqs(DOMAIN u)
    PROVE  Codec(AdtrUpdateArgDecode, AdtrUpdateArgOf(u), AdtrUpdateArgEnc(u, order))
<1>1. Struct1(AdtrUpdateArgOf(u), AdtrUpdateArgEnc(u, order), "P", UpdateProofOf(u),
              UpdateProofEnc(u, order))
  BY DEF Struct1, AdtrUpdateArgOf, AdtrUpdateArgEncode, AdtrUpdateArgEnc, UpdateProofEnc
<1>2. Codec(UpdateProofDecode, UpdateProofOf(u), UpdateProofEnc(u, order))
  BY UpdateProofCodec
<1> QED
  BY <1>1, <1>2, Struct1Codec DEF AdtrUpdateArgDecode

-----------------------------------------------------------------------------
\* Joining is associative.
LEMMA Regrouped ==
    ASSUME NEW s \in Bytes, NEW t \in Bytes, NEW u \in Bytes
    PROVE  (s \o t) \o u = s \o (t \o u)
  BY ConcatAssociative DEF Bytes

\* Tree.prove writes what the decoder of proofs expects.
LEMMA ProveIsProof ==
    ASSUME NEW o \in Proved
    PROVE  ProveBytes(o) = MerkleProofEncode(o)
<1>1. o \in MerkleProof /\ (o.FoundOtherLeaf \/ (o.LeafLabel = <<>> /\ o.LeafVal = <<>>))
  BY DEF Proved
<1>2. /\ o.Siblings \in Bytes /\ o.LeafLabel \in Bytes /\ o.LeafVal \in Bytes
      /\ Len(o.Siblings) \in Nat /\ Len(o.LeafLabel) \in Nat /\ Len(o.LeafVal) \in Nat
      /\ o.FoundOtherLeaf \in BOOLEAN
  BY <1>1 DEF MerkleProof, Slbyte, Bytes
<1>3. PICK zeros, sibs : zeros = [i \in 1..IntLen |-> 0] /\ sibs = o.Siblings
  OBVIOUS
<1>4. zeros \in Bytes /\ Len(zeros) = IntLen /\ sibs \in Bytes
  BY <1>2, <1>3, Widths DEF Bytes
<1>5. /\ Len(zeros \o sibs) - IntLen = Len(sibs)
      /\ SubSeq(zeros \o sibs, IntLen + 1, Len(zeros \o sibs)) = sibs
  <2>1. PICK found : found = zeros \o sibs
    OBVIOUS
  <2>2. Len(found) = Len(zeros) + Len(sibs) /\ Len(sibs) \in Nat
    BY <1>4, <2>1, Concats
  <2>3. SubSeq(found, Len(zeros) + 1, Len(found)) = sibs
    BY <1>4, <2>1, Joined
  <2>4. Len(found) - IntLen = Len(sibs)
    BY <1>4, <2>2, Widths
  <2> QED
    BY <1>4, <2>1, <2>3, <2>4
<1>6. PICK s, l, v, wl, wv, t :
        /\ s = WriteInt(Len(sibs)) \o sibs /\ l = o.LeafLabel /\ v = o.LeafVal
        /\ wl = WriteInt(Len(l)) /\ wv = WriteInt(Len(v)) /\ t = WriteBool(o.FoundOtherLeaf)
  OBVIOUS
<1>7. /\ s \in Bytes /\ l \in Bytes /\ v \in Bytes /\ wl \in Bytes /\ wv \in Bytes
      /\ t \in Bytes
  <2>1. WriteInt(Len(sibs)) \in Bytes /\ wl \in Bytes /\ wv \in Bytes
    BY <1>2, <1>3, <1>6, WriteIntFacts
  <2>2. t \in Bytes
    BY <1>6, Widths, FirstByte, Concats DEF WriteBool
  <2>3. s \in Bytes
    BY <1>4, <1>6, <2>1, Concats
  <2> QED
    BY <1>2, <1>6, <2>1, <2>2, <2>3
<1>8. MerkleProofEncode(o) = ((s \o t) \o (wl \o l)) \o (wv \o v)
  BY <1>3, <1>6 DEF MerkleProofEncode, WriteSlice1D
<1>9. CASE o.FoundOtherLeaf
  <2>1. ProveBytes(o) = ((((s \o t) \o wl) \o l) \o wv) \o v
    BY <1>3, <1>5, <1>6, <1>9 DEF ProveBytes
  <2>2. PICK x : x = s \o t
    OBVIOUS
  <2>3. x \in Bytes
    BY <1>7, <2>2, Concats
  <2>4. (x \o wl) \o l = x \o (wl \o l)
    BY <1>7, <2>3, Regrouped
  <2>5. PICK z : z = x \o (wl \o l)
    OBVIOUS
  <2>6. z \in Bytes
    BY <1>7, <2>3, <2>5, Concats
  <2>7. (z \o wv) \o v = z \o (wv \o v)
    BY <1>7, <2>6, Regrouped
  <2> QED
    BY <1>8, <2>1, <2>2, <2>4, <2>5, <2>7
<1>10. CASE ~o.FoundOtherLeaf
  <2>1. l = <<>> /\ v = <<>> /\ wl = WriteInt(0) /\ wv = WriteInt(0)
    BY <1>1, <1>6, <1>10
  <2>2. wl \o l = wl /\ wv \o v = wv
    BY <1>7, <2>1, Concats
  <2>3. s = WriteInt(Len(sibs)) \o sibs /\ t = WriteBool(FALSE)
    BY <1>2, <1>6, <1>10
  <2>4. ProveBytes(o) = ((s \o t) \o WriteInt(0)) \o WriteInt(0)
    BY <1>3, <1>5, <1>10, <2>3 DEF ProveBytes
  <2> QED
    BY <1>8, <2>1, <2>2, <2>4
<1> QED
  BY <1>2, <1>9, <1>10

(* Nodes of the tree: the tag comes first, and what follows can be parsed. *)

\* What follows the tag of a leaf, and the parts of a node's bytes.
TwoSlices(s, t) == WriteSlice1D(s) \o WriteSlice1D(t)

Tagged(o) ==
    CASE o.tag = "empty" -> [tag |-> 0, rest |-> <<>>]
      [] o.tag = "leaf"  -> [tag |-> 1, rest |-> TwoSlices(o.label, o.val)]
      [] o.tag = "inner" -> [tag |-> 2, rest |-> o.hash0 \o o.hash1]

\* A node is hashed from its tag and what follows.
LEMMA NodeBytes ==
    ASSUME NEW o \in Node
    PROVE  /\ Tagged(o).tag \in Byte /\ Tagged(o).rest \in Bytes
           /\ NodeEncode(o) = <<Tagged(o).tag>> \o Tagged(o).rest
<1>1. 0 \in Byte /\ 1 \in Byte /\ 2 \in Byte
  BY NodeAssumption, Widths DEF Byte
<1>2. <<0>> \in Bytes /\ <<1>> \in Bytes /\ <<2>> \in Bytes
  BY <1>1, FirstByte, Concats
<1>3. CASE o.tag = "empty"
  <2>1. Tagged(o) = [tag |-> 0, rest |-> <<>>] /\ NodeEncode(o) = <<0>>
    BY <1>3 DEF Tagged, NodeEncode, EmptyBytes, WriteByte
  <2> QED
    BY <1>1, <1>2, <2>1, Concats
<1>4. CASE o.tag = "leaf"
  <2>1. o.label \in Slbyte /\ o.val \in Slbyte
    BY <1>4 DEF Node
  <2>2. /\ o.label \in Bytes /\ o.val \in Bytes
        /\ Len(o.label) \in Nat /\ Len(o.val) \in Nat
    BY <2>1, Concats DEF Slbyte
  <2>3. PICK t, wl, l, wv, v :
          /\ t = <<1>> /\ l = o.label /\ v = o.val
          /\ wl = WriteInt(Len(l)) /\ wv = WriteInt(Len(v))
    OBVIOUS
  <2>4. t \in Bytes /\ wl \in Bytes /\ l \in Bytes /\ wv \in Bytes /\ v \in Bytes
    BY <1>2, <2>2, <2>3, WriteIntFacts
  <2>5. NodeEncode(o) = (((t \o wl) \o l) \o wv) \o v
    BY <1>4, <2>3 DEF NodeEncode, LeafBytes, WriteByte
  <2>6. Tagged(o) = [tag |-> 1, rest |-> (wl \o l) \o (wv \o v)]
    BY <1>4, <2>3 DEF Tagged, TwoSlices, WriteSlice1D
  <2>7. PICK x, u : x = wl \o l /\ u = wv \o v
    OBVIOUS
  <2>8. x \in Bytes /\ u \in Bytes
    BY <2>4, <2>7, Concats
  <2>9. PICK z : z = t \o x
    OBVIOUS
  <2>10. z \in Bytes
    BY <2>4, <2>8, <2>9, Concats
  <2>11. (t \o wl) \o l = z
    BY <2>4, <2>7, <2>9, Regrouped
  <2>12. (z \o wv) \o v = z \o u
    BY <2>4, <2>7, <2>10, Regrouped
  <2>13. t \in Bytes
    BY <2>4
  <2>14. (t \o x) \o u = t \o (x \o u)
    BY <2>8, <2>13, Regrouped
  <2>15. PICK rest : rest = x \o u
    OBVIOUS
  <2>16. rest \in Bytes
    BY <2>8, <2>15, Concats
  <2>17. Tagged(o) = [tag |-> 1, rest |-> rest]
    BY <2>6, <2>7, <2>15
  <2>18. NodeEncode(o) = <<1>> \o rest
    BY <2>3, <2>5, <2>9, <2>11, <2>12, <2>14, <2>15
  <2> QED
    BY <1>1, <2>16, <2>17, <2>18
<1>5. CASE o.tag = "inner"
  <2>1. o.hash0 \in Bytes /\ o.hash1 \in Bytes
    BY <1>5 DEF Node, HashBytes
  <2>2. Tagged(o) = [tag |-> 2, rest |-> o.hash0 \o o.hash1]
    BY <1>5 DEF Tagged
  <2>3. NodeEncode(o) = (<<2>> \o o.hash0) \o o.hash1
    BY <1>5 DEF NodeEncode, InnerBytes, WriteByte
  <2>4. (<<2>> \o o.hash0) \o o.hash1 = <<2>> \o (o.hash0 \o o.hash1)
    BY <1>2, <2>1, Regrouped
  <2>5. PICK rest : rest = o.hash0 \o o.hash1
    OBVIOUS
  <2>6. rest \in Bytes
    BY <2>1, <2>5, Concats
  <2>7. Tagged(o) = [tag |-> 2, rest |-> rest] /\ NodeEncode(o) = <<2>> \o rest
    BY <2>2, <2>3, <2>4, <2>5
  <2> QED
    BY <1>1, <2>6, <2>7
<1> QED
  BY <1>3, <1>4, <1>5 DEF Node

\* Two byte strings that are written one after the other can be told apart.
LEMMA SlicesApart ==
    ASSUME NEW s1 \in Slbyte, NEW t1 \in Slbyte, NEW s2 \in Slbyte, NEW t2 \in Slbyte,
           TwoSlices(s1, t1) = TwoSlices(s2, t2)
    PROVE  s1 = s2 /\ t1 = t2
<1>1. PICK w1, w2 : w1 = WriteSlice1D(t1) /\ w2 = WriteSlice1D(t2)
  OBVIOUS
<1>2. Reads(Slice1DDecode, w1, t1) /\ Reads(Slice1DDecode, w2, t2)
  BY <1>1, Slice1DReads
<1>3. w1 \in Bytes /\ w2 \in Bytes
  BY <1>2 DEF Reads
<1>4. Ok(s1, w1) = Ok(s2, w2)
  <2>1. Reads(Slice1DDecode, WriteSlice1D(s1), s1)
          /\ Reads(Slice1DDecode, WriteSlice1D(s2), s2)
    BY Slice1DReads
  <2>2. /\ Slice1DDecode[WriteSlice1D(s1) \o w1] = Ok(s1, w1)
        /\ Slice1DDecode[WriteSlice1D(s2) \o w2] = Ok(s2, w2)
    BY <1>3, <2>1 DEF Reads
  <2> QED
    BY <1>1, <2>2 DEF TwoSlices
<1>5. s1 = s2 /\ w1 = w2
  BY <1>4, ResultFacts DEF Results
<1>6. Ok(t1, <<>>) = Ok(t2, <<>>)
  <2>1. Slice1DDecode[w1 \o <<>>] = Ok(t1, <<>>) /\ Slice1DDecode[w2 \o <<>>] = Ok(t2, <<>>)
    BY <1>2, Concats DEF Reads
  <2> QED
    BY <1>5, <2>1
<1> QED
  BY <1>5, <1>6, ResultFacts DEF Results

\* Nodes that differ are hashed from different bytes.
LEMMA NodesApart ==
    ASSUME NEW o \in Node, NEW p \in Node, NodeEncode(o) = NodeEncode(p)
    PROVE  o = p
<1>1. Tagged(o).tag = Tagged(p).tag /\ Tagged(o).rest = Tagged(p).rest
  <2>1. PICK x, s : x = Tagged(o).tag /\ s = Tagged(o).rest
    OBVIOUS
  <2>2. PICK u, t : u = Tagged(p).tag /\ t = Tagged(p).rest
    OBVIOUS
  <2>3. x \in Byte /\ s \in Bytes /\ u \in Byte /\ t \in Bytes /\ <<x>> \o s = <<u>> \o t
    BY <2>1, <2>2, NodeBytes
  <2>4. /\ (<<x>> \o s)[1] = x /\ Tail(<<x>> \o s) = s
        /\ (<<u>> \o t)[1] = u /\ Tail(<<u>> \o t) = t
    BY <2>3, FirstByte
  <2> QED
    BY <2>1, <2>2, <2>3, <2>4
<1>2. o.tag \in {"empty", "leaf", "inner"} /\ p.tag \in {"empty", "leaf", "inner"}
  BY DEF Node
<1>3. o.tag = p.tag
  BY <1>1, <1>2 DEF Tagged
<1>4. CASE o.tag = "empty"
  <2>1. o = [tag |-> "empty"] /\ p = [tag |-> "empty"]
    BY <1>3, <1>4 DEF Node
  <2> QED
    BY <2>1
<1>5. CASE o.tag = "leaf"
  <2>1. /\ o \in [tag : {"leaf"}, label : Slbyte, val : Slbyte]
        /\ p \in [tag : {"leaf"}, label : Slbyte, val : Slbyte]
    BY <1>3, <1>5 DEF Node
  <2>2. o.label = p.label /\ o.val = p.val
    <3>1. TwoSlices(o.label, o.val) = TwoSlices(p.label, p.val)
      BY <1>1, <1>3, <1>5 DEF Tagged
    <3>2. o.label \in Slbyte /\ o.val \in Slbyte /\ p.label \in Slbyte /\ p.val \in Slbyte
      BY <2>1
    <3> QED
      BY <3>1, <3>2, SlicesApart
  <2> QED
    BY <2>1, <2>2
<1>6. CASE o.tag = "inner"
  <2>1. /\ o \in [tag : {"inner"}, hash0 : HashBytes, hash1 : HashBytes]
        /\ p \in [tag : {"inner"}, hash0 : HashBytes, hash1 : HashBytes]
    BY <1>3, <1>6 DEF Node
  <2>2. o.hash0 = p.hash0 /\ o.hash1 = p.hash1
    <3>1. PICK a, b, c, d : a = o.hash0 /\ b = o.hash1 /\ c = p.hash0 /\ d = p.hash1
      OBVIOUS
    <3>2. /\ a \in Bytes /\ b \in Bytes /\ c \in Bytes /\ d \in Bytes
          /\ Len(a) = HashLen /\ Len(c) = HashLen
      BY <2>1, <3>1 DEF HashBytes
    <3>3. a \o b = c \o d
      BY <1>1, <1>3, <1>6, <3>1 DEF Tagged
    <3>4. PICK hash : hash = a \o b
      OBVIOUS
    <3>5. SubSeq(hash, 1, HashLen) = a /\ SubSeq(hash, HashLen + 1, Len(hash)) = b
      BY <3>2, <3>4, Joined
    <3>6. SubSeq(hash, 1, HashLen) = c /\ SubSeq(hash, HashLen + 1, Len(hash)) = d
      BY <3>2, <3>3, <3>4, Joined
    <3> QED
      BY <3>1, <3>5, <3>6
  <2> QED
    BY <2>1, <2>2
<1> QED
  BY <1>2, <1>4, <1>5, <1>6

-----------------------------------------------------------------------------
(* Messages. *)

\* The types without flags and maps, with flags, and with maps.
ExactTypes ==
    {"PreSigDig", "SigDig", "MapLabelPre", "CommitOpen", "MapValPre", "Memb",
     "MembHide", "NonMemb", "ServerPutArg", "ServerGetArg", "ServerSelfMonArg",
     "ServerSelfMonReply", "ServerAuditArg", "AdtrGetArg", "AdtrEpochInfo"}

FlagTypes ==
    {"ServerPutReply", "ServerGetReply", "AdtrUpdateReply", "AdtrGetReply",
     "MerkleProof", "Prove", "Types"}

MapTypes == {"UpdateProof", "ServerAuditReply", "AdtrUpdateArg"}

\* There are no others.
LEMMA TypesCovered ==
    DOMAIN ValuesOf = ExactTypes \cup FlagTypes \cup MapTypes \cup {"Node"}
  BY DEF ValuesOf, ExactTypes, FlagTypes, MapTypes

\* The encodings of a type without maps.
Encoding(type) == [val \in ValuesOf[type] |-> Encode([type |-> type, val |-> val], <<>>)]

\* PreSigDig by its name.
LEMMA PreSigDigMessage ==
    /\ ValuesOf["PreSigDig"] = PreSigDig /\ Decoder["PreSigDig"] = PreSigDigDecode
    /\ Encoding("PreSigDig") = PreSigDigEnc
<1>1. ValuesOf["PreSigDig"] = PreSigDig /\ Decoder["PreSigDig"] = PreSigDigDecode
  BY DEF ValuesOf, Decoder
<1>2. ASSUME NEW val
      PROVE  Encode([type |-> "PreSigDig", val |-> val], <<>>) = PreSigDigEncode(val)
  BY DEF Encode
<1> QED
  BY <1>1, <1>2 DEF Encoding, PreSigDigEnc

\* SigDig by its name.
LEMMA SigDigMessage ==
    /\ ValuesOf["SigDig"] = SigDig /\ Decoder["SigDig"] = SigDigDecode
    /\ Encoding("SigDig") = SigDigEnc
<1>1. ValuesOf["SigDig"] = SigDig /\ Decoder["SigDig"] = SigDigDecode
  BY DEF ValuesOf, Decoder
<1>2. ASSUME NEW val
      PROVE  Encode([type |-> "SigDig", val |-> val], <<>>) = SigDigEncode(val)
  BY DEF Encode
<1> QED
  BY <1>1, <1>2 DEF Encoding, SigDigEnc

\* MapLabelPre by its name.
LEMMA MapLabelPreMessage ==
    /\ ValuesOf["MapLabelPre"] = MapLabelPre /\ Decoder["MapLabelPre"] = MapLabelPreDecode
    /\ Encoding("MapLabelPre") = MapLabelPreEnc
<1>1. ValuesOf["MapLabelPre"] = MapLabelPre /\ Decoder["MapLabelPre"] = MapLabelPreDecode
  BY DEF ValuesOf, Decoder
<1>2. ASSUME NEW val
      PROVE  Encode([type |-> "MapLabelPre", val |-> val], <<>>) = MapLabelPreEncode(val)
  BY DEF Encode
<1> QED
  BY <1>1, <1>2 DEF Encoding, MapLabelPreEnc

\* CommitOpen by its name.
LEMMA CommitOpenMessage ==
    /\ ValuesOf["CommitOpen"] = CommitOpen /\ Decoder["CommitOpen"] = CommitOpenDecode
    /\ Encoding("CommitOpen") = CommitOpenEnc
<1>1. ValuesOf["CommitOpen"] = CommitOpen /\ Decoder["CommitOpen"] = CommitOpenDecode
  BY DEF ValuesOf, Decoder
<1>2. ASSUME NEW val
      PROVE  Encode([type |-> "CommitOpen", val |-> val], <<>>) = CommitOpenEncode(val)
  BY DEF Encode
<1> QED
  BY <1>1, <1>2 DEF Encoding, CommitOpenEnc

\* MapValPre by its name.
LEMMA MapValPreMessage ==
    /\ ValuesOf["MapValPre"] = MapValPre /\ Decoder["MapValPre"] = MapValPreDecode
    /\ Encoding("MapValPre") = MapValPreEnc
<1>1. ValuesOf["MapValPre"] = MapValPre /\ Decoder["MapValPre"] = MapValPreDecode
  BY DEF ValuesOf, Decoder
<1>2. ASSUME NEW val
      PROVE  Encode([type |-> "MapValPre", val |-> val], <<>>) = MapValPreEncode(val)
  BY DEF Encode
<1> QED
  BY <1>1, <1>2 DEF Encoding, MapValPreEnc

\* Memb by its name.
LEMMA MembMessage ==
    /\ ValuesOf["Memb"] = Memb /\ Decoder["Memb"] = MembDecode
    /\ Encoding("Memb") = MembEnc
<1>1. ValuesOf["Memb"] = Memb /\ Decoder["Memb"] = MembDecode
  BY DEF ValuesOf, Decoder
<1>2. ASSUME NEW val
      PROVE  Encode([type |-> "Memb", val |-> val], <<>>) = MembEncode(val)
  BY DEF Encode
<1> QED
  BY <1>1, <1>2 DEF Encoding, MembEnc

\* MembHide by its name.
LEMMA MembHideMessage ==
    /\ ValuesOf["MembHide"] = MembHide /\ Decoder["MembHide"] = MembHideDecode
    /\ Encoding("MembHide") = MembHideEnc
<1>1. ValuesOf["MembHide"] = MembHide /\ Decoder["MembHide"] = MembHideDecode
  BY DEF ValuesOf, Decoder
<1>2. ASSUME NEW val
      PROVE  Encode([type |-> "MembHide", val |-> val], <<>>) = MembHideEncode(val)
  BY DEF Encode
<1> QED
  BY <1>1, <1>2 DEF Encoding, MembHideEnc

\* NonMemb by its name.
LEMMA NonMembMessage ==
    /\ ValuesOf["NonMemb"] = NonMemb /\ Decoder["NonMemb"] = NonMembDecode
    /\ Encoding("NonMemb") = NonMembEnc
<1>1. ValuesOf["NonMemb"] = NonMemb /\ Decoder["NonMemb"] = NonMembDecode
  BY DEF ValuesOf, Decoder
<1>2. ASSUME NEW val
      PROVE  Encode([type |-> "NonMemb", val |-> val], <<>>) = NonMembEncode(val)
  BY DEF Encode
<1> QED
  BY <1>1, <1>2 DEF Encoding, NonMembEnc

\* ServerPutArg by its name.
LEMMA ServerPutArgMessage ==
    /\ ValuesOf["ServerPutArg"] = ServerPutArg
         /\ Decoder["ServerPutArg"] = ServerPutArgDecode
    /\ Encoding("ServerPutArg") = ServerPutArgEnc
<1>1. ValuesOf["ServerPutArg"] = ServerPutArg
        /\ Decoder["ServerPutArg"] = ServerPutArgDecode
  BY DEF ValuesOf, Decoder
<1>2. ASSUME NEW val
      PROVE  Encode([type |-> "ServerPutArg", val |-> val], <<>>) = ServerPutArgEncode(val)
  BY DEF Encode
<1> QED
  BY <1>1, <1>2 DEF Encoding, ServerPutArgEnc

\* ServerGetArg by its name.
LEMMA ServerGetArgMessage ==
    /\ ValuesOf["ServerGetArg"] = ServerGetArg
         /\ Decoder["ServerGetArg"] = ServerGetArgDecode
    /\ Encoding("ServerGetArg") = ServerGetArgEnc
<1>1. ValuesOf["ServerGetArg"] = ServerGetArg
        /\ Decoder["ServerGetArg"] = ServerGetArgDecode
  BY DEF ValuesOf, Decoder
<1>2. ASSUME NEW val
      PROVE  Encode([type |-> "ServerGetArg", val |-> val], <<>>) = ServerGetArgEncode(val)
  BY DEF Encode
<1> QED
  BY <1>1, <1>2 DEF Encoding, ServerGetArgEnc

\* ServerSelfMonArg by its name.
LEMMA ServerSelfMonArgMessage ==
    /\ ValuesOf["ServerSelfMonArg"] = ServerSelfMonArg
         /\ Decoder["ServerSelfMonArg"] = ServerSelfMonArgDecode
    /\ Encoding("ServerSelfMonArg") = ServerSelfMonArgEnc
<1>1. ValuesOf["ServerSelfMonArg"] = ServerSelfMonArg
        /\ Decoder["ServerSelfMonArg"] = ServerSelfMonArgDecode
  BY DEF ValuesOf, Decoder
<1>2. ASSUME NEW val
      PROVE  Encode([type |-> "ServerSelfMonArg", val |-> val], <<>>)
               = ServerSelfMonArgEncode(val)
  BY DEF Encode
<1> QED
  BY <1>1, <1>2 DEF Encoding, ServerSelfMonArgEnc

\* ServerSelfMonReply by its name.
LEMMA ServerSelfMonReplyMessage ==
    /\ ValuesOf["ServerSelfMonReply"] = ServerSelfMonReply
         /\ Decoder["ServerSelfMonReply"] = ServerSelfMonReplyDecode
    /\ Encoding("ServerSelfMonReply") = ServerSelfMonReplyEnc
<1>1. ValuesOf["ServerSelfMonReply"] = ServerSelfMonReply
        /\ Decoder["ServerSelfMonReply"] = ServerSelfMonReplyDecode
  BY DEF ValuesOf, Decoder
<1>2. ASSUME NEW val
      PROVE  Encode([type |-> "ServerSelfMonReply", val |-> val], <<>>)
               = ServerSelfMonReplyEncode(val)
  BY DEF Encode
<1> QED
  BY <1>1, <1>2 DEF Encoding, ServerSelfMonReplyEnc

\* ServerAuditArg by its name.
LEMMA ServerAuditArgMessage ==
    /\ ValuesOf["ServerAuditArg"] = ServerAuditArg
         /\ Decoder["ServerAuditArg"] = ServerAuditArgDecode
    /\ Encoding("ServerAuditArg") = ServerAuditArgEnc
<1>1. ValuesOf["ServerAuditArg"] = ServerAuditArg
        /\ Decoder["ServerAuditArg"] = ServerAuditArgDecode
  BY DEF ValuesOf, Decoder
<1>2. ASSUME NEW val
      PROVE  Encode([type |-> "ServerAuditArg", val |-> val], <<>>)
               = ServerAuditArgEncode(val)
  BY DEF Encode
<1> QED
  BY <1>1, <1>2 DEF Encoding, ServerAuditArgEnc

\* AdtrGetArg by its name.
LEMMA AdtrGetArgMessage ==
    /\ ValuesOf["AdtrGetArg"] = AdtrGetArg /\ Decoder["AdtrGetArg"] = AdtrGetArgDecode
    /\ Encoding("AdtrGetArg") = AdtrGetArgEnc
<1>1. ValuesOf["AdtrGetArg"] = AdtrGetArg /\ Decoder["AdtrGetArg"] = AdtrGetArgDecode
  BY DEF ValuesOf, Decoder
<1>2. ASSUME NEW val
      PROVE  Encode([type |-> "AdtrGetArg", val |-> val], <<>>) = AdtrGetArgEncode(val)
  BY DEF Encode
<1> QED
  BY <1>1, <1>2 DEF Encoding, AdtrGetArgEnc

\* AdtrEpochInfo by its name.
LEMMA AdtrEpochInfoMessage ==
    /\ ValuesOf["AdtrEpochInfo"] = AdtrEpochInfo
         /\ Decoder["AdtrEpochInfo"] = AdtrEpochInfoDecode
    /\ Encoding("AdtrEpochInfo") = AdtrEpochInfoEnc
<1>1. ValuesOf["AdtrEpochInfo"] = AdtrEpochInfo
        /\ Decoder["AdtrEpochInfo"] = AdtrEpochInfoDecode
  BY DEF ValuesOf, Decoder
<1>2. ASSUME NEW val
      PROVE  Encode([type |-> "AdtrEpochInfo", val |-> val], <<>>)
               = AdtrEpochInfoEncode(val)
  BY DEF Encode
<1> QED
  BY <1>1, <1>2 DEF Encoding, AdtrEpochInfoEnc

\* ServerPutReply by its name.
LEMMA ServerPutReplyMessage ==
    /\ ValuesOf["ServerPutReply"] = ServerPutReply
         /\ Decoder["ServerPutReply"] = ServerPutReplyDecode
    /\ Encoding("ServerPutReply") = ServerPutReplyEnc
<1>1. ValuesOf["ServerPutReply"] = ServerPutReply
        /\ Decoder["ServerPutReply"] = ServerPutReplyDecode
  BY DEF ValuesOf, Decoder
<1>2. ASSUME NEW val
      PROVE  Encode([type |-> "ServerPutReply", val |-> val], <<>>)
               = ServerPutReplyEncode(val)
  BY DEF Encode
<1> QED
  BY <1>1, <1>2 DEF Encoding, ServerPutReplyEnc

\* ServerGetReply by its name.
LEMMA ServerGetReplyMessage ==
    /\ ValuesOf["ServerGetReply"] = ServerGetReply
         /\ Decoder["ServerGetReply"] = ServerGetReplyDecode
    /\ Encoding("ServerGetReply") = ServerGetReplyEnc
<1>1. ValuesOf["ServerGetReply"] = ServerGetReply
        /\ Decoder["ServerGetReply"] = ServerGetReplyDecode
  BY DEF ValuesOf, Decoder
<1>2. ASSUME NEW val
      PROVE  Encode([type |-> "ServerGetReply", val |-> val], <<>>)
               = ServerGetReplyEncode(val)
  BY DEF Encode
<1> QED
  BY <1>1, <1>2 DEF Encoding, ServerGetReplyEnc

\* AdtrUpdateReply by its name.
LEMMA AdtrUpdateReplyMessage ==
    /\ ValuesOf["AdtrUpdateReply"] = AdtrUpdateReply
         /\ Decoder["AdtrUpdateReply"] = AdtrUpdateReplyDecode
    /\ Encoding("AdtrUpdateReply") = AdtrUpdateReplyEnc
<1>1. ValuesOf["AdtrUpdateReply"] = AdtrUpdateReply
        /\ Decoder["AdtrUpdateReply"] = AdtrUpdateReplyDecode
  BY DEF ValuesOf, Decoder
<1>2. ASSUME NEW val
      PROVE  Encode([type |-> "AdtrUpdateReply", val |-> val], <<>>)
               = AdtrUpdateReplyEncode(val)
  BY DEF Encode
<1> QED
  BY <1>1, <1>2 DEF Encoding, AdtrUpdateReplyEnc

\* AdtrGetReply by its name.
LEMMA AdtrGetReplyMessage ==
    /\ ValuesOf["AdtrGetReply"] = AdtrGetReply
         /\ Decoder["AdtrGetReply"] = AdtrGetReplyDecode
    /\ Encoding("AdtrGetReply") = AdtrGetReplyEnc
<1>1. ValuesOf["AdtrGetReply"] = AdtrGetReply
        /\ Decoder["AdtrGetReply"] = AdtrGetReplyDecode
  BY DEF ValuesOf, Decoder
<1>2. ASSUME NEW val
      PROVE  Encode([type |-> "AdtrGetReply", val |-> val], <<>>) = AdtrGetReplyEncode(val)
  BY DEF Encode
<1> QED
  BY <1>1, <1>2 DEF Encoding, AdtrGetReplyEnc

\* MerkleProof by its name.
LEMMA MerkleProofMessage ==
    /\ ValuesOf["MerkleProof"] = MerkleProof /\ Decoder["MerkleProof"] = MerkleProofDecode
    /\ Encoding("MerkleProof") = MerkleProofEnc
<1>1. ValuesOf["MerkleProof"] = MerkleProof /\ Decoder["MerkleProof"] = MerkleProofDecode
  BY DEF ValuesOf, Decoder
<1>2. ASSUME NEW val
      PROVE  Encode([type |-> "MerkleProof", val |-> val], <<>>) = MerkleProofEncode(val)
  BY DEF Encode
<1> QED
  BY <1>1, <1>2 DEF Encoding, MerkleProofEnc

\* Types by its name.
LEMMA TypesMessage ==
    /\ ValuesOf["Types"] = Args /\ Decoder["Types"] = TypesDecode
    /\ Encoding("Types") = ArgsEnc
<1>1. ValuesOf["Types"] = Args /\ Decoder["Types"] = TypesDecode
  BY DEF ValuesOf, Decoder
<1>2. ASSUME NEW val
      PROVE  Encode([type |-> "Types", val |-> val], <<>>) = TypesEncode(val)
  BY DEF Encode
<1> QED
  BY <1>1, <1>2 DEF Encoding, ArgsEnc

\* Prove by its name.
LEMMA ProveMessage ==
    /\ ValuesOf["Prove"] = Proved /\ Decoder["Prove"] = MerkleProofDecode
    /\ Encoding("Prove") = [val \in Proved |-> ProveBytes(val)]
<1>1. ValuesOf["Prove"] = Proved /\ Decoder["Prove"] = MerkleProofDecode
  BY DEF ValuesOf, Decoder
<1>2. ASSUME NEW val
      PROVE  Encode([type |-> "Prove", val |-> val], <<>>) = ProveBytes(val)
  BY DEF Encode
<1> QED
  BY <1>1, <1>2 DEF Encoding

\* Types without flags and maps have exact codecs,
LEMMA ExactMessages ==
    \A type \in ExactTypes :
        /\ Codec(Decoder[type], ValuesOf[type], Encoding(type))
        /\ Exact(Decoder[type], ValuesOf[type], Encoding(type))
<1>1. /\ Codec(Decoder["PreSigDig"], ValuesOf["PreSigDig"], Encoding("PreSigDig"))
     /\ Exact(Decoder["PreSigDig"], ValuesOf["PreSigDig"], Encoding("PreSigDig"))
  BY PreSigDigCodec, PreSigDigMessage
<1>2. /\ Codec(Decoder["SigDig"], ValuesOf["SigDig"], Encoding("SigDig"))
     /\ Exact(Decoder["SigDig"], ValuesOf["SigDig"], Encoding("SigDig"))
  BY SigDigCodec, SigDigMessage
<1>3. /\ Codec(Decoder["MapLabelPre"], ValuesOf["MapLabelPre"], Encoding("MapLabelPre"))
     /\ Exact(Decoder["MapLabelPre"], ValuesOf["MapLabelPre"], Encoding("MapLabelPre"))
  BY MapLabelPreCodec, MapLabelPreMessage
<1>4. /\ Codec(Decoder["CommitOpen"], ValuesOf["CommitOpen"], Encoding("CommitOpen"))
     /\ Exact(Decoder["CommitOpen"], ValuesOf["CommitOpen"], Encoding("CommitOpen"))
  BY CommitOpenCodec, CommitOpenMessage
<1>5. /\ Codec(Decoder["MapValPre"], ValuesOf["MapValPre"], Encoding("MapValPre"))
     /\ Exact(Decoder["MapValPre"], ValuesOf["MapValPre"], Encoding("MapValPre"))
  BY MapValPreCodec, MapValPreMessage
<1>6. /\ Codec(Decoder["Memb"], ValuesOf["Memb"], Encoding("Memb"))
     /\ Exact(Decoder["Memb"], ValuesOf["Memb"], Encoding("Memb"))
  BY MembCodec, MembMessage
<1>7. /\ Codec(Decoder["MembHide"], ValuesOf["MembHide"], Encoding("MembHide"))
     /\ Exact(Decoder["MembHide"], ValuesOf["MembHide"], Encoding("MembHide"))
  BY MembHideCodec, MembHideMessage
<1>8. /\ Codec(Decoder["NonMemb"], ValuesOf["NonMemb"], Encoding("NonMemb"))
     /\ Exact(Decoder["NonMemb"], ValuesOf["NonMemb"], Encoding("NonMemb"))
  BY NonMembCodec, NonMembMessage
<1>9. /\ Codec(Decoder["ServerPutArg"], ValuesOf["ServerPutArg"], Encoding("ServerPutArg"))
     /\ Exact(Decoder["ServerPutArg"], ValuesOf["ServerPutArg"], Encoding("ServerPutArg"))
  BY ServerPutArgCodec, ServerPutArgMessage
<1>10. /\ Codec(Decoder["ServerGetArg"], ValuesOf["ServerGetArg"], Encoding("ServerGetArg"))
     /\ Exact(Decoder["ServerGetArg"], ValuesOf["ServerGetArg"], Encoding("ServerGetArg"))
  BY ServerGetArgCodec, ServerGetArgMessage
<1>11. /\ Codec(Decoder["ServerSelfMonArg"], ValuesOf["ServerSelfMonArg"],
            Encoding("ServerSelfMonArg"))
     /\ Exact(Decoder["ServerSelfMonArg"], ValuesOf["ServerSelfMonArg"],
          Encoding("ServerSelfMonArg"))
  BY ServerSelfMonArgCodec, ServerSelfMonArgMessage
<1>12. /\ Codec(Decoder["ServerSelfMonReply"], ValuesOf["ServerSelfMonReply"],
            Encoding("ServerSelfMonReply"))
     /\ Exact(Decoder["ServerSelfMonReply"], ValuesOf["ServerSelfMonReply"],
          Encoding("ServerSelfMonReply"))
  BY ServerSelfMonReplyCodec, ServerSelfMonReplyMessage
<1>13. /\ Codec(Decoder["ServerAuditArg"], ValuesOf["ServerAuditArg"],
            Encoding("ServerAuditArg"))
     /\ Exact(Decoder["ServerAuditArg"], ValuesOf["ServerAuditArg"],
          Encoding("ServerAuditArg"))
  BY ServerAuditArgCodec, ServerAuditArgMessage
<1>14. /\ Codec(Decoder["AdtrGetArg"], ValuesOf["AdtrGetArg"], Encoding("AdtrGetArg"))
     /\ Exact(Decoder["AdtrGetArg"], ValuesOf["AdtrGetArg"], Encoding("AdtrGetArg"))
  BY AdtrGetArgCodec, AdtrGetArgMessage
<1>15. /\ Codec(Decoder["AdtrEpochInfo"], ValuesOf["AdtrEpochInfo"],
            Encoding("AdtrEpochInfo"))
     /\ Exact(Decoder["AdtrEpochInfo"], ValuesOf["AdtrEpochInfo"],
          Encoding("AdtrEpochInfo"))
  BY AdtrEpochInfoCodec, AdtrEpochInfoMessage
<1> QED
  BY <1>1, <1>2, <1>3, <1>4, <1>5, <1>6, <1>7, <1>8, <1>9, <1>10, <1>11, <1>12,
      <1>13, <1>14, <1>15 DEF ExactTypes

\* and those with flags have codecs.
LEMMA FlagMessages ==
    \A type \in FlagTypes : Codec(Decoder[type], ValuesOf[type], Encoding(type))
<1>1. Codec(Decoder["ServerPutReply"], ValuesOf["ServerPutReply"],
        Encoding("ServerPutReply"))
  BY ServerPutReplyCodec, ServerPutReplyMessage
<1>2. Codec(Decoder["ServerGetReply"], ValuesOf["ServerGetReply"],
        Encoding("ServerGetReply"))
  BY ServerGetReplyCodec, ServerGetReplyMessage
<1>3. Codec(Decoder["AdtrUpdateReply"], ValuesOf["AdtrUpdateReply"],
        Encoding("AdtrUpdateReply"))
  BY AdtrUpdateReplyCodec, AdtrUpdateReplyMessage
<1>4. Codec(Decoder["AdtrGetReply"], ValuesOf["AdtrGetReply"], Encoding("AdtrGetReply"))
  BY AdtrGetReplyCodec, AdtrGetReplyMessage
<1>5. Codec(Decoder["MerkleProof"], ValuesOf["MerkleProof"], Encoding("MerkleProof"))
  BY MerkleProofCodec, MerkleProofMessage
<1>6. Codec(Decoder["Types"], ValuesOf["Types"], Encoding("Types"))
  BY ArgsCodec, TypesMessage
<1>7. Codec(Decoder["Prove"], ValuesOf["Prove"], Encoding("Prove"))
  <2>1. ASSUME NEW val \in Proved
        PROVE  Encoding("Prove")[val] = MerkleProofEnc[val] /\ val \in MerkleProof
    <3>1. val \in MerkleProof
      BY DEF Proved
    <3> QED
      BY <3>1, ProveMessage, ProveIsProof DEF MerkleProofEnc
  <2> QED
    BY <2>1, MerkleProofCodec, ProveMessage DEF Codec
<1> QED
  BY <1>1, <1>2, <1>3, <1>4, <1>5, <1>6, <1>7 DEF FlagTypes

\* A message is decoded from its encoding, and a decoder is decided by the bytes
\* that it reads.
LEMMA MessageCodec ==
    ASSUME NEW m \in Messages, m.type # "Node", NEW order \in Orders(m)
    PROVE  Local(Decoder[m.type]) /\ Reads(Decoder[m.type], Encode(m, order), m.val)
<1>1. /\ m = [type |-> m.type, val |-> m.val] /\ m.val \in ValuesOf[m.type]
      /\ m.type \in ExactTypes \cup FlagTypes \cup MapTypes
  BY MessagesAssumption, TypesCovered
<1>2. CASE m.type \in ExactTypes \cup FlagTypes
  <2>1. Codec(Decoder[m.type], ValuesOf[m.type], Encoding(m.type))
    BY <1>2, ExactMessages, FlagMessages
  <2>2. order = <<>>
    BY <1>2 DEF Orders, ExactTypes, FlagTypes
  <2>3. Encoding(m.type)[m.val] = Encode(m, order)
    BY <1>1, <2>2 DEF Encoding
  <2> QED
    BY <1>1, <2>1, <2>3 DEF Codec
<1>3. CASE m.type = "UpdateProof"
  <2>1. ValuesOf["UpdateProof"] = UpdateProof /\ Decoder["UpdateProof"] = UpdateProofDecode
    BY DEF ValuesOf, Decoder
  <2>2. PICK o, u : o = m.val /\ u = o.Updates
    OBVIOUS
  <2>3. u \in Updates /\ o \in UpdateProofOf(u)
    BY <1>1, <1>3, <2>1, <2>2 DEF UpdateProof, UpdateProofOf
  <2>4. order \in SetToSeqs(DOMAIN u)
    BY <1>3, <2>2 DEF Orders
  <2>5. Encode(m, order) = UpdateProofEncode(o, order)
    BY <1>3, <2>2 DEF Encode
  <2>6. Codec(UpdateProofDecode, UpdateProofOf(u), UpdateProofEnc(u, order))
    BY <2>3, <2>4, UpdateProofCodec
  <2>7. UpdateProofEnc(u, order)[o] = UpdateProofEncode(o, order)
    BY <2>3 DEF UpdateProofEnc
  <2> QED
    BY <1>3, <2>1, <2>2, <2>3, <2>5, <2>6, <2>7 DEF Codec
<1>4. CASE m.type = "ServerAuditReply"
  <2>1. /\ ValuesOf["ServerAuditReply"] = ServerAuditReply
        /\ Decoder["ServerAuditReply"] = ServerAuditReplyDecode
    BY DEF ValuesOf, Decoder
  <2>2. PICK o, u : o = m.val /\ u = o.P.Updates
    OBVIOUS
  <2>3. u \in Updates /\ o \in ServerAuditReplyOf(u)
    BY <1>1, <1>4, <2>1, <2>2
    DEF ServerAuditReply, ServerAuditReplyOf, UpdateProof, UpdateProofOf
  <2>4. order \in SetToSeqs(DOMAIN u)
    BY <1>4, <2>2 DEF Orders
  <2>5. Encode(m, order) = ServerAuditReplyEncode(o, order)
    BY <1>4, <2>2 DEF Encode
  <2>6. Codec(ServerAuditReplyDecode, ServerAuditReplyOf(u), ServerAuditReplyEnc(u, order))
    BY <2>3, <2>4, ServerAuditReplyCodec
  <2>7. ServerAuditReplyEnc(u, order)[o] = ServerAuditReplyEncode(o, order)
    BY <2>3 DEF ServerAuditReplyEnc
  <2> QED
    BY <1>4, <2>1, <2>2, <2>3, <2>5, <2>6, <2>7 DEF Codec
<1>5. CASE m.type = "AdtrUpdateArg"
  <2>1. /\ ValuesOf["AdtrUpdateArg"] = AdtrUpdateArg
        /\ Decoder["AdtrUpdateArg"] = AdtrUpdateArgDecode
    BY DEF ValuesOf, Decoder
  <2>2. PICK o, u : o = m.val /\ u = o.P.Updates
    OBVIOUS
  <2>3. u \in Updates /\ o \in AdtrUpdateArgOf(u)
    BY <1>1, <1>5, <2>1, <2>2 DEF AdtrUpdateArg, AdtrUpdateArgOf, UpdateProof, UpdateProofOf
  <2>4. order \in SetToSeqs(DOMAIN u)
    BY <1>5, <2>2 DEF Orders
  <2>5. Encode(m, order) = AdtrUpdateArgEncode(o, order)
    BY <1>5, <2>2 DEF Encode
  <2>6. Codec(AdtrUpdateArgDecode, AdtrUpdateArgOf(u), AdtrUpdateArgEnc(u, order))
    BY <2>3, <2>4, AdtrUpdateArgCodec
  <2>7. AdtrUpdateArgEnc(u, order)[o] = AdtrUpdateArgEncode(o, order)
    BY <2>3 DEF AdtrUpdateArgEnc
  <2> QED
    BY <1>5, <2>1, <2>2, <2>3, <2>5, <2>6, <2>7 DEF Codec
<1> QED
  BY <1>1, <1>2, <1>3, <1>4, <1>5 DEF MapTypes

-----------------------------------------------------------------------------
(* A message on its way. *)

\* What the bytes have become, from the encoding that was sent.
Became(sent) ==
    /\ change = "none" => bytes = sent
    /\ change = "cut" => \E rest \in Bytes : Len(rest) > 0 /\ sent = bytes \o rest
    /\ change = "extended" => \E byte \in Byte : bytes = sent \o <<byte>>

\* The inductive invariant: the bytes come from an encoding of the message.
OnTheWay ==
    /\ msg \in Messages /\ bytes \in Bytes
    /\ \E order \in Orders(msg) : Became(Encode(msg, order))

\* Encodings are bytes.
LEMMA Encoded ==
    ASSUME NEW m \in Messages, NEW order \in Orders(m)
    PROVE  Encode(m, order) \in Bytes
<1>1. CASE m.type = "Node"
  <2>1. m.val \in Node
    BY <1>1, MessagesAssumption DEF ValuesOf
  <2>2. Encode(m, order) = NodeEncode(m.val)
    BY <1>1 DEF Encode
  <2>3. PICK x, rest : x = Tagged(m.val).tag /\ rest = Tagged(m.val).rest
    OBVIOUS
  <2>4. x \in Byte /\ rest \in Bytes /\ NodeEncode(m.val) = <<x>> \o rest
    BY <2>1, <2>3, NodeBytes
  <2>5. <<x>> \o rest \in Bytes
    BY <2>4, FirstByte
  <2> QED
    BY <2>2, <2>4, <2>5
<1>2. CASE m.type # "Node"
  BY <1>2, MessageCodec DEF Reads
<1> QED
  BY <1>1, <1>2

\* It is one.
LEMMA OnTheWayInvariant == WireSpec => []OnTheWay
<1>1. WireInit => OnTheWay
  <2> SUFFICES ASSUME WireInit PROVE OnTheWay
    OBVIOUS
  <2>1. PICK order \in Orders(msg) : bytes = Encode(msg, order)
    BY DEF WireInit
  <2>2. msg \in Messages /\ change = "none"
    BY DEF WireInit
  <2> QED
    BY <2>1, <2>2, Encoded DEF OnTheWay, Became
<1>2. OnTheWay /\ [WireNext]_wireVars => OnTheWay'
  <2> SUFFICES ASSUME OnTheWay, [WireNext]_wireVars PROVE OnTheWay'
    OBVIOUS
  <2>1. msg \in Messages /\ bytes \in Bytes
    BY DEF OnTheWay
  <2>2. PICK order \in Orders(msg) : Became(Encode(msg, order))
    BY DEF OnTheWay
  <2>3. PICK sent : sent = Encode(msg, order)
    OBVIOUS
  <2>4. CASE Cut
    <3>1. PICK n \in 0..(Len(bytes) - 1) : bytes' = SubSeq(bytes, 1, n)
      BY <2>4 DEF Cut
    <3>2. change = "none" /\ change' = "cut" /\ msg' = msg
      BY <2>4 DEF Cut
    <3>3. n \in 0..Len(bytes) /\ n < Len(bytes) /\ Len(bytes) \in Nat /\ n \in Nat
      BY <2>1, <3>1, Concats
    <3>4. PICK rest : rest = SubSeq(bytes, n + 1, Len(bytes))
      OBVIOUS
    <3>5. bytes' \in Bytes /\ Len(bytes') = n /\ rest \in Bytes /\ bytes = bytes' \o rest
      BY <2>1, <3>1, <3>3, <3>4, Split
    <3>6. Len(bytes) = n + Len(rest) /\ Len(rest) \in Nat
      BY <3>5, Concats
    <3>7. Len(rest) > 0
      BY <3>3, <3>6
    <3>8. bytes = sent
      BY <2>2, <2>3, <3>2 DEF Became
    <3>9. Became(sent)'
      BY <3>2, <3>5, <3>7, <3>8 DEF Became
    <3> QED
      BY <2>1, <2>3, <3>2, <3>5, <3>9 DEF OnTheWay
  <2>5. CASE Extend
    <3>1. PICK byte \in Byte : bytes' = Append(bytes, byte)
      BY <2>5 DEF Extend
    <3>2. change = "none" /\ change' = "extended" /\ msg' = msg
      BY <2>5 DEF Extend
    <3>3. bytes' = bytes \o <<byte>> /\ bytes' \in Bytes
      BY <2>1, <3>1, AppendIsConcat, AppendProperties DEF Bytes
    <3>4. bytes = sent
      BY <2>2, <2>3, <3>2 DEF Became
    <3>5. Became(sent)'
      BY <3>2, <3>3, <3>4 DEF Became
    <3> QED
      BY <2>1, <2>3, <3>2, <3>3, <3>5 DEF OnTheWay
  <2>6. CASE Alter
    <3>1. PICK i \in DOMAIN bytes, byte \in Byte : bytes' = [bytes EXCEPT ![i] = byte]
      BY <2>6 DEF Alter
    <3>2. change' = "altered" /\ msg' = msg
      BY <2>6 DEF Alter
    <3>3. bytes' \in Bytes
      BY <2>1, <3>1 DEF Bytes
    <3>4. Became(sent)'
      BY <3>2 DEF Became
    <3> QED
      BY <2>1, <2>3, <3>2, <3>3, <3>4 DEF OnTheWay
  <2>7. CASE UNCHANGED wireVars
    BY <2>1, <2>2, <2>7 DEF OnTheWay, Became, wireVars
  <2> QED
    BY <2>4, <2>5, <2>6, <2>7 DEF WireNext
<1> QED
  BY <1>1, <1>2, PTL DEF WireSpec

\* kt/serde.out.go and merkle.go: whatever the messages, the width of integers
\* and the order of a map's entries, what was encoded is decoded, what follows is
\* left alone, and a message that is cut anywhere is refused.
THEOREM MessagesRoundTrip == WireSpec => []RoundTrip
<1>1. OnTheWay => RoundTrip
  <2> SUFFICES ASSUME OnTheWay, IsMessage
               PROVE  /\ change \in {"none", "extended"} =>
                            /\ ~Decoded.err
                            /\ Decoded.val = msg.val
                            /\ Len(Decoded.rest) = IF change = "none" THEN 0 ELSE 1
                      /\ change = "cut" => Decoded.err
    BY DEF RoundTrip
  <2>1. PICK order \in Orders(msg) : Became(Encode(msg, order))
    BY DEF OnTheWay
  <2>2. PICK sent, reader, o :
          sent = Encode(msg, order) /\ reader = Decoder[msg.type] /\ o = msg.val
    OBVIOUS
  <2>3. Local(reader) /\ Reads(reader, sent, o)
    BY <2>2, MessageCodec DEF OnTheWay, IsMessage
  <2>4. Decoded = reader[bytes] /\ Became(sent) /\ bytes \in Bytes /\ sent \in Bytes
    BY <2>1, <2>2, <2>3 DEF Decoded, Decode, OnTheWay, Reads
  <2>5. ASSUME change = "none"
        PROVE  ~Decoded.err /\ Decoded.val = msg.val /\ Len(Decoded.rest) = 0
    <3>1. bytes = sent \o <<>>
      BY <2>4, <2>5, Concats DEF Became
    <3>2. Decoded = Ok(o, <<>>)
      BY <2>3, <2>4, <3>1, Concats DEF Reads
    <3> QED
      BY <2>2, <3>2, ResultFacts DEF Results
  <2>6. ASSUME change = "extended"
        PROVE  ~Decoded.err /\ Decoded.val = msg.val /\ Len(Decoded.rest) = 1
    <3>1. PICK byte \in Byte : bytes = sent \o <<byte>>
      BY <2>4, <2>6 DEF Became
    <3>2. <<byte>> \in Bytes /\ Len(<<byte>>) = 1
      BY FirstByte, Concats
    <3>3. Decoded = Ok(o, <<byte>>)
      BY <2>3, <2>4, <3>1, <3>2 DEF Reads
    <3> QED
      BY <2>2, <3>2, <3>3, ResultFacts DEF Results
  <2>7. ASSUME change = "cut"
        PROVE  Decoded.err
    <3>1. PICK rest \in Bytes : Len(rest) > 0 /\ sent = bytes \o rest
      BY <2>4, <2>7 DEF Became
    <3>2. SUFFICES ASSUME ~reader[bytes].err PROVE FALSE
      BY <2>4
    <3>3. PICK left, val : left = reader[bytes].rest /\ val = reader[bytes].val
      OBVIOUS
    <3>4. left \in Bytes /\ \E enc \in Bytes : bytes = enc \o left
            /\ Reads(reader, enc, val)
      BY <2>3, <2>4, <3>2, <3>3 DEF Local
    <3>5. PICK enc \in Bytes : bytes = enc \o left /\ Reads(reader, enc, val)
      BY <3>4
    <3>6. sent = enc \o (left \o rest)
      BY <3>1, <3>4, <3>5, Regrouped
    <3>7. left \o rest \in Bytes /\ Len(left \o rest) = Len(left) + Len(rest)
          /\ Len(left) \in Nat /\ Len(rest) \in Nat
      BY <3>1, <3>4, Concats
    <3>8. reader[sent] = Ok(val, left \o rest)
      BY <3>5, <3>6, <3>7 DEF Reads
    <3>9. reader[sent] = Ok(o, <<>>)
      <4>1. reader[sent \o <<>>] = Ok(o, <<>>)
        BY <2>3, Concats DEF Reads
      <4> QED
        BY <2>4, <4>1, Concats
    <3>10. left \o rest = <<>>
      <4>1. PICK after : after = left \o rest
        OBVIOUS
      <4>2. Ok(val, after) = Ok(o, <<>>)
        BY <3>8, <3>9, <4>1
      <4>3. Ok(val, after).rest = after /\ Ok(o, <<>>).rest = <<>>
        BY ResultFacts DEF Results
      <4> QED
        BY <4>1, <4>2, <4>3
    <3>11. Len(left \o rest) = 0
      BY <3>10
    <3> QED
      BY <3>1, <3>7, <3>11
  <2> QED
    BY <2>5, <2>6, <2>7
<1> QED
  BY <1>1, OnTheWayInvariant, PTL

\* kt/serde.out.go, kt/auditor.go ("val bytes exactly encode MapVal"): bytes that
\* decode are the encoding of the value, for every type without flags and maps,
\* also bytes that nobody encoded.
THEOREM EncodingsAreExact == WireSpec => []ExactlyEncodes
<1>1. OnTheWay => ExactlyEncodes
  <2> SUFFICES ASSUME OnTheWay, IsMessage, ~HasFlags, ~Decoded.err
               PROVE  bytes = Encode([type |-> msg.type, val |-> Decoded.val], <<>>)
                                \o Decoded.rest
    BY DEF ExactlyEncodes
  <2>1. msg.type \in ExactTypes
    <3>1. msg.type \in DOMAIN ValuesOf /\ msg.type # "Node"
      BY MessagesAssumption DEF OnTheWay, IsMessage
    <3> QED
      BY <3>1, TypesCovered DEF HasFlags, FlagTypes, MapTypes
  <2>2. PICK type, reader : type = msg.type /\ reader = Decoder[type]
    OBVIOUS
  <2>3. Exact(reader, ValuesOf[type], Encoding(type))
    BY <2>1, <2>2, ExactMessages
  <2>4. Decoded = reader[bytes] /\ bytes \in Bytes
    BY <2>2 DEF Decoded, Decode, OnTheWay
  <2>5. Decoded.val \in ValuesOf[type]
          /\ bytes = Encoding(type)[Decoded.val] \o Decoded.rest
    BY <2>3, <2>4 DEF Exact
  <2>6. Encoding(type)[Decoded.val] = Encode([type |-> type, val |-> Decoded.val], <<>>)
    BY <2>5 DEF Encoding
  <2> QED
    BY <2>2, <2>5, <2>6
<1> QED
  BY <1>1, OnTheWayInvariant, PTL

\* merkle.go: no two nodes, empty, leaf or inner, are hashed from the same bytes.
THEOREM NodesHashedApart == WireSpec => []HashInputsDistinct
<1>1. OnTheWay => HashInputsDistinct
  <2> SUFFICES ASSUME OnTheWay, ~IsMessage, NEW o \in Nodes,
                      NodeEncode(o) = bytes, change = "none"
               PROVE  o = msg.val
    BY DEF HashInputsDistinct
  <2>1. msg \in Messages /\ msg.type = "Node"
    BY DEF OnTheWay, IsMessage
  <2>2. ValuesOf["Node"] = Node
    BY DEF ValuesOf
  <2>3. msg.val \in Node
    BY <2>1, <2>2, MessagesAssumption
  <2>4. o \in Node
    BY <2>2, MessagesAssumption DEF Nodes
  <2>5. bytes = NodeEncode(msg.val)
    <3>1. PICK order \in Orders(msg) : bytes = Encode(msg, order)
      BY DEF OnTheWay, Became
    <3> QED
      BY <2>1, <3>1 DEF Encode
  <2> QED
    BY <2>3, <2>4, <2>5, NodesApart
<1> QED
  BY <1>1, OnTheWayInvariant, PTL
=============================================================================
