----------------------------- MODULE Arithmetic -----------------------------
(***************************************************************************)
(* Induction over the naturals, in a form without operator parameters; and *)
(* cutting a number into fields and putting it together again, for every   *)
(* width of the fields: what shifting and masking come to.                 *)
(***************************************************************************)
EXTENDS Integers, WellFoundedInduction, TLAPS

\* A non-empty set of naturals has a least element.  find_free_block_start
\* returns one; and a set of counterexamples has one, which is how the
\* clusters of a file are counted off.
LEMMA LeastExists ==
  ASSUME NEW S, S \subseteq Nat, S # {}
  PROVE  \E s \in S : \A t \in S : s <= t
<1> DEFINE R == OpToRel(<, Nat)
<1>1. PICK s \in S : \A t \in S : ~ (<<t, s>> \in R)
  <2>1. IsWellFoundedOn(R, Nat)
    BY NatLessThanWellFounded
  <2> HIDE DEF R
  <2> QED BY <2>1, WFMin
<1>2. ASSUME NEW t \in S PROVE s <= t
  <2>1. <<t, s>> \notin R
    BY <1>1
  <2>2. ~(t < s)
    BY <2>1 DEF OpToRel
  <2> QED BY <2>2
<1> QED BY <1>2

\* A nonempty set of numbers up to k has a greatest.
LEMMA GreatestExists ==
  ASSUME NEW k \in Nat, NEW S, S \subseteq 0 .. k, S # {}
  PROVE  \E s \in S : \A t \in S : s >= t
<1> DEFINE R == {k - s : s \in S}
<1>1. R \subseteq Nat /\ R # {}
  <2>1. \A s \in S : k - s \in Nat
    OBVIOUS
  <2>2. R \subseteq Nat
    BY <2>1
  <2>3. PICK s \in S : TRUE
    OBVIOUS
  <2>4. k - s \in R
    OBVIOUS
  <2> QED BY <2>2, <2>4
<1>2. PICK least \in R : \A r \in R : least <= r
  <2> HIDE DEF R
  <2> QED BY <1>1, LeastExists
<1>3. PICK s \in S : least = k - s
  BY <1>2
<1>4. ASSUME NEW t \in S PROVE s >= t
  <2>1. k - s <= k - t
    BY <1>2, <1>3
  <2>2. s \in Nat /\ t \in Nat
    OBVIOUS
  <2> QED BY <2>1, <2>2
<1> QED BY <1>4

-----------------------------------------------------------------------------
(* Fields of a number *)

\* The quotient and the remainder of a division put together.
LEMMA Parts ==
  ASSUME NEW l \in Nat, NEW a \in Nat \ {0}
  PROVE  /\ (l % a) \in 0 .. (a - 1)
         /\ (l \div a) \in Nat
         /\ a * (l \div a) + (l % a) = l
OBVIOUS

\* A number below a product is divided to a quotient below the other factor.
LEMMA QuotientBelow ==
  ASSUME NEW l \in Nat, NEW a \in Nat \ {0}, NEW b \in Nat \ {0}, l < a * b
  PROVE  (l \div a) < b
OBVIOUS

\* A number below the divisor is its own remainder.
LEMMA RemainderOfSmall ==
  ASSUME NEW l \in Nat, NEW b \in Nat \ {0}, l < b
  PROVE  l % b = l
OBVIOUS

\* Dividing twice is dividing by the product.
LEMMA QuotientTwice ==
  ASSUME NEW l \in Nat, NEW a \in Nat \ {0}, NEW b \in Nat \ {0}
  PROVE  (l \div a) \div b = l \div (a * b)
OBVIOUS

\* A number cut into two fields of widths a and b is the fields put together.
LEMMA TwoParts ==
  ASSUME NEW l \in Nat, NEW a \in Nat \ {0}, NEW b \in Nat \ {0}, l < a * b
  PROVE  (l % a) + a * ((l \div a) % b) = l
<1>1. (l \div a) % b = l \div a
  BY Parts, QuotientBelow, RemainderOfSmall
<1>2. /\ a * (l \div a) + (l % a) = l
      /\ (l % a) \in Int /\ a * (l \div a) \in Int
  BY Parts
<1>3. a * ((l \div a) % b) = a * (l \div a)
  BY <1>1
<1> DEFINE rest == l % a
          front == a * (l \div a)
          back == a * ((l \div a) % b)
<1>4. front + rest = l /\ rest \in Int /\ front \in Int /\ back = front
  BY <1>2, <1>3
<1>5. rest + back = l
  <2> HIDE DEF rest, front, back
  <2> QED BY <1>4
<1> QED BY <1>5

\* The same with three fields.
LEMMA ThreeParts ==
  ASSUME NEW l \in Nat, NEW a \in Nat \ {0}, NEW b \in Nat \ {0}, NEW c \in Nat \ {0},
         l < a * b * c
  PROVE  (l % a) + a * (((l \div a) % b) + b * ((l \div (a * b)) % c)) = l
<1> DEFINE q == l \div a
<1>1. q \in Nat /\ a * q + (l % a) = l
  BY Parts
<1>2. q < b * c
  <2>1. b * c \in Nat \ {0} /\ a * (b * c) = a * b * c
    OBVIOUS
  <2> QED BY <2>1, QuotientBelow
<1>3. (q % b) + b * ((q \div b) % c) = q
  <2> HIDE DEF q
  <2> QED BY <1>1, <1>2, TwoParts
<1>4. q \div b = l \div (a * b)
  BY QuotientTwice
<1>5. (q % b) + b * ((l \div (a * b)) % c) = q
  BY <1>3, <1>4
<1> QED
  <2>1. (l % a) \in Int
    BY Parts
  <2> HIDE DEF q
  <2>2. a * ((q % b) + b * ((l \div (a * b)) % c)) = a * q
    BY <1>5
  <2>3. (l % a) + a * q = l
    BY <1>1, <2>1
  <2> QED BY <2>2, <2>3 DEF q

\* Four fields.
LEMMA FourParts ==
  ASSUME NEW l \in Nat, NEW a \in Nat \ {0}, NEW b \in Nat \ {0}, NEW c \in Nat \ {0},
         NEW d \in Nat \ {0}, l < a * b * c * d
  PROVE  (l % a) + a * (((l \div a) % b) +
                          b * (((l \div (a * b)) % c) + c * ((l \div (a * b * c)) % d))) = l
<1> DEFINE q == l \div a
<1>1. q \in Nat /\ a * q + (l % a) = l
  BY Parts
<1>2. q < b * c * d
  <2>1. b * c * d \in Nat \ {0} /\ a * (b * c * d) = a * b * c * d
    OBVIOUS
  <2> QED BY <2>1, QuotientBelow
<1>3. (q % b) + b * (((q \div b) % c) + c * ((q \div (b * c)) % d)) = q
  <2>1. q \in Nat
    BY <1>1
  <2> HIDE DEF q
  <2> QED BY <2>1, <1>2, ThreeParts
<1>4. q \div b = l \div (a * b)
  BY QuotientTwice
<1>5. q \div (b * c) = l \div (a * b * c)
  <2>1. b * c \in Nat \ {0} /\ a * (b * c) = a * b * c
    OBVIOUS
  <2> QED BY <2>1, QuotientTwice
<1>6. (q % b) + b * (((l \div (a * b)) % c) + c * ((l \div (a * b * c)) % d)) = q
  BY <1>3, <1>4, <1>5
<1> QED
  <2>1. (l % a) \in Int
    BY Parts
  <2>2. a * ((q % b) + b * (((l \div (a * b)) % c) + c * ((l \div (a * b * c)) % d))) = a * q
    <3> HIDE DEF q
    <3> QED BY <1>6
  <2>3. (l % a) + a * q = l
    <3> HIDE DEF q
    <3> QED BY <1>1, <2>1
  <2> QED BY <2>2, <2>3

\* A field and two of another width.
LEMMA BaseParts ==
  ASSUME NEW l \in Nat, NEW a \in Nat \ {0}, NEW b \in Nat \ {0}, l < a * b * b
  PROVE  (l % a) + a * (((l \div a) % b) + b * ((l \div (a * b)) % b)) = l
<1>1. \A e, f, g \in Nat \ {0} :
        l < e * f * g => (l % e) + e * (((l \div e) % f) + f * ((l \div (e * f)) % g)) = l
  BY ThreeParts
<1> QED BY <1>1, Zenon

\* Three fields of one width and a fourth one.
LEMMA FourRegisters ==
  ASSUME NEW l \in Nat, NEW r \in Nat \ {0}, NEW t \in Nat \ {0}, l < r * r * r * t
  PROVE  (l % r) + r * (((l \div r) % r) +
                          r * (((l \div (r * r)) % r) + r * ((l \div (r * r * r)) % t))) = l
<1>1. \A a, b, c, d \in Nat \ {0} :
        l < a * b * c * d =>
          (l % a) + a * (((l \div a) % b) +
                           b * (((l \div (a * b)) % c) + c * ((l \div (a * b * c)) % d))) = l
  BY FourParts
<1> QED BY <1>1, Zenon

\* What a multiple of the divisor and a rest are divided to.
LEMMA QuotientIs ==
  ASSUME NEW d \in Nat \ {0}, NEW q \in Nat, NEW r \in 0 .. (d - 1)
  PROVE  (d * q + r) \div d = q /\ (d * q + r) % d = r
OBVIOUS

\* Multiples keep the order of their factors, a whole divisor apart.
LEMMA MultiplesApart ==
  ASSUME NEW d \in Nat \ {0}, NEW q \in Nat, NEW r \in Nat, q < r
  PROVE  d * q + d <= d * r
OBVIOUS

LEMMA Cancelled ==
  ASSUME NEW d \in Nat \ {0}, NEW q \in Nat, NEW r \in Nat, d * q = d * r
  PROVE  q = r
OBVIOUS

\* A row and a column of a square are a place in it.
LEMMA InSquare ==
  ASSUME NEW e \in Nat \ {0}, NEW i \in 0 .. (e - 1), NEW j \in 0 .. (e - 1)
  PROVE  e * i + j \in 0 .. (e * e - 1)
OBVIOUS

\* Counting on by one goes round at the divisor.
LEMMA RemainderNext ==
  ASSUME NEW l \in Nat, NEW d \in Nat \ {0}
  PROVE  (l + 1) % d = IF l % d = d - 1 THEN 0 ELSE (l % d) + 1
<1> PICK q \in Nat, r \in 0 .. (d - 1) : q = l \div d /\ r = l % d /\ d * q + r = l
  BY Parts
<1>1. CASE r = d - 1
  <2>1. l + 1 = d * (q + 1) + 0 /\ q + 1 \in Nat /\ 0 \in 0 .. (d - 1)
    BY <1>1
  <2> PICK p \in Nat, z \in 0 .. (d - 1) : l + 1 = d * p + z /\ z = 0
    BY <2>1
  <2>2. (d * p + z) % d = z
    BY QuotientIs
  <2> QED BY <1>1, <2>2
<1>2. CASE r # d - 1
  <2>1. l + 1 = d * q + (r + 1) /\ r + 1 \in 0 .. (d - 1)
    BY <1>2
  <2> PICK z \in 0 .. (d - 1) : l + 1 = d * q + z /\ z = r + 1
    BY <2>1
  <2>2. (d * q + z) % d = z
    BY QuotientIs
  <2> QED BY <1>2, <2>2
<1> QED BY <1>1, <1>2

=============================================================================
