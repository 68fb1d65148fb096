------------------------------ MODULE ModArith ------------------------------
(***************************************************************************)
(* Facts about the remainder of a division by a size that is not known,    *)
(* as a ring buffer needs them: how a pointer kept modulo the size stands  *)
(* for an unbounded count.                                                 *)
(***************************************************************************)
EXTENDS Integers, TLAPS

LEMMA ModRange ==
  ASSUME NEW N \in Nat \ {0}, NEW x \in Nat
  PROVE  x % N \in 0..(N - 1)
OBVIOUS

LEMMA DivMod ==
  ASSUME NEW N \in Nat \ {0}, NEW x \in Nat
  PROVE  x = N * (x \div N) + (x % N) /\ x \div N \in Nat
OBVIOUS

\* Quotient and remainder are unique.
LEMMA DivUnique ==
  ASSUME NEW N \in Nat \ {0},
         NEW q \in Int, NEW r \in 0..(N - 1),
         NEW p \in Int, NEW s \in 0..(N - 1),
         N * q + r = N * p + s
  PROVE  q = p /\ r = s
<1>1. N * (q - p) = s - r
  OBVIOUS
<1>2. q - p >= 1 => N * (q - p) >= N
  OBVIOUS
<1>3. q - p <= -1 => N * (q - p) <= -N
  OBVIOUS
<1>4. QED
  BY <1>1, <1>2, <1>3

LEMMA ModUnique ==
  ASSUME NEW N \in Nat \ {0}, NEW x \in Nat,
         NEW q \in Int, NEW r \in 0..(N - 1), x = N * q + r
  PROVE  x % N = r
<1> DEFINE p == x \div N
           s == x % N
<1>1. p \in Int /\ s \in 0..(N - 1)
  BY DivMod, ModRange
<1>2. N * q + r = N * p + s
  BY DivMod
<1> HIDE DEF p, s
<1>3. r = s
  BY <1>1, <1>2, DivUnique
<1>4. QED
  BY <1>3 DEF s

\* Moving a pointer by k is moving the count by k.
LEMMA ModPlus ==
  ASSUME NEW N \in Nat \ {0}, NEW x \in Nat, NEW k \in Nat
  PROVE  ((x % N) + k) % N = (x + k) % N
<1> DEFINE y == (x % N) + k
           a == x \div N
           b == y \div N
           r == y % N
<1>0. x % N \in Nat
  BY ModRange
<1>1. y \in Nat
  BY <1>0
<1>2. x = N * a + (x % N) /\ a \in Nat
  BY DivMod
<1>3. y = N * b + r /\ b \in Nat /\ r \in 0..(N - 1)
  <2> HIDE DEF y
  <2> QED
    BY <1>1, DivMod, ModRange
<1>4. y = (x % N) + k
  OBVIOUS
<1> HIDE DEF y, a, b, r
<1>5. x + k = N * a + N * b + r
  BY <1>0, <1>2, <1>3, <1>4
<1>6. N * a + N * b = N * (a + b)
  BY <1>2, <1>3
<1>7. x + k = N * (a + b) + r /\ a + b \in Int /\ x + k \in Nat
  BY <1>2, <1>3, <1>5, <1>6
<1>8. (x + k) % N = r
  BY <1>3, <1>7, ModUnique
<1>9. QED
  BY <1>8, <1>4 DEF r

\* Between a read count a and a write count b at most N - 1 apart, the slots
\* in use: the reader's formula.
LEMMA RingUsed ==
  ASSUME NEW N \in Nat \ {0}, NEW a \in Nat, NEW b \in Nat, a <= b, b - a < N
  PROVE  ((b % N) + N - (a % N)) % N = b - a
<1> DEFINE p == a \div N
           q == b \div N
           r == a % N
           s == b % N
           x == s + N - r
<1>1. a = N * p + r /\ p \in Nat /\ r \in 0..(N - 1)
  BY DivMod, ModRange
<1>2. b = N * q + s /\ q \in Nat /\ s \in 0..(N - 1)
  BY DivMod, ModRange
<1>3. x = s + N - r
  OBVIOUS
<1> HIDE DEF p, q, r, s, x
<1>4. N * (p - q + 1) = N * p - N * q + N
  BY <1>1, <1>2
<1>5. x = N * (p - q + 1) + (b - a) /\ p - q + 1 \in Int /\ x \in Nat
  BY <1>1, <1>2, <1>3, <1>4
<1>6. b - a \in 0..(N - 1)
  OBVIOUS
<1>7. x % N = b - a
  BY <1>5, <1>6, ModUnique
<1>8. QED
  BY <1>7 DEF x, r, s

\* The free slots: the writer's formula.
LEMMA RingFree ==
  ASSUME NEW N \in Nat \ {0}, NEW a \in Nat, NEW b \in Nat, a <= b, b - a < N
  PROVE  ((a % N) + N - 1 - (b % N)) % N = N - 1 - (b - a)
<1> DEFINE p == a \div N
           q == b \div N
           r == a % N
           s == b % N
           x == r + N - 1 - s
<1>1. a = N * p + r /\ p \in Nat /\ r \in 0..(N - 1)
  BY DivMod, ModRange
<1>2. b = N * q + s /\ q \in Nat /\ s \in 0..(N - 1)
  BY DivMod, ModRange
<1>3. x = r + N - 1 - s
  OBVIOUS
<1> HIDE DEF p, q, r, s, x
<1>4. N * (q - p) = N * q - N * p
  BY <1>1, <1>2
<1>5. x = N * (q - p) + (N - 1 - (b - a)) /\ q - p \in Int /\ x \in Nat
  BY <1>1, <1>2, <1>3, <1>4
<1>6. N - 1 - (b - a) \in 0..(N - 1)
  OBVIOUS
<1>7. x % N = N - 1 - (b - a)
  BY <1>5, <1>6, ModUnique
<1>8. QED
  BY <1>7 DEF x, r, s

\* Two counts less than a ring apart are in different slots.
LEMMA RingDistinct ==
  ASSUME NEW N \in Nat \ {0}, NEW a \in Nat, NEW b \in Nat, a < b, b - a < N
  PROVE  a % N # b % N
<1>1. a <= b
  OBVIOUS
<1>2. ((b % N) + N - (a % N)) % N = b - a
  BY <1>1, RingUsed, ZenonT(20)
<1>3. N % N = 0
  BY ModUnique
<1>4. \A r \in 0..(N - 1) : r + N - r = N
  OBVIOUS
<1>5. a % N = b % N => (b % N) + N - (a % N) = N
  BY <1>4, ModRange
<1>6. QED
  BY <1>2, <1>3, <1>5
=============================================================================
