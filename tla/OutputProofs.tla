---------------------------- MODULE OutputProofs ----------------------------
(***************************************************************************)
(* What itoa writes, for every value and every base.  Induction on the     *)
(* value is by its lowest counterexample.                                  *)
(***************************************************************************)
EXTENDS Output, WellFoundedInduction, TLAPS

\* A nonempty set of natural numbers has a lowest member.
LEMMA LowestExists ==
  ASSUME NEW S \in SUBSET Nat, S # {}
  PROVE  lowest(S) \in S /\ \A j \in S : lowest(S) <= j
<1> DEFINE R == OpToRel(<, Nat)
<1>1. PICK n \in S : \A m \in S : ~(<<m, n>> \in R)
  <2> HIDE DEF R
  <2>1. IsWellFoundedOn(R, Nat)  BY NatLessThanWellFounded DEF R
  <2> QED BY <2>1, WFMin
<1>2. \A j \in S : n <= j
  <2> SUFFICES ASSUME NEW j \in S PROVE n <= j  OBVIOUS
  <2>1. ~(j < n)  BY <1>1 DEF OpToRel
  <2> QED BY <2>1
<1> QED BY <1>2 DEF lowest

\* What holds of a number whenever it holds of all smaller ones holds of all.
LEMMA Induction ==
  ASSUME NEW S \in SUBSET Nat,
         \A n \in Nat : (\A m \in Nat : m < n => m \in S) => n \in S
  PROVE  S = Nat
<1> DEFINE T == Nat \ S
<1>1. SUFFICES ASSUME T # {} PROVE FALSE  OBVIOUS
<1>2. PICK n \in T : \A j \in T : n <= j  BY <1>1, LowestExists
<1>3. n \in Nat /\ \A m \in Nat : m < n => m \in S  BY <1>2
<1> QED BY <1>2, <1>3

Bases == {base \in Nat : base >= 2}

\* A quotient is less than what is divided.
LEMMA QuotientLess ==
  ASSUME NEW base \in Bases, NEW n \in Nat
  PROVE  /\ n \div base \in Nat /\ n % base \in 0 .. base - 1
         /\ n = base * (n \div base) + (n % base)
         /\ n >= base => n \div base >= 1 /\ n \div base < n
<1>1. base \in Nat /\ base >= 2  BY DEF Bases
<1> DEFINE q == n \div base
           r == n % base
<1>2. q \in Int /\ r \in Int /\ 0 <= r /\ r < base /\ n = base * q + r  BY <1>1
<1> HIDE DEF q, r
<1>3. q >= 0
  <2> SUFFICES ASSUME q <= -1 PROVE FALSE  BY <1>2
  <2>1. base * q <= -base  BY <1>1, <1>2
  <2> QED BY <1>1, <1>2, <2>1
<1>4. ASSUME n >= base PROVE q >= 1 /\ q < n
  <2>1. q # 0  BY <1>1, <1>2, <1>4
  <2>2. base * q >= 2 * q  BY <1>1, <1>2, <1>3
  <2>3. n >= 2 * q  BY <1>1, <1>2, <2>2
  <2> QED BY <1>2, <1>3, <2>1, <2>3
<1> QED BY <1>1, <1>2, <1>3, <1>4 DEF q, r
-----------------------------------------------------------------------------
(***************************************************************************)
(* The recursive function is defined: functions on 0 .. m that obey its    *)
(* equation exist, and agree where they overlap.                           *)
(***************************************************************************)
Written(f, base, n) == IF n < base THEN <<n>> ELSE Append(f[n \div base], n % base)

Upto(base, m) == {g \in [0 .. m -> Seq(Nat)] : \A k \in 0 .. m : g[k] = Written(g, base, k)}

LEMMA UptoAgree ==
  ASSUME NEW base \in Bases, NEW m \in Nat, NEW n \in Nat,
         NEW g \in Upto(base, m), NEW h \in Upto(base, n)
  PROVE  \A k \in Nat : k <= m /\ k <= n => g[k] = h[k]
<1> DEFINE S == {k \in Nat : k <= m /\ k <= n => g[k] = h[k]}
<1>1. ASSUME NEW k \in Nat, \A j \in Nat : j < k => j \in S
      PROVE  k \in S
  <2> SUFFICES ASSUME k <= m, k <= n PROVE g[k] = h[k]  OBVIOUS
  <2>1. g[k] = Written(g, base, k) /\ h[k] = Written(h, base, k)  BY DEF Upto
  <2>2. CASE k < base  BY <2>1, <2>2 DEF Written
  <2>3. CASE ~(k < base)
    <3> DEFINE q == k \div base
    <3>0. k >= base  BY <2>3 DEF Bases
    <3>1. q \in Nat /\ q < k  BY <3>0, QuotientLess
    <3>2. g[q] = h[q]
      <4>1. q <= m /\ q <= n /\ q \in S  BY <1>1, <3>1
      <4> QED BY <4>1
    <3> QED BY <2>1, <2>3, <3>2 DEF Written
  <2> QED BY <2>2, <2>3
<1>2. S = Nat
  <2> HIDE DEF S
  <2>1. S \in SUBSET Nat  BY DEF S
  <2> QED BY <1>1, <2>1, Induction
<1> QED BY <1>2

LEMMA UptoExists ==
  ASSUME NEW base \in Bases, NEW m \in Nat
  PROVE  Upto(base, m) # {}
<1> DEFINE S == {k \in Nat : Upto(base, k) # {}}
<1>1. ASSUME NEW k \in Nat, \A j \in Nat : j < k => j \in S
      PROVE  k \in S
  <2>0. base \in Nat /\ base >= 2  BY DEF Bases
  <2>1. CASE k = 0
    <3> DEFINE g == [j \in 0 .. 0 |-> <<0>>]
    <3>1. g \in [0 .. 0 -> Seq(Nat)]  OBVIOUS
    <3>2. \A j \in 0 .. 0 : g[j] = Written(g, base, j)  BY <2>0 DEF Written
    <3>3. g \in Upto(base, 0)  BY <3>1, <3>2 DEF Upto
    <3> QED BY <2>1, <3>3
  <2>2. CASE k > 0
    <3>1. k - 1 \in Nat /\ k - 1 \in S  BY <1>1, <2>2
    <3>2. PICK h : h \in Upto(base, k - 1)  BY <3>1
    <3>3. h \in [0 .. k - 1 -> Seq(Nat)] /\ \A j \in 0 .. k - 1 : h[j] = Written(h, base, j)
      BY <3>2 DEF Upto
    <3> DEFINE g == [j \in 0 .. k |-> IF j < k THEN h[j] ELSE Written(h, base, k)]
    <3>4. Written(h, base, k) \in Seq(Nat)
      <4>1. CASE k < base  BY <4>1 DEF Written
      <4>2. CASE ~(k < base)
        <5>1. k \div base \in Nat /\ k \div base < k /\ k % base \in Nat
          BY <2>0, <4>2, QuotientLess
        <5>2. h[k \div base] \in Seq(Nat)  BY <3>3, <5>1
        <5> QED BY <4>2, <5>1, <5>2 DEF Written
      <4> QED BY <4>1, <4>2
    <3>5. g \in [0 .. k -> Seq(Nat)]  BY <3>3, <3>4
    <3>6. ASSUME NEW j \in 0 .. k PROVE g[j] = Written(g, base, j)
      <4>1. g[j] = Written(h, base, j)  BY <3>3
      <4>2. CASE j < base  BY <4>1, <4>2 DEF Written
      <4>3. CASE ~(j < base)
        <5> DEFINE q == j \div base
        <5>1. q \in Nat /\ q < j  BY <4>3, <2>0, QuotientLess
        <5> HIDE DEF q
        <5>2. g[q] = h[q]  BY <5>1
        <5> QED BY <4>1, <4>3, <5>2 DEF Written, q
      <4> QED BY <4>2, <4>3
    <3>7. g \in Upto(base, k)  BY <3>5, <3>6 DEF Upto
    <3> QED BY <3>7
  <2> QED BY <2>1, <2>2
<1>2. S = Nat
  <2> HIDE DEF S
  <2>1. S \in SUBSET Nat  BY DEF S
  <2> QED BY <1>1, <2>1, Induction
<1> QED BY <1>2

LEMMA NumeralsDefined ==
  ASSUME NEW base \in Bases
  PROVE  \A n \in Nat : numerals(base)[n] = Written(numerals(base), base, n)
<1> DEFINE G(m) == CHOOSE g : g \in Upto(base, m)
           F == [n \in Nat |-> G(n)[n]]
<1>1. \A m \in Nat : G(m) \in Upto(base, m)  BY UptoExists
<1> HIDE DEF G
<1>2. ASSUME NEW n \in Nat PROVE F[n] = Written(F, base, n)
  <2>0. base \in Nat /\ base >= 2  BY DEF Bases
  <2>1. F[n] = Written(G(n), base, n)  BY <1>1 DEF Upto
  <2>2. CASE n < base  BY <2>1, <2>2 DEF Written
  <2>3. CASE ~(n < base)
    <3> DEFINE q == n \div base
    <3>1. q \in Nat /\ q < n  BY <2>0, <2>3, QuotientLess
    <3> HIDE DEF q
    <3>2. G(n)[q] = G(q)[q]  BY <1>1, <3>1, UptoAgree
    <3>3. F[q] = G(n)[q]  BY <3>1, <3>2
    <3> QED BY <2>1, <2>3, <3>3 DEF Written, q
  <2> QED BY <2>2, <2>3
<1>3. F = [n \in Nat |-> Written(F, base, n)]  BY <1>2
<1>4. \E f : f = [n \in Nat |-> IF n < base THEN <<n>> ELSE Append(f[n \div base], n % base)]
  <2> HIDE DEF F
  <2> QED BY <1>3, Zenon DEF Written
<1>5. numerals(base)
        = [n \in Nat |-> IF n < base THEN <<n>> ELSE Append(numerals(base)[n \div base], n % base)]
  BY <1>4, Zenon DEF numerals
<1> QED BY <1>5, Zenon DEF Written
-----------------------------------------------------------------------------
(***************************************************************************)
(* The digits.                                                             *)
(***************************************************************************)
LEMMA ShortNumeral ==
  ASSUME NEW base \in Bases, NEW n \in Nat, n < base
  PROVE  numerals(base)[n] = <<n>>
BY NumeralsDefined DEF Written

LEMMA LongNumeral ==
  ASSUME NEW base \in Bases, NEW n \in Nat, n >= base
  PROVE  numerals(base)[n] = Append(numerals(base)[n \div base], n % base)
<1>1. ~(n < base)  BY DEF Bases
<1> QED BY <1>1, NumeralsDefined DEF Written

\* There is at least one digit, each is one of the base, and the first is not zero
\* unless it is the only one.
DigitsOf(d, base) ==
  /\ d \in Seq(0 .. base - 1) /\ Len(d) >= 1
  /\ Len(d) > 1 => d[1] # 0

LEMMA NumeralDigits ==
  ASSUME NEW base \in Bases
  PROVE  \A n \in Nat : DigitsOf(numerals(base)[n], base) /\ (n > 0 => numerals(base)[n][1] # 0)
<1> DEFINE S == {n \in Nat : DigitsOf(numerals(base)[n], base)
                               /\ (n > 0 => numerals(base)[n][1] # 0)}
<1>0. base \in Nat /\ base >= 2  BY DEF Bases
<1>1. ASSUME NEW n \in Nat, \A m \in Nat : m < n => m \in S
      PROVE  n \in S
  <2> DEFINE d == numerals(base)[n]
  <2>1. CASE n < base
    <3>1. d = <<n>>  BY <2>1, ShortNumeral
    <3>2. n \in 0 .. base - 1  BY <1>0, <2>1
    <3>3. <<n>> \in Seq(0 .. base - 1) /\ Len(<<n>>) = 1 /\ <<n>>[1] = n  BY <3>2
    <3> HIDE DEF d
    <3>4. DigitsOf(d, base) /\ (n > 0 => d[1] # 0)  BY <3>1, <3>3 DEF DigitsOf
    <3> QED BY <3>4 DEF d
  <2>2. CASE n >= base
    <3> DEFINE q == n \div base
               r == n % base
               e == numerals(base)[q]
    <3>1. q \in Nat /\ q < n /\ q > 0 /\ r \in 0 .. base - 1  BY <2>2, QuotientLess
    <3>2. d = Append(e, r)  BY <2>2, LongNumeral
    <3>3. e \in Seq(0 .. base - 1) /\ Len(e) >= 1 /\ e[1] # 0  BY <1>1, <3>1 DEF DigitsOf
    <3> HIDE DEF d, e, q, r
    <3>4. d \in Seq(0 .. base - 1) /\ Len(d) = Len(e) + 1 /\ d[1] = e[1]  BY <3>1, <3>2, <3>3
    <3> QED BY <3>3, <3>4 DEF DigitsOf, d
  <2> QED BY <1>0, <2>1, <2>2
<1>2. S = Nat
  <2> HIDE DEF S
  <2>1. S \in SUBSET Nat  BY DEF S
  <2> QED BY <1>1, <2>1, Induction
<1> QED BY <1>2

\* The digits of d, read from the left in that base, are the number n; v[i] is what
\* has been read after i digits.
Readings(d, base) ==
  {v \in [0 .. Len(d) -> Nat] : v[0] = 0 /\ \A i \in 1 .. Len(d) : v[i] = base * v[i - 1] + d[i]}
Reads(d, base, n) == \E v \in Readings(d, base) : v[Len(d)] = n

LEMMA NumeralReads ==
  ASSUME NEW base \in Bases
  PROVE  \A n \in Nat : Reads(numerals(base)[n], base, n)
<1> DEFINE S == {n \in Nat : Reads(numerals(base)[n], base, n)}
<1>0. base \in Nat /\ base >= 2  BY DEF Bases
<1>1. ASSUME NEW n \in Nat, \A m \in Nat : m < n => m \in S
      PROVE  n \in S
  <2> DEFINE d == numerals(base)[n]
  <2>1. CASE n < base
    <3> DEFINE v == [i \in 0 .. 1 |-> IF i = 0 THEN 0 ELSE n]
    <3>1. d = <<n>> /\ Len(d) = 1  BY <2>1, ShortNumeral
    <3>2. v \in Readings(d, base) /\ v[1] = n  BY <1>0, <3>1 DEF Readings
    <3> QED BY <3>1, <3>2 DEF Reads
  <2>2. CASE n >= base
    <3> DEFINE q == n \div base
               r == n % base
               e == numerals(base)[q]
               k == Len(e)
    <3>1. q \in Nat /\ q < n /\ r \in 0 .. base - 1 /\ n = base * q + r
      BY <2>2, QuotientLess
    <3>2. d = Append(e, r)  BY <2>2, LongNumeral
    <3>3. e \in Seq(0 .. base - 1) /\ k \in Nat  BY <3>1, NumeralDigits DEF DigitsOf
    <3>4. PICK w \in Readings(e, base) : w[k] = q  BY <1>1, <3>1 DEF Reads
    <3> DEFINE v == [i \in 0 .. k + 1 |-> IF i <= k THEN w[i] ELSE n]
    <3>5. w \in [0 .. k -> Nat] /\ w[0] = 0 /\ \A i \in 1 .. k : w[i] = base * w[i - 1] + e[i]
      BY DEF Readings
    <3> HIDE DEF d, e, q, r, k
    <3>6. Len(d) = k + 1 /\ d[k + 1] = r /\ \A i \in 1 .. k : d[i] = e[i]
      BY <3>1, <3>2, <3>3 DEF k
    <3>7. v \in [0 .. k + 1 -> Nat] /\ v[0] = 0 /\ v[k + 1] = n  BY <3>3, <3>5
    <3>8. ASSUME NEW i \in 1 .. k + 1 PROVE v[i] = base * v[i - 1] + d[i]
      <4>1. CASE i <= k
        <5>1. v[i] = w[i] /\ v[i - 1] = w[i - 1] /\ d[i] = e[i] /\ i \in 1 .. k
          BY <3>3, <3>6, <4>1
        <5> QED BY <3>5, <5>1
      <4>2. CASE i = k + 1
        <5>1. v[i] = n /\ v[i - 1] = q /\ d[i] = r  BY <3>3, <3>4, <3>6, <4>2
        <5> QED BY <3>1, <5>1
      <4> QED BY <3>3, <4>1, <4>2
    <3>9. v \in Readings(d, base)  BY <3>6, <3>7, <3>8 DEF Readings
    <3>10. Reads(d, base, n)  BY <3>6, <3>7, <3>9 DEF Reads
    <3> QED BY <3>10 DEF d
  <2> QED BY <1>0, <2>1, <2>2
<1>2. S = Nat
  <2> HIDE DEF S
  <2>1. S \in SUBSET Nat  BY DEF S
  <2> QED BY <1>1, <2>1, Induction
<1> QED BY <1>2

\* Digits can be read in one way only.
LEMMA OneReading ==
  ASSUME NEW base \in Bases, NEW d \in Seq(Nat), NEW v \in Readings(d, base),
         NEW w \in Readings(d, base)
  PROVE  v[Len(d)] = w[Len(d)]
<1> DEFINE S == {i \in Nat : i <= Len(d) => v[i] = w[i]}
<1>1. ASSUME NEW i \in Nat, \A j \in Nat : j < i => j \in S
      PROVE  i \in S
  <2> SUFFICES ASSUME i <= Len(d) PROVE v[i] = w[i]  OBVIOUS
  <2>1. CASE i = 0  BY <2>1 DEF Readings
  <2>2. CASE i > 0
    <3>1. i - 1 \in Nat /\ i - 1 \in S /\ i - 1 <= Len(d) /\ i \in 1 .. Len(d)  BY <1>1, <2>2
    <3>2. v[i - 1] = w[i - 1]  BY <3>1
    <3> QED BY <3>1, <3>2 DEF Readings
  <2> QED BY <2>1, <2>2
<1>2. S = Nat
  <2> HIDE DEF S
  <2>1. S \in SUBSET Nat  BY DEF S
  <2> QED BY <1>1, <2>1, Induction
<1> QED BY <1>2

\* itoa: for every value and every base it knows the digits, read again, are the value.
THEOREM ItoaWritesTheValue ==
  ASSUME NEW base \in 2 .. 36, NEW value \in Nat
  PROVE  DigitsOf(itoa(value, base), base) /\ Reads(itoa(value, base), base, value)
<1>1. base \in Bases  BY DEF Bases
<1>2. itoa(value, base) = numerals(base)[value]  BY DEF itoa
<1> QED BY <1>1, <1>2, NumeralDigits, NumeralReads

\* What is printed tells the values apart.
THEOREM ItoaTellsValuesApart ==
  ASSUME NEW base \in 2 .. 36, NEW m \in Nat, NEW n \in Nat, itoa(m, base) = itoa(n, base)
  PROVE  m = n
<1> DEFINE d == itoa(m, base)
<1>1. base \in Bases  BY DEF Bases
<1>2. Reads(d, base, m) /\ Reads(d, base, n) /\ d \in Seq(0 .. base - 1)
  BY ItoaWritesTheValue DEF DigitsOf
<1>3. d \in Seq(Nat)  BY <1>2
<1> HIDE DEF d
<1> QED BY <1>1, <1>2, <1>3, OneReading DEF Reads

\* A value below the k-th power of the base has at most k digits.
Powers(base, k) == {p \in [0 .. k -> Nat] : p[0] = 1 /\ \A i \in 1 .. k : p[i] = base * p[i - 1]}

LEMMA DigitsBound ==
  ASSUME NEW base \in Bases, NEW k \in Nat, NEW p \in Powers(base, k)
  PROVE  \A i \in 1 .. k : \A n \in Nat : n < p[i] => Len(numerals(base)[n]) <= i
<1> DEFINE S == {i \in Nat : i \in 1 .. k =>
                   \A n \in Nat : n < p[i] => Len(numerals(base)[n]) <= i}
<1>0. base \in Nat /\ base >= 2  BY DEF Bases
<1>1. ASSUME NEW i \in Nat, \A j \in Nat : j < i => j \in S
      PROVE  i \in S
  <2> SUFFICES ASSUME i \in 1 .. k, NEW n \in Nat, n < p[i]
               PROVE  Len(numerals(base)[n]) <= i
    OBVIOUS
  <2>1. CASE n < base
    <3>1. Len(numerals(base)[n]) = 1  BY <2>1, ShortNumeral
    <3> QED BY <3>1
  <2>2. CASE n >= base
    <3> DEFINE q == n \div base
               r == n % base
               e == numerals(base)[q]
    <3>1. q \in Nat /\ r \in 0 .. base - 1 /\ n = base * q + r /\ q >= 1
      BY <2>2, QuotientLess
    <3>2. numerals(base)[n] = Append(e, r)  BY <2>2, LongNumeral
    <3>3. e \in Seq(0 .. base - 1)  BY <3>1, NumeralDigits DEF DigitsOf
    <3> HIDE DEF e, q, r
    <3>4. Len(numerals(base)[n]) = Len(e) + 1  BY <3>2, <3>3
    <3>5. p[i] = base * p[i - 1] /\ p[i - 1] \in Nat /\ p[0] = 1  BY DEF Powers
    <3>6. q < p[i - 1]
      <4> SUFFICES ASSUME q >= p[i - 1] PROVE FALSE  BY <3>1, <3>5
      <4> DEFINE t == p[i - 1]
      <4>1. t \in Nat /\ q >= t /\ n < base * t  BY <3>5
      <4> HIDE DEF t
      <4>2. base * q >= base * t  BY <1>0, <3>1, <4>1
      <4> QED BY <1>0, <3>1, <4>1, <4>2
    <3>7. i - 1 \in 1 .. k /\ i - 1 \in Nat
      <4>1. i # 1  BY <3>1, <3>5, <3>6
      <4> QED BY <4>1
    <3>8. i - 1 \in S  BY <1>1, <3>7
    <3>9. Len(e) <= i - 1  BY <3>1, <3>6, <3>7, <3>8 DEF e
    <3> QED BY <3>3, <3>4, <3>9
  <2> QED BY <1>0, <2>1, <2>2
<1>2. S = Nat
  <2> HIDE DEF S
  <2>1. S \in SUBSET Nat  BY DEF S
  <2> QED BY <1>1, <2>1, Induction
<1> QED BY <1>2

\* printf hands itoa a 64-bit value and a buffer of 256 bytes, of which console_log
\* clears 64: no %d and no %x writes more than 20 digits.
THEOREM PrintedNumberFits ==
  ASSUME NEW conversion \in Conversions, NEW value \in Nat, value < 18446744073709551616
  PROVE  Len(itoa(value, base_of(conversion))) <= 20
<1>1. CASE conversion = "%d"
  <2> DEFINE t == <<1, 10, 100, 1000, 10000, 100000, 1000000, 10000000, 100000000, 1000000000,
                    10000000000, 100000000000, 1000000000000, 10000000000000, 100000000000000,
                    1000000000000000, 10000000000000000, 100000000000000000,
                    1000000000000000000, 10000000000000000000, 100000000000000000000>>
             p == [i \in 0 .. 20 |-> t[i + 1]]
  <2>1. p \in Powers(10, 20)  BY DEF Powers
  <2>2. value < p[20]  OBVIOUS
  <2> HIDE DEF p
  <2>3. Len(numerals(10)[value]) <= 20  BY <2>1, <2>2, DigitsBound DEF Bases
  <2>4. itoa(value, base_of(conversion)) = numerals(10)[value]
    BY <1>1 DEF itoa, base_of
  <2> QED BY <2>3, <2>4
<1>2. CASE conversion = "%x"
  <2> DEFINE t == <<1, 16, 256, 4096, 65536, 1048576, 16777216, 268435456, 4294967296,
                    68719476736, 1099511627776, 17592186044416, 281474976710656,
                    4503599627370496, 72057594037927936, 1152921504606846976,
                    18446744073709551616>>
             p == [i \in 0 .. 16 |-> t[i + 1]]
  <2>1. p \in Powers(16, 16)  BY DEF Powers
  <2>2. value < p[16]  OBVIOUS
  <2> HIDE DEF p
  <2>3. Len(numerals(16)[value]) <= 16  BY <2>1, <2>2, DigitsBound DEF Bases
  <2>4. itoa(value, base_of(conversion)) = numerals(16)[value]
    BY <1>2 DEF itoa, base_of
  <2>5. Len(numerals(16)[value]) \in Nat
    <3>1. 16 \in Bases  BY DEF Bases
    <3> QED BY <3>1, NumeralDigits DEF DigitsOf
  <2> QED BY <2>3, <2>4, <2>5
<1> QED BY <1>1, <1>2 DEF Conversions
=============================================================================
