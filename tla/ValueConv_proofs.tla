-------------------------- MODULE ValueConv_proofs --------------------------
(* Proofs about ValueConv, for every size of words, ints and doubles.  The *)
(* argument is modular: at each step what is held is congruent, modulo the *)
(* size of the C type, to the value that was given, and the member of the  *)
(* union that belongs to the letter picks the one value of the type in the *)
(* class.                                                                  *)
EXTENDS ValueConv, TLAPS

-----------------------------------------------------------------------------
(* The inductive invariant.                                                *)

Congruent(x, y, size) == \E k \in Int : x = y + k * size

\* What may be given to the letter: a C value of its type, or a JavaScript value.
GivenInv == \/ given \in {[kind |-> "c", v |-> v] : v \in CValues(letter)}
            \/ given \in Inputs /\ (letter \in Floats => given.kind # "number")

\* A result in its cell: right in the bits of its type, anything in the others.
CellInv == phase = "c" => given.kind = "c" /\ Congruent(cell, given.v, Size(letter))

\* A result v of type l, as JavaScript sees it.  Narrow and unsigned types are seen as an int
\* of the same class, which need not be the value itself.
SeenInt(l, v, n) == /\ Fits(n, IntSize) /\ Congruent(n, v, Size(l))
                    /\ l = "i" => n = v
Seen(l, v, x) == /\ l = "l" => x = Number(Rounded(v))
                 /\ l = "p" => x = Pointer(v)
                 /\ l \in Floats => x = Float(v)
                 /\ l \notin Floats \cup {"l", "p"} => \E n \in Int : x = Number(n) /\ SeenInt(l, v, n)
SeenInv == phase = "js" => IF given.kind = "c"
                             THEN letter \in InLetters(binding) /\ Seen(letter, given.v, js)
                             ELSE js = given

BackInv == RoundTrip /\ NumberArrives /\ NoNumberArrives

IInv == TypeOK /\ GivenInv /\ CellInv /\ SeenInv /\ BackInv

-----------------------------------------------------------------------------
(* Division and congruence.                                                *)

\* Quotient and remainder of an integer.
LEMMA Division ==
    ASSUME NEW x \in Int, NEW size \in Nat \ {0}
    PROVE  /\ x % size \in 0..(size - 1) /\ x \div size \in Int
           /\ x = (x \div size) * size + (x % size)
OBVIOUS

\* The only multiple of a number that is nearer to zero than the number is zero.
LEMMA SmallMultiple ==
    ASSUME NEW k \in Int, NEW size \in Nat, k * size < size, -size < k * size
    PROVE  k = 0
<1>1. CASE k >= 1
  <2>1. (k - 1) * size >= 0
    BY <1>1
  <2>2. k * size = (k - 1) * size + size
    OBVIOUS
  <2> QED
    BY <2>1, <2>2
<1>2. CASE k <= -1
  <2>1. (-1 - k) * size >= 0
    BY <1>2
  <2>2. k * size = -((-1 - k) * size) - size
    OBVIOUS
  <2> QED
    BY <2>1, <2>2
<1> QED
  BY <1>1, <1>2

\* Every number is congruent to itself.
LEMMA CongruentSame == ASSUME NEW x \in Int, NEW size \in Nat PROVE Congruent(x, x, size)
<1>1. x = x + 0 * size
  OBVIOUS
<1> QED
  BY <1>1 DEF Congruent

\* Congruence is symmetric.
LEMMA CongruentTurned ==
    ASSUME NEW x \in Int, NEW y \in Int, NEW size \in Nat, Congruent(x, y, size)
    PROVE  Congruent(y, x, size)
<1>1. PICK k \in Int : x = y + k * size
  BY DEF Congruent
<1>2. -k \in Int /\ y = x + (-k) * size
  BY <1>1
<1> QED
  BY <1>2 DEF Congruent

\* Congruence is transitive.
LEMMA CongruentChain ==
    ASSUME NEW x \in Int, NEW y \in Int, NEW z \in Int, NEW size \in Nat,
           Congruent(x, y, size), Congruent(y, z, size)
    PROVE  Congruent(x, z, size)
<1>1. PICK j \in Int : x = y + j * size
  BY DEF Congruent
<1>2. PICK k \in Int : y = z + k * size
  BY DEF Congruent
<1>3. j + k \in Int /\ x = z + (j + k) * size
  BY <1>1, <1>2
<1> QED
  BY <1>3 DEF Congruent

\* Numbers congruent modulo a size are so modulo its divisors: a wide member of the union
\* determines the narrow ones.
LEMMA CongruentNarrower ==
    ASSUME NEW x \in Int, NEW y \in Int, NEW narrow \in Nat, NEW wide \in Nat,
           Divides(narrow, wide), Congruent(x, y, wide)
    PROVE  Congruent(x, y, narrow)
<1>1. PICK k \in Int : x = y + k * wide
  BY DEF Congruent
<1>2. PICK j \in 1..wide : wide = narrow * j
  BY DEF Divides
<1>3. k * wide = (k * j) * narrow
  BY <1>2
<1>4. k * j \in Int /\ x = y + (k * j) * narrow
  BY <1>1, <1>2, <1>3
<1> QED
  BY <1>4 DEF Congruent

\* A remainder is congruent to its number, and is the only small number that is.
LEMMA Remainder ==
    ASSUME NEW x \in Int, NEW size \in Nat \ {0}
    PROVE  /\ x % size \in 0..(size - 1) /\ Congruent(x, x % size, size)
           /\ \A r \in 0..(size - 1) : Congruent(x, r, size) => x % size = r
<1> DEFINE q == x \div size
           m == x % size
<1>1. q \in Int /\ m \in 0..(size - 1) /\ x = m + q * size
  BY Division
<1> HIDE DEF q, m
<1>2. Congruent(x, m, size)
  BY <1>1 DEF Congruent
<1>3. ASSUME NEW r \in 0..(size - 1), Congruent(x, r, size) PROVE m = r
  <2>1. PICK k \in Int : x = r + k * size
    BY <1>3 DEF Congruent
  <2>2. (k - q) * size = k * size - q * size
    BY <1>1
  <2>3. (k - q) * size = m - r
    BY <1>1, <2>1, <2>2
  <2>4. k - q = 0
    BY <1>1, <2>3, SmallMultiple
  <2> QED
    BY <1>1, <2>1, <2>4
<1> QED
  BY <1>1, <1>2, <1>3 DEF m

\* A number below the divisor is its own remainder.
LEMMA SmallRemainder ==
    ASSUME NEW size \in Nat \ {0}, NEW u \in 0..(size - 1)
    PROVE  u % size = u
<1>1. u \in Int /\ Congruent(u, u, size)
  BY CongruentSame
<1> QED
  BY <1>1, Remainder

\* Divisors of divisors are divisors.
LEMMA DividesChain ==
    ASSUME NEW a \in Nat \ {0}, NEW b \in Nat \ {0}, NEW c \in Nat \ {0},
           Divides(a, b), Divides(b, c)
    PROVE  Divides(a, c)
<1>1. PICK j \in 1..b : b = a * j
  BY DEF Divides
<1>2. PICK k \in 1..c : c = b * k
  BY DEF Divides
<1>3. c = a * (j * k)
  BY <1>1, <1>2
<1>4. j * k \in Nat /\ j * k >= 1
  BY <1>1, <1>2
<1>5. a * (j * k) = (a - 1) * (j * k) + j * k /\ (a - 1) * (j * k) >= 0
  BY <1>4
<1>6. j * k \in 1..c
  BY <1>3, <1>4, <1>5
<1> QED
  BY <1>3, <1>6 DEF Divides

\* No divisor is larger than what it divides.
LEMMA DividesLeq ==
    ASSUME NEW a \in Nat, NEW b \in Nat, Divides(a, b)
    PROVE  a <= b
<1>1. PICK k \in 1..b : b = a * k
  BY DEF Divides
<1>2. a * k = a + a * (k - 1) /\ a * (k - 1) >= 0
  BY <1>1
<1> QED
  BY <1>1, <1>2

-----------------------------------------------------------------------------
(* The members of the union.                                               *)

\* The sizes are numbers, in their order.
LEMMA Sizes ==
    /\ WordSize \in Nat \ {0} /\ IntSize \in Nat \ {0} /\ Exact \in Nat \ {0}
    /\ HalfSize \in Nat \ {0} /\ ByteSize \in Nat \ {0}
    /\ 2 < ByteSize /\ ByteSize <= HalfSize /\ HalfSize <= IntSize /\ IntSize <= WordSize
  BY SizeAssumption, DividesLeq

\* Every type has an even number of values, at least four, and divides the word.
LEMMA SizeType ==
    ASSUME NEW l \in Letters
    PROVE  /\ Size(l) \in Nat \ {0} /\ Size(l) > 2 /\ Size(l) <= WordSize
           /\ Divides(2, Size(l)) /\ Divides(Size(l), WordSize)
<1>1. /\ WordSize \in Nat \ {0} /\ IntSize \in Nat \ {0}
      /\ HalfSize \in Nat \ {0} /\ ByteSize \in Nat \ {0}
      /\ 2 < ByteSize /\ ByteSize <= HalfSize /\ HalfSize <= IntSize /\ IntSize <= WordSize
  BY Sizes
<1>2. Divides(ByteSize, IntSize) /\ Divides(ByteSize, WordSize) /\ Divides(HalfSize, WordSize)
  BY <1>1, SizeAssumption, DividesChain
<1>3. Divides(2, HalfSize) /\ Divides(2, IntSize) /\ Divides(2, WordSize)
  BY <1>1, <1>2, SizeAssumption, DividesChain
<1>4. Divides(WordSize, WordSize)
  <2>1. 1 \in 1..WordSize /\ WordSize = WordSize * 1
    BY <1>1
  <2> QED
    BY <2>1 DEF Divides
<1>5. Size(l) \in {ByteSize, HalfSize, IntSize, WordSize}
  BY DEF Size, Letters
<1> QED
  BY <1>1, <1>2, <1>3, <1>4, <1>5, SizeAssumption

\* The sizes divide an int for the letters of ints and what is narrower.
LEMMA IntLetters ==
    ASSUME NEW l \in {"i", "I", "b", "B", "h", "H"}
    PROVE  l \in Letters /\ Size(l) <= IntSize /\ Divides(Size(l), IntSize)
<1>1. /\ IntSize \in Nat \ {0} /\ HalfSize \in Nat \ {0} /\ ByteSize \in Nat \ {0}
      /\ ByteSize <= HalfSize /\ HalfSize <= IntSize
  BY Sizes
<1>2. Divides(ByteSize, IntSize)
  BY <1>1, SizeAssumption, DividesChain
<1>3. Divides(IntSize, IntSize)
  <2>1. 1 \in 1..IntSize /\ IntSize = IntSize * 1
    BY <1>1
  <2> QED
    BY <2>1 DEF Divides
<1>4. Size(l) \in {ByteSize, HalfSize, IntSize} /\ l \in Letters
  BY DEF Size, Letters
<1> QED
  BY <1>1, <1>2, <1>3, <1>4, SizeAssumption

\* A signed reading stays in its class and in the signed range.
LEMMA SignedReading ==
    ASSUME NEW size \in Nat \ {0}, Divides(2, size), NEW u \in 0..(size - 1)
    PROVE  /\ AsSigned(u, size) \in Int /\ Fits(AsSigned(u, size), size)
           /\ Congruent(AsSigned(u, size), u, size)
<1>1. PICK h \in 1..size : size = 2 * h
  BY DEF Divides
<1>2. size \div 2 = h
  BY <1>1
<1>3. AsSigned(u, size) \in Int /\ Fits(AsSigned(u, size), size)
  BY <1>1, <1>2 DEF AsSigned, Fits
<1>4. AsSigned(u, size) = u \/ AsSigned(u, size) = u + (-1) * size
  BY DEF AsSigned
<1>5. Congruent(u, u, size)
  BY CongruentSame
<1> QED
  BY <1>3, <1>4, <1>5 DEF Congruent

\* No two numbers of a signed range are congruent.
LEMMA FitUnique ==
    ASSUME NEW size \in Nat \ {0}, Divides(2, size), NEW x \in Int, NEW y \in Int,
           Fits(x, size), Fits(y, size), Congruent(x, y, size)
    PROVE  x = y
<1>1. PICK k \in Int : x = y + k * size
  BY DEF Congruent
<1>2. PICK h \in 1..size : size = 2 * h
  BY DEF Divides
<1>3. size \div 2 = h
  BY <1>2
<1>4. k * size < size /\ -size < k * size
  BY <1>1, <1>2, <1>3 DEF Fits
<1>5. k = 0
  BY <1>4, SmallMultiple
<1> QED
  BY <1>1, <1>5

\* The member of a letter is a value of its type, congruent to the word.
LEMMA MemberType ==
    ASSUME NEW l \in Letters, NEW w \in Int
    PROVE  /\ Member(l, w) \in CValues(l) /\ Member(l, w) \in Int
           /\ Congruent(Member(l, w), w, Size(l))
<1> DEFINE S == Size(l)
           u == w % S
<1>1. S \in Nat \ {0} /\ Divides(2, S)
  BY SizeType
<1>2. u \in 0..(S - 1) /\ Congruent(w, u, S)
  BY <1>1, Remainder
<1>3. u % S = u
  BY <1>1, <1>2, SmallRemainder
<1>4. Member(l, u) = Member(l, w)
  BY <1>3 DEF Member
<1>5. AsSigned(u, S) \in Int /\ Congruent(AsSigned(u, S), u, S)
  BY <1>1, <1>2, SignedReading
<1>6. Member(l, w) = u \/ Member(l, w) = AsSigned(u, S)
  BY DEF Member
<1> HIDE DEF u
<1>7. Member(l, w) \in Int /\ Congruent(Member(l, w), u, S)
  BY <1>1, <1>2, <1>5, <1>6, CongruentSame
<1>8. Congruent(Member(l, w), w, S)
  BY <1>1, <1>2, <1>7, CongruentTurned, CongruentChain
<1> QED
  BY <1>2, <1>4, <1>7, <1>8 DEF CValues

\* It is the only value of the type in the class of the word.
LEMMA MemberOfClass ==
    ASSUME NEW l \in Letters, NEW w \in Int, NEW v \in CValues(l), Congruent(w, v, Size(l))
    PROVE  v \in Int /\ Member(l, w) = v
<1> DEFINE S == Size(l)
<1>1. S \in Nat \ {0}
  BY SizeType
<1>2. PICK u \in 0..(S - 1) : v = Member(l, u)
  BY DEF CValues
<1>3. v \in Int /\ Congruent(v, u, S)
  BY <1>2, MemberType
<1>4. Congruent(w, u, S)
  BY <1>1, <1>3, CongruentChain
<1> HIDE DEF S
<1>5. w % S = u /\ u % S = u
  BY <1>1, <1>4, Remainder, SmallRemainder
<1> QED
  BY <1>2, <1>3, <1>5 DEF Member, S

\* The values of a type: an unsigned one has the words below its size, a signed one what fits.
LEMMA ValueType ==
    ASSUME NEW l \in Letters, NEW v \in CValues(l)
    PROVE  /\ v \in Int
           /\ l \in Signed => Fits(v, Size(l))
           /\ l \notin Signed => v \in 0..(Size(l) - 1)
<1> DEFINE S == Size(l)
<1>1. S \in Nat \ {0} /\ Divides(2, S)
  BY SizeType
<1>2. PICK w \in 0..(S - 1) : v = Member(l, w)
  BY DEF CValues
<1>3. w % S \in 0..(S - 1)
  BY <1>1, SmallRemainder
<1>4. AsSigned(w % S, S) \in Int /\ Fits(AsSigned(w % S, S), S)
  BY <1>1, <1>3, SignedReading
<1> QED
  BY <1>2, <1>3, <1>4 DEF Member

\* Small words are their own reading.
LEMMA SmallValue ==
    ASSUME NEW l \in Letters, NEW v \in 0..(Size(l) - 1), l \in Signed => v < 2
    PROVE  v \in CValues(l)
<1> DEFINE S == Size(l)
<1>1. S \in Nat \ {0} /\ Divides(2, S) /\ S > 2
  BY SizeType
<1>2. v % S = v
  BY <1>1, SmallRemainder
<1>3. PICK h \in 1..S : S = 2 * h
  BY <1>1 DEF Divides
<1>4. S \div 2 = h /\ h >= 2
  BY <1>1, <1>3
<1>5. l \in Signed => AsSigned(v, S) = v
  BY <1>4 DEF AsSigned
<1>6. Member(l, v) = v
  BY <1>2, <1>5 DEF Member
<1> QED
  BY <1>6 DEF CValues

\* Writing a member changes the word into another that is in the class of the value.
LEMMA WrittenType ==
    ASSUME NEW l \in Letters, NEW v \in Int, NEW old \in Words
    PROVE  Written(l, v, old) \in Words /\ Congruent(Written(l, v, old), v, Size(l))
<1> DEFINE S == Size(l)
           q == old \div S
           m == old % S
           n == v % S
<1>1. S \in Nat \ {0} /\ Divides(S, WordSize) /\ WordSize \in Nat \ {0}
  BY SizeType, SizeAssumption
<1>2. old \in Int /\ old \in 0..(WordSize - 1)
  BY <1>1 DEF Words
<1> HIDE DEF S
<1>3. q \in Int /\ m \in 0..(S - 1) /\ old = q * S + m
  BY <1>2, <1>1, Division
<1>4. n \in 0..(S - 1) /\ Congruent(v, n, S)
  BY <1>1, Remainder
<1>5. Written(l, v, old) = (old - m) + n
  BY DEF Written, S
<1>6. PICK j \in 1..WordSize : WordSize = S * j
  BY <1>1 DEF Divides
<1> HIDE DEF q, m, n
<1>7. Written(l, v, old) = n + q * S
  BY <1>1, <1>3, <1>4, <1>5
<1>8. q >= 0
  <2>1. SUFFICES ASSUME q <= -1 PROVE FALSE
    BY <1>3
  <2>2. (-1 - q) * S >= 0
    BY <1>1, <1>3, <2>1
  <2>3. q * S = -((-1 - q) * S) - S
    BY <1>1, <1>3
  <2> QED
    BY <1>1, <1>3, <1>2, <2>2, <2>3
<1>9. q <= j - 1
  <2>1. SUFFICES ASSUME q >= j PROVE FALSE
    BY <1>3, <1>6
  <2>2. (q - j) * S >= 0
    BY <1>1, <1>3, <1>6, <2>1
  <2>3. q * S = (q - j) * S + S * j
    BY <1>1, <1>3, <1>6
  <2> QED
    BY <1>1, <1>3, <1>6, <1>2, <2>2, <2>3
<1>10. 0 <= q * S /\ q * S <= S * j - S
  <2>1. q * S >= 0
    BY <1>1, <1>3, <1>8
  <2>2. (j - 1 - q) * S >= 0
    BY <1>1, <1>3, <1>6, <1>9
  <2>3. (j - 1 - q) * S = S * j - S - q * S
    BY <1>1, <1>3, <1>6
  <2> QED
    BY <2>1, <2>2, <2>3, <1>1, <1>3, <1>6
<1>11. Written(l, v, old) \in Words
  BY <1>1, <1>3, <1>4, <1>6, <1>7, <1>10 DEF Words
<1>12. Congruent(Written(l, v, old), n, S)
  BY <1>3, <1>7 DEF Congruent
<1>13. Written(l, v, old) \in Int /\ n \in Int /\ S \in Nat
  BY <1>1, <1>4, <1>11, SizeAssumption DEF Words
<1> QED
  BY <1>4, <1>11, <1>12, <1>13, CongruentTurned, CongruentChain DEF S

-----------------------------------------------------------------------------
(* The doubles.                                                            *)

\* Every 64-bit integer has a spacing of the doubles around it.
LEMMA UnitType ==
    ASSUME NEW n \in Int, Fits(n, WordSize)
    PROVE  Abs(n) \in Nat /\ Unit(n) \in Nat \ {0} /\ Spacing(Unit(n), Abs(n))
<1>1. WordSize \in Nat /\ Abs(n) \in 0..(WordSize \div 2)
  BY SizeAssumption DEF Abs, Fits
<1>2. \E u \in Units : Spacing(u, Abs(n))
  BY <1>1, WordAssumption
<1>3. Unit(n) \in Units /\ Spacing(Unit(n), Abs(n))
  BY <1>2 DEF Unit
<1>4. Abs(n) \in Nat
  BY DEF Abs
<1>5. Units \subseteq Nat \ {0}
  BY WordAssumption
<1> QED
  BY <1>3, <1>4, <1>5

\* Rounding changes nothing but what lies between two doubles, and moves that by at most
\* half their spacing.
LEMMA RoundedType ==
    ASSUME NEW n \in Int, Fits(n, WordSize)
    PROVE  /\ Rounded(n) \in Int
           /\ Abs(n) % Unit(n) = 0 => Rounded(n) = n
           /\ 2 * Abs(Rounded(n) - n) <= Unit(n)
<1> DEFINE a == Abs(n)
           u == Unit(n)
           q == a \div u
           m == a % u
           up == 2 * m > u \/ (2 * m = u /\ q % 2 = 1)
           p == (IF up THEN q + 1 ELSE q) * u
<1>1. a \in Nat /\ u \in Nat \ {0}
  BY UnitType
<1>2. Rounded(n) = IF n < 0 THEN -p ELSE p
  BY DEF Rounded
<1>3. n = IF n < 0 THEN -a ELSE a
  BY DEF Abs
<1> HIDE DEF a, u
<1>4. q \in Int /\ m \in 0..(u - 1) /\ a = q * u + m
  BY <1>1, Division
<1> HIDE DEF q, m
<1>5. (q + 1) * u = q * u + u
  BY <1>1, <1>4
<1>6. CASE up
  <2>1. p = a + (u - m) /\ 2 * (u - m) <= u
    BY <1>1, <1>4, <1>5, <1>6
  <2>2. m # 0
    BY <1>1, <1>6
  <2> HIDE DEF p
  <2>3. Rounded(n) \in Int /\ Abs(Rounded(n) - n) = u - m
    BY <1>1, <1>2, <1>3, <1>4, <2>1 DEF Abs
  <2> QED
    BY <2>1, <2>2, <2>3 DEF m, a, u
<1>7. CASE ~up
  <2>1. p = a - m /\ 2 * m <= u
    BY <1>1, <1>4, <1>7
  <2> HIDE DEF p
  <2>2. Rounded(n) \in Int /\ Abs(Rounded(n) - n) = m
    BY <1>1, <1>2, <1>3, <1>4, <2>1 DEF Abs
  <2>3. m = 0 => Rounded(n) = n
    BY <1>1, <1>2, <1>3, <2>1
  <2> QED
    BY <2>1, <2>2, <2>3 DEF m, a, u
<1> QED
  BY <1>6, <1>7

\* Only numbers beyond Exact lie between doubles.
LEMMA ExactBelow ==
    ASSUME NEW n \in Int, Fits(n, WordSize), Abs(n) % Unit(n) # 0
    PROVE  Abs(n) > Exact
<1> DEFINE a == Abs(n)
           u == Unit(n)
<1>1. a \in Nat /\ u \in Nat \ {0} /\ Spacing(u, a) /\ Exact \in Nat /\ a % u # 0
  BY UnitType, SizeAssumption
<1> HIDE DEF a, u
<1>2. SUFFICES ASSUME a <= Exact PROVE FALSE
  BY <1>1 DEF a
<1>3. u # 1
  BY <1>1
<1>4. Exact * u <= 2 * a
  BY <1>1, <1>3 DEF Spacing
<1>5. Exact * u = Exact * 2 + Exact * (u - 2) /\ Exact * (u - 2) >= 0
  BY <1>1, <1>3
<1>6. a = Exact /\ Exact * (u - 2) = 0
  BY <1>1, <1>2, <1>4, <1>5
<1>7. Exact > 0
  BY Sizes
<1>8. u = 2
  BY <1>1, <1>3, <1>6, <1>7
<1>9. PICK k \in 1..Exact : Exact = 2 * k
  BY SizeAssumption DEF Divides
<1> QED
  BY <1>1, <1>6, <1>8, <1>9

-----------------------------------------------------------------------------
(* The two conversions.                                                    *)

\* JavaScript sees a result as Seen says, whatever the other bits of its cell.
LEMMA SeenByJs ==
    ASSUME NEW b \in {"node", "duk"}, NEW l \in InLetters(b), NEW w \in Words,
           NEW v \in CValues(l), Congruent(w, v, Size(l))
    PROVE  Seen(l, v, ValueIn(l, w))
<1>1. l \in Letters /\ w \in Int
  BY Sizes DEF InLetters, Letters, Words
<1>2. v \in Int /\ Member(l, w) = v
  BY <1>1, MemberOfClass
<1>3. w % WordSize = w
  BY Sizes, SmallRemainder DEF Words
<1>4. CASE l = "l"
  <2>1. AsSigned(w, WordSize) = v
    BY <1>2, <1>3, <1>4 DEF Member, Size, Signed
  <2> QED
    BY <1>4, <2>1 DEF Seen, ValueIn, NumberOfLong, Floats
<1>5. CASE l = "p"
  <2>1. w = v
    BY <1>2, <1>3, <1>5 DEF Member, Size, Signed
  <2> QED
    BY <1>5, <2>1 DEF Seen, ValueIn, Floats
<1>6. CASE l \in Floats
  <2>1. w % Size(l) = v
    BY <1>2, <1>6 DEF Member, Signed, Floats
  <2> QED
    BY <1>6, <2>1 DEF Seen, ValueIn, Floats
<1>7. CASE l \notin Floats \cup {"l", "p"}
  <2> DEFINE n == NumberOfInt(w)
             u == w % IntSize
  <2>1. l \in {"i", "I", "b", "B", "h", "H"}
    BY <1>7 DEF InLetters, Floats
  <2>2. u \in 0..(IntSize - 1) /\ Congruent(w, u, IntSize)
    BY <1>1, Sizes, Remainder
  <2>3. n = AsSigned(u, IntSize)
    BY DEF NumberOfInt
  <2>4. Size("i") = IntSize /\ Divides(2, IntSize)
    BY SizeType DEF Size, Letters
  <2> HIDE DEF n, u
  <2>5. n \in Int /\ Fits(n, IntSize) /\ Congruent(n, u, IntSize)
    BY <2>2, <2>3, <2>4, Sizes, SignedReading
  <2>6. Congruent(n, w, IntSize)
    BY <1>1, <2>2, <2>5, Sizes, CongruentTurned, CongruentChain
  <2>7. Size(l) \in Nat /\ Divides(Size(l), IntSize)
    BY <2>1, IntLetters, SizeType
  <2>8. Congruent(n, w, Size(l))
    BY <1>1, <2>5, <2>6, <2>7, Sizes, CongruentNarrower
  <2>9. Congruent(n, v, Size(l))
    BY <1>1, <1>2, <2>5, <2>7, <2>8, CongruentChain
  <2>10. l = "i" => n = v
    BY <1>2, <2>3, <2>4 DEF Member, Signed, u
  <2>11. ValueIn(l, w) = Number(n)
    BY <1>7 DEF ValueIn, Floats, n
  <2> QED
    BY <1>7, <2>5, <2>9, <2>10, <2>11 DEF Seen, SeenInt, Floats
<1> QED
  BY <1>4, <1>5, <1>6, <1>7

\* What value_out may find in JavaScript: a number, or what stands for a word.
JsValue(x) == x.v \in Int /\ (x.kind # "number" => x.v \in Words)

\* The words the cell may hold after value_out.
Cells(b, l, x, old) == IF b = "node" THEN NodeCells(l, x) ELSE DukCells(l, x, old)

\* The number has a value in the type that the binding converts it to.
Convertible(b, l, x) == x.kind = "number" => Fits(x.v, IF b = "node" THEN WordSize ELSE Size(l))

\* The cell keeps its width.
LEMMA CellsType ==
    ASSUME NEW b \in {"node", "duk"}, NEW l \in Letters, NEW x, JsValue(x), NEW old \in Words,
           NEW c \in Cells(b, l, x, old)
    PROVE  c \in Words
<1>1. CASE b = "node"
  <2>1. x.v \in Int => x.v % WordSize \in 0..(WordSize - 1)
    BY Sizes, Remainder
  <2> QED
    BY <1>1, <2>1 DEF Cells, NodeCells, JsValue, LongOf, Words
<1>2. CASE b = "duk"
  <2>1. Filled(l, x, old) \in Int
    BY WordAssumption DEF Filled, JsValue
  <2>2. \A w \in 0..(Size(l) - 1) : w \in Int
    BY SizeType
  <2>3. \E v \in Int : c = Written(l, v, old)
    BY <1>2, <2>1, <2>2 DEF Cells, DukCells
  <2> QED
    BY <2>3, WrittenType
<1> QED
  BY <1>1, <1>2

\* The cell is in the class of the value that was converted.
LEMMA CellsClass ==
    ASSUME NEW b \in {"node", "duk"}, NEW l \in Letters, NEW x, JsValue(x), NEW old \in Words,
           NEW c \in Cells(b, l, x, old), Convertible(b, l, x)
    PROVE  Congruent(c, IF b = "node" THEN x.v ELSE Filled(l, x, old), Size(l))
<1>1. Size(l) \in Nat \ {0} /\ Divides(Size(l), WordSize) /\ x.v \in Int
  BY SizeType DEF JsValue
<1>2. CASE b = "node"
  <2>1. CASE x.kind # "number"
    <3>1. c = x.v
      BY <1>2, <2>1 DEF Cells, NodeCells
    <3> QED
      BY <1>1, <1>2, <3>1, CongruentSame
  <2>2. CASE x.kind = "number"
    <3>1. PICK n \in Int : n = x.v
      BY <1>1
    <3>2. c = n % WordSize
      BY <1>2, <2>2, <3>1 DEF Cells, NodeCells, Convertible, LongOf
    <3>3. WordSize \in Nat \ {0}
      BY Sizes
    <3>4. n % WordSize \in 0..(WordSize - 1) /\ Congruent(n, n % WordSize, WordSize)
      BY <3>3, Remainder
    <3>5. c \in Int /\ Congruent(n, c, WordSize)
      BY <3>2, <3>3, <3>4
    <3>6. Congruent(c, n, WordSize)
      BY <3>3, <3>5, CongruentTurned
    <3>7. Congruent(c, n, Size(l))
      BY <1>1, <3>3, <3>5, <3>6, CongruentNarrower
    <3> QED
      BY <1>2, <3>1, <3>7
  <2> QED
    BY <2>1, <2>2
<1>3. CASE b = "duk"
  <2>1. Filled(l, x, old) \in Int
    BY <1>1, WordAssumption DEF Filled
  <2>2. c = Written(l, Filled(l, x, old), old)
    BY <1>3 DEF Cells, DukCells, Convertible
  <2> QED
    BY <1>3, <2>1, <2>2, WrittenType
<1> QED
  BY <1>2, <1>3

\* A value of the type that is converted as it is arrives.
LEMMA CellsArrive ==
    ASSUME NEW b \in {"node", "duk"}, NEW l \in Letters, NEW x, JsValue(x), NEW old \in Words,
           NEW c \in Cells(b, l, x, old), Convertible(b, l, x), NEW v \in CValues(l),
           Congruent(IF b = "node" THEN x.v ELSE Filled(l, x, old), v, Size(l))
    PROVE  Member(l, c) = v
<1> DEFINE y == IF b = "node" THEN x.v ELSE Filled(l, x, old)
<1>1. y \in Int
  BY WordAssumption DEF Filled, JsValue
<1>2. c \in Int /\ Size(l) \in Nat
  BY CellsType, Sizes, SizeType DEF Words
<1>3. Congruent(c, y, Size(l))
  BY CellsClass
<1>4. v \in Int
  BY ValueType
<1> HIDE DEF y
<1>5. Congruent(y, v, Size(l))
  BY DEF y
<1>6. Congruent(c, v, Size(l))
  BY <1>1, <1>2, <1>3, <1>4, <1>5, CongruentChain
<1> QED
  BY <1>2, <1>6, MemberOfClass

\* What JavaScript gives of its own is no C value; its numbers are those of an int and more,
\* but all have 64-bit values.
LEMMA InputType ==
    ASSUME NEW x \in Inputs
    PROVE  /\ x.kind # "c" /\ JsValue(x)
           /\ x.kind = "number" => Fits(x.v, WordSize) /\ x = Number(x.v)
           /\ x \in Nothing \cup Booleans => x.kind # "number" /\ x.v \in {0, 1}
                                             /\ (x.v = 1 => x.kind = "boolean")
           /\ x \in Addresses => x.kind \in {"pointer", "string"}
<1>1. {0, 1} \subseteq Words /\ Words \subseteq Int
  BY Sizes DEF Words
<1>2. CASE x \in Nothing \cup Booleans \cup {[kind |-> "object", v |-> 0]}
  BY <1>1, <1>2 DEF Nothing, Booleans, JsValue, Addresses, Pointer, String
<1>4. CASE x \in Addresses
  BY <1>1, <1>4 DEF Nothing, Booleans, JsValue, Addresses, Pointer, String
<1>3. ASSUME NEW n \in -(IntSize \div 2)..Exact, x = Number(n)
      PROVE  /\ x.kind # "c" /\ JsValue(x)
             /\ x.kind = "number" => Fits(x.v, WordSize) /\ x = Number(x.v)
             /\ x \notin Nothing \cup Booleans /\ x \notin Addresses
  <2>1. x.kind = "number" /\ x.v = n /\ n \in Int
    BY <1>3, Sizes DEF Number
  <2>2. x \notin Nothing \cup Booleans /\ x \notin Addresses
    BY <2>1 DEF Nothing, Booleans, Addresses, Pointer, String
  <2>3. Fits(n, WordSize)
    <3>1. PICK h \in 1..WordSize : WordSize = 2 * h
      BY SizeType DEF Divides, Size, Letters
    <3>2. WordSize \div 2 = h /\ Exact < h
      BY <3>1, Sizes, SizeAssumption
    <3>3. n \in Int /\ -(IntSize \div 2) <= n /\ n <= Exact
      BY <1>3, Sizes
    <3>4. IntSize \div 2 <= h
      BY <3>1, Sizes
    <3> QED
      BY <3>2, <3>3, <3>4, <3>1, Sizes DEF Fits
  <2> QED
    BY <1>3, <2>1, <2>2, <2>3 DEF JsValue
<1> QED
  BY <1>2, <1>3, <1>4 DEF Inputs

\* A result that JavaScript has seen can be converted back, and is still in its class unless
\* it lay between two doubles.
LEMMA SeenBack ==
    ASSUME NEW b \in {"node", "duk"}, NEW l \in InLetters(b), NEW v \in CValues(l),
           NEW x, Seen(l, v, x)
    PROVE  /\ JsValue(x) /\ x.kind \in {"number", "pointer", "float"}
           /\ (l = "l" => Abs(v) % Unit(v) = 0)
                => Convertible(b, l, x) /\ Congruent(x.v, v, Size(l))
<1>1. l \in Letters
  BY DEF InLetters, Letters
<1>2. v \in Int /\ Congruent(v, v, Size(l))
  BY <1>1, ValueType, SizeType, CongruentSame
<1>3. l \notin Signed => v \in Words
  <2>1. Size(l) \in Nat /\ Size(l) <= WordSize
    BY <1>1, SizeType
  <2> QED
    BY <1>1, <2>1, ValueType, Sizes DEF Words
<1>4. CASE l = "l"
  <2>1. x = Number(Rounded(v)) /\ x.kind = "number" /\ x.v = Rounded(v)
    BY <1>4 DEF Seen, Number
  <2>2. Size(l) = WordSize /\ Fits(v, WordSize)
    BY <1>1, <1>4, ValueType DEF Size, Signed
  <2>3. Rounded(v) \in Int /\ (Abs(v) % Unit(v) = 0 => Rounded(v) = v)
    BY <1>2, <2>2, RoundedType
  <2> QED
    BY <1>2, <1>4, <2>1, <2>2, <2>3 DEF JsValue, Convertible
<1>5. CASE l \in Floats \cup {"p"}
  <2>1. x.v = v /\ x.kind \in {"pointer", "float"}
    BY <1>5 DEF Seen, Pointer, Float
  <2>2. l \notin Signed /\ l # "l"
    BY <1>5 DEF Signed, Floats
  <2> QED
    BY <1>2, <1>3, <2>1, <2>2 DEF JsValue, Convertible
<1>6. CASE l \notin Floats \cup {"l", "p"}
  <2>1. PICK n \in Int : x = Number(n) /\ SeenInt(l, v, n)
    BY <1>6 DEF Seen
  <2>2. x.kind = "number" /\ x.v = n
    BY <2>1 DEF Number
  <2>3. Fits(n, WordSize)
    BY <2>1, Sizes DEF SeenInt, Fits
  <2>4. b = "duk" => Size(l) = IntSize
    BY <1>6 DEF InLetters, Floats, Size
  <2> QED
    BY <1>6, <2>1, <2>2, <2>3, <2>4 DEF JsValue, Convertible, SeenInt
<1> QED
  BY <1>4, <1>5, <1>6

-----------------------------------------------------------------------------
(* The invariant is inductive.                                             *)

\* The initial states satisfy the invariant.
LEMMA InitInv == Init => IInv
<1> SUFFICES ASSUME Init PROVE IInv
  OBVIOUS
<1>1. Garbage \subseteq Words
  BY WordAssumption DEF Words
<1>2. CASE phase = "c"
  <2>1. /\ given \in {[kind |-> "c", v |-> v] : v \in CValues(letter)}
        /\ \E g \in Garbage : cell = Written(letter, given.v, g)
    BY <1>2 DEF Init
  <2>2. given.kind = "c" /\ given.v \in CValues(letter) /\ letter \in Letters
    BY <2>1 DEF Init
  <2>3. cell \in Words /\ Congruent(cell, given.v, Size(letter))
    BY <1>1, <2>1, <2>2, ValueType, WrittenType
  <2> QED
    BY <1>2, <2>1, <2>2, <2>3 DEF Init, IInv, TypeOK, GivenInv, CellInv, SeenInv, BackInv,
                                 RoundTrip, NumberArrives, NoNumberArrives
<1>3. CASE phase = "js"
  <2>1. /\ given \in Inputs /\ (letter \in Floats => given.kind # "number")
        /\ js = given /\ cell \in Words /\ letter \in Letters /\ binding \in {"node", "duk"}
    BY <1>1, <1>3 DEF Init
  <2>2. given.kind # "c"
    BY <2>1, InputType
  <2> QED
    BY <1>3, <2>1, <2>2 DEF IInv, TypeOK, GivenInv, CellInv, SeenInv, BackInv,
                            RoundTrip, NumberArrives, NoNumberArrives
<1> QED
  BY <1>2, <1>3 DEF Init

\* What is given does not change, so its part of the invariant holds on.
LEMMA GivenKept == GivenInv /\ UNCHANGED <<letter, given>> => GivenInv'
  BY DEF GivenInv

\* value_in keeps the invariant: JavaScript sees the result as Seen says.
LEMMA ValueInInv == IInv /\ value_in => IInv'
<1> SUFFICES ASSUME IInv, value_in PROVE IInv'
  OBVIOUS
<1>1. /\ phase = "c" /\ given.kind = "c" /\ Congruent(cell, given.v, Size(letter))
      /\ cell \in Words /\ letter \in Letters /\ binding \in {"node", "duk"}
  BY DEF IInv, TypeOK, CellInv, value_in
<1>2. given.v \in CValues(letter)
  BY <1>1, InputType DEF IInv, GivenInv
<1>3. binding' = binding /\ letter' = letter /\ given' = given /\ cell' \in Words
  BY WordAssumption DEF value_in, Words
<1>4. GivenInv'
  BY <1>3, GivenKept DEF IInv
<1>5. phase' \in {"js", "abort"}
  BY DEF value_in
<1>6. SeenInv'
  <2>1. CASE phase' = "js"
    <3>1. letter \in InLetters(binding) /\ js' = ValueIn(letter, cell)
      BY <2>1 DEF value_in
    <3>2. Seen(letter, given.v, js')
      BY <1>1, <1>2, <3>1, SeenByJs
    <3> QED
      BY <1>1, <1>3, <3>1, <3>2 DEF SeenInv
  <2>2. CASE phase' # "js"
    BY <2>2 DEF SeenInv
  <2> QED
    BY <2>1, <2>2
<1>7. TypeOK'
  BY <1>1, <1>3, <1>5 DEF TypeOK
<1>8. CellInv' /\ BackInv'
  BY <1>5 DEF CellInv, BackInv, RoundTrip, NumberArrives, NoNumberArrives
<1> QED
  BY <1>4, <1>6, <1>7, <1>8 DEF IInv

\* value_out keeps the invariant: what it leaves in the cell has arrived.
LEMMA ValueOutInv == IInv /\ value_out => IInv'
<1> SUFFICES ASSUME IInv, value_out PROVE IInv'
  OBVIOUS
<1>1. /\ phase = "js" /\ cell \in Words /\ letter \in Letters /\ binding \in {"node", "duk"}
      /\ binding' = binding /\ letter' = letter /\ given' = given
  BY DEF IInv, TypeOK, value_out
<1>2. GivenInv'
  BY <1>1, GivenKept DEF IInv
<1>3. \/ phase' \in {"throw", "abort"} /\ cell' = cell
      \/ /\ phase' = "back" /\ cell' \in Cells(binding, letter, js, cell)
         /\ letter \in OutLetters(binding) /\ ~Refused(binding, letter, js)
  BY <1>1 DEF value_out, Cells
<1>4. CASE phase' \in {"throw", "abort"}
  BY <1>1, <1>2, <1>3, <1>4 DEF IInv, TypeOK, CellInv, SeenInv, BackInv,
                                RoundTrip, NumberArrives, NoNumberArrives
<1>5. CASE phase' = "back" /\ given.kind = "c"
  <2>1. given.v \in CValues(letter)
    BY <1>5, InputType DEF IInv, GivenInv
  <2>2. letter \in InLetters(binding) /\ Seen(letter, given.v, js)
    BY <1>1, <1>5 DEF IInv, SeenInv
  <2>3. JsValue(js) /\ js.kind \in {"number", "pointer", "float"}
    BY <1>1, <2>1, <2>2, SeenBack
  <2>4. TypeOK'
    BY <1>1, <1>3, <1>5, <2>3, CellsType DEF TypeOK
  <2>5. RoundTrip'
    <3>1. SUFFICES ASSUME letter = "l" => Abs(given.v) % Unit(given.v) = 0
                   PROVE  Member(letter, cell') = given.v
      BY <1>1, <1>5 DEF RoundTrip, Inexact
    <3>2. Convertible(binding, letter, js) /\ Congruent(js.v, given.v, Size(letter))
      BY <1>1, <2>1, <2>2, <3>1, SeenBack
    <3>3. Filled(letter, js, cell) = js.v
      BY <2>3 DEF Filled
    <3> QED
      BY <1>1, <1>3, <1>5, <2>1, <2>3, <3>2, <3>3, CellsArrive
  <2>6. given \notin Nothing \cup Booleans /\ given \notin Addresses
    BY <1>5 DEF Nothing, Booleans, Addresses, Pointer, String
  <2>7. NumberArrives' /\ NoNumberArrives'
    BY <1>1, <1>5, <2>6 DEF NumberArrives, NoNumberArrives
  <2> QED
    BY <1>2, <1>5, <2>4, <2>5, <2>7 DEF IInv, CellInv, SeenInv, BackInv
<1>6. CASE phase' = "back" /\ given.kind # "c"
  <2>1. js = given /\ given \in Inputs
    BY <1>1, <1>6 DEF IInv, SeenInv, GivenInv
  <2>2. JsValue(js)
    BY <2>1, InputType
  <2>3. cell' \in Cells(binding, letter, js, cell)
    BY <1>3, <1>6
  <2>4. TypeOK'
    BY <1>1, <1>6, <2>2, <2>3, CellsType DEF TypeOK
  <2>5. RoundTrip'
    BY <1>1, <1>6 DEF RoundTrip
  <2>6. NumberArrives'
    <3>1. SUFFICES ASSUME given.kind = "number", given.v \in CValues(letter),
                          binding = "node" \/ Fits(given.v, Size(letter))
                   PROVE  Member(letter, cell') = given.v
      BY <1>1, <1>6 DEF NumberArrives
    <3>2. Convertible(binding, letter, js)
      BY <1>1, <2>1, <3>1, InputType DEF Convertible
    <3>3. Filled(letter, js, cell) = js.v
      BY <2>1, <3>1 DEF Filled
    <3>4. Congruent(js.v, given.v, Size(letter))
      BY <1>1, <2>1, <2>2, SizeType, CongruentSame DEF JsValue
    <3> QED
      BY <1>1, <2>2, <2>3, <3>1, <3>2, <3>3, <3>4, CellsArrive
  <2>7. ASSUME given \in Nothing \cup Booleans,
               given.v = 0 \/ binding = "duk" \/ letter \notin Floats
        PROVE  Member(letter, cell') = IF given.v = 0 THEN 0 ELSE TrueOf(letter)
    <3>1. given \in Nothing \cup Booleans /\ (given.v = 0 \/ binding = "duk" \/ letter \notin Floats)
      BY <2>7
    <3> DEFINE v == IF given.v = 0 THEN 0 ELSE TrueOf(letter)
    <3>2. js.kind # "number" /\ js.v \in {0, 1} /\ (js.v = 1 => js.kind = "boolean")
      BY <2>1, <3>1, InputType
    <3>3. Convertible(binding, letter, js)
      BY <3>2 DEF Convertible
    <3>4. (IF binding = "node" THEN js.v ELSE Filled(letter, js, cell)) = v
      BY <1>1, <2>1, <3>1, <3>2 DEF Filled, TrueOf
    <3>5. v \in 0..(Size(letter) - 1) /\ (letter \in Signed => v < 2)
      <4>1. Size(letter) > 2 /\ Size(letter) \in Nat
        BY <1>1, SizeType
      <4>2. letter \in Floats => FloatOne \in 0..(Size(letter) - 1) /\ letter \notin Signed
        BY WordAssumption, Sizes DEF Floats, Signed, Size
      <4> QED
        BY <4>1, <4>2 DEF TrueOf
    <3>6. v \in CValues(letter)
      BY <1>1, <3>5, SmallValue
    <3>7. Congruent(v, v, Size(letter))
      BY <1>1, <3>5, SizeType, CongruentSame
    <3> HIDE DEF v
    <3>8. Member(letter, cell') = v
      BY <1>1, <2>2, <2>3, <3>3, <3>4, <3>6, <3>7, CellsArrive
    <3> QED
      BY <3>8 DEF v
  <2>8. ASSUME given \in Addresses PROVE Member(letter, cell') = Member(letter, given.v)
    <3> DEFINE v == Member(letter, given.v)
    <3>1. js.kind \in {"pointer", "string"} /\ js.v = given.v /\ js.v \in Int
      BY <2>1, <2>2, <2>8, InputType DEF JsValue
    <3>2. Convertible(binding, letter, js) /\ Filled(letter, js, cell) = js.v
      BY <3>1 DEF Convertible, Filled
    <3>3. v \in CValues(letter) /\ v \in Int /\ Congruent(v, js.v, Size(letter))
      BY <1>1, <3>1, MemberType
    <3>4. Congruent(js.v, v, Size(letter))
      BY <1>1, <3>1, <3>3, SizeType, CongruentTurned
    <3> HIDE DEF v
    <3>5. Member(letter, cell') = v
      BY <1>1, <2>2, <2>3, <3>2, <3>3, <3>4, CellsArrive
    <3> QED
      BY <3>5 DEF v
  <2>9. NoNumberArrives'
    BY <1>1, <2>7, <2>8 DEF NoNumberArrives
  <2> QED
    BY <1>2, <1>6, <2>4, <2>5, <2>6, <2>9 DEF IInv, CellInv, SeenInv, BackInv
<1> QED
  BY <1>3, <1>4, <1>5, <1>6

-----------------------------------------------------------------------------
(* The theorems.                                                           *)

\* For every size of words, ints and doubles: the invariant holds in every state.
THEOREM Invariance == Spec => []IInv
<1>1. IInv /\ [Next]_vars => IInv'
  <2> SUFFICES ASSUME IInv, [Next]_vars PROVE IInv'
    OBVIOUS
  <2>1. CASE value_in
    BY <2>1, ValueInInv
  <2>2. CASE value_out
    BY <2>2, ValueOutInv
  <2>3. CASE UNCHANGED vars
    BY <2>3 DEF vars, IInv, TypeOK, GivenInv, CellInv, SeenInv, BackInv,
                RoundTrip, Inexact, NumberArrives, NoNumberArrives
  <2> QED
    BY <2>1, <2>2, <2>3 DEF Next, Over
<1> QED
  BY <1>1, InitInv, PTL DEF Spec

\* For every size: a cell keeps its width, whatever the bindings write into it.
THEOREM TypeCorrect == Spec => []TypeOK
<1>1. IInv => TypeOK
  BY DEF IInv
<1> QED
  BY <1>1, Invariance, PTL

\* For every size: a C value comes back from JavaScript as it was, in both bindings and for
\* every letter they convert both ways, unless it lay between two doubles.
THEOREM RoundTripCorrect == Spec => []RoundTrip
<1>1. IInv => RoundTrip
  BY DEF IInv, BackInv
<1> QED
  BY <1>1, Invariance, PTL

\* For every size: under i and l JavaScript sees the number that C returned, or the double
\* nearest to it; under the other integer letters it sees the bits of their type.
THEOREM ResultCorrect == Spec => []ResultSeen
<1>1. ASSUME IInv, phase = "js", given.kind = "c"
      PROVE  /\ Seen(letter, given.v, js) /\ letter \in Letters
             /\ given.v \in CValues(letter) /\ given.v \in Int
  <2>1. Seen(letter, given.v, js) /\ letter \in Letters /\ given.v \in CValues(letter)
    BY <1>1, InputType DEF IInv, TypeOK, SeenInv, GivenInv
  <2> QED
    BY <2>1, ValueType
<1>2. ASSUME IInv, phase = "js", given.kind = "c", letter = "i"
      PROVE  js = Number(given.v) /\ 2 * Abs(js.v - given.v) <= Unit(given.v)
  <2>1. js = Number(given.v) /\ given.v \in Int
    BY <1>1, <1>2 DEF Seen, SeenInt, Floats
  <2>2. Abs(js.v - given.v) = 0
    BY <2>1 DEF Abs, Number
  <2>3. Fits(given.v, WordSize)
    BY <1>1, <1>2, ValueType, Sizes DEF Size, Signed, Fits
  <2>4. Unit(given.v) \in Nat
    BY <2>1, <2>3, UnitType
  <2> QED
    BY <2>1, <2>2, <2>4
<1>3. ASSUME IInv, phase = "js", given.kind = "c", letter = "l"
      PROVE  /\ ~Inexact \/ Abs(given.v) <= Exact => js = Number(given.v)
             /\ 2 * Abs(js.v - given.v) <= Unit(given.v)
  <2>1. js = Number(Rounded(given.v)) /\ js.v = Rounded(given.v)
    BY <1>1, <1>3 DEF Seen, Number
  <2>2. given.v \in Int /\ Fits(given.v, WordSize)
    BY <1>1, <1>3, ValueType DEF Size, Signed
  <2>3. ASSUME ~Inexact \/ Abs(given.v) <= Exact
        PROVE  Abs(given.v) % Unit(given.v) = 0
    <3>1. CASE ~Inexact
      BY <1>3, <3>1 DEF Inexact
    <3>2. CASE Abs(given.v) <= Exact
      <4>1. Abs(given.v) \in Nat
        BY <2>2, UnitType
      <4> QED
        BY <2>2, <3>2, <4>1, ExactBelow, Sizes
    <3> QED
      BY <2>3, <3>1, <3>2
  <2> QED
    BY <2>1, <2>2, <2>3, RoundedType
<1>4. ASSUME IInv, phase = "js", given.kind = "c", letter \in {"I", "b", "B", "h", "H"}
      PROVE  /\ letter = "I" => js = Number(AsSigned(given.v, IntSize))
             /\ letter # "I" => Member(letter, js.v) = given.v
  <2>1. PICK n \in Int : js = Number(n) /\ SeenInt(letter, given.v, n)
    BY <1>1, <1>4 DEF Seen, Floats
  <2>2. js.v = n /\ Fits(n, IntSize) /\ Congruent(n, given.v, Size(letter))
    BY <2>1 DEF SeenInt, Number
  <2>3. Member(letter, js.v) = given.v
    BY <1>1, <1>4, <2>2, MemberOfClass
  <2>4. CASE letter = "I"
    <3> DEFINE m == AsSigned(given.v, IntSize)
    <3>1. Size("I") = IntSize /\ IntSize \in Nat \ {0} /\ Divides(2, IntSize)
      BY SizeType, Sizes DEF Size, Letters
    <3>2. given.v \in 0..(IntSize - 1)
      BY <1>1, <1>4, <2>4, <3>1, ValueType DEF Signed
    <3>3. m \in Int /\ Fits(m, IntSize) /\ Congruent(m, given.v, IntSize)
      BY <3>1, <3>2, SignedReading
    <3> HIDE DEF m
    <3>4. Congruent(n, m, IntSize)
      BY <1>1, <1>4, <2>2, <2>4, <3>1, <3>3, CongruentTurned, CongruentChain
    <3>5. n = m
      BY <2>2, <3>1, <3>3, <3>4, FitUnique
    <3> QED
      BY <2>1, <2>4, <3>5 DEF m
  <2> QED
    BY <2>3, <2>4
<1>5. IInv => ResultSeen
  BY <1>2, <1>3, <1>4 DEF ResultSeen
<1> QED
  BY <1>5, Invariance, PTL

\* For every size: a JavaScript integer arrives as itself wherever the C type has a value for
\* it, although Node.js converts to 64 bits for every type.
THEOREM NumberCorrect == Spec => []NumberArrives
<1>1. IInv => NumberArrives
  BY DEF IInv, BackInv
<1> QED
  BY <1>1, Invariance, PTL

\* For every size: null, undefined and booleans arrive as 0 and 1, or 1.0, of the type, and
\* the address of a pointer, a buffer or a string in the bits that the type has.
THEOREM NoNumberCorrect == Spec => []NoNumberArrives
<1>1. IInv => NoNumberArrives
  BY DEF IInv, BackInv
<1> QED
  BY <1>1, Invariance, PTL
=============================================================================
