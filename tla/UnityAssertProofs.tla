-------------------------- MODULE UnityAssertProofs --------------------------
(***************************************************************************)
(* Theorems about module UnityAssert, for all numbers, arrays, strings and *)
(* floats.                                                                 *)
(***************************************************************************)
EXTENDS UnityAssert, SequenceTheorems, NaturalRecursion, TLAPS

\* Which assertion each action calls.
LEMMA KindOfCall ==
  /\ Bits => call'.assertion = "Bits"
  /\ Scalar => call'.assertion \in {"Equal", "Compare", "Within"}
  /\ EqualPtr => call'.assertion = "EqualPtr"
  /\ NumbersArray => call'.assertion \in {"EqualIntArray", "ArrayWithin"}
  /\ EqualMemory => call'.assertion = "EqualMemory"
  /\ EqualString => call'.assertion = "EqualString"
  /\ EqualStringArray => call'.assertion = "EqualStringArray"
  /\ Float => call'.assertion \in {"FloatsWithin", "FloatsNotWithin", "FloatCompare"}
  /\ FloatSpecial => call'.assertion = "FloatSpecial"
  /\ FloatArray => call'.assertion = "FloatArray"
  /\ PrintFloat => call'.assertion = "PrintFloat"
  /\ Return => call'.assertion = "none"
<1>1. Bits => call'.assertion = "Bits"
  BY DEF Bits, Calls
<1>2. Scalar => call'.assertion \in {"Equal", "Compare", "Within"}
  BY DEF Scalar, Calls, TwoNumbers
<1>3. EqualPtr => call'.assertion = "EqualPtr"
  BY DEF EqualPtr, Calls
<1>4. NumbersArray => call'.assertion \in {"EqualIntArray", "ArrayWithin"}
  <2>1. NumbersArray =>
          \E assertion \in {"EqualIntArray", "ArrayWithin"} :
          \E style, flags, n, v, delta :
            call' = TwoArrays(assertion, style, flags, n, v, delta)
    <3> DEFINE Called(assertion, style, flags, m, v, delta) ==
                 Calls(TwoArrays(assertion, style, flags, m, v, delta),
                       UnityAssertNumbersArray(
                         TwoArrays(assertion, style, flags, m, v, delta)))
    <3>1. NumbersArray =>
            \E style \in Style, flags \in Flags, n \in 1 .. MaxLength :
            \E v \in ArrayPairs(Raw(style.size), Raw(style.size), n, flags), m \in {0, n} :
              \/ Called("EqualIntArray", style, flags, m, v, 0)
              \/ \E d \in Deltas :
                   Called("ArrayWithin", style, flags, m, v, Unsigned(d, style.size))
      BY Zenon DEF NumbersArray
    <3>2. \A assertion, style, flags, m, v, delta :
            Called(assertion, style, flags, m, v, delta) =>
              call' = TwoArrays(assertion, style, flags, m, v, delta)
      BY DEF Calls
    <3> HIDE DEF Called
    <3> QED BY <3>1, <3>2
  <2> QED BY <2>1 DEF TwoArrays
<1>5. EqualMemory => call'.assertion = "EqualMemory"
  BY DEF EqualMemory, Calls
<1>6. EqualString => call'.assertion = "EqualString"
  BY DEF EqualString, Calls
<1>7. EqualStringArray => call'.assertion = "EqualStringArray"
  BY DEF EqualStringArray, Calls
<1>8. Float => call'.assertion \in {"FloatsWithin", "FloatsNotWithin", "FloatCompare"}
  BY DEF Float, Calls, TwoFloats
<1>9. FloatSpecial => call'.assertion = "FloatSpecial"
  BY DEF FloatSpecial, Calls
<1>10. FloatArray => call'.assertion = "FloatArray"
  BY DEF FloatArray, Calls
<1>11. PrintFloat => call'.assertion = "PrintFloat"
  BY DEF PrintFloat, Calls
<1>12. Return => call'.assertion = "none"
  BY DEF Return, Idle
<1> QED BY <1>1, <1>2, <1>3, <1>4, <1>5, <1>6, <1>7, <1>8, <1>9, <1>10, <1>11, <1>12

-----------------------------------------------------------------------------
(* Numbers.                                                                *)

\* Quotient and remainder.
LEMMA Division ==
  ASSUME NEW q \in Nat, NEW l \in Nat, NEW r \in 0 .. l - 1
  PROVE  (q * l + r) \div l = q /\ (q * l + r) % l = r
OBVIOUS

\* The last of n groups of l elements ends at l * n.
LEMMA GroupEnd ==
  ASSUME NEW n \in Nat, NEW q \in 0 .. n - 1, NEW l \in Nat, NEW r \in 0 .. l - 1
  PROVE  q * l + r + 1 \in 1 .. l * n
<1> DEFINE a == q * l
           b == l * n
           d == (q + 1) * l
<1>1. a \in Nat /\ b \in Nat /\ d \in Nat
  OBVIOUS
<1>2. d <= b /\ d = a + l
  OBVIOUS
<1> HIDE DEF a, b, d
<1>3. a + r + 1 \in 1 .. b
  BY <1>1, <1>2
<1> QED BY <1>3 DEF a, b

\* A byte has an even number of values.
LEMMA ByteValues == 2^ByteBits \in Nat /\ \E h \in Nat \ {0} : 2^ByteBits = 2 * h
<1>1. CASE ByteBits = 2
  BY <1>1, 2^ByteBits = 4, 4 = 2 * 2
<1>2. CASE ByteBits = 4
  BY <1>2, 2^ByteBits = 16, 16 = 2 * 8
<1>3. CASE ByteBits = 6
  BY <1>3, 2^ByteBits = 64, 64 = 2 * 32
<1>4. CASE ByteBits = 8
  BY <1>4, 2^ByteBits = 256, 256 = 2 * 128
<1> QED BY <1>1, <1>2, <1>3, <1>4, UnityPrintAssumption

\* The function Values exists, and its values are positive.
LEMMA ValuesAre ==
  /\ Values[0] = 1
  /\ \A size \in 1 .. 8 : Values[size] = Values[size - 1] * 2^ByteBits
  /\ \A size \in 0 .. 8 : Values[size] \in Nat \ {0}
<1> DEFINE R == 2^ByteBits
           Solves(f) == f = [size \in 0 .. 8 |-> IF size = 0 THEN 1 ELSE f[size - 1] * R]
           step == [k \in 1 .. 8 |-> [v \in Nat |-> v * R]]
<1>1. R \in Nat \ {0}
  BY ByteValues
<1>2. Values = CHOOSE f : Solves(f)
  BY DEF Values
<1> HIDE DEF R
<1>3. \E f : Solves(f)
  <2>1. step \in Steps(8, Nat) /\ 1 \in Nat /\ 8 \in Nat
    BY <1>1 DEF Steps
  <2> HIDE DEF step
  <2>2. PICK f : IsRecursion(f, 1, step, 8, Nat)
    BY <2>1, RecursionExists
  <2>3. ASSUME NEW k \in 0 .. 8 PROVE f[k] = IF k = 0 THEN 1 ELSE f[k - 1] * R
    BY <2>2 DEF IsRecursion, step
  <2>4. f = [size \in 0 .. 8 |-> f[size]]
    BY <2>2 DEF IsRecursion
  <2>5. Solves(f)
    BY <2>3, <2>4
  <2> HIDE DEF Solves
  <2> QED BY <2>5
<1>4. Solves(Values)
  <2> HIDE DEF Solves
  <2> QED BY <1>2, <1>3
<1>5. Values[0] = 1 /\ \A size \in 1 .. 8 : Values[size] = Values[size - 1] * R
  BY <1>4
<1> DEFINE S == {k \in Nat : k <= 8 => Values[k] \in Nat \ {0}}
<1>6. ASSUME NEW k \in Nat, k \in S PROVE k + 1 \in S
  <2> SUFFICES ASSUME k + 1 <= 8 PROVE Values[k + 1] \in Nat \ {0}
    OBVIOUS
  <2>1. Values[k + 1] = Values[k] * R /\ Values[k] \in Nat \ {0}
    BY <1>5, <1>6
  <2> QED BY <1>1, <2>1
<1>7. Nat \subseteq S
  <2>1. 0 \in S
    BY <1>5
  <2> HIDE DEF S
  <2> QED BY <1>6, <2>1, SetInduction
<1> QED BY <1>5, <1>7 DEF R

\* More bytes have more values, an even number of them.
LEMMA ValuesGrow ==
  /\ \A size \in 1 .. 8 : \E h \in Nat \ {0} : Values[size] = 2 * h
  /\ \A size \in 0 .. 8 : Values[size] <= Values[8]
<1>1. ASSUME NEW size \in 1 .. 8
      PROVE  /\ \E h \in Nat \ {0} : Values[size] = 2 * h
             /\ Values[size - 1] <= Values[size]
  <2>1. PICK h \in Nat \ {0} : 2^ByteBits = 2 * h
    BY ByteValues
  <2> DEFINE v == Values[size - 1]
  <2>2. v \in Nat \ {0} /\ Values[size] = v * (2 * h)
    BY <2>1, ValuesAre
  <2> HIDE DEF v
  <2>3. v * (2 * h) = 2 * (v * h) /\ v * h \in Nat \ {0} /\ v <= v * (2 * h)
    BY <2>2
  <2> QED BY <2>2, <2>3 DEF v
<1> DEFINE S == {k \in Nat : k <= 8 => Values[8 - k] <= Values[8]}
<1>2. ASSUME NEW k \in Nat, k \in S PROVE k + 1 \in S
  <2> SUFFICES ASSUME k + 1 <= 8 PROVE Values[8 - (k + 1)] <= Values[8]
    OBVIOUS
  <2>1. 8 - k \in 1 .. 8 /\ 8 - k - 1 = 8 - (k + 1) /\ 8 - (k + 1) \in 0 .. 8 /\ 8 \in 0 .. 8
    OBVIOUS
  <2>2. Values[8 - (k + 1)] <= Values[8 - k] /\ Values[8 - k] <= Values[8]
    BY <1>1, <1>2, <2>1
  <2> QED BY <2>1, <2>2, ValuesAre
<1>3. Nat \subseteq S
  <2>1. 0 \in S
    BY ValuesAre
  <2> HIDE DEF S
  <2> QED BY <1>2, <2>1, SetInduction
<1>4. ASSUME NEW size \in 0 .. 8 PROVE Values[size] <= Values[8]
  <2>1. 8 - size \in Nat /\ 8 - size <= 8 /\ 8 - (8 - size) = size
    OBVIOUS
  <2>2. 8 - size \in S
    BY <1>3, <2>1
  <2> QED BY <2>1, <2>2
<1> QED BY <1>1, <1>4

\* The remainder of a number and of that number less the divisor.
LEMMA Wrapped ==
  \A p \in Nat \ {0} : \A n \in 0 .. p - 1 : n % p = n /\ (n - p) % p = n
<1>1. ASSUME NEW p \in Nat \ {0}, NEW n \in 0 .. p - 1 PROVE n % p = n
  OBVIOUS
<1>2. ASSUME NEW p \in Nat \ {0}, NEW n \in 0 .. p - 1 PROVE (n - p) % p = n
  <2>1. n - p \in Int /\ -p <= n - p /\ n - p < 0
    OBVIOUS
  <2>2. ASSUME NEW m \in Int, -p <= m, m < 0 PROVE m % p = m + p
    BY <2>2
  <2>3. (n - p) % p = (n - p) + p
    BY <2>1, <2>2
  <2> QED BY <2>3
<1> QED BY <1>1, <1>2

\* What the casts do: the range of their results, and numbers in it stay.
LEMMA UnsignedIs ==
  ASSUME NEW n \in Int, NEW size \in 0 .. 8
  PROVE  /\ Unsigned(n, size) \in 0 .. Values[size] - 1
         /\ n \in 0 .. Values[size] - 1 => Unsigned(n, size) = n
         /\ -Values[size] <= n /\ n < 0 => Unsigned(n, size) = n + Values[size]
<1> DEFINE p == Values[size]
<1>1. p \in Nat \ {0}
  BY ValuesAre
<1> HIDE DEF p
<1>2. n % p \in 0 .. p - 1 /\ (n \in 0 .. p - 1 => n % p = n)
  BY <1>1
<1>3. -p <= n /\ n < 0 => n % p = n + p
  BY <1>1
<1> QED BY <1>2, <1>3 DEF Unsigned, p

\* The numbers of a signed type.
Fits(n, size) == n \in Int /\ -Values[size] <= 2 * n /\ 2 * n < Values[size]

\* Signed yields a number of the signed type, by taking off at most one round.
LEMMA SignedIs ==
  ASSUME NEW n \in Int, NEW size \in 1 .. 8
  PROVE  /\ Fits(Signed(n, size), size)
         /\ Signed(n, size) = Unsigned(n, size)
            \/ Signed(n, size) = Unsigned(n, size) - Values[size]
<1>1. Unsigned(n, size) \in 0 .. Values[size] - 1 /\ Values[size] \in Nat \ {0}
  <2>1. size \in 0 .. 8
    OBVIOUS
  <2> QED BY <2>1, UnsignedIs, ValuesAre
<1> QED BY <1>1 DEF Signed, Fits

\* Numbers that an assertion is given: those of a signed or unsigned type of at
\* most 8 bytes.
LEMMA CastIs ==
  ASSUME NEW style, NEW size \in 1 .. 8, NEW n \in Int
  PROVE  /\ IsInt(style) => Fits(Cast(style, size, n), 8)
         /\ ~ IsInt(style) => Cast(style, size, n) \in 0 .. Values[8] - 1
<1>1. Values[size] <= Values[8] /\ Values[size] \in Nat \ {0} /\ Values[8] \in Nat \ {0}
  <2>1. size \in 0 .. 8 /\ 8 \in 0 .. 8
    OBVIOUS
  <2> QED BY <2>1, ValuesAre, ValuesGrow
<1>2. Fits(Signed(n, size), size) /\ Unsigned(n, size) \in 0 .. Values[size] - 1
  <2>1. size \in 0 .. 8
    OBVIOUS
  <2> QED BY <2>1, SignedIs, UnsignedIs
<1>3. Fits(Signed(n, size), 8) /\ Unsigned(n, size) \in 0 .. Values[8] - 1
  BY <1>1, <1>2 DEF Fits
<1> QED BY <1>3 DEF Cast

\* The difference in UNITY_UINT is the distance of the numbers, although that
\* of two signed ones need not be a signed number.
LEMMA DistanceIs ==
  ASSUME NEW a \in Int, NEW b \in Int,
         (Fits(a, 8) /\ Fits(b, 8))
         \/ (a \in 0 .. Values[8] - 1 /\ b \in 0 .. Values[8] - 1)
  PROVE  Distance(a, b) = Abs(a - b)
<1> DEFINE p == Values[8]
           U(n) == Unsigned(n, 8)
<1>1. p \in Nat \ {0}
  BY ValuesAre
<1>2. ASSUME NEW n \in Int, -p <= n, n < p
      PROVE  U(n) \in Int /\ (U(n) = n \/ U(n) = n + p)
  BY <1>1, <1>2, UnsignedIs
<1>3. ASSUME NEW n \in 0 .. p - 1, NEW m \in {n - p, n, n + p}
      PROVE  U(m) = n
  <2>1. m \in Int /\ m % p = n
    BY <1>1
  <2> QED BY <2>1 DEF Unsigned
<1>4. /\ -p <= a /\ a < p /\ -p <= b /\ b < p
      /\ a > b => a - b \in 0 .. p - 1
      /\ ~ (a > b) => b - a \in 0 .. p - 1
  BY <1>1 DEF Fits
<1> HIDE DEF p, U
<1>5. U(a) \in Int /\ (U(a) = a \/ U(a) = a + p) /\ U(b) \in Int /\ (U(b) = b \/ U(b) = b + p)
  BY <1>2, <1>4
<1>6. CASE a > b
  <2>1. U(a) - U(b) \in {a - b - p, a - b, a - b + p} /\ a - b \in 0 .. p - 1
    BY <1>1, <1>4, <1>5, <1>6
  <2>2. U(U(a) - U(b)) = a - b
    BY <1>3, <2>1
  <2>3. Distance(a, b) = U(U(a) - U(b))
    BY <1>6 DEF Distance, U
  <2> QED BY <1>6, <2>2, <2>3 DEF Abs
<1>7. CASE ~ (a > b)
  <2>1. U(b) - U(a) \in {b - a - p, b - a, b - a + p} /\ b - a \in 0 .. p - 1
    BY <1>1, <1>4, <1>5, <1>7
  <2>2. U(U(b) - U(a)) = b - a
    BY <1>3, <2>1
  <2>3. Distance(a, b) = U(U(b) - U(a))
    BY <1>7 DEF Distance, U
  <2> QED BY <1>7, <2>2, <2>3 DEF Abs
<1> QED BY <1>6, <1>7

\* A call on two numbers is judged as NumberVerdicts says.
LEMMA ScalarVerdict == Scalar => NumberVerdicts'
<1> SUFFICES ASSUME Scalar PROVE NumberVerdicts'
  OBVIOUS
<1> DEFINE Called(style, e, a) ==
             \/ Calls(TwoNumbers("Equal", style, e, a, {}, 0),
                      UnityAssertEqualNumber(e, a, style))
             \/ \E compare \in Comparison :
                  Calls(TwoNumbers("Compare", style, e, a, compare, 0),
                        UnityAssertGreaterOrLessOrEqualNumber(e, a, compare, style))
             \/ \E delta \in Deltas, size \in 1 .. 8 :
                  Calls(TwoNumbers("Within", style, e, a, {}, Unsigned(delta, size)),
                        UnityAssertNumbersWithin(Unsigned(delta, size), e, a, style))
<1>1. PICK style \in Style, v \in Numbers, w \in Numbers, size \in 1 .. 8 :
        Called(style, Cast(style, size, v), Cast(style, size, w))
  <2>1. \A style \in Style : CastSizes(style) \subseteq 1 .. 8
    BY DEF CastSizes, Style
  <2>2. PICK style \in Style, v \in Numbers, w \in Numbers : \E size \in CastSizes(style) :
          LET e == Cast(style, size, v)
              a == Cast(style, size, w)
          IN  \/ Calls(TwoNumbers("Equal", style, e, a, {}, 0),
                       UnityAssertEqualNumber(e, a, style))
              \/ \E compare \in Comparison :
                   Calls(TwoNumbers("Compare", style, e, a, compare, 0),
                         UnityAssertGreaterOrLessOrEqualNumber(e, a, compare, style))
              \/ \E delta \in Deltas :
                   LET d == Unsigned(delta, size)
                   IN  Calls(TwoNumbers("Within", style, e, a, {}, d),
                             UnityAssertNumbersWithin(d, e, a, style))
    BY Zenon DEF Scalar
  <2>3. PICK size \in CastSizes(style) :
          Called(style, Cast(style, size, v), Cast(style, size, w))
    <3>1. CastSizes(style) \subseteq 1 .. 8
      BY <2>1
    <3> QED BY <2>2, <3>1, Zenon
  <2> HIDE DEF Called
  <2> QED BY <2>1, <2>3
<1> DEFINE e == Cast(style, size, v)
           a == Cast(style, size, w)
<1>2. /\ e \in Int /\ a \in Int
      /\ (Fits(a, 8) /\ Fits(e, 8))
         \/ (a \in 0 .. Values[8] - 1 /\ e \in 0 .. Values[8] - 1)
  <2>1. Numbers \subseteq Int
    BY UnityAssertAssumption
  <2>2. v \in Int /\ w \in Int
    BY <2>1
  <2>3. IsInt(style) => Fits(a, 8) /\ Fits(e, 8)
    BY <2>2, CastIs
  <2>4. ~ IsInt(style) => a \in 0 .. Values[8] - 1 /\ e \in 0 .. Values[8] - 1
    BY <2>2, CastIs
  <2> HIDE DEF e, a
  <2>5. Values[8] \in Nat
    BY ValuesAre
  <2> QED BY <2>3, <2>4, <2>5 DEF Fits
<1> HIDE DEF e, a
<1>3. CASE Calls(TwoNumbers("Equal", style, e, a, {}, 0), UnityAssertEqualNumber(e, a, style))
  BY <1>3 DEF Calls, TwoNumbers, NumberVerdicts
<1>4. ASSUME NEW compare \in Comparison,
             Calls(TwoNumbers("Compare", style, e, a, compare, 0),
                   UnityAssertGreaterOrLessOrEqualNumber(e, a, compare, style))
      PROVE  NumberVerdicts'
  <2>1. call' = TwoNumbers("Compare", style, e, a, compare, 0)
    BY <1>4 DEF Calls
  <2>2. outcome'.failed <=> ~ Holds(compare, a, e)
    <3>1. outcome'.failed
            <=> \/ e = a /\ "EQUAL_TO" \notin compare
                \/ a > e /\ "SMALLER_THAN" \in compare
                \/ a < e /\ "GREATER_THAN" \in compare
      BY <1>4 DEF Calls, UnityAssertGreaterOrLessOrEqualNumber, Report, ReportAt, Pass, Outcome
    <3> QED BY <1>2, <3>1 DEF Comparison, Holds
  <2> QED BY <2>1, <2>2 DEF TwoNumbers, NumberVerdicts
<1>5. ASSUME NEW delta \in Deltas, NEW s \in 1 .. 8,
             Calls(TwoNumbers("Within", style, e, a, {}, Unsigned(delta, s)),
                   UnityAssertNumbersWithin(Unsigned(delta, s), e, a, style))
      PROVE  NumberVerdicts'
  <2> DEFINE d == Unsigned(delta, s)
  <2> HIDE DEF d
  <2>1. call' = TwoNumbers("Within", style, e, a, {}, d)
    BY <1>5 DEF Calls, d
  <2>2. outcome'.failed <=> Distance(a, e) > d
    BY <1>5 DEF Calls, UnityAssertNumbersWithin, Report, ReportAt, Pass, Outcome, d
  <2>3. Distance(a, e) = Abs(a - e)
    BY <1>2, DistanceIs
  <2> QED BY <2>1, <2>2, <2>3 DEF TwoNumbers, NumberVerdicts
<1> QED BY <1>1, <1>3, <1>4, <1>5 DEF e, a

\* Comparisons and distances are those of the numbers, for all numbers of every
\* width and sign (UnityAssertIntGreaterOrLessOrEqualNumber, ...Uint...,
\* UnityAssertIntNumbersWithin, ...Uint...).
THEOREM UnityNumberVerdicts == Spec => []NumberVerdicts
<1>1. Init => NumberVerdicts
  BY DEF Init, Idle, NumberVerdicts
<1>2. NumberVerdicts /\ [Next]_vars => NumberVerdicts'
  <2> SUFFICES ASSUME NumberVerdicts, [Next]_vars PROVE NumberVerdicts'
    OBVIOUS
  <2>1. CASE Scalar
    BY <2>1, ScalarVerdict
  <2>2. CASE call'.assertion \notin {"Compare", "Within"}
    BY <2>2 DEF NumberVerdicts
  <2>3. CASE UNCHANGED vars
    BY <2>3 DEF vars, NumberVerdicts
  <2> QED BY <2>1, <2>2, <2>3, KindOfCall DEF Next
<1> QED BY <1>1, <1>2, PTL DEF Spec

-----------------------------------------------------------------------------
(* Arrays in general.                                                      *)

\* What the loop over the elements of a call gives, if all it passes, or fails
\* at the first of the bad elements, which are counted from 1.
LoopOutcome(o, n, bad) ==
  \/ o = Pass /\ bad = {}
  \/ \E j \in 0 .. n - 1 : /\ o.failed /\ o.element = j /\ j + 1 \in bad
                           /\ \A k \in bad : j < k

\* The tests before the loop and the loop make the verdict on two arrays.
LEMMA PrologueOutcome ==
  ASSUME NEW c, NEW rest, NEW bad,
         c.expected = NULL <=> c.elements.expected = NULL,
         c.actual = NULL <=> c.elements.actual = NULL,
         /\ c.num_elements # 0
         /\ c.elements.expected # NULL
         /\ c.elements.actual # NULL
         => LoopOutcome(rest, c.num_elements, bad)
  PROVE  ArrayOutcome(c, ArrayPrologue(c, rest), bad)
<1>1. \A why : Failure(why).failed /\ ~ Pass.failed
  BY DEF Failure, Pass, Outcome
<1>2. CASE \/ c.num_elements = 0
           \/ c.same
           \/ c.elements.expected = NULL
           \/ c.elements.actual = NULL
  BY <1>1, <1>2 DEF ArrayOutcome, ArrayPrologue
<1>3. CASE /\ c.num_elements # 0
           /\ ~ c.same
           /\ c.elements.expected # NULL
           /\ c.elements.actual # NULL
  <2>1. ArrayPrologue(c, rest) = rest
    BY <1>3 DEF ArrayPrologue
  <2>2. /\ rest.failed <=> bad # {}
        /\ bad # {} => rest.element + 1 \in bad /\ \A k \in bad : rest.element < k
    BY <1>1, <1>3 DEF LoopOutcome
  <2> QED BY <1>3, <2>1, <2>2 DEF ArrayOutcome
<1> QED BY <1>2, <1>3

\* The arrays a test gives.
LEMMA PairTypes ==
  ASSUME NEW S, NEW T, NEW n, NEW flags, NEW v \in ArrayPairs(S, T, n, flags)
  PROVE  /\ v.actual # NULL => v.actual \in [1 .. n -> T]
         /\ v.expected # NULL =>
              \/ v.expected \in [1 .. (IF flags = "ARRAY_TO_ARRAY" THEN n ELSE 1) -> S]
              \/ flags # "ARRAY_TO_VAL" /\ v.expected \in [1 .. n -> T]
<1> DEFINE given == [1 .. (IF flags = "ARRAY_TO_ARRAY" THEN n ELSE 1) -> S]
           found == [1 .. n -> T]
           N == NULL
<1> HIDE DEF given, found, N
<1>1. CASE v \in [expected: given \cup {N}, actual: found \cup {N}, same: {FALSE}]
  BY <1>1 DEF given, found, N
<1>2. CASE /\ flags # "ARRAY_TO_VAL"
           /\ v \in {[expected |-> s, actual |-> s, same |-> TRUE] : s \in found}
  BY <1>2 DEF given, found, N
<1>3. v \in [expected: given \cup {N}, actual: found \cup {N}, same: {FALSE}]
            \cup IF flags = "ARRAY_TO_VAL" THEN {}
                 ELSE {[expected |-> s, actual |-> s, same |-> TRUE] : s \in found}
  BY Zenon DEF ArrayPairs, given, found, N
<1> QED BY <1>1, <1>2, <1>3

\* A loop that passes on, or fails naming the element, comes to such an outcome.
LEMMA ArrayLoop ==
  ASSUME NEW n \in Nat, NEW bad, NEW found, NEW f,
         IsLoop(f, n, bad, found, Pass),
         \A j \in 0 .. n - 1 : found[j].failed /\ found[j].element = j
  PROVE  LoopOutcome(f[0], n, {k \in 1 .. n : k - 1 \in bad})
<1>1. CASE f[0] = Pass /\ \A j \in 0 .. n - 1 : j \notin bad
  <2>1. \A k \in 1 .. n : k - 1 \in 0 .. n - 1
    OBVIOUS
  <2> QED BY <1>1, <2>1 DEF LoopOutcome
<1>2. ASSUME NEW j \in 0 .. n - 1, j \in bad, f[0] = found[j],
             \A k \in 0 .. j - 1 : k \notin bad
      PROVE  LoopOutcome(f[0], n, {k \in 1 .. n : k - 1 \in bad})
  <2>1. j + 1 \in 1 .. n /\ j + 1 - 1 = j
    OBVIOUS
  <2>2. ASSUME NEW k \in 1 .. n, k - 1 \in bad PROVE j < k
    <3>1. ~ (k - 1 \in 0 .. j - 1)
      BY <1>2, <2>2
    <3> QED BY <3>1
  <2> QED BY <1>2, <2>1, <2>2 DEF LoopOutcome
<1> QED BY <1>1, <1>2, LoopResult

-----------------------------------------------------------------------------
(* Strings.                                                                *)

\* s ends with its only NUL, or has no NUL and exactly so many characters.
IsString(s, length) ==
  /\ s \in Seq(Nat)
  /\ s # NULL
  /\ \A j \in 1 .. Len(s) - 1 : s[j] # 0
  /\ s[Len(s)] # 0 => Len(s) = length

\* The loop over two strings ends with d after i characters that are the same
\* and not NUL, behind both strings or at a character where they differ.
EndsAfter(i, e, a, length, d) ==
  /\ \A k \in 1 .. i : e[k] = a[k] /\ e[k] # 0
  /\ \/ i = length /\ d = 0
     \/ i < length /\ e[i + 1] = 0 /\ a[i + 1] = 0 /\ d = 0
     \/ i < length /\ e[i + 1] # a[i + 1] /\ d = 1

\* The loop over two strings ends after some i characters, at a difference,
\* at the end of both, or at the limit.
LEMMA CharactersResult ==
  ASSUME NEW e, NEW a, NEW length \in Nat
  PROVE  \E i \in 0 .. length : EndsAfter(i, e, a, length, CharactersDiffer(e, a, length))
<1> DEFINE bad == {i \in 0 .. length - 1 : ~ GoesOn(e, a, i) \/ e[i + 1] # a[i + 1]}
           found == [i \in 0 .. length |-> IF GoesOn(e, a, i) THEN 1 ELSE 0]
           Body(f) == [i \in 0 .. length |->
                         IF i = length THEN 0
                         ELSE IF ~ GoesOn(e, a, i) THEN 0
                         ELSE IF e[i + 1] # a[i + 1] THEN 1
                         ELSE f[i + 1]]
           Solves(f) == f = Body(f)
           d == CharactersDiffer(e, a, length)
<1>1. ASSUME NEW f PROVE IsLoop(f, length, bad, found, 0) <=> Solves(f)
  <2> DEFINE L == [i \in 0 .. length |->
                     IF i = length THEN 0 ELSE IF i \in bad THEN found[i] ELSE f[i + 1]]
  <2>1. ASSUME NEW i \in 0 .. length PROVE L[i] = Body(f)[i]
    BY DEF GoesOn
  <2>2. L = Body(f)
    BY <2>1
  <2> QED BY <2>2 DEF IsLoop
<1>2. d = (CHOOSE f : Solves(f))[0]
  BY DEF CharactersDiffer
<1> HIDE DEF bad, found, Solves, d
<1>3. PICK f : IsLoop(f, length, bad, found, 0) /\ d = f[0]
  <2>1. \E f : Solves(f)
    BY <1>1, LoopExists
  <2>2. Solves(CHOOSE f : Solves(f))
    BY <2>1
  <2> QED BY <1>1, <1>2, <2>2
<1>4. \/ d = 0 /\ \A i \in 0 .. length - 1 : i \notin bad
      \/ \E i \in 0 .. length - 1 : /\ i \in bad /\ d = found[i]
                                    /\ \A k \in 0 .. i - 1 : k \notin bad
  BY <1>3, LoopResult
<1>5. ASSUME NEW i \in 0 .. length, \A k \in 0 .. i - 1 : k \notin bad
      PROVE  \A k \in 1 .. i : e[k] = a[k] /\ e[k] # 0
  <2> TAKE k \in 1 .. i
  <2>1. k - 1 \in 0 .. length - 1 /\ k - 1 \notin bad /\ k - 1 + 1 = k
    BY <1>5
  <2> QED BY <2>1 DEF bad, GoesOn
<1>6. CASE d = 0 /\ \A i \in 0 .. length - 1 : i \notin bad
  <2>1. EndsAfter(length, e, a, length, d)
    BY <1>5, <1>6 DEF EndsAfter
  <2> QED BY <2>1 DEF d
<1>7. ASSUME NEW i \in 0 .. length - 1, i \in bad, d = found[i],
             \A k \in 0 .. i - 1 : k \notin bad
      PROVE  \E j \in 0 .. length : EndsAfter(j, e, a, length, d)
  <2>1. i \in 0 .. length /\ i < length
    OBVIOUS
  <2>2. \A k \in 1 .. i : e[k] = a[k] /\ e[k] # 0
    BY <1>5, <1>7, <2>1
  <2>3. \/ e[i + 1] = 0 /\ a[i + 1] = 0 /\ d = 0
        \/ e[i + 1] # a[i + 1] /\ d = 1
    BY <1>7, <2>1 DEF bad, found, GoesOn
  <2>4. EndsAfter(i, e, a, length, d)
    BY <2>1, <2>2, <2>3 DEF EndsAfter
  <2> QED BY <2>1, <2>4
<1> QED BY <1>4, <1>6, <1>7 DEF d

\* If the first characters of a string are not NUL, they count, and the next
\* one, if there is one, counts unless it is NUL.
LEMMA CountedPrefix ==
  ASSUME NEW length \in Nat, NEW s, IsString(s, length),
         NEW i \in 0 .. length, \A k \in 1 .. i : s[k] # 0
  PROVE  /\ i <= Len(s)
         /\ 1 .. i \subseteq DOMAIN Counted(s, length)
         /\ \A k \in DOMAIN Counted(s, length) : Counted(s, length)[k] = s[k]
         /\ i = length => DOMAIN Counted(s, length) = 1 .. i
         /\ i < length => i + 1 \in 1 .. Len(s)
         /\ i < length /\ s[i + 1] = 0 => DOMAIN Counted(s, length) = 1 .. i
         /\ i < length /\ s[i + 1] # 0 => i + 1 \in DOMAIN Counted(s, length)
<1> DEFINE D == {k \in 1 .. Len(s) : k <= length /\ \A j \in 1 .. k : s[j] # 0}
<1>1. DOMAIN Counted(s, length) = D /\ \A k \in D : Counted(s, length)[k] = s[k]
  BY DEF Counted
<1>2. Len(s) \in Nat /\ Len(s) >= 1
  BY DEF IsString, NULL
<1>3. i <= Len(s) /\ (i < length => i + 1 <= Len(s))
  <2>1. CASE s[Len(s)] = 0
    BY <1>2, <2>1
  <2>2. CASE s[Len(s)] # 0
    BY <1>2, <2>2 DEF IsString
  <2> QED BY <2>1, <2>2
<1>4. 1 .. i \subseteq D
  BY <1>2, <1>3
<1>5. i = length => D = 1 .. i
  BY <1>4
<1>6. i < length /\ s[i + 1] = 0 => D = 1 .. i
  <2> SUFFICES ASSUME i < length, s[i + 1] = 0, NEW k \in D PROVE k <= i
    BY <1>4
  <2>1. k \in Nat /\ ~ (i + 1 \in 1 .. k)
    BY <1>2
  <2> QED BY <2>1
<1>7. i < length /\ s[i + 1] # 0 => i + 1 \in D
  BY <1>2, <1>3
<1> HIDE DEF D
<1> QED BY <1>1, <1>2, <1>3, <1>4, <1>5, <1>6, <1>7

\* The loop finds a difference iff the characters that count differ.
LEMMA CharactersCompared ==
  ASSUME NEW length \in Nat, NEW e, NEW a, IsString(e, length), IsString(a, length)
  PROVE  CharactersDiffer(e, a, length) = 1
           <=> Counted(e, length) # Counted(a, length)
<1> DEFINE d == CharactersDiffer(e, a, length)
           E == Counted(e, length)
           A == Counted(a, length)
<1>1. PICK i \in 0 .. length : EndsAfter(i, e, a, length, d)
  BY CharactersResult
<1>2. (\A k \in 1 .. i : e[k] # 0) /\ (\A k \in 1 .. i : a[k] # 0)
  BY <1>1 DEF EndsAfter
<1> HIDE DEF d, E, A
<1>3. /\ 1 .. i \subseteq DOMAIN E
      /\ \A k \in DOMAIN E : E[k] = e[k]
      /\ i = length => DOMAIN E = 1 .. i
      /\ i < length /\ e[i + 1] = 0 => DOMAIN E = 1 .. i
      /\ i < length /\ e[i + 1] # 0 => i + 1 \in DOMAIN E
  <2>1. \A k \in 1 .. i : e[k] # 0
    BY <1>2
  <2>2. 1 .. i \subseteq DOMAIN E
    BY <2>1, CountedPrefix DEF E
  <2>3.  \A k \in DOMAIN E : E[k] = e[k]
    BY <2>1, CountedPrefix DEF E
  <2>4. i = length => DOMAIN E = 1 .. i
    BY <2>1, CountedPrefix DEF E
  <2>5. i < length /\ e[i + 1] = 0 => DOMAIN E = 1 .. i
    BY <2>1, CountedPrefix DEF E
  <2>6. i < length /\ e[i + 1] # 0 => i + 1 \in DOMAIN E
    BY <2>1, CountedPrefix DEF E
  <2> QED BY <2>2, <2>3, <2>4, <2>5, <2>6
<1>4. /\ 1 .. i \subseteq DOMAIN A
      /\ \A k \in DOMAIN A : A[k] = a[k]
      /\ i = length => DOMAIN A = 1 .. i
      /\ i < length /\ a[i + 1] = 0 => DOMAIN A = 1 .. i
      /\ i < length /\ a[i + 1] # 0 => i + 1 \in DOMAIN A
  <2>1. \A k \in 1 .. i : a[k] # 0
    BY <1>2
  <2>2. 1 .. i \subseteq DOMAIN A
    BY <2>1, CountedPrefix DEF A
  <2>3.  \A k \in DOMAIN A : A[k] = a[k]
    BY <2>1, CountedPrefix DEF A
  <2>4. i = length => DOMAIN A = 1 .. i
    BY <2>1, CountedPrefix DEF A
  <2>5. i < length /\ a[i + 1] = 0 => DOMAIN A = 1 .. i
    BY <2>1, CountedPrefix DEF A
  <2>6. i < length /\ a[i + 1] # 0 => i + 1 \in DOMAIN A
    BY <2>1, CountedPrefix DEF A
  <2> QED BY <2>2, <2>3, <2>4, <2>5, <2>6
<1>5. E = [k \in DOMAIN E |-> E[k]] /\ A = [k \in DOMAIN A |-> A[k]]
  BY DEF Counted, E, A
<1>6. CASE d = 0
  <2>1. DOMAIN E = 1 .. i /\ DOMAIN A = 1 .. i
    BY <1>1, <1>3, <1>4, <1>6 DEF EndsAfter
  <2>2. \A k \in 1 .. i : E[k] = A[k]
    BY <1>1, <1>3, <1>4, <2>1 DEF EndsAfter
  <2>3. E = A
    BY <1>5, <2>1, <2>2
  <2> QED BY <1>6, <2>3 DEF d, E, A
<1>7. CASE i < length /\ e[i + 1] # a[i + 1] /\ d = 1
  <2>1. i + 1 \notin 1 .. i
    OBVIOUS
  <2>2. E # A
    BY <1>3, <1>4, <1>7, <2>1
  <2> QED BY <1>7, <2>2 DEF d, E, A
<1> QED BY <1>1, <1>6, <1>7 DEF EndsAfter

\* The loop over the strings of two arrays.
LEMMA StringsLoop ==
  ASSUME NEW c, c.num_elements \in Nat
  PROVE  LoopOutcome(EqualStrings(c), c.num_elements,
                     {k \in 1 .. c.num_elements :
                        StringsDiffer(Expd(c, k - 1), c.actual[k], Unlimited)})
<1> DEFINE n == c.num_elements
           bad == {j \in 0 .. n - 1 : StringsDiffer(Expd(c, j), c.actual[j + 1], Unlimited)}
           found == [j \in 0 .. n |-> DifferAt(j, 0)]
           Body(f) == [j \in 0 .. n |->
                         IF j = n THEN Pass
                         ELSE IF StringsDiffer(Expd(c, j), c.actual[j + 1], Unlimited)
                           THEN DifferAt(j, 0)
                         ELSE f[j + 1]]
           Solves(f) == f = Body(f)
<1>1. ASSUME NEW f PROVE IsLoop(f, n, bad, found, Pass) <=> Solves(f)
  <2> DEFINE L == [j \in 0 .. n |->
                     IF j = n THEN Pass ELSE IF j \in bad THEN found[j] ELSE f[j + 1]]
  <2>1. ASSUME NEW j \in 0 .. n PROVE L[j] = Body(f)[j]
    OBVIOUS
  <2>2. L = Body(f)
    BY <2>1
  <2> QED BY <2>2 DEF IsLoop
<1>2. EqualStrings(c) = (CHOOSE f : Solves(f))[0]
  BY DEF EqualStrings
<1>3. \A j \in 0 .. n - 1 : found[j].failed /\ found[j].element = j
  BY DEF DifferAt, Outcome
<1>4. {k \in 1 .. n : k - 1 \in bad}
        = {k \in 1 .. n : StringsDiffer(Expd(c, k - 1), c.actual[k], Unlimited)}
  <2>1. \A k \in 1 .. n : k - 1 \in 0 .. n - 1 /\ k - 1 + 1 = k
    OBVIOUS
  <2> QED BY <2>1
<1> HIDE DEF bad, found, Solves
<1>5. PICK f : IsLoop(f, n, bad, found, Pass) /\ EqualStrings(c) = f[0]
  <2>1. \E f : Solves(f)
    BY <1>1, LoopExists
  <2>2. Solves(CHOOSE f : Solves(f))
    BY <2>1
  <2> QED BY <1>1, <1>2, <2>2
<1>6. LoopOutcome(f[0], n, {k \in 1 .. n : k - 1 \in bad})
  BY <1>3, <1>5, ArrayLoop
<1> QED BY <1>4, <1>5, <1>6

\* Operands of string assertions are strings.
LEMMA StringsAre ==
  /\ \A length \in Nat, s \in Strings : IsString(s, length)
  /\ \A length \in Nat : \A s \in [1 .. length -> Chars] : s # NULL => IsString(s, length)
<1>0. Chars \subseteq Nat \ {0}
  BY UnityAssertAssumption
<1>1. ASSUME NEW length \in Nat, NEW s \in Strings PROVE IsString(s, length)
  <2>0. PICK n \in 0 .. MaxLength : \E t \in [1 .. n -> Chars] : s = Append(t, 0)
    BY DEF Strings
  <2>1. PICK t \in [1 .. n -> Chars] : s = Append(t, 0)
    BY <2>0
  <2>2. t \in Seq(Nat) /\ Len(t) = n /\ \A j \in 1 .. n : t[j] \in Nat \ {0}
    <3>1. t \in [1 .. n -> Nat]
      BY <1>0
    <3> QED BY <1>0, <3>1, SeqDef
  <2>3. /\ s \in Seq(Nat) /\ Len(s) = n + 1 /\ s[n + 1] = 0
        /\ \A j \in 1 .. n : s[j] = t[j]
    BY <2>1, <2>2
  <2> QED BY <2>2, <2>3 DEF IsString, NULL
<1>2. ASSUME NEW length \in Nat, NEW s \in [1 .. length -> Chars], s # NULL
      PROVE  IsString(s, length)
  <2>1. s \in Seq(Nat) /\ Len(s) = length /\ \A j \in 1 .. length : s[j] # 0
    <3>1. s \in [1 .. length -> Nat]
      BY <1>0
    <3> QED BY <1>0, <3>1, SeqDef
  <2> QED BY <1>2, <2>1 DEF IsString, NULL
<1> QED BY <1>1, <1>2

\* NULL, or a string.
OptionalString(s, length) == s = NULL \/ IsString(s, length)

\* Two strings, or NULLs, are found different iff they are not the same text.
LEMMA StringsCompared ==
  ASSUME NEW length \in Nat, NEW e, NEW a,
         OptionalString(e, length), OptionalString(a, length)
  PROVE  StringsDiffer(e, a, length) <=> ~ SameString(e, a, length)
BY CharactersCompared DEF OptionalString, StringsDiffer, SameString

\* A call on two strings is judged as StringVerdicts says.
LEMMA EqualStringVerdict == EqualString => StringVerdicts'
<1> SUFFICES ASSUME EqualString PROVE StringVerdicts'
  OBVIOUS
<1>1. PICK length \in 0 .. MaxLength + 1 \cup {Unlimited} :
      \E e, a \in Strings \cup {NULL} \cup
                  IF length = Unlimited THEN {} ELSE [1 .. length -> Chars] :
        Calls([assertion |-> "EqualString", expected |-> e, actual |-> a, length |-> length],
              UnityAssertEqualString(e, a, length))
  BY DEF EqualString
<1>2. PICK e, a \in Strings \cup {NULL} \cup
                    IF length = Unlimited THEN {} ELSE [1 .. length -> Chars] :
        Calls([assertion |-> "EqualString", expected |-> e, actual |-> a, length |-> length],
              UnityAssertEqualString(e, a, length))
  BY <1>1
<1>3. length \in Nat
  BY UnityAssertAssumption DEF Unlimited
<1>4. OptionalString(e, length) /\ OptionalString(a, length)
  BY <1>3, StringsAre DEF OptionalString
<1>5. outcome'.failed <=> ~ SameString(e, a, length)
  BY <1>2, <1>3, <1>4, StringsCompared DEF Calls, UnityAssertEqualString, Failure, Pass, Outcome
<1> QED BY <1>2, <1>5 DEF Calls, StringVerdicts

\* A call on two arrays of strings is judged as StringVerdicts says.
LEMMA EqualStringArrayVerdict == EqualStringArray => StringVerdicts'
<1> SUFFICES ASSUME EqualStringArray PROVE StringVerdicts'
  OBVIOUS
<1> DEFINE E(flags) == Strings \cup IF flags = "ARRAY_TO_ARRAY" THEN {NULL} ELSE {}
           C(flags, n, v) ==
             [assertion |-> "EqualStringArray", flags |-> flags,
              num_elements |-> n, same |-> v.same, actual |-> v.actual, elements |-> v,
              expected |-> IF flags = "ARRAY_TO_VAL" /\ v.expected # NULL
                           THEN v.expected[1] ELSE v.expected]
<1>1. PICK flags \in Flags, n \in 1 .. MaxLength :
        \E v \in ArrayPairs(E(flags), Strings \cup {NULL}, n, flags), m \in {0, n} :
          Calls(C(flags, m, v), UnityAssertEqualStringArray(C(flags, m, v)))
  BY Zenon DEF EqualStringArray
<1>2. PICK v \in ArrayPairs(E(flags), Strings \cup {NULL}, n, flags), m \in {0, n} :
          Calls(C(flags, m, v), UnityAssertEqualStringArray(C(flags, m, v)))
  BY <1>1
<1> DEFINE c == C(flags, m, v)
           differ == {k \in 1 .. m : StringsDiffer(Expd(c, k - 1), c.actual[k], Unlimited)}
           wrong == {k \in 1 .. m : ~ SameString(ExpectedAt(c, k), ActualAt(c, k), Unlimited)}
<1>3. /\ c.flags = flags /\ c.num_elements = m /\ c.same = v.same /\ c.elements = v
      /\ c.actual = v.actual /\ c.assertion = "EqualStringArray"
      /\ c.expected = IF flags = "ARRAY_TO_VAL" /\ v.expected # NULL
                      THEN v.expected[1] ELSE v.expected
  OBVIOUS
<1>4. m \in Nat /\ m <= n /\ n >= 1 /\ n \in Nat /\ flags \in {"ARRAY_TO_ARRAY", "ARRAY_TO_VAL"}
  BY UnityAssertAssumption DEF Flags
<1> HIDE DEF c
<1>5. /\ v.actual # NULL => v.actual \in [1 .. n -> Strings \cup {NULL}]
      /\ v.expected # NULL =>
           \/ v.expected \in [1 .. (IF flags = "ARRAY_TO_ARRAY" THEN n ELSE 1) -> E(flags)]
           \/ flags # "ARRAY_TO_VAL" /\ v.expected \in [1 .. n -> Strings \cup {NULL}]
  <2> HIDE DEF E
  <2> QED BY PairTypes
<1>6. ASSUME v.expected # NULL, v.actual # NULL
      PROVE  differ = wrong
  <2>1. ASSUME NEW k \in 1 .. m
        PROVE  StringsDiffer(Expd(c, k - 1), c.actual[k], Unlimited)
                 <=> ~ SameString(ExpectedAt(c, k), ActualAt(c, k), Unlimited)
    <3>1. k \in 1 .. n /\ k - 1 + 1 = k /\ 1 \in 1 .. 1
      BY <1>4
    <3>2. Expd(c, k - 1) = ExpectedAt(c, k) /\ c.actual[k] = ActualAt(c, k)
      BY <1>3, <1>4, <1>6, <3>1 DEF Expd, ExpectedAt, ActualAt
    <3>3. ExpectedAt(c, k) \in Strings \cup {NULL}
      BY <1>3, <1>4, <1>5, <1>6, <3>1 DEF ExpectedAt
    <3>4. ActualAt(c, k) \in Strings \cup {NULL}
      BY <1>3, <1>5, <1>6, <3>1 DEF ActualAt
    <3>5. Unlimited \in Nat
      BY UnityAssertAssumption DEF Unlimited
    <3> QED BY <3>2, <3>3, <3>4, <3>5, StringsAre, StringsCompared DEF OptionalString
  <2> QED BY <2>1
<1>7. (c.expected = NULL <=> v.expected = NULL) /\ (c.actual = NULL <=> v.actual = NULL)
  <2>1. \A s \in Strings : s # NULL
    BY StringsAre DEF IsString
  <2> QED BY <1>3, <1>4, <1>5, <2>1
<1>8. LoopOutcome(EqualStrings(c), m, differ)
  BY <1>3, <1>4, StringsLoop
<1> HIDE DEF differ, wrong
<1>9. ArrayOutcome(c, UnityAssertEqualStringArray(c), wrong)
  BY <1>3, <1>6, <1>7, <1>8, PrologueOutcome DEF UnityAssertEqualStringArray
<1>10. call' = c /\ outcome' = UnityAssertEqualStringArray(c)
  BY <1>2 DEF Calls, c
<1> QED BY <1>3, <1>9, <1>10 DEF StringVerdicts, wrong

\* Strings are equal iff the characters before NUL, or the first ones up to the
\* length given, are, for strings of any length over any characters, and in
\* arrays of any length the first pair that differs is named
\* (UnityAssertEqualString, ...StringLen, ...StringArray).
THEOREM UnityStringVerdicts == Spec => []StringVerdicts
<1>1. Init => StringVerdicts
  BY DEF Init, Idle, StringVerdicts
<1>2. StringVerdicts /\ [Next]_vars => StringVerdicts'
  <2> SUFFICES ASSUME StringVerdicts, [Next]_vars PROVE StringVerdicts'
    OBVIOUS
  <2>1. CASE EqualString
    BY <2>1, EqualStringVerdict
  <2>2. CASE EqualStringArray
    BY <2>2, EqualStringArrayVerdict
  <2>3. CASE call'.assertion \notin {"EqualString", "EqualStringArray"}
    BY <2>3 DEF StringVerdicts
  <2>4. CASE UNCHANGED vars
    BY <2>4 DEF vars, StringVerdicts
  <2> QED BY <2>1, <2>2, <2>3, <2>4, KindOfCall DEF Next
<1> QED BY <1>1, <1>2, PTL DEF Spec

-----------------------------------------------------------------------------
(* Memory.                                                                 *)

\* Byte i of element j is not as expected, where the pointers point to.
BytesDiffer(c, j, i) ==
  c.expected[ExpectedOffset(c, j, c.length) + i + 1] # c.actual[j * c.length + i + 1]

\* The loop over the bytes of an element fails at the first that differs.
LEMMA MemoryElementResult ==
  ASSUME NEW c, c.length \in Nat, NEW j, NEW rest
  PROVE  \/ /\ MemoryElement(c, j, rest) = rest
            /\ \A i \in 0 .. c.length - 1 : ~ BytesDiffer(c, j, i)
         \/ \E i \in 0 .. c.length - 1 :
              /\ BytesDiffer(c, j, i)
              /\ \A k \in 0 .. i - 1 : ~ BytesDiffer(c, j, k)
              /\ MemoryElement(c, j, rest) = DifferAt(j, i)
<1> DEFINE n == c.length
           bad == {i \in 0 .. n - 1 : BytesDiffer(c, j, i)}
           found == [i \in 0 .. n |-> DifferAt(j, i)]
           Body(f) == [i \in 0 .. n |->
                         IF i = n THEN rest
                         ELSE IF c.expected[ExpectedOffset(c, j, n) + i + 1]
                                   # c.actual[j * n + i + 1]
                           THEN DifferAt(j, i)
                         ELSE f[i + 1]]
           Solves(f) == f = Body(f)
<1>1. ASSUME NEW f PROVE IsLoop(f, n, bad, found, rest) <=> Solves(f)
  <2> DEFINE L == [i \in 0 .. n |->
                     IF i = n THEN rest ELSE IF i \in bad THEN found[i] ELSE f[i + 1]]
  <2>1. ASSUME NEW i \in 0 .. n PROVE L[i] = Body(f)[i]
    BY DEF BytesDiffer
  <2>2. L = Body(f)
    BY <2>1
  <2> QED BY <2>2 DEF IsLoop
<1>2. MemoryElement(c, j, rest) = (CHOOSE f : Solves(f))[0]
  BY DEF MemoryElement
<1> HIDE DEF Solves
<1>3. PICK f : IsLoop(f, n, bad, found, rest) /\ MemoryElement(c, j, rest) = f[0]
  <2> HIDE DEF bad, found
  <2>1. \E f : Solves(f)
    BY <1>1, LoopExists
  <2>2. Solves(CHOOSE f : Solves(f))
    BY <2>1
  <2> QED BY <1>1, <1>2, <2>2
<1>4. \/ f[0] = rest /\ \A i \in 0 .. n - 1 : i \notin bad
      \/ \E i \in 0 .. n - 1 : /\ i \in bad /\ f[0] = found[i]
                               /\ \A k \in 0 .. i - 1 : k \notin bad
  <2> HIDE DEF bad, found
  <2> QED BY <1>3, LoopResult
<1> QED BY <1>3, <1>4

\* The loop over the elements fails at the first byte of the first element that
\* differs.
LEMMA MemoryResult ==
  ASSUME NEW c, c.length \in Nat, NEW n \in Nat
  PROVE  \/ /\ Memory(c, n) = Pass
            /\ \A j \in 0 .. n - 1, i \in 0 .. c.length - 1 : ~ BytesDiffer(c, j, i)
         \/ \E j \in 0 .. n - 1 : \E i \in 0 .. c.length - 1 :
              /\ BytesDiffer(c, j, i)
              /\ \A k \in 0 .. i - 1 : ~ BytesDiffer(c, j, k)
              /\ \A l \in 0 .. j - 1, k \in 0 .. c.length - 1 : ~ BytesDiffer(c, l, k)
              /\ Memory(c, n) = DifferAt(j, i)
<1> DEFINE bad == {j \in 0 .. n - 1 : \E i \in 0 .. c.length - 1 : BytesDiffer(c, j, i)}
           found == [j \in 0 .. n |-> MemoryElement(c, j, Pass)]
           Body(f) == [j \in 0 .. n |->
                         IF j = n THEN Pass ELSE MemoryElement(c, j, f[j + 1])]
           Solves(f) == f = Body(f)
<1>1. ASSUME NEW j \in 0 .. n - 1, NEW rest
      PROVE  MemoryElement(c, j, rest) =
               IF j \in bad THEN MemoryElement(c, j, Pass) ELSE rest
  <2>1. CASE j \in bad
    <3>1. PICK i \in 0 .. c.length - 1 :
            /\ BytesDiffer(c, j, i)
            /\ \A k \in 0 .. i - 1 : ~ BytesDiffer(c, j, k)
            /\ MemoryElement(c, j, rest) = DifferAt(j, i)
      BY <2>1, MemoryElementResult
    <3>2. PICK m \in 0 .. c.length - 1 :
            /\ BytesDiffer(c, j, m)
            /\ \A k \in 0 .. m - 1 : ~ BytesDiffer(c, j, k)
            /\ MemoryElement(c, j, Pass) = DifferAt(j, m)
      BY <2>1, MemoryElementResult
    <3>3. i = m
      <4>1. ~ (i \in 0 .. m - 1) /\ ~ (m \in 0 .. i - 1)
        BY <3>1, <3>2
      <4> QED BY <4>1
    <3> QED BY <2>1, <3>1, <3>2, <3>3
  <2>2. CASE j \notin bad
    BY <2>2, MemoryElementResult
  <2> QED BY <2>1, <2>2
<1>2. ASSUME NEW f PROVE IsLoop(f, n, bad, found, Pass) <=> Solves(f)
  <2> DEFINE L == [j \in 0 .. n |->
                     IF j = n THEN Pass ELSE IF j \in bad THEN found[j] ELSE f[j + 1]]
  <2>1. ASSUME NEW j \in 0 .. n PROVE L[j] = Body(f)[j]
    <3>1. CASE j = n
      BY <3>1
    <3>2. CASE j \in 0 .. n - 1
      <4>1. j # n
        BY <3>2
      <4> HIDE DEF bad
      <4> QED BY <1>1, <3>2, <4>1
    <3> QED BY <3>1, <3>2
  <2>2. L = Body(f)
    <3> HIDE DEF bad, found
    <3> QED BY <2>1
  <2> QED BY <2>2 DEF IsLoop
<1>3. Memory(c, n) = (CHOOSE f : Solves(f))[0]
  BY DEF Memory
<1> HIDE DEF Solves, bad
<1>4. PICK f : IsLoop(f, n, bad, found, Pass) /\ Memory(c, n) = f[0]
  <2> HIDE DEF found
  <2>1. \E f : Solves(f)
    BY <1>2, LoopExists
  <2>2. Solves(CHOOSE f : Solves(f))
    BY <2>1
  <2> QED BY <1>2, <1>3, <2>2
<1>5. \/ f[0] = Pass /\ \A j \in 0 .. n - 1 : j \notin bad
      \/ \E j \in 0 .. n - 1 : /\ j \in bad /\ f[0] = found[j]
                               /\ \A k \in 0 .. j - 1 : k \notin bad
  <2> HIDE DEF found
  <2> QED BY <1>4, LoopResult
<1>6. ASSUME NEW j \in 0 .. n - 1, j \in bad, f[0] = found[j],
             \A k \in 0 .. j - 1 : k \notin bad
      PROVE  \E i \in 0 .. c.length - 1 :
              /\ BytesDiffer(c, j, i)
              /\ \A k \in 0 .. i - 1 : ~ BytesDiffer(c, j, k)
              /\ \A l \in 0 .. j - 1, k \in 0 .. c.length - 1 : ~ BytesDiffer(c, l, k)
              /\ Memory(c, n) = DifferAt(j, i)
  <2>1. found[j] = MemoryElement(c, j, Pass)
    OBVIOUS
  <2>2. PICK i \in 0 .. c.length - 1 :
          /\ BytesDiffer(c, j, i)
          /\ \A k \in 0 .. i - 1 : ~ BytesDiffer(c, j, k)
          /\ MemoryElement(c, j, Pass) = DifferAt(j, i)
    BY <1>6, MemoryElementResult DEF bad
  <2>3. \A l \in 0 .. j - 1 : l \in 0 .. n - 1 /\ l \notin bad
    BY <1>6
  <2>4. \A l \in 0 .. j - 1, k \in 0 .. c.length - 1 : ~ BytesDiffer(c, l, k)
    BY <2>3 DEF bad
  <2> QED BY <1>4, <1>6, <2>1, <2>2, <2>4
<1>7. CASE f[0] = Pass /\ \A j \in 0 .. n - 1 : j \notin bad
  BY <1>4, <1>7 DEF bad
<1> QED BY <1>5, <1>6, <1>7

\* Byte r of element q of a sequence of m elements.
FlatSpec(s, m, length) ==
  \A q \in 0 .. m - 1, r \in 0 .. length - 1 :
    Flat(s, length)[q * length + r + 1] = s[q + 1][r + 1]

\* Element q of an array of blocks lies at its offset in memory.
LEMMA FlatIs ==
  \A B : \A length \in Nat, m \in Nat : \A s \in [1 .. m -> [1 .. length -> B]] :
    FlatSpec(s, m, length)
<1> SUFFICES ASSUME NEW B, NEW length \in Nat, NEW m \in Nat,
                    NEW s \in [1 .. m -> [1 .. length -> B]],
                    NEW q \in 0 .. m - 1, NEW r \in 0 .. length - 1
             PROVE  Flat(s, length)[q * length + r + 1] = s[q + 1][r + 1]
  BY Zenon DEF FlatSpec
<1> DEFINE k == q * length + r + 1
<1>1. Len(s) = m
  OBVIOUS
<1>2. (k - 1) \div length = q /\ (k - 1) % length = r
  <2>1. k - 1 = q * length + r
    <3> DEFINE a == q * length
    <3>1. a \in Nat
      OBVIOUS
    <3> HIDE DEF a
    <3>2. a + r + 1 - 1 = a + r
      BY <3>1
    <3> QED BY <3>2 DEF a
  <2>2. q \in Nat
    OBVIOUS
  <2>3. (q * length + r) \div length = q /\ (q * length + r) % length = r
    BY <2>2, Division
  <2> HIDE DEF k
  <2> QED BY <2>1, <2>3
<1>3. k \in 1 .. length * m
  BY GroupEnd
<1> HIDE DEF k
<1>4. Flat(s, length)[k] = s[q + 1][r + 1]
  BY <1>1, <1>2, <1>3 DEF Flat
<1> QED BY <1>4 DEF k

\* NULL has no bytes, and an array has some.
LEMMA FlatOfNull ==
  /\ \A length \in Nat : Flat(NULL, length) = NULL
  /\ \A S, s : \A length \in Nat \ {0}, m \in Nat \ {0} :
       s \in [1 .. m -> S] => s # NULL /\ Flat(s, length) # NULL
<1>1. ASSUME NEW length \in Nat PROVE Flat(NULL, length) = NULL
  <2>1. 1 .. length * Len(NULL) = {}
    BY DEF NULL
  <2>2. ASSUME NEW g PROVE [i \in {} |-> g[i]] = <<>>
    OBVIOUS
  <2> DEFINE g == [i \in {} |-> NULL[(i - 1) \div length + 1][((i - 1) % length) + 1]]
  <2>3. Flat(NULL, length) = g
    BY <2>1, Zenon DEF Flat
  <2> QED BY <2>3 DEF NULL
<1>2. ASSUME NEW length \in Nat \ {0}, NEW m \in Nat \ {0}, NEW S, NEW s \in [1 .. m -> S]
      PROVE  s # NULL /\ Flat(s, length) # NULL
  <2>1. 1 \in 1 .. m /\ 1 \notin DOMAIN NULL /\ Len(s) = m
    BY DEF NULL
  <2>2. length * m >= 1
    OBVIOUS
  <2>3. 1 \in 1 .. length * m
    BY <2>2
  <2>4. 1 \in DOMAIN Flat(s, length)
    BY <2>1, <2>3 DEF Flat
  <2> QED BY <2>1, <2>4
<1> QED BY <1>1, <1>2

\* A call on two blocks of memory is judged as MemoryVerdicts says.
LEMMA EqualMemoryVerdict == EqualMemory => MemoryVerdicts'
<1> SUFFICES ASSUME EqualMemory PROVE MemoryVerdicts'
  OBVIOUS
<1> DEFINE B(length) == [1 .. length -> {0, 1}]
           C(flags, length, n, v) ==
             [assertion |-> "EqualMemory", flags |-> flags, length |-> length,
              num_elements |-> n, same |-> v.same, elements |-> v,
              expected |-> Flat(v.expected, length),
              actual |-> Flat(v.actual, length)]
<1>1. PICK flags \in Flags, n \in 1 .. MaxLength, length \in 0 .. MaxLength :
        \E v \in ArrayPairs(B(length), B(length), n, flags), m \in {0, n} :
          Calls(C(flags, length, m, v), UnityAssertEqualMemory(C(flags, length, m, v)))
  BY Zenon DEF EqualMemory
<1>2. PICK v \in ArrayPairs(B(length), B(length), n, flags), m \in {0, n} :
          Calls(C(flags, length, m, v), UnityAssertEqualMemory(C(flags, length, m, v)))
  BY <1>1
<1> DEFINE c == C(flags, length, m, v)
           rest == Memory(c, m)
           bad == {k \in 1 .. m : ExpectedAt(c, k) # ActualAt(c, k)}
<1>3. /\ c.flags = flags /\ c.num_elements = m /\ c.same = v.same /\ c.elements = v
      /\ c.expected = Flat(v.expected, length) /\ c.actual = Flat(v.actual, length)
      /\ c.assertion = "EqualMemory" /\ c.length = length
  OBVIOUS
<1>4. /\ n \in Nat /\ n >= 1 /\ m \in Nat /\ m <= n /\ length \in Nat
      /\ flags \in {"ARRAY_TO_ARRAY", "ARRAY_TO_VAL"}
  BY UnityAssertAssumption DEF Flags
<1>5. call' = c /\ outcome' = UnityAssertEqualMemory(c)
  BY <1>2 DEF Calls
<1> HIDE DEF c
<1> SUFFICES MemoryVerdict(c, UnityAssertEqualMemory(c))
  BY <1>5 DEF MemoryVerdicts
<1>6. /\ v.actual # NULL => v.actual \in [1 .. n -> B(length)]
      /\ v.expected # NULL =>
           v.expected \in [1 .. (IF flags = "ARRAY_TO_ARRAY" THEN n ELSE 1) -> B(length)]
  <2> HIDE DEF B
  <2> QED BY <1>4, PairTypes
<1>7. CASE length = 0 \/ m = 0
  BY <1>3, <1>4, <1>7 DEF UnityAssertEqualMemory, MemoryVerdict, ArrayOutcome, Failure, Outcome
<1>8. CASE length # 0 /\ m # 0
  <2> DEFINE o == ArrayPrologue(c, rest)
  <2>1. UnityAssertEqualMemory(c) = o
    BY <1>3, <1>8 DEF UnityAssertEqualMemory
  <2>2. (c.expected = NULL <=> v.expected = NULL) /\ (c.actual = NULL <=> v.actual = NULL)
    <3>1. \A s : \A k \in Nat \ {0} :
            s \in [1 .. k -> B(length)] => s # NULL /\ Flat(s, length) # NULL
      <4> HIDE DEF B
      <4>1. length \in Nat \ {0}
        BY <1>4, <1>8
      <4> QED BY <4>1, FlatOfNull, Zenon
    <3>2. Flat(NULL, length) = NULL
      BY <1>4, FlatOfNull
    <3>3. n \in Nat \ {0} /\ 1 \in Nat \ {0}
      BY <1>4
    <3> HIDE DEF B
    <3> QED BY <1>3, <1>6, <3>1, <3>2, <3>3
  <2>3. ASSUME v.expected # NULL, v.actual # NULL, NEW j \in 0 .. m - 1,
               NEW i \in 0 .. length - 1
        PROVE  BytesDiffer(c, j, i)
                 <=> ExpectedAt(c, j + 1)[i + 1] # ActualAt(c, j + 1)[i + 1]
    <3> HIDE DEF B
    <3>1. j \in 0 .. n - 1 /\ 0 \in 0 .. 1 - 1
      BY <1>4
    <3>2. c.actual[j * length + i + 1] = ActualAt(c, j + 1)[i + 1]
      <4>1. v.actual \in [1 .. n -> [1 .. length -> {0, 1}]]
        BY <1>6, <2>3 DEF B
      <4>2. Flat(v.actual, length)[j * length + i + 1] = v.actual[j + 1][i + 1]
        <5>1. FlatSpec(v.actual, n, length)
          BY <1>4, <4>1, FlatIs
        <5> QED BY <1>4, <3>1, <5>1 DEF FlatSpec
      <4> QED BY <1>3, <4>2 DEF ActualAt
    <3>3. CASE flags = "ARRAY_TO_ARRAY"
      <4>1. c.expected[j * length + i + 1] = ExpectedAt(c, j + 1)[i + 1]
        <5>1. v.expected \in [1 .. n -> [1 .. length -> {0, 1}]]
          BY <1>6, <2>3, <3>3 DEF B
        <5>2. Flat(v.expected, length)[j * length + i + 1] = v.expected[j + 1][i + 1]
          <6>1. FlatSpec(v.expected, n, length)
            BY <1>4, <5>1, FlatIs
          <6> QED BY <1>4, <3>1, <6>1 DEF FlatSpec
        <5> QED BY <1>3, <3>3, <5>2 DEF ExpectedAt
      <4> QED BY <1>3, <3>2, <3>3, <4>1 DEF BytesDiffer, ExpectedOffset
    <3>4. CASE flags = "ARRAY_TO_VAL"
      <4>1. c.expected[0 * length + i + 1] = ExpectedAt(c, j + 1)[i + 1]
        <5>1. v.expected \in [1 .. 1 -> [1 .. length -> {0, 1}]]
          BY <1>6, <2>3, <3>4 DEF B
        <5>2. Flat(v.expected, length)[0 * length + i + 1] = v.expected[0 + 1][i + 1]
          <6>1. FlatSpec(v.expected, 1, length)
            BY <1>4, <5>1, FlatIs
          <6> QED BY <1>4, <3>1, <6>1 DEF FlatSpec
        <5>3. ExpectedAt(c, j + 1) = v.expected[1] /\ 0 + 1 = 1
          BY <1>3, <3>4 DEF ExpectedAt
        <5> QED BY <1>3, <5>2, <5>3
      <4>2. 0 * length = 0
        BY <1>4
      <4> QED BY <1>3, <3>2, <3>4, <4>1, <4>2 DEF BytesDiffer, ExpectedOffset
    <3> QED BY <1>4, <3>3, <3>4
  <2>4. ASSUME v.expected # NULL, v.actual # NULL, NEW k \in 1 .. m
        PROVE  /\ ExpectedAt(c, k) \in B(length)
               /\ ActualAt(c, k) \in B(length)
    <3> HIDE DEF B
    <3>1. k \in 1 .. n /\ 1 \in 1 .. 1
      BY <1>4
    <3> QED BY <1>3, <1>4, <1>6, <2>4, <3>1 DEF ExpectedAt, ActualAt
  <2>5. ASSUME v.expected # NULL, v.actual # NULL
        PROVE  /\ LoopOutcome(rest, m, bad)
               /\ rest.why = "values" =>
                    /\ rest.element \in 0 .. m - 1
                    /\ rest.byte \in 0 .. length - 1
                    /\ BytesDiffer(c, rest.element, rest.byte)
                    /\ \A k \in 0 .. rest.byte - 1 : ~ BytesDiffer(c, rest.element, k)
    <3>1. CASE /\ rest = Pass
               /\ \A j \in 0 .. m - 1, i \in 0 .. length - 1 : ~ BytesDiffer(c, j, i)
      <4>1. ASSUME NEW k \in 1 .. m PROVE ExpectedAt(c, k) = ActualAt(c, k)
        <5>1. k - 1 \in 0 .. m - 1 /\ k - 1 + 1 = k
          BY <1>4
        <5>2. ASSUME NEW i \in 1 .. length
              PROVE  ExpectedAt(c, k)[i] = ActualAt(c, k)[i]
          <6>1. i - 1 \in 0 .. length - 1 /\ i - 1 + 1 = i
            BY <1>4
          <6>2. ~ BytesDiffer(c, k - 1, i - 1)
            BY <3>1, <5>1, <6>1
          <6>3. BytesDiffer(c, k - 1, i - 1)
                  <=> ExpectedAt(c, k - 1 + 1)[i - 1 + 1] # ActualAt(c, k - 1 + 1)[i - 1 + 1]
            <7> HIDE DEF c
            <7> QED BY <2>3, <2>5, <5>1, <6>1
          <6> HIDE DEF c
          <6> QED BY <5>1, <6>1, <6>2, <6>3
        <5> QED BY <2>4, <2>5, <5>2
      <4>2. bad = {} /\ Pass.why # "values"
        BY <4>1 DEF Pass, Outcome
      <4> HIDE DEF rest, bad
      <4> QED BY <3>1, <4>2 DEF LoopOutcome
    <3>2. ASSUME NEW j \in 0 .. m - 1, NEW i \in 0 .. length - 1, BytesDiffer(c, j, i),
                 \A k \in 0 .. i - 1 : ~ BytesDiffer(c, j, k),
                 \A l \in 0 .. j - 1, k \in 0 .. length - 1 : ~ BytesDiffer(c, l, k),
                 rest = DifferAt(j, i)
          PROVE  /\ LoopOutcome(rest, m, bad)
                 /\ rest.element = j
                 /\ rest.byte = i
      <4>1. rest.failed /\ rest.element = j /\ rest.byte = i
        BY <3>2 DEF DifferAt, Outcome
      <4>2. j + 1 \in bad
        <5>1. j + 1 \in 1 .. m
          BY <1>4
        <5> QED BY <2>3, <2>5, <3>2, <5>1
      <4>3. ASSUME NEW k \in bad PROVE j < k
        <5> SUFFICES ASSUME k <= j PROVE FALSE
          BY <1>4
        <5>1. k - 1 \in 0 .. j - 1 /\ k - 1 \in 0 .. m - 1 /\ k - 1 + 1 = k
          BY <1>4
        <5>2. ASSUME NEW i1 \in 1 .. length
              PROVE  ExpectedAt(c, k)[i1] = ActualAt(c, k)[i1]
          <6>1. i1 - 1 \in 0 .. length - 1 /\ i1 - 1 + 1 = i1
            BY <1>4
          <6>2. ~ BytesDiffer(c, k - 1, i1 - 1)
            BY <3>2, <5>1, <6>1
          <6>3. BytesDiffer(c, k - 1, i1 - 1)
                  <=> ExpectedAt(c, k - 1 + 1)[i1 - 1 + 1] # ActualAt(c, k - 1 + 1)[i1 - 1 + 1]
            <7> HIDE DEF c
            <7> QED BY <2>3, <2>5, <5>1, <6>1
          <6> HIDE DEF c
          <6> QED BY <5>1, <6>1, <6>2, <6>3
        <5> QED BY <2>4, <2>5, <5>2
      <4> HIDE DEF rest, bad
      <4> QED BY <3>2, <4>1, <4>2, <4>3 DEF LoopOutcome
    <3>3. \/ /\ rest = Pass
             /\ \A j \in 0 .. m - 1, i \in 0 .. length - 1 : ~ BytesDiffer(c, j, i)
          \/ \E j \in 0 .. m - 1 : \E i \in 0 .. length - 1 :
               /\ BytesDiffer(c, j, i)
               /\ \A k \in 0 .. i - 1 : ~ BytesDiffer(c, j, k)
               /\ \A l \in 0 .. j - 1, k \in 0 .. length - 1 : ~ BytesDiffer(c, l, k)
               /\ rest = DifferAt(j, i)
      <4>1. c.length \in Nat
        BY <1>3, <1>4
      <4>2. c.length = length
        BY <1>3
      <4> QED BY <1>4, <4>1, <4>2, MemoryResult, Zenon
    <3> HIDE DEF rest, bad
    <3> QED BY <3>1, <3>2, <3>3
  <2>6. ArrayOutcome(c, o, bad)
    <3> HIDE DEF bad, rest
    <3> QED BY <1>3, <2>2, <2>5, PrologueOutcome
  <2>7. ASSUME o.why = "values"
        PROVE  v.expected # NULL /\ v.actual # NULL /\ o = rest
    <3> HIDE DEF rest
    <3> QED BY <2>2, <2>7 DEF ArrayPrologue, Failure, Pass, Outcome
  <2>8. ASSUME o.why = "values"
        PROVE  /\ ExpectedAt(c, o.element + 1)[o.byte + 1]
                    # ActualAt(c, o.element + 1)[o.byte + 1]
               /\ \A i \in 1 .. o.byte :
                    ExpectedAt(c, o.element + 1)[i] = ActualAt(c, o.element + 1)[i]
    <3> HIDE DEF rest, o
    <3>1. /\ o.element \in 0 .. m - 1
          /\ o.byte \in 0 .. length - 1
          /\ BytesDiffer(c, o.element, o.byte)
          /\ \A k \in 0 .. o.byte - 1 : ~ BytesDiffer(c, o.element, k)
      BY <2>5, <2>7, <2>8
    <3>2. \A i \in 1 .. o.byte : i - 1 \in 0 .. o.byte - 1 /\ i - 1 \in 0 .. length - 1
                                /\ i - 1 + 1 = i
      BY <1>4, <3>1
    <3> QED BY <2>3, <2>7, <2>8, <3>1, <3>2
  <2> HIDE DEF o, bad
  <2> QED BY <1>3, <1>8, <2>1, <2>6, <2>8 DEF MemoryVerdict, bad
<1> QED BY <1>7, <1>8

\* Memory is equal iff all its bytes are, for elements of any size and arrays of
\* any length, and a failure names the first byte of the first element that
\* differs (UnityAssertEqualMemory).
THEOREM UnityMemoryVerdicts == Spec => []MemoryVerdicts
<1>1. Init => MemoryVerdicts
  BY DEF Init, Idle, MemoryVerdicts
<1>2. MemoryVerdicts /\ [Next]_vars => MemoryVerdicts'
  <2> SUFFICES ASSUME MemoryVerdicts, [Next]_vars PROVE MemoryVerdicts'
    OBVIOUS
  <2>1. CASE EqualMemory
    BY <2>1, EqualMemoryVerdict
  <2>2. CASE call'.assertion # "EqualMemory"
    BY <2>2 DEF MemoryVerdicts
  <2>3. CASE UNCHANGED vars
    BY <2>3 DEF vars, MemoryVerdicts
  <2> QED BY <2>1, <2>2, <2>3, KindOfCall DEF Next
<1> QED BY <1>1, <1>2, PTL DEF Spec

-----------------------------------------------------------------------------
(* Floats.                                                                 *)

\* The floats of the calls, and those computed from them.
AnyFloat == {Fl(v) : v \in Format} \cup {Inf(1), Inf(-1), NaN}

\* Absolute values and rounded numbers are in the format, or overflow.
LEMMA FormatIs ==
  /\ Huge \in Nat /\ 0 \in Format
  /\ \A v \in Format : v \in Int /\ -v \in Format /\ -Huge < v /\ v < Huge
  /\ \A v \in Format : Abs(v) \in Format
  /\ Representable \subseteq Int
<1>1. /\ Huge \in Nat /\ 0 \in Format /\ Format \subseteq Int
      /\ \A v \in Format : -v \in Format /\ v < Huge
  BY FormatAssumption
<1>2. ASSUME NEW v \in Format PROVE -Huge < v
  BY <1>1
<1> QED BY <1>1, <1>2 DEF Abs, Representable

\* Rounding is monotonic: no representable number is between a number and what
\* it is rounded to.
LEMMA RoundIs ==
  ASSUME NEW n \in -(2 * Huge) .. 2 * Huge, NEW d \in {1, Precision}
  PROVE  /\ Round[d][n] \in Representable
         /\ \A v \in Representable : /\ n <= v * d => Round[d][n] <= v
                                     /\ v * d <= n => v <= Round[d][n]
<1> DEFINE N == Nearest(n, d)
           far == {Abs(v * d - n) : v \in Representable}
<1>1. d \in Nat \ {0} /\ n \in Int /\ Representable \subseteq Int /\ 0 \in Representable
  BY FormatIs, FormatAssumption DEF Representable
<1>2. ASSUME NEW v \in Representable PROVE Abs(v * d - n) \in Nat
  <2>1. v * d \in Int
    BY <1>1
  <2> QED BY <1>1, <2>1 DEF Abs
<1>3. N # {}
  <2>1. far \subseteq Nat /\ far # {}
    BY <1>1, <1>2
  <2>2. PICK least \in far : \A m \in far : least <= m
    <3> HIDE DEF far
    <3> QED BY <2>1, LeastNatural
  <2>3. PICK v \in Representable : least = Abs(v * d - n)
    OBVIOUS
  <2>4. v \in N
    BY <2>2, <2>3 DEF Nearest
  <2> QED BY <2>4
<1>4. Round[d][n] \in N
  <2>1. Round[d][n] = CHOOSE v \in N : Even(N) # {} => v \in Even(N)
    BY DEF Round
  <2>2. Even(N) \subseteq N
    BY DEF Even
  <2>3. \E v \in N : Even(N) # {} => v \in Even(N)
    BY <1>3, <2>2
  <2> HIDE DEF N
  <2> QED BY <2>1, <2>3
<1> DEFINE r == Round[d][n]
<1>5. r \in Representable /\ \A w \in Representable : Abs(r * d - n) <= Abs(w * d - n)
  BY <1>4 DEF Nearest
<1> HIDE DEF r, N
<1>6. ASSUME NEW v \in Representable
      PROVE  /\ n <= v * d => r <= v
             /\ v * d <= n => v <= r
  <2> DEFINE x == v * d
             y == r * d
  <2>1. v \in Int /\ r \in Int /\ x \in Int /\ y \in Int /\ Abs(y - n) <= Abs(x - n)
    BY <1>1, <1>5
  <2>2. (v < r => x < y) /\ (r < v => y < x)
    BY <1>1, <2>1
  <2> HIDE DEF x, y
  <2>3. ~ (n <= x /\ x < y) /\ ~ (x <= n /\ y < x)
    BY <1>1, <2>1 DEF Abs
  <2>4. (n <= x => r <= v) /\ (x <= n => v <= r)
    BY <2>1, <2>2, <2>3
  <2> QED BY <2>4 DEF x
<1> QED BY <1>5, <1>6 DEF r

\* What a float is, and when two finite ones are equal.
LEMMA KindsOfFloat ==
  ASSUME NEW x \in AnyFloat
  PROVE  \/ /\ x.kind = "finite" /\ x.v \in Format /\ x = Fl(x.v) /\ x # NaN
            /\ x # Inf(1) /\ x # Inf(-1)
         \/ x = Inf(1) /\ x.kind = "inf" /\ x.v = 1 /\ x # NaN /\ x # Inf(-1)
         \/ x = Inf(-1) /\ x.kind = "inf" /\ x.v = -1 /\ x # NaN /\ x # Inf(1)
         \/ x = NaN /\ x.kind = "nan" /\ x.v = 0
BY DEF AnyFloat, Fl, Inf, NaN

\* Absolute values, sums and tolerances are floats.
LEMMA FloatsOf ==
  /\ \A x \in AnyFloat :
       /\ FNeg(x) \in AnyFloat
       /\ FNeg(x) = NaN <=> x = NaN
       /\ x.kind = "finite" => FNeg(x) = Fl(-x.v)
       /\ FNeg(Inf(1)) = Inf(-1) /\ FNeg(Inf(-1)) = Inf(1)
  /\ \A v \in Format : Fl(v) \in AnyFloat /\ Fl(v).kind = "finite" /\ Fl(v).v = v
  /\ \A v \in Representable :
       /\ FloatOf(v) \in AnyFloat /\ FloatOf(v) # NaN
       /\ v = Huge => FloatOf(v) = Inf(1)
       /\ v = -Huge => FloatOf(v) = Inf(-1)
       /\ Abs(v) # Huge => FloatOf(v) = Fl(v) /\ v \in Format
<1>1. ASSUME NEW x \in AnyFloat
      PROVE  /\ FNeg(x) \in AnyFloat
             /\ FNeg(x) = NaN <=> x = NaN
             /\ x.kind = "finite" => FNeg(x) = Fl(-x.v)
  BY KindsOfFloat, FormatIs DEF AnyFloat, FNeg, Fl, Inf, NaN
<1>2. FNeg(Inf(1)) = Inf(-1) /\ FNeg(Inf(-1)) = Inf(1)
  BY DEF FNeg, Inf
<1>3. ASSUME NEW v \in Format PROVE Fl(v) \in AnyFloat /\ Fl(v).kind = "finite" /\ Fl(v).v = v
  BY DEF AnyFloat, Fl
<1>4. ASSUME NEW v \in Representable
      PROVE  /\ FloatOf(v) \in AnyFloat /\ FloatOf(v) # NaN
             /\ v = Huge => FloatOf(v) = Inf(1)
             /\ v = -Huge => FloatOf(v) = Inf(-1)
             /\ Abs(v) # Huge => FloatOf(v) = Fl(v) /\ v \in Format
  <2>1. Huge \in Nat /\ 0 \in Format /\ 0 < Huge
    BY FormatIs
  <2>2. CASE v = Huge
    <3>1. v # -Huge /\ Abs(v) = Huge
      BY <2>1, <2>2 DEF Abs
    <3> QED BY <2>2, <3>1 DEF FloatOf, AnyFloat, Inf, NaN
  <2>3. CASE v = -Huge
    <3>1. v # Huge /\ Abs(v) = Huge
      BY <2>1, <2>3 DEF Abs
    <3> QED BY <2>3, <3>1 DEF FloatOf, AnyFloat, Inf, NaN
  <2>4. CASE v # Huge /\ v # -Huge
    <3>1. v \in Format
      BY <2>4 DEF Representable
    <3> QED BY <2>4, <3>1 DEF FloatOf, AnyFloat, Fl, NaN
  <2> QED BY <2>2, <2>3, <2>4
<1> QED BY <1>1, <1>2, <1>3, <1>4

\* The absolute value of a float.
LEMMA AbsoluteFloat ==
  ASSUME NEW x \in AnyFloat
  PROVE  /\ FAbs(x) \in AnyFloat
         /\ x.kind = "finite" => FAbs(x) = Fl(Abs(x.v))
         /\ x.kind = "inf" => FAbs(x) = Inf(1)
         /\ x = NaN => FAbs(x) = NaN
<1>1. Fl(0).kind = "finite" /\ Fl(0).v = 0 /\ Fl(0) # NaN
  BY DEF Fl, NaN
<1>2. CASE x.kind = "finite"
  <2>1. x.v \in Format /\ x.v \in Int /\ x # NaN /\ x.kind # "inf"
        /\ x = Fl(x.v) /\ Abs(x.v) \in Format
    BY <1>2, KindsOfFloat, FormatIs
  <2>2. FLess(x, Fl(0)) <=> x.v < 0
    BY <1>1, <1>2, <2>1 DEF FLess
  <2>3. FNeg(x) = Fl(-x.v)
    BY <1>2, FloatsOf
  <2>4. FAbs(x) = Fl(Abs(x.v))
    BY <2>1, <2>2, <2>3 DEF FAbs, Abs
  <2> QED BY <1>2, <2>1, <2>4, FloatsOf
<1>3. CASE x.kind # "finite"
  BY <1>1, <1>3, KindsOfFloat, FloatsOf DEF FAbs, FLess, AnyFloat
<1> QED BY <1>2, <1>3

\* The sum of two floats.
LEMMA SumOfFloats ==
  ASSUME NEW x \in AnyFloat, NEW y \in AnyFloat
  PROVE  /\ FAdd(x, y) \in AnyFloat
         /\ x.kind = "finite" /\ y.kind = "finite" =>
              /\ FAdd(x, y) = FloatOf(Round[1][x.v + y.v])
              /\ x.v + y.v \in -(2 * Huge) .. 2 * Huge
              /\ FAdd(x, y) # NaN
         /\ x.kind # "finite" \/ y.kind # "finite" => FAdd(x, y).kind # "finite"
         /\ x.kind = "finite" /\ y # NaN => FAdd(x, y) # NaN
<1>1. ASSUME x.kind = "finite", y.kind = "finite"
      PROVE  /\ FAdd(x, y) \in AnyFloat /\ FAdd(x, y) # NaN
             /\ FAdd(x, y) = FloatOf(Round[1][x.v + y.v])
             /\ x.v + y.v \in -(2 * Huge) .. 2 * Huge
  <2>1. /\ x # NaN /\ y # NaN /\ x.kind # "inf" /\ y.kind # "inf"
        /\ x.v \in Format /\ y.v \in Format
    BY <1>1, KindsOfFloat
  <2>2. FAdd(x, y) = FloatOf(Round[1][x.v + y.v])
    BY <2>1 DEF FAdd
  <2>3. x.v + y.v \in -(2 * Huge) .. 2 * Huge
    <3>1. /\ Huge \in Nat /\ x.v \in Int /\ y.v \in Int
          /\ -Huge < x.v /\ x.v < Huge /\ -Huge < y.v /\ y.v < Huge
      BY <2>1, FormatIs
    <3> QED BY <3>1
  <2>4. Round[1][x.v + y.v] \in Representable
    BY <2>3, RoundIs
  <2> QED BY <2>2, <2>3, <2>4, FloatsOf
<1>2. ASSUME x.kind # "finite" \/ y.kind # "finite"
      PROVE  /\ FAdd(x, y) \in AnyFloat /\ FAdd(x, y).kind # "finite"
             /\ x.kind = "finite" /\ y # NaN => FAdd(x, y) # NaN
  <2>1. CASE x = NaN \/ y = NaN \/ (x.kind = "inf" /\ y = FNeg(x))
    <3>1. FAdd(x, y) = NaN
      BY <2>1 DEF FAdd
    <3>2. ~ (x.kind = "finite" /\ y # NaN)
      BY <2>1, KindsOfFloat
    <3> QED BY <3>1, <3>2 DEF AnyFloat, NaN
  <2>2. CASE ~ (x = NaN \/ y = NaN \/ (x.kind = "inf" /\ y = FNeg(x))) /\ x.kind = "inf"
    <3>1. FAdd(x, y) = x
      BY <2>2 DEF FAdd
    <3> QED BY <2>2, <3>1
  <2>3. CASE ~ (x = NaN \/ y = NaN) /\ x.kind # "inf"
    <3>1. y.kind = "inf"
      BY <1>2, <2>3, KindsOfFloat
    <3>2. FAdd(x, y) = y
      BY <2>3, <3>1 DEF FAdd
    <3> QED BY <2>3, <3>1, <3>2
  <2> QED BY <2>1, <2>2, <2>3
<1> QED BY <1>1, <1>2

\* The test of all assertions on floats is judged so, unless the tolerance is
\* NaN.
LEMMA WithinIsJudged ==
  ASSUME NEW d \in AnyFloat, NEW e \in AnyFloat, NEW a \in AnyFloat,
         d # NaN \/ e.kind # "finite"
  PROVE  Judged(UnityFloatsWithin(d, e, a), d, e, a)
<1> DEFINE sum == FAdd(a, FNeg(e))
           diff == FAbs(sum)
           within == UnityFloatsWithin(d, e, a)
<1>1. CASE e.kind = "finite" /\ a.kind = "finite"
  <2> DEFINE D == a.v - e.v
             r == Round[1][D]
  <2>1. /\ a.v \in Int /\ e.v \in Int /\ FNeg(e).v = -e.v
        /\ FNeg(e) \in AnyFloat /\ FNeg(e).kind = "finite"
    <3>1. a.v \in Int /\ e.v \in Format /\ e.v \in Int /\ -e.v \in Format
      BY <1>1, KindsOfFloat, FormatIs
    <3>2. FNeg(e) = Fl(-e.v)
      BY <1>1, FloatsOf
    <3> QED BY <3>1, <3>2, FloatsOf
  <2>2. D \in -(2 * Huge) .. 2 * Huge /\ D \in Int /\ sum = FloatOf(r)
    <3>1. a.v + FNeg(e).v = D
      BY <2>1
    <3> QED BY <1>1, <2>1, <3>1, SumOfFloats
  <2>3. /\ r \in Representable /\ r \in Int
        /\ \A v \in Representable : (D <= v => r <= v) /\ (v <= D => v <= r)
    <3>1. \A v \in Representable : v * 1 = v /\ v \in Int
      BY FormatIs
    <3>2. 1 \in {1, Precision}
      OBVIOUS
    <3> HIDE DEF D
    <3> QED BY <2>2, <3>1, <3>2, RoundIs
  <2>4. SameSpecial(e, a) = FALSE /\ e # NaN /\ e.kind # "inf"
    BY <1>1, KindsOfFloat DEF SameSpecial
  <2> HIDE DEF D, r, diff, sum
  <2>5. within <=> diff.kind = "finite" /\ ~ FLess(FAbs(d), diff)
    BY <2>4, Zenon DEF UnityFloatsWithin, diff, sum
  <2>6. d.kind = "inf" \/ (d.kind = "finite" /\ d.v \in Int)
    BY <1>1, KindsOfFloat, FormatIs
  <2>7. within <=> /\ Abs(r) < Huge
                   /\ d.kind = "inf" \/ Abs(r) <= Abs(d.v)
    <3>1. Huge \in Nat /\ Abs(Huge) = Huge /\ Abs(-Huge) = Huge
      BY FormatIs DEF Abs
    <3>2. CASE Abs(r) = Huge
      <4>1. r = Huge \/ r = -Huge
        BY <2>3, <3>1, <3>2 DEF Abs
      <4>2. sum = Inf(1) \/ sum = Inf(-1)
        BY <2>2, <2>3, <4>1, FloatsOf
      <4>3. diff = Inf(1)
        <5>1. sum \in AnyFloat /\ sum.kind = "inf"
          BY <4>2 DEF AnyFloat, Inf
        <5> QED BY <5>1, AbsoluteFloat DEF diff
      <4>4. diff.kind # "finite"
        BY <4>3 DEF Inf
      <4> QED BY <2>5, <3>1, <3>2, <4>4
    <3>3. CASE Abs(r) # Huge
      <4>1. sum = Fl(r) /\ r \in Format /\ Fl(r) \in AnyFloat /\ Fl(r).kind = "finite"
            /\ Fl(r).v = r
        BY <2>2, <2>3, <3>3, FloatsOf
      <4>2. Abs(r) \in Format /\ Abs(r) \in Int /\ Abs(r) < Huge
        BY <4>1, FormatIs
      <4>3. diff = Fl(Abs(r))
        <5>1. FAbs(Fl(r)) = Fl(Abs(Fl(r).v))
          BY <4>1, AbsoluteFloat
        <5> QED BY <4>1, <5>1 DEF diff
      <4>4. diff.kind = "finite" /\ diff.v = Abs(r) /\ diff # NaN
        <5>1. Fl(Abs(r)).kind = "finite" /\ Fl(Abs(r)).v = Abs(r) /\ Fl(Abs(r)) # NaN
          BY DEF Fl, NaN
        <5> QED BY <4>3, <5>1
      <4>5. CASE d.kind = "finite"
        <5>1. /\ FAbs(d) = Fl(Abs(d.v)) /\ Abs(d.v) \in Int
          BY <2>6, <4>5, AbsoluteFloat DEF Abs
        <5>2. Fl(Abs(d.v)).kind = "finite" /\ Fl(Abs(d.v)).v = Abs(d.v) /\ Fl(Abs(d.v)) # NaN
          BY DEF Fl, NaN
        <5>3. FLess(FAbs(d), diff) <=> Abs(d.v) < Abs(r)
          BY <4>4, <5>1, <5>2 DEF FLess
        <5>4. d.kind # "inf"
          BY <4>5
        <5> QED BY <2>5, <4>2, <4>4, <5>1, <5>3, <5>4
      <4>6. CASE d.kind = "inf"
        <5>1. FAbs(d) = Inf(1) /\ Inf(1).v = 1 /\ Inf(1).kind = "inf" /\ Inf(1) # NaN
          BY <4>6, AbsoluteFloat DEF Inf, NaN
        <5>2. ~ FLess(FAbs(d), diff)
          BY <4>4, <5>1 DEF FLess
        <5> QED BY <2>5, <4>2, <4>4, <4>6, <5>2
      <4> QED BY <2>6, <4>5, <4>6
    <3> QED BY <3>2, <3>3
  <2> HIDE DEF within
  <2>8. MustPass(d, e, a) => within
    <3> SUFFICES ASSUME MustPass(d, e, a) PROVE within
      OBVIOUS
    <3>1. PICK v \in Format : Abs(D) <= v /\ (d.kind = "inf" \/ v <= Abs(d.v))
      BY <2>4 DEF MustPass, D
    <3>2. v \in Int /\ v < Huge /\ v \in Representable /\ -v \in Representable /\ Huge \in Nat
      BY FormatIs DEF Representable
    <3>3. D <= v /\ -v <= D
      BY <2>2, <3>1, <3>2 DEF Abs
    <3>4. r <= v /\ -v <= r
      BY <2>3, <3>2, <3>3
    <3>5. Abs(r) <= v /\ Abs(r) \in Int
      BY <2>3, <3>2, <3>4 DEF Abs
    <3>6. Abs(r) < Huge
      BY <3>2, <3>5
    <3>7. d.kind = "inf" \/ Abs(r) <= Abs(d.v)
      <4>1. CASE d.kind = "finite"
        <5>1. Abs(d.v) \in Int
          BY <2>6, <4>1 DEF Abs
        <5> QED BY <3>1, <3>2, <3>5, <5>1
      <4> QED BY <2>6, <4>1
    <3> QED BY <2>7, <3>6, <3>7
  <2>9. MustFail(d, e, a) => ~ within
    <3> SUFFICES ASSUME MustFail(d, e, a) PROVE ~ within
      OBVIOUS
    <3>1. PICK v \in Format \cup {Huge} :
             /\ v <= Abs(D)
             /\ v = Huge \/ (d.kind = "finite" /\ Abs(d.v) < v)
      BY <1>1 DEF MustFail, D
    <3>2. v \in Int /\ v \in Representable /\ -v \in Representable /\ Huge \in Nat
      <4>1. CASE v = Huge
        BY <4>1, FormatIs DEF Representable
      <4>2. CASE v \in Format
        BY <4>2, FormatIs DEF Representable
      <4> QED BY <4>1, <4>2
    <3>3. v <= D \/ D <= -v
      BY <2>2, <3>1, <3>2 DEF Abs
    <3>4. v <= r \/ r <= -v
      BY <2>3, <3>2, <3>3
    <3>5. v <= Abs(r) /\ Abs(r) \in Int
      BY <2>3, <3>2, <3>4 DEF Abs
    <3>6. CASE v = Huge
      BY <2>7, <3>2, <3>5, <3>6
    <3>7. CASE d.kind = "finite" /\ Abs(d.v) < v
      <4>1. Abs(d.v) \in Int /\ d.kind # "inf"
        BY <2>6, <3>7 DEF Abs
      <4> QED BY <2>7, <3>2, <3>5, <3>7, <4>1
    <3> QED BY <3>1, <3>6, <3>7
  <2> QED BY <2>8, <2>9 DEF Judged, within
<1>2. CASE ~ (e.kind = "finite" /\ a.kind = "finite")
  <2>1. diff.kind # "finite"
    <3>1. FNeg(e) \in AnyFloat /\ (e.kind # "finite" => FNeg(e).kind # "finite")
      BY KindsOfFloat, FloatsOf
    <3>2. FAdd(a, FNeg(e)) \in AnyFloat /\ FAdd(a, FNeg(e)).kind # "finite"
      BY <1>2, <3>1, SumOfFloats
    <3>3. Inf(1).kind # "finite" /\ NaN.kind # "finite"
      BY DEF Inf, NaN
    <3> QED BY <3>2, <3>3, AbsoluteFloat, KindsOfFloat
  <2> HIDE DEF diff
  <2>2. UnityFloatsWithin(d, e, a)
          <=> (e.kind = "inf" /\ a = e) \/ (e = NaN /\ a = NaN)
    BY <2>1, Zenon DEF UnityFloatsWithin, diff, sum
  <2>3. UnityFloatsWithin(d, e, a) <=> SameSpecial(e, a)
    BY <2>2, KindsOfFloat DEF SameSpecial
  <2>4. MustPass(d, e, a) => SameSpecial(e, a)
    BY <1>2 DEF MustPass
  <2>5. MustFail(d, e, a) => ~ SameSpecial(e, a)
    BY DEF MustFail
  <2> QED BY <2>3, <2>4, <2>5 DEF Judged
<1> QED BY <1>1, <1>2

\* Operands of float assertions are such floats.
LEMMA FloatsAre ==
  /\ Floats \subseteq AnyFloat
  /\ \A x \in AnyFloat : /\ Tolerance(x) \in AnyFloat
                         /\ x.kind = "finite" => Tolerance(x) # NaN
                         /\ x.kind # "finite" => Tolerance(x) = x
<1>1. Floats \subseteq AnyFloat
  BY FormatAssumption DEF Floats, AnyFloat
<1>2. ASSUME NEW x \in AnyFloat
      PROVE  /\ Tolerance(x) \in AnyFloat
             /\ x.kind = "finite" => Tolerance(x) # NaN
             /\ x.kind # "finite" => Tolerance(x) = x
  <2>1. CASE x.kind = "finite"
    <3>1. x.v \in -(2 * Huge) .. 2 * Huge
      <4>1. Huge \in Nat /\ x.v \in Int /\ -Huge < x.v /\ x.v < Huge
        BY <2>1, KindsOfFloat, FormatIs
      <4> QED BY <4>1
    <3>2. Round[Precision][x.v] \in Representable
      BY <3>1, RoundIs
    <3>3. Tolerance(x) = FloatOf(Round[Precision][x.v])
      BY <2>1 DEF Tolerance
    <3> QED BY <2>1, <3>2, <3>3, FloatsOf
  <2>2. CASE x.kind # "finite"
    BY <2>2 DEF Tolerance
  <2> QED BY <2>1, <2>2
<1> QED BY <1>1, <1>2

\* What Verdict makes of a test.
LEMMA VerdictFails == \A ok \in BOOLEAN : Verdict(ok).failed <=> ~ ok
BY DEF Verdict, Pass, Failure, Outcome

\* A call on two floats is judged as FloatVerdicts says.
LEMMA FloatVerdict == Float => FloatVerdicts'
<1> SUFFICES ASSUME Float PROVE FloatVerdicts'
  OBVIOUS
<1>1. PICK e \in Floats, a \in Floats :
       \/ \E delta \in Floats \cup {Tolerance(e)} :
            \/ Calls(TwoFloats("FloatsWithin", e, a, delta, {}),
                     UnityAssertFloatsWithin(delta, e, a))
            \/ Calls(TwoFloats("FloatsNotWithin", e, a, delta, {}),
                     UnityAssertFloatsNotWithin(delta, e, a))
       \/ \E compare \in Comparison \ {{"NOT_EQUAL"}} :
            Calls(TwoFloats("FloatCompare", e, a, NaN, compare),
                  UnityAssertGreaterOrLessFloat(e, a, compare))
  BY Zenon DEF Float
<1>2. e \in AnyFloat /\ a \in AnyFloat
  BY FloatsAre
<1>3. ASSUME NEW delta \in Floats \cup {Tolerance(e)}
      PROVE  delta # NaN => Judged(UnityFloatsWithin(delta, e, a), delta, e, a)
  BY <1>2, FloatsAre, WithinIsJudged
<1>4. ASSUME NEW delta \in Floats \cup {Tolerance(e)},
             Calls(TwoFloats("FloatsWithin", e, a, delta, {}),
                   UnityAssertFloatsWithin(delta, e, a))
      PROVE  FloatVerdicts'
  <2>1. call' = TwoFloats("FloatsWithin", e, a, delta, {})
    BY <1>4 DEF Calls
  <2>2. delta # NaN => Judged(~ outcome'.failed, delta, e, a)
    <3> DEFINE within == UnityFloatsWithin(delta, e, a)
    <3>1. outcome' = Verdict(within) /\ (delta # NaN => Judged(within, delta, e, a))
      BY <1>3, <1>4 DEF Calls, UnityAssertFloatsWithin
    <3> HIDE DEF within
    <3>2. ~ outcome'.failed <=> within
      BY <3>1 DEF Verdict, Pass, Failure, Outcome
    <3> QED BY <3>1, <3>2 DEF Judged
  <2> QED BY <2>1, <2>2 DEF TwoFloats, FloatVerdicts
<1>5. ASSUME NEW delta \in Floats \cup {Tolerance(e)},
             Calls(TwoFloats("FloatsNotWithin", e, a, delta, {}),
                   UnityAssertFloatsNotWithin(delta, e, a))
      PROVE  FloatVerdicts'
  <2>1. call' = TwoFloats("FloatsNotWithin", e, a, delta, {})
    BY <1>5 DEF Calls
  <2>2. delta # NaN => Judged(outcome'.failed, delta, e, a)
    <3> DEFINE within == UnityFloatsWithin(delta, e, a)
    <3>1. outcome' = Verdict(~ within) /\ (delta # NaN => Judged(within, delta, e, a))
      BY <1>3, <1>5 DEF Calls, UnityAssertFloatsNotWithin
    <3> HIDE DEF within
    <3>2. outcome'.failed <=> within
      BY <3>1 DEF Verdict, Pass, Failure, Outcome
    <3> QED BY <3>1, <3>2 DEF Judged
  <2> QED BY <2>1, <2>2 DEF TwoFloats, FloatVerdicts
<1>6. ASSUME NEW compare \in Comparison \ {{"NOT_EQUAL"}},
             Calls(TwoFloats("FloatCompare", e, a, NaN, compare),
                   UnityAssertGreaterOrLessFloat(e, a, compare))
      PROVE  FloatVerdicts'
  <2> DEFINE near == UnityFloatsWithin(Tolerance(e), e, a)
             strict == \/ "GREATER_THAN" \in compare /\ FLess(e, a)
                       \/ "SMALLER_THAN" \in compare /\ FLess(a, e)
  <2>1. call' = TwoFloats("FloatCompare", e, a, NaN, compare)
    BY <1>6 DEF Calls
  <2>2. Judged(near, Tolerance(e), e, a)
    <3>1. Tolerance(e) \in AnyFloat /\ (Tolerance(e) # NaN \/ e.kind # "finite")
      BY <1>2, FloatsAre
    <3> QED BY <1>2, <3>1, WithinIsJudged
  <2>3. "GREATER_THAN" \in compare <=> "SMALLER_THAN" \notin compare
    BY DEF Comparison
  <2> HIDE DEF near
  <2>4. ~ outcome'.failed <=> strict \/ ("EQUAL_TO" \in compare /\ near)
    <3>1. outcome' = Verdict(\/ /\ "SMALLER_THAN" \in compare => FLess(a, e)
                                /\ "GREATER_THAN" \in compare => FLess(e, a)
                             \/ "EQUAL_TO" \in compare /\ near)
      BY <1>6, Zenon DEF Calls, UnityAssertGreaterOrLessFloat, near
    <3> QED BY <2>3, <3>1, VerdictFails
  <2> DEFINE right == IF strict THEN ~ outcome'.failed
                      ELSE IF "EQUAL_TO" \in compare
                        THEN Judged(~ outcome'.failed, Tolerance(e), e, a)
                      ELSE outcome'.failed
  <2>5. right
    <3> HIDE DEF strict
    <3>1. CASE ~ strict /\ "EQUAL_TO" \in compare
      <4>1. ~ outcome'.failed <=> near
        BY <2>4, <3>1
      <4> QED BY <2>2, <3>1, <4>1 DEF Judged
    <3> QED BY <2>4, <3>1
  <2> QED BY <2>1, <2>5 DEF TwoFloats, FloatVerdicts
<1> QED BY <1>1, <1>4, <1>5, <1>6

\* A call that asks for an infinity, a NaN or neither is judged as
\* FloatVerdicts says.
LEMMA FloatSpecialVerdict == FloatSpecial => FloatVerdicts'
<1> SUFFICES ASSUME FloatSpecial PROVE FloatVerdicts'
  OBVIOUS
<1>1. PICK x \in Floats, trait \in Traits, should_be_trait \in BOOLEAN :
       Calls([assertion |-> "FloatSpecial", actual |-> x, trait |-> trait,
              should_be_trait |-> should_be_trait],
             UnityAssertFloatSpecial(x, trait, should_be_trait))
  BY DEF FloatSpecial
<1> DEFINE special == x \in CASE trait = "INF" -> {Inf(1)}
                              [] trait = "NEG_INF" -> {Inf(-1)}
                              [] trait = "NAN" -> {NaN}
                              [] trait = "DET" -> {Fl(v) : v \in Finite}
           wrong == trait = "INVALID" \/ should_be_trait # special
<1>2. x \in AnyFloat
  BY FloatsAre
<1>3. x.kind = "finite" <=> x \in {Fl(v) : v \in Finite}
  BY DEF Floats, Fl, Inf, NaN
<1>4. /\ x = Inf(1) <=> x.kind = "inf" /\ FLess(Fl(0), x)
      /\ x = Inf(-1) <=> x.kind = "inf" /\ FLess(x, Fl(0))
  <2>1. Fl(0).kind = "finite" /\ Fl(0).v = 0 /\ Fl(0) # NaN
    BY DEF Fl, NaN
  <2>2. CASE x.kind # "inf"
    BY <2>2 DEF Inf
  <2>3. CASE x = Inf(1)
    BY <2>1, <2>3 DEF FLess, Inf, NaN
  <2>4. CASE x = Inf(-1)
    BY <2>1, <2>4 DEF FLess, Inf, NaN
  <2> QED BY <1>2, <2>2, <2>3, <2>4, KindsOfFloat
<1> DEFINE is_trait == CASE trait = "INF" -> x.kind = "inf" /\ FLess(Fl(0), x)
                         [] trait = "NEG_INF" -> x.kind = "inf" /\ FLess(x, Fl(0))
                         [] trait = "NAN" -> x = NaN
                         [] trait = "DET" -> x.kind = "finite"
                         [] trait = "INVALID" -> ~ should_be_trait
<1>5. outcome'.failed <=> wrong
  <2>1. outcome' = Verdict(is_trait = should_be_trait)
    BY <1>1, Zenon DEF Calls, UnityAssertFloatSpecial
  <2>2. (trait = "INVALID" /\ is_trait = ~ should_be_trait)
        \/ (trait # "INVALID" /\ is_trait = special)
    <3>1. CASE trait = "INVALID"
      BY <3>1
    <3>2. CASE trait = "INF"
      BY <1>4, <3>2
    <3>3. CASE trait = "NEG_INF"
      BY <1>4, <3>3
    <3>4. CASE trait = "NAN"
      BY <3>4
    <3>5. CASE trait = "DET"
      BY <1>3, <3>5
    <3> QED BY <3>1, <3>2, <3>3, <3>4, <3>5 DEF Traits
  <2> HIDE DEF is_trait, special
  <2>3. outcome'.failed <=> ~ (is_trait = should_be_trait)
    BY <2>1 DEF Verdict, Pass, Failure, Outcome
  <2>4. CASE should_be_trait = TRUE
    BY <2>2, <2>3, <2>4
  <2>5. CASE should_be_trait = FALSE
    BY <2>2, <2>3, <2>5
  <2> QED BY <2>4, <2>5
<1>6. /\ call'.assertion = "FloatSpecial" /\ call'.actual = x
      /\ call'.trait = trait /\ call'.should_be_trait = should_be_trait
  BY <1>1 DEF Calls
<1> QED BY <1>5, <1>6 DEF FloatVerdicts

\* The loop over the floats of two arrays.
LEMMA FloatsLoop ==
  ASSUME NEW c, c.num_elements \in Nat
  PROVE  LoopOutcome(FloatElements(c), c.num_elements,
                     {k \in 1 .. c.num_elements : ~ FloatElementWithin(c, k - 1)})
<1> DEFINE n == c.num_elements
           bad == {j \in 0 .. n - 1 : ~ FloatElementWithin(c, j)}
           found == [j \in 0 .. n |-> DifferAt(j, 0)]
           Body(f) == [j \in 0 .. n |->
                         IF j = n THEN Pass
                         ELSE IF FloatElementWithin(c, j) THEN f[j + 1]
                         ELSE DifferAt(j, 0)]
           Solves(f) == f = Body(f)
<1>1. ASSUME NEW f PROVE IsLoop(f, n, bad, found, Pass) <=> Solves(f)
  <2> DEFINE L == [j \in 0 .. n |->
                     IF j = n THEN Pass ELSE IF j \in bad THEN found[j] ELSE f[j + 1]]
  <2>1. ASSUME NEW j \in 0 .. n PROVE L[j] = Body(f)[j]
    OBVIOUS
  <2>2. L = Body(f)
    BY <2>1
  <2> QED BY <2>2 DEF IsLoop
<1>2. FloatElements(c) = (CHOOSE f : Solves(f))[0]
  BY DEF FloatElements
<1>3. \A j \in 0 .. n - 1 : found[j].failed /\ found[j].element = j
  BY DEF DifferAt, Outcome
<1>4. {k \in 1 .. n : k - 1 \in bad} = {k \in 1 .. n : ~ FloatElementWithin(c, k - 1)}
  <2>1. \A k \in 1 .. n : k - 1 \in 0 .. n - 1
    OBVIOUS
  <2> QED BY <2>1
<1> HIDE DEF bad, found, Solves
<1>5. PICK f : IsLoop(f, n, bad, found, Pass) /\ FloatElements(c) = f[0]
  <2>1. \E f : Solves(f)
    BY <1>1, LoopExists
  <2>2. Solves(CHOOSE f : Solves(f))
    BY <2>1
  <2> QED BY <1>1, <1>2, <2>2
<1>6. LoopOutcome(f[0], n, {k \in 1 .. n : k - 1 \in bad})
  BY <1>3, <1>5, ArrayLoop
<1> QED BY <1>4, <1>5, <1>6

\* The tolerance of an element is never NaN where it matters.
LEMMA ElementTolerance ==
  ASSUME NEW d \in AnyFloat, d.kind = "finite", NEW e \in AnyFloat, NEW a \in AnyFloat
  PROVE  Judged(UnityFloatsWithin(FAdd(FAbs(d), FAbs(Tolerance(e))), e, a),
                FAdd(Fl(Abs(d.v)), FAbs(Tolerance(e))), e, a)
<1> DEFINE x == FAbs(d)
           y == FAbs(Tolerance(e))
<1>1. /\ x = Fl(Abs(d.v)) /\ x \in AnyFloat /\ x.kind = "finite"
  BY AbsoluteFloat DEF Fl
<1>2. Tolerance(e) \in AnyFloat /\ (e.kind = "finite" => Tolerance(e) # NaN)
  BY FloatsAre
<1>3. y \in AnyFloat /\ (e.kind = "finite" => y # NaN)
  <2>1. y \in AnyFloat
    BY <1>2, AbsoluteFloat
  <2>2. \A f \in AnyFloat : f # NaN => FAbs(f) # NaN
    BY KindsOfFloat, AbsoluteFloat DEF Fl, Inf, NaN
  <2> QED BY <1>2, <2>1, <2>2
<1> HIDE DEF x, y
<1>4. FAdd(x, y) \in AnyFloat /\ (FAdd(x, y) # NaN \/ e.kind # "finite")
  BY <1>1, <1>3, SumOfFloats
<1>5. Judged(UnityFloatsWithin(FAdd(x, y), e, a), FAdd(x, y), e, a)
  BY <1>4, WithinIsJudged
<1> QED BY <1>1, <1>5 DEF x, y

\* A call on two arrays of floats is judged as FloatVerdicts says.
LEMMA FloatArrayVerdict == FloatArray => FloatVerdicts'
<1> SUFFICES ASSUME FloatArray PROVE FloatVerdicts'
  OBVIOUS
<1> DEFINE C(flags, delta, n, v) ==
             [assertion |-> "FloatArray", flags |-> flags, delta |-> delta,
              num_elements |-> n, same |-> v.same, elements |-> v,
              expected |-> v.expected, actual |-> v.actual]
<1>1. PICK flags \in Flags, n \in 1 .. MaxLength, delta \in Floats :
        \E v \in ArrayPairs(Floats, Floats, n, flags), m \in {0, n} :
          Calls(C(flags, delta, m, v), UnityAssertWithinFloatArray(C(flags, delta, m, v)))
  BY Zenon DEF FloatArray
<1>2. PICK v \in ArrayPairs(Floats, Floats, n, flags), m \in {0, n} :
          Calls(C(flags, delta, m, v), UnityAssertWithinFloatArray(C(flags, delta, m, v)))
  BY <1>1
<1> DEFINE c == C(flags, delta, m, v)
           o == UnityAssertWithinFloatArray(c)
           wrong == {k \in 1 .. m : ~ FloatElementWithin(c, k - 1)}
           within(k) == FAdd(Fl(Abs(delta.v)), FAbs(Tolerance(ExpectedAt(c, k))))
<1>3. /\ c.flags = flags /\ c.num_elements = m /\ c.same = v.same /\ c.elements = v
      /\ c.expected = v.expected /\ c.actual = v.actual
      /\ c.assertion = "FloatArray" /\ c.delta = delta
  OBVIOUS
<1>4. /\ n \in Nat /\ n >= 1 /\ m \in Nat /\ m <= n
      /\ flags \in {"ARRAY_TO_ARRAY", "ARRAY_TO_VAL"}
  BY UnityAssertAssumption DEF Flags
<1>5. call' = c /\ outcome' = o
  BY <1>2 DEF Calls
<1> HIDE DEF c
<1>6. /\ v.actual # NULL => v.actual \in [1 .. n -> Floats]
      /\ v.expected # NULL =>
           \/ v.expected \in [1 .. (IF flags = "ARRAY_TO_ARRAY" THEN n ELSE 1) -> Floats]
           \/ flags # "ARRAY_TO_VAL" /\ v.expected \in [1 .. n -> Floats]
  BY PairTypes
<1>7. delta \in AnyFloat /\ Floats \subseteq AnyFloat
  BY FloatsAre
<1>8. ASSUME delta.kind = "finite", v.expected # NULL, v.actual # NULL, NEW k \in 1 .. m
      PROVE  Judged(k \notin wrong, within(k), ExpectedAt(c, k), ActualAt(c, k))
  <2>1. k \in 1 .. n /\ 1 \in 1 .. 1 /\ k - 1 + 1 = k
    BY <1>4
  <2>2. ActualAt(c, k) \in AnyFloat
    BY <1>3, <1>6, <1>7, <1>8, <2>1 DEF ActualAt
  <2>3. ExpectedAt(c, k) \in AnyFloat
    BY <1>3, <1>4, <1>6, <1>7, <1>8, <2>1 DEF ExpectedAt
  <2> DEFINE near == UnityFloatsWithin(FAdd(FAbs(delta), FAbs(Tolerance(ExpectedAt(c, k)))),
                                       ExpectedAt(c, k), ActualAt(c, k))
  <2>4. FloatElementWithin(c, k - 1) <=> near
    BY <1>3, <2>1 DEF FloatElementWithin, ExpectedAt, ActualAt
  <2>5. Judged(near, within(k), ExpectedAt(c, k), ActualAt(c, k))
    BY <1>7, <1>8, <2>2, <2>3, ElementTolerance
  <2>6. k \notin wrong <=> near
    BY <2>4
  <2> HIDE DEF near, within, wrong
  <2> QED BY <2>5, <2>6 DEF Judged
<1>9. CASE delta = NaN
  <2>1. o.failed
    BY <1>3, <1>9 DEF UnityAssertWithinFloatArray, Failure, Outcome, NaN
  <2> HIDE DEF o
  <2> QED BY <1>3, <1>5, <1>9, <2>1 DEF FloatVerdicts
<1>10. CASE delta.kind = "inf"
  <2>1. delta # NaN
    BY <1>10 DEF NaN
  <2>2. o.failed <=> m = 0
    BY <1>3, <1>10, <2>1
    DEF UnityAssertWithinFloatArray, ArrayPrologue, Failure, Pass, Outcome
  <2> HIDE DEF o
  <2> QED BY <1>3, <1>5, <1>10, <2>1, <2>2 DEF FloatVerdicts
<1>11. CASE delta.kind = "finite"
  <2>1. delta # NaN /\ delta.kind # "inf"
    BY <1>11 DEF NaN
  <2>2. o = ArrayPrologue(c, FloatElements(c))
    BY <1>3, <2>1 DEF UnityAssertWithinFloatArray
  <2>3. LoopOutcome(FloatElements(c), m, wrong)
    BY <1>3, <1>4, FloatsLoop
  <2>4. wrong \in SUBSET (1 .. m)
    OBVIOUS
  <2> HIDE DEF o, wrong
  <2>5. CASE NULL \in {v.expected, v.actual}
    <3>1. ArrayOutcome(c, o, {})
      BY <1>3, <2>2, <2>3, <2>5, PrologueOutcome
    <3>2. FloatArrayJudged(c, o)
      BY <1>3, <2>5, <3>1, Zenon DEF FloatArrayJudged
    <3> QED BY <1>3, <1>5, <2>1, <3>2 DEF FloatVerdicts
  <2>6. CASE v.expected # NULL /\ v.actual # NULL
    <3>1. ArrayOutcome(c, o, wrong)
      BY <1>3, <2>2, <2>3, <2>6, PrologueOutcome
    <3>2. \A k \in 1 .. m : Judged(k \notin wrong, within(k), ExpectedAt(c, k), ActualAt(c, k))
      BY <1>8, <1>11, <2>6
    <3>3. FloatArrayJudged(c, o)
      BY <1>3, <2>4, <2>6, <3>1, <3>2, Zenon DEF FloatArrayJudged
    <3> QED BY <1>3, <1>5, <2>1, <3>3 DEF FloatVerdicts
  <2> QED BY <2>5, <2>6
<1> QED BY <1>7, <1>9, <1>10, <1>11, KindsOfFloat

\* For every format of floats: floats whose true distance is within the
\* tolerance pass, and those fail between whose distance and the tolerance there
\* is another float, or whose difference overflows; NaN is near NaN and an
\* infinity near itself, and neither near anything else
\* (UnityAssertFloatsWithin, ...NotWithin, UnityAssertGreaterOrLessFloat,
\* UnityAssertFloatSpecial, UnityAssertWithinFloatArray).
THEOREM UnityFloatVerdicts == Spec => []FloatVerdicts
<1>1. Init => FloatVerdicts
  BY DEF Init, Idle, FloatVerdicts
<1>2. FloatVerdicts /\ [Next]_vars => FloatVerdicts'
  <2> SUFFICES ASSUME FloatVerdicts, [Next]_vars PROVE FloatVerdicts'
    OBVIOUS
  <2>1. CASE Float
    BY <2>1, FloatVerdict
  <2>2. CASE FloatSpecial
    BY <2>2, FloatSpecialVerdict
  <2>3. CASE FloatArray
    BY <2>3, FloatArrayVerdict
  <2>4. CASE call'.assertion \notin {"FloatsWithin", "FloatsNotWithin", "FloatCompare",
                                     "FloatSpecial", "FloatArray"}
    BY <2>4 DEF FloatVerdicts
  <2>5. CASE UNCHANGED vars
    BY <2>5, Zenon DEF vars, FloatVerdicts
  <2> QED BY <2>1, <2>2, <2>3, <2>4, <2>5, KindOfCall DEF Next
<1> QED BY <1>1, <1>2, PTL DEF Spec

-----------------------------------------------------------------------------
(* Arrays of numbers.                                                      *)

\* One digit more of a number in a base that is a product.
LEMMA Remainder ==
  ASSUME NEW x \in Nat, NEW p \in Nat \ {0}, NEW r \in Nat \ {0}
  PROVE  x % (p * r) = (x % p) + ((x \div p) % r) * p
<1> DEFINE q == x \div p
           u == x % p
           v == q \div r
           w == q % r
<1>1. q \in Nat /\ u \in 0 .. p - 1 /\ x = q * p + u
  OBVIOUS
<1> HIDE DEF q, u
<1>2. v \in Nat /\ w \in 0 .. r - 1 /\ q = v * r + w
  BY <1>1
<1> HIDE DEF v, w
<1>3. x = v * (p * r) + (w * p + u)
  <2>1. q * p = (v * r) * p + w * p
    BY <1>1, <1>2
  <2>2. (v * r) * p = v * (p * r)
    BY <1>2
  <2>3. w * p \in Int /\ v * (p * r) \in Int
    BY <1>2
  <2> QED BY <1>1, <2>1, <2>2, <2>3
<1>4. w * p + u \in 0 .. p * r - 1
  <2>1. w * p + u + 1 \in 1 .. p * r
    BY <1>1, <1>2, GroupEnd
  <2>2. w * p \in Int /\ p * r \in Int
    BY <1>2
  <2> QED BY <1>1, <2>1, <2>2
<1>5. (v * (p * r) + (w * p + u)) % (p * r) = w * p + u
  <2> DEFINE l == p * r
             d == w * p + u
  <2>1. l \in Nat /\ d \in 0 .. l - 1
    BY <1>4
  <2> HIDE DEF l, d
  <2>2. (v * l + d) % l = d
    BY <1>2, <2>1, Division
  <2> QED BY <2>2 DEF l, d
<1> QED BY <1>1, <1>2, <1>3, <1>5 DEF q, u, w

\* The bytes of x are in a memory, behind at of them.
HoldsAt(memory, at, size, x) ==
  \A i \in 1 .. size : memory[at + i] = Unsigned(x \div Values[i - 1], 1)

\* A load puts together the bytes of a number.
LEMMA LoadIs ==
  \A memory, at : \A size \in 0 .. 8, x \in Nat :
    HoldsAt(memory, at, size, x) => Load(memory, at, size) = Unsigned(x, size)
<1> SUFFICES ASSUME NEW memory, NEW at, NEW size \in 0 .. 8, NEW x \in Nat,
                    \A i \in 1 .. size : memory[at + i] = Unsigned(x \div Values[i - 1], 1)
             PROVE  Load(memory, at, size) = Unsigned(x, size)
  BY DEF HoldsAt
<1> DEFINE Solves(f) ==
             f = [i \in 0 .. size |->
                    IF i = 0 THEN 0 ELSE f[i - 1] + memory[at + i] * Values[i - 1]]
           step == [k \in 1 .. size |->
                      [v \in Nat |-> v + memory[at + k] * Values[k - 1]]]
<1>1. \A i \in 1 .. size : memory[at + i] \in Nat /\ Values[i - 1] \in Nat \ {0}
  <2> TAKE i \in 1 .. size
  <2>1. i - 1 \in 0 .. 8 /\ 1 \in 0 .. 8
    OBVIOUS
  <2>2. Values[i - 1] \in Nat \ {0} /\ Values[1] \in Nat \ {0}
    BY <2>1, ValuesAre
  <2>3. x \div Values[i - 1] \in Int
    BY <2>2
  <2>4. Unsigned(x \div Values[i - 1], 1) \in 0 .. Values[1] - 1
    BY <2>1, <2>3, UnsignedIs
  <2> QED BY <2>2, <2>4
<1>2. Load(memory, at, size) = (CHOOSE f : Solves(f))[size]
  BY DEF Load
<1>3. \E f : Solves(f)
  <2>1. step \in Steps(size, Nat) /\ 0 \in Nat /\ size \in Nat
    BY <1>1 DEF Steps
  <2> HIDE DEF step
  <2>2. PICK f : IsRecursion(f, 0, step, size, Nat)
    BY <2>1, RecursionExists
  <2>3. ASSUME NEW k \in 0 .. size
        PROVE  f[k] = IF k = 0 THEN 0 ELSE f[k - 1] + memory[at + k] * Values[k - 1]
    <3>1. CASE k = 0
      BY <2>2, <3>1 DEF IsRecursion
    <3>2. CASE k # 0
      <4>1. k \in 1 .. size /\ k - 1 \in 0 .. size
        BY <3>2
      <4>2. f[k] = step[k][f[k - 1]] /\ f[k - 1] \in Nat
        BY <2>2, <4>1 DEF IsRecursion
      <4>3. step[k] = [v \in Nat |-> v + memory[at + k] * Values[k - 1]]
        BY <4>1 DEF step
      <4> QED BY <3>2, <4>2, <4>3
    <3> QED BY <3>1, <3>2
  <2>4. f = [i \in 0 .. size |-> f[i]]
    BY <2>2 DEF IsRecursion
  <2>5. Solves(f)
    BY <2>3, <2>4
  <2> HIDE DEF Solves
  <2> QED BY <2>5
<1>4. PICK f : Solves(f) /\ Load(memory, at, size) = f[size]
  <2> HIDE DEF Solves
  <2>1. Solves(CHOOSE f : Solves(f))
    BY <1>3
  <2> QED BY <1>2, <2>1
<1>5. f[0] = 0 /\ \A i \in 1 .. size : f[i] = f[i - 1] + memory[at + i] * Values[i - 1]
  BY <1>4
<1> DEFINE S == {k \in Nat : k <= size => f[k] = x % Values[k]}
<1>6. 0 \in S
  BY <1>5, ValuesAre
<1>7. ASSUME NEW k \in Nat, k \in S PROVE k + 1 \in S
  <2> SUFFICES ASSUME k + 1 <= size PROVE f[k + 1] = x % Values[k + 1]
    OBVIOUS
  <2> DEFINE p == Values[k]
             r == 2^ByteBits
  <2>1. k \in 0 .. 8 /\ k + 1 \in 1 .. 8 /\ k + 1 \in 1 .. size /\ k + 1 - 1 = k /\ 1 \in 1 .. 8
    OBVIOUS
  <2>2. p \in Nat \ {0} /\ Values[k + 1] = p * r /\ Values[1] = r /\ r \in Nat \ {0}
    BY <2>1, ValuesAre, ByteValues
  <2>3. memory[at + (k + 1)] = (x \div p) % r
    BY <2>1, <2>2 DEF Unsigned
  <2> HIDE DEF p, r
  <2>4. f[k] = x % p
    BY <1>7, <2>1 DEF p
  <2>5. f[k + 1] = (x % p) + ((x \div p) % r) * p
    BY <1>5, <2>1, <2>3, <2>4 DEF p
  <2>6. x % (p * r) = (x % p) + ((x \div p) % r) * p
    BY <2>2, Remainder
  <2> QED BY <2>2, <2>5, <2>6
<1>8. size \in S
  <2> HIDE DEF S
  <2> QED BY <1>6, <1>7, SetInduction
<1> QED BY <1>4, <1>8 DEF Unsigned

\* The load of an element of an array gives its bit pattern.
LEMMA ElementLoad ==
  \A size \in {1, 2, 4, 8}, m \in Nat : \A s \in [1 .. m -> 0 .. Values[size] - 1] :
    \A q \in 0 .. m - 1 : Load(Bytes(s, size), q * size, size) = s[q + 1]
<1> SUFFICES ASSUME NEW size \in {1, 2, 4, 8}, NEW m \in Nat,
                    NEW s \in [1 .. m -> 0 .. Values[size] - 1], NEW q \in 0 .. m - 1
             PROVE  Load(Bytes(s, size), q * size, size) = s[q + 1]
  OBVIOUS
<1> DEFINE memory == Bytes(s, size)
           at == q * size
           x == s[q + 1]
<1>1. size \in 0 .. 8 /\ size \in Nat /\ q \in Nat /\ at \in Nat /\ Len(s) = m
  OBVIOUS
<1>2. Values[size] \in Nat \ {0}
  BY <1>1, ValuesAre
<1>3. x \in Nat /\ x \in 0 .. Values[size] - 1
  <2>1. q + 1 \in 1 .. m
    OBVIOUS
  <2> QED BY <1>2, <2>1
<1>4. ASSUME NEW i \in 1 .. size
      PROVE  memory[at + i] = Unsigned(x \div Values[i - 1], 1)
  <2> DEFINE k == at + i
  <2>1. i - 1 \in 0 .. size - 1
    BY <1>1
  <2>2. at + (i - 1) + 1 = at + i /\ k - 1 = at + (i - 1)
    BY <1>1
  <2>3. (at + (i - 1)) \div size = q /\ (at + (i - 1)) % size = i - 1
    <3>1. ASSUME NEW r \in 0 .. size - 1
          PROVE  (q * size + r) \div size = q /\ (q * size + r) % size = r
      <4>1. CASE size = 1
        BY <1>1, <4>1
      <4>2. CASE size = 2
        BY <1>1, <4>2
      <4>3. CASE size = 4
        BY <1>1, <4>3
      <4>4. CASE size = 8
        BY <1>1, <4>4
      <4> QED BY <4>1, <4>2, <4>3, <4>4
    <3> QED BY <2>1, <3>1
  <2>4. at + (i - 1) + 1 \in 1 .. size * m
    BY <1>1, <2>1, GroupEnd
  <2>5. k \in 1 .. size * m
    BY <2>2, <2>4
  <2> HIDE DEF at, k
  <2>6. (k - 1) \div size = q /\ (k - 1) % size = i - 1
    BY <2>2, <2>3
  <2>7. memory[k] = Unsigned(x \div Values[i - 1], 1)
    BY <1>1, <2>5, <2>6 DEF Bytes
  <2> QED BY <2>7 DEF k
<1>5. Load(memory, at, size) = Unsigned(x, size)
  <2> HIDE DEF memory, at, x
  <2>1. HoldsAt(memory, at, size, x)
    BY <1>4 DEF HoldsAt
  <2>2. size \in 0 .. 8 /\ x \in Nat
    BY <1>1, <1>3
  <2> QED BY <2>1, <2>2, LoadIs
<1>6. Unsigned(x, size) = x
  BY <1>2, <1>3, Wrapped DEF Unsigned
<1> QED BY <1>5, <1>6

\* What the loop of an array assertion makes of element v: the number in the
\* type of the assertion, but those of 8 bytes stay signed.
AsCompared(style, v) ==
  LET t == Cast(style, style.size, v)
  IN  IF IsInt(style) \/ style.size < 8 THEN t ELSE Signed(t, 8)

\* What the loop loads for element q is the number the array has there.
LEMMA ElementIs ==
  ASSUME NEW style \in Style, NEW m \in Nat,
         NEW s \in [1 .. m -> 0 .. Values[style.size] - 1], NEW q \in 0 .. m - 1
  PROVE  Element(Bytes(s, style.size), q * style.size, style)
           = AsCompared(style, s[q + 1])
<1> DEFINE size == style.size
           x == s[q + 1]
<1>1. size \in {1, 2, 4, 8} /\ size \in 1 .. 8 /\ size \in 0 .. 8
  BY DEF Style
<1>2. Values[size] \in Nat \ {0}
  BY <1>1, ValuesAre
<1>3. x \in Int /\ x \in 0 .. Values[size] - 1
  <2>1. q + 1 \in 1 .. m
    OBVIOUS
  <2> QED BY <1>2, <2>1
<1>4. Load(Bytes(s, size), q * size, size) = x
  BY <1>1, ElementLoad
<1> HIDE DEF size, x
<1>5. Unsigned(x, size) = x
  BY <1>1, <1>3, UnsignedIs
<1>6. Unsigned(Signed(x, size), size) = x
  <2>1. Signed(x, size) \in {x, x - Values[size]}
    BY <1>1, <1>3, <1>5, SignedIs
  <2>2. x % Values[size] = x /\ (x - Values[size]) % Values[size] = x
    <3> DEFINE p == Values[size]
    <3> HIDE DEF p
    <3>1. p \in Nat \ {0} /\ x \in 0 .. p - 1
      BY <1>2, <1>3 DEF p
    <3>2. x % p = x /\ (x - p) % p = x
      BY <3>1, Wrapped
    <3> QED BY <3>2 DEF p
  <2> QED BY <2>1, <2>2 DEF Unsigned
<1>7. Element(Bytes(s, size), q * size, style)
        = IF ~ IsInt(style) /\ size < 8 THEN x ELSE Signed(x, size)
  BY <1>4, <1>6 DEF Element, size
<1>8. AsCompared(style, x) = IF IsInt(style) THEN Signed(x, size)
                             ELSE IF size < 8 THEN x ELSE Signed(x, 8)
  BY <1>5 DEF AsCompared, Cast, size
<1>9. size < 8 \/ size = 8
  BY <1>1
<1> QED BY <1>7, <1>8, <1>9 DEF size, x

\* Two elements are unequal, or too far apart, iff the numbers in the type are.
LEMMA ElementsCompared ==
  ASSUME NEW style \in Style,
         NEW x \in 0 .. Values[style.size] - 1, NEW y \in 0 .. Values[style.size] - 1
  PROVE  LET X == Cast(style, style.size, x)
             Y == Cast(style, style.size, y)
             Compared(v) == IF IsInt(style) THEN v ELSE Unsigned(v, 8)
         IN  /\ X \in Int /\ Y \in Int
             /\ AsCompared(style, x) # AsCompared(style, y) <=> Abs(X - Y) > 0
             /\ Distance(Compared(AsCompared(style, y)), Compared(AsCompared(style, x)))
                  = Abs(X - Y)
<1> DEFINE X == Cast(style, style.size, x)
           Y == Cast(style, style.size, y)
           Compared(v) == IF IsInt(style) THEN v ELSE Unsigned(v, 8)
           p == Values[8]
<1>1. style.size \in 1 .. 8 /\ x \in Int /\ y \in Int
  <2>1. style.size \in 0 .. 8 /\ style.size \in 1 .. 8
    BY DEF Style
  <2> QED BY <2>1, ValuesAre
<1>2. /\ IsInt(style) => Fits(X, 8) /\ Fits(Y, 8)
      /\ ~ IsInt(style) => X \in 0 .. p - 1 /\ Y \in 0 .. p - 1
  <2>1. IsInt(style) => Fits(X, 8) /\ Fits(Y, 8)
    BY <1>1, CastIs
  <2>2. ~ IsInt(style) => X \in 0 .. p - 1 /\ Y \in 0 .. p - 1
    BY <1>1, CastIs
  <2> QED BY <2>1, <2>2
<1>3. p \in Nat \ {0}
  BY ValuesAre
<1>4. /\ AsCompared(style, x) = IF IsInt(style) \/ style.size < 8 THEN X ELSE Signed(X, 8)
      /\ AsCompared(style, y) = IF IsInt(style) \/ style.size < 8 THEN Y ELSE Signed(Y, 8)
  BY DEF AsCompared
<1> HIDE DEF X, Y, p
<1>5. X \in Int /\ Y \in Int
  BY <1>2, <1>3 DEF Fits
<1>6. ASSUME NEW n \in 0 .. p - 1
      PROVE  Unsigned(n, 8) = n /\ Unsigned(Signed(n, 8), 8) = n
  <2>1. n % p = n /\ (n - p) % p = n
    BY <1>3, Wrapped
  <2>2. Unsigned(n, 8) = n /\ n \in Int
    BY <2>1 DEF Unsigned, p
  <2>3. Signed(n, 8) \in {n, n - p}
    <3>1. 8 \in 1 .. 8
      OBVIOUS
    <3> QED BY <2>2, <3>1, SignedIs DEF p
  <2> QED BY <2>1, <2>2, <2>3 DEF Unsigned, p
<1>7. /\ Compared(AsCompared(style, x)) = X
      /\ Compared(AsCompared(style, y)) = Y
  BY <1>2, <1>4, <1>6
<1>8. AsCompared(style, x) # AsCompared(style, y) <=> X # Y
  BY <1>4, <1>7
<1>9. X # Y <=> Abs(X - Y) > 0
  BY <1>5 DEF Abs
<1>10. Distance(Y, X) = Abs(Y - X) /\ Abs(Y - X) = Abs(X - Y)
  <2>1. Distance(Y, X) = Abs(Y - X)
    BY <1>2, <1>5, DistanceIs DEF p
  <2> QED BY <1>5, <2>1 DEF Abs
<1> QED BY <1>5, <1>7, <1>8, <1>9, <1>10 DEF X, Y

\* NULL has no bytes, and an array has some.
LEMMA BytesOfNull ==
  /\ \A size \in {1, 2, 4, 8} : Bytes(NULL, size) = NULL
  /\ \A S, s : \A size \in {1, 2, 4, 8}, m \in Nat \ {0} :
       s \in [1 .. m -> S] => s # NULL /\ Bytes(s, size) # NULL
<1>1. ASSUME NEW size \in {1, 2, 4, 8} PROVE Bytes(NULL, size) = NULL
  <2>1. 1 .. size * Len(NULL) = {}
    BY DEF NULL
  <2>2. ASSUME NEW g PROVE [i \in {} |-> g[i]] = <<>>
    OBVIOUS
  <2> DEFINE g == [i \in {} |->
                     Unsigned(NULL[(i - 1) \div size + 1] \div Values[(i - 1) % size], 1)]
  <2>3. Bytes(NULL, size) = g
    BY <2>1, Zenon DEF Bytes
  <2> QED BY <2>3 DEF NULL
<1>2. ASSUME NEW S, NEW size \in {1, 2, 4, 8}, NEW m \in Nat \ {0}, NEW s \in [1 .. m -> S]
      PROVE  s # NULL /\ Bytes(s, size) # NULL
  <2>1. 1 \in 1 .. m /\ 1 \notin DOMAIN NULL /\ Len(s) = m
    BY DEF NULL
  <2>2. 1 \in 1 .. size * m
    OBVIOUS
  <2>3. 1 \in DOMAIN Bytes(s, size)
    BY <2>1, <2>2 DEF Bytes
  <2> QED BY <2>1, <2>3
<1> QED BY <1>1, <1>2

\* The elements that a call finds to be wrong, counted from 0, and its report
\* of one.
Failing(c) == {j \in 0 .. c.num_elements - 1 : ElementFails(c, j)}

ElementReport(c, j) ==
  ReportAt(j, UnityPrintIntNumberByStyle(ExpectVal(c, j), c.style),
           UnityPrintIntNumberByStyle(ActualVal(c, j), c.style))

\* The loop over the elements of two arrays of numbers.
LEMMA ElementsAreLoop ==
  ASSUME NEW c, c.num_elements \in Nat, NEW found,
         found = [j \in 0 .. c.num_elements |-> ElementReport(c, j)]
  PROVE  \E f : /\ IsLoop(f, c.num_elements, Failing(c), found, Pass)
               /\ Elements(c) = f[0]
<1> DEFINE n == c.num_elements
           Body(f) == [j \in 0 .. n |->
                         IF j = n THEN Pass
                         ELSE IF ElementFails(c, j) THEN ElementReport(c, j)
                         ELSE f[j + 1]]
           Solves(f) == f = Body(f)
<1>1. Elements(c) = (CHOOSE f : Solves(f))[0]
  BY Zenon DEF Elements, ElementReport
<1>2. ASSUME NEW f PROVE IsLoop(f, n, Failing(c), found, Pass) <=> Solves(f)
  <2> DEFINE L == [j \in 0 .. n |->
                     IF j = n THEN Pass
                     ELSE IF j \in Failing(c) THEN found[j] ELSE f[j + 1]]
  <2>1. ASSUME NEW j \in 0 .. n PROVE L[j] = Body(f)[j]
    BY DEF Failing
  <2>2. L = Body(f)
    BY <2>1
  <2> QED BY <2>2 DEF IsLoop
<1> HIDE DEF Solves
<1>3. \E f : Solves(f)
  BY <1>2, LoopExists
<1>4. Solves(CHOOSE f : Solves(f))
  BY <1>3
<1> QED BY <1>1, <1>2, <1>4

\* It fails at the first element that is wrong.
LEMMA ElementsLoop ==
  ASSUME NEW c, c.num_elements \in Nat
  PROVE  LoopOutcome(Elements(c), c.num_elements,
                     {k \in 1 .. c.num_elements : ElementFails(c, k - 1)})
<1> DEFINE n == c.num_elements
           found == [j \in 0 .. n |-> ElementReport(c, j)]
<1>1. \A j \in 0 .. n - 1 : found[j].failed /\ found[j].element = j
  BY DEF ElementReport, ReportAt, Outcome
<1>2. {k \in 1 .. n : k - 1 \in Failing(c)} = {k \in 1 .. n : ElementFails(c, k - 1)}
  <2>1. \A k \in 1 .. n : k - 1 \in 0 .. n - 1
    OBVIOUS
  <2> QED BY <2>1 DEF Failing
<1>3. PICK f : IsLoop(f, n, Failing(c), found, Pass) /\ Elements(c) = f[0]
  BY ElementsAreLoop
<1> HIDE DEF found
<1>4. LoopOutcome(f[0], n, {k \in 1 .. n : k - 1 \in Failing(c)})
  BY <1>1, <1>3, ArrayLoop
<1> QED BY <1>2, <1>3, <1>4

\* Its result is that all pass, or the report of an element.
LEMMA ElementsResult ==
  ASSUME NEW c, c.num_elements \in Nat
  PROVE  \/ Elements(c) = Pass
         \/ \E j \in 0 .. c.num_elements - 1 : Elements(c) = ElementReport(c, j)
<1> DEFINE n == c.num_elements
           found == [j \in 0 .. n |-> ElementReport(c, j)]
<1>1. \A j \in 0 .. n - 1 : found[j] = ElementReport(c, j)
  OBVIOUS
<1>2. PICK f : IsLoop(f, n, Failing(c), found, Pass) /\ Elements(c) = f[0]
  BY ElementsAreLoop
<1> HIDE DEF found
<1>3. f[0] = Pass \/ \E j \in 0 .. n - 1 : f[0] = found[j]
  BY <1>2, LoopResult
<1> QED BY <1>1, <1>2, <1>3

\* The elements that are not as they should be.
WrongElements(c) ==
  {k \in 1 .. c.num_elements :
     Abs(Typed(c, ExpectedAt(c, k)) - Typed(c, ActualAt(c, k))) > c.delta}

\* The loops over arrays that are not NULL load the numbers that these have in
\* the type of the style.
Loaded(c, style, v, m) ==
  /\ c.expected = NULL <=> v.expected = NULL
  /\ c.actual = NULL <=> v.actual = NULL
  /\ v.expected # NULL /\ v.actual # NULL =>
       \A k \in 1 .. m :
         /\ ExpectedAt(c, k) \in 0 .. Values[style.size] - 1
         /\ ActualAt(c, k) \in 0 .. Values[style.size] - 1
         /\ ExpectVal(c, k - 1) = AsCompared(style, ExpectedAt(c, k))
         /\ ActualVal(c, k - 1) = AsCompared(style, ActualAt(c, k))

\* That is so in every call.
LEMMA ElementsLoaded ==
  ASSUME NEW assertion, NEW style \in Style, NEW flags \in Flags, NEW n \in 1 .. MaxLength,
         NEW v \in ArrayPairs(Raw(style.size), Raw(style.size), n, flags),
         NEW m \in {0, n}, NEW delta
  PROVE  Loaded(TwoArrays(assertion, style, flags, m, v, delta), style, v, m)
<1> DEFINE c == TwoArrays(assertion, style, flags, m, v, delta)
           size == style.size
<1>1. /\ c.assertion = assertion /\ c.style = style /\ c.flags = flags
      /\ c.num_elements = m /\ c.same = v.same /\ c.elements = v /\ c.delta = delta
      /\ c.expected = Bytes(v.expected, size) /\ c.actual = Bytes(v.actual, size)
  BY DEF TwoArrays
<1> HIDE DEF c
<1>2. /\ n \in Nat /\ n >= 1 /\ m \in Nat /\ m <= n
      /\ flags \in {"ARRAY_TO_ARRAY", "ARRAY_TO_VAL"}
  BY UnityAssertAssumption DEF Flags
<1>3. size \in {1, 2, 4, 8}
  BY DEF Style
<1>4. Raw(size) \subseteq 0 .. Values[size] - 1
  BY <1>3, UnityAssertAssumption
<1>5. /\ v.actual # NULL => v.actual \in [1 .. n -> Raw(size)]
      /\ v.expected # NULL =>
           v.expected \in [1 .. (IF flags = "ARRAY_TO_ARRAY" THEN n ELSE 1) -> Raw(size)]
  BY <1>2, PairTypes
<1>6. (c.expected = NULL <=> v.expected = NULL) /\ (c.actual = NULL <=> v.actual = NULL)
  <2>1. n \in Nat \ {0} /\ 1 \in Nat \ {0}
    BY <1>2
  <2>2. \A s : \A k \in Nat \ {0} :
          s \in [1 .. k -> Raw(size)] => s # NULL /\ Bytes(s, size) # NULL
    BY <1>3, BytesOfNull
  <2>3. Bytes(NULL, size) = NULL
    BY <1>3, BytesOfNull
  <2> HIDE DEF size
  <2> QED BY <1>1, <1>5, <2>1, <2>2, <2>3
<1>7. ASSUME v.expected # NULL, v.actual # NULL, NEW k \in 1 .. m
      PROVE  /\ ExpectedAt(c, k) \in 0 .. Values[size] - 1
             /\ ActualAt(c, k) \in 0 .. Values[size] - 1
             /\ ExpectVal(c, k - 1) = AsCompared(style, ExpectedAt(c, k))
             /\ ActualVal(c, k - 1) = AsCompared(style, ActualAt(c, k))
  <2>1. k \in 1 .. n /\ k - 1 \in 0 .. n - 1 /\ k - 1 + 1 = k /\ 1 \in 1 .. 1
    BY <1>2
  <2>2. v.actual \in [1 .. n -> 0 .. Values[size] - 1]
    BY <1>4, <1>5, <1>7
  <2>3. ActualAt(c, k) = v.actual[k - 1 + 1]
    BY <1>1, <2>1 DEF ActualAt
  <2>4. ActualVal(c, k - 1) = AsCompared(style, ActualAt(c, k))
    <3>1. Element(Bytes(v.actual, size), (k - 1) * size, style)
            = AsCompared(style, v.actual[k - 1 + 1])
      BY <1>2, <2>1, <2>2, ElementIs
    <3> QED BY <1>1, <2>3, <3>1 DEF ActualVal
  <2>5. CASE flags = "ARRAY_TO_ARRAY"
    <3>1. v.expected \in [1 .. n -> 0 .. Values[size] - 1]
      BY <1>4, <1>5, <1>7, <2>5
    <3>2. ExpectedAt(c, k) = v.expected[k - 1 + 1]
      BY <1>1, <2>1, <2>5 DEF ExpectedAt
    <3>3. Element(Bytes(v.expected, size), (k - 1) * size, style)
            = AsCompared(style, v.expected[k - 1 + 1])
      BY <1>2, <2>1, <3>1, ElementIs
    <3>4. ExpectVal(c, k - 1) = Element(Bytes(v.expected, size), (k - 1) * size, style)
      BY <1>1, <2>5 DEF ExpectVal, ExpectedOffset
    <3> QED BY <2>1, <2>2, <2>3, <2>4, <3>1, <3>2, <3>3, <3>4
  <2>6. CASE flags = "ARRAY_TO_VAL"
    <3>1. v.expected \in [1 .. 1 -> 0 .. Values[size] - 1]
      BY <1>4, <1>5, <1>7, <2>6
    <3>2. ExpectedAt(c, k) = v.expected[0 + 1] /\ 0 + 1 = 1
      BY <1>1, <2>6 DEF ExpectedAt
    <3>3. Element(Bytes(v.expected, size), 0 * size, style)
            = AsCompared(style, v.expected[0 + 1])
      <4>1. 0 \in 0 .. 1 - 1 /\ 1 \in Nat
        OBVIOUS
      <4> QED BY <3>1, <4>1, ElementIs
    <3>4. ExpectVal(c, k - 1) = Element(Bytes(v.expected, size), 0, style) /\ 0 * size = 0
      BY <1>1, <1>3, <2>6 DEF ExpectVal, ExpectedOffset
    <3> QED BY <2>1, <2>2, <2>3, <2>4, <3>1, <3>2, <3>3, <3>4
  <2> QED BY <1>2, <2>5, <2>6
<1> QED BY <1>6, <1>7 DEF c, Loaded

\* Both assertions on arrays of numbers fail iff some element is wrong, and
\* then name the first.
LEMMA ArrayVerdict ==
  ASSUME NEW assertion \in {"EqualIntArray", "ArrayWithin"},
         NEW style \in Style, NEW flags \in Flags, NEW n \in 1 .. MaxLength,
         NEW v \in ArrayPairs(Raw(style.size), Raw(style.size), n, flags),
         NEW m \in {0, n}, NEW delta \in Nat, assertion = "EqualIntArray" => delta = 0
  PROVE  LET c == TwoArrays(assertion, style, flags, m, v, delta)
         IN  ArrayOutcome(c, UnityAssertNumbersArray(c), WrongElements(c))
<1> DEFINE c == TwoArrays(assertion, style, flags, m, v, delta)
           size == style.size
           fails == {k \in 1 .. m : ElementFails(c, k - 1)}
<1>1. /\ c.assertion = assertion /\ c.style = style /\ c.flags = flags
      /\ c.num_elements = m /\ c.same = v.same /\ c.elements = v /\ c.delta = delta
      /\ c.expected = Bytes(v.expected, size) /\ c.actual = Bytes(v.actual, size)
  BY DEF TwoArrays
<1> HIDE DEF c
<1>2. /\ n \in Nat /\ n >= 1 /\ m \in Nat /\ m <= n
      /\ flags \in {"ARRAY_TO_ARRAY", "ARRAY_TO_VAL"}
  BY UnityAssertAssumption DEF Flags
<1>3. size \in {1, 2, 4, 8}
  BY DEF Style
<1>4. Loaded(c, style, v, m)
  BY ElementsLoaded DEF c
<1>8. ASSUME v.expected # NULL, v.actual # NULL
      PROVE  fails = WrongElements(c)
  <2>1. ASSUME NEW k \in 1 .. m
        PROVE  ElementFails(c, k - 1)
                 <=> Abs(Typed(c, ExpectedAt(c, k)) - Typed(c, ActualAt(c, k))) > delta
    <3> DEFINE x == ExpectedAt(c, k)
               y == ActualAt(c, k)
               X == Cast(style, style.size, x)
               Y == Cast(style, style.size, y)
               Compared(u) == IF IsInt(style) THEN u ELSE Unsigned(u, 8)
    <3>1. /\ x \in 0 .. Values[size] - 1 /\ y \in 0 .. Values[size] - 1
          /\ ExpectVal(c, k - 1) = AsCompared(style, x)
          /\ ActualVal(c, k - 1) = AsCompared(style, y)
      BY <1>4, <1>8 DEF Loaded
    <3>2. Typed(c, x) = X /\ Typed(c, y) = Y
      BY <1>1 DEF Typed
    <3> HIDE DEF x, y
    <3>3. /\ AsCompared(style, x) # AsCompared(style, y) <=> Abs(X - Y) > 0
          /\ Distance(Compared(AsCompared(style, y)), Compared(AsCompared(style, x)))
               = Abs(X - Y)
      BY <3>1, ElementsCompared
    <3>4. CASE assertion = "EqualIntArray"
      BY <1>1, <3>1, <3>2, <3>3, <3>4 DEF ElementFails, x, y
    <3>5. CASE assertion = "ArrayWithin"
      BY <1>1, <3>1, <3>2, <3>3, <3>5 DEF ElementFails, x, y
    <3> QED BY <3>4, <3>5
  <2> QED BY <1>1, <2>1 DEF WrongElements
<1>9. LoopOutcome(Elements(c), m, fails)
  BY <1>1, <1>2, ElementsLoop
<1> HIDE DEF fails
<1>10. ArrayOutcome(c, UnityAssertNumbersArray(c), WrongElements(c))
  BY <1>1, <1>4, <1>8, <1>9, PrologueOutcome DEF UnityAssertNumbersArray, Loaded
<1> QED BY <1>10 DEF c

\* Arrays of numbers are compared as the numbers their elements are in the type
\* of the assertion, and a failure names the first element that differs, for all
\* bit patterns, widths and lengths (UnityAssertEqualIntArray,
\* UnityAssertNumbersArrayWithin).
THEOREM UnityArrayVerdicts == Spec => []ArrayVerdicts
<1>1. Init => ArrayVerdicts
  BY DEF Init, Idle, ArrayVerdicts
<1>2. ArrayVerdicts /\ [Next]_vars => ArrayVerdicts'
  <2> SUFFICES ASSUME ArrayVerdicts, [Next]_vars PROVE ArrayVerdicts'
    OBVIOUS
  <2>1. CASE NumbersArray
    <3> DEFINE Called(assertion, style, flags, m, v, delta) ==
                 Calls(TwoArrays(assertion, style, flags, m, v, delta),
                       UnityAssertNumbersArray(
                         TwoArrays(assertion, style, flags, m, v, delta)))
    <3>1. PICK style \in Style, flags \in Flags, n \in 1 .. MaxLength :
            \E v \in ArrayPairs(Raw(style.size), Raw(style.size), n, flags), m \in {0, n} :
              \/ Called("EqualIntArray", style, flags, m, v, 0)
              \/ \E d \in Deltas :
                   Called("ArrayWithin", style, flags, m, v, Unsigned(d, style.size))
      BY <2>1, Zenon DEF NumbersArray
    <3> HIDE DEF Called
    <3>2. PICK v \in ArrayPairs(Raw(style.size), Raw(style.size), n, flags), m \in {0, n} :
              \/ Called("EqualIntArray", style, flags, m, v, 0)
              \/ \E d \in Deltas :
                   Called("ArrayWithin", style, flags, m, v, Unsigned(d, style.size))
      BY <3>1
    <3>3. ASSUME NEW assertion \in {"EqualIntArray", "ArrayWithin"}, NEW delta \in Nat,
                 assertion = "EqualIntArray" => delta = 0,
                 Called(assertion, style, flags, m, v, delta)
          PROVE  ArrayOutcome(call', outcome', WrongElements(call'))
      <4>1. /\ call' = TwoArrays(assertion, style, flags, m, v, delta)
            /\ outcome' = UnityAssertNumbersArray(call')
        BY <3>3, Zenon DEF Called, Calls
      <4> QED BY <3>3, <4>1, ArrayVerdict
    <3>4. \A d \in Deltas : Unsigned(d, style.size) \in Nat
      <4> TAKE d \in Deltas
      <4>1. d \in Int /\ style.size \in 0 .. 8
        BY UnityAssertAssumption DEF Style
      <4>2. Unsigned(d, style.size) \in 0 .. Values[style.size] - 1
        BY <4>1, UnsignedIs
      <4> QED BY <4>2
    <3>5. ArrayOutcome(call', outcome', WrongElements(call'))
      <4>1. 0 \in Nat
        OBVIOUS
      <4> QED BY <3>2, <3>3, <3>4, <4>1
    <3> QED BY <3>5, Zenon DEF ArrayVerdicts, WrongElements
  <2>2. CASE call'.assertion \notin {"EqualIntArray", "ArrayWithin"}
    BY <2>2 DEF ArrayVerdicts
  <2>3. CASE UNCHANGED vars
    BY <2>3, Zenon DEF vars, ArrayVerdicts
  <2> QED BY <2>1, <2>2, <2>3, KindOfCall DEF Next
<1> QED BY <1>1, <1>2, PTL DEF Spec

-----------------------------------------------------------------------------
(* Numbers that are printed and read back.                                 *)

\* The digits are distinct, so each has its value; none is a sign or an x.
LEMMA DigitsAre ==
  ASSUME NEW v \in 0 .. 15
  PROVE  /\ DigitValue[Digits[v + 1]] = v
         /\ Digits[v + 1] \notin {"-", "x"}
<1>1. Digits[v + 1] \notin {"-", "x"}
  BY DEF Digits
<1>2. ASSUME NEW i \in 1 .. 16, NEW j \in 1 .. 16, Digits[i] = Digits[j] PROVE i = j
  BY <1>2 DEF Digits
<1> DEFINE all == {Digits[i] : i \in 1 .. 16}
           d == Digits[v + 1]
<1>3. v + 1 \in 1 .. 16 /\ d \in all
  OBVIOUS
<1>4. DigitValue[d] = CHOOSE w \in 0 .. 15 : Digits[w + 1] = d
  BY <1>3 DEF DigitValue
<1>5. \A w \in 0 .. 15 : Digits[w + 1] = d => w = v
  <2> SUFFICES ASSUME NEW w \in 0 .. 15, Digits[w + 1] = d PROVE w = v
    OBVIOUS
  <2>1. w + 1 = v + 1
    BY <1>2, <1>3
  <2> QED BY <2>1
<1>6. DigitValue[d] = v
  <2> HIDE DEF d
  <2>1. Digits[v + 1] = d
    BY DEF d
  <2> QED BY <1>4, <1>5, <2>1
<1> QED BY <1>1, <1>6

\* g is what is left of n after each division by the base.
IsDivided(g, n, base, k) ==
  /\ g \in [0 .. k - 1 -> Nat]
  /\ g[0] = n
  /\ \A j \in 1 .. k - 1 : g[j] = g[j - 1] \div base

\* Such a function exists.
LEMMA DividedExists ==
  ASSUME NEW n \in Nat, NEW base \in 2 .. 16, NEW k \in Nat \ {0}
  PROVE  \E g : IsDivided(g, n, base, k)
<1> DEFINE half == [x \in Nat |-> x \div base]
           step == [j \in 1 .. k - 1 |-> half]
<1>1. half \in [Nat -> Nat]
  OBVIOUS
<1>2. step \in Steps(k - 1, Nat) /\ k - 1 \in Nat
  BY <1>1 DEF Steps
<1>3. \A j \in 1 .. k - 1, x \in Nat : step[j][x] = x \div base
  OBVIOUS
<1> HIDE DEF step
<1>4. PICK g : IsRecursion(g, n, step, k - 1, Nat)
  BY <1>2, RecursionExists
<1>5. ASSUME NEW j \in 1 .. k - 1 PROVE g[j] = g[j - 1] \div base
  <2>1. j - 1 \in 0 .. k - 1
    OBVIOUS
  <2>2. g[j - 1] \in Nat /\ g[j] = step[j][g[j - 1]]
    BY <1>4, <2>1 DEF IsRecursion
  <2> QED BY <1>3, <2>2
<1>6. IsDivided(g, n, base, k)
  BY <1>4, <1>5 DEF IsRecursion, IsDivided
<1> QED BY <1>6

\* The digits that are printed: the last of each of what is left.
LastDigits(g, base, k) == [i \in 1 .. k |-> Digits[(g[k - i] % base) + 1]]

\* That is what InBase computes, from the last place to the first.
LEMMA DigitsPrinted ==
  ASSUME NEW n \in Nat, NEW base \in 2 .. 16, NEW k \in Nat \ {0},
         NEW g, IsDivided(g, n, base, k)
  PROVE  InBase(n, base, k) = LastDigits(g, base, k)
<1> DEFINE Solves(q) == q = [i \in 1 .. k |-> IF i = k THEN n ELSE q[i + 1] \div base]
           h == [i \in 1 .. k |-> g[k - i]]
           quotient == CHOOSE q : Solves(q)
<1>1. InBase(n, base, k) = [i \in 1 .. k |-> Digits[(quotient[i] % base) + 1]]
  BY DEF InBase
<1>2. Solves(h)
  <2>1. ASSUME NEW i \in 1 .. k PROVE h[i] = IF i = k THEN n ELSE h[i + 1] \div base
    <3>1. CASE i = k
      BY <3>1 DEF IsDivided
    <3>2. CASE i # k
      <4>1. k - i \in 1 .. k - 1 /\ i + 1 \in 1 .. k /\ k - (i + 1) = (k - i) - 1
        BY <3>2
      <4>2. h[i + 1] = g[(k - i) - 1] /\ h[i] = g[k - i]
        BY <4>1
      <4> HIDE DEF h
      <4> QED BY <3>2, <4>1, <4>2 DEF IsDivided
    <3> QED BY <3>1, <3>2
  <2>2. h = [i \in 1 .. k |-> h[i]]
    OBVIOUS
  <2> HIDE DEF h
  <2> QED BY <2>1, <2>2
<1>3. Solves(quotient)
  <2> HIDE DEF Solves
  <2> QED BY <1>2
<1> HIDE DEF quotient
<1>4. \A i \in 1 .. k : quotient[i] = IF i = k THEN n ELSE quotient[i + 1] \div base
  BY <1>3
<1> DEFINE S == {j \in Nat : j <= k - 1 => quotient[k - j] = g[j]}
<1>5. 0 \in S
  BY <1>4 DEF IsDivided
<1>6. ASSUME NEW j \in Nat, j \in S PROVE j + 1 \in S
  <2> SUFFICES ASSUME j + 1 <= k - 1 PROVE quotient[k - (j + 1)] = g[j + 1]
    OBVIOUS
  <2>1. k - (j + 1) \in 1 .. k /\ k - (j + 1) # k /\ k - (j + 1) + 1 = k - j
        /\ j + 1 \in 1 .. k - 1 /\ j + 1 - 1 = j
    OBVIOUS
  <2>2. quotient[k - (j + 1)] = quotient[k - j] \div base
    BY <1>4, <2>1
  <2>3. g[j + 1] = g[j] \div base
    BY <2>1 DEF IsDivided
  <2> QED BY <1>6, <2>2, <2>3
<1>7. Nat \subseteq S
  <2> HIDE DEF S
  <2> QED BY <1>5, <1>6, SetInduction
<1>8. ASSUME NEW i \in 1 .. k PROVE quotient[i] = g[k - i]
  <2>1. k - i \in Nat /\ k - i <= k - 1 /\ k - (k - i) = i
    OBVIOUS
  <2>2. k - i \in S
    BY <1>7, <2>1
  <2> QED BY <2>1, <2>2
<1> QED BY <1>1, <1>8 DEF LastDigits

\* If nothing is left after the last digit, the digits stand for the number.
LEMMA DigitsReadBack ==
  ASSUME NEW n \in Nat, NEW base \in 2 .. 16, NEW k \in Nat \ {0},
         NEW g, IsDivided(g, n, base, k), g[k - 1] < base
  PROVE  /\ InBase(n, base, k) \in [1 .. k -> {Digits[v + 1] : v \in 0 .. 15}]
         /\ ValueIn(InBase(n, base, k), base) = n
<1> DEFINE digits == InBase(n, base, k)
           last == [i \in 1 .. k |-> g[k - i] % base]
<1>1. ASSUME NEW i \in 1 .. k
      PROVE  g[k - i] \in Nat /\ last[i] \in 0 .. base - 1 /\ last[i] \in 0 .. 15
  <2>1. k - i \in 0 .. k - 1
    OBVIOUS
  <2>2. g[k - i] \in Nat
    BY <2>1 DEF IsDivided
  <2> QED BY <2>2
<1>2. digits = [i \in 1 .. k |-> Digits[last[i] + 1]]
  <2>1. digits = [i \in 1 .. k |-> Digits[(g[k - i] % base) + 1]]
    <3>1. digits = LastDigits(g, base, k)
      BY DigitsPrinted DEF digits
    <3> HIDE DEF digits
    <3> QED BY <3>1 DEF LastDigits
  <2>2. \A i \in 1 .. k : last[i] = g[k - i] % base
    OBVIOUS
  <2> HIDE DEF digits, last
  <2> QED BY <2>1, <2>2
<1> HIDE DEF digits
<1>3. digits \in [1 .. k -> {Digits[v + 1] : v \in 0 .. 15}]
  <2> HIDE DEF last
  <2> QED BY <1>1, <1>2
<1>4. Len(digits) = k
  BY <1>2
<1>5. \A i \in 1 .. k : DigitValue[digits[i]] = last[i]
  <2> HIDE DEF last
  <2> QED BY <1>1, <1>2, DigitsAre
<1> DEFINE Solves(v) ==
             v = [i \in 0 .. k |-> IF i = 0 THEN 0
                                   ELSE v[i - 1] * base + DigitValue[digits[i]]]
           value == CHOOSE v : Solves(v)
<1>6. ValueIn(digits, base) = value[k]
  BY <1>4 DEF ValueIn
<1>7. Solves(value)
  <2> DEFINE step == [i \in 1 .. k |-> [x \in Nat |-> x * base + last[i]]]
  <2>1. step \in Steps(k, Nat)
    BY <1>1 DEF Steps
  <2>2. \A i \in 1 .. k, x \in Nat : step[i][x] = x * base + last[i]
    OBVIOUS
  <2> HIDE DEF step, last
  <2>3. PICK f : IsRecursion(f, 0, step, k, Nat)
    BY <2>1, RecursionExists
  <2>4. ASSUME NEW i \in 0 .. k
        PROVE  f[i] = IF i = 0 THEN 0 ELSE f[i - 1] * base + DigitValue[digits[i]]
    <3>1. CASE i = 0
      BY <2>3, <3>1 DEF IsRecursion
    <3>2. CASE i # 0
      <4>1. i \in 1 .. k /\ i - 1 \in 0 .. k
        BY <3>2
      <4>2. f[i] = step[i][f[i - 1]] /\ f[i - 1] \in Nat
        BY <2>3, <4>1 DEF IsRecursion
      <4> QED BY <1>5, <2>2, <3>2, <4>1, <4>2
    <3> QED BY <3>1, <3>2
  <2>5. f = [i \in 0 .. k |-> f[i]]
    BY <2>3 DEF IsRecursion
  <2>6. Solves(f)
    BY <2>4, <2>5
  <2> HIDE DEF Solves
  <2> QED BY <2>6
<1> HIDE DEF value
<1>8. value[0] = 0 /\ \A i \in 1 .. k : value[i] = value[i - 1] * base + last[i]
  <2> HIDE DEF last
  <2> QED BY <1>5, <1>7
<1> DEFINE S == {j \in Nat : j + 1 <= k => value[j + 1] = g[k - (j + 1)]}
<1>9. 0 \in S
  <2>1. 1 \in 1 .. k /\ k - 1 \in 0 .. k - 1 /\ k - (0 + 1) = k - 1
    OBVIOUS
  <2>2. value[1] = value[0] * base + last[1] /\ last[1] = g[k - 1] % base
    BY <1>8, <2>1
  <2>3. g[k - 1] \in Nat /\ g[k - 1] % base = g[k - 1]
    <3>1. g[k - 1] \in 0 .. base - 1 /\ base \in Nat \ {0}
      BY <2>1 DEF IsDivided
    <3> QED BY <3>1, Wrapped
  <2> QED BY <1>8, <2>1, <2>2, <2>3
<1>10. ASSUME NEW j \in Nat, j \in S PROVE j + 1 \in S
  <2> SUFFICES ASSUME j + 1 + 1 <= k PROVE value[j + 1 + 1] = g[k - (j + 1 + 1)]
    OBVIOUS
  <2> DEFINE x == g[k - (j + 1 + 1)]
  <2>1. /\ k - (j + 1) \in 1 .. k - 1 /\ k - (j + 1) - 1 = k - (j + 1 + 1)
        /\ j + 1 + 1 \in 1 .. k /\ j + 1 + 1 - 1 = j + 1
        /\ k - (j + 1 + 1) \in 0 .. k - 1
    OBVIOUS
  <2>2. g[k - (j + 1)] = x \div base /\ x \in Nat
    BY <2>1 DEF IsDivided
  <2>3. last[j + 1 + 1] = x % base
    BY <2>1
  <2> HIDE DEF x, last
  <2>4. value[j + 1 + 1] = ((x \div base) * base) + (x % base)
    BY <1>8, <1>10, <2>1, <2>2, <2>3
  <2>5. ((x \div base) * base) + (x % base) = x
    BY <2>2
  <2> QED BY <2>4, <2>5 DEF x
<1>11. Nat \subseteq S
  <2> HIDE DEF S
  <2> QED BY <1>9, <1>10, SetInduction
<1>12. value[k] = n
  <2>1. k - 1 \in S /\ k - 1 + 1 = k /\ k - k = 0
    BY <1>11
  <2> QED BY <2>1 DEF IsDivided
<1> QED BY <1>3, <1>6, <1>12 DEF digits

\* The divisors are 1, 10, 100, ...
LEMMA DivisorIs ==
  /\ Divisor[0] = 1
  /\ \A k \in Nat : Divisor[k] \in Nat \ {0} /\ Divisor[k + 1] = Divisor[k] * 10
  /\ \A k \in Nat : k < Divisor[k]
<1> DEFINE Solves(f) == f = [k \in Nat |-> IF k = 0 THEN 1 ELSE f[k - 1] * 10]
           V == Nat \ {0}
           step == [x \in V |-> x * 10]
<1>1. step \in [V -> V] /\ 1 \in V
  OBVIOUS
<1>2. \A x \in V : step[x] = x * 10
  OBVIOUS
<1> HIDE DEF step
<1>3. \E f : Solves(f)
  <2>1. PICK f : IsSequence(f, 1, step, V)
    <3> HIDE DEF V
    <3> QED BY <1>1, SequenceExists
  <2>2. ASSUME NEW k \in Nat PROVE f[k] = IF k = 0 THEN 1 ELSE f[k - 1] * 10
    <3>1. CASE k = 0
      BY <2>1, <3>1 DEF IsSequence
    <3>2. CASE k # 0
      <4>1. k - 1 \in Nat /\ k - 1 + 1 = k
        BY <3>2
      <4>2. f[k] = step[f[k - 1]] /\ f[k - 1] \in V
        BY <2>1, <4>1 DEF IsSequence
      <4> QED BY <1>2, <3>2, <4>2
    <3> QED BY <3>1, <3>2
  <2>3. f = [k \in Nat |-> f[k]]
    BY <2>1 DEF IsSequence
  <2>4. Solves(f)
    BY <2>2, <2>3
  <2> HIDE DEF Solves
  <2> QED BY <2>4
<1>4. Divisor = CHOOSE f : Solves(f)
  BY DEF Divisor
<1>5. Solves(Divisor)
  <2> HIDE DEF Solves
  <2> QED BY <1>3, <1>4
<1>6. \A k \in Nat : Divisor[k] = IF k = 0 THEN 1 ELSE Divisor[k - 1] * 10
  BY <1>5
<1>7. Divisor[0] = 1
  BY <1>6
<1>8. ASSUME NEW k \in Nat PROVE Divisor[k + 1] = Divisor[k] * 10
  <2>1. k + 1 \in Nat /\ k + 1 # 0 /\ k + 1 - 1 = k
    OBVIOUS
  <2> QED BY <1>6, <2>1
<1> DEFINE S == {k \in Nat : Divisor[k] \in Nat /\ k < Divisor[k]}
<1>9. 0 \in S
  BY <1>7
<1>10. ASSUME NEW k \in Nat, k \in S PROVE k + 1 \in S
  <2>1. Divisor[k] * 10 \in Nat /\ k + 1 < Divisor[k] * 10
    BY <1>10
  <2> QED BY <1>8, <2>1
<1>11. Nat \subseteq S
  <2> HIDE DEF S
  <2> QED BY <1>9, <1>10, SetInduction
<1>12. \A k \in Nat : Divisor[k] \in Nat \ {0} /\ k < Divisor[k]
  BY <1>11
<1> QED BY <1>7, <1>8, <1>12

\* Dividing twice.
LEMMA DividedTwice ==
  ASSUME NEW n \in Nat, NEW d \in Nat \ {0}
  PROVE  /\ n \div d \in Nat
         /\ (n \div d) \div 10 = n \div (d * 10)
<1> DEFINE q == n \div d
           s == q \div 10
           t == q % 10
           r == n % d
<1>1. q \in Nat /\ r \in 0 .. d - 1 /\ n = d * q + r
  OBVIOUS
<1>2. s \in Nat /\ t \in 0 .. 9 /\ q = 10 * s + t
  BY <1>1
<1> HIDE DEF q, s, t, r
<1>3. d * q = (d * 10) * s + d * t
  BY <1>1, <1>2
<1>4. d * t + r \in 0 .. d * 10 - 1
  <2>1. \A j \in 0 .. 9 : d * j + r \in 0 .. d * 10 - 1
    BY <1>1
  <2> QED BY <1>2, <2>1
<1>5. n = s * (d * 10) + (d * t + r)
  <2>1. (d * 10) * s = s * (d * 10) /\ (d * 10) * s \in Nat /\ d * t \in Nat
    BY <1>2
  <2> QED BY <1>1, <1>3, <2>1
<1>6. n \div (d * 10) = s
  <2>1. d * 10 \in Nat
    OBVIOUS
  <2> QED BY <1>2, <1>4, <1>5, <2>1, Division
<1> QED BY <1>1, <1>6 DEF q, s

\* A loop that ends wherever it starts turns until it does not go on.
LEMMA TurnsResult ==
  ASSUME NEW going, going \subseteq Nat, \A k \in Nat : \E e \in Nat \ going : k <= e
  PROVE  /\ Turns(going) \in Nat \ going
         /\ \A k \in 0 .. Turns(going) - 1 : k \in going
<1> DEFINE Solves(f) == f = [k \in Nat |-> IF k \in going THEN f[k + 1] ELSE k]
           turns == CHOOSE f : Solves(f)
           ends == Nat \ going
<1>1. Turns(going) = turns[0]
  BY Zenon DEF Turns
<1>2. \A f : IsSearch(f, ends) <=> Solves(f)
  <2> SUFFICES ASSUME NEW f PROVE IsSearch(f, ends) <=> Solves(f)
    OBVIOUS
  <2>1. \A k \in Nat : (IF k \in ends THEN k ELSE f[k + 1])
                         = IF k \in going THEN f[k + 1] ELSE k
    OBVIOUS
  <2> QED BY <2>1 DEF IsSearch
<1>3. ends \subseteq Nat /\ \A k \in Nat : \E e \in ends : k <= e
  OBVIOUS
<1>4. IsSearch(turns, ends)
  <2>1. \E f : IsSearch(f, ends)
    <3> HIDE DEF ends
    <3> QED BY <1>3, SearchExists
  <2>2. \E f : Solves(f)
    BY <1>2, <2>1
  <2> HIDE DEF Solves
  <2>3. Solves(turns)
    BY <2>2
  <2> QED BY <1>2, <2>3
<1> HIDE DEF turns
<1>5. turns[0] \in ends /\ \A k \in ends : turns[0] <= k
  <2>1. ends # {}
    BY <1>3
  <2> HIDE DEF ends
  <2> QED BY <1>3, <1>4, <2>1, SearchResult
<1>6. \A k \in 0 .. turns[0] - 1 : k \in going
  BY <1>5
<1> QED BY <1>1, <1>5, <1>6

\* As many decimal digits as the number is less than a power of ten stand for it.
LEMMA DecimalDigits ==
  ASSUME NEW n \in Nat, NEW k \in Nat \ {0}, n < Divisor[k]
  PROVE  /\ InBase(n, 10, k) \in [1 .. k -> {Digits[v + 1] : v \in 0 .. 15}]
         /\ ValueIn(InBase(n, 10, k), 10) = n
<1> DEFINE g == [j \in 0 .. k - 1 |-> n \div Divisor[j]]
<1>1. \A j \in Nat : Divisor[j] \in Nat \ {0}
  BY DivisorIs
<1>2. \A j \in 0 .. k - 1 : g[j] = n \div Divisor[j] /\ g[j] \in Nat
  <2> SUFFICES ASSUME NEW j \in 0 .. k - 1 PROVE n \div Divisor[j] \in Nat
    OBVIOUS
  <2>1. Divisor[j] \in Nat \ {0}
    BY <1>1
  <2> HIDE DEF g
  <2> QED BY <2>1, DividedTwice
<1>3. k - 1 \in Nat /\ k - 1 \in 0 .. k - 1 /\ 0 \in 0 .. k - 1 /\ k - 1 + 1 = k
  OBVIOUS
<1>4. g[k - 1] < 10
  <2> DEFINE d == Divisor[k - 1]
  <2>1. d \in Nat \ {0} /\ Divisor[k] = d * 10
    BY <1>1, <1>3, DivisorIs
  <2> HIDE DEF d
  <2>2. n < d * 10
    BY <2>1
  <2>3. n \div d < 10
    BY <2>1, <2>2
  <2> HIDE DEF g
  <2> QED BY <1>2, <1>3, <2>3 DEF d
<1>5. g[0] = n
  <2>1. n \div 1 = n
    OBVIOUS
  <2> HIDE DEF g
  <2> QED BY <1>2, <1>3, <2>1, DivisorIs
<1>6. ASSUME NEW j \in 1 .. k - 1 PROVE g[j] = g[j - 1] \div 10
  <2>1. j - 1 \in Nat /\ j - 1 \in 0 .. k - 1 /\ j \in 0 .. k - 1 /\ j - 1 + 1 = j
    OBVIOUS
  <2>2. Divisor[j] = Divisor[j - 1] * 10 /\ Divisor[j - 1] \in Nat \ {0}
    BY <2>1, DivisorIs
  <2> HIDE DEF g
  <2>3. g[j] = n \div (Divisor[j - 1] * 10) /\ g[j - 1] = n \div Divisor[j - 1]
    BY <1>2, <2>1, <2>2
  <2> QED BY <2>2, <2>3, DividedTwice
<1>7. IsDivided(g, n, 10, k)
  <2>1. g = [j \in 0 .. k - 1 |-> g[j]]
    OBVIOUS
  <2> HIDE DEF g
  <2> QED BY <1>2, <1>5, <1>6, <2>1 DEF IsDivided
<1> HIDE DEF g
<1> QED
  <2>1. 10 \in 2 .. 16
    OBVIOUS
  <2> QED BY <1>4, <1>7, <2>1, DigitsReadBack

\* The decimal places of a number are as many as are needed.
LEMMA PlacesAre ==
  ASSUME NEW n \in Nat
  PROVE  /\ Places(n) \in Nat \ {0}
         /\ UnityPrintNumberUnsigned(n) = InBase(n, 10, Places(n))
         /\ n < Divisor[Places(n)]
         /\ Places(n) # 1 => Divisor[Places(n) - 1] <= n
<1> DEFINE going == {k \in Nat : n \div Divisor[k] > 9}
           t == Turns(going)
<1>1. \A k \in Nat : Divisor[k] \in Nat \ {0} /\ k < Divisor[k]
  BY DivisorIs
<1>2. t \in Nat \ going /\ \A k \in 0 .. t - 1 : k \in going
  <2>1. \A k \in Nat : \E e \in Nat \ going : k <= e
    <3> SUFFICES ASSUME NEW k \in Nat PROVE \E e \in Nat \ going : k <= e
      OBVIOUS
    <3>1. n + k \in Nat /\ n < Divisor[n + k] /\ k <= n + k
      BY <1>1
    <3>2. n \div Divisor[n + k] = 0
      BY <1>1, <3>1
    <3>3. n + k \notin going
      BY <3>2
    <3> QED BY <3>1, <3>3
  <2>2. going \subseteq Nat
    OBVIOUS
  <2> HIDE DEF going
  <2> QED BY <2>1, <2>2, TurnsResult
<1>3. UnityPrintNumberUnsigned(n) = InBase(n, 10, t + 1)
  BY DEF UnityPrintNumberUnsigned
<1> HIDE DEF t
<1>4. Places(n) = t + 1
  <2>1. DOMAIN UnityPrintNumberUnsigned(n) = 1 .. t + 1
    BY <1>3 DEF InBase
  <2>2. t + 1 \in Nat
    BY <1>2
  <2>3. UnityPrintNumberUnsigned(n) = [i \in 1 .. t + 1 |-> UnityPrintNumberUnsigned(n)[i]]
    BY <1>3 DEF InBase
  <2> QED BY <2>2, <2>3 DEF Places
<1>5. n < Divisor[t + 1]
  <2> DEFINE d == Divisor[t]
  <2>1. d \in Nat \ {0} /\ Divisor[t + 1] = d * 10 /\ ~ (n \div d > 9)
    BY <1>1, <1>2, DivisorIs
  <2> HIDE DEF d
  <2>2. n < d * 10
    BY <2>1
  <2> QED BY <2>1, <2>2
<1>6. t # 0 => Divisor[t] <= n
  <2> SUFFICES ASSUME t # 0 PROVE Divisor[t] <= n
    OBVIOUS
  <2> DEFINE d == Divisor[t - 1]
  <2>1. t - 1 \in Nat /\ t - 1 \in 0 .. t - 1 /\ t - 1 + 1 = t
    BY <1>2
  <2>2. d \in Nat \ {0} /\ Divisor[t] = d * 10
    BY <1>1, <2>1, DivisorIs
  <2>3. n \div d > 9
    BY <1>2, <2>1
  <2> HIDE DEF d
  <2>4. n >= d * 10
    BY <2>2, <2>3
  <2> QED BY <2>2, <2>4
<1> QED BY <1>2, <1>3, <1>4, <1>5, <1>6

\* A number is printed in decimal with the digits that stand for it.
LEMMA DecimalReadsBack ==
  ASSUME NEW n \in Nat
  PROVE  /\ \E k \in Nat \ {0} :
              UnityPrintNumberUnsigned(n) \in [1 .. k -> {Digits[v + 1] : v \in 0 .. 15}]
         /\ ValueIn(UnityPrintNumberUnsigned(n), 10) = n
<1> DEFINE p == Places(n)
           digits == InBase(n, 10, p)
<1>1. p \in Nat \ {0} /\ UnityPrintNumberUnsigned(n) = digits /\ n < Divisor[p]
  BY PlacesAre
<1> HIDE DEF p
<1>2. digits \in [1 .. p -> {Digits[v + 1] : v \in 0 .. 15}] /\ ValueIn(digits, 10) = n
  BY <1>1, DecimalDigits
<1> HIDE DEF digits
<1> QED BY <1>1, <1>2

\* u is p and then t.
Joins(u, p, t, S) ==
  /\ u \in Seq(S) /\ Len(u) = Len(p) + Len(t)
  /\ \A i \in 1 .. Len(p) : u[i] = p[i]
  /\ \A i \in 1 .. Len(t) : u[Len(p) + i] = t[i]
  /\ SubSeq(u, 1, Len(p)) = p
  /\ SubSeq(u, Len(p) + 1, Len(u)) = t

\* A text and what stands before it can be told apart again.
LEMMA Parts ==
  ASSUME NEW S, NEW p \in Seq(S), NEW t \in Seq(S)
  PROVE  Joins(p \o t, p, t, S)
<1> DEFINE u == p \o t
           m == Len(p)
           n == Len(t)
<1>1. /\ u \in Seq(S) /\ Len(u) = m + n /\ m \in Nat /\ n \in Nat
      /\ \A i \in 1 .. m : u[i] = p[i]
      /\ \A i \in 1 .. n : u[m + i] = t[i]
      /\ p = [i \in 1 .. m |-> p[i]]
      /\ t = [i \in 1 .. n |-> t[i]]
  OBVIOUS
<1> HIDE DEF u, m, n
<1>2. SubSeq(u, 1, m) = p
  <2>1. SubSeq(u, 1, m) = [i \in 1 .. m |-> u[i]]
    BY <1>1
  <2> QED BY <1>1, <2>1
<1>3. SubSeq(u, m + 1, Len(u)) = t
  <2>1. SubSeq(u, m + 1, Len(u)) = [i \in 1 .. n |-> u[m + i]]
    BY <1>1
  <2> QED BY <1>1, <2>1
<1> QED BY <1>1, <1>2, <1>3 DEF u, m, n, Joins

\* The digits of a number, and the characters of all texts.
AllDigits == {Digits[v + 1] : v \in 0 .. 15}
Characters == AllDigits \cup {"-", "x"}

\* A text whose first or second character is another does not begin like that.
LEMMA NoPrefix ==
  ASSUME NEW t \in Seq(Characters)
  PROVE  /\ Len(t) >= 1 /\ t[1] # "-" => ~ IsPrefix(<<"-">>, t)
         /\ Len(t) >= 1 /\ t[1] # "0" => ~ IsPrefix(<<"0", "x">>, t)
         /\ Len(t) >= 2 /\ t[2] # "x" => ~ IsPrefix(<<"0", "x">>, t)
         /\ Len(t) <= 1 => ~ IsPrefix(<<"0", "x">>, t)
<1>1. ASSUME IsPrefix(<<"-">>, t) PROVE Len(t) >= 1 => t[1] = "-"
  <2> DEFINE s == SubSeq(t, 1, 1)
  <2>1. s = <<"-">>
    BY <1>1 DEF IsPrefix
  <2>2. Len(t) >= 1 => s[1] = t[1]
    OBVIOUS
  <2> HIDE DEF s
  <2> QED BY <2>1, <2>2
<1>2. ASSUME IsPrefix(<<"0", "x">>, t) PROVE Len(t) >= 2 /\ t[1] = "0" /\ t[2] = "x"
  <2> DEFINE s == SubSeq(t, 1, 2)
  <2>1. s = <<"0", "x">> /\ Len(t) >= 2
    BY <1>2 DEF IsPrefix
  <2>2. s[1] = t[1] /\ s[2] = t[2]
    BY <2>1
  <2> HIDE DEF s
  <2> QED BY <2>1, <2>2
<1> QED BY <1>1, <1>2

\* Texts of the three forms read as what their digits stand for.
LEMMA FormsRead ==
  ASSUME NEW k \in Nat \ {0}, NEW t \in [1 .. k -> AllDigits]
  PROVE  /\ NumberRead(t) = ValueIn(t, 10)
         /\ NumberRead(<<"-">> \o t) = -ValueIn(t, 10)
         /\ NumberRead(<<"0", "x">> \o t) = ValueIn(t, NibbleValues)
<1>1. \A d \in AllDigits : d # "-" /\ d # "x"
  <2>1. ASSUME NEW v \in 0 .. 15 PROVE Digits[v + 1] # "-" /\ Digits[v + 1] # "x"
    BY DigitsAre
  <2> QED BY <2>1 DEF AllDigits
<1>2. /\ t \in Seq(Characters) /\ Len(t) = k /\ k >= 1
      /\ \A i \in 1 .. k : t[i] \in AllDigits
  BY DEF Characters
<1>3. <<"-">> \in Seq(Characters) /\ Len(<<"-">>) = 1
  BY DEF Characters
<1>4. <<"0", "x">> \in Seq(Characters) /\ Len(<<"0", "x">>) = 2
  BY DEF Characters, AllDigits, Digits
<1>5. NumberRead(t) = ValueIn(t, 10)
  <2>1. t[1] # "-" /\ (k >= 2 => t[2] # "x")
    BY <1>1, <1>2
  <2>2. ~ IsPrefix(<<"0", "x">>, t) /\ ~ IsPrefix(<<"-">>, t)
    BY <1>2, <2>1, NoPrefix
  <2> QED BY <2>2 DEF NumberRead
<1>6. NumberRead(<<"-">> \o t) = -ValueIn(t, 10)
  <2> DEFINE p == <<"-">>
             u == p \o t
  <2>1. u[1] = "-"
    BY <1>2
  <2> HIDE DEF p
  <2>2. p \in Seq(Characters) /\ Len(p) = 1
    BY <1>3 DEF p
  <2>3. /\ u \in Seq(Characters) /\ Len(u) = 1 + k /\ SubSeq(u, 1, 1) = p
        /\ SubSeq(u, 2, Len(u)) = t
    <3>1. Joins(u, p, t, Characters)
      BY <1>2, <2>2, Parts
    <3> HIDE DEF u
    <3>2. 1 + 1 = 2
      OBVIOUS
    <3> QED BY <1>2, <2>2, <3>1, <3>2, Zenon DEF Joins
  <2> HIDE DEF u
  <2>4. ~ IsPrefix(<<"0", "x">>, u)
    <3>1. Len(u) >= 1 /\ u[1] # "0"
      BY <1>2, <2>1, <2>3
    <3> QED BY <2>3, <3>1, NoPrefix
  <2>5. IsPrefix(p, u)
    BY <1>2, <2>2, <2>3 DEF IsPrefix
  <2>6. NumberRead(u) = -ValueIn(SubSeq(u, 2, Len(u)), 10)
    BY <2>4, <2>5 DEF NumberRead, p
  <2> QED BY <2>3, <2>6 DEF u, p
<1>7. NumberRead(<<"0", "x">> \o t) = ValueIn(t, NibbleValues)
  <2> DEFINE p == <<"0", "x">>
             u == p \o t
  <2> HIDE DEF p
  <2>1. p \in Seq(Characters) /\ Len(p) = 2
    BY <1>4 DEF p
  <2>2. /\ Len(u) = 2 + k /\ SubSeq(u, 1, 2) = p
        /\ SubSeq(u, 3, Len(u)) = t
    <3>1. Joins(u, p, t, Characters)
      BY <1>2, <2>1, Parts
    <3> HIDE DEF u
    <3>2. 2 + 1 = 3
      OBVIOUS
    <3> QED BY <1>2, <2>1, <3>1, <3>2, Zenon DEF Joins
  <2> HIDE DEF u
  <2>3. IsPrefix(p, u)
    BY <1>2, <2>1, <2>2 DEF IsPrefix
  <2>4. NumberRead(u) = ValueIn(SubSeq(u, 3, Len(u)), NibbleValues)
    BY <2>3 DEF NumberRead, p
  <2> QED BY <2>2, <2>4 DEF u, p
<1> QED BY <1>5, <1>6, <1>7

\* A byte has two nibbles.
LEMMA NibblesAre ==
  NibbleValues \in {2, 4, 8, 16} /\ 2^ByteBits = NibbleValues * NibbleValues
<1>1. CASE ByteBits = 2
  <2>1. ByteBits \div 2 = 1
    BY <1>1
  <2> QED BY <1>1, <2>1, 2^1 = 2, 2^2 = 4 DEF NibbleValues
<1>2. CASE ByteBits = 4
  <2>1. ByteBits \div 2 = 2
    BY <1>2
  <2> QED BY <1>2, <2>1, 2^2 = 4, 2^4 = 16 DEF NibbleValues
<1>3. CASE ByteBits = 6
  <2>1. ByteBits \div 2 = 3
    BY <1>3
  <2> QED BY <1>3, <2>1, 2^3 = 8, 2^6 = 64 DEF NibbleValues
<1>4. CASE ByteBits = 8
  <2>1. ByteBits \div 2 = 4
    BY <1>4
  <2> QED BY <1>4, <2>1, 2^4 = 16, 2^8 = 256 DEF NibbleValues
<1> QED BY <1>1, <1>2, <1>3, <1>4, UnityPrintAssumption

\* A number of so many bytes is printed in hex with the digits that stand for it.
LEMMA HexReadsBack ==
  ASSUME NEW size \in 1 .. 8, NEW n \in 0 .. Values[size] - 1
  PROVE  /\ \E k \in Nat \ {0} : UnityPrintNumberHex(n, size * 2) \in [1 .. k -> AllDigits]
         /\ ValueIn(UnityPrintNumberHex(n, size * 2), NibbleValues) = n
<1> DEFINE base == NibbleValues
           k == 2 * size
<1>1. /\ base \in {2, 4, 8, 16} /\ base \in 2 .. 16
      /\ \A i \in 0 .. 8 : Values[i] \in Nat \ {0}
      /\ \A i \in 1 .. 8 : Values[i] = Values[i - 1] * (base * base)
      /\ Values[0] = 1
  BY NibblesAre, ValuesAre
<1>2. n \in Nat /\ k \in Nat \ {0}
  <2>1. Values[size] \in Nat
    BY <1>1
  <2> QED BY <2>1
<1>3. UnityPrintNumberHex(n, size * 2) = InBase(n, base, k)
  <2>1. size * 2 = k /\ ~ (k > 16)
    OBVIOUS
  <2> HIDE DEF k
  <2> QED BY <2>1 DEF UnityPrintNumberHex, UNITY_MAX_NIBBLES
<1>4. PICK g : IsDivided(g, n, base, k)
  <2> HIDE DEF base, k
  <2> QED BY <1>1, <1>2, DividedExists
<1>5. /\ \A j \in 0 .. k - 1 : g[j] \in Nat
      /\ \A j \in 1 .. k - 1 : g[j] = g[j - 1] \div base
      /\ g[0] = n
  BY <1>4 DEF IsDivided
<1> HIDE DEF base
<1>6. ASSUME NEW x \in Nat, NEW p \in Nat, x < p * base PROVE x \div base < p
  BY <1>1, <1>6
<1> DEFINE S == {i \in Nat : i < size => g[2 * i] < Values[size - i]}
<1>7. 0 \in S
  BY <1>1, <1>5
<1>8. ASSUME NEW i \in Nat, i \in S PROVE i + 1 \in S
  <2> SUFFICES ASSUME i + 1 < size PROVE g[2 * (i + 1)] < Values[size - (i + 1)]
    OBVIOUS
  <2> DEFINE v == Values[size - (i + 1)]
  <2>1. /\ 2 * i \in 0 .. k - 1 /\ 2 * i + 1 \in 1 .. k - 1 /\ 2 * i + 1 - 1 = 2 * i
        /\ 2 * i + 1 \in 0 .. k - 1
        /\ 2 * (i + 1) \in 1 .. k - 1 /\ 2 * (i + 1) - 1 = 2 * i + 1
        /\ size - i \in 1 .. 8 /\ size - i - 1 = size - (i + 1)
        /\ size - (i + 1) \in 0 .. 8
    OBVIOUS
  <2>2. g[2 * i + 1] = g[2 * i] \div base /\ g[2 * i] \in Nat /\ g[2 * i + 1] \in Nat
    BY <1>5, <2>1
  <2>3. g[2 * (i + 1)] = g[2 * i + 1] \div base
    BY <1>5, <2>1
  <2>4. v \in Nat /\ Values[size - i] = v * (base * base)
    BY <1>1, <2>1
  <2>5. g[2 * i] < v * (base * base)
    BY <1>8, <2>4
  <2> HIDE DEF v
  <2>6. v * base \in Nat /\ v * (base * base) = (v * base) * base
    BY <1>1, <2>4
  <2>7. g[2 * i + 1] < v * base
    BY <1>6, <2>2, <2>5, <2>6
  <2>8. g[2 * (i + 1)] < v
    BY <1>6, <2>2, <2>3, <2>4, <2>7
  <2> QED BY <2>8 DEF v
<1>9. Nat \subseteq S
  <2> HIDE DEF S
  <2> QED BY <1>7, <1>8, SetInduction
<1>10. g[k - 1] < base
  <2>1. /\ size - 1 \in Nat /\ size - 1 < size /\ size - (size - 1) = 1
        /\ k - 1 \in 1 .. k - 1 /\ k - 1 - 1 = 2 * (size - 1) /\ k - 1 - 1 \in 0 .. k - 1
    OBVIOUS
  <2>2. size - 1 \in S
    BY <1>9, <2>1
  <2>3. g[k - 1 - 1] < Values[1] /\ g[k - 1] = g[k - 1 - 1] \div base /\ g[k - 1 - 1] \in Nat
    BY <1>5, <2>1, <2>2
  <2>4. Values[1] = base * base
    BY <1>1
  <2> DEFINE x == g[k - 1 - 1]
  <2> HIDE DEF k, x
  <2>5. x \div base < base
    <3>1. base \in Nat /\ x \in Nat /\ x < base * base
      BY <1>1, <2>3, <2>4 DEF x
    <3> QED BY <1>6, <3>1, Zenon
  <2> QED BY <2>3, <2>5 DEF x
<1>11. /\ InBase(n, base, k) \in [1 .. k -> AllDigits]
       /\ ValueIn(InBase(n, base, k), base) = n
  <2> HIDE DEF k
  <2> QED BY <1>1, <1>2, <1>4, <1>10, DigitsReadBack DEF AllDigits
<1> HIDE DEF k
<1> QED BY <1>2, <1>3, <1>11 DEF base

\* What PrintByStyle writes of a number of the style's type.
LEMMA PrintedReadsBack ==
  ASSUME NEW style \in Style, style.range # "CHAR", NEW v,
         style.range = "INT" => Fits(v, 8),
         style.range # "INT" => v \in 0 .. Values[8] - 1,
         style.range = "HEX" => v \in 0 .. Values[style.size] - 1
  PROVE  NumberRead(PrintByStyle(v, style)) = v
<1>1. ASSUME NEW n \in Nat
      PROVE  /\ NumberRead(UnityPrintNumberUnsigned(n)) = n
             /\ NumberRead(<<"-">> \o UnityPrintNumberUnsigned(n)) = -n
  <2> DEFINE t == UnityPrintNumberUnsigned(n)
  <2>1. PICK k \in Nat \ {0} : t \in [1 .. k -> AllDigits]
    BY DecimalReadsBack DEF AllDigits
  <2>2. ValueIn(t, 10) = n
    BY DecimalReadsBack
  <2> HIDE DEF t
  <2>3. NumberRead(t) = n /\ NumberRead(<<"-">> \o t) = -n
    BY <2>1, <2>2, FormsRead
  <2> QED BY <2>3 DEF t
<1>2. Values[8] \in Nat \ {0}
  BY ValuesAre
<1>7. ASSUME NEW n \in Int
      PROVE  /\ n \in 0 .. Values[8] - 1 => Unsigned(n, 8) = n
             /\ -Values[8] <= n /\ n < 0 => Unsigned(n, 8) = n + Values[8]
  <2>1. 8 \in 0 .. 8
    OBVIOUS
  <2> QED BY <1>2, <2>1, UnsignedIs
<1>3. CASE style.range = "INT"
  <2>1. PrintByStyle(v, style) = UnityPrintNumber(v)
    BY <1>3 DEF PrintByStyle, IsInt, UnityPrintIntNumberByStyle
  <2>2. v \in Int /\ -Values[8] <= v /\ v < Values[8]
    BY <1>2, <1>3 DEF Fits
  <2>3. CASE v < 0
    <3>1. Unsigned(v, 8) = v + Values[8]
      BY <2>2, <2>3, <1>7
    <3>2. Values[8] - 1 - Unsigned(v, 8) + 1 = -v
      BY <1>2, <2>2, <3>1
    <3>3. -v \in 0 .. Values[8] - 1 /\ -v \in Nat
      <4>1. v # -Values[8]
        BY <1>2, <1>3 DEF Fits
      <4> QED BY <1>2, <2>2, <2>3, <4>1
    <3>4. Unsigned(-v, 8) = -v
      BY <3>3, <1>7
    <3>5. UnityPrintNumber(v) = <<"-">> \o UnityPrintNumberUnsigned(-v)
      BY <2>3, <3>2, <3>4 DEF UnityPrintNumber
    <3>6. NumberRead(<<"-">> \o UnityPrintNumberUnsigned(-v)) = -(-v)
      BY <1>1, <3>3
    <3> QED BY <2>1, <2>2, <3>5, <3>6
  <2>4. CASE ~ (v < 0)
    <3>1. v \in Nat /\ UnityPrintNumber(v) = UnityPrintNumberUnsigned(v)
      BY <2>2, <2>4 DEF UnityPrintNumber
    <3> QED BY <1>1, <2>1, <3>1
  <2> QED BY <2>3, <2>4
<1>4. CASE style.range = "UINT"
  <2>1. PrintByStyle(v, style) = UnityPrintNumberUnsigned(v)
    BY <1>4 DEF PrintByStyle, IsInt, UnityPrintUintNumberByStyle
  <2>2. v \in Nat
    BY <1>2, <1>4
  <2> QED BY <1>1, <2>1, <2>2
<1>5. CASE style.range = "HEX"
  <2> DEFINE t == UnityPrintNumberHex(v, style.size * 2)
  <2>1. PrintByStyle(v, style) = <<"0", "x">> \o t
    BY <1>5 DEF PrintByStyle, IsInt, UnityPrintUintNumberByStyle
  <2>2. style.size \in 1 .. 8 /\ v \in 0 .. Values[style.size] - 1
    BY <1>5 DEF Style
  <2>3. PICK k \in Nat \ {0} : t \in [1 .. k -> AllDigits]
    BY <2>2, HexReadsBack
  <2>4. ValueIn(t, NibbleValues) = v
    BY <2>2, HexReadsBack
  <2> HIDE DEF t
  <2> QED BY <2>1, <2>3, <2>4, FormsRead
<1>6. style.range \in {"INT", "UINT", "HEX"}
  BY DEF Style
<1> QED BY <1>3, <1>4, <1>5, <1>6

\* The bits have the values 1, 2, 4, ...
LEMMA CurrentBitIs ==
  /\ Width(8) \in Nat /\ CurrentBit[0] = 1
  /\ \A b \in 1 .. Width(8) : CurrentBit[b] = CurrentBit[b - 1] * 2
  /\ \A b \in 0 .. Width(8) : CurrentBit[b] \in Nat \ {0}
<1> DEFINE W == Width(8)
           Solves(f) == f = [b \in 0 .. W |-> IF b = 0 THEN 1 ELSE f[b - 1] * 2]
           V == Nat \ {0}
           twice == [x \in V |-> x * 2]
           step == [b \in 1 .. W |-> twice]
<1>1. W \in Nat
  BY UnityPrintAssumption DEF Width
<1> HIDE DEF W
<1>2. step \in Steps(W, V) /\ 1 \in V
  <2>1. twice \in [V -> V]
    OBVIOUS
  <2> QED BY <2>1 DEF Steps
<1>3. \A b \in 1 .. W, x \in V : step[b][x] = x * 2
  OBVIOUS
<1> HIDE DEF step
<1>4. PICK f : IsRecursion(f, 1, step, W, V)
  <2> HIDE DEF V
  <2> QED BY <1>1, <1>2, RecursionExists
<1>5. Solves(f)
  <2>1. ASSUME NEW b \in 0 .. W PROVE f[b] = IF b = 0 THEN 1 ELSE f[b - 1] * 2
    <3>1. CASE b = 0
      BY <1>4, <3>1 DEF IsRecursion
    <3>2. CASE b # 0
      <4>1. b \in 1 .. W /\ b - 1 \in 0 .. W
        BY <1>1, <3>2
      <4>2. f[b] = step[b][f[b - 1]] /\ f[b - 1] \in V
        BY <1>4, <4>1 DEF IsRecursion
      <4> QED BY <1>3, <3>2, <4>1, <4>2
    <3> QED BY <3>1, <3>2
  <2>2. f = [b \in 0 .. W |-> f[b]]
    BY <1>4 DEF IsRecursion
  <2> QED BY <2>1, <2>2
<1>6. Solves(CurrentBit)
  <2>1. CurrentBit = CHOOSE g : Solves(g)
    BY DEF CurrentBit, W
  <2> HIDE DEF Solves
  <2> QED BY <1>5, <2>1
<1>7. CurrentBit[0] = 1 /\ \A b \in 1 .. W : CurrentBit[b] = CurrentBit[b - 1] * 2
  BY <1>1, <1>6
<1> DEFINE S == {b \in Nat : b <= W => CurrentBit[b] \in Nat \ {0}}
<1>8. 0 \in S
  BY <1>7
<1>9. ASSUME NEW b \in Nat, b \in S PROVE b + 1 \in S
  <2> SUFFICES ASSUME b + 1 <= W PROVE CurrentBit[b + 1] \in Nat \ {0}
    OBVIOUS
  <2>1. b + 1 \in 1 .. W /\ b + 1 - 1 = b /\ CurrentBit[b] \in Nat \ {0}
    BY <1>1, <1>9
  <2> QED BY <1>7, <2>1
<1>10. Nat \subseteq S
  <2> HIDE DEF S
  <2> QED BY <1>8, <1>9, SetInduction
<1> QED BY <1>1, <1>7, <1>10 DEF W

\* The bits of all bytes make up all the values.
LEMMA BitsOfBytes == Values[8] = CurrentBit[Width(8)]
<1> DEFINE W == Width(8)
           C(b) == CurrentBit[b]
           S == {i \in Nat : i <= 8 => Values[i] = C(i * ByteBits)}
<1>1. W = 8 * ByteBits /\ ByteBits \in {2, 4, 6, 8}
  BY UnityPrintAssumption DEF Width
<1> HIDE DEF W
<1>2. C(0) = 1 /\ \A b \in 1 .. W : C(b) = C(b - 1) * 2 /\ C(b) \in Nat /\ C(b - 1) \in Nat
  <2>1. \A b \in 1 .. W : b - 1 \in 0 .. W /\ b \in 0 .. W
    BY <1>1
  <2> QED BY <2>1, CurrentBitIs DEF W
<1> HIDE DEF C
<1>3. ASSUME NEW b \in Nat, b + ByteBits <= W
      PROVE  C(b + ByteBits) = C(b) * 2^ByteBits
  <2>1. ASSUME NEW i \in Nat, b + i + 1 <= W
        PROVE  C(b + i + 1) = C(b + i) * 2 /\ C(b + i) \in Nat
    <3>1. b + i + 1 \in 1 .. W /\ b + i + 1 - 1 = b + i
      BY <1>1, <2>1
    <3> QED BY <1>2, <3>1
  <2>2. ASSUME NEW i \in Nat, NEW m \in Nat, b + i + 2 <= W, C(b + i) = C(b) * m
        PROVE  C(b + i + 2) = C(b) * (4 * m)
    <3>1. C(b + i + 1) = C(b + i) * 2 /\ C(b + i) \in Nat
      <4>1. b + i + 1 <= W
        BY <1>1, <2>2
      <4> QED BY <2>1, <4>1, Zenon
    <3>2. C(b + i + 1 + 1) = C(b + i + 1) * 2 /\ b + i + 1 + 1 = b + i + 2
      <4>1. i + 1 \in Nat /\ b + (i + 1) + 1 <= W /\ b + (i + 1) = b + i + 1
            /\ b + i + 1 + 1 = b + i + 2
        BY <1>1, <2>2
      <4>2. C(b + (i + 1) + 1) = C(b + (i + 1)) * 2
        BY <2>1, <4>1, Zenon
      <4> QED BY <4>1, <4>2, Zenon
    <3>3. C(b) \in Nat
      <4>1. b + 0 = b /\ b + 0 + 1 <= W
        BY <1>1, <1>3
      <4> QED BY <2>1, <4>1
    <3> QED BY <2>2, <3>1, <3>2, <3>3
  <2>3. C(b + 0) = C(b) * 1
    <3>1. b + 0 = b /\ b + 0 + 1 <= W
      BY <1>1, <1>3
    <3>2. C(b) \in Nat
      BY <2>1, <3>1
    <3> QED BY <3>1, <3>2
  <2>4. C(b + 2) = C(b) * 4
    <3>1. b + 0 + 2 <= W /\ b + 0 + 2 = b + 2 /\ 4 * 1 = 4
      BY <1>1, <1>3
    <3> QED BY <2>2, <2>3, <3>1
  <2>5. ByteBits >= 4 => C(b + 4) = C(b) * 16
    <3>1. ByteBits >= 4 => b + 2 + 2 <= W
      BY <1>1, <1>3
    <3>2. b + 2 + 2 = b + 4 /\ 4 * 4 = 16
      OBVIOUS
    <3> QED BY <2>2, <2>4, <3>1, <3>2
  <2>6. ByteBits >= 6 => C(b + 6) = C(b) * 64
    <3>1. ByteBits >= 6 => b + 4 + 2 <= W /\ ByteBits >= 4
      BY <1>1, <1>3
    <3>2. b + 4 + 2 = b + 6 /\ 4 * 16 = 64
      OBVIOUS
    <3> QED BY <2>2, <2>5, <3>1, <3>2
  <2>7. ByteBits >= 8 => C(b + 8) = C(b) * 256
    <3>1. ByteBits >= 8 => b + 6 + 2 <= W /\ ByteBits >= 6
      BY <1>1, <1>3
    <3>2. b + 6 + 2 = b + 8 /\ 4 * 64 = 256
      OBVIOUS
    <3> QED BY <2>2, <2>6, <3>1, <3>2
  <2>8. CASE ByteBits = 2
    BY <2>4, <2>8, 2^2 = 4
  <2>9. CASE ByteBits = 4
    BY <2>5, <2>9, 2^4 = 16
  <2>10. CASE ByteBits = 6
    BY <2>6, <2>10, 2^6 = 64
  <2>11. CASE ByteBits = 8
    BY <2>7, <2>11, 2^8 = 256
  <2> QED BY <1>1, <2>8, <2>9, <2>10, <2>11
<1>4. 0 \in S
  <2>1. 0 * ByteBits = 0
    BY <1>1
  <2> QED BY <1>2, <2>1, ValuesAre
<1>5. ASSUME NEW i \in Nat, i \in S PROVE i + 1 \in S
  <2> SUFFICES ASSUME i + 1 <= 8 PROVE Values[i + 1] = C((i + 1) * ByteBits)
    OBVIOUS
  <2>1. /\ i * ByteBits \in Nat /\ i * ByteBits + ByteBits = (i + 1) * ByteBits
        /\ i * ByteBits + ByteBits <= W
    BY <1>1
  <2>2. C((i + 1) * ByteBits) = C(i * ByteBits) * 2^ByteBits
    BY <1>3, <2>1
  <2>3. i + 1 \in 1 .. 8 /\ i + 1 - 1 = i
    OBVIOUS
  <2>4. Values[i + 1] = Values[i] * 2^ByteBits
    BY <2>3, ValuesAre
  <2> QED BY <1>5, <2>2, <2>4
<1>6. Nat \subseteq S
  <2> HIDE DEF S
  <2> QED BY <1>4, <1>5, SetInduction
<1>7. Values[8] = C(8 * ByteBits)
  BY <1>6
<1> QED BY <1>1, <1>7 DEF C, W

\* A bit divides the number of all values an even number of times.
LEMMA BitDivides ==
  ASSUME NEW b \in 0 .. Width(8) - 1
  PROVE  \E h \in Nat : Values[8] = CurrentBit[b] * (2 * h)
<1> DEFINE W == Width(8)
           S == {i \in Nat : i <= W => \E h \in Nat : Values[8] = CurrentBit[W - i] * h}
<1>1. /\ W \in Nat
      /\ \A a \in 1 .. W : CurrentBit[a] = CurrentBit[a - 1] * 2
      /\ \A a \in 0 .. W : CurrentBit[a] \in Nat \ {0}
  BY CurrentBitIs
<1>2. Values[8] = CurrentBit[W]
  BY BitsOfBytes
<1> HIDE DEF W
<1>3. 0 \in S
  <2>1. CurrentBit[W] = CurrentBit[W] * 1 /\ W - 0 = W
    BY <1>1
  <2> QED BY <1>2, <2>1
<1>4. ASSUME NEW i \in Nat, i \in S PROVE i + 1 \in S
  <2> SUFFICES ASSUME i + 1 <= W
               PROVE  \E h \in Nat : Values[8] = CurrentBit[W - (i + 1)] * h
    OBVIOUS
  <2>1. PICK h \in Nat : Values[8] = CurrentBit[W - i] * h
    BY <1>1, <1>4
  <2>2. W - i \in 1 .. W /\ W - i - 1 = W - (i + 1) /\ W - (i + 1) \in 0 .. W
    BY <1>1
  <2>3. CurrentBit[W - i] = CurrentBit[W - (i + 1)] * 2 /\ CurrentBit[W - (i + 1)] \in Nat
    BY <1>1, <2>2
  <2>4. Values[8] = CurrentBit[W - (i + 1)] * (2 * h) /\ 2 * h \in Nat
    BY <2>1, <2>3
  <2> QED BY <2>4
<1>5. Nat \subseteq S
  <2> HIDE DEF S
  <2> QED BY <1>3, <1>4, SetInduction
<1> DEFINE i == W - (b + 1)
<1>6. i \in Nat /\ i <= W /\ W - i = b + 1 /\ b + 1 \in 1 .. W /\ b + 1 - 1 = b /\ b \in 0 .. W
  BY <1>1 DEF W
<1>7. PICK h \in Nat : Values[8] = CurrentBit[b + 1] * h
  <2>1. i \in S
    BY <1>5, <1>6
  <2> HIDE DEF i
  <2> QED BY <1>6, <2>1
<1>8. CurrentBit[b + 1] = CurrentBit[b] * 2 /\ CurrentBit[b] \in Nat
  BY <1>1, <1>6
<1>9. Values[8] = CurrentBit[b] * (2 * h)
  BY <1>7, <1>8
<1> QED BY <1>9

\* Bits are 0 or 1, and the conversion to UNITY_INT keeps them.
LEMMA BitsAre ==
  ASSUME NEW n \in Int, NEW b \in 0 .. Width(8) - 1
  PROVE  Bit(n, b) \in {0, 1} /\ Bit(Signed(n, 8), b) = Bit(n, b)
<1> DEFINE d == CurrentBit[b]
           p == Values[8]
           q == n \div d
           r == n % d
           m == Signed(n, 8)
<1>1. d \in Nat \ {0} /\ p \in Nat \ {0}
  <2>1. b \in 0 .. Width(8)
    BY CurrentBitIs
  <2> QED BY <2>1, CurrentBitIs, ValuesAre
<1>2. PICK h \in Nat : p = d * (2 * h)
  BY BitDivides
<1>3. \E t \in Int : m = n + t * p
  <2> HIDE DEF p
  <2>1. n % p = n - (n \div p) * p /\ n \div p \in Int /\ n % p \in Int
    BY <1>1
  <2>2. m = n % p \/ m = (n % p) - p
    BY DEF Signed, Unsigned, p
  <2>3. CASE m = n % p
    <3>1. -(n \div p) \in Int /\ m = n + (-(n \div p)) * p
      BY <1>1, <2>1, <2>3
    <3> QED BY <3>1
  <2>4. CASE m = (n % p) - p
    <3>1. -(n \div p) - 1 \in Int /\ m = n + (-(n \div p) - 1) * p
      BY <1>1, <2>1, <2>4
    <3> QED BY <3>1
  <2> QED BY <2>2, <2>3, <2>4
<1>4. PICK t \in Int : m = n + t * p
  BY <1>3
<1> HIDE DEF d, p
<1>5. q \in Int /\ r \in 0 .. d - 1 /\ n = d * q + r
  BY <1>1
<1> DEFINE u == q + 2 * (t * h)
<1>6. u \in Int /\ m = d * u + r
  <2> DEFINE s == 2 * (t * h)
  <2>1. t * h \in Int /\ s \in Int
    BY <1>2
  <2>2. t * p = d * s
    <3>1. t * (2 * h) = s
      OBVIOUS
    <3>2. t * (d * (2 * h)) = d * (t * (2 * h))
      <4> DEFINE x == 2 * h
      <4>1. x \in Int
        OBVIOUS
      <4> HIDE DEF x
      <4>2. t * (d * x) = d * (t * x)
        BY <1>1, <4>1
      <4> QED BY <4>2 DEF x
    <3> HIDE DEF s
    <3> QED BY <1>2, <3>1, <3>2
  <2> HIDE DEF s, q, r, m
  <2>3. m = (d * q + r) + d * s
    BY <1>4, <1>5, <2>2
  <2>4. d * (q + s) = d * q + d * s
    BY <1>1, <1>5, <2>1
  <2>5. d * q \in Int /\ d * s \in Int /\ r \in Int
    BY <1>1, <1>5, <2>1
  <2>6. q + s \in Int /\ m = d * (q + s) + r
    BY <1>5, <2>1, <2>3, <2>4, <2>5
  <2> QED BY <2>6 DEF s
<1> HIDE DEF q, r, m
<1>7. ASSUME NEW v \in Int, m = d * v + r PROVE m \div d = v
  BY <1>1, <1>5, <1>7
<1>8. m \div d = u
  <2> HIDE DEF u
  <2> QED BY <1>6, <1>7
<1>9. u % 2 = q % 2 /\ q % 2 \in {0, 1}
  <2>1. t * h \in Int
    BY <1>2
  <2> QED BY <1>5, <2>1
<1>10. Bit(n, b) = q % 2 /\ Bit(Signed(n, 8), b) = (m \div d) % 2
  BY DEF Bit, d, q, m
<1> QED BY <1>8, <1>9, <1>10

\* Masked numbers that differ in a bit that is printed have different texts.
LEMMA MasksDiffer ==
  ASSUME NEW mask \in Int, NEW e \in Int, NEW a \in Int,
         NEW b \in 0 .. UNITY_INT_WIDTH - 1,
         Bit(mask, b) = 1, Bit(e, b) # Bit(a, b)
  PROVE  UnityPrintMask(Signed(mask, 8), Signed(e, 8))
           # UnityPrintMask(Signed(mask, 8), Signed(a, 8))
<1> DEFINE i == UNITY_INT_WIDTH - b
           m == Signed(mask, 8)
           Text(n) == UnityPrintMask(m, n)
<1>1. i \in 1 .. UNITY_INT_WIDTH /\ UNITY_INT_WIDTH - i = b /\ b \in 0 .. Width(8) - 1
  BY UnityPrintAssumption DEF UNITY_INT_WIDTH, Width
<1>2. Bit(m, b) = 1
  BY <1>1, BitsAre
<1>3. \A n : Text(n)[i] = Digits[Bit(n, b) + 1]
  <2> HIDE DEF i
  <2>1. \A n : Text(n)[i] = IF Bit(m, UNITY_INT_WIDTH - i) = 0 THEN "X"
                            ELSE Digits[Bit(n, UNITY_INT_WIDTH - i) + 1]
    <3> HIDE DEF m
    <3> QED BY <1>1 DEF UnityPrintMask
  <2> QED BY <1>1, <1>2, <2>1
<1>4. /\ Bit(Signed(e, 8), b) = Bit(e, b) /\ Bit(Signed(a, 8), b) = Bit(a, b)
      /\ Bit(e, b) \in {0, 1} /\ Bit(a, b) \in {0, 1}
  BY <1>1, BitsAre
<1>5. Digits[0 + 1] # Digits[1 + 1]
  BY DEF Digits
<1> HIDE DEF Text, i, m
<1>6. Text(Signed(e, 8))[i] # Text(Signed(a, 8))[i]
  <2>1. \/ Bit(e, b) = 0 /\ Bit(a, b) = 1
        \/ Bit(e, b) = 1 /\ Bit(a, b) = 0
    BY <1>4
  <2> QED BY <1>3, <1>4, <1>5, <2>1
<1> QED BY <1>6 DEF Text, m

\* The texts of the values of a call on two numbers read as these.
ValuesRead(style, e, a) ==
  /\ NumberRead(PrintByStyle(e, style)) = e
  /\ NumberRead(PrintByStyle(a, style)) = a

\* That is so for the arguments that the macros make, in every style and width.
LEMMA ArgumentsRead ==
  ASSUME NEW style \in Style, style.range # "CHAR", NEW size \in CastSizes(style),
         NEW v \in Int, NEW w \in Int
  PROVE  ValuesRead(style, Cast(style, size, v), Cast(style, size, w))
<1>1. size \in 1 .. 8 /\ size \in 0 .. 8
  BY DEF CastSizes, Style
<1>2. /\ style.range \in {"INT", "UINT", "HEX"}
      /\ style.range = "HEX" => style.size = size
  BY DEF CastSizes, Style
<1>3. IsInt(style) <=> style.range = "INT"
  BY <1>2 DEF IsInt
<1>4. ASSUME NEW n \in Int
      PROVE  NumberRead(PrintByStyle(Cast(style, size, n), style)) = Cast(style, size, n)
  <2> DEFINE c == Cast(style, size, n)
  <2>1. /\ style.range = "INT" => Fits(c, 8)
        /\ style.range # "INT" => c \in 0 .. Values[8] - 1
    BY <1>1, <1>3, CastIs
  <2>2. style.range = "HEX" => c \in 0 .. Values[style.size] - 1
    <3>1. Unsigned(n, size) \in 0 .. Values[size] - 1
      BY <1>1, UnsignedIs
    <3> QED BY <1>2, <1>3, <3>1 DEF Cast
  <2> HIDE DEF c
  <2>3. NumberRead(PrintByStyle(c, style)) = c
    BY <2>1, <2>2, PrintedReadsBack
  <2> QED BY <2>3 DEF c
<1> QED BY <1>4 DEF ValuesRead

\* A failure report of an assertion on two numbers reads as these.
LEMMA ScalarReport == Scalar => ReportsReadBack'
<1> SUFFICES ASSUME Scalar PROVE ReportsReadBack'
  OBVIOUS
<1> DEFINE Read(o, e, a) ==
             <<NumberRead(o.expected), NumberRead(o.was)>> = <<e, a>>
           Called(style, e, a) ==
             \/ Calls(TwoNumbers("Equal", style, e, a, {}, 0),
                      UnityAssertEqualNumber(e, a, style))
             \/ \E compare \in Comparison :
                  Calls(TwoNumbers("Compare", style, e, a, compare, 0),
                        UnityAssertGreaterOrLessOrEqualNumber(e, a, compare, style))
             \/ \E delta \in Deltas, s \in Nat :
                  Calls(TwoNumbers("Within", style, e, a, {}, Unsigned(delta, s)),
                        UnityAssertNumbersWithin(Unsigned(delta, s), e, a, style))
<1>1. \E style \in Style : \E e, a :
        /\ style.range # "CHAR" => ValuesRead(style, e, a)
        /\ Called(style, e, a)
  <2>1. PICK style \in Style, v \in Numbers, w \in Numbers : \E size \in CastSizes(style) :
          LET e == Cast(style, size, v)
              a == Cast(style, size, w)
          IN  \/ Calls(TwoNumbers("Equal", style, e, a, {}, 0),
                       UnityAssertEqualNumber(e, a, style))
              \/ \E compare \in Comparison :
                   Calls(TwoNumbers("Compare", style, e, a, compare, 0),
                         UnityAssertGreaterOrLessOrEqualNumber(e, a, compare, style))
              \/ \E delta \in Deltas :
                   LET d == Unsigned(delta, size)
                   IN  Calls(TwoNumbers("Within", style, e, a, {}, d),
                             UnityAssertNumbersWithin(d, e, a, style))
    BY Zenon DEF Scalar
  <2>2. CastSizes(style) \subseteq Nat
    BY DEF CastSizes, Style
  <2>3. PICK size \in CastSizes(style) :
          Called(style, Cast(style, size, v), Cast(style, size, w))
    BY <2>1, <2>2, Zenon
  <2> HIDE DEF Called
  <2>4. v \in Int /\ w \in Int
    BY UnityAssertAssumption
  <2>5. style.range # "CHAR" => ValuesRead(style, Cast(style, size, v), Cast(style, size, w))
    BY <2>4, ArgumentsRead
  <2> QED BY <2>3, <2>5
<1> HIDE DEF Called
<1>2. PICK style \in Style : \E e, a :
        /\ style.range # "CHAR" => ValuesRead(style, e, a)
        /\ Called(style, e, a)
  BY <1>1
<1>3. PICK e, a :
        /\ style.range # "CHAR" => ValuesRead(style, e, a)
        /\ Called(style, e, a)
  BY <1>2
<1> USE DEF Called
<1>4. \A x, y : Report(x, y).expected = x /\ Report(x, y).was = y
  BY DEF Report, ReportAt, Outcome
<1>5. ~ Pass.failed
  BY DEF Pass, Outcome
<1>6. CASE style.range = "CHAR"
  <2>1. call'.style = style /\ call'.assertion \in {"Equal", "Compare", "Within"}
    <3>1. \E kind \in {"Equal", "Compare", "Within"} : \E compare, delta :
            call' = TwoNumbers(kind, style, e, a, compare, delta)
      BY <1>3, Zenon DEF Calls
    <3> QED BY <3>1 DEF TwoNumbers
  <2> QED BY <1>6, <2>1 DEF ReportsReadBack
<1>7. CASE style.range # "CHAR"
  <2>1. ValuesRead(style, e, a)
    BY <1>7, <1>3
  <2>2. CASE Calls(TwoNumbers("Equal", style, e, a, {}, 0),
                   UnityAssertEqualNumber(e, a, style))
    <3>1. /\ call'.assertion = "Equal" /\ call'.expected = e /\ call'.actual = a
          /\ outcome' = UnityAssertEqualNumber(e, a, style)
      BY <2>2 DEF Calls, TwoNumbers
    <3>2. outcome'.failed =>
            outcome' = Report(PrintByStyle(e, style), PrintByStyle(a, style))
      BY <1>5, <3>1 DEF UnityAssertEqualNumber
    <3>3. outcome'.failed => Read(outcome', e, a)
      BY <1>4, <2>1, <3>2 DEF ValuesRead
    <3> QED BY <3>1, <3>3 DEF ReportsReadBack
  <2>3. ASSUME NEW compare \in Comparison,
               Calls(TwoNumbers("Compare", style, e, a, compare, 0),
                     UnityAssertGreaterOrLessOrEqualNumber(e, a, compare, style))
        PROVE  ReportsReadBack'
    <3>1. /\ call'.assertion = "Compare" /\ call'.expected = e /\ call'.actual = a
          /\ outcome' = UnityAssertGreaterOrLessOrEqualNumber(e, a, compare, style)
      BY <2>3 DEF Calls, TwoNumbers
    <3>2. outcome'.failed =>
            outcome' = Report(PrintByStyle(a, style), PrintByStyle(e, style))
      BY <1>5, <3>1 DEF UnityAssertGreaterOrLessOrEqualNumber
    <3>3. outcome'.failed => Read(outcome', a, e)
      BY <1>4, <2>1, <3>2 DEF ValuesRead
    <3> QED BY <3>1, <3>3 DEF ReportsReadBack
  <2>4. ASSUME NEW delta \in Deltas, NEW s \in Nat,
               Calls(TwoNumbers("Within", style, e, a, {}, Unsigned(delta, s)),
                     UnityAssertNumbersWithin(Unsigned(delta, s), e, a, style))
        PROVE  ReportsReadBack'
    <3>1. /\ call'.assertion = "Within" /\ call'.expected = e /\ call'.actual = a
          /\ outcome' = UnityAssertNumbersWithin(Unsigned(delta, s), e, a, style)
      BY <2>4 DEF Calls, TwoNumbers
    <3>2. outcome'.failed =>
            outcome' = Report(PrintByStyle(e, style), PrintByStyle(a, style))
      BY <1>5, <3>1 DEF UnityAssertNumbersWithin
    <3>3. outcome'.failed => Read(outcome', e, a)
      BY <1>4, <2>1, <3>2 DEF ValuesRead
    <3> QED BY <3>1, <3>3 DEF ReportsReadBack
  <2> QED BY <1>3, <2>2, <2>3, <2>4
<1> QED BY <1>6, <1>7

\* The report of an element of two arrays of signed numbers reads as the numbers
\* that these have there.
LEMMA ArrayReport ==
  ASSUME NEW assertion \in {"EqualIntArray", "ArrayWithin"},
         NEW style \in Style, NEW flags \in Flags, NEW n \in 1 .. MaxLength,
         NEW v \in ArrayPairs(Raw(style.size), Raw(style.size), n, flags),
         NEW m \in {0, n}, NEW delta, style.range = "INT"
  PROVE  LET c == TwoArrays(assertion, style, flags, m, v, delta)
             o == UnityAssertNumbersArray(c)
         IN  o.failed /\ o.why = "values" =>
               /\ NumberRead(o.expected) = Typed(c, ExpectedAt(c, o.element + 1))
               /\ NumberRead(o.was) = Typed(c, ActualAt(c, o.element + 1))
<1> DEFINE c == TwoArrays(assertion, style, flags, m, v, delta)
           o == UnityAssertNumbersArray(c)
<1>1. c.style = style /\ c.num_elements = m
  BY DEF TwoArrays
<1>2. Loaded(c, style, v, m)
  BY ElementsLoaded
<1> HIDE DEF c
<1>3. m \in Nat
  BY UnityAssertAssumption
<1> SUFFICES ASSUME o.failed, o.why = "values"
             PROVE  /\ NumberRead(o.expected) = Typed(c, ExpectedAt(c, o.element + 1))
                    /\ NumberRead(o.was) = Typed(c, ActualAt(c, o.element + 1))
  BY DEF c
<1>4. /\ o = Elements(c) /\ c.expected # NULL /\ c.actual # NULL
  <2>1. ~ Pass.failed /\ \A why : Failure(why).why = why
    BY DEF Pass, Failure, Outcome
  <2> QED BY <2>1 DEF UnityAssertNumbersArray, ArrayPrologue
<1>5. PICK j \in 0 .. m - 1 : o = ElementReport(c, j)
  <2>1. ~ Pass.failed
    BY DEF Pass, Outcome
  <2> QED BY <1>1, <1>3, <1>4, <2>1, ElementsResult
<1> HIDE DEF o
<1> DEFINE x == ExpectedAt(c, j + 1)
           y == ActualAt(c, j + 1)
<1>6. /\ o.element = j
      /\ o.expected = UnityPrintIntNumberByStyle(ExpectVal(c, j), style)
      /\ o.was = UnityPrintIntNumberByStyle(ActualVal(c, j), style)
  BY <1>1, <1>5 DEF ElementReport, ReportAt, Outcome
<1>7. /\ x \in 0 .. Values[style.size] - 1 /\ y \in 0 .. Values[style.size] - 1
      /\ ExpectVal(c, j) = AsCompared(style, x)
      /\ ActualVal(c, j) = AsCompared(style, y)
  <2>1. j + 1 \in 1 .. m /\ j + 1 - 1 = j
    BY <1>3
  <2> QED BY <1>2, <1>4, <2>1 DEF Loaded
<1>8. IsInt(style)
  BY DEF IsInt
<1>9. \A z : Typed(c, z) = Cast(style, style.size, z) /\ AsCompared(style, z) = Typed(c, z)
  BY <1>1, <1>8 DEF Typed, AsCompared
<1> HIDE DEF x, y
<1>10. ASSUME NEW z \in 0 .. Values[style.size] - 1
       PROVE  NumberRead(UnityPrintIntNumberByStyle(AsCompared(style, z), style))
                = Typed(c, z)
  <2>1. style.size \in 1 .. 8 /\ z \in Int
    <3>1. style.size \in 1 .. 8 /\ style.size \in 0 .. 8
      BY DEF Style
    <3> QED BY <3>1, ValuesAre
  <2>2. Fits(Cast(style, style.size, z), 8)
    BY <1>8, <2>1, CastIs
  <2>3. Fits(Typed(c, z), 8)
    BY <1>9, <2>2
  <2>4. NumberRead(PrintByStyle(Typed(c, z), style)) = Typed(c, z)
    BY <2>3, PrintedReadsBack
  <2> QED BY <1>8, <1>9, <2>4 DEF PrintByStyle
<1> QED BY <1>6, <1>7, <1>10 DEF x, y

\* Texts of masked numbers that differ in a bit that is printed differ.
LEMMA BitsReport == Bits => ReportsReadBack'
<1> SUFFICES ASSUME Bits PROVE ReportsReadBack'
  OBVIOUS
<1>1. PICK mask \in Numbers, e \in Numbers, a \in Numbers :
        Calls([assertion |-> "Bits", mask |-> mask, expected |-> e, actual |-> a],
              UnityAssertBits(Signed(mask, 8), Signed(e, 8), Signed(a, 8)))
  BY DEF Bits
<1>2. mask \in Int /\ e \in Int /\ a \in Int
  BY UnityAssertAssumption
<1> DEFINE m == Signed(mask, 8)
           x == Signed(e, 8)
           y == Signed(a, 8)
<1> HIDE DEF m, x, y
<1>3. /\ call' = [assertion |-> "Bits", mask |-> mask, expected |-> e, actual |-> a]
      /\ outcome' = UnityAssertBits(m, x, y)
  BY <1>1 DEF Calls, m, x, y
<1>4. outcome'.failed => /\ outcome'.expected = UnityPrintMask(m, x)
                         /\ outcome'.was = UnityPrintMask(m, y)
  BY <1>3 DEF UnityAssertBits, Report, ReportAt, Pass, Outcome
<1>5. ASSUME NEW b \in 0 .. UNITY_INT_WIDTH - 1, Bit(mask, b) = 1, Bit(e, b) # Bit(a, b)
      PROVE  UnityPrintMask(m, x) # UnityPrintMask(m, y)
  BY <1>2, <1>5, MasksDiffer DEF m, x, y
<1> QED BY <1>3, <1>4, <1>5 DEF ReportsReadBack

\* The failure report of an assertion on numbers shows the numbers compared, for
\* all numbers, styles, widths and arrays: its texts, read back, are these, the
\* least number of the type included, and masked numbers that differ in a bit
\* that is printed look different (UnityPrintNumber, UnityPrintNumberUnsigned,
\* UnityPrintNumberHex, UnityPrintMask).
THEOREM UnityReportsReadBack == Spec => []ReportsReadBack
<1>1. Init => ReportsReadBack
  <2>1. ~ Pass.failed
    BY DEF Pass, Outcome
  <2> QED BY <2>1, Zenon DEF Init, ReportsReadBack
<1>2. ReportsReadBack /\ [Next]_vars => ReportsReadBack'
  <2> SUFFICES ASSUME ReportsReadBack, [Next]_vars PROVE ReportsReadBack'
    OBVIOUS
  <2>1. CASE Scalar
    BY <2>1, ScalarReport
  <2>2. CASE Bits
    BY <2>2, BitsReport
  <2>3. CASE NumbersArray
    <3> DEFINE Called(assertion, style, flags, m, v, delta) ==
                 Calls(TwoArrays(assertion, style, flags, m, v, delta),
                       UnityAssertNumbersArray(
                         TwoArrays(assertion, style, flags, m, v, delta)))
    <3>1. PICK style \in Style, flags \in Flags, n \in 1 .. MaxLength :
            \E v \in ArrayPairs(Raw(style.size), Raw(style.size), n, flags), m \in {0, n} :
              \E assertion \in {"EqualIntArray", "ArrayWithin"} : \E delta :
                Called(assertion, style, flags, m, v, delta)
      <4>1. \E style \in Style, flags \in Flags, n \in 1 .. MaxLength :
            \E v \in ArrayPairs(Raw(style.size), Raw(style.size), n, flags), m \in {0, n} :
              \/ Called("EqualIntArray", style, flags, m, v, 0)
              \/ \E d \in Deltas :
                   Called("ArrayWithin", style, flags, m, v, Unsigned(d, style.size))
        BY <2>3, Zenon DEF NumbersArray
      <4> HIDE DEF Called
      <4> QED BY <4>1
    <3> HIDE DEF Called
    <3>2. PICK v \in ArrayPairs(Raw(style.size), Raw(style.size), n, flags), m \in {0, n} :
            \E assertion \in {"EqualIntArray", "ArrayWithin"} : \E delta :
              Called(assertion, style, flags, m, v, delta)
      BY <3>1
    <3>3. PICK assertion \in {"EqualIntArray", "ArrayWithin"} : \E delta :
            Called(assertion, style, flags, m, v, delta)
      BY <3>2
    <3>4. PICK delta : Called(assertion, style, flags, m, v, delta)
      BY <3>3
    <3>5. /\ call' = TwoArrays(assertion, style, flags, m, v, delta)
          /\ outcome' = UnityAssertNumbersArray(call')
      BY <3>4, Zenon DEF Called, Calls
    <3>6. call'.assertion = assertion /\ call'.style = style
      BY <3>5 DEF TwoArrays
    <3>7. style.range = "INT" /\ outcome'.failed /\ outcome'.why = "values" =>
            /\ NumberRead(outcome'.expected)
                 = Typed(call', ExpectedAt(call', outcome'.element + 1))
            /\ NumberRead(outcome'.was)
                 = Typed(call', ActualAt(call', outcome'.element + 1))
      BY <3>5, ArrayReport
    <3> QED BY <3>6, <3>7, Zenon DEF ReportsReadBack
  <2>4. CASE call'.assertion \notin {"Equal", "Compare", "Within", "Bits",
                                     "EqualIntArray", "ArrayWithin"}
    BY <2>4 DEF ReportsReadBack
  <2>5. CASE UNCHANGED vars
    BY <2>5, Zenon DEF vars, ReportsReadBack
  <2> QED BY <2>1, <2>2, <2>3, <2>4, <2>5, KindOfCall DEF Next
<1> QED BY <1>1, <1>2, PTL DEF Spec

-----------------------------------------------------------------------------
(* Floats that are printed and read back.                                  *)

\* Powers of ten multiply.
LEMMA TensMultiply ==
  \A j \in Nat, k \in Nat : Divisor[j + k] = Divisor[j] * Divisor[k]
<1> SUFFICES ASSUME NEW j \in Nat
             PROVE  \A k \in Nat : Divisor[j + k] = Divisor[j] * Divisor[k]
  OBVIOUS
<1> DEFINE S == {k \in Nat : Divisor[j + k] = Divisor[j] * Divisor[k]}
<1>1. 0 \in S
  <2>1. Divisor[j] * 1 = Divisor[j] /\ j + 0 = j
    BY DivisorIs
  <2> QED BY <2>1, DivisorIs
<1>2. ASSUME NEW k \in Nat, k \in S PROVE k + 1 \in S
  <2> DEFINE a == Divisor[j]
             b == Divisor[k]
             c == Divisor[j + k]
  <2>1. a \in Nat /\ b \in Nat /\ c = a * b
    BY <1>2, DivisorIs
  <2>2. j + k \in Nat /\ j + (k + 1) = (j + k) + 1
    OBVIOUS
  <2>3. Divisor[j + (k + 1)] = c * 10 /\ Divisor[k + 1] = b * 10
    BY <2>2, DivisorIs
  <2> HIDE DEF a, b, c
  <2>4. c * 10 = a * (b * 10)
    BY <2>1
  <2> QED BY <2>3, <2>4 DEF a
<1>3. Nat \subseteq S
  <2> HIDE DEF S
  <2> QED BY <1>1, <1>2, SetInduction
<1> QED BY <1>3

\* They grow.
LEMMA TensGrow ==
  ASSUME NEW j \in Nat, NEW k \in Nat, j <= k
  PROVE  /\ Divisor[j] <= Divisor[k]
         /\ j < k => Divisor[j] * 10 <= Divisor[k] /\ Divisor[j] < Divisor[k]
<1>1. \A i \in Nat : Divisor[i] \in Nat \ {0}
  BY DivisorIs
<1>2. ASSUME NEW a \in Nat \ {0}, NEW b \in Nat \ {0} PROVE a <= a * b
  BY <1>2
<1>3. k - j \in Nat /\ j + (k - j) = k
  OBVIOUS
<1>4. Divisor[k] = Divisor[j] * Divisor[k - j]
  BY <1>3, TensMultiply
<1>5. Divisor[j] <= Divisor[k]
  BY <1>1, <1>2, <1>3, <1>4
<1>6. ASSUME j < k PROVE Divisor[j] * 10 <= Divisor[k] /\ Divisor[j] < Divisor[k]
  <2>1. j + 1 \in Nat /\ k - (j + 1) \in Nat /\ (j + 1) + (k - (j + 1)) = k
    BY <1>6
  <2>2. Divisor[k] = Divisor[j + 1] * Divisor[k - (j + 1)]
    BY <2>1, TensMultiply
  <2>3. Divisor[j + 1] <= Divisor[k]
    BY <1>1, <1>2, <2>1, <2>2
  <2> QED BY <1>1, <2>3, DivisorIs
<1> QED BY <1>5, <1>6

\* 10^k is the divisor of the loop.
LEMMA TensAre == \A k \in 0 .. 10 : 10^k = Divisor[k]
<1> DEFINE D(k) == Divisor[k]
<1>1. D(0) = 1 /\ \A k \in Nat : D(k + 1) = D(k) * 10
  BY DivisorIs
<1> HIDE DEF D
<1>2. D(1) = 10 /\ D(2) = 100 /\ D(3) = 1000
  <2>1. D(0 + 1) = 10
    BY <1>1
  <2>2. D(1 + 1) = 100
    BY <1>1, <2>1
  <2>3. D(2 + 1) = 1000
    BY <1>1, <2>2
  <2> QED BY <2>1, <2>2, <2>3
<1>3. D(4) = 10000 /\ D(5) = 100000 /\ D(6) = 1000000
  <2>1. D(3 + 1) = 10000
    BY <1>1, <1>2
  <2>2. D(4 + 1) = 100000
    BY <1>1, <2>1
  <2>3. D(5 + 1) = 1000000
    BY <1>1, <2>2
  <2> QED BY <2>1, <2>2, <2>3
<1>4. D(7) = 10000000 /\ D(8) = 100000000 /\ D(9) = 1000000000 /\ D(10) = 10000000000
  <2>1. D(6 + 1) = 10000000
    BY <1>1, <1>3
  <2>2. D(7 + 1) = 100000000
    BY <1>1, <2>1
  <2>3. D(8 + 1) = 1000000000
    BY <1>1, <2>2
  <2>4. D(9 + 1) = 10000000000
    BY <1>1, <2>3
  <2> QED BY <2>1, <2>2, <2>3, <2>4
<1>5. /\ 10^0 = 1 /\ 10^1 = 10 /\ 10^2 = 100 /\ 10^3 = 1000 /\ 10^4 = 10000
      /\ 10^5 = 100000 /\ 10^6 = 1000000 /\ 10^7 = 10000000 /\ 10^8 = 100000000
      /\ 10^9 = 1000000000 /\ 10^10 = 10000000000
  OBVIOUS
<1>6. /\ 10^0 = D(0) /\ 10^1 = D(1) /\ 10^2 = D(2) /\ 10^3 = D(3) /\ 10^4 = D(4)
      /\ 10^5 = D(5) /\ 10^6 = D(6) /\ 10^7 = D(7) /\ 10^8 = D(8) /\ 10^9 = D(9)
      /\ 10^10 = D(10)
  BY <1>1, <1>2, <1>3, <1>4, <1>5
<1>7. ASSUME NEW k \in 0 .. 10 PROVE 10^k = D(k)
  <2>1. \/ k = 0 \/ k = 1 \/ k = 2 \/ k = 3 \/ k = 4 \/ k = 5 \/ k = 6 \/ k = 7
        \/ k = 8 \/ k = 9 \/ k = 10
    OBVIOUS
  <2> QED BY <1>6, <2>1, Zenon
<1> QED BY <1>7 DEF D

\* What scaling yields.
LEMMA ScaledNumberIs ==
  ASSUME NEW x \in ScaledNumbers
  PROVE  x.n_int \in Nat /\ x.halves \in Nat /\ x.exact \in BOOLEAN /\ x.exponent \in Int
<1> DEFINE A == 0 .. max_scaled
           B == 0 .. 2 * max_scaled
<1>1. A \subseteq Nat /\ B \subseteq Nat
  <2>1. 7 \in 0 .. 10 /\ 7 \in Nat
    OBVIOUS
  <2>2. max_scaled \in Nat
    <3>1. max_scaled = Divisor[7]
      BY <2>1, TensAre, Zenon DEF max_scaled
    <3> QED BY <2>1, <3>1, DivisorIs
  <2> QED BY <2>2
<1>2. x \in [n_int: A, halves: B, exact: BOOLEAN, exponent: Int]
  BY Zenon DEF ScaledNumbers
<1> HIDE DEF A, B
<1>3. x.n_int \in A /\ x.halves \in B /\ x.exact \in BOOLEAN /\ x.exponent \in Int
  BY <1>2, Zenon
<1> QED BY <1>1, <1>3

\* Rounding changes number by at most half a unit.
LEMMA RoundedIs ==
  ASSUME NEW x \in ScaledNumbers
  PROVE  /\ Rounded(x) \in Nat
         /\ x.exact => 2 * Rounded(x) \in x.halves - 1 .. x.halves + 1
         /\ ~ x.exact => 2 * Rounded(x) \in {x.halves, x.halves + 1}
<1> DEFINE h == x.halves
           n == (h + 1) \div 2
<1>1. h \in Nat /\ x.exact \in BOOLEAN
  BY ScaledNumberIs
<1>2. Rounded(x) = IF n % 2 = 1 /\ x.exact /\ h % 2 = 1 THEN n - 1 ELSE n
  BY DEF Rounded
<1> HIDE DEF h
<1>3. n \in Nat /\ 2 * n \in {h, h + 1} /\ (n % 2 = 1 => n - 1 \in Nat)
      /\ (h % 2 = 1 => 2 * n = h + 1)
  BY <1>1
<1> HIDE DEF n
<1>4. CASE n % 2 = 1 /\ x.exact /\ h % 2 = 1
  BY <1>1, <1>2, <1>3, <1>4 DEF h
<1>5. CASE ~ (n % 2 = 1 /\ x.exact /\ h % 2 = 1)
  BY <1>1, <1>2, <1>3, <1>5 DEF h
<1> QED BY <1>4, <1>5

\* The scaled number, rounded.
Whole(x) == x.n_int + Rounded(x)

\* What is printed: seven digits, those of the number, or one and six zeros for
\* ten million of the seventh digit.
Printable(n, exponent, x) ==
  /\ n \in Nat /\ Divisor[6] <= n /\ n < Divisor[7]
  /\ \/ exponent = x.exponent /\ n = Whole(x)
     \/ exponent = x.exponent + 1 /\ n = Divisor[6] /\ Whole(x) = Divisor[7]

\* The carry leaves seven digits.
LEMMA CarriedIs ==
  ASSUME NEW x \in ScaledNumbers
  PROVE  LET s == Carried([n |-> x.n_int + Rounded(x), exponent |-> x.exponent])
         IN  Printable(s.n, s.exponent, x)
<1> DEFINE low == Divisor[6]
           high == Divisor[7]
           R == Rounded(x)
           n == x.n_int + R
           t == [n |-> n, exponent |-> x.exponent]
<1>1. low \in Nat \ {0} /\ high \in Nat /\ high = low * 10
  <2>1. 6 \in Nat /\ 7 \in Nat /\ 6 + 1 = 7
    OBVIOUS
  <2> QED BY <2>1, DivisorIs
<1>2. min_scaled = low /\ max_scaled = high
  <2>1. 6 \in 0 .. 10 /\ 7 \in 0 .. 10
    OBVIOUS
  <2> QED BY <2>1, TensAre, Zenon DEF min_scaled, max_scaled
<1>3. /\ n >= high => Carried(t) = [n |-> low, exponent |-> x.exponent + 1]
      /\ ~ (n >= high) => Carried(t) = t
  BY <1>2, Zenon DEF Carried
<1> HIDE DEF low, high
<1>4. /\ x.n_int \in Nat /\ x.halves \in Nat /\ x.exponent \in Int
      /\ 2 * low <= 2 * x.n_int + x.halves
      /\ x.exact => 2 * x.n_int + x.halves <= 2 * high
      /\ ~ x.exact => 2 * x.n_int + x.halves + 1 <= 2 * high
  <2>1. /\ x \in [n_int: 0 .. high, halves: 0 .. 2 * high, exact: BOOLEAN, exponent: Int]
        /\ 2 * low <= 2 * x.n_int + x.halves
        /\ 2 * x.n_int + x.halves + (IF x.exact THEN 0 ELSE 1) <= 2 * high
    BY <1>2, Zenon DEF ScaledNumbers
  <2>2. x.n_int \in 0 .. high /\ x.halves \in 0 .. 2 * high /\ x.exponent \in Int
    BY <2>1
  <2> QED BY <1>1, <2>1, <2>2
<1>5. /\ R \in Nat
      /\ x.exact => 2 * R \in x.halves - 1 .. x.halves + 1
      /\ ~ x.exact => 2 * R \in {x.halves, x.halves + 1}
  BY RoundedIs
<1> HIDE DEF R
<1>6. n \in Nat /\ low <= n /\ n <= high
  <2>1. 2 * R >= x.halves - 1
    BY <1>4, <1>5
  <2>2. (x.exact => 2 * R <= x.halves + 1) /\ (~ x.exact => 2 * R <= x.halves + 1)
    BY <1>4, <1>5
  <2> QED BY <1>1, <1>4, <1>5, <2>1, <2>2
<1>7. Whole(x) = n
  BY DEF Whole, R
<1> HIDE DEF n
<1>8. CASE n >= high
  <2>1. n = high /\ low < high
    BY <1>1, <1>6, <1>8
  <2>2. Carried(t).n = low /\ Carried(t).exponent = x.exponent + 1
    BY <1>3, <1>8
  <2> QED BY <1>1, <1>7, <2>1, <2>2 DEF Printable, low, high, n, R
<1>9. CASE ~ (n >= high)
  <2>1. Carried(t).n = n /\ Carried(t).exponent = x.exponent
    BY <1>3, <1>9
  <2>2. n < high
    BY <1>1, <1>6, <1>9
  <2> QED BY <1>6, <1>7, <2>1, <2>2 DEF Printable, low, high, n, R
<1> QED BY <1>8, <1>9

\* The characters of the texts of floats.
FloatCharacters == AllDigits \cup {"-", "+", "e", "."}

\* Digits are none of the others.
LEMMA OtherCharacters == \A d \in AllDigits : d \notin {"-", "+", "e", "."}
<1>1. ASSUME NEW i \in 1 .. 16 PROVE Digits[i] \notin {"-", "+", "e", "."}
  BY DEF Digits
<1> SUFFICES ASSUME NEW v \in 0 .. 15 PROVE Digits[v + 1] \notin {"-", "+", "e", "."}
  BY DEF AllDigits
<1>2. v + 1 \in 1 .. 16
  OBVIOUS
<1> QED BY <1>1, <1>2

\* Where a character is.
LEMMA PositionIs ==
  ASSUME NEW S, NEW t \in Seq(S), NEW c
  PROVE  /\ \A i \in 1 .. Len(t) :
              t[i] = c /\ (\A j \in 1 .. Len(t) : j # i => t[j] # c) => Position(c, t) = i
         /\ (\A j \in 1 .. Len(t) : t[j] # c) => Position(c, t) = Len(t) + 1
<1> DEFINE at == {i \in 1 .. Len(t) : t[i] = c}
<1>1. Position(c, t) = IF at = {} THEN Len(t) + 1 ELSE CHOOSE i \in at : TRUE
  BY DEF Position
<1>2. ASSUME NEW i \in 1 .. Len(t), t[i] = c, \A j \in 1 .. Len(t) : j # i => t[j] # c
      PROVE  Position(c, t) = i
  <2>1. at = {i}
    BY <1>2
  <2> HIDE DEF at
  <2> QED BY <1>1, <2>1
<1>3. ASSUME \A j \in 1 .. Len(t) : t[j] # c PROVE Position(c, t) = Len(t) + 1
  <2>1. at = {}
    BY <1>3
  <2> HIDE DEF at
  <2> QED BY <1>1, <2>1
<1> QED BY <1>2, <1>3

\* Pieces of a text of two parts.
LEMMA Pieces ==
  ASSUME NEW S, NEW p \in Seq(S), NEW t \in Seq(S), NEW i \in Nat \ {0}
  PROVE  /\ \A j \in Nat : j <= Len(p) => SubSeq(p \o t, i, j) = SubSeq(p, i, j)
         /\ SubSeq(p \o t, Len(p) + i, Len(p) + Len(t)) = SubSeq(t, i, Len(t))
<1> DEFINE u == p \o t
           m == Len(p)
           n == Len(t)
<1>1. /\ u \in Seq(S) /\ Len(u) = m + n /\ m \in Nat /\ n \in Nat
      /\ \A k \in 1 .. m : u[k] = p[k]
      /\ \A k \in 1 .. n : u[m + k] = t[k]
  OBVIOUS
<1> HIDE DEF u, m, n
<1>2. ASSUME NEW j \in Nat, j <= m PROVE SubSeq(u, i, j) = SubSeq(p, i, j)
  <2>1. SubSeq(u, i, j) = [k \in 1 .. 1 + j - i |-> u[i + k - 1]]
    OBVIOUS
  <2>2. SubSeq(p, i, j) = [k \in 1 .. 1 + j - i |-> p[i + k - 1]]
    OBVIOUS
  <2>3. \A k \in 1 .. 1 + j - i : i + k - 1 \in 1 .. m
    BY <1>1, <1>2
  <2> QED BY <1>1, <2>1, <2>2, <2>3
<1>3. SubSeq(u, m + i, m + n) = SubSeq(t, i, n)
  <2>1. SubSeq(u, m + i, m + n) = [k \in 1 .. 1 + n - i |-> u[m + (i + k - 1)]]
    BY <1>1
  <2>2. SubSeq(t, i, n) = [k \in 1 .. 1 + n - i |-> t[i + k - 1]]
    BY <1>1
  <2>3. \A k \in 1 .. 1 + n - i : i + k - 1 \in 1 .. n
    BY <1>1
  <2> QED BY <1>1, <2>1, <2>2, <2>3
<1> QED BY <1>2, <1>3 DEF u, m, n

\* t is front, of a characters, and then back, of b.
Halved(t, front, a, back, b, S) ==
  front \in [1 .. a -> S] /\ back \in [1 .. b -> S] /\ front \o back = t

\* The two parts of digits can be joined again.
LEMMA Rejoined ==
  ASSUME NEW S, NEW k \in Nat, NEW t \in [1 .. k -> S], NEW a \in 0 .. k
  PROVE  Halved(t, SubSeq(t, 1, a), a, SubSeq(t, a + 1, k), k - a, S)
<1> DEFINE front == SubSeq(t, 1, a)
           back == SubSeq(t, a + 1, k)
           u == front \o back
<1>1. front = [i \in 1 .. a |-> t[i]]
  OBVIOUS
<1>2. back = [i \in 1 .. k - a |-> t[a + i]]
  OBVIOUS
<1>3. front \in [1 .. a -> S] /\ back \in [1 .. k - a -> S]
  <2>1. \A i \in 1 .. k - a : a + i \in 1 .. k
    OBVIOUS
  <2> HIDE DEF front, back
  <2> QED BY <1>1, <1>2, <2>1
<1> HIDE DEF front, back
<1>4. /\ Len(front) = a /\ Len(back) = k - a /\ front \in Seq(S) /\ back \in Seq(S)
      /\ \A i \in 1 .. a : front[i] = t[i]
      /\ \A i \in 1 .. k - a : back[i] = t[a + i]
  <2>1. a \in Nat /\ k - a \in Nat
    OBVIOUS
  <2>2. Len(front) = a /\ front \in Seq(S)
    BY <1>3, <2>1
  <2>3. Len(back) = k - a /\ back \in Seq(S)
    <3>1. \A b \in Nat : back \in [1 .. b -> S] => Len(back) = b /\ back \in Seq(S)
      OBVIOUS
    <3> QED BY <1>3, <2>1, <3>1
  <2>4. \A i \in 1 .. a : front[i] = t[i]
    BY <1>1
  <2>5. \A i \in 1 .. k - a : back[i] = t[a + i]
    BY <1>2
  <2> QED BY <2>2, <2>3, <2>4, <2>5
<1>5. /\ u \in Seq(S) /\ Len(u) = k
      /\ \A i \in 1 .. a : u[i] = front[i]
      /\ \A i \in 1 .. k - a : u[a + i] = back[i]
  <2>1. Joins(u, front, back, S)
    BY <1>4, Parts
  <2>2. u \in Seq(S) /\ Len(u) = Len(front) + Len(back)
    BY <2>1, Zenon DEF Joins
  <2>3. \A i \in 1 .. Len(front) : u[i] = front[i]
    BY <2>1, Zenon DEF Joins
  <2>4. \A i \in 1 .. Len(back) : u[Len(front) + i] = back[i]
    BY <2>1, Zenon DEF Joins
  <2> HIDE DEF u
  <2>5. a + (k - a) = k
    OBVIOUS
  <2> QED BY <1>4, <2>2, <2>3, <2>4, <2>5
<1> HIDE DEF u
<1>6. \A i \in 1 .. k : u[i] = t[i]
  <2> SUFFICES ASSUME NEW i \in 1 .. k PROVE u[i] = t[i]
    OBVIOUS
  <2>1. CASE i <= a
    BY <1>4, <1>5, <2>1
  <2>2. CASE i > a
    <3>1. i - a \in 1 .. k - a /\ a + (i - a) = i
      BY <2>2
    <3>2. u[a + (i - a)] = back[i - a] /\ back[i - a] = t[a + (i - a)]
      BY <1>4, <1>5, <3>1
    <3> QED BY <3>1, <3>2
  <2> QED BY <2>1, <2>2
<1>7. u = t
  BY <1>5, <1>6
<1> QED BY <1>3, <1>7 DEF u, front, back, Halved

\* Digits, a point if digits follow, and these.
Pointed(front, back) == front \o IF back = <<>> THEN <<>> ELSE <<".">> \o back

\* What can be found in such a text.
PartsRead(t, a, front, back) ==
  /\ t \in Seq(FloatCharacters) /\ Len(t) >= a /\ t[1] # "-"
  /\ \A i \in 1 .. Len(t) : t[i] # "e"
  /\ Position(".", t) = a + 1
  /\ SubSeq(t, 1, a) = front
  /\ SubSeq(t, a + 2, Len(t)) = back

\* The text of two parts is such a text.
LEMMA PointRead ==
  ASSUME NEW a \in Nat \ {0}, NEW front \in [1 .. a -> AllDigits],
         NEW b \in Nat, NEW back \in [1 .. b -> AllDigits]
  PROVE  PartsRead(Pointed(front, back), a, front, back)
<1> DEFINE S == FloatCharacters
           t == Pointed(front, back)
<1>1. /\ front \in Seq(S) /\ Len(front) = a /\ \A i \in 1 .. a : front[i] \in AllDigits
      /\ back \in Seq(S) /\ Len(back) = b /\ \A i \in 1 .. b : back[i] \in AllDigits
  <2>1. AllDigits \subseteq S
    BY DEF FloatCharacters
  <2>2. \A k \in Nat : \A s \in [1 .. k -> AllDigits] :
          s \in Seq(S) /\ Len(s) = k /\ \A i \in 1 .. k : s[i] \in AllDigits
    <3> SUFFICES ASSUME NEW k \in Nat, NEW s \in [1 .. k -> AllDigits]
                 PROVE  s \in Seq(S) /\ Len(s) = k /\ \A i \in 1 .. k : s[i] \in AllDigits
      OBVIOUS
    <3> HIDE DEF S
    <3> QED BY <2>1
  <2> QED BY <2>2
<1>2. \A d \in AllDigits : d # "-" /\ d # "e" /\ d # "."
  BY OtherCharacters
<1>3. "." \in S
  BY DEF FloatCharacters
<1> HIDE DEF S, t
<1>4. CASE back = <<>>
  <2>1. b = 0
    BY <1>1, <1>4
  <2>2. t = front
    <3>1. t = front \o <<>>
      BY <1>4 DEF t, Pointed
    <3> QED BY <1>1, <3>1
  <2>3. \A i \in 1 .. Len(t) : t[i] # "." /\ t[i] # "e" /\ t[i] # "-"
    BY <1>1, <1>2, <2>2
  <2>4. Position(".", t) = a + 1
    BY <1>1, <2>2, <2>3, PositionIs
  <2>5. SubSeq(t, 1, a) = front /\ SubSeq(t, a + 2, Len(t)) = back
    BY <1>1, <1>4, <2>2
  <2>6. t \in Seq(S) /\ Len(t) >= a /\ 1 \in 1 .. Len(t)
    BY <1>1, <2>2
  <2> QED BY <2>3, <2>4, <2>5, <2>6 DEF PartsRead, t, S
<1>5. CASE back # <<>>
  <2> DEFINE p == <<".">>
             h == front \o p
  <2>1. t = front \o (p \o back)
    BY <1>5 DEF t, Pointed
  <2>2. p \in Seq(S) /\ Len(p) = 1 /\ p[1] = "."
    BY <1>3
  <2> HIDE DEF p
  <2>3. t = h \o back
    BY <1>1, <2>1, <2>2
  <2>4. /\ h \in Seq(S) /\ Len(h) = a + 1 /\ h[a + 1] = "."
        /\ \A i \in 1 .. a : h[i] = front[i]
        /\ SubSeq(h, 1, a) = front
    <3>1. Joins(h, front, p, S)
      BY <1>1, <2>2, Parts
    <3> HIDE DEF h
    <3>2. /\ h \in Seq(S) /\ Len(h) = a + 1 /\ SubSeq(h, 1, a) = front
          /\ \A i \in 1 .. a : h[i] = front[i]
      BY <1>1, <2>2, <3>1 DEF Joins
    <3>3. h[a + 1] = p[1]
      BY <1>1, <2>2, <3>1 DEF Joins
    <3> QED BY <2>2, <3>2, <3>3
  <2> HIDE DEF h
  <2>6. /\ t \in Seq(S) /\ Len(t) = a + 1 + b
        /\ \A i \in 1 .. a + 1 : t[i] = h[i]
        /\ \A i \in 1 .. b : t[a + 1 + i] = back[i]
    <3>1. Joins(h \o back, h, back, S)
      BY <1>1, <2>4, Parts
    <3>2. Joins(t, h, back, S)
      BY <2>3, <3>1
    <3> QED BY <1>1, <2>4, <3>2 DEF Joins
  <2>7. \A i \in 1 .. Len(t) : t[i] # "e" /\ (i # a + 1 => t[i] # ".")
    <3> SUFFICES ASSUME NEW i \in 1 .. Len(t)
                 PROVE  t[i] # "e" /\ (i # a + 1 => t[i] # ".")
      OBVIOUS
    <3>1. CASE i \in 1 .. a
      BY <1>1, <1>2, <2>4, <2>6, <3>1
    <3>2. CASE i = a + 1
      BY <2>4, <2>6, <3>2
    <3>3. CASE i > a + 1
      <4>1. i - (a + 1) \in 1 .. b /\ a + 1 + (i - (a + 1)) = i
        BY <2>6, <3>3
      <4>2. t[a + 1 + (i - (a + 1))] = back[i - (a + 1)]
        BY <2>6, <4>1
      <4> QED BY <1>1, <1>2, <4>1, <4>2
    <3> QED BY <3>1, <3>2, <3>3
  <2>8. Position(".", t) = a + 1
    <3>1. a + 1 \in 1 .. Len(t) /\ t[a + 1] = "."
      BY <2>4, <2>6
    <3>2. \A i \in 1 .. Len(t) :
            t[i] = "." /\ (\A j \in 1 .. Len(t) : j # i => t[j] # ".")
              => Position(".", t) = i
      BY <2>6, PositionIs
    <3> QED BY <2>7, <3>1, <3>2
  <2>9. SubSeq(t, 1, a) = front
    <3>1. 1 \in Nat \ {0} /\ a \in Nat /\ a <= Len(h)
      BY <2>4
    <3>2. SubSeq(h \o back, 1, a) = SubSeq(h, 1, a)
      BY <1>1, <2>4, <3>1, Pieces
    <3> QED BY <2>3, <2>4, <3>2
  <2>10. SubSeq(t, a + 2, Len(t)) = back
    <3>1. SubSeq(h \o back, Len(h) + 1, Len(h \o back)) = back
      <4>1. Joins(h \o back, h, back, S)
        BY <1>1, <2>4, Parts
      <4> QED BY <4>1, Zenon DEF Joins
    <3>2. a + 1 + 1 = a + 2
      OBVIOUS
    <3> QED BY <2>3, <2>4, <3>1, <3>2
  <2>11. t[1] # "-"
    <3>1. 1 \in 1 .. a /\ 1 \in 1 .. a + 1
      OBVIOUS
    <3> QED BY <1>1, <1>2, <2>4, <2>6, <3>1
  <2>12. Len(t) >= a
    BY <2>6
  <2> QED BY <2>6, <2>7, <2>8, <2>9, <2>10, <2>11, <2>12 DEF PartsRead, t, S
<1> QED BY <1>4, <1>5

\* x is the text of the power, or of none if it is 0.
IsExponent(x, power) ==
  \/ x = <<>> /\ power = 0
  \/ \E k \in Nat : \E digits \in [1 .. k -> AllDigits], sign \in {"-", "+"} :
       /\ x = <<"e", sign>> \o digits
       /\ power = ValueIn(digits, 10) * IF sign = "-" THEN -1 ELSE 1

\* How FloatRead finds it.
PowerRead(t) ==
  LET e == Position("e", t)
  IN  IF e > Len(t) THEN 0
      ELSE ValueIn(SubSeq(t, e + 2, Len(t)), 10) * IF t[e + 1] = "-" THEN -1 ELSE 1

\* It is found behind a text without an e.
LEMMA ExponentRead ==
  ASSUME NEW t \in Seq(FloatCharacters), \A i \in 1 .. Len(t) : t[i] # "e",
         NEW x, NEW power, IsExponent(x, power)
  PROVE  /\ t \o x \in Seq(FloatCharacters)
         /\ Position("e", t \o x) = Len(t) + 1
         /\ PowerRead(t \o x) = power
         /\ \A i \in Nat \ {0}, j \in Nat :
              j <= Len(t) => SubSeq(t \o x, i, j) = SubSeq(t, i, j)
         /\ \A i \in 1 .. Len(t) : (t \o x)[i] = t[i]
<1> DEFINE S == FloatCharacters
           u == t \o x
           m == Len(t)
<1>1. CASE x = <<>> /\ power = 0
  <2>1. u = t /\ m \in Nat
    BY <1>1
  <2>2. Position("e", t) = m + 1
    BY PositionIs
  <2>3. PowerRead(t) = 0
    <3>1. m + 1 > m
      BY <2>1
    <3> QED BY <2>2, <3>1 DEF PowerRead
  <2> HIDE DEF u
  <2> QED BY <1>1, <2>1, <2>2, <2>3 DEF u
<1>2. ASSUME NEW k \in Nat, NEW digits \in [1 .. k -> AllDigits], NEW sign \in {"-", "+"},
             x = <<"e", sign>> \o digits,
             power = ValueIn(digits, 10) * IF sign = "-" THEN -1 ELSE 1
      PROVE  /\ u \in Seq(S) /\ Position("e", u) = m + 1 /\ PowerRead(u) = power
             /\ Joins(u, t, x, S) /\ x \in Seq(S)
  <2> DEFINE p == <<"e", sign>>
  <2>1. p \in Seq(S) /\ Len(p) = 2 /\ p[1] = "e" /\ p[2] = sign
    BY DEF FloatCharacters
  <2> HIDE DEF p
  <2>2. digits \in Seq(S) /\ Len(digits) = k /\ \A i \in 1 .. k : digits[i] # "e"
    <3>1. AllDigits \subseteq S /\ \A d \in AllDigits : d # "e"
      BY OtherCharacters DEF FloatCharacters
    <3> HIDE DEF S
    <3> QED BY <3>1
  <2>3. Joins(x, p, digits, S)
    <3>1. Joins(p \o digits, p, digits, S)
      BY <2>1, <2>2, Parts
    <3> QED BY <1>2, <3>1 DEF p
  <2>4. /\ x \in Seq(S) /\ Len(x) = 2 + k /\ x[1] = "e" /\ x[2] = sign
        /\ \A i \in 1 .. k : x[2 + i] = digits[i]
        /\ SubSeq(x, 3, Len(x)) = digits
    <3> HIDE DEF S
    <3>1. /\ x \in Seq(S) /\ Len(x) = 2 + k
          /\ \A i \in 1 .. 2 : x[i] = p[i]
          /\ \A i \in 1 .. k : x[2 + i] = digits[i]
          /\ SubSeq(x, 3, Len(x)) = digits
      BY <2>1, <2>2, <2>3 DEF Joins
    <3> QED BY <2>1, <3>1
  <2>5. Joins(u, t, x, S) /\ m \in Nat
    BY <2>4, Parts
  <2>6. SubSeq(u, m + 3, Len(u)) = digits
    <3>1. 3 \in Nat \ {0}
      OBVIOUS
    <3>2. SubSeq(u, m + 3, m + Len(x)) = SubSeq(x, 3, Len(x))
      BY <2>4, <3>1, Pieces
    <3>3. Len(u) = m + Len(x)
      BY <2>5 DEF Joins
    <3> QED BY <2>4, <3>2, <3>3
  <2> HIDE DEF u, S
  <2>7. /\ u \in Seq(S) /\ Len(u) = m + (2 + k)
        /\ \A i \in 1 .. m : u[i] = t[i]
        /\ \A i \in 1 .. 2 + k : u[m + i] = x[i]
    BY <2>4, <2>5 DEF Joins
  <2>8. u[m + 1] = "e" /\ u[m + 2] = sign /\ m + 1 \in 1 .. Len(u)
    BY <2>4, <2>5, <2>7
  <2>9. ASSUME NEW j \in 1 .. Len(u), j # m + 1 PROVE u[j] # "e"
    <3>1. CASE j <= m
      BY <2>5, <2>7, <3>1
    <3>2. CASE j = m + 2
      BY <2>8, <3>2
    <3>3. CASE j > m + 2
      <4>1. j - m - 2 \in 1 .. k /\ j - m \in 1 .. 2 + k /\ 2 + (j - m - 2) = j - m
            /\ m + (j - m) = j
        BY <2>5, <2>7, <3>3
      <4>2. u[j] = x[j - m] /\ x[j - m] = digits[j - m - 2]
        BY <2>4, <2>7, <4>1
      <4> QED BY <2>2, <4>1, <4>2
    <3> QED BY <2>5, <2>9, <3>1, <3>2, <3>3
  <2>10. Position("e", u) = m + 1
    <3>1. \A i \in 1 .. Len(u) :
            u[i] = "e" /\ (\A j \in 1 .. Len(u) : j # i => u[j] # "e")
              => Position("e", u) = i
      BY <2>7, PositionIs
    <3> QED BY <2>8, <2>9, <3>1
  <2>11. PowerRead(u) = power
    <3>1. ~ (m + 1 > Len(u)) /\ m + 1 + 2 = m + 3 /\ m + 1 + 1 = m + 2
      BY <2>5, <2>7
    <3> QED BY <1>2, <2>6, <2>8, <2>10, <3>1 DEF PowerRead
  <2> QED BY <2>4, <2>5, <2>7, <2>10, <2>11
<1>3. ASSUME Joins(u, t, x, S), x \in Seq(S)
      PROVE  /\ \A i \in Nat \ {0}, j \in Nat :
                  j <= m => SubSeq(u, i, j) = SubSeq(t, i, j)
             /\ \A i \in 1 .. m : u[i] = t[i]
  <2>1. \A i \in Nat \ {0} : \A j \in Nat : j <= m => SubSeq(u, i, j) = SubSeq(t, i, j)
    BY <1>3, Pieces
  <2>2. \A i \in 1 .. m : u[i] = t[i]
    BY <1>3, Zenon DEF Joins
  <2> HIDE DEF u, m
  <2> QED BY <2>1, <2>2
<1>4. CASE \E k \in Nat : \E digits \in [1 .. k -> AllDigits], sign \in {"-", "+"} :
             /\ x = <<"e", sign>> \o digits
             /\ power = ValueIn(digits, 10) * IF sign = "-" THEN -1 ELSE 1
  <2>1. /\ u \in Seq(S) /\ Position("e", u) = m + 1 /\ PowerRead(u) = power
        /\ Joins(u, t, x, S) /\ x \in Seq(S)
    BY <1>2, <1>4, Zenon
  <2> QED BY <1>3, <2>1, Zenon
<1> QED BY <1>1, <1>4 DEF IsExponent

\* A sign in front of a text that has none.
LEMMA SignRead ==
  ASSUME NEW u \in Seq(FloatCharacters), Len(u) >= 1, u[1] # "-"
  PROVE  /\ ~ IsPrefix(<<"-">>, u)
         /\ IsPrefix(<<"-">>, <<"-">> \o u) /\ Tail(<<"-">> \o u) = u
<1> DEFINE S == FloatCharacters
           p == <<"-">>
           t == p \o u
<1>1. ~ IsPrefix(p, u)
  <2> SUFFICES ASSUME IsPrefix(p, u) PROVE FALSE
    OBVIOUS
  <2> DEFINE s == SubSeq(u, 1, 1)
  <2>1. s = p
    BY DEF IsPrefix
  <2>2. s[1] = u[1]
    OBVIOUS
  <2> HIDE DEF s
  <2> QED BY <2>1, <2>2
<1>2. p \in Seq(S) /\ Len(p) = 1
  BY DEF FloatCharacters
<1>3. Joins(t, p, u, S)
  BY <1>2, Parts
<1>4. IsPrefix(p, t)
  <2> HIDE DEF p, S
  <2> QED BY <1>2, <1>3 DEF Joins, IsPrefix
<1>5. Tail(t) = u
  <2>1. t \in Seq(S) /\ t # <<>> /\ SubSeq(t, 2, Len(t)) = u
    <3> HIDE DEF p, S, t
    <3>1. t \in Seq(S) /\ Len(t) = 1 + Len(u) /\ SubSeq(t, 1 + 1, Len(t)) = u
      BY <1>2, <1>3 DEF Joins
    <3>2. Len(t) # 0
      BY <3>1
    <3> QED BY <3>1, <3>2
  <2> HIDE DEF t, S
  <2>2. Tail(t) = SubSeq(t, 2, Len(t))
    BY <2>1
  <2> QED BY <2>1, <2>2
<1> QED BY <1>1, <1>4, <1>5

\* A text is read as m * 10^e, with that sign.
IsReadAs(text, negative, m, e) ==
  FloatRead(text) = [negative |-> negative, m |-> m, e |-> e]

\* What a reader makes of a text of UnityPrintFloat.
LEMMA FloatTextRead ==
  ASSUME NEW a \in Nat \ {0}, NEW front \in [1 .. a -> AllDigits],
         NEW b \in Nat, NEW back \in [1 .. b -> AllDigits],
         NEW x, NEW power, IsExponent(x, power), NEW negative \in BOOLEAN
  PROVE  IsReadAs((IF negative THEN <<"-">> ELSE <<>>) \o (Pointed(front, back) \o x),
                  negative, ValueIn(front \o back, 10), power - b)
<1> DEFINE S == FloatCharacters
           t == Pointed(front, back)
           u == t \o x
           text == (IF negative THEN <<"-">> ELSE <<>>) \o u
           n == Len(t)
<1>1. /\ t \in Seq(S) /\ n >= a /\ t[1] # "-"
      /\ \A i \in 1 .. n : t[i] # "e"
      /\ Position(".", t) = a + 1
      /\ SubSeq(t, 1, a) = front
      /\ SubSeq(t, a + 2, n) = back
  <2>1. PartsRead(t, a, front, back)
    BY PointRead
  <2> HIDE DEF t
  <2> QED BY <2>1 DEF PartsRead
<1>2. n \in Nat /\ 1 \in 1 .. n /\ SubSeq(t, 1, n) = t
  BY <1>1
<1> HIDE DEF t
<1>3. /\ u \in Seq(S)
      /\ Position("e", u) = n + 1
      /\ PowerRead(u) = power
      /\ \A i \in Nat \ {0}, j \in Nat : j <= n => SubSeq(u, i, j) = SubSeq(t, i, j)
      /\ u[1] = t[1] /\ Len(u) >= 1
  <2>1. /\ u \in Seq(S)
        /\ Position("e", u) = n + 1
        /\ PowerRead(u) = power
        /\ \A i \in Nat \ {0}, j \in Nat : j <= n => SubSeq(u, i, j) = SubSeq(t, i, j)
        /\ \A i \in 1 .. n : u[i] = t[i]
    BY <1>1, ExponentRead
  <2>2. Len(u) >= 1
    <3>1. Position("e", u) # 1
      BY <1>1, <1>2, <2>1
    <3>2. Len(u) = 0 => Position("e", u) = Len(u) + 1
      BY <2>1, PositionIs
    <3> HIDE DEF u
    <3> QED BY <2>1, <3>1, <3>2
  <2> QED BY <1>2, <2>1, <2>2
<1> HIDE DEF u, S
<1>4. /\ IsPrefix(<<"-">>, text) = negative
      /\ (IF negative THEN Tail(text) ELSE text) = u
  <2>1. /\ ~ IsPrefix(<<"-">>, u)
        /\ IsPrefix(<<"-">>, <<"-">> \o u) /\ Tail(<<"-">> \o u) = u
    BY <1>1, <1>3, SignRead DEF S
  <2>2. CASE negative
    <3>1. text = <<"-">> \o u
      BY <2>2
    <3> HIDE DEF text
    <3> QED BY <2>1, <2>2, <3>1 DEF IsPrefix
  <2>3. CASE ~ negative
    <3>1. text = u
      BY <1>3, <2>3
    <3> HIDE DEF text
    <3> QED BY <2>1, <2>3, <3>1 DEF IsPrefix
  <2> QED BY <2>2, <2>3
<1> HIDE DEF text
<1>5. /\ SubSeq(u, 1, n + 1 - 1) = t
      /\ SubSeq(u, 1, a + 1 - 1) = front
      /\ SubSeq(u, a + 1 + 1, n + 1 - 1) = back
  <2>1. /\ n + 1 - 1 = n /\ a + 1 - 1 = a /\ a + 1 + 1 = a + 2
        /\ 1 \in Nat \ {0} /\ a + 2 \in Nat \ {0} /\ a \in Nat
        /\ n <= n /\ a <= n
    BY <1>1, <1>2
  <2>2. /\ SubSeq(u, 1, n) = SubSeq(t, 1, n)
        /\ SubSeq(u, 1, a) = SubSeq(t, 1, a)
        /\ SubSeq(u, a + 2, n) = SubSeq(t, a + 2, n)
    BY <1>2, <1>3, <2>1, Zenon
  <2> QED BY <1>1, <1>2, <2>1, <2>2
<1>6. Len(back) = b
  OBVIOUS
<1>7. FloatRead(text) =
        [negative |-> negative,
         m |-> ValueIn(SubSeq(u, 1, a + 1 - 1) \o SubSeq(u, a + 1 + 1, n + 1 - 1), 10),
         e |-> power - Len(SubSeq(u, a + 1 + 1, n + 1 - 1))]
  <2> DEFINE ReadAt(v, q, e, point) ==
               LET fraction == SubSeq(v, point + 1, e - 1)
               IN  [negative |-> q,
                    m |-> ValueIn(SubSeq(v, 1, point - 1) \o fraction, 10),
                    e |-> PowerRead(v) - Len(fraction)]
             Read(v, q) ==
               ReadAt(v, q, Position("e", v),
                      Position(".", SubSeq(v, 1, Position("e", v) - 1)))
  <2>1. FloatRead(text) = Read(IF IsPrefix(<<"-">>, text) THEN Tail(text) ELSE text,
                               IsPrefix(<<"-">>, text))
    BY Zenon DEF FloatRead, PowerRead
  <2>2. FloatRead(text) = Read(u, negative)
    <3> HIDE DEF Read
    <3> QED BY <1>4, <2>1
  <2>3. Position(".", SubSeq(u, 1, n + 1 - 1)) = a + 1
    BY <1>1, <1>5
  <2>4. Read(u, negative) = ReadAt(u, negative, n + 1, a + 1)
    <3>1. Position(".", SubSeq(u, 1, Position("e", u) - 1)) = a + 1
      <4>1. SubSeq(u, 1, Position("e", u) - 1) = SubSeq(u, 1, n + 1 - 1)
        BY <1>3
      <4> QED BY <2>3, <4>1
    <3> HIDE DEF ReadAt
    <3> QED BY <1>3, <3>1, Zenon
  <2>5. ReadAt(u, negative, n + 1, a + 1) =
          [negative |-> negative,
           m |-> ValueIn(SubSeq(u, 1, a + 1 - 1) \o SubSeq(u, a + 1 + 1, n + 1 - 1), 10),
           e |-> power - Len(SubSeq(u, a + 1 + 1, n + 1 - 1))]
    <3>1. PowerRead(u) = power
      BY <1>3
    <3> QED BY <3>1
  <2> HIDE DEF Read, ReadAt
  <2> QED BY <2>2, <2>4, <2>5
<1>8. FloatRead(text) = [negative |-> negative, m |-> ValueIn(front \o back, 10), e |-> power - b]
  BY <1>5, <1>6, <1>7
<1> QED BY <1>8 DEF IsReadAs, text, u, t

\* With at least its places, zeros in front if there are more, a number's digits
\* stand for it.
LEMMA PaddedDigits ==
  ASSUME NEW n \in Nat, NEW k \in Nat \ {0}
  PROVE  LET w == AtLeast(k, Places(n))
         IN  /\ w \in Nat \ {0} /\ w >= k
             /\ InBase(n, 10, w) \in [1 .. w -> AllDigits]
             /\ ValueIn(InBase(n, 10, w), 10) = n
<1> DEFINE p == Places(n)
           w == AtLeast(k, p)
<1>1. p \in Nat \ {0} /\ n < Divisor[p]
  BY PlacesAre
<1> HIDE DEF p
<1>2. w \in Nat \ {0} /\ w >= k /\ p <= w
  BY <1>1 DEF AtLeast
<1> HIDE DEF w
<1>3. n < Divisor[w]
  <2>1. Divisor[p] <= Divisor[w] /\ Divisor[p] \in Nat /\ Divisor[w] \in Nat
    BY <1>1, <1>2, TensGrow, DivisorIs
  <2> QED BY <1>1, <2>1
<1>4. /\ InBase(n, 10, w) \in [1 .. w -> AllDigits]
      /\ ValueIn(InBase(n, 10, w), 10) = n
  BY <1>2, <1>3, DecimalDigits DEF AllDigits
<1> QED BY <1>2, <1>4 DEF w, p

\* The text of a power of ten.
LEMMA ExponentPrinted ==
  ASSUME NEW k \in Int
  PROVE  IsExponent(PrintExponent(k), k)
<1>1. CASE k = 0
  BY <1>1 DEF PrintExponent, IsExponent
<1>2. CASE k # 0
  <2> DEFINE magnitude == IF k < 0 THEN -k ELSE k
             sign == IF k < 0 THEN "-" ELSE "+"
             w == AtLeast(2, Places(magnitude))
             digits == InBase(magnitude, 10, w)
  <2>1. magnitude \in Nat /\ 2 \in Nat \ {0}
    OBVIOUS
  <2>2. /\ k < 0 => sign = "-" /\ magnitude * (-1) = k
        /\ ~ (k < 0) => sign = "+" /\ magnitude * 1 = k
    OBVIOUS
  <2>3. PrintExponent(k) = <<"e", sign>> \o digits
    BY <1>2 DEF PrintExponent
  <2> HIDE DEF magnitude, sign, w
  <2>4. w \in Nat /\ digits \in [1 .. w -> AllDigits] /\ ValueIn(digits, 10) = magnitude
    BY <2>1, PaddedDigits DEF w
  <2> HIDE DEF digits
  <2>5. sign \in {"-", "+"} /\ k = magnitude * IF sign = "-" THEN -1 ELSE 1
    BY <2>2
  <2> QED BY <2>3, <2>4, <2>5 DEF IsExponent
<1> QED BY <1>1, <1>2

\* The text of the digits and the point between them.
LEMMA DecimalPrinted ==
  ASSUME NEW n \in Nat, NEW decimals \in Nat
  PROVE  \E a \in Nat \ {0} :
         \E front \in [1 .. a -> AllDigits], back \in [1 .. decimals -> AllDigits] :
           /\ PrintDecimal(n, decimals) = Pointed(front, back)
           /\ ValueIn(front \o back, 10) = n
<1> DEFINE w == AtLeast(decimals + 1, Places(n))
           digits == InBase(n, 10, w)
           a == w - decimals
           front == SubSeq(digits, 1, a)
           back == SubSeq(digits, a + 1, w)
<1>1. decimals + 1 \in Nat \ {0}
  OBVIOUS
<1>2. /\ w \in Nat \ {0} /\ w >= decimals + 1
      /\ digits \in [1 .. w -> AllDigits] /\ ValueIn(digits, 10) = n
  BY <1>1, PaddedDigits
<1>3. PrintDecimal(n, decimals) = PointBefore(digits, decimals)
  BY DEF PrintDecimal
<1> HIDE DEF w, digits
<1>4. a \in Nat \ {0} /\ a \in 0 .. w /\ w - a = decimals
  BY <1>2
<1>5. front \in [1 .. a -> AllDigits] /\ back \in [1 .. decimals -> AllDigits]
      /\ front \o back = digits
  <2> HIDE DEF a
  <2>1. Halved(digits, front, a, back, w - a, AllDigits)
    BY <1>2, <1>4, Rejoined
  <2> HIDE DEF front, back
  <2> QED BY <1>4, <2>1 DEF Halved
<1>6. Len(digits) = w
  BY <1>2
<1>7. back = <<>> <=> decimals = 0
  <2> HIDE DEF back
  <2> QED BY <1>5
<1>8. PointBefore(digits, decimals) = Pointed(front, back)
  BY <1>6, <1>7, Zenon DEF PointBefore, Pointed
<1> HIDE DEF a, front, back
<1>9. ValueIn(front \o back, 10) = n /\ PrintDecimal(n, decimals) = Pointed(front, back)
  BY <1>2, <1>3, <1>5, <1>8
<1> QED BY <1>4, <1>5, <1>9

\* A float's text reads as its digits and their power of ten.
LEMMA PrintedFloatRead ==
  ASSUME NEW n \in Nat, NEW decimals \in Nat, NEW power \in Int, NEW negative \in BOOLEAN
  PROVE  IsReadAs((IF negative THEN <<"-">> ELSE <<>>)
                    \o (PrintDecimal(n, decimals) \o PrintExponent(power)),
                  negative, n, power - decimals)
<1>1. PICK a \in Nat \ {0} :
        \E front \in [1 .. a -> AllDigits], back \in [1 .. decimals -> AllDigits] :
          /\ PrintDecimal(n, decimals) = Pointed(front, back)
          /\ ValueIn(front \o back, 10) = n
  BY DecimalPrinted
<1>2. PICK front \in [1 .. a -> AllDigits], back \in [1 .. decimals -> AllDigits] :
        /\ PrintDecimal(n, decimals) = Pointed(front, back)
        /\ ValueIn(front \o back, 10) = n
  BY <1>1
<1>3. IsExponent(PrintExponent(power), power)
  BY ExponentPrinted
<1> DEFINE x == PrintExponent(power)
           sign == IF negative THEN <<"-">> ELSE <<>>
<1>4. IsReadAs(sign \o (Pointed(front, back) \o x),
               negative, ValueIn(front \o back, 10), power - decimals)
  <2>1. IsExponent(x, power)
    BY <1>3
  <2> HIDE DEF x
  <2>2. IsReadAs((IF negative THEN <<"-">> ELSE <<>>) \o (Pointed(front, back) \o x),
                 negative, ValueIn(front \o back, 10), power - decimals)
    BY <2>1, FloatTextRead
  <2> QED BY <2>2
<1> HIDE DEF x, sign
<1>5. IsReadAs(sign \o (PrintDecimal(n, decimals) \o x), negative, n, power - decimals)
  BY <1>2, <1>4, Zenon
<1> QED BY <1>5 DEF x, sign

\* The zeros cut off are zeros, and fewer than the digits.
LEMMA ZerosCut ==
  ASSUME NEW n \in Nat \ {0}, n < Divisor[7], NEW places \in 0 .. 10
  PROVE  LET zeros == TrailingZeros(n, places)
         IN  /\ zeros \in 0 .. 6 /\ zeros <= places
             /\ n \div 10^zeros \in Nat
             /\ n = (n \div 10^zeros) * Divisor[zeros]
<1> DEFINE going == {k \in Nat : k < places /\ n % 10^(k + 1) = 0}
           z == Turns(going)
           d == Divisor[z]
<1>1. z \in Nat \ going /\ \A k \in 0 .. z - 1 : k \in going
  <2>1. ASSUME NEW k \in Nat PROVE \E j \in Nat \ going : k <= j
    <3>1. k + places \in Nat /\ k <= k + places /\ ~ (k + places < places)
      OBVIOUS
    <3> QED BY <3>1
  <2>2. going \subseteq Nat
    OBVIOUS
  <2> HIDE DEF going
  <2> QED BY <2>1, <2>2, TurnsResult
<1>2. TrailingZeros(n, places) = z
  BY DEF TrailingZeros
<1> HIDE DEF z
<1>3. z \in 0 .. 10 /\ z <= places /\ (z = 0 \/ n % 10^z = 0)
  <2>1. CASE z = 0
    BY <2>1
  <2>2. CASE z # 0
    <3>1. z - 1 \in 0 .. z - 1 /\ z - 1 + 1 = z
      BY <1>1, <2>2
    <3>2. z - 1 < places /\ n % 10^z = 0
      BY <1>1, <3>1
    <3> QED BY <1>1, <3>2
  <2> QED BY <2>1, <2>2
<1>4. 10^z = d /\ d \in Nat \ {0}
  <2>1. z \in Nat
    BY <1>3
  <2> QED BY <1>3, <2>1, TensAre, DivisorIs, Zenon
<1>5. z = 0 => d = 1
  BY DivisorIs
<1> DEFINE k == n \div d
<1> HIDE DEF d
<1>6. k \in Nat /\ n = k * d
  <2>1. n % d = 0
    <3>1. CASE z = 0
      BY <1>5, <3>1
    <3>2. CASE z # 0
      BY <1>3, <1>4, <3>2
    <3> QED BY <3>1, <3>2
  <2> QED BY <1>4, <2>1
<1>7. z <= 6
  <2> SUFFICES ASSUME 7 <= z PROVE FALSE
    BY <1>3
  <2>1. Divisor[7] <= d /\ Divisor[7] \in Nat
    BY <1>3, TensGrow, DivisorIs DEF d
  <2> HIDE DEF k
  <2>2. k # 0
    BY <1>4, <1>6
  <2>3. d <= k * d /\ k * d \in Nat
    BY <1>4, <1>6, <2>2
  <2> QED BY <1>4, <1>6, <2>1, <2>3
<1>8. z \in 0 .. 6
  BY <1>3, <1>7
<1> QED BY <1>2, <1>3, <1>4, <1>6, <1>8 DEF d

\* The digits printed are the number rounded.
LEMMA DigitsAreWhole ==
  ASSUME NEW x \in ScaledNumbers, NEW n, NEW exponent, Printable(n, exponent, x),
         NEW zeros \in 0 .. 6, NEW k \in Nat, n = k * Divisor[zeros]
  PROVE  k * 10^((exponent + zeros) - x.exponent) = Whole(x)
<1> DEFINE i == (exponent + zeros) - x.exponent
           w == Divisor[zeros]
<1>1. x.exponent \in Int /\ zeros \in Nat /\ w \in Nat
  <2>1. x.exponent \in Int
    BY ScaledNumberIs
  <2> QED BY <2>1, DivisorIs
<1>2. CASE exponent = x.exponent /\ n = Whole(x)
  <2>1. i = zeros /\ zeros \in 0 .. 10
    BY <1>1, <1>2
  <2>2. 10^zeros = w
    BY <2>1, TensAre, Zenon
  <2> HIDE DEF i, w
  <2>3. k * 10^i = n
    BY <2>1, <2>2 DEF w
  <2> QED BY <1>2, <2>3 DEF i
<1>3. CASE exponent = x.exponent + 1 /\ n = Divisor[6] /\ Whole(x) = Divisor[7]
  <2>1. i = zeros + 1 /\ zeros + 1 \in 0 .. 10
    BY <1>1, <1>3
  <2>2. 10^(zeros + 1) = w * 10
    <3>1. 10^(zeros + 1) = Divisor[zeros + 1]
      BY <2>1, TensAre, Zenon
    <3> QED BY <1>1, <3>1, DivisorIs
  <2>3. Divisor[7] = Divisor[6] * 10
    <3>1. 6 \in Nat /\ 6 + 1 = 7
      OBVIOUS
    <3> QED BY <3>1, DivisorIs
  <2> HIDE DEF i, w
  <2>4. k * 10^i = (k * w) * 10
    <3>1. k * (w * 10) = (k * w) * 10
      BY <1>1
    <3> QED BY <2>1, <2>2, <3>1
  <2>5. k * w = Divisor[6]
    BY <1>3 DEF w
  <2>6. k * 10^i = Divisor[7]
    BY <2>3, <2>4, <2>5
  <2> QED BY <1>3, <2>6 DEF i
<1> QED BY <1>2, <1>3 DEF Printable

\* A float is printed as its scaled number, rounded.
LEMMA FloatReport ==
  ASSUME NEW x \in ScaledNumbers, NEW negative \in BOOLEAN
  PROVE  LET read == FloatRead(UnityPrintFloat(x, negative))
         IN  read.negative = negative /\ NearlyRead(read, x)
<1> DEFINE s == Carried([n |-> x.n_int + Rounded(x), exponent |-> x.exponent])
           n == s.n
           E == s.exponent
           places == DecimalPlaces(E)
           zeros == TrailingZeros(n, places)
           k == n \div 10^zeros
           text == UnityPrintFloat(x, negative)
           read == FloatRead(text)
<1>1. text = (IF negative THEN <<"-">> ELSE <<>>)
             \o (PrintDecimal(k, places - zeros) \o PrintExponent(E + places))
  BY Zenon DEF UnityPrintFloat, PrintScaled, PrintWithout
<1>2. Printable(n, E, x)
  BY CarriedIs
<1> HIDE DEF s, text
<1>3. n \in Nat \ {0} /\ n < Divisor[7]
  <2>1. Divisor[6] \in Nat \ {0}
    BY DivisorIs
  <2> QED BY <1>2, <2>1 DEF Printable
<1>4. E \in Int
  <2>1. x.exponent \in Int
    BY ScaledNumberIs
  <2> QED BY <1>2, <2>1 DEF Printable
<1>5. places \in 0 .. 10
  BY <1>4 DEF DecimalPlaces, sig_digits
<1> HIDE DEF n, E, places
<1>6. zeros \in 0 .. 6 /\ zeros <= places /\ k \in Nat /\ n = k * Divisor[zeros]
  BY <1>3, <1>5, ZerosCut
<1> HIDE DEF zeros, k
<1>7. read = [negative |-> negative, m |-> k, e |-> E + zeros]
  <2>1. places - zeros \in Nat /\ E + places \in Int
        /\ (E + places) - (places - zeros) = E + zeros
    BY <1>4, <1>5, <1>6
  <2>2. read = [negative |-> negative, m |-> k, e |-> (E + places) - (places - zeros)]
    <3>1. IsReadAs(text, negative, k, (E + places) - (places - zeros))
      BY <1>1, <1>6, <2>1, PrintedFloatRead
    <3> QED BY <3>1, Zenon DEF IsReadAs
  <2> QED BY <2>1, <2>2
<1> HIDE DEF read
<1>8. read.negative = negative /\ read.m = k /\ read.e = E + zeros
  BY <1>7
<1>9. read.m * 10^(read.e - x.exponent) = Whole(x)
  <2>1. k * 10^((E + zeros) - x.exponent) = Whole(x)
    BY <1>2, <1>6, DigitsAreWhole DEF n, E
  <2> QED BY <1>8, <2>1
<1>10. /\ x.n_int \in Nat /\ x.halves \in Nat /\ x.exact \in BOOLEAN /\ x.exponent \in Int
  BY ScaledNumberIs
<1>11. /\ Rounded(x) \in Nat
       /\ x.exact => 2 * Rounded(x) \in x.halves - 1 .. x.halves + 1
       /\ ~ x.exact => 2 * Rounded(x) \in {x.halves, x.halves + 1}
  BY RoundedIs
<1> DEFINE halves == 2 * (read.m * 10^(read.e - x.exponent)) - 2 * x.n_int
<1>12. halves = 2 * Rounded(x)
  <2>1. halves = 2 * Whole(x) - 2 * x.n_int
    BY <1>9
  <2>2. Whole(x) = x.n_int + Rounded(x)
    BY DEF Whole
  <2> HIDE DEF halves
  <2> QED BY <1>10, <1>11, <2>1, <2>2
<1> HIDE DEF halves
<1>13. IF x.exact THEN Abs(halves - x.halves) <= 1 ELSE halves \in {x.halves, x.halves + 1}
  BY <1>10, <1>11, <1>12 DEF Abs
<1>14. NearlyRead(read, x)
  BY <1>13, Zenon DEF NearlyRead, halves
<1> QED BY <1>8, <1>14 DEF read, text

\* The text of a float denotes the number that scaling made of it, to half a
\* unit of the seventh digit, whatever float arithmetic made of it, for every
\* power of ten (UnityPrintFloat from the rounding on).
THEOREM UnityFloatReadsBack == Spec => []FloatReadsBack
<1>1. Init => FloatReadsBack
  BY DEF Init, Idle, FloatReadsBack
<1>2. FloatReadsBack /\ [Next]_vars => FloatReadsBack'
  <2> SUFFICES ASSUME FloatReadsBack, [Next]_vars PROVE FloatReadsBack'
    OBVIOUS
  <2>1. CASE PrintFloat
    <3>1. PICK x \in Printed, negative \in BOOLEAN :
            Calls([assertion |-> "PrintFloat", x |-> x, negative |-> negative],
                  Report(<<>>, UnityPrintFloat(x, negative)))
      BY <2>1 DEF PrintFloat
    <3>2. x \in ScaledNumbers
      BY PrintedAssumption
    <3> DEFINE read == FloatRead(UnityPrintFloat(x, negative))
    <3>3. read.negative = negative /\ NearlyRead(read, x)
      BY <3>2, FloatReport
    <3>4. call'.x = x /\ call'.negative = negative /\ outcome'.was = UnityPrintFloat(x, negative)
      BY <3>1 DEF Calls, Report, ReportAt, Outcome
    <3>5. FloatRead(outcome'.was).negative = call'.negative
          /\ NearlyRead(FloatRead(outcome'.was), call'.x)
      BY <3>3, <3>4
    <3> QED BY <3>5, Zenon DEF FloatReadsBack
  <2>2. CASE call'.assertion # "PrintFloat"
    BY <2>2 DEF FloatReadsBack
  <2>3. CASE UNCHANGED vars
    BY <2>3, Zenon DEF vars, FloatReadsBack
  <2> QED BY <2>1, <2>2, <2>3, KindOfCall DEF Next
<1> QED BY <1>1, <1>2, PTL DEF Spec
=============================================================================
