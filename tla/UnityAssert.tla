------------------------------ MODULE UnityAssert -----------------------------
(***************************************************************************)
(* The assertions of unity.c.  In each state one assertion has been called *)
(* (call), in a test not decided before, and outcome is what came of it;   *)
(* module UnityRunner has what a failure does to the test.                 *)
(*                                                                         *)
(* Memory is a sequence of bytes, little endian; NULL is <<>>.  A string   *)
(* is a sequence of characters up to and including NUL = 0.  A float is an *)
(* integer of Format, in units of the least positive float, an infinity or *)
(* NaN, and the result of an operation is rounded; 0 has no sign.          *)
(***************************************************************************)
EXTENDS UnityPrint

CONSTANTS
  Numbers,      \* values of expressions given to scalar assertions
  Deltas,
  Raw(_),       \* Raw(size): bit patterns of array elements
  MaxLength,    \* bound on arrays, strings, and a memory element in bytes
  Chars,        \* characters without NUL
  Format,       \* all finite floats
  Huge,         \* the power of two above them, from where on sums overflow
  Precision,    \* 1 / UNITY_FLOAT_PRECISION
  Finite,       \* finite floats given to assertions
  Printed       \* what float arithmetic makes of floats to be printed

ASSUME UnityAssertAssumption ==
  /\ Numbers \subseteq Int
  /\ Deltas \subseteq Nat
  /\ \A size \in {1, 2, 4, 8} : Raw(size) \subseteq 0 .. Values[size] - 1
  /\ MaxLength \in Nat
  /\ Chars \subseteq Nat \ {0}

ASSUME FormatAssumption ==
  /\ Format \subseteq Int /\ 0 \in Format
  /\ Huge \in Nat
  /\ \A v \in Format : -v \in Format /\ v < Huge
  /\ Finite \subseteq Format
  /\ Precision \in Nat \ {0}

ASSUME PrintedAssumption == Printed \subseteq ScaledNumbers

NULL == <<>>

VARIABLES call, outcome

Idle == [assertion |-> "none"]

Outcome(failed, why, element, byte, expected, was) ==
  [failed |-> failed, why |-> why, element |-> element, byte |-> byte,
   expected |-> expected, was |-> was]

Pass == Outcome(FALSE, "", 0, 0, <<>>, <<>>)

Failure(why) == Outcome(TRUE, why, 0, 0, <<>>, <<>>)

\* Elements, or bytes of elements, that differ, without and with their texts.
DifferAt(element, byte) == Outcome(TRUE, "values", element, byte, <<>>, <<>>)

ReportAt(element, e, a) == Outcome(TRUE, "values", element, 0, e, a)

Report(e, a) == ReportAt(0, e, a)

-----------------------------------------------------------------------------
(* Scalars.                                                                *)

Style == [range: {"INT", "UINT", "HEX"}, size: {1, 2, 4, 8}]
         \cup [range: {"CHAR"}, size: {1}]

IsInt(style) == style.range \in {"INT", "CHAR"}

\* What the macros of unity_internals.h make of an argument, cast to a type
\* of so many bytes.
Cast(style, size, v) == IF IsInt(style) THEN Signed(v, size) ELSE Unsigned(v, size)

\* UNITY_DISPLAY_STYLE_INT and _UINT name 4 bytes, and their arguments keep 8.
CastSizes(style) == {style.size} \cup IF style \in [range: {"INT", "UINT"}, size: {4}]
                                      THEN {8} ELSE {}

PrintByStyle(v, style) ==
  IF IsInt(style) THEN UnityPrintIntNumberByStyle(v, style)
  ELSE UnityPrintUintNumberByStyle(v, style)

UnityAssertBits(mask, expected, actual) ==
  LET Masked(v) == {b \in 0 .. Width(8) - 1 : Bit(mask, b) = 1 /\ Bit(v, b) = 1}
  IN  IF Masked(expected) # Masked(actual)
        THEN Report(UnityPrintMask(mask, expected), UnityPrintMask(mask, actual))
        ELSE Pass

\* UnityAssertEqualIntNumber and UnityAssertEqualUintNumber.
UnityAssertEqualNumber(expected, actual, style) ==
  IF expected # actual
    THEN Report(PrintByStyle(expected, style), PrintByStyle(actual, style))
    ELSE Pass

\* TEST_ASSERT_EQUAL_PTR: the function for signed numbers, the style for hex.
UnityAssertEqualPtr(expected, actual) ==
  LET style == [range |-> "HEX", size |-> 8]
  IN  IF expected # actual
        THEN Report(UnityPrintIntNumberByStyle(expected, style),
                    UnityPrintIntNumberByStyle(actual, style))
        ELSE Pass

\* UNITY_COMPARISON_T as the set of its bits; no macro uses EQUAL_TO alone.
Comparison == {{"GREATER_THAN"}, {"GREATER_THAN", "EQUAL_TO"},
               {"SMALLER_THAN"}, {"SMALLER_THAN", "EQUAL_TO"}, {"NOT_EQUAL"}}

\* UnityAssertIntGreaterOrLessOrEqualNumber and ...Uint...
UnityAssertGreaterOrLessOrEqualNumber(threshold, actual, compare, style) ==
  IF \/ threshold = actual /\ "EQUAL_TO" \notin compare
     \/ actual > threshold /\ "SMALLER_THAN" \in compare
     \/ actual < threshold /\ "GREATER_THAN" \in compare
    THEN Report(PrintByStyle(actual, style), PrintByStyle(threshold, style))
    ELSE Pass

\* A mutant: the difference is signed.
SignedDistance(a, b) == IF a > b THEN Signed(a - b, 8) ELSE Signed(b - a, 8)

\* The difference, in UNITY_UINT, of the greater and the smaller.
Distance(a, b) ==
  IF a > b THEN Unsigned(Unsigned(a, 8) - Unsigned(b, 8), 8)
  ELSE Unsigned(Unsigned(b, 8) - Unsigned(a, 8), 8)

\* UnityAssertIntNumbersWithin and UnityAssertUintNumbersWithin.
UnityAssertNumbersWithin(delta, expected, actual, style) ==
  IF Distance(actual, expected) > delta
    THEN Report(PrintByStyle(expected, style), PrintByStyle(actual, style))
    ELSE Pass

-----------------------------------------------------------------------------
(* Arrays.  c is the call: expected, actual and whether these are the same  *)
(* pointer, num_elements, and whether expected is an array or one value.    *)

ArrayPrologue(c, rest) ==
  IF c.num_elements = 0 THEN Failure("pointless")
  ELSE IF c.same \/ (c.expected = NULL /\ c.actual = NULL) THEN Pass
  ELSE IF c.expected = NULL THEN Failure("expected is NULL")
  ELSE IF c.actual = NULL THEN Failure("actual is NULL")
  ELSE rest

Load(memory, at, size) ==
  LET u[i \in 0 .. size] ==
        IF i = 0 THEN 0 ELSE u[i - 1] + memory[at + i] * Values[i - 1]
  IN  u[size]

\* A mutant: the sign extension of the load stays.
SignedElement(memory, at, style) == Signed(Load(memory, at, style.size), style.size)

\* expect_val and actual_val of both functions on arrays; 8 bytes stay signed.
Element(memory, at, style) ==
  LET v == Signed(Load(memory, at, style.size), style.size)
  IN  IF ~ IsInt(style) /\ style.size < 8 THEN Unsigned(v, style.size) ELSE v

\* The offset of the pointer to element j of expected.
ExpectedOffset(c, j, size) == IF c.flags = "ARRAY_TO_ARRAY" THEN j * size ELSE 0

\* The values at element j, and whether they are a failure.
ExpectVal(c, j) ==
  Element(c.expected, ExpectedOffset(c, j, c.style.size), c.style)

ActualVal(c, j) == Element(c.actual, j * c.style.size, c.style)

ElementFails(c, j) ==
  LET Compared(v) == IF IsInt(c.style) THEN v ELSE Unsigned(v, 8)
  IN  IF c.assertion = "EqualIntArray" THEN ExpectVal(c, j) # ActualVal(c, j)
      ELSE Distance(Compared(ActualVal(c, j)), Compared(ExpectVal(c, j))) > c.delta

\* The loops of UnityAssertEqualIntArray and UnityAssertNumbersArrayWithin.
Elements(c) ==
  LET element[j \in 0 .. c.num_elements] ==
        IF j = c.num_elements THEN Pass
        ELSE IF ElementFails(c, j)
          THEN ReportAt(j, UnityPrintIntNumberByStyle(ExpectVal(c, j), c.style),
                        UnityPrintIntNumberByStyle(ActualVal(c, j), c.style))
        ELSE element[j + 1]
  IN  element[0]

UnityAssertNumbersArray(c) == ArrayPrologue(c, Elements(c))

\* The loop over the bytes of element j, and the rest if they are equal.
MemoryElement(c, j, rest) ==
  LET ptr_exp == ExpectedOffset(c, j, c.length)
      ptr_act == j * c.length
      byte[i \in 0 .. c.length] ==
        IF i = c.length THEN rest
        ELSE IF c.expected[ptr_exp + i + 1] # c.actual[ptr_act + i + 1]
          THEN DifferAt(j, i)
        ELSE byte[i + 1]
  IN  byte[0]

\* The loop over n elements.
Memory(c, n) ==
  LET element[j \in 0 .. n] ==
        IF j = n THEN Pass ELSE MemoryElement(c, j, element[j + 1])
  IN  element[0]

\* A mutant: the last of several elements is not looked at.
UnityAssertMemoryShort(c) ==
  IF c.num_elements < 2 \/ c.length = 0 THEN Pass
  ELSE ArrayPrologue(c, Memory(c, c.num_elements - 1))

UnityAssertEqualMemory(c) ==
  IF c.num_elements = 0 \/ c.length = 0 THEN Failure("pointless")
  ELSE ArrayPrologue(c, Memory(c, c.num_elements))

-----------------------------------------------------------------------------
(* Strings.                                                                *)

\* A mutant: the comparison ends with the shorter string.
BothGoOn(expected, actual, i) == expected[i + 1] # 0 /\ actual[i + 1] # 0

\* The condition of the loop: a character is left.
GoesOn(expected, actual, i) == expected[i + 1] # 0 \/ actual[i + 1] # 0

\* CurrentTestFailed after the loop over the characters.
CharactersDiffer(expected, actual, length) ==
  LET failed[i \in 0 .. length] ==
        IF i = length THEN 0
        ELSE IF ~ GoesOn(expected, actual, i) THEN 0
        ELSE IF expected[i + 1] # actual[i + 1] THEN 1
        ELSE failed[i + 1]
  IN  failed[0]

StringsDiffer(expected, actual, length) ==
  IF expected # NULL /\ actual # NULL
    THEN CharactersDiffer(expected, actual, length) = 1
    ELSE expected # NULL \/ actual # NULL

Unlimited == MaxLength + 2   \* more characters than any string has

\* UnityAssertEqualString, and with a length UnityAssertEqualStringLen.
UnityAssertEqualString(expected, actual, length) ==
  IF StringsDiffer(expected, actual, length) THEN Failure("values") ELSE Pass

\* expd for element j.
Expd(c, j) == IF c.flags = "ARRAY_TO_ARRAY" THEN c.expected[j + 1] ELSE c.expected

\* The loop of UnityAssertEqualStringArray.
EqualStrings(c) ==
  LET element[j \in 0 .. c.num_elements] ==
        IF j = c.num_elements THEN Pass
        ELSE IF StringsDiffer(Expd(c, j), c.actual[j + 1], Unlimited)
          THEN DifferAt(j, 0)
        ELSE element[j + 1]
  IN  element[0]

UnityAssertEqualStringArray(c) == ArrayPrologue(c, EqualStrings(c))

-----------------------------------------------------------------------------
(* Floats.                                                                 *)

Fl(v) == [kind |-> "finite", v |-> v]
Inf(s) == [kind |-> "inf", v |-> s]
NaN == [kind |-> "nan", v |-> 0]
Floats == {Fl(v) : v \in Finite} \cup {Inf(1), Inf(-1), NaN}

FNeg(x) == [x EXCEPT !.v = -x.v]

FLess(x, y) ==
  /\ x # NaN /\ y # NaN
  /\ IF x.kind = y.kind THEN x.v < y.v
     ELSE IF x.kind = "inf" THEN x.v < 0 ELSE y.v > 0

Abs(n) == IF n < 0 THEN -n ELSE n

Representable == Format \cup {-Huge, Huge}

\* The numbers nearest to n / d, and of two of them the one that ends in 0.
Nearest(n, d) ==
  {v \in Representable : \A w \in Representable : Abs(v * d - n) <= Abs(w * d - n)}

Even(nearest) ==
  {v \in nearest : \A w \in nearest \ {v} : v % (2 * Abs(v - w)) = 0}

\* n / d as float arithmetic yields it.
Round ==
  [d \in {1, Precision} |-> [n \in -(2 * Huge) .. 2 * Huge |->
     CHOOSE v \in Nearest(n, d) : Even(Nearest(n, d)) # {} => v \in Even(Nearest(n, d))]]

FloatOf(v) == IF v = Huge THEN Inf(1) ELSE IF v = -Huge THEN Inf(-1) ELSE Fl(v)

FAdd(x, y) ==
  IF x = NaN \/ y = NaN \/ (x.kind = "inf" /\ y = FNeg(x)) THEN NaN
  ELSE IF x.kind = "inf" THEN x
  ELSE IF y.kind = "inf" THEN y
  ELSE FloatOf(Round[1][x.v + y.v])

FAbs(x) == IF FLess(x, Fl(0)) THEN FNeg(x) ELSE x

\* x * UNITY_FLOAT_PRECISION
Tolerance(x) == IF x.kind = "finite" THEN FloatOf(Round[Precision][x.v]) ELSE x

\* A mutant: nothing but the distance.
WithinByDistance(delta, expected, actual) ==
  ~ FLess(FAbs(delta), FAbs(FAdd(actual, FNeg(expected))))

UnityFloatsWithin(delta, expected, actual) ==
  \/ expected.kind = "inf" /\ actual = expected
  \/ expected = NaN /\ actual = NaN
  \/ LET diff == FAbs(FAdd(actual, FNeg(expected)))
     IN  diff.kind = "finite" /\ ~ FLess(FAbs(delta), diff)

Verdict(ok) == IF ok THEN Pass ELSE Failure("values")

UnityAssertFloatsWithin(delta, expected, actual) ==
  Verdict(UnityFloatsWithin(delta, expected, actual))

UnityAssertFloatsNotWithin(delta, expected, actual) ==
  Verdict(~ UnityFloatsWithin(delta, expected, actual))

UnityAssertGreaterOrLessFloat(threshold, actual, compare) ==
  Verdict(\/ /\ "SMALLER_THAN" \in compare => FLess(actual, threshold)
             /\ "GREATER_THAN" \in compare => FLess(threshold, actual)
          \/ /\ "EQUAL_TO" \in compare
             /\ UnityFloatsWithin(Tolerance(threshold), threshold, actual))

Traits == {"INF", "NEG_INF", "NAN", "DET", "INVALID"}

UnityAssertFloatSpecial(actual, trait, should_be_trait) ==
  LET is_trait == CASE trait = "INF" -> actual.kind = "inf" /\ FLess(Fl(0), actual)
                    [] trait = "NEG_INF" -> actual.kind = "inf" /\ FLess(actual, Fl(0))
                    [] trait = "NAN" -> actual = NaN
                    [] trait = "DET" -> actual.kind = "finite"
                    [] trait = "INVALID" -> ~ should_be_trait
  IN  Verdict(is_trait = should_be_trait)

\* Elements j are within in_delta and the tolerance of the expected one.
FloatElementWithin(c, j) ==
  LET e == c.expected[IF c.flags = "ARRAY_TO_ARRAY" THEN j + 1 ELSE 1]
  IN  UnityFloatsWithin(FAdd(FAbs(c.delta), FAbs(Tolerance(e))), e, c.actual[j + 1])

\* The loop of UnityAssertWithinFloatArray.
FloatElements(c) ==
  LET element[j \in 0 .. c.num_elements] ==
        IF j = c.num_elements THEN Pass
        ELSE IF FloatElementWithin(c, j) THEN element[j + 1]
        ELSE DifferAt(j, 0)
  IN  element[0]

UnityAssertWithinFloatArray(c) ==
  IF c.num_elements # 0 /\ c.delta.kind = "inf" THEN Pass
  ELSE IF c.delta = NaN THEN Failure("pointless")
  ELSE ArrayPrologue(c, FloatElements(c))
-----------------------------------------------------------------------------
(* The calls a test may make.                                              *)

Init ==
  /\ call = Idle
  /\ outcome = Pass

Calls(c, o) ==
  /\ call' = c
  /\ outcome' = o

\* The test, or the next one, goes on.
Return ==
  /\ call # Idle
  /\ call' = Idle
  /\ outcome' = Pass

Bits ==
  /\ call = Idle
  /\ \E mask, e, a \in Numbers :
       Calls([assertion |-> "Bits", mask |-> mask, expected |-> e, actual |-> a],
             UnityAssertBits(Signed(mask, 8), Signed(e, 8), Signed(a, 8)))

TwoNumbers(assertion, style, e, a, compare, delta) ==
  [assertion |-> assertion, style |-> style, expected |-> e, actual |-> a,
   compare |-> compare, delta |-> delta]

Scalar ==
  /\ call = Idle
  /\ \E style \in Style, v, w \in Numbers : \E size \in CastSizes(style) :
       LET e == Cast(style, size, v)
           a == Cast(style, size, w)
       IN  \/ Calls(TwoNumbers("Equal", style, e, a, {}, 0),
                    UnityAssertEqualNumber(e, a, style))
           \/ \E compare \in Comparison :
                Calls(TwoNumbers("Compare", style, e, a, compare, 0),
                      UnityAssertGreaterOrLessOrEqualNumber(e, a, compare, style))
           \/ \E delta \in Deltas :
                LET d == Unsigned(delta, size)
                IN  Calls(TwoNumbers("Within", style, e, a, {}, d),
                          UnityAssertNumbersWithin(d, e, a, style))

EqualPtr ==
  /\ call = Idle
  /\ \E v, w \in Numbers :
       LET e == Signed(v, 8)
           a == Signed(w, 8)
       IN  Calls([assertion |-> "EqualPtr", expected |-> e, actual |-> a],
                 UnityAssertEqualPtr(e, a))

Flags == {"ARRAY_TO_ARRAY", "ARRAY_TO_VAL"}

\* Expected and actual elements: n of each or one value, one NULL, or both the
\* same pointer.
ArrayPairs(S, T, n, flags) ==
  LET given == [1 .. (IF flags = "ARRAY_TO_ARRAY" THEN n ELSE 1) -> S]
      found == [1 .. n -> T]
  IN  [expected: given \cup {NULL}, actual: found \cup {NULL}, same: {FALSE}]
      \cup IF flags = "ARRAY_TO_VAL" THEN {}
           ELSE {[expected |-> s, actual |-> s, same |-> TRUE] : s \in found}

\* UnityNumToPtr, or an array of the test: the bytes of elements of that size.
Bytes(elements, size) ==
  [i \in 1 .. size * Len(elements) |->
     Unsigned(elements[(i - 1) \div size + 1] \div Values[(i - 1) % size], 1)]

TwoArrays(assertion, style, flags, num_elements, v, delta) ==
  [assertion |-> assertion, style |-> style, flags |-> flags,
   num_elements |-> num_elements, same |-> v.same, elements |-> v,
   expected |-> Bytes(v.expected, style.size), actual |-> Bytes(v.actual, style.size),
   delta |-> delta]

NumbersArray ==
  /\ call = Idle
  /\ \E style \in Style, flags \in Flags, n \in 1 .. MaxLength :
     \E v \in ArrayPairs(Raw(style.size), Raw(style.size), n, flags), num_elements \in {0, n} :
       \/ LET c == TwoArrays("EqualIntArray", style, flags, num_elements, v, 0)
          IN  Calls(c, UnityAssertNumbersArray(c))
       \/ \E delta \in Deltas :
            LET c == TwoArrays("ArrayWithin", style, flags, num_elements, v,
                               Unsigned(delta, style.size))
            IN  Calls(c, UnityAssertNumbersArray(c))

\* Elements of so many bytes, one after the other.
Flat(elements, length) ==
  [i \in 1 .. length * Len(elements) |->
     elements[(i - 1) \div length + 1][((i - 1) % length) + 1]]

EqualMemory ==
  /\ call = Idle
  /\ \E flags \in Flags, n \in 1 .. MaxLength, length \in 0 .. MaxLength :
     \E v \in ArrayPairs([1 .. length -> {0, 1}], [1 .. length -> {0, 1}], n, flags),
        num_elements \in {0, n} :
       LET c == [assertion |-> "EqualMemory", flags |-> flags, length |-> length,
                 num_elements |-> num_elements, same |-> v.same, elements |-> v,
                 expected |-> Flat(v.expected, length),
                 actual |-> Flat(v.actual, length)]
       IN  Calls(c, UnityAssertEqualMemory(c))

Strings == {Append(s, 0) : s \in UNION {[1 .. n -> Chars] : n \in 0 .. MaxLength}}

EqualString ==
  /\ call = Idle
  /\ \E length \in 0 .. MaxLength + 1 \cup {Unlimited} :
     \E e, a \in Strings \cup {NULL} \cup
                 IF length = Unlimited THEN {} ELSE [1 .. length -> Chars] :
       Calls([assertion |-> "EqualString", expected |-> e, actual |-> a, length |-> length],
             UnityAssertEqualString(e, a, length))

EqualStringArray ==
  /\ call = Idle
  /\ \E flags \in Flags, n \in 1 .. MaxLength :
     \E v \in ArrayPairs(Strings \cup IF flags = "ARRAY_TO_ARRAY" THEN {NULL} ELSE {},
                         Strings \cup {NULL}, n, flags),
        num_elements \in {0, n} :
       LET c == [assertion |-> "EqualStringArray", flags |-> flags,
                 num_elements |-> num_elements, same |-> v.same, actual |-> v.actual,
                 elements |-> v,
                 expected |-> IF flags = "ARRAY_TO_VAL" /\ v.expected # NULL
                              THEN v.expected[1] ELSE v.expected]
       IN  Calls(c, UnityAssertEqualStringArray(c))

TwoFloats(assertion, e, a, delta, compare) ==
  [assertion |-> assertion, expected |-> e, actual |-> a, delta |-> delta,
   compare |-> compare]

Float ==
  /\ call = Idle
  /\ \E e, a \in Floats :
       \/ \E delta \in Floats \cup {Tolerance(e)} :
            \/ Calls(TwoFloats("FloatsWithin", e, a, delta, {}),
                     UnityAssertFloatsWithin(delta, e, a))
            \/ Calls(TwoFloats("FloatsNotWithin", e, a, delta, {}),
                     UnityAssertFloatsNotWithin(delta, e, a))
       \/ \E compare \in Comparison \ {{"NOT_EQUAL"}} :
            Calls(TwoFloats("FloatCompare", e, a, NaN, compare),
                  UnityAssertGreaterOrLessFloat(e, a, compare))

FloatSpecial ==
  /\ call = Idle
  /\ \E x \in Floats, trait \in Traits, should_be_trait \in BOOLEAN :
       Calls([assertion |-> "FloatSpecial", actual |-> x, trait |-> trait,
              should_be_trait |-> should_be_trait],
             UnityAssertFloatSpecial(x, trait, should_be_trait))

FloatArray ==
  /\ call = Idle
  /\ \E flags \in Flags, n \in 1 .. MaxLength, delta \in Floats :
     \E v \in ArrayPairs(Floats, Floats, n, flags), num_elements \in {0, n} :
       LET c == [assertion |-> "FloatArray", flags |-> flags, delta |-> delta,
                 num_elements |-> num_elements, same |-> v.same, elements |-> v,
                 expected |-> v.expected, actual |-> v.actual]
       IN  Calls(c, UnityAssertWithinFloatArray(c))

\* The report of a float: here for its text alone.
PrintFloat ==
  /\ call = Idle
  /\ \E x \in Printed, negative \in BOOLEAN :
       Calls([assertion |-> "PrintFloat", x |-> x, negative |-> negative],
             Report(<<>>, UnityPrintFloat(x, negative)))

Next ==
  \/ Bits \/ Scalar \/ EqualPtr \/ NumbersArray \/ EqualMemory \/ EqualString
  \/ EqualStringArray \/ Float \/ FloatSpecial \/ FloatArray \/ PrintFloat
  \/ Return

vars == <<call, outcome>>

Spec == Init /\ [][Next]_vars
-----------------------------------------------------------------------------
(* Properties.                                                             *)

Holds(compare, a, t) ==
  \/ "EQUAL_TO" \in compare /\ a = t
  \/ "GREATER_THAN" \in compare /\ a > t
  \/ "SMALLER_THAN" \in compare /\ a < t
  \/ "NOT_EQUAL" \in compare /\ a # t

\* Comparisons and distances are those of the numbers, for every width and
\* sign: no wrap-around makes distant numbers near or near numbers distant,
\* although the distance of two signed numbers does not fit their type.
NumberVerdicts ==
  /\ call.assertion = "Compare" =>
       (outcome.failed <=> ~ Holds(call.compare, call.actual, call.expected))
  /\ call.assertion = "Within" =>
       (outcome.failed <=> Abs(call.actual - call.expected) > call.delta)

\* The verdict on two arrays, and the element it names, given which elements
\* are bad, counted from 1.
ArrayOutcome(c, o, bad) ==
  IF c.num_elements = 0 THEN o.failed
  ELSE IF c.same THEN ~ o.failed
  ELSE IF NULL \in {c.elements.expected, c.elements.actual}
    THEN o.failed <=> c.elements.expected # c.elements.actual
  ELSE /\ o.failed <=> bad # {}
       /\ bad # {} => o.element + 1 \in bad /\ \A k \in bad : o.element < k

ExpectedAt(c, k) == c.elements.expected[IF c.flags = "ARRAY_TO_ARRAY" THEN k ELSE 1]
ActualAt(c, k) == c.elements.actual[k]

\* The number that a bit pattern is in the type of the assertion.
Typed(c, raw) == Cast(c.style, c.style.size, raw)

\* Arrays of numbers are compared as the numbers their elements are in the
\* type of the assertion, whatever sign extension the loads do, and a failure
\* names the first element that differs.
ArrayVerdicts ==
  call.assertion \in {"EqualIntArray", "ArrayWithin"} =>
    ArrayOutcome(call, outcome,
                 {k \in 1 .. call.num_elements :
                    Abs(Typed(call, ExpectedAt(call, k)) - Typed(call, ActualAt(call, k)))
                      > call.delta})

\* The failure report of an assertion on numbers (other than EQUAL_PTR, and
\* characters) shows the two values, each at its place (a comparison has the
\* actual one first), in arrays those of the element named if they are signed:
\* its texts, read back, are the numbers, the least number of the type
\* included; and two masked numbers that differ in a bit that is printed look
\* different.
ReportsReadBack ==
  outcome.failed =>
    /\ call.assertion \in {"Equal", "Compare", "Within"} /\ call.style.range # "CHAR" =>
         <<NumberRead(outcome.expected), NumberRead(outcome.was)>>
           = IF call.assertion = "Compare" THEN <<call.actual, call.expected>>
             ELSE <<call.expected, call.actual>>
    /\ /\ call.assertion \in {"EqualIntArray", "ArrayWithin"}
       /\ call.style.range = "INT" /\ outcome.why = "values"
       => /\ NumberRead(outcome.expected)
               = Typed(call, ExpectedAt(call, outcome.element + 1))
          /\ NumberRead(outcome.was)
               = Typed(call, ActualAt(call, outcome.element + 1))
    /\ call.assertion = "Bits"
       /\ (\E b \in 0 .. UNITY_INT_WIDTH - 1 :
             Bit(call.mask, b) = 1 /\ Bit(call.expected, b) # Bit(call.actual, b)) =>
         outcome.expected # outcome.was

\* What TEST_ASSERT_EQUAL_MEMORY promises of the call c with outcome o.
MemoryVerdict(c, o) ==
  IF c.length = 0 THEN o.failed
  ELSE /\ ArrayOutcome(c, o, {k \in 1 .. c.num_elements :
                                ExpectedAt(c, k) # ActualAt(c, k)})
       /\ o.why = "values" =>
            LET e == ExpectedAt(c, o.element + 1)
                a == ActualAt(c, o.element + 1)
            IN  /\ e[o.byte + 1] # a[o.byte + 1]
                /\ \A i \in 1 .. o.byte : e[i] = a[i]

\* Memory is equal iff all its bytes are, and a failure names the first byte
\* of the first element that differs.
MemoryVerdicts ==
  call.assertion = "EqualMemory" => MemoryVerdict(call, outcome)

\* The characters of s that count: those before NUL, at most length.
Counted(s, length) ==
  [i \in {k \in 1 .. Len(s) : k <= length /\ \A j \in 1 .. k : s[j] # 0} |-> s[i]]

SameString(e, a, length) ==
  IF e = NULL \/ a = NULL THEN e = a ELSE Counted(e, length) = Counted(a, length)

\* Strings are equal iff the characters before NUL, or the first ones up to
\* the length given, are; none of them is read beyond its end (that would be
\* an evaluation error).
StringVerdicts ==
  /\ call.assertion = "EqualString" =>
       (outcome.failed <=> ~ SameString(call.expected, call.actual, call.length))
  /\ call.assertion = "EqualStringArray" =>
       ArrayOutcome(call, outcome,
                    {k \in 1 .. call.num_elements :
                       ~ SameString(ExpectedAt(call, k), ActualAt(call, k), Unlimited)})

\* e and a are the same infinity, or both NaN.
SameSpecial(e, a) == e = a /\ e.kind # "finite"

\* A float that the tolerance reaches is at least their distance.
MustPass(delta, e, a) ==
  \/ SameSpecial(e, a)
  \/ /\ e.kind = "finite" /\ a.kind = "finite"
     /\ \E v \in Format : /\ Abs(a.v - e.v) <= v
                          /\ delta.kind = "inf" \/ v <= Abs(delta.v)

\* A float beyond the tolerance is at most their distance, or that is Huge.
MustFail(delta, e, a) ==
  /\ ~ SameSpecial(e, a)
  /\ e.kind = "finite" /\ a.kind = "finite" =>
       \E v \in Format \cup {Huge} :
          /\ v <= Abs(a.v - e.v)
          /\ v = Huge \/ (delta.kind = "finite" /\ Abs(delta.v) < v)

Judged(within, delta, e, a) ==
  /\ MustPass(delta, e, a) => within
  /\ MustFail(delta, e, a) => ~ within

\* The verdict on two arrays of floats.
FloatArrayJudged(c, o) ==
  IF NULL \in {c.elements.expected, c.elements.actual} THEN ArrayOutcome(c, o, {})
  ELSE \E bad \in SUBSET (1 .. c.num_elements) :
         /\ ArrayOutcome(c, o, bad)
         /\ \A k \in 1 .. c.num_elements :
              LET e == ExpectedAt(c, k)
              IN  Judged(k \notin bad, FAdd(Fl(Abs(c.delta.v)), FAbs(Tolerance(e))),
                         e, ActualAt(c, k))

\* Float arithmetic misjudges no distance that it can tell from the tolerance:
\* floats pass whose true distance is within the tolerance, an infinite one
\* included, and floats fail between whose true distance and the tolerance
\* there is another float, or whose difference overflows, whatever the
\* tolerance.  NaN is near NaN and an infinity near itself, and neither near
\* anything else.  Arrays pass unseen if the tolerance is infinite and are
\* refused if it is NaN (the scalar assertions accept a NaN, and nothing is
\* claimed of them then).
FloatVerdicts ==
  CASE call.assertion = "FloatsWithin" /\ call.delta # NaN ->
         Judged(~ outcome.failed, call.delta, call.expected, call.actual)
    [] call.assertion = "FloatsNotWithin" /\ call.delta # NaN ->
         Judged(outcome.failed, call.delta, call.expected, call.actual)
    [] call.assertion = "FloatCompare" ->
         IF \/ "GREATER_THAN" \in call.compare /\ FLess(call.expected, call.actual)
            \/ "SMALLER_THAN" \in call.compare /\ FLess(call.actual, call.expected)
           THEN ~ outcome.failed
         ELSE IF "EQUAL_TO" \in call.compare
           THEN Judged(~ outcome.failed, Tolerance(call.expected),
                       call.expected, call.actual)
         ELSE outcome.failed
    [] call.assertion = "FloatArray" ->
         IF call.delta = NaN THEN outcome.failed
         ELSE IF call.delta.kind = "inf" THEN outcome.failed <=> call.num_elements = 0
         ELSE FloatArrayJudged(call, outcome)
    [] call.assertion = "FloatSpecial" ->
         outcome.failed <=>
           \/ call.trait = "INVALID"
           \/ call.should_be_trait #
                (call.actual \in CASE call.trait = "INF" -> {Inf(1)}
                                   [] call.trait = "NEG_INF" -> {Inf(-1)}
                                   [] call.trait = "NAN" -> {NaN}
                                   [] call.trait = "DET" -> {Fl(v) : v \in Finite})
    [] OTHER -> TRUE

\* The text read denotes a whole number of the units of x, at most half a unit
\* from the scaled number.
NearlyRead(read, x) ==
  LET halves == 2 * (read.m * 10^(read.e - x.exponent)) - 2 * x.n_int
  IN  IF x.exact THEN Abs(halves - x.halves) <= 1
      ELSE halves \in {x.halves, x.halves + 1}

\* The text of a float denotes the number that scaling made of it, to half a
\* unit of the seventh digit: rounding with its ties and its carry, the place
\* of the point, the zeros cut off and the exponent fit together, and nothing
\* is lost but what the float operations of the scaling lose.
FloatReadsBack ==
  call.assertion = "PrintFloat" =>
    LET read == FloatRead(outcome.was)
    IN  read.negative = call.negative /\ NearlyRead(read, call.x)
=============================================================================
