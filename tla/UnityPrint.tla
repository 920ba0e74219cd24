------------------------------ MODULE UnityPrint ------------------------------
(***************************************************************************)
(* The numbers that unity.c prints.  A text is a sequence of characters, a *)
(* byte has ByteBits bits and a nibble half of them, so that the widths    *)
(* keep their ratios in a small instance: UNITY_INT has 8 bytes and, as on *)
(* the LP64 target, UNITY_INT_WIDTH is that of an int, 4 bytes.            *)
(***************************************************************************)
EXTENDS Integers, Sequences

CONSTANT ByteBits

ASSUME UnityPrintAssumption == ByteBits \in {2, 4, 6, 8}

Width(size) == size * ByteBits

\* How many values so many bytes have.
Values[size \in 0 .. 8] == IF size = 0 THEN 1 ELSE Values[size - 1] * 2^ByteBits

UNITY_INT_WIDTH == Width(4)
UNITY_MAX_NIBBLES == 16

Unsigned(n, size) == n % Values[size]

Signed(n, size) ==
  LET u == Unsigned(n, size)
  IN  IF 2 * u < Values[size] THEN u ELSE u - Values[size]

\* current_bit of UnityPrintMask for bit b, and whether it is in n.
CurrentBit[b \in 0 .. Width(8)] == IF b = 0 THEN 1 ELSE CurrentBit[b - 1] * 2

Bit(n, b) == (n \div CurrentBit[b]) % 2

Digits == <<"0", "1", "2", "3", "4", "5", "6", "7", "8", "9",
            "A", "B", "C", "D", "E", "F">>

\* The digits of n in a base, from place k - 1 down to 0.
InBase(n, base, k) ==
  LET quotient[i \in 1 .. k] == IF i = k THEN n ELSE quotient[i + 1] \div base
  IN  [i \in 1 .. k |-> Digits[(quotient[i] % base) + 1]]

\* The divisor after k turns of the loop that looks for the first digit.
Divisor[k \in Nat] == IF k = 0 THEN 1 ELSE Divisor[k - 1] * 10

\* How often a loop turns that goes on after k turns if k is in going.
Turns(going) ==
  LET turns[k \in Nat] == IF k \in going THEN turns[k + 1] ELSE k
  IN  turns[0]

UnityPrintNumberUnsigned(number) ==
  InBase(number, 10, Turns({k \in Nat : number \div Divisor[k] > 9}) + 1)

\* A mutant: the complement without the one.
UnityPrintNumberOnesComplement(number) ==
  IF number < 0 THEN <<"-">> \o UnityPrintNumberUnsigned(-number - 1)
  ELSE UnityPrintNumberUnsigned(number)

\* ~number + 1 in UNITY_UINT.
UnityPrintNumber(number) ==
  IF number < 0
    THEN <<"-">> \o UnityPrintNumberUnsigned(
                      Unsigned(Values[8] - 1 - Unsigned(number, 8) + 1, 8))
    ELSE UnityPrintNumberUnsigned(number)

NibbleValues == 2^(ByteBits \div 2)

UnityPrintNumberHex(number, nibbles) ==
  InBase(number, NibbleValues,
         IF nibbles > UNITY_MAX_NIBBLES THEN UNITY_MAX_NIBBLES ELSE nibbles)

UnityPrintMask(mask, number) ==
  [i \in 1 .. UNITY_INT_WIDTH |->
     LET b == UNITY_INT_WIDTH - i
     IN  IF Bit(mask, b) = 0 THEN "X" ELSE Digits[Bit(number, b) + 1]]

\* The character between the quotes, or its escape, is written as its code.
UnityPrintIntNumberByStyle(number, style) ==
  CASE style.range = "INT" -> UnityPrintNumber(number)
    [] style.range = "CHAR" -> <<"'">> \o UnityPrintNumber(number) \o <<"'">>
    [] OTHER -> <<>>

UnityPrintUintNumberByStyle(number, style) ==
  IF style.range = "UINT" THEN UnityPrintNumberUnsigned(number)
  ELSE <<"0", "x">> \o UnityPrintNumberHex(number, style.size * 2)

-----------------------------------------------------------------------------
(* UnityPrintFloat of a finite float that is not 0.                        *)

sig_digits == 7
min_scaled == 10^6
max_scaled == 10^7

\* What scaling makes of it: n_int and number, times 10^exponent.  Its loops
\* multiply and divide floats, which rounds, so any number between the limits
\* is possible.  number is given by its halves, and whether it is exactly so
\* many or between that and one more.
ScaledNumbers ==
  {x \in [n_int: 0 .. max_scaled, halves: 0 .. 2 * max_scaled,
          exact: BOOLEAN, exponent: Int] :
     /\ 2 * min_scaled <= 2 * x.n_int + x.halves
     /\ 2 * x.n_int + x.halves + (IF x.exact THEN 0 ELSE 1) <= 2 * max_scaled}

\* A mutant: the rest is cut off.
RoundedDown(x) == x.halves \div 2

\* number to the nearest, or the even one of two.
Rounded(x) ==
  LET n == (x.halves + 1) \div 2
  IN  IF n % 2 = 1 /\ x.exact /\ x.halves % 2 = 1 THEN n - 1 ELSE n

\* Rounding made one digit too many.
Carried(s) ==
  IF s.n >= max_scaled THEN [n |-> min_scaled, exponent |-> s.exponent + 1] ELSE s

\* Digits behind the point before zeros are cut off.
DecimalPlaces(exponent) ==
  IF exponent \in -(sig_digits + 3) .. 0 THEN -exponent ELSE sig_digits - 1

TrailingZeros(n, places) == Turns({k \in Nat : k < places /\ n % 10^(k + 1) = 0})

Places(n) == Len(UnityPrintNumberUnsigned(n))

AtLeast(k, n) == IF n > k THEN n ELSE k

PointBefore(digits, decimals) ==
  SubSeq(digits, 1, Len(digits) - decimals)
  \o IF decimals = 0 THEN <<>>
     ELSE <<".">> \o SubSeq(digits, Len(digits) - decimals + 1, Len(digits))

PrintDecimal(n, decimals) ==
  PointBefore(InBase(n, 10, AtLeast(decimals + 1, Places(n))), decimals)

PrintExponent(k) ==
  IF k = 0 THEN <<>>
  ELSE LET magnitude == IF k < 0 THEN -k ELSE k
       IN  <<"e", IF k < 0 THEN "-" ELSE "+">>
           \o InBase(magnitude, 10, AtLeast(2, Places(magnitude)))

PrintWithout(zeros, s, places) ==
  PrintDecimal(s.n \div 10^zeros, places - zeros) \o PrintExponent(s.exponent + places)

PrintScaled(s) ==
  LET places == DecimalPlaces(s.exponent)
  IN  PrintWithout(TrailingZeros(s.n, places), s, places)

UnityPrintFloat(x, negative) ==
  (IF negative THEN <<"-">> ELSE <<>>)
  \o PrintScaled(Carried([n |-> x.n_int + Rounded(x), exponent |-> x.exponent]))

-----------------------------------------------------------------------------
(* What a reader makes of a text.                                          *)

DigitValue == [d \in {Digits[i] : i \in 1 .. 16} |-> CHOOSE v \in 0 .. 15 : Digits[v + 1] = d]

\* The number that digits stand for in a base.
ValueIn(digits, base) ==
  LET v[i \in 0 .. Len(digits)] ==
        IF i = 0 THEN 0 ELSE v[i - 1] * base + DigitValue[digits[i]]
  IN  v[Len(digits)]

IsPrefix(s, text) == Len(s) <= Len(text) /\ SubSeq(text, 1, Len(s)) = s

\* The number a text of one of the styles denotes.
NumberRead(text) ==
  LET From(i) == SubSeq(text, i, Len(text))
  IN  IF IsPrefix(<<"0", "x">>, text) THEN ValueIn(From(3), NibbleValues)
      ELSE IF IsPrefix(<<"-">>, text) THEN -ValueIn(From(2), 10)
      ELSE ValueIn(text, 10)

\* The position of a character in a text, or the one behind it.
Position(c, text) ==
  LET at == {i \in 1 .. Len(text) : text[i] = c}
  IN  IF at = {} THEN Len(text) + 1 ELSE CHOOSE i \in at : TRUE

\* The number a text of UnityPrintFloat denotes: m * 10^e, with a sign.
FloatRead(text) ==
  LET negative == IsPrefix(<<"-">>, text)
      t == IF negative THEN Tail(text) ELSE text
      e == Position("e", t)
      point == Position(".", SubSeq(t, 1, e - 1))
      fraction == SubSeq(t, point + 1, e - 1)
      power == IF e > Len(t) THEN 0
               ELSE ValueIn(SubSeq(t, e + 2, Len(t)), 10)
                    * IF t[e + 1] = "-" THEN -1 ELSE 1
  IN  [negative |-> negative,
       m |-> ValueIn(SubSeq(t, 1, point - 1) \o fraction, 10),
       e |-> power - Len(fraction)]
=============================================================================
