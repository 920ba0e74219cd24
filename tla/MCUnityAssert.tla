---------------------------- MODULE MCUnityAssert ----------------------------
(* The instance of UnityAssert for TLC: bytes of 2 bits, so that UNITY_INT *)
(* has 16 and an int 8, with the numbers around every boundary.            *)
EXTENDS UnityAssert

MCNumbers == {-32768, -32767, -129, -128, -9, -3, -1, 0, 1, 2, 10, 127, 255, 32767}

MCRaw(size) == {0, 1, 2^(Width(size) - 1), 2^Width(size) - 1}

\* Floats of 3 bits: 7 * 2^2 is the greatest, and the spacing is 1, 2, then 4.
MCFormat == {m * 2^e : m \in -7 .. 7, e \in 0 .. 2}

\* Sums and differences that are exact, are rounded up, down and to even, or
\* overflow.
MCFinite == {-28, -2, -1, 0, 24, 28}

\* Numbers below 1 and above 10^7: those from 2^22 on have exact halves.
MCScaledFar ==
  [n_int: {0}, halves: {2 * n + i : n \in {1000000, 1000001, 1200000, 1999999, 2000000},
                                    i \in {0, 1}},
   exact: BOOLEAN, exponent: -51 .. -7 \cup 1 .. 32]
  \cup [n_int: {0}, halves: {9999980, 13999997, 19999980, 19999998, 20000000},
        exact: {TRUE}, exponent: -51 .. -7 \cup 1 .. 32]

\* Numbers in between: an integer part, and digits of the rest.
MCScaledNear ==
  [n_int: {1000000, 1000001, 1234567, 1999999}, halves: {0, 1}, exact: BOOLEAN,
   exponent: {0}]
  \cup [n_int: {9999999, 10000000}, halves: {0}, exact: {TRUE}, exponent: {0}]
  \cup UNION {[n_int: {10^6, 12 * 10^5, 99 * 10^5},
               halves: {0, 1, 10, 10^k, 2 * 10^k - 1}, exact: BOOLEAN,
               exponent: {-k}] : k \in 2 .. 5}
  \cup [n_int: {10^6, 9 * 10^6}, halves: {0, 1, 2, 10^6, 2 * 10^6 - 1},
        exact: BOOLEAN, exponent: {-6}]

MCPrinted == MCScaledFar \cup MCScaledNear
=============================================================================
