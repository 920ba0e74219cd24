--------------------------- MODULE QspiLutProofs ---------------------------
(***************************************************************************)
(* Theorems about QspiLut, for every table, size and watermark.            *)
(***************************************************************************)
EXTENDS QspiLut, TLAPS

\* The LUT holds the first n words of the table of prog.
Copied(n) == \A w \in 0 .. n - 1 : lut[w] = TableWord(prog, w)

\* What the volatile build keeps: the LUT is unlocked while it is copied,
\* locked again when a QSPI_SetupLut has returned, and the words copied so
\* far are those of the table.
LutInv ==
  build = "volatile" =>
    /\ pc \in {"unlock_key", "unlock_cr"} => pos = 0
    /\ pc = "unlock_cr" => armed
    /\ pc = "copy" => ~ locked /\ Copied(pos)
    /\ pc \in {"lock_key", "lock_cr"} => Copied(TableWords(prog))
    /\ pc = "lock_cr" => armed
    /\ pc = "ready" => (setup => locked) /\ Copied(TableWords(prog))
    /\ pc = "aborted" => (setup => locked)
    /\ pc = "ready" /\ ~ setup => prog = <<>>
    /\ pc = "start" => ~ setup /\ prog = <<>>

IInv == TypeOK /\ LutInv

-----------------------------------------------------------------------------

\* FLEXSPI_LUT_OPERAND, _NUM_PADS and _OPCODE fit an instruction into half a
\* word, and lose nothing of it.
LEMMA PackUnpack ==
  ASSUME NEW i \in Instr
  PROVE  Pack(i) \in Half /\ Unpack(Pack(i)) = i
  <1> DEFINE a == i.opcode  b == i.pads  c == i.operand
  <1>1. a \in 0 .. 63 /\ b \in 0 .. 3 /\ c \in 0 .. 255
    BY DEF Instr
  <1>2. i = [opcode |-> a, pads |-> b, operand |-> c]
    BY DEF Instr
  <1>3. a % 64 = a /\ b % 4 = b /\ c % 256 = c
    BY <1>1
  <1>4. Pack(i) = a * 1024 + b * 256 + c
    BY <1>3 DEF Pack
  <1> HIDE DEF a, b, c
  <1>5. Pack(i) \in Half
    <2>1. a \in Int /\ b \in Int /\ c \in Int /\ 0 <= a /\ 0 <= b /\ 0 <= c
          /\ a <= 63 /\ b <= 3 /\ c <= 255
      BY <1>1
    <2>2. Pack(i) \in Int /\ 0 <= Pack(i) /\ Pack(i) <= MaxHalf
      BY <1>4, <2>1 DEF MaxHalf
    <2>3. MaxHalf \in Int
      BY DEF MaxHalf
    <2> QED
      BY <2>2, <2>3 DEF Half
  <1>6. Pack(i) \div 1024 = a
    BY <1>1, <1>4
  <1>7. Pack(i) \div 256 = 4 * a + b
    BY <1>1, <1>4
  <1>8. Pack(i) % 256 = c
    BY <1>1, <1>4
  <1>9. (4 * a + b) % 4 = b
    BY <1>1
  <1> QED
    BY <1>2, <1>5, <1>6, <1>7, <1>8, <1>9 DEF Unpack

\* A word of a compiled table is a word, and its halves are the two
\* instructions of the source.
LEMMA TableWordType ==
  ASSUME NEW p \in Seq(LutSequence), NEW w \in 0 .. TableWords(p) - 1
  PROVE  TableWord(p, w) \in Word
  <1>1. (w \div 4) + 1 \in 1 .. Len(p)
    BY DEF TableWords
  <1>2. w % 4 \in 0 .. 3
    BY DEF TableWords
  <1>3. p[(w \div 4) + 1] \in LutSequence
    BY <1>1
  <1>4. /\ p[(w \div 4) + 1][2 * (w % 4) + 1] \in Instr
        /\ p[(w \div 4) + 1][2 * (w % 4) + 2] \in Instr
    <2> DEFINE s == p[(w \div 4) + 1]  n == 2 * (w % 4)
    <2>1. n + 1 \in 1 .. 8 /\ n + 2 \in 1 .. 8
      BY <1>2
    <2>2. s \in [1 .. 8 -> Instr]
      BY <1>3 DEF LutSequence
    <2> HIDE DEF s, n
    <2>3. s[n + 1] \in Instr /\ s[n + 2] \in Instr
      BY <2>1, <2>2
    <2> QED
      BY <2>3 DEF s, n
  <1> QED
    BY <1>4, PackUnpack DEF TableWord, FLEXSPI_LUT_SEQ, Word

\* The controller reads instruction i of sequence s from the word that
\* LUT_IDX names.
LEMMA TableWordDecodes ==
  ASSUME NEW p \in Seq(LutSequence), NEW s \in 1 .. Len(p), NEW i \in 1 .. 8
  PROVE  /\ LUT_IDX(s - 1, (i - 1) \div 2) \in 0 .. TableWords(p) - 1
         /\ Unpack(TableWord(p, LUT_IDX(s - 1, (i - 1) \div 2))[2 - (i % 2)]) = p[s][i]
  <1> DEFINE w == LUT_IDX(s - 1, (i - 1) \div 2)
  <1>1. (i - 1) \div 2 \in 0 .. 3
    OBVIOUS
  <1>2. w \in 0 .. TableWords(p) - 1 /\ (w \div 4) + 1 = s /\ w % 4 = (i - 1) \div 2
    <2> DEFINE n == (i - 1) \div 2
    <2>1. n \in 0 .. 3
      BY <1>1
    <2>2. w = 4 * (s - 1) + n
      BY DEF LUT_IDX
    <2> HIDE DEF n, w
    <2>3. w \in Nat /\ w \div 4 = s - 1 /\ w % 4 = n /\ w <= 4 * Len(p) - 1
      BY <2>1, <2>2
    <2> QED
      BY <2>3 DEF n, TableWords
  <1>3. p[s][i] \in Instr
    BY DEF LutSequence
  <1>4. TableWord(p, w) = <<Pack(p[s][2 * ((i - 1) \div 2) + 1]),
                            Pack(p[s][2 * ((i - 1) \div 2) + 2])>>
    BY <1>2 DEF TableWord, FLEXSPI_LUT_SEQ
  <1>5. CASE i % 2 = 1
    <2>1. 2 * ((i - 1) \div 2) + 1 = i /\ 2 - (i % 2) = 1
      BY <1>5
    <2> QED
      BY <1>2, <1>3, <1>4, <2>1, PackUnpack
  <1>6. CASE i % 2 = 0
    <2>1. 2 * ((i - 1) \div 2) + 2 = i /\ 2 - (i % 2) = 2
      BY <1>6
    <2> QED
      BY <1>2, <1>3, <1>4, <2>1, PackUnpack
  <1> QED
    BY <1>5, <1>6

-----------------------------------------------------------------------------

\* The program of a process that has not called QSPI_SetupLut is empty.
LEMMA EmptyTable ==
  /\ <<>> \in Seq(LutSequence)
  /\ TableWords(<<>>) = 0
  /\ LutWords \in Nat
  BY DEF TableWords, LutWords

\* An earlier owner's LUT satisfies the invariant.
LEMMA InitIInv == Init => IInv
  <1> SUFFICES ASSUME Init PROVE IInv
    OBVIOUS
  <1>1. Garbage \in Word
    <2>1. 65535 \in Half
      BY DEF Half, MaxHalf
    <2> QED
      BY <2>1 DEF Garbage, Word
  <1>2. TypeOK
    <2>1. prog \in Seq(LutSequence) /\ TableWords(prog) = 0 /\ pos = 0
      BY EmptyTable DEF Init
    <2>2. TableWords(prog) <= LutWords /\ pos \in 0 .. TableWords(prog)
      BY <2>1, EmptyTable
    <2> QED
      BY <1>1, <2>1, <2>2 DEF Init, TypeOK, Pcs
  <1>3. LutInv
    BY DEF Init, LutInv, Copied, TableWords
  <1> QED
    BY <1>2, <1>3 DEF IInv

\* Every step keeps the types.
LEMMA NextTypeOK ==
  ASSUME TypeOK, [Next]_lutVars
  PROVE  TypeOK'
  <1> USE DEF TypeOK, Pcs, regVars, fixedVars
  <1>1. CASE QSPI_Init
    BY <1>1 DEF QSPI_Init
  <1>2. ASSUME NEW p \in Programs, QSPI_SetupLut(p) PROVE TypeOK'
    <2>1. p \in Seq(LutSequence)
      BY QspiLutAssumption
    <2>2. TableWords(p) \in Nat
      BY <2>1 DEF TableWords
    <2>3. CASE pc = "start" \/ TableWords(p) > LutWords
      BY <1>2, <2>3 DEF QSPI_SetupLut, TableWords
    <2>4. CASE ~ (pc = "start" \/ TableWords(p) > LutWords)
      <3>1. prog' = p /\ pos' = 0 /\ pc' = "unlock_key"
        BY <1>2, <2>4 DEF QSPI_SetupLut
      <3>2. UNCHANGED <<lut, locked, armed, wmk, build, setup>>
        BY <1>2 DEF QSPI_SetupLut
      <3>3. TableWords(p) <= LutWords
        <4>1. ~ (TableWords(p) > LutWords)
          BY <2>4
        <4> QED
          BY <2>2, <4>1, EmptyTable
      <3>4. TableWords(prog)' = TableWords(p)
        BY <3>1 DEF TableWords
      <3>5. 0 \in 0 .. TableWords(p)
        BY <2>2
      <3> QED
        BY <2>1, <3>1, <3>2, <3>3, <3>4, <3>5
    <2> QED
      BY <2>3, <2>4
  <1>3. CASE UnlockKey \/ UnlockCr \/ LockKey \/ LockCr
    BY <1>3 DEF UnlockKey, UnlockCr, LockKey, LockCr
  <1>4. CASE Copy
    <2>1. CASE pos < TableWords(prog)
      <3>1. TableWords(prog) \in Nat /\ pos \in 0 .. TableWords(prog) - 1
        BY <2>1 DEF TableWords
      <3>2. TableWord(prog, pos) \in Word
        BY <3>1, TableWordType
      <3>3. pos' = pos + 1 /\ UNCHANGED <<pc, locked, armed, wmk, build, prog, setup>>
        BY <1>4, <2>1 DEF Copy
      <3>4. lut' \in [0 .. LutWords - 1 -> Word]
        BY <1>4, <2>1, <3>2 DEF Copy, StoreLut
      <3>5. pos' \in 0 .. TableWords(prog)
        BY <3>1, <3>3
      <3> QED
        BY <3>3, <3>4, <3>5 DEF TableWords
    <2>2. CASE ~ (pos < TableWords(prog))
      BY <1>4, <2>2 DEF Copy, TableWords
    <2> QED
      BY <2>1, <2>2
  <1>5. ASSUME NEW n \in Sizes, QSPI_Write(n) PROVE TypeOK'
    <2>1. Data \in Word
      <3>1. 4660 \in Half /\ 22136 \in Half
        BY DEF Half, MaxHalf
      <3> QED
        BY <3>1 DEF Data, Word
    <2> QED
      BY <1>5, <2>1 DEF QSPI_Write, TableWords
  <1>6. CASE Restart
    <2>1. prog' = <<>> /\ pos' = 0 /\ pc' = "start" /\ setup' = FALSE
          /\ UNCHANGED <<lut, locked, armed, wmk, build>>
      BY <1>6 DEF Restart
    <2>2. prog' \in Seq(LutSequence) /\ TableWords(prog)' = 0
      BY <2>1, EmptyTable DEF TableWords
    <2>3. TableWords(prog)' <= LutWords /\ pos' \in 0 .. TableWords(prog)'
      BY <2>1, <2>2, EmptyTable
    <2> QED
      BY <2>1, <2>2, <2>3
  <1>7. CASE UNCHANGED lutVars
    BY <1>7 DEF lutVars, TableWords
  <1> QED
    BY <1>1, <1>2, <1>3, <1>4, <1>5, <1>6, <1>7 DEF Next

\* Every step keeps the lock and the words copied.
LEMMA NextLutInv ==
  ASSUME TypeOK, LutInv, [Next]_lutVars
  PROVE  LutInv'
  <1> SUFFICES ASSUME build' = "volatile" PROVE LutInv'
    BY DEF LutInv
  <1>0. build = "volatile"
    BY DEF Next, QSPI_Init, QSPI_SetupLut, UnlockKey, UnlockCr, Copy, LockKey,
           LockCr, QSPI_Write, Restart, fixedVars, lutVars
  <1> USE <1>0 DEF LutInv, regVars, fixedVars
  <1>1. CASE QSPI_Init
    BY <1>1 DEF QSPI_Init, Copied, TableWords
  <1>2. ASSUME NEW p \in Programs, QSPI_SetupLut(p) PROVE LutInv'
    BY <1>2 DEF QSPI_SetupLut
  <1>3. CASE UnlockKey
    BY <1>3 DEF UnlockKey
  <1>4. CASE UnlockCr
    <2>1. Copied(pos)'
      BY <1>4 DEF UnlockCr, Copied
    <2>2. pc' = "copy" /\ ~ locked'
      BY <1>4 DEF UnlockCr
    <2> QED
      BY <2>1, <2>2
  <1>5. CASE Copy
    <2>1. CASE pos < TableWords(prog)
      <3>1. pos \in 0 .. LutWords - 1 /\ TableWords(prog) \in Nat
        <4>1. TableWords(prog) \in Nat /\ TableWords(prog) <= LutWords
              /\ pos \in 0 .. TableWords(prog)
          BY DEF TypeOK, TableWords
        <4> QED
          BY <2>1, <4>1 DEF LutWords
      <3>2. lut' = [lut EXCEPT ![pos] = TableWord(prog, pos)]
        BY <1>5, <2>1 DEF Copy, StoreLut
      <3>3. pos' = pos + 1 /\ UNCHANGED <<pc, locked, prog>>
        BY <1>5, <2>1 DEF Copy
      <3>4. ASSUME NEW w \in 0 .. pos PROVE lut'[w] = TableWord(prog, w)
        <4>1. CASE w = pos
          BY <3>1, <3>2, <4>1 DEF TypeOK
        <4>2. CASE w # pos
          <5>1. w \in 0 .. pos - 1 /\ w \in 0 .. LutWords - 1
            BY <3>1, <4>2 DEF LutWords
          <5>2. lut[w] = TableWord(prog, w)
            BY <1>5, <5>1 DEF Copy, Copied
          <5> QED
            BY <3>2, <4>2, <5>1, <5>2 DEF TypeOK
        <4> QED
          BY <4>1, <4>2
      <3>5. Copied(pos)'
        <4>1. \A w \in 0 .. pos' - 1 : w \in 0 .. pos
          BY <3>1, <3>3
        <4>2. \A w : TableWord(prog, w)' = TableWord(prog, w)
          BY <3>3 DEF TableWord
        <4> QED
          BY <3>4, <4>1, <4>2 DEF Copied
      <3> QED
        BY <1>5, <3>3, <3>5 DEF Copy
    <2>2. CASE ~ (pos < TableWords(prog))
      <3>1. pos = TableWords(prog)
        BY <2>2 DEF TypeOK, TableWords
      <3>2. Copied(TableWords(prog))
        BY <1>5, <3>1 DEF Copy
      <3> QED
        BY <1>5, <2>2, <3>2 DEF Copy, Copied, TableWord, TableWords
    <2> QED
      BY <2>1, <2>2
  <1>6. CASE LockKey
    BY <1>6 DEF LockKey, Copied, TableWord, TableWords
  <1>7. CASE LockCr
    BY <1>7 DEF LockCr, Copied, TableWord, TableWords
  <1>8. ASSUME NEW n \in Sizes, QSPI_Write(n) PROVE LutInv'
    <2>1. UNCHANGED <<locked, pc, prog, setup, armed, pos>>
      BY <1>8 DEF QSPI_Write
    <2>2. CASE setup
      <3>1. lut' = [w \in 0 .. LutWords - 1 |-> lut[w]]
        BY <1>8, <2>2 DEF QSPI_Write
      <3>2. lut' = lut
        BY <3>1 DEF TypeOK
      <3> QED
        BY <1>0, <2>1, <3>2 DEF Copied, TableWord, TableWords
    <2>3. CASE ~ setup
      BY <1>8, <2>1, <2>3 DEF QSPI_Write, Copied, TableWords
    <2> QED
      BY <2>2, <2>3
  <1>9. CASE Restart
    BY <1>9 DEF Restart
  <1>10. CASE UNCHANGED lutVars
    BY <1>10 DEF lutVars, Copied, TableWord, TableWords
  <1> QED
    BY <1>1, <1>2, <1>3, <1>4, <1>5, <1>6, <1>7, <1>8, <1>9, <1>10 DEF Next

\* The inductive invariant.
THEOREM LutInvariant == Spec => []IInv
  <1>1. IInv /\ [Next]_lutVars => IInv'
    BY NextTypeOK, NextLutInv DEF IInv
  <1> QED
    BY <1>1, InitIInv, PTL DEF Spec

\* TypeOK: the copy never runs past the LUT registers, whatever table is
\* installed.
THEOREM LutTypeCorrect == Spec => []TypeOK
  <1>1. IInv => TypeOK
    BY DEF IInv
  <1> QED
    BY <1>1, LutInvariant, PTL

\* SequencesInstalled for every table: QSPI_SetupLut installs it, and the
\* macros of flexspi.h lose nothing of an instruction.
THEOREM LutSequencesInstalled == Spec => []SequencesInstalled
  <1>1. IInv => SequencesInstalled
    <2> SUFFICES ASSUME IInv, build = "volatile", pc = "ready",
                        NEW s \in 1 .. Len(prog), NEW i \in 1 .. 8
                 PROVE  Unpack(lut[LUT_IDX(s - 1, (i - 1) \div 2)][2 - (i % 2)]) = prog[s][i]
      BY DEF SequencesInstalled
    <2>1. prog \in Seq(LutSequence) /\ Copied(TableWords(prog))
      BY DEF IInv, TypeOK, LutInv
    <2>2. lut[LUT_IDX(s - 1, (i - 1) \div 2)] = TableWord(prog, LUT_IDX(s - 1, (i - 1) \div 2))
      BY <2>1, TableWordDecodes DEF Copied
    <2>3. Unpack(TableWord(prog, LUT_IDX(s - 1, (i - 1) \div 2))[2 - (i % 2)]) = prog[s][i]
      BY <2>1, TableWordDecodes
    <2> QED
      BY <2>2, <2>3
  <1> QED
    BY <1>1, LutInvariant, PTL

\* OnlySetupChangesLut for every watermark and size: the lock that
\* QSPI_SetupLut ends with holds until the next one unlocks.
THEOREM LutOnlySetupChanges == Spec => OnlySetupChangesLut
  <1>1. IInv /\ [Next]_lutVars =>
          [build = "volatile" /\ setup /\ pc \in {"ready", "aborted"} => lut' = lut]_lutVars
    <2> SUFFICES ASSUME IInv, Next, build = "volatile", setup,
                        pc \in {"ready", "aborted"}
                 PROVE  lut' = lut
      OBVIOUS
    <2>1. locked /\ lut \in [0 .. LutWords - 1 -> Word]
      BY DEF IInv, LutInv, TypeOK
    <2>2. ASSUME NEW n \in Sizes, QSPI_Write(n) PROVE lut' = lut
      <3>1. lut' = [w \in 0 .. LutWords - 1 |-> lut[w]]
        BY <2>1, <2>2 DEF QSPI_Write
      <3> QED
        BY <2>1, <3>1
    <2> QED
      BY <2>2 DEF Next, QSPI_Init, QSPI_SetupLut, UnlockKey, UnlockCr, Copy,
                  LockKey, LockCr, Restart, regVars
  <1> QED
    BY <1>1, LutInvariant, PTL DEF Spec, OnlySetupChangesLut

=============================================================================
