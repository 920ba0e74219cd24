------------------------------- MODULE QspiLut -------------------------------
(***************************************************************************)
(* The lookup table (LUT) of the FlexSPI controller: how FLEXSPI_LUT_SEQ   *)
(* packs two instructions into a register, the table of the FPGA's         *)
(* commands, and QSPI_SetupLut of src/src/qspi.c, which unlocks the LUT    *)
(* registers, copies a table into them and locks them again.  A process    *)
(* may be killed at any store, and write_blocking, whose fill loop runs    *)
(* past TFDR when the watermark is above 16, stores into the same          *)
(* registers.                                                              *)
(*                                                                         *)
(* A 32-bit word is the pair of its 16-bit halves; each half is one        *)
(* instruction.  A program is a table before it is packed: the sequence of *)
(* its LUT sequences of eight instructions.                                *)
(*                                                                         *)
(* LUTKEY and LUTCR are not volatile.  build is the compiler outcome:      *)
(* "volatile" makes every store of the source, "merged" (gcc 12 -O2) drops *)
(* the second store of the same key to LUTKEY, the one of lock_lut.        *)
(***************************************************************************)
EXTENDS Integers, Sequences

CONSTANTS
  Programs,   \* the tables a client installs
  Sizes,      \* the sizes a client writes, in bytes
  Watermarks, \* IPTXFCR[TXWMRK] + 1, as firmware left it
  Builds      \* the compiler outcomes considered

Instr == [opcode: 0 .. 63, pads: 0 .. 3, operand: 0 .. 255]
LutSequence == [1 .. 8 -> Instr]
MaxHalf == 65535
Half == 0 .. MaxHalf
Word == Half \X Half

\* TFDR[32] and the LUT[128] that follows it in FlexSPI_Type.
TfdrWords == 32
LutWords == 128

ASSUME QspiLutAssumption ==
  /\ Programs \subseteq Seq(LutSequence)
  /\ Sizes \subseteq 0 .. 1024
  /\ Watermarks \subseteq 1 .. 128
  /\ Builds \subseteq {"volatile", "merged"}

-----------------------------------------------------------------------------
(* Packing a table.                                                        *)

\* FLEXSPI_LUT_OPERAND, _NUM_PADS and _OPCODE: shifted and masked.
Pack(i) == (i.opcode % 64) * 1024 + (i.pads % 4) * 256 + (i.operand % 256)

\* A mutant: the two instructions of a word are swapped.
SwappedLutSeq(i0, i1) == <<Pack(i1), Pack(i0)>>

FLEXSPI_LUT_SEQ(i0, i1) == <<Pack(i0), Pack(i1)>>

\* The controller's reading of a half word.
Unpack(h) == [opcode |-> h \div 1024, pads |-> (h \div 256) % 4, operand |-> h % 256]

LUT_IDX(seq, num) == 4 * seq + num

\* Word w of the table that program p is compiled to.
TableWord(p, w) ==
  LET s == p[(w \div 4) + 1]
      n == 2 * (w % 4)
  IN  FLEXSPI_LUT_SEQ(s[n + 1], s[n + 2])

TableWords(p) == 4 * Len(p)

-----------------------------------------------------------------------------
(* The tables of the repository.                                           *)

LUT_STOP == 0
LUT_CMD == 1
LUT_ADDR == 2
LUT_READ == 9
LUT_DUMMY == 12
kFlexSPI_4PAD == 2

Stop == [opcode |-> LUT_STOP, pads |-> 0, operand |-> 0]

\* LUT_NULL.
NullSequence == [i \in 1 .. 8 |-> Stop]

\* A sequence of two instructions on four pads.
Two(op0, operand0, op1, operand1) ==
  [NullSequence EXCEPT
     ![1] = [opcode |-> op0, pads |-> kFlexSPI_4PAD, operand |-> operand0],
     ![2] = [opcode |-> op1, pads |-> kFlexSPI_4PAD, operand |-> operand1]]

\* Name and opcode of every command of the FPGA, in the order of FPGA_TABLE.
FPGA_TABLE == <<
  <<"WR_SPI1", 1>>, <<"WR_SPI2", 2>>, <<"WR_DCU_OUT", 3>>,
  <<"WR_GENERIC_CMD", 4>>, <<"WR_UART1", 5>>, <<"WR_UART2", 6>>,
  <<"WR_UART3", 7>>, <<"WR_UART4", 8>>, <<"WR_MCASP_CFG", 9>>,
  <<"WR_PPS_SEL", 10>>, <<"WR_MST_CLK", 12>>, <<"RD_SAMPLE", 128>>,
  <<"RD_SPI1", 129>>, <<"RD_SPI2", 130>>, <<"RD_UART1", 133>>,
  <<"RD_UART2", 134>>, <<"RD_UART3", 135>>, <<"RD_UART4", 136>>,
  <<"RD_SYNC_IN", 139>>, <<"RD_MST_CLK", 140>> >>

\* fpga_lut: only RD_SAMPLE has instructions.
fpga_lut ==
  [k \in 1 .. Len(FPGA_TABLE) |->
     IF FPGA_TABLE[k][1] = "RD_SAMPLE"
       THEN Two(LUT_CMD, FPGA_TABLE[k][2], LUT_ADDR, LUT_DUMMY)
       ELSE NullSequence]

\* test_lut of main.c.
test_lut == <<Two(LUT_CMD, 143, LUT_READ, LUT_DUMMY)>>

-----------------------------------------------------------------------------
(* The registers and the process.                                          *)

VARIABLES
  lut,    \* LUT[0 .. 127]
  locked, \* the controller ignores stores to LUT
  armed,  \* LUTKEY holds the key for the next store to LUTCR
  wmk,    \* watermark, fixed
  build,  \* compiler outcome, fixed
  pc,     \* where the process is; "start" before QSPI_Init
  prog,   \* the program QSPI_SetupLut was last called with
  pos,    \* words copied so far
  setup   \* a QSPI_SetupLut of this process has returned

regVars == <<lut, locked, armed>>
fixedVars == <<wmk, build>>
lutVars == <<regVars, fixedVars, pc, prog, pos, setup>>

\* What an earlier owner left in the LUT, and what a fill writes into it.
Garbage == <<65535, 65535>>
Data == <<4660, 22136>>

Init ==
  /\ lut = [w \in 0 .. LutWords - 1 |-> Garbage]
  /\ locked \in BOOLEAN
  /\ armed = FALSE
  /\ wmk \in Watermarks
  /\ build \in Builds
  /\ pc = "start"
  /\ prog = <<>>
  /\ pos = 0
  /\ setup = FALSE

\* A store of v to LUT[w], which the controller ignores while locked.
StoreLut(w, v) == lut' = IF locked THEN lut ELSE [lut EXCEPT ![w] = v]

QSPI_Init ==
  /\ pc = "start"
  /\ pc' = "ready"
  /\ UNCHANGED <<regVars, fixedVars, prog, pos, setup>>

\* A mutant: the size of the table is not asserted.
SetupLutUnchecked(p) ==
  /\ pc \in {"start", "ready"}
  /\ IF pc = "start"
       THEN pc' = "aborted" /\ UNCHANGED <<prog, pos>>
       ELSE pc' = "unlock_key" /\ prog' = p /\ pos' = 0
  /\ UNCHANGED <<regVars, fixedVars, setup>>

\* The assertions: flexspi is mapped, and the table fits.
QSPI_SetupLut(p) ==
  /\ pc \in {"start", "ready"}
  /\ IF pc = "start" \/ TableWords(p) > LutWords
       THEN pc' = "aborted" /\ UNCHANGED <<prog, pos>>
       ELSE pc' = "unlock_key" /\ prog' = p /\ pos' = 0
  /\ UNCHANGED <<regVars, fixedVars, setup>>

UnlockKey ==
  /\ pc = "unlock_key"
  /\ pc' = "unlock_cr"
  /\ armed' = TRUE
  /\ UNCHANGED <<lut, locked, fixedVars, prog, pos, setup>>

\* A store to LUTCR counts only right after the key.
UnlockCr ==
  /\ pc = "unlock_cr"
  /\ pc' = "copy"
  /\ locked' = (locked /\ ~ armed)
  /\ armed' = FALSE
  /\ UNCHANGED <<lut, fixedVars, prog, pos, setup>>

\* memcpy, a word at a time.
Copy ==
  /\ pc = "copy"
  /\ IF pos < TableWords(prog)
       THEN /\ StoreLut(pos, TableWord(prog, pos))
            /\ pos' = pos + 1
            /\ UNCHANGED pc
       ELSE pc' = "lock_key" /\ UNCHANGED <<lut, pos>>
  /\ UNCHANGED <<locked, armed, fixedVars, prog, setup>>

\* A mutant: no build stores the second key.
LockKeyMerged ==
  /\ pc = "lock_key"
  /\ pc' = "lock_cr"
  /\ UNCHANGED <<regVars, fixedVars, prog, pos, setup>>

LockKey ==
  /\ pc = "lock_key"
  /\ pc' = "lock_cr"
  /\ armed' = (armed \/ build = "volatile")
  /\ UNCHANGED <<lut, locked, fixedVars, prog, pos, setup>>

LockCr ==
  /\ pc = "lock_cr"
  /\ pc' = "ready"
  /\ locked' = (locked \/ armed)
  /\ armed' = FALSE
  /\ setup' = TRUE
  /\ UNCHANGED <<lut, fixedVars, prog, pos>>

\* The largest chunk that write_blocking fills for a call of n bytes, from
\* TFDR[0] on; words beyond LUT[127] go nowhere that is modelled.
FillWords(n) == LET words == (n + 3) \div 4
                IN  IF words < 2 * wmk THEN words ELSE 2 * wmk

QSPI_Write(n) ==
  /\ pc = "ready"
  /\ lut' = [w \in 0 .. LutWords - 1 |->
               IF ~ locked /\ TfdrWords + w < FillWords(n) THEN Data ELSE lut[w]]
  /\ UNCHANGED <<locked, armed, fixedVars, pc, prog, pos, setup>>

\* The process is killed, or has aborted, and another one is started.
Restart ==
  /\ pc # "start"
  /\ pc' = "start"
  /\ prog' = <<>>
  /\ pos' = 0
  /\ setup' = FALSE
  /\ UNCHANGED <<regVars, fixedVars>>

Next ==
  \/ QSPI_Init
  \/ \E p \in Programs : QSPI_SetupLut(p)
  \/ UnlockKey \/ UnlockCr \/ Copy \/ LockKey \/ LockCr
  \/ \E n \in Sizes : QSPI_Write(n)
  \/ Restart

Spec == Init /\ [][Next]_lutVars

-----------------------------------------------------------------------------
(* Properties.                                                             *)

Pcs == {"start", "ready", "aborted", "unlock_key", "unlock_cr", "copy",
        "lock_key", "lock_cr"}

\* The types of all variables.
TypeOK ==
  /\ lut \in [0 .. LutWords - 1 -> Word]
  /\ locked \in BOOLEAN
  /\ armed \in BOOLEAN
  /\ wmk \in Watermarks
  /\ build \in Builds
  /\ pc \in Pcs
  /\ prog \in Seq(LutSequence)
  /\ TableWords(prog) <= LutWords
  /\ pos \in 0 .. TableWords(prog)
  /\ setup \in BOOLEAN

\* Once QSPI_SetupLut has returned, the controller reads from every sequence
\* of the table the instructions its author wrote there, whatever earlier
\* processes left half copied, and whatever is written with which watermark.
SequencesInstalled ==
  build = "volatile" /\ pc = "ready" =>
    \A s \in 1 .. Len(prog), i \in 1 .. 8 :
      Unpack(lut[LUT_IDX(s - 1, (i - 1) \div 2)][2 - (i % 2)]) = prog[s][i]

\* After QSPI_SetupLut has returned nothing but another QSPI_SetupLut changes
\* the LUT: the fill of write_blocking, which with a watermark above 16 runs
\* past TFDR into it, finds it locked.
OnlySetupChangesLut ==
  [][build = "volatile" /\ setup /\ pc \in {"ready", "aborted"} => lut' = lut]_lutVars
=============================================================================
