--------------------------- MODULE MCQspiTransfer ---------------------------
(* Instances of QspiTransfer for TLC. *)
EXTENDS QspiTransfer, TLC

\* Sequence 0 reads, sequence 1 writes, both with the size from IPCR1.
\* Sequence 11 (RD_SAMPLE) is CMD and ADDR only, as in fpga_lut.
MCLut == 0 :> [op |-> "READ", words |-> 0]
         @@ 1 :> [op |-> "WRITE", words |-> 0]
         @@ 11 :> [op |-> "STOP", words |-> 0]

\* The test_lut of main.c: sequence 0 is CMD 0x8F, then READ with operand
\* LUT_DUMMY = 12 bytes.
MCTestLut == 0 :> [op |-> "READ", words |-> 3]
             @@ 11 :> [op |-> "STOP", words |-> 0]

Write(n) == [api |-> "QSPI_Write", lut_index |-> 1, size |-> n]
Read(n) == [api |-> "QSPI_Read", lut_index |-> 0, size |-> n]
ReadSample(n) == [api |-> "QSPI_ReadSample", lut_index |-> 0, size |-> n]

\* Sizes around the chunk sizes of watermark 1 (8 bytes to write, 4 to read),
\* a truncated one, one that the assertion stops, and the forbidden read of 0.
MCMixedRequests == {Write(n) : n \in {0, 3, 9, 65544, 1025}}
                   \cup {Read(n) : n \in {0, 5, 9}}
                   \cup {ReadSample(4)}

\* main.c: QSPI_Write(0xCAFECAFE, 0, NULL, 0).
MCMainRequests == {[api |-> "QSPI_Write", lut_index |-> 0, size |-> 0]}

MCOneWrite == {Write(8)}
MCLongRead == {Read(16)}
=============================================================================
