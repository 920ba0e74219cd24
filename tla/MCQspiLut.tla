------------------------------ MODULE MCQspiLut ------------------------------
(* The instance of QspiLut for TLC: the tables of the repository. *)
EXTENDS QspiLut

\* A table of 33 sequences, one more than the LUT holds.
MCPrograms == {fpga_lut, test_lut, [k \in 1 .. 33 |-> NullSequence]}

\* 128 bytes fill TFDR exactly, 132 reach LUT[0], 1024 is the largest call.
MCSizes == {0, 128, 132, 1024}
=============================================================================
