---------------------------- MODULE MCUnityRunner ----------------------------
(* The instance of UnityRunner for TLC. *)
EXTENDS UnityRunner, TLC

MCTests ==
  << [group |-> "QSPI", name |-> "init", ignore |-> FALSE],
     [group |-> "QSPI", name |-> "write", ignore |-> TRUE],
     [group |-> "FPGA", name |-> "init_lut", ignore |-> FALSE] >>

\* A name as the filter "init" finds it, and each name itself.
MCContains ==
  [n \in {"QSPI", "FPGA", "init", "write", "init_lut"} |->
     IF n = "init_lut" THEN {"init", "init_lut"} ELSE {n}]

MCNumberOf == "0" :> 0 @@ "1x" :> 1

\* No option; each option with and without what it takes; options that look
\* like arguments and the other way round; an unknown one.
MCArgvs ==
  { <<>>, <<"-r">>, <<"-r", "-n", "write">>, <<"-r", "0">>, <<"-r", "1x", "-d">>,
    <<"-g", "-r">>, <<"-N", "init", "-n">>, <<"-N", "init", "-G", "FPGA">>,
    <<"-n", "lut", "-n", "init", "-x">>, <<"-d", "-h">> }

MCSymmetry == Permutations(Blocks)
=============================================================================
