-------------------------- MODULE BlockingCommand --------------------------
(***************************************************************************)
(* What a client of src/src/qspi.c may rely on when it calls QSPI_Write,   *)
(* QSPI_Read or QSPI_ReadSample: the call starts one command with the      *)
(* configuration it was given, and returns after that command has ended.   *)
(* Nothing is promised ("void") once the process has been killed or has    *)
(* failed an assertion, until a later call starts afresh.                  *)
(***************************************************************************)
CONSTANT Configs \* sequence and size of a command

VARIABLES
  st,  \* where the call is
  cfg  \* what it asked for

States == {"idle", "called", "running", "ended", "void"}

Init == st \in {"idle", "void"} /\ cfg \in Configs

Call ==
  /\ st \in {"idle", "void"}
  /\ st' = "called"
  /\ cfg' \in Configs

\* The command that runs is the one that was asked for.
Trigger == st = "called" /\ st' = "running" /\ UNCHANGED cfg
End     == st = "running" /\ st' = "ended" /\ UNCHANGED cfg
Return  == st = "ended" /\ st' = "idle" /\ UNCHANGED cfg

Void    == st' = "void" /\ cfg' \in Configs
Recover == st = "void" /\ st' = "idle" /\ cfg' \in Configs

Next == Call \/ Trigger \/ End \/ Return \/ Void \/ Recover

Spec == Init /\ [][Next]_<<st, cfg>>
=============================================================================
