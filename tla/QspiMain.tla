------------------------------ MODULE QspiMain ------------------------------
(***************************************************************************)
(* The program of src/src/main.c on top of QspiContext: command line,      *)
(* logger, QSPI_Init, QSPI_SetupLut, the check, one QSPI_Write,            *)
(* QSPI_DeInit.  pc says whether main is inside an API call ("ready" when  *)
(* it is not); at says which statement of main comes next.  What happens   *)
(* inside QSPI_Write is module QspiTransfer's; here it returns or blocks.  *)
(***************************************************************************)
EXTENDS QspiContext

VARIABLE at

mainVars == <<contextVars, at>>

Statements == {"parse", "start", "init", "setup_lut", "check", "write",
               "deinit", "destroy", "end"}

MainInit == ContextInit /\ at = "parse"

\* exit or return from main with the given status.
Exit(s) ==
  /\ pc' = "exited"
  /\ status' = s
  /\ at' = "end"

\* parse_flags: --help exits, the logging flags change nothing here.
ParseFlags ==
  /\ at = "parse"
  /\ \/ Exit("success")
     \/ at' = "start" /\ UNCHANGED <<pc, status>>
  /\ UNCHANGED <<vm, ctxVars, hwVars, handler, logger>>

\* The assertion on QSPI_IsInitialized, and slog_init.
Start ==
  /\ at = "start"
  /\ at' = "init"
  /\ IF init_done = 1
       THEN pc' = "aborted" /\ UNCHANGED logger
       ELSE logger' = TRUE /\ UNCHANGED pc
  /\ UNCHANGED <<vm, ctxVars, hwVars, handler, status>>

CallInit ==
  /\ at = "init"
  /\ at' = "setup_lut"
  /\ QSPI_Init

CallSetupLut ==
  /\ at = "setup_lut"
  /\ at' = "check"
  /\ QSPI_SetupLut("good")

\* On failure main cleans up and returns EXIT_FAILURE.
CheckInitialized ==
  /\ at = "check"
  /\ pc = "ready"
  /\ IF init_done = 1
       THEN at' = "write" /\ UNCHANGED contextVars
       ELSE /\ DeInitEffect
            /\ logger' = FALSE
            /\ Exit("failure")
            /\ UNCHANGED <<hwVars, handler>>

\* A write of no bytes: no assertion and no access to the NULL buffer.  A
\* failed write is only logged.
CallWrite ==
  /\ at = "write"
  /\ at' = "deinit"
  /\ QSPI_Transfer("good")

\* A mutant: main returns without QSPI_DeInit.
CallDeInitSkipped ==
  /\ at = "deinit"
  /\ pc = "ready"
  /\ at' = "destroy"
  /\ UNCHANGED contextVars

CallDeInit ==
  /\ at = "deinit"
  /\ at' = "destroy"
  /\ QSPI_DeInit

SlogDestroy ==
  /\ at = "destroy"
  /\ pc = "ready"
  /\ logger' = FALSE
  /\ Exit("success")
  /\ UNCHANGED <<vm, ctxVars, hwVars, handler>>

MainStep ==
  \/ ParseFlags \/ Start \/ CallInit \/ CallSetupLut
  \/ CheckInitialized \/ CallWrite \/ CallDeInit \/ SlogDestroy
  \/ InitStep /\ UNCHANGED at

MainNext == MainStep \/ (OtherMaps /\ UNCHANGED at)

MainSpec == MainInit /\ [][MainNext]_mainVars

-----------------------------------------------------------------------------
(* Properties.                                                             *)

\* An orderly exit (return from main, exit in parse_flags, the SIGSEGV
\* handler) leaves no descriptor, no mapping and no logger behind, and
\* success after QSPI_Init means that the controller was enabled with its
\* clock running.
CleanExit ==
  pc = "exited" =>
    /\ ~ logger
    /\ openFds = 0
    /\ \A p \in Page : vm[p] \notin Mappings
    /\ status = "success" /\ handler => ~ mdis /\ clock # "off"
=============================================================================
