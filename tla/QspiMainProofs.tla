--------------------------- MODULE QspiMainProofs ---------------------------
(***************************************************************************)
(* The theorem about the program of main.c, on top of the invariant of the *)
(* life cycle it drives.                                                   *)
(***************************************************************************)
EXTENDS QspiMain, QspiContextProofs

\* What main knows at each of its statements: nothing exists before QSPI_Init,
\* the write and QSPI_DeInit are reached only with an initialised driver, and
\* an initialised driver has its clock running and its module enabled.
ProgressInv ==
  /\ at \in Statements
  /\ at \in {"parse", "start", "init"} => pc = "ready" /\ init_done = 0
  /\ at \in {"parse", "start"} => ~ logger /\ ~ handler
  /\ pc \in InitPcs => at = "setup_lut"
  /\ init_done = 1 => ~ mdis /\ clock # "off"
  /\ at \in {"write", "deinit"} /\ pc = "ready" => init_done = 1
  /\ at = "destroy" => pc = "ready" /\ init_done = 0 /\ ~ mdis /\ clock # "off"
  /\ pc = "exited" =>
       /\ ~ logger
       /\ init_done = 0
       /\ status = "success" /\ handler => ~ mdis /\ clock # "off"

MainInv == ContextInv /\ ProgressInv

-----------------------------------------------------------------------------

\* The process ends, or the logger stops, without the context being touched.
LEMMA QuietStepContext ==
  ASSUME ContextInv, UNCHANGED <<vm, ctxVars, hwVars>>, handler' \in BOOLEAN,
         logger' \in BOOLEAN, status' \in {"none", "success", "failure"},
         pc = "ready", pc' \in {"ready", "exited", "aborted"}
  PROVE  ContextInv'
  <1> USE DEF ContextInv, ctxVars, hwVars
  <1>1. TypeOK'
    BY DEF TypeOK
  <1>2. PagesInv'
    BY DEF PagesInv, Alive, Held, PagesOf
  <1>3. DescriptorInv'
    BY DEF DescriptorInv, Alive, InitPcs
  <1>4. RegistersInv'
    BY DEF RegistersInv, Alive, Held
  <1> QED
    BY <1>1, <1>2, <1>3, <1>4

\* main's own QSPI_DeInit before it returns.
LEMMA LastDeInitContext ==
  ASSUME ContextInv, pc = "ready", DeInitEffect, UNCHANGED <<hwVars, handler>>,
         logger' \in BOOLEAN, status' \in {"none", "success", "failure"},
         pc' = "exited"
  PROVE  ContextInv' /\ init_done' = 0
  <1> USE DeInitContext DEF ContextInv, hwVars
  <1>1. TypeOK'
    BY DEF TypeOK
  <1>2. PagesInv'
    BY DEF PagesInv, Held
  <1>3. DescriptorInv'
    BY DEF DescriptorInv, InitPcs, DevMem
  <1>4. RegistersInv'
    BY DEF RegistersInv, Held
  <1> QED
    BY <1>1, <1>2, <1>3, <1>4

\* Every step of main keeps the context's invariant: it is a call, a step of
\* QSPI_Init, or a quiet one.
LEMMA MainContext ==
  ASSUME MainInv, [MainNext]_mainVars
  PROVE  ContextInv'
  <1> USE DEF MainInv
  <1>1. ASSUME [Next]_contextVars PROVE ContextInv'
    BY <1>1, NextContextInv
  <1>2. CASE ParseFlags
    <2>1. pc = "ready" /\ handler \in BOOLEAN /\ logger \in BOOLEAN
          /\ status \in {"none", "success", "failure"}
      BY <1>2 DEF ParseFlags, ProgressInv, ContextInv, TypeOK
    <2> QED
      BY <1>2, <2>1, QuietStepContext DEF ParseFlags, Exit
  <1>3. CASE Start
    <2>1. pc = "ready" /\ init_done = 0 /\ handler \in BOOLEAN
          /\ status \in {"none", "success", "failure"}
      BY <1>3 DEF Start, ProgressInv, ContextInv, TypeOK
    <2> QED
      BY <1>3, <2>1, QuietStepContext DEF Start
  <1>4. CASE CallInit
    <2>1. init_done = 0
      BY <1>4 DEF CallInit, ProgressInv
    <2> QED
      BY <1>1, <1>4, <2>1 DEF CallInit, Next, ClientCall
  <1>5. CASE CallSetupLut
    BY <1>1, <1>5 DEF CallSetupLut, Next, ClientCall, Arguments
  <1>6. CASE CheckInitialized
    <2>1. CASE init_done = 1
      BY <1>1, <1>6, <2>1 DEF CheckInitialized
    <2>2. CASE init_done # 1
      BY <1>6, <2>2, LastDeInitContext DEF CheckInitialized, Exit
    <2> QED
      BY <2>1, <2>2
  <1>7. CASE CallWrite
    BY <1>1, <1>7 DEF CallWrite, Next, ClientCall, Arguments
  <1>8. CASE CallDeInit
    BY <1>1, <1>8 DEF CallDeInit, Next, ClientCall
  <1>9. CASE SlogDestroy
    <2>1. handler \in BOOLEAN
      BY DEF ContextInv, TypeOK
    <2> QED
      BY <1>9, <2>1, QuietStepContext DEF SlogDestroy, Exit
  <1>10. CASE InitStep \/ OtherMaps \/ UNCHANGED mainVars
    BY <1>1, <1>10 DEF Next, mainVars
  <1> QED
    BY <1>2, <1>3, <1>4, <1>5, <1>6, <1>7, <1>8, <1>9, <1>10
    DEF MainNext, MainStep

\* A call of main that accesses registers either leaves the context alone or
\* ends the process; in the handler it de-initialises and fails.
LEMMA AccessOutcome ==
  ASSUME ContextInv, QSPI_SetupLut("good") \/ QSPI_Transfer("good")
  PROVE  \/ /\ UNCHANGED <<vm, ctxVars, hwVars, procVars>>
            /\ pc' \in Ends
         \/ /\ ~ logger' /\ init_done' = 0 /\ status' = "failure"
            /\ pc' = "exited"
  <1>1. pc = "ready" /\ (Segfault \/ (\E p \in Ends : Stop(p)) \/ UNCHANGED contextVars)
    BY CallOutcome DEF Arguments
  <1> QED
    BY <1>1, DeInitContext DEF Segfault, Stop, Ends, contextVars

\* Every step of main keeps what main knows.
LEMMA MainProgress ==
  ASSUME MainInv, [MainNext]_mainVars
  PROVE  ProgressInv'
  <1> USE DEF MainInv, ProgressInv, Statements, InitPcs, ctxVars, hwVars, procVars
  <1>t. TypeOK
    BY DEF ContextInv
  <1>1. CASE ParseFlags
    BY <1>1 DEF ParseFlags, Exit
  <1>2. CASE Start
    BY <1>2 DEF Start
  <1>3. CASE CallInit
    BY <1>3 DEF CallInit, QSPI_Init
  <1>4. CASE CallSetupLut
    BY <1>4, AccessOutcome DEF CallSetupLut, QSPI_SetupLut, Ends
  <1>5. CASE CheckInitialized
    <2>1. CASE init_done = 1
      BY <1>5, <2>1 DEF CheckInitialized, contextVars
    <2>2. CASE init_done # 1
      <3>1. init_done' = 0
        BY <1>5, <2>2, DeInitContext DEF CheckInitialized
      <3> QED
        BY <1>5, <2>2, <3>1 DEF CheckInitialized, Exit
    <2> QED
      BY <2>1, <2>2
  <1>6. CASE CallWrite
    BY <1>6, AccessOutcome DEF CallWrite, QSPI_Transfer, Ends
  <1>7. CASE CallDeInit
    <2>1. init_done' = 0
      BY <1>7, DeInitContext DEF CallDeInit, QSPI_DeInit
    <2> QED
      BY <1>7, <2>1 DEF CallDeInit, QSPI_DeInit
  <1>8. CASE SlogDestroy
    BY <1>8 DEF SlogDestroy, Exit
  <1>9. CASE InitStep /\ UNCHANGED at
    <2>1. pc \in InitPcs /\ init_done = 0
      BY <1>9 DEF InitStep, OpenDevMem, RequestFlexspiMemory, IomuxInit,
                  DisableModule, ClockInit, EnableModule, InitPcs, ContextInv,
                  DescriptorInv
    <2>2. at = "setup_lut"
      BY <2>1
    <2>3. CASE EnableModule
      <3>1. clock # "off"
        BY <2>3 DEF EnableModule, ContextInv, RegistersInv, Alive
      <3> QED
        BY <1>9, <2>2, <2>3, <3>1 DEF EnableModule, InitPcs
    <2>4. CASE InitStep /\ ~ EnableModule
      <3>1. pc' \in InitPcs \cup {"ready", "killed"} /\ init_done' = 0
        BY <2>1, <2>4 DEF InitStep, OpenDevMem, RequestFlexspiMemory, IomuxInit,
                          DisableModule, ClockInit, InitPcs
      <3> QED
        BY <1>9, <2>2, <3>1 DEF InitPcs
    <2> QED
      BY <1>9, <2>3, <2>4
  <1>10. CASE OtherMaps /\ UNCHANGED at
    BY <1>10 DEF OtherMaps
  <1>11. CASE UNCHANGED mainVars
    BY <1>11 DEF mainVars, contextVars
  <1> QED
    BY <1>1, <1>2, <1>3, <1>4, <1>5, <1>6, <1>7, <1>8, <1>9, <1>10, <1>11
    DEF MainNext, MainStep

-----------------------------------------------------------------------------

\* What main knows holds in its initial states and is kept by its steps.
THEOREM MainInvariant == MainSpec => []MainInv
  <1>1. MainInit => MainInv
    BY InitContextInv DEF MainInit, MainInv, ProgressInv, Statements, InitPcs, ContextInit
  <1>2. MainInv /\ [MainNext]_mainVars => MainInv'
    BY MainContext, MainProgress DEF MainInv
  <1> QED
    BY <1>1, <1>2, PTL DEF MainSpec

\* CleanExit of main.c: whatever fails in QSPI_Init, and whichever way the
\* process exits, descriptor, mappings and logger are gone, and success means
\* that the controller was enabled with its clock running.
THEOREM MainCleanExit == MainSpec => []CleanExit
  <1>1. MainInv => CleanExit
    BY DEF MainInv, ProgressInv, CleanExit, ContextInv, PagesInv, DescriptorInv,
           TypeOK, Alive, Held, InitPcs, DevMem
  <1> QED
    BY <1>1, MainInvariant, PTL

=============================================================================
