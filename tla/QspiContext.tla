---------------------------- MODULE QspiContext ----------------------------
(***************************************************************************)
(* The life of QSPI_Context in src/src/qspi.c: QSPI_Init with its mmaps,   *)
(* each of which may fail, QSPI_DeInit, the SIGSEGV handler, and the       *)
(* register accesses of the other API functions, on a process address      *)
(* space shared with mappings of other code (libc, the heap, ...).         *)
(*                                                                         *)
(* The address space is counted in pages; a pointer is the number of the   *)
(* page it points to.  What the registers hold is left out except for the  *)
(* clock and the enable bit; module QspiTransfer has the rest.             *)
(***************************************************************************)
EXTENDS Integers

CONSTANTS
  NPages,      \* pages of the address space
  PagesPer64K  \* PAGE_SIZE_64K / page_size: 16 for 4 KiB pages, 1 for 64 KiB

\* page_size is a positive multiple of 4096 (qspi.c 397-398); a page size
\* above 64 KiB does not exist on the target.
ASSUME QspiContextAssumption ==
  /\ NPages \in Nat
  /\ PagesPer64K \in 1..16

NULL == 0
MAP_FAILED == -1

\* The descriptor that open returns for /dev/mem.
DevMem == 3

Page == 1 .. NPages
Pointer == Page \cup {NULL, MAP_FAILED}

\* The owners of a page among the context's own mappings.
Mappings == {"fspi", "iomux", "ccm"}
Owner == Mappings \cup {"free", "other"}

VARIABLES
  vm,        \* vm[p]: whose mapping page p belongs to
  openFds,   \* descriptors of /dev/mem the process holds
  fd,        \* qspi_ctx.fd
  init_done, \* qspi_ctx.init_done
  flexspi,   \* qspi_ctx.flexspi
  map,       \* map[m]: qspi_ctx.map_fspi, map_iomux, map_ccm
  handler,   \* the SIGSEGV handler is installed
  clock,     \* "off", "boot" (left on by firmware), "set" (by clock_init)
  pads,      \* iomux_init has routed the pads
  mdis,      \* MCR0[MDIS]: the controller is disabled
  logger,    \* slog is initialised
  pc,        \* where the process is inside the API, "ready" outside it
  status     \* exit status once pc = "exited"

ctxVars == <<openFds, fd, init_done, flexspi, map>>
hwVars == <<clock, pads, mdis>>
procVars == <<handler, logger, status>>
contextVars == <<vm, ctxVars, hwVars, procVars, pc>>

\* QSPI_Context is static, so zeroed.  Firmware may or may not have left the FlexSPI clock running.
ContextInit ==
  /\ vm \in [Page -> {"free", "other"}]
  /\ openFds = 0
  /\ fd = 0
  /\ init_done = 0
  /\ flexspi = NULL
  /\ map = [m \in Mappings |-> NULL]
  /\ handler = FALSE
  /\ clock \in {"off", "boot"}
  /\ pads = FALSE
  /\ mdis \in BOOLEAN
  /\ logger = FALSE
  /\ pc = "ready"
  /\ status = "none"

-----------------------------------------------------------------------------
(* mmap and munmap.                                                        *)

\* The pages [b, b + n) of a mapping of n pages at b.
Range(b, n) == {p \in Page : b <= p /\ p < b + n}

\* The kernel may place a mapping of n pages at b.
Fits(b, n) ==
  /\ b + n - 1 <= NPages
  /\ \A p \in Range(b, n) : vm[p] = "free"

\* The size in pages that each mapping is made with ...
MapPages == [m \in Mappings |-> IF m = "ccm" THEN PagesPer64K ELSE 1]

\* A mutant: QSPI_DeInit unmaps more than was mapped.
UnmapPagesTwice == [m \in Mappings |-> IF m = "fspi" THEN 1 ELSE 2 * PagesPer64K]

\* ... and the size that QSPI_DeInit unmaps.
UnmapPages == [m \in Mappings |-> IF m = "fspi" THEN 1 ELSE PagesPer64K]

\* map_memory for mapping m.
Mmap(m) ==
  \E b \in Page :
    /\ Fits(b, MapPages[m])
    /\ vm' = [p \in Page |-> IF p \in Range(b, MapPages[m]) THEN m ELSE vm[p]]
    /\ map' = [map EXCEPT ![m] = b]

MmapFails(m) ==
  /\ map' = [map EXCEPT ![m] = MAP_FAILED]
  /\ UNCHANGED vm

\* What munmap of mapping m removes.  MAP_FAILED is not page aligned, so
\* munmap refuses it, and nothing is ever mapped at NULL.
Unmapped(m) ==
  IF map[m] \in Page THEN Range(map[m], UnmapPages[m]) ELSE {}

-----------------------------------------------------------------------------
(* QSPI_Init.                                                              *)

QSPI_Init ==
  /\ pc = "ready"
  /\ pc' = "open"
  /\ handler' = TRUE
  /\ fd' = -1
  /\ init_done' = 0
  /\ UNCHANGED <<vm, openFds, flexspi, map, hwVars, logger, status>>

OpenDevMem ==
  /\ pc = "open"
  /\ \/ /\ pc' = "map_fspi"
        /\ fd' = DevMem
        /\ openFds' = openFds + 1
     \/ /\ pc' = "ready"
        /\ UNCHANGED <<fd, openFds>>
  /\ UNCHANGED <<vm, init_done, flexspi, map, hwVars, procVars>>

\* A mutant: a failed mmap of FlexSPI leaves the descriptor open.
RequestFlexspiMemoryLeaks ==
  /\ pc = "map_fspi"
  /\ \/ /\ Mmap("fspi")
        /\ flexspi' = map'["fspi"]
        /\ pc' = "iomux"
     \/ /\ MmapFails("fspi")
        /\ pc' = "ready"
        /\ UNCHANGED flexspi
  /\ UNCHANGED <<fd, openFds, init_done, hwVars, procVars>>

\* A mutant: QSPI_Init ignores a failed mmap of FlexSPI.
RequestFlexspiMemoryIgnored ==
  /\ pc = "map_fspi"
  /\ pc' = "iomux"
  /\ \/ Mmap("fspi") /\ flexspi' = map'["fspi"]
     \/ MmapFails("fspi") /\ UNCHANGED flexspi
  /\ UNCHANGED <<fd, openFds, init_done, hwVars, procVars>>

\* On failure the descriptor is closed and flexspi keeps its old value.
RequestFlexspiMemory ==
  /\ pc = "map_fspi"
  /\ \/ /\ Mmap("fspi")
        /\ flexspi' = map'["fspi"]
        /\ pc' = "iomux"
        /\ UNCHANGED <<fd, openFds>>
     \/ /\ MmapFails("fspi")
        /\ fd' = -1
        /\ openFds' = openFds - 1
        /\ pc' = "ready"
        /\ UNCHANGED flexspi
  /\ UNCHANGED <<init_done, hwVars, procVars>>

\* A failed mmap is only logged.
IomuxInit ==
  /\ pc = "iomux"
  /\ \/ Mmap("iomux") /\ pads' = TRUE
     \/ MmapFails("iomux") /\ UNCHANGED pads
  /\ pc' = "mdis"
  /\ UNCHANGED <<openFds, fd, init_done, flexspi, clock, mdis, procVars>>

\* An access to a FlexSPI register while its clock is gated is a bus error,
\* which nothing handles.
DisableModule ==
  /\ pc = "mdis"
  /\ IF clock = "off"
       THEN pc' = "killed" /\ UNCHANGED mdis
       ELSE pc' = "clock" /\ mdis' = TRUE
  /\ UNCHANGED <<vm, ctxVars, clock, pads, procVars>>

ClockInit ==
  /\ pc = "clock"
  /\ \/ Mmap("ccm") /\ clock' = "set"
     \/ MmapFails("ccm") /\ UNCHANGED clock
  /\ pc' = "enable"
  /\ UNCHANGED <<openFds, fd, init_done, flexspi, pads, mdis, procVars>>

EnableModule ==
  /\ pc = "enable"
  /\ pc' = "ready"
  /\ mdis' = FALSE
  /\ init_done' = 1
  /\ UNCHANGED <<vm, openFds, fd, flexspi, map, clock, pads, procVars>>

-----------------------------------------------------------------------------
(* QSPI_DeInit and the SIGSEGV handler.                                    *)

\* A mutant: QSPI_DeInit leaves init_done set.
DeInitEffectKeepsInitDone ==
  IF init_done = 1
    THEN LET gone == UNION {Unmapped(m) : m \in Mappings}
         IN  /\ vm' = [p \in Page |-> IF p \in gone THEN "free" ELSE vm[p]]
             /\ openFds' = openFds - 1
             /\ fd' = -1
             /\ UNCHANGED <<init_done, flexspi, map>>
    ELSE UNCHANGED <<vm, ctxVars>>

\* The effect of QSPI_DeInit on the context; flexspi and the map_ pointers
\* keep their values.
DeInitEffect ==
  IF init_done = 1
    THEN LET gone == UNION {Unmapped(m) : m \in Mappings}
         IN  /\ vm' = [p \in Page |-> IF p \in gone THEN "free" ELSE vm[p]]
             /\ openFds' = openFds - 1
             /\ fd' = -1
             /\ init_done' = 0
             /\ UNCHANGED <<flexspi, map>>
    ELSE UNCHANGED <<vm, ctxVars>>

QSPI_DeInit ==
  /\ pc = "ready"
  /\ DeInitEffect
  /\ UNCHANGED <<pc, hwVars, procVars>>

\* segfault_sigaction, or death by the signal when it is not installed.
Segfault ==
  IF handler
    THEN /\ DeInitEffect
         /\ logger' = FALSE
         /\ status' = "failure"
         /\ pc' = "exited"
         /\ UNCHANGED <<hwVars, handler>>
    ELSE /\ pc' = "killed"
         /\ UNCHANGED <<vm, ctxVars, hwVars, procVars>>

-----------------------------------------------------------------------------
(* Register accesses of QSPI_SetupLut, QSPI_Write, QSPI_Read and           *)
(* QSPI_ReadSample, none of which looks at init_done.                      *)

\* flexspi points to memory the process can access; whose, is another matter.
Accessible == flexspi \in Page /\ vm[flexspi] # "free"

\* flexspi points to the FlexSPI registers.
LiveRegisters == flexspi \in Page /\ vm[flexspi] = "fspi"

\* A call leaves the process at p: it returns ("ready"), runs into an
\* assertion ("aborted") or a bus error ("killed"), or polls for ever
\* ("blocked").
Stop(p) ==
  /\ pc' = p
  /\ UNCHANGED <<vm, ctxVars, hwVars, procVars>>

\* Accesses through qspi_ctx.flexspi, and what the call does after them.
Access(Then) ==
  IF ~ Accessible THEN Segfault
  ELSE IF LiveRegisters /\ clock = "off" THEN Stop("killed")
  ELSE Then

\* What the caller may pass: arguments that an assertion refuses, a buffer
\* (of more than zero bytes) outside the mapped memory, or neither.
Arguments == {"good", "asserted", "unmapped"}

\* The lock is opened before memcpy reads the caller's table.
QSPI_SetupLut(a) ==
  /\ pc = "ready"
  /\ IF flexspi = NULL \/ a = "asserted" THEN Stop("aborted")
     ELSE Access(IF a = "unmapped" THEN Segfault ELSE Stop("ready"))

\* QSPI_Write, QSPI_Read or QSPI_ReadSample.  The polls of transfer_blocking,
\* write_blocking and read_blocking have no time-out; whether they end is
\* module QspiTransfer's subject.  QSPI_Read and QSPI_ReadSample check their
\* arguments first, the loops check the size when the command already runs.
QSPI_Transfer(a) ==
  /\ pc = "ready"
  /\ \/ a = "good" /\ Access(Stop("ready") \/ Stop("blocked"))
     \/ a = "unmapped" /\ Access(Segfault \/ Stop("blocked"))
     \/ a = "asserted" /\ (Stop("aborted") \/ Access(Stop("aborted")))

\* QSPI_Busy looks at init_done first, and then only loads and clears flags.
QSPI_Busy ==
  /\ pc = "ready"
  /\ IF init_done = 1 THEN Access(Stop("ready")) ELSE UNCHANGED contextVars

\* Other code of the process maps a page.
OtherMaps ==
  /\ pc = "ready"
  /\ \E p \in Page : vm[p] = "free" /\ vm' = [vm EXCEPT ![p] = "other"]
  /\ UNCHANGED <<ctxVars, hwVars, procVars, pc>>

InitStep ==
  \/ OpenDevMem \/ RequestFlexspiMemory \/ IomuxInit
  \/ DisableModule \/ ClockInit \/ EnableModule

-----------------------------------------------------------------------------
(* A client that calls the API in any order, except that it initialises    *)
(* only a driver that is not initialised (the assertion of main.c 63).     *)

ClientCall ==
  \/ init_done = 0 /\ QSPI_Init
  \/ QSPI_DeInit
  \/ \E a \in Arguments : QSPI_SetupLut(a) \/ QSPI_Transfer(a)
  \/ QSPI_Busy

Next == ClientCall \/ InitStep \/ OtherMaps

Spec == ContextInit /\ [][Next]_contextVars

\* The program runs: a QSPI_Init that has begun goes on.
FairSpec == Spec /\ WF_contextVars(InitStep)

-----------------------------------------------------------------------------
(* Properties.                                                             *)

InitPcs == {"open", "map_fspi", "iomux", "mdis", "clock", "enable"}

\* The types of all variables.
TypeOK ==
  /\ vm \in [Page -> Owner]
  /\ openFds \in Nat
  /\ fd \in {0, -1, DevMem}
  /\ init_done \in {0, 1}
  /\ flexspi \in Page \cup {NULL}
  /\ map \in [Mappings -> Pointer]
  /\ handler \in BOOLEAN
  /\ clock \in {"off", "boot", "set"}
  /\ pads \in BOOLEAN
  /\ mdis \in BOOLEAN
  /\ logger \in BOOLEAN
  /\ pc \in InitPcs \cup {"ready", "exited", "aborted", "killed", "blocked"}
  /\ status \in {"none", "success", "failure"}

\* No call takes a page away from other code of the process, whatever fails
\* and whichever addresses are reused in between (qspi.h 20: QSPI_DeInit
\* "cleans up resources", its own).
ForeignPagesIntact ==
  [][\A p \in Page : vm[p] = "other" => vm'[p] = "other"]_contextVars

\* The munmaps of QSPI_DeInit, also when the SIGSEGV handler runs it, reach
\* pages of other code only in one place: behind the page of the IOMUX
\* registers, which was mapped as one page and is unmapped as 64 KiB (qspi.c
\* 493-497).  QSPI_Init reaches none, and with 64 KiB pages nothing does.
OnlyIomuxOverreaches ==
  [][\A p \in Page : vm[p] = "other" /\ vm'[p] # "other" =>
       /\ init_done = 1 /\ init_done' = 0
       /\ p \in Range(map["iomux"] + 1, PagesPer64K - 1)]_contextVars

\* A driver that is not initialised, because QSPI_Init failed or QSPI_DeInit
\* ran, holds no descriptor of /dev/mem and no mapping (qspi.h 20: "cleans up
\* resources"; qspi.c 414 on the failure path).
NoLeak ==
  pc \in {"ready", "exited"} /\ init_done = 0 =>
    /\ openFds = 0
    /\ \A p \in Page : vm[p] \notin Mappings

\* Whenever a call finds the driver initialised, flexspi points to the mapped
\* registers, their clock runs and the module is enabled, although flexspi
\* keeps its old value through a failed QSPI_Init and QSPI_DeInit, addresses
\* are reused by other code, and a failed mmap of the clock controller is only
\* logged (qspi.c 379-428).
InitialisedRegistersLive ==
  pc = "ready" /\ init_done = 1 => LiveRegisters /\ clock # "off" /\ ~ mdis
=============================================================================
