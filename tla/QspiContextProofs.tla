------------------------- MODULE QspiContextProofs -------------------------
(***************************************************************************)
(* Theorems about QspiContext, for every number of pages.                  *)
(***************************************************************************)
EXTENDS QspiContext, TLAPS

\* The mappings that the context is responsible for, at each point of
\* QSPI_Init and between calls.
Held ==
  IF pc = "iomux" THEN {"fspi"}
  ELSE IF pc \in {"mdis", "clock"} THEN {"fspi", "iomux"}
  ELSE IF pc = "enable" \/ init_done = 1 THEN Mappings
  ELSE {}

\* The process has not died in the middle of a call.
Alive == pc \notin {"aborted", "killed"}

\* The pages of mapping m.
PagesOf(m) == IF map[m] \in Page THEN Range(map[m], MapPages[m]) ELSE {}

\* A mapping owns the pages its map_ pointer says while it is held, and none
\* otherwise.
PagesInv ==
  Alive => \A m \in Mappings, p \in Page :
             vm[p] = m <=> m \in Held /\ p \in PagesOf(m)

\* The descriptor is open from a successful open to the end of QSPI_DeInit.
DescriptorInv ==
  /\ openFds = IF fd = DevMem THEN 1 ELSE 0
  /\ pc \in InitPcs => init_done = 0 /\ (fd = DevMem <=> pc # "open")
  /\ pc \notin InitPcs /\ Alive => (fd = DevMem <=> init_done = 1)

\* flexspi points to the registers while they are held, once QSPI_Init has got
\* past its first access the clock runs, and its last step enables the module.
RegistersInv ==
  Alive => /\ "fspi" \in Held => flexspi \in Page /\ flexspi = map["fspi"]
           /\ pc \in {"clock", "enable"} \/ init_done = 1 => clock # "off"
           /\ init_done = 1 => ~ mdis

\* The inductive invariant behind the theorems of this module.
ContextInv == TypeOK /\ PagesInv /\ DescriptorInv /\ RegistersInv

-----------------------------------------------------------------------------

\* QSPI_Context starts zeroed, with nothing held.
LEMMA InitContextInv == ContextInit => ContextInv
  <1> SUFFICES ASSUME ContextInit PROVE ContextInv
    OBVIOUS
  <1> USE DEF ContextInit
  <1>1. TypeOK
    BY DEF TypeOK, Owner, Pointer, Mappings
  <1>2. PagesInv
    BY DEF PagesInv, Held, Mappings
  <1>3. DescriptorInv
    BY DEF DescriptorInv, InitPcs, DevMem
  <1>4. RegistersInv
    BY DEF RegistersInv, Held
  <1> QED
    BY <1>1, <1>2, <1>3, <1>4 DEF ContextInv

\* What map_memory does to the pages when it succeeds: m owns exactly the new
\* pages if it owned none, and nobody else's pages change.
LEMMA MmapPages ==
  ASSUME TypeOK, NEW m \in Mappings, Mmap(m), \A p \in Page : vm[p] # m
  PROVE  /\ vm' \in [Page -> Owner]
         /\ map' \in [Mappings -> Pointer]
         /\ map'[m] \in Page
         /\ \A n \in Mappings \ {m} : map'[n] = map[n]
         /\ \A p \in Page : vm'[p] = m <=> p \in Range(map'[m], MapPages[m])
         /\ \A p \in Page : vm'[p] # m => vm'[p] = vm[p]
         /\ \A p \in Page : vm[p] # "free" => vm'[p] = vm[p]
  <1>1. PICK b \in Page :
          /\ Fits(b, MapPages[m])
          /\ vm' = [p \in Page |-> IF p \in Range(b, MapPages[m]) THEN m ELSE vm[p]]
          /\ map' = [map EXCEPT ![m] = b]
    BY DEF Mmap
  <1>2. map'[m] = b
    BY <1>1 DEF TypeOK
  <1>3. m \in Owner
    BY DEF Owner
  <1>4. \A p \in Range(b, MapPages[m]) : p \in Page /\ vm[p] = "free"
    BY <1>1 DEF Fits, Range
  <1> QED
    BY <1>1, <1>2, <1>3, <1>4 DEF TypeOK, Pointer

\* What a failed mmap does.
LEMMA MmapFailsPages ==
  ASSUME TypeOK, NEW m \in Mappings, MmapFails(m)
  PROVE  /\ vm' = vm
         /\ map' \in [Mappings -> Pointer]
         /\ map'[m] \notin Page
         /\ \A n \in Mappings \ {m} : map'[n] = map[n]
  BY QspiContextAssumption DEF TypeOK, MmapFails, Pointer, Page, MAP_FAILED

\* The effect of QSPI_DeInit: the context holds nothing afterwards.
LEMMA DeInitContext ==
  ASSUME ContextInv, pc = "ready", DeInitEffect
  PROVE  /\ vm' \in [Page -> Owner]
         /\ openFds' \in Nat
         /\ openFds' = 0
         /\ fd' \in {0, -1}
         /\ init_done' = 0
         /\ flexspi' = flexspi
         /\ map' = map
         /\ \A p \in Page : vm'[p] \notin Mappings
  <1>1. CASE init_done = 0
    <2>1. UNCHANGED <<vm, ctxVars>>
      BY <1>1 DEF DeInitEffect
    <2>2. \A p \in Page : vm[p] \notin Mappings
      BY <1>1 DEF ContextInv, PagesInv, Alive, Held
    <2>3. fd # DevMem /\ openFds = 0
      BY <1>1 DEF ContextInv, TypeOK, DescriptorInv, Alive, InitPcs
    <2> QED
      BY <1>1, <2>1, <2>2, <2>3 DEF ctxVars, ContextInv, TypeOK
  <1>2. CASE init_done = 1
    <2> DEFINE gone == UNION {Unmapped(m) : m \in Mappings}
    <2>1. /\ vm' = [p \in Page |-> IF p \in gone THEN "free" ELSE vm[p]]
          /\ openFds' = openFds - 1
          /\ fd' = -1
          /\ init_done' = 0
          /\ UNCHANGED <<flexspi, map>>
      BY <1>2 DEF DeInitEffect
    <2>2. openFds = 1
      BY <1>2 DEF ContextInv, TypeOK, DescriptorInv, Alive, InitPcs
    <2>3. ASSUME NEW m \in Mappings, NEW p \in Page, vm[p] = m
          PROVE  p \in gone
      <3>1. p \in PagesOf(m)
        BY <2>3 DEF ContextInv, PagesInv, Alive
      <3>2. p \in Unmapped(m)
        BY <3>1, QspiContextAssumption
        DEF PagesOf, Unmapped, MapPages, UnmapPages, Range, Mappings, Page
      <3> QED
        BY <3>2
    <2>4. vm' \in [Page -> Owner]
      BY <2>1 DEF ContextInv, TypeOK, Owner
    <2>5. ASSUME NEW p \in Page PROVE vm'[p] \notin Mappings
      BY <2>1, <2>3 DEF Mappings
    <2> QED
      BY <2>1, <2>2, <2>4, <2>5
  <1> QED
    BY <1>1, <1>2 DEF ContextInv, TypeOK

\* How a call of the API other than QSPI_Init and QSPI_DeInit can end.
Ends == {"ready", "aborted", "killed", "blocked"}

\* Whatever it is passed and finds, such a call leaves the context alone or
\* ends in the SIGSEGV handler.
LEMMA CallOutcome ==
  ASSUME \/ \E a \in Arguments : QSPI_SetupLut(a) \/ QSPI_Transfer(a)
         \/ QSPI_Busy
  PROVE  /\ pc = "ready"
         /\ Segfault \/ (\E p \in Ends : Stop(p)) \/ UNCHANGED contextVars
  <1>1. CASE QSPI_Busy
    BY <1>1 DEF QSPI_Busy, Access, Ends
  <1>2. ASSUME NEW a \in Arguments, QSPI_SetupLut(a)
        PROVE  pc = "ready" /\ (Segfault \/ \E p \in Ends : Stop(p))
    BY <1>2 DEF QSPI_SetupLut, Access, Ends
  <1>3. ASSUME NEW a \in Arguments, QSPI_Transfer(a)
        PROVE  pc = "ready" /\ (Segfault \/ \E p \in Ends : Stop(p))
    BY <1>3 DEF QSPI_Transfer, Access, Ends
  <1> QED
    BY <1>1, <1>2, <1>3

\* A call that leaves the context alone.
LEMMA StopContext ==
  ASSUME ContextInv, pc = "ready", NEW p \in Ends, Stop(p)
  PROVE  ContextInv'
  BY DEF Stop, Ends, ContextInv, TypeOK, PagesInv, DescriptorInv, RegistersInv,
         Alive, Held, PagesOf, InitPcs, ctxVars, hwVars, procVars

\* The signal: the handler's QSPI_DeInit, or death.
LEMMA SegfaultContext ==
  ASSUME ContextInv, pc = "ready", Segfault
  PROVE  ContextInv'
  <1>1. CASE ~ handler
    <2>1. Stop("killed") /\ "killed" \in Ends
      BY <1>1 DEF Segfault, Stop, Ends
    <2> QED
      BY <2>1, StopContext
  <1>2. CASE handler
    <2>1. /\ DeInitEffect
          /\ logger' = FALSE
          /\ status' = "failure"
          /\ pc' = "exited"
          /\ UNCHANGED <<hwVars, handler>>
      BY <1>2 DEF Segfault
    <2> USE <2>1, DeInitContext
    <2>2. TypeOK'
      BY DEF ContextInv, TypeOK, hwVars
    <2>3. PagesInv'
      BY DEF PagesInv, Held
    <2>4. DescriptorInv'
      BY DEF DescriptorInv, InitPcs, DevMem
    <2>5. RegistersInv'
      BY DEF RegistersInv, Held
    <2> QED
      BY <2>2, <2>3, <2>4, <2>5 DEF ContextInv
  <1> QED
    BY <1>1, <1>2

\* Every step of the client, of QSPI_Init and of other code preserves the
\* invariant.
LEMMA NextContextInv == ContextInv /\ [Next]_contextVars => ContextInv'
  <1> SUFFICES ASSUME ContextInv, [Next]_contextVars PROVE ContextInv'
    OBVIOUS
  <1> USE DEF ContextInv, ctxVars, hwVars, procVars, DevMem
  <1>1. CASE init_done = 0 /\ QSPI_Init
    <2>1. TypeOK'
      BY <1>1 DEF QSPI_Init, TypeOK, InitPcs
    <2>2. PagesInv'
      BY <1>1 DEF QSPI_Init, PagesInv, Alive, Held, PagesOf, InitPcs
    <2>3. DescriptorInv'
      BY <1>1 DEF QSPI_Init, DescriptorInv, Alive, InitPcs
    <2>4. RegistersInv'
      BY <1>1 DEF QSPI_Init, RegistersInv, Alive, Held, InitPcs
    <2> QED
      BY <2>1, <2>2, <2>3, <2>4 DEF ContextInv
  <1>2. CASE OpenDevMem
    <2>1. TypeOK'
      BY <1>2 DEF OpenDevMem, TypeOK, InitPcs
    <2>2. PagesInv'
      BY <1>2 DEF OpenDevMem, PagesInv, Alive, Held, PagesOf, InitPcs
    <2>3. DescriptorInv'
      BY <1>2 DEF OpenDevMem, DescriptorInv, Alive, InitPcs
    <2>4. RegistersInv'
      BY <1>2 DEF OpenDevMem, RegistersInv, Alive, Held, InitPcs
    <2> QED
      BY <2>1, <2>2, <2>3, <2>4
  <1>3. CASE RequestFlexspiMemory
    <2>0. /\ "fspi" \in Mappings
          /\ \A p \in Page : vm[p] # "fspi"
          /\ pc = "map_fspi"
          /\ UNCHANGED <<init_done, hwVars, procVars>>
      BY <1>3 DEF RequestFlexspiMemory, PagesInv, Alive, Held, DescriptorInv, InitPcs, Mappings
    <2>1. CASE /\ Mmap("fspi")
               /\ flexspi' = map'["fspi"]
               /\ pc' = "iomux"
               /\ UNCHANGED <<fd, openFds>>
      <3> USE <2>0, <2>1, MmapPages
      <3>1. TypeOK'
        BY DEF TypeOK, InitPcs
      <3>2. PagesInv'
        BY DEF PagesInv, Alive, Held, PagesOf, Mappings, DescriptorInv, InitPcs
      <3>3. DescriptorInv'
        BY DEF DescriptorInv, Alive, InitPcs
      <3>4. RegistersInv'
        BY DEF RegistersInv, DescriptorInv, Alive, Held, InitPcs, Mappings
      <3> QED
        BY <3>1, <3>2, <3>3, <3>4
    <2>2. CASE /\ MmapFails("fspi")
               /\ fd' = -1
               /\ openFds' = openFds - 1
               /\ pc' = "ready"
               /\ UNCHANGED flexspi
      <3> USE <2>0, <2>2, MmapFailsPages
      <3>1. TypeOK'
        BY DEF TypeOK, InitPcs, DescriptorInv
      <3>2. PagesInv'
        BY DEF PagesInv, Alive, Held, PagesOf, Mappings, DescriptorInv, InitPcs
      <3>3. DescriptorInv'
        BY DEF DescriptorInv, Alive, InitPcs
      <3>4. RegistersInv'
        BY DEF RegistersInv, DescriptorInv, Alive, Held, InitPcs, Mappings
      <3> QED
        BY <3>1, <3>2, <3>3, <3>4
    <2> QED
      BY <1>3, <2>1, <2>2 DEF RequestFlexspiMemory
  <1>4. CASE IomuxInit
    <2>0. /\ "iomux" \in Mappings
          /\ \A p \in Page : vm[p] # "iomux"
          /\ pc = "iomux"
          /\ pc' = "mdis"
          /\ UNCHANGED <<openFds, fd, init_done, flexspi, clock, mdis, procVars>>
      BY <1>4 DEF IomuxInit, PagesInv, Alive, Held, DescriptorInv, InitPcs, Mappings
    <2>1. CASE Mmap("iomux") /\ pads' = TRUE
      <3> USE <2>0, <2>1, MmapPages
      <3>1. TypeOK'
        BY DEF TypeOK, InitPcs
      <3>2. PagesInv'
        BY DEF PagesInv, Alive, Held, PagesOf, Mappings, DescriptorInv, InitPcs
      <3>3. DescriptorInv'
        BY DEF DescriptorInv, Alive, InitPcs
      <3>4. RegistersInv'
        BY DEF RegistersInv, Alive, Held, InitPcs, Mappings
      <3> QED
        BY <3>1, <3>2, <3>3, <3>4
    <2>2. CASE MmapFails("iomux") /\ UNCHANGED pads
      <3> USE <2>0, <2>2, MmapFailsPages
      <3>1. TypeOK'
        BY DEF TypeOK, InitPcs
      <3>2. PagesInv'
        BY DEF PagesInv, Alive, Held, PagesOf, Mappings, DescriptorInv, InitPcs
      <3>3. DescriptorInv'
        BY DEF DescriptorInv, Alive, InitPcs
      <3>4. RegistersInv'
        BY DEF RegistersInv, Alive, Held, InitPcs, Mappings
      <3> QED
        BY <3>1, <3>2, <3>3, <3>4
    <2> QED
      BY <1>4, <2>1, <2>2 DEF IomuxInit
  <1>5. CASE DisableModule
    <2>1. TypeOK'
      <3>1. /\ pc' \in {"killed", "clock"}
            /\ UNCHANGED <<vm, ctxVars, clock, pads, procVars>>
        BY <1>5 DEF DisableModule
      <3>2. mdis' \in BOOLEAN
        BY <1>5, Zenon DEF DisableModule, TypeOK
      <3> QED
        BY <3>1, <3>2 DEF TypeOK, InitPcs, ctxVars, procVars
    <2>2. PagesInv'
      BY <1>5 DEF DisableModule, PagesInv, Alive, Held, PagesOf, InitPcs
    <2>3. DescriptorInv'
      BY <1>5 DEF DisableModule, DescriptorInv, Alive, InitPcs
    <2>4. RegistersInv'
      BY <1>5 DEF DisableModule, RegistersInv, DescriptorInv, Alive, Held, InitPcs
    <2> QED
      BY <2>1, <2>2, <2>3, <2>4 DEF ContextInv
  <1>6. CASE ClockInit
    <2>0. /\ "ccm" \in Mappings
          /\ \A p \in Page : vm[p] # "ccm"
          /\ pc = "clock"
          /\ pc' = "enable"
          /\ UNCHANGED <<openFds, fd, init_done, flexspi, pads, mdis, procVars>>
      BY <1>6 DEF ClockInit, PagesInv, Alive, Held, DescriptorInv, InitPcs, Mappings
    <2>1. CASE Mmap("ccm") /\ clock' = "set"
      <3> USE <2>0, <2>1, MmapPages
      <3>1. TypeOK'
        BY DEF TypeOK, InitPcs
      <3>2. PagesInv'
        BY DEF PagesInv, Alive, Held, PagesOf, Mappings, DescriptorInv, InitPcs
      <3>3. DescriptorInv'
        BY DEF DescriptorInv, Alive, InitPcs
      <3>4. RegistersInv'
        BY DEF RegistersInv, Alive, Held, InitPcs, Mappings
      <3> QED
        BY <3>1, <3>2, <3>3, <3>4
    <2>2. CASE MmapFails("ccm") /\ UNCHANGED clock
      <3> USE <2>0, <2>2, MmapFailsPages
      <3>1. TypeOK'
        BY DEF TypeOK, InitPcs
      <3>2. PagesInv'
        BY DEF PagesInv, Alive, Held, PagesOf, Mappings, DescriptorInv, InitPcs
      <3>3. DescriptorInv'
        BY DEF DescriptorInv, Alive, InitPcs
      <3>4. RegistersInv'
        BY DEF RegistersInv, Alive, Held, InitPcs, Mappings
      <3> QED
        BY <3>1, <3>2, <3>3, <3>4
    <2> QED
      BY <1>6, <2>1, <2>2 DEF ClockInit
  <1>7. CASE EnableModule
    <2>1. TypeOK'
      BY <1>7 DEF EnableModule, TypeOK, InitPcs
    <2>2. PagesInv'
      BY <1>7 DEF EnableModule, PagesInv, Alive, Held, PagesOf, InitPcs
    <2>3. DescriptorInv'
      BY <1>7 DEF EnableModule, DescriptorInv, Alive, InitPcs
    <2>4. RegistersInv'
      BY <1>7 DEF EnableModule, RegistersInv, Alive, Held, InitPcs
    <2> QED
      BY <2>1, <2>2, <2>3, <2>4 DEF ContextInv
  <1>8. CASE QSPI_DeInit
    <2> USE <1>8, DeInitContext DEF QSPI_DeInit
    <2>1. TypeOK'
      BY DEF TypeOK
    <2>2. PagesInv'
      BY DEF PagesInv, Held
    <2>3. DescriptorInv'
      BY DEF DescriptorInv, InitPcs
    <2>4. RegistersInv'
      BY DEF RegistersInv, Held
    <2> QED
      BY <2>1, <2>2, <2>3, <2>4
  <1>9. CASE UNCHANGED contextVars
    BY <1>9 DEF contextVars, TypeOK, PagesInv, DescriptorInv, RegistersInv,
                 Alive, Held, PagesOf
  <1>10. CASE \/ \E a \in Arguments : QSPI_SetupLut(a) \/ QSPI_Transfer(a)
             \/ QSPI_Busy
    <2>1. pc = "ready" /\ (Segfault \/ (\E p \in Ends : Stop(p)) \/ UNCHANGED contextVars)
      BY <1>10, CallOutcome
    <2> QED
      BY <2>1, <1>9, SegfaultContext, StopContext
  <1>11. CASE OtherMaps
    <2>1. TypeOK'
      BY <1>11 DEF OtherMaps, TypeOK, Owner, InitPcs
    <2>2. PagesInv'
      BY <1>11 DEF OtherMaps, TypeOK, Mappings, PagesInv, Alive, Held, PagesOf, InitPcs
    <2>3. DescriptorInv'
      BY <1>11 DEF OtherMaps, DescriptorInv, Alive, InitPcs
    <2>4. RegistersInv'
      BY <1>11 DEF OtherMaps, RegistersInv, Alive, Held, InitPcs
    <2> QED
      BY <2>1, <2>2, <2>3, <2>4 DEF ContextInv
  <1> QED
    BY <1>1, <1>2, <1>3, <1>4, <1>5, <1>6, <1>7, <1>8, <1>9, <1>10, <1>11
    DEF Next, ClientCall, InitStep

\* The invariant holds in every behaviour of QspiContext.
THEOREM ContextInvariant == Spec => []ContextInv
  <1> QED
    BY InitContextInv, NextContextInv, PTL DEF Spec

-----------------------------------------------------------------------------

\* Every variable keeps its type: no counter of descriptors goes below zero,
\* and flexspi is never MAP_FAILED.
THEOREM ContextTypeCorrect == Spec => []TypeOK
  <1>1. ContextInv => TypeOK
    BY DEF ContextInv
  <1> QED
    BY <1>1, ContextInvariant, PTL

\* A driver that is not initialised holds no descriptor and no mapping,
\* whatever the page size, the failures of open and mmap and the order of the
\* calls (QSPI_Init, QSPI_DeInit, segfault_sigaction).
THEOREM ContextNoLeak == Spec => []NoLeak
  <1>1. ContextInv => NoLeak
    BY DEF ContextInv, NoLeak, PagesInv, DescriptorInv, TypeOK, Alive, Held,
           InitPcs, DevMem
  <1> QED
    BY <1>1, ContextInvariant, PTL

\* Between calls an initialised driver has its registers mapped where flexspi
\* points, their clock running and the module enabled, whatever failed and
\* whichever addresses other code took in between (qspi.c 379-428, 485-503).
THEOREM ContextInitialisedRegistersLive == Spec => []InitialisedRegistersLive
  <1>1. ASSUME ContextInv, pc = "ready", init_done = 1
        PROVE  LiveRegisters /\ clock # "off" /\ ~ mdis
    <2> USE <1>1
    <2>1. flexspi \in Page /\ flexspi = map["fspi"] /\ clock # "off" /\ ~ mdis
      BY DEF ContextInv, RegistersInv, Alive, Held, Mappings
    <2>2. flexspi \in PagesOf("fspi")
      BY <2>1, QspiContextAssumption DEF PagesOf, Range, MapPages, Mappings, Page
    <2>3. vm[flexspi] = "fspi"
      BY <2>1, <2>2 DEF ContextInv, PagesInv, Alive, Held, Mappings
    <2> QED
      BY <2>1, <2>3 DEF LiveRegisters
  <1>2. ContextInv => InitialisedRegistersLive
    BY <1>1 DEF InitialisedRegistersLive
  <1> QED
    BY <1>2, ContextInvariant, PTL

\* QSPI_DeInit, called or run by the SIGSEGV handler, takes pages of other
\* code only behind the page of the IOMUX registers, for every page size.
LEMMA DeInitOverreach ==
  ASSUME ContextInv, pc = "ready", DeInitEffect,
         NEW p \in Page, vm[p] = "other", vm'[p] # "other"
  PROVE  /\ init_done = 1 /\ init_done' = 0
         /\ p \in Range(map["iomux"] + 1, PagesPer64K - 1)
  <1>1. init_done = 1
    BY DEF DeInitEffect, ContextInv, TypeOK
  <1>2. init_done' = 0
    BY <1>1 DEF DeInitEffect
  <1>3. PICK m \in Mappings : p \in Unmapped(m)
    BY <1>1 DEF DeInitEffect, ContextInv, TypeOK
  <1>4. map[m] \in Page /\ p \in Range(map[m], UnmapPages[m])
    BY <1>3 DEF Unmapped
  <1>5. p \notin PagesOf(m)
    BY <1>1 DEF ContextInv, PagesInv, Alive, Held, Mappings
  <1>6. p \notin Range(map[m], MapPages[m])
    BY <1>4, <1>5 DEF PagesOf
  <1>7. m = "iomux"
    BY <1>4, <1>6 DEF MapPages, UnmapPages, Mappings
  <1>8. p \in Range(map["iomux"], PagesPer64K) /\ p \notin Range(map["iomux"], 1)
    BY <1>4, <1>6, <1>7 DEF MapPages, UnmapPages, Mappings
  <1>9. map["iomux"] \in Nat /\ p \in Nat /\ PagesPer64K \in Nat
    BY <1>4, <1>7, QspiContextAssumption DEF Page
  <1>10. p \in Range(map["iomux"] + 1, PagesPer64K - 1)
    BY <1>8, <1>9 DEF Range
  <1> QED
    BY <1>1, <1>2, <1>10

\* Every page size, every failure, every reuse of addresses: what the process
\* can lose to this driver is the rest of the 64 KiB behind the IOMUX page.
THEOREM ContextOnlyIomuxOverreaches == Spec => OnlyIomuxOverreaches
  <1>1. ASSUME ContextInv, [Next]_contextVars, NEW p \in Page,
               vm[p] = "other", vm'[p] # "other"
        PROVE  /\ init_done = 1 /\ init_done' = 0
               /\ p \in Range(map["iomux"] + 1, PagesPer64K - 1)
    <2> USE <1>1
    <2>1. ASSUME NEW m \in Mappings PROVE ~ Mmap(m)
      BY <2>1 DEF Mmap, Fits, Range, ContextInv, TypeOK
    <2>2. CASE QSPI_DeInit \/ (pc = "ready" /\ Segfault)
      <3>1. pc = "ready" /\ DeInitEffect
        BY <2>2 DEF QSPI_DeInit, Segfault
      <3> QED
        BY <3>1, DeInitOverreach
    <2>3. CASE ClientCall
      <3>1. ~ QSPI_Init
        BY DEF QSPI_Init
      <3>2. ASSUME NEW e \in Ends PROVE ~ Stop(e)
        BY DEF Stop
      <3>3. ~ UNCHANGED contextVars
        BY DEF contextVars
      <3> QED
        BY <2>2, <2>3, <3>1, <3>2, <3>3, CallOutcome DEF ClientCall
    <2>4. ~ InitStep
      BY <2>1
      DEF InitStep, OpenDevMem, RequestFlexspiMemory, IomuxInit, DisableModule,
          ClockInit, EnableModule, MmapFails, Mappings
    <2>5. ~ OtherMaps
      BY DEF OtherMaps, ContextInv, TypeOK
    <2>6. ~ UNCHANGED contextVars
      BY DEF contextVars
    <2> QED
      BY <2>3, <2>4, <2>5, <2>6 DEF Next
  <1>2. ContextInv /\ [Next]_contextVars
          => [\A p \in Page : vm[p] = "other" /\ vm'[p] # "other" =>
                /\ init_done = 1 /\ init_done' = 0
                /\ p \in Range(map["iomux"] + 1, PagesPer64K - 1)]_contextVars
    BY <1>1
  <1> QED
    BY <1>2, ContextInvariant, PTL DEF Spec, OnlyIomuxOverreaches
=============================================================================
