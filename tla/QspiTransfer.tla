---------------------------- MODULE QspiTransfer ----------------------------
(***************************************************************************)
(* The blocking transfers of src/src/qspi.c: QSPI_Write, QSPI_Read and     *)
(* QSPI_ReadSample, which all run transfer_blocking, and QSPI_Busy,        *)
(* interleaved with the FlexSPI controller (module FlexSpi).               *)
(*                                                                         *)
(* One driver step is one access to a register the controller changes by   *)
(* itself (INTR, the FIFOs), so "INTR |= flag" is a load and a later       *)
(* store.  Accesses to registers only the driver writes are merged into    *)
(* the step next to them.                                                  *)
(*                                                                         *)
(* The fields of FlexSPI_Type (flexspi.h) are not volatile, so the         *)
(* compiler decides which accesses of the source reach the bus.  build     *)
(* ranges over the outcomes:                                               *)
(*   "volatile"  every access of the source, in the order of the source;   *)
(*   "cached"    self-assignments (all of clear_flags) are dropped, a      *)
(*               polling loop loads the register once, and a value already *)
(*               in a CPU register may be used instead of a load;          *)
(*   "reordered" "cached", and IPCMD is written before IPCR1.              *)
(* gcc 12 -O2 on this file produces the third.                             *)
(***************************************************************************)
EXTENDS FlexSpi

CONSTANTS
  Requests, \* the calls a client may make, see Request
  MaxCalls, \* bound on the number of calls
  MayCrash, \* whether the process may be killed, and another one started
  Builds    \* the compiler outcomes considered

Request == [api: {"QSPI_Write", "QSPI_Read", "QSPI_ReadSample"},
            lut_index: DOMAIN Lut,
            size: Nat]

LUT_INDEX_READ == 0
FPGA_LUT_IDX_RD_SAMPLE == 11

ASSUME QspiTransferAssumption ==
  /\ Requests \subseteq Request
  /\ {LUT_INDEX_READ, FPGA_LUT_IDX_RD_SAMPLE} \subseteq DOMAIN Lut
  /\ MaxCalls \in Nat
  /\ MayCrash \in BOOLEAN
  /\ Builds \subseteq {"volatile", "cached", "reordered"}

VARIABLES
  build,  \* the compiler outcome, fixed
  pc,
  reg,    \* the last value of INTR the driver loaded or stored
  req,    \* the current, or last, call
  off,    \* how far the buffer pointer has moved, in bytes
  size,   \* bytes still to move
  dst,    \* the words a read has put into the caller's buffer
  result, \* transfer_blocking's result
  busy,   \* the result of the last QSPI_Busy; 2 if none since the last call
  orphan, \* a command was running already when the call, or process, began
  calls

driverVars ==
  <<build, pc, reg, req, off, size, dst, result, busy, orphan, calls>>
vars == <<hwVars, driverVars>>

-----------------------------------------------------------------------------
(* Arguments of a transfer.                                                *)

\* flexspi_transfer_t.dataSize is a uint16_t.
DataSize(x) == x.size % 65536

SeqIndex(x) ==
  CASE x.api = "QSPI_Write"      -> x.lut_index
    [] x.api = "QSPI_Read"       -> LUT_INDEX_READ
    [] x.api = "QSPI_ReadSample" -> FPGA_LUT_IDX_RD_SAMPLE

\* IPCR1 as transfer_blocking composes it.  dataSize, seqIndex and
\* SeqNumber - 1 = 0 occupy disjoint bits.
ConfigOf(x) == [seq |-> SeqIndex(x), size |-> DataSize(x)]

Volatile == build = "volatile"

Init ==
  /\ HwInit
  /\ build \in Builds
  /\ pc = "idle"
  /\ reg = {}
  /\ req \in Requests
  /\ off = 0
  /\ size = 0
  /\ dst = <<>>
  /\ result = 0
  /\ busy = 2
  /\ orphan = FALSE
  /\ calls = 0

-----------------------------------------------------------------------------
(* Register accesses.                                                      *)

\* A load of INTR that the source makes just to store it back changed.
LoadIntr(from, to) ==
  /\ pc = from
  /\ pc' = to
  /\ reg' \in IF Volatile THEN {intr} ELSE {intr, reg}
  /\ UNCHANGED <<hwVars, build, req, off, size, dst, result, busy, orphan, calls>>

StoreIntr(from, to, v) ==
  /\ pc = from
  /\ pc' = to
  /\ reg' = v
  /\ WriteIntr(v)
  /\ UNCHANGED <<ipcr1, cmd, tfdr, wire>>
  /\ UNCHANGED <<build, req, off, size, dst, result, busy, orphan, calls>>

\* One turn of "while (0 == (fspi->INTR & flag)) {}".  A compiler that keeps
\* INTR in a CPU register tests the value it last loaded or stored, and
\* never leaves the loop when the flag is not in it.
Poll(from, flag, to) ==
  /\ pc = from
  /\ reg' = IF Volatile \/ off = 0 \/ from = "wait" THEN intr ELSE reg
  /\ pc' = IF flag \in reg' THEN to ELSE IF Volatile THEN from ELSE "spin"
  /\ UNCHANGED <<hwVars, build, req, off, size, dst, result, busy, orphan, calls>>

-----------------------------------------------------------------------------
(* transfer_blocking up to IPCMD.                                          *)

\* QSPI_Read and QSPI_ReadSample assert size > 0, on the size_t argument.
Call(x) ==
  /\ pc = "idle"
  /\ calls < MaxCalls
  /\ calls' = calls + 1
  /\ req' = x
  /\ off' = 0
  /\ size' = DataSize(x)
  /\ dst' = <<>>
  /\ result' = 0
  /\ busy' = 2
  /\ orphan' = (cmd.st = "run")
  /\ pc' = IF x.api # "QSPI_Write" /\ x.size = 0 THEN "aborted"
           ELSE IF Volatile THEN "clear_load" ELSE "setup"
  /\ UNCHANGED <<hwVars, build, reg>>

\* clear_flags before the transfer.
ClearPendingLoad == LoadIntr("clear_load", "clear_store")

\* A mutant: IPCMDDONE is not among the flags cleared.
ClearPendingStoreKeepsDone ==
  StoreIntr("clear_store", "setup", reg \ {"IPCMDDONE"})

ClearPendingStore == StoreIntr("clear_store", "setup", reg)

\* A mutant: IPCR1 is written only after IPCMD.
SetupWithoutIpcr1 ==
  /\ pc = "setup"
  /\ pc' = "trigger"
  /\ txFifo' = <<>>
  /\ rxFifo' = <<>>
  /\ UNCHANGED <<intr, ipcr1, cmd, tfdr, wire>>
  /\ UNCHANGED <<build, reg, req, off, size, dst, result, busy, orphan, calls>>

\* IPCR0, both FIFO resets, and IPCR1 unless its store moved behind IPCMD.
Setup ==
  /\ pc = "setup"
  /\ pc' = "trigger"
  /\ txFifo' = <<>>
  /\ rxFifo' = <<>>
  /\ ipcr1' = IF build = "reordered" THEN ipcr1 ELSE ConfigOf(req)
  /\ UNCHANGED <<intr, cmd, tfdr, wire>>
  /\ UNCHANGED <<build, reg, req, off, size, dst, result, busy, orphan, calls>>

\* A mutant: the command is not triggered.
StartTransferUntriggered ==
  /\ pc = "trigger"
  /\ ipcr1' = ConfigOf(req)
  /\ pc' = IF size > 32 * 32 THEN "aborted"
           ELSE IF req.api # "QSPI_Write" THEN "r_flush"
           ELSE IF size = 0 THEN "wait" ELSE "w_poll"
  /\ UNCHANGED <<intr, cmd, tfdr, txFifo, rxFifo, wire>>
  /\ UNCHANGED <<build, reg, req, off, size, dst, result, busy, orphan, calls>>

\* IPCMD |= 1, then the entry of write_blocking or read_blocking with its
\* assertion on size.
StartTransfer ==
  /\ pc = "trigger"
  /\ Trigger(ipcr1)
  /\ ipcr1' = ConfigOf(req)
  /\ pc' = IF size > 32 * 32 THEN "aborted"
           ELSE IF req.api # "QSPI_Write" THEN "r_flush"
           ELSE IF size = 0 THEN "wait" ELSE "w_poll"
  /\ UNCHANGED <<intr, tfdr, txFifo, rxFifo>>
  /\ UNCHANGED <<build, reg, req, off, size, dst, result, busy, orphan, calls>>

-----------------------------------------------------------------------------
(* write_blocking.                                                         *)

WritePoll == Poll("w_poll", "IPTXWE", IF Volatile THEN "w_clear_load" ELSE "w_fill")
WriteClearLoad == LoadIntr("w_clear_load", "w_clear_store")
WriteClearStore == StoreIntr("w_clear_store", "w_fill", reg)

\* TFDR after n words of the buffer have been stored, the last one padded if
\* the buffer ends inside it.  Words beyond TFDR[31] fall on the LUT registers
\* behind it (module QspiLut, QSPI_Write); nothing is staged for them.
Filled(n) ==
  [i \in DOMAIN tfdr |-> IF i < n THEN off \div 4 + i + 1 ELSE tfdr[i]]

\* A watermark of words, or the rest of the buffer.
WriteFill ==
  /\ pc = "w_fill"
  /\ pc' = "w_push_load"
  /\ \/ /\ size >= 8 * TxWmk
        /\ tfdr' = Filled(2 * TxWmk)
        /\ off' = off + 4 * (2 * TxWmk)
        /\ size' = size - 8 * TxWmk
     \/ /\ size < 8 * TxWmk
        /\ tfdr' = Filled(WordsOf(size))
        /\ off' = off + size
        /\ size' = 0
  /\ UNCHANGED <<intr, ipcr1, cmd, txFifo, rxFifo, wire>>
  /\ UNCHANGED <<build, reg, req, dst, result, busy, orphan, calls>>

WritePushLoad == LoadIntr("w_push_load", "w_push_store")
WritePushStore ==
  StoreIntr("w_push_store", IF size = 0 THEN "wait" ELSE "w_poll", reg \cup {"IPTXWE"})

-----------------------------------------------------------------------------
(* read_blocking.                                                          *)

ReadFlush ==
  /\ pc = "r_flush"
  /\ pc' = IF size = 0 THEN "wait" ELSE "r_poll"
  /\ rxFifo' = <<>>
  /\ UNCHANGED <<intr, ipcr1, cmd, tfdr, txFifo, wire>>
  /\ UNCHANGED <<build, reg, req, off, size, dst, result, busy, orphan, calls>>

ReadPoll == Poll("r_poll", "IPRXWA", IF Volatile THEN "r_clear_load" ELSE "r_copy")
ReadClearLoad == LoadIntr("r_clear_load", "r_clear_store")
ReadClearStore == StoreIntr("r_clear_store", "r_copy", reg)

\* The caller's buffer after n words of RFDR have been stored.
Received(n) == dst \o [k \in 1 .. n |-> Rfdr(k - 1)]

\* A mutant: a turn copies a whole watermark of words but accounts for half.
ReadCopyTwice ==
  /\ pc = "r_copy"
  /\ pc' = "r_pop_load"
  /\ \/ /\ size >= 4 * RxWmk
        /\ dst' = Received(2 * RxWmk)
        /\ off' = off + 4 * (2 * RxWmk)
        /\ size' = size - 4 * RxWmk
     \/ /\ size < 4 * RxWmk
        /\ dst' = Received(WordsOf(size))
        /\ off' = off + size
        /\ size' = 0
  /\ UNCHANGED <<hwVars, build, reg, req, result, busy, orphan, calls>>

\* A mutant: half a watermark is enough for a turn that consumes a whole one.
ReadCopyUnderflows ==
  /\ pc = "r_copy"
  /\ pc' = "r_pop_load"
  /\ \/ /\ size >= 4 * RxWmk
        /\ dst' = Received(2 * RxWmk)
        /\ off' = off + 4 * (2 * RxWmk)
        /\ size' = size - 8 * RxWmk
     \/ /\ size < 4 * RxWmk
        /\ dst' = Received(WordsOf(size))
        /\ off' = off + size
        /\ size' = 0
  /\ UNCHANGED <<hwVars, build, reg, req, result, busy, orphan, calls>>

\* Half a watermark of words, or the rest of the buffer.
ReadCopy ==
  /\ pc = "r_copy"
  /\ pc' = "r_pop_load"
  /\ \/ /\ size >= 4 * RxWmk
        /\ dst' = Received(RxWmk)
        /\ off' = off + 4 * RxWmk
        /\ size' = size - 4 * RxWmk
     \/ /\ size < 4 * RxWmk
        /\ dst' = Received(WordsOf(size))
        /\ off' = off + size
        /\ size' = 0
  /\ UNCHANGED <<hwVars, build, reg, req, result, busy, orphan, calls>>

ReadPopLoad == LoadIntr("r_pop_load", "r_pop_store")
ReadPopStore ==
  StoreIntr("r_pop_store", IF size = 0 THEN "wait" ELSE "r_poll", reg \cup {"IPRXWA"})

-----------------------------------------------------------------------------
(* The end of transfer_blocking, and QSPI_Busy.                            *)

\* A mutant: the wait looks at the wrong flag.
WaitForTxFlag == Poll("wait", "IPTXWE", "fin_load")

WaitDone == Poll("wait", "IPCMDDONE", "fin_load")

\* result is 0 whatever happened, so INTR is always written; then the call
\* returns.
FinishLoad == LoadIntr("fin_load", "fin_store")
FinishStore == StoreIntr("fin_store", "idle", reg \cup {"IPTXWE"})

\* A loop on a value in a CPU register does not end.
Spin ==
  /\ pc = "spin"
  /\ UNCHANGED vars

\* QSPI_Busy on an initialised driver: the load of INTR.  When the command is
\* done, clear_flags follows, with a load of its own.
QSPI_Busy ==
  /\ pc = "idle"
  /\ reg' = intr
  /\ \/ /\ "IPERR" \in intr
        /\ busy' = -1
        /\ UNCHANGED pc
     \/ /\ "IPERR" \notin intr
        /\ "IPCMDDONE" \in intr
        /\ busy' = 0
        /\ pc' = IF Volatile THEN "b_clear_load" ELSE pc
     \/ /\ intr \cap {"IPERR", "IPCMDDONE"} = {}
        /\ busy' = 1
        /\ UNCHANGED pc
  /\ UNCHANGED <<hwVars, build, req, off, size, dst, result, orphan, calls>>

BusyClearLoad == LoadIntr("b_clear_load", "b_clear_store")
BusyClearStore == StoreIntr("b_clear_store", "idle", reg)

-----------------------------------------------------------------------------
(* The end of a process.                                                   *)

\* A signal ends the process anywhere; the controller goes on.
Kill ==
  /\ MayCrash
  /\ pc # "aborted"
  /\ pc' = "aborted"
  /\ UNCHANGED <<hwVars, build, reg, req, off, size, dst, result, busy, orphan, calls>>

\* A new process calls QSPI_Init, which leaves INTR, the FIFOs and a running
\* command as they are: the store to SWRST is commented out.
Restart ==
  /\ MayCrash
  /\ pc = "aborted"
  /\ pc' = "idle"
  /\ reg' = {}
  /\ off' = 0
  /\ size' = 0
  /\ dst' = <<>>
  /\ result' = 0
  /\ busy' = 2
  /\ orphan' = (cmd.st = "run")
  /\ UNCHANGED <<hwVars, build, req, calls>>

TransferStep ==
  \/ ClearPendingLoad \/ ClearPendingStore \/ Setup \/ StartTransfer
  \/ WritePoll \/ WriteClearLoad \/ WriteClearStore \/ WriteFill
  \/ WritePushLoad \/ WritePushStore
  \/ ReadFlush \/ ReadPoll \/ ReadClearLoad \/ ReadClearStore \/ ReadCopy
  \/ ReadPopLoad \/ ReadPopStore
  \/ WaitDone \/ FinishLoad \/ FinishStore \/ Spin
  \/ BusyClearLoad \/ BusyClearStore

Controller == HwNext /\ UNCHANGED driverVars

Next ==
  \/ \E x \in Requests : Call(x)
  \/ TransferStep
  \/ QSPI_Busy
  \/ Kill
  \/ Restart
  \/ Controller

Spec == Init /\ [][Next]_vars

\* The program runs until it exits, and an enabled controller keeps clocking:
\* every controller step that stays possible is taken.  Failures, and the
\* client's calls, are never forced.
Fairness ==
  /\ WF_vars(TransferStep)
  /\ WF_vars(RaiseIptxwe /\ UNCHANGED driverVars)
  /\ WF_vars(RaiseIprxwa /\ UNCHANGED driverVars)
  /\ WF_vars(SendWord /\ UNCHANGED driverVars)
  /\ WF_vars(ReceiveWord /\ UNCHANGED driverVars)
  /\ WF_vars(FinishCommand /\ UNCHANGED driverVars)

FairSpec == Spec /\ Fairness

-----------------------------------------------------------------------------
(* Properties.                                                             *)

Pcs == {"idle", "aborted", "clear_load", "clear_store", "setup", "trigger",
        "w_poll", "w_clear_load", "w_clear_store", "w_fill", "w_push_load",
        "w_push_store", "r_flush", "r_poll", "r_clear_load", "r_clear_store",
        "r_copy", "r_pop_load", "r_pop_store", "wait", "fin_load", "fin_store",
        "spin", "b_clear_load", "b_clear_store"}

\* No transfer is under way.
BetweenCalls == pc \in {"idle", "b_clear_load", "b_clear_store"}

\* The driver has triggered this call's command and has not seen it finish.
InCommand == pc \in {"w_poll", "w_clear_load", "w_clear_store", "w_fill",
                     "w_push_load", "w_push_store", "r_flush", "r_poll",
                     "r_clear_load", "r_clear_store", "r_copy", "r_pop_load",
                     "r_pop_store", "wait"}

\* The types of all variables.
TypeOK ==
  /\ HwTypeOK
  /\ build \in Builds
  /\ pc \in Pcs
  /\ reg \subseteq Flags
  /\ req \in Requests
  /\ off \in Nat
  /\ size \in Nat
  /\ dst \in Seq(Nat)
  /\ result = 0
  /\ busy \in {-1, 0, 1, 2}
  /\ orphan \in BOOLEAN
  /\ calls \in 0 .. MaxCalls

\* Whatever the watermarks, the size and the build, write_blocking never
\* reads and read_blocking never writes past the caller's buffer: the buffer
\* pointer and the remaining size, which the loops update separately, always
\* add up to dataSize, and the words stored cover exactly the bytes moved.
BufferInBounds ==
  InCommand \/ pc \in {"fin_load", "fin_store"} =>
    /\ off <= DataSize(req)
    /\ size = DataSize(req) - off
    /\ req.api # "QSPI_Write" => Len(dst) = WordsOf(off)

\* Every access reaches the bus, and the call found the controller at rest.
Undisturbed == Volatile /\ ~orphan

\* A call returns only after the command it triggered has ended, and no
\* command runs between calls: IPCMDDONE left over from anything earlier is
\* never taken for the completion of this transfer (qspi.c 324-325, 372).  A
\* process killed in the middle of a command disturbs only calls that begin
\* while that command still runs.
OwnCompletion ==
  /\ Undisturbed
  /\ \/ BetweenCalls
     \/ pc \in {"clear_load", "clear_store", "setup", "trigger",
                "fin_load", "fin_store"}
  => cmd.st # "run"

\* While a transfer waits for its command, the controller executes the
\* sequence and the size that the call asked for (qspi.c 334-346), also after
\* an earlier process was killed at any point.
CommandMatchesRequest ==
  /\ Undisturbed
  /\ InCommand \/ pc \in {"fin_load", "fin_store"}
  => cmd.cfg = ConfigOf(req)

\* How far the current call is, for its client.
CallState ==
  IF ~ Undisturbed \/ pc = "aborted" THEN "void"
  ELSE IF BetweenCalls THEN "idle"
  ELSE IF pc \in {"clear_load", "clear_store", "setup", "trigger"} THEN "called"
  ELSE IF cmd.st = "run" THEN "running" ELSE "ended"

CallConfig ==
  IF CallState \in {"running", "ended"} THEN cmd.cfg ELSE ConfigOf(req)

Command == INSTANCE BlockingCommand WITH
             st <- CallState, cfg <- CallConfig, Configs <- Config

\* A call is one command from the client's point of view: called, triggered
\* with what the call asked for, ended, returned, in this order
\* (transfer_blocking, qspi.c 315-383).
CallIsOneCommand == Command!Spec

\* What a write sends are the words of the caller's buffer, in their order
\* (README, "Send data IP command": "Write data to IP_TX_FIFO", and only then
\* trigger INTR[IPTXWE], which pushes them; write_blocking, qspi.c 186-232).
WriteDelivered ==
  InCommand /\ req.api = "QSPI_Write" => \A k \in 1 .. Len(wire) : wire[k] = k

\* The device's words in their order: what a read has put into the caller's
\* buffer is a prefix of what the sequence received (README, "Receive data IP
\* response": "Fetch data from IP_RX_FIFO"; read_blocking, qspi.c 252-288).
ReadDelivered == InCommand => \A k \in 1 .. Len(dst) : dst[k] = k

\* Every transfer that starts returns.
TransferReturns == (pc \notin {"idle", "aborted"}) ~> (pc \in {"idle", "aborted"})

\* "Wait until the IP command execution finishes" (qspi.c 366): once the
\* command has finished, the wait for it ends.
WaitEndsWhenFinished == (pc \in {"wait", "spin"} /\ cmd.st = "done") ~> (pc = "idle")
=============================================================================
