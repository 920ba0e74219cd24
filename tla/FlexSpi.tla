------------------------------ MODULE FlexSpi ------------------------------
(***************************************************************************)
(* The IP-command engine of the i.MX8MP FlexSPI controller, as far as      *)
(* src/src/qspi.c drives it.  The controller is not part of the            *)
(* repository: its register effects are the ones the driver and the        *)
(* repository's README rely on, stated here once.                          *)
(*                                                                         *)
(*  - INTR is write-one-to-clear.  Besides clearing the flag, writing one  *)
(*    to IPTXWE moves a watermark of words from TFDR into the TX FIFO, and *)
(*    writing one to IPRXWA removes a watermark of words from the RX FIFO. *)
(*    The controller cannot tell "INTR |= flag" from "INTR = INTR".        *)
(*  - A triggered command runs one LUT sequence: it sends words from the   *)
(*    TX FIFO, or receives words into the RX FIFO, and then sets           *)
(*    IPCMDDONE.                                                           *)
(*                                                                         *)
(* A 32-bit word is represented by its position (1, 2, ...) in the         *)
(* caller's buffer or in the device's answer; Stale is any word that was   *)
(* in a register before the transfer.                                      *)
(***************************************************************************)
EXTENDS Integers, Sequences

CONSTANTS
  TxWmk,     \* IPTXFCR[TXWMRK] + 1: the TX watermark in 64-bit units
  RxWmk,     \* IPRXFCR[RXWMRK] + 1: the RX watermark in 64-bit units
  FifoWords, \* capacity of either FIFO, in 32-bit words
  Lut,       \* Lut[s]: what sequence s does with data, see LutEntry
  MayFail    \* whether a command may end with an error

Stale == 0

Flags == {"IPCMDDONE", "IPERR", "IPTXWE", "IPRXWA"}

\* op is the data instruction of a sequence; words is its operand, 0 when the
\* amount of data is taken from IPCR1.
LutEntry == [op: {"STOP", "READ", "WRITE"}, words: Nat]

\* TXWMRK and RXWMRK are 7-bit fields.
ASSUME FlexSpiAssumption ==
  /\ TxWmk \in 1..128
  /\ RxWmk \in 1..128
  /\ FifoWords \in Nat
  /\ Lut \in [DOMAIN Lut -> LutEntry]
  /\ MayFail \in BOOLEAN

VARIABLES
  intr,    \* INTR: the set of raised flags
  ipcr1,   \* IPCR1: sequence and data size of the next command
  cmd,     \* the last command triggered, and what is left of it
  tfdr,    \* the registers TFDR that a push moves to the FIFO
  txFifo,
  rxFifo,
  wire     \* the words the current command has sent to the device

hwVars == <<intr, ipcr1, cmd, tfdr, txFifo, rxFifo, wire>>

\* TFDR and RFDR are arrays of 32 registers each.
FifoRegs == 32

\* The registers TFDR that lie in a watermark.
StagingRegs == 0 .. (IF TxWmk > 16 THEN FifoRegs - 1 ELSE 2 * TxWmk - 1)

\* 32-bit words that hold n bytes.
WordsOf(n) == (n + 3) \div 4

Config == [seq: DOMAIN Lut, size: Nat]

CommandStates == {"none", "run", "done", "err"}

HwTypeOK ==
  /\ intr \subseteq Flags
  /\ ipcr1 \in Config
  /\ cmd \in [st: CommandStates, cfg: Config, left: Nat]
  /\ tfdr \in [StagingRegs -> Nat]
  /\ txFifo \in Seq(Nat)
  /\ rxFifo \in Seq(Nat)
  /\ wire \in Seq(Nat)

\* The controller as an earlier owner (boot firmware, an earlier process)
\* left it: idle, with any flags raised and any configuration.
HwInit ==
  /\ intr \in SUBSET Flags
  /\ ipcr1 \in {[seq |-> s, size |-> 0] : s \in DOMAIN Lut}
  /\ cmd = [st |-> "none", cfg |-> ipcr1, left |-> 0]
  /\ tfdr = [i \in StagingRegs |-> Stale]
  /\ txFifo = <<>>
  /\ rxFifo = <<>>
  /\ wire = <<>>

-----------------------------------------------------------------------------
(* Effects of register writes by the driver.                               *)

\* The number of words a command with configuration c moves.
DataWords(c) ==
  IF Lut[c.seq].op = "STOP" THEN 0
  ELSE IF Lut[c.seq].words # 0 THEN Lut[c.seq].words
  ELSE WordsOf(c.size)

\* The k-th word of a push.  The repository does not say what a watermark of
\* more than 32 words takes for the words that TFDR has no register for.
Staged(k) == IF k - 1 \in StagingRegs THEN tfdr[k - 1] ELSE Stale

\* FIFO f after a watermark of TFDR words has been pushed; what does not fit
\* is lost.
PushWatermark(f) ==
  LET all == f \o [k \in 1 .. 2 * TxWmk |-> Staged(k)]
  IN  SubSeq(all, 1, IF Len(all) > FifoWords THEN FifoWords ELSE Len(all))

\* FIFO f after a watermark of words has been popped.
PopWatermark(f) == SubSeq(f, 2 * RxWmk + 1, Len(f))

\* What the driver reads at RFDR[i]: the i-th word at the head of the RX FIFO.
\* Behind the 32 registers lie TFDR and the LUT, none of the device's words.
Rfdr(i) == IF i < Len(rxFifo) /\ i < FifoRegs THEN rxFifo[i + 1] ELSE Stale

WriteIntr(v) ==
  /\ intr' = intr \ v
  /\ txFifo' = IF "IPTXWE" \in v THEN PushWatermark(txFifo) ELSE txFifo
  /\ rxFifo' = IF "IPRXWA" \in v THEN PopWatermark(rxFifo) ELSE rxFifo

\* IPCMD[TRG]: the engine latches the configuration c and starts.  The
\* repository does not say what a trigger does while a command runs: the new
\* command may replace the old one, or be ignored.
Trigger(c) ==
  \/ /\ cmd' = [st |-> "run", cfg |-> c, left |-> DataWords(c)]
     /\ wire' = <<>>
  \/ /\ cmd.st = "run"
     /\ UNCHANGED <<cmd, wire>>

-----------------------------------------------------------------------------
(* Steps of the controller.                                                *)

RaiseIptxwe ==
  /\ "IPTXWE" \notin intr
  /\ Len(txFifo) + 2 * TxWmk <= FifoWords
  /\ intr' = intr \cup {"IPTXWE"}
  /\ UNCHANGED <<ipcr1, cmd, tfdr, txFifo, rxFifo, wire>>

RaiseIprxwa ==
  /\ "IPRXWA" \notin intr
  /\ Len(rxFifo) >= 2 * RxWmk
  /\ intr' = intr \cup {"IPRXWA"}
  /\ UNCHANGED <<ipcr1, cmd, tfdr, txFifo, rxFifo, wire>>

SendWord ==
  /\ cmd.st = "run"
  /\ cmd.left > 0
  /\ Lut[cmd.cfg.seq].op = "WRITE"
  /\ txFifo # <<>>
  /\ wire' = Append(wire, Head(txFifo))
  /\ txFifo' = Tail(txFifo)
  /\ cmd' = [cmd EXCEPT !.left = @ - 1]
  /\ UNCHANGED <<intr, ipcr1, tfdr, rxFifo>>

ReceiveWord ==
  /\ cmd.st = "run"
  /\ cmd.left > 0
  /\ Lut[cmd.cfg.seq].op = "READ"
  /\ Len(rxFifo) < FifoWords
  /\ rxFifo' = Append(rxFifo, DataWords(cmd.cfg) - cmd.left + 1)
  /\ cmd' = [cmd EXCEPT !.left = @ - 1]
  /\ UNCHANGED <<intr, ipcr1, tfdr, txFifo, wire>>

FinishCommand ==
  /\ cmd.st = "run"
  /\ cmd.left = 0
  /\ cmd' = [cmd EXCEPT !.st = "done"]
  /\ intr' = intr \cup {"IPCMDDONE"}
  /\ UNCHANGED <<ipcr1, tfdr, txFifo, rxFifo, wire>>

\* The repository does not say whether a failed command also raises
\* IPCMDDONE: both are possible.
FailCommand ==
  /\ MayFail
  /\ cmd.st = "run"
  /\ cmd' = [cmd EXCEPT !.st = "err"]
  /\ \E done \in SUBSET {"IPCMDDONE"} : intr' = intr \cup {"IPERR"} \cup done
  /\ UNCHANGED <<ipcr1, tfdr, txFifo, rxFifo, wire>>

HwNext ==
  \/ RaiseIptxwe
  \/ RaiseIprxwa
  \/ SendWord
  \/ ReceiveWord
  \/ FinishCommand
  \/ FailCommand
=============================================================================
