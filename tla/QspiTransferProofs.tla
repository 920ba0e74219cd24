------------------------ MODULE QspiTransferProofs ------------------------
(***************************************************************************)
(* Theorems about QspiTransfer, for every FIFO size, watermark, LUT, set   *)
(* of requests and number of calls.                                        *)
(***************************************************************************)
EXTENDS QspiTransfer, SequenceTheorems, TLAPS

-----------------------------------------------------------------------------
(* Facts about the operators of FlexSpi and QspiTransfer.                  *)

\* A function on 1 .. n is a sequence of length n.
LEMMA FunctionIsSeq ==
  ASSUME NEW n \in Nat, NEW f \in [1 .. n -> Nat]
  PROVE  f \in Seq(Nat) /\ Len(f) = n
  OBVIOUS

\* A number of bytes is covered by its number of words, and whole words add.
LEMMA WordsOfFacts ==
  ASSUME NEW n \in Nat
  PROVE  /\ WordsOf(n) \in Nat
         /\ \A k \in Nat : k % 4 = 0 => WordsOf(k + n) = WordsOf(k) + WordsOf(n)
         /\ WordsOf(4 * n) = n
  BY DEF WordsOf

\* Whole words keep a byte count word aligned.
LEMMA WholeWords ==
  ASSUME NEW n \in Nat, NEW k \in Nat, n % 4 = 0
  PROVE  (n + 4 * k) % 4 = 0
  OBVIOUS

\* IPCR1 always holds an existing sequence and a size of 16 bits.
LEMMA ConfigOfType ==
  ASSUME NEW x \in Requests
  PROVE  /\ ConfigOf(x) \in Config
         /\ DataSize(x) \in Nat
         /\ DataSize(x) < 65536
  BY QspiTransferAssumption
  DEF ConfigOf, Config, SeqIndex, DataSize, Request

\* A command moves a number of words.
LEMMA DataWordsType ==
  ASSUME NEW c \in Config
  PROVE  DataWords(c) \in Nat
  BY FlexSpiAssumption DEF DataWords, Config, LutEntry, WordsOf

\* The watermarks are positive, the capacity is a number.
LEMMA Watermarks ==
  /\ TxWmk \in Nat /\ TxWmk >= 1 /\ 2 * TxWmk \in Nat
  /\ RxWmk \in Nat /\ RxWmk >= 1 /\ 2 * RxWmk + 1 \in Nat /\ 2 * RxWmk + 1 >= 1
  /\ FifoWords \in Nat
  <1>1. TxWmk \in 1 .. 128 /\ RxWmk \in 1 .. 128 /\ FifoWords \in Nat
    BY FlexSpiAssumption
  <1> QED
    BY <1>1

\* A prefix of a sequence is a sequence.
LEMMA PrefixType ==
  ASSUME NEW f \in Seq(Nat), NEW n \in Nat, n <= Len(f)
  PROVE  SubSeq(f, 1, n) \in Seq(Nat) /\ Len(SubSeq(f, 1, n)) = n
  <1>1. Len(f) \in Nat
    BY LenProperties
  <1>2. \A i \in 1 .. n : f[i] \in Nat
    BY <1>1, ElementOfSeq
  <1>3. /\ SubSeq(f, 1, n) \in Seq(Nat)
        /\ Len(SubSeq(f, 1, n)) = IF 1 <= n THEN n - 1 + 1 ELSE 0
    BY <1>2, SubSeqProperties
  <1> QED
    BY <1>3

\* A push leaves a FIFO of words that fits.
LEMMA PushWatermarkType ==
  ASSUME HwTypeOK, NEW f \in Seq(Nat)
  PROVE  /\ PushWatermark(f) \in Seq(Nat)
         /\ Len(PushWatermark(f)) <= FifoWords
  <1> DEFINE pushed == [k \in 1 .. 2 * TxWmk |-> Staged(k)]
             all == f \o pushed
             n == IF Len(all) > FifoWords THEN FifoWords ELSE Len(all)
  <1>0. tfdr \in [StagingRegs -> Nat]
    BY DEF HwTypeOK
  <1>1. pushed \in [1 .. 2 * TxWmk -> Nat]
    BY <1>0 DEF Staged, Stale
  <1>2. pushed \in Seq(Nat)
    BY <1>1, Watermarks, FunctionIsSeq
  <1> HIDE DEF pushed
  <1>3. all \in Seq(Nat) /\ Len(all) \in Nat
    BY <1>2, ConcatProperties, LenProperties
  <1> HIDE DEF all
  <1>4. n \in Nat /\ n <= Len(all) /\ n <= FifoWords
    BY <1>3, Watermarks
  <1> HIDE DEF n
  <1>5. SubSeq(all, 1, n) \in Seq(Nat) /\ Len(SubSeq(all, 1, n)) = n
    BY <1>3, <1>4, PrefixType
  <1>6. PushWatermark(f) = SubSeq(all, 1, n)
    BY DEF PushWatermark, n, all, pushed
  <1> QED
    BY <1>4, <1>5, <1>6

\* A pop leaves a FIFO of words.
LEMMA PopWatermarkType ==
  ASSUME NEW f \in Seq(Nat)
  PROVE  PopWatermark(f) \in Seq(Nat)
  <1> DEFINE m == 2 * RxWmk + 1
  <1>1. Len(f) \in Nat /\ m \in Nat /\ m >= 1
    BY Watermarks, LenProperties
  <1> HIDE DEF m
  <1>2. \A i \in m .. Len(f) : f[i] \in Nat
    BY <1>1, ElementOfSeq
  <1>3. SubSeq(f, m, Len(f)) \in Seq(Nat)
    BY <1>1, <1>2, SubSeqProperties
  <1> QED
    BY <1>3 DEF PopWatermark, m

\* RFDR holds words, and copying n of them lengthens the buffer by n.
LEMMA ReceivedType ==
  ASSUME TypeOK, NEW n \in Nat
  PROVE  Received(n) \in Seq(Nat) /\ Len(Received(n)) = Len(dst) + n
  <1> DEFINE words == [k \in 1 .. n |-> Rfdr(k - 1)]
  <1>1. Len(rxFifo) \in Nat
    BY LenProperties DEF TypeOK, HwTypeOK
  <1>2. ASSUME NEW k \in 1 .. n PROVE Rfdr(k - 1) \in Nat
    <2>1. CASE k - 1 < Len(rxFifo) /\ k - 1 < FifoRegs
      BY <1>1, <2>1, ElementOfSeq DEF Rfdr, TypeOK, HwTypeOK
    <2>2. CASE ~ (k - 1 < Len(rxFifo) /\ k - 1 < FifoRegs)
      BY <2>2 DEF Rfdr, Stale
    <2> QED
      BY <2>1, <2>2
  <1>3. words \in [1 .. n -> Nat]
    BY <1>2
  <1>4. words \in Seq(Nat) /\ Len(words) = n
    BY <1>3, FunctionIsSeq
  <1> QED
    BY <1>4, ConcatProperties DEF Received, TypeOK

\* Storing words in TFDR keeps its type.
LEMMA FilledType ==
  ASSUME TypeOK, NEW n \in Nat
  PROVE  Filled(n) \in [StagingRegs -> Nat]
  <1> DEFINE word(i) == off \div 4 + i + 1
  <1>1. tfdr \in [StagingRegs -> Nat] /\ off \in Nat
    BY DEF TypeOK, HwTypeOK
  <1>2. \A i \in StagingRegs : word(i) \in Nat
    BY <1>1 DEF StagingRegs
  <1>3. Filled(n) = [i \in StagingRegs |-> IF i < n THEN word(i) ELSE tfdr[i]]
    BY <1>1 DEF Filled
  <1> HIDE DEF word
  <1> QED
    BY <1>1, <1>2, <1>3

-----------------------------------------------------------------------------
(* The inductive invariant behind the theorems that hold in every build.   *)

WritePcs == {"w_poll", "w_clear_load", "w_clear_store", "w_fill",
             "w_push_load", "w_push_store"}

ReadPcs == {"r_flush", "r_poll", "r_clear_load", "r_clear_store", "r_copy",
            "r_pop_load", "r_pop_store"}

\* No more words are left to move than the command started with.
CommandInv == cmd.left <= DataWords(cmd.cfg)

\* The loops know the direction, and every turn before the last moves whole
\* words: that is why the words stored match the bytes moved.
BoundsInv ==
  /\ pc \in WritePcs => req.api = "QSPI_Write"
  /\ pc \in ReadPcs => req.api # "QSPI_Write"
  /\ ~ BetweenCalls /\ pc \notin {"aborted", "spin"} =>
       /\ off <= DataSize(req)
       /\ size = DataSize(req) - off
       /\ size > 0 => off % 4 = 0
       /\ req.api # "QSPI_Write" => Len(dst) = WordsOf(off)

TransferInv == TypeOK /\ CommandInv /\ BoundsInv

-----------------------------------------------------------------------------
(* Type correctness.                                                       *)

\* The initial states have the right types.
LEMMA InitTypeOK == Init => TypeOK
  <1> SUFFICES ASSUME Init PROVE TypeOK
    OBVIOUS
  <1>1. ipcr1 \in Config
    BY DEF Init, HwInit, Config
  <1>2. cmd \in [st : CommandStates, cfg : Config, left : Nat]
    BY <1>1 DEF Init, HwInit, CommandStates
  <1>3. HwTypeOK
    BY <1>1, <1>2 DEF Init, HwInit, HwTypeOK, Stale
  <1>4. orphan \in BOOLEAN
    BY DEF Init
  <1>5. calls \in 0 .. MaxCalls
    BY QspiTransferAssumption DEF Init
  <1> QED
    BY <1>3, <1>4, <1>5 DEF Init, TypeOK, Pcs

\* A load of INTR keeps the types.
LEMMA LoadIntrType ==
  ASSUME TypeOK, NEW from, NEW to \in Pcs, LoadIntr(from, to)
  PROVE  TypeOK'
  <1>1. reg' \subseteq Flags
    BY DEF LoadIntr, TypeOK, HwTypeOK
  <1> QED
    BY <1>1 DEF LoadIntr, TypeOK, HwTypeOK, hwVars

\* A write to INTR, with the pushes and pops it causes, keeps the types.
LEMMA WriteIntrType ==
  ASSUME TypeOK, NEW v, WriteIntr(v), UNCHANGED <<ipcr1, cmd, tfdr, wire>>
  PROVE  HwTypeOK'
  <1>1. PushWatermark(txFifo) \in Seq(Nat)
    BY PushWatermarkType DEF TypeOK, HwTypeOK
  <1>2. PopWatermark(rxFifo) \in Seq(Nat)
    BY PopWatermarkType DEF TypeOK, HwTypeOK
  <1> QED
    BY <1>1, <1>2 DEF WriteIntr, TypeOK, HwTypeOK

LEMMA StoreIntrType ==
  ASSUME TypeOK, NEW from, NEW to \in Pcs, NEW v \in SUBSET Flags,
         StoreIntr(from, to, v)
  PROVE  TypeOK'
  <1>1. HwTypeOK'
    BY WriteIntrType DEF StoreIntr
  <1> QED
    BY <1>1 DEF StoreIntr, TypeOK

\* A turn of a polling loop keeps the types.
LEMMA PollType ==
  ASSUME TypeOK, NEW from \in Pcs, NEW flag, NEW to \in Pcs, Poll(from, flag, to)
  PROVE  TypeOK'
  <1>1. reg' \subseteq Flags
    BY DEF Poll, TypeOK, HwTypeOK
  <1>2. pc' \in Pcs
    BY DEF Poll, Pcs
  <1> QED
    BY <1>1, <1>2 DEF Poll, TypeOK, HwTypeOK, hwVars

\* Every step of the controller keeps its types.
LEMMA ControllerType ==
  ASSUME TypeOK, CommandInv, HwNext
  PROVE  HwTypeOK' /\ CommandInv'
  <1> USE DEF TypeOK, HwTypeOK, CommandInv
  <1>0. DataWords(cmd.cfg) \in Nat /\ cmd.left \in Nat
    BY DataWordsType
  <1>1. CASE RaiseIptxwe
    BY <1>1 DEF RaiseIptxwe, Flags
  <1>2. CASE RaiseIprxwa
    BY <1>2 DEF RaiseIprxwa, Flags
  <1>3. CASE SendWord
    <2>1. Head(txFifo) \in Nat /\ Tail(txFifo) \in Seq(Nat)
      BY <1>3, HeadTailProperties DEF SendWord
    <2>2. wire' \in Seq(Nat)
      BY <1>3, <2>1 DEF SendWord
    <2>3. /\ cmd.left - 1 \in Nat
          /\ cmd' = [cmd EXCEPT !.left = cmd.left - 1]
      <3>1. cmd.left > 0 /\ cmd' = [cmd EXCEPT !.left = cmd.left - 1]
        BY <1>3, Zenon DEF SendWord
      <3>2. cmd.left - 1 \in Nat
        BY <1>0, <3>1
      <3> QED
        BY <3>1, <3>2
    <2>4. cmd' \in [st : CommandStates, cfg : Config, left : Nat]
      BY <2>3
    <2>5. CommandInv'
      BY <1>0, <2>3 DEF DataWords
    <2> QED
      BY <1>3, <2>1, <2>2, <2>4, <2>5 DEF SendWord
  <1>4. CASE ReceiveWord
    <2>1. /\ cmd.left - 1 \in Nat
          /\ cmd' = [cmd EXCEPT !.left = cmd.left - 1]
      BY <1>0, <1>4 DEF ReceiveWord
    <2>2. cmd' \in [st : CommandStates, cfg : Config, left : Nat]
      BY <2>1
    <2>3. DataWords(cmd.cfg) - cmd.left + 1 \in Nat
      BY <1>0
    <2>4. rxFifo' \in Seq(Nat)
      BY <1>4, <2>3 DEF ReceiveWord
    <2>5. CommandInv'
      BY <1>0, <2>1 DEF DataWords
    <2> QED
      BY <1>4, <2>2, <2>4, <2>5 DEF ReceiveWord
  <1>5. CASE FinishCommand
    BY <1>5 DEF FinishCommand, Flags, CommandStates, DataWords
  <1>6. CASE FailCommand
    BY <1>6 DEF FailCommand, Flags, CommandStates, DataWords
  <1> QED
    BY <1>1, <1>2, <1>3, <1>4, <1>5, <1>6 DEF HwNext

-----------------------------------------------------------------------------
(* Every step preserves the invariant.                                     *)

\* pc moves from one point of a call to a later one of the same direction.
SameCall(from, to) ==
  /\ from \in Pcs \ {"idle", "aborted", "spin", "b_clear_load", "b_clear_store"}
  /\ to \in Pcs
  /\ to \in WritePcs => from \in WritePcs
  /\ to \in ReadPcs => from \in ReadPcs

\* A step inside a call that leaves the buffer and the command alone.
LEMMA SameCallBounds ==
  ASSUME BoundsInv, NEW from, NEW to, SameCall(from, to), pc = from,
         pc' \in {from, to, "spin"},
         UNCHANGED <<req, off, size, dst>>
  PROVE  BoundsInv'
  BY DEF BetweenCalls, BoundsInv, SameCall, WritePcs, ReadPcs, DataSize

LEMMA LoadIntrInv ==
  ASSUME TransferInv, NEW from, NEW to, SameCall(from, to), LoadIntr(from, to)
  PROVE  TransferInv'
  <1>1. TypeOK'
    BY LoadIntrType DEF TransferInv, SameCall
  <1>2. CommandInv'
    BY DEF LoadIntr, hwVars, TransferInv, CommandInv, DataWords
  <1>3. BoundsInv'
    BY SameCallBounds DEF LoadIntr, TransferInv
  <1> QED
    BY <1>1, <1>2, <1>3 DEF TransferInv

LEMMA StoreIntrInv ==
  ASSUME TransferInv, NEW from, NEW to, SameCall(from, to),
         NEW v \in SUBSET Flags, StoreIntr(from, to, v)
  PROVE  TransferInv'
  <1>1. TypeOK'
    BY StoreIntrType DEF TransferInv, SameCall
  <1>2. CommandInv'
    BY DEF StoreIntr, TransferInv, CommandInv, DataWords
  <1>3. BoundsInv'
    BY SameCallBounds DEF StoreIntr, TransferInv
  <1> QED
    BY <1>1, <1>2, <1>3 DEF TransferInv

LEMMA PollInv ==
  ASSUME TransferInv, NEW from, NEW flag, NEW to, SameCall(from, to),
         Poll(from, flag, to)
  PROVE  TransferInv'
  <1>1. TypeOK'
    BY PollType DEF TransferInv, SameCall
  <1>2. CommandInv'
    BY DEF Poll, hwVars, TransferInv, CommandInv, DataWords
  <1>3. pc = from /\ pc' \in {from, to, "spin"}
    BY DEF Poll
  <1>4. BoundsInv'
    BY <1>3, SameCallBounds DEF Poll, TransferInv
  <1> QED
    BY <1>1, <1>2, <1>4 DEF TransferInv

\* A call starts with nothing moved.
LEMMA CallInv ==
  ASSUME TransferInv, NEW x \in Requests, Call(x)
  PROVE  TransferInv'
  <1>1. DataSize(x) \in Nat
    BY ConfigOfType
  <1>2. TypeOK'
    BY <1>1, QspiTransferAssumption
    DEF Call, TransferInv, TypeOK, HwTypeOK, hwVars, Pcs
  <1>3. CommandInv'
    BY DEF Call, hwVars, TransferInv, CommandInv, DataWords
  <1>4. BoundsInv'
    BY <1>1 DEF Call, BoundsInv, WritePcs, ReadPcs, DataSize, WordsOf
  <1> QED
    BY <1>2, <1>3, <1>4 DEF TransferInv

\* Resetting the FIFOs, writing IPCR1 and triggering the command.
LEMMA SetupInv ==
  ASSUME TransferInv, Setup
  PROVE  TransferInv'
  <1>1. ConfigOf(req) \in Config
    BY ConfigOfType DEF TransferInv, TypeOK
  <1>2. TypeOK'
    BY <1>1 DEF Setup, TransferInv, TypeOK, HwTypeOK, Pcs
  <1>3. CommandInv'
    BY DEF Setup, TransferInv, CommandInv, DataWords
  <1>4. BoundsInv'
    BY DEF BetweenCalls, Setup, TransferInv, BoundsInv, WritePcs, ReadPcs, DataSize
  <1> QED
    BY <1>2, <1>3, <1>4 DEF TransferInv

LEMMA StartTransferInv ==
  ASSUME TransferInv, StartTransfer
  PROVE  TransferInv'
  <1>1. ConfigOf(req) \in Config
    BY ConfigOfType DEF TransferInv, TypeOK
  <1>2. DataWords(ipcr1) \in Nat
    BY DataWordsType DEF TransferInv, TypeOK, HwTypeOK
  <1>3. \/ /\ cmd' = [st |-> "run", cfg |-> ipcr1, left |-> DataWords(ipcr1)]
           /\ wire' = <<>>
        \/ UNCHANGED <<cmd, wire>>
    BY DEF StartTransfer, Trigger
  <1>4. cmd' \in [st : CommandStates, cfg : Config, left : Nat] /\ wire' \in Seq(Nat)
    <2>1. CASE /\ cmd' = [st |-> "run", cfg |-> ipcr1, left |-> DataWords(ipcr1)]
               /\ wire' = <<>>
      BY <1>2, <2>1 DEF CommandStates, TransferInv, TypeOK, HwTypeOK
    <2>2. CASE UNCHANGED <<cmd, wire>>
      BY <2>2 DEF TransferInv, TypeOK, HwTypeOK
    <2> QED
      BY <1>3, <2>1, <2>2
  <1>5. HwTypeOK'
    BY <1>1, <1>4 DEF StartTransfer, TransferInv, TypeOK, HwTypeOK
  <1>6. TypeOK'
    BY <1>5 DEF StartTransfer, TransferInv, TypeOK, Pcs
  <1>7. CommandInv'
    <2>1. CASE cmd' = [st |-> "run", cfg |-> ipcr1, left |-> DataWords(ipcr1)]
      BY <1>2, <2>1 DEF CommandInv, DataWords
    <2>2. CASE UNCHANGED cmd
      BY <2>2 DEF CommandInv, DataWords, TransferInv
    <2> QED
      BY <1>3, <2>1, <2>2
  <1>8. BoundsInv'
    BY DEF BetweenCalls, StartTransfer, TransferInv, BoundsInv, WritePcs, ReadPcs, DataSize
  <1> QED
    BY <1>6, <1>7, <1>8 DEF TransferInv

\* A turn of the write loop moves what it accounts for.
LEMMA WriteFillInv ==
  ASSUME TransferInv, WriteFill
  PROVE  TransferInv'
  <1> USE Watermarks DEF TransferInv
  <1>1. /\ size \in Nat /\ off \in Nat /\ DataSize(req) \in Nat
        /\ pc = "w_fill" /\ pc' = "w_push_load" /\ req.api = "QSPI_Write"
    BY ConfigOfType DEF WriteFill, TypeOK, BoundsInv, WritePcs
  <1>2. Filled(2 * TxWmk) \in [StagingRegs -> Nat]
    BY FilledType
  <1>3. Filled(WordsOf(size)) \in [StagingRegs -> Nat]
    BY <1>1, FilledType, WordsOfFacts
  <1>4. tfdr' \in [StagingRegs -> Nat]
    BY <1>2, <1>3 DEF WriteFill
  <1>5. /\ off' \in Nat /\ size' \in Nat /\ off' + size' = off + size
        /\ size' > 0 => off' = off + 4 * (2 * TxWmk)
    BY <1>1 DEF WriteFill
  <1>6. TypeOK'
    BY <1>4, <1>5 DEF WriteFill, TypeOK, HwTypeOK, Pcs
  <1>7. CommandInv'
    BY DEF WriteFill, CommandInv, DataWords
  <1>8. /\ off <= DataSize(req)
        /\ size = DataSize(req) - off
        /\ size > 0 => off % 4 = 0
    BY <1>1 DEF BetweenCalls, BoundsInv
  <1>9. size' > 0 => size > 0
    BY <1>1 DEF WriteFill
  <1>10. UNCHANGED req
    BY DEF WriteFill
  <1>11. /\ off' <= DataSize(req)
         /\ size' = DataSize(req) - off'
         /\ size' > 0 => off' % 4 = 0
    <2>1. off' <= DataSize(req) /\ size' = DataSize(req) - off'
      <3>1. off' + size' = off + size /\ off' \in Nat /\ size' \in Nat
        BY <1>5
      <3>2. off \in Nat /\ size \in Nat /\ DataSize(req) \in Nat
        BY <1>1
      <3>3. size = DataSize(req) - off
        BY <1>8
      <3>4. off' <= DataSize(req)
        BY <3>1, <3>2, <3>3
      <3>5. size' = DataSize(req) - off'
        BY <3>1, <3>2, <3>3, <3>4
      <3> QED
        BY <3>4, <3>5
    <2>2. size' > 0 => off' % 4 = 0
      BY <1>1, <1>5, <1>8, <1>9, WholeWords
    <2> QED
      BY <2>1, <2>2
  <1>12. BoundsInv'
    BY <1>1, <1>10, <1>11 DEF BoundsInv, DataSize, WritePcs, ReadPcs
  <1> QED
    BY <1>6, <1>7, <1>12

\* A turn of the read loop stores the words it accounts for.
LEMMA ReadCopyInv ==
  ASSUME TransferInv, ReadCopy
  PROVE  TransferInv'
  <1> USE Watermarks DEF TransferInv
  <1>1. /\ size \in Nat /\ off \in Nat /\ DataSize(req) \in Nat
        /\ pc = "r_copy" /\ pc' = "r_pop_load" /\ req.api # "QSPI_Write"
    BY ConfigOfType DEF ReadCopy, TypeOK, BoundsInv, ReadPcs
  <1>2. /\ off <= DataSize(req)
        /\ size = DataSize(req) - off
        /\ size > 0 => off % 4 = 0
        /\ Len(dst) = WordsOf(off)
    BY <1>1 DEF BetweenCalls, BoundsInv
  <1>3. UNCHANGED req
    BY DEF ReadCopy
  <1>4. CASE /\ size >= 4 * RxWmk
             /\ dst' = Received(RxWmk)
             /\ off' = off + 4 * RxWmk
             /\ size' = size - 4 * RxWmk
    <2>1. dst' \in Seq(Nat) /\ Len(dst') = WordsOf(off) + RxWmk
      BY <1>2, <1>4, ReceivedType
    <2>2. /\ off' \in Nat /\ size' \in Nat
          /\ off' <= DataSize(req)
          /\ size' = DataSize(req) - off'
          /\ off' % 4 = 0
      BY <1>1, <1>2, <1>4
    <2>3. WordsOf(off') = WordsOf(off) + RxWmk
      BY <1>1, <1>2, <1>4 DEF WordsOf
    <2>4. TypeOK'
      BY <1>1, <2>1, <2>2 DEF ReadCopy, TypeOK, HwTypeOK, hwVars, Pcs
    <2>5. CommandInv'
      BY DEF ReadCopy, hwVars, CommandInv, DataWords
    <2>6. BoundsInv'
      <3>1. DataSize(req)' = DataSize(req) /\ WordsOf(off)' = WordsOf(off')
        BY <1>3 DEF DataSize, WordsOf
      <3> QED
        BY <1>1, <1>3, <2>1, <2>2, <2>3, <3>1 DEF BoundsInv, WritePcs, ReadPcs
    <2> QED
      BY <2>4, <2>5, <2>6
  <1>5. CASE /\ size < 4 * RxWmk
             /\ dst' = Received(WordsOf(size))
             /\ off' = off + size
             /\ size' = 0
    <2>0. WordsOf(size) \in Nat
      BY <1>1, WordsOfFacts
    <2>1. dst' \in Seq(Nat) /\ Len(dst') = WordsOf(off) + WordsOf(size)
      BY <1>2, <1>5, <2>0, ReceivedType
    <2>2. /\ off' \in Nat /\ size' \in Nat
          /\ off' <= DataSize(req)
          /\ size' = DataSize(req) - off'
          /\ ~ (size' > 0)
      BY <1>1, <1>2, <1>5
    <2>3. WordsOf(off') = WordsOf(off) + WordsOf(size)
      <3>1. CASE size = 0
        BY <1>1, <1>5, <3>1 DEF WordsOf
      <3>2. CASE size > 0
        <4>1. off \in Nat /\ off % 4 = 0 /\ size \in Nat /\ off' = off + size
          BY <1>1, <1>2, <1>5, <3>2
        <4> QED
          BY <4>1, WordsOfFacts
      <3> QED
        BY <1>1, <3>1, <3>2
    <2>4. TypeOK'
      BY <1>1, <2>1, <2>2 DEF ReadCopy, TypeOK, HwTypeOK, hwVars, Pcs
    <2>5. CommandInv'
      BY DEF ReadCopy, hwVars, CommandInv, DataWords
    <2>6. BoundsInv'
      <3>1. DataSize(req)' = DataSize(req) /\ WordsOf(off)' = WordsOf(off')
        BY <1>3 DEF DataSize, WordsOf
      <3> QED
        BY <1>1, <1>3, <2>1, <2>2, <2>3, <3>1 DEF BoundsInv, WritePcs, ReadPcs
    <2> QED
      BY <2>4, <2>5, <2>6
  <1> QED
    BY <1>4, <1>5 DEF ReadCopy

\* The remaining steps of transfer_blocking are loads, stores and polls.
LEMMA RegisterStepInv ==
  ASSUME TransferInv,
         \/ ClearPendingLoad \/ ClearPendingStore
         \/ WritePoll \/ WriteClearLoad \/ WriteClearStore
         \/ WritePushLoad \/ WritePushStore
         \/ ReadPoll \/ ReadClearLoad \/ ReadClearStore
         \/ ReadPopLoad \/ ReadPopStore
         \/ WaitDone \/ FinishLoad
  PROVE  TransferInv'
  <1> USE DEF SameCall, Pcs, WritePcs, ReadPcs
  <1>0. /\ reg \in SUBSET Flags
        /\ reg \cup {"IPTXWE"} \in SUBSET Flags
        /\ reg \cup {"IPRXWA"} \in SUBSET Flags
    BY DEF TransferInv, TypeOK, Flags
  <1>1. CASE ClearPendingLoad
    <2>1. SameCall("clear_load", "clear_store")
      OBVIOUS
    <2> QED
      BY <1>1, <2>1, LoadIntrInv DEF ClearPendingLoad
  <1>2. CASE WriteClearLoad
    <2>1. SameCall("w_clear_load", "w_clear_store")
      OBVIOUS
    <2> QED
      BY <1>2, <2>1, LoadIntrInv DEF WriteClearLoad
  <1>3. CASE WritePushLoad
    <2>1. SameCall("w_push_load", "w_push_store")
      OBVIOUS
    <2> QED
      BY <1>3, <2>1, LoadIntrInv DEF WritePushLoad
  <1>4. CASE ReadClearLoad
    <2>1. SameCall("r_clear_load", "r_clear_store")
      OBVIOUS
    <2> QED
      BY <1>4, <2>1, LoadIntrInv DEF ReadClearLoad
  <1>5. CASE ReadPopLoad
    <2>1. SameCall("r_pop_load", "r_pop_store")
      OBVIOUS
    <2> QED
      BY <1>5, <2>1, LoadIntrInv DEF ReadPopLoad
  <1>6. CASE FinishLoad
    <2>1. SameCall("fin_load", "fin_store")
      OBVIOUS
    <2> QED
      BY <1>6, <2>1, LoadIntrInv DEF FinishLoad
  <1>7. CASE ClearPendingStore
    <2>1. SameCall("clear_store", "setup")
      OBVIOUS
    <2> QED
      BY <1>0, <1>7, <2>1, StoreIntrInv DEF ClearPendingStore
  <1>8. CASE WriteClearStore
    <2>1. SameCall("w_clear_store", "w_fill")
      OBVIOUS
    <2> QED
      BY <1>0, <1>8, <2>1, StoreIntrInv DEF WriteClearStore
  <1>9. CASE ReadClearStore
    <2>1. SameCall("r_clear_store", "r_copy")
      OBVIOUS
    <2> QED
      BY <1>0, <1>9, <2>1, StoreIntrInv DEF ReadClearStore
  <1>10. CASE WritePushStore
    <2>1. SameCall("w_push_store", IF size = 0 THEN "wait" ELSE "w_poll")
      OBVIOUS
    <2> QED
      BY <1>0, <1>10, <2>1, StoreIntrInv DEF WritePushStore
  <1>11. CASE ReadPopStore
    <2>1. SameCall("r_pop_store", IF size = 0 THEN "wait" ELSE "r_poll")
      OBVIOUS
    <2> QED
      BY <1>0, <1>11, <2>1, StoreIntrInv DEF ReadPopStore
  <1>12. CASE WritePoll
    <2>1. SameCall("w_poll", IF Volatile THEN "w_clear_load" ELSE "w_fill")
      OBVIOUS
    <2> QED
      BY <1>12, <2>1, PollInv DEF WritePoll
  <1>13. CASE ReadPoll
    <2>1. SameCall("r_poll", IF Volatile THEN "r_clear_load" ELSE "r_copy")
      OBVIOUS
    <2> QED
      BY <1>13, <2>1, PollInv DEF ReadPoll
  <1>14. CASE WaitDone
    <2>1. SameCall("wait", "fin_load")
      OBVIOUS
    <2> QED
      BY <1>14, <2>1, PollInv DEF WaitDone
  <1> QED
    BY <1>1, <1>2, <1>3, <1>4, <1>5, <1>6, <1>7, <1>8, <1>9, <1>10, <1>11, <1>12, <1>13, <1>14

\* Every step of the system preserves the invariant.
LEMMA NextTransferInv == TransferInv /\ [Next]_vars => TransferInv'
  <1> SUFFICES ASSUME TransferInv, [Next]_vars PROVE TransferInv'
    OBVIOUS
  <1>1. ASSUME NEW x \in Requests, Call(x) PROVE TransferInv'
    BY <1>1, CallInv
  <1>2. CASE Setup
    BY <1>2, SetupInv
  <1>3. CASE StartTransfer
    BY <1>3, StartTransferInv
  <1>4. CASE WriteFill
    BY <1>4, WriteFillInv
  <1>5. CASE ReadCopy
    BY <1>5, ReadCopyInv
  <1>6. CASE \/ ClearPendingLoad \/ ClearPendingStore
             \/ WritePoll \/ WriteClearLoad \/ WriteClearStore
             \/ WritePushLoad \/ WritePushStore
             \/ ReadPoll \/ ReadClearLoad \/ ReadClearStore
             \/ ReadPopLoad \/ ReadPopStore
             \/ WaitDone \/ FinishLoad
    BY <1>6, RegisterStepInv
  <1>7. CASE ReadFlush
    <2>1. TypeOK'
      BY <1>7 DEF ReadFlush, TransferInv, TypeOK, HwTypeOK, Pcs
    <2>2. CommandInv'
      BY <1>7 DEF ReadFlush, TransferInv, CommandInv, DataWords
    <2>3. BoundsInv'
      BY <1>7 DEF BetweenCalls, ReadFlush, TransferInv, BoundsInv, DataSize, WritePcs, ReadPcs
    <2> QED
      BY <2>1, <2>2, <2>3 DEF TransferInv
  <1>8. CASE FinishStore
    <2>1. reg \cup {"IPTXWE"} \in SUBSET Flags /\ "idle" \in Pcs
      BY DEF TransferInv, TypeOK, Flags, Pcs
    <2>2. TypeOK'
      BY <1>8, <2>1, StoreIntrType DEF FinishStore, TransferInv
    <2>3. CommandInv'
      BY <1>8 DEF FinishStore, StoreIntr, TransferInv, CommandInv, DataWords
    <2>4. BoundsInv'
      BY <1>8 DEF BetweenCalls, FinishStore, StoreIntr, BoundsInv, WritePcs, ReadPcs
    <2> QED
      BY <2>2, <2>3, <2>4 DEF TransferInv
  <1>9. CASE QSPI_Busy \/ BusyClearLoad \/ BusyClearStore
    <2>1. TypeOK'
      <3>1. CASE QSPI_Busy
        BY <3>1 DEF QSPI_Busy, hwVars, TransferInv, TypeOK, HwTypeOK, Pcs
      <3>2. "b_clear_store" \in Pcs /\ "idle" \in Pcs /\ reg \in SUBSET Flags
        BY DEF Pcs, TransferInv, TypeOK
      <3>3. CASE BusyClearLoad
        BY <3>2, <3>3, LoadIntrType DEF BusyClearLoad, TransferInv
      <3>4. CASE BusyClearStore
        BY <3>2, <3>4, StoreIntrType DEF BusyClearStore, TransferInv
      <3> QED
        BY <1>9, <3>1, <3>3, <3>4
    <2>2. UNCHANGED cmd
      BY <1>9 DEF QSPI_Busy, BusyClearLoad, BusyClearStore, LoadIntr, StoreIntr, hwVars
    <2>3. BetweenCalls'
      BY <1>9 DEF QSPI_Busy, BusyClearLoad, BusyClearStore, LoadIntr, StoreIntr,
                  BetweenCalls
    <2>4. BoundsInv'
      BY <2>3 DEF BoundsInv, BetweenCalls, WritePcs, ReadPcs
    <2> QED
      BY <2>1, <2>2, <2>4 DEF TransferInv, CommandInv, DataWords
  <1>10. CASE Controller
    <2>1. HwTypeOK' /\ CommandInv'
      BY <1>10, ControllerType DEF Controller, TransferInv
    <2>2. TypeOK'
      BY <1>10, <2>1 DEF Controller, driverVars, TransferInv, TypeOK
    <2>3. BoundsInv'
      BY <1>10 DEF BetweenCalls, Controller, driverVars, TransferInv, BoundsInv, DataSize, WordsOf
    <2> QED
      BY <2>1, <2>2, <2>3 DEF TransferInv
  <1>11. CASE UNCHANGED vars
    <2>1. TypeOK'
      BY <1>11 DEF vars, hwVars, driverVars, TransferInv, TypeOK, HwTypeOK
    <2>2. CommandInv'
      BY <1>11 DEF vars, hwVars, TransferInv, CommandInv, DataWords
    <2>3. BoundsInv'
      BY <1>11 DEF BetweenCalls, vars, driverVars, TransferInv, BoundsInv, DataSize, WordsOf
    <2> QED
      BY <2>1, <2>2, <2>3 DEF TransferInv
  <1>12. CASE Spin
    BY <1>11, <1>12 DEF Spin
  <1>13. CASE Kill
    <2>1. TypeOK'
      BY <1>13 DEF Kill, hwVars, TransferInv, TypeOK, HwTypeOK, Pcs
    <2>2. CommandInv'
      BY <1>13 DEF Kill, hwVars, TransferInv, CommandInv, DataWords
    <2>3. BoundsInv'
      BY <1>13 DEF Kill, BoundsInv, WritePcs, ReadPcs
    <2> QED
      BY <2>1, <2>2, <2>3 DEF TransferInv
  <1>14. CASE Restart
    <2>1. TypeOK'
      BY <1>14 DEF Restart, hwVars, TransferInv, TypeOK, HwTypeOK, Pcs
    <2>2. CommandInv'
      BY <1>14 DEF Restart, hwVars, TransferInv, CommandInv, DataWords
    <2>3. BoundsInv'
      BY <1>14 DEF BetweenCalls, Restart, BoundsInv, WritePcs, ReadPcs
    <2> QED
      BY <2>1, <2>2, <2>3 DEF TransferInv
  <1> QED
    BY <1>1, <1>2, <1>3, <1>4, <1>5, <1>6, <1>7, <1>8, <1>9, <1>10, <1>11,
       <1>12, <1>13, <1>14
    DEF Next, TransferStep

LEMMA InitTransferInv == Init => TransferInv
  <1> SUFFICES ASSUME Init PROVE TransferInv
    OBVIOUS
  <1>1. TypeOK
    BY InitTypeOK
  <1>2. DataWords(cmd.cfg) \in Nat
    BY <1>1, DataWordsType DEF TypeOK, HwTypeOK
  <1>3. CommandInv
    BY <1>2 DEF Init, HwInit, CommandInv
  <1>4. BoundsInv
    BY DEF BetweenCalls, Init, BoundsInv, WritePcs, ReadPcs
  <1> QED
    BY <1>1, <1>3, <1>4 DEF TransferInv

\* The invariant holds in every behaviour.
THEOREM TransferInvariant == Spec => []TransferInv
  BY InitTransferInv, NextTransferInv, PTL DEF Spec

\* Every variable of the driver and the controller keeps its type; in
\* particular the remaining size never goes below zero.
THEOREM TransferTypeCorrect == Spec => []TypeOK
  <1>1. TransferInv => TypeOK
    BY DEF TransferInv
  <1> QED
    BY <1>1, TransferInvariant, PTL

\* No transfer leaves the caller's buffer, for every watermark, size and
\* build (the loops of write_blocking and read_blocking).
THEOREM TransferBufferInBounds == Spec => []BufferInBounds
  <1>1. TransferInv => BufferInBounds
    BY DEF BetweenCalls, TransferInv, BoundsInv, BufferInBounds, InCommand
  <1> QED
    BY <1>1, TransferInvariant, PTL

-----------------------------------------------------------------------------
(* Completion and configuration, when every access reaches the bus.        *)

\* Outside a transfer no command runs but one an ended process left behind;
\* IPCMDDONE is down from the clearing of the flags to the trigger, so that
\* while a command runs it is down too, and the flag that ends the wait is the
\* one this command raised.
CompletionInv ==
  Undisturbed =>
    /\ BetweenCalls => cmd.st # "run"
    /\ pc \in {"clear_load", "clear_store", "setup", "trigger",
               "fin_load", "fin_store"} => cmd.st # "run"
    /\ pc = "clear_store" /\ "IPCMDDONE" \in intr => "IPCMDDONE" \in reg
    /\ pc \in {"setup", "trigger"} => "IPCMDDONE" \notin intr
    /\ InCommand /\ "IPCMDDONE" \in intr => cmd.st # "run"

\* IPCR1 holds this call's configuration from its store to the trigger, which
\* latches it.
CommandCfgInv ==
  Undisturbed =>
    /\ pc = "trigger" => ipcr1 = ConfigOf(req)
    /\ InCommand \/ pc \in {"fin_load", "fin_store"} => cmd.cfg = ConfigOf(req)

LEMMA InitCompletionInv ==
  ASSUME Init
  PROVE  CompletionInv /\ CommandCfgInv
  BY DEF Init, HwInit, CompletionInv, CommandCfgInv, InCommand

LEMMA NextCompletionInv ==
  ASSUME TypeOK, CompletionInv, [Next]_vars
  PROVE  CompletionInv'
  <1> USE DEF CompletionInv, InCommand, BetweenCalls, Undisturbed, Volatile
  <1>1. ASSUME NEW x \in Requests, Call(x) PROVE CompletionInv'
    BY <1>1 DEF Call, hwVars
  <1>2. CASE ClearPendingLoad \/ WriteClearLoad \/ WritePushLoad
             \/ ReadClearLoad \/ ReadPopLoad \/ FinishLoad \/ BusyClearLoad
    BY <1>2 DEF ClearPendingLoad, WriteClearLoad, WritePushLoad, ReadClearLoad,
                ReadPopLoad, FinishLoad, BusyClearLoad, LoadIntr, hwVars
  <1>3. CASE ClearPendingStore
    BY <1>3 DEF ClearPendingStore, StoreIntr, WriteIntr
  <1>4. CASE WriteClearStore \/ WritePushStore \/ ReadClearStore
             \/ ReadPopStore \/ FinishStore \/ BusyClearStore
    BY <1>4 DEF WriteClearStore, WritePushStore, ReadClearStore, ReadPopStore,
                FinishStore, BusyClearStore, StoreIntr, WriteIntr
  <1>5. CASE Setup
    BY <1>5 DEF Setup
  <1>6. CASE StartTransfer
    BY <1>6 DEF StartTransfer, Trigger
  <1>7. CASE WritePoll \/ ReadPoll \/ WaitDone
    BY <1>7 DEF WritePoll, ReadPoll, WaitDone, Poll, hwVars
  <1>8. CASE WriteFill \/ ReadFlush \/ ReadCopy
    BY <1>8 DEF WriteFill, ReadFlush, ReadCopy, hwVars
  <1>9. CASE QSPI_Busy
    BY <1>9 DEF QSPI_Busy, hwVars
  <1>10. CASE Controller
    <2>1. UNCHANGED <<build, pc, reg, orphan>>
      BY <1>10 DEF Controller, driverVars
    <2>2. CASE RaiseIptxwe
      BY <2>1, <2>2 DEF RaiseIptxwe
    <2>3. CASE RaiseIprxwa
      BY <2>1, <2>3 DEF RaiseIprxwa
    <2>4. ASSUME cmd.st = "run", cmd' = [cmd EXCEPT !.left = @ - 1], UNCHANGED intr
          PROVE  CompletionInv'
      BY <2>1, <2>4 DEF TypeOK, HwTypeOK
    <2>5. CASE SendWord \/ ReceiveWord
      BY <2>4, <2>5 DEF SendWord, ReceiveWord
    <2>6. CASE FinishCommand \/ FailCommand
      <3>1. cmd.st = "run" /\ cmd'.st # "run"
        BY <2>6 DEF FinishCommand, FailCommand, TypeOK, HwTypeOK
      <3> QED
        BY <2>1, <3>1
    <2> QED
      BY <1>10, <2>2, <2>3, <2>5, <2>6 DEF Controller, HwNext
  <1>11. CASE UNCHANGED vars
    BY <1>11 DEF vars, hwVars, driverVars
  <1>12. CASE Spin
    BY <1>11, <1>12 DEF Spin
  <1>13. CASE Kill \/ Restart
    BY <1>13 DEF Kill, Restart, hwVars
  <1> QED
    BY <1>1, <1>2, <1>3, <1>4, <1>5, <1>6, <1>7, <1>8, <1>9, <1>10, <1>11,
       <1>12, <1>13
    DEF Next, TransferStep

LEMMA NextCommandCfgInv ==
  ASSUME TypeOK, CompletionInv, CommandCfgInv, [Next]_vars
  PROVE  CommandCfgInv'
  <1> USE DEF CommandCfgInv, InCommand, Undisturbed, Volatile
  <1>0. UNCHANGED req => ConfigOf(req)' = ConfigOf(req)
    BY DEF ConfigOf, SeqIndex, DataSize
  <1>1. ASSUME NEW x \in Requests, Call(x) PROVE CommandCfgInv'
    BY <1>1 DEF Call
  <1>2. ASSUME UNCHANGED <<build, orphan, ipcr1, cmd, req>>,
               pc' = "trigger" => pc = "trigger",
               (InCommand \/ pc \in {"fin_load", "fin_store"})'
                 => InCommand \/ pc \in {"fin_load", "fin_store"}
        PROVE  CommandCfgInv'
    BY <1>0, <1>2
  <1>3. CASE ClearPendingLoad \/ WriteClearLoad \/ WritePushLoad
             \/ ReadClearLoad \/ ReadPopLoad \/ FinishLoad \/ BusyClearLoad
    BY <1>2, <1>3 DEF ClearPendingLoad, WriteClearLoad, WritePushLoad,
                      ReadClearLoad, ReadPopLoad, FinishLoad, BusyClearLoad,
                      LoadIntr, hwVars
  <1>4. CASE ClearPendingStore \/ WriteClearStore \/ WritePushStore
             \/ ReadClearStore \/ ReadPopStore \/ FinishStore \/ BusyClearStore
    BY <1>2, <1>4 DEF ClearPendingStore, WriteClearStore, WritePushStore,
                      ReadClearStore, ReadPopStore, FinishStore, BusyClearStore,
                      StoreIntr
  <1>5. CASE Setup
    BY <1>0, <1>5 DEF Setup
  <1>6. CASE StartTransfer
    BY <1>0, <1>6 DEF StartTransfer, Trigger, CompletionInv
  <1>7. CASE WritePoll \/ ReadPoll \/ WaitDone
    BY <1>2, <1>7 DEF WritePoll, ReadPoll, WaitDone, Poll, hwVars
  <1>8. CASE WriteFill \/ ReadFlush \/ ReadCopy
    BY <1>2, <1>8 DEF WriteFill, ReadFlush, ReadCopy, hwVars
  <1>9. CASE QSPI_Busy
    BY <1>2, <1>9 DEF QSPI_Busy, hwVars
  <1>10. CASE Controller
    <2>1. UNCHANGED <<build, pc, req, ipcr1, orphan>>
      BY <1>10 DEF Controller, driverVars, HwNext, RaiseIptxwe, RaiseIprxwa,
                   SendWord, ReceiveWord, FinishCommand, FailCommand
    <2>2. cmd'.cfg = cmd.cfg
      BY <1>10 DEF Controller, HwNext, RaiseIptxwe, RaiseIprxwa, SendWord,
                   ReceiveWord, FinishCommand, FailCommand, TypeOK, HwTypeOK
    <2> QED
      BY <1>0, <2>1, <2>2
  <1>11. CASE UNCHANGED vars
    BY <1>2, <1>11 DEF vars, hwVars, driverVars
  <1>12. CASE Spin
    BY <1>11, <1>12 DEF Spin
  <1>13. CASE Kill \/ Restart
    BY <1>13 DEF Kill, Restart, hwVars
  <1> QED
    BY <1>1, <1>3, <1>4, <1>5, <1>6, <1>7, <1>8, <1>9, <1>10, <1>11, <1>12,
       <1>13
    DEF Next, TransferStep

\* What every state of a call satisfies.
ProtocolInv == TypeOK /\ CompletionInv /\ CommandCfgInv

THEOREM TransferProtocolInvariant == Spec => []ProtocolInv
  <1>1. Init => ProtocolInv
    BY InitTypeOK, InitCompletionInv DEF ProtocolInv
  <1>2. TypeOK' /\ ProtocolInv /\ [Next]_vars => ProtocolInv'
    BY NextCompletionInv, NextCommandCfgInv DEF ProtocolInv
  <1> QED
    BY <1>1, <1>2, TransferTypeCorrect, PTL DEF Spec

\* If the registers are volatile, a transfer that finds the controller at rest
\* never returns before its own command has ended, whatever flags an earlier
\* owner left raised and wherever an earlier process was killed (clear_flags at
\* qspi.c 325 and the wait at 372).
THEOREM TransferOwnCompletion == Spec => []OwnCompletion
  <1>1. ProtocolInv => OwnCompletion
    BY DEF ProtocolInv, CompletionInv, OwnCompletion
  <1> QED
    BY <1>1, TransferProtocolInvariant, PTL

\* Such a transfer waits for the sequence and size that it asked for
\* (qspi.c 334-346).
THEOREM TransferCommandMatchesRequest == Spec => []CommandMatchesRequest
  <1>1. ProtocolInv => CommandMatchesRequest
    BY DEF ProtocolInv, CommandCfgInv, CommandMatchesRequest
  <1> QED
    BY <1>1, TransferProtocolInvariant, PTL

-----------------------------------------------------------------------------
(* Refinement.                                                             *)

\* The calls of the driver before the trigger.
CalledPcs == {"clear_load", "clear_store", "setup", "trigger"}

\* A step that leaves the call where it is for its client.
LEMMA CallStutters ==
  ASSUME UNCHANGED <<build, req, orphan>>,
         BetweenCalls' <=> BetweenCalls,
         pc' = "aborted" <=> pc = "aborted",
         pc' \in CalledPcs <=> pc \in CalledPcs,
         cmd'.cfg = cmd.cfg,
         cmd'.st = "run" <=> cmd.st = "run"
  PROVE  UNCHANGED <<CallState, CallConfig>>
  <1>1. CallState' = CallState
    BY DEF CallState, Undisturbed, Volatile, CalledPcs
  <1>2. ConfigOf(req)' = ConfigOf(req)
    BY DEF ConfigOf, SeqIndex, DataSize
  <1> QED
    BY <1>1, <1>2 DEF CallConfig

\* The calls of the driver are calls of BlockingCommand, step by step.
LEMMA NextCallStep ==
  ASSUME TypeOK, TypeOK', CompletionInv, CommandCfgInv, [Next]_vars
  PROVE  [Command!Next]_<<CallState, CallConfig>>
  <1> USE DEF Undisturbed, Volatile, BetweenCalls
  <1>0. CallConfig' \in Config
    <2>1. ConfigOf(req') \in Config
      BY ConfigOfType DEF TypeOK
    <2>2. ConfigOf(req)' = ConfigOf(req')
      BY DEF ConfigOf, SeqIndex, DataSize
    <2> QED
      BY <2>1, <2>2 DEF TypeOK, HwTypeOK, CallConfig
  <1>1. CASE CallState' = "void"
    BY <1>0, <1>1 DEF Command!Next, Command!Void
  <1>2. CASE CallState' # "void"
    <2> USE <1>2
    <2>0. Undisturbed' /\ pc' # "aborted"
      BY DEF CallState
    <2>c. UNCHANGED req => ConfigOf(req)' = ConfigOf(req)
      BY DEF ConfigOf, SeqIndex, DataSize
    <2>1. ASSUME NEW x \in Requests, Call(x) PROVE Command!Call
      <3>1. CallState \in {"idle", "void"}
        BY <2>1 DEF Call, CallState
      <3>2. CallState' = "called"
        BY <2>0, <2>1 DEF Call, CallState
      <3> QED
        BY <1>0, <3>1, <3>2 DEF Command!Call
    <2>2. CASE StartTransfer
      <3>1. CallState = "called"
        BY <2>0, <2>2 DEF StartTransfer, CallState
      <3>2. cmd' = [st |-> "run", cfg |-> ipcr1, left |-> DataWords(ipcr1)]
        BY <2>0, <2>2 DEF StartTransfer, Trigger, CompletionInv
      <3>3. CallState' = "running"
        BY <2>0, <2>2, <3>2 DEF StartTransfer, CallState
      <3>4. CallConfig' = CallConfig
        BY <2>0, <2>2, <2>c, <3>1, <3>2, <3>3
        DEF StartTransfer, CallConfig, CommandCfgInv
      <3> QED
        BY <3>1, <3>3, <3>4 DEF Command!Next, Command!Trigger
    <2>3. CASE FinishStore
      <3>1. CallState = "ended" /\ cmd.cfg = ConfigOf(req)
        BY <2>0, <2>3 DEF FinishStore, StoreIntr, CallState, CompletionInv,
                          CommandCfgInv
      <3>2. CallState' = "idle"
        BY <2>0, <2>3 DEF FinishStore, StoreIntr, CallState
      <3>3. CallConfig' = CallConfig
        BY <2>3, <2>c, <3>1, <3>2 DEF FinishStore, StoreIntr, CallConfig
      <3> QED
        BY <3>1, <3>2, <3>3 DEF Command!Next, Command!Return
    <2>4. CASE Controller /\ (FinishCommand \/ FailCommand)
      <3>1. UNCHANGED <<build, pc, req, orphan>>
        BY <2>4 DEF Controller, driverVars
      <3>2. cmd.st = "run" /\ cmd'.st # "run" /\ cmd'.cfg = cmd.cfg
        BY <2>4 DEF FinishCommand, FailCommand, TypeOK, HwTypeOK
      <3>3. CallState = "running"
        BY <2>0, <3>1, <3>2 DEF CallState, CompletionInv
      <3>4. CallState' = "ended"
        BY <2>0, <3>1, <3>2, <3>3 DEF CallState
      <3> QED
        BY <3>2, <3>3, <3>4 DEF CallConfig, Command!Next, Command!End
    <2>5. CASE Restart
      BY <1>0, <2>0, <2>5 DEF Restart, CallState, Command!Next, Command!Recover
    <2>6. CASE Kill
      BY <2>0, <2>6 DEF Kill
    <2> USE DEF CalledPcs
    <2>7. CASE ClearPendingLoad \/ WriteClearLoad \/ WritePushLoad
               \/ ReadClearLoad \/ ReadPopLoad \/ FinishLoad \/ BusyClearLoad
      BY <2>7, CallStutters
      DEF ClearPendingLoad, WriteClearLoad, WritePushLoad, ReadClearLoad,
          ReadPopLoad, FinishLoad, BusyClearLoad, LoadIntr, hwVars
    <2>8. CASE ClearPendingStore \/ WriteClearStore \/ WritePushStore
               \/ ReadClearStore \/ ReadPopStore \/ BusyClearStore
      BY <2>8, CallStutters
      DEF ClearPendingStore, WriteClearStore, WritePushStore, ReadClearStore,
          ReadPopStore, BusyClearStore, StoreIntr
    <2>9. CASE WritePoll \/ ReadPoll \/ WaitDone
      BY <2>9, CallStutters DEF WritePoll, ReadPoll, WaitDone, Poll, hwVars
    <2>10. CASE Setup \/ WriteFill \/ ReadFlush \/ ReadCopy \/ QSPI_Busy
      BY <2>10, CallStutters
      DEF Setup, WriteFill, ReadFlush, ReadCopy, QSPI_Busy, hwVars
    <2>11. CASE Controller /\ (RaiseIptxwe \/ RaiseIprxwa \/ SendWord \/ ReceiveWord)
      <3>1. UNCHANGED <<build, pc, req, orphan>>
        BY <2>11 DEF Controller, driverVars
      <3>2. cmd'.cfg = cmd.cfg /\ cmd'.st = cmd.st
        BY <2>11 DEF RaiseIptxwe, RaiseIprxwa, SendWord, ReceiveWord, TypeOK, HwTypeOK
      <3> QED
        BY <3>1, <3>2, CallStutters
    <2>12. CASE UNCHANGED vars
      BY <2>12, CallStutters DEF vars, hwVars, driverVars
    <2>13. CASE Spin
      BY <2>12, <2>13 DEF Spin
    <2> QED
      BY <2>1, <2>2, <2>3, <2>4, <2>5, <2>6, <2>7, <2>8, <2>9, <2>10, <2>11,
         <2>12, <2>13
      DEF Next, TransferStep, Controller, HwNext, Command!Next
  <1> QED
    BY <1>1, <1>2

\* A transfer is, for its client, one command: called, triggered as asked for,
\* ended, returned (transfer_blocking, qspi.c 315-383).
THEOREM TransferIsOneCommand == Spec => CallIsOneCommand
  <1>1. Init => Command!Init
    <2> SUFFICES ASSUME Init PROVE Command!Init
      OBVIOUS
    <2>1. req \in Requests /\ ConfigOf(req) \in Config
      BY ConfigOfType DEF Init
    <2>2. CallState \in {"idle", "void"}
      BY DEF BetweenCalls, Init, CallState
    <2> QED
      BY <2>1, <2>2 DEF CallConfig, Command!Init
  <1>2. ProtocolInv /\ TypeOK' /\ [Next]_vars
          => [Command!Next]_<<CallState, CallConfig>>
    BY NextCallStep DEF ProtocolInv
  <1> QED
    BY <1>1, <1>2, TransferProtocolInvariant, TransferTypeCorrect, PTL
    DEF Spec, CallIsOneCommand, Command!Spec
=============================================================================
