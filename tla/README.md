# Models and proofs for qspi_tool

qspi_tool drives the FlexSPI controller of an i.MX8MP from user space: it maps
the controller's registers through `/dev/mem`, fills the controller's look-up
table (LUT), and runs *IP commands* that exchange data with an FPGA. Its tests
run on Unity, which the repository carries. This directory holds TLA+ models of it, the TLC runs that check them on small
instances, and TLAPS proofs of the central facts for every instance.

Source paths below are relative to `src/`; the C files are in `src/src/`.

## 1. Inventory

| component | source | state | operations |
|---|---|---|---|
| blocking transfers | `qspi.c` 164-291, 315-383, 456-485, 505-576 | buffer pointer, remaining size, controller registers | `QSPI_Write`, `QSPI_Read`, `QSPI_ReadSample`, `QSPI_Busy` |
| driver life cycle | `qspi.c` 50-162, 385-433, 451-454, 486-503 | `qspi_ctx`: descriptor, `map_*`, `flexspi`, `init_done`; SIGSEGV handler | `QSPI_Init`, `QSPI_DeInit`, `QSPI_IsInitialized` |
| LUT set-up | `qspi.c` 293-305, 435-449 | LUT, its lock | `QSPI_SetupLut` |
| FPGA opcode table | `fpga_interface.[ch]`, `utils.h` | none (constants) | |
| main program | `main.c` | none of its own | parse, init, LUT, write, de-init |
| slog logger | `slog.c`, `slog.h` | `g_slog`: mutex, configuration, log file | `slog_init`, `slog_display`, `slog_destroy`, setters |
| FlexSPI controller | hardware; layout in `flexspi.h` | INTR, IPCR1, FIFOs, LUT | |
| test runner and fixture | `test/`, `unity_fixture.c`, `unity_memory.c` in `libs/unity/` | `UnityFixture`, counts and flags of `Unity`, `pointer_store`, the heap with guards | `UnityMain`, `UnityTestRunner`, `UnityIgnoreTest`, `UnityPointer_Set`, `unity_malloc`, ... |
| assertions and printing | `unity.c`, `unity_internals.h` | none beyond the verdict | `UnityAssert...`, `UnityPrintNumber...`, `UnityPrintFloat` |
| spidev probe | `tmp/main.c` | | straight-line I/O |

How they interact: `main` calls the life cycle, then the LUT set-up, then one
transfer, then `QSPI_DeInit`. Every call logs through slog. The driver and the
controller share the registers: there are no interrupts, the driver polls INTR
while the controller raises flags in it at any moment. The SIGSEGV handler can
run `QSPI_DeInit` in the middle of any call. Apart from that the program is
single-threaded (`main.c` 64 initialises slog as not thread safe; slog itself
supports threads). `test_main.c` gives its command line to `UnityMain`, which
calls the tests of `test_runner.c`; an assertion that fails leaves the test by
longjmp.

What is hard:

- **The driver races with the controller.** INTR is write-one-to-clear, and
  writing one to IPTXWE or IPRXWA also pushes TFDR into the TX FIFO or pops the
  RX FIFO. `INTR |= flag` and `INTR = INTR` are a load and a store of *all*
  flags, with the controller free to act in between.
- **The registers are not volatile.** The fields of `FlexSPI_Type`
  (`flexspi.h` 176-212) are plain integers, so the compiler may drop, merge and
  move accesses.
- **No time-outs**: every loop ends only if the flag it waits for is raised.
- **Partial failure of `QSPI_Init`**: open and three mmaps may each fail, and
  two of the failures are only logged.
- **mmap and munmap sizes differ**, and the process has other mappings.
- **Killed processes**: the controller goes on with what the process left it,
  and nothing resets it (`SWRST` is commented out in `QSPI_Init`, 429). A process
  killed in `QSPI_SetupLut` leaves a LUT half written and unlocked.
- **longjmp**: a test leaves setup, body or teardown at any call, with its
  pointers set and its blocks allocated.
- **Order of calls**: only `QSPI_Busy` and `QSPI_DeInit` look at `init_done`.

What makes each component correct:

- transfers: they stay inside the caller's buffer; the wire carries the
  buffer's words, the buffer receives the device's words; a call returns when,
  and only when, its own command has ended, after executing the configuration it
  asked for; a failure is reported;
- life cycle: nothing leaks, nothing of other code is unmapped, `init_done`
  means the controller can be used;
- main: it releases everything, it reports a failed initialisation;
- LUT set-up: after it the controller decodes, at each index, the instructions
  the table names there, whatever the LUT held before; nothing else changes the LUT;
- slog: one line is written as a whole, the mutex is used only while it exists,
  a line goes to the file of its day;
- test harness: every selected test runs as often as asked and is counted once,
  under one verdict; no pointer and no block count survives it; an overrun is
  never passed over; an assertion holds exactly when what its name says holds, and
  the numbers it prints are the numbers it was given.

`PROJECT.json` lists the hazards behind these, each with its line and the
properties that cover it.

## 2. Modules

| module | models | extends |
|---|---|---|
| `BlockingCommand` | what a client may rely on in a transfer (abstract) | |
| `FlexSpi` | the controller's IP-command engine (external) | |
| `QspiTransfer` | transfers and `QSPI_Busy`, interleaved with the controller; implements `BlockingCommand` | `FlexSpi` |
| `MCQspiTransfer` | LUTs and requests for TLC | `QspiTransfer` |
| `QspiTransferProofs` | theorems about `QspiTransfer` | `QspiTransfer`, TLAPS |
| `QspiContext` | life cycle on a process address space | |
| `QspiContextProofs` | theorems about `QspiContext` | `QspiContext`, TLAPS |
| `QspiMain` | `main`, with the calls of `QspiContext` as its steps | `QspiContext` |
| `QspiMainProofs` | theorem about `QspiMain` | `QspiMain`, `QspiContextProofs` |
| `QspiLut` | the LUT, its key and lock, `QSPI_SetupLut`, the tables | |
| `MCQspiLut` | tables and sizes for TLC | `QspiLut` |
| `QspiLutProofs` | theorems about `QspiLut` | `QspiLut`, TLAPS |
| `Slog` | the logger's mutex, settings and daily file, with several threads | |
| `MCSlog` | settings for TLC | `Slog` |
| `SlogProofs` | theorems about `Slog` | `Slog`, TLAPS |
| `UnityMemory` | the allocator with its guards | |
| `UnityRunner` | `UnityMain` and the life of a test | `UnityMemory` |
| `MCUnityRunner` | tests and command lines for TLC | `UnityRunner` |
| `UnityRunnerProofs` | theorems about `UnityRunner` | `UnityRunner`, `NaturalRecursion`, TLAPS |
| `UnityPrint` | numbers and floats as text | |
| `UnityAssert` | the assertions | `UnityPrint` |
| `MCUnityAssert` | operands for TLC | `UnityAssert` |
| `UnityAssertProofs` | theorems about `UnityAssert` | `UnityAssert`, `NaturalRecursion`, TLAPS |
| `NaturalRecursion` | theorems on recursive functions and loops, for the proofs of the Unity modules | TLAPS |

### FlexSpi

Variables `intr`, `ipcr1`, `tfdr`, `txFifo`, `rxFifo` are the registers and
FIFOs of those names, `cmd` is the command being executed, `wire` the words it
has sent. A 32-bit word is the number of its position in the caller's buffer
(or in the device's answer), and `Stale` is anything older: this is enough to
tell lost, repeated, stale and reordered words apart. TFDR and RFDR have 32 registers
(`flexspi.h` 209-210): a larger watermark pushes `Stale` words for the registers there are
not, and reads none of the device's words from them. `WriteIntr` is the
effect of a store to INTR; the controller's own steps raise flags, send, receive,
finish and fail. What the module assumes of the hardware is what the repository's
README (44-61) says and `qspi.c` relies on. Where neither says (does a failed
command also raise IPCMDDONE?) both outcomes are possible. That a flag raised
by the controller stays until it is written is part of the assumption, for
instance when the RX FIFO is flushed.

### QspiTransfer

`pc` walks through `transfer_blocking` and the loop it calls; `off` and `size`
are the local buffer pointer and remaining size, `dst` what a read has stored,
`reg` the last value of INTR that passed through a CPU register. One step is one
access to something the controller changes by itself; accesses to registers only
the driver writes are merged with the next step. `INTR |= f` and `INTR = INTR`
are therefore two steps, `...Load` and `...Store`, in `QSPI_Busy` too, whose own load
comes before them. The size is truncated to 16
bits in `DataSize` as in `flexspi_transfer_t`, after the client's assertion and
before that of the loops. A failed assertion leaves `pc = "aborted"`.

The constant `Builds` says which compilations are considered; `build` is chosen
once, in `Init`:

- `volatile`: every access of the source reaches the bus in its order (what
  one gets without optimisation);
- `cached`: `INTR = INTR` is dropped, a polling loop loads the register once
  and spins on the value if the flag is not in it, a value already in a CPU register may
  replace a load;
- `reordered`: `cached`, and the store to IPCMD overtakes the one to IPCR1.

All are legal for non-volatile objects; gcc 12 with -O2 produces the third for
`qspi.c`.

Left out: the addresses (IPCR0) and FLSHCR2, which no property tells apart;
STS0 and STS1, which nothing reads except to log them; logging.

A process may be killed at any point of a call (`MayCrash`, `Kill`); the
controller goes on. `Restart` is the next process, with its `QSPI_Init`, which
resets nothing. `orphan` says that a command was still running when the call at hand, or
its process, began, so that it can disturb the call.

### BlockingCommand

Four phases of a call: `called` with a configuration, `running` the command with
that configuration, `ended`, and back. `QspiTransfer` implements it
(`CallIsOneCommand`) with `CallState` and `CallConfig` as the mapping. Nothing is promised
(`void`) while a call is disturbed, that is, unless `Undisturbed`: every store of
the source reaches the controller (build `volatile`) and no orphan is about. A
call that starts undisturbed is promised everything again.

### QspiContext and QspiMain

`vm` says of every page whose mapping it is: one of the context's three, `other`
(other code of the process), or `free`. mmap takes any place that fits,
munmap frees whatever lies in its range. The sizes are those of the code:
`MapPages` for mmap, `UnmapPages` for munmap; `PagesPer64K` is
`PAGE_SIZE_64K / page_size`. `QSPI_Init` is one step per system call or access
that can fail; an access to a FlexSPI register with the clock off kills the
process, an access through a pointer to unmapped memory runs the SIGSEGV
handler. Firmware may have left the clock on (`clock = "boot"`) or off.
`munmap` of `map_rdc`, which is never mapped (NULL), has no effect and is not in
the model. One detail of the error paths matters: after a failed
`QSPI_Init`, `flexspi` keeps the old pointer.

Every other call is a step that ends in one of the ways its code has. It may return,
run into an assertion (`aborted`: a NULL `flexspi`, table or buffer, a size of 0 or too
large; lines 179, 238, 438-440, 532, 556), crash into the handler (a buffer outside the
mapped memory, a pointer left by `QSPI_DeInit`), be killed (clock off), or poll for ever
(`blocked`: 188, 247, 372). `Arguments` are the kinds of argument that lead there. When
a transfer blocks and when it does not is the subject of `QspiTransfer`; here both are
always possible.

`QspiContext!Next` is a client that calls the API in any order, with the one
restriction `main.c` 63 asserts: it does not initialise twice. `QspiMain` drives
the same actions in the order of `main`, with the arguments that `main` passes.

### QspiLut

A word of the LUT is two instructions of sixteen bits; `FLEXSPI_LUT_SEQ` packs
them as the macros do, `Unpack` is what the controller decodes. `QSPI_SetupLut` is
one step per store: `UnlockKey`, `UnlockCr`, one `Copy` per word, `LockKey`,
`LockCr`. A store to LUTCR counts only if the store before it armed the key, a
store to the LUT only if it is unlocked. `build` is `volatile`, or
`merged`, where the compiler drops the second store of the same key to LUTKEY
(gcc 12 with -O2 does, for 295-297). `QSPI_Write` is here only as far as its fill
loop stores into `TFDR[2 * wmk]`: TFDR has 32 words, a watermark goes up to 128, and
behind TFDR comes the LUT. `FPGA_TABLE`, `fpga_lut` and `test_lut` are the tables
of the repository. `Restart` ends the process after any store.

### Slog

A call of thread `t` is idle, lock, body, (callback, output,) unlock in `pc[t]`.
Which function it is matters only once the mutex is taken, so `Setter` and
`Display` choose in the body. `mutex`, `tdSafe`, `cfg`, `filePath`, `currDay` and
`handle` are the fields of `g_slog`; a file name is the pair of the configured
path and the date it was made from, and `handle` is the name of the file it
writes to. `stamp[t]` is the date that `slog_display` takes at its start (512).
`line` remembers the last line written, for the properties. `Midnight` comes at
any moment. `fopen` may fail. The callback runs with the mutex held; the mutex is
recursive, so a setter it calls neither blocks nor releases anything.

The client is one that `slog.h` allows: no second `slog_init` without
`slog_destroy`, neither of the two while another thread is in a call, and only
the starting thread uses a logger initialised with `nTdSafe = 0`, as `main` does.
A logger may be initialised, destroyed and initialised again any number of times.

Left out: screen output; everything that shapes only the text (colours,
separator, indentation, date format, thread id); `slog_config_get`,
`slog_get_full_path` and `slog_separator_set`, which take the mutex, touch only
such data, and give it back; a callback that itself logs; the Windows branches.

### UnityMemory and UnityRunner

`blocks` has for each place of the heap the size in its guard and whether guard and
end marker are intact; `malloc_count` and `malloc_fail_countdown` are the variables of
those names, `base` the number of blocks there were when the count began. Each
function is one action, with the countdown, the size-0 case and the system's own
failure as alternatives; `realloc` leaves a block that is large enough where it is,
and keeps the old one if there is no new one.

`UnityRunner` takes `UnityMain` through its command line (`pc = "parse"`), each
repetition (`begin`), the list of tests (`next`) and each test: `setup`, `body`,
`teardown`, `undo`, and the conclusion. What a test does is *any* sequence of the
calls Unity offers: set a pointer, allocate, resize, free, write past a block, assert,
ignore itself. The longjmp of a failure (`Abort`) ends the part of the test it
happens in and nothing else. `red` and `redTests` are history: whether the test
had reason to fail or ignore itself, independent of Unity's flags, and how many had. The
driver's tests in `test_qspi_functional.c` are instances.

### UnityPrint and UnityAssert

In each state of `UnityAssert` one assertion has been called (`call`), and
`outcome` is what came of it: passed, or failed with what it reports. The loops
are recursive functions written as the code runs, with its offsets into memory, and the
properties compare them with a definition that says what the assertion is for. A byte
has `ByteBits` bits, so `size` of them have `Values[size]` values: all widths keep
their ratios and all sign extensions, masks and wrap-arounds happen, with numbers
TLC can hold. Memory is a sequence of
bytes. Reading outside the operands would be an evaluation error, so a run that
passes also shows that no loop leaves them.

A float is a member of `Format`, any set of integers (multiples of the least float) that
holds 0 and the negative of each, an infinity or NaN. The result of an addition or of the product with
UNITY_FLOAT_PRECISION is rounded to the nearest member, ties to even, and from half way
between the greatest and `Huge` it is infinite. `FloatVerdicts` says what this can still promise:
the verdict is that of the true distance if a float lies between distance and tolerance.

`UnityPrintFloat` is modelled from the scaled number on (`ScaledNumbers`): rounding with
its ties, carry, place of the point, trailing zeros, exponent. The loops before it multiply and divide
floats and lose up to a few units of the seventh digit, as the comment in `unity.c`
343-347 says; so any number that they could leave, with any exponent, is possible.
`FloatReadsBack` compares the text with that number, not with the float.

## 3. Runs

Bounds that recur: watermarks of 1 (the reset value; 2 for RX in one run), so a
turn of the write loop moves 8 bytes and one of the read loop 4; FIFOs of 8
words, so that they can fill; sizes on both sides of the chunk sizes, 0, 1025
(stopped by the assertion) and 65544 (truncated to 8); two calls, so that what
one leaves behind meets the next. Nothing in the code depends on more than the
previous call. `MayCrash` adds a killed process and its successor to any of them.
`MaxCalls` counts the transfers.

Passing:

| run | checks | instance |
|---|---|---|
| `transfers` | `TypeOK`, `BufferInBounds`, `OwnCompletion`, `CommandMatchesRequest`, `CallIsOneCommand` | all builds, failing commands, kills, reads and writes, two calls |
| `main_write_returns` | `TransferReturns` | the write of `main.c` (sequence 0, size 0), twice, build `volatile`, kills, from every state of the flags |
| `context_lifecycle` | `TypeOK`, `NoLeak`, `InitialisedRegistersLive`, `OnlyIomuxOverreaches` | 6 pages of 32 KiB, any of them taken by other code at any time |
| `main_clean_exit` | `CleanExit` | 6 pages of 32 KiB |
| `qspi_lut` | `TypeOK`, `SequencesInstalled`, `OnlySetupChangesLut` | `fpga_lut`, `test_lut` and a table of 33 sequences (too long); writes of 0, 128, 132 and 1024 bytes; TX watermarks 1, 16, 17, 128; both builds |
| `slog_lines` | `TypeOK`, `MutualExclusion`, `NothingOpenWhenDead`, `LineUnderItsName`, `RotationSplitsDays`, `MutexReleased` | 2 threads, 2 names, 1 level, 3 days in months of 2, kept open or not, to file or not, rotated or not |
| `unity_runner` | `TypeOK`, `EveryTestCountedOnce`, `PointersRestored`, `MallocCountExact`, `OptionsHonoured`, `OverrunNeverSilent` | 3 tests, one of them an `IGNORE_TEST`; 10 command lines; 2 blocks of up to 2 bytes, 1 pointer, 2 values, a store of 2 entries, a countdown of up to 1 |
| `unity_assertions` | `NumberVerdicts`, `ReportsReadBack`, `ArrayVerdicts`, `MemoryVerdicts`, `StringVerdicts`, `FloatVerdicts`, `FloatReadsBack` | bytes of 2 bits (int has 8, UNITY_INT 16); the numbers around each type's extremes; arrays and strings of up to 2; floats of 3 bits up to 28 with a tolerance of a quarter; scaled numbers around 10^6, 10^7 and ties, exponents -51 to 32 |

`unity_runner` takes the two blocks as symmetric: nothing tells them apart. Two
entries for one pointer are the least that restoring in the wrong order gets wrong,
and fill the store. Three tests let an ignored one stand between two that run. In
`unity_assertions` two elements are the least for which a first
difference, a restart of the expected value and an end of the loop are different
things. The six finite floats have sums that are exact, rounded either way, to even, and infinite
(28 and 28, or -28); the scaled numbers cover both ends of the range, ties to even and odd,
zeros to cut off at every place, and the carry over all digits.
In `qspi_lut` a watermark of 16 just fills TFDR, 17 is the first that runs past it; the
larger sizes reach as far as the LUT.

Six pages of 32 KiB hold the three mappings (the clock's takes two) with two more for
other code, in every arrangement, so that the page behind the IOMUX mapping may be anyone's. In `slog_lines` one
thread can reconfigure, or midnight pass, in the middle of the other's call; a
third day lets both the open file and a pending line be old, and has the number of the
first; a second level would only repeat the check of the first. The runs on
`QspiContext`, `QspiMain` and those with requests that an assertion stops have
`CHECK_DEADLOCK FALSE`: the process may end. So do `transfers`, where an aborted call stops the
program while the controller goes quiet, `bug_write_pushes_stale`, where the one call is over,
and `unity_runner`, where `UnityMain` returns.

Violated, each a disagreement between the code and what the repository says of
it (`PROJECT.json` "findings" quotes the lines):

| run | property | what happens |
|---|---|---|
| `bug_write_pushes_stale` | `WriteDelivered` | `clear_flags` (191) pushes the old contents of TFDR before the fill |
| `bug_write_lost_done` | `WaitEndsWhenFinished` | the push of the last chunk (231) clears IPCMDDONE as well, and the wait never ends |
| `bug_read_popped_early` | `ReadDelivered` | `clear_flags` (250) pops the words before they are copied |
| `bug_deinit_unmaps_foreign` | `ForeignPagesIntact` | one page mapped, 64 KiB unmapped |

The first three are about the accesses of the source in its own order (build `volatile`).
`ReadDelivered` has further ways to fail behind the first: the flush in line 242
comes after the trigger, and each turn copies `RxWmk` words but pops `2 * RxWmk`.
So has `WriteDelivered`: later turns push the previous chunk again, and the last, partial chunk is pushed
as a whole watermark.

Further disagreements visible in the models, without a run of their own. In the
driver and the logger:

- a compiler may drop `clear_flags` in line 325, and an old IPCMDDONE then ends the
  wait: `OwnCompletion` without `Undisturbed` fails for the build `cached`;
- a compiler may keep INTR in a CPU register while `write_blocking` polls it (188), so
  that the driver waits for room in the TX FIFO before the first chunk only: a write
  longer than the FIFO then overruns it or loses its end;
- with a TX watermark above 16, or an RX watermark above 32, a chunk has more words than
  TFDR, or RFDR, has registers (213, 254): the rest goes to, or comes from, the registers behind;
- the first call after a killed process may end with the dead process's command,
  because nothing resets the controller (429);
- in the build `merged` the second store to LUTKEY is gone (295-297) and the LUT stays
  unlocked: a write with a watermark above 16 then changes it;
- a compiler may load INTR once before the wait of line 372, which then never
  ends; it may also store IPCMD before IPCR1, so that the previous configuration
  runs;
- `read_blocking` waits for a full watermark even when fewer words are left
  (247), and polls for ever;
- `transfer_blocking` returns 0 when the command failed (377);
- the store of line 379, meant to clear the TX flag, clears IPCMDDONE, so
  `QSPI_Busy` answers 1 after a finished transfer;
- 65544 bytes become 8 in `dataSize` (519) and pass the assertion of line 179;
- `QSPI_Init` sets `init_done` although the mapping of the clock or pad
  controller failed (421, 425), and writes MCR0 before it opens the clock
  gate (424);
- `flexspi` outlives `QSPI_DeInit` (494): a transfer after it, which does not look at `init_done`,
  crashes or stores into whatever memory has come to that address;
- `main` sets up the LUT before it looks at the result of `QSPI_Init` (`main.c`
  68-70), so that a failure ends in the assertion of `QSPI_SetupLut`, not in the
  message and exit status of lines 73-77;
- `slog.c` 422 compares days of the month: a logger that next writes exactly a
  month later goes on in the old file. `RotationSplitsDays` says nothing of lines on the same
  day of the month; a stronger property that does fails in `slog_lines`;
- with rotation off, `slog_open_file` keeps the remembered name but sets
  `nCurrDay` (268, 296): once rotation is on again, the old date's file passes for
  today's, until the day changes. `LineUnderItsName` says only that a file is not of a later date.

In Unity:

- `UnityPrintIntNumberByStyle` (`unity.c` 198-236) prints nothing for styles other
  than INT, although 952 passes every style to it: reports of failing HEX and UINT arrays, of
  UINT arrays within a delta, of memory and of `TEST_ASSERT_EQUAL_PTR`
  (`unity_internals.h` 1083) show no values. `ReportsReadBack` leaves these out;
- `UnityPrintMask` prints `UNITY_INT_WIDTH` = 32 bits of a 64-bit number;
- the tie rule of lines 435-437 ("round to even if exactly between two integers") looks at the
  fractional part before the integer part is added (439): 1000001.5 prints as 1000001, the odd neighbour;
- the verdict on an overrun hits the test that releases the block, which need not be the one that
  wrote past it (`unity_memory.c` 147);
- the scalar assertion on floats within a delta that is NaN passes, the one on arrays fails;
- `TEST_ASSERT_EACH_EQUAL_STRING` of NULL and an array of NULLs fails;
- a delta of 2^63 or more is reported as a negative number;
- `UnityMain` returns the failures of the last repetition only, and with `-r 0`
  runs nothing and succeeds;
- `realloc` to a smaller size keeps the guard of the old size;
- the teardown of a decided test ends at its first assertion, even one that holds
  (`unity.c` 738), so it may not release what it was written to release.

### Fairness

`QspiTransfer!FairSpec` assumes that the process is scheduled while it is in a
call (`TransferStep`) and that a clocked controller takes each of its steps that
stays possible: raise the watermark flags, move a word, finish. It never forces
a failure or a client's call. All are weak: the code has nothing that makes a
step recur, and a step once possible stays possible until it is taken or the
driver's store disables it. `QspiContext!FairSpec` assumes only
that a `QSPI_Init` that has begun goes on; `MainSpec` has no fairness. `Slog!FairSpec` assumes that a thread
that has the mutex is scheduled and that its callback returns; it assumes nothing of
the order in which the mutex is granted, and `MutexReleased` does not need it.
`Kill` and `Restart` are never forced. The LUT and Unity modules state no
liveness and assume no fairness.

## 4. Proofs

All proofs are for arbitrary constants subject to the named assumptions
`FlexSpiAssumption`, `QspiTransferAssumption`, `QspiContextAssumption`,
`QspiLutAssumption`, `SlogAssumption`, `UnityMemoryAssumption`,
`UnityRunnerAssumption`, `UnityPrintAssumption`, `UnityAssertAssumption`,
`FormatAssumption` (the finite floats are integers with their negatives, below `Huge`) and
`PrintedAssumption` (what is printed is one of `ScaledNumbers`). No theorem assumes more.

**Transfers** (`QspiTransferProofs`).
`TransferInv` is inductive: `TypeOK`, `CommandInv` (a command has no more words
left than its configuration asks for) and `BoundsInv`. `BufferInBounds` alone is
not inductive because the pointer moves by words and the size by bytes; `BoundsInv`
adds that, as long as bytes remain, the offset is a multiple of four, and that the
write loop runs only for writes and the read loop only for reads.
It yields `TransferTypeCorrect` and `TransferBufferInBounds`, for every
watermark, size, LUT and build. That the remaining size is a natural number is the
content of the type theorem: the loops never underflow it.

`TransferOwnCompletion` and `TransferCommandMatchesRequest` hold for all builds and
any number of killed processes, because both properties are claimed of undisturbed
calls only. Their invariants `CompletionInv` and `CommandCfgInv` say where IPCMDDONE can be
raised or sit in the driver's copy of INTR, and which configuration the registers
and the running command have, at each `pc`.

`TransferIsOneCommand` is the refinement: `TransferProtocolInvariant` gathers the
invariants, every step of `QspiTransfer` is shown to be a step of
`BlockingCommand` or a stutter under the mapping, action by action.

**Life cycle** (`QspiContextProofs`). `ContextInv` is inductive: `PagesInv` (the
pages of a mapping are exactly those its `map_` pointer says, at each point of
`QSPI_Init` and between calls), `DescriptorInv` (the descriptor is open exactly from a
successful open to the end of `QSPI_DeInit`), `RegistersInv` (`flexspi` is the
mapping, and the clock runs). From it: `ContextTypeCorrect`, `ContextNoLeak` and
`ContextInitialisedRegistersLive`, for every address space and page size.
`ContextOnlyIomuxOverreaches` is an action property from the same invariant: the pages of
`fspi` and `ccm` are their own (`PagesInv`), so a munmap that reaches a page of other code is the one
of 64 KiB at the single page of `iomux`. `bug_deinit_unmaps_foreign` shows that it does.

**main** (`QspiMainProofs`). `CleanExit` is not inductive: what is open at the end
depends on how far `QSPI_Init` came. `MainInv` is `ContextInv` with `ProgressInv`, which
ties the place in `main` to the state of the context. `MainCleanExit`
follows for every address space; each call of `QspiContext` keeps `ContextInv` by the
lemmas of `QspiContextProofs`.

**LUT** (`QspiLutProofs`). `PackUnpack` says that what the macros pack the
controller decodes to the same instruction. `IInv` is `TypeOK` and `LutInv`: between
unlocking and the end of the copy the LUT is open, the words copied so far are the
table's (`Copied`), and after the set-up the LUT is locked with all of them in it. From it
`LutTypeCorrect`, `LutSequencesInstalled` and `LutOnlySetupChanges`, for all tables,
watermarks and sizes.

**Test harness** (`UnityRunnerProofs`). `UnityEveryTestCountedOnce` rests on
`CountInvariant` (counts and flags at each place of a test),
`UnityPointersRestored` on `PointerInvariant` (the *first* entry of a pointer in the
store holds the value it had before the test; `mem` alone is not inductive, because
later entries hold values of the test), `UnityMallocCountExact` and
`UnityOverrunNeverSilent` on `MemoryInvariant` (`malloc_count` is the
number of live blocks less `base`, and a live block has a size above 0). `UnityTypeCorrect` is for any tests, command lines and
store size. `UnityOptionsHonoured` says that the fixture is what the whole command line
asks for. `OptionsInv` says it of the arguments parsed so far: the next argument is an
option (`PlaceInv`), and filters, switches and repeat count are those of the latest
use of their option (`FieldsInv`, `SwitchInv`, `RepeatInv`). Which arguments are options
and which are their values is itself a recursion over the command line (`IsOption`).

**Assertions** (`UnityAssertProofs`). `UnityNumberVerdicts`, `UnityArrayVerdicts`,
`UnityMemoryVerdicts`, `UnityStringVerdicts` and `UnityFloatVerdicts`: for operands of
any number and length, an assertion fails exactly when what its name says does not hold, and
one on an array names the first element that is wrong; of floats this is claimed as far as
rounding leaves it true, for every `Format`. `UnityReportsReadBack`: the
numbers in the report of a failure are those that were compared. `UnityFloatReadsBack`: the
text of a float denotes what its scaling left, to half a unit of the seventh
digit. These properties say what a single call did, so every state that a call leads to is shown to have them, and no
stronger invariant is needed; the work lies in the code's loops.

- Each loop over an array is an `IsLoop`: it ends at the first element that is bad, and
  `LoopResult` says which that is. The comparison of two strings (`CharactersCompared`)
  ends at the first difference *or* at NUL or at the limit, which is shown to be the same as
  equality of the texts up to there. `EqualMemory` is a loop over elements of a loop over bytes, whose
  offset runs on through the flat memory (`FlatIs`, `MemoryResult`).
- `LoadIs` and `ElementIs`: the bytes that the loop loads at its offset, sign-extended by
  the style's size, are the number that the array has there, although the loop
  converts it through UNITY_INT.
- `DistanceIs`: the difference in UNITY_UINT, which wraps around, is the distance of the two
  numbers in every type, so a delta is compared with the true distance.
- `DecimalReadsBack`: `UnityPrintNumberUnsigned` looks for its first divisor
  until at most one digit is left (`TurnsResult`, `DecimalDigits`), so nothing is left of the number after the
  last digit, and the digits, each the remainder of what was left (`IsDivided`), stand
  for it (`DigitsReadBack`). `HexReadsBack`: a number of so many bytes has
  two nibbles for each. `PrintedReadsBack` adds the minus sign and the complement, the
  least number included, and `ArgumentsRead` says that what the macros cast fits the style.
- `MasksDiffer`: the conversion to UNITY_INT keeps every bit (`BitsAre`), so two
  masked numbers that differ in a printed one have different texts.
- `RoundIs`: a result is rounded to a nearest float, which no other float separates from it, so
  a float between the true distance and the tolerance lies between the rounded ones too
  (`SumOfFloats`, `WithinIsJudged`).
- `RoundedIs` is the rounding of a scaled number with its ties. The prover knows
  nothing of `10^k` for a variable `k`: `TensAre` makes it the recursive `Divisor`, of
  which `TensMultiply` proves the law of exponents.
- `CarriedIs` adds the carry and `ZerosCut` the zeros cut off; `PrintedFloatRead` says that
  sign, point and exponent are found again in the text (`FloatTextRead`), whatever the
  digits, and `DigitsNear` puts them together.

**Recursion** (`NaturalRecursion`). A recursive function of TLA+ is a CHOOSE, so
nothing is known of it before some function satisfies its equation.
`RecursionExists` and `LoopExists` supply it for a function on `0 .. n` that goes up or
down, `SequenceExists` and `SearchExists` for one on all numbers; `LoopResult` is the
induction that the loops over elements need, and `SearchResult` that for a loop
which counts until a condition fails: it ends at the least number for which it does. Induction is over sets
(`SetInduction`, from the least element of a set of numbers), because the
library's induction theorems take an operator as a parameter, which the installed provers cannot
instantiate.

**Logger** (`SlogProofs`). `SlogInv` is inductive: `TypeOK`, `MutexInv` (in a
thread-safe logger a thread is inside a call exactly if it owns the mutex; in another
one only the starter is ever in a call) and `LiveInv` (what a logger that is not live
has given up). `MutualExclusion` is not inductive by itself: that a thread inside a call
and an owner are the same thing is what makes it so. From `SlogInv`:
`SlogTypeCorrect`, `SlogMutualExclusion`, `SlogNothingOpenWhenDead`, for any threads,
names, settings and dates. `SlogLineUnderItsName` and `SlogRotationSplitsDays` need `FileInv` as
well, which says whose name an open file has and how it is related to the remembered day and
to the last line. They hold for rotated and unrotated configurations and months of any length.

**Only model-checked**: the liveness properties (`TransferReturns`,
`MutexReleased`), which are out of the prover's reach. Every invariant that a passing run
checks is proved.

## 5. Not modelled

- slog: screen output and texts; `slog_init` or `slog_destroy` overlapping other
  calls (647, 692), which neither `slog.h` nor a caller allows;
  `slog_config_get`, change, `slog_config_set` by two threads at once, for which the interface
  promises nothing.
- `parse_flags`: only its exit; the flags belong to slog.
- The commands `kFLEXSPI_Config` and `kFLEXSPI_Command`: no caller uses them. AHB
  access and the DLL of the controller: the driver does not touch them.
- Unity: the text around the numbers and the escapes of characters;
  `UnityPrintF` (its arguments are a C variable list, nothing in the repository calls it);
  details and `unity.c`'s own command line (not compiled in); the assertions
  on doubles (`UNITY_EXCLUDE_DOUBLE` is the default, the code is that for
  floats); `UnityDefaultTestRun` (the fixture replaces it).
- `tmp/main.c`: straight-line I/O.

## 6. Plan

1. `SlogStart`: threads logging while another initialises or destroys the logger, on
   top of `Slog`, to say which order a client has to keep.
2. The text of a line of slog with its bounded buffers.
