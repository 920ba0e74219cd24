----------------------------- MODULE UnityMemory -----------------------------
(***************************************************************************)
(* unity_memory.c: the malloc, free, calloc and realloc that a test uses   *)
(* in place of the library's, with a guard in front of every block and the *)
(* marker "END" behind it.  A test that fails (module UnityRunner) leaves  *)
(* in the middle of whatever it was doing, so every operation here says    *)
(* whether it ends in UNITY_TEST_FAIL.                                     *)
(***************************************************************************)
EXTENDS Integers, FiniteSets

CONSTANTS
  Blocks,     \* places of the heap
  BlockSizes, \* sizes that tests ask for
  MaxFailAfter \* bound on UnityMalloc_MakeMallocFailAfterCount

ASSUME UnityMemoryAssumption ==
  /\ IsFiniteSet(Blocks)
  /\ BlockSizes \subseteq Nat
  /\ MaxFailAfter \in Nat

MALLOC_DONT_FAIL == -1

VARIABLES
  blocks,                \* blocks[b]: guard->size, 0 if b is not allocated,
                         \* and whether guard and marker are intact
  malloc_count,
  malloc_fail_countdown,
  base                   \* blocks that were live at UnityMalloc_StartTest

memoryVars == <<blocks, malloc_count, malloc_fail_countdown, base>>

Free == [size |-> 0, intact |-> TRUE]

Live == {b \in Blocks : blocks[b].size > 0}

MemoryInit ==
  /\ blocks = [b \in Blocks |-> Free]
  /\ malloc_count = 0
  /\ malloc_fail_countdown = MALLOC_DONT_FAIL
  /\ base = 0

UnityMalloc_StartTest ==
  /\ malloc_count' = 0
  /\ malloc_fail_countdown' = MALLOC_DONT_FAIL
  /\ base' = Cardinality(Live)
  /\ UNCHANGED blocks

\* UnityMalloc_EndTest; the test fails iff Leaks.
UnityMalloc_EndTest ==
  /\ malloc_fail_countdown' = MALLOC_DONT_FAIL
  /\ UNCHANGED <<blocks, malloc_count, base>>

Leaks == malloc_count # 0

UnityMalloc_MakeMallocFailAfterCount(n) ==
  /\ malloc_fail_countdown' = n
  /\ UNCHANGED <<blocks, malloc_count, base>>

\* The countdown that each unity_malloc advances; at 0 it stays.
CountDown ==
  malloc_fail_countdown' =
    IF malloc_fail_countdown > 0 THEN malloc_fail_countdown - 1
    ELSE malloc_fail_countdown

\* A mutant: a block is counted before it is there.
MallocFailsCounted(n) ==
  /\ CountDown
  /\ malloc_count' = malloc_count + 1
  /\ UNCHANGED <<blocks, base>>

\* unity_malloc of n bytes returns NULL: the countdown has run out, n is 0,
\* or the library is out of memory.  calloc is the same with memory cleared.
MallocFails(n) ==
  /\ CountDown
  /\ UNCHANGED <<blocks, malloc_count, base>>

\* unity_malloc can return block b.
Available(b, n) == b \notin Live /\ malloc_fail_countdown # 0 /\ n > 0

unity_malloc(n) ==
  \/ MallocFails(n)
  \/ \E b \in Blocks :
       /\ Available(b, n)
       /\ blocks' = [blocks EXCEPT ![b] = [size |-> n, intact |-> TRUE]]
       /\ malloc_count' = malloc_count + 1
       /\ CountDown
       /\ UNCHANGED base

\* A mutant: the marker behind the block is not looked at.
isOverrunMissed(b) == FALSE

isOverrun(b) == ~ blocks[b].intact

release_memory(b) ==
  /\ blocks' = [blocks EXCEPT ![b] = Free]
  /\ malloc_count' = malloc_count - 1
  /\ UNCHANGED <<malloc_fail_countdown, base>>

\* unity_realloc of an intact block: free it, keep it as it is, or move it,
\* which frees the old block only when there is a new one.
unity_realloc(b, n) ==
  \/ /\ n = 0
     /\ release_memory(b)
  \/ /\ n \in 1 .. blocks[b].size
     /\ UNCHANGED memoryVars
  \/ /\ n > blocks[b].size
     /\ \/ MallocFails(n)
        \/ \E new \in Blocks :
             /\ Available(new, n)
             /\ blocks' = [blocks EXCEPT ![new] = [size |-> n, intact |-> TRUE],
                                         ![b] = Free]
             /\ CountDown
             /\ UNCHANGED <<malloc_count, base>>

\* The test writes before or behind its block.
Overrun(b) ==
  /\ blocks' = [blocks EXCEPT ![b].intact = FALSE]
  /\ UNCHANGED <<malloc_count, malloc_fail_countdown, base>>
=============================================================================
