-------------------------- MODULE UnityRunnerProofs --------------------------
(***************************************************************************)
(* Theorems about module UnityRunner, for all tests, command lines, heaps  *)
(* and pointers, proved from four independent inductive invariants:        *)
(*   CountInvariant    the flags of the test at hand agree with what       *)
(*                     happened in it, and the counters with the tests;    *)
(*   PointerInvariant  a pointer that is not in pointer_store has its old  *)
(*                     value, and the first entry of one that is holds it; *)
(*   MemoryInvariant   malloc_count is the number of live blocks;          *)
(*   OptionsInv        the fixture holds what the arguments parsed so far  *)
(*                     say.                                                *)
(***************************************************************************)
EXTENDS UnityRunner, FiniteSetTheorems, NaturalRecursion, TLAPS

-----------------------------------------------------------------------------
(* The verdict.                                                            *)

\* A test has been started and is not concluded: NumberOfTests counts it
\* already, redTests not yet.
Running == pc \in {"setup", "body", "teardown", "undo"}

CountsAgree ==
  /\ NumberOfTests \in Nat /\ TestFailures \in Nat /\ TestIgnores \in Nat
  /\ redTests \in Nat
  /\ TestFailures + TestIgnores = redTests
  /\ redTests <= NumberOfTests
  /\ Running => redTests < NumberOfTests

FlagsAgree ==
  /\ CurrentTestFailed \in BOOLEAN /\ CurrentTestIgnored \in BOOLEAN
  /\ red \in BOOLEAN
  /\ red <=> Decided
  /\ ~ (CurrentTestFailed /\ CurrentTestIgnored)

CountInvariant == CountsAgree /\ FlagsAgree

\* Every call that a test makes does one of five things to the control.
LEMMA TestCodeControl ==
  TestCode => /\ InTest
              /\ Fail \/ UnityIgnore \/ PassingAssertion \/ Continue \/ Return
              /\ UNCHANGED <<countVars, redTests>>
<1> SUFFICES ASSUME TestCode
             PROVE  Fail \/ UnityIgnore \/ PassingAssertion \/ Continue \/ Return
  BY DEF TestCode
<1>1. CASE ControlCall
  BY <1>1 DEF ControlCall
<1>2. CASE PointerCall
  BY <1>2 DEF PointerCall, UnityPointer_Set
<1>3. CASE MemoryCall
  BY <1>3 DEF MemoryCall, unity_free, Reallocate
<1> QED BY <1>1, <1>2, <1>3 DEF TestCode

LEMMA CountInit == Init => CountInvariant
<1>1. Init => CountsAgree
  BY DEF Init, CountsAgree, Running
<1>2. Init => FlagsAgree
  BY Zenon DEF Init, FlagsAgree, Decided
<1> QED BY <1>1, <1>2 DEF CountInvariant

LEMMA FlagStep == FlagsAgree /\ [Next]_vars => FlagsAgree'
<1> SUFFICES ASSUME FlagsAgree, [Next]_vars PROVE FlagsAgree'
  OBVIOUS
<1> USE DEF FlagsAgree, Decided
<1>1. CASE UNCHANGED flagVars
  BY <1>1, Zenon DEF flagVars
<1>2. CASE UnityBegin
  <2>1. CASE UNCHANGED flagVars
    BY <2>1, <1>1
  <2>2. CASE ~ CurrentTestFailed' /\ ~ CurrentTestIgnored' /\ ~ red'
             /\ flagVars' = <<FALSE, FALSE, FALSE>>
    BY <2>2, Zenon DEF flagVars
  <2> QED BY <1>2, <2>1, <2>2 DEF UnityBegin, flagVars
<1>3. CASE UnityConcludeFixtureTest
  BY <1>3, Zenon DEF UnityConcludeFixtureTest
<1>4. CASE Fail
  BY <1>4, Zenon DEF Fail
<1>5. CASE UnityIgnore
  BY <1>5, Zenon DEF UnityIgnore
<1>6. CASE TestCode
  <2>1. PassingAssertion \/ Continue \/ Return => UNCHANGED flagVars
    BY DEF PassingAssertion, Continue, Return
  <2> QED BY <1>6, TestCodeControl, <2>1, <1>1, <1>4, <1>5
<1>7. ParseOption \/ OptionsParsed \/ SkipTest \/ UnityIgnoreTest \/ StartTest
      \/ UnityEnd \/ UndoPointer \/ UNCHANGED vars => UNCHANGED flagVars
  BY DEF ParseOption, OptionsParsed, SkipTest, UnityIgnoreTest, StartTest,
         UnityEnd, UndoPointer, vars
<1> QED BY <1>1, <1>2, <1>3, <1>6, <1>7 DEF Next, Runner

LEMMA CountStep == CountInvariant /\ [Next]_vars => CountInvariant'
<1> SUFFICES ASSUME CountsAgree, FlagsAgree, [Next]_vars PROVE CountsAgree'
  BY FlagStep DEF CountInvariant
<1> USE DEF CountsAgree, Running
<1>1. CASE UNCHANGED vars
  BY <1>1 DEF vars, countVars
<1>2. CASE ParseOption
  BY <1>2 DEF ParseOption, Repeat, countVars
<1>3. CASE OptionsParsed
  BY <1>3 DEF OptionsParsed, countVars
<1>4. CASE UnityBegin
  BY <1>4 DEF UnityBegin, countVars
<1>5. CASE SkipTest
  BY <1>5 DEF SkipTest, countVars
<1>6. CASE UnityIgnoreTest
  BY <1>6 DEF UnityIgnoreTest
<1>7. CASE StartTest
  BY <1>7 DEF StartTest
<1>8. CASE UnityEnd
  BY <1>8 DEF UnityEnd, countVars
<1>9. CASE UndoPointer
  BY <1>9 DEF UndoPointer, countVars
<1>10. CASE UnityConcludeFixtureTest
  <2> UNCHANGED NumberOfTests /\ Running /\ pc' = "next"
    BY <1>10 DEF UnityConcludeFixtureTest
  <2>1. CASE red
    <3>1. \/ TestFailures' = TestFailures + 1 /\ TestIgnores' = TestIgnores
          \/ TestFailures' = TestFailures /\ TestIgnores' = TestIgnores + 1
      BY <1>10, <2>1 DEF UnityConcludeFixtureTest, FlagsAgree, Decided
    <3>2. redTests' = redTests + 1
      BY <1>10, <2>1 DEF UnityConcludeFixtureTest
    <3> QED BY <3>1, <3>2
  <2>2. CASE ~ red
    <3>1. ~ CurrentTestFailed /\ ~ CurrentTestIgnored
      BY <2>2, Zenon DEF FlagsAgree, Decided
    <3>2. TestFailures' = TestFailures + 0 /\ TestIgnores' = TestIgnores
      BY <1>10, <3>1 DEF UnityConcludeFixtureTest
    <3>3. redTests' = redTests + 0
      BY <1>10, <2>2 DEF UnityConcludeFixtureTest
    <3> QED BY <3>2, <3>3
  <2> QED BY <2>1, <2>2
<1>11. CASE TestCode
  BY <1>11, TestCodeControl DEF InTest, countVars
<1> QED
  BY <1>1, <1>2, <1>3, <1>4, <1>5, <1>6, <1>7, <1>8, <1>9, <1>10, <1>11
     DEF Next, Runner

LEMMA CountAlways == Spec => []CountInvariant
BY CountInit, CountStep, PTL DEF Spec

\* Whatever fails in setup, body and teardown, UnityConcludeFixtureTest and
\* UnityIgnoreTest count each test that is not green once.
THEOREM UnityEveryTestCountedOnce == Spec => []EveryTestCountedOnce
<1>1. CountInvariant => EveryTestCountedOnce
  BY DEF CountInvariant, CountsAgree, FlagsAgree, EveryTestCountedOnce
<1> QED BY <1>1, CountAlways, PTL

-----------------------------------------------------------------------------
(* The pointers.                                                           *)

PointerPair == [pointer: Pointers, old_value: Values \cup {Original}]

\* Entry i is the first one for its pointer.
FirstSet(i) ==
  \A j \in 1 .. i - 1 : pointer_store[j].pointer # pointer_store[i].pointer

PointerInvariant ==
  /\ pointer_store \in Seq(PointerPair)
  /\ Len(pointer_store) <= UNITY_MAX_POINTERS
  /\ mem \in [Pointers -> Values \cup {Original}]
  /\ \A p \in Pointers :
       (\A i \in 1 .. Len(pointer_store) : pointer_store[i].pointer # p)
         => mem[p] = Original
  /\ \A i \in 1 .. Len(pointer_store) :
       FirstSet(i) => pointer_store[i].old_value = Original
  /\ ~ Running => pointer_store = <<>>

LEMMA PointerInit == Init => PointerInvariant
BY UnityRunnerAssumption DEF Init, PointerInvariant, PointerPair, FirstSet, Running

\* UT_PTR_SET keeps the value that the pointer has now.
LEMMA SetKeepsFirst ==
  ASSUME PointerInvariant, Running, Running',
         NEW p \in Pointers, NEW v \in Values,
         Len(pointer_store) < UNITY_MAX_POINTERS,
         pointer_store' = Append(pointer_store, [pointer |-> p, old_value |-> mem[p]]),
         mem' = [mem EXCEPT ![p] = v]
  PROVE  PointerInvariant'
<1> DEFINE pair == [pointer |-> p, old_value |-> mem[p]]
<1> USE DEF PointerInvariant
<1>1. pair \in PointerPair
  BY DEF PointerPair
<1>2. /\ Len(pointer_store') = Len(pointer_store) + 1
      /\ pointer_store'[Len(pointer_store) + 1] = pair
      /\ \A i \in 1 .. Len(pointer_store) : pointer_store'[i] = pointer_store[i]
      /\ pointer_store' \in Seq(PointerPair)
  BY <1>1
<1>3. /\ mem' \in [Pointers -> Values \cup {Original}]
      /\ \A q \in Pointers \ {p} : mem'[q] = mem[q]
  OBVIOUS
<1>4. ASSUME NEW q \in Pointers,
             \A i \in 1 .. Len(pointer_store') : pointer_store'[i].pointer # q
      PROVE  mem'[q] = Original
  <2>1. q # p
    BY <1>2, <1>4
  <2>2. \A i \in 1 .. Len(pointer_store) : pointer_store[i].pointer # q
    BY <1>2, <1>4
  <2> QED BY <2>1, <2>2, <1>3
<1>5. ASSUME NEW i \in 1 .. Len(pointer_store'), FirstSet(i)'
      PROVE  pointer_store'[i].old_value = Original
  <2>1. CASE i \in 1 .. Len(pointer_store)
    <3>1. FirstSet(i)
      BY <1>2, <1>5, <2>1 DEF FirstSet
    <3> QED BY <3>1, <2>1, <1>2
  <2>2. CASE i = Len(pointer_store) + 1
    <3>1. \A j \in 1 .. Len(pointer_store) : pointer_store[j].pointer # p
      BY <1>2, <1>5, <2>2 DEF FirstSet
    <3> QED BY <3>1, <2>2, <1>2
  <2> QED BY <2>1, <2>2, <1>2
<1> QED BY <1>2, <1>3, <1>4, <1>5, UnityRunnerAssumption

\* Undoing the last entry: if it is the first one for its pointer, the value
\* put back is the original one, else an earlier entry remains.
LEMMA UndoKeepsFirst == PointerInvariant /\ UndoPointer => PointerInvariant'
<1> SUFFICES ASSUME PointerInvariant, UndoPointer PROVE PointerInvariant'
  OBVIOUS
<1> USE DEF PointerInvariant
<1> DEFINE n == Len(pointer_store)
           last == pointer_store[n]
<1>1. /\ n \in Nat /\ n > 0
      /\ last \in PointerPair
      /\ mem' = [mem EXCEPT ![last.pointer] = last.old_value]
      /\ pointer_store' = SubSeq(pointer_store, 1, n - 1)
      /\ Running'
  BY DEF UndoPointer, Running
<1>2. /\ Len(pointer_store') = n - 1
      /\ \A i \in 1 .. n - 1 : pointer_store'[i] = pointer_store[i]
      /\ pointer_store' \in Seq(PointerPair)
  <2>1. n - 1 \in Nat /\ 1 .. n - 1 \subseteq 1 .. n
    BY <1>1
  <2>2. pointer_store' = [i \in 1 .. n - 1 |-> pointer_store[i]]
    BY <1>1, <2>1
  <2>3. \A i \in 1 .. n - 1 : pointer_store[i] \in PointerPair
    BY <2>1
  <2> QED BY <2>1, <2>2, <2>3
<1>3. last.pointer \in Pointers /\ last.old_value \in Values \cup {Original}
  BY <1>1 DEF PointerPair
<1>4. /\ mem' \in [Pointers -> Values \cup {Original}]
      /\ mem'[last.pointer] = last.old_value
      /\ \A q \in Pointers \ {last.pointer} : mem'[q] = mem[q]
  BY <1>1, <1>3
<1>5. ASSUME NEW q \in Pointers,
             \A i \in 1 .. Len(pointer_store') : pointer_store'[i].pointer # q
      PROVE  mem'[q] = Original
  <2>1. \A i \in 1 .. n - 1 : pointer_store[i].pointer # q
    BY <1>1, <1>2, <1>5
  <2>2. CASE q = last.pointer
    <3>1. FirstSet(n)
      BY <2>1, <2>2 DEF FirstSet
    <3> QED BY <3>1, <1>1, <1>4, <2>2
  <2>3. CASE q # last.pointer
    BY <2>1, <2>3, <1>1, <1>4
  <2> QED BY <2>2, <2>3
<1>6. ASSUME NEW i \in 1 .. Len(pointer_store'), FirstSet(i)'
      PROVE  pointer_store'[i].old_value = Original
  <2>1. i \in 1 .. n /\ FirstSet(i)
    BY <1>1, <1>2, <1>6 DEF FirstSet
  <2> QED BY <2>1, <1>1, <1>2
<1> QED BY <1>1, <1>2, <1>4, <1>5, <1>6, UnityRunnerAssumption

LEMMA PointerStep == PointerInvariant /\ [Next]_vars => PointerInvariant'
<1> SUFFICES ASSUME PointerInvariant, [Next]_vars PROVE PointerInvariant'
  OBVIOUS
<1>1. ASSUME UNCHANGED pointerVars, Running' \/ ~ Running \/ pointer_store = <<>>
      PROVE  PointerInvariant'
  BY <1>1 DEF PointerInvariant, pointerVars, FirstSet
<1>2. CASE UNCHANGED vars
  BY <1>1, <1>2 DEF vars, Running
<1>3. CASE ParseOption \/ OptionsParsed \/ UnityBegin \/ SkipTest
           \/ UnityIgnoreTest \/ UnityEnd \/ UnityConcludeFixtureTest
  BY <1>1, <1>3 DEF ParseOption, Repeat, OptionsParsed, UnityBegin, SkipTest,
       UnityIgnoreTest, UnityEnd, UnityConcludeFixtureTest, Running
<1>4. CASE StartTest
  BY <1>4 DEF StartTest, PointerInvariant, Running, FirstSet
<1>5. CASE UndoPointer
  BY <1>5, UndoKeepsFirst
<1>6. CASE TestCode
  <2>1. InTest /\ Running
    BY <1>6, TestCodeControl DEF InTest, Running
  <2>2. Running'
    BY <1>6, <2>1, TestCodeControl
       DEF Fail, UnityIgnore, PassingAssertion, Continue, Return, Abort, Running, InTest
  <2>3. CASE UNCHANGED pointerVars
    BY <1>1, <2>2, <2>3
  <2>4. ASSUME NEW p \in Pointers, NEW v \in Values, UnityPointer_Set(p, v)
        PROVE  PointerInvariant'
    <3>1. CASE Len(pointer_store) >= UNITY_MAX_POINTERS
      BY <2>3, <2>4, <3>1 DEF UnityPointer_Set
    <3>2. CASE Len(pointer_store) < UNITY_MAX_POINTERS
      <4>1. ~ (Len(pointer_store) >= UNITY_MAX_POINTERS)
        BY <3>2, UnityRunnerAssumption DEF PointerInvariant
      <4>2. /\ pointer_store' = Append(pointer_store, [pointer |-> p, old_value |-> mem[p]])
            /\ mem' = [mem EXCEPT ![p] = v]
        BY <2>4, <4>1 DEF UnityPointer_Set
      <4> QED BY <2>1, <2>2, <3>2, <4>2, SetKeepsFirst
    <3> QED BY <3>1, <3>2, UnityRunnerAssumption DEF PointerInvariant
  <2> QED BY <1>6, <2>3, <2>4 DEF TestCode, ControlCall, PointerCall, MemoryCall
<1> QED BY <1>2, <1>3, <1>4, <1>5, <1>6 DEF Next, Runner

\* However a test is left, UnityPointer_UndoAllSets puts every pointer back,
\* also one that was set several times.
THEOREM UnityPointersRestored == Spec => []PointersRestored
<1>1. PointerInvariant => PointersRestored
  BY DEF PointerInvariant, PointersRestored, Running, InTest
<1> QED BY <1>1, PointerInit, PointerStep, PTL DEF Spec

-----------------------------------------------------------------------------
(* The memory.                                                             *)

Block == [size: Nat, intact: BOOLEAN]

MemoryInvariant ==
  /\ blocks \in [Blocks -> Block]
  /\ base \in Nat
  /\ malloc_count = Cardinality(Live) - base

LEMMA LiveIsFinite == IsFiniteSet(Live) /\ Cardinality(Live) \in Nat
<1> Live \subseteq Blocks
  BY DEF Live
<1> QED BY FS_Subset, FS_CardinalityType, UnityMemoryAssumption

LEMMA MemoryInitial == Init => MemoryInvariant
<1> SUFFICES ASSUME Init PROVE MemoryInvariant
  OBVIOUS
<1>1. blocks \in [Blocks -> Block] /\ base = 0 /\ malloc_count = 0
  BY DEF Init, MemoryInit, Block, Free
<1>2. Live = {}
  BY DEF Init, MemoryInit, Live, Free
<1> QED BY <1>1, <1>2, FS_EmptySet DEF MemoryInvariant

\* A block becomes live: unity_malloc.
LEMMA MemoryTaken ==
  ASSUME MemoryInvariant, UNCHANGED base, NEW b \in Blocks \ Live, NEW n \in Nat, n > 0,
         blocks' = [blocks EXCEPT ![b] = [size |-> n, intact |-> TRUE]],
         malloc_count' = malloc_count + 1
  PROVE  MemoryInvariant'
<1>1. blocks' \in [Blocks -> Block]
  BY DEF MemoryInvariant, Block
<1>2. Live' = Live \cup {b}
  BY DEF MemoryInvariant, Live, Block
<1>3. Cardinality(Live') = Cardinality(Live) + 1
  BY <1>2, LiveIsFinite, FS_AddElement
<1> QED BY <1>1, <1>3, LiveIsFinite DEF MemoryInvariant

\* A block is given back: release_memory.
LEMMA MemoryReleased ==
  ASSUME MemoryInvariant, NEW b \in Live, release_memory(b)
  PROVE  MemoryInvariant'
<1>1. blocks' \in [Blocks -> Block] /\ UNCHANGED base
  BY DEF MemoryInvariant, Block, Free, release_memory, Live
<1>2. Live' = Live \ {b}
  BY DEF MemoryInvariant, Live, Block, Free, release_memory
<1>3. Cardinality(Live') = Cardinality(Live) - 1
  BY <1>2, LiveIsFinite, FS_RemoveElement
<1> QED BY <1>1, <1>3, LiveIsFinite DEF MemoryInvariant, release_memory

\* unity_realloc moves a block: one more, one less.
LEMMA MemoryMoved ==
  ASSUME MemoryInvariant, UNCHANGED <<base, malloc_count>>, NEW b \in Live,
         NEW new \in Blocks \ Live, NEW n \in Nat, n > 0,
         blocks' = [blocks EXCEPT ![new] = [size |-> n, intact |-> TRUE], ![b] = Free]
  PROVE  MemoryInvariant'
<1>1. blocks' \in [Blocks -> Block]
  BY DEF MemoryInvariant, Block, Free
<1>2. Live' = (Live \cup {new}) \ {b}
  BY DEF MemoryInvariant, Live, Block, Free
<1>3. /\ IsFiniteSet(Live \cup {new})
      /\ Cardinality(Live \cup {new}) = Cardinality(Live) + 1
  BY LiveIsFinite, FS_AddElement
<1>4. Cardinality((Live \cup {new}) \ {b}) = Cardinality(Live \cup {new}) - 1
  BY <1>3, FS_RemoveElement
<1>5. Cardinality(Live') = Cardinality(Live)
  BY <1>2, <1>3, <1>4, LiveIsFinite
<1>6. base' = base /\ malloc_count' = malloc_count
  OBVIOUS
<1> QED BY <1>1, <1>5, <1>6 DEF MemoryInvariant

LEMMA MemoryReallocated ==
  ASSUME MemoryInvariant, NEW b \in Live, NEW n \in BlockSizes, unity_realloc(b, n)
  PROVE  MemoryInvariant'
<1>1. n \in Nat
  BY UnityMemoryAssumption
<1>2. CASE UNCHANGED <<blocks, malloc_count, base>>
  BY <1>2 DEF MemoryInvariant, Live
<1>3. CASE release_memory(b)
  BY <1>3, MemoryReleased
<1>4. ASSUME NEW new \in Blocks, Available(new, n),
             blocks' = [blocks EXCEPT ![new] = [size |-> n, intact |-> TRUE], ![b] = Free],
             UNCHANGED <<malloc_count, base>>
      PROVE  MemoryInvariant'
  BY <1>1, <1>4, MemoryMoved DEF Available
<1> QED BY <1>2, <1>3, <1>4 DEF unity_realloc, MallocFails, memoryVars

LEMMA MemoryStep == MemoryInvariant /\ [Next]_vars => MemoryInvariant'
<1> SUFFICES ASSUME MemoryInvariant, [Next]_vars PROVE MemoryInvariant'
  OBVIOUS
<1>1. CASE UNCHANGED <<blocks, malloc_count, base>>
  BY <1>1 DEF MemoryInvariant, Live
<1>2. CASE UNCHANGED vars \/ Runner
  <2> UNCHANGED memoryVars
    BY <1>2 DEF vars, Runner, ParseOption, OptionsParsed, UnityBegin, SkipTest,
         UnityIgnoreTest, StartTest, UnityEnd, UndoPointer, UnityConcludeFixtureTest
  <2> QED BY <1>1 DEF memoryVars
<1>3. CASE TestCode
  <2>1. CASE ControlCall \/ PointerCall
    BY <1>1, <2>1 DEF ControlCall, PointerCall, memoryVars
  <2>2. CASE UnityMalloc_StartTest
    <3>1. malloc_count' = 0 /\ base' = Cardinality(Live) /\ Live' = Live
      BY <2>2 DEF UnityMalloc_StartTest, Live
    <3> QED BY <2>2, <3>1, LiveIsFinite DEF MemoryInvariant, UnityMalloc_StartTest
  <2>3. CASE UnityMalloc_EndTest \/ \E n \in 0 .. MaxFailAfter :
                                      UnityMalloc_MakeMallocFailAfterCount(n)
    BY <1>1, <2>3 DEF UnityMalloc_EndTest, UnityMalloc_MakeMallocFailAfterCount
  <2>4. ASSUME NEW n \in BlockSizes, unity_malloc(n)
        PROVE  MemoryInvariant'
    <3>1. CASE MallocFails(n)
      BY <1>1, <3>1 DEF MallocFails
    <3>2. ASSUME NEW b \in Blocks, Available(b, n),
                 blocks' = [blocks EXCEPT ![b] = [size |-> n, intact |-> TRUE]],
                 malloc_count' = malloc_count + 1,
                 UNCHANGED base
          PROVE  MemoryInvariant'
      BY <3>2, MemoryTaken, UnityMemoryAssumption DEF Available
    <3> QED BY <2>4, <3>1, <3>2 DEF unity_malloc
  <2>5. ASSUME NEW b \in Live, unity_free(b)
        PROVE  MemoryInvariant'
    BY <2>5, MemoryReleased DEF unity_free
  <2>6. ASSUME NEW b \in Live, NEW n \in BlockSizes, Reallocate(b, n)
        PROVE  MemoryInvariant'
    BY <2>6, MemoryReleased, MemoryReallocated DEF Reallocate
  <2>7. ASSUME NEW b \in Live, Overrun(b)
        PROVE  MemoryInvariant'
    <3>1. /\ blocks' \in [Blocks -> Block]
          /\ \A c \in Blocks : blocks'[c].size = blocks[c].size
      BY <2>7 DEF Overrun, MemoryInvariant, Block
    <3>2. Live' = Live
      BY <3>1 DEF Live
    <3> QED BY <2>7, <3>1, <3>2 DEF Overrun, MemoryInvariant
  <2> QED BY <1>3, <2>1, <2>2, <2>3, <2>4, <2>5, <2>6, <2>7 DEF TestCode, MemoryCall
<1> QED BY <1>2, <1>3 DEF Next

LEMMA MemoryAlways == Spec => []MemoryInvariant
BY MemoryInitial, MemoryStep, PTL DEF Spec

\* malloc_count counts the live blocks, so that UnityMalloc_EndTest reports a
\* leak exactly when the test has left more, or fewer, than it found.
THEOREM UnityMallocCountExact == Spec => []MallocCountExact
<1>1. MemoryInvariant => MallocCountExact
  BY DEF MemoryInvariant, MallocCountExact
<1> QED BY <1>1, MemoryAlways, PTL

\* unity_free and unity_realloc of a block whose bounds were overwritten end
\* in UNITY_TEST_FAIL, and no other call takes a block away.
THEOREM UnityOverrunNeverSilent == Spec => OverrunNeverSilent
<1>1. ASSUME CountInvariant, MemoryInvariant, [Next]_vars,
             NEW b \in Live, ~ blocks[b].intact, b \notin Live'
      PROVE  CurrentTestFailed' \/ CurrentTestIgnored'
  <2>1. CASE Fail
    BY <2>1, Zenon DEF Fail, Decided
  <2>2. CASE UNCHANGED blocks
    BY <2>2, <1>1 DEF Live
  <2>3. CASE UNCHANGED vars \/ Runner
    <3> UNCHANGED blocks
      BY <2>3 DEF vars, memoryVars, Runner, ParseOption, OptionsParsed, UnityBegin,
           SkipTest, UnityIgnoreTest, StartTest, UnityEnd, UndoPointer,
           UnityConcludeFixtureTest
    <3> QED BY <2>2
  <2>4. CASE TestCode
    <3>1. CASE ControlCall \/ PointerCall
      BY <3>1, <2>2 DEF ControlCall, PointerCall, memoryVars
    <3>2. CASE UnityMalloc_StartTest \/ UnityMalloc_EndTest
               \/ \E n \in 0 .. MaxFailAfter : UnityMalloc_MakeMallocFailAfterCount(n)
      BY <3>2, <2>2 DEF UnityMalloc_StartTest, UnityMalloc_EndTest,
           UnityMalloc_MakeMallocFailAfterCount
    <3>3. ASSUME NEW n \in BlockSizes, unity_malloc(n)
          PROVE  UNCHANGED blocks \/ b \in Live'
      <4>1. CASE MallocFails(n)
        BY <4>1 DEF MallocFails
      <4>2. ASSUME NEW c \in Blocks, Available(c, n),
                   blocks' = [blocks EXCEPT ![c] = [size |-> n, intact |-> TRUE]]
            PROVE  b \in Live'
        <5>1. c # b /\ b \in Blocks /\ blocks[b].size > 0
          BY <4>2 DEF Available, Live
        <5>2. blocks'[b] = blocks[b]
          BY <4>2, <5>1, <1>1 DEF MemoryInvariant
        <5> QED BY <5>1, <5>2 DEF Live
      <4> QED BY <3>3, <4>1, <4>2 DEF unity_malloc
    <3>4. ASSUME NEW c \in Live, unity_free(c)
          PROVE  Fail \/ b \in Live'
      BY <3>4, <1>1 DEF unity_free, isOverrun, release_memory, Live, MemoryInvariant, Block
    <3>5. ASSUME NEW c \in Live, NEW n \in BlockSizes, Reallocate(c, n)
          PROVE  Fail \/ b \in Live'
      <4>1. CASE c = b
        BY <3>5, <4>1, <1>1 DEF Reallocate, isOverrun
      <4>2. CASE c # b
        BY <3>5, <4>2, <1>1, UnityMemoryAssumption
           DEF Reallocate, release_memory, unity_realloc, MallocFails, Available,
               memoryVars, Live, MemoryInvariant, Block
      <4> QED BY <4>1, <4>2
    <3>6. ASSUME NEW c \in Live, Overrun(c)
          PROVE  b \in Live'
      BY <3>6 DEF Overrun, Live, MemoryInvariant, Block
    <3> QED BY <2>4, <2>1, <2>2, <1>1, <3>1, <3>2, <3>3, <3>4, <3>5, <3>6
            DEF TestCode, MemoryCall
  <2> QED BY <1>1, <2>3, <2>4 DEF Next
<1>2. CountInvariant /\ MemoryInvariant /\ [Next]_vars
        => [\A b \in Live : ~ blocks[b].intact /\ b \notin Live' =>
              CurrentTestFailed' \/ CurrentTestIgnored']_vars
  BY <1>1
<1> QED BY <1>2, CountAlways, MemoryAlways, PTL DEF Spec, OverrunNeverSilent

-----------------------------------------------------------------------------
(* Types.                                                                  *)

Fixture == [DryRun: BOOLEAN, RepeatCount: Nat, NameFilter: Filters,
            Name: Filters, GroupFilter: Filters, Group: Filters]

ControlTypes ==
  /\ argv \in Argvs
  /\ argi \in Nat /\ argi > 0
  /\ fixture \in Fixture
  /\ pc \in {"parse", "usage", "begin", "next", "setup", "body", "teardown",
             "undo", "exit"}
  /\ run \in Nat
  /\ next \in 1 .. Len(Tests) + 1

HeapTypes ==
  /\ blocks \in [Blocks -> [size: BlockSizes \cup {0}, intact: BOOLEAN]]
  /\ malloc_fail_countdown \in Int

LEMMA TypesInit == Init => ControlTypes /\ HeapTypes
<1> SUFFICES ASSUME Init PROVE ControlTypes /\ HeapTypes
  OBVIOUS
<1>1. fixture \in Fixture
  <2>1. NoFilter \in Filters
    BY DEF Filters
  <2> QED BY <2>1 DEF Init, Defaults, Fixture
<1>2. HeapTypes
  BY DEF Init, MemoryInit, HeapTypes, Free, MALLOC_DONT_FAIL
<1>3. Len(Tests) \in Nat
  BY UnityRunnerAssumption
<1> QED BY <1>1, <1>2, <1>3, UnityRunnerAssumption DEF Init, ControlTypes

LEMMA ParseKeepsTypes ==
  ASSUME ControlTypes, ParseOption
  PROVE  fixture' \in Fixture /\ argi' \in Nat /\ argi' > 0 /\ pc' \in {"parse", "usage"}
<1> DEFINE a == argv[argi]
<1> USE DEF ControlTypes
<1>1. argi \in 1 .. Len(argv) /\ argv \in Seq(STRING) /\ pc = "parse"
  BY UnityRunnerAssumption DEF ParseOption
<1>2. CASE a = "-r"
  <2>1. fixture' \in Fixture
    <3> DEFINE count == IF argi < Len(argv) /\ argv[argi + 1] \in DOMAIN NumberOf
                        THEN NumberOf[argv[argi + 1]] ELSE 2
    <3>1. count \in Nat
      BY UnityRunnerAssumption
    <3>2. fixture' = [fixture EXCEPT !.RepeatCount = count]
      BY <1>2 DEF ParseOption, Repeat, Field
    <3> HIDE DEF count
    <3> QED BY <3>1, <3>2 DEF Fixture
  <2>2. argi' \in {argi + 1, argi + 2} /\ pc' = pc
    BY <1>2 DEF ParseOption, Repeat, Field
  <2> QED BY <1>1, <2>1, <2>2
<1>3. CASE a \in DOMAIN Field /\ argi # Len(argv)
  <2>1. a \in {"-g", "-G", "-n", "-N"} /\ argv[argi + 1] \in Filters
    <3>1. argi + 1 \in 1 .. Len(argv)
      BY <1>1, <1>3
    <3> QED BY <1>3, <3>1 DEF Field, Filters
  <2>2. /\ fixture' = [fixture EXCEPT ![Field[a]] = argv[argi + 1]]
        /\ argi' = argi + 2 /\ pc' = pc
    BY <1>3, <2>1 DEF ParseOption
  <2> DEFINE arg == argv[argi + 1]
  <2>3. \/ fixture' = [fixture EXCEPT !.GroupFilter = arg]
        \/ fixture' = [fixture EXCEPT !.Group = arg]
        \/ fixture' = [fixture EXCEPT !.NameFilter = arg]
        \/ fixture' = [fixture EXCEPT !.Name = arg]
    BY <2>1, <2>2 DEF Field
  <2> HIDE DEF arg
  <2>4. arg \in Filters
    BY <2>1 DEF arg
  <2>5. fixture' \in Fixture
    BY <2>3, <2>4 DEF Fixture
  <2> QED BY <1>1, <2>2, <2>5
<1>4. CASE a # "-r" /\ ~ (a \in DOMAIN Field /\ argi # Len(argv))
  <2>1. \/ UNCHANGED fixture
        \/ fixture' = [fixture EXCEPT !.DryRun = TRUE]
    BY <1>4 DEF ParseOption
  <2>2. argi' \in {argi, argi + 1} /\ pc' \in {pc, "usage"}
    BY <1>4 DEF ParseOption
  <2>3. fixture' \in Fixture
    BY <2>1 DEF Fixture
  <2> QED BY <1>1, <2>2, <2>3
<1> QED BY <1>2, <1>3, <1>4

LEMMA ControlStep == ControlTypes /\ [Next]_vars => ControlTypes'
<1> SUFFICES ASSUME ControlTypes, [Next]_vars PROVE ControlTypes'
  OBVIOUS
<1> Len(Tests) \in Nat
  BY UnityRunnerAssumption
<1> USE DEF ControlTypes
<1>1. CASE UNCHANGED vars
  BY <1>1 DEF vars, optionVars
<1>2. CASE ParseOption
  <2> UNCHANGED <<argv, run, next>>
    BY <1>2 DEF ParseOption
  <2> QED BY <1>2, ParseKeepsTypes
<1>3. CASE OptionsParsed \/ UnityBegin \/ SkipTest \/ UnityIgnoreTest \/ StartTest
           \/ UnityEnd \/ UndoPointer \/ UnityConcludeFixtureTest
  <2>1. UNCHANGED optionVars
    BY <1>3 DEF OptionsParsed, UnityBegin, SkipTest, UnityIgnoreTest, StartTest,
         UnityEnd, UndoPointer, UnityConcludeFixtureTest
  <2>2. run' \in Nat /\ next' \in 1 .. Len(Tests) + 1
    BY <1>3 DEF OptionsParsed, UnityBegin, SkipTest, UnityIgnoreTest, StartTest,
         UnityEnd, UndoPointer, UnityConcludeFixtureTest
  <2>3. pc' \in {"begin", "next", "undo", "setup", "exit"} \/ pc' = pc
    BY <1>3 DEF OptionsParsed, UnityBegin, SkipTest, UnityIgnoreTest, StartTest,
         UnityEnd, UndoPointer, UnityConcludeFixtureTest
  <2> QED BY <2>1, <2>2, <2>3 DEF optionVars
<1>4. CASE TestCode
  <2>1. UNCHANGED <<optionVars, run, next>>
    BY <1>4 DEF TestCode
  <2>2. pc' \in {"body", "teardown", "undo"} \/ pc' = pc
    BY <1>4, TestCodeControl
       DEF Fail, UnityIgnore, PassingAssertion, Continue, Return, Abort, InTest
  <2> QED BY <2>1, <2>2 DEF optionVars
<1> QED BY <1>1, <1>2, <1>3, <1>4 DEF Next, Runner

LEMMA CountDownTypes ==
  HeapTypes /\ CountDown => malloc_fail_countdown' \in Int
BY DEF HeapTypes, CountDown

LEMMA BlockTypes ==
  /\ Free \in [size: BlockSizes \cup {0}, intact: BOOLEAN]
  /\ \A n \in BlockSizes :
       [size |-> n, intact |-> TRUE] \in [size: BlockSizes \cup {0}, intact: BOOLEAN]
BY DEF Free

LEMMA HeapStep == HeapTypes /\ [Next]_vars => HeapTypes'
<1> SUFFICES ASSUME HeapTypes, [Next]_vars PROVE HeapTypes'
  OBVIOUS
<1> USE DEF HeapTypes
<1>1. CASE UNCHANGED vars \/ Runner
  <2> UNCHANGED memoryVars
    BY <1>1 DEF vars, Runner, ParseOption, OptionsParsed, UnityBegin, SkipTest,
         UnityIgnoreTest, StartTest, UnityEnd, UndoPointer, UnityConcludeFixtureTest
  <2> QED BY DEF memoryVars
<1>2. CASE TestCode
  <2>1. CASE ControlCall \/ PointerCall
    BY <2>1 DEF ControlCall, PointerCall, memoryVars
  <2>2. CASE UnityMalloc_StartTest \/ UnityMalloc_EndTest
             \/ \E n \in 0 .. MaxFailAfter : UnityMalloc_MakeMallocFailAfterCount(n)
    BY <2>2, UnityMemoryAssumption
       DEF UnityMalloc_StartTest, UnityMalloc_EndTest,
           UnityMalloc_MakeMallocFailAfterCount, MALLOC_DONT_FAIL
  <2>3. ASSUME NEW n \in BlockSizes, unity_malloc(n)
        PROVE  HeapTypes'
    <3>1. CountDown
      BY <2>3 DEF unity_malloc, MallocFails
    <3> QED BY <2>3, <3>1, CountDownTypes, BlockTypes DEF unity_malloc, MallocFails
  <2>4. ASSUME NEW b \in Live, release_memory(b)
        PROVE  HeapTypes'
    BY <2>4 DEF release_memory, Free
  <2>5. ASSUME NEW b \in Live, NEW n \in BlockSizes, unity_realloc(b, n)
        PROVE  HeapTypes'
    <3>1. CASE MallocFails(n)
      BY <3>1, CountDownTypes DEF MallocFails
    <3>2. CASE CountDown /\ \E new \in Blocks :
                 blocks' = [blocks EXCEPT ![new] = [size |-> n, intact |-> TRUE],
                                          ![b] = Free]
      BY <3>2, CountDownTypes, BlockTypes
    <3> QED BY <2>5, <3>1, <3>2, <2>4 DEF unity_realloc, memoryVars
  <2>6. ASSUME NEW b \in Live, Overrun(b)
        PROVE  HeapTypes'
    BY <2>6 DEF Overrun
  <2> QED BY <1>2, <2>1, <2>2, <2>3, <2>4, <2>5, <2>6
          DEF TestCode, MemoryCall, unity_free, Reallocate
<1> QED BY <1>1, <1>2 DEF Next

\* The types of all variables, for every command line and every test: in
\* particular no more pointers are kept than pointer_store has room for.
THEOREM UnityTypeCorrect == Spec => []TypeOK
<1>1. ControlTypes /\ HeapTypes /\ CountInvariant /\ PointerInvariant /\ MemoryInvariant
        => TypeOK
  <2> SUFFICES ASSUME ControlTypes, HeapTypes, CountInvariant, PointerInvariant,
                      MemoryInvariant
               PROVE  TypeOK
    OBVIOUS
  <2>1. malloc_count \in Int
    BY LiveIsFinite DEF MemoryInvariant
  <2> QED BY <2>1 DEF TypeOK, ControlTypes, HeapTypes, CountInvariant, CountsAgree,
                      FlagsAgree, PointerInvariant, Fixture
<1> QED BY <1>1, TypesInit, ControlStep, HeapStep, CountAlways, PointerInit,
           PointerStep, MemoryAlways, PTL DEF Spec

-----------------------------------------------------------------------------
(* The command line.                                                       *)

\* The option before argument k takes it, if it is one.
TakesNext(k) ==
  \/ argv[k - 1] \in DOMAIN Field
  \/ argv[k - 1] = "-r" /\ argv[k] \in DOMAIN NumberOf

\* A function in which every place but the first follows from the one before,
\* unless that one takes it, exists.
LEMMA PlacesExist ==
  ASSUME NEW n \in Nat, NEW takes \in [1 .. n -> BOOLEAN]
  PROVE  \E f \in [0 .. n -> BOOLEAN] :
           \A k \in 0 .. n : f[k] = (k <= 1 \/ ~ (f[k - 1] /\ takes[k]))
<1> DEFINE V == BOOLEAN
           first == TRUE
           step == [k \in 1 .. n |-> [b \in V |-> k <= 1 \/ ~ (b /\ takes[k])]]
<1>1. first \in V /\ step \in Steps(n, V)
  BY DEF Steps
<1>2. ASSUME NEW k \in 1 .. n, NEW b \in V
      PROVE  step[k][b] = (k <= 1 \/ ~ (b /\ takes[k]))
  BY Zenon
<1> HIDE DEF V, first, step
<1>3. PICK f : IsRecursion(f, first, step, n, V)
  BY <1>1, RecursionExists
<1> USE DEF IsRecursion
<1>4. ASSUME NEW k \in 0 .. n
      PROVE  f[k] = (k <= 1 \/ ~ (f[k - 1] /\ takes[k]))
  <2>1. CASE k = 0
    <3>1. f[k] = TRUE
      BY <1>3, <2>1 DEF first
    <3>2. k <= 1
      BY <2>1
    <3> QED BY <3>1, <3>2, Zenon
  <2>2. CASE k \in 1 .. n
    <3>1. f[k - 1] \in V
      BY <1>3, <2>2
    <3>2. f[k] = step[k][f[k - 1]]
      BY <1>3, <2>2
    <3> QED BY <1>2, <2>2, <3>1, <3>2
  <2> QED BY <2>1, <2>2
<1> QED BY <1>3, <1>4 DEF V

\* The recursion in IsOption defines a function.
LEMMA IsOptionRecursion ==
  ASSUME argv \in Seq(STRING)
  PROVE  IsOption = [k \in 0 .. Len(argv) |->
                       k <= 1 \/ ~ (IsOption[k - 1] /\ TakesNext(k))]
<1> DEFINE Solves(f) == f = [k \in 0 .. Len(argv) |->
                               k <= 1 \/ ~ (f[k - 1] /\ TakesNext(k))]
           takes == [k \in 1 .. Len(argv) |-> TakesNext(k)]
           n == Len(argv)
<1>1. n \in Nat /\ takes \in [1 .. n -> BOOLEAN]
  BY DEF TakesNext
<1>2. \A k \in 1 .. n : takes[k] = TakesNext(k)
  OBVIOUS
<1> HIDE DEF takes, n
<1>3. PICK f \in [0 .. n -> BOOLEAN] :
        \A k \in 0 .. n : f[k] = (k <= 1 \/ ~ (f[k - 1] /\ takes[k]))
  BY <1>1, PlacesExist
<1>4. \A k \in 0 .. n : f[k] = (k <= 1 \/ ~ (f[k - 1] /\ TakesNext(k)))
  BY <1>1, <1>2, <1>3
<1>5. Solves(f)
  BY <1>3, <1>4 DEF n
<1>6. IsOption = CHOOSE g : Solves(g)
  BY DEF IsOption, TakesNext
<1> HIDE DEF Solves
<1>7. Solves(IsOption)
  BY <1>5, <1>6
<1> QED BY <1>7 DEF Solves

\* The first argument is an option; a later one is unless the option before
\* takes it.
LEMMA OptionPlaces ==
  ASSUME argv \in Seq(STRING)
  PROVE  /\ Len(argv) >= 1 => IsOption[1]
         /\ \A k \in 1 .. Len(argv) - 1 :
              IsOption[k] => (IsOption[k + 1] <=> ~ TakesNext(k + 1))
         /\ \A k \in 1 .. Len(argv) - 1 : ~ IsOption[k] => IsOption[k + 1]
<1> DEFINE n == Len(argv)
<1>1. n \in Nat
  OBVIOUS
<1>2. ASSUME NEW k \in 0 .. n
      PROVE  IsOption[k] = (k <= 1 \/ ~ (IsOption[k - 1] /\ TakesNext(k)))
  <2> DEFINE F == [j \in 0 .. n |-> j <= 1 \/ ~ (IsOption[j - 1] /\ TakesNext(j))]
  <2>1. IsOption = F
    BY IsOptionRecursion, Zenon
  <2>2. F[k] = (k <= 1 \/ ~ (IsOption[k - 1] /\ TakesNext(k)))
    BY Zenon
  <2> HIDE DEF F
  <2> QED BY <2>1, <2>2
<1> HIDE DEF n
<1>3. n >= 1 => IsOption[1]
  <2>1. n >= 1 => 1 \in 0 .. n /\ 1 <= 1
    BY <1>1
  <2> QED BY <1>2, <2>1, Zenon
<1>4. ASSUME NEW k \in 1 .. n - 1
      PROVE  /\ IsOption[k] => (IsOption[k + 1] <=> ~ TakesNext(k + 1))
             /\ ~ IsOption[k] => IsOption[k + 1]
  <2>1. k + 1 \in 0 .. n /\ ~ (k + 1 <= 1) /\ k + 1 - 1 = k
    BY <1>1
  <2>2. IsOption[k + 1] = (k + 1 <= 1 \/ ~ (IsOption[k + 1 - 1] /\ TakesNext(k + 1)))
    BY <1>2, <2>1
  <2> QED BY <2>1, <2>2, Zenon
<1> QED BY <1>3, <1>4 DEF n

\* A number of a set that no other exceeds is the latest.
LEMMA LatestIs ==
  ASSUME NEW S, S \subseteq Nat, NEW k \in S, \A j \in S : j <= k
  PROVE  Latest(S) = k
<1>1. \A i \in S : (\A j \in S : j <= i) => i = k
  OBVIOUS
<1> QED BY <1>1 DEF Latest

\* The uses of option a that have been parsed.
UsedSoFar(a) == {k \in Uses(a) : k < argi}

\* The next argument is an option, and none is left when the tests begin.
PlaceInv ==
  /\ argi <= Len(argv) + 1
  /\ argi <= Len(argv) => IsOption[argi]
  /\ pc \notin {"parse", "usage"} => argi > Len(argv)
  /\ pc = "usage" => UsageError

FieldsInv ==
  \A a \in DOMAIN Field :
    /\ Len(argv) \notin UsedSoFar(a)
    /\ fixture[Field[a]] =
         IF UsedSoFar(a) = {} THEN NoFilter ELSE argv[Latest(UsedSoFar(a)) + 1]

SwitchInv ==
  /\ UsedSoFar("-h") = {} /\ UsedSoFar("--help") = {}
  /\ fixture.DryRun = (UsedSoFar("-d") # {})

RepeatSaid(S) ==
  IF S = {} THEN 1
  ELSE LET k == Latest(S)
       IN  IF k < Len(argv) /\ ~ IsOption[k + 1] THEN NumberOf[argv[k + 1]] ELSE 2

RepeatInv == fixture.RepeatCount = RepeatSaid(UsedSoFar("-r"))

\* What has been parsed is in the fixture.
OptionsInv == PlaceInv /\ FieldsInv /\ SwitchInv /\ RepeatInv

LEMMA OptionsInit == Init => OptionsInv
<1> SUFFICES ASSUME Init PROVE OptionsInv
  OBVIOUS
<1>1. argv \in Seq(STRING) /\ argi = 1 /\ pc = "parse" /\ fixture = Defaults
  BY UnityRunnerAssumption DEF Init
<1>2. \A a : UsedSoFar(a) = {}
  BY <1>1 DEF UsedSoFar, Uses
<1>3. PlaceInv
  BY <1>1, OptionPlaces DEF PlaceInv
<1>4. FieldsInv
  BY <1>1, <1>2 DEF FieldsInv, Field, Defaults
<1>5. SwitchInv /\ RepeatInv
  BY <1>1, <1>2 DEF SwitchInv, RepeatInv, RepeatSaid, Defaults
<1> QED BY <1>3, <1>4, <1>5 DEF OptionsInv

\* The command line stays, and so does the way to read it.
LEMMA SameCommandLine ==
  ASSUME UNCHANGED argv
  PROVE  IsOption' = IsOption /\ \A a : Uses(a)' = Uses(a)
<1>1. IsOption' = IsOption
  BY DEF IsOption
<1> QED BY <1>1 DEF Uses

\* With no further use, what the options say stays.
LEMMA SameUses ==
  ASSUME OptionsInv, UNCHANGED <<argv, fixture>>,
         \A a : UsedSoFar(a)' = UsedSoFar(a)
  PROVE  FieldsInv' /\ SwitchInv' /\ RepeatInv'
<1>1. IsOption' = IsOption
  BY SameCommandLine
<1>2. FieldsInv'
  <2>1. \A a : Latest(UsedSoFar(a))' = Latest(UsedSoFar(a))
    BY DEF Latest
  <2>2. FieldsInv
    BY DEF OptionsInv
  <2> QED BY <2>1, <2>2 DEF FieldsInv, Field
<1>3. SwitchInv'
  BY DEF OptionsInv, SwitchInv
<1>4. RepeatInv'
  BY <1>1 DEF OptionsInv, RepeatInv, RepeatSaid, Latest
<1> QED BY <1>2, <1>3, <1>4

LEMMA SameOptions ==
  ASSUME OptionsInv, UNCHANGED optionVars,
         pc' \notin {"parse", "usage"} => argi > Len(argv),
         pc' = "usage" => pc = "usage"
  PROVE  OptionsInv'
<1>1. UNCHANGED <<argv, argi, fixture>> /\ IsOption' = IsOption
      /\ \A a : Uses(a)' = Uses(a)
  BY SameCommandLine DEF optionVars
<1>2. \A a : UsedSoFar(a)' = UsedSoFar(a)
  BY <1>1 DEF UsedSoFar
<1>3. UsageError' = UsageError
  BY <1>1 DEF UsageError, Field
<1>4. PlaceInv'
  BY <1>1, <1>3 DEF OptionsInv, PlaceInv
<1> QED BY <1>1, <1>2, <1>4, SameUses DEF OptionsInv

\* Going on behind the option at argi, and behind what it takes, adds this
\* one use.
LEMMA OneMoreUse ==
  ASSUME argv \in Seq(STRING), UNCHANGED argv, argi \in 1 .. Len(argv),
         IsOption[argi],
         \/ argi' = argi + 1
         \/ argi' = argi + 2 /\ argi < Len(argv) /\ ~ IsOption[argi + 1]
  PROVE  /\ \A b : UsedSoFar(b)' = IF b = argv[argi] THEN UsedSoFar(b) \cup {argi}
                                   ELSE UsedSoFar(b)
         /\ \A b : Latest(UsedSoFar(b) \cup {argi}) = argi
<1>1. \A b : Uses(b)' = Uses(b)
  BY SameCommandLine
<1>2. Len(argv) \in Nat /\ argi \in Nat
  OBVIOUS
<1>3. ASSUME NEW b
      PROVE  UsedSoFar(b)' = IF b = argv[argi] THEN UsedSoFar(b) \cup {argi}
                             ELSE UsedSoFar(b)
  <2>1. UsedSoFar(b)' = {k \in Uses(b) : k < argi'}
    BY <1>1 DEF UsedSoFar
  <2>2. Uses(b) \subseteq 1 .. Len(argv) /\ \A k \in Uses(b) : IsOption[k] /\ argv[k] = b
    BY DEF Uses
  <2>3. argi \in Uses(b) <=> b = argv[argi]
    BY DEF Uses
  <2>4. \A k \in Uses(b) : k < argi' <=> k < argi \/ k = argi
    BY <1>2, <2>2
  <2> QED BY <2>1, <2>3, <2>4 DEF UsedSoFar
<1>4. ASSUME NEW b
      PROVE  Latest(UsedSoFar(b) \cup {argi}) = argi
  <2>1. UsedSoFar(b) \subseteq Nat /\ \A k \in UsedSoFar(b) : k < argi
    BY DEF UsedSoFar, Uses
  <2> DEFINE S == UsedSoFar(b) \cup {argi}
  <2>2. S \subseteq Nat /\ argi \in S /\ \A j \in S : j <= argi
    BY <1>2, <2>1
  <2> HIDE DEF S
  <2>3. Latest(S) = argi
    BY <2>2, LatestIs
  <2> QED BY <2>3 DEF S
<1> QED BY <1>3, <1>4

\* The next place is an option again.
LEMMA NextPlace ==
  ASSUME argv \in Seq(STRING), UNCHANGED argv, argi \in 1 .. Len(argv),
         IsOption[argi],
         \/ argi' = argi + 1 /\ (argi < Len(argv) => ~ TakesNext(argi + 1))
         \/ argi' = argi + 2 /\ argi < Len(argv) /\ TakesNext(argi + 1)
  PROVE  /\ argi' <= Len(argv) + 1
         /\ argi' <= Len(argv) => IsOption[argi']
         /\ argi' = argi + 2 => ~ IsOption[argi + 1]
<1>1. Len(argv) \in Nat /\ argi \in Nat
  OBVIOUS
<1>2. CASE argi' = argi + 1 /\ (argi < Len(argv) => ~ TakesNext(argi + 1))
  <2>1. argi' <= Len(argv) => argi \in 1 .. Len(argv) - 1
    BY <1>1, <1>2
  <2> QED BY <1>1, <1>2, <2>1, OptionPlaces
<1>3. CASE argi' = argi + 2 /\ argi < Len(argv) /\ TakesNext(argi + 1)
  <2>1. argi \in 1 .. Len(argv) - 1
    BY <1>1, <1>3
  <2>2. ~ IsOption[argi + 1]
    BY <1>3, <2>1, OptionPlaces
  <2>3. argi' <= Len(argv) => argi + 1 \in 1 .. Len(argv) - 1 /\ argi' = argi + 1 + 1
    BY <1>1, <1>3
  <2>4. argi' <= Len(argv) => IsOption[argi + 1 + 1]
    BY <2>2, <2>3, OptionPlaces
  <2>5. argi' <= Len(argv) => IsOption[argi']
    BY <2>3, <2>4
  <2> QED BY <1>1, <1>3, <2>2, <2>5
<1> QED BY <1>2, <1>3

\* What reading one option does, apart from those that end UnityMain.
LEMMA OptionRead ==
  ASSUME ControlTypes, ParseOption, pc' = "parse",
         NEW a, a = argv[argi], NEW next1, next1 = argv[argi + 1]
  PROVE  /\ a \notin {"-h", "--help"}
         /\ \/ argi' = argi + 1 /\ (argi < Len(argv) => ~ TakesNext(argi + 1))
            \/ argi' = argi + 2 /\ argi < Len(argv) /\ TakesNext(argi + 1)
         /\ a \in DOMAIN Field => argi < Len(argv)
         /\ \A b \in DOMAIN Field :
              fixture'[Field[b]] = IF b = a THEN next1 ELSE fixture[Field[b]]
         /\ fixture'.DryRun = IF a = "-d" THEN TRUE ELSE fixture.DryRun
         /\ fixture'.RepeatCount =
              IF a # "-r" THEN fixture.RepeatCount
              ELSE IF argi < Len(argv) /\ TakesNext(argi + 1) THEN NumberOf[next1]
              ELSE 2
<1>1. /\ argi \in 1 .. Len(argv) /\ Len(argv) \in Nat /\ argv \in Seq(STRING)
      /\ fixture \in Fixture /\ pc = "parse"
      /\ DOMAIN Field = {"-g", "-G", "-n", "-N"}
  BY UnityRunnerAssumption DEF ControlTypes, ParseOption, Field
<1>2. TakesNext(argi + 1) <=> \/ a \in DOMAIN Field
                              \/ a = "-r" /\ next1 \in DOMAIN NumberOf
  <2> DEFINE k == argi + 1
  <2>1. TakesNext(k) <=> \/ argv[k - 1] \in DOMAIN Field
                         \/ argv[k - 1] = "-r" /\ argv[k] \in DOMAIN NumberOf
    BY Zenon DEF TakesNext
  <2>2. argv[k - 1] = a /\ argv[k] = next1
    <3>1. k - 1 = argi
      BY <1>1
    <3> QED BY <3>1, Zenon
  <2> HIDE DEF k
  <2>3. TakesNext(k) <=> \/ a \in DOMAIN Field
                         \/ a = "-r" /\ next1 \in DOMAIN NumberOf
    BY <2>1, <2>2, Zenon
  <2> QED BY <2>3 DEF k
<1>3. /\ Field["-g"] = "GroupFilter" /\ Field["-G"] = "Group"
      /\ Field["-n"] = "NameFilter" /\ Field["-N"] = "Name"
  BY DEF Field
<1>4. CASE a \in DOMAIN Field
  <2>1. argi # Len(argv) /\ argi' = argi + 2
        /\ fixture' = [fixture EXCEPT ![Field[a]] = next1]
    BY <1>1, <1>4 DEF ParseOption
  <2>2. a \in {"-g", "-G", "-n", "-N"} /\ argi < Len(argv)
    BY <1>1, <1>4, <2>1
  <2> QED BY <1>1, <1>2, <1>3, <2>1, <2>2 DEF Fixture
<1>5. CASE a = "-r"
  <2> DEFINE count == IF argi < Len(argv) /\ next1 \in DOMAIN NumberOf
                      THEN NumberOf[next1] ELSE 2
  <2>1. fixture' = [fixture EXCEPT !.RepeatCount = count]
    BY <1>1, <1>5 DEF ParseOption, Repeat
  <2>2. argi' = argi + IF argi < Len(argv) /\ next1 \in DOMAIN NumberOf THEN 2 ELSE 1
    BY <1>1, <1>5 DEF ParseOption, Repeat
  <2>3. \A b \in DOMAIN Field : b # a /\ fixture'[Field[b]] = fixture[Field[b]]
    BY <1>1, <1>3, <1>5, <2>1 DEF Fixture
  <2>4. fixture'.DryRun = fixture.DryRun /\ fixture'.RepeatCount = count
    BY <1>1, <2>1 DEF Fixture
  <2> QED BY <1>1, <1>2, <1>5, <2>2, <2>3, <2>4
<1>6. CASE a \notin DOMAIN Field \cup {"-r"}
  <2>1. /\ a \notin {"-h", "--help"} /\ argi' = argi + 1
        /\ fixture' = IF a = "-d" THEN [fixture EXCEPT !.DryRun = TRUE] ELSE fixture
    BY <1>1, <1>6 DEF ParseOption
  <2>2. \A b \in DOMAIN Field : b # a /\ fixture'[Field[b]] = fixture[Field[b]]
    BY <1>1, <1>3, <1>6, <2>1 DEF Fixture
  <2>3. /\ fixture'.DryRun = IF a = "-d" THEN TRUE ELSE fixture.DryRun
        /\ fixture'.RepeatCount = fixture.RepeatCount
    BY <1>1, <2>1 DEF Fixture
  <2> QED BY <1>1, <1>2, <1>6, <2>1, <2>2, <2>3
<1> QED BY <1>4, <1>5, <1>6

LEMMA ParseOptions ==
  ASSUME ControlTypes, OptionsInv, ParseOption
  PROVE  OptionsInv'
<1> DEFINE a == argv[argi]
           next1 == argv[argi + 1]
<1>1. /\ argv \in Seq(STRING) /\ argi \in 1 .. Len(argv) /\ IsOption[argi]
      /\ pc = "parse" /\ UNCHANGED argv /\ Len(argv) \in Nat
  BY UnityRunnerAssumption DEF ControlTypes, ParseOption, OptionsInv, PlaceInv
<1>2. IsOption' = IsOption /\ \A b : Uses(b)' = Uses(b)
  BY <1>1, SameCommandLine
<1>3. CASE pc' = "usage"
  <2>1. /\ UNCHANGED <<argi, fixture>>
        /\ \/ a \in {"-h", "--help"}
           \/ a \in DOMAIN Field /\ argi = Len(argv)
    BY <1>1, <1>3 DEF ParseOption, Repeat
  <2>2. argi \in Uses(a)
    BY <1>1 DEF Uses
  <2>3. UsageError
    BY <2>1, <2>2 DEF UsageError
  <2>4. UsageError'
    BY <1>1, <1>2, <2>3 DEF UsageError, Field
  <2>5. \A b : UsedSoFar(b)' = UsedSoFar(b)
    BY <1>2, <2>1 DEF UsedSoFar
  <2>6. PlaceInv'
    BY <1>1, <1>2, <1>3, <2>1, <2>4 DEF OptionsInv, PlaceInv
  <2> QED BY <1>1, <2>1, <2>5, <2>6, SameUses DEF OptionsInv
<1>4. CASE pc' = "parse"
  <2>1. /\ a \notin {"-h", "--help"}
        /\ \/ argi' = argi + 1 /\ (argi < Len(argv) => ~ TakesNext(argi + 1))
           \/ argi' = argi + 2 /\ argi < Len(argv) /\ TakesNext(argi + 1)
        /\ a \in DOMAIN Field => argi < Len(argv)
        /\ \A b \in DOMAIN Field :
             fixture'[Field[b]] = IF b = a THEN next1 ELSE fixture[Field[b]]
        /\ fixture'.DryRun = IF a = "-d" THEN TRUE ELSE fixture.DryRun
        /\ fixture'.RepeatCount =
             IF a # "-r" THEN fixture.RepeatCount
             ELSE IF argi < Len(argv) /\ TakesNext(argi + 1) THEN NumberOf[next1]
             ELSE 2
    BY <1>4, OptionRead
  <2>2. /\ argi' <= Len(argv) + 1
        /\ argi' <= Len(argv) => IsOption[argi']
        /\ argi' = argi + 2 => ~ IsOption[argi + 1]
    BY <1>1, <2>1, NextPlace
  <2>3. /\ \A b : UsedSoFar(b)' = IF b = a THEN UsedSoFar(b) \cup {argi}
                                  ELSE UsedSoFar(b)
        /\ \A b : Latest(UsedSoFar(b) \cup {argi}) = argi
    BY <1>1, <2>1, <2>2, OneMoreUse
  <2>4. PlaceInv'
    BY <1>1, <1>2, <1>4, <2>2 DEF PlaceInv
  <2>5. ASSUME NEW b \in DOMAIN Field
        PROVE  /\ Len(argv)' \notin UsedSoFar(b)'
               /\ fixture'[Field[b]] =
                    IF UsedSoFar(b)' = {} THEN NoFilter
                    ELSE argv'[Latest(UsedSoFar(b)') + 1]
    <3>1. CASE b = a
      <4>1. UsedSoFar(b)' = UsedSoFar(b) \cup {argi}
        BY <2>3, <3>1
      <4>2. Latest(UsedSoFar(b)') = argi
        BY <2>3, <4>1
      <4>3. Len(argv) \notin UsedSoFar(b)
        BY DEF OptionsInv, FieldsInv
      <4> QED BY <1>1, <2>1, <3>1, <4>1, <4>2, <4>3
    <3>2. CASE b # a
      <4>1. UsedSoFar(b)' = UsedSoFar(b)
        BY <2>3, <3>2
      <4> QED BY <1>1, <2>1, <3>2, <4>1 DEF OptionsInv, FieldsInv
    <3> QED BY <3>1, <3>2
  <2>6. FieldsInv'
    BY <2>5 DEF FieldsInv, Field, Latest
  <2>7. SwitchInv'
    BY <2>1, <2>3 DEF OptionsInv, SwitchInv
  <2>8. RepeatInv'
    <3>1. CASE a = "-r"
      <4>1. UsedSoFar("-r")' = UsedSoFar("-r") \cup {argi}
        BY <2>3, <3>1
      <4>2. Latest(UsedSoFar("-r")') = argi /\ UsedSoFar("-r")' # {}
        BY <2>3, <4>1
      <4>3. argi < Len(argv) => (TakesNext(argi + 1) <=> ~ IsOption[argi + 1])
        BY <1>1, OptionPlaces
      <4>4. RepeatSaid(UsedSoFar("-r")') =
              IF argi < Len(argv) /\ ~ IsOption[argi + 1] THEN NumberOf[next1] ELSE 2
        BY <4>2 DEF RepeatSaid
      <4>5. RepeatSaid(UsedSoFar("-r"))' = RepeatSaid(UsedSoFar("-r")')
        BY <1>1, <1>2 DEF RepeatSaid, Latest
      <4> QED BY <2>1, <3>1, <4>3, <4>4, <4>5 DEF RepeatInv
    <3>2. CASE a # "-r"
      <4>1. UsedSoFar("-r")' = UsedSoFar("-r")
        BY <2>3, <3>2
      <4>2. RepeatSaid(UsedSoFar("-r"))' = RepeatSaid(UsedSoFar("-r"))
        <5>1. RepeatSaid(UsedSoFar("-r"))' = RepeatSaid(UsedSoFar("-r")')
          BY <1>1, <1>2 DEF RepeatSaid, Latest
        <5> QED BY <4>1, <5>1
      <4>3. fixture'.RepeatCount = fixture.RepeatCount
        BY <2>1, <3>2
      <4> QED BY <4>2, <4>3 DEF OptionsInv, RepeatInv
    <3> QED BY <3>1, <3>2
  <2> QED BY <2>4, <2>6, <2>7, <2>8 DEF OptionsInv
<1> QED BY <1>1, <1>3, <1>4, ParseKeepsTypes

\* The rest of UnityMain leaves the command line and the fixture alone.
LEMMA OptionsStep == ControlTypes /\ OptionsInv /\ [Next]_vars => OptionsInv'
<1> SUFFICES ASSUME ControlTypes, OptionsInv, [Next]_vars PROVE OptionsInv'
  OBVIOUS
<1>1. CASE ParseOption
  BY <1>1, ParseOptions
<1>2. CASE UNCHANGED vars
  BY <1>2, SameOptions DEF vars, OptionsInv, PlaceInv
<1>3. CASE OptionsParsed
  <2>1. UNCHANGED optionVars /\ pc' = "begin" /\ argi > Len(argv)
    BY <1>3 DEF OptionsParsed
  <2> QED BY <2>1, SameOptions
<1>4. CASE UnityBegin \/ SkipTest \/ UnityIgnoreTest \/ StartTest
           \/ UnityEnd \/ UndoPointer \/ UnityConcludeFixtureTest
  <2>1. UNCHANGED optionVars /\ pc \in {"begin", "next", "undo"}
        /\ (pc' \in {"next", "exit", "undo", "setup", "begin"} \/ pc' = pc)
    BY <1>4 DEF UnityBegin, SkipTest, UnityIgnoreTest, StartTest, UnityEnd,
         UndoPointer, UnityConcludeFixtureTest
  <2> QED BY <2>1, SameOptions DEF OptionsInv, PlaceInv
<1>5. CASE TestCode
  <2>1. UNCHANGED optionVars /\ pc \in {"setup", "body", "teardown"}
    BY <1>5 DEF TestCode, InTest
  <2>2. pc' \in {"body", "teardown", "undo"} \/ pc' = pc
    BY <1>5, TestCodeControl
       DEF Fail, UnityIgnore, PassingAssertion, Continue, Return, Abort, InTest
  <2> QED BY <2>1, <2>2, SameOptions DEF OptionsInv, PlaceInv
<1> QED BY <1>1, <1>2, <1>3, <1>4, <1>5 DEF Next, Runner

\* Whatever the command line, the tests run as it says: the fixture is what one
\* gets by reading it as a whole, an option's argument is never taken for an
\* option nor the other way round, and UnityMain ends early exactly for -h or
\* an argument that is missing (UnityGetCommandLineOptions).
THEOREM UnityOptionsHonoured == Spec => []OptionsHonoured
<1>1. ControlTypes /\ OptionsInv => OptionsHonoured
  <2> SUFFICES ASSUME ControlTypes, OptionsInv, pc \notin {"parse", "usage"}
               PROVE  /\ ~ UsageError
                      /\ \A a \in DOMAIN Field :
                           fixture[Field[a]] =
                             IF Uses(a) = {} THEN NoFilter
                             ELSE argv[Latest(Uses(a)) + 1]
                      /\ fixture.DryRun = (Uses("-d") # {})
                      /\ fixture.RepeatCount = RepeatSaid(Uses("-r"))
    BY DEF OptionsHonoured, OptionsInv, PlaceInv, RepeatSaid
  <2>1. argi > Len(argv) /\ argi \in Nat /\ Len(argv) \in Nat
    BY UnityRunnerAssumption DEF OptionsInv, PlaceInv, ControlTypes
  <2>2. \A a : UsedSoFar(a) = Uses(a)
    BY <2>1 DEF UsedSoFar, Uses
  <2> QED BY <2>2 DEF OptionsInv, FieldsInv, SwitchInv, RepeatInv, UsageError
<1> QED BY <1>1, TypesInit, ControlStep, OptionsInit, OptionsStep, PTL DEF Spec
=============================================================================
