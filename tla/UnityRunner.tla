----------------------------- MODULE UnityRunner -----------------------------
(***************************************************************************)
(* The test harness of test/: UnityMain of unity_fixture.c with its        *)
(* command line, the runner of one test, the pointers a test sets and the  *)
(* verdict of unity.c, on top of the memory of module UnityMemory.         *)
(*                                                                         *)
(* setup, body and teardown are code of the tests: any sequence of the     *)
(* calls Unity offers.  A call that ends the test longjmps to the last     *)
(* TEST_PROTECT, wherever the function is: out of setup and body to the    *)
(* teardown, out of the teardown to the undoing of pointers.               *)
(***************************************************************************)
EXTENDS UnityMemory, Sequences

CONSTANTS
  Tests,              \* the calls that runAllTests makes, see Test
  Argvs,              \* command lines, without argv[0]
  Contains,           \* Contains[name]: the strings for which strstr finds
                      \* something in name
  NumberOf,           \* NumberOf[s]: the number that s begins with
  Pointers, Values,   \* what UT_PTR_SET changes, and to what
  UNITY_MAX_POINTERS

\* RUN_TEST_CASE of a TEST, or of an IGNORE_TEST.
Test == [group: DOMAIN Contains, name: DOMAIN Contains, ignore: BOOLEAN]

NoFilter == "none"
Original == "original"

ASSUME UnityRunnerAssumption ==
  /\ Tests \in Seq(Test)
  /\ Argvs \subseteq Seq(STRING)
  /\ UNITY_MAX_POINTERS \in Nat
  /\ Original \notin Values
  /\ NumberOf \in [DOMAIN NumberOf -> Nat]

VARIABLES
  argv, argi,     \* the command line, and the argument that is parsed next
  fixture,        \* UnityFixture
  pc,
  run, next,      \* r in UnityMain, and the test that runAllTests calls next
  NumberOfTests, TestFailures, TestIgnores,
  CurrentTestFailed, CurrentTestIgnored,
  pointer_store,  \* the pairs up to pointer_index
  mem,            \* what the pointers point to
  red,            \* the test at hand has failed or ignored itself, or should have
  redTests        \* tests concluded for which that was so

optionVars == <<argv, argi, fixture>>
countVars == <<NumberOfTests, TestFailures, TestIgnores>>
flagVars == <<CurrentTestFailed, CurrentTestIgnored, red>>
pointerVars == <<pointer_store, mem>>
vars == <<optionVars, pc, run, next, countVars, flagVars, pointerVars,
          redTests, memoryVars>>

Defaults ==
  [DryRun |-> FALSE, RepeatCount |-> 1, NameFilter |-> NoFilter,
   Name |-> NoFilter, GroupFilter |-> NoFilter, Group |-> NoFilter]

Init ==
  /\ argv \in Argvs
  /\ argi = 1
  /\ fixture = Defaults
  /\ pc = "parse"
  /\ run = 0
  /\ next = 1
  /\ NumberOfTests = 0
  /\ TestFailures = 0
  /\ TestIgnores = 0
  /\ CurrentTestFailed = FALSE
  /\ CurrentTestIgnored = FALSE
  /\ red = FALSE
  /\ redTests = 0
  /\ pointer_store = <<>>
  /\ mem = [p \in Pointers |-> Original]
  /\ MemoryInit

-----------------------------------------------------------------------------
(* UnityGetCommandLineOptions.                                             *)

\* The field that an option with an argument sets.
Field ==
  [a \in {"-g", "-G", "-n", "-N"} |->
     CASE a = "-g" -> "GroupFilter" [] a = "-G" -> "Group"
       [] a = "-n" -> "NameFilter"  [] a = "-N" -> "Name"]

\* A mutant: -r takes the next argument whatever it is.
RepeatTakesNext ==
  LET given == argi < Len(argv)
  IN  /\ fixture' = [fixture EXCEPT !.RepeatCount =
                       IF given /\ argv[argi + 1] \in DOMAIN NumberOf
                       THEN NumberOf[argv[argi + 1]] ELSE 2]
      /\ argi' = argi + IF given THEN 2 ELSE 1
      /\ UNCHANGED pc

\* -r, with or without a number.
Repeat ==
  LET given == argi < Len(argv) /\ argv[argi + 1] \in DOMAIN NumberOf
  IN  /\ fixture' = [fixture EXCEPT !.RepeatCount =
                       IF given THEN NumberOf[argv[argi + 1]] ELSE 2]
      /\ argi' = argi + IF given THEN 2 ELSE 1
      /\ UNCHANGED pc

\* One option; -h, and an option whose argument is missing, end UnityMain.
ParseOption ==
  /\ pc = "parse"
  /\ argi <= Len(argv)
  /\ LET a == argv[argi]
     IN  \/ /\ a \in {"-h", "--help"}
            /\ pc' = "usage"
            /\ UNCHANGED <<argi, fixture>>
         \/ /\ a = "-d"
            /\ fixture' = [fixture EXCEPT !.DryRun = TRUE]
            /\ argi' = argi + 1
            /\ UNCHANGED pc
         \/ /\ a \in DOMAIN Field
            /\ IF argi = Len(argv)
                 THEN pc' = "usage" /\ UNCHANGED <<argi, fixture>>
                 ELSE /\ fixture' = [fixture EXCEPT ![Field[a]] = argv[argi + 1]]
                      /\ argi' = argi + 2
                      /\ UNCHANGED pc
         \/ a = "-r" /\ Repeat
         \/ /\ a \notin {"-h", "--help", "-d", "-r"} \cup DOMAIN Field
            /\ argi' = argi + 1
            /\ UNCHANGED <<pc, fixture>>
  /\ UNCHANGED <<argv, run, next, countVars, flagVars, pointerVars, redTests, memoryVars>>

OptionsParsed ==
  /\ pc = "parse"
  /\ argi > Len(argv)
  /\ pc' = "begin"
  /\ UNCHANGED <<optionVars, run, next, countVars, flagVars, pointerVars, redTests, memoryVars>>

-----------------------------------------------------------------------------
(* UnityMain and UnityTestRunner.                                          *)

\* UnityBegin for run r of UnityMain, or its return.
UnityBegin ==
  /\ pc = "begin"
  /\ IF run < fixture.RepeatCount
       THEN /\ pc' = "next"
            /\ next' = 1
            /\ NumberOfTests' = 0
            /\ TestFailures' = 0
            /\ TestIgnores' = 0
            /\ CurrentTestFailed' = FALSE
            /\ CurrentTestIgnored' = FALSE
            /\ red' = FALSE
            /\ redTests' = 0
       ELSE pc' = "exit" /\ UNCHANGED <<next, countVars, flagVars, redTests>>
  /\ UNCHANGED <<optionVars, run, pointerVars, memoryVars>>

selected(filter, select, name) ==
  \/ filter = NoFilter /\ select = NoFilter
  \/ filter \in Contains[name]
  \/ select = name

Selected(t) ==
  /\ selected(fixture.NameFilter, fixture.Name, t.name)
  /\ selected(fixture.GroupFilter, fixture.Group, t.group)

SkipTest ==
  /\ pc = "next"
  /\ next <= Len(Tests)
  /\ ~ Selected(Tests[next])
  /\ next' = next + 1
  /\ UNCHANGED <<optionVars, pc, run, countVars, flagVars, pointerVars, redTests, memoryVars>>

UnityIgnoreTest ==
  /\ pc = "next"
  /\ next <= Len(Tests)
  /\ Selected(Tests[next])
  /\ Tests[next].ignore
  /\ next' = next + 1
  /\ NumberOfTests' = NumberOfTests + 1
  /\ TestIgnores' = TestIgnores + 1
  /\ redTests' = redTests + 1
  /\ UNCHANGED <<optionVars, pc, run, TestFailures, flagVars, pointerVars, memoryVars>>

\* UnityTestRunner up to the call of setup; a dry run calls nothing.
StartTest ==
  /\ pc = "next"
  /\ next <= Len(Tests)
  /\ Selected(Tests[next])
  /\ ~ Tests[next].ignore
  /\ next' = next + 1
  /\ NumberOfTests' = NumberOfTests + 1
  /\ pointer_store' = <<>>
  /\ pc' = IF fixture.DryRun THEN "undo" ELSE "setup"
  /\ UNCHANGED <<optionVars, run, TestFailures, TestIgnores, flagVars, mem, redTests, memoryVars>>

\* All tests have run.
UnityEnd ==
  /\ pc = "next"
  /\ next > Len(Tests)
  /\ run' = run + 1
  /\ pc' = "begin"
  /\ UNCHANGED <<optionVars, next, countVars, flagVars, pointerVars, redTests, memoryVars>>

\* A mutant: the pointers are put back in the order in which they were set.
UndoPointerInOrder ==
  /\ pc = "undo"
  /\ pointer_store # <<>>
  /\ mem' = [mem EXCEPT ![Head(pointer_store).pointer] = Head(pointer_store).old_value]
  /\ pointer_store' = Tail(pointer_store)
  /\ UNCHANGED <<optionVars, pc, run, next, countVars, flagVars, redTests, memoryVars>>

\* One turn of UnityPointer_UndoAllSets.
UndoPointer ==
  /\ pc = "undo"
  /\ pointer_store # <<>>
  /\ LET last == pointer_store[Len(pointer_store)]
     IN  mem' = [mem EXCEPT ![last.pointer] = last.old_value]
  /\ pointer_store' = SubSeq(pointer_store, 1, Len(pointer_store) - 1)
  /\ UNCHANGED <<optionVars, pc, run, next, countVars, flagVars, redTests, memoryVars>>

\* A mutant: the flags of one test are left for the next.
ConcludeKeepsFlags ==
  /\ pc = "undo"
  /\ pointer_store = <<>>
  /\ pc' = "next"
  /\ TestIgnores' = TestIgnores + IF CurrentTestIgnored THEN 1 ELSE 0
  /\ TestFailures' = TestFailures + IF CurrentTestFailed THEN 1 ELSE 0
  /\ red' = FALSE
  /\ redTests' = redTests + IF red THEN 1 ELSE 0
  /\ UNCHANGED <<optionVars, run, next, NumberOfTests, CurrentTestFailed,
                 CurrentTestIgnored, pointerVars, memoryVars>>

UnityConcludeFixtureTest ==
  /\ pc = "undo"
  /\ pointer_store = <<>>
  /\ pc' = "next"
  /\ IF CurrentTestIgnored
       THEN TestIgnores' = TestIgnores + 1 /\ UNCHANGED TestFailures
       ELSE /\ TestFailures' = TestFailures + IF CurrentTestFailed THEN 1 ELSE 0
            /\ UNCHANGED TestIgnores
  /\ CurrentTestFailed' = FALSE
  /\ CurrentTestIgnored' = FALSE
  /\ red' = FALSE
  /\ redTests' = redTests + IF red THEN 1 ELSE 0
  /\ UNCHANGED <<optionVars, run, next, NumberOfTests, pointerVars, memoryVars>>

-----------------------------------------------------------------------------
(* What a test's functions may do.                                         *)

InTest == pc \in {"setup", "body", "teardown"}

\* TEST_ABORT.
Abort == pc' = IF pc = "teardown" THEN "undo" ELSE "teardown"

Decided == CurrentTestFailed \/ CurrentTestIgnored

\* UnityFail, or a failing assertion: RETURN_IF_FAIL_OR_IGNORE, then the flag.
Fail ==
  /\ Abort
  /\ CurrentTestFailed' = (CurrentTestFailed \/ ~ Decided)
  /\ UNCHANGED CurrentTestIgnored
  /\ red' = TRUE

UnityIgnore ==
  /\ Abort
  /\ CurrentTestIgnored' = (CurrentTestIgnored \/ ~ Decided)
  /\ UNCHANGED CurrentTestFailed
  /\ red' = TRUE

\* An assertion that would pass: in a test already decided it ends the
\* function all the same.
PassingAssertion == (IF Decided THEN Abort ELSE UNCHANGED pc) /\ UNCHANGED flagVars

Continue == UNCHANGED <<pc, flagVars>>

Return ==
  /\ pc' = CASE pc = "setup" -> "body" [] pc = "body" -> "teardown"
             [] pc = "teardown" -> "undo"
  /\ UNCHANGED flagVars

\* A mutant: one pair too many fits.
UnityPointer_SetOneMore(p, v) ==
  IF Len(pointer_store) > UNITY_MAX_POINTERS
    THEN Fail /\ UNCHANGED pointerVars
    ELSE /\ pointer_store' = Append(pointer_store, [pointer |-> p, old_value |-> mem[p]])
         /\ mem' = [mem EXCEPT ![p] = v]
         /\ Continue

UnityPointer_Set(p, v) ==
  IF Len(pointer_store) >= UNITY_MAX_POINTERS
    THEN Fail /\ UNCHANGED pointerVars
    ELSE /\ pointer_store' = Append(pointer_store, [pointer |-> p, old_value |-> mem[p]])
         /\ mem' = [mem EXCEPT ![p] = v]
         /\ Continue

\* unity_free and unity_realloc of a block find out what was done to it.
unity_free(b) == release_memory(b) /\ IF isOverrun(b) THEN Fail ELSE Continue

Reallocate(b, n) ==
  IF isOverrun(b) THEN release_memory(b) /\ Fail
  ELSE unity_realloc(b, n) /\ Continue

ControlCall ==
  /\ \/ Return
     \/ Fail
     \/ UnityIgnore
     \/ PassingAssertion
  /\ UNCHANGED <<pointerVars, memoryVars>>

PointerCall ==
  /\ \E p \in Pointers, v \in Values : UnityPointer_Set(p, v)
  /\ UNCHANGED memoryVars

MemoryCall ==
  /\ \/ UnityMalloc_StartTest /\ Continue
     \/ UnityMalloc_EndTest /\ IF Leaks THEN Fail ELSE Continue
     \/ \E n \in 0 .. MaxFailAfter : UnityMalloc_MakeMallocFailAfterCount(n) /\ Continue
     \/ \E n \in BlockSizes : unity_malloc(n) /\ Continue
     \/ \E b \in Live : unity_free(b)
     \/ \E b \in Live, n \in BlockSizes : Reallocate(b, n)
     \/ \E b \in Live : Overrun(b) /\ Continue
  /\ UNCHANGED pointerVars

TestCode ==
  /\ InTest
  /\ ControlCall \/ PointerCall \/ MemoryCall
  /\ UNCHANGED <<optionVars, run, next, countVars, redTests>>

Runner ==
  \/ ParseOption \/ OptionsParsed \/ UnityBegin \/ SkipTest \/ UnityIgnoreTest
  \/ StartTest \/ UnityEnd \/ UndoPointer \/ UnityConcludeFixtureTest

Next == Runner \/ TestCode

Spec == Init /\ [][Next]_vars

-----------------------------------------------------------------------------
(* Properties.                                                             *)

\* What a filter may be.
Filters == {NoFilter} \cup UNION {{a[k] : k \in 1 .. Len(a)} : a \in Argvs}

\* The types of all variables.
TypeOK ==
  /\ argi \in Nat
  /\ fixture \in [DryRun: BOOLEAN, RepeatCount: Nat, NameFilter: Filters,
                  Name: Filters, GroupFilter: Filters, Group: Filters]
  /\ pc \in {"parse", "usage", "begin", "next", "setup", "body", "teardown",
             "undo", "exit"}
  /\ run \in Nat
  /\ next \in 1 .. Len(Tests) + 1
  /\ NumberOfTests \in Nat /\ TestFailures \in Nat /\ TestIgnores \in Nat
  /\ CurrentTestFailed \in BOOLEAN /\ CurrentTestIgnored \in BOOLEAN
  /\ Len(pointer_store) <= UNITY_MAX_POINTERS
  /\ mem \in [Pointers -> Values \cup {Original}]
  /\ blocks \in [Blocks -> [size: BlockSizes \cup {0}, intact: BOOLEAN]]
  /\ malloc_count \in Int
  /\ malloc_fail_countdown \in Int

\* Every test in which an assertion failed, a leak, an overrun or too many
\* pointers were found, or that was ignored, is counted once, as a failure or
\* as ignored, however often that happened in setup, body and teardown; and
\* no other test is.
EveryTestCountedOnce ==
  /\ TestFailures + TestIgnores = redTests
  /\ redTests <= NumberOfTests
  /\ ~ (CurrentTestFailed /\ CurrentTestIgnored)

\* When a test is over every pointer that it set with UT_PTR_SET has the
\* value it had before the test, wherever the test was left.
PointersRestored == ~ InTest /\ pc # "undo" => \A p \in Pointers : mem[p] = Original

\* malloc_count is the number of blocks more than at UnityMalloc_StartTest,
\* through failing mallocs, reallocs that fail, and tests that were left in
\* the middle.
MallocCountExact == malloc_count = Cardinality(Live) - base

\* A block whose bounds were overwritten is not freed, nor moved by realloc,
\* in a test that goes on green.
OverrunNeverSilent ==
  [][\A b \in Live : ~ blocks[b].intact /\ b \notin Live' =>
       CurrentTestFailed' \/ CurrentTestIgnored']_vars

\* What argv says, read from its whole: argument k is an option unless the
\* option before it takes it.
IsOption ==
  LET f[k \in 0 .. Len(argv)] ==
        \/ k <= 1
        \/ ~ /\ f[k - 1]
             /\ \/ argv[k - 1] \in DOMAIN Field
                \/ argv[k - 1] = "-r" /\ argv[k] \in DOMAIN NumberOf
  IN  f

Uses(a) == {k \in 1 .. Len(argv) : IsOption[k] /\ argv[k] = a}

UsageError ==
  \/ Uses("-h") \cup Uses("--help") # {}
  \/ \E a \in DOMAIN Field : Len(argv) \in Uses(a)

Latest(S) == CHOOSE k \in S : \A j \in S : j <= k

\* Tests run as the command line says: an option's argument is never taken
\* for an option, nor an option for an argument, the last use of an option
\* counts, and -h or a missing argument runs nothing.
OptionsHonoured ==
  /\ pc \notin {"parse", "usage"} =>
       /\ ~ UsageError
       /\ \A a \in DOMAIN Field :
            fixture[Field[a]] =
              IF Uses(a) = {} THEN NoFilter ELSE argv[Latest(Uses(a)) + 1]
       /\ fixture.DryRun = (Uses("-d") # {})
       /\ fixture.RepeatCount =
            IF Uses("-r") = {} THEN 1
            ELSE LET k == Latest(Uses("-r"))
                 IN  IF k < Len(argv) /\ ~ IsOption[k + 1]
                     THEN NumberOf[argv[k + 1]] ELSE 2
  /\ pc = "usage" => UsageError
=============================================================================
