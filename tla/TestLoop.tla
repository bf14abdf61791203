------------------------------- MODULE TestLoop -------------------------------
(***************************************************************************)
(* The agent's test loop: run_tests, run_failing_tests, run_typecheck and  *)
(* run_lint (internal/tools), the single-slot TestResultStore and the      *)
(* CoverageIndex they fill, and the run_tests half of the health tracker   *)
(* (failure streak, last green run).  Tool calls are served concurrently;  *)
(* the store, the index and the tracker each have a lock of their own, so  *)
(* a handler's updates of them are separate steps.                         *)
(*                                                                         *)
(* A package path and a test name are sequences of the parts a "/"         *)
(* separates.  What the code under test does is chosen anew each time a    *)
(* command runs, since the agent edits it between and during runs.         *)
(***************************************************************************)
EXTENDS Integers, Sequences, FiniteSets, FiniteSetsExt

CONSTANTS
    Handlers,        \* concurrent tool calls
    Suite,           \* the tests of the Go project: [pkg |-> path, test |-> path]
    Lines,           \* pkg path -> the lines of its files a profile mentions
    Limits,          \* values of run_failing_tests' limit
    MaxPositional,   \* maxRerunPackagesPositional
    MaxRuns          \* bound: tool calls in a behaviour

ASSUME LoopAssumption == IsFiniteSet(Suite)

VARIABLES
    call,            \* handler -> what it is doing and the values it holds
    store,           \* TestResultStore
    index,           \* CoverageIndex: {<<line, test>>}
    lastFailures, haveLast, streak,
    lastGreen,       \* when a run was last green, in calls made; -1 when never
    results,         \* history: the failure counts the tracker was given
    runs             \* tool calls made so far

streakVars == <<lastFailures, haveLast, streak, results>>
testVars == <<call, store, index, streakVars, lastGreen, runs>>

Langs    == {"go", "other"}
AllTests == [names |-> {}, pkgs |-> {}]
NoRes    == [exit |-> 0, seen |-> {}, failed |-> {}]

\* pc is where the handler stands, argv the command it composed, snapshot
\* the failures run_failing_tests got from the store, res its execResult.
Idle == [pc |-> "idle", tool |-> "none", lang |-> "go", argv |-> AllTests,
         snapshot |-> {}, res |-> NoRes]

Parent(path) == path[1]

\* frameToFailure: TestName is pkg + "/" + test.
FailureName(t) == [sep |-> "/", pkg |-> t.pkg, test |-> t.test]

\* Types; an entry of the index is a line of a package under one of its
\* top-level tests, what `go test -run` can select (coverage_index.go).
TestTypeOK ==
    /\ \A h \in Handlers :
         /\ call[h].pc \in {"idle", "run", "record", "ingest", "streak", "green"}
         /\ call[h].lang \in Langs
         /\ call[h].res.failed \subseteq call[h].res.seen
         /\ call[h].res.seen \subseteq Suite
    /\ store.lang \in Langs /\ store.failures \subseteq {FailureName(t) : t \in Suite}
    /\ \A e \in index : \E t \in Suite :
         e[2] = [pkg |-> t.pkg, test |-> <<Parent(t.test)>>] /\ e[1] \in Lines[t.pkg]
    /\ streak \in 0 .. MaxRuns
    /\ lastGreen \in -1 .. MaxRuns

TestInit ==
    /\ call = [h \in Handlers |-> Idle]
    /\ store = [present |-> FALSE, lang |-> "go", failures |-> {}]
    /\ index = {}
    /\ lastFailures = 0 /\ haveLast = FALSE /\ streak = 0 /\ results = <<>>
    /\ lastGreen = -1
    /\ runs = 0

--------------------------------------------------------------------------------
(* Names: what the parser writes and what the rerun reads back.            *)

\* splitQualifiedTestName cuts at the first ":"; a name without one is all
\* test and no package.
SplitQualified(n) ==
    IF n.sep = ":" THEN [pkgs |-> {n.pkg}, leaf |-> n.test]
                   ELSE [pkgs |-> {}, leaf |-> n.pkg \o n.test]

\* extractRerunTargets: parent test names and packages, without duplicates.
RerunNames(failures) == {Parent(SplitQualified(n).leaf) : n \in failures}
RerunPkgs(failures)  == UNION {SplitQualified(n).pkgs : n \in failures}

\* composeGoRerunArgv: at most limit names, the packages as arguments unless
\* there are none or too many ("./...", here the empty set).
ComposeRerun(failures, limit) ==
    LET names == RerunNames(failures)
        pkgs  == RerunPkgs(failures)
    IN  {[names |-> s, pkgs |-> IF Cardinality(pkgs) <= MaxPositional THEN pkgs ELSE {}] :
            s \in kSubset(IF limit < Cardinality(names) THEN limit ELSE Cardinality(names), names)}

\* What `go test` selects for an argv (external).
Selected(a) ==
    IF a = AllTests THEN Suite
    ELSE {t \in Suite : /\ Parent(t.test) \in a.names
                        /\ a.pkgs = {} \/ t.pkg \in a.pkgs}

--------------------------------------------------------------------------------
(* The handlers.                                                           *)

\* A tool call arrives and either runs a command or answers at once.
Call(h, c) ==
    /\ call[h] = Idle /\ runs < MaxRuns
    /\ runs' = runs + 1
    /\ call' = [call EXCEPT ![h] = c]
    /\ UNCHANGED <<store, index, streakVars, lastGreen>>

\* run_tests, run_typecheck and run_lint go straight to their command.
RunCommand(h, tool, l) ==
    Call(h, [Idle EXCEPT !.pc = "run", !.tool = tool, !.lang = l])

\* run_typecheck and run_lint parse no test output, so their language is
\* moot; a lint without findings is their exit 0.
RunCheck(h) == RunCommand(h, "run_check", "go")

\* run_failing_tests composes its command from what the store holds now.
RunFailingTests(h, limit) ==
    /\ store.present /\ store.failures # {}
    /\ \E a \in ComposeRerun(store.failures, limit) :
         Call(h, [Idle EXCEPT !.pc = "run", !.tool = "run_failing_tests",
                              !.argv = a, !.snapshot = store.failures])

\* Nothing recorded yet, a detector without a parser, or no failures: the
\* answer is a notice and no command runs.
NothingToRerun(h, l) ==
    /\ ~store.present \/ l # "go" \/ store.failures = {}
    /\ Call(h, Idle)

Goto(h, pc) == call' = [call EXCEPT ![h] = IF pc = "idle" THEN Idle ELSE [@ EXCEPT !.pc = pc]]

\* The command cannot run or its I/O fails: an error result, nothing recorded.
CommandErrors(h) ==
    /\ call[h].pc = "run"
    /\ Goto(h, "idle")
    /\ UNCHANGED <<store, index, streakVars, lastGreen, runs>>

\* A subtest that fails fails its parent.
FailingSets ==
    {f \in SUBSET Suite : \A t \in f, p \in Suite :
        (p.pkg = t.pkg /\ p.test = <<Parent(t.test)>>) => p \in f}

\* ParseTestFailures and ExtractGoTestsByPackage read the captured stdout;
\* only the Go detector has a parser.
Parsed(c, seen, failing) ==
    IF c.lang = "go" /\ c.tool # "run_check"
    THEN [seen |-> seen, failed |-> seen \cap failing]
    ELSE [seen |-> {}, failed |-> {}]

\* The command ends.  seen are the tests whose end the captured stdout still
\* reports: a build error, a timeout or the output cap may hide any of them.
\* Exit 1 stands for every status but 0, the 124 of a timeout included.
CommandEnds(h) ==
    /\ call[h].pc = "run"
    /\ \E seen \in SUBSET Selected(call[h].argv), failing \in FailingSets, exit \in {0, 1} :
         LET p == Parsed(call[h], seen, failing)
         IN  /\ exit = 0 => Selected(call[h].argv) \cap failing = {}
             /\ call' = [call EXCEPT
                   ![h].res = [exit |-> exit, seen |-> p.seen, failed |-> p.failed],
                   ![h].pc = IF call[h].tool = "run_check" THEN "green" ELSE "record"]
    /\ UNCHANGED <<store, index, streakVars, lastGreen, runs>>

RecordTestResult(h) ==
    /\ call[h].pc = "record"
    /\ store' = [present |-> TRUE, lang |-> call[h].lang,
                 failures |-> {FailureName(t) : t \in call[h].res.failed}]
    /\ Goto(h, IF call[h].tool = "run_tests" THEN "ingest" ELSE "idle")
    /\ UNCHANGED <<index, streakVars, lastGreen, runs>>

\* Seeded fault: a subtest is attributed under its own name and not its parent's.
AttributionBySubtest(seen, profile) ==
    UNION {Lines[t.pkg] \X {t} : t \in {s \in seen : s.pkg \in profile}}

\* buildCoverageByFile: every line the profile mentions for a package goes to
\* every top-level test seen in that package.
Attribution(seen, profile) ==
    LET tops == {[pkg |-> t.pkg, test |-> <<Parent(t.test)>>] : t \in seen}
    IN  UNION {Lines[t.pkg] \X {t} : t \in {s \in tops : s.pkg \in profile}}

\* profile: the packages `go test` had written to the profile when it ended;
\* the temporary file always exists, so an empty one gives an empty index.
\* Nothing is ingested without a Go parser, without a test seen to end, or
\* without a temporary file.
IngestCoverage(h) ==
    LET seen == call[h].res.seen
    IN  /\ call[h].pc = "ingest"
        /\ \/ /\ seen # {}
              /\ \E profile \in SUBSET {t.pkg : t \in Suite} : index' = Attribution(seen, profile)
           \/ UNCHANGED index
        /\ Goto(h, "streak")
        /\ UNCHANGED <<store, streakVars, lastGreen, runs>>

\* Seeded fault: the streak only ends at zero failures.
NextStreakNoDecrease(n) == IF n = 0 THEN 0 ELSE streak + 1

NextStreak(n) ==
    IF n = 0 \/ (haveLast /\ n < lastFailures) THEN 0 ELSE streak + 1

ObserveTestResult(h) ==
    /\ call[h].pc = "streak"
    /\ LET n == Cardinality(call[h].res.failed)
       IN  /\ streak' = NextStreak(n)
           /\ lastFailures' = n
           /\ results' = Append(results, n)
    /\ haveLast' = TRUE
    /\ Goto(h, "green")
    /\ UNCHANGED <<store, index, lastGreen, runs>>

\* A clean exit stamps the time of the last green run.
ObserveGreen(h) ==
    /\ call[h].pc = "green"
    /\ lastGreen' = IF call[h].res.exit = 0 THEN runs ELSE lastGreen
    /\ Goto(h, "idle")
    /\ UNCHANGED <<store, index, streakVars, runs>>

TestNext ==
    \E h \in Handlers :
       \/ \E l \in Langs : RunCommand(h, "run_tests", l)
       \/ RunCheck(h)
       \/ \E limit \in Limits : RunFailingTests(h, limit)
       \/ \E l \in Langs : NothingToRerun(h, l)
       \/ CommandErrors(h)
       \/ CommandEnds(h)
       \/ RecordTestResult(h)
       \/ IngestCoverage(h)
       \/ ObserveTestResult(h)
       \/ ObserveGreen(h)

TestSpec == TestInit /\ [][TestNext]_testVars

--------------------------------------------------------------------------------
(* Properties.                                                             *)

\* The streak gauge is the length of the longest run of latest results in
\* which tests failed and the number of failures never went down, whatever
\* the order in which overlapping run_tests calls reach the tracker.  (The
\* very first result has nothing to go down from.)
NotBetter(counts, i) == counts[i] # 0 /\ (i = 1 \/ counts[i] >= counts[i - 1])
StreakIsTrailing ==
    LET n == Len(results)
    IN  streak = Max({k \in 0 .. n : \A i \in n - k + 1 .. n : NotBetter(results, i)})

\* run_failing_tests reruns the tests that failed: when its limit cuts no name
\* off, its command selects every stored failure's top-level test.
RerunCoversFailures ==
    \A h \in Handlers :
       LET c == call[h]
       IN  (c.tool = "run_failing_tests" /\ c.argv.names = RerunNames(c.snapshot))
           => \A n \in c.snapshot : \E t \in Selected(c.argv) :
                 t.pkg = n.pkg /\ Parent(t.test) = Parent(n.test)
================================================================================
