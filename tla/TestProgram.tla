----------------------------- MODULE TestProgram -----------------------------
(* A program under test: threads that run tests, fail expectations and defer  *)
(* functions, and its end, by an assertion or by exit(), whose handlers were  *)
(* registered by the first use of each. A thread takes its calls in steps     *)
(* (todo); those of other threads come between, also while the handlers run.  *)
(* Left out: an exit() by two threads or by a deferred function, and          *)
(* gp_end_testing() while other threads run, whose tests it would not count.  *)
EXTENDS UnitTest, ThreadMemory, FiniteSets

CONSTANTS
    Main,       \* the thread of main()
    MaxTests,   \* tests and suites that are started
    MaxFailures \* expectations that fail

ASSUME MainAssumption == Main \in Threads /\ Users = Threads

VARIABLES
    todo,      \* the steps of each thread's call that are left
    finished,  \* threads that returned
    once,      \* the handlers whose gp_thread_once() was passed
    handlers,  \* those that atexit() holds, in order
    process,   \* "running", "exiting" or "gone"
    exiting,   \* the thread that called exit(), or Main
    status,    \* what the program ends with
    failures,  \* how many expectations failed
    started,   \* how many tests and suites were
    unmet,     \* history: the tests and suites that go on in which an expectation failed
    owed       \* history: such a test or suite came to its end

vars == <<testVars, memoryVars, todo, finished, once, handlers, process, exiting, status,
          failures, started, unmet, owed>>

programVars == <<finished, once, handlers, process, exiting, status, failures, started, unmet, owed>>

Init ==
    /\ TestInit /\ MemoryInit
    /\ todo = [t \in Threads |-> <<>>]
    /\ finished = {} /\ once = {} /\ handlers = <<>>
    /\ process = "running" /\ exiting = Main /\ status = 0
    /\ failures = 0 /\ started = 0 /\ unmet = {} /\ owed = FALSE

\* gp_thread_once() with an initialiser that registers a handler
Once(h) ==
    /\ once' = once \cup {h}
    /\ handlers' = IF h \in once THEN handlers ELSE Append(handlers, h)

\* A thread of the running program between two calls
Free(t) == process # "gone" /\ todo[t] = <<>> /\ t \notin finished /\ (process = "exiting" => t # exiting)

Do(t, steps) == todo' = [todo EXCEPT ![t] = steps]

(***************************************************************************)
(* Calls                                                                   *)
(***************************************************************************)
\* gp_test() and gp_suite(), with a name or without
CallTest(t, steps) ==
    /\ Free(t) /\ started < MaxTests
    /\ Once("end testing") /\ Do(t, steps)
    /\ UNCHANGED <<testVars, memoryVars, finished, process, exiting, status, failures, started, unmet, owed>>

Test(t) == CallTest(t, <<"end test", "start test">>)
TestNull(t) == (current_test[t] /\ CallTest(t, <<"end test">>))
Suite(t) == CallTest(t, <<"end test", "end suite", "start suite">>)

\* The test and the suite that a thread is in
GoOn(t) ==
    {w \in {<<t, "test">>, <<t, "suite">>} : IF w[2] = "test" THEN current_test[t] ELSE current_suite[t]}

FailExpectation(t) ==
    /\ Fail(t) /\ failures' = failures + 1
    /\ unmet' = unmet \cup GoOn(t)

\* gp_expect() of what is false
Expect(t) ==
    /\ Free(t) /\ failures < MaxFailures
    /\ FailExpectation(t)
    /\ UNCHANGED <<memoryVars, todo, finished, once, handlers, process, exiting, status, started, owed>>

\* exit(): of two threads that call it the second waits forever. Called by a handler it goes on with the others.
Exit(t, code) ==
    /\ process = "running" \/ exiting = t
    /\ process' = "exiting" /\ exiting' = t /\ status' = code
    /\ Do(t, <<"handlers">>)

\* gp_assert() of what is false
Assert(t) ==
    /\ Free(t) /\ process = "running" /\ failures < MaxFailures
    /\ FailExpectation(t)
    /\ Exit(t, 1)
    /\ UNCHANGED <<memoryVars, finished, once, handlers, started, owed>>

\* main() returns, when the threads are joined or before
Return ==
    /\ Free(Main) /\ process = "running"
    /\ Exit(Main, 0)
    /\ UNCHANGED <<testVars, memoryVars, finished, once, handlers, failures, started, unmet, owed>>

\* gp_end_testing() is called once all other threads are joined.
EndTesting ==
    /\ Free(Main) /\ process = "running" /\ finished = Threads \ {Main}
    /\ started > 0
    /\ Do(Main, EndOfTesting)
    /\ UNCHANGED <<testVars, memoryVars, programVars>>

Begin(t) ==
    /\ Free(t)
    /\ \E n \in 1..2 : DeferBegin(t, n)
    /\ Once("auto scope")
    /\ UNCHANGED <<testVars, todo, finished, process, exiting, status, failures, started, unmet, owed>>

CallEnd(t) ==
    /\ Free(t) /\ opened[t] # <<>>
    /\ Do(t, <<"defers">>)
    /\ UNCHANGED <<testVars, memoryVars, programVars>>

\* A thread ends, and what is local to it with it: the destructors of its keys run.
ThreadEnd(t) ==
    /\ Free(t) /\ t # Main
    /\ Do(t, <<"all defers", "thread end">>)
    /\ UNCHANGED <<testVars, memoryVars, programVars>>

(***************************************************************************)
(* Steps                                                                   *)
(***************************************************************************)
Step(t, name) == process # "gone" /\ todo[t] # <<>> /\ Head(todo[t]) = name

Pop(t) == Do(t, Tail(todo[t]))

\* A failure is owed by a program that runs, and by the thread that exits.
Owe(t, what) ==
    /\ owed' = (owed \/ (<<t, what>> \in unmet /\ (process = "running" \/ t = exiting)))
    /\ unmet' = unmet \ {<<t, what>>}

EndTestStep(t) ==
    /\ Step(t, "end test") /\ EndTest(t) /\ Pop(t)
    /\ Owe(t, "test")
    /\ UNCHANGED <<memoryVars, finished, once, handlers, process, exiting, status, failures, started>>

EndSuiteStep(t) ==
    /\ Step(t, "end suite") /\ EndSuite(t) /\ Pop(t)
    /\ Owe(t, "suite")
    /\ UNCHANGED <<memoryVars, finished, once, handlers, process, exiting, status, failures, started>>

StartTestStep(t) ==
    /\ Step(t, "start test") /\ StartTest(t) /\ Pop(t)
    /\ started' = started + 1
    /\ UNCHANGED <<memoryVars, finished, once, handlers, process, exiting, status, failures, unmet, owed>>

StartSuiteStep(t) ==
    /\ Step(t, "start suite") /\ StartSuite(t) /\ Pop(t)
    /\ started' = started + 1
    /\ UNCHANGED <<memoryVars, finished, once, handlers, process, exiting, status, failures, unmet, owed>>

\* With no tests there is nothing to end: what gp_end_testing() has left is dropped.
AnyTests(t) ==
    /\ Step(t, "any tests")
    /\ Do(t, IF NothingTested THEN SubSeq(todo[t], Len(EndOfTesting) + 1, Len(todo[t])) ELSE Tail(todo[t]))
    /\ UNCHANGED <<testVars, memoryVars, programVars>>

\* Failures exit with the counts as they are.
VerdictFailed(t) ==
    /\ Step(t, "verdict") /\ AnyFailed
    /\ Exit(t, 1)
    /\ UNCHANGED <<testVars, memoryVars, finished, once, handlers, failures, started, unmet, owed>>

VerdictPassed(t) ==
    /\ Step(t, "verdict") /\ ~AnyFailed /\ Pop(t)
    /\ UNCHANGED <<testVars, memoryVars, programVars>>

ResetStep(t) ==
    \E c \in CountNames :
        /\ Step(t, ResetOf[c]) /\ Reset(c) /\ Pop(t)
        /\ UNCHANGED <<memoryVars, programVars>>

\* GP_DEFER_END runs what was deferred since its GP_DEFER_BEGIN.
RunDefer(t) ==
    /\ Step(t, "defers") /\ DeferWaits(t) /\ RunLast(t)
    /\ UNCHANGED <<testVars, todo, programVars>>

EndDefers(t) ==
    /\ Step(t, "defers") /\ ~DeferWaits(t) /\ CloseDefers(t) /\ Pop(t)
    /\ UNCHANGED <<testVars, programVars>>

\* gp_s_delete_auto_scope() runs whatever waits.
RunAllDefers(t) ==
    /\ Step(t, "all defers") /\ defers[t] # <<>> /\ RunLast(t)
    /\ UNCHANGED <<testVars, todo, programVars>>

EndAllDefers(t) ==
    /\ Step(t, "all defers") /\ defers[t] = <<>> /\ Pop(t)
    /\ UNCHANGED <<testVars, memoryVars, programVars>>

ThreadEndStep(t) ==
    /\ Step(t, "thread end") /\ Pop(t)
    /\ finished' = finished \cup {t}
    /\ UNCHANGED <<testVars, memoryVars, once, handlers, process, exiting, status, failures, started, unmet, owed>>

\* The handler that was registered last is called next, and never again.
StepsOf(h) ==
    CASE h = "end testing" -> EndOfTesting
      [] h = "auto scope" -> <<"all defers">>

CallHandler(t) ==
    /\ Step(t, "handlers") /\ handlers # <<>>
    /\ handlers' = SubSeq(handlers, 1, Len(handlers) - 1)
    /\ Do(t, StepsOf(handlers[Len(handlers)]) \o <<"handlers">>)
    /\ UNCHANGED <<testVars, memoryVars, finished, once, process, exiting, status, failures, started, unmet, owed>>

Gone(t) ==
    /\ Step(t, "handlers") /\ handlers = <<>>
    /\ process' = "gone" /\ Pop(t)
    /\ UNCHANGED <<testVars, memoryVars, finished, once, handlers, exiting, status, failures, started, unmet, owed>>

Steps(t) ==
    \/ EndTestStep(t) \/ EndSuiteStep(t) \/ StartTestStep(t) \/ StartSuiteStep(t)
    \/ AnyTests(t) \/ VerdictFailed(t) \/ VerdictPassed(t) \/ ResetStep(t)
    \/ RunDefer(t) \/ EndDefers(t) \/ RunAllDefers(t) \/ EndAllDefers(t)
    \/ ThreadEndStep(t)
    \/ CallHandler(t) \/ Gone(t)

Next ==
    \/ \E t \in Threads :
        \/ Test(t) \/ TestNull(t) \/ Suite(t) \/ Expect(t) \/ Assert(t)
        \/ Begin(t) \/ CallEnd(t) \/ ThreadEnd(t)
        \/ Steps(t)
    \/ Return \/ EndTesting

Spec == Init /\ [][Next]_vars /\ \A t \in Threads : WF_vars(Steps(t))

\* A thread that has left its scopes behind
Ends(t) ==
    \/ t \in finished
    \/ process # "running" /\ t = exiting
    \/ \E i \in DOMAIN todo[t] : todo[t][i] = "thread end"

(***************************************************************************)
(* Properties                                                              *)
(***************************************************************************)
\* A program in which an expectation failed in a test or a suite does not end well once the test or
\* suite came to its end: before the program began to exit, or as the one that the end of testing
\* ends for the thread that exits. Nor does one fail in which all held (src/src/assert.c,
\* gp_end_testing).
FailuresFail == process = "gone" => (owed => status # 0) /\ (status # 0 => failures > 0)

\* Where a deferred function waits
Places(k) ==
    {p \in Threads \X (1..MaxDefers) : p[2] \in DOMAIN defers[p[1]] /\ defers[p[1]][p[2]] = k}

\* A deferred function runs once: it waits, or it ran. While scopes are open those of the outer ones
\* wait, and none waits where the thread has ended or called exit() (GP_DEFER_END of
\* src/include/gpc/memory.h, gp_s_delete_auto_scope of src/src/memory.c).
DefersRunOnce ==
    /\ \A k \in 1..deferred : ran[k] + Cardinality(Places(k)) = 1
    /\ \A t \in Threads : Ends(t) \/ \A i \in DOMAIN opened[t] : SubSeq(defers[t], 1, Len(opened[t][i])) = opened[t][i]
    /\ \A t \in Threads : t \in finished \/ (process = "gone" /\ t = exiting) => defers[t] = <<>>

\* exit() comes to an end, also when the end of testing calls it again.
ExitCompletes == process = "exiting" ~> process = "gone"

=============================================================================
