------------------------------- MODULE UnitTest -------------------------------
(* The tests and suites of src/src/assert.c. Which test and suite runs, and   *)
(* whether it failed, is local to a thread; the counts of the program are     *)
(* atomic, and each is read and written in a step of its own.                 *)
EXTENDS Integers, Sequences

CONSTANT Threads

VARIABLES
    current_test,   \* of each thread: whether a test runs
    current_suite,
    test_failed,
    suite_failed,
    counts          \* gp_s_test_count, gp_s_suite_count, gp_s_tests_failed and gp_s_suites_failed

testVars == <<current_test, current_suite, test_failed, suite_failed, counts>>

No == [t \in Threads |-> FALSE]

CountNames == {"tests", "suites", "tests_failed", "suites_failed"}

TestInit ==
    /\ current_test = No /\ current_suite = No
    /\ test_failed = No /\ suite_failed = No
    /\ counts = [c \in CountNames |-> 0]

\* One more of a count, if a condition holds
Counted(c, condition) == counts' = [counts EXCEPT ![c] = IF condition THEN @ + 1 ELSE @]

(***************************************************************************)
(* Steps of gp_test(), gp_suite() and gp_internal_fail()                   *)
(***************************************************************************)
EndTest(t) ==
    /\ Counted("tests_failed", current_test[t] /\ test_failed[t])
    /\ current_test' = [current_test EXCEPT ![t] = FALSE]
    /\ UNCHANGED <<current_suite, test_failed, suite_failed>>

StartTest(t) ==
    /\ current_test' = [current_test EXCEPT ![t] = TRUE]
    /\ test_failed' = [test_failed EXCEPT ![t] = FALSE]
    /\ Counted("tests", TRUE)
    /\ UNCHANGED <<current_suite, suite_failed>>

EndSuite(t) ==
    /\ Counted("suites_failed", current_suite[t] /\ suite_failed[t])
    /\ current_suite' = [current_suite EXCEPT ![t] = FALSE]
    /\ UNCHANGED <<current_test, test_failed, suite_failed>>

StartSuite(t) ==
    /\ current_suite' = [current_suite EXCEPT ![t] = TRUE]
    /\ suite_failed' = [suite_failed EXCEPT ![t] = FALSE]
    /\ Counted("suites", TRUE)
    /\ UNCHANGED <<current_test, test_failed>>

\* Outside of tests and suites a failure is printed, and not kept.
Fail(t) ==
    /\ test_failed' = [test_failed EXCEPT ![t] = @ \/ current_test[t]]
    /\ suite_failed' = [suite_failed EXCEPT ![t] = @ \/ current_suite[t]]
    /\ UNCHANGED <<current_test, current_suite, counts>>

(***************************************************************************)
(* gp_end_testing(), as the steps of a thread that are left to take: what  *)
(* they find decides which are                                             *)
(***************************************************************************)
EndOfTesting ==
    <<"any tests", "end test", "end suite", "verdict",
      "reset tests", "reset suites", "reset tests_failed", "reset suites_failed">>

NothingTested == counts["tests"] + counts["suites"] = 0

\* The step that resets a count
ResetOf ==
    [tests |-> "reset tests", suites |-> "reset suites",
     tests_failed |-> "reset tests_failed", suites_failed |-> "reset suites_failed"]

\* The slip asks for tests only: a suite may fail outside of any.
AnyFailed_Tests == counts["tests_failed"] > 0

AnyFailed == counts["tests_failed"] > 0 \/ counts["suites_failed"] > 0

Reset(c) ==
    /\ counts' = [counts EXCEPT ![c] = 0]
    /\ UNCHANGED <<current_test, current_suite, test_failed, suite_failed>>

=============================================================================
