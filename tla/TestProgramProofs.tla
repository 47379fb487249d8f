-------------------------- MODULE TestProgramProofs --------------------------
(***************************************************************************)
(* Proofs about the program under test of module TestProgram, for any      *)
(* threads, and for any number of tests, failures and deferred functions.  *)
(*                                                                         *)
(* The argument. What a thread has left of a call is a rest of one of      *)
(* seven sequences of steps (Shape), so where a step is taken is known,    *)
(* and with it what came before (StepAt) and what comes next (Successor).  *)
(* Most steps leave the tests alone (Cases, QuietMove). A failure is owed  *)
(* from the end of its test or suite on. Until the status says so the      *)
(* counts have it, and the handler that looks at them is registered, or    *)
(* the thread that exits runs it and has not reached the verdict           *)
(* (Pending). It is not lost before: a test that goes on remembers it      *)
(* (Kept), it was counted when it was started (Counting), which registered *)
(* the handler (Asked), and only a thread that owes nothing resets the     *)
(* counts (Settled).                                                       *)
(*                                                                         *)
(* A deferred function has one place, or ran (Waiting). What waited where  *)
(* a scope was opened still waits in its place while the thread is in its  *)
(* scopes (Nested), since the scopes are in order and the functions after  *)
(* the innermost one are the ones that run. Whoever leaves its scopes      *)
(* behind runs all (AllRun): a thread by its end, the one that exits by a  *)
(* handler, which is registered where something is deferred.               *)
(***************************************************************************)
EXTENDS TestProgram, SequenceTheorems, FiniteSetTheorems, TLAPS

\* The steps of calls
StepNames ==
  {"end test", "end suite", "start test", "start suite", "any tests", "verdict",
   "reset tests", "reset suites", "reset tests_failed", "reset suites_failed",
   "defers", "all defers", "thread end", "handlers"}

\* The steps of a call from its i-th one on
IsRest(s, call, i) ==
  /\ s \in Seq(StepNames) /\ i \in 1 .. Len(call) + 1
  /\ Len(s) = Len(call) + 1 - i
  /\ \A j \in 1 .. Len(s) : s[j] = call[i + j - 1]

\* A step taken from what is left of a call was the next one of the call, and leaves the rest.
LEMMA RestOfRest ==
  ASSUME NEW call \in Seq(StepNames), NEW i, NEW s, IsRest(s, call, i), s # << >>
  PROVE  /\ IsRest(Tail(s), call, i + 1)
         /\ Head(s) = call[i]
         /\ i \in 1 .. Len(call)
<1>1. s \in Seq(StepNames) /\ i \in Nat /\ Len(s) \in Nat \ {0} /\ Len(s) = Len(call) + 1 - i
  BY DEF IsRest
<1>2. /\ Tail(s) \in Seq(StepNames)
      /\ Len(Tail(s)) = Len(s) - 1
      /\ \A j \in 1 .. Len(Tail(s)) : Tail(s)[j] = s[j + 1]
      /\ Head(s) = s[1]
  BY <1>1
<1>3. ASSUME NEW j \in 1 .. Len(Tail(s)) PROVE Tail(s)[j] = call[i + 1 + j - 1]
  <2>1. j + 1 \in 1 .. Len(s) /\ i + (j + 1) - 1 = i + 1 + j - 1 BY <1>1, <1>2
  <2> QED BY <2>1, <1>2 DEF IsRest
<1>4. Head(s) = call[i]
  BY <1>1, <1>2 DEF IsRest
<1> QED BY <1>1, <1>2, <1>3, <1>4 DEF IsRest

\* The calls of a thread, and what the handlers that exit() calls do
TestCall == <<"end test", "start test">>
NullCall == <<"end test">>
SuiteCall == <<"end test", "end suite", "start suite">>
DefersCall == <<"defers">>
EndCall == <<"all defers", "thread end">>
Handled == EndOfTesting \o <<"handlers">>
DefersHandled == <<"all defers">> \o <<"handlers">>

\* A step after a sequence
LEMMA OneMore ==
  ASSUME NEW S, NEW s \in Seq(S), NEW x \in S
  PROVE  /\ (s \o <<x>>) \in Seq(S)
         /\ Len(s \o <<x>>) = Len(s) + 1
         /\ \A i \in 1 .. Len(s) : (s \o <<x>>)[i] = s[i]
         /\ (s \o <<x>>)[Len(s) + 1] = x
<1> DEFINE h == <<x>>
<1>1. h \in Seq(S) /\ Len(h) = 1 /\ h[1] = x
  OBVIOUS
<1> HIDE DEF h
<1>2. /\ (s \o h) \in Seq(S) 
      /\ Len(s \o h) = Len(s) + Len(h)
      /\ \A i \in 1 .. Len(s) + Len(h) : (s \o h)[i] = IF i <= Len(s) THEN s[i] ELSE h[i - Len(s)]
  BY <1>1, ConcatProperties
<1>3. Len(s) \in Nat OBVIOUS
<1>4. \A i \in 1 .. Len(s) : (s \o h)[i] = s[i]
  BY <1>1, <1>2, <1>3
<1>5. (s \o h)[Len(s) + 1] = x
  <2>1. Len(s) + 1 \in 1 .. Len(s) + Len(h) /\ ~(Len(s) + 1 <= Len(s)) /\ Len(s) + 1 - Len(s) = 1
    BY <1>1, <1>3
  <2> QED BY <1>1, <1>2, <2>1
<1> QED BY <1>1, <1>2, <1>4, <1>5 DEF h

\* What the calls consist of
LEMMA CallSteps ==
  /\ TestCall \in Seq(StepNames) /\ Len(TestCall) = 2
  /\ TestCall[1] = "end test" /\ TestCall[2] = "start test"
  /\ NullCall \in Seq(StepNames) /\ Len(NullCall) = 1 /\ NullCall[1] = "end test"
  /\ SuiteCall \in Seq(StepNames) /\ Len(SuiteCall) = 3
  /\ SuiteCall[1] = "end test" /\ SuiteCall[2] = "end suite" /\ SuiteCall[3] = "start suite"
  /\ DefersCall \in Seq(StepNames) /\ Len(DefersCall) = 1 /\ DefersCall[1] = "defers"
  /\ EndCall \in Seq(StepNames) /\ Len(EndCall) = 2
  /\ EndCall[1] = "all defers" /\ EndCall[2] = "thread end"
<1>1. /\ TestCall \in Seq(StepNames) /\ Len(TestCall) = 2
      /\ TestCall[1] = "end test" /\ TestCall[2] = "start test"
  BY DEF TestCall, StepNames
<1>2. /\ NullCall \in Seq(StepNames) /\ Len(NullCall) = 1 /\ NullCall[1] = "end test"
  BY DEF NullCall, StepNames
<1>3. /\ SuiteCall \in Seq(StepNames) /\ Len(SuiteCall) = 3
      /\ SuiteCall[1] = "end test" /\ SuiteCall[2] = "end suite" /\ SuiteCall[3] = "start suite"
  BY DEF SuiteCall, StepNames
<1>4. /\ DefersCall \in Seq(StepNames) /\ Len(DefersCall) = 1 /\ DefersCall[1] = "defers"
  BY DEF DefersCall, StepNames
<1>5. /\ EndCall \in Seq(StepNames) /\ Len(EndCall) = 2
      /\ EndCall[1] = "all defers" /\ EndCall[2] = "thread end"
  BY DEF EndCall, StepNames
<1> QED BY <1>1, <1>2, <1>3, <1>4, <1>5

\* How many steps the calls have
LEMMA CallLengths ==
  /\ Len(TestCall) = 2 /\ Len(NullCall) = 1 /\ Len(SuiteCall) = 3
  /\ Len(DefersCall) = 1 /\ Len(EndCall) = 2
BY CallSteps

\* Calls consist of steps.
LEMMA CallsTyped ==
  /\ TestCall \in Seq(StepNames) /\ NullCall \in Seq(StepNames) /\ SuiteCall \in Seq(StepNames)
  /\ DefersCall \in Seq(StepNames) /\ EndCall \in Seq(StepNames)
BY CallSteps

\* What gp_end_testing() consists of
LEMMA EndSteps ==
  /\ EndOfTesting \in Seq(StepNames) /\ Len(EndOfTesting) = 8
  /\ EndOfTesting[1] = "any tests" /\ EndOfTesting[2] = "end test"
  /\ EndOfTesting[3] = "end suite" /\ EndOfTesting[4] = "verdict"
  /\ EndOfTesting[5] = "reset tests" /\ EndOfTesting[6] = "reset suites"
  /\ EndOfTesting[7] = "reset tests_failed" /\ EndOfTesting[8] = "reset suites_failed"
<1>1. EndOfTesting \in Seq(StepNames)
  BY DEF EndOfTesting, StepNames
<1>2. Len(EndOfTesting) = 8
  BY DEF EndOfTesting
<1> QED BY <1>1, <1>2 DEF EndOfTesting

\* What a handler does before the exit goes on
LEMMA HandledSteps ==
  /\ Handled \in Seq(StepNames) /\ Len(Handled) = 9
  /\ \A i \in 1 .. 8 : Handled[i] = EndOfTesting[i]
  /\ Handled[9] = "handlers"
  /\ DefersHandled \in Seq(StepNames) /\ Len(DefersHandled) = 2
  /\ DefersHandled[1] = "all defers" /\ DefersHandled[2] = "handlers"
<1>1. PICK h \in StepNames : h = "handlers"
  BY DEF StepNames
<1>2. PICK d \in StepNames : d = "all defers"
  BY DEF StepNames
<1>3. EndOfTesting \in Seq(StepNames) /\ Len(EndOfTesting) = 8
  BY EndSteps
<1>4. Handled = EndOfTesting \o <<h>> /\ DefersHandled = <<d>> \o <<h>>
  BY <1>1, <1>2 DEF Handled, DefersHandled
<1>5. /\ Handled \in Seq(StepNames) /\ Len(Handled) = 9
      /\ \A i \in 1 .. 8 : Handled[i] = EndOfTesting[i]
      /\ Handled[9] = h
  <2>2. PICK e \in Seq(StepNames) : Len(e) = 8 /\ e = EndOfTesting
    BY <1>3
  <2>3. /\ (e \o <<h>>) \in Seq(StepNames)
        /\ Len(e \o <<h>>) = Len(e) + 1
        /\ \A i \in 1 .. Len(e) : (e \o <<h>>)[i] = e[i]
        /\ (e \o <<h>>)[Len(e) + 1] = h
    BY OneMore
  <2>1. /\ Handled \in Seq(StepNames)
        /\ Len(Handled) = Len(e) + 1
        /\ \A i \in 1 .. Len(e) : Handled[i] = e[i]
        /\ Handled[Len(e) + 1] = h
    BY <1>4, <2>2, <2>3
  <2> QED BY <2>1, <2>2
<1>6. <<d>> \in Seq(StepNames) /\ Len(<<d>>) = 1 /\ <<d>>[1] = d
  OBVIOUS
<1>7. /\ DefersHandled \in Seq(StepNames) /\ Len(DefersHandled) = 2
      /\ DefersHandled[1] = d /\ DefersHandled[2] = h
  BY <1>4, <1>6, OneMore
<1> QED BY <1>1, <1>2, <1>5, <1>7

\* The first steps of calls
LEMMA FirstSteps ==
  /\ Head(TestCall) = "end test" /\ Head(NullCall) = "end test" /\ Head(SuiteCall) = "end test"
  /\ Head(EndCall) = "all defers" /\ Head(EndOfTesting) = "any tests" /\ Head(Handled) = "any tests"
  /\ Head(DefersHandled) = "all defers" /\ Head(<<"handlers">>) = "handlers" /\ Head(<<"defers">>) = "defers"
<1>1. \A s : Head(s) = s[1] OBVIOUS
<1>2. TestCall[1] = "end test" /\ NullCall[1] = "end test" /\ SuiteCall[1] = "end test" /\ EndCall[1] = "all defers"
  BY CallSteps
<1>3. EndOfTesting[1] = "any tests" /\ DefersHandled[1] = "all defers"
  BY EndSteps, HandledSteps
<1>4. Handled[1] = "any tests"
  <2>1. 1 \in 1 .. 8 OBVIOUS
  <2> QED BY <2>1, EndSteps, HandledSteps
<1>5. <<"handlers">>[1] = "handlers" /\ <<"defers">>[1] = "defers" OBVIOUS
<1> QED BY <1>1, <1>2, <1>3, <1>4, <1>5

\* The thread that exits
Exits(t) == process = "exiting" /\ t = exiting

\* What a thread has left of a call; of one of its own, of gp_end_testing() in a program that runs,
\* and of an exit
Left(t, call, i) == IsRest(todo[t], call, i)

OwnLeft(t, call, i) == ~Exits(t) /\ Left(t, call, i)

TestingLeft(t, i) ==
  /\ process = "running" /\ t = Main /\ finished = Threads \ {Main}
  /\ Left(t, EndOfTesting, i)

HandlingLeft(t, i) == Exits(t) /\ Left(t, Handled, i)

EndLeft(t, i) == TestingLeft(t, i) \/ HandlingLeft(t, i)

\* The calls that any thread makes
OwnCalls == {TestCall, NullCall, SuiteCall, DefersCall, EndCall}

\* A thread is in one of its own calls, or in gp_end_testing(), or exits.
Shape(t) ==
  \/ \E call \in OwnCalls : \E i \in 1 .. 4 : OwnLeft(t, call, i)
  \/ \E i \in 1 .. 8 : TestingLeft(t, i)
  \/ \E i \in 1 .. 9 : HandlingLeft(t, i)
  \/ Exits(t) /\ Left(t, DefersHandled, 1)

\* The step that a thread takes next
At(t, name) == todo[t] # << >> /\ Head(todo[t]) = name

\* A thread in one of its own calls takes the next step of that call.
LEMMA OwnStep ==
  ASSUME NEW t \in Threads, NEW name, At(t, name),
         NEW call \in OwnCalls, NEW i \in 1 .. 4, OwnLeft(t, call, i)
  PROVE  /\ IsRest(Tail(todo[t]), call, i + 1)
         /\ name = call[i] /\ i \in 1 .. Len(call)
  <1>1. call \in Seq(StepNames)
    BY CallSteps DEF OwnCalls
  <1> QED BY <1>1, RestOfRest DEF OwnLeft, Left, At

\* A thread that ends the testing takes the next step of gp_end_testing().
LEMMA EndStep ==
  ASSUME NEW t \in Threads, NEW name, At(t, name), NEW i \in 1 .. 8, EndLeft(t, i)
  PROVE  name = EndOfTesting[i]
  <1>1. CASE TestingLeft(t, i)
    BY <1>1, EndSteps, RestOfRest DEF TestingLeft, Left, At
  <1>2. CASE HandlingLeft(t, i)
    <2>1. Head(todo[t]) = Handled[i]
      BY <1>2, HandledSteps, RestOfRest DEF HandlingLeft, Left, At
    <2> QED BY <2>1, HandledSteps DEF At
  <1> QED BY <1>1, <1>2 DEF EndLeft

\* A step is taken only in the calls that contain it, and at its place there.
LEMMA StepAt ==
  ASSUME NEW t \in Threads, NEW name, At(t, name), Shape(t)
  PROVE  /\ name = "end test" => \/ OwnLeft(t, TestCall, 1)
                                 \/ OwnLeft(t, NullCall, 1)
                                 \/ OwnLeft(t, SuiteCall, 1)
                                 \/ EndLeft(t, 2)
         /\ name = "end suite" => OwnLeft(t, SuiteCall, 2) \/ EndLeft(t, 3)
         /\ name = "start test" => OwnLeft(t, TestCall, 2)
         /\ name = "start suite" => OwnLeft(t, SuiteCall, 3)
         /\ name = "any tests" => EndLeft(t, 1)
         /\ name = "verdict" => EndLeft(t, 4)
         /\ name = "reset tests" => EndLeft(t, 5)
         /\ name = "reset suites" => EndLeft(t, 6)
         /\ name = "reset tests_failed" => EndLeft(t, 7)
         /\ name = "reset suites_failed" => EndLeft(t, 8)
         /\ name = "defers" => OwnLeft(t, DefersCall, 1)
         /\ name = "all defers" => OwnLeft(t, EndCall, 1) \/ (Exits(t) /\ Left(t, DefersHandled, 1))
         /\ name = "thread end" => OwnLeft(t, EndCall, 2)
         /\ name = "handlers" => HandlingLeft(t, 9)
  <1>1. CASE \E call \in OwnCalls : \E i \in 1 .. 4 : OwnLeft(t, call, i)
    <2>1. PICK call \in OwnCalls, i \in 1 .. 4 : OwnLeft(t, call, i)
      BY <1>1
    <2>2. name = call[i] /\ i \in 1 .. Len(call)
      BY <2>1, OwnStep
    <2>3. CASE call = TestCall
      <3>1. i = 1 \/ i = 2 BY <2>2, <2>3, CallLengths
      <3> QED BY <2>1, <2>2, <2>3, <3>1, CallSteps
    <2>4. CASE call = NullCall
      <3>1. i = 1 BY <2>2, <2>4, CallLengths
      <3> QED BY <2>1, <2>2, <2>4, <3>1, CallSteps
    <2>5. CASE call = SuiteCall
      <3>1. i = 1 \/ i = 2 \/ i = 3 BY <2>2, <2>5, CallLengths
      <3> QED BY <2>1, <2>2, <2>5, <3>1, CallSteps
    <2>6. CASE call = DefersCall
      <3>1. i = 1 BY <2>2, <2>6, CallLengths
      <3> QED BY <2>1, <2>2, <2>6, <3>1, CallSteps
    <2>7. CASE call = EndCall
      <3>1. i = 1 \/ i = 2 BY <2>2, <2>7, CallLengths
      <3> QED BY <2>1, <2>2, <2>7, <3>1, CallSteps
    <2> QED BY <2>3, <2>4, <2>5, <2>6, <2>7 DEF OwnCalls
  <1>2. CASE \E i \in 1 .. 8 : EndLeft(t, i)
    <2>1. PICK i \in 1 .. 8 : EndLeft(t, i)
      BY <1>2
    <2>2. name = EndOfTesting[i]
      BY <2>1, EndStep
    <2>3. i = 1 \/ i = 2 \/ i = 3 \/ i = 4 \/ i = 5 \/ i = 6 \/ i = 7 \/ i = 8
      OBVIOUS
    <2> QED BY <2>1, <2>2, <2>3, EndSteps
  <1>3. CASE HandlingLeft(t, 9)
    <2>1. name = "handlers"
      BY <1>3, HandledSteps, RestOfRest DEF HandlingLeft, Left, At
    <2> QED BY <1>3, <2>1
  <1>4. CASE Exits(t) /\ Left(t, DefersHandled, 1)
    <2>1. name = "all defers"
      BY <1>4, HandledSteps, RestOfRest DEF Left, At
    <2> QED BY <1>4, <2>1
  <1>5. (\E i \in 1 .. 9 : HandlingLeft(t, i)) => (\E i \in 1 .. 8 : EndLeft(t, i)) \/ HandlingLeft(t, 9)
    <2>1. SUFFICES ASSUME NEW i \in 1 .. 9, HandlingLeft(t, i)
                   PROVE  (\E k \in 1 .. 8 : EndLeft(t, k)) \/ HandlingLeft(t, 9)
      OBVIOUS
    <2>2. i \in 1 .. 8 \/ i = 9
      OBVIOUS
    <2> QED BY <2>1, <2>2 DEF EndLeft
  <1> QED BY <1>1, <1>2, <1>3, <1>4, <1>5 DEF Shape, EndLeft

\* The threads and the process are in known states.
ControlTyped ==
  /\ todo \in [Threads -> Seq(StepNames)] /\ finished \subseteq Threads
  /\ process \in {"running", "exiting", "gone"} /\ exiting \in Threads

\* Until the process is gone each thread has left what Shape says, and nothing once it finished.
Control ==
  /\ ControlTyped
  /\ process # "gone" => \A t \in Threads : Shape(t) /\ (t \in finished => todo[t] = << >>)

SameControl == UNCHANGED <<finished, process, exiting>>

\* The calls that any thread makes have up to three steps.
LEMMA OwnCallLengths ==
  ASSUME NEW call \in OwnCalls
  PROVE  call \in Seq(StepNames) /\ Len(call) \in 1 .. 3
<1>1. CASE call = TestCall
  BY <1>1, CallLengths, CallsTyped
<1>2. CASE call = NullCall
  BY <1>2, CallLengths, CallsTyped
<1>3. CASE call = SuiteCall
  BY <1>3, CallLengths, CallsTyped
<1>4. CASE call = DefersCall
  BY <1>4, CallLengths, CallsTyped
<1>5. CASE call = EndCall
  BY <1>5, CallLengths, CallsTyped
<1> QED BY <1>1, <1>2, <1>3, <1>4, <1>5 DEF OwnCalls

\* Nothing is left of a call that is over.
LEMMA NothingLeft ==
  ASSUME NEW call \in OwnCalls
  PROVE  \E i \in 1 .. 4 : IsRest(<< >>, call, i)
<1>1. call \in Seq(StepNames) /\ Len(call) \in 1 .. 3
  BY OwnCallLengths
<1>2. << >> \in Seq(StepNames) /\ Len(<< >>) = 0
  OBVIOUS
<1>3. IsRest(<< >>, call, Len(call) + 1)
  BY <1>1, <1>2 DEF IsRest
<1>4. Len(call) + 1 \in 1 .. 4
  <2>1. \A n \in 1 .. 3 : n + 1 \in 1 .. 4 OBVIOUS
  <2> QED BY <1>1, <2>1
<1> QED BY <1>3, <1>4

\* After the last step of a call nothing is left.
LEMMA RestEmpty ==
  ASSUME NEW call, NEW i, NEW s, IsRest(s, call, i), i = Len(call) + 1, Len(call) \in Nat
  PROVE  s = << >>
BY DEF IsRest

\* What a thread does leaves the calls of others as they are.
LEMMA OthersKeep ==
  ASSUME ControlTyped, NEW t \in Threads, NEW steps, Do(t, steps), SameControl,
         NEW u \in Threads, u # t, Shape(u)
  PROVE  Shape(u)'
<1>1. todo'[u] = todo[u]
  BY DEF ControlTyped, Do
<1>2. \A call, i : /\ OwnLeft(u, call, i) => OwnLeft(u, call, i)'
                   /\ TestingLeft(u, i) => TestingLeft(u, i)'
                   /\ HandlingLeft(u, i) => HandlingLeft(u, i)'
                   /\ Exits(u) /\ Left(u, call, i) => (Exits(u) /\ Left(u, call, i))'
  BY <1>1 DEF OwnLeft, TestingLeft, HandlingLeft, Exits, Left, SameControl
<1> QED BY <1>2 DEF Shape

\* A thread that begins a call has its steps left, and others keep theirs.
LEMMA Calling ==
  ASSUME ControlTyped, NEW t \in Threads, NEW steps \in Seq(StepNames), Do(t, steps)
  PROVE  /\ todo' \in [Threads -> Seq(StepNames)] /\ todo'[t] = steps
         /\ \A u \in Threads \ {t} : todo'[u] = todo[u]
BY DEF ControlTyped, Do

\* A step leaves a thread in the call that it is in.
LEMMA PopShape ==
  ASSUME ControlTyped, NEW t \in Threads, Shape(t), NEW name, At(t, name), name # "handlers",
         Pop(t), SameControl
  PROVE  Shape(t)' /\ todo' \in [Threads -> Seq(StepNames)]
<1>1. Tail(todo[t]) \in Seq(StepNames)
  BY DEF ControlTyped, At
<1>2. todo'[t] = Tail(todo[t]) /\ todo' \in [Threads -> Seq(StepNames)]
  BY <1>1, Calling DEF Pop
<1>3. Exits(t)' <=> Exits(t)
  BY DEF Exits, SameControl
<1>4. CASE \E call \in OwnCalls : \E i \in 1 .. 4 : OwnLeft(t, call, i)
  <2>1. PICK call \in OwnCalls, i \in 1 .. 4 : OwnLeft(t, call, i)
    BY <1>4
  <2>2. IsRest(Tail(todo[t]), call, i + 1) /\ i \in 1 .. Len(call) /\ Len(call) \in 1 .. 3
    BY <2>1, OwnStep, OwnCallLengths
  <2>3. OwnLeft(t, call, i + 1)'
    BY <1>2, <1>3, <2>1, <2>2 DEF OwnLeft, Left
  <2>4. \A n \in 1 .. 3 : i \in 1 .. n => i + 1 \in 1 .. 4
    OBVIOUS
  <2>5. i + 1 \in 1 .. 4
    BY <2>2, <2>4
  <2> QED BY <1>2, <2>3, <2>5 DEF Shape
<1>5. CASE \E i \in 1 .. 8 : TestingLeft(t, i)
  <2>1. PICK i \in 1 .. 8 : TestingLeft(t, i)
    BY <1>5
  <2>2. IsRest(Tail(todo[t]), EndOfTesting, i + 1)
    BY <2>1, EndSteps, RestOfRest DEF TestingLeft, Left, At
  <2>3. CASE i = 8
    <3>0. Len(EndOfTesting) = 8 BY EndSteps
    <3>9. i + 1 = Len(EndOfTesting) + 1 /\ Len(EndOfTesting) \in Nat
      BY <2>3, <3>0
    <3>1. Tail(todo[t]) = << >>
      BY <2>2, <3>9, RestEmpty
    <3>2. ~Exits(t)
      BY <2>1 DEF TestingLeft, Exits
    <3>3. TestCall \in OwnCalls BY DEF OwnCalls
    <3>4. PICK k \in 1 .. 4 : IsRest(<< >>, TestCall, k)
      BY <3>3, NothingLeft
    <3>5. OwnLeft(t, TestCall, k)'
      BY <1>2, <1>3, <3>1, <3>2, <3>4 DEF OwnLeft, Left
    <3> QED BY <1>2, <3>3, <3>5 DEF Shape
  <2>4. CASE i # 8
    <3>1. i + 1 \in 1 .. 8 BY <2>4
    <3>2. TestingLeft(t, i + 1)'
      BY <1>2, <2>1, <2>2 DEF TestingLeft, Left, SameControl
    <3> QED BY <1>2, <3>1, <3>2 DEF Shape
  <2> QED BY <2>3, <2>4
<1>6. CASE \E i \in 1 .. 9 : HandlingLeft(t, i)
  <2>1. PICK i \in 1 .. 9 : HandlingLeft(t, i)
    BY <1>6
  <2>2. IsRest(Tail(todo[t]), Handled, i + 1) /\ name = Handled[i]
    BY <2>1, HandledSteps, RestOfRest DEF HandlingLeft, Left, At
  <2>3. i # 9
    BY <2>2, HandledSteps
  <2>4. i + 1 \in 1 .. 9 BY <2>3
  <2>5. HandlingLeft(t, i + 1)'
    BY <1>2, <1>3, <2>1, <2>2 DEF HandlingLeft, Left
  <2> QED BY <1>2, <2>4, <2>5 DEF Shape
<1>7. CASE Exits(t) /\ Left(t, DefersHandled, 1)
  <2>1. IsRest(Tail(todo[t]), DefersHandled, 2)
    <3>1. IsRest(Tail(todo[t]), DefersHandled, 1 + 1)
      BY <1>7, HandledSteps, RestOfRest DEF Left, At
    <3> QED BY <3>1
  <2>2. IsRest(Tail(todo[t]), Handled, 9)
    <3>1. PICK s \in Seq(StepNames) : s = Tail(todo[t])
      BY <1>1
    <3>2. PICK d \in Seq(StepNames) : d = DefersHandled /\ Len(d) = 2
      BY HandledSteps
    <3>3. IsRest(s, d, 2)
      BY <2>1, <3>1, <3>2
    <3>4. Len(s) = 1 /\ s[1] = d[2]
      BY <3>2, <3>3 DEF IsRest
    <3>5. PICK h \in Seq(StepNames) : h = Handled /\ Len(h) = 9
      BY HandledSteps
    <3>6. h[9] = d[2]
      BY <3>2, <3>5, HandledSteps
    <3>7. IsRest(s, h, 9)
      BY <3>4, <3>5, <3>6 DEF IsRest
    <3> QED BY <3>1, <3>5, <3>7
  <2>3. HandlingLeft(t, 9)'
    BY <1>2, <1>3, <1>7, <2>2 DEF HandlingLeft, Left
  <2> QED BY <1>2, <2>3 DEF Shape
<1> QED BY <1>2, <1>4, <1>5, <1>6, <1>7 DEF Shape

\* A sequence of one element
LEMMA Single ==
  ASSUME NEW S, NEW x \in S
  PROVE  \E s \in Seq(S) : s = <<x>> /\ Len(s) = 1 /\ s[1] = x
<1>1. <<x>> \in Seq(S) /\ Len(<<x>>) = 1 /\ <<x>>[1] = x
  OBVIOUS
<1> QED BY <1>1

\* The part of a sequence that is its last element
LEMMA LastOne ==
  ASSUME NEW S, NEW s \in Seq(S), NEW n \in Nat \ {0}, Len(s) = n
  PROVE  /\ SubSeq(s, n, n) \in Seq(S) /\ Len(SubSeq(s, n, n)) = 1
         /\ SubSeq(s, n, n)[1] = s[n]
<1>1. \A i \in n .. n : s[i] \in S
  OBVIOUS
<1>2. /\ SubSeq(s, n, n) \in Seq(S)
      /\ Len(SubSeq(s, n, n)) = IF n <= n THEN n - n + 1 ELSE 0
      /\ \A i \in 1 .. n - n + 1 : SubSeq(s, n, n)[i] = s[n + i - 1]
  BY <1>1, SubSeqProperties
<1>3. 1 \in 1 .. n - n + 1 /\ n + 1 - 1 = n
  OBVIOUS
<1>4. SubSeq(s, n, n)[1] = s[n]
  BY <1>2, <1>3
<1> QED BY <1>2, <1>4

\* A call that begins is left whole.
LEMMA Begun ==
  ASSUME NEW call \in Seq(StepNames)
  PROVE  IsRest(call, call, 1)
<1>1. Len(call) \in Nat /\ 1 \in 1 .. Len(call) + 1 /\ Len(call) = Len(call) + 1 - 1
  OBVIOUS
<1>2. \A j \in 1 .. Len(call) : 1 + j - 1 = j
  OBVIOUS
<1> QED BY <1>1, <1>2 DEF IsRest

\* A thread that is between calls may begin one.
LEMMA ControlCall ==
  ASSUME Control, NEW t \in Threads, Free(t), NEW call \in OwnCalls, Do(t, call), SameControl
  PROVE  Control'
<1>1. call \in Seq(StepNames)
  BY OwnCallLengths
<1>2. /\ todo' \in [Threads -> Seq(StepNames)] /\ todo'[t] = call
      /\ \A u \in Threads \ {t} : todo'[u] = todo[u]
  BY <1>1, Calling DEF Control
<1>3. OwnLeft(t, call, 1)'
  BY <1>1, <1>2, Begun DEF OwnLeft, Left, Exits, Free, SameControl
<1>4. Shape(t)'
  <2>1. 1 \in 1 .. 4 OBVIOUS
  <2> QED BY <1>3, <2>1 DEF Shape
<1>5. \A u \in Threads : Shape(u)'
  BY <1>4, OthersKeep DEF Control, Free
<1> QED BY <1>2, <1>5 DEF Control, ControlTyped, SameControl, Free

\* A step keeps the control of the program.
LEMMA ControlPop ==
  ASSUME Control, NEW t \in Threads, NEW name, Step(t, name), name # "handlers", Pop(t), SameControl
  PROVE  Control'
<1>1. At(t, name) /\ process # "gone"
  BY DEF Step, At
<1>2. Shape(t)' /\ todo' \in [Threads -> Seq(StepNames)]
  BY <1>1, PopShape DEF Control
<1>3. \A u \in Threads : Shape(u)'
  BY <1>1, <1>2, OthersKeep DEF Control, Pop
<1>4. t \notin finished
  BY <1>1 DEF Control, At
<1>5. \A u \in Threads \ {t} : todo'[u] = todo[u]
  BY DEF Control, ControlTyped, Pop, Do
<1> QED BY <1>1, <1>2, <1>3, <1>4, <1>5 DEF Control, ControlTyped, SameControl

\* exit() leaves the calls that its thread was in, and only the handlers are left.
LEMMA ControlExit ==
  ASSUME Control, process # "gone", NEW t \in Threads, NEW code, Exit(t, code), UNCHANGED finished, t \notin finished
  PROVE  Control' /\ HandlingLeft(t, 9)'
<1>1. PICK h \in Seq(StepNames) : h = Handled /\ Len(h) = 9
  BY HandledSteps
<1>2. PICK g \in StepNames : g = "handlers"
  BY DEF StepNames
<1>3. PICK s \in Seq(StepNames) : s = <<g>> /\ Len(s) = 1 /\ s[1] = g
  BY Single
<1>4. s[1] = h[9]
  BY <1>1, <1>2, <1>3, HandledSteps
<1>13. s = <<"handlers">>
  BY <1>2, <1>3
<1>5. IsRest(s, h, 9)
  BY <1>1, <1>3, <1>4 DEF IsRest
<1>6. todo' \in [Threads -> Seq(StepNames)] /\ todo'[t] = s /\ \A u \in Threads \ {t} : todo'[u] = todo[u]
  BY <1>13, Calling DEF Exit, Control
<1>7. HandlingLeft(t, 9)'
  BY <1>1, <1>5, <1>6 DEF HandlingLeft, Left, Exits, Exit
<1>8. Shape(t)'
  <2>1. 9 \in 1 .. 9 OBVIOUS
  <2> QED BY <1>7, <2>1 DEF Shape
<1>9. ASSUME NEW u \in Threads \ {t}
      PROVE  Shape(u)'
  <2>1. ~ Exits(u) /\ ~ Exits(u)'
    BY DEF Exits, Exit
  <2>2. \E call \in OwnCalls : \E i \in 1 .. 4 : OwnLeft(u, call, i)
    <3>1. Shape(u) BY DEF Control
    <3>2. ASSUME NEW i, TestingLeft(u, i) PROVE FALSE
      BY <3>2 DEF TestingLeft
    <3> QED BY <2>1, <3>1, <3>2 DEF Shape, HandlingLeft
  <2>3. PICK call \in OwnCalls, i \in 1 .. 4 : OwnLeft(u, call, i)
    BY <2>2
  <2>4. OwnLeft(u, call, i)'
    BY <1>6, <2>1, <2>3 DEF OwnLeft, Left
  <2> QED BY <2>4 DEF Shape
<1>10. \A u \in Threads : Shape(u)'
  BY <1>8, <1>9
<1>11. ControlTyped'
  BY <1>6 DEF Control, ControlTyped, Exit
<1>12. \A u \in Threads : u \in finished' => todo'[u] = << >>
  BY <1>6 DEF Control
<1> QED BY <1>7, <1>10, <1>11, <1>12 DEF Control

\* gp_end_testing() begins.
LEMMA ControlEndTesting ==
  ASSUME Control, Main \in Threads, EndTesting
  PROVE  Control' /\ TestingLeft(Main, 1)'
<1>1. EndOfTesting \in Seq(StepNames)
  BY EndSteps
<1>2. /\ todo' \in [Threads -> Seq(StepNames)] /\ todo'[Main] = EndOfTesting
      /\ \A u \in Threads \ {Main} : todo'[u] = todo[u]
  BY <1>1, Calling DEF Control, EndTesting
<1>3. SameControl
  BY DEF EndTesting, programVars, SameControl
<1>4. TestingLeft(Main, 1)'
  BY <1>1, <1>2, <1>3, Begun DEF TestingLeft, Left, EndTesting, SameControl
<1>5. Shape(Main)'
  <2>1. 1 \in 1 .. 8 OBVIOUS
  <2> QED BY <1>4, <2>1 DEF Shape
<1>6. \A u \in Threads : Shape(u)'
  BY <1>3, <1>5, OthersKeep DEF Control, EndTesting
<1> QED BY <1>2, <1>3, <1>4, <1>6 DEF Control, ControlTyped, SameControl, EndTesting, Free

\* With no tests gp_end_testing() is over, otherwise its next step follows.
LEMMA ControlAnyTests ==
  ASSUME Control, NEW t \in Threads, AnyTests(t)
  PROVE  Control' /\ (HandlingLeft(t, 1) => HandlingLeft(t, 2)' \/ (NothingTested /\ HandlingLeft(t, 9)'))
<1>1. Step(t, "any tests") /\ SameControl
  BY DEF AnyTests, programVars, SameControl
<1>2. At(t, "any tests") /\ process # "gone" /\ Shape(t) /\ t \notin finished
  BY <1>1 DEF Step, At, Control
<1>3. EndLeft(t, 1)
  BY <1>2, StepAt
<1>4. Exits(t)' <=> Exits(t)
  BY <1>1 DEF Exits, SameControl
<1>5. CASE ~NothingTested
  <2>1. Pop(t)
    BY <1>5 DEF AnyTests, Pop
  <2>2. Control'
    <3>1. "any tests" # "handlers" OBVIOUS
    <3> QED BY <1>1, <2>1, <3>1, ControlPop
  <2>3. ASSUME HandlingLeft(t, 1)
        PROVE  HandlingLeft(t, 2)'
    <3>1. IsRest(Tail(todo[t]), Handled, 1 + 1)
      BY <1>2, <2>3, HandledSteps, RestOfRest DEF HandlingLeft, Left, At
    <3>2. todo'[t] = Tail(todo[t])
      BY <2>1 DEF Pop, Do, Control, ControlTyped
    <3> QED BY <1>4, <2>3, <3>1, <3>2 DEF HandlingLeft, Left
  <2> QED BY <2>2, <2>3
<1>6. CASE NothingTested
  <2> DEFINE left == SubSeq(todo[t], Len(EndOfTesting) + 1, Len(todo[t]))
  <2>1. PICK s \in Seq(StepNames) : s = todo[t]
    BY DEF Control, ControlTyped
  <2>2. left = SubSeq(s, 9, Len(s))
    <3>1. Len(EndOfTesting) = 8 BY EndSteps
    <3>2. Len(EndOfTesting) + 1 = 9 BY <3>1
    <3> QED BY <2>1, <3>2
  <2>3. Do(t, left)
    BY <1>6 DEF AnyTests
  <2> HIDE DEF left
  <2>4. CASE TestingLeft(t, 1)
    <3>1. Len(s) = 8
      <4>1. IsRest(s, EndOfTesting, 1) /\ Len(EndOfTesting) = 8
        BY <2>1, <2>4, EndSteps DEF TestingLeft, Left
      <4>2. Len(s) = Len(EndOfTesting) + 1 - 1
        BY <4>1 DEF IsRest
      <4> QED BY <4>1, <4>2
    <3>2. SubSeq(s, 9, 8) = << >>
      OBVIOUS
    <3>3. left = << >>
      BY <2>2, <3>1, <3>2
    <3>4. << >> \in Seq(StepNames)
      OBVIOUS
    <3>5. /\ todo' \in [Threads -> Seq(StepNames)] /\ todo'[t] = << >>
          /\ \A u \in Threads \ {t} : todo'[u] = todo[u]
      BY <2>3, <3>3, <3>4, Calling DEF Control
    <3>6. TestCall \in OwnCalls BY DEF OwnCalls
    <3>7. PICK k \in 1 .. 4 : IsRest(<< >>, TestCall, k)
      BY <3>6, NothingLeft
    <3>8. OwnLeft(t, TestCall, k)' /\ ~Exits(t)
      BY <1>1, <2>4, <3>5, <3>7 DEF OwnLeft, Left, TestingLeft, Exits, SameControl
    <3>9. Shape(t)'
      BY <3>6, <3>8 DEF Shape
    <3>10. \A u \in Threads : Shape(u)'
      BY <1>1, <1>2, <2>3, <3>9, OthersKeep DEF Control
    <3> QED BY <1>1, <1>2, <3>5, <3>8, <3>10 DEF Control, ControlTyped, SameControl, HandlingLeft
  <2>5. CASE HandlingLeft(t, 1)
    <3>1. PICK h \in Seq(StepNames) : h = Handled /\ Len(h) = 9
      BY HandledSteps
    <3>2. IsRest(s, h, 1)
      BY <2>1, <2>5, <3>1 DEF HandlingLeft, Left
    <3>3. Len(s) = 9 /\ s[9] = h[9]
      <4>1. Len(s) = 9 BY <3>1, <3>2 DEF IsRest
      <4>2. 9 \in 1 .. 9 /\ 1 + 9 - 1 = 9 OBVIOUS
      <4>3. \A j \in 1 .. Len(s) : s[j] = h[1 + j - 1]
        BY <3>2 DEF IsRest
      <4>4. s[9] = h[1 + 9 - 1]
        BY <4>1, <4>2, <4>3
      <4> QED BY <4>1, <4>2, <4>4
    <3>4. /\ SubSeq(s, 9, 9) \in Seq(StepNames) /\ Len(SubSeq(s, 9, 9)) = 1
          /\ SubSeq(s, 9, 9)[1] = s[9]
      <4>1. Len(s) = 9 BY <3>3
      <4>2. 9 \in Nat \ {0} OBVIOUS
      <4> QED BY <4>1, <4>2, LastOne
    <3>5. left \in Seq(StepNames) /\ Len(left) = 1 /\ left[1] = h[9]
      BY <2>2, <3>3, <3>4
    <3>6. IsRest(left, h, 9)
      BY <3>1, <3>5 DEF IsRest
    <3>7. /\ todo' \in [Threads -> Seq(StepNames)] /\ todo'[t] = left
          /\ \A u \in Threads \ {t} : todo'[u] = todo[u]
      BY <2>3, <3>5, Calling DEF Control
    <3>8. HandlingLeft(t, 9)'
      BY <1>4, <2>5, <3>1, <3>6, <3>7 DEF HandlingLeft, Left
    <3>9. Shape(t)'
      <4>1. 9 \in 1 .. 9 OBVIOUS
      <4> QED BY <3>8, <4>1 DEF Shape
    <3>10. \A u \in Threads : Shape(u)'
      BY <1>1, <1>2, <2>3, <3>9, OthersKeep DEF Control
    <3> QED BY <1>1, <1>2, <1>6, <3>7, <3>8, <3>10 DEF Control, ControlTyped, SameControl
  <2> QED BY <1>3, <2>4, <2>5 DEF EndLeft
<1> QED BY <1>5, <1>6

\* A thread that ends has nothing left.
LEMMA ControlThreadEnd ==
  ASSUME Control, NEW t \in Threads, ThreadEndStep(t)
  PROVE  Control'
<1>1. At(t, "thread end") /\ process # "gone" /\ Shape(t) /\ t \notin finished
  BY DEF ThreadEndStep, Step, At, Control
<1>2. OwnLeft(t, EndCall, 2)
  BY <1>1, StepAt
<1>3. IsRest(Tail(todo[t]), EndCall, 2 + 1)
  BY <1>1, <1>2, CallSteps, RestOfRest DEF OwnLeft, Left, At
<1>4. Len(EndCall) = 2 /\ 2 + 1 = Len(EndCall) + 1 /\ Len(EndCall) \in Nat
  BY CallLengths
<1>5. Tail(todo[t]) = << >>
  BY <1>3, <1>4, RestEmpty
<1>6. << >> \in Seq(StepNames)
  OBVIOUS
<1>7. /\ todo' \in [Threads -> Seq(StepNames)] /\ todo'[t] = << >>
      /\ \A u \in Threads \ {t} : todo'[u] = todo[u]
  BY <1>5, <1>6, Calling DEF Control, ThreadEndStep, Pop
<1>8. OwnLeft(t, EndCall, 3)'
  <2>1. 2 + 1 = 3 OBVIOUS
  <2> QED BY <1>2, <1>3, <1>5, <1>7, <2>1 DEF OwnLeft, Left, Exits, ThreadEndStep
<1>9. ASSUME NEW u \in Threads \ {t}
      PROVE  Shape(u)'
  <2>1. \A i : ~TestingLeft(u, i)
    <3>1. SUFFICES ASSUME NEW i, TestingLeft(u, i) PROVE FALSE
      OBVIOUS
    <3> QED BY <1>1, <3>1 DEF TestingLeft
  <2>2. \A call, i : /\ OwnLeft(u, call, i) => OwnLeft(u, call, i)'
                     /\ HandlingLeft(u, i) => HandlingLeft(u, i)'
                     /\ Exits(u) /\ Left(u, call, i) => (Exits(u) /\ Left(u, call, i))'
    BY <1>7 DEF OwnLeft, HandlingLeft, Exits, Left, ThreadEndStep
  <2>3. Shape(u) BY <1>1 DEF Control
  <2> QED BY <2>1, <2>2, <2>3 DEF Shape
<1>10. Shape(t)'
  <2>1. EndCall \in OwnCalls /\ 3 \in 1 .. 4 BY DEF OwnCalls
  <2> QED BY <1>8, <2>1 DEF Shape
<1>11. \A u \in Threads : Shape(u)'
  BY <1>9, <1>10
<1> QED BY <1>1, <1>7, <1>11 DEF Control, ControlTyped, ThreadEndStep

\* The functions that are registered with atexit()
HandlerNames == {"end testing", "auto scope"}

\* A handler that is called begins, in the thread that exits.
LEMMA ControlCallHandler ==
  ASSUME Control, NEW t \in Threads, CallHandler(t), handlers \in Seq(HandlerNames)
  PROVE  /\ Control'
         /\ LET h == handlers[Len(handlers)] IN
            \/ h = "end testing" /\ HandlingLeft(t, 1)'
            \/ h = "auto scope" /\ Exits(t)' /\ Left(t, DefersHandled, 1)'
<1>1. At(t, "handlers") /\ process # "gone" /\ Shape(t) /\ t \notin finished
  BY DEF CallHandler, Step, At, Control
<1>2. Exits(t) /\ SameControl
  BY <1>1, StepAt DEF HandlingLeft, CallHandler, SameControl
<1>3. Exits(t)'
  BY <1>2 DEF Exits, SameControl
<1>4. PICK h \in HandlerNames : h = handlers[Len(handlers)]
  <2>1. PICK n \in Nat : n = Len(handlers) OBVIOUS
  <2>2. n \in 1 .. Len(handlers)
    BY <2>1 DEF CallHandler
  <2> QED BY <2>1, <2>2
<1>5. Do(t, StepsOf(h) \o <<"handlers">>)
  BY <1>4 DEF CallHandler
<1>6. CASE h = "end testing"
  <2>1. Do(t, Handled)
    <3>1. StepsOf(h) = EndOfTesting BY <1>6 DEF StepsOf
    <3> QED BY <1>5, <3>1 DEF Handled
  <2>2. Handled \in Seq(StepNames) BY HandledSteps
  <2>3. /\ todo' \in [Threads -> Seq(StepNames)] /\ todo'[t] = Handled
        /\ \A u \in Threads \ {t} : todo'[u] = todo[u]
    BY <2>1, <2>2, Calling DEF Control
  <2>4. HandlingLeft(t, 1)'
    BY <1>3, <2>2, <2>3, Begun DEF HandlingLeft, Left
  <2>5. Shape(t)'
    <3>1. 1 \in 1 .. 9 OBVIOUS
    <3> QED BY <2>4, <3>1 DEF Shape
  <2>6. \A u \in Threads : Shape(u)'
    BY <1>1, <1>2, <2>1, <2>5, OthersKeep DEF Control
  <2> QED BY <1>1, <1>2, <1>4, <1>6, <2>3, <2>4, <2>6 DEF Control, ControlTyped, SameControl
<1>7. CASE h = "auto scope"
  <2>1. Do(t, DefersHandled)
    <3>1. StepsOf(h) = <<"all defers">> BY <1>7 DEF StepsOf
    <3> QED BY <1>5, <3>1 DEF DefersHandled
  <2>2. DefersHandled \in Seq(StepNames) BY HandledSteps
  <2>3. /\ todo' \in [Threads -> Seq(StepNames)] /\ todo'[t] = DefersHandled
        /\ \A u \in Threads \ {t} : todo'[u] = todo[u]
    BY <2>1, <2>2, Calling DEF Control
  <2>4. Exits(t)' /\ Left(t, DefersHandled, 1)'
    BY <1>3, <2>2, <2>3, Begun DEF Left
  <2>5. Shape(t)'
    BY <2>4 DEF Shape
  <2>6. \A u \in Threads : Shape(u)'
    BY <1>1, <1>2, <2>1, <2>5, OthersKeep DEF Control
  <2> QED BY <1>1, <1>2, <1>4, <1>7, <2>3, <2>4, <2>6 DEF Control, ControlTyped, SameControl
<1> QED BY <1>6, <1>7 DEF HandlerNames

\* The process may go.
LEMMA ControlGone ==
  ASSUME Control, NEW t \in Threads, Gone(t)
  PROVE  Control'
<1>1. Tail(todo[t]) \in Seq(StepNames)
  BY DEF Control, ControlTyped, Gone, Step
<1>2. todo' \in [Threads -> Seq(StepNames)]
  BY <1>1, Calling DEF Control, Gone, Pop
<1> QED BY <1>2 DEF Control, ControlTyped, Gone

\* At first no thread is in a call.
LEMMA ControlInit == Init /\ Main \in Threads => Control
<1> SUFFICES ASSUME Init, Main \in Threads PROVE Control
  OBVIOUS
<1>1. ASSUME NEW t \in Threads PROVE Shape(t)
  <2>1. TestCall \in OwnCalls BY DEF OwnCalls
  <2>2. PICK i \in 1 .. 4 : IsRest(<< >>, TestCall, i)
    BY <2>1, NothingLeft
  <2>3. OwnLeft(t, TestCall, i)
    BY <2>2 DEF Init, OwnLeft, Left, Exits
  <2> QED BY <2>1, <2>3 DEF Shape
<1>2. << >> \in Seq(StepNames) OBVIOUS
<1> QED BY <1>1, <1>2 DEF Init, Control, ControlTyped

\* The tests, the counts and the history have their types.
TestTyped ==
  /\ current_test \in [Threads -> BOOLEAN] /\ current_suite \in [Threads -> BOOLEAN]
  /\ test_failed \in [Threads -> BOOLEAN] /\ suite_failed \in [Threads -> BOOLEAN]
  /\ counts \in [CountNames -> Nat]
  /\ failures \in Nat /\ status \in {0, 1} /\ owed \in BOOLEAN

\* The handlers have their types.
HandlersTyped == once \subseteq HandlerNames /\ handlers \in Seq(HandlerNames)

\* Which step resets which count
LEMMA ResetSteps ==
  ASSUME NEW c \in CountNames
  PROVE  \/ c = "tests" /\ ResetOf[c] = "reset tests"
         \/ c = "suites" /\ ResetOf[c] = "reset suites"
         \/ c = "tests_failed" /\ ResetOf[c] = "reset tests_failed"
         \/ c = "suites_failed" /\ ResetOf[c] = "reset suites_failed"
<1>1. ResetOf["tests"] = "reset tests" BY DEF ResetOf
<1>2. ResetOf["suites"] = "reset suites" BY DEF ResetOf
<1>3. ResetOf["tests_failed"] = "reset tests_failed" BY DEF ResetOf
<1>4. ResetOf["suites_failed"] = "reset suites_failed" BY DEF ResetOf
<1> QED BY <1>1, <1>2, <1>3, <1>4 DEF CountNames

\* Every step keeps the control of the program.
LEMMA ControlStep ==
  ASSUME Control, HandlersTyped, [Next]_vars
  PROVE  Control'
<1>1. ASSUME NEW t \in Threads, NEW steps, CallTest(t, steps), \E call \in OwnCalls : call = steps
      PROVE  Control'
  BY <1>1, ControlCall DEF CallTest, SameControl
<1>2. ASSUME NEW t \in Threads, Test(t) PROVE Control'
  BY <1>1, <1>2 DEF Test, TestCall, OwnCalls
<1>3. ASSUME NEW t \in Threads, TestNull(t) PROVE Control'
  BY <1>1, <1>3 DEF TestNull, NullCall, OwnCalls
<1>4. ASSUME NEW t \in Threads, Suite(t) PROVE Control'
  BY <1>1, <1>4 DEF Suite, SuiteCall, OwnCalls
<1>5. ASSUME UNCHANGED todo, SameControl PROVE Control'
  BY <1>5 DEF Control, ControlTyped, SameControl, Shape, OwnLeft, TestingLeft, HandlingLeft, Exits, Left
<1>6. ASSUME NEW t \in Threads, Expect(t) PROVE Control'
  BY <1>5, <1>6 DEF Expect, SameControl
<1>7. ASSUME NEW t \in Threads, Assert(t) PROVE Control'
  BY <1>7, ControlExit DEF Assert, Free
<1>8. ASSUME NEW t \in Threads, Begin(t) PROVE Control'
  BY <1>5, <1>8 DEF Begin, SameControl
<1>9. ASSUME NEW t \in Threads, CallEnd(t) PROVE Control'
  <2>1. DefersCall \in OwnCalls BY DEF OwnCalls
  <2>2. Free(t) /\ Do(t, DefersCall) /\ SameControl
    BY <1>9 DEF CallEnd, programVars, SameControl, DefersCall
  <2> QED BY <2>1, <2>2, ControlCall
<1>10. ASSUME NEW t \in Threads, ThreadEnd(t) PROVE Control'
  <2>1. EndCall \in OwnCalls BY DEF OwnCalls
  <2>2. Free(t) /\ Do(t, EndCall) /\ SameControl
    BY <1>10 DEF ThreadEnd, programVars, SameControl, EndCall
  <2> QED BY <2>1, <2>2, ControlCall
<1>11. ASSUME NEW t \in Threads, NEW name, Step(t, name), Pop(t), SameControl, name # "handlers"
       PROVE  Control'
  BY <1>11, ControlPop
<1>12. ASSUME NEW t \in Threads, EndTestStep(t) PROVE Control'
  <2>1. "end test" # "handlers" OBVIOUS
  <2> QED BY <1>11, <1>12, <2>1 DEF EndTestStep, SameControl
<1>13. ASSUME NEW t \in Threads, EndSuiteStep(t) PROVE Control'
  <2>1. "end suite" # "handlers" OBVIOUS
  <2> QED BY <1>11, <1>13, <2>1 DEF EndSuiteStep, SameControl
<1>14. ASSUME NEW t \in Threads, StartTestStep(t) PROVE Control'
  <2>1. "start test" # "handlers" OBVIOUS
  <2> QED BY <1>11, <1>14, <2>1 DEF StartTestStep, SameControl
<1>15. ASSUME NEW t \in Threads, StartSuiteStep(t) PROVE Control'
  <2>1. "start suite" # "handlers" OBVIOUS
  <2> QED BY <1>11, <1>15, <2>1 DEF StartSuiteStep, SameControl
<1>16. ASSUME NEW t \in Threads, AnyTests(t) PROVE Control'
  BY <1>16, ControlAnyTests
<1>17. ASSUME NEW t \in Threads, VerdictFailed(t) PROVE Control'
  <2>1. t \notin finished /\ process # "gone"
    BY <1>17 DEF VerdictFailed, Step, Control
  <2> QED BY <1>17, <2>1, ControlExit DEF VerdictFailed
<1>18. ASSUME NEW t \in Threads, VerdictPassed(t) PROVE Control'
  <2>1. "verdict" # "handlers" OBVIOUS
  <2> QED BY <1>11, <1>18, <2>1 DEF VerdictPassed, SameControl, programVars
<1>19. ASSUME NEW t \in Threads, ResetStep(t) PROVE Control'
  <2>1. PICK c \in CountNames : Step(t, ResetOf[c]) /\ Pop(t) /\ SameControl
    BY <1>19 DEF ResetStep, SameControl, programVars
  <2>2. ResetOf[c] # "handlers"
    BY ResetSteps
  <2> QED BY <1>11, <2>1, <2>2
<1>20. ASSUME NEW t \in Threads, RunDefer(t) PROVE Control'
  BY <1>5, <1>20 DEF RunDefer, SameControl, programVars
<1>21. ASSUME NEW t \in Threads, EndDefers(t) PROVE Control'
  <2>1. "defers" # "handlers" OBVIOUS
  <2> QED BY <1>11, <1>21, <2>1 DEF EndDefers, SameControl, programVars
<1>22. ASSUME NEW t \in Threads, RunAllDefers(t) PROVE Control'
  BY <1>5, <1>22 DEF RunAllDefers, SameControl, programVars
<1>23. ASSUME NEW t \in Threads, EndAllDefers(t) PROVE Control'
  <2>1. "all defers" # "handlers" OBVIOUS
  <2> QED BY <1>11, <1>23, <2>1 DEF EndAllDefers, SameControl, programVars
<1>24. ASSUME NEW t \in Threads, ThreadEndStep(t) PROVE Control'
  BY <1>24, ControlThreadEnd
<1>25. ASSUME NEW t \in Threads, CallHandler(t) PROVE Control'
  BY <1>25, ControlCallHandler DEF HandlersTyped
<1>26. ASSUME NEW t \in Threads, Gone(t) PROVE Control'
  BY <1>26, ControlGone
<1>27. ASSUME Return PROVE Control'
  BY <1>27, ControlExit, MainAssumption DEF Return, Free
<1>28. ASSUME EndTesting PROVE Control'
  BY <1>28, ControlEndTesting, MainAssumption
<1>29. ASSUME UNCHANGED vars PROVE Control'
  BY <1>5, <1>29 DEF vars, SameControl
<1> QED BY <1>2, <1>3, <1>4, <1>6, <1>7, <1>8, <1>9, <1>10, <1>12, <1>13, <1>14, <1>15, <1>16, <1>17, <1>18,
           <1>19, <1>20, <1>21, <1>22, <1>23, <1>24, <1>25, <1>26, <1>27, <1>28, <1>29 DEF Next, Steps

\* What is left of a call before its end begins with its next step.
LEMMA FirstOfRest ==
  ASSUME NEW call \in Seq(StepNames), NEW i \in 1 .. Len(call), NEW s, IsRest(s, call, i)
  PROVE  s # << >> /\ Head(s) = call[i]
<1>1. s \in Seq(StepNames) /\ Len(s) = Len(call) + 1 - i /\ Len(call) \in Nat
  BY DEF IsRest
<1>2. s # << >>
  BY <1>1
<1> QED BY <1>2, RestOfRest

\* Step b may be left after step a.
Follows(a, b) ==
  \/ a = "any tests" /\ b = "end test"
  \/ a = "end test" /\ b = "start test"
  \/ a = "end test" /\ b = "end suite"
  \/ a = "end suite" /\ b = "start suite"
  \/ a = "end suite" /\ b = "verdict"
  \/ a = "verdict" /\ b = "reset tests"
  \/ a = "reset tests" /\ b = "reset suites"
  \/ a = "reset suites" /\ b = "reset tests_failed"
  \/ a = "reset tests_failed" /\ b = "reset suites_failed"
  \/ a = "reset suites_failed" /\ b = "handlers"
  \/ a = "all defers" /\ b = "thread end"
  \/ a = "all defers" /\ b = "handlers"

\* The steps of calls follow one another.
LEMMA CallsFollow ==
  /\ Follows(TestCall[1], TestCall[2])
  /\ Follows(SuiteCall[1], SuiteCall[2]) /\ Follows(SuiteCall[2], SuiteCall[3])
  /\ Follows(EndCall[1], EndCall[2])
  /\ Follows(DefersHandled[1], DefersHandled[2])
<1>1. Follows(TestCall[1], TestCall[2]) BY DEF TestCall, Follows
<1>2. Follows(SuiteCall[1], SuiteCall[2]) BY DEF SuiteCall, Follows
<1>3. Follows(SuiteCall[2], SuiteCall[3]) BY DEF SuiteCall, Follows
<1>4. Follows(EndCall[1], EndCall[2]) BY DEF EndCall, Follows
<1>5. Follows(DefersHandled[1], DefersHandled[2]) BY HandledSteps DEF Follows
<1> QED BY <1>1, <1>2, <1>3, <1>4, <1>5

\* The steps of gp_end_testing() follow one another, and the exit goes on after it.
LEMMA EndFollows ==
  /\ \A i \in 1 .. 7 : Follows(EndOfTesting[i], EndOfTesting[i + 1])
  /\ \A i \in 1 .. 8 : Follows(Handled[i], Handled[i + 1])
<1>1. Follows(EndOfTesting[1], EndOfTesting[2]) BY EndSteps DEF Follows
<1>2. Follows(EndOfTesting[2], EndOfTesting[3]) BY EndSteps DEF Follows
<1>3. Follows(EndOfTesting[3], EndOfTesting[4]) BY EndSteps DEF Follows
<1>4. Follows(EndOfTesting[4], EndOfTesting[5]) BY EndSteps DEF Follows
<1>5. Follows(EndOfTesting[5], EndOfTesting[6]) BY EndSteps DEF Follows
<1>6. Follows(EndOfTesting[6], EndOfTesting[7]) BY EndSteps DEF Follows
<1>7. Follows(EndOfTesting[7], EndOfTesting[8]) BY EndSteps DEF Follows
<1>8. ASSUME NEW i \in 1 .. 7 PROVE Follows(EndOfTesting[i], EndOfTesting[i + 1])
  <2>1. i = 1 \/ i = 2 \/ i = 3 \/ i = 4 \/ i = 5 \/ i = 6 \/ i = 7 OBVIOUS
  <2>2. 1 + 1 = 2 /\ 2 + 1 = 3 /\ 3 + 1 = 4 /\ 4 + 1 = 5 /\ 5 + 1 = 6 /\ 6 + 1 = 7 /\ 7 + 1 = 8 OBVIOUS
  <2> QED BY <1>1, <1>2, <1>3, <1>4, <1>5, <1>6, <1>7, <2>1, <2>2
<1>9. Follows(EndOfTesting[8], Handled[9]) BY EndSteps, HandledSteps DEF Follows
<1>10. \A i \in 1 .. 8 : Handled[i] = EndOfTesting[i] BY HandledSteps
<1>11. ASSUME NEW i \in 1 .. 8 PROVE Follows(Handled[i], Handled[i + 1])
  <2>1. CASE i = 8
    <3>1. 8 + 1 = 9 OBVIOUS
    <3> QED BY <1>9, <1>10, <2>1, <3>1
  <2>2. CASE i # 8
    <3>1. i \in 1 .. 7 /\ i + 1 \in 1 .. 8 BY <2>2
    <3> QED BY <1>8, <1>10, <3>1
  <2> QED BY <2>1, <2>2
<1> QED BY <1>8, <1>11

\* What is left after a step begins with one that may follow it.
LEMMA Successor ==
  ASSUME NEW t \in Threads, NEW name, At(t, name), Shape(t), Tail(todo[t]) # << >>
  PROVE  Follows(name, Head(Tail(todo[t])))
<1> DEFINE s == Tail(todo[t])
           n == Head(s)
<1>1. ASSUME NEW call \in Seq(StepNames), NEW i, IsRest(s, call, i)
      PROVE  n = call[i] /\ i \in 1 .. Len(call)
  BY <1>1, RestOfRest
<1> HIDE DEF s, n
<1>2. CASE \E call \in OwnCalls : \E i \in 1 .. 4 : OwnLeft(t, call, i)
  <2>1. PICK call \in OwnCalls, i \in 1 .. 4 : OwnLeft(t, call, i)
    BY <1>2
  <2>2. name = call[i] /\ i \in 1 .. Len(call) /\ IsRest(s, call, i + 1) /\ call \in Seq(StepNames)
    BY <2>1, OwnStep, OwnCallLengths DEF s
  <2>3. n = call[i + 1] /\ i + 1 \in 1 .. Len(call)
    BY <1>1, <2>2
  <2>4. i = 1 \/ i = 2 \/ i = 3 \/ i = 4 OBVIOUS
  <2>10. 1 + 1 = 2 /\ 2 + 1 = 3 OBVIOUS
  <2>5. CASE call = TestCall
    <3>1. i = 1 BY <2>2, <2>3, <2>4, <2>5, CallLengths
    <3> QED BY <2>2, <2>3, <2>5, <2>10, <3>1, CallsFollow DEF n, s
  <2>6. CASE call = NullCall
    BY <2>2, <2>3, <2>4, <2>6, CallLengths
  <2>7. CASE call = SuiteCall
    <3>1. i = 1 \/ i = 2 BY <2>2, <2>3, <2>4, <2>7, CallLengths
    <3> QED BY <2>2, <2>3, <2>7, <2>10, <3>1, CallsFollow DEF n, s
  <2>8. CASE call = DefersCall
    BY <2>2, <2>3, <2>4, <2>8, CallLengths
  <2>9. CASE call = EndCall
    <3>1. i = 1 BY <2>2, <2>3, <2>4, <2>9, CallLengths
    <3> QED BY <2>2, <2>3, <2>9, <2>10, <3>1, CallsFollow DEF n, s
  <2> QED BY <2>5, <2>6, <2>7, <2>8, <2>9 DEF OwnCalls
<1>3. CASE \E i \in 1 .. 8 : TestingLeft(t, i)
  <2>1. PICK i \in 1 .. 8 : TestingLeft(t, i)
    BY <1>3
  <2>2. name = EndOfTesting[i]
    BY <2>1, EndStep DEF EndLeft
  <2>3. IsRest(s, EndOfTesting, i + 1)
    BY <2>1, EndSteps, RestOfRest DEF TestingLeft, Left, At, s
  <2>4. n = EndOfTesting[i + 1] /\ i + 1 \in 1 .. Len(EndOfTesting)
    BY <1>1, <2>3, EndSteps
  <2>5. Len(EndOfTesting) = 8 BY EndSteps
  <2>6. i \in 1 .. 7
    BY <2>4, <2>5
  <2> QED BY <2>2, <2>4, <2>6, EndFollows DEF n, s
<1>4. CASE \E i \in 1 .. 9 : HandlingLeft(t, i)
  <2>1. PICK i \in 1 .. 9 : HandlingLeft(t, i)
    BY <1>4
  <2>2. name = Handled[i]
    BY <2>1, HandledSteps, RestOfRest DEF HandlingLeft, Left, At
  <2>3. IsRest(s, Handled, i + 1)
    BY <2>1, HandledSteps, RestOfRest DEF HandlingLeft, Left, At, s
  <2>4. n = Handled[i + 1] /\ i + 1 \in 1 .. Len(Handled)
    BY <1>1, <2>3, HandledSteps
  <2>5. Len(Handled) = 9 BY HandledSteps
  <2>6. i \in 1 .. 8
    BY <2>4, <2>5
  <2> QED BY <2>2, <2>4, <2>6, EndFollows DEF n, s
<1>5. CASE Exits(t) /\ Left(t, DefersHandled, 1)
  <2>1. name = DefersHandled[1] /\ IsRest(s, DefersHandled, 1 + 1)
    BY <1>5, HandledSteps, RestOfRest DEF Left, At, s
  <2>2. DefersHandled \in Seq(StepNames) BY HandledSteps
  <2>3. n = DefersHandled[1 + 1]
    BY <1>1, <2>1, <2>2
  <2>4. 1 + 1 = 2 OBVIOUS
  <2>5. n = DefersHandled[2] BY <2>3, <2>4
  <2> QED BY <2>1, <2>5, CallsFollow DEF n, s
<1> QED BY <1>2, <1>3, <1>4, <1>5 DEF Shape

\* The steps at the end of gp_end_testing() that reset the counts
IsReset(n) ==
  n = "reset tests" \/ n = "reset suites" \/ n = "reset tests_failed" \/ n = "reset suites_failed"

\* Steps before which the suite of the thread ended, and steps before which its test did
AfterSuite(n) == n = "start suite" \/ n = "verdict" \/ IsReset(n)

AfterTest(n) == n = "start test" \/ n = "end suite" \/ AfterSuite(n)

\* Steps that a program takes only once it asked for a test
Testing(n) ==
  n = "any tests" \/ n = "end test" \/ n = "end suite" \/ n = "start test" \/ n = "start suite"

\* The first steps of calls
Starts(n) ==
  n = "end test" \/ n = "any tests" \/ n = "defers" \/ n = "all defers" \/ n = "handlers"

\* What comes before a step in a call
LEMMA BeforeStep ==
  ASSUME NEW m, NEW n, Follows(m, n)
  PROVE  /\ IsReset(n) => IsReset(m) \/ m = "verdict"
         /\ AfterSuite(n) => AfterSuite(m) \/ m = "end suite"
         /\ AfterTest(n) => AfterTest(m) \/ m = "end test"
         /\ Testing(n) => Testing(m)
         /\ m # "start test" /\ m # "start suite" /\ m # "handlers" /\ m # "thread end"
BY DEF Follows, IsReset, AfterSuite, AfterTest, Testing

\* A call does not begin after the end of a test.
LEMMA StartSteps ==
  ASSUME NEW n, Starts(n)
  PROVE  ~IsReset(n) /\ ~AfterSuite(n) /\ ~AfterTest(n) /\ n # "verdict" /\ n # "thread end"
BY DEF Starts, IsReset, AfterSuite, AfterTest

\* Only this thread goes on: it stays, or takes the step, or begins a call.
Moves(t, m) ==
  /\ \A u \in Threads \ {t} : todo'[u] = todo[u]
  /\ \/ todo'[t] = todo[t]
     \/ At(t, m) /\ \A n : At(t, n)' => Follows(m, n)
     \/ \A n : At(t, n)' => Starts(n)

\* A step that is taken from a call moves its thread to one that may follow.
LEMMA PopMoves ==
  ASSUME Control, NEW t \in Threads, NEW m, Step(t, m), Pop(t)
  PROVE  /\ \A u \in Threads \ {t} : todo'[u] = todo[u]
         /\ \A n : At(t, n)' => Follows(m, n)
         /\ Moves(t, m)
<1>1. At(t, m) /\ Shape(t)
  BY DEF Step, At, Control
<1>2. todo'[t] = Tail(todo[t]) /\ \A u \in Threads \ {t} : todo'[u] = todo[u]
  BY DEF Pop, Do, Control, ControlTyped
<1>3. ASSUME NEW n, At(t, n)' PROVE Follows(m, n)
  <2>1. Tail(todo[t]) # << >> /\ Head(Tail(todo[t])) = n
    BY <1>2, <1>3 DEF At
  <2> QED BY <1>1, <2>1, Successor
<1> QED BY <1>1, <1>2, <1>3 DEF Moves

\* A call that begins moves its thread.
LEMMA CallMoves ==
  ASSUME Control, NEW t \in Threads, NEW steps, Do(t, steps), 
         steps # << >> => Starts(Head(steps)), NEW m
  PROVE  Moves(t, m)
<1>1. todo'[t] = steps /\ \A u \in Threads \ {t} : todo'[u] = todo[u]
  BY DEF Do, Control, ControlTyped
<1> QED BY <1>1 DEF Moves, At

\* Calls begin with the steps that Starts names.
LEMMA StartsOfCalls ==
  /\ Starts(Head(TestCall)) /\ Starts(Head(NullCall)) /\ Starts(Head(SuiteCall))
  /\ Starts(Head(DefersCall)) /\ Starts(Head(EndCall)) /\ Starts(Head(EndOfTesting))
  /\ Starts(Head(Handled)) /\ Starts(Head(DefersHandled)) /\ Starts(Head(<<"handlers">>))
<1>1. Starts("end test") /\ Starts("any tests") /\ Starts("defers") /\ Starts("all defers") /\ Starts("handlers")
  BY DEF Starts
<1> QED BY <1>1, FirstSteps DEF DefersCall

\* What the tests and their counts, the end of the program and its history keep
Quiet == UNCHANGED <<testVars, finished, process, exiting, status, failures, unmet, owed>>

\* A step that is quiet: no verdict is passed unless all tests passed.
QuietMove(t) ==
  /\ Quiet
  /\ \/ Moves(t, "any tests")
     \/ Moves(t, "verdict") /\ ~AnyFailed
     \/ Moves(t, "defers")
     \/ Moves(t, "all defers")

\* After gp_end_testing() looked whether there are tests it ends the test, or is over.
LEMMA AnyTestsHead ==
  ASSUME Control, NEW t \in Threads, AnyTests(t), NEW n, At(t, n)'
  PROVE  n = "end test" \/ n = "handlers"
<1>1. Step(t, "any tests") /\ At(t, "any tests") /\ EndLeft(t, 1)
  BY StepAt DEF AnyTests, Step, At, Control
<1>2. CASE ~NothingTested
  <2>1. Pop(t) BY <1>2 DEF AnyTests, Pop
  <2>2. Follows("any tests", n) BY <1>1, <2>1, PopMoves
  <2> QED BY <2>2 DEF Follows
<1>3. CASE NothingTested
  <2> DEFINE left == SubSeq(todo[t], Len(EndOfTesting) + 1, Len(todo[t]))
  <2>1. Do(t, left)
    BY <1>3 DEF AnyTests
  <2>2. todo'[t] = left
    BY <2>1 DEF Do, Control, ControlTyped
  <2> HIDE DEF left
  <2>3. left # << >> /\ Head(left) = n
    BY <2>2 DEF At
  <2>4. HandlingLeft(t, 1)
    <3>1. SUFFICES ASSUME TestingLeft(t, 1) PROVE FALSE
      BY <1>1 DEF EndLeft
    <3>2. PICK s \in Seq(StepNames) : s = todo[t]
      BY DEF Control, ControlTyped
    <3>3. PICK e \in Seq(StepNames) : e = EndOfTesting /\ Len(e) = 8
      BY EndSteps
    <3>4. IsRest(s, e, 1)
      BY <3>1, <3>2, <3>3 DEF TestingLeft, Left
    <3>5. Len(s) = 8
      BY <3>3, <3>4 DEF IsRest
    <3>6. left = SubSeq(s, 9, 8)
      <4>1. Len(e) + 1 = 9 BY <3>3
      <4> QED BY <3>2, <3>3, <3>5, <4>1 DEF left
    <3> QED BY <2>3, <3>6
  <2>5. HandlingLeft(t, 2)' \/ HandlingLeft(t, 9)'
    BY <1>3, <2>4, ControlAnyTests
  <2>6. CASE HandlingLeft(t, 9)'
    <3>1. PICK h \in Seq(StepNames) : h = Handled /\ Len(h) = 9 /\ h[9] = "handlers"
      BY HandledSteps
    <3>2. IsRest(left, h, 9) /\ 9 \in 1 .. 9
      BY <2>2, <2>6, <3>1 DEF HandlingLeft, Left
    <3>3. Head(left) = h[9]
      BY <2>3, <3>1, <3>2, RestOfRest
    <3> QED BY <2>3, <3>1, <3>3
  <2>7. CASE HandlingLeft(t, 2)'
    <3>1. Handled[2] = "end test"
      <4>1. 2 \in 1 .. 8 OBVIOUS
      <4> QED BY <4>1, EndSteps, HandledSteps
    <3>2. IsRest(left, Handled, 2)
      BY <2>2, <2>7 DEF HandlingLeft, Left
    <3>3. Head(left) = "end test"
      BY <2>3, <3>1, <3>2, HandledSteps, RestOfRest
    <3> QED BY <2>3, <3>3
  <2> QED BY <2>5, <2>6, <2>7
<1> QED BY <1>2, <1>3

\* That look moves its thread.
LEMMA AnyTestsMoves ==
  ASSUME Control, NEW t \in Threads, AnyTests(t), NEW m
  PROVE  Moves(t, m)
<1>1. \A n : At(t, n)' => Starts(n)
  BY AnyTestsHead DEF Starts
<1>2. \A u \in Threads \ {t} : todo'[u] = todo[u]
  BY DEF AnyTests, Do, Control, ControlTyped
<1> QED BY <1>1, <1>2 DEF Moves

\* Calling a handler moves the thread that exits.
LEMMA HandlerMoves ==
  ASSUME Control, NEW t \in Threads, CallHandler(t), HandlersTyped, NEW m
  PROVE  Moves(t, m)
<1>1. PICK h \in HandlerNames : h = handlers[Len(handlers)]
  <2>1. PICK n \in Nat : n = Len(handlers) BY DEF HandlersTyped
  <2>2. n \in 1 .. Len(handlers)
    BY <2>1 DEF CallHandler, HandlersTyped
  <2> QED BY <2>1, <2>2 DEF HandlersTyped
<1>2. Do(t, StepsOf(h) \o <<"handlers">>)
  BY <1>1 DEF CallHandler
<1>3. CASE h = "end testing"
  <2>1. Do(t, Handled)
    <3>1. StepsOf(h) = EndOfTesting BY <1>3 DEF StepsOf
    <3> QED BY <1>2, <3>1 DEF Handled
  <2> QED BY <2>1, CallMoves, StartsOfCalls
<1>4. CASE h = "auto scope"
  <2>1. Do(t, DefersHandled)
    <3>1. StepsOf(h) = <<"all defers">> BY <1>4 DEF StepsOf
    <3> QED BY <1>2, <3>1 DEF DefersHandled
  <2> QED BY <2>1, CallMoves, StartsOfCalls
<1> QED BY <1>3, <1>4 DEF HandlerNames

\* What a step does to the tests
Loud(t) ==
  \/ EndTestStep(t) \/ EndSuiteStep(t) \/ StartTestStep(t) \/ StartSuiteStep(t)
  \/ Expect(t) \/ Assert(t) \/ VerdictFailed(t) \/ ResetStep(t)
  \/ ThreadEndStep(t) \/ Gone(t)

\* A step is quiet, or one of those that say otherwise, or main() returns.
LEMMA Cases ==
  ASSUME Control, HandlersTyped, [Next]_vars
  PROVE  \/ UNCHANGED vars
         \/ process # "gone" /\ \E t \in Threads : QuietMove(t) \/ Loud(t)
         \/ Return
<1>1. ASSUME NEW t \in Threads, NEW steps, CallTest(t, steps), Starts(Head(steps))
      PROVE  process # "gone" /\ QuietMove(t)
  BY <1>1, CallMoves DEF CallTest, Free, QuietMove, Quiet
<1>2. ASSUME NEW t \in Threads, Test(t) \/ TestNull(t) \/ Suite(t)
      PROVE  process # "gone" /\ QuietMove(t)
  BY <1>1, <1>2, StartsOfCalls DEF Test, TestNull, Suite, TestCall, NullCall, SuiteCall
<1>3. ASSUME NEW t \in Threads, Begin(t) PROVE process # "gone" /\ QuietMove(t)
  BY <1>3 DEF Begin, Free, QuietMove, Quiet, Moves
<1>4. ASSUME NEW t \in Threads, CallEnd(t) PROVE process # "gone" /\ QuietMove(t)
  <2>1. Moves(t, "defers")
    BY <1>4, CallMoves, StartsOfCalls DEF CallEnd, DefersCall
  <2> QED BY <1>4, <2>1 DEF CallEnd, Free, QuietMove, Quiet, programVars
<1>5. ASSUME NEW t \in Threads, ThreadEnd(t) PROVE process # "gone" /\ QuietMove(t)
  <2>1. Moves(t, "defers")
    BY <1>5, CallMoves, StartsOfCalls DEF ThreadEnd, EndCall
  <2> QED BY <1>5, <2>1 DEF ThreadEnd, Free, QuietMove, Quiet, programVars
<1>6. ASSUME EndTesting PROVE process # "gone" /\ QuietMove(Main)
  <2>1. Moves(Main, "defers")
    BY <1>6, CallMoves, StartsOfCalls, MainAssumption DEF EndTesting
  <2> QED BY <1>6, <2>1 DEF EndTesting, Free, QuietMove, Quiet, programVars
<1>7. ASSUME NEW t \in Threads, AnyTests(t) PROVE process # "gone" /\ QuietMove(t)
  BY <1>7, AnyTestsMoves DEF AnyTests, Step, QuietMove, Quiet, programVars
<1>8. ASSUME NEW t \in Threads, VerdictPassed(t) PROVE process # "gone" /\ QuietMove(t)
  BY <1>8, PopMoves DEF VerdictPassed, Step, QuietMove, Quiet, programVars
<1>9. ASSUME NEW t \in Threads, RunDefer(t) \/ RunAllDefers(t) PROVE process # "gone" /\ QuietMove(t)
  BY <1>9 DEF RunDefer, RunAllDefers, Step, QuietMove, Quiet, Moves, programVars
<1>10. ASSUME NEW t \in Threads, EndDefers(t) PROVE process # "gone" /\ QuietMove(t)
  BY <1>10, PopMoves DEF EndDefers, Step, QuietMove, Quiet, programVars
<1>11. ASSUME NEW t \in Threads, EndAllDefers(t) PROVE process # "gone" /\ QuietMove(t)
  BY <1>11, PopMoves DEF EndAllDefers, Step, QuietMove, Quiet, programVars
<1>12. ASSUME NEW t \in Threads, CallHandler(t) PROVE process # "gone" /\ QuietMove(t)
  <2>1. Moves(t, "defers") BY <1>12, HandlerMoves
  <2> QED BY <1>12, <2>1 DEF CallHandler, Step, QuietMove, Quiet
<1>13. ASSUME NEW t \in Threads, Loud(t) PROVE process # "gone"
  BY <1>13 DEF Loud, EndTestStep, EndSuiteStep, StartTestStep, StartSuiteStep, Expect, Assert,
               VerdictFailed, ResetStep, ThreadEndStep, Gone, Step, Free
<1>14. CASE UNCHANGED vars BY <1>14
<1>15. CASE Return BY <1>15
<1>16. CASE EndTesting BY <1>6, <1>16, MainAssumption
<1>17. ASSUME NEW t \in Threads,
              \/ Test(t) \/ TestNull(t) \/ Suite(t) \/ Expect(t) \/ Assert(t)
              \/ Begin(t) \/ CallEnd(t) \/ ThreadEnd(t)
              \/ Steps(t)
       PROVE  process # "gone" /\ (QuietMove(t) \/ Loud(t))
  BY <1>2, <1>3, <1>4, <1>5, <1>7, <1>8, <1>9, <1>10, <1>11, <1>12, <1>13, <1>17 DEF Steps, Loud
<1> QED BY <1>14, <1>15, <1>16, <1>17 DEF Next

\* Handlers change where one is registered for the first time and where one is called.
LEMMA HandlerCases ==
  ASSUME [Next]_vars
  PROVE  \/ UNCHANGED <<once, handlers>>
         \/ \E h \in HandlerNames : Once(h) /\ UNCHANGED <<process, exiting, status>>
         \/ \E t \in Threads : CallHandler(t)
<1>1. CASE UNCHANGED vars BY <1>1 DEF vars
<1>2. CASE Return BY <1>2 DEF Return
<1>3. CASE EndTesting BY <1>3 DEF EndTesting, programVars
<1>4. ASSUME NEW t \in Threads, Test(t) \/ TestNull(t) \/ Suite(t) \/ Begin(t)
      PROVE  \E h \in HandlerNames : Once(h) /\ UNCHANGED <<process, exiting, status>>
  BY <1>4 DEF Test, TestNull, Suite, CallTest, Begin, HandlerNames
<1>5. ASSUME NEW t \in Threads, Expect(t) \/ Assert(t) \/ CallEnd(t) \/ ThreadEnd(t)
      PROVE  UNCHANGED <<once, handlers>>
  BY <1>5 DEF Expect, Assert, CallEnd, ThreadEnd, programVars
<1>6. ASSUME NEW t \in Threads, Steps(t), ~CallHandler(t)
      PROVE  UNCHANGED <<once, handlers>>
  BY <1>6 DEF Steps, EndTestStep, EndSuiteStep, StartTestStep, StartSuiteStep, AnyTests, VerdictFailed,
     VerdictPassed, ResetStep, RunDefer, EndDefers, RunAllDefers, EndAllDefers, ThreadEndStep, Gone, programVars
<1> QED BY <1>1, <1>2, <1>3, <1>4, <1>5, <1>6 DEF Next

\* Every step keeps the types of the handlers.
LEMMA HandlersStep ==
  ASSUME HandlersTyped, [Next]_vars
  PROVE  HandlersTyped'
<1>1. CASE UNCHANGED <<once, handlers>> BY <1>1 DEF HandlersTyped
<1>2. ASSUME NEW h \in HandlerNames, Once(h) PROVE HandlersTyped'
  BY <1>2 DEF HandlersTyped, Once
<1>3. ASSUME NEW t \in Threads, CallHandler(t) PROVE HandlersTyped'
  <2>1. PICK s \in Seq(HandlerNames) : s = handlers BY DEF HandlersTyped
  <2>2. s # << >> /\ handlers' = SubSeq(s, 1, Len(s) - 1) /\ UNCHANGED once
    BY <1>3, <2>1 DEF CallHandler
  <2>3. SubSeq(s, 1, Len(s) - 1) \in Seq(HandlerNames)
    BY <2>2
  <2> QED BY <2>2, <2>3 DEF HandlersTyped
<1> QED BY <1>1, <1>2, <1>3, HandlerCases

\* Every step keeps the types of the tests.
LEMMA TestStep ==
  ASSUME Control, HandlersTyped, TestTyped, [Next]_vars
  PROVE  TestTyped'
<1>1. CASE UNCHANGED vars BY <1>1 DEF vars, testVars, TestTyped
<1>2. CASE Return BY <1>2 DEF Return, Exit, testVars, TestTyped
<1>3. ASSUME NEW t \in Threads, QuietMove(t) PROVE TestTyped'
  BY <1>3 DEF QuietMove, Quiet, testVars, TestTyped
<1>4. ASSUME NEW c \in CountNames, NEW condition \in BOOLEAN, Counted(c, condition)
      PROVE  counts' \in [CountNames -> Nat]
  BY <1>4 DEF Counted, TestTyped
<1>12. ASSUME NEW t \in Threads, NEW w, Owe(t, w) PROVE owed' \in BOOLEAN
  BY <1>12 DEF Owe, TestTyped
<1>5. ASSUME NEW t \in Threads, EndTestStep(t) PROVE TestTyped'
  <2>1. counts' \in [CountNames -> Nat]
    <3>1. (current_test[t] /\ test_failed[t]) \in BOOLEAN /\ "tests_failed" \in CountNames
      BY DEF CountNames
    <3> QED BY <1>4, <1>5, <3>1 DEF EndTestStep, EndTest
  <2>2. owed' \in BOOLEAN BY <1>5, <1>12 DEF EndTestStep
  <2> QED BY <1>5, <2>1, <2>2 DEF EndTestStep, EndTest, TestTyped
<1>6. ASSUME NEW t \in Threads, EndSuiteStep(t) PROVE TestTyped'
  <2>1. counts' \in [CountNames -> Nat]
    <3>1. (current_suite[t] /\ suite_failed[t]) \in BOOLEAN /\ "suites_failed" \in CountNames
      BY DEF CountNames
    <3> QED BY <1>4, <1>6, <3>1 DEF EndSuiteStep, EndSuite
  <2>2. owed' \in BOOLEAN BY <1>6, <1>12 DEF EndSuiteStep
  <2> QED BY <1>6, <2>1, <2>2 DEF EndSuiteStep, EndSuite, TestTyped
<1>7. ASSUME NEW t \in Threads, StartTestStep(t) PROVE TestTyped'
  <2>1. counts' \in [CountNames -> Nat]
    BY <1>4, <1>7 DEF StartTestStep, StartTest, CountNames
  <2> QED BY <1>7, <2>1 DEF StartTestStep, StartTest, TestTyped
<1>8. ASSUME NEW t \in Threads, StartSuiteStep(t) PROVE TestTyped'
  <2>1. counts' \in [CountNames -> Nat]
    BY <1>4, <1>8 DEF StartSuiteStep, StartSuite, CountNames
  <2> QED BY <1>8, <2>1 DEF StartSuiteStep, StartSuite, TestTyped
<1>9. ASSUME NEW t \in Threads, FailExpectation(t), UNCHANGED owed, status' \in {0, 1} PROVE TestTyped'
  BY <1>9 DEF FailExpectation, Fail, TestTyped
<1>10. ASSUME NEW t \in Threads, Expect(t) \/ Assert(t) PROVE TestTyped'
  <2>1. status' \in {0, 1}
    BY <1>10 DEF Expect, Assert, Exit, TestTyped
  <2> QED BY <1>9, <1>10, <2>1 DEF Expect, Assert
<1>11. ASSUME NEW t \in Threads, VerdictFailed(t) \/ ResetStep(t) \/ ThreadEndStep(t) \/ Gone(t)
       PROVE  TestTyped'
  <2>1. CASE VerdictFailed(t) BY <2>1 DEF VerdictFailed, Exit, testVars, TestTyped
  <2>2. CASE ResetStep(t) BY <2>2 DEF ResetStep, Reset, programVars, TestTyped
  <2>3. CASE ThreadEndStep(t) \/ Gone(t) BY <2>3 DEF ThreadEndStep, Gone, testVars, TestTyped
  <2> QED BY <1>11, <2>1, <2>2, <2>3
<1> QED BY <1>1, <1>2, <1>3, <1>5, <1>6, <1>7, <1>8, <1>10, <1>11, Cases DEF Loud

\* Nothing is blamed in a program in which no expectation failed.
Blamed ==
  /\ \A t \in Threads : test_failed[t] \/ suite_failed[t] => failures > 0
  /\ AnyFailed => failures > 0
  /\ status # 0 => failures > 0

\* Every step keeps Blamed.
LEMMA BlamedStep ==
  ASSUME Control, HandlersTyped, TestTyped, Blamed, [Next]_vars
  PROVE  Blamed'
<1>1. CASE UNCHANGED vars BY <1>1 DEF vars, testVars, AnyFailed, Blamed
<1>2. CASE Return BY <1>2 DEF Return, Exit, testVars, AnyFailed, Blamed
<1>3. ASSUME NEW t \in Threads, QuietMove(t) PROVE Blamed'
  BY <1>3 DEF QuietMove, Quiet, testVars, AnyFailed, Blamed
<1>4. ASSUME NEW t \in Threads, EndTestStep(t) PROVE Blamed'
  <2>1. AnyFailed' => failures > 0
    BY <1>4 DEF EndTestStep, EndTest, Counted, AnyFailed, Blamed, TestTyped, CountNames
  <2> QED BY <1>4, <2>1 DEF EndTestStep, EndTest, Blamed
<1>5. ASSUME NEW t \in Threads, EndSuiteStep(t) PROVE Blamed'
  <2>1. AnyFailed' => failures > 0
    BY <1>5 DEF EndSuiteStep, EndSuite, Counted, AnyFailed, Blamed, TestTyped, CountNames
  <2> QED BY <1>5, <2>1 DEF EndSuiteStep, EndSuite, Blamed
<1>6. ASSUME NEW t \in Threads, StartTestStep(t) PROVE Blamed'
  <2>1. AnyFailed' => AnyFailed
    BY <1>6 DEF StartTestStep, StartTest, Counted, AnyFailed, TestTyped, CountNames
  <2> QED BY <1>6, <2>1 DEF StartTestStep, StartTest, Blamed, TestTyped
<1>7. ASSUME NEW t \in Threads, StartSuiteStep(t) PROVE Blamed'
  <2>1. AnyFailed' => AnyFailed
    BY <1>7 DEF StartSuiteStep, StartSuite, Counted, AnyFailed, TestTyped, CountNames
  <2> QED BY <1>7, <2>1 DEF StartSuiteStep, StartSuite, Blamed, TestTyped
<1>8. ASSUME NEW t \in Threads, FailExpectation(t) PROVE Blamed'
  <2>1. failures' > 0 BY <1>8 DEF FailExpectation, TestTyped
  <2> QED BY <2>1 DEF Blamed
<1>9. ASSUME NEW t \in Threads, VerdictFailed(t) PROVE Blamed'
  BY <1>9 DEF VerdictFailed, Exit, testVars, AnyFailed, Blamed
<1>10. ASSUME NEW t \in Threads, ResetStep(t) PROVE Blamed'
  <2>1. AnyFailed' => AnyFailed
    BY <1>10 DEF ResetStep, Reset, AnyFailed, TestTyped, CountNames
  <2> QED BY <1>10, <2>1 DEF ResetStep, Reset, programVars, Blamed
<1>11. ASSUME NEW t \in Threads, ThreadEndStep(t) \/ Gone(t) PROVE Blamed'
  BY <1>11 DEF ThreadEndStep, Gone, testVars, AnyFailed, Blamed
<1> QED BY <1>1, <1>2, <1>3, <1>4, <1>5, <1>6, <1>7, <1>8, <1>9, <1>10, <1>11, Cases DEF Loud, Expect, Assert

\* exit() moves its thread.
LEMMA ExitMoves ==
  ASSUME Control, NEW t \in Threads, NEW code, Exit(t, code), NEW m
  PROVE  Moves(t, m)
BY CallMoves, StartsOfCalls DEF Exit

\* The steps that are not quiet, and how they move their threads
LEMMA LoudMoves ==
  ASSUME Control, NEW t \in Threads, Loud(t)
  PROVE  \/ EndTestStep(t) /\ Moves(t, "end test")
         \/ EndSuiteStep(t) /\ Moves(t, "end suite")
         \/ StartTestStep(t) /\ Moves(t, "start test") /\ \A n : ~At(t, n)'
         \/ StartSuiteStep(t) /\ Moves(t, "start suite") /\ \A n : ~At(t, n)'
         \/ Expect(t) /\ UNCHANGED todo
         \/ Assert(t) /\ \A m : Moves(t, m)
         \/ VerdictFailed(t) /\ \A m : Moves(t, m)
         \/ ResetStep(t) /\ \E m : IsReset(m) /\ At(t, m) /\ Moves(t, m)
         \/ ThreadEndStep(t) /\ Moves(t, "thread end")
         \/ Gone(t) /\ Moves(t, "handlers")
<1>1. CASE EndTestStep(t) BY <1>1, PopMoves DEF EndTestStep
<1>2. CASE EndSuiteStep(t) BY <1>2, PopMoves DEF EndSuiteStep
<1>3. CASE StartTestStep(t)
  <2>1. Moves(t, "start test") /\ \A n : At(t, n)' => Follows("start test", n)
    BY <1>3, PopMoves DEF StartTestStep
  <2> QED BY <1>3, <2>1, BeforeStep
<1>4. CASE StartSuiteStep(t)
  <2>1. Moves(t, "start suite") /\ \A n : At(t, n)' => Follows("start suite", n)
    BY <1>4, PopMoves DEF StartSuiteStep
  <2> QED BY <1>4, <2>1, BeforeStep
<1>5. CASE Expect(t) BY <1>5 DEF Expect
<1>6. CASE Assert(t) BY <1>6, ExitMoves DEF Assert
<1>7. CASE VerdictFailed(t) BY <1>7, ExitMoves DEF VerdictFailed
<1>8. CASE ResetStep(t)
  <2>1. PICK c \in CountNames : Step(t, ResetOf[c]) /\ Pop(t)
    BY <1>8 DEF ResetStep
  <2>2. Moves(t, ResetOf[c]) /\ At(t, ResetOf[c])
    BY <2>1, PopMoves DEF Step, At
  <2>3. IsReset(ResetOf[c])
    BY ResetSteps DEF IsReset
  <2> QED BY <1>8, <2>2, <2>3
<1>9. CASE ThreadEndStep(t) BY <1>9, PopMoves DEF ThreadEndStep
<1>10. CASE Gone(t) BY <1>10, PopMoves DEF Gone
<1> QED BY <1>1, <1>2, <1>3, <1>4, <1>5, <1>6, <1>7, <1>8, <1>9, <1>10 DEF Loud

\* A test is over once its end is behind the thread, and so is a suite.
Over ==
  \A t \in Threads : \A n : At(t, n) =>
    /\ AfterTest(n) => ~current_test[t]
    /\ AfterSuite(n) => ~current_suite[t]

\* These steps end no test and no suite.
LEMMA NotEnds ==
  ASSUME NEW m, \/ m = "any tests" \/ m = "verdict" \/ m = "defers" \/ m = "all defers"
                \/ m = "thread end" \/ m = "handlers" \/ IsReset(m)
  PROVE  m # "end test" /\ m # "end suite"
BY DEF IsReset

\* A move that starts and ends nothing keeps Over.
LEMMA OverMoves ==
  ASSUME Over, NEW t \in Threads, NEW m, Moves(t, m), m # "end test", m # "end suite",
         UNCHANGED <<current_test, current_suite>>
  PROVE  Over'
<1>1. SUFFICES ASSUME NEW u \in Threads, NEW n, At(u, n)'
               PROVE  /\ AfterTest(n) => ~current_test[u]
                      /\ AfterSuite(n) => ~current_suite[u]
  BY DEF Over
<1>2. CASE todo'[u] = todo[u]
  BY <1>1, <1>2 DEF Over, At
<1>3. CASE u = t /\ At(t, m) /\ Follows(m, n)
  BY <1>3, BeforeStep DEF Over
<1>4. CASE Starts(n)
  BY <1>4, StartSteps
<1> QED BY <1>1, <1>2, <1>3, <1>4 DEF Moves

\* Every step keeps Over.
LEMMA OverStep ==
  ASSUME Control, HandlersTyped, TestTyped, Over, [Next]_vars
  PROVE  Over'
<1>1. CASE UNCHANGED vars BY <1>1 DEF vars, testVars, Over, At
<1>2. CASE Return
  <2>1. Moves(Main, "handlers") BY <1>2, ExitMoves, MainAssumption DEF Return
  <2> QED BY <1>2, <2>1, NotEnds, OverMoves, MainAssumption DEF Return, testVars
<1>3. ASSUME NEW t \in Threads, QuietMove(t) PROVE Over'
  BY <1>3, NotEnds, OverMoves DEF QuietMove, Quiet, testVars
<1>4. ASSUME NEW t \in Threads, EndTestStep(t), Moves(t, "end test") PROVE Over'
  <2>1. SUFFICES ASSUME NEW u \in Threads, NEW n, At(u, n)'
                 PROVE  /\ AfterTest(n) => ~current_test'[u]
                        /\ AfterSuite(n) => ~current_suite'[u]
    BY DEF Over
  <2>2. CASE u = t
    <3>1. current_test'[t] = FALSE /\ current_suite' = current_suite
      BY <1>4 DEF EndTestStep, EndTest, TestTyped
    <3>2. At(t, "end test") BY <1>4 DEF EndTestStep, Step, At
    <3>3. Follows("end test", n)
      BY <1>4, <2>1, <2>2, PopMoves DEF EndTestStep
    <3>4. ~AfterSuite(n)
      BY <3>3 DEF Follows, AfterSuite, IsReset
    <3> QED BY <2>2, <3>1, <3>4
  <2>3. CASE u # t
    BY <1>4, <2>1, <2>3 DEF EndTestStep, EndTest, Over, At, Moves, TestTyped
  <2> QED BY <2>2, <2>3
<1>5. ASSUME NEW t \in Threads, EndSuiteStep(t), Moves(t, "end suite") PROVE Over'
  <2>1. SUFFICES ASSUME NEW u \in Threads, NEW n, At(u, n)'
                 PROVE  /\ AfterTest(n) => ~current_test'[u]
                        /\ AfterSuite(n) => ~current_suite'[u]
    BY DEF Over
  <2>2. CASE u = t
    <3>1. current_suite'[t] = FALSE /\ current_test' = current_test
      BY <1>5 DEF EndSuiteStep, EndSuite, TestTyped
    <3>2. At(t, "end suite") BY <1>5 DEF EndSuiteStep, Step, At
    <3>3. ~current_test[t]
      BY <3>2 DEF Over, AfterTest
    <3> QED BY <2>2, <3>1, <3>3
  <2>3. CASE u # t
    BY <1>5, <2>1, <2>3 DEF EndSuiteStep, EndSuite, Over, At, Moves, TestTyped
  <2> QED BY <2>2, <2>3
<1>6. ASSUME NEW t \in Threads, StartTestStep(t), Moves(t, "start test"), \A n : ~At(t, n)' PROVE Over'
  BY <1>6 DEF StartTestStep, StartTest, Over, At, Moves, TestTyped
<1>7. ASSUME NEW t \in Threads, StartSuiteStep(t), Moves(t, "start suite"), \A n : ~At(t, n)' PROVE Over'
  BY <1>7 DEF StartSuiteStep, StartSuite, Over, At, Moves, TestTyped
<1>8. ASSUME NEW t \in Threads, Expect(t) PROVE Over'
  BY <1>8 DEF Expect, FailExpectation, Fail, Over, At
<1>9. ASSUME NEW t \in Threads, Assert(t) \/ VerdictFailed(t), Moves(t, "handlers") PROVE Over'
  BY <1>9, NotEnds, OverMoves DEF Assert, FailExpectation, Fail, VerdictFailed, testVars
<1>10. ASSUME NEW t \in Threads, ResetStep(t), NEW m, IsReset(m), Moves(t, m) PROVE Over'
  BY <1>10, NotEnds, OverMoves DEF ResetStep, Reset
<1>11. ASSUME NEW t \in Threads, ThreadEndStep(t) \/ Gone(t), NEW m \in {"thread end", "handlers"}, Moves(t, m) PROVE Over'
  BY <1>11, NotEnds, OverMoves DEF ThreadEndStep, Gone, testVars
<1>12. ASSUME NEW t \in Threads, Loud(t) PROVE Over'
  <2>1. CASE EndTestStep(t) \/ EndSuiteStep(t)
    BY <1>4, <1>5, <2>1, PopMoves DEF EndTestStep, EndSuiteStep
  <2>2. CASE ThreadEndStep(t) \/ Gone(t)
    BY <1>11, <2>2, PopMoves DEF ThreadEndStep, Gone
  <2>3. CASE Expect(t)
    BY <1>8, <2>3
  <2>4. CASE Assert(t) \/ VerdictFailed(t)
    BY <1>9, <2>4, ExitMoves DEF Assert, VerdictFailed
  <2> QED BY <1>6, <1>7, <1>10, <1>12, <2>1, <2>2, <2>3, <2>4, LoudMoves
<1> QED BY <1>1, <1>2, <1>3, <1>12, Cases

\* A failure in a test or a suite that goes on is one of the test or the suite.
Kept ==
  \A t \in Threads :
    /\ <<t, "test">> \in unmet => current_test[t] /\ test_failed[t]
    /\ <<t, "suite">> \in unmet => current_suite[t] /\ suite_failed[t]

\* Every step keeps Kept.
LEMMA KeptStep ==
  ASSUME Control, HandlersTyped, TestTyped, Over, Kept, [Next]_vars
  PROVE  Kept'
<1>0. /\ \A u, t, w : <<u, w>> = <<t, "test">> <=> u = t /\ w = "test"
      /\ \A u, t, w : <<u, w>> = <<t, "suite">> <=> u = t /\ w = "suite"
      /\ "test" # "suite"
  OBVIOUS
<1>1. CASE UNCHANGED vars BY <1>1 DEF vars, testVars, Kept
<1>2. CASE Return BY <1>2 DEF Return, testVars, Kept
<1>3. ASSUME NEW t \in Threads, QuietMove(t) PROVE Kept'
  BY <1>3 DEF QuietMove, Quiet, testVars, Kept
<1>4. ASSUME NEW t \in Threads, EndTestStep(t) PROVE Kept'
  <2>1. unmet' = unmet \ {<<t, "test">>} BY <1>4 DEF EndTestStep, Owe
  <2> QED BY <1>0, <1>4, <2>1 DEF EndTestStep, EndTest, Kept, TestTyped
<1>5. ASSUME NEW t \in Threads, EndSuiteStep(t) PROVE Kept'
  <2>1. unmet' = unmet \ {<<t, "suite">>} BY <1>5 DEF EndSuiteStep, Owe
  <2>2. ASSUME NEW u \in Threads, <<u, "suite">> \in unmet' PROVE current_suite'[u] /\ suite_failed'[u]
    BY <1>0, <1>5, <2>1, <2>2 DEF EndSuiteStep, EndSuite, Kept, TestTyped
  <2>3. ASSUME NEW u \in Threads, <<u, "test">> \in unmet' PROVE current_test'[u] /\ test_failed'[u]
    BY <1>5, <2>1, <2>3 DEF EndSuiteStep, EndSuite, Kept
  <2> QED BY <2>2, <2>3 DEF Kept
<1>6. ASSUME NEW t \in Threads, StartTestStep(t) PROVE Kept'
  <2>1. ~current_test[t] BY <1>6 DEF StartTestStep, Step, Over, At, AfterTest
  <2> QED BY <1>6, <2>1 DEF StartTestStep, StartTest, Kept, TestTyped
<1>7. ASSUME NEW t \in Threads, StartSuiteStep(t) PROVE Kept'
  <2>1. ~current_suite[t] BY <1>7 DEF StartSuiteStep, Step, Over, At, AfterSuite
  <2> QED BY <1>7, <2>1 DEF StartSuiteStep, StartSuite, Kept, TestTyped
<1>8. ASSUME NEW t \in Threads, FailExpectation(t) PROVE Kept'
  <2>1. \A p : p \in unmet' => p \in unmet \/ (p = <<t, "test">> /\ current_test[t]) \/ (p = <<t, "suite">> /\ current_suite[t])
    <3>1. \A p \in GoOn(t) : (p = <<t, "test">> /\ current_test[t]) \/ (p = <<t, "suite">> /\ current_suite[t])
      BY DEF GoOn
    <3> QED BY <1>8, <3>1 DEF FailExpectation
  <2>2. /\ test_failed' = [test_failed EXCEPT ![t] = @ \/ current_test[t]]
        /\ suite_failed' = [suite_failed EXCEPT ![t] = @ \/ current_suite[t]]
        /\ UNCHANGED <<current_test, current_suite>>
    BY <1>8 DEF FailExpectation, Fail
  <2>3. ASSUME NEW u \in Threads, <<u, "test">> \in unmet' PROVE current_test'[u] /\ test_failed'[u]
    <3>1. <<u, "test">> \in unmet \/ (u = t /\ current_test[t])
      BY <1>0, <2>1, <2>3
    <3> QED BY <2>2, <3>1 DEF Kept, TestTyped
  <2>4. ASSUME NEW u \in Threads, <<u, "suite">> \in unmet' PROVE current_suite'[u] /\ suite_failed'[u]
    <3>1. <<u, "suite">> \in unmet \/ (u = t /\ current_suite[t])
      BY <1>0, <2>1, <2>4
    <3> QED BY <2>2, <3>1 DEF Kept, TestTyped
  <2> QED BY <2>3, <2>4 DEF Kept
<1>9. ASSUME NEW t \in Threads, VerdictFailed(t) PROVE Kept'
  BY <1>9 DEF VerdictFailed, testVars, Kept
<1>10. ASSUME NEW t \in Threads, ResetStep(t) PROVE Kept'
  BY <1>10 DEF ResetStep, Reset, programVars, Kept
<1>11. ASSUME NEW t \in Threads, ThreadEndStep(t) \/ Gone(t) PROVE Kept'
  BY <1>11 DEF ThreadEndStep, Gone, testVars, Kept
<1> QED BY <1>1, <1>2, <1>3, <1>4, <1>5, <1>6, <1>7, <1>8, <1>9, <1>10, <1>11, Cases DEF Loud, Expect, Assert

\* A thread that decides on the end of testing is the last one, or exits.
LEMMA Alone ==
  ASSUME Control, process # "gone", NEW t \in Threads, NEW n, At(t, n), IsReset(n) \/ n = "verdict"
  PROVE  \/ Exits(t)
         \/ process = "running" /\ t = Main /\ \A u \in Threads \ {t} : u \in finished /\ todo[u] = << >>
<1>1. \E i : EndLeft(t, i)
  BY StepAt DEF Control, IsReset
<1>2. PICK i : EndLeft(t, i) BY <1>1
<1> QED BY <1>2 DEF EndLeft, TestingLeft, HandlingLeft, Control

\* A handler is registered and not yet called.
Waits(h) == \E i \in DOMAIN handlers : handlers[i] = h

\* The handlers that are registered wait until the program exits.
Registered ==
  /\ process = "running" => status = 0 /\ \A h \in once : Waits(h)
  /\ \A i \in DOMAIN handlers : handlers[i] \in once

\* Tests run only where the end of testing was registered.
Asked ==
  /\ started > 0 => "end testing" \in once
  /\ \A t \in Threads : /\ current_test[t] \/ current_suite[t] => "end testing" \in once
                        /\ \A n : At(t, n) /\ Testing(n) => "end testing" \in once

\* Registering a handler keeps the others, and one that was not registered waits then.
LEMMA OnceKeeps ==
  ASSUME HandlersTyped, NEW h \in HandlerNames, Once(h)
  PROVE  /\ \A i \in DOMAIN handlers : i \in DOMAIN handlers' /\ handlers'[i] = handlers[i]
         /\ \A i \in DOMAIN handlers' : i \in DOMAIN handlers \/ handlers'[i] = h
         /\ h \notin once => Waits(h)'
<1>1. PICK s \in Seq(HandlerNames) : s = handlers BY DEF HandlersTyped
<1>2. CASE h \in once BY <1>2 DEF Once
<1>3. CASE h \notin once
  <2>1. handlers' = Append(s, h) BY <1>1, <1>3 DEF Once
  <2>2. /\ \A i \in DOMAIN s : i \in DOMAIN Append(s, h) /\ Append(s, h)[i] = s[i]
        /\ \A i \in DOMAIN Append(s, h) : i \in DOMAIN s \/ Append(s, h)[i] = h
        /\ Len(s) + 1 \in DOMAIN Append(s, h) /\ Append(s, h)[Len(s) + 1] = h
    OBVIOUS
  <2> QED BY <1>1, <2>1, <2>2 DEF Waits
<1> QED BY <1>2, <1>3

\* A handler that is called was the last one, and the others stay.
LEMMA LastHandled ==
  ASSUME HandlersTyped, NEW t \in Threads, CallHandler(t)
  PROVE  /\ \A i \in DOMAIN handlers : i = Len(handlers) \/ (i \in DOMAIN handlers' /\ handlers'[i] = handlers[i])
         /\ \A i \in DOMAIN handlers' : i \in DOMAIN handlers /\ handlers'[i] = handlers[i]
         /\ Len(handlers) \in DOMAIN handlers
<1>1. PICK s \in Seq(HandlerNames) : s = handlers BY DEF HandlersTyped
<1>2. s # << >> /\ handlers' = SubSeq(s, 1, Len(s) - 1)
  BY <1>1 DEF CallHandler
<1>3. PICK n \in Nat : n = Len(s) - 1 /\ Len(s) = n + 1
  BY <1>1, <1>2
<1>4. \A i \in 1 .. n : s[i] \in HandlerNames
  BY <1>1, <1>3
<1>5. /\ Len(SubSeq(s, 1, n)) = IF 1 <= n THEN n - 1 + 1 ELSE 0
      /\ \A i \in 1 .. n - 1 + 1 : SubSeq(s, 1, n)[i] = s[1 + i - 1]
      /\ SubSeq(s, 1, n) \in Seq(HandlerNames)
  BY <1>4, SubSeqProperties
<1>6. Len(SubSeq(s, 1, n)) = n
  BY <1>5
<1>7. \A i \in 1 .. n : SubSeq(s, 1, n)[i] = s[i]
  BY <1>5
<1>8. DOMAIN SubSeq(s, 1, n) = 1 .. n /\ DOMAIN s = 1 .. n + 1
  BY <1>3, <1>5, <1>6
<1> QED BY <1>1, <1>2, <1>3, <1>7, <1>8

\* While the program runs its status does not change.
LEMMA StatusStays ==
  ASSUME Control, HandlersTyped, [Next]_vars, process' = "running"
  PROVE  process = "running" /\ status' = status
<1>1. CASE UNCHANGED vars BY <1>1 DEF vars
<1>2. CASE Return BY <1>2 DEF Return, Exit
<1>3. ASSUME NEW t \in Threads, QuietMove(t) PROVE UNCHANGED <<process, status>>
  BY <1>3 DEF QuietMove, Quiet
<1>4. ASSUME NEW t \in Threads, Loud(t) PROVE UNCHANGED <<process, status>>
  BY <1>4 DEF Loud, EndTestStep, EndSuiteStep, StartTestStep, StartSuiteStep, Expect, Assert, Exit,
              VerdictFailed, ResetStep, ThreadEndStep, Gone, programVars
<1> QED BY <1>1, <1>2, <1>3, <1>4, Cases

\* A handler is called by the thread that exits.
LEMMA HandlerExits ==
  ASSUME Control, NEW t \in Threads, CallHandler(t)
  PROVE  Exits(t) /\ At(t, "handlers") /\ HandlingLeft(t, 9)
<1>1. At(t, "handlers") /\ Shape(t)
  BY DEF CallHandler, Step, At, Control
<1>2. HandlingLeft(t, 9) BY <1>1, StepAt
<1> QED BY <1>1, <1>2 DEF HandlingLeft

\* Every step keeps Registered.
LEMMA RegisteredStep ==
  ASSUME Control, HandlersTyped, Registered, [Next]_vars
  PROVE  Registered'
<1>1. CASE UNCHANGED <<once, handlers>>
  BY <1>1, StatusStays DEF Registered, Waits
<1>2. ASSUME NEW h \in HandlerNames, Once(h) PROVE Registered'
  <2>1. once' = once \cup {h} BY <1>2 DEF Once
  <2>2. ASSUME process' = "running" PROVE status' = 0 /\ \A g \in once' : Waits(g)'
    <3>1. status' = 0 /\ \A g \in once : Waits(g)
      BY <2>2, StatusStays DEF Registered
    <3>2. \A g \in once : Waits(g)'
      BY <1>2, <3>1, OnceKeeps DEF Waits
    <3>3. h \notin once => Waits(h)'
      BY <1>2, OnceKeeps
    <3> QED BY <2>1, <3>1, <3>2, <3>3
  <2>3. \A i \in DOMAIN handlers' : handlers'[i] \in once'
    BY <1>2, <2>1, OnceKeeps DEF Registered
  <2> QED BY <2>2, <2>3 DEF Registered
<1>3. ASSUME NEW t \in Threads, CallHandler(t) PROVE Registered'
  <2>1. process' # "running"
    BY <1>3, HandlerExits DEF Exits, CallHandler
  <2>2. \A i \in DOMAIN handlers' : handlers'[i] \in once'
    BY <1>3, LastHandled DEF CallHandler, Registered
  <2> QED BY <2>1, <2>2 DEF Registered
<1> QED BY <1>1, <1>2, <1>3, HandlerCases

\* These steps do not concern tests.
LEMMA Untested ==
  /\ ~Testing("defers") /\ ~Testing("all defers") /\ ~Testing("handlers") /\ ~Testing("verdict")
  /\ ~Testing("thread end")
  /\ ~Testing(Head(<<"handlers">>)) /\ ~Testing(Head(<<"defers">>))
  /\ ~Testing(Head(<<"all defers", "thread end">>)) /\ ~Testing(Head(DefersHandled))
<1>1. ~Testing("defers") /\ ~Testing("all defers") /\ ~Testing("handlers") /\ ~Testing("verdict")
      /\ ~Testing("thread end")
  BY DEF Testing
<1> QED BY <1>1, FirstSteps DEF EndCall

\* A step after which a thread is in a call that tests
LEMMA TestingSteps ==
  ASSUME Control, HandlersTyped, [Next]_vars, NEW u \in Threads, NEW n, At(u, n)', Testing(n)
  PROVE  \/ \E m : At(u, m) /\ Testing(m)
         \/ Once("end testing")
         \/ EndTesting
         \/ \E t \in Threads : CallHandler(t) /\ handlers[Len(handlers)] = "end testing"
<1>1. ASSUME todo'[u] = todo[u] PROVE \E m : At(u, m) /\ Testing(m)
  BY <1>1 DEF At
<1>2. ASSUME NEW t \in Threads, NEW steps, Do(t, steps), steps # << >> => ~Testing(Head(steps))
      PROVE  \E m : At(u, m) /\ Testing(m)
  BY <1>1, <1>2 DEF Do, At, Control, ControlTyped
<1>3. ASSUME NEW t \in Threads, NEW m, Step(t, m), Pop(t)
      PROVE  \E k : At(u, k) /\ Testing(k)
  <2>1. CASE u = t
    BY <1>3, <2>1, PopMoves, BeforeStep DEF Step, At
  <2>2. CASE u # t
    BY <1>1, <1>3, <2>2, PopMoves
  <2> QED BY <2>1, <2>2
<1>4. CASE UNCHANGED vars BY <1>1, <1>4 DEF vars
<1>5. ASSUME NEW t \in Threads, NEW code, Exit(t, code) PROVE \E m : At(u, m) /\ Testing(m)
  <2>1. ~Testing(Head(<<"handlers">>)) BY Untested
  <2> QED BY <1>2, <1>5, <2>1 DEF Exit
<1>6. CASE Return BY <1>5, <1>6, MainAssumption DEF Return
<1>7. CASE EndTesting BY <1>7
<1>8. ASSUME NEW t \in Threads, Test(t) \/ TestNull(t) \/ Suite(t) PROVE Once("end testing")
  BY <1>8 DEF Test, TestNull, Suite, CallTest
<1>9. ASSUME NEW t \in Threads, Expect(t) \/ Begin(t) PROVE \E m : At(u, m) /\ Testing(m)
  BY <1>1, <1>9 DEF Expect, Begin
<1>10. ASSUME NEW t \in Threads, Assert(t) \/ VerdictFailed(t) PROVE \E m : At(u, m) /\ Testing(m)
  BY <1>5, <1>10 DEF Assert, VerdictFailed
<1>11. ASSUME NEW t \in Threads, CallEnd(t) PROVE \E m : At(u, m) /\ Testing(m)
  <2>1. ~Testing(Head(<<"defers">>)) BY Untested
  <2> QED BY <1>2, <1>11, <2>1 DEF CallEnd
<1>12. ASSUME NEW t \in Threads, ThreadEnd(t) PROVE \E m : At(u, m) /\ Testing(m)
  <2>1. ~Testing(Head(<<"all defers", "thread end">>)) BY Untested
  <2> QED BY <1>2, <1>12, <2>1 DEF ThreadEnd
<1>13. ASSUME NEW t \in Threads, AnyTests(t) PROVE \E m : At(u, m) /\ Testing(m)
  <2>1. CASE u = t
    BY <1>13, <2>1 DEF AnyTests, Step, At, Testing
  <2>2. CASE u # t
    BY <1>1, <1>13, <2>2, AnyTestsMoves DEF Moves
  <2> QED BY <2>1, <2>2
<1>14. ASSUME NEW t \in Threads,
              \/ EndTestStep(t) \/ EndSuiteStep(t) \/ StartTestStep(t) \/ StartSuiteStep(t)
              \/ VerdictPassed(t) \/ ResetStep(t) \/ EndDefers(t) \/ EndAllDefers(t)
              \/ ThreadEndStep(t) \/ Gone(t)
       PROVE  \E m : At(u, m) /\ Testing(m)
  BY <1>3, <1>14 DEF EndTestStep, EndSuiteStep, StartTestStep, StartSuiteStep, VerdictPassed, ResetStep,
                     EndDefers, EndAllDefers, ThreadEndStep, Gone
<1>15. ASSUME NEW t \in Threads, RunDefer(t) \/ RunAllDefers(t) PROVE \E m : At(u, m) /\ Testing(m)
  BY <1>1, <1>15 DEF RunDefer, RunAllDefers
<1>16. ASSUME NEW t \in Threads, CallHandler(t), handlers[Len(handlers)] # "end testing"
       PROVE  \E m : At(u, m) /\ Testing(m)
  <2>1. PICK h \in HandlerNames : h = handlers[Len(handlers)]
    <3>1. PICK s \in Seq(HandlerNames) : s = handlers BY DEF HandlersTyped
    <3>2. PICK k \in DOMAIN s : k = Len(s) BY <1>16, <3>1, LastHandled
    <3>3. s[k] \in HandlerNames BY <3>2
    <3> QED BY <3>1, <3>2, <3>3
  <2>2. h = "auto scope"
    BY <1>16, <2>1 DEF HandlerNames
  <2>3. Do(t, DefersHandled)
    <3>1. StepsOf(h) = <<"all defers">> BY <2>2 DEF StepsOf
    <3> QED BY <1>16, <2>1, <3>1 DEF DefersHandled, CallHandler
  <2> QED BY <1>2, <2>3, Untested
<1> QED BY <1>4, <1>6, <1>7, <1>8, <1>9, <1>10, <1>11, <1>12, <1>13, <1>14, <1>15, <1>16 DEF Next, Steps

\* What was passed once stays passed.
LEMMA OnceGrows ==
  ASSUME [Next]_vars
  PROVE  once \subseteq once'
BY HandlerCases DEF Once, CallHandler

\* Every step keeps Asked.
LEMMA AskedStep ==
  ASSUME Control, HandlersTyped, TestTyped, Registered, Asked, [Next]_vars
  PROVE  Asked'
<1>1. ASSUME NEW u \in Threads, NEW n, At(u, n)', Testing(n)
      PROVE  "end testing" \in once'
  <2>1. CASE \E m : At(u, m) /\ Testing(m)
    BY <2>1, OnceGrows DEF Asked
  <2>2. CASE Once("end testing")
    BY <2>2 DEF Once
  <2>3. CASE EndTesting
    BY <2>3, OnceGrows DEF Asked, EndTesting
  <2>4. CASE \E t \in Threads : CallHandler(t) /\ handlers[Len(handlers)] = "end testing"
    BY <2>4, LastHandled, OnceGrows DEF Registered
  <2> QED BY <1>1, <2>1, <2>2, <2>3, <2>4, TestingSteps
<1>2. ASSUME ~(\E t \in Threads : StartTestStep(t) \/ StartSuiteStep(t))
      PROVE  started' = started /\ \A t \in Threads : /\ current_test'[t] => current_test[t]
                                                      /\ current_suite'[t] => current_suite[t]
  <2>1. CASE UNCHANGED vars BY <2>1 DEF vars, testVars
  <2>2. CASE Return BY <2>2 DEF Return, testVars
  <2>3. ASSUME NEW t \in Threads, EndTestStep(t) \/ EndSuiteStep(t)
        PROVE  started' = started /\ \A u \in Threads : /\ current_test'[u] => current_test[u]
                                                        /\ current_suite'[u] => current_suite[u]
    BY <2>3 DEF EndTestStep, EndTest, EndSuiteStep, EndSuite, TestTyped
  <2>4. CASE EndTesting BY <2>4 DEF EndTesting, testVars, programVars
  <2>5. ASSUME NEW t \in Threads,
               \/ Test(t) \/ TestNull(t) \/ Suite(t) \/ Expect(t) \/ Assert(t)
               \/ Begin(t) \/ CallEnd(t) \/ ThreadEnd(t)
        PROVE  UNCHANGED <<started, current_test, current_suite>>
    BY <2>5 DEF Test, TestNull, Suite, CallTest, Expect, Assert, FailExpectation, Fail, Begin, CallEnd,
                ThreadEnd, testVars, programVars
  <2>6. ASSUME NEW t \in Threads,
               \/ AnyTests(t) \/ VerdictFailed(t) \/ VerdictPassed(t) \/ ResetStep(t)
               \/ RunDefer(t) \/ EndDefers(t) \/ RunAllDefers(t) \/ EndAllDefers(t)
               \/ ThreadEndStep(t) \/ CallHandler(t) \/ Gone(t)
        PROVE  UNCHANGED <<started, current_test, current_suite>>
    BY <2>6 DEF AnyTests, VerdictFailed, VerdictPassed, ResetStep, Reset, RunDefer, EndDefers, RunAllDefers,
                EndAllDefers, ThreadEndStep, CallHandler, Gone, testVars, programVars
  <2> QED BY <1>2, <2>1, <2>2, <2>3, <2>4, <2>5, <2>6 DEF Next, Steps
<1>3. ASSUME NEW t \in Threads, StartTestStep(t) \/ StartSuiteStep(t)
      PROVE  "end testing" \in once
  BY <1>3 DEF StartTestStep, StartSuiteStep, Step, Asked, At, Testing
<1>4. started' > 0 => "end testing" \in once'
  BY <1>2, <1>3, OnceGrows DEF Asked
<1>5. ASSUME NEW t \in Threads, current_test'[t] \/ current_suite'[t]
      PROVE  "end testing" \in once'
  BY <1>2, <1>3, <1>5, OnceGrows DEF Asked
<1> QED BY <1>1, <1>4, <1>5 DEF Asked

\* What runs was counted, until the end of testing resets the counts for a thread in which nothing runs.
Concerns(t) == t \notin finished /\ (process = "running" \/ t = exiting)

\* A test that runs was counted, and so was a suite.
Counting ==
  \A t \in Threads : Concerns(t) =>
    /\ current_test[t] => counts["tests"] > 0
    /\ current_suite[t] => counts["suites"] > 0

\* A thread that is of concern was so before.
LEMMA ConcernsBefore ==
  ASSUME Control, HandlersTyped, [Next]_vars, NEW t \in Threads, Concerns(t)'
  PROVE  Concerns(t)
<1>1. CASE UNCHANGED vars BY <1>1 DEF vars, Concerns
<1>2. CASE Return BY <1>2 DEF Return, Exit, Free, Concerns
<1>3. ASSUME NEW u \in Threads, QuietMove(u) PROVE Concerns(t)
  BY <1>3 DEF QuietMove, Quiet, Concerns
<1>4. ASSUME NEW u \in Threads, Loud(u) PROVE Concerns(t)
  <2>1. CASE Assert(u) BY <2>1 DEF Assert, Exit, Free, Concerns
  <2>2. CASE VerdictFailed(u)
    <3>1. u \notin finished
      BY <2>2 DEF VerdictFailed, Step, Control
    <3> QED BY <2>2, <3>1 DEF VerdictFailed, Exit, Concerns
  <2>3. CASE ~Assert(u) /\ ~VerdictFailed(u)
    BY <1>4, <2>3 DEF Loud, EndTestStep, EndSuiteStep, StartTestStep, StartSuiteStep, Expect,
                      ResetStep, ThreadEndStep, Gone, programVars, Concerns
  <2> QED BY <2>1, <2>2, <2>3
<1> QED BY <1>1, <1>2, <1>3, <1>4, Cases

\* Only the end of testing resets counts.
LEMMA CountsGrow ==
  ASSUME Control, HandlersTyped, TestTyped, [Next]_vars, NEW c \in CountNames,
         ~(\E t \in Threads : ResetStep(t))
  PROVE  counts'[c] >= counts[c]
<1>0. \A n \in Nat : n >= n /\ n + 1 >= n OBVIOUS
<1>1. CASE UNCHANGED vars BY <1>1, <1>0 DEF vars, testVars, TestTyped
<1>2. CASE Return BY <1>2, <1>0 DEF Return, testVars, TestTyped
<1>3. ASSUME NEW t \in Threads, QuietMove(t) PROVE counts'[c] >= counts[c]
  BY <1>3, <1>0 DEF QuietMove, Quiet, testVars, TestTyped
<1>4. ASSUME NEW d \in CountNames, NEW condition, Counted(d, condition) PROVE counts'[c] >= counts[c]
  BY <1>4, <1>0 DEF Counted, TestTyped
<1>5. ASSUME NEW t \in Threads, Loud(t) PROVE counts'[c] >= counts[c]
  <2>1. CASE EndTestStep(t) \/ EndSuiteStep(t) \/ StartTestStep(t) \/ StartSuiteStep(t)
    BY <1>4, <2>1 DEF EndTestStep, EndTest, EndSuiteStep, EndSuite, StartTestStep, StartTest,
                      StartSuiteStep, StartSuite, CountNames
  <2>2. CASE Expect(t) \/ Assert(t) \/ VerdictFailed(t) \/ ThreadEndStep(t) \/ Gone(t)
    <3>1. UNCHANGED counts
      BY <2>2 DEF Expect, Assert, FailExpectation, Fail, VerdictFailed, ThreadEndStep, Gone, testVars
    <3> QED BY <3>1, <1>0 DEF TestTyped
  <2> QED BY <1>5, <2>1, <2>2 DEF Loud
<1> QED BY <1>1, <1>2, <1>3, <1>5, Cases

\* Counts are reset by a thread that is at such a step, when no other thread is of concern.
LEMMA ResetAt ==
  ASSUME Control, NEW t \in Threads, ResetStep(t)
  PROVE  /\ \E n : At(t, n) /\ IsReset(n)
         /\ \A u \in Threads \ {t} : ~Concerns(u)
<1>1. PICK n : At(t, n) /\ IsReset(n)
  BY ResetSteps DEF ResetStep, Step, At, IsReset
<1>2. process # "gone"
  BY DEF ResetStep, Step
<1> QED BY <1>1, <1>2, Alone DEF Concerns, Exits

\* Every step keeps Counting.
LEMMA CountingStep ==
  ASSUME Control, HandlersTyped, TestTyped, Over, Counting, [Next]_vars
  PROVE  Counting'
<1> SUFFICES ASSUME NEW t \in Threads, Concerns(t)'
             PROVE  /\ current_test'[t] => counts'["tests"] > 0
                    /\ current_suite'[t] => counts'["suites"] > 0
  BY DEF Counting
<1>1. Concerns(t) BY ConcernsBefore
<1>2. "tests" \in CountNames /\ "suites" \in CountNames BY DEF CountNames
<1>3. counts["tests"] \in Nat /\ counts["suites"] \in Nat /\ counts'["tests"] \in Nat /\ counts'["suites"] \in Nat
  BY <1>2, TestStep DEF TestTyped
<1>4. CASE \E u \in Threads : ResetStep(u)
  <2>1. PICK u \in Threads : ResetStep(u) BY <1>4
  <2>2. u = t /\ \E n : At(t, n) /\ IsReset(n)
    BY <1>1, <2>1, ResetAt
  <2>3. ~current_test[t] /\ ~current_suite[t]
    BY <2>2 DEF Over, AfterTest, AfterSuite
  <2> QED BY <2>1, <2>3 DEF ResetStep, Reset
<1>5. CASE ~(\E u \in Threads : ResetStep(u))
  <2>1. counts'["tests"] >= counts["tests"] /\ counts'["suites"] >= counts["suites"]
    BY <1>2, <1>5, CountsGrow
  <2>2. CASE (current_test'[t] => current_test[t]) /\ (current_suite'[t] => current_suite[t])
    BY <1>1, <1>3, <2>1, <2>2 DEF Counting
  <2>3. ASSUME NEW u \in Threads, StartTestStep(u)
        PROVE  counts'["tests"] > 0 /\ current_suite'[t] = current_suite[t]
    <3>1. counts' = [counts EXCEPT !["tests"] = counts["tests"] + 1] /\ current_suite' = current_suite
      BY <2>3 DEF StartTestStep, StartTest, Counted
    <3>2. counts \in [CountNames -> Nat] BY DEF TestTyped
    <3>3. counts'["tests"] = counts["tests"] + 1
      BY <1>2, <3>1, <3>2
    <3> QED BY <1>3, <3>1, <3>3
  <2>4. ASSUME NEW u \in Threads, StartSuiteStep(u)
        PROVE  counts'["suites"] > 0 /\ current_test'[t] = current_test[t]
    <3>1. counts' = [counts EXCEPT !["suites"] = counts["suites"] + 1] /\ current_test' = current_test
      BY <2>4 DEF StartSuiteStep, StartSuite, Counted
    <3>2. counts \in [CountNames -> Nat] BY DEF TestTyped
    <3>3. counts'["suites"] = counts["suites"] + 1
      BY <1>2, <3>1, <3>2
    <3> QED BY <1>3, <3>1, <3>3
  <2>5. CASE \E u \in Threads : StartTestStep(u)
    BY <1>1, <1>3, <2>1, <2>3, <2>5 DEF Counting
  <2>6. CASE \E u \in Threads : StartSuiteStep(u)
    BY <1>1, <1>3, <2>1, <2>4, <2>6 DEF Counting
  <2>7. CASE ~(\E u \in Threads : StartTestStep(u) \/ StartSuiteStep(u))
    <3>1. CASE UNCHANGED vars BY <2>2, <3>1 DEF vars, testVars
    <3>2. CASE Return BY <2>2, <3>2 DEF Return, testVars
    <3>3. ASSUME NEW u \in Threads, QuietMove(u) PROVE UNCHANGED <<current_test, current_suite>>
      BY <3>3 DEF QuietMove, Quiet, testVars
    <3>4. ASSUME NEW u \in Threads, Loud(u)
          PROVE  (current_test'[t] => current_test[t]) /\ (current_suite'[t] => current_suite[t])
      BY <2>7, <3>4 DEF Loud, EndTestStep, EndTest, EndSuiteStep, EndSuite, Expect, Assert, FailExpectation, Fail,
           VerdictFailed, ResetStep, Reset, ThreadEndStep, Gone, testVars, TestTyped
    <3> QED BY <2>2, <3>1, <3>2, <3>3, <3>4, Cases
  <2> QED BY <2>5, <2>6, <2>7
<1> QED BY <1>4, <1>5

\* The steps of an exiting thread from the end of testing to its verdict
Judges(n) == n = "any tests" \/ n = "end test" \/ n = "end suite" \/ n = "verdict"

\* Of a failure that is owed the program still hears.
Pending ==
  owed /\ status = 0 =>
    /\ process # "gone" /\ AnyFailed /\ ~NothingTested
    /\ \/ Waits("end testing")
       \/ process = "exiting" /\ \E n : At(exiting, n) /\ Judges(n)

\* A thread that resets the counts owes nothing any more.
Settled == \A t \in Threads : \A n : At(t, n) /\ IsReset(n) => (owed => status # 0)

\* In the end of testing of an exit the next step follows.
LEMMA HandlingPop ==
  ASSUME Control, NEW t \in Threads, NEW i \in 1 .. 8, HandlingLeft(t, i), NEW m, Step(t, m), Pop(t)
  PROVE  At(t, Handled[i + 1])'
<1>1. At(t, m) BY DEF Step, At
<1>2. IsRest(Tail(todo[t]), Handled, i + 1)
  BY <1>1, HandledSteps, RestOfRest DEF HandlingLeft, Left, At
<1>3. todo'[t] = Tail(todo[t])
  BY DEF Pop, Do, Control, ControlTyped
<1>4. PICK h \in Seq(StepNames) : h = Handled /\ Len(h) = 9
  BY HandledSteps
<1>5. i + 1 \in 1 .. Len(h)
  BY <1>4
<1>6. Tail(todo[t]) # << >> /\ Head(Tail(todo[t])) = h[i + 1]
  BY <1>2, <1>4, <1>5, FirstOfRest
<1> QED BY <1>3, <1>4, <1>6 DEF At

\* The steps of that end before the verdict
LEMMA HandledNames ==
  /\ Handled[1 + 1] = "end test" /\ Handled[2 + 1] = "end suite" /\ Handled[3 + 1] = "verdict"
<1>1. Handled[2] = "end test" /\ Handled[3] = "end suite" /\ Handled[4] = "verdict"
  <2>1. 2 \in 1 .. 8 /\ 3 \in 1 .. 8 /\ 4 \in 1 .. 8 OBVIOUS
  <2>2. Handled[2] = EndOfTesting[2] /\ Handled[3] = EndOfTesting[3] /\ Handled[4] = EndOfTesting[4]
    BY <2>1, HandledSteps
  <2> QED BY <2>2, EndSteps
<1>2. 1 + 1 = 2 /\ 2 + 1 = 3 /\ 3 + 1 = 4 OBVIOUS
<1> QED BY <1>1, <1>2

\* Where a thread is that exits and has not reached its verdict
LEMMA JudgeAt ==
  ASSUME Control, process = "exiting", NEW n, At(exiting, n), Judges(n)
  PROVE  /\ exiting \in Threads
         /\ \/ n = "any tests" /\ HandlingLeft(exiting, 1)
            \/ n = "end test" /\ HandlingLeft(exiting, 2)
            \/ n = "end suite" /\ HandlingLeft(exiting, 3)
            \/ n = "verdict"
<1>1. exiting \in Threads /\ Shape(exiting) /\ Exits(exiting)
  BY DEF Control, ControlTyped, Exits
<1>2. \A i : EndLeft(exiting, i) => HandlingLeft(exiting, i)
  BY DEF EndLeft, TestingLeft
<1> QED BY <1>1, <1>2, StepAt DEF Judges, OwnLeft

\* The thread that exits gets to its verdict.
LEMMA JudgeStays ==
  ASSUME Control, HandlersTyped, [Next]_vars, process = "exiting",
         NEW n, At(exiting, n), Judges(n), AnyFailed, ~NothingTested
  PROVE  \/ process' = "exiting" /\ exiting' = exiting /\ \E m : At(exiting, m)' /\ Judges(m)
         \/ status' = 1
<1> DEFINE Stays == process' = "exiting" /\ exiting' = exiting /\ \E m : At(exiting, m)' /\ Judges(m)
<1>1. /\ exiting \in Threads
      /\ \/ n = "any tests" /\ HandlingLeft(exiting, 1)
         \/ n = "end test" /\ HandlingLeft(exiting, 2)
         \/ n = "end suite" /\ HandlingLeft(exiting, 3)
         \/ n = "verdict"
  BY JudgeAt
<1>2. ASSUME todo'[exiting] = todo[exiting], UNCHANGED <<process, exiting>>
      PROVE  Stays
  BY <1>2 DEF At
<1>3. ASSUME NEW t \in Threads, t # exiting, NEW steps, Do(t, steps), UNCHANGED <<process, exiting>>
      PROVE  Stays
  BY <1>1, <1>2, <1>3 DEF Do, Control, ControlTyped
<1>4. CASE UNCHANGED vars BY <1>2, <1>4 DEF vars
<1>5. ASSUME NEW t \in Threads, Free(t) PROVE t # exiting
  BY <1>5 DEF Free
<1>6. ASSUME Return \/ EndTesting PROVE FALSE
  BY <1>6 DEF Return, EndTesting
<1>7. ASSUME NEW t \in Threads,
             \/ Test(t) \/ TestNull(t) \/ Suite(t) \/ CallEnd(t) \/ ThreadEnd(t)
      PROVE  Stays
  <2>1. Free(t) /\ (\E steps : Do(t, steps)) /\ UNCHANGED <<process, exiting>>
    BY <1>7 DEF Test, TestNull, Suite, CallTest, CallEnd, ThreadEnd, programVars
  <2> QED BY <1>3, <1>5, <2>1
<1>8. ASSUME NEW t \in Threads, Expect(t) \/ Begin(t) PROVE Stays
  BY <1>2, <1>8 DEF Expect, Begin
<1>9. ASSUME NEW t \in Threads, Assert(t) PROVE FALSE
  BY <1>9 DEF Assert
<1>10. ASSUME NEW t \in Threads, VerdictFailed(t) PROVE status' = 1
  BY <1>10 DEF VerdictFailed, Exit
<1>11. ASSUME NEW t \in Threads, NEW m, Step(t, m), Pop(t), UNCHANGED <<process, exiting>>,
              m # "verdict" \/ t # exiting
       PROVE  Stays
  <2>1. CASE t # exiting
    BY <1>3, <1>11, <2>1 DEF Pop
  <2>2. CASE t = exiting
    <3>1. m = n BY <1>11, <2>2 DEF Step, At
    <3>2. PICK i \in 1 .. 3 : HandlingLeft(exiting, i)
      <4>1. 1 \in 1 .. 3 /\ 2 \in 1 .. 3 /\ 3 \in 1 .. 3 OBVIOUS
      <4>2. HandlingLeft(exiting, 1) \/ HandlingLeft(exiting, 2) \/ HandlingLeft(exiting, 3)
        BY <1>1, <1>11, <2>2, <3>1
      <4> QED BY <4>1, <4>2
    <3>3. At(exiting, Handled[i + 1])'
      <4>1. i \in 1 .. 8 OBVIOUS
      <4> QED BY <1>1, <1>11, <2>2, <3>2, <4>1, HandlingPop
    <3>4. Judges(Handled[i + 1])
      <4>1. i = 1 \/ i = 2 \/ i = 3 OBVIOUS
      <4> QED BY <4>1, HandledNames DEF Judges
    <3> QED BY <1>11, <3>3, <3>4
  <2> QED BY <2>1, <2>2
<1>12. ASSUME NEW t \in Threads, AnyTests(t) PROVE Stays
  <2>1. "any tests" # "verdict" OBVIOUS
  <2>2. Step(t, "any tests") /\ Pop(t) /\ UNCHANGED <<process, exiting>>
    BY <1>12 DEF AnyTests, Pop, programVars
  <2> QED BY <1>11, <2>1, <2>2
<1>13. ASSUME NEW t \in Threads,
              \/ EndTestStep(t) \/ EndSuiteStep(t) \/ StartTestStep(t) \/ StartSuiteStep(t)
              \/ ResetStep(t) \/ EndDefers(t) \/ EndAllDefers(t) \/ ThreadEndStep(t)
       PROVE  Stays
  <2>1. PICK m : Step(t, m) /\ Pop(t) /\ UNCHANGED <<process, exiting>> /\ m # "verdict"
    <3>1. \A c \in CountNames : ResetOf[c] # "verdict" BY ResetSteps
    <3>2. /\ "end test" # "verdict" /\ "end suite" # "verdict" /\ "start test" # "verdict"
          /\ "start suite" # "verdict" /\ "defers" # "verdict" /\ "all defers" # "verdict"
          /\ "thread end" # "verdict"
      OBVIOUS
    <3>3. CASE EndTestStep(t) \/ EndSuiteStep(t) \/ StartTestStep(t) \/ StartSuiteStep(t)
      BY <3>2, <3>3 DEF EndTestStep, EndSuiteStep, StartTestStep, StartSuiteStep
    <3>4. CASE ResetStep(t) \/ EndDefers(t) \/ EndAllDefers(t) \/ ThreadEndStep(t)
      BY <3>1, <3>2, <3>4 DEF ResetStep, EndDefers, EndAllDefers, ThreadEndStep, programVars
    <3> QED BY <1>13, <3>3, <3>4
  <2> QED BY <1>11, <2>1
<1>14. ASSUME NEW t \in Threads, VerdictPassed(t) PROVE FALSE
  BY <1>14 DEF VerdictPassed
<1>15. ASSUME NEW t \in Threads, RunDefer(t) \/ RunAllDefers(t) PROVE Stays
  BY <1>2, <1>15 DEF RunDefer, RunAllDefers, programVars
<1>16. ASSUME NEW t \in Threads, CallHandler(t) \/ Gone(t) PROVE FALSE
  <2>1. At(t, "handlers") /\ Shape(t) BY <1>16 DEF CallHandler, Gone, Step, At, Control
  <2>2. t = exiting BY <2>1, StepAt DEF HandlingLeft, Exits
  <2> QED BY <2>1, <2>2 DEF At, Judges
<1> QED BY <1>4, <1>6, <1>7, <1>8, <1>9, <1>10, <1>12, <1>13, <1>14, <1>15, <1>16 DEF Next, Steps

\* A status that says nothing said nothing before.
LEMMA StatusBefore ==
  ASSUME Control, HandlersTyped, TestTyped, Registered, [Next]_vars, status' = 0
  PROVE  status = 0
<1>1. CASE UNCHANGED vars BY <1>1 DEF vars
<1>2. CASE Return BY <1>2 DEF Return, Registered
<1>3. ASSUME NEW t \in Threads, QuietMove(t) PROVE status = 0
  BY <1>3 DEF QuietMove, Quiet
<1>4. ASSUME NEW t \in Threads, Loud(t) PROVE status = 0
  <2>1. CASE Assert(t) \/ VerdictFailed(t)
    <3>1. status' = 1 BY <2>1 DEF Assert, VerdictFailed, Exit
    <3> QED BY <3>1
  <2>2. CASE ~Assert(t) /\ ~VerdictFailed(t)
    BY <1>4, <2>2 DEF Loud, EndTestStep, EndSuiteStep, StartTestStep, StartSuiteStep, Expect,
                      ResetStep, ThreadEndStep, Gone, programVars
  <2> QED BY <2>1, <2>2
<1> QED BY <1>1, <1>2, <1>3, <1>4, Cases

\* A failure is owed from the end of its test or suite on.
LEMMA OwedBefore ==
  ASSUME Control, HandlersTyped, [Next]_vars, ~owed, owed'
  PROVE  \E t \in Threads : EndTestStep(t) \/ EndSuiteStep(t)
<1>1. CASE UNCHANGED vars BY <1>1 DEF vars
<1>2. CASE Return BY <1>2 DEF Return
<1>3. ASSUME NEW t \in Threads, QuietMove(t) PROVE FALSE
  BY <1>3 DEF QuietMove, Quiet
<1>4. ASSUME NEW t \in Threads, Loud(t) PROVE EndTestStep(t) \/ EndSuiteStep(t)
  BY <1>4 DEF Loud, StartTestStep, StartSuiteStep, Expect, Assert, VerdictFailed, ResetStep,
              ThreadEndStep, Gone, programVars
<1> QED BY <1>1, <1>2, <1>3, <1>4, Cases

\* The process goes by the step of the thread that exits.
LEMMA GoneStep ==
  ASSUME Control, HandlersTyped, [Next]_vars, process # "gone", process' = "gone"
  PROVE  \E t \in Threads : Gone(t)
<1>1. CASE UNCHANGED vars BY <1>1 DEF vars
<1>2. CASE Return BY <1>2 DEF Return, Exit
<1>3. ASSUME NEW t \in Threads, QuietMove(t) PROVE FALSE
  BY <1>3 DEF QuietMove, Quiet
<1>4. ASSUME NEW t \in Threads, Loud(t) PROVE Gone(t)
  BY <1>4 DEF Loud, EndTestStep, EndSuiteStep, StartTestStep, StartSuiteStep, Expect, Assert, Exit,
              VerdictFailed, ResetStep, ThreadEndStep, programVars
<1> QED BY <1>1, <1>2, <1>3, <1>4, Cases

\* A thread that calls the end of testing as a handler first looks whether there are tests.
LEMMA FirstHandled ==
  ASSUME NEW t, HandlingLeft(t, 1)
  PROVE  Exits(t) /\ At(t, "any tests")
<1>1. PICK h \in Seq(StepNames) : h = Handled /\ Len(h) = 9 BY HandledSteps
<1>2. 1 \in 1 .. 9 /\ 1 \in 1 .. 8 OBVIOUS
<1>3. h[1] = "any tests"
  BY <1>1, <1>2, HandledSteps, EndSteps
<1>4. IsRest(todo[t], h, 1) /\ 1 \in 1 .. Len(h)
  BY <1>1, <1>2 DEF HandlingLeft, Left
<1>5. todo[t] # << >> /\ Head(todo[t]) = h[1]
  BY <1>4, FirstOfRest
<1> QED BY <1>3, <1>5 DEF At, HandlingLeft

\* The same of the state after a step
LEMMA FirstHandledNext ==
  ASSUME NEW t
  PROVE  HandlingLeft(t, 1)' => (Exits(t) /\ At(t, "any tests"))'
<1>1. HandlingLeft(t, 1) => Exits(t) /\ At(t, "any tests")
  BY FirstHandled
<1> QED BY <1>1, PTL

\* The end of testing waits until the thread that exits runs it.
LEMMA WaitsOn ==
  ASSUME Control, HandlersTyped, [Next]_vars, Waits("end testing")
  PROVE  Waits("end testing")' \/ (process' = "exiting" /\ \E n : At(exiting, n)' /\ Judges(n))
<1>1. CASE UNCHANGED <<once, handlers>>
  BY <1>1 DEF Waits
<1>2. ASSUME NEW h \in HandlerNames, Once(h) PROVE Waits("end testing")'
  BY <1>2, OnceKeeps DEF Waits
<1>3. ASSUME NEW t \in Threads, CallHandler(t)
      PROVE  Waits("end testing")' \/ (process' = "exiting" /\ \E n : At(exiting, n)' /\ Judges(n))
  <2>1. PICK i \in DOMAIN handlers : handlers[i] = "end testing" BY DEF Waits
  <2>2. CASE i \in DOMAIN handlers' /\ handlers'[i] = handlers[i]
    BY <2>1, <2>2 DEF Waits
  <2>3. CASE i = Len(handlers)
    <3>1. HandlingLeft(t, 1)'
      <4>1. "end testing" # "auto scope" OBVIOUS
      <4> QED BY <1>3, <2>1, <2>3, <4>1, ControlCallHandler DEF HandlersTyped
    <3>4. At(t, "any tests")' /\ Exits(t)'
      BY <3>1, FirstHandledNext
    <3>6. process' = "exiting" /\ exiting' = t /\ exiting = t
      BY <1>3, <3>4 DEF Exits, CallHandler
    <3> QED BY <3>4, <3>6 DEF Judges
  <2> QED BY <1>3, <2>1, <2>2, <2>3, LastHandled
<1> QED BY <1>1, <1>2, <1>3, HandlerCases

\* What was owed is still pending.
LEMMA StillOwed ==
  ASSUME Control, HandlersTyped, TestTyped, Registered, Settled, Pending, [Next]_vars,
         owed, status = 0, status' = 0
  PROVE  /\ process' # "gone" /\ AnyFailed' /\ ~NothingTested'
         /\ \/ Waits("end testing")'
            \/ process' = "exiting" /\ \E n : At(exiting, n)' /\ Judges(n)
<1>1. /\ process # "gone" /\ AnyFailed /\ ~NothingTested
      /\ \/ Waits("end testing")
         \/ process = "exiting" /\ \E n : At(exiting, n) /\ Judges(n)
  BY DEF Pending
<1>2. ~(\E t \in Threads : ResetStep(t))
  BY ResetAt DEF Settled
<1>3. \A c \in CountNames : counts'[c] >= counts[c] /\ counts[c] \in Nat /\ counts'[c] \in Nat
  BY <1>2, CountsGrow, TestStep DEF TestTyped
<1>4. AnyFailed' /\ ~NothingTested'
  <2>1. \A m, n \in Nat : m >= n /\ n > 0 => m > 0 OBVIOUS
  <2>2. AnyFailed'
    BY <1>1, <1>3, <2>1 DEF AnyFailed, CountNames
  <2>3. \A a, b, c, d \in Nat : c >= a /\ d >= b /\ a + b # 0 => c + d # 0 OBVIOUS
  <2>4. ~NothingTested'
    BY <1>1, <1>3, <2>3 DEF NothingTested, CountNames
  <2> QED BY <2>2, <2>4
<1>5. \/ Waits("end testing")'
      \/ process' = "exiting" /\ \E n : At(exiting, n)' /\ Judges(n)
  <2>1. CASE Waits("end testing")
    BY <2>1, WaitsOn
  <2>2. ASSUME process = "exiting", NEW n, At(exiting, n), Judges(n)
        PROVE  process' = "exiting" /\ \E m : At(exiting, m)' /\ Judges(m)
    <3>1. \/ process' = "exiting" /\ exiting' = exiting /\ \E m : At(exiting, m)' /\ Judges(m)
          \/ status' = 1
      BY <1>1, <2>2, JudgeStays
    <3>2. 0 # 1 OBVIOUS
    <3> QED BY <3>1, <3>2
  <2> QED BY <1>1, <2>1, <2>2
<1>6. process' # "gone"
  <2>1. SUFFICES ASSUME NEW t \in Threads, Gone(t) PROVE FALSE
    BY <1>1, GoneStep
  <2>2. ~Waits("end testing")
    BY <2>1 DEF Gone, Waits
  <2>3. At(t, "handlers") /\ Shape(t)
    BY <1>1, <2>1 DEF Gone, Step, At, Control
  <2>4. t = exiting
    BY <2>3, StepAt DEF HandlingLeft, Exits
  <2> QED BY <1>1, <2>2, <2>3, <2>4 DEF At, Judges
<1> QED BY <1>4, <1>5, <1>6

\* What is owed from now on is pending.
LEMMA NowOwed ==
  ASSUME Control, HandlersTyped, TestTyped, Over, Kept, Registered, Asked, Counting, [Next]_vars,
         ~owed, owed', status' = 0
  PROVE  /\ process' # "gone" /\ AnyFailed' /\ ~NothingTested'
         /\ \/ Waits("end testing")'
            \/ process' = "exiting" /\ \E n : At(exiting, n)' /\ Judges(n)
<1>1. PICK t \in Threads : EndTestStep(t) \/ EndSuiteStep(t)
  BY OwedBefore
<1>2. \/ EndTestStep(t) /\ <<t, "test">> \in unmet
      \/ EndSuiteStep(t) /\ <<t, "suite">> \in unmet
  BY <1>1 DEF EndTestStep, EndSuiteStep, Owe
<1>3. /\ process # "gone" /\ (process = "running" \/ t = exiting)
      /\ UNCHANGED <<process, exiting, once, handlers>> /\ Pop(t)
  BY <1>1 DEF EndTestStep, EndSuiteStep, Owe, Step
<1>4. \E n : Step(t, n) /\ At(t, n) /\ Testing(n) /\ (n = "end test" \/ n = "end suite")
  BY <1>1 DEF EndTestStep, EndSuiteStep, Step, At, Testing
<1>5. t \notin finished
  BY <1>3, <1>4 DEF Control, At
<1>6. Concerns(t) BY <1>3, <1>5 DEF Concerns
<1>7. \A c \in CountNames : counts[c] \in Nat /\ counts'[c] \in Nat
  BY TestStep DEF TestTyped
<1>8. AnyFailed' /\ ~NothingTested'
  <2>1. CASE EndTestStep(t) /\ <<t, "test">> \in unmet
    <3>1. current_test[t] /\ test_failed[t] /\ counts["tests"] > 0
      BY <1>6, <2>1 DEF Kept, Counting
    <3>2. counts' = [counts EXCEPT !["tests_failed"] = counts["tests_failed"] + 1]
      BY <2>1, <3>1 DEF EndTestStep, EndTest, Counted
    <3>3. counts \in [CountNames -> Nat] BY DEF TestTyped
    <3>4. counts'["tests_failed"] = counts["tests_failed"] + 1 /\ counts'["tests"] = counts["tests"]
          /\ counts'["suites"] = counts["suites"]
      BY <3>2, <3>3 DEF CountNames
    <3> QED BY <1>7, <3>1, <3>4 DEF AnyFailed, NothingTested, CountNames
  <2>2. CASE EndSuiteStep(t) /\ <<t, "suite">> \in unmet
    <3>1. current_suite[t] /\ suite_failed[t] /\ counts["suites"] > 0
      BY <1>6, <2>2 DEF Kept, Counting
    <3>2. counts' = [counts EXCEPT !["suites_failed"] = counts["suites_failed"] + 1]
      BY <2>2, <3>1 DEF EndSuiteStep, EndSuite, Counted
    <3>3. counts \in [CountNames -> Nat] BY DEF TestTyped
    <3>4. counts'["suites_failed"] = counts["suites_failed"] + 1 /\ counts'["tests"] = counts["tests"]
          /\ counts'["suites"] = counts["suites"]
      BY <3>2, <3>3 DEF CountNames
    <3> QED BY <1>7, <3>1, <3>4 DEF AnyFailed, NothingTested, CountNames
  <2> QED BY <1>2, <2>1, <2>2
<1>9. CASE process = "running"
  <2>1. Waits("end testing")
    BY <1>4, <1>9 DEF Registered, Asked
  <2> QED BY <1>3, <1>8, <2>1 DEF Waits
<1>10. CASE process = "exiting"
  <2>1. PICK n : Step(t, n) /\ At(t, n) /\ (n = "end test" \/ n = "end suite")
    BY <1>4
  <2>2. t = exiting BY <1>3, <1>10
  <2>3. PICK i \in 2 .. 3 : HandlingLeft(t, i)
    <3>1. 2 \in 2 .. 3 /\ 3 \in 2 .. 3 OBVIOUS
    <3>2. HandlingLeft(t, 2) \/ HandlingLeft(t, 3)
      BY <1>10, <2>1, <2>2, JudgeAt DEF Judges
    <3> QED BY <3>1, <3>2
  <2>4. At(t, Handled[i + 1])'
    <3>1. i \in 1 .. 8 OBVIOUS
    <3> QED BY <1>3, <2>1, <2>3, <3>1, HandlingPop
  <2>5. Judges(Handled[i + 1])
    <3>1. i = 2 \/ i = 3 OBVIOUS
    <3> QED BY <3>1, HandledNames DEF Judges
  <2> QED BY <1>3, <1>8, <1>10, <2>2, <2>4, <2>5
<1> QED BY <1>3, <1>9, <1>10 DEF Control, ControlTyped

\* Every step keeps Pending.
LEMMA PendingStep ==
  ASSUME Control, HandlersTyped, TestTyped, Over, Kept, Registered, Asked, Counting, Settled, Pending, [Next]_vars
  PROVE  Pending'
<1>1. SUFFICES ASSUME owed', status' = 0
               PROVE  /\ process' # "gone" /\ AnyFailed' /\ ~NothingTested'
                      /\ \/ Waits("end testing")'
                         \/ process' = "exiting" /\ \E n : At(exiting, n)' /\ Judges(n)
  BY DEF Pending
<1>2. status = 0 BY <1>1, StatusBefore
<1>3. CASE owed BY <1>1, <1>2, <1>3, StillOwed
<1>4. CASE ~owed BY <1>1, <1>4, NowOwed
<1> QED BY <1>3, <1>4

\* A move that owes nothing new keeps Settled.
LEMMA SettledMoves ==
  ASSUME Settled, NEW t \in Threads, NEW m, Moves(t, m), UNCHANGED <<owed, status>>,
         m = "verdict" => (owed => status # 0)
  PROVE  Settled'
<1>1. SUFFICES ASSUME NEW u \in Threads, NEW n, At(u, n)', IsReset(n)
               PROVE  owed => status # 0
  BY DEF Settled
<1>2. CASE todo'[u] = todo[u] BY <1>1, <1>2 DEF Settled, At
<1>3. CASE u = t /\ At(t, m) /\ Follows(m, n) BY <1>1, <1>3, BeforeStep DEF Settled
<1>4. CASE Starts(n) BY <1>1, <1>4, StartSteps
<1> QED BY <1>1, <1>2, <1>3, <1>4 DEF Moves

\* Every step keeps Settled.
LEMMA SettledStep ==
  ASSUME Control, HandlersTyped, TestTyped, Registered, Settled, Pending, [Next]_vars
  PROVE  Settled'
<1>1. CASE UNCHANGED vars BY <1>1 DEF vars, Settled, At
<1>2. CASE Return
  <2>1. Moves(Main, "handlers") BY <1>2, ExitMoves, MainAssumption DEF Return
  <2>2. UNCHANGED <<owed, status>>
    BY <1>2 DEF Return, Exit, Registered
  <2> QED BY <2>1, <2>2, SettledMoves, MainAssumption
<1>3. ASSUME NEW t \in Threads, QuietMove(t) PROVE Settled'
  <2>1. UNCHANGED <<owed, status>> BY <1>3 DEF QuietMove, Quiet
  <2>2. ~AnyFailed => (owed => status # 0) BY DEF Pending
  <2> QED BY <1>3, <2>1, <2>2, SettledMoves DEF QuietMove
<1>4. ASSUME NEW t \in Threads, NEW m \in {"end test", "end suite"}, Moves(t, m), At(t, m), status' = status,
             process # "gone", owed' => owed \/ process = "running" \/ t = exiting,
             \A n : At(t, n)' => Follows(m, n)
      PROVE  Settled'
  <2>1. SUFFICES ASSUME NEW u \in Threads, NEW n, At(u, n)', IsReset(n), owed'
                 PROVE  status # 0
    BY <1>4 DEF Settled
  <2>2. u # t
    BY <1>4, <2>1 DEF Follows, IsReset
  <2>3. At(u, n) BY <1>4, <2>1, <2>2 DEF Moves, At
  <2>4. owed
    BY <1>4, <2>1, <2>2, <2>3, Alone DEF At, Exits
  <2> QED BY <2>1, <2>3, <2>4 DEF Settled
<1>5. ASSUME NEW t \in Threads, EndTestStep(t) \/ EndSuiteStep(t) PROVE Settled'
  <2>1. PICK m \in {"end test", "end suite"} : Step(t, m) /\ Pop(t)
    BY <1>5 DEF EndTestStep, EndSuiteStep
  <2>2. status' = status /\ (owed' => owed \/ process = "running" \/ t = exiting)
    BY <1>5 DEF EndTestStep, EndSuiteStep, Owe
  <2>3. Moves(t, m) /\ \A n : At(t, n)' => Follows(m, n)
    BY <2>1, PopMoves
  <2> QED BY <1>4, <2>1, <2>2, <2>3 DEF Step, At
<1>6. ASSUME NEW t \in Threads, StartTestStep(t) \/ StartSuiteStep(t) \/ Gone(t) \/ ThreadEndStep(t) PROVE Settled'
  <2>1. PICK m : Step(t, m) /\ Pop(t) /\ m # "verdict"
    BY <1>6 DEF StartTestStep, StartSuiteStep, Gone, ThreadEndStep
  <2>2. UNCHANGED <<owed, status>>
    BY <1>6 DEF StartTestStep, StartSuiteStep, Gone, ThreadEndStep
  <2> QED BY <2>1, <2>2, PopMoves, SettledMoves
<1>7. ASSUME NEW t \in Threads, ResetStep(t) PROVE Settled'
  <2>1. PICK c \in CountNames : Step(t, ResetOf[c]) /\ Pop(t) /\ UNCHANGED <<owed, status>>
    BY <1>7 DEF ResetStep, programVars
  <2>2. ResetOf[c] # "verdict" BY ResetSteps
  <2> QED BY <2>1, <2>2, PopMoves, SettledMoves
<1>8. ASSUME NEW t \in Threads, Expect(t) PROVE Settled'
  BY <1>8 DEF Expect, Settled, At
<1>9. ASSUME NEW t \in Threads, Assert(t) \/ VerdictFailed(t) PROVE Settled'
  <2>1. status' = 1 /\ 1 # 0 BY <1>9 DEF Assert, VerdictFailed, Exit
  <2> QED BY <2>1 DEF Settled
<1> QED BY <1>1, <1>2, <1>3, <1>5, <1>6, <1>7, <1>8, <1>9, Cases DEF Loud

\* What is true of the tests and of the end of the program
TestsInv ==
  /\ Control /\ HandlersTyped /\ TestTyped
  /\ Blamed /\ Over /\ Kept /\ Registered /\ Asked /\ Counting /\ Settled /\ Pending

\* At first no thread takes a step.
LEMMA InitEmpty ==
  ASSUME Init, NEW t \in Threads, NEW n
  PROVE  ~At(t, n)
BY DEF Init, At

\* The invariant holds at first.
LEMMA TestsInit == Init => TestsInv
<1> SUFFICES ASSUME Init PROVE TestsInv
  OBVIOUS
<1>1. Control BY ControlInit, MainAssumption
<1>2. HandlersTyped
  <2>1. << >> \in Seq(HandlerNames) OBVIOUS
  <2> QED BY <2>1 DEF Init, HandlersTyped
<1>3. TestTyped
  <2>1. \A n \in {0} : n \in Nat /\ n \in {0, 1} OBVIOUS
  <2> QED BY <2>1 DEF Init, TestInit, No, TestTyped
<1>4. ~AnyFailed
  BY DEF Init, TestInit, AnyFailed, CountNames
<1>5. Blamed BY <1>4 DEF Init, TestInit, No, Blamed
<1>6. Over /\ Settled /\ Asked /\ Counting
  <2>1. \A t \in Threads : ~current_test[t] /\ ~current_suite[t]
    BY DEF Init, TestInit, No
  <2>2. ~(started > 0)
    BY DEF Init
  <2> QED BY <2>1, <2>2, InitEmpty DEF Over, Settled, Asked, Counting
<1>7. Kept BY DEF Init, Kept
<1>8. Registered BY DEF Init, Registered
<1>9. Pending BY DEF Init, Pending
<1> QED BY <1>1, <1>2, <1>3, <1>5, <1>6, <1>7, <1>8, <1>9 DEF TestsInv

\* Every step keeps it.
LEMMA TestsStep == TestsInv /\ [Next]_vars => TestsInv'
BY ControlStep, HandlersStep, TestStep, BlamedStep, OverStep, KeptStep, RegisteredStep, AskedStep,
   CountingStep, SettledStep, PendingStep DEF TestsInv

\* The invariant of the tests, their counts, the handlers and the end of the program: it holds in
\* every state of gp_test(), gp_suite(), gp_end_testing(), assertions and exit() in any
\* interleaving.
THEOREM TestsInvariant == Spec => []TestsInv
BY TestsInit, TestsStep, PTL DEF Spec

\* A failed expectation is not lost: once its test or suite ended the program ends with another
\* status than 0, and only a program with a failure does (gp_end_testing of src/src/assert.c).
THEOREM FailuresAreReported == Spec => []FailuresFail
<1>1. TestsInv => FailuresFail
  BY DEF TestsInv, Blamed, Pending, FailuresFail
<1> QED BY <1>1, TestsInvariant, PTL

\* The deferred functions are numbered.
Ids == 1 .. MaxDefers

\* The automatic scopes have their types.
MemoryTyped ==
  /\ deferred \in 0 .. MaxDefers
  /\ defers \in [Threads -> Seq(Ids)]
  /\ opened \in [Threads -> Seq(Seq(Ids))]
  /\ ran \in [Ids -> 0 .. 1]

\* The elements of a concatenation
LEMMA Appended ==
  ASSUME NEW S, NEW s \in Seq(S), NEW r \in Seq(S)
  PROVE  /\ (s \o r) \in Seq(S) /\ Len(s \o r) = Len(s) + Len(r)
         /\ \A i \in 1 .. Len(s) : (s \o r)[i] = s[i]
         /\ \A i \in 1 .. Len(s \o r) : i \in 1 .. Len(s) \/ (i - Len(s) \in 1 .. Len(r) /\ (s \o r)[i] = r[i - Len(s)])
         /\ \A i \in 1 .. Len(r) : Len(s) + i \in 1 .. Len(s \o r) /\ (s \o r)[Len(s) + i] = r[i]
<1>1. PICK m \in Nat, n \in Nat : m = Len(s) /\ n = Len(r)
  OBVIOUS
<1>2. /\ (s \o r) \in Seq(S) /\ Len(s \o r) = m + n
      /\ \A i \in 1 .. m + n : (s \o r)[i] = IF i <= m THEN s[i] ELSE r[i - m]
  BY <1>1, ConcatProperties
<1>3. \A i \in 1 .. m + n : i <= m => i \in 1 .. m
  OBVIOUS
<1>4. \A i \in 1 .. m + n : ~(i <= m) => i - m \in 1 .. n
  OBVIOUS
<1>5. \A i \in 1 .. n : m + i \in 1 .. m + n /\ ~(m + i <= m) /\ m + i - m = i
  OBVIOUS
<1>6. \A i \in 1 .. m : i \in 1 .. m + n /\ i <= m
  OBVIOUS
<1> QED BY <1>1, <1>2, <1>3, <1>4, <1>5, <1>6

\* The elements of a sequence without its last one
LEMMA Shortened ==
  ASSUME NEW S, NEW s \in Seq(S), s # << >>
  PROVE  /\ Len(s) \in Nat \ {0} /\ s[Len(s)] \in S
         /\ SubSeq(s, 1, Len(s) - 1) \in Seq(S)
         /\ Len(SubSeq(s, 1, Len(s) - 1)) = Len(s) - 1
         /\ \A i \in 1 .. Len(s) - 1 : i \in 1 .. Len(s) /\ SubSeq(s, 1, Len(s) - 1)[i] = s[i]
<1>1. PICK n \in Nat : n = Len(s) - 1 /\ Len(s) = n + 1
  OBVIOUS
<1>2. \A i \in 1 .. n : s[i] \in S
  BY <1>1
<1>3. /\ Len(SubSeq(s, 1, n)) = IF 1 <= n THEN n - 1 + 1 ELSE 0
      /\ \A i \in 1 .. n - 1 + 1 : SubSeq(s, 1, n)[i] = s[1 + i - 1]
      /\ SubSeq(s, 1, n) \in Seq(S)
  BY <1>2, SubSeqProperties
<1>4. Len(SubSeq(s, 1, n)) = n
  BY <1>3
<1>5. \A i \in 1 .. n : SubSeq(s, 1, n)[i] = s[i]
  BY <1>3
<1>6. n + 1 \in Nat \ {0} /\ s[n + 1] \in S
  BY <1>1
<1>7. \A i \in 1 .. n : i \in 1 .. n + 1
  OBVIOUS
<1> QED BY <1>1, <1>3, <1>4, <1>5, <1>6, <1>7

\* What GP_DEFER_BEGIN adds to the functions of a thread
LEMMA Deferring ==
  ASSUME MemoryTyped, NEW t \in Threads, NEW n \in 1 .. 2, DeferBegin(t, n)
  PROVE  /\ MemoryTyped'
         /\ deferred' = deferred + n
         /\ Len(defers'[t]) = Len(defers[t]) + n
         /\ \A i \in 1 .. Len(defers[t]) : defers'[t][i] = defers[t][i]
         /\ \A i \in 1 .. Len(defers'[t]) : \/ i \in 1 .. Len(defers[t])
                                            \/ (i - Len(defers[t]) \in 1 .. n /\ defers'[t][i] = deferred + (i - Len(defers[t])))
         /\ \A k \in 1 .. n : Len(defers[t]) + k \in 1 .. Len(defers'[t]) /\ defers'[t][Len(defers[t]) + k] = deferred + k
         /\ \A u \in Threads \ {t} : defers'[u] = defers[u]
         /\ UNCHANGED ran
<1>1. PICK d \in Nat : d = deferred /\ d + n <= MaxDefers
  BY MaxDefersAssumption DEF MemoryTyped, DeferBegin
<1> DEFINE r == [k \in 1 .. n |-> d + k]
<1>2. \A k \in 1 .. n : d + k \in Ids
  BY <1>1, MaxDefersAssumption DEF Ids
<1>3. r \in Seq(Ids) /\ Len(r) = n /\ \A k \in 1 .. n : r[k] = d + k
  BY <1>2
<1> HIDE DEF r
<1>4. defers[t] \in Seq(Ids) BY DEF MemoryTyped
<1>5. defers' = [defers EXCEPT ![t] = defers[t] \o r]
  BY <1>1 DEF DeferBegin, r
<1>6. /\ (defers[t] \o r) \in Seq(Ids) /\ Len(defers[t] \o r) = Len(defers[t]) + n
      /\ \A i \in 1 .. Len(defers[t]) : (defers[t] \o r)[i] = defers[t][i]
      /\ \A i \in 1 .. Len(defers[t] \o r) : \/ i \in 1 .. Len(defers[t])
                                            \/ (i - Len(defers[t]) \in 1 .. n /\ (defers[t] \o r)[i] = r[i - Len(defers[t])])
      /\ \A i \in 1 .. n : Len(defers[t]) + i \in 1 .. Len(defers[t] \o r) /\ (defers[t] \o r)[Len(defers[t]) + i] = r[i]
  BY <1>3, <1>4, Appended
<1>7. defers'[t] = defers[t] \o r /\ \A u \in Threads \ {t} : defers'[u] = defers[u]
  BY <1>5 DEF MemoryTyped
<1>8. defers' \in [Threads -> Seq(Ids)]
  BY <1>5, <1>6 DEF MemoryTyped
<1>9. opened' \in [Threads -> Seq(Seq(Ids))]
  <2>1. (<<defers[t]>> \o opened[t]) \in Seq(Seq(Ids))
    BY <1>4 DEF MemoryTyped
  <2> QED BY <2>1 DEF DeferBegin, MemoryTyped
<1>10. deferred' \in 0 .. MaxDefers /\ deferred' = deferred + n
  BY <1>1, MaxDefersAssumption DEF DeferBegin
<1> QED BY <1>1, <1>3, <1>6, <1>7, <1>8, <1>9, <1>10 DEF MemoryTyped, DeferBegin

\* The function that waits last
Last(t) == defers[t][Len(defers[t])]

\* The function that waits last runs and is forgotten.
LEMMA Running ==
  ASSUME MemoryTyped, NEW t \in Threads, RunLast(t), defers[t] # << >>, ran[Last(t)] = 0
  PROVE  /\ MemoryTyped'
         /\ Len(defers[t]) \in Nat \ {0} /\ Last(t) \in Ids
         /\ Len(defers'[t]) = Len(defers[t]) - 1
         /\ \A i \in 1 .. Len(defers[t]) - 1 : i \in 1 .. Len(defers[t]) /\ defers'[t][i] = defers[t][i]
         /\ \A u \in Threads \ {t} : defers'[u] = defers[u]
         /\ ran' = [ran EXCEPT ![Last(t)] = 1]
         /\ UNCHANGED <<opened, deferred>>
<1>1. defers[t] \in Seq(Ids) BY DEF MemoryTyped
<1>2. /\ Len(defers[t]) \in Nat \ {0} /\ Last(t) \in Ids
      /\ SubSeq(defers[t], 1, Len(defers[t]) - 1) \in Seq(Ids)
      /\ Len(SubSeq(defers[t], 1, Len(defers[t]) - 1)) = Len(defers[t]) - 1
      /\ \A i \in 1 .. Len(defers[t]) - 1 : i \in 1 .. Len(defers[t]) /\ SubSeq(defers[t], 1, Len(defers[t]) - 1)[i] = defers[t][i]
  BY <1>1, Shortened DEF Last
<1>3. defers' = [defers EXCEPT ![t] = SubSeq(defers[t], 1, Len(defers[t]) - 1)]
  BY DEF RunLast, LastOf
<1>4. defers'[t] = SubSeq(defers[t], 1, Len(defers[t]) - 1) /\ \A u \in Threads \ {t} : defers'[u] = defers[u]
  BY <1>3 DEF MemoryTyped
<1>5. ran' = [ran EXCEPT ![Last(t)] = 1]
  <2>1. ran' = [ran EXCEPT ![Last(t)] = IF ran[Last(t)] = 2 THEN 2 ELSE ran[Last(t)] + 1]
    BY DEF RunLast, LastOf, RanOnceMore, Last
  <2>2. (IF ran[Last(t)] = 2 THEN 2 ELSE ran[Last(t)] + 1) = 1
    <3>1. PICK x : x = ran[Last(t)] /\ x = 0 OBVIOUS
    <3>2. 0 # 2 /\ 0 + 1 = 1 OBVIOUS
    <3> QED BY <3>1, <3>2
  <2> QED BY <2>1, <2>2
<1>6. ran' \in [Ids -> 0 .. 1]
  <2>1. 1 \in 0 .. 1 OBVIOUS
  <2> QED BY <1>5, <2>1 DEF MemoryTyped
<1>7. defers' \in [Threads -> Seq(Ids)]
  BY <1>2, <1>3 DEF MemoryTyped
<1>8. UNCHANGED <<opened, deferred>> BY DEF RunLast
<1> QED BY <1>2, <1>4, <1>5, <1>6, <1>7, <1>8 DEF MemoryTyped

\* A scope is open where a thread ends one.
Opened == \A t \in Threads : At(t, "defers") => opened[t] # << >>

\* The automatic scopes change by four kinds of steps.
LEMMA MemoryCases ==
  ASSUME Opened, MemoryTyped, [Next]_vars
  PROVE  \/ UNCHANGED memoryVars
         \/ \E t \in Threads : Begin(t)
         \/ \E t \in Threads : (RunDefer(t) \/ RunAllDefers(t)) /\ RunLast(t) /\ defers[t] # << >>
         \/ \E t \in Threads : EndDefers(t)
<1>1. CASE UNCHANGED vars BY <1>1 DEF vars
<1>2. CASE Return \/ EndTesting BY <1>2 DEF Return, EndTesting
<1>3. ASSUME NEW t \in Threads,
             Test(t) \/ TestNull(t) \/ Suite(t) \/ Expect(t) \/ Assert(t) \/ CallEnd(t) \/ ThreadEnd(t)
      PROVE  UNCHANGED memoryVars
  BY <1>3 DEF Test, TestNull, Suite, CallTest, Expect, Assert, CallEnd, ThreadEnd
<1>4. ASSUME NEW t \in Threads,
             \/ EndTestStep(t) \/ EndSuiteStep(t) \/ StartTestStep(t) \/ StartSuiteStep(t)
             \/ AnyTests(t) \/ VerdictFailed(t) \/ VerdictPassed(t) \/ ResetStep(t)
             \/ EndAllDefers(t) \/ ThreadEndStep(t) \/ CallHandler(t) \/ Gone(t)
      PROVE  UNCHANGED memoryVars
  BY <1>4 DEF EndTestStep, EndSuiteStep, StartTestStep, StartSuiteStep, AnyTests, VerdictFailed,
              VerdictPassed, ResetStep, EndAllDefers, ThreadEndStep, CallHandler, Gone
<1>5. ASSUME NEW t \in Threads, RunAllDefers(t) PROVE RunLast(t) /\ defers[t] # << >>
  BY <1>5 DEF RunAllDefers
<1>6. ASSUME NEW t \in Threads, RunDefer(t) PROVE RunLast(t) /\ defers[t] # << >>
  <2>1. opened[t] # << >> BY <1>6 DEF RunDefer, Step, Opened, At
  <2>2. Head(opened[t]) \in Seq(Ids) /\ defers[t] \in Seq(Ids)
    BY <2>1 DEF MemoryTyped
  <2>3. Len(defers[t]) > Len(Head(opened[t])) BY <1>6 DEF RunDefer, DeferWaits
  <2>4. defers[t] # << >> BY <2>2, <2>3
  <2> QED BY <1>6, <2>4 DEF RunDefer
<1> QED BY <1>1, <1>2, <1>3, <1>4, <1>5, <1>6 DEF Next, Steps

\* A function that was deferred waits in one place, or it ran; one that waits did not run.
Waiting ==
  /\ \A t \in Threads : Len(defers[t]) <= deferred
  /\ \A t \in Threads : \A i \in 1 .. Len(defers[t]) : defers[t][i] <= deferred /\ ran[defers[t][i]] = 0
  /\ \A t, u \in Threads : \A i \in 1 .. Len(defers[t]), j \in 1 .. Len(defers[u]) :
       defers[t][i] = defers[u][j] => t = u /\ i = j
  /\ \A k \in Ids : k <= deferred => ran[k] = 1 \/ \E t \in Threads : \E i \in 1 .. Len(defers[t]) : defers[t][i] = k
  /\ \A k \in Ids : k > deferred => ran[k] = 0

\* Deferring functions keeps Waiting.
LEMMA WaitingBegin ==
  ASSUME MemoryTyped, Waiting, NEW t \in Threads, NEW n \in 1 .. 2, DeferBegin(t, n)
  PROVE  Waiting'
<1>1. PICK d \in Nat : d = deferred /\ deferred' = d + n /\ d + n <= MaxDefers
  <2>1. deferred \in Nat BY MaxDefersAssumption DEF MemoryTyped
  <2>2. deferred' = deferred + n /\ deferred + n <= MaxDefers BY DEF DeferBegin
  <2> QED BY <2>1, <2>2
<1>2. PICK l \in Nat : l = Len(defers[t])
  BY DEF MemoryTyped
<1>3. /\ Len(defers'[t]) = l + n
      /\ \A i \in 1 .. l : defers'[t][i] = defers[t][i]
      /\ \A i \in 1 .. l + n : i \in 1 .. l \/ (i - l \in 1 .. n /\ defers'[t][i] = d + (i - l))
      /\ \A k \in 1 .. n : l + k \in 1 .. l + n /\ defers'[t][l + k] = d + k
      /\ \A u \in Threads \ {t} : defers'[u] = defers[u]
      /\ ran' = ran
  BY <1>1, <1>2, Deferring
<1>4. /\ l <= d
      /\ \A u \in Threads : Len(defers[u]) <= d /\ Len(defers[u]) \in Nat
      /\ \A u \in Threads : \A i \in 1 .. Len(defers[u]) : defers[u][i] <= d /\ defers[u][i] \in Nat /\ ran[defers[u][i]] = 0
      /\ \A k \in Ids : k > d => ran[k] = 0
  <2>1. \A u \in Threads : defers[u] \in Seq(Ids) BY DEF MemoryTyped
  <2>2. \A u \in Threads : Len(defers[u]) \in Nat /\ \A i \in 1 .. Len(defers[u]) : defers[u][i] \in Ids
    <3>1. SUFFICES ASSUME NEW u \in Threads
                   PROVE  Len(defers[u]) \in Nat /\ \A i \in 1 .. Len(defers[u]) : defers[u][i] \in Ids
      OBVIOUS
    <3>2. defers[u] \in Seq(Ids) BY <2>1
    <3> QED BY <3>2
  <2>3. \A k \in Ids : k \in Nat BY DEF Ids
  <2> QED BY <1>1, <1>2, <2>2, <2>3 DEF Waiting
<1>5. \A u \in Threads : Len(defers'[u]) <= d + n
  <2>1. \A m \in Nat : m <= d => m <= d + n OBVIOUS
  <2>2. l + n <= d + n BY <1>4
  <2> QED BY <1>3, <1>4, <2>1, <2>2
<1>6. \A k \in 1 .. n : d + k \in Ids /\ d + k > d /\ d + k <= d + n
  BY <1>1, MaxDefersAssumption DEF Ids
<1>7. \A u \in Threads : \A i \in 1 .. Len(defers'[u]) :
        \/ i \in 1 .. Len(defers[u]) /\ defers'[u][i] = defers[u][i]
        \/ u = t /\ i - l \in 1 .. n /\ defers'[u][i] = d + (i - l) /\ i \in Nat
  <2>1. \A i \in 1 .. l + n : i \in Nat OBVIOUS
  <2> QED BY <1>2, <1>3, <2>1
<1>8. ASSUME NEW u \in Threads, NEW i \in 1 .. Len(defers'[u])
      PROVE  defers'[u][i] <= d + n /\ ran[defers'[u][i]] = 0
  <2>1. CASE i \in 1 .. Len(defers[u]) /\ defers'[u][i] = defers[u][i]
    <3>1. PICK m \in Nat : m = defers'[u][i] /\ m <= d /\ ran[m] = 0 BY <1>4, <2>1
    <3>2. m <= d + n BY <3>1
    <3> QED BY <3>1, <3>2
  <2>2. CASE u = t /\ i - l \in 1 .. n /\ defers'[u][i] = d + (i - l)
    BY <1>4, <1>6, <2>2
  <2> QED BY <1>7, <2>1, <2>2
<1>9. ASSUME NEW u \in Threads, NEW v \in Threads, NEW i \in 1 .. Len(defers'[u]), NEW j \in 1 .. Len(defers'[v]),
             defers'[u][i] = defers'[v][j]
      PROVE  u = v /\ i = j
  <2>1. CASE i \in 1 .. Len(defers[u]) /\ defers'[u][i] = defers[u][i]
    <3>1. defers'[u][i] <= d /\ defers'[u][i] \in Nat
      BY <1>4, <2>1
    <3>2. j \in 1 .. Len(defers[v]) /\ defers'[v][j] = defers[v][j]
      <4>1. ASSUME j - l \in 1 .. n, defers'[v][j] = d + (j - l) PROVE FALSE
        BY <1>9, <3>1, <4>1
      <4> QED BY <1>7, <1>9, <4>1
    <3>3. defers[u][i] = defers[v][j] BY <1>9, <2>1, <3>2
    <3> QED BY <2>1, <3>2, <3>3 DEF Waiting
  <2>2. CASE u = t /\ i - l \in 1 .. n /\ defers'[u][i] = d + (i - l) /\ i \in Nat
    <3>1. defers'[u][i] > d
      BY <2>2
    <3>2. v = t /\ j - l \in 1 .. n /\ defers'[v][j] = d + (j - l) /\ j \in Nat
      <4>1. ASSUME j \in 1 .. Len(defers[v]), defers'[v][j] = defers[v][j] PROVE FALSE
        <5>1. defers'[v][j] <= d /\ defers'[v][j] \in Nat BY <1>4, <4>1
        <5> QED BY <1>9, <2>2, <5>1
      <4> QED BY <1>7, <1>9, <4>1
    <3>3. d + (i - l) = d + (j - l)
      BY <1>9, <2>2, <3>2
    <3>4. i = j
      BY <2>2, <3>2, <3>3
    <3> QED BY <2>2, <3>2, <3>4
  <2> QED BY <1>7, <1>9, <2>1, <2>2
<1>10. ASSUME NEW k \in Ids, k <= d + n
       PROVE  ran[k] = 1 \/ \E u \in Threads : \E i \in 1 .. Len(defers'[u]) : defers'[u][i] = k
  <2>1. CASE k <= d
    <3>1. CASE ran[k] = 1 BY <3>1
    <3>2. ASSUME NEW u \in Threads, NEW i \in 1 .. Len(defers[u]), defers[u][i] = k
          PROVE  i \in 1 .. Len(defers'[u]) /\ defers'[u][i] = k
      <4>1. CASE u = t
        <5>1. i \in 1 .. l BY <1>2, <4>1
        <5>2. i \in 1 .. l + n BY <5>1
        <5> QED BY <1>3, <3>2, <4>1, <5>1, <5>2
      <4>2. CASE u # t BY <1>3, <3>2, <4>2
      <4> QED BY <4>1, <4>2
    <3> QED BY <1>1, <2>1, <3>1, <3>2 DEF Waiting
  <2>2. CASE k > d
    <3>1. PICK m \in 1 .. n : d + m = k
      <4>1. k - d \in 1 .. n /\ d + (k - d) = k BY <1>10, <2>2 DEF Ids
      <4> QED BY <4>1
    <3>2. l + m \in 1 .. Len(defers'[t]) /\ defers'[t][l + m] = k
      BY <1>3, <3>1
    <3> QED BY <3>2
  <2> QED BY <2>1, <2>2 DEF Ids
<1>11. \A k \in Ids : k > d + n => ran[k] = 0
  <2>1. \A k \in Ids : k > d + n => k > d BY DEF Ids
  <2> QED BY <1>4, <2>1
<1> QED BY <1>1, <1>3, <1>5, <1>8, <1>9, <1>10, <1>11 DEF Waiting

\* Running the last function keeps Waiting, and it did not run before.
LEMMA WaitingRun ==
  ASSUME MemoryTyped, Waiting, NEW t \in Threads, RunLast(t), defers[t] # << >>
  PROVE  Waiting' /\ ran[Last(t)] = 0
<1>1. Len(defers[t]) \in Nat \ {0}
  BY DEF MemoryTyped
<1>2. PICK l \in Nat \ {0} : l = Len(defers[t]) BY <1>1
<1>3. l \in 1 .. l OBVIOUS
<1>4. ran[Last(t)] = 0 /\ Last(t) <= deferred /\ Last(t) = defers[t][l]
  BY <1>2, <1>3 DEF Waiting, Last
<1>5. /\ Last(t) \in Ids
      /\ Len(defers'[t]) = l - 1
      /\ \A i \in 1 .. l - 1 : i \in 1 .. l /\ defers'[t][i] = defers[t][i]
      /\ \A u \in Threads \ {t} : defers'[u] = defers[u]
      /\ ran' = [ran EXCEPT ![Last(t)] = 1]
      /\ deferred' = deferred
  BY <1>2, <1>4, Running
<1>6. \A u \in Threads : \A i \in 1 .. Len(defers'[u]) :
        i \in 1 .. Len(defers[u]) /\ defers'[u][i] = defers[u][i] /\ (u # t \/ i # l)
  <2>1. \A i \in 1 .. l - 1 : i # l OBVIOUS
  <2> QED BY <1>2, <1>5, <2>1
<1>7. ran' \in [Ids -> 0 .. 1] /\ \A k \in Ids : ran'[k] = IF k = Last(t) THEN 1 ELSE ran[k]
  <2>1. MemoryTyped' BY <1>4, Running
  <2> QED BY <1>5, <2>1 DEF MemoryTyped
<1>8. \A u \in Threads : Len(defers'[u]) <= deferred
  <2>1. l <= deferred /\ deferred \in Int BY <1>2 DEF Waiting, MemoryTyped
  <2>2. l - 1 <= deferred BY <2>1
  <2> QED BY <1>5, <2>2 DEF Waiting
<1>9. ASSUME NEW u \in Threads, NEW i \in 1 .. Len(defers'[u])
      PROVE  defers'[u][i] <= deferred /\ ran'[defers'[u][i]] = 0
  <2>1. i \in 1 .. Len(defers[u]) /\ defers'[u][i] = defers[u][i] /\ (u # t \/ i # l)
    BY <1>6
  <2>2. defers[u][i] # Last(t)
    BY <1>2, <1>3, <1>4, <2>1 DEF Waiting
  <2>3. defers[u][i] \in Ids
    BY <2>1 DEF MemoryTyped
  <2> QED BY <1>7, <2>1, <2>2, <2>3 DEF Waiting
<1>10. \A u, v \in Threads : \A i \in 1 .. Len(defers'[u]), j \in 1 .. Len(defers'[v]) :
         defers'[u][i] = defers'[v][j] => u = v /\ i = j
  BY <1>6 DEF Waiting
<1>11. ASSUME NEW k \in Ids, k <= deferred
       PROVE  ran'[k] = 1 \/ \E u \in Threads : \E i \in 1 .. Len(defers'[u]) : defers'[u][i] = k
  <2>1. CASE k = Last(t) BY <1>7, <2>1
  <2>2. CASE ran[k] = 1 BY <1>7, <2>2
  <2>3. ASSUME k # Last(t), NEW u \in Threads, NEW i \in 1 .. Len(defers[u]), defers[u][i] = k
        PROVE  \E j \in 1 .. Len(defers'[u]) : defers'[u][j] = k
    <3>1. CASE u # t BY <1>5, <2>3, <3>1
    <3>2. CASE u = t
      <4>1. i # l BY <1>4, <2>3, <3>2
      <4>2. i \in 1 .. l BY <1>2, <3>2
      <4>3. i \in 1 .. l - 1 BY <4>1, <4>2
      <4> QED BY <1>5, <2>3, <3>2, <4>3
    <3> QED BY <3>1, <3>2
  <2> QED BY <1>11, <2>1, <2>2, <2>3 DEF Waiting
<1>12. \A k \in Ids : k > deferred => ran'[k] = 0
  <2>1. \A k \in Ids : k > deferred => k # Last(t)
    BY <1>4 DEF Ids, MemoryTyped
  <2> QED BY <1>7, <2>1 DEF Waiting
<1> QED BY <1>4, <1>5, <1>8, <1>9, <1>10, <1>11, <1>12 DEF Waiting

\* Who takes a step
LEMMA Actor ==
  ASSUME ControlTyped, [Next]_vars
  PROVE  \/ UNCHANGED vars
         \/ \E u \in Threads : /\ \A t \in Threads \ {u} : todo'[t] = todo[t]
                               /\ Free(u) \/ Steps(u)
<1>1. ASSUME NEW u \in Threads, (\E steps : Do(u, steps)) \/ UNCHANGED todo
      PROVE  \A t \in Threads \ {u} : todo'[t] = todo[t]
  BY <1>1 DEF Do, ControlTyped
<1>2. CASE UNCHANGED vars BY <1>2
<1>3. CASE Return \/ EndTesting
  <2>1. Free(Main) /\ \E steps : Do(Main, steps)
    BY <1>3 DEF Return, EndTesting, Exit
  <2> QED BY <1>1, <2>1, MainAssumption
<1>4. ASSUME NEW u \in Threads,
             \/ Test(u) \/ TestNull(u) \/ Suite(u) \/ Expect(u) \/ Assert(u)
             \/ Begin(u) \/ CallEnd(u) \/ ThreadEnd(u)
      PROVE  Free(u) /\ ((\E steps : Do(u, steps)) \/ UNCHANGED todo)
  BY <1>4 DEF Test, TestNull, Suite, CallTest, Expect, Assert, Exit, Begin, CallEnd, ThreadEnd
<1>5. ASSUME NEW u \in Threads, Steps(u)
      PROVE  (\E steps : Do(u, steps)) \/ UNCHANGED todo
  BY <1>5 DEF Steps, EndTestStep, EndSuiteStep, StartTestStep, StartSuiteStep, AnyTests, VerdictFailed, Exit,
     VerdictPassed, ResetStep, RunDefer, EndDefers, RunAllDefers, EndAllDefers, ThreadEndStep, CallHandler, Gone, Pop
<1> QED BY <1>1, <1>2, <1>3, <1>4, <1>5 DEF Next

\* A thread in a call goes on only by its own steps.
LEMMA OwnSteps ==
  ASSUME ControlTyped, [Next]_vars, NEW t \in Threads, NEW m, At(t, m), todo'[t] # todo[t]
  PROVE  Steps(t)
<1>1. ~(UNCHANGED vars) BY DEF vars
<1>2. ~Free(t) BY DEF Free, At
<1> QED BY <1>1, <1>2, Actor

\* What a thread does at its end
LEMMA EndsAt ==
  ASSUME NEW t \in Threads, Steps(t)
  PROVE  /\ At(t, "thread end") => ThreadEndStep(t)
         /\ At(t, "all defers") => RunAllDefers(t) \/ EndAllDefers(t)
<1>1. ASSUME NEW c \in CountNames PROVE ResetOf[c] # "thread end" /\ ResetOf[c] # "all defers"
  BY ResetSteps
<1>2. \A m, n : At(t, m) /\ Step(t, n) => m = n
  BY DEF At, Step
<1>3. /\ "end test" # "thread end" /\ "end suite" # "thread end" /\ "start test" # "thread end"
      /\ "start suite" # "thread end" /\ "any tests" # "thread end" /\ "verdict" # "thread end"
      /\ "defers" # "thread end" /\ "all defers" # "thread end" /\ "handlers" # "thread end"
      /\ "end test" # "all defers" /\ "end suite" # "all defers" /\ "start test" # "all defers"
      /\ "start suite" # "all defers" /\ "any tests" # "all defers" /\ "verdict" # "all defers"
      /\ "defers" # "all defers" /\ "handlers" # "all defers"
  OBVIOUS
<1>4. ASSUME EndTestStep(t) \/ EndSuiteStep(t) \/ StartTestStep(t) \/ StartSuiteStep(t) \/ AnyTests(t)
      PROVE  ~At(t, "thread end") /\ ~At(t, "all defers")
  BY <1>2, <1>3, <1>4 DEF EndTestStep, EndSuiteStep, StartTestStep, StartSuiteStep, AnyTests
<1>5. ASSUME VerdictFailed(t) \/ VerdictPassed(t) \/ RunDefer(t) \/ EndDefers(t) \/ CallHandler(t) \/ Gone(t)
      PROVE  ~At(t, "thread end") /\ ~At(t, "all defers")
  BY <1>2, <1>3, <1>5 DEF VerdictFailed, VerdictPassed, RunDefer, EndDefers, CallHandler, Gone
<1>6. ASSUME ResetStep(t) PROVE ~At(t, "thread end") /\ ~At(t, "all defers")
  BY <1>1, <1>2, <1>6 DEF ResetStep
<1>7. ASSUME RunAllDefers(t) \/ EndAllDefers(t) PROVE ~At(t, "thread end")
  BY <1>2, <1>3, <1>7 DEF RunAllDefers, EndAllDefers
<1>8. ASSUME ThreadEndStep(t) PROVE ~At(t, "all defers")
  BY <1>2, <1>3, <1>8 DEF ThreadEndStep
<1> QED BY <1>4, <1>5, <1>6, <1>7, <1>8 DEF Steps

\* How a thread gets to run what it deferred, and to its end
LEMMA NewHead ==
  ASSUME Control, HandlersTyped, [Next]_vars, NEW t \in Threads, todo'[t] # todo[t]
  PROVE  /\ At(t, "defers")' => CallEnd(t)
         /\ At(t, "thread end")' => EndAllDefers(t)
<1>1. /\ \A m : ~Follows(m, "defers") /\ (Follows(m, "thread end") => m = "all defers")
      /\ ~Starts("thread end")
  BY DEF Follows, Starts
<1>2. ASSUME NEW u \in Threads, NEW m, Step(u, m), Pop(u)
      PROVE  ~At(t, "defers")' /\ (At(t, "thread end")' => t = u /\ m = "all defers")
  <2>1. t = u BY <1>2, PopMoves
  <2> QED BY <1>1, <1>2, <2>1, PopMoves
<1>3. ASSUME NEW u \in Threads, NEW steps, Do(u, steps),
             steps # << >> => Head(steps) # "defers" /\ Head(steps) # "thread end"
      PROVE  ~At(t, "defers")' /\ ~At(t, "thread end")'
  <2>1. todo'[u] = steps /\ \A v \in Threads \ {u} : todo'[v] = todo[v]
    BY <1>3 DEF Do, Control, ControlTyped
  <2> QED BY <1>3, <2>1 DEF At
<1>4. /\ Head(TestCall) = "end test" /\ Head(NullCall) = "end test" /\ Head(SuiteCall) = "end test"
      /\ Head(EndCall) = "all defers" /\ Head(EndOfTesting) = "any tests" /\ Head(Handled) = "any tests"
      /\ Head(DefersHandled) = "all defers" /\ Head(<<"handlers">>) = "handlers" /\ Head(<<"defers">>) = "defers"
  BY FirstSteps
<1>5. /\ "end test" # "defers" /\ "end test" # "thread end" /\ "all defers" # "defers" /\ "all defers" # "thread end"
      /\ "any tests" # "defers" /\ "any tests" # "thread end" /\ "handlers" # "defers" /\ "handlers" # "thread end"
  OBVIOUS
<1>6. CASE UNCHANGED vars BY <1>6 DEF vars
<1>7. ASSUME NEW u \in Threads, NEW code, Exit(u, code) PROVE ~At(t, "defers")' /\ ~At(t, "thread end")'
  BY <1>3, <1>4, <1>5, <1>7 DEF Exit
<1>8. CASE Return BY <1>7, <1>8, MainAssumption DEF Return
<1>9. CASE EndTesting BY <1>3, <1>4, <1>5, <1>9, MainAssumption DEF EndTesting
<1>10. ASSUME NEW u \in Threads, Test(u) \/ TestNull(u) \/ Suite(u)
       PROVE  ~At(t, "defers")' /\ ~At(t, "thread end")'
  BY <1>3, <1>4, <1>5, <1>10 DEF Test, TestNull, Suite, CallTest, TestCall, NullCall, SuiteCall
<1>11. ASSUME NEW u \in Threads, Expect(u) \/ Begin(u) \/ RunDefer(u) \/ RunAllDefers(u) PROVE FALSE
  BY <1>11 DEF Expect, Begin, RunDefer, RunAllDefers
<1>12. ASSUME NEW u \in Threads, Assert(u) \/ VerdictFailed(u) PROVE ~At(t, "defers")' /\ ~At(t, "thread end")'
  BY <1>7, <1>12 DEF Assert, VerdictFailed
<1>13. ASSUME NEW u \in Threads, CallEnd(u)
       PROVE  /\ At(t, "defers")' => CallEnd(t)
              /\ ~At(t, "thread end")'
  <2>1. todo'[u] = <<"defers">> /\ \A v \in Threads \ {u} : todo'[v] = todo[v]
    BY <1>13 DEF CallEnd, Do, Control, ControlTyped
  <2>2. t = u BY <2>1
  <2>3. "defers" # "thread end" OBVIOUS
  <2> QED BY <1>4, <1>13, <2>1, <2>2, <2>3 DEF At
<1>14. ASSUME NEW u \in Threads, ThreadEnd(u) PROVE ~At(t, "defers")' /\ ~At(t, "thread end")'
  BY <1>3, <1>4, <1>5, <1>14 DEF ThreadEnd, EndCall
<1>15. ASSUME NEW u \in Threads, AnyTests(u) PROVE ~At(t, "defers")' /\ ~At(t, "thread end")'
  <2>1. Moves(u, "any tests") BY <1>15, AnyTestsMoves
  <2>2. u = t BY <2>1 DEF Moves
  <2> QED BY <1>5, <1>15, <2>2, AnyTestsHead
<1>16. ASSUME NEW u \in Threads, NEW m, Step(u, m), Pop(u), m # "all defers"
       PROVE  ~At(t, "defers")' /\ ~At(t, "thread end")'
  BY <1>2, <1>16
<1>17. ASSUME NEW u \in Threads,
              \/ EndTestStep(u) \/ EndSuiteStep(u) \/ StartTestStep(u) \/ StartSuiteStep(u)
              \/ VerdictPassed(u) \/ ResetStep(u) \/ EndDefers(u) \/ ThreadEndStep(u) \/ Gone(u)
       PROVE  ~At(t, "defers")' /\ ~At(t, "thread end")'
  <2>1. \A c \in CountNames : ResetOf[c] # "all defers" BY ResetSteps
  <2>2. /\ "end test" # "all defers" /\ "end suite" # "all defers" /\ "start test" # "all defers"
        /\ "start suite" # "all defers" /\ "verdict" # "all defers" /\ "defers" # "all defers"
        /\ "thread end" # "all defers" /\ "handlers" # "all defers"
    OBVIOUS
  <2>3. CASE EndTestStep(u) \/ EndSuiteStep(u) \/ StartTestStep(u) \/ StartSuiteStep(u) \/ VerdictPassed(u)
    BY <1>16, <2>2, <2>3 DEF EndTestStep, EndSuiteStep, StartTestStep, StartSuiteStep, VerdictPassed
  <2>4. CASE ResetStep(u) \/ EndDefers(u) \/ ThreadEndStep(u) \/ Gone(u)
    BY <1>16, <2>1, <2>2, <2>4 DEF ResetStep, EndDefers, ThreadEndStep, Gone
  <2> QED BY <1>17, <2>3, <2>4
<1>18. ASSUME NEW u \in Threads, EndAllDefers(u)
       PROVE  ~At(t, "defers")' /\ (At(t, "thread end")' => EndAllDefers(t))
  BY <1>2, <1>18 DEF EndAllDefers
<1>19. ASSUME NEW u \in Threads, CallHandler(u) PROVE ~At(t, "defers")' /\ ~At(t, "thread end")'
  <2>1. PICK h \in HandlerNames : h = handlers[Len(handlers)] /\ Do(u, StepsOf(h) \o <<"handlers">>)
    <3>1. PICK s \in Seq(HandlerNames) : s = handlers BY DEF HandlersTyped
    <3>2. PICK k \in DOMAIN s : k = Len(s) BY <1>19, <3>1, LastHandled
    <3>3. s[k] \in HandlerNames BY <3>2
    <3> QED BY <1>19, <3>1, <3>2, <3>3 DEF CallHandler
  <2>2. CASE h = "end testing"
    <3>1. StepsOf(h) = EndOfTesting BY <2>2 DEF StepsOf
    <3>2. Do(u, Handled) BY <2>1, <3>1 DEF Handled
    <3> QED BY <1>3, <1>4, <1>5, <3>2
  <2>3. CASE h = "auto scope"
    <3>1. StepsOf(h) = <<"all defers">> BY <2>3 DEF StepsOf
    <3>2. Do(u, DefersHandled) BY <2>1, <3>1 DEF DefersHandled
    <3> QED BY <1>3, <1>4, <1>5, <3>2
  <2> QED BY <2>2, <2>3 DEF HandlerNames
<1> QED BY <1>6, <1>8, <1>9, <1>10, <1>11, <1>12, <1>13, <1>14, <1>15, <1>17, <1>18, <1>19 DEF Next, Steps

\* Every step keeps Opened.
LEMMA OpenedStep ==
  ASSUME Control, HandlersTyped, MemoryTyped, Opened, [Next]_vars
  PROVE  Opened'
<1> SUFFICES ASSUME NEW t \in Threads, At(t, "defers")'
             PROVE  opened'[t] # << >>
  BY DEF Opened
<1>1. CASE todo'[t] # todo[t]
  <2>1. CallEnd(t) BY <1>1, NewHead
  <2> QED BY <2>1 DEF CallEnd, memoryVars
<1>2. CASE todo'[t] = todo[t]
  <2>1. opened[t] # << >> /\ At(t, "defers")
    BY <1>2 DEF Opened, At
  <2>2. CASE UNCHANGED memoryVars BY <2>1, <2>2 DEF memoryVars
  <2>3. ASSUME NEW u \in Threads, Begin(u) PROVE opened'[t] # << >>
    <3>1. opened' = [opened EXCEPT ![u] = <<defers[u]>> \o opened[u]]
      BY <2>3 DEF Begin, DeferBegin
    <3>2. opened[u] \in Seq(Seq(Ids)) /\ defers[u] \in Seq(Ids) BY DEF MemoryTyped
    <3>3. <<defers[u]>> \o opened[u] # << >> BY <3>2
    <3> QED BY <2>1, <3>1, <3>3 DEF MemoryTyped
  <2>4. ASSUME NEW u \in Threads, RunLast(u) PROVE opened'[t] # << >>
    BY <2>1, <2>4 DEF RunLast
  <2>5. ASSUME NEW u \in Threads, EndDefers(u) PROVE opened'[t] # << >>
    <3>1. u # t
      <4>1. SUFFICES ASSUME u = t PROVE FALSE OBVIOUS
      <4>2. Follows("defers", "defers")
        BY <2>5, <4>1, PopMoves DEF EndDefers
      <4> QED BY <4>2 DEF Follows
    <3> QED BY <2>1, <2>5, <3>1 DEF EndDefers, CloseDefers, MemoryTyped
  <2> QED BY <2>2, <2>3, <2>4, <2>5, MemoryCases
<1> QED BY <1>1, <1>2

\* Every step keeps Waiting and the types.
LEMMA WaitingStep ==
  ASSUME MemoryTyped, Waiting, Opened, [Next]_vars
  PROVE  MemoryTyped' /\ Waiting'
<1>1. CASE UNCHANGED memoryVars
  BY <1>1 DEF memoryVars, MemoryTyped, Waiting
<1>2. ASSUME NEW t \in Threads, Begin(t) PROVE MemoryTyped' /\ Waiting'
  BY <1>2, WaitingBegin, Deferring DEF Begin
<1>3. ASSUME NEW t \in Threads, RunLast(t), defers[t] # << >> PROVE MemoryTyped' /\ Waiting'
  BY <1>3, WaitingRun, Running
<1>4. ASSUME NEW t \in Threads, EndDefers(t) PROVE MemoryTyped' /\ Waiting'
  <2>1. UNCHANGED <<defers, deferred, ran>> /\ opened' = [opened EXCEPT ![t] = Tail(opened[t])]
    BY <1>4 DEF EndDefers, CloseDefers
  <2>2. opened[t] # << >> BY <1>4 DEF EndDefers, Step, Opened, At
  <2>3. Tail(opened[t]) \in Seq(Seq(Ids)) BY <2>2 DEF MemoryTyped
  <2> QED BY <2>1, <2>3 DEF MemoryTyped, Waiting
<1> QED BY <1>1, <1>2, <1>3, <1>4, MemoryCases

\* A thread finishes by its last step, and stays finished.
LEMMA FinishedGrows ==
  ASSUME Control, HandlersTyped, [Next]_vars
  PROVE  /\ \A t \in Threads : t \in finished' => t \in finished \/ ThreadEndStep(t)
         /\ finished \subseteq finished'
<1>1. CASE UNCHANGED vars BY <1>1 DEF vars
<1>2. CASE Return BY <1>2 DEF Return
<1>3. ASSUME NEW t \in Threads, QuietMove(t) PROVE UNCHANGED finished
  BY <1>3 DEF QuietMove, Quiet
<1>4. ASSUME NEW u \in Threads, Loud(u), ~ThreadEndStep(u) PROVE UNCHANGED finished
  BY <1>4 DEF Loud, EndTestStep, EndSuiteStep, StartTestStep, StartSuiteStep, Expect, Assert, VerdictFailed,
              ResetStep, Gone, programVars
<1>5. ASSUME NEW u \in Threads, ThreadEndStep(u) PROVE finished' = finished \cup {u}
  BY <1>5 DEF ThreadEndStep
<1> QED BY <1>1, <1>2, <1>3, <1>4, <1>5, Cases

\* A program that exits does not run again, and another thread does not take the exit over.
LEMMA ExitingStays ==
  ASSUME Control, HandlersTyped, [Next]_vars, process # "running"
  PROVE  process' # "running" /\ exiting' = exiting
<1>1. CASE UNCHANGED vars BY <1>1 DEF vars
<1>2. CASE Return BY <1>2 DEF Return
<1>3. ASSUME NEW t \in Threads, QuietMove(t) PROVE UNCHANGED <<process, exiting>>
  BY <1>3 DEF QuietMove, Quiet
<1>4. ASSUME NEW u \in Threads, Loud(u) PROVE process' # "running" /\ exiting' = exiting
  <2>1. CASE Assert(u) BY <2>1 DEF Assert
  <2>2. CASE VerdictFailed(u) BY <2>2 DEF VerdictFailed, Exit
  <2>3. CASE Gone(u) BY <2>3 DEF Gone
  <2>4. CASE ~Assert(u) /\ ~VerdictFailed(u) /\ ~Gone(u)
    BY <1>4, <2>4 DEF Loud, EndTestStep, EndSuiteStep, StartTestStep, StartSuiteStep, Expect,
                      ResetStep, ThreadEndStep, programVars
  <2> QED BY <2>1, <2>2, <2>3, <2>4
<1> QED BY <1>1, <1>2, <1>3, <1>4, Cases

\* A thread that leaves its scopes behind
Leaves(t) ==
  t \in finished \/ (process # "running" /\ t = exiting) \/ At(t, "thread end") \/ At(t, "all defers")

\* What is left of a call of two steps, before its end, contains the second.
LEMMA EndsInSecond ==
  ASSUME NEW e \in Seq(StepNames), Len(e) = 2, NEW s, IsRest(s, e, 1) \/ IsRest(s, e, 2)
  PROVE  \E i \in DOMAIN s : s[i] = e[2]
<1>1. CASE IsRest(s, e, 1)
  <2>1. Len(s) = 2 /\ DOMAIN s = 1 .. 2 /\ \A j \in 1 .. Len(s) : s[j] = e[1 + j - 1]
    BY <1>1 DEF IsRest
  <2>2. 2 \in 1 .. 2 /\ 1 + 2 - 1 = 2 OBVIOUS
  <2>3. s[2] = e[1 + 2 - 1] BY <2>1, <2>2
  <2> QED BY <2>1, <2>2, <2>3
<1>2. CASE IsRest(s, e, 2)
  <2>1. Len(s) = 1 /\ DOMAIN s = 1 .. 1 /\ \A j \in 1 .. Len(s) : s[j] = e[2 + j - 1]
    BY <1>2 DEF IsRest
  <2>2. 1 \in 1 .. 1 /\ 2 + 1 - 1 = 2 OBVIOUS
  <2>3. s[1] = e[2 + 1 - 1] BY <2>1, <2>2
  <2> QED BY <2>1, <2>2, <2>3
<1> QED BY <1>1, <1>2

\* A thread that leaves its scopes behind is one of those that the property excepts.
LEMMA LeavesEnds ==
  ASSUME Control, process # "gone", NEW t \in Threads, Leaves(t)
  PROVE  Ends(t)
<1>1. ASSUME OwnLeft(t, EndCall, 1) \/ OwnLeft(t, EndCall, 2) PROVE Ends(t)
  <2>1. PICK e \in Seq(StepNames) : e = EndCall /\ Len(e) = 2 /\ e[2] = "thread end" BY CallSteps
  <2>2. PICK s \in Seq(StepNames) : s = todo[t] BY DEF Control, ControlTyped
  <2>3. IsRest(s, e, 1) \/ IsRest(s, e, 2)
    BY <1>1, <2>1, <2>2 DEF OwnLeft, Left
  <2>4. \E i \in DOMAIN s : s[i] = e[2]
    BY <2>1, <2>3, EndsInSecond
  <2> QED BY <2>1, <2>2, <2>4 DEF Ends
<1>2. CASE t \in finished \/ (process # "running" /\ t = exiting)
  BY <1>2 DEF Ends
<1>3. CASE At(t, "thread end")
  BY <1>1, <1>3, StepAt DEF Control
<1>4. CASE At(t, "all defers")
  <2>1. OwnLeft(t, EndCall, 1) \/ Exits(t)
    BY <1>4, StepAt DEF Control
  <2> QED BY <1>1, <2>1 DEF Exits, Ends
<1> QED BY <1>2, <1>3, <1>4 DEF Leaves

\* A thread that leaves its scopes behind does not come back to them.
LEMMA LeavesStay ==
  ASSUME Control, HandlersTyped, [Next]_vars, process # "gone", NEW t \in Threads, Leaves(t)
  PROVE  Leaves(t)'
<1>1. CASE t \in finished
  BY <1>1, FinishedGrows DEF Leaves
<1>2. CASE process # "running" /\ t = exiting
  BY <1>2, ExitingStays DEF Leaves
<1>3. CASE At(t, "thread end")
  <2>1. CASE todo'[t] = todo[t] BY <1>3, <2>1 DEF Leaves, At
  <2>2. CASE todo'[t] # todo[t]
    <3>1. Steps(t) BY <1>3, <2>2, OwnSteps DEF Control
    <3>2. ThreadEndStep(t)
      BY <1>3, <3>1, EndsAt
    <3> QED BY <3>2 DEF ThreadEndStep, Leaves
  <2> QED BY <2>1, <2>2
<1>4. CASE At(t, "all defers")
  <2>1. CASE todo'[t] = todo[t] BY <1>4, <2>1 DEF Leaves, At
  <2>2. CASE todo'[t] # todo[t]
    <3>1. Steps(t) BY <1>4, <2>2, OwnSteps DEF Control
    <3>2. EndAllDefers(t)
      BY <1>4, <2>2, <3>1, EndsAt DEF RunAllDefers
    <3>3. OwnLeft(t, EndCall, 1) \/ Exits(t)
      BY <1>4, StepAt DEF Control
    <3>4. CASE Exits(t)
      BY <1>2, <3>4 DEF Exits
    <3>5. CASE OwnLeft(t, EndCall, 1)
      <4>1. PICK e \in Seq(StepNames) : e = EndCall /\ Len(e) = 2 /\ e[2] = "thread end" BY CallSteps
      <4>2. IsRest(todo[t], e, 1) /\ todo[t] # << >>
        BY <1>4, <3>5, <4>1 DEF OwnLeft, Left, At
      <4>3. IsRest(Tail(todo[t]), e, 1 + 1)
        BY <4>2, RestOfRest
      <4>4. 1 + 1 = 2 /\ 2 \in 1 .. 2 OBVIOUS
      <4>5. Tail(todo[t]) # << >> /\ Head(Tail(todo[t])) = e[2]
        BY <4>1, <4>3, <4>4, FirstOfRest
      <4>6. todo'[t] = Tail(todo[t])
        BY <3>2 DEF EndAllDefers, Pop, Do, Control, ControlTyped
      <4> QED BY <4>1, <4>5, <4>6 DEF Leaves, At
    <3> QED BY <3>3, <3>4, <3>5
  <2> QED BY <2>1, <2>2
<1> QED BY <1>1, <1>2, <1>3, <1>4 DEF Leaves

\* A sequence begins with the other.
PrefixOf(s, d) == Len(s) <= Len(d) /\ \A j \in 1 .. Len(s) : d[j] = s[j]

\* What waited in an outer scope is no more than in an inner one.
InOrder(t) == \A i, j \in 1 .. Len(opened[t]) : i <= j => Len(opened[t][j]) <= Len(opened[t][i])

\* What waited where a scope was opened still waits, in its place.
Inside(t) == \A i \in 1 .. Len(opened[t]) : PrefixOf(opened[t][i], defers[t])

\* The functions of the outer scopes wait, the first ones of all that wait.
Nested ==
  /\ \A t \in Threads : InOrder(t)
  /\ process # "gone" => \A t \in Threads : Leaves(t) \/ Inside(t)
  /\ \A t \in Threads : Ends(t) \/ Inside(t)

\* A sequence that goes on after its elements begins with what it began with.
LEMMA PrefixGrows ==
  ASSUME NEW S, NEW s \in Seq(S), NEW d \in Seq(S), NEW e \in Seq(S), PrefixOf(s, d),
         Len(d) <= Len(e), \A i \in 1 .. Len(d) : e[i] = d[i]
  PROVE  PrefixOf(s, e)
<1>1. PICK l \in Nat, m \in Nat, n \in Nat : l = Len(s) /\ m = Len(d) /\ n = Len(e)
  OBVIOUS
<1>2. l <= m /\ m <= n /\ \A i \in 1 .. l : d[i] = s[i]
  BY <1>1 DEF PrefixOf
<1>3. l <= n /\ \A i \in 1 .. l : i \in 1 .. m
  BY <1>2
<1> QED BY <1>1, <1>2, <1>3 DEF PrefixOf

\* A sequence without its last element begins with what was shorter.
LEMMA PrefixShrinks ==
  ASSUME NEW S, NEW s \in Seq(S), NEW d \in Seq(S), NEW e \in Seq(S), PrefixOf(s, d), Len(s) < Len(d),
         Len(e) = Len(d) - 1, \A i \in 1 .. Len(d) - 1 : e[i] = d[i]
  PROVE  PrefixOf(s, e)
<1>1. PICK l \in Nat, m \in Nat : l = Len(s) /\ m = Len(d)
  OBVIOUS
<1>2. l < m /\ \A i \in 1 .. l : d[i] = s[i]
  BY <1>1 DEF PrefixOf
<1>3. l <= m - 1 /\ \A i \in 1 .. l : i \in 1 .. m - 1
  BY <1>2
<1> QED BY <1>1, <1>2, <1>3 DEF PrefixOf

\* A scope that is opened is the innermost one.
LEMMA NestedBegin ==
  ASSUME MemoryTyped, NEW t \in Threads, NEW n \in 1 .. 2, DeferBegin(t, n), InOrder(t), Inside(t)
  PROVE  InOrder(t)' /\ Inside(t)'
<1>1. PICK d \in Seq(Ids), o \in Seq(Seq(Ids)) : d = defers[t] /\ o = opened[t]
  BY DEF MemoryTyped
<1>2. opened'[t] = <<d>> \o o
  BY <1>1 DEF DeferBegin, MemoryTyped
<1>3. <<d>> \in Seq(Seq(Ids)) /\ Len(<<d>>) = 1 /\ <<d>>[1] = d
  OBVIOUS
<1>4. PICK m \in Nat : m = Len(o)
  OBVIOUS
<1>5. PICK p \in Seq(Seq(Ids)) : p = <<d>> \o o
  BY <1>3, Appended
<1>6. Len(p) = m + 1 /\ p[1] = d /\ \A i \in 1 .. m + 1 : i = 1 \/ (i - 1 \in 1 .. m /\ p[i] = o[i - 1])
  <2>1. /\ Len(p) = 1 + m
        /\ \A i \in 1 .. 1 : p[i] = <<d>>[i]
        /\ \A i \in 1 .. Len(p) : i \in 1 .. 1 \/ (i - 1 \in 1 .. m /\ p[i] = o[i - 1])
    <3>1. PICK q \in Seq(Seq(Ids)) : q = <<d>> /\ Len(q) = 1 BY <1>3
    <3>2. /\ Len(q \o o) = Len(q) + Len(o)
          /\ \A i \in 1 .. Len(q) : (q \o o)[i] = q[i]
          /\ \A i \in 1 .. Len(q \o o) : i \in 1 .. Len(q) \/ (i - Len(q) \in 1 .. Len(o) /\ (q \o o)[i] = o[i - Len(q)])
      BY <3>1, Appended
    <3> QED BY <1>4, <1>5, <3>1, <3>2
  <2>2. 1 \in 1 .. 1 /\ 1 + m = m + 1 OBVIOUS
  <2>3. \A i \in 1 .. 1 : i = 1 OBVIOUS
  <2> QED BY <1>3, <2>1, <2>2, <2>3
<1>7. \A i \in 1 .. m : PrefixOf(o[i], d) /\ o[i] \in Seq(Ids)
  BY <1>1, <1>4 DEF Inside
<1>8. \A i \in 1 .. m + 1 : p[i] \in Seq(Ids) /\ PrefixOf(p[i], d)
  <2>1. PrefixOf(d, d)
    <3>1. Len(d) \in Nat OBVIOUS
    <3>2. Len(d) <= Len(d) BY <3>1
    <3> QED BY <3>2 DEF PrefixOf
  <2> QED BY <1>6, <1>7, <2>1
<1>9. ASSUME NEW i \in 1 .. m + 1, NEW j \in 1 .. m + 1, i <= j
      PROVE  Len(p[j]) <= Len(p[i])
  <2>1. CASE i = 1
    BY <1>6, <1>8, <2>1 DEF PrefixOf
  <2>2. CASE i # 1
    <3>1. i - 1 \in 1 .. m /\ j - 1 \in 1 .. m /\ i - 1 <= j - 1
      BY <1>9, <2>2
    <3>2. p[i] = o[i - 1] /\ p[j] = o[j - 1]
      <4>1. j # 1 BY <1>9, <2>2
      <4> QED BY <1>6, <2>2, <4>1
    <3> QED BY <1>1, <1>4, <3>1, <3>2 DEF InOrder
  <2> QED BY <2>1, <2>2
<1>10. InOrder(t)'
  BY <1>2, <1>5, <1>6, <1>9 DEF InOrder
<1>11. PICK e \in Seq(Ids) : e = defers'[t]
  <2>1. MemoryTyped' BY Deferring
  <2> QED BY <2>1 DEF MemoryTyped
<1>12. Len(d) <= Len(e) /\ \A i \in 1 .. Len(d) : e[i] = d[i]
  <2>1. Len(e) = Len(d) + n /\ \A i \in 1 .. Len(d) : e[i] = d[i]
    BY <1>1, <1>11, Deferring
  <2>2. Len(d) \in Nat OBVIOUS
  <2>3. Len(d) <= Len(d) + n BY <2>2
  <2> QED BY <2>1, <2>3
<1>13. \A i \in 1 .. m + 1 : PrefixOf(p[i], e)
  BY <1>8, <1>12, PrefixGrows
<1>14. Inside(t)'
  BY <1>2, <1>5, <1>6, <1>11, <1>13 DEF Inside
<1> QED BY <1>10, <1>14

\* GP_DEFER_END runs none of the functions of outer scopes.
LEMMA NestedRun ==
  ASSUME MemoryTyped, NEW t \in Threads, RunLast(t), defers[t] # << >>, ran[Last(t)] = 0,
         opened[t] # << >>, DeferWaits(t), InOrder(t), Inside(t)
  PROVE  Inside(t)'
<1>1. PICK d \in Seq(Ids), o \in Seq(Seq(Ids)) : d = defers[t] /\ o = opened[t] /\ o # << >>
  BY DEF MemoryTyped
<1>2. PICK e \in Seq(Ids) : e = defers'[t]
  <2>1. MemoryTyped' BY Running
  <2> QED BY <2>1 DEF MemoryTyped
<1>3. Len(e) = Len(d) - 1 /\ (\A i \in 1 .. Len(d) - 1 : e[i] = d[i]) /\ opened'[t] = o
  BY <1>1, <1>2, Running
<1>4. ASSUME NEW i \in 1 .. Len(o)
      PROVE  PrefixOf(o[i], e)
  <2>1. o[i] \in Seq(Ids) /\ Head(o) = o[1] /\ o[1] \in Seq(Ids)
    BY <1>1
  <2>2. Len(o[i]) <= Len(o[1])
    <3>1. 1 \in 1 .. Len(o) /\ 1 <= i BY <1>1
    <3> QED BY <1>1, <3>1 DEF InOrder
  <2>3. Len(d) > Len(o[1])
    BY <1>1, <2>1 DEF DeferWaits
  <2>4. Len(o[i]) \in Nat /\ Len(o[1]) \in Nat /\ Len(d) \in Nat
    BY <2>1
  <2>5. Len(o[i]) < Len(d)
    BY <2>2, <2>3, <2>4
  <2>6. PrefixOf(o[i], d) BY <1>1 DEF Inside
  <2> QED BY <1>3, <2>1, <2>5, <2>6, PrefixShrinks
<1> QED BY <1>2, <1>3, <1>4 DEF Inside

\* A scope that is closed leaves the outer ones.
LEMMA NestedEnd ==
  ASSUME MemoryTyped, NEW t \in Threads, CloseDefers(t), opened[t] # << >>
  PROVE  (InOrder(t) => InOrder(t)') /\ (Inside(t) => Inside(t)')
<1>1. PICK o \in Seq(Seq(Ids)) : o = opened[t] /\ o # << >>
  BY DEF MemoryTyped
<1>2. opened'[t] = Tail(o) /\ defers' = defers
  BY <1>1 DEF CloseDefers, MemoryTyped
<1>3. PICK m \in Nat : m = Len(Tail(o)) /\ Len(o) = m + 1
  <2>1. PICK l \in Nat \ {0} : l = Len(o) BY <1>1
  <2>2. Len(Tail(o)) = l - 1 BY <1>1, <2>1
  <2>3. PICK m \in Nat : m = l - 1 /\ l = m + 1 OBVIOUS
  <2> QED BY <2>1, <2>2, <2>3
<1>4. \A i \in 1 .. m : Tail(o)[i] = o[i + 1] /\ i + 1 \in 1 .. m + 1
  BY <1>1, <1>3
<1>5. \A i, j \in 1 .. m : i <= j => i + 1 <= j + 1
  OBVIOUS
<1>6. InOrder(t) => InOrder(t)'
  BY <1>1, <1>2, <1>3, <1>4, <1>5 DEF InOrder
<1>7. Inside(t) => Inside(t)'
  BY <1>1, <1>2, <1>3, <1>4 DEF Inside
<1> QED BY <1>6, <1>7

\* The same of the state after a step
LEMMA LeavesEndsNext ==
  ASSUME NEW t \in Threads
  PROVE  (Control /\ process # "gone" /\ Leaves(t))' => Ends(t)'
<1>1. Control /\ process # "gone" /\ Leaves(t) => Ends(t)
  BY LeavesEnds
<1> QED BY <1>1, PTL

\* A thread whose scopes stay as they are keeps what is said of them.
LEMMA SameMemory ==
  ASSUME NEW v \in Threads, defers'[v] = defers[v], opened'[v] = opened[v]
  PROVE  (InOrder(v) => InOrder(v)') /\ (Inside(v) => Inside(v)')
BY DEF InOrder, Inside

\* A step keeps the scopes of each thread nested.
LEMMA NestedThread ==
  ASSUME Control, HandlersTyped, MemoryTyped, Waiting, Opened, [Next]_vars, process # "gone",
         NEW v \in Threads, InOrder(v), Leaves(v) \/ Inside(v)
  PROVE  InOrder(v)' /\ (Leaves(v)' \/ Inside(v)')
<1>1. Leaves(v) => Leaves(v)'
  BY LeavesStay
<1>2. CASE defers'[v] = defers[v] /\ opened'[v] = opened[v]
  BY <1>1, <1>2, SameMemory
<1>3. ASSUME NEW t \in Threads, Begin(t)
      PROVE  InOrder(v)' /\ (Leaves(v)' \/ Inside(v)')
  <2>1. PICK n \in 1 .. 2 : DeferBegin(t, n) BY <1>3 DEF Begin
  <2>2. CASE v # t
    BY <1>2, <2>1, <2>2 DEF DeferBegin, MemoryTyped
  <2>3. CASE v = t
    <3>1. ~Leaves(t)
      <4>1. Free(t) BY <1>3 DEF Begin
      <4>2. process # "running" => process = "exiting" BY <4>1 DEF Free, Control, ControlTyped
      <4> QED BY <4>1, <4>2 DEF Free, Leaves, At
    <3> QED BY <2>1, <2>3, <3>1, NestedBegin
  <2> QED BY <2>2, <2>3
<1>4. ASSUME NEW t \in Threads, RunDefer(t) \/ RunAllDefers(t), RunLast(t), defers[t] # << >>
      PROVE  InOrder(v)' /\ (Leaves(v)' \/ Inside(v)')
  <2>1. ran[Last(t)] = 0 BY <1>4, WaitingRun
  <2>2. UNCHANGED opened BY <1>4 DEF RunLast
  <2>3. CASE v # t
    BY <1>2, <1>4, <2>1, <2>2, <2>3, Running
  <2>4. CASE v = t
    <3>1. InOrder(v)' BY <2>2 DEF InOrder
    <3>2. CASE Leaves(v) BY <1>1, <3>1, <3>2
    <3>3. CASE RunAllDefers(t)
      <4>1. Leaves(t) BY <3>3 DEF RunAllDefers, Step, Leaves, At
      <4> QED BY <1>1, <2>4, <3>1, <4>1
    <3>4. CASE RunDefer(t) /\ Inside(v)
      <4>1. opened[t] # << >> BY <3>4 DEF RunDefer, Step, Opened, At
      <4>2. DeferWaits(t) BY <3>4 DEF RunDefer
      <4> QED BY <1>4, <2>1, <2>4, <3>1, <3>4, <4>1, <4>2, NestedRun
    <3> QED BY <1>4, <3>2, <3>3, <3>4
  <2> QED BY <2>3, <2>4
<1>5. ASSUME NEW t \in Threads, EndDefers(t)
      PROVE  InOrder(v)' /\ (Leaves(v)' \/ Inside(v)')
  <2>1. CloseDefers(t) /\ opened[t] # << >>
    BY <1>5 DEF EndDefers, Step, Opened, At
  <2>2. CASE v # t
    BY <1>2, <2>1, <2>2 DEF CloseDefers, MemoryTyped
  <2>3. CASE v = t
    BY <1>1, <2>1, <2>3, NestedEnd
  <2> QED BY <2>2, <2>3
<1> QED BY <1>2, <1>3, <1>4, <1>5, MemoryCases DEF memoryVars

\* Every step keeps Nested.
LEMMA NestedStep ==
  ASSUME Control, Control', HandlersTyped, MemoryTyped, Waiting, Opened, Nested, [Next]_vars
  PROVE  Nested'
<1>1. CASE UNCHANGED vars
  <2>1. UNCHANGED <<defers, opened, todo, process, exiting, finished>>
    BY <1>1 DEF vars, memoryVars
  <2> QED BY <2>1 DEF Nested, InOrder, Inside, Leaves, At, Ends
<1>2. CASE ~(UNCHANGED vars)
  <2>1. process # "gone"
    BY <1>2, Cases DEF Return
  <2>2. \A v \in Threads : InOrder(v)' /\ (Leaves(v)' \/ Inside(v)')
    BY <2>1, NestedThread DEF Nested
  <2>3. CASE process' # "gone"
    BY <2>2, <2>3, LeavesEndsNext DEF Nested
  <2>4. CASE process' = "gone"
    <3>1. PICK u \in Threads : Gone(u) BY <2>1, <2>4, GoneStep
    <3>2. UNCHANGED <<defers, opened, finished, exiting>>
      BY <3>1 DEF Gone, memoryVars
    <3>3. Exits(u)
      BY <2>1, <3>1, StepAt DEF Gone, Step, At, Control, HandlingLeft
    <3>4. todo' = [todo EXCEPT ![u] = Tail(todo[u])]
      BY <3>1 DEF Gone, Pop, Do
    <3>5. ASSUME NEW v \in Threads, Ends(v) PROVE Ends(v)'
      <4>1. CASE v = u
        BY <2>4, <3>2, <3>3, <4>1 DEF Exits, Ends
      <4>2. CASE v # u
        <5>1. todo'[v] = todo[v] BY <3>4, <4>2 DEF Control, ControlTyped
        <5>2. process # "running" /\ process' # "running"
          BY <2>4, <3>3 DEF Exits
        <5> QED BY <3>2, <3>5, <5>1, <5>2 DEF Ends
      <4> QED BY <4>1, <4>2
    <3>6. \A v \in Threads : Ends(v)' \/ Inside(v)'
      BY <3>2, <3>5 DEF Nested, Inside
    <3> QED BY <2>2, <2>4, <3>6 DEF Nested
  <2> QED BY <2>3, <2>4
<1> QED BY <1>1, <1>2

\* Where nothing waits only a GP_DEFER_BEGIN makes something wait.
LEMMA DefersEmpty ==
  ASSUME MemoryTyped, Waiting, Opened, [Next]_vars, NEW t \in Threads, defers[t] = << >>, ~Begin(t)
  PROVE  defers'[t] = << >>
<1>1. CASE UNCHANGED memoryVars BY <1>1 DEF memoryVars
<1>2. ASSUME NEW u \in Threads, Begin(u) PROVE defers'[t] = << >>
  <2>1. u # t BY <1>2
  <2> QED BY <1>2, <2>1 DEF Begin, DeferBegin, MemoryTyped
<1>3. ASSUME NEW u \in Threads, RunLast(u), defers[u] # << >> PROVE defers'[t] = << >>
  <2>1. u # t BY <1>3
  <2> QED BY <1>3, <2>1 DEF RunLast, MemoryTyped
<1>4. ASSUME NEW u \in Threads, EndDefers(u) PROVE defers'[t] = << >>
  BY <1>4 DEF EndDefers, CloseDefers
<1> QED BY <1>1, <1>2, <1>3, <1>4, MemoryCases

\* Who has ended left nothing behind, and what is left when the program exits waits for a handler.
AllRun ==
  /\ \A t \in Threads : t \in finished \/ At(t, "thread end") => defers[t] = << >>
  /\ process = "exiting" /\ defers[exiting] # << >> => Waits("auto scope") \/ At(exiting, "all defers")
  /\ process = "gone" => defers[exiting] = << >>
  /\ \A t \in Threads : defers[t] # << >> => "auto scope" \in once

\* The handler of the automatic scope begins by running what waits.
LEMMA FirstToRun ==
  ASSUME NEW t, Left(t, DefersHandled, 1)
  PROVE  At(t, "all defers")
<1>1. PICK h \in Seq(StepNames) : h = DefersHandled /\ Len(h) = 2 /\ h[1] = "all defers" BY HandledSteps
<1>2. IsRest(todo[t], h, 1) /\ 1 \in 1 .. Len(h)
  <2>1. 1 \in 1 .. 2 OBVIOUS
  <2> QED BY <1>1, <2>1 DEF Left
<1>3. todo[t] # << >> /\ Head(todo[t]) = h[1]
  BY <1>1, <1>2, FirstOfRest
<1> QED BY <1>1, <1>3 DEF At

\* The same of the state after a step
LEMMA FirstToRunNext ==
  ASSUME NEW t
  PROVE  Left(t, DefersHandled, 1)' => At(t, "all defers")'
<1>1. Left(t, DefersHandled, 1) => At(t, "all defers")
  BY FirstToRun
<1> QED BY <1>1, PTL

\* The handler of the automatic scope waits until the thread that exits runs it.
LEMMA HandlerRuns ==
  ASSUME Control, HandlersTyped, [Next]_vars, Waits("auto scope")
  PROVE  Waits("auto scope")' \/ At(exiting, "all defers")'
<1>1. CASE UNCHANGED <<once, handlers>>
  BY <1>1 DEF Waits
<1>2. ASSUME NEW h \in HandlerNames, Once(h) PROVE Waits("auto scope")'
  BY <1>2, OnceKeeps DEF Waits
<1>3. ASSUME NEW t \in Threads, CallHandler(t)
      PROVE  Waits("auto scope")' \/ At(exiting, "all defers")'
  <2>1. PICK i \in DOMAIN handlers : handlers[i] = "auto scope" BY DEF Waits
  <2>2. CASE i \in DOMAIN handlers' /\ handlers'[i] = handlers[i]
    BY <2>1, <2>2 DEF Waits
  <2>3. CASE i = Len(handlers)
    <3>1. Left(t, DefersHandled, 1)' /\ Exits(t)'
      <4>1. "end testing" # "auto scope" OBVIOUS
      <4> QED BY <1>3, <2>1, <2>3, <4>1, ControlCallHandler DEF HandlersTyped
    <3>2. At(t, "all defers")'
      BY <3>1, FirstToRunNext
    <3>3. exiting' = t
      BY <3>1 DEF Exits
    <3> QED BY <3>2, <3>3 DEF At
  <2> QED BY <1>3, <2>1, <2>2, <2>3, LastHandled
<1> QED BY <1>1, <1>2, <1>3, HandlerCases

\* An exit that begins leaves what waits, and the handlers.
LEMMA ExitBegins ==
  ASSUME Control, HandlersTyped, Registered, [Next]_vars, process = "running", process' = "exiting"
  PROVE  UNCHANGED <<memoryVars, once, handlers>> /\ exiting' \in Threads
<1>1. CASE UNCHANGED vars BY <1>1 DEF vars
<1>2. CASE Return BY <1>2, MainAssumption DEF Return, Exit
<1>3. ASSUME NEW t \in Threads, QuietMove(t) PROVE FALSE
  BY <1>3 DEF QuietMove, Quiet
<1>4. ASSUME NEW t \in Threads, Loud(t)
      PROVE  UNCHANGED <<memoryVars, once, handlers>> /\ exiting' \in Threads
  <2>1. CASE Assert(t) BY <2>1 DEF Assert, Exit
  <2>2. CASE VerdictFailed(t) BY <2>2 DEF VerdictFailed, Exit
  <2>3. CASE ~Assert(t) /\ ~VerdictFailed(t)
    BY <1>4, <2>3 DEF Loud, EndTestStep, EndSuiteStep, StartTestStep, StartSuiteStep, Expect,
                      ResetStep, ThreadEndStep, Gone, programVars
  <2> QED BY <2>1, <2>2, <2>3
<1> QED BY <1>1, <1>2, <1>3, <1>4, Cases

\* Every step keeps AllRun.
LEMMA AllRunStep ==
  ASSUME Control, HandlersTyped, Registered, MemoryTyped, Waiting, Opened, AllRun, [Next]_vars
  PROVE  AllRun'
<1>1. CASE UNCHANGED vars
  BY <1>1 DEF vars, memoryVars, AllRun, Waits, At
<1>2. ASSUME ~(UNCHANGED vars) PROVE process # "gone"
  BY <1>2, Cases DEF Return
<1>3. ASSUME NEW t \in Threads, t \in finished \/ At(t, "thread end") PROVE defers'[t] = << >>
  <2>1. ~Begin(t) BY <1>3 DEF Begin, Free, At
  <2> QED BY <1>3, <2>1, DefersEmpty DEF AllRun
<1>4. ASSUME NEW t \in Threads, t \in finished' \/ At(t, "thread end")' PROVE defers'[t] = << >>
  <2>1. CASE t \in finished'
    <3>1. t \in finished \/ At(t, "thread end")
      BY <2>1, FinishedGrows DEF ThreadEndStep, Step, At
    <3> QED BY <1>3, <3>1
  <2>2. CASE At(t, "thread end")' /\ todo'[t] = todo[t]
    BY <1>3, <2>2 DEF At
  <2>3. CASE At(t, "thread end")' /\ todo'[t] # todo[t]
    <3>1. EndAllDefers(t) BY <2>3, NewHead
    <3> QED BY <3>1 DEF EndAllDefers, memoryVars
  <2> QED BY <1>4, <2>1, <2>2, <2>3
<1>5. ASSUME process' = "exiting", defers'[exiting'] # << >>, ~(UNCHANGED vars)
      PROVE  Waits("auto scope")' \/ At(exiting, "all defers")'
  <2>1. CASE process = "running"
    <3>1. UNCHANGED <<defers, once, handlers>> /\ exiting' \in Threads
      BY <1>5, <2>1, ExitBegins DEF memoryVars
    <3>2. "auto scope" \in once
      BY <1>5, <3>1 DEF AllRun
    <3> QED BY <2>1, <3>1, <3>2 DEF Registered, Waits
  <2>2. CASE process = "exiting"
    <3>1. exiting' = exiting /\ exiting \in Threads
      <4>1. process # "running" BY <2>2
      <4> QED BY <4>1, ExitingStays DEF Control, ControlTyped
    <3>2. defers[exiting] # << >>
      <4>1. ~Begin(exiting) BY <2>2 DEF Begin, Free
      <4> QED BY <1>5, <3>1, <4>1, DefersEmpty
    <3>3. CASE Waits("auto scope") BY <3>3, HandlerRuns
    <3>4. CASE At(exiting, "all defers")
      <4>1. CASE todo'[exiting] = todo[exiting] BY <3>1, <3>4, <4>1 DEF At
      <4>2. CASE todo'[exiting] # todo[exiting]
        <5>1. Steps(exiting) BY <3>1, <3>4, <4>2, OwnSteps DEF Control
        <5> QED BY <3>1, <3>2, <3>4, <4>2, <5>1, EndsAt DEF RunAllDefers, EndAllDefers
      <4> QED BY <4>1, <4>2
    <3> QED BY <2>2, <3>2, <3>3, <3>4 DEF AllRun
  <2> QED BY <1>2, <1>5, <2>1, <2>2 DEF Control, ControlTyped
<1>6. ASSUME process' = "gone", ~(UNCHANGED vars)
      PROVE  defers'[exiting'] = << >>
  <2>1. PICK u \in Threads : Gone(u) BY <1>2, <1>6, GoneStep
  <2>2. UNCHANGED <<defers, exiting>> /\ handlers = << >> /\ At(u, "handlers")
    BY <2>1 DEF Gone, memoryVars, Step, At
  <2>3. Exits(u)
    BY <1>2, <1>6, <2>2, StepAt DEF Control, HandlingLeft
  <2>4. ~At(exiting, "all defers")
    <3>1. "handlers" # "all defers" OBVIOUS
    <3> QED BY <2>2, <2>3, <3>1 DEF Exits, At
  <2>5. ~Waits("auto scope") BY <2>2 DEF Waits
  <2> QED BY <2>2, <2>3, <2>4, <2>5 DEF AllRun, Exits
<1>7. ASSUME NEW t \in Threads, defers'[t] # << >> PROVE "auto scope" \in once'
  <2>1. CASE Begin(t) BY <2>1 DEF Begin, Once
  <2>2. CASE ~Begin(t) BY <1>7, <2>2, DefersEmpty, OnceGrows DEF AllRun
  <2> QED BY <2>1, <2>2
<1> QED BY <1>1, <1>4, <1>5, <1>6, <1>7 DEF AllRun

\* What a sequence begins with is its part of that length.
LEMMA PrefixTaken ==
  ASSUME NEW S, NEW s \in Seq(S), NEW d \in Seq(S), PrefixOf(s, d)
  PROVE  SubSeq(d, 1, Len(s)) = s
<1>1. PICK l \in Nat, m \in Nat : l = Len(s) /\ m = Len(d)
  OBVIOUS
<1>2. l <= m /\ \A j \in 1 .. l : d[j] = s[j]
  BY <1>1 DEF PrefixOf
<1>3. \A j \in 1 .. l : d[j] \in S
  BY <1>1, <1>2
<1>4. /\ SubSeq(d, 1, l) \in Seq(S)
      /\ Len(SubSeq(d, 1, l)) = IF 1 <= l THEN l - 1 + 1 ELSE 0
      /\ \A j \in 1 .. l - 1 + 1 : SubSeq(d, 1, l)[j] = d[1 + j - 1]
  BY <1>3, SubSeqProperties
<1>5. Len(SubSeq(d, 1, l)) = l
  BY <1>4
<1>6. \A j \in 1 .. l : SubSeq(d, 1, l)[j] = s[j]
  <2>1. \A j \in 1 .. l : j \in 1 .. l - 1 + 1 /\ 1 + j - 1 = j
    OBVIOUS
  <2> QED BY <1>2, <1>4, <2>1
<1>7. PICK p \in Seq(S) : p = SubSeq(d, 1, l) BY <1>4
<1> QED BY <1>1, <1>5, <1>6, <1>7, SeqEqual

\* A function that was deferred waits in exactly one place, or ran once.
LEMMA OneOrOther ==
  ASSUME MemoryTyped, Waiting, NEW k \in 1 .. deferred
  PROVE  ran[k] + Cardinality(Places(k)) = 1
<1>1. k \in Ids /\ k <= deferred /\ deferred <= MaxDefers
  BY MaxDefersAssumption DEF MemoryTyped, Ids
<1>2. \A p \in Places(k) : /\ p[1] \in Threads /\ p[2] \in 1 .. Len(defers[p[1]])
                           /\ defers[p[1]][p[2]] = k /\ p = <<p[1], p[2]>>
  BY DEF Places, MemoryTyped
<1>3. CASE ran[k] = 1
  <2>1. 1 # 0 OBVIOUS
  <2>2. Places(k) = {}
    BY <1>2, <1>3, <2>1 DEF Waiting
  <2>3. Cardinality(Places(k)) = 0 BY <2>2, FS_EmptySet
  <2> QED BY <1>3, <2>3
<1>4. ASSUME NEW t \in Threads, NEW i \in 1 .. Len(defers[t]), defers[t][i] = k
      PROVE  ran[k] + Cardinality(Places(k)) = 1
  <2>1. PICK l \in Nat : l = Len(defers[t])
    BY DEF MemoryTyped
  <2>2. l <= MaxDefers
    <3>1. l <= deferred /\ deferred \in Nat
      BY <2>1, MaxDefersAssumption DEF Waiting, MemoryTyped
    <3> QED BY <1>1, <3>1, MaxDefersAssumption
  <2>3. i \in 1 .. MaxDefers /\ i \in DOMAIN defers[t]
    BY <2>1, <2>2, MaxDefersAssumption DEF MemoryTyped
  <2>4. <<t, i>> \in Places(k)
    BY <1>4, <2>3 DEF Places
  <2>5. \A p \in Places(k) : p = <<t, i>>
    BY <1>2, <1>4 DEF Waiting
  <2>6. Places(k) = {<<t, i>>}
    BY <2>4, <2>5
  <2>7. Cardinality(Places(k)) = 1 BY <2>6, FS_Singleton
  <2>8. ran[k] = 0 BY <1>4 DEF Waiting
  <2> QED BY <2>7, <2>8
<1> QED BY <1>1, <1>3, <1>4 DEF Waiting

\* What is true of the automatic scopes
MemoryInv == MemoryTyped /\ Opened /\ Waiting /\ Nested /\ AllRun

\* The invariant holds at first.
LEMMA MemoryBegins ==
  ASSUME Init
  PROVE  MemoryInv
<1>1. /\ \A t \in Threads : defers[t] = << >> /\ opened[t] = << >> /\ todo[t] = << >>
      /\ deferred = 0 /\ \A k \in Ids : ran[k] = 0
  BY MainAssumption DEF Init, MemoryInit, Ids
<1>2. MemoryTyped
  <2>1. << >> \in Seq(Ids) /\ << >> \in Seq(Seq(Ids)) OBVIOUS
  <2>2. deferred \in 0 .. MaxDefers BY <1>1, MaxDefersAssumption
  <2> QED BY <2>1, <2>2, MainAssumption DEF Init, MemoryInit, MemoryTyped, Ids
<1>3. \A t \in Threads : Len(defers[t]) = 0 /\ Len(opened[t]) = 0
  <2>1. Len(<< >>) = 0 OBVIOUS
  <2> QED BY <1>1, <2>1
<1>4. Waiting
  <2>1. \A i \in 1 .. 0 : FALSE OBVIOUS
  <2>2. 0 <= 0 /\ \A k \in Ids : ~(k <= 0) BY DEF Ids
  <2> QED BY <1>1, <1>3, <2>1, <2>2 DEF Waiting
<1>5. Nested
  <2>1. \A i \in 1 .. 0 : FALSE OBVIOUS
  <2> QED BY <1>3, <2>1 DEF Nested, InOrder, Inside
<1>6. Opened /\ AllRun
  <2>1. process = "running" BY DEF Init
  <2>2. "running" # "exiting" /\ "running" # "gone" OBVIOUS
  <2> QED BY <1>1, <2>1, <2>2 DEF Opened, AllRun, At
<1> QED BY <1>2, <1>4, <1>5, <1>6 DEF MemoryInv

\* Every step keeps it.
LEMMA MemoryStep ==
  ASSUME TestsInv, TestsInv', MemoryInv, [Next]_vars
  PROVE  MemoryInv'
<1>1. MemoryTyped' /\ Waiting' BY WaitingStep DEF MemoryInv
<1>2. Opened' BY OpenedStep DEF MemoryInv, TestsInv
<1>3. Nested' BY NestedStep DEF MemoryInv, TestsInv
<1>4. AllRun' BY AllRunStep DEF MemoryInv, TestsInv
<1> QED BY <1>1, <1>2, <1>3, <1>4 DEF MemoryInv

\* The invariant of deferred functions: it holds in every state of GP_DEFER_BEGIN, GP_DEFER_END,
\* the ends of threads and exit() in any interleaving.
THEOREM MemoryInvariant == Spec => []MemoryInv
<1>1. Init => MemoryInv BY MemoryBegins
<1>2. TestsInv /\ TestsInv' /\ MemoryInv /\ [Next]_vars => MemoryInv' BY MemoryStep
<1> QED BY <1>1, <1>2, TestsInvariant, PTL DEF Spec

\* A deferred function runs once: it waits, or it ran. While scopes are open those of the outer
\* ones wait, and none waits where the thread has ended or called exit() (GP_DEFER_END of
\* src/include/gpc/memory.h, gp_s_delete_auto_scope of src/src/memory.c).
THEOREM DefersRun == Spec => []DefersRunOnce
<1>1. ASSUME TestsInv, MemoryInv PROVE DefersRunOnce
  <2>1. \A k \in 1 .. deferred : ran[k] + Cardinality(Places(k)) = 1
    BY <1>1, OneOrOther DEF MemoryInv
  <2>2. ASSUME NEW t \in Threads, Inside(t), NEW i \in DOMAIN opened[t]
        PROVE  SubSeq(defers[t], 1, Len(opened[t][i])) = opened[t][i]
    <3>1. defers[t] \in Seq(Ids) /\ opened[t] \in Seq(Seq(Ids))
      BY <1>1 DEF MemoryInv, MemoryTyped
    <3>2. i \in 1 .. Len(opened[t]) /\ opened[t][i] \in Seq(Ids)
      BY <3>1
    <3>3. PrefixOf(opened[t][i], defers[t]) BY <2>2, <3>2 DEF Inside
    <3> QED BY <3>1, <3>2, <3>3, PrefixTaken
  <2>3. \A t \in Threads : Ends(t) \/ \A i \in DOMAIN opened[t] : SubSeq(defers[t], 1, Len(opened[t][i])) = opened[t][i]
    BY <1>1, <2>2 DEF MemoryInv, Nested
  <2>4. \A t \in Threads : t \in finished \/ (process = "gone" /\ t = exiting) => defers[t] = << >>
    BY <1>1 DEF MemoryInv, AllRun
  <2> QED BY <2>1, <2>3, <2>4 DEF DefersRunOnce
<1> QED BY <1>1, TestsInvariant, MemoryInvariant, PTL

=============================================================================
