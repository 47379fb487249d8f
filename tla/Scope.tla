-------------------------------- MODULE Scope --------------------------------
(***************************************************************************)
(* Scopes and deferred functions of src/memory.c, as one thread uses them. *)
(* A thread's scopes form a list through their parent pointers, its        *)
(* newest scope is in thread local storage. gp_end runs the deferred       *)
(* functions of a scope and frees it, after doing so for every scope that  *)
(* was begun inside it and not ended. The scopes that are left when the    *)
(* thread exits are freed by a thread destructor, in the main thread by    *)
(* an atexit() handler.                                                    *)
(*                                                                         *)
(* Deferred functions are client code: they begin and end scopes, defer    *)
(* and look at gp_last_scope() in the middle of gp_end. So the calls in    *)
(* progress are explicit, as a stack of frames, and gp_end is cut into the *)
(* steps between which client code runs. Nothing is shared by threads:     *)
(* one thread is all there is to see. Memory handed out by a scope is      *)
(* module Arena's subject.                                                 *)
(*                                                                         *)
(* A definition named X_Y just before X is X with a slip Y in it, kept to  *)
(* show that the properties notice it; nothing else refers to it.          *)
(***************************************************************************)
EXTENDS Integers, SequencesExt

CONSTANTS
  Habits,        \* what clients do, beyond ending scopes newest first
  Exits,         \* how the thread may come to its end
  Iterations,    \* PTHREAD_DESTRUCTOR_ITERATIONS
  MaxScopes,     \* bound: scopes begun
  MaxDefers      \* bound: functions deferred on one scope

ASSUME ScopeAssumption ==
  /\ Habits \subseteq { "skips",            \* ends a scope before the scopes inside it
                        "callback scopes",  \* deferred functions begin and end scopes
                        "exit ends",        \* defers gp_end_scope of an inner scope on
                                            \* one that it leaves to the destructor ...
                        "deferred ends" }   \* ... or on any scope
  /\ Exits \subseteq { "thread", "process" }
  /\ Iterations \in Nat \ {0}
  /\ MaxScopes \in Nat
  /\ MaxDefers \in Nat

VARIABLES
  scopes,  \* every scope there has been, in the order they were begun
  last,    \* the thread local gp_s_scope_list_key: the newest scope's index
  stack,   \* the library calls and callbacks in progress, innermost last
  phase,   \* what the thread is doing
  passes   \* times the thread destructor has been called

scopeVars == << scopes, last, stack, phase, passes >>

NoScope == 0

\* A deferred function: the client's own, or gp_end_scope of the given scope.
Client == 0

(***************************************************************************)
(* depth is the number of frames under the function that began the scope,  *)
(* ran the positions in defers of the functions that have been run.        *)
(***************************************************************************)
ScopeRecord ==
  [parent : Nat, defers : Seq(Nat), ran : Seq(Nat), freed : BOOLEAN, depth : Nat]

(***************************************************************************)
(* gp_end of scope, or the deletion of all scopes, at work on child with   *)
(* left of its deferred functions still to be run.                         *)
(***************************************************************************)
LibraryFrame ==
  [ kind : {"end", "delete"}, scope : {NoScope} \cup DOMAIN scopes,
    child : DOMAIN scopes, left : Nat ]

Callback == [kind |-> "callback"]

Top == stack[Len(stack)]

WithTop(frame) == [stack EXCEPT ![Len(stack)] = frame]

Live == {s \in DOMAIN scopes : ~ scopes[s].freed}

\* Is it client code, the thread's own or a deferred function, that runs?
ClientRuns ==
  IF stack = << >> THEN phase = "running" ELSE Top = Callback

\* Scopes whose deferred functions are being run.
Executing ==
  {stack[i].child : i \in {j \in DOMAIN stack : stack[j] # Callback}}

------------------------------------------------------------------------------

ScopeInit ==
  /\ scopes = << >>
  /\ last = NoScope
  /\ stack = << >>
  /\ phase = "running"
  /\ passes = 0

\* gp_begin
GpBegin ==
  /\ ClientRuns
  /\ stack # << >> => "callback scopes" \in Habits
  /\ Len(scopes) < MaxScopes
  /\ scopes' = Append(scopes, [parent |-> last, defers |-> << >>, ran |-> << >>,
                               freed |-> FALSE, depth |-> Len(stack)])
  /\ last' = Len(scopes')
  /\ UNCHANGED << stack, phase, passes >>

(***************************************************************************)
(* gp_scope_defer(s, f). Clients do not defer on a scope whose deferred    *)
(* functions are being run: gp_s_scope_execute_defers would not see it.    *)
(***************************************************************************)
GpDefer(s, f) ==
  /\ ClientRuns
  /\ s \in Live \ Executing
  /\ f # Client => /\ \/ "deferred ends" \in Habits
                      \/ "exit ends" \in Habits /\ stack = << >>
                   /\ f \in Live \ Executing
                   /\ f > s
  /\ Len(scopes[s].defers) < MaxDefers
  /\ scopes' = [scopes EXCEPT ![s].defers = Append(@, f)]
  /\ UNCHANGED << last, stack, phase, passes >>

\* The functions gp_s_scope_execute_defers has to run: how many there are now.
DefersOf(s) == IF s \in DOMAIN scopes THEN Len(scopes[s].defers) ELSE 0

(***************************************************************************)
(* gp_end(s) starts at the newest scope, whatever s is. In a thread        *)
(* destructor there is none and it returns at once.                        *)
(***************************************************************************)
EndCall_FromScope(s) ==
  IF last = NoScope
  THEN << >>
  ELSE << [kind |-> "end", scope |-> s, child |-> s, left |-> DefersOf(s)] >>

EndCall_NoNullCheck(s) ==
  << [kind |-> "end", scope |-> s, child |-> last, left |-> DefersOf(last)] >>

EndCall(s) ==
  IF last = NoScope
  THEN << >>
  ELSE << [kind |-> "end", scope |-> s, child |-> last, left |-> DefersOf(last)] >>

\* Scopes that the client leaves to the thread destructor.
LeftToDestructor ==
  IF "deferred ends" \in Habits
  THEN {}
  ELSE {s \in Live : \E i \in DOMAIN scopes[s].defers : scopes[s].defers[i] # Client}

(***************************************************************************)
(* The client ends one of its scopes: one begun by the same function, that *)
(* it has not deferred the end of.                                         *)
(***************************************************************************)
GpEnd(s) ==
  /\ ClientRuns
  /\ s \in Live
  /\ scopes[s].depth = Len(stack)
  /\ s = last \/ "skips" \in Habits
  /\ \A o \in Live : ~ \E i \in DOMAIN scopes[o].defers : scopes[o].defers[i] = s
  /\ LeftToDestructor \cap s .. Len(scopes) = {}
  /\ stack' = stack \o EndCall(s)
  /\ UNCHANGED << scopes, last, phase, passes >>

(***************************************************************************)
(* gp_s_scope_execute_defers calls the next deferred function, from the    *)
(* last one deferred on.                                                   *)
(***************************************************************************)
NextDefer_FirstFirst(frame) == Len(scopes[frame.child].defers) + 1 - frame.left

NextDefer(frame) == frame.left

RunDefer ==
  /\ stack # << >>
  /\ Top # Callback
  /\ Top.left > 0
  /\ LET i == NextDefer(Top)
         f == scopes[Top.child].defers[i]
     IN  /\ scopes' = [scopes EXCEPT ![Top.child].ran = Append(@, i)]
         /\ stack' = WithTop([Top EXCEPT !.left = @ - 1])
                       \o (IF f = Client THEN << Callback >> ELSE EndCall(f))
  /\ UNCHANGED << last, phase, passes >>

\* A deferred function returns, having ended the scopes it began.
CallbackReturns ==
  /\ stack # << >>
  /\ Top = Callback
  /\ \A s \in Live : scopes[s].depth # Len(stack)
  /\ stack' = Front(stack)
  /\ UNCHANGED << scopes, last, phase, passes >>

\* The loop of gp_end goes on from a scope that was not ended to its parent.
OnToParent_SkipsDefers(frame) ==
  [frame EXCEPT !.child = scopes[frame.child].parent, !.left = 0]

OnToParent_Stays(frame) == frame

OnToParent(frame) ==
  LET parent == scopes[frame.child].parent
  IN  [frame EXCEPT !.child = parent, !.left = DefersOf(parent)]

FreeInner ==
  /\ stack # << >>
  /\ Top # Callback
  /\ Top.kind = "end"
  /\ Top.left = 0
  /\ Top.child # Top.scope
  /\ scopes' = [scopes EXCEPT ![Top.child].freed = TRUE]
  /\ stack' = WithTop(OnToParent(Top))
  /\ UNCHANGED << last, phase, passes >>

\* gp_end frees its scope last and then makes the parent the newest scope.
FinishEnd ==
  /\ stack # << >>
  /\ Top # Callback
  /\ Top.kind = "end"
  /\ Top.left = 0
  /\ Top.child = Top.scope
  /\ scopes' = [scopes EXCEPT ![Top.scope].freed = TRUE]
  /\ last' = scopes[Top.scope].parent
  /\ stack' = Front(stack)
  /\ UNCHANGED << phase, passes >>

------------------------------------------------------------------------------

\* gp_s_delete_thread_scopes(s)
DeleteCall(s) ==
  IF s = NoScope
  THEN << >>
  ELSE << [kind |-> "delete", scope |-> NoScope, child |-> s, left |-> DefersOf(s)] >>

\* Its loop frees a scope and goes on to the parent, if there is one.
DeleteNext ==
  /\ stack # << >>
  /\ Top # Callback
  /\ Top.kind = "delete"
  /\ Top.left = 0
  /\ scopes' = [scopes EXCEPT ![Top.child].freed = TRUE]
  /\ stack' = IF scopes[Top.child].parent = NoScope
              THEN Front(stack)
              ELSE WithTop(OnToParent(Top))
  /\ UNCHANGED << last, phase, passes >>

\* The thread's function returns, or it calls pthread_exit().
ThreadExit ==
  /\ "thread" \in Exits
  /\ stack = << >>
  /\ phase = "running"
  /\ phase' = "destroying"
  /\ UNCHANGED << scopes, last, stack, passes >>

(***************************************************************************)
(* The thread library sets thread local storage to NULL before it calls    *)
(* the destructor, and does so again while it is not NULL afterwards.      *)
(***************************************************************************)
Destructor ==
  /\ stack = << >>
  /\ phase = "destroying"
  /\ last # NoScope
  /\ passes < Iterations
  /\ stack' = DeleteCall(last)
  /\ last' = NoScope
  /\ passes' = passes + 1
  /\ UNCHANGED << scopes, phase >>

ThreadGone ==
  /\ stack = << >>
  /\ phase = "destroying"
  /\ last = NoScope \/ passes = Iterations
  /\ phase' = "gone"
  /\ UNCHANGED << scopes, last, stack, passes >>

\* exit(), which calls gp_s_delete_main_thread_scopes.
Exit ==
  /\ "process" \in Exits
  /\ LeftToDestructor = {}
  /\ stack = << >>
  /\ phase = "running"
  /\ phase' = "exiting"
  /\ stack' = DeleteCall(last)
  /\ UNCHANGED << scopes, last, passes >>

ExitDone ==
  /\ stack = << >>
  /\ phase = "exiting"
  /\ phase' = "gone"
  /\ UNCHANGED << scopes, last, stack, passes >>

------------------------------------------------------------------------------

\* The steps of the library, once it has been called.
Library == RunDefer \/ FreeInner \/ FinishEnd \/ DeleteNext
             \/ Destructor \/ ThreadGone \/ ExitDone

\* The steps with which a deferred function comes to its end.
CallbackEnds ==
  \/ CallbackReturns
  \/ stack # << >> /\ \E s \in Live : GpEnd(s)

ScopeNext ==
  \/ GpBegin
  \/ \E s \in Live, f \in {Client} \cup Live : GpDefer(s, f)
  \/ \E s \in Live : GpEnd(s)
  \/ CallbackReturns
  \/ ThreadExit
  \/ Exit
  \/ Library

ScopeSpec == ScopeInit /\ [][ScopeNext]_scopeVars

(***************************************************************************)
(* A call of the library, once made, goes on, and a deferred function      *)
(* returns. Nothing is assumed of the thread's own function.               *)
(***************************************************************************)
FairScopeSpec == ScopeSpec /\ WF_scopeVars(Library) /\ WF_scopeVars(CallbackEnds)

------------------------------------------------------------------------------

(***************************************************************************)
(* No call in progress holds a pointer to a freed scope: what gp_end and   *)
(* the deletion loops read, write and free next is not freed yet, although *)
(* client code ran in between.                                             *)
(***************************************************************************)
CallsHoldLiveScopes ==
  \A i \in DOMAIN stack :
    stack[i] # Callback =>
      /\ stack[i].child \in Live
      /\ stack[i].kind = "end" => stack[i].scope \in Live

(***************************************************************************)
(* "Deferred functions are called in Last In First Out order in gp_end()"  *)
(* (include/gpc/memory.h:442), each of them once.                          *)
(***************************************************************************)
DefersRunInOrder ==
  \A s \in DOMAIN scopes :
    \A i, j \in DOMAIN scopes[s].ran : i < j => scopes[s].ran[i] > scopes[s].ran[j]

\* No scope is freed before all the functions deferred on it have been run.
FreedAfterDefers ==
  \A s \in DOMAIN scopes :
    scopes[s].freed => Len(scopes[s].ran) = Len(scopes[s].defers)

(***************************************************************************)
(* A scope that was begun inside another by the same function is freed     *)
(* before the first function deferred on the other runs, so that these do  *)
(* not see the resources of the inner scope.                               *)
(***************************************************************************)
Inside(inner, s) ==
  scopes[inner].parent = s /\ scopes[inner].depth = scopes[s].depth

InnerFreedFirst ==
  \A inner \in Live, s \in DOMAIN scopes :
    Inside(inner, s) => ~ scopes[s].freed /\ scopes[s].ran = << >>

(***************************************************************************)
(* The list through the parents has every live scope, so that none is      *)
(* lost, and leads from live scopes to live ones: but for those that the   *)
(* call has freed which runs the function that found them when it began.   *)
(***************************************************************************)
LedTo(s, d) ==
  \/ s = NoScope
  \/ s \in Live
  \/ d # 0 /\ s > stack[d - 1].child

ListHasLiveScopes ==
  \A s \in Live :
    /\ LedTo(scopes[s].parent, scopes[s].depth)
    /\ s = last \/ s \in Executing \/ \E t \in Live : scopes[t].parent = s

(***************************************************************************)
(* gp_last_scope(), which exists "only to be able to access the current    *)
(* scope allocator in callbacks" (include/gpc/memory.h:461), is a live     *)
(* scope for the thread's own function. To a deferred function it returns  *)
(* a live one if that was begun by the function itself, or is the one that *)
(* the call which runs the function is at. It also returns one that the    *)
(* call has freed: whenever the call has gone on from the newest scope,    *)
(* because inner scopes were not ended or because it is exit() that frees  *)
(* the scopes. The comment does not say so.                                *)
(***************************************************************************)
LastScopeIsLive ==
  ClientRuns /\ last # NoScope =>
    ( last \in Live <=> \/ scopes[last].depth = Len(stack)
                        \/ last <= stack[Len(stack) - 1].child )

\* A thread leaves no scope behind, and no deferred function that has not run.
NothingLeft == phase = "gone" => Live = {}

\* Whatever deferred functions do, the exit of the thread comes to its end.
ExitCompletes == (phase # "running") ~> (phase = "gone")

\* Every gp_end returns.
EndsReturn == (stack # << >>) ~> (stack = << >>)

(***************************************************************************)
(* The scopes that gp_end and the deletion at exit read, write and free    *)
(* next are live, and none is out of their reach (src/src/memory.c, the    *)
(* loops over parents), although client code runs in between.              *)
(***************************************************************************)
ScopesAreLive == CallsHoldLiveScopes /\ ListHasLiveScopes

(***************************************************************************)
(* Nothing that was deferred is forgotten: not when its scope is ended by  *)
(* the end of an outer one, and not when a thread leaves scopes behind.    *)
(***************************************************************************)
NothingLost == FreedAfterDefers /\ NothingLeft

(***************************************************************************)
(* The loops of gp_end and of the exit come to their end, although the     *)
(* deferred functions change the lists they run over.                      *)
(***************************************************************************)
CallsComplete == ExitCompletes /\ EndsReturn

==============================================================================
