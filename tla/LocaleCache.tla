------------------------------ MODULE LocaleCache ------------------------------
(***************************************************************************)
(* gp_locale of src/unicode.c, called by several threads: a hash map from  *)
(* locale codes to locales that only ever grows. A thread searches it      *)
(* without a lock; if it finds nothing it locks a mutex, searches again,   *)
(* and creates and puts the locale. So searches run while another thread   *)
(* is in the middle of gp_map_put, and the map is cut here into the reads  *)
(* and writes of bucket fields that gp_map_get and gp_map_put make, in the *)
(* order the source has them. Compiler and processor may reorder them: the *)
(* behaviours here are some of those a build can have.                     *)
(*                                                                         *)
(* A code has a way through the map, the buckets its hash selects on one   *)
(* level after the other. A bucket is named by the indices to it.          *)
(*                                                                         *)
(* A definition named X_Y just before X is X with a slip Y in it, kept to  *)
(* show that the properties notice it; nothing else refers to it.          *)
(***************************************************************************)
EXTENDS Naturals, Sequences

CONSTANTS
  Threads,
  Codes,        \* locale codes
  Available,    \* those that newlocale() makes a locale of
  Way,          \* for each code the indices of its buckets, from the root on
  Nobody,       \* the mutex's owner while nobody holds it
  Unavailable,  \* (GPLocale)-1
  NoLocale,     \* (GPLocale)0
  Junk,         \* what memory from the allocator has in it
  MaxCalls      \* bound: calls a thread makes

ASSUME LocaleCacheAssumption ==
  /\ Available \subseteq Codes
  /\ DOMAIN Way = Codes
  /\ \A c \in Codes : Way[c] \in Seq(Nat) /\ Way[c] # << >>
  \* Hashes differ, so that ways part somewhere.
  /\ \A c, d \in Codes :
       c # d => \E i \in DOMAIN Way[c] \cap DOMAIN Way[d] : Way[c][i] # Way[d][i]
  /\ Nobody \notin Threads
  /\ Codes \cap {Unavailable, NoLocale, Junk, "no code"} = {}
  /\ Unavailable # NoLocale
  /\ Junk \notin {Unavailable, NoLocale, "no code", "yes", "no"}
  /\ MaxCalls \in Nat

VARIABLES
  hash,      \* for each bucket the code whose hash it has, NoCode or Junk
  children,  \* ... whether it has an array of children, "yes", "no" or Junk
  value,     \* ... the locale stored there
  mutex,     \* gp_s_locale_table_mutex
  pc,        \* what each thread does next
  code,      \* the code it was called with
  depth,     \* the level it looks at
  result,    \* what its last call returned
  created,   \* how many times newlocale() was called for a code
  finished,  \* history: codes whose locale was there when the mutex was released
  known,     \* history: what finished was when the thread's call began
  calls      \* how many calls a thread has made

map == << hash, children, value >>

thread == << pc, code, depth, result >>

history == << created, finished, known, calls >>

vars == << map, mutex, thread, history >>

NoCode == "no code"

BucketOf(c, d) == SubSeq(Way[c], 1, d)

Buckets == UNION {{BucketOf(c, d) : d \in DOMAIN Way[c]} : c \in Codes}

\* The bucket a thread looks at, and the one below it.
Here(t) == BucketOf(code[t], depth[t])

Below(t) == BucketOf(code[t], depth[t] + 1)

\* The buckets of the array of children of bucket b.
ChildrenOf(b) == {c \in Buckets : Len(c) = Len(b) + 1 /\ SubSeq(c, 1, Len(b)) = b}

Goto(t, label) == pc' = [pc EXCEPT ![t] = label]

(***************************************************************************)
(* gp_s_init_locale_table has been run, by gp_thread_once: the root array  *)
(* is cleared.                                                             *)
(***************************************************************************)
Init ==
  /\ hash = [b \in Buckets |-> IF Len(b) = 1 THEN NoCode ELSE Junk]
  /\ children = [b \in Buckets |-> IF Len(b) = 1 THEN "no" ELSE Junk]
  /\ value = [b \in Buckets |-> Junk]
  /\ mutex = Nobody
  /\ pc = [t \in Threads |-> "idle"]
  /\ code \in [Threads -> Codes]
  /\ depth = [t \in Threads |-> 1]
  /\ result = [t \in Threads |-> NoLocale]
  /\ created = [c \in Codes |-> 0]
  /\ finished = {}
  /\ known = [t \in Threads |-> {}]
  /\ calls = [t \in Threads |-> 0]

\* gp_locale(c)
Call(t, c) ==
  /\ pc[t] = "idle"
  /\ calls[t] < MaxCalls
  /\ calls' = [calls EXCEPT ![t] = @ + 1]
  /\ code' = [code EXCEPT ![t] = c]
  /\ depth' = [depth EXCEPT ![t] = 1]
  /\ known' = [known EXCEPT ![t] = finished]
  /\ Goto(t, "get hash")
  /\ UNCHANGED << map, mutex, result, created, finished >>

------------------------------------------------------------------------------

\* Where a search that has found a bucket goes on, without and with the mutex.
AfterFound_KeepsMutex(t) == "read locale"

AfterFound(t) == IF mutex = t THEN "unlock" ELSE "read locale"

\* ... and where one that has found nothing does.
AfterNull(t) == IF mutex = t THEN "create" ELSE "lock"

\* gp_s_map_get compares the hash: with junk, the outcome may be any.
GetHash(t) ==
  /\ pc[t] = "get hash"
  /\ \/ hash[Here(t)] \in {code[t], Junk} /\ Goto(t, AfterFound(t))
     \/ hash[Here(t)] # code[t] /\ Goto(t, "get children")
  /\ UNCHANGED << map, mutex, code, depth, result, history >>

\* It goes down to the children if there are any; with a junk pointer it is lost.
GetChildren(t) ==
  /\ pc[t] = "get children"
  /\ \/ /\ children[Here(t)] \in {"no", Junk}
        /\ Goto(t, AfterNull(t))
        /\ UNCHANGED depth
     \/ /\ children[Here(t)] = "yes"
        /\ depth' = [depth EXCEPT ![t] = @ + 1]
        /\ Goto(t, "get hash")
     \/ /\ children[Here(t)] = Junk
        /\ Goto(t, "lost")
        /\ UNCHANGED depth
  /\ UNCHANGED << map, mutex, code, result, history >>

\* gp_mutex_lock, and the search once more.
AfterLock_NoSearch == "create"

AfterLock == "get hash"

Lock(t) ==
  /\ pc[t] = "lock"
  /\ mutex = Nobody
  /\ mutex' = t
  /\ depth' = [depth EXCEPT ![t] = 1]
  /\ Goto(t, AfterLock)
  /\ UNCHANGED << map, code, result, history >>

\* newlocale()
Create(t) ==
  /\ pc[t] = "create"
  /\ created' = [created EXCEPT ![code[t]] = @ + 1]
  /\ depth' = [depth EXCEPT ![t] = 1]
  /\ Goto(t, "put")
  /\ UNCHANGED << map, mutex, code, result, finished, known, calls >>

(***************************************************************************)
(* gp_s_map_put on one level: a free bucket gets the hash; one without     *)
(* children gets an array of them, which is cleared only then; else the    *)
(* next level is looked at.                                                *)
(***************************************************************************)
IsFree_Always(b) == TRUE

IsFree(b) == hash[b] = NoCode

PutHere(t) ==
  /\ pc[t] = "put"
  /\ IsFree(Here(t))
  /\ hash' = [hash EXCEPT ![Here(t)] = code[t]]
  /\ Goto(t, "put value")
  /\ UNCHANGED << children, value, mutex, code, depth, result, history >>

PutBelow(t) ==
  /\ pc[t] = "put"
  /\ ~ IsFree(Here(t))
  /\ children[Here(t)] = "yes"
  /\ depth' = [depth EXCEPT ![t] = @ + 1]
  /\ UNCHANGED << map, mutex, pc, code, result, history >>

PutArray(t) ==
  /\ pc[t] = "put"
  /\ ~ IsFree(Here(t))
  /\ children[Here(t)] = "no"
  /\ children' = [children EXCEPT ![Here(t)] = "yes"]
  /\ Goto(t, "clear array")
  /\ UNCHANGED << hash, value, mutex, code, depth, result, history >>

ClearArray(t) ==
  /\ pc[t] = "clear array"
  /\ hash' = [b \in Buckets |-> IF b \in ChildrenOf(Here(t)) THEN NoCode ELSE hash[b]]
  /\ children' = [b \in Buckets |-> IF b \in ChildrenOf(Here(t)) THEN "no"
                                                                  ELSE children[b]]
  /\ Goto(t, "put child")
  /\ UNCHANGED << value, mutex, code, depth, result, history >>

PutChild(t) ==
  /\ pc[t] = "put child"
  /\ hash' = [hash EXCEPT ![Below(t)] = code[t]]
  /\ depth' = [depth EXCEPT ![t] = @ + 1]
  /\ Goto(t, "put value")
  /\ UNCHANGED << children, value, mutex, code, result, history >>

\* memcpy() of the locale, or of the mark that there is none.
Stored(c) == IF c \in Available THEN c ELSE Unavailable

PutValue(t) ==
  /\ pc[t] = "put value"
  /\ value' = [value EXCEPT ![Here(t)] = Stored(code[t])]
  /\ Goto(t, "unlock")
  /\ UNCHANGED << hash, children, mutex, code, depth, result, history >>

------------------------------------------------------------------------------

Unlock(t) ==
  /\ pc[t] = "unlock"
  /\ mutex' = Nobody
  /\ finished' = finished \cup {code[t]}
  /\ Goto(t, "read locale")
  /\ UNCHANGED << map, code, depth, result, created, known, calls >>

\* gp_locale reads *locale_addr to compare it with the mark ...
Returns(t, locale) ==
  /\ result' = [result EXCEPT ![t] = locale]
  /\ Goto(t, "idle")

ReadLocale(t) ==
  /\ pc[t] = "read locale"
  /\ IF value[Here(t)] = Unavailable
     THEN Returns(t, NoLocale)
     ELSE Goto(t, "read again") /\ UNCHANGED result
  /\ UNCHANGED << map, mutex, code, depth, history >>

\* ... and once more to return it.
ReadAgain(t) ==
  /\ pc[t] = "read again"
  /\ Returns(t, value[Here(t)])
  /\ UNCHANGED << map, mutex, code, depth, history >>

\* The steps of a thread inside gp_locale.
Inside(t) ==
  \/ GetHash(t) \/ GetChildren(t) \/ Lock(t) \/ Create(t)
  \/ PutHere(t) \/ PutBelow(t) \/ PutArray(t) \/ ClearArray(t) \/ PutChild(t)
  \/ PutValue(t) \/ Unlock(t) \/ ReadLocale(t) \/ ReadAgain(t)

Next == \E t \in Threads : Inside(t) \/ \E c \in Codes : Call(t, c)

(***************************************************************************)
(* Threads are scheduled; nothing is assumed of who gets the mutex next.   *)
(***************************************************************************)
Spec == Init /\ [][Next]_vars /\ \A t \in Threads : WF_vars(Inside(t))

------------------------------------------------------------------------------

(***************************************************************************)
(* No locale is created twice, however many threads ask for it at once:    *)
(* locales are never freed, so the second would be lost.                   *)
(***************************************************************************)
CreatedOnce == \A c \in Codes : created[c] <= 1

LocaleOf(c) == IF c \in Available THEN c ELSE NoLocale

(***************************************************************************)
(* "Any subsequent calls with same locale_code will return a already       *)
(* created locale without mutex locks" (src/unicode.c:44): a call that     *)
(* begins when one with the same code has put the locale and given the     *)
(* mutex back finds it in its first search, whatever other threads put in  *)
(* the map meanwhile.                                                      *)
(***************************************************************************)
SubsequentCallsFind ==
  \A t \in Threads :
    code[t] \in known[t] =>
      /\ pc[t] \notin {"lock", "create", "put", "unlock", "lost"}
      /\ pc[t] \in {"read locale", "read again"} =>
           hash[Here(t)] = code[t] /\ value[Here(t)] = Stored(code[t])

\* The mutex is given back, on every path through gp_locale.
MutexGivenBack == (mutex # Nobody) ~> (mutex = Nobody)

(***************************************************************************)
(* gp_locale returns the locale of its code or, if there is none, 0:       *)
(* "adding thread safety and performance" (src/unicode.c:42) to the        *)
(* native functions.                                                       *)
(***************************************************************************)
ReturnsLocale ==
  \A t \in Threads :
    /\ pc[t] # "lost"
    /\ pc[t] = "idle" /\ calls[t] > 0 => result[t] = LocaleOf(code[t])

==============================================================================
