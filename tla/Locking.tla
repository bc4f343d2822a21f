------------------------------ MODULE Locking ------------------------------
(***************************************************************************)
(* The mutexes of allocator.cpp in the three concurrency stages, taken and *)
(* released one by one by threads that call my_malloc, my_calloc, my_free  *)
(* and my_realloc.  What a critical section does is left to the other      *)
(* modules, which take each for one step: here is why they may.            *)
(*                                                                         *)
(* The paths are the pools, 1 to kNumSizeClasses in the order of their     *)
(* classes, and the general path after them.  A call is a sequence of      *)
(* sections [op, path] that remain to be done.  In stages 1 and 2 every    *)
(* section is inside a lock_guard; in stage 3 a section of a pool mostly   *)
(* works on the caller's own cache and takes no lock at all.               *)
(*                                                                         *)
(* The stage is fixed when the program is compiled: by Init here.          *)
(***************************************************************************)
EXTENDS Integers, Sequences

CONSTANTS Threads,
          Stages,          \* the values of ALLOCATOR_CONCURRENCY_STAGE
          kNumSizeClasses

ASSUME StagesAssumption == Stages \subseteq 1..3
ASSUME ClassesAssumption == kNumSizeClasses \in Nat

Pools   == 1..kNumSizeClasses
General == kNumSizeClasses + 1
Paths   == 1..General

\* g_global_mutex() is 0, a pool's mutex() has its number and general_mutex()
\* that of the general path.
Global  == 0
Mutexes == {Global} \cup Paths

\* Nobody is a thread's name that no thread has.
CONSTANT Nobody
ASSUME NobodyAssumption == Nobody \notin Threads

VARIABLES stage,   \* kConcurrencyStage
          todo,    \* the sections each thread's call has still to do
          at,      \* before the first of them, waiting for its mutex or in it
          owner    \* the thread that has each mutex

vars == <<stage, todo, at, owner>>

malloc(p) == [op |-> "malloc", path |-> p]
free(p)   == [op |-> "free", path |-> p]
look      == [op |-> "look", path |-> General]
Section   == [op : {"malloc", "free"}, path : Paths] \cup {look}

\* What a call may have to do.  my_realloc of a slot goes straight to a larger
\* class or to the general path, or has nothing to lock; of a block, it looks
\* first.  my_calloc locks as my_malloc does: its memset comes after.
Calls ==
  {<<malloc(p)>> : p \in Paths} \cup {<<free(p)>> : p \in Paths}
    \cup {<<malloc(a[2]), free(a[1])>> : a \in {b \in Pools \X Paths : b[1] < b[2]}}
    \cup {<<look>>}

Init ==
  /\ stage \in Stages
  /\ todo = [t \in Threads |-> << >>]
  /\ at = [t \in Threads |-> "out"]
  /\ owner = [m \in Mutexes |-> Nobody]

InCall(t) == todo[t] # << >>
SectionOf(t) == Head(todo[t])
PathOf(t) == SectionOf(t).path

-----------------------------------------------------------------------------
(* Which mutex a section takes.  The stage is looked at in several places, *)
(* and nothing but agreement between them keeps two threads out of a list. *)

\* Stage 2 is taken for stage 1.
pool_lock_Faulty(p) == IF stage # 3 THEN Global ELSE p

pool_lock(p) == IF stage = 1 THEN Global ELSE p

general_path_lock == IF stage = 1 THEN Global ELSE General

\* my_malloc_pooled_stage3 takes a batch under pool.mutex().
refill_lock(p) == p

\* The batch is given back under the mutex of the general path.
flush_lock_Faulty(p) == general_path_lock

\* flush_batch_to_pool gives one back under pool.mutex().
flush_lock(p) == p

\* my_malloc and my_free of a pool go by way of the cache in stage 3.
MutexOf(s) ==
  CASE s.path = General              -> general_path_lock
    [] s.path \in Pools /\ stage # 3 -> pool_lock(s.path)
    [] s.path \in Pools /\ stage = 3 -> IF s.op = "malloc" THEN refill_lock(s.path)
                                                         ELSE flush_lock(s.path)

-----------------------------------------------------------------------------
(* Steps of a thread.                                                      *)

Call(t) ==
  /\ ~InCall(t)
  /\ \E call \in Calls : todo' = [todo EXCEPT ![t] = call]
  /\ UNCHANGED <<stage, at, owner>>

\* The cache is used although the thread has decided to lock.
UseCache_Faulty(t) ==
  /\ InCall(t)
  /\ stage = 3 /\ PathOf(t) \in Pools
  /\ todo' = [todo EXCEPT ![t] = Tail(@)]
  /\ UNCHANGED <<stage, at, owner>>

\* Stage 3: the slot comes from the thread's own cache, or fits into it.
UseCache(t) ==
  /\ InCall(t) /\ at[t] = "out"
  /\ stage = 3 /\ PathOf(t) \in Pools
  /\ todo' = [todo EXCEPT ![t] = Tail(@)]
  /\ UNCHANGED <<stage, at, owner>>

\* A lock_guard is constructed; in stage 3 because the cache is empty or over
\* its cap.
Wait(t) ==
  /\ InCall(t) /\ at[t] = "out"
  /\ at' = [at EXCEPT ![t] = "wait"]
  /\ UNCHANGED <<stage, todo, owner>>

Lock(t) ==
  /\ at[t] = "wait"
  /\ owner[MutexOf(SectionOf(t))] = Nobody
  /\ owner' = [owner EXCEPT ![MutexOf(SectionOf(t))] = t]
  /\ at' = [at EXCEPT ![t] = "in"]
  /\ UNCHANGED <<stage, todo>>

\* my_realloc tries again when its my_malloc has failed.
Continuations_Faulty(s) ==
  CASE Head(s).op = "look"   -> {<< >>, <<malloc(General), free(General)>>}
    [] Head(s).op = "malloc" -> {Tail(s), s}
    [] Head(s).op = "free"   -> {Tail(s)}

\* What a call that has done the first of the sections s goes on with.  A look
\* finds that the block fits or can grow in place, or that it has to move.  A
\* my_malloc fails or not: my_realloc returns nullptr if it does.
Continuations(s) ==
  CASE Head(s).op = "look"   -> {<< >>, <<malloc(General), free(General)>>}
    [] Head(s).op = "malloc" -> {Tail(s), << >>}
    [] Head(s).op = "free"   -> {Tail(s)}

\* The scope of the lock_guard reaches over the calls my_realloc makes next.
Released_Faulty(t) ==
  IF SectionOf(t).op = "look" THEN owner
  ELSE [owner EXCEPT ![MutexOf(SectionOf(t))] = Nobody]

Released(t) == [owner EXCEPT ![MutexOf(SectionOf(t))] = Nobody]

\* The lock_guard goes out of scope.
Unlock(t) ==
  /\ at[t] = "in"
  /\ owner' = Released(t)
  /\ at' = [at EXCEPT ![t] = "out"]
  /\ \E rest \in Continuations(todo[t]) : todo' = [todo EXCEPT ![t] = rest]
  /\ UNCHANGED stage

Next == \E t \in Threads : \/ Call(t)
                           \/ UseCache(t)
                           \/ Wait(t)
                           \/ Lock(t)
                           \/ Unlock(t)

\* A thread in a call runs on until it waits, and no section blocks: every
\* thread gets the processor again and again.  Nobody has to make a call.
\* Whether a thread that waits for a mutex that is free now and then ever
\* gets it is up to the mutex: this asks only that it does if the mutex stays
\* free.
Fairness ==
  \A t \in Threads : /\ WF_vars(UseCache(t) \/ Wait(t))
                     /\ WF_vars(Lock(t))
                     /\ WF_vars(Unlock(t))

Spec == Init /\ [][Next]_vars /\ Fairness

-----------------------------------------------------------------------------
(* Properties.                                                             *)

\* Every variable has its type, and a thread is nowhere but in a call.
TypeOK ==
  /\ stage \in Stages
  /\ todo \in [Threads -> Seq(Section)]
  /\ at \in [Threads -> {"out", "wait", "in"}]
  /\ \A t \in Threads : at[t] # "out" => InCall(t)
  /\ owner \in [Mutexes -> Threads \cup {Nobody}]

\* No two threads are ever in sections of the same path: blocks, free list and
\* arenas of the general path, and list and arenas of a pool, are worked on by
\* one thread at a time, in every stage, whichever function chose its mutex.
OneThreadPerPath ==
  \A t, u \in Threads :
    t # u /\ at[t] = "in" /\ at[u] = "in" => PathOf(t) # PathOf(u)

\* The mutexes are not reentrant: a thread that waits for one has none, so
\* that my_realloc, which calls my_malloc and my_free, waits neither for
\* itself nor in a circle with others.
WaitersOwnNothing ==
  \A t \in Threads : at[t] # "in" => \A m \in Mutexes : owner[m] # t

\* "threads allocating from different size classes, or from a pool versus the
\* general path, no longer contend with each other under Stage 2, only threads
\* using the exact same path/pool do" (allocator.cpp:63-67).
ContentionStaysOnPath ==
  stage >= 2 =>
    \A t, u \in Threads :
      at[t] = "wait" /\ owner[MutexOf(SectionOf(t))] = u => PathOf(u) = PathOf(t)

\* When every thread is in a call, some call returns, however the mutexes
\* choose among those that wait.
SomeCallReturns == (\A t \in Threads : InCall(t)) ~> (\E t \in Threads : ~InCall(t))

\* Every call returns, if no mutex passes over a thread for ever.
EveryCallReturns ==
  (\A t \in Threads : SF_vars(Lock(t))) => \A t \in Threads : InCall(t) ~> ~InCall(t)
=============================================================================
