--------------------------- MODULE LockingProofs ---------------------------
(***************************************************************************)
(* The safety properties of Locking for any threads, any stage and any     *)
(* number of pools.                                                        *)
(***************************************************************************)
EXTENDS Locking, SequenceTheorems, TLAPS

-----------------------------------------------------------------------------
(* The inductive invariant.                                                *)

\* A mutex is owned by the thread that is in a section of one of its paths,
\* and by no other.
OwnersAreInside ==
  /\ \A t \in Threads : at[t] = "in" => owner[MutexOf(SectionOf(t))] = t
  /\ \A t \in Threads, m \in Mutexes :
       owner[m] = t => at[t] = "in" /\ MutexOf(SectionOf(t)) = m

IInv == TypeOK /\ OwnersAreInside

\* The places that choose a mutex agree: all of them take the global one in
\* stage 1 and the one of the path after that.
LEMMA PlacesAgree ==
  ASSUME stage \in Stages, NEW s \in Section
  PROVE  s.path \in Paths /\ MutexOf(s) = IF stage = 1 THEN Global ELSE s.path
<1>1. General \in Paths /\ (\A p \in Paths : p # General => p \in Pools) /\ General \notin Pools
  BY ClassesAssumption DEF Pools, Paths, General
<1>2. s.path \in Paths /\ (s.path \in Pools \/ s.path = General)
  BY <1>1 DEF Section, look
<1>3. stage = 1 \/ stage = 2 \/ stage = 3
  BY StagesAssumption
<1>4. CASE s.path = General
  BY <1>1, <1>2, <1>4 DEF MutexOf, general_path_lock
<1>5. CASE s.path \in Pools /\ stage # 3
  BY <1>1, <1>2, <1>5 DEF MutexOf, pool_lock
<1>6. CASE s.path \in Pools /\ stage = 3
  BY <1>1, <1>2, <1>6 DEF MutexOf, refill_lock, flush_lock
<1> QED
  BY <1>2, <1>4, <1>5, <1>6

\* The section a call is at is a section, and has a mutex: that of its path.
LEMMA PathHasMutex ==
  ASSUME TypeOK, NEW t \in Threads, InCall(t)
  PROVE  /\ MutexOf(SectionOf(t)) \in Mutexes
         /\ MutexOf(SectionOf(t)) = IF stage = 1 THEN Global ELSE PathOf(t)
<1>1. todo[t] \in Seq(Section) /\ todo[t] # << >>
  BY DEF TypeOK, InCall
<1>2. Head(todo[t]) \in Section
  BY <1>1
<1>3. stage \in Stages
  BY DEF TypeOK
<1> QED
  BY <1>2, <1>3, PlacesAgree DEF PathOf, SectionOf, Mutexes

\* The mutex of a section does not change while the thread is at it.
LEMMA SameMutex ==
  ASSUME stage' = stage, NEW t \in Threads, todo'[t] = todo[t]
  PROVE  MutexOf(SectionOf(t))' = MutexOf(SectionOf(t))
BY DEF MutexOf, SectionOf, pool_lock, general_path_lock, refill_lock, flush_lock

\* The sections there are.
LEMMA Sections ==
  /\ \A p \in Paths : malloc(p) \in Section /\ free(p) \in Section
  /\ look \in Section /\ General \in Paths /\ Pools \subseteq Paths
<1>1. General \in Paths /\ Pools \subseteq Paths
  BY ClassesAssumption DEF Pools, Paths, General
<1> QED
  BY <1>1 DEF malloc, free, look, Section

\* One section is a sequence of sections, and so are two.
LEMMA ShortSequences ==
  ASSUME NEW a \in Section, NEW b \in Section
  PROVE  <<a>> \in Seq(Section) /\ <<a, b>> \in Seq(Section) /\ << >> \in Seq(Section)
OBVIOUS

\* Every call is a sequence of sections.
LEMMA CallsAreSections == \A call \in Calls : call \in Seq(Section) /\ call # << >>
<1> SUFFICES ASSUME NEW call \in Calls PROVE call \in Seq(Section) /\ call # << >>
  OBVIOUS
<1>1. CASE call \in {<<malloc(p)>> : p \in Paths} \cup {<<free(p)>> : p \in Paths}
  <2>1. PICK p \in Paths : call = <<malloc(p)>> \/ call = <<free(p)>>
    BY <1>1
  <2>2. malloc(p) \in Section /\ free(p) \in Section
    BY Sections
  <2>3. <<malloc(p)>> \in Seq(Section) /\ <<free(p)>> \in Seq(Section)
    BY <2>2, ShortSequences
  <2>4. CASE call = <<malloc(p)>>
    BY <2>3, <2>4
  <2>5. CASE call = <<free(p)>>
    BY <2>3, <2>5
  <2> QED
    BY <2>1, <2>4, <2>5
<1>2. CASE call \in {<<malloc(a[2]), free(a[1])>> : a \in {b \in Pools \X Paths : b[1] < b[2]}}
  <2>1. PICK a \in Pools \X Paths : call = <<malloc(a[2]), free(a[1])>>
    BY <1>2
  <2>2. a[1] \in Paths /\ a[2] \in Paths
    BY <2>1, Sections
  <2>3. malloc(a[2]) \in Section /\ free(a[1]) \in Section
    BY <2>2, Sections
  <2>4. <<malloc(a[2]), free(a[1])>> \in Seq(Section)
    BY <2>3, ShortSequences
  <2> QED
    BY <2>1, <2>4
<1>3. CASE call = <<look>>
  BY <1>3, Sections, ShortSequences
<1> QED
  BY <1>1, <1>2, <1>3 DEF Calls

\* So is what is left of one.
LEMMA RestIsSections ==
  ASSUME NEW s \in Seq(Section), s # << >>, NEW r \in Continuations(s)
  PROVE  r \in Seq(Section)
<1>1. Head(s) \in Section /\ Tail(s) \in Seq(Section) /\ << >> \in Seq(Section)
  OBVIOUS
<1>2. <<malloc(General), free(General)>> \in Seq(Section)
  BY Sections, ShortSequences
<1>3. Head(s).op \in {"malloc", "free", "look"}
  BY <1>1 DEF Section, look
<1>4. CASE Head(s).op = "look"
  <2>1. r \in {<< >>, <<malloc(General), free(General)>>}
    BY <1>4 DEF Continuations
  <2> QED
    BY <1>1, <1>2, <2>1
<1>5. CASE Head(s).op = "malloc"
  <2>1. r \in {Tail(s), << >>}
    BY <1>5 DEF Continuations
  <2> QED
    BY <1>1, <2>1
<1>6. CASE Head(s).op = "free"
  <2>1. r \in {Tail(s)}
    BY <1>6 DEF Continuations
  <2> QED
    BY <1>1, <2>1
<1> QED
  BY <1>3, <1>4, <1>5, <1>6

\* At the start nobody is in a call and no mutex is taken.
LEMMA InitInside == Init => IInv
<1> SUFFICES ASSUME Init PROVE IInv
  OBVIOUS
<1>1. TypeOK
  BY DEF Init, TypeOK
<1>2. OwnersAreInside
  BY NobodyAssumption DEF Init, OwnersAreInside
<1> QED
  BY <1>1, <1>2 DEF IInv

\* Taking and releasing a mutex keeps the invariant, and no other step of a
\* thread has to do with mutexes.
LEMMA NextInside == IInv /\ [Next]_vars => IInv'
<1> SUFFICES ASSUME TypeOK, OwnersAreInside, [Next]_vars
             PROVE  TypeOK' /\ OwnersAreInside'
  BY DEF IInv
<1>1. ASSUME NEW t \in Threads, Call(t)
      PROVE  TypeOK' /\ OwnersAreInside'
  <2>1. PICK call \in Calls : todo' = [todo EXCEPT ![t] = call]
    BY <1>1 DEF Call
  <2>2. at[t] = "out"
    BY <1>1 DEF Call, TypeOK
  <2>3. call \in Seq(Section) /\ call # << >>
    BY CallsAreSections
  <2>4. TypeOK'
    BY <1>1, <2>1, <2>3 DEF Call, TypeOK, InCall
  <2>5. \A u \in Threads : at[u] = "in" => MutexOf(SectionOf(u))' = MutexOf(SectionOf(u))
    <3>1. stage' = stage /\ \A u \in Threads : at[u] = "in" => todo'[u] = todo[u]
      BY <1>1, <2>1, <2>2 DEF Call, TypeOK
    <3> QED
      BY <3>1, SameMutex
  <2>6. OwnersAreInside'
    BY <1>1, <2>5 DEF Call, OwnersAreInside
  <2> QED
    BY <2>4, <2>6
<1>2. ASSUME NEW t \in Threads, UseCache(t)
      PROVE  TypeOK' /\ OwnersAreInside'
  <2>1. at[t] = "out" /\ todo[t] \in Seq(Section) /\ todo[t] # << >>
    BY <1>2 DEF UseCache, TypeOK, InCall
  <2>2. Tail(todo[t]) \in Seq(Section)
    BY <2>1
  <2>3. TypeOK'
    BY <1>2, <2>1, <2>2 DEF UseCache, TypeOK, InCall
  <2>4. \A u \in Threads : at[u] = "in" => MutexOf(SectionOf(u))' = MutexOf(SectionOf(u))
    <3>1. stage' = stage /\ \A u \in Threads : at[u] = "in" => todo'[u] = todo[u]
      BY <1>2, <2>1 DEF UseCache, TypeOK
    <3> QED
      BY <3>1, SameMutex
  <2>5. OwnersAreInside'
    BY <1>2, <2>4 DEF UseCache, OwnersAreInside
  <2> QED
    BY <2>3, <2>5
<1>3. ASSUME NEW t \in Threads, Wait(t)
      PROVE  TypeOK' /\ OwnersAreInside'
  <2>1. TypeOK'
    BY <1>3 DEF Wait, TypeOK, InCall
  <2>2. OwnersAreInside'
    <3>1. \A u \in Threads : MutexOf(SectionOf(u))' = MutexOf(SectionOf(u))
      BY <1>3, SameMutex DEF Wait
    <3> QED
      BY <1>3, <3>1 DEF Wait, TypeOK, OwnersAreInside
  <2> QED
    BY <2>1, <2>2
<1>4. ASSUME NEW t \in Threads, Lock(t)
      PROVE  TypeOK' /\ OwnersAreInside'
  <2>1. InCall(t)
    BY <1>4 DEF Lock, TypeOK
  <2> DEFINE m == MutexOf(SectionOf(t))
  <2>2. m \in Mutexes
    BY <2>1, PathHasMutex
  <2>3. TypeOK'
    BY <1>4, <2>2 DEF Lock, TypeOK, InCall
  <2>4. /\ owner[m] = Nobody /\ owner' = [owner EXCEPT ![m] = t]
        /\ at[t] = "wait" /\ at' = [at EXCEPT ![t] = "in"]
        /\ \A u \in Threads : MutexOf(SectionOf(u))' = MutexOf(SectionOf(u))
    BY <1>4, SameMutex DEF Lock
  <2>5. ASSUME NEW u \in Threads, at'[u] = "in"
        PROVE  owner'[MutexOf(SectionOf(u))] = u
    <3>1. CASE u = t
      BY <2>2, <2>4, <3>1 DEF TypeOK
    <3>2. CASE u # t
      <4>1. at[u] = "in"
        BY <2>4, <2>5, <3>2 DEF TypeOK
      <4>2. owner[MutexOf(SectionOf(u))] = u
        BY <4>1 DEF OwnersAreInside
      <4>3. MutexOf(SectionOf(u)) # m
        BY <4>2, <2>4, NobodyAssumption
      <4> HIDE DEF m
      <4>4. InCall(u)
        BY <4>1 DEF TypeOK
      <4>5. MutexOf(SectionOf(u)) \in Mutexes
        BY <4>4, PathHasMutex
      <4> QED
        BY <2>4, <4>2, <4>3, <4>5 DEF TypeOK
    <3> QED
      BY <3>1, <3>2
  <2>6. ASSUME NEW u \in Threads, NEW k \in Mutexes, owner'[k] = u
        PROVE  at'[u] = "in" /\ MutexOf(SectionOf(u)) = k
    <3>1. CASE k = m
      BY <2>2, <2>4, <2>6, <3>1 DEF TypeOK
    <3>2. CASE k # m
      <4>1. owner[k] = u
        BY <2>4, <2>6, <3>2 DEF TypeOK
      <4>2. at[u] = "in" /\ MutexOf(SectionOf(u)) = k
        BY <4>1 DEF OwnersAreInside
      <4> QED
        BY <2>4, <4>2 DEF TypeOK
    <3> QED
      BY <3>1, <3>2
  <2>7. OwnersAreInside'
    BY <2>4, <2>5, <2>6 DEF OwnersAreInside
  <2> QED
    BY <2>3, <2>7
<1>5. ASSUME NEW t \in Threads, Unlock(t)
      PROVE  TypeOK' /\ OwnersAreInside'
  <2>1. InCall(t)
    BY <1>5 DEF Unlock, TypeOK
  <2> DEFINE m == MutexOf(SectionOf(t))
  <2>2. m \in Mutexes /\ owner[m] = t
    BY <1>5, <2>1, PathHasMutex DEF Unlock, OwnersAreInside
  <2>3. PICK rest \in Continuations(todo[t]) : todo' = [todo EXCEPT ![t] = rest]
    BY <1>5 DEF Unlock
  <2>4. todo[t] \in Seq(Section) /\ todo[t] # << >>
    BY <2>1 DEF TypeOK, InCall
  <2>5. rest \in Seq(Section)
    BY <2>4, RestIsSections
  <2>6. /\ owner' = [owner EXCEPT ![m] = Nobody]
        /\ at' = [at EXCEPT ![t] = "out"]
        /\ stage' = stage
    BY <1>5 DEF Unlock, Released
  <2>7. TypeOK'
    BY <2>2, <2>3, <2>5, <2>6 DEF TypeOK, InCall
  <2>8. \A u \in Threads : u # t => MutexOf(SectionOf(u))' = MutexOf(SectionOf(u))
    <3>1. \A u \in Threads : u # t => todo'[u] = todo[u]
      BY <2>3 DEF TypeOK
    <3> QED
      BY <2>6, <3>1, SameMutex
  <2> HIDE DEF m
  <2>9. ASSUME NEW u \in Threads, at'[u] = "in"
        PROVE  owner'[MutexOf(SectionOf(u))'] = u
    <3>1. u # t /\ at[u] = "in"
      BY <2>6, <2>9 DEF TypeOK
    <3>2. owner[MutexOf(SectionOf(u))] = u /\ InCall(u)
      BY <3>1 DEF OwnersAreInside, TypeOK
    <3>3. MutexOf(SectionOf(u)) # m /\ MutexOf(SectionOf(u)) \in Mutexes
      BY <2>2, <3>1, <3>2, PathHasMutex
    <3> QED
      BY <2>6, <2>8, <3>1, <3>2, <3>3 DEF TypeOK
  <2>10. ASSUME NEW u \in Threads, NEW k \in Mutexes, owner'[k] = u
         PROVE  at'[u] = "in" /\ MutexOf(SectionOf(u))' = k
    <3>1. k # m /\ owner[k] = u
      BY <2>2, <2>6, <2>10, NobodyAssumption DEF TypeOK
    <3>2. at[u] = "in" /\ MutexOf(SectionOf(u)) = k
      BY <3>1 DEF OwnersAreInside
    <3>3. u # t
      BY <3>1, <3>2 DEF m
    <3> QED
      BY <2>6, <2>8, <3>2, <3>3 DEF TypeOK
  <2>11. OwnersAreInside'
    BY <2>9, <2>10 DEF OwnersAreInside
  <2> QED
    BY <2>7, <2>11
<1>6. CASE UNCHANGED vars
  <2>1. \A u \in Threads : MutexOf(SectionOf(u))' = MutexOf(SectionOf(u))
    BY <1>6, SameMutex DEF vars
  <2> QED
    BY <1>6, <2>1 DEF vars, TypeOK, OwnersAreInside, InCall
<1> QED
  BY <1>1, <1>2, <1>3, <1>4, <1>5, <1>6 DEF Next

-----------------------------------------------------------------------------
(* Theorems.                                                               *)

\* The invariant holds in every reachable state.
THEOREM Inside == Spec => []IInv
BY InitInside, NextInside, PTL DEF Spec

\* Every variable has its type: no thread waits or is in a section outside a
\* call.
THEOREM TypeCorrect == Spec => []TypeOK
<1>1. IInv => TypeOK
  BY DEF IInv
<1> QED
  BY Inside, <1>1, PTL

\* Mutual exclusion: each lock_guard of allocator.cpp keeps other threads out
\* of the path it is for, in each of the three stages, although the mutex is
\* chosen in several places (PlacesAgree).
THEOREM MutualExclusion == Spec => []OneThreadPerPath
<1>1. IInv => OneThreadPerPath
  <2> SUFFICES ASSUME TypeOK, OwnersAreInside, NEW t \in Threads, NEW u \in Threads,
                      t # u, at[t] = "in", at[u] = "in", PathOf(t) = PathOf(u)
               PROVE  FALSE
    BY DEF IInv, OneThreadPerPath
  <2>1. InCall(t) /\ InCall(u)
    BY DEF TypeOK
  <2>2. MutexOf(SectionOf(t)) = MutexOf(SectionOf(u))
    BY <2>1, PathHasMutex
  <2> QED
    BY <2>2 DEF OwnersAreInside
<1> QED
  BY Inside, <1>1, PTL

\* No thread waits for a mutex while it has one, my_realloc included.
THEOREM NoHoldAndWait == Spec => []WaitersOwnNothing
<1>1. IInv => WaitersOwnNothing
  BY DEF IInv, OwnersAreInside, WaitersOwnNothing
<1> QED
  BY Inside, <1>1, PTL

\* From stage 2 on, threads wait only for threads on the same path.
THEOREM Contention == Spec => []ContentionStaysOnPath
<1>1. IInv => ContentionStaysOnPath
  <2> SUFFICES ASSUME TypeOK, OwnersAreInside, stage >= 2,
                      NEW t \in Threads, NEW u \in Threads,
                      at[t] = "wait", owner[MutexOf(SectionOf(t))] = u
               PROVE  PathOf(u) = PathOf(t)
    BY DEF IInv, ContentionStaysOnPath
  <2>1. InCall(t) /\ MutexOf(SectionOf(t)) \in Mutexes
    BY PathHasMutex DEF TypeOK
  <2>2. at[u] = "in" /\ MutexOf(SectionOf(u)) = MutexOf(SectionOf(t))
    BY <2>1 DEF OwnersAreInside
  <2>3. stage # 1
    BY StagesAssumption DEF TypeOK
  <2> QED
    <3>1. InCall(u)
      BY <2>2 DEF TypeOK
    <3> QED
      BY <2>1, <2>2, <2>3, <3>1, PathHasMutex
<1> QED
  BY Inside, <1>1, PTL
=============================================================================
