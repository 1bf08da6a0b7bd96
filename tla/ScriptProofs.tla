----------------------------- MODULE ScriptProofs -----------------------------
(***************************************************************************)
(* Proofs about what scripts call.                                         *)
(*                                                                         *)
(* ScriptActions: the context pool, for any number of threads and          *)
(* contexts, and queued actions: they use contexts as the context pool     *)
(* allows, so that what is proved of the pool holds of them, what is       *)
(* queued has its actor, packages and objects are accounted for, and all   *)
(* objects together have as many references as there are for them.         *)
(*                                                                         *)
(* LineEditor: for texts of any length, the buffer has the text that the   *)
(* commands ask for, and the index has its lines.                          *)
(***************************************************************************)
EXTENDS ScriptActions, LineEditor, TLAPS,
        FiniteSetTheorems, SequenceTheorems, WellFoundedInduction

\* Where a thread has the mutex of the context pool.
Critical == {"scan", "moved", "copied"}

\* The mutex excludes: whoever looks for a context or reallocates has it.
Excludes == \A t \in Threads : at[t] \in Critical => mtx = t

\* A pointer to an array is no younger than the array, and it is out of date
\* only between the reallocation and the assignment.
Pointers ==
    /\ ctxs.pointer <= ctxs.lives /\ uses.pointer <= uses.lives
    /\ ctxs.pointer # ctxs.lives => \E t \in Threads : at[t] = "moved"
    /\ uses.pointer # uses.lives => \E t \in Threads : at[t] = "copied"
    /\ \A t \in Threads :
         /\ at[t] = "deref" => ptr[t] <= ctxs.lives
         /\ at[t] = "giveback" => ptr[t] <= uses.lives

ContextInv ==
    ContextTypeOK /\ Excludes /\ OneUser /\ Pointers /\ IndexInRange /\ StraysOld

\* The initial state has the invariant.
LEMMA ContextStart == ContextInit => ContextInv
BY ContextAssumption
   DEF ContextInit, ContextInv, ContextTypeOK, Array, Places, Excludes, Critical,
       OneUser, Pointers, IndexInRange, StraysOld, OutOfDate, Holders, Holding

\* Every step keeps the types.
LEMMA ContextTyped == ContextTypeOK /\ [ContextNext]_cvars => ContextTypeOK'
<1> SUFFICES ASSUME ContextTypeOK, [ContextNext]_cvars PROVE ContextTypeOK'
  OBVIOUS
<1> USE DEF ContextTypeOK, Array, Places, Goto
<1>1. ASSUME NEW t \in Threads, Lock(t) PROVE ContextTypeOK'
  BY <1>1 DEF Lock
<1>2. ASSUME NEW t \in Threads, Find(t) PROVE ContextTypeOK'
  BY <1>2 DEF Find, Unused
<1>3. ASSUME NEW t \in Threads, MoveContexts(t) PROVE ContextTypeOK'
  BY <1>3 DEF MoveContexts, Moved
<1>4. ASSUME NEW t \in Threads, CopyUses(t) PROVE ContextTypeOK'
  BY <1>4 DEF CopyUses, Moved, Assigned
<1>5. ASSUME NEW t \in Threads, Grow(t) PROVE ContextTypeOK'
  BY <1>5 DEF Grow, Assigned
<1>6. ASSUME NEW t \in Threads, LoadContexts(t) PROVE ContextTypeOK'
  BY <1>6 DEF LoadContexts
<1>7. ASSUME NEW t \in Threads, LookUp(t) PROVE ContextTypeOK'
  <2>1. PICK c \in Nat \cup {None} : ctx' = [ctx EXCEPT ![t] = c]
    BY <1>7 DEF LookUp, Anything
  <2> QED
    BY <1>7, <2>1 DEF LookUp
<1>8. ASSUME NEW t \in Threads, LoadUses(t) PROVE ContextTypeOK'
  BY <1>8 DEF LoadUses
<1>9. ASSUME NEW t \in Threads, GiveBack(t) PROVE ContextTypeOK'
  BY <1>9 DEF GiveBack
<1>10. ASSUME NEW t \in Threads, Done(t) PROVE ContextTypeOK'
  BY <1>10 DEF Done
<1>11. CASE UNCHANGED cvars
  BY <1>11 DEF cvars
<1> QED
  BY <1>1, <1>2, <1>3, <1>4, <1>5, <1>6, <1>7, <1>8, <1>9, <1>10, <1>11
  DEF ContextNext, UseContext

\* Every step keeps the mutual exclusion.
LEMMA ContextExcludes ==
  ContextTypeOK /\ Excludes /\ [ContextNext]_cvars => Excludes'
<1> SUFFICES ASSUME ContextTypeOK, Excludes, [ContextNext]_cvars PROVE Excludes'
  OBVIOUS
<1> USE ContextAssumption DEF ContextTypeOK, Excludes, Critical, Goto
<1>1. ASSUME NEW t \in Threads, Lock(t) PROVE Excludes'
  BY <1>1 DEF Lock
<1>2. ASSUME NEW t \in Threads, UseContext(t) PROVE Excludes'
  BY <1>2 DEF UseContext, Find, MoveContexts, CopyUses, Grow, LoadContexts, LookUp,
             LoadUses, GiveBack
<1>3. ASSUME NEW t \in Threads, Done(t) PROVE Excludes'
  BY <1>3 DEF Done
<1>4. CASE UNCHANGED cvars
  BY <1>4 DEF cvars
<1> QED
  BY <1>1, <1>2, <1>3, <1>4 DEF ContextNext

\* Every step keeps a context with one user, until a thread goes astray.  What is
\* taken was not marked, or is beyond the end; what is given back is the giver's
\* own.
LEMMA ContextOneUser ==
  ContextTypeOK /\ OneUser /\ [ContextNext]_cvars => OneUser'
<1> SUFFICES ASSUME ContextTypeOK, OneUser, [ContextNext]_cvars, astray' = {}
             PROVE  /\ \A t, u \in Holders' : t # u => idx'[t] # idx'[u]
                    /\ \A t \in Holders' :
                         at'[t] \in {"run", "giveback"} => ctx'[t] = idx'[t]
                    /\ used' = {idx'[t] : t \in Holders'}
  BY DEF OneUser
<1> DEFINE Goal == /\ \A t, u \in Holders' : t # u => idx'[t] # idx'[u]
                   /\ \A t \in Holders' :
                        at'[t] \in {"run", "giveback"} => ctx'[t] = idx'[t]
                   /\ used' = {idx'[t] : t \in Holders'}
<1> USE DEF ContextTypeOK, Places, OneUser, Holders, Holding, Goto
<1>1. ASSUME NEW t \in Threads, Lock(t) \/ Done(t) PROVE Goal
  BY <1>1 DEF Lock, Done
<1>2. ASSUME NEW t \in Threads, Find(t) PROVE Goal
  <2>1. PICK i \in Unused : used' = used \cup {i} /\ idx' = [idx EXCEPT ![t] = i]
    BY <1>2 DEF Find
  <2>2. i \notin used
    BY <2>1 DEF Unused
  <2>3. Holders' = Holders \cup {t} /\ t \notin Holders
    BY <1>2 DEF Find
  <2>4. \A u \in Holders : u # t /\ idx'[u] = idx[u] /\ idx[u] \in used
    BY <1>2, <2>1 DEF Find
  <2>5. {idx'[u] : u \in Holders'} = {idx[u] : u \in Holders} \cup {i}
    BY <2>1, <2>3
  <2> QED
    BY <1>2, <2>1, <2>2, <2>3, <2>4, <2>5 DEF Find
<1>3. ASSUME NEW t \in Threads, MoveContexts(t) PROVE Goal
  BY <1>3 DEF MoveContexts
<1>4. ASSUME NEW t \in Threads, CopyUses(t) PROVE Goal
  BY <1>4 DEF CopyUses
<1>5. ASSUME NEW t \in Threads, Grow(t) PROVE Goal
  <2>1. count \notin used
    BY DEF ContextTypeOK
  <2>2. Holders' = Holders \cup {t} /\ t \notin Holders
    BY <1>5 DEF Grow
  <2>3. \A u \in Holders : u # t /\ idx'[u] = idx[u] /\ idx[u] \in used
    BY <1>5 DEF Grow
  <2>4. {idx'[u] : u \in Holders'} = {idx[u] : u \in Holders} \cup {count}
    BY <1>5, <2>2 DEF Grow
  <2> QED
    BY <1>5, <2>1, <2>2, <2>3, <2>4 DEF Grow
<1>6. ASSUME NEW t \in Threads, LoadContexts(t) \/ LookUp(t) \/ LoadUses(t) PROVE Goal
  BY <1>6 DEF LoadContexts, LookUp, LoadUses
<1>7. ASSUME NEW t \in Threads, GiveBack(t) PROVE Goal
  <2>1. used' = used \ {idx[t]} /\ Holders' = Holders \ {t} /\ idx' = idx
    BY <1>7 DEF GiveBack
  <2>2. \A u \in Holders \ {t} : idx[u] # idx[t]
    BY <1>7 DEF GiveBack
  <2> QED
    BY <1>7, <2>1, <2>2 DEF GiveBack
<1>8. CASE UNCHANGED cvars
  BY <1>8 DEF cvars
<1> QED
  BY <1>1, <1>2, <1>3, <1>4, <1>5, <1>6, <1>7, <1>8 DEF ContextNext, UseContext

\* Every step keeps what the pointers are: an array moves only while the pool
\* grows, and the pool has grown when both have been assigned.
LEMMA ContextPointers ==
  ContextTypeOK /\ Pointers /\ [ContextNext]_cvars => Pointers'
<1> SUFFICES ASSUME ContextTypeOK, Pointers, [ContextNext]_cvars PROVE Pointers'
  OBVIOUS
<1> USE DEF ContextTypeOK, Array, Places, Pointers, Goto
<1>1. ASSUME NEW t \in Threads,
             \/ Lock(t) \/ Done(t) \/ Find(t) \/ LoadContexts(t) \/ LookUp(t)
             \/ LoadUses(t) \/ GiveBack(t)
      PROVE  Pointers'
  <2>1. /\ ctxs' = ctxs /\ uses' = uses
        /\ \A u \in Threads : at[u] \in {"moved", "copied"} => at'[u] = at[u]
    BY <1>1 DEF Lock, Done, Find, LoadContexts, LookUp, LoadUses, GiveBack
  <2>2. \A u \in Threads : /\ at'[u] = "deref" => ptr'[u] <= ctxs.lives
                           /\ at'[u] = "giveback" => ptr'[u] <= uses.lives
    BY <1>1 DEF Lock, Done, Find, LoadContexts, LookUp, LoadUses, GiveBack
  <2> QED
    BY <2>1, <2>2
<1>2. ASSUME NEW t \in Threads, MoveContexts(t) PROVE Pointers'
  BY <1>2 DEF MoveContexts, Moved
<1>3. ASSUME NEW t \in Threads, CopyUses(t) PROVE Pointers'
  BY <1>3 DEF CopyUses, Moved, Assigned
<1>4. ASSUME NEW t \in Threads, Grow(t) PROVE Pointers'
  BY <1>4 DEF Grow, Assigned
<1>5. CASE UNCHANGED cvars
  BY <1>5 DEF cvars
<1> QED
  BY <1>1, <1>2, <1>3, <1>4, <1>5 DEF ContextNext, UseContext

\* Every step keeps the indices within the array: the array never shrinks.
LEMMA ContextInRange ==
  ContextTypeOK /\ IndexInRange /\ [ContextNext]_cvars => IndexInRange'
<1> SUFFICES ASSUME ContextTypeOK, IndexInRange, [ContextNext]_cvars PROVE IndexInRange'
  OBVIOUS
<1> USE DEF ContextTypeOK, Places, IndexInRange, Holders, Holding, Goto
<1>1. ASSUME NEW t \in Threads, Find(t) PROVE IndexInRange'
  <2>1. PICK i \in 0 .. count - 1 : idx' = [idx EXCEPT ![t] = i]
    BY <1>1 DEF Find, Unused
  <2> QED
    BY <1>1, <2>1 DEF Find
<1>2. ASSUME NEW t \in Threads, Grow(t) PROVE IndexInRange'
  BY <1>2 DEF Grow
<1>3. ASSUME NEW t \in Threads,
             \/ Lock(t) \/ Done(t) \/ MoveContexts(t) \/ CopyUses(t)
             \/ LoadContexts(t) \/ LookUp(t) \/ LoadUses(t) \/ GiveBack(t)
      PROVE  IndexInRange'
  BY <1>3 DEF Lock, Done, MoveContexts, CopyUses, LoadContexts, LookUp, LoadUses,
             GiveBack
<1>4. CASE UNCHANGED cvars
  BY <1>4 DEF cvars
<1> QED
  BY <1>1, <1>2, <1>3, <1>4 DEF ContextNext, UseContext

\* Every step keeps the bound on who strays.  While the pool grows anybody may;
\* when it has grown, whoever has loaded a pointer before has a context of the
\* lower half.
LEMMA ContextStrays ==
  ContextTypeOK /\ Pointers /\ IndexInRange /\ StraysOld /\ [ContextNext]_cvars
    => StraysOld'
<1> SUFFICES ASSUME ContextTypeOK, Pointers, IndexInRange, StraysOld,
                    [ContextNext]_cvars
             PROVE  StraysOld'
  OBVIOUS
<1> USE DEF ContextTypeOK, Array, Places, StraysOld, OutOfDate, Growing, Goto
<1>1. ASSUME NEW t \in Threads, Lock(t) \/ Done(t) PROVE StraysOld'
  BY <1>1 DEF Lock, Done
<1>2. ASSUME NEW t \in Threads, Find(t) PROVE StraysOld'
  <2>1. /\ UNCHANGED <<count, ctxs, uses, ptr, astray>>
        /\ \A u \in Threads \ {t} : at'[u] = at[u] /\ idx'[u] = idx[u]
        /\ at[t] = "scan" /\ at'[t] = "lookup"
    BY <1>2 DEF Find
  <2> QED
    BY <2>1
<1>3. ASSUME NEW t \in Threads, MoveContexts(t) PROVE StraysOld'
  <2>1. Growing'
    BY <1>3 DEF MoveContexts
  <2>2. /\ ctxs'.lives \in Nat /\ ctxs'.lives >= ctxs.lives
        /\ uses' = uses /\ astray' = astray
    BY <1>3 DEF MoveContexts, Moved
  <2> QED
    BY <2>1, <2>2
<1>4. ASSUME NEW t \in Threads, CopyUses(t) PROVE StraysOld'
  <2>1. Growing'
    BY <1>4 DEF CopyUses
  <2>2. /\ uses'.lives \in Nat /\ uses'.lives >= uses.lives
        /\ ctxs'.lives = ctxs.lives /\ astray' = astray
    BY <1>4 DEF CopyUses, Moved, Assigned
  <2> QED
    BY <2>1, <2>2
<1>5. ASSUME NEW t \in Threads, Grow(t) PROVE StraysOld'
  <2>1. \A u \in Threads : at'[u] \in {"deref", "giveback"} =>
           at[u] = at'[u] /\ idx'[u] = idx[u] /\ idx[u] < count
    BY <1>5 DEF Grow, IndexInRange, Holders, Holding
  <2>2. count' = 2 * count /\ uses'.lives = uses.lives /\ UNCHANGED <<ctxs, astray>>
    BY <1>5 DEF Grow, Assigned
  <2> QED
    BY <2>1, <2>2
<1>6. ASSUME NEW t \in Threads, LoadContexts(t) PROVE StraysOld'
  <2>1. ctxs.pointer # ctxs.lives => Growing
    BY DEF Pointers
  <2>2. /\ UNCHANGED <<count, ctxs, uses, idx, astray>>
        /\ \A u \in Threads \ {t} : at'[u] = at[u] /\ ptr'[u] = ptr[u]
        /\ at[t] = "lookup" /\ at'[t] = "deref" /\ ptr'[t] = ctxs.pointer
    BY <1>6 DEF LoadContexts
  <2> QED
    BY <2>1, <2>2
<1>7. ASSUME NEW t \in Threads, LoadUses(t) PROVE StraysOld'
  <2>1. uses.pointer # uses.lives => Growing
    BY DEF Pointers
  <2>2. /\ UNCHANGED <<count, ctxs, uses, idx, astray>>
        /\ \A u \in Threads \ {t} : at'[u] = at[u] /\ ptr'[u] = ptr[u]
        /\ at[t] = "run" /\ at'[t] = "giveback" /\ ptr'[t] = uses.pointer
    BY <1>7 DEF LoadUses
  <2> QED
    BY <2>1, <2>2
<1>8. ASSUME NEW t \in Threads, LookUp(t) \/ GiveBack(t) PROVE StraysOld'
  <2>1. /\ UNCHANGED <<count, ctxs, uses, idx, ptr>>
        /\ \A u \in Threads \ {t} : at'[u] = at[u]
        /\ at[t] \in {"deref", "giveback"} /\ at'[t] \in {"run", "returned"}
    BY <1>8 DEF LookUp, GiveBack
  <2>2. astray' = astray \/ OutOfDate(t)
    BY <1>8 DEF LookUp, GiveBack
  <2>3. OutOfDate(t) => ctxs.lives > 0 \/ uses.lives > 0
    BY DEF Pointers
  <2> QED
    BY <2>1, <2>2, <2>3
<1>9. CASE UNCHANGED cvars
  BY <1>9 DEF cvars
<1> QED
  BY <1>1, <1>2, <1>3, <1>4, <1>5, <1>6, <1>7, <1>8, <1>9 DEF ContextNext, UseContext

\* The invariant, for ever.
THEOREM ContextInvariant == ContextSpec => []ContextInv
<1>1. ContextInv /\ [ContextNext]_cvars => ContextInv'
  BY ContextTyped, ContextExcludes, ContextOneUser, ContextPointers, ContextInRange,
     ContextStrays DEF ContextInv
<1> QED
  BY ContextStart, <1>1, PTL DEF ContextSpec

\* as_manager.cpp:586-662: every variable keeps its type.
THEOREM ContextTypeCorrect == ContextSpec => []ContextTypeOK
BY ContextInvariant, PTL DEF ContextInv

\* as_manager.cpp:630-662: until a thread uses freed memory, a context has one
\* user, who runs on the one he has taken, and what is marked is what somebody has.
THEOREM ContextsExclusive == ContextSpec => []OneUser
BY ContextInvariant, PTL DEF ContextInv

\* as_manager.cpp:621, 627, 641-643: freed memory is used by those only who
\* overlap with a growth and whose context is older than it.
THEOREM ContextStraysBounded == ContextSpec => []StraysOld
BY ContextInvariant, PTL DEF ContextInv

\* as_manager.cpp:618: nobody has the index that the test lets through, whatever
\* has been met in freed memory.
THEOREM ContextsInRange == ContextSpec => []IndexInRange
BY ContextInvariant, PTL DEF ContextInv

-----------------------------------------------------------------------------
\* With no more threads than contexts the arrays stay where they are.
Still ==
    Cardinality(Threads) <= InitCount =>
        /\ count = InitCount /\ astray = {}
        /\ ctxs = [lives |-> 0, pointer |-> 0] /\ uses = ctxs
        /\ \A t \in Threads : /\ at[t] \notin {"moved", "copied"}
                              /\ at[t] \in {"deref", "giveback"} => ptr[t] = 0

\* A thread that looks for a context finds one: the others have fewer.
LEMMA ContextLeft ==
  ASSUME ContextInv, Still, Cardinality(Threads) <= InitCount,
         NEW t \in Threads, t \notin Holders
  PROVE  Unused # {}
<1>1. SUFFICES ASSUME Unused = {} PROVE FALSE
  OBVIOUS
<1> DEFINE Index == {idx[u] : u \in Holders}
<1>2. 0 .. count - 1 = Index
  <2>1. used = 0 .. count - 1
    BY <1>1 DEF Unused, ContextInv, ContextTypeOK
  <2>2. astray = {}
    BY DEF Still
  <2>3. used = Index
    BY <2>2 DEF ContextInv, OneUser
  <2> QED
    BY <2>1, <2>3
<1>3. IsFiniteSet(Threads \ {t}) /\ Cardinality(Threads \ {t}) = Cardinality(Threads) - 1
  BY ContextAssumption, FS_RemoveElement
<1>4. IsFiniteSet(Holders) /\ Cardinality(Holders) <= Cardinality(Threads \ {t})
  <2>1. Holders \subseteq Threads \ {t}
    BY DEF Holders
  <2> QED
    BY <1>3, <2>1, FS_Subset
<1>5. IsFiniteSet(Index) /\ Cardinality(Index) <= Cardinality(Holders)
  <2>1. DEFINE f == [u \in Holders |-> idx[u]]
  <2>2. Index = {f[u] : u \in Holders}
    OBVIOUS
  <2>3. f \in Surjection(Holders, Index)
    BY DEF Surjection
  <2> QED
    BY <1>4, <2>3, FS_Surjection, FS_SurjCardinalityBound
<1>6. Cardinality(0 .. count - 1) = count
  <2>1. 0 \in Int /\ count - 1 \in Int /\ count \in Nat \ {0}
    BY DEF ContextInv, ContextTypeOK
  <2>2. Cardinality(0 .. count - 1) = IF 0 > count - 1 THEN 0 ELSE count - 1 - 0 + 1
    BY <2>1, FS_Interval
  <2> QED
    BY <2>1, <2>2
<1>7. /\ Cardinality(Threads) \in Nat /\ Cardinality(Holders) \in Nat
      /\ Cardinality(Index) \in Nat
  BY <1>4, <1>5, ContextAssumption, FS_CardinalityType
<1>8. count = InitCount /\ InitCount \in Nat
  BY ContextAssumption DEF Still
<1>9. Cardinality(Index) = count
  BY <1>2, <1>6
<1> HIDE DEF Index
<1> QED
  BY <1>3, <1>4, <1>5, <1>7, <1>8, <1>9

\* Every step keeps them there.
LEMMA ContextStill == ContextInv /\ Still /\ [ContextNext]_cvars => Still'
<1> SUFFICES ASSUME ContextInv, Still, [ContextNext]_cvars,
                    Cardinality(Threads) <= InitCount
             PROVE  Still'
  BY DEF Still
<1> USE DEF ContextInv, ContextTypeOK, Array, Places, Still, Goto
<1>1. ASSUME NEW t \in Threads, MoveContexts(t) PROVE FALSE
  <2>1. t \notin Holders
    BY <1>1 DEF MoveContexts, Holders, Holding
  <2> QED
    BY <1>1, <2>1, ContextLeft DEF MoveContexts
<1>2. ASSUME NEW t \in Threads, CopyUses(t) \/ Grow(t) PROVE FALSE
  BY <1>2 DEF CopyUses, Grow
<1>3. ASSUME NEW t \in Threads, Lock(t) \/ Find(t) \/ LoadUses(t) \/ Done(t) PROVE Still'
  BY <1>3 DEF Lock, Find, LoadUses, Done
<1>4. ASSUME NEW t \in Threads, LoadContexts(t) \/ LookUp(t) \/ GiveBack(t) PROVE Still'
  BY <1>4 DEF LoadContexts, LookUp, GiveBack
<1>5. CASE UNCHANGED cvars
  BY <1>5 DEF cvars
<1> QED
  BY <1>1, <1>2, <1>3, <1>4, <1>5 DEF ContextNext, UseContext

\* as_manager.cpp:83: enough contexts to begin with, and no lookup ever meets
\* an array that is being replaced.
THEOREM ContextsEnough == ContextSpec => []EnoughContexts
<1>1. ContextInit => Still
  BY DEF ContextInit, Still
<1>2. ContextInv /\ Still => EnoughContexts
  BY DEF ContextInv, Still, OneUser, EnoughContexts
<1> QED
  BY ContextInvariant, ContextStill, <1>1, <1>2, PTL DEF ContextSpec

\* Together (as_manager.cpp:586-662): contexts are used by one thread each until
\* somebody strays, and who may stray is bounded.
THEOREM ContextsAreSafe == ContextSpec => []ContextsSafe
<1>1. ContextTypeOK /\ OneUser /\ StraysOld /\ IndexInRange => ContextsSafe
  BY DEF ContextsSafe
<1> QED
  BY ContextTypeCorrect, ContextsExclusive, ContextStraysBounded, ContextsInRange,
     <1>1, PTL

-----------------------------------------------------------------------------
(* Queued actions.                                                         *)

\* A step of scripts, workers or the scheduler is one of the context pool, or
\* none of its business.
LEMMA ScriptStep == [ScriptNext]_svars => [ContextNext]_cvars
<1> SUFFICES ASSUME [ScriptNext]_svars PROVE [ContextNext]_cvars
  OBVIOUS
<1>1. ASSUME NEW t \in Threads, Script(t) PROVE UNCHANGED cvars
  <2>1. ASSUME NEW c \in Commands, Make(t, c) \/ Drop(t, c) PROVE UNCHANGED cvars
    BY <2>1 DEF Make, Drop
  <2>2. ASSUME NEW a \in Actors, Create(t, a) \/ LetGo(t, a) PROVE UNCHANGED cvars
    BY <2>2 DEF Create, LetGo
  <2>3. ASSUME NEW a \in Actors, NEW c \in Commands, NEW delayed \in BOOLEAN,
               QueueScriptAction(t, a, c, delayed)
        PROVE  UNCHANGED cvars
    BY <2>3 DEF QueueScriptAction
  <2> QED
    BY <1>1, <2>1, <2>2, <2>3 DEF Script
<1>2. ASSUME NEW t \in Threads, Take(t) \/ FreePackage(t) PROVE UNCHANGED cvars
  BY <1>2 DEF Take, FreePackage
<1>3. ASSUME NEW t \in Threads, Context(t) \/ Callback(t) \/ ReleaseCommand(t)
      PROVE  ContextNext
  BY <1>3 DEF Context, Callback, ReleaseCommand, ContextNext
<1>4. ASSUME NEW a \in Actors, NEW ready \in SUBSET queue, HandOver(a, ready)
      PROVE  UNCHANGED cvars
  BY <1>4 DEF HandOver
<1>5. CASE UNCHANGED svars
  BY <1>5 DEF svars
<1> QED
  BY <1>1, <1>2, <1>3, <1>4, <1>5 DEF ScriptNext

\* as_manager.cpp:489-571: the callbacks and actions use the context pool as it
\* is specified.
THEOREM ScriptsUseContexts == ScriptSpec => ContextSpec
<1>1. ScriptInit => ContextInit
  BY DEF ScriptInit
<1> QED
  BY <1>1, ScriptStep, PTL DEF ScriptSpec, ContextSpec

\* as_manager.cpp:630-662: as long as no lookup or return has met freed memory,
\* two scripts never run on one context, whatever actions are queued meanwhile,
\* and no context is lost.
THEOREM ScriptsExclusive == ScriptSpec => []OneUser
BY ScriptsUseContexts, ContextsExclusive, PTL

\* Every step keeps the actor of what is queued.
LEMMA QueuedStep == QueuedAlive /\ [ScriptNext]_svars => QueuedAlive'
<1> SUFFICES ASSUME QueuedAlive, [ScriptNext]_svars PROVE QueuedAlive'
  OBVIOUS
<1> USE DEF QueuedAlive
<1>1. ASSUME NEW t \in Threads, NEW c \in Commands, Make(t, c) \/ Drop(t, c)
      PROVE  QueuedAlive'
  BY <1>1 DEF Make, Drop, avars, pvars
<1>2. ASSUME NEW t \in Threads, NEW a \in Actors, Create(t, a) PROVE QueuedAlive'
  BY <1>2 DEF Create, pvars
<1>3. ASSUME NEW t \in Threads, NEW a \in Actors, LetGo(t, a) PROVE QueuedAlive'
  BY <1>3 DEF LetGo, pvars
<1>4. ASSUME NEW t \in Threads, NEW a \in Actors, NEW c \in Commands,
             NEW delayed \in BOOLEAN, QueueScriptAction(t, a, c, delayed)
      PROVE  QueuedAlive'
  <2> DEFINE p == <<a, Head(free[a])>>
  <2>1. a \in held /\ alive' = alive /\ held' = held
    BY <1>4 DEF QueueScriptAction
  <2>2. CASE queue' = queue /\ active' = active
    BY <2>1, <2>2
  <2>3. CASE queue' = queue \cup {p} /\ active' = active \cup {a}
    <3>1. Owner(p) = a
      BY DEF Owner
    <3> HIDE DEF p
    <3> QED
      BY <2>1, <2>3, <3>1
  <2> QED
    BY <1>4, <2>2, <2>3 DEF QueueScriptAction
<1>5. ASSUME NEW t \in Threads, Take(t) \/ FreePackage(t) \/ ReleaseCommand(t)
                                  \/ Context(t) \/ Callback(t)
      PROVE  QueuedAlive'
  BY <1>5 DEF Take, FreePackage, ReleaseCommand, Context, Callback, avars, pvars
<1>6. ASSUME NEW a \in Actors, NEW ready \in SUBSET queue, HandOver(a, ready)
      PROVE  QueuedAlive'
  <2>1. queue' = queue \ ready /\ held' = held /\ ready \subseteq queue
    BY <1>6 DEF HandOver, Left
  <2>2. CASE Drained(a, ready)
    BY <1>6, <2>1, <2>2 DEF HandOver, Drained
  <2>3. CASE ~Drained(a, ready)
    BY <1>6, <2>1, <2>3 DEF HandOver
  <2> QED
    BY <2>2, <2>3
<1>7. CASE UNCHANGED svars
  BY <1>7 DEF svars, avars, pvars
<1> QED
  BY <1>1, <1>2, <1>3, <1>4, <1>5, <1>6, <1>7 DEF ScriptNext, Script

\* nativeactor.cpp:97, action_scheduler.cpp:150: an actor is there as long as a
\* script or the scheduler refers to it, and the scheduler does while anything of
\* it is queued.
THEOREM QueuedHaveActors == ScriptSpec => []QueuedAlive
<1>1. ScriptInit => QueuedAlive
  BY DEF ScriptInit, QueuedAlive
<1> QED
  BY <1>1, QueuedStep, PTL DEF ScriptSpec

-----------------------------------------------------------------------------
(* Packages and objects.                                                   *)

\* What a worker has is a package and an object, and what is queued or handed over
\* is about an object.
JobTypes ==
    /\ free \in [Actors -> Seq(1 .. Blocks)]
    /\ job \in [Threads -> [pkg : Packages, cmd : Commands, freed : BOOLEAN] \cup {NoJob}]
    /\ \A p \in queue \cup tasks : pkg[p] \in Commands

ScriptInv == ScriptTypeOK /\ JobTypes /\ OnePlace /\ CommandsCounted /\ QueuedAlive

\* No job has an object.
LEMMA NoJobIsNone == NoJob \notin [pkg : Packages, cmd : Commands, freed : BOOLEAN]
BY ScriptAssumption DEF NoJob

\* What a worker has.
LEMMA JobFacts ==
  ASSUME JobTypes, NEW t \in Threads
  PROVE  /\ t \in Jobs => /\ job[t] \in [pkg : Packages, cmd : Commands, freed : BOOLEAN]
                          /\ job[t].pkg \in Packages /\ job[t].cmd \in Commands
                          /\ job[t].freed \in BOOLEAN
         /\ t \in Jobs <=> job[t] # NoJob
BY NoJobIsNone DEF JobTypes, Jobs

\* There are finitely many packages about an object, and workers that run it.
LEMMA Finite ==
  ASSUME ScriptTypeOK, NEW c
  PROVE  /\ IsFiniteSet(About(c)) /\ Cardinality(About(c)) \in Nat
         /\ IsFiniteSet(Running(c)) /\ Cardinality(Running(c)) \in Nat
<1>1. IsFiniteSet(1 .. Blocks)
  BY ScriptAssumption, FS_Interval
<1>2. IsFiniteSet(Packages)
  BY <1>1, ScriptAssumption, FS_Product DEF Packages
<1>3. About(c) \in SUBSET Packages /\ Running(c) \in SUBSET Threads
  BY DEF ScriptTypeOK, About, Running, Jobs
<1> QED
  BY <1>2, <1>3, ContextAssumption, FS_Subset, FS_CardinalityType

\* A free list keeps every block once when its first block is taken...
LEMMA TakenOnce ==
  ASSUME NEW S, NEW s \in Seq(S), s # <<>>, IsInjective(s)
  PROVE  /\ Tail(s) \in Seq(S) /\ Head(s) \in S /\ Head(s) \in Range(s)
         /\ IsInjective(Tail(s))
         /\ Range(Tail(s)) \subseteq Range(s) /\ Head(s) \notin Range(Tail(s))
<1>1. /\ Len(s) \in Nat \ {0} /\ DOMAIN s = 1 .. Len(s) /\ Head(s) = s[1] /\ s[1] \in S
      /\ Tail(s) \in Seq(S) /\ DOMAIN Tail(s) = 1 .. Len(s) - 1
      /\ \A i \in 1 .. Len(s) - 1 : Tail(s)[i] = s[i + 1]
  OBVIOUS
<1>2. \A i \in 1 .. Len(s) - 1 : i + 1 \in 1 .. Len(s) /\ i + 1 # 1
  BY <1>1
<1>3. IsInjective(Tail(s))
  <2> SUFFICES ASSUME NEW i \in 1 .. Len(s) - 1, NEW j \in 1 .. Len(s) - 1,
                      Tail(s)[i] = Tail(s)[j]
               PROVE  i = j
    BY <1>1 DEF IsInjective
  <2>1. i + 1 = j + 1
    BY <1>1, <1>2 DEF IsInjective
  <2> QED
    BY <1>1, <2>1
<1>4. Head(s) \in Range(s) /\ Range(Tail(s)) \subseteq Range(s)
  BY <1>1, <1>2 DEF Range
<1>5. Head(s) \notin Range(Tail(s))
  BY <1>1, <1>2 DEF Range, IsInjective
<1> QED
  BY <1>1, <1>3, <1>4, <1>5

\* ... and when a block that is not in it is put in front.
LEMMA FreedOnce ==
  ASSUME NEW S, NEW s \in Seq(S), NEW i \in S, IsInjective(s), i \notin Range(s)
  PROVE  /\ <<i>> \o s \in Seq(S) /\ IsInjective(<<i>> \o s)
         /\ Range(<<i>> \o s) = Range(s) \cup {i}
<1> DEFINE r == <<i>> \o s
<1>1. /\ r \in Seq(S) /\ Len(s) \in Nat /\ DOMAIN s = 1 .. Len(s)
      /\ DOMAIN r = 1 .. Len(s) + 1 /\ r[1] = i
      /\ \A k \in 2 .. Len(s) + 1 : r[k] = s[k - 1]
  OBVIOUS
<1> HIDE DEF r
<1>2. \A k \in 2 .. Len(s) + 1 : k - 1 \in 1 .. Len(s)
  BY <1>1
<1>3. IsInjective(r)
  <2> SUFFICES ASSUME NEW j \in 1 .. Len(s) + 1, NEW k \in 1 .. Len(s) + 1, r[j] = r[k]
               PROVE  j = k
    BY <1>1 DEF IsInjective
  <2>1. CASE j = 1 /\ k # 1
    BY <1>1, <1>2, <2>1 DEF Range
  <2>2. CASE j # 1 /\ k = 1
    BY <1>1, <1>2, <2>2 DEF Range
  <2>3. CASE j # 1 /\ k # 1
    <3>1. j - 1 \in 1 .. Len(s) /\ k - 1 \in 1 .. Len(s) /\ s[j - 1] = s[k - 1]
      BY <1>1, <2>3
    <3>2. j - 1 = k - 1
      BY <1>1, <3>1 DEF IsInjective
    <3> QED
      BY <1>1, <3>2
  <2> QED
    BY <2>1, <2>2, <2>3
<1>4. Range(r) = Range(s) \cup {i}
  <2>1. Range(r) \subseteq Range(s) \cup {i}
    BY <1>1, <1>2 DEF Range
  <2>2. i \in Range(r)
    BY <1>1 DEF Range
  <2>3. ASSUME NEW k \in 1 .. Len(s)
        PROVE  s[k] \in Range(r)
    <3>1. k + 1 \in 2 .. Len(s) + 1 /\ k + 1 \in DOMAIN r /\ (k + 1) - 1 = k
      BY <1>1
    <3>2. r[k + 1] = s[k]
      BY <1>1, <3>1
    <3>3. r[k + 1] \in Range(r)
      BY <3>1 DEF Range
    <3> QED
      BY <3>2, <3>3
  <2> QED
    BY <1>1, <2>1, <2>2, <2>3 DEF Range
<1> QED
  BY <1>1, <1>3, <1>4 DEF r

\* The list of a fresh pool has every block once.
LEMMA FreshOnce ==
  LET s == [i \in 1 .. Blocks |-> i]
  IN  s \in Seq(1 .. Blocks) /\ IsInjective(s) /\ Range(s) \subseteq 1 .. Blocks
BY ScriptAssumption DEF IsInjective, Range

\* The counts stay when nothing they count changes.
LEMMA CountsKept ==
  ASSUME CommandsCounted, UNCHANGED <<crefs, kept>>, stray' = {} => stray = {},
         \A c \in Commands : About(c)' = About(c) /\ Running(c)' = Running(c)
  PROVE  CommandsCounted'
BY DEF CommandsCounted

\* Contexts are taken, used and given back, and callbacks end: nothing else changes.
LEMMA ScriptRest ==
  ASSUME ScriptInv, UNCHANGED <<crefs, kept, avars, bvars, pvars, stray>>
  PROVE  ScriptInv'
<1> USE DEF ScriptInv, avars, bvars, pvars
<1>1. Jobs' = Jobs /\ Out' = Out
  BY DEF Jobs, Out
<1>2. \A c \in Commands : About(c)' = About(c) /\ Running(c)' = Running(c)
  BY <1>1 DEF About, Running
<1>3. ScriptTypeOK' /\ JobTypes' /\ QueuedAlive'
  BY <1>1 DEF ScriptTypeOK, JobTypes, QueuedAlive
<1>4. OnePlace'
  BY <1>1 DEF OnePlace
<1> QED
  BY <1>2, <1>3, <1>4, CountsKept

\* A command is made or let go of.
LEMMA CommandKeeps ==
  ASSUME ScriptInv, NEW t \in Threads, NEW d \in Commands, Make(t, d) \/ Drop(t, d)
  PROVE  ScriptInv'
<1> USE DEF ScriptInv
<1>1. UNCHANGED <<avars, bvars, pvars>>
  BY DEF Make, Drop
<1>2. \A c \in Commands : About(c)' = About(c) /\ Running(c)' = Running(c)
  BY <1>1 DEF About, Running, Jobs, bvars, pvars
<1>3. JobTypes' /\ OnePlace' /\ QueuedAlive'
  BY <1>1 DEF JobTypes, OnePlace, QueuedAlive, Out, Jobs, avars, bvars, pvars
<1>4. CASE Make(t, d)
  <2>1. ScriptTypeOK'
    BY <1>1, <1>4 DEF Make, ScriptTypeOK, Jobs, avars, bvars, pvars
  <2>2. CommandsCounted'
    <3> SUFFICES ASSUME stray = {}, NEW c \in Commands
                 PROVE  crefs'[c] = Bit(c \in kept') + Cardinality(About(c))
                                      + Cardinality(Running(c))
      BY <1>2, <1>4 DEF Make, CommandsCounted
    <3>1. crefs[c] = Bit(c \in kept) + Cardinality(About(c)) + Cardinality(Running(c))
      BY DEF CommandsCounted
    <3>2. CASE c = d
      BY <1>4, <3>1, <3>2, Finite DEF Make, ScriptTypeOK, Bit
    <3>3. CASE c # d
      BY <1>4, <3>1, <3>3 DEF Make, ScriptTypeOK, Bit
    <3> QED
      BY <3>2, <3>3
  <2> QED
    BY <1>3, <2>1, <2>2
<1>5. CASE Drop(t, d)
  <2>1. ScriptTypeOK'
    BY <1>1, <1>5 DEF Drop, ScriptTypeOK, Jobs, avars, bvars, pvars
  <2>2. CommandsCounted'
    <3> SUFFICES ASSUME stray' = {}, NEW c \in Commands
                 PROVE  crefs'[c] = Bit(c \in kept') + Cardinality(About(c))
                                      + Cardinality(Running(c))
      BY <1>2, <1>5 DEF Drop, CommandsCounted
    <3>1. stray = {} /\ crefs[d] # 0
      BY <1>5 DEF Drop
    <3>2. crefs[c] = Bit(c \in kept) + Cardinality(About(c)) + Cardinality(Running(c))
      BY <3>1 DEF CommandsCounted
    <3>3. CASE c = d
      BY <1>5, <3>1, <3>2, <3>3, Finite DEF Drop, ScriptTypeOK, Bit
    <3>4. CASE c # d
      BY <1>5, <3>2, <3>4 DEF Drop, ScriptTypeOK, Bit
    <3> QED
      BY <3>3, <3>4
  <2> QED
    BY <1>3, <2>1, <2>2
<1> QED
  BY <1>4, <1>5

\* An actor is created where no package is left of an earlier one.
LEMMA CreateKeepsPackages ==
  ASSUME ScriptInv, NEW t \in Threads, NEW a \in Actors, Create(t, a)
  PROVE  ScriptTypeOK' /\ JobTypes' /\ OnePlace' /\ CommandsCounted'
<1> USE DEF ScriptInv
<1>1. /\ UNCHANGED <<crefs, kept, queue, tasks, job, stray>>
      /\ Jobs' = Jobs /\ Out' = Out /\ alive' = alive \cup {a}
  BY DEF Create, pvars, Jobs, Out
<1>2. \A p \in Packages : Owner(p) # a => pkg'[p] = pkg[p]
  BY DEF Create
<1>3. \A p \in Out : p \in Packages /\ Owner(p) # a /\ pkg'[p] = pkg[p]
  BY <1>2, JobFacts DEF Create, Out, ScriptTypeOK
<1>4. /\ free'[a] \in Seq(1 .. Blocks) /\ IsInjective(free'[a])
      /\ Range(free'[a]) \subseteq 1 .. Blocks
      /\ \A b \in Actors \ {a} : free'[b] = free[b]
      /\ free' \in [Actors -> Seq(1 .. Blocks)]
  <2>1. free' = [free EXCEPT ![a] = [i \in 1 .. Blocks |-> i]]
    BY DEF Create
  <2> QED
    BY <2>1, FreshOnce DEF JobTypes
<1>5. ScriptTypeOK'
  <2>1. pkg' \in [Packages -> Commands \cup {None}]
    BY DEF Create, ScriptTypeOK
  <2>2. alive' \subseteq Actors /\ held' \subseteq Actors /\ active' \subseteq Actors
    BY DEF Create, ScriptTypeOK
  <2>3. \A b \in Actors : free'[b] \in Seq(1 .. Blocks)
    BY <1>4
  <2> QED
    BY <1>1, <2>1, <2>2, <2>3 DEF ScriptTypeOK
<1>6. JobTypes'
  BY <1>1, <1>3, <1>4 DEF JobTypes, Out
<1>7. OnePlace'
  <2>1. ASSUME NEW u \in Jobs, ~job[u].freed
        PROVE  Owner(job[u].pkg) \in alive' => pkg'[job[u].pkg] = job[u].cmd
    <3>1. job[u].pkg \in Out
      BY <2>1 DEF Out
    <3> QED
      BY <1>1, <1>3, <2>1, <3>1 DEF OnePlace
  <2>2. ASSUME NEW b \in alive'
        PROVE  IsInjective(free'[b]) /\ \A i \in Range(free'[b]) : <<b, i>> \notin Out
    <3>1. CASE b = a
      BY <1>3, <1>4, <3>1 DEF Owner
    <3>2. CASE b # a
      BY <1>1, <1>4, <3>2 DEF OnePlace, ScriptTypeOK
    <3> QED
      BY <3>1, <3>2
  <2> QED
    BY <1>1, <2>1, <2>2 DEF OnePlace
<1>8. \A c \in Commands : About(c)' = About(c) /\ Running(c)' = Running(c)
  BY <1>1, <1>3 DEF About, Running, Out
<1> QED
  BY <1>1, <1>5, <1>6, <1>7, <1>8, CountsKept

\* The scripts let go of an actor: what it has handed over stays where it is.
LEMMA LetGoKeepsPackages ==
  ASSUME ScriptInv, NEW t \in Threads, NEW a \in Actors, LetGo(t, a)
  PROVE  ScriptTypeOK' /\ JobTypes' /\ OnePlace' /\ CommandsCounted'
<1> USE DEF ScriptInv
<1>1. /\ UNCHANGED <<crefs, kept, active, free, pkg, queue, tasks, job, stray>>
      /\ Jobs' = Jobs /\ Out' = Out /\ alive' \subseteq alive /\ held' \subseteq held
  BY DEF LetGo, bvars, pvars, Jobs, Out
<1>2. ScriptTypeOK' /\ JobTypes'
  BY <1>1 DEF ScriptTypeOK, JobTypes
<1>3. OnePlace'
  BY <1>1 DEF OnePlace
<1>4. \A c \in Commands : About(c)' = About(c) /\ Running(c)' = Running(c)
  BY <1>1 DEF About, Running
<1> QED
  BY <1>1, <1>2, <1>3, <1>4, CountsKept

\* An action is queued: its package is a free block, and so nobody has it.
LEMMA QueueKeepsPackages ==
  ASSUME ScriptInv, NEW t \in Threads, NEW a \in Actors, NEW d \in Commands,
         NEW delayed \in BOOLEAN, QueueScriptAction(t, a, d, delayed)
  PROVE  ScriptTypeOK' /\ JobTypes' /\ OnePlace' /\ CommandsCounted'
<1> USE DEF ScriptInv
<1> DEFINE p == <<a, Head(free[a])>>
<1>1. /\ UNCHANGED <<kept, alive, held, job, stray>> /\ Jobs' = Jobs
      /\ a \in alive /\ free[a] # <<>> /\ free[a] \in Seq(1 .. Blocks)
      /\ free' = [free EXCEPT ![a] = Tail(free[a])]
      /\ pkg' = [pkg EXCEPT ![p] = d]
      /\ crefs' = [crefs EXCEPT ![d] = @ + 1]
  BY DEF QueueScriptAction, AddRef, QueuedAlive, JobTypes, Jobs
<1>2. IsInjective(free[a]) /\ \A i \in Range(free[a]) : <<a, i>> \notin Out
  BY <1>1 DEF OnePlace
<1>3. /\ Tail(free[a]) \in Seq(1 .. Blocks) /\ IsInjective(Tail(free[a]))
      /\ Head(free[a]) \in 1 .. Blocks /\ Head(free[a]) \in Range(free[a])
      /\ Range(Tail(free[a])) \subseteq Range(free[a])
      /\ Head(free[a]) \notin Range(Tail(free[a]))
  BY <1>1, <1>2, TakenOnce
<1>4. p \in Packages /\ p \notin Out /\ Owner(p) = a
  BY <1>2, <1>3 DEF Packages, Owner
<1>5. \/ queue' = queue /\ tasks' = tasks \cup {p} /\ active' = active
      \/ queue' = queue \cup {p} /\ tasks' = tasks /\ active' = active \cup {a}
  BY DEF QueueScriptAction
<1>6. Out' = Out \cup {p} /\ queue' \cup tasks' = (queue \cup tasks) \cup {p}
  BY <1>1, <1>5 DEF Out
<1>7. pkg'[p] = d /\ \A q \in Packages : q # p => pkg'[q] = pkg[q]
  BY <1>1, <1>4 DEF ScriptTypeOK
<1>8. /\ free'[a] = Tail(free[a]) /\ \A b \in Actors \ {a} : free'[b] = free[b]
      /\ free' \in [Actors -> Seq(1 .. Blocks)]
  BY <1>1, <1>3 DEF JobTypes
<1>9. \A b \in Actors : \A i \in Range(free'[b]) : <<b, i>> # p
  BY <1>3, <1>8
<1> HIDE DEF p
<1>10. ScriptTypeOK'
  <2>1. queue' \subseteq Packages /\ tasks' \subseteq Packages /\ active' \subseteq Actors
    BY <1>4, <1>5 DEF ScriptTypeOK
  <2>2. crefs' \in [Commands -> Nat] /\ pkg' \in [Packages -> Commands \cup {None}]
    BY <1>1, <1>4 DEF ScriptTypeOK
  <2> QED
    BY <1>1, <1>8, <2>1, <2>2 DEF ScriptTypeOK
<1>11. JobTypes'
  <2>1. \A q \in queue' \cup tasks' : pkg'[q] \in Commands
    BY <1>6, <1>7 DEF JobTypes, ScriptTypeOK
  <2> QED
    BY <1>1, <1>8, <2>1 DEF JobTypes
<1>12. OnePlace'
  <2>1. queue' \cap tasks' = {}
    BY <1>4, <1>5 DEF OnePlace, Out
  <2>2. ASSUME NEW u \in Jobs, ~job[u].freed
        PROVE  /\ job[u].pkg \notin queue' \cup tasks'
               /\ Owner(job[u].pkg) \in alive => pkg'[job[u].pkg] = job[u].cmd
    <3>1. job[u].pkg \in Out /\ job[u].pkg \in Packages
      BY <2>2 DEF Out, ScriptTypeOK
    <3> QED
      BY <1>4, <1>6, <1>7, <2>2, <3>1 DEF OnePlace
  <2>3. ASSUME NEW b \in alive
        PROVE  IsInjective(free'[b]) /\ \A i \in Range(free'[b]) : <<b, i>> \notin Out'
    <3>1. b \in Actors
      BY DEF ScriptTypeOK
    <3>2. IsInjective(free'[b]) /\ Range(free'[b]) \subseteq Range(free[b])
      BY <1>3, <1>8, <3>1 DEF OnePlace
    <3> QED
      BY <1>6, <1>9, <3>1, <3>2 DEF OnePlace
  <2> QED
    BY <1>1, <2>1, <2>2, <2>3 DEF OnePlace
<1>13. CommandsCounted'
  <2> SUFFICES ASSUME stray = {}, NEW c \in Commands
               PROVE  crefs'[c] = Bit(c \in kept) + Cardinality(About(c)')
                                    + Cardinality(Running(c)')
    BY <1>1 DEF CommandsCounted
  <2>1. crefs[c] = Bit(c \in kept) + Cardinality(About(c)) + Cardinality(Running(c))
    BY DEF CommandsCounted
  <2>2. Running(c)' = Running(c)
    BY <1>1 DEF Running
  <2>3. \A q \in queue \cup tasks : q \in Packages /\ q # p
    BY <1>4 DEF ScriptTypeOK, Out
  <2>4. CASE c = d
    <3>1. About(c)' = About(c) \cup {p} /\ p \notin About(c)
      BY <1>6, <1>7, <2>3, <2>4 DEF About
    <3>2. Cardinality(About(c)') = Cardinality(About(c)) + 1
      BY <3>1, Finite, FS_AddElement
    <3>3. crefs'[c] = crefs[c] + 1
      BY <1>1, <2>4 DEF ScriptTypeOK
    <3> QED
      BY <2>1, <2>2, <3>2, <3>3, Finite DEF Bit
  <2>5. CASE c # d
    <3>1. About(c)' = About(c)
      BY <1>6, <1>7, <2>3, <2>5 DEF About
    <3>2. crefs'[c] = crefs[c]
      BY <1>1, <2>5 DEF ScriptTypeOK
    <3> QED
      BY <2>1, <2>2, <3>1, <3>2
  <2> QED
    BY <2>4, <2>5
<1> QED
  BY <1>10, <1>11, <1>12, <1>13

\* What is due moves from the queue to the pool.
LEMMA HandOverKeepsPackages ==
  ASSUME ScriptInv, NEW a \in Actors, NEW ready \in SUBSET queue, HandOver(a, ready)
  PROVE  ScriptTypeOK' /\ JobTypes' /\ OnePlace' /\ CommandsCounted'
<1> USE DEF ScriptInv
<1>1. /\ UNCHANGED <<crefs, kept, held, free, pkg, job, stray>> /\ Jobs' = Jobs
      /\ tasks' = tasks \cup ready /\ queue' = queue \ ready
      /\ active' \subseteq active /\ alive' \subseteq alive
  BY DEF HandOver, Left, bvars, Jobs
<1>2. queue' \cup tasks' = queue \cup tasks
  BY <1>1
<1>3. Out' = Out
  BY <1>1, <1>2 DEF Out
<1>4. ScriptTypeOK' /\ JobTypes'
  BY <1>1, <1>2 DEF ScriptTypeOK, JobTypes
<1>5. OnePlace'
  <2>1. queue' \cap tasks' = {}
    BY <1>1 DEF OnePlace
  <2> QED
    BY <1>1, <1>2, <1>3, <2>1 DEF OnePlace
<1>6. \A c \in Commands : About(c)' = About(c) /\ Running(c)' = Running(c)
  BY <1>1, <1>2 DEF About, Running
<1> QED
  BY <1>1, <1>4, <1>5, <1>6, CountsKept

\* A worker takes a package: it counts for the worker instead of for the pool.
LEMMA TakeKeepsPackages ==
  ASSUME ScriptInv, NEW t \in Threads, Take(t)
  PROVE  ScriptTypeOK' /\ JobTypes' /\ OnePlace' /\ CommandsCounted'
<1> USE DEF ScriptInv
<1>1. PICK p \in tasks :
        /\ tasks' = tasks \ {p}
        /\ job' = [job EXCEPT ![t] = [pkg |-> p, cmd |-> pkg[p], freed |-> FALSE]]
        /\ stray' = IF Owner(p) \in alive THEN stray ELSE stray \cup {"orphaned"}
  BY DEF Take
<1>2. /\ UNCHANGED <<crefs, kept, alive, held, active, free, pkg, queue>>
      /\ job[t] = NoJob /\ t \notin Jobs
  BY DEF Take, avars, bvars, Jobs
<1>3. p \in Packages /\ pkg[p] \in Commands /\ p \notin queue
  BY DEF ScriptTypeOK, JobTypes, OnePlace
<1>4. /\ job'[t] = [pkg |-> p, cmd |-> pkg[p], freed |-> FALSE]
      /\ \A u \in Threads \ {t} : job'[u] = job[u]
  BY <1>1 DEF JobTypes
<1>5. /\ job'[t] \in [pkg : Packages, cmd : Commands, freed : BOOLEAN]
      /\ job'[t].pkg = p /\ job'[t].cmd = pkg[p] /\ job'[t].freed = FALSE
  BY <1>3, <1>4
<1>6. Jobs' = Jobs \cup {t}
  BY <1>4, <1>5, NoJobIsNone DEF Jobs
<1>7. \A u \in Jobs : u # t /\ u \in Threads /\ job'[u] = job[u]
  BY <1>2, <1>4 DEF Jobs
<1>8. Out' = Out
  <2>1. {u \in Jobs' : ~job'[u].freed} = {u \in Jobs : ~job[u].freed} \cup {t}
    BY <1>5, <1>6, <1>7
  <2>2. {job'[u].pkg : u \in {v \in Jobs' : ~job'[v].freed}}
          = {job[u].pkg : u \in {v \in Jobs : ~job[v].freed}} \cup {p}
    BY <1>5, <1>7, <2>1
  <2> QED
    BY <1>1, <1>2, <2>2 DEF Out
<1>9. ScriptTypeOK'
  <2>1. \A u \in Jobs' : job'[u].pkg \in Packages /\ job'[u].cmd \in Commands
    BY <1>3, <1>5, <1>6, <1>7 DEF ScriptTypeOK
  <2>2. tasks' \subseteq Packages /\ stray' \subseteq {"mixed", "overreleased", "orphaned"}
    BY <1>1 DEF ScriptTypeOK
  <2> QED
    BY <1>2, <2>1, <2>2 DEF ScriptTypeOK
<1>10. JobTypes'
  <2>1. job' \in [Threads -> [pkg : Packages, cmd : Commands, freed : BOOLEAN] \cup {NoJob}]
    BY <1>1, <1>4, <1>5 DEF JobTypes
  <2> QED
    BY <1>1, <1>2, <2>1 DEF JobTypes
<1>11. OnePlace'
  <2>1. queue' \cap tasks' = {}
    BY <1>1, <1>2 DEF OnePlace
  <2>2. ASSUME NEW u \in Jobs', ~job'[u].freed
        PROVE  /\ job'[u].pkg \notin queue' \cup tasks'
               /\ \A v \in Jobs' \ {u} : ~job'[v].freed => job'[v].pkg # job'[u].pkg
               /\ Owner(job'[u].pkg) \in alive' => pkg'[job'[u].pkg] = job'[u].cmd
    <3>1. \A v \in Jobs : ~job[v].freed => job[v].pkg # p
      BY DEF OnePlace
    <3>2. CASE u = t
      BY <1>1, <1>2, <1>3, <1>5, <1>6, <1>7, <3>1, <3>2
    <3>3. CASE u # t
      BY <1>1, <1>2, <1>5, <1>6, <1>7, <2>2, <3>1, <3>3 DEF OnePlace
    <3> QED
      BY <3>2, <3>3
  <2>3. \A b \in alive' :
          IsInjective(free'[b]) /\ \A i \in Range(free'[b]) : <<b, i>> \notin Out'
    BY <1>2, <1>8 DEF OnePlace
  <2> QED
    BY <2>1, <2>2, <2>3 DEF OnePlace
<1>12. CommandsCounted'
  <2> SUFFICES ASSUME stray' = {}, NEW c \in Commands
               PROVE  crefs[c] = Bit(c \in kept) + Cardinality(About(c)')
                                   + Cardinality(Running(c)')
    BY <1>2 DEF CommandsCounted
  <2>1. crefs[c] = Bit(c \in kept) + Cardinality(About(c)) + Cardinality(Running(c))
    BY <1>1 DEF CommandsCounted
  <2>2. CASE c = pkg[p]
    <3>1. About(c)' = About(c) \ {p} /\ p \in About(c)
      BY <1>1, <1>2, <1>3, <2>2 DEF About
    <3>2. Running(c)' = Running(c) \cup {t} /\ t \notin Running(c)
      BY <1>2, <1>5, <1>6, <1>7, <2>2 DEF Running
    <3>3. Cardinality(About(c)') = Cardinality(About(c)) - 1
      BY <3>1, Finite, FS_RemoveElement
    <3>4. Cardinality(Running(c)') = Cardinality(Running(c)) + 1
      BY <3>2, Finite, FS_AddElement
    <3> QED
      BY <2>1, <3>3, <3>4, Finite DEF Bit
  <2>3. CASE c # pkg[p]
    <3>1. About(c)' = About(c)
      BY <1>1, <1>2, <2>3 DEF About
    <3>2. Running(c)' = Running(c)
      BY <1>5, <1>6, <1>7, <2>3 DEF Running
    <3> QED
      BY <2>1, <3>1, <3>2
  <2> QED
    BY <2>2, <2>3
<1> QED
  BY <1>9, <1>10, <1>11, <1>12

\* A worker frees its package: the block is nobody's any more.
LEMMA FreeKeepsPackages ==
  ASSUME ScriptInv, NEW t \in Threads, FreePackage(t)
  PROVE  ScriptTypeOK' /\ JobTypes' /\ OnePlace' /\ CommandsCounted'
<1> USE DEF ScriptInv
<1> DEFINE p == job[t].pkg
<1>1. /\ UNCHANGED <<crefs, kept, alive, held, active, pkg, queue, tasks>>
      /\ t \in Jobs /\ ~job[t].freed
      /\ job' = [job EXCEPT ![t].freed = TRUE]
  BY DEF FreePackage, avars
<1>2. /\ job[t] \in [pkg : Packages, cmd : Commands, freed : BOOLEAN]
      /\ p \in Packages /\ p[1] \in Actors /\ p[2] \in 1 .. Blocks /\ p = <<p[1], p[2]>>
      /\ Owner(p) = p[1]
  BY <1>1, JobFacts DEF Packages, Owner
<1>3. /\ job'[t] = [job[t] EXCEPT !.freed = TRUE]
      /\ \A u \in Threads \ {t} : job'[u] = job[u]
  BY <1>1 DEF JobTypes
<1>4. /\ job'[t] \in [pkg : Packages, cmd : Commands, freed : BOOLEAN]
      /\ job'[t].pkg = p /\ job'[t].cmd = job[t].cmd /\ job'[t].freed = TRUE
  BY <1>2, <1>3
<1> HIDE DEF p
<1>5. Jobs' = Jobs
  BY <1>1, <1>3, <1>4, NoJobIsNone DEF Jobs
<1>6. \A u \in Jobs \ {t} : u \in Threads /\ job'[u] = job[u]
  BY <1>3 DEF Jobs
<1>7. Out' \subseteq Out /\ p \in Out /\ p \notin Out'
  <2>1. \A u \in Jobs' : ~job'[u].freed => u # t /\ ~job[u].freed /\ job'[u] = job[u]
    BY <1>4, <1>5, <1>6
  <2>2. \A u \in Jobs \ {t} : ~job[u].freed => job[u].pkg # p
    BY <1>1 DEF OnePlace, p
  <2>3. p \notin queue \cup tasks
    BY <1>1 DEF OnePlace, p
  <2>4. \A q \in Out' : q \in queue \cup tasks \/ \E u \in Jobs' : ~job'[u].freed /\ q = job'[u].pkg
    BY <1>1 DEF Out
  <2>5. p \in Out
    BY <1>1 DEF Out, p
  <2>6. \A q \in Out' : q \in Out /\ q # p
    BY <1>5, <2>1, <2>2, <2>3, <2>4 DEF Out
  <2> QED
    BY <2>5, <2>6
<1>8. /\ stray' \subseteq {"mixed", "overreleased", "orphaned"}
      /\ stray' = {} => stray = {}
      /\ \/ Owner(p) \in alive /\ free' = [free EXCEPT ![Owner(p)] = <<p[2]>> \o free[Owner(p)]]
         \/ Owner(p) \notin alive /\ free' = free
  BY DEF FreePackage, Push, ScriptTypeOK, p
<1>9. Owner(p) \in alive =>
        /\ <<p[2]>> \o free[Owner(p)] \in Seq(1 .. Blocks)
        /\ IsInjective(<<p[2]>> \o free[Owner(p)])
        /\ Range(<<p[2]>> \o free[Owner(p)]) = Range(free[Owner(p)]) \cup {p[2]}
  <2> SUFFICES ASSUME Owner(p) \in alive
               PROVE  /\ <<p[2]>> \o free[Owner(p)] \in Seq(1 .. Blocks)
                      /\ IsInjective(<<p[2]>> \o free[Owner(p)])
                      /\ Range(<<p[2]>> \o free[Owner(p)]) = Range(free[Owner(p)]) \cup {p[2]}
    OBVIOUS
  <2>1. free[Owner(p)] \in Seq(1 .. Blocks) /\ IsInjective(free[Owner(p)])
    BY <1>2 DEF JobTypes, OnePlace
  <2>2. p[2] \notin Range(free[Owner(p)])
    BY <1>2, <1>7 DEF OnePlace
  <2>3. p[2] \in 1 .. Blocks
    BY <1>2
  <2> DEFINE s == free[Owner(p)]
             i == p[2]
             S == 1 .. Blocks
  <2>4. s \in Seq(S) /\ i \in S /\ IsInjective(s) /\ i \notin Range(s)
    BY <2>1, <2>2, <2>3
  <2> HIDE DEF s, i, S
  <2>5. /\ <<i>> \o s \in Seq(S) /\ IsInjective(<<i>> \o s)
        /\ Range(<<i>> \o s) = Range(s) \cup {i}
    BY <2>4, FreedOnce
  <2> QED
    BY <2>5 DEF s, i, S
<1>10. ScriptTypeOK' /\ JobTypes'
  <2>1. free' \in [Actors -> Seq(1 .. Blocks)]
    BY <1>2, <1>8, <1>9 DEF JobTypes
  <2>2. job' \in [Threads -> [pkg : Packages, cmd : Commands, freed : BOOLEAN] \cup {NoJob}]
    BY <1>1, <1>3, <1>4 DEF JobTypes
  <2>3. \A u \in Jobs' : job'[u].pkg \in Packages /\ job'[u].cmd \in Commands
    BY <1>4, <1>5, <1>6 DEF ScriptTypeOK
  <2> QED
    BY <1>1, <1>8, <2>1, <2>2, <2>3 DEF ScriptTypeOK, JobTypes
<1>11. OnePlace'
  <2>1. ASSUME NEW u \in Jobs', ~job'[u].freed
        PROVE  /\ job'[u].pkg \notin queue' \cup tasks'
               /\ \A v \in Jobs' \ {u} : ~job'[v].freed => job'[v].pkg # job'[u].pkg
               /\ Owner(job'[u].pkg) \in alive' => pkg'[job'[u].pkg] = job'[u].cmd
    BY <1>1, <1>4, <1>5, <1>6, <2>1 DEF OnePlace
  <2>2. ASSUME NEW b \in alive
        PROVE  IsInjective(free'[b]) /\ \A i \in Range(free'[b]) : <<b, i>> \notin Out'
    <3>1. b \in Actors /\ IsInjective(free[b]) /\ \A i \in Range(free[b]) : <<b, i>> \notin Out
      BY DEF ScriptTypeOK, OnePlace
    <3>2. CASE free'[b] = free[b]
      BY <1>7, <3>1, <3>2
    <3>3. CASE free'[b] # free[b]
      <4>1. b = Owner(p) /\ free'[b] = <<p[2]>> \o free[b]
        BY <1>2, <1>8, <3>1, <3>3 DEF JobTypes
      <4>2. p = <<b, p[2]>>
        BY <1>2, <4>1
      <4> QED
        BY <1>7, <1>9, <3>1, <4>1, <4>2
    <3> QED
      BY <3>2, <3>3
  <2> QED
    BY <1>1, <2>1, <2>2 DEF OnePlace
<1>12. \A c \in Commands : About(c)' = About(c) /\ Running(c)' = Running(c)
  BY <1>1, <1>4, <1>5, <1>6 DEF About, Running, p
<1> QED
  BY <1>1, <1>8, <1>10, <1>11, <1>12, CountsKept

\* A worker releases an object: its own, or the release has gone astray.
LEMMA ReleaseKeepsPackages ==
  ASSUME ScriptInv, NEW t \in Threads, ReleaseCommand(t)
  PROVE  ScriptTypeOK' /\ JobTypes' /\ OnePlace' /\ CommandsCounted'
<1> USE DEF ScriptInv
<1>1. /\ UNCHANGED <<kept, alive, held, active, free, pkg, queue, tasks>>
      /\ t \in Jobs /\ job[t].freed
      /\ job' = [job EXCEPT ![t] = NoJob]
  BY DEF ReleaseCommand, avars, bvars
<1>2. PICK d \in Says(job[t].pkg) :
        /\ crefs' = [crefs EXCEPT ![d] = IF @ = 0 THEN 0 ELSE @ - 1]
        /\ stray' = stray
              \cup (IF d # job[t].cmd THEN {"mixed"} ELSE {})
              \cup (IF crefs[d] = 0 THEN {"overreleased"} ELSE {})
              \cup (IF Owner(job[t].pkg) \notin alive THEN {"orphaned"} ELSE {})
  BY DEF ReleaseCommand
<1>3. t \in Threads /\ job'[t] = NoJob /\ \A u \in Threads \ {t} : job'[u] = job[u]
  BY <1>1 DEF JobTypes
<1>4. Jobs' = Jobs \ {t} /\ \A u \in Jobs' : job'[u] = job[u]
  BY <1>3 DEF Jobs
<1>5. Out' = Out
  <2>1. {u \in Jobs' : ~job'[u].freed} = {u \in Jobs : ~job[u].freed}
    BY <1>1, <1>4
  <2>2. {job'[u].pkg : u \in {v \in Jobs' : ~job'[v].freed}}
          = {job[u].pkg : u \in {v \in Jobs : ~job[v].freed}}
    BY <1>4, <2>1
  <2> QED
    BY <1>1, <2>2 DEF Out
<1>6. ScriptTypeOK' /\ JobTypes'
  <2>1. crefs' \in [Commands -> Nat]
    <3>1. crefs \in [Commands -> Nat]
      BY DEF ScriptTypeOK
    <3>2. d \in Commands => (IF crefs[d] = 0 THEN 0 ELSE crefs[d] - 1) \in Nat
      BY <3>1
    <3> QED
      BY <1>2, <3>1, <3>2
  <2>2. stray' \subseteq {"mixed", "overreleased", "orphaned"}
    BY <1>2 DEF ScriptTypeOK
  <2>3. job' \in [Threads -> [pkg : Packages, cmd : Commands, freed : BOOLEAN] \cup {NoJob}]
    BY <1>1 DEF JobTypes
  <2> QED
    BY <1>1, <1>4, <2>1, <2>2, <2>3 DEF ScriptTypeOK, JobTypes
<1>7. OnePlace'
  <2>1. ASSUME NEW u \in Jobs', ~job'[u].freed
        PROVE  /\ job'[u].pkg \notin queue' \cup tasks'
               /\ \A v \in Jobs' \ {u} : ~job'[v].freed => job'[v].pkg # job'[u].pkg
               /\ Owner(job'[u].pkg) \in alive' => pkg'[job'[u].pkg] = job'[u].cmd
    BY <1>1, <1>4, <2>1 DEF OnePlace
  <2> QED
    BY <1>1, <1>5, <2>1 DEF OnePlace
<1>8. CommandsCounted'
  <2> SUFFICES ASSUME stray' = {}, NEW c \in Commands
               PROVE  crefs'[c] = Bit(c \in kept) + Cardinality(About(c)')
                                    + Cardinality(Running(c)')
    BY <1>1 DEF CommandsCounted
  <2>1. stray = {} /\ d = job[t].cmd /\ crefs[d] # 0
    BY <1>2
  <2>2. crefs[c] = Bit(c \in kept) + Cardinality(About(c)) + Cardinality(Running(c))
    BY <2>1 DEF CommandsCounted
  <2>3. About(c)' = About(c)
    BY <1>1 DEF About
  <2>4. CASE c = d
    <3>1. Running(c)' = Running(c) \ {t} /\ t \in Running(c)
      BY <1>1, <1>4, <2>1, <2>4 DEF Running
    <3>2. Cardinality(Running(c)') = Cardinality(Running(c)) - 1
      BY <3>1, Finite, FS_RemoveElement
    <3>3. crefs'[c] = crefs[c] - 1
      BY <1>2, <2>1, <2>4 DEF ScriptTypeOK
    <3> QED
      BY <2>2, <2>3, <3>2, <3>3, Finite DEF Bit
  <2>5. CASE c # d
    <3>1. Running(c)' = Running(c)
      BY <1>1, <1>4, <2>1, <2>5 DEF Running
    <3>2. crefs'[c] = crefs[c]
      BY <1>2, <2>5 DEF ScriptTypeOK
    <3> QED
      BY <2>2, <2>3, <3>1, <3>2
  <2> QED
    BY <2>4, <2>5
<1> QED
  BY <1>6, <1>7, <1>8

\* Every step preserves the invariant.
LEMMA ScriptKeeps == ScriptInv /\ [ScriptNext]_svars => ScriptInv'
<1> SUFFICES ASSUME ScriptInv, [ScriptNext]_svars PROVE ScriptInv'
  OBVIOUS
<1>1. QueuedAlive'
  BY QueuedStep DEF ScriptInv
<1> DEFINE Rest == ScriptTypeOK' /\ JobTypes' /\ OnePlace' /\ CommandsCounted'
<1>2. ASSUME NEW t \in Threads, Script(t) PROVE Rest
  <2>1. ASSUME NEW c \in Commands, Make(t, c) \/ Drop(t, c) PROVE Rest
    BY <2>1, CommandKeeps DEF ScriptInv
  <2>2. ASSUME NEW a \in Actors, Create(t, a) \/ LetGo(t, a) PROVE Rest
    BY <2>2, CreateKeepsPackages, LetGoKeepsPackages
  <2>3. ASSUME NEW a \in Actors, NEW c \in Commands, NEW delayed \in BOOLEAN,
               QueueScriptAction(t, a, c, delayed)
        PROVE  Rest
    BY <2>3, QueueKeepsPackages
  <2> QED
    BY <1>2, <2>1, <2>2, <2>3 DEF Script
<1>3. ASSUME NEW t \in Threads, Take(t) \/ FreePackage(t) \/ ReleaseCommand(t) PROVE Rest
  BY <1>3, TakeKeepsPackages, FreeKeepsPackages, ReleaseKeepsPackages
<1>4. ASSUME NEW t \in Threads, Context(t) \/ Callback(t) PROVE Rest
  BY <1>4, ScriptRest DEF Context, Callback, ScriptInv
<1>5. ASSUME NEW a \in Actors, NEW ready \in SUBSET queue, HandOver(a, ready) PROVE Rest
  BY <1>5, HandOverKeepsPackages
<1>6. CASE UNCHANGED svars
  BY <1>6, ScriptRest DEF svars, ScriptInv
<1> QED
  BY <1>1, <1>2, <1>3, <1>4, <1>5, <1>6 DEF ScriptNext, ScriptInv

\* Packages and objects, for ever.
THEOREM ScriptInvariant == ScriptSpec => []ScriptInv
<1>1. ScriptInit => ScriptInv
  <2> SUFFICES ASSUME ScriptInit PROVE ScriptInv
    OBVIOUS
  <2>1. Jobs = {} /\ Out = {} /\ queue = {} /\ tasks = {}
    BY DEF ScriptInit, Jobs, Out
  <2>2. ScriptTypeOK /\ JobTypes
    BY <2>1 DEF ScriptInit, ScriptTypeOK, JobTypes
  <2>3. OnePlace /\ QueuedAlive
    BY <2>1 DEF ScriptInit, OnePlace, QueuedAlive
  <2>4. CommandsCounted
    <3>1. \A c \in Commands : About(c) = {} /\ Running(c) = {}
      BY <2>1 DEF About, Running
    <3>2. \A c \in Commands : Cardinality(About(c)) = 0 /\ Cardinality(Running(c)) = 0
      BY <3>1, FS_EmptySet
    <3>3. \A c \in Commands : crefs[c] = 0 /\ Bit(c \in kept) = 0
      BY DEF ScriptInit, Bit
    <3> QED
      BY <3>2, <3>3 DEF CommandsCounted
  <2> QED
    BY <2>2, <2>3, <2>4 DEF ScriptInv
<1> QED
  BY <1>1, ScriptKeeps, PTL DEF ScriptSpec

\* nativeactor.cpp:121, as_api.cpp:53: a package is in one place from the script
\* that queues it to the worker that frees it, and its block is free once after
\* that.
THEOREM PackagesInOnePlace == ScriptSpec => []OnePlace
BY ScriptInvariant, PTL DEF ScriptInv

\* nativeactor.cpp:120, as_api.cpp:54: until a release goes astray an object has
\* one reference for the script and one for every package that is about it.
THEOREM ObjectsCounted == ScriptSpec => []CommandsCounted
BY ScriptInvariant, PTL DEF ScriptInv

\* nativeactor.cpp:84-148, as_api.cpp:28-57: together, what a worker runs is what
\* was queued and is there, until a release goes astray.
THEOREM ScriptsAreSafe == ScriptSpec => []ScriptsSafe
<1>1. ScriptInv => ScriptsSafe
  BY DEF ScriptInv, ScriptsSafe
<1> QED
  BY ScriptInvariant, <1>1, PTL

-----------------------------------------------------------------------------
(* Sums over finite sets.                                                   *)

\* A set of naturals that is not empty has a least element.
LEMMA LeastNumber ==
  ASSUME NEW T \in SUBSET Nat, T # {}
  PROVE  \E x \in T : \A y \in T : ~(y < x)
<1> DEFINE R == {p \in Nat \X Nat : p[1] < p[2]}
<1>1. IsWellFoundedOn(R, Nat)
  BY NatLessThanWellFounded DEF OpToRel
<1>2. PICK x \in T : \A y \in T : ~(<<y, x>> \in R)
  <2> HIDE DEF R
  <2> QED
    BY <1>1, WFMin
<1> QED
  BY <1>2

\* A family of finite sets, and each of them if those that are smaller are.
LEMMA SmallerFirst ==
  ASSUME NEW F, \A s \in F : IsFiniteSet(s), NEW G,
         \A s \in F : (\A r \in F : Cardinality(r) < Cardinality(s) => r \in G) => s \in G
  PROVE  F \subseteq G
<1> DEFINE T == {Cardinality(s) : s \in F \ G}
<1>1. ASSUME T # {} PROVE FALSE
  <2>1. T \in SUBSET Nat
    BY FS_CardinalityType
  <2>2. PICK k \in T : \A y \in T : ~(y < k)
    <3> HIDE DEF T
    <3> QED
      BY <1>1, <2>1, LeastNumber
  <2>3. PICK s \in F \ G : k = Cardinality(s)
    OBVIOUS
  <2>4. \A r \in F : Cardinality(r) < Cardinality(s) => r \in G
    BY <2>2, <2>3
  <2> QED
    BY <2>3, <2>4
<1> QED
  BY <1>1

\* g has the sum of f over each set of a family.
First(s) == CHOOSE x \in s : TRUE
Sums(g, f, F) ==
    g = [s \in F |-> IF s = {} THEN 0 ELSE f[First(s)] + g[s \ {First(s)}]]

\* A finite set without one of its elements is a smaller finite set.
LEMMA OneLess ==
  ASSUME NEW s, IsFiniteSet(s), NEW x \in s
  PROVE  /\ IsFiniteSet(s \ {x}) /\ Cardinality(s \ {x}) = Cardinality(s) - 1
         /\ Cardinality(s) \in Nat /\ Cardinality(s) # 0 /\ Cardinality(s \ {x}) < Cardinality(s)
<1>1. IsFiniteSet(s \ {x}) /\ Cardinality(s \ {x}) = Cardinality(s) - 1
  BY FS_RemoveElement
<1>2. Cardinality(s) \in Nat /\ Cardinality(s \ {x}) \in Nat
  BY <1>1, FS_CardinalityType
<1>3. Cardinality(s) # 0 /\ Cardinality(s \ {x}) < Cardinality(s)
  BY <1>1, <1>2
<1> QED
  BY <1>1, <1>2, <1>3

\* There are such sums.
LEMMA SumsExist ==
  ASSUME NEW S, IsFiniteSet(S), NEW f
  PROVE  \E g : Sums(g, f, SUBSET S)
<1> DEFINE Upto(k) == {s \in SUBSET S : Cardinality(s) <= k}
           T == {k \in Nat : ~\E g : Sums(g, f, Upto(k))}
<1>0. \A s \in SUBSET S : IsFiniteSet(s) /\ Cardinality(s) \in Nat
  BY FS_Subset, FS_CardinalityType
<1>1. ASSUME T # {} PROVE FALSE
  <2>1. PICK k \in T : \A y \in T : ~(y < k)
    <3>1. T \in SUBSET Nat
      OBVIOUS
    <3> HIDE DEF T
    <3> QED
      BY <1>1, <3>1, LeastNumber
  <2>2. CASE k = 0
    <3>1. \A s \in Upto(0) : s = {}
      BY <1>0, FS_EmptySet
    <3> DEFINE g == [s \in Upto(0) |-> 0]
    <3>2. Sums(g, f, Upto(0))
      <4>1. g = [s \in Upto(0) |-> IF s = {} THEN 0 ELSE f[First(s)] + g[s \ {First(s)}]]
        BY <3>1
      <4> QED
        BY <4>1 DEF Sums
    <3> QED
      BY <2>1, <2>2, <3>2
  <2>3. CASE k # 0
    <3>0. k \in Nat
      BY <2>1
    <3>1. k - 1 \in Nat /\ k - 1 < k /\ k - 1 \notin T
      <4>1. k - 1 \in Nat /\ k - 1 < k
        BY <2>3, <3>0
      <4> HIDE DEF T
      <4> QED
        BY <2>1, <4>1
    <3>2. PICK g : Sums(g, f, Upto(k - 1))
      BY <3>1
    <3> DEFINE v(s) == IF s = {} THEN 0 ELSE f[First(s)] + g[s \ {First(s)}]
               h == [s \in Upto(k) |-> v(s)]
    <3>3. ASSUME NEW s \in Upto(k), s # {}
          PROVE  h[s \ {First(s)}] = g[s \ {First(s)}]
      <4>1. First(s) \in s
        BY <3>3 DEF First
      <4> DEFINE r == s \ {First(s)}
      <4>2. r \in Upto(k - 1) /\ r \in Upto(k)
        BY <1>0, <3>1, <4>1, OneLess
      <4>3. h[r] = v(r)
        BY <4>2
      <4>4. g[r] = v(r)
        BY <3>2, <4>2 DEF Sums
      <4> QED
        BY <4>3, <4>4
    <3>4. \A s \in Upto(k) : v(s) = IF s = {} THEN 0 ELSE f[First(s)] + h[s \ {First(s)}]
      <4> HIDE DEF h
      <4> QED
        BY <3>3
    <3>5. h = [s \in Upto(k) |-> IF s = {} THEN 0 ELSE f[First(s)] + h[s \ {First(s)}]]
      <4>1. h = [s \in Upto(k) |-> v(s)]
        OBVIOUS
      <4> HIDE DEF h, v
      <4> QED
        BY <3>4, <4>1
    <3> QED
      BY <2>1, <3>5 DEF Sums
  <2> QED
    BY <2>2, <2>3
<1>2. Cardinality(S) \in Nat /\ Upto(Cardinality(S)) = SUBSET S
  BY <1>0, FS_Subset
<1>3. Cardinality(S) \notin T
  BY <1>1
<1>4. \E g : Sums(g, f, Upto(Cardinality(S)))
  BY <1>2, <1>3
<1> QED
  BY <1>2, <1>4

\* What there is together, of which x is a part.
Total(f, S) == FoldFunctionOnSet(LAMBDA n, sum : n + sum, 0, f, S)

\* The fold of the sum over a finite set is such a sum.
LEMMA TotalSums ==
  ASSUME NEW S, IsFiniteSet(S), NEW f
  PROVE  \E g : Sums(g, f, SUBSET S) /\ Total(f, S) = g[S]
<1> DEFINE Body(g) == [s \in SUBSET S |-> IF s = {} THEN 0
                                          ELSE f[First(s)] + g[s \ {First(s)}]]
           iter == CHOOSE g : g = Body(g)
<1>1. \E g : g = Body(g)
  <2>1. PICK g : Sums(g, f, SUBSET S)
    BY SumsExist
  <2> QED
    BY <2>1 DEF Sums
<1>2. iter = Body(iter)
  <2> HIDE DEF Body
  <2> QED
    BY <1>1
<1>3. Total(f, S) = iter[S]
  BY DEF Total, FoldFunctionOnSet, MapThenFoldSet, First
<1> HIDE DEF iter
<1> QED
  BY <1>2, <1>3 DEF Sums

\* Any element may be taken off first.
Additive(g, f, F) == \A s \in F : g[s] \in Nat /\ \A x \in s : g[s] = f[x] + g[s \ {x}]

\* Whichever element is taken off first, the sum is the same.
LEMMA AnyFirst ==
  ASSUME NEW S, IsFiniteSet(S), NEW f, NEW g, Sums(g, f, SUBSET S),
         \A y \in S : f[y] \in Nat
  PROVE  Additive(g, f, SUBSET S)
<1> DEFINE F == SUBSET S
           G == {s \in F : g[s] \in Nat /\ \A x \in s : g[s] = f[x] + g[s \ {x}]}
<1>1. \A s \in F : IsFiniteSet(s)
  BY FS_Subset
<1>2. ASSUME NEW s \in F, \A r \in F : Cardinality(r) < Cardinality(s) => r \in G
      PROVE  s \in G
  <2>1. CASE s = {}
    BY <2>1 DEF Sums
  <2>2. CASE s # {}
    <3>1. First(s) \in s
      BY <2>2 DEF First
    <3> DEFINE c == First(s)
    <3>2. g[s] = f[c] + g[s \ {c}]
      BY <2>2 DEF Sums
    <3> HIDE DEF c
    <3>0. c \in s /\ c \in S
      BY <3>1 DEF c
    <3>3. \A x \in s : s \ {x} \in G
      BY <1>1, <1>2, OneLess
    <3>4. ASSUME NEW x \in s, x # c PROVE g[s] = f[x] + g[s \ {x}]
      <4>1. g[s \ {c}] = f[x] + g[(s \ {c}) \ {x}]
        BY <3>0, <3>3, <3>4
      <4>2. g[s \ {x}] = f[c] + g[(s \ {x}) \ {c}]
        BY <3>0, <3>3, <3>4
      <4>3. (s \ {c}) \ {x} = (s \ {x}) \ {c}
        OBVIOUS
      <4>4. s \ {c} \in G /\ s \ {x} \in G
        BY <3>0, <3>3
      <4> DEFINE r == (s \ {x}) \ {c}
      <4>5. r \in G
        <5>1. Cardinality(r) < Cardinality(s)
          <6>1. /\ IsFiniteSet(s \ {x}) /\ Cardinality(s \ {x}) = Cardinality(s) - 1
                /\ Cardinality(s) \in Nat
            BY <1>1, OneLess
          <6>2. c \in s \ {x}
            BY <3>0, <3>4
          <6>3. Cardinality(r) < Cardinality(s \ {x}) /\ Cardinality(r) = Cardinality(s \ {x}) - 1
            BY <6>1, <6>2, OneLess
          <6> QED
            BY <6>1, <6>3
        <5> QED
          BY <1>2, <5>1
      <4>6. g[r] \in Nat /\ f[x] \in Nat /\ f[c] \in Nat
        BY <3>0, <4>5
      <4> HIDE DEF G, r
      <4> QED
        <5>1. g[s] = f[c] + (f[x] + g[r]) /\ g[s \ {x}] = f[c] + g[r]
          BY <3>2, <4>1, <4>2, <4>3 DEF r
        <5> QED
          BY <4>6, <5>1
    <3>5. g[s] \in Nat
      <4>1. s \ {c} \in G /\ f[c] \in Nat
        BY <3>0, <3>3
      <4> QED
        BY <3>2, <4>1
    <3>6. \A x \in s : g[s] = f[x] + g[s \ {x}]
      BY <3>2, <3>4
    <3> QED
      BY <3>5, <3>6
  <2> QED
    BY <2>1, <2>2
<1>3. F \subseteq G
  <2> HIDE DEF F, G
  <2> QED
    BY <1>1, <1>2, SmallerFirst
<1> QED
  BY <1>3 DEF Additive

\* Functions that agree have the same sums.
LEMMA SumsAgree ==
  ASSUME NEW S, IsFiniteSet(S), NEW e, NEW f, NEW g, NEW h, NEW x,
         Sums(g, e, SUBSET S), Sums(h, f, SUBSET S),
         \A y \in S : y # x => e[y] = f[y]
  PROVE  \A s \in SUBSET S : x \notin s => g[s] = h[s]
<1> DEFINE F == {s \in SUBSET S : x \notin s}
           G == {s \in F : g[s] = h[s]}
<1>1. \A s \in F : IsFiniteSet(s)
  BY FS_Subset
<1>2. ASSUME NEW s \in F, \A r \in F : Cardinality(r) < Cardinality(s) => r \in G
      PROVE  s \in G
  <2>1. CASE s = {}
    BY <2>1 DEF Sums
  <2>2. CASE s # {}
    <3> DEFINE c == First(s)
    <3>1. c \in s
      BY <2>2 DEF First
    <3>2. g[s] = e[c] + g[s \ {c}] /\ h[s] = f[c] + h[s \ {c}]
      BY <2>2 DEF Sums
    <3> HIDE DEF c
    <3>3. Cardinality(s \ {c}) < Cardinality(s)
      BY <1>1, <3>1, OneLess
    <3>4. s \ {c} \in G
      BY <1>2, <3>3
    <3> QED
      BY <3>1, <3>2, <3>4
  <2> QED
    BY <2>1, <2>2
<1>3. F \subseteq G
  <2> HIDE DEF F, G
  <2> QED
    BY <1>1, <1>2, SmallerFirst
<1> QED
  BY <1>3

\* One of the numbers is another, and the total is by as much.
LEMMA TotalDiffers ==
  ASSUME NEW S, IsFiniteSet(S), NEW e \in [S -> Nat], NEW f \in [S -> Nat], NEW x \in S,
         \A y \in S : y # x => e[y] = f[y]
  PROVE  /\ Total(e, S) \in Nat /\ Total(f, S) \in Nat
         /\ Total(f, S) + e[x] = Total(e, S) + f[x]
<1>0. \A y \in S : e[y] \in Nat /\ f[y] \in Nat
  OBVIOUS
<1>1. PICK g : Sums(g, e, SUBSET S) /\ Total(e, S) = g[S]
  BY TotalSums
<1>2. PICK h : Sums(h, f, SUBSET S) /\ Total(f, S) = h[S]
  BY TotalSums
<1>3. S \in SUBSET S /\ S \ {x} \in SUBSET S /\ x \notin S \ {x}
  OBVIOUS
<1>4. g[S] \in Nat /\ g[S] = e[x] + g[S \ {x}] /\ g[S \ {x}] \in Nat
  <2>1. Additive(g, e, SUBSET S)
    BY <1>0, <1>1, AnyFirst
  <2> QED
    BY <1>3, <2>1 DEF Additive
<1>5. h[S] \in Nat /\ h[S] = f[x] + h[S \ {x}]
  <2>1. Additive(h, f, SUBSET S)
    BY <1>0, <1>2, AnyFirst
  <2> QED
    BY <1>3, <2>1 DEF Additive
<1>6. g[S \ {x}] = h[S \ {x}]
  <2>1. \A s \in SUBSET S : x \notin s => g[s] = h[s]
    BY <1>1, <1>2, SumsAgree
  <2> QED
    BY <1>3, <2>1
<1> QED
  BY <1>1, <1>2, <1>4, <1>5, <1>6

\* When one number changes, the total changes by as much.
LEMMA TotalOfChange ==
  ASSUME NEW S, IsFiniteSet(S), NEW e \in [S -> Nat], NEW x \in S, NEW n \in Nat
  PROVE  /\ Total(e, S) \in Nat /\ Total([e EXCEPT ![x] = n], S) \in Nat
         /\ Total([e EXCEPT ![x] = n], S) + e[x] = Total(e, S) + n
<1> DEFINE f == [e EXCEPT ![x] = n]
<1>1. f \in [S -> Nat] /\ f[x] = n /\ \A y \in S : y # x => e[y] = f[y]
  OBVIOUS
<1> HIDE DEF f
<1>2. /\ Total(e, S) \in Nat /\ Total(f, S) \in Nat
      /\ Total(f, S) + e[x] = Total(e, S) + f[x]
  BY <1>1, TotalDiffers
<1> QED
  BY <1>1, <1>2 DEF f

\* Nothing adds up to nothing.
LEMMA TotalOfNothing ==
  ASSUME NEW S, IsFiniteSet(S), NEW f \in [S -> {0}]
  PROVE  Total(f, S) = 0
<1>1. PICK g : Sums(g, f, SUBSET S) /\ Total(f, S) = g[S]
  BY TotalSums
<1> DEFINE F == SUBSET S
           G == {s \in F : g[s] = 0}
<1>2. \A s \in F : IsFiniteSet(s)
  BY FS_Subset
<1>3. ASSUME NEW s \in F, \A r \in F : Cardinality(r) < Cardinality(s) => r \in G
      PROVE  s \in G
  <2>1. CASE s = {}
    BY <1>1, <2>1 DEF Sums
  <2>2. CASE s # {}
    <3> DEFINE c == First(s)
    <3>1. c \in s
      BY <2>2 DEF First
    <3>2. g[s] = f[c] + g[s \ {c}]
      BY <1>1, <2>2 DEF Sums
    <3> HIDE DEF c
    <3>3. Cardinality(s \ {c}) < Cardinality(s)
      BY <1>2, <3>1, OneLess
    <3>4. s \ {c} \in G
      BY <1>3, <3>3
    <3> QED
      BY <3>1, <3>2, <3>4
  <2> QED
    BY <2>1, <2>2
<1>4. F \subseteq G
  <2> HIDE DEF F, G
  <2> QED
    BY <1>2, <1>3, SmallerFirst
<1> QED
  BY <1>1, <1>4

-----------------------------------------------------------------------------
(* The references of all objects together.                                 *)

\* A block that a worker has taken says an object, whichever it is by now.
JobsSay == \A t \in Jobs : Owner(job[t].pkg) \in alive => pkg[job[t].pkg] \in Commands

\* The handles and packages that there are references for.
References == Cardinality(kept) + Cardinality(queue) + Cardinality(tasks) + Cardinality(Jobs)
\* Until a release goes astray there are as many references as there are of these.
Even == Sound => Total(crefs, Commands) = References

\* Nothing of this is infinite.
LEMMA AllFinite ==
  ASSUME ScriptTypeOK
  PROVE  /\ IsFiniteSet(kept) /\ IsFiniteSet(queue) /\ IsFiniteSet(tasks) /\ IsFiniteSet(Jobs)
         /\ Cardinality(kept) \in Nat /\ Cardinality(queue) \in Nat
         /\ Cardinality(tasks) \in Nat /\ Cardinality(Jobs) \in Nat
<1>1. IsFiniteSet(1 .. Blocks)
  BY ScriptAssumption, FS_Interval
<1>2. IsFiniteSet(Packages)
  BY <1>1, ScriptAssumption, FS_Product DEF Packages
<1>3. /\ kept \in SUBSET Commands /\ queue \in SUBSET Packages /\ tasks \in SUBSET Packages
      /\ Jobs \in SUBSET Threads
  BY DEF ScriptTypeOK, Jobs
<1>4. IsFiniteSet(kept) /\ IsFiniteSet(queue) /\ IsFiniteSet(tasks) /\ IsFiniteSet(Jobs)
  BY <1>2, <1>3, ContextAssumption, ScriptAssumption, FS_Subset
<1> QED
  BY <1>4, FS_CardinalityType

\* One object has as many references more, or less, as there are holders.
LEMMA EvenKept ==
  ASSUME ScriptInv, Even, Sound, NEW c \in Commands, NEW n \in Nat,
         crefs' = [crefs EXCEPT ![c] = n],
         References \in Nat, References' = (References + n) - crefs[c]
  PROVE  Even'
<1>1. crefs \in [Commands -> Nat]
  BY DEF ScriptInv, ScriptTypeOK
<1>2. /\ Total(crefs, Commands) \in Nat /\ Total(crefs', Commands) \in Nat
      /\ Total(crefs', Commands) + crefs[c] = Total(crefs, Commands) + n
  BY <1>1, ScriptAssumption, TotalOfChange
<1>3. Total(crefs, Commands) = References
  BY DEF Even
<1>5. crefs[c] \in Nat
  BY <1>1
<1>6. Total(crefs, Commands)' = References'
  <2>1. Total(crefs', Commands) = References'
    BY <1>2, <1>3, <1>5
  <2> QED
    BY <2>1
<1> QED
  BY <1>6 DEF Even

\* The invariant of this part.
BalanceInv == ScriptInv /\ JobsSay /\ Even

\* There are so many of them.
LEMMA HoldersAre ==
  ASSUME ScriptTypeOK
  PROVE  References \in Nat
BY AllFinite DEF References

\* A script makes an object or lets go of one.
LEMMA CommandKeepsEven ==
  ASSUME BalanceInv, ScriptTypeOK', NEW t \in Threads, NEW d \in Commands,
         Make(t, d) \/ Drop(t, d)
  PROVE  JobsSay' /\ Even'
<1>1. /\ UNCHANGED <<alive, pkg, queue, tasks, job>> /\ Jobs' = Jobs
      /\ crefs \in [Commands -> Nat] /\ References \in Nat
  BY HoldersAre DEF BalanceInv, ScriptInv, ScriptTypeOK, Make, Drop, Jobs, avars, bvars, pvars
<1>2. JobsSay'
  BY <1>1 DEF BalanceInv, JobsSay
<1>3. CASE Make(t, d)
  <2>1. Cardinality(kept') = Cardinality(kept) + 1
    BY <1>3, AllFinite, FS_AddElement DEF Make, BalanceInv, ScriptInv
  <2>2. References' = References + 1
    BY <1>1, <2>1, AllFinite DEF References, BalanceInv, ScriptInv
  <2>3. crefs' = [crefs EXCEPT ![d] = 1] /\ crefs[d] = 0 /\ Sound
    BY <1>3 DEF Make, InScript
  <2>4. ScriptInv /\ Even /\ References' = (References + 1) - crefs[d] /\ 1 \in Nat
    BY <1>1, <2>2, <2>3 DEF BalanceInv
  <2>5. Even'
    BY <1>1, <2>3, <2>4, EvenKept
  <2> QED
    BY <1>2, <2>5
<1>4. CASE Drop(t, d)
  <2>1. Cardinality(kept') = Cardinality(kept) - 1
    BY <1>4, AllFinite, FS_RemoveElement DEF Drop, BalanceInv, ScriptInv
  <2>2. References' = References - 1
    BY <1>1, <2>1, AllFinite DEF References, BalanceInv, ScriptInv
  <2>3. CASE crefs[d] = 0
    BY <1>2, <1>4, <2>3 DEF Drop, Even, Sound
  <2>4. CASE crefs[d] # 0
    <3>1. crefs[d] \in Nat /\ crefs[d] - 1 \in Nat
      BY <1>1, <2>4
    <3>2. crefs' = [crefs EXCEPT ![d] = crefs[d] - 1] /\ Sound
      BY <1>4, <2>4 DEF Drop, InScript
    <3>3. ScriptInv /\ Even /\ References' = (References + (crefs[d] - 1)) - crefs[d]
      BY <1>1, <2>2, <3>1 DEF BalanceInv
    <3>4. Even'
      BY <1>1, <3>1, <3>2, <3>3, EvenKept
    <3> QED
      BY <1>2, <3>4
  <2> QED
    BY <2>3, <2>4
<1> QED
  BY <1>3, <1>4

\* An action is queued.
LEMMA QueueKeepsEven ==
  ASSUME BalanceInv, ScriptTypeOK', NEW t \in Threads, NEW a \in Actors, NEW d \in Commands,
         NEW delayed \in BOOLEAN, QueueScriptAction(t, a, d, delayed)
  PROVE  JobsSay' /\ Even'
<1> USE DEF BalanceInv, ScriptInv
<1> DEFINE p == <<a, Head(free[a])>>
<1>1. /\ UNCHANGED <<kept, alive, job>> /\ Jobs' = Jobs /\ Sound
      /\ a \in alive /\ free[a] # <<>> /\ free[a] \in Seq(1 .. Blocks)
      /\ pkg' = [pkg EXCEPT ![p] = d]
      /\ crefs' = [crefs EXCEPT ![d] = @ + 1] /\ crefs \in [Commands -> Nat]
      /\ References \in Nat
  BY HoldersAre DEF QueueScriptAction, AddRef, QueuedAlive, JobTypes, Jobs, InScript, ScriptTypeOK
<1>2. IsInjective(free[a]) /\ \A i \in Range(free[a]) : <<a, i>> \notin Out
  BY <1>1 DEF OnePlace
<1>3. Head(free[a]) \in 1 .. Blocks /\ Head(free[a]) \in Range(free[a])
  BY <1>1, <1>2, TakenOnce
<1>4. p \in Packages /\ p \notin queue /\ p \notin tasks
  BY <1>2, <1>3 DEF Packages, Out
<1> HIDE DEF p
<1>5. \/ queue' = queue /\ tasks' = tasks \cup {p}
      \/ queue' = queue \cup {p} /\ tasks' = tasks
  BY DEF QueueScriptAction, p
<1>6. JobsSay'
  <2>1. \A q \in Packages : pkg'[q] \in {d, pkg[q]}
    BY <1>1, <1>4 DEF ScriptTypeOK
  <2> QED
    BY <1>1, <2>1, JobFacts DEF JobsSay, ScriptTypeOK
<1>7. \/ Cardinality(queue') = Cardinality(queue) /\ Cardinality(tasks') = Cardinality(tasks) + 1
      \/ Cardinality(queue') = Cardinality(queue) + 1 /\ Cardinality(tasks') = Cardinality(tasks)
  BY <1>4, <1>5, AllFinite, FS_AddElement
<1>8. References' = References + 1
  BY <1>1, <1>7, AllFinite DEF References
<1>9. crefs[d] \in Nat /\ crefs[d] + 1 \in Nat /\ crefs' = [crefs EXCEPT ![d] = crefs[d] + 1]
  BY <1>1
<1>10. References' = (References + (crefs[d] + 1)) - crefs[d]
  BY <1>1, <1>8, <1>9
<1>11. Even'
  BY <1>1, <1>9, <1>10, EvenKept
<1> QED
  BY <1>6, <1>11

\* Packages move on, and nobody gains or loses one.
LEMMA MovedKeepsEven ==
  ASSUME BalanceInv, References' = References, UNCHANGED crefs, Sound' => Sound
  PROVE  Even'
<1>1. Total(crefs, Commands)' = Total(crefs, Commands)
  OBVIOUS
<1> QED
  BY <1>1 DEF BalanceInv, Even

\* The actors' thread hands over the packages that are due.
LEMMA HandOverKeepsEven ==
  ASSUME BalanceInv, NEW a \in Actors, NEW ready \in SUBSET queue, HandOver(a, ready)
  PROVE  JobsSay' /\ Even'
<1> USE DEF BalanceInv, ScriptInv
<1>1. /\ UNCHANGED <<crefs, kept, pkg, job, stray>> /\ Jobs' = Jobs
      /\ alive' \subseteq alive /\ tasks' = tasks \cup ready /\ queue' = queue \ ready
  BY DEF HandOver, Left, bvars, Jobs
<1>2. queue \cap tasks = {} /\ queue \cap ready = ready /\ tasks \cap ready = {}
  BY DEF OnePlace
<1>3. IsFiniteSet(ready) /\ Cardinality(ready) \in Nat
  BY AllFinite, FS_Subset, FS_CardinalityType
<1>4. Cardinality(queue') = Cardinality(queue) - Cardinality(ready)
  BY <1>1, <1>2, AllFinite, FS_Difference
<1>5. Cardinality(tasks') = Cardinality(tasks) + Cardinality(ready)
  <2>1. Cardinality(tasks') = Cardinality(tasks) + Cardinality(ready) - Cardinality(tasks \cap ready)
    BY <1>1, <1>3, AllFinite, FS_Union
  <2>2. Cardinality(tasks \cap ready) = 0
    BY <1>2, FS_EmptySet
  <2>3. Cardinality(tasks) \in Nat
    BY AllFinite
  <2> QED
    BY <1>3, <2>1, <2>2, <2>3
<1>6. References' = References
  BY <1>1, <1>3, <1>4, <1>5, AllFinite DEF References
<1>7. Even'
  <2>1. Sound
    BY DEF HandOver
  <2> QED
    BY <1>1, <1>6, <2>1, MovedKeepsEven
<1> QED
  BY <1>1, <1>7 DEF JobsSay

\* A worker takes a package.
LEMMA TakeKeepsEven ==
  ASSUME BalanceInv, NEW t \in Threads, Take(t)
  PROVE  JobsSay' /\ Even'
<1> USE DEF BalanceInv, ScriptInv
<1>1. PICK p \in tasks :
        /\ tasks' = tasks \ {p}
        /\ job' = [job EXCEPT ![t] = [pkg |-> p, cmd |-> pkg[p], freed |-> FALSE]]
  BY DEF Take
<1>2. UNCHANGED <<crefs, kept, alive, pkg, queue>> /\ job[t] = NoJob /\ (Sound' => Sound)
  BY DEF Take, avars, bvars
<1>3. p \in Packages /\ pkg[p] \in Commands
  BY DEF ScriptTypeOK, JobTypes
<1>4. /\ job'[t] = [pkg |-> p, cmd |-> pkg[p], freed |-> FALSE] /\ job'[t] # NoJob
      /\ \A u \in Threads \ {t} : job'[u] = job[u]
  <2>1. [pkg |-> p, cmd |-> pkg[p], freed |-> FALSE]
           \in [pkg : Packages, cmd : Commands, freed : BOOLEAN]
    BY <1>3
  <2>2. DOMAIN job = Threads
    BY DEF JobTypes
  <2>3. /\ job'[t] = [pkg |-> p, cmd |-> pkg[p], freed |-> FALSE]
        /\ \A u \in Threads \ {t} : job'[u] = job[u]
    BY <1>1, <2>2
  <2> QED
    BY <2>1, <2>3, NoJobIsNone
<1>5. Jobs' = Jobs \cup {t} /\ t \notin Jobs
  BY <1>2, <1>4 DEF Jobs
<1>6. JobsSay'
  BY <1>2, <1>3, <1>4, <1>5 DEF JobsSay, Jobs
<1>7. Cardinality(Jobs') = Cardinality(Jobs) + 1 /\ Cardinality(tasks') = Cardinality(tasks) - 1
  BY <1>1, <1>5, AllFinite, FS_AddElement, FS_RemoveElement
<1>8. References' = References
  BY <1>2, <1>7, AllFinite DEF References
<1> QED
  BY <1>2, <1>6, <1>8, MovedKeepsEven

\* A worker releases what the block of its package says.
LEMMA ReleaseKeepsEven ==
  ASSUME BalanceInv, ScriptTypeOK', NEW t \in Threads, ReleaseCommand(t)
  PROVE  JobsSay' /\ Even'
<1> USE DEF BalanceInv, ScriptInv
<1>1. /\ UNCHANGED <<kept, alive, pkg, queue, tasks>> /\ t \in Jobs /\ Sound
      /\ job' = [job EXCEPT ![t] = NoJob] /\ crefs \in [Commands -> Nat]
      /\ References \in Nat
  BY HoldersAre DEF ReleaseCommand, avars, bvars, ScriptTypeOK
<1>2. PICK d \in Says(job[t].pkg) :
        /\ crefs' = [crefs EXCEPT ![d] = IF @ = 0 THEN 0 ELSE @ - 1]
        /\ stray' = stray
              \cup (IF d # job[t].cmd THEN {"mixed"} ELSE {})
              \cup (IF crefs[d] = 0 THEN {"overreleased"} ELSE {})
              \cup (IF Owner(job[t].pkg) \notin alive THEN {"orphaned"} ELSE {})
  BY DEF ReleaseCommand
<1>3. job'[t] = NoJob /\ \A u \in Threads \ {t} : job'[u] = job[u]
  BY <1>1, JobFacts DEF JobTypes, Jobs
<1>4. Jobs' = Jobs \ {t} /\ \A u \in Jobs' : job'[u] = job[u]
  BY <1>3 DEF Jobs
<1>5. JobsSay'
  BY <1>1, <1>4 DEF JobsSay
<1>6. Cardinality(Jobs') = Cardinality(Jobs) - 1
  BY <1>1, <1>4, AllFinite, FS_RemoveElement
<1>7. References' = References - 1
  BY <1>1, <1>6, AllFinite DEF References
<1>8. CASE Sound'
  <2>1. Owner(job[t].pkg) \in alive /\ crefs[d] # 0
    BY <1>2, <1>8 DEF Sound
  <2>2. d \in Commands
    BY <1>1, <2>1 DEF Says, JobsSay
  <2>3. crefs[d] \in Nat /\ crefs[d] - 1 \in Nat
        /\ crefs' = [crefs EXCEPT ![d] = crefs[d] - 1]
    BY <1>1, <1>2, <2>1, <2>2
  <2>4. References' = (References + (crefs[d] - 1)) - crefs[d]
    BY <1>1, <1>7, <2>3
  <2>5. Even'
    BY <1>1, <2>2, <2>3, <2>4, EvenKept
  <2> QED
    BY <1>5, <2>5
<1>9. CASE ~Sound'
  BY <1>5, <1>9 DEF Even
<1> QED
  BY <1>8, <1>9

\* Everything else leaves the references and their holders alone.
LEMMA OtherwiseEven ==
  ASSUME BalanceInv, UNCHANGED <<crefs, kept, queue, tasks>>, Jobs' = Jobs, Sound' => Sound
  PROVE  Even'
<1>1. References' = References
  BY DEF References
<1> QED
  BY <1>1, MovedKeepsEven

\* An actor is made, or a script lets go of it.
LEMMA ActorKeepsEven ==
  ASSUME BalanceInv, NEW t \in Threads, NEW a \in Actors, Create(t, a) \/ LetGo(t, a)
  PROVE  JobsSay' /\ Even'
<1> USE DEF BalanceInv, ScriptInv
<1>1. UNCHANGED <<crefs, kept, queue, tasks, job, stray>> /\ Jobs' = Jobs
  BY DEF Create, LetGo, bvars, pvars, Jobs
<1>2. Even'
  <2>1. Sound
    BY DEF Create, LetGo, InScript
  <2> QED
    BY <1>1, <2>1, OtherwiseEven
<1>3. CASE Create(t, a)
  <2>1. \A u \in Jobs : Owner(job[u].pkg) # a /\ job[u].pkg \in Packages
    BY <1>3 DEF Create, ScriptTypeOK
  <2>2. alive' = alive \cup {a} /\ \A p \in Packages : Owner(p) # a => pkg'[p] = pkg[p]
    BY <1>3 DEF Create
  <2> QED
    BY <1>1, <1>2, <2>1, <2>2 DEF JobsSay
<1>4. CASE LetGo(t, a)
  <2>1. alive' \subseteq alive /\ pkg' = pkg
    BY <1>4 DEF LetGo, bvars
  <2> QED
    BY <1>1, <1>2, <2>1 DEF JobsSay
<1> QED
  BY <1>3, <1>4

\* A worker frees its package.
LEMMA FreeKeepsEven ==
  ASSUME BalanceInv, NEW t \in Threads, FreePackage(t)
  PROVE  JobsSay' /\ Even'
<1> USE DEF BalanceInv, ScriptInv
<1>1. /\ UNCHANGED <<crefs, kept, alive, pkg, queue, tasks>> /\ (Sound' => Sound)
      /\ t \in Jobs /\ job' = [job EXCEPT ![t].freed = TRUE]
  BY DEF FreePackage, avars
<1>2. /\ job[t] \in [pkg : Packages, cmd : Commands, freed : BOOLEAN] /\ t \in Threads
      /\ job'[t] = [job[t] EXCEPT !.freed = TRUE]
      /\ \A u \in Threads \ {t} : job'[u] = job[u]
  BY <1>1, JobFacts DEF JobTypes
<1>3. job'[t] # NoJob /\ job'[t].pkg = job[t].pkg
  BY <1>2, NoJobIsNone
<1>4. Jobs' = Jobs /\ \A u \in Jobs : job'[u].pkg = job[u].pkg
  BY <1>1, <1>2, <1>3 DEF Jobs
<1>5. Even'
  BY <1>1, <1>4, OtherwiseEven
<1> QED
  BY <1>1, <1>4, <1>5 DEF JobsSay

\* Every step keeps the balance.
LEMMA StepEven == BalanceInv /\ [ScriptNext]_svars => BalanceInv'
<1> SUFFICES ASSUME BalanceInv, [ScriptNext]_svars PROVE BalanceInv'
  OBVIOUS
<1>0. ScriptInv'
  BY ScriptKeeps DEF BalanceInv
<1>1. ScriptTypeOK'
  BY <1>0 DEF ScriptInv
<1>2. ASSUME NEW t \in Threads, Script(t) PROVE JobsSay' /\ Even'
  BY <1>1, <1>2, CommandKeepsEven, ActorKeepsEven, QueueKeepsEven DEF Script
<1>3. ASSUME NEW t \in Threads, Take(t) \/ FreePackage(t) \/ ReleaseCommand(t)
      PROVE JobsSay' /\ Even'
  BY <1>1, <1>3, TakeKeepsEven, FreeKeepsEven, ReleaseKeepsEven
<1>4. ASSUME NEW a \in Actors, NEW ready \in SUBSET queue, HandOver(a, ready)
      PROVE  JobsSay' /\ Even'
  BY <1>4, HandOverKeepsEven
<1>5. ASSUME UNCHANGED <<crefs, kept, avars, bvars, pvars, stray>>, Sound' => Sound
      PROVE  JobsSay' /\ Even'
  <2>1. UNCHANGED <<crefs, kept, queue, tasks, alive, pkg, job>> /\ Jobs' = Jobs
    BY <1>5 DEF avars, bvars, pvars, Jobs
  <2>2. JobsSay'
    BY <2>1 DEF BalanceInv, JobsSay
  <2> QED
    BY <1>5, <2>1, <2>2, OtherwiseEven
<1>6. CASE UNCHANGED svars
  <2>1. UNCHANGED <<crefs, kept, avars, bvars, pvars, stray>> /\ Sound' = Sound
    BY <1>6 DEF svars, cvars, Sound
  <2> QED
    BY <1>0, <1>5, <2>1 DEF BalanceInv
<1>7. ASSUME NEW t \in Threads, Context(t) \/ Callback(t) PROVE JobsSay' /\ Even'
  BY <1>5, <1>7 DEF Context, Callback
<1> QED
  BY <1>0, <1>2, <1>3, <1>4, <1>6, <1>7 DEF ScriptNext, BalanceInv

\* as_api.cpp:53: however releases are mixed up, until one has nothing to release or
\* an actor is gone, all objects together have as many references as there are
\* handles of scripts, packages on their way, and jobs.
THEOREM ReferencesBalance == ScriptSpec => []Balanced
<1>1. ScriptInit => JobsSay /\ Even
  <2> SUFFICES ASSUME ScriptInit PROVE JobsSay /\ Even
    OBVIOUS
  <2>1. Jobs = {} /\ queue = {} /\ tasks = {} /\ kept = {} /\ crefs \in [Commands -> {0}]
    BY DEF ScriptInit, Jobs
  <2>2. References = 0
    BY <2>1, FS_EmptySet DEF References
  <2>3. Total(crefs, Commands) = 0
    BY <2>1, ScriptAssumption, TotalOfNothing
  <2> QED
    BY <2>1, <2>2, <2>3 DEF JobsSay, Even
<1>2. ScriptSpec => [](JobsSay /\ Even)
  <2>1. ScriptInv /\ JobsSay /\ Even /\ [ScriptNext]_svars => (JobsSay /\ Even)'
    BY StepEven DEF BalanceInv
  <2> QED
    BY <1>1, <2>1, ScriptInvariant, PTL DEF ScriptSpec
<1>3. Even => Balanced
  BY DEF Even, Balanced, Total, References
<1> QED
  BY <1>2, <1>3, PTL

-----------------------------------------------------------------------------
(* The line editor.                                                        *)

Chars == Letters \cup {NL, NUL}
Plain == Seq(Letters \cup {NL})
Spans == [start : Nat, length : Nat]

\* The bytes of d are those of a text and a nul byte.
Holds(d, t) ==
    /\ \A p \in 0 .. Len(t) - 1 : Byte(d, p) = t[p + 1]
    /\ Byte(d, Len(t)) = NUL

\* m has the places of the newlines of d from one place on in front of another.
Rising(m) == m \in Seq(Nat) /\ \A j, k \in 1 .. Len(m) : j < k => m[j] < m[k]
Marks(m, d, from, to) ==
    /\ Rising(m)
    /\ \A k \in 1 .. Len(m) : from <= m[k] /\ m[k] < to /\ Byte(d, m[k]) = NL
    /\ \A p \in from .. to - 1 : Byte(d, p) = NL => \E k \in 1 .. Len(m) : m[k] = p

\* The first n of the lines l are those of d, of which len bytes are in the buffer.
EndOf(line) == line.start + line.length
Ends(l, n) == [k \in 1 .. n |-> EndOf(l[k])]
Chained(l, n) ==
    n <= Len(l) /\ \A k \in 1 .. n : l[k].start = IF k = 1 THEN 0 ELSE EndOf(l[k - 1]) + 1
Unbroken(l, n, d, len) ==
    /\ n = 1 /\ l[1].length = len /\ len > 0
    /\ \A p \in 0 .. len - 1 : Byte(d, p) # NL
Indexes(l, n, d, len) ==
    /\ Chained(l, n)
    /\ \/ Marks(Ends(l, n), d, 0, len) /\ (n > 0 \/ len = 0)
       \/ Unbroken(l, n, d, len)

\* What deleted lines have left ends with newlines.
Residue(d, t, len) ==
    \A p \in Len(t) .. len - 1 :
        Byte(d, p) # NUL => \E q \in p .. len - 1 : Byte(d, q) = NL

\* The entries of an index.
Entries(l, n) == l \in Seq(Spans) /\ n \in 0 .. Len(l) /\ (l # <<>> => l[1].start = 0)

BufferTypes == data \in Seq(Chars) /\ length \in Nat /\ Entries(lines, lines_count)
TextTypes ==
    /\ target \in Seq(Chars) /\ cached \in Seq(Chars) /\ stale \in BOOLEAN
    /\ limit \in [length : Nat, lines : Nat] /\ sessions \in 0 .. MaxSessions
    /\ added \in Plain /\ flaws \subseteq {"remnants", "spoilt"}
    /\ quirks \subseteq {"remnants", "past", "unended", "ghosts"}
    /\ mode \in {"closed", "open", "blank", "underflow"}

Limited(t) ==
    /\ limit.length > 0 => Len(t) <= limit.length
    /\ limit.lines > 0 => CountNewlines(t) <= limit.lines

Edited ==
    /\ ideal \in Plain /\ Holds(data, ideal)
    /\ Len(ideal) < length \/ (length = 0 /\ ideal = <<>>)
    /\ Indexes(lines, lines_count, data, length)
    /\ lines_count <= CountNewlines(ideal) + 1
    /\ Residue(data, ideal, length)
    /\ Limited(ideal)

\* An editor that is closed has let go of its buffer.
Shut == mode = "closed" => Empty /\ ideal = <<>> /\ quirks = {}
Working == mode # "underflow" /\ ~Odd => Edited
NulKept == ~Odd /\ length > 0 => Len(CString(data)) < length
\* What GetString returns is what was saved, or that and what was added since.
Copied ==
    "spoilt" \notin flaws => saved \in Plain /\ CString(GetString) \in {saved, saved \o added}
\* The nul bytes behind a text are no more than the sessions.
BufferNuls == Editing => sessions > 0 /\ (quirks = {} => length <= Len(ideal) + sessions)
TextNuls ==
    flaws = {} /\ added = <<>> => Len(GetString) <= Len(CString(GetString)) + sessions

EditInv ==
    /\ BufferTypes /\ TextTypes /\ Shut /\ Working /\ NulKept
    /\ UnderflowsUnended /\ Copied /\ BufferNuls /\ TextNuls

-----------------------------------------------------------------------------
(* Numbers.                                                                *)

\* The least and the greatest of some numbers.
LEMMA MinIs ==
  ASSUME NEW I \in SUBSET Nat, NEW m \in I, \A y \in I : m <= y
  PROVE  Min(I) = m
<1>1. \A x \in I : (\A y \in I : x <= y) => x = m
  OBVIOUS
<1>2. Min(I) \in I /\ \A y \in I : Min(I) <= y
  <2> DEFINE P(x) == x \in I /\ \A y \in I : x <= y
  <2>1. P(m)
    OBVIOUS
  <2>2. Min(I) = CHOOSE x : P(x)
    BY DEF Min
  <2> HIDE DEF P
  <2>3. P(Min(I))
    BY <2>1, <2>2
  <2> QED
    BY <2>3 DEF P
<1> QED
  BY <1>1, <1>2

\* The greatest of some numbers.
LEMMA MaxIs ==
  ASSUME NEW I \in SUBSET Nat, NEW m \in I, \A y \in I : m >= y
  PROVE  Max(I) = m
<1>1. \A x \in I : (\A y \in I : x >= y) => x = m
  OBVIOUS
<1>2. Max(I) \in I /\ \A y \in I : Max(I) >= y
  <2> DEFINE P(x) == x \in I /\ \A y \in I : x >= y
  <2>1. P(m)
    OBVIOUS
  <2>2. Max(I) = CHOOSE x : P(x)
    BY DEF Max
  <2> HIDE DEF P
  <2>3. P(Max(I))
    BY <2>1, <2>2
  <2> QED
    BY <2>3 DEF P
<1> QED
  BY <1>1, <1>2

\* The greater and the smaller of two numbers.
LEMMA OfTwo ==
  ASSUME NEW a \in Nat, NEW b \in Nat
  PROVE  /\ Max({a, b}) = IF a >= b THEN a ELSE b
         /\ Min({a, b}) = IF a <= b THEN a ELSE b
<1>1. CASE a >= b
  <2>1. \A y \in {a, b} : a >= y /\ b <= y
    BY <1>1
  <2>2. Max({a, b}) = a /\ Min({a, b}) = b
    BY <2>1, MaxIs, MinIs
  <2> QED
    BY <1>1, <2>2
<1>2. CASE ~(a >= b)
  <2>1. \A y \in {a, b} : b >= y /\ a <= y
    BY <1>2
  <2>2. Max({a, b}) = b /\ Min({a, b}) = a
    BY <2>1, MaxIs, MinIs
  <2> QED
    BY <1>2, <2>2
<1> QED
  BY <1>1, <1>2

-----------------------------------------------------------------------------
(* Bytes.                                                                  *)

\* What operations on bytes do to each of them.
LEMMA ByteType ==
  ASSUME NEW d \in Seq(Chars), NEW p \in Nat
  PROVE  Byte(d, p) \in Chars /\ (p >= Len(d) => Byte(d, p) = NUL)
BY DEF Byte, Chars

\* Some bytes are as many as asked for, each of them the byte at its place.
LEMMA BytesType ==
  ASSUME NEW d \in Seq(Chars), NEW i \in Nat, NEW n \in Nat
  PROVE  /\ Bytes(d, i, n) \in Seq(Chars) /\ Len(Bytes(d, i, n)) = n
         /\ \A p \in 0 .. n - 1 : Byte(Bytes(d, i, n), p) = Byte(d, i + p)
<1>1. \A j \in 1 .. n : Byte(d, i + j - 1) \in Chars
  BY ByteType
<1>2. Bytes(d, i, n) \in [1 .. n -> Chars]
  BY <1>1 DEF Bytes
<1>3. Bytes(d, i, n) \in Seq(Chars) /\ Len(Bytes(d, i, n)) = n
  BY <1>2
<1>4. ASSUME NEW p \in 0 .. n - 1
      PROVE  Byte(Bytes(d, i, n), p) = Byte(d, i + p)
  <2>1. p < n /\ p + 1 \in 1 .. n /\ i + (p + 1) - 1 = i + p
    OBVIOUS
  <2>2. Bytes(d, i, n)[p + 1] = Byte(d, i + p)
    BY <2>1 DEF Bytes
  <2>3. Byte(Bytes(d, i, n), p) = Bytes(d, i, n)[p + 1]
    BY <1>3, <2>1 DEF Byte
  <2> QED
    BY <2>2, <2>3
<1> QED
  BY <1>3, <1>4

\* The bytes of s are those of o from i on.
Puts(o, d, i, s) ==
    \A p \in Nat : Byte(o, p) = IF i <= p /\ p < i + Len(s) THEN s[p - i + 1] ELSE Byte(d, p)

\* Writing bytes over others changes these only, and may lengthen the rest.
LEMMA OverwriteType ==
  ASSUME NEW d \in Seq(Chars), NEW i \in Nat, NEW s \in Seq(Chars)
  PROVE  /\ Overwrite(d, i, s) \in Seq(Chars)
         /\ Len(Overwrite(d, i, s)) = IF Len(d) >= i + Len(s) THEN Len(d) ELSE i + Len(s)
         /\ Puts(Overwrite(d, i, s), d, i, s)
<1> DEFINE o == Overwrite(d, i, s)
           m == IF Len(d) >= i + Len(s) THEN Len(d) ELSE i + Len(s)
<1>1. m \in Nat /\ m >= Len(d) /\ m >= i + Len(s) /\ Len(d) \in Nat /\ Len(s) \in Nat
  OBVIOUS
<1>2. Max({Len(d), i + Len(s)}) = m
  BY OfTwo
<1>3. o = [j \in 1 .. m |-> IF j > i /\ j <= i + Len(s) THEN s[j - i] ELSE Byte(d, j - 1)]
  BY <1>2 DEF Overwrite
<1> HIDE DEF o, m
<1>4. \A j \in 1 .. m : (IF j > i /\ j <= i + Len(s) THEN s[j - i] ELSE Byte(d, j - 1)) \in Chars
  BY <1>1, ByteType
<1>5. o \in [1 .. m -> Chars]
  BY <1>3, <1>4
<1>6. o \in Seq(Chars) /\ Len(o) = m
  BY <1>1, <1>5
<1>7. ASSUME NEW p \in Nat
      PROVE  Byte(o, p) = IF i <= p /\ p < i + Len(s) THEN s[p - i + 1] ELSE Byte(d, p)
  <2>1. CASE p < m
    <3>1. p + 1 \in 1 .. m /\ (p + 1) - 1 = p /\ (p + 1) - i = p - i + 1
          /\ (p + 1 > i <=> i <= p) /\ (p + 1 <= i + Len(s) <=> p < i + Len(s))
      BY <1>1, <2>1
    <3>2. o[p + 1] = IF i <= p /\ p < i + Len(s) THEN s[p - i + 1] ELSE Byte(d, p)
      BY <1>3, <3>1
    <3> QED
      BY <1>6, <2>1, <3>2 DEF Byte
  <2>2. CASE ~(p < m)
    <3>1. ~(p < i + Len(s)) /\ p >= Len(d)
      BY <1>1, <2>2
    <3>2. Byte(d, p) = NUL /\ Byte(o, p) = NUL
      BY <1>6, <2>2, <3>1, ByteType DEF Byte
    <3> QED
      BY <3>1, <3>2
  <2> QED
    BY <2>1, <2>2
<1> QED
  BY <1>6, <1>7 DEF o, m, Puts

\* What is kept are the first bytes.
LEMMA KeptType ==
  ASSUME NEW d \in Seq(Chars), NEW n \in Nat
  PROVE  /\ Kept(d, n) \in Seq(Chars)
         /\ \A p \in Nat : Byte(Kept(d, n), p) = IF p < n THEN Byte(d, p) ELSE NUL
<1> DEFINE m == IF n <= Len(d) THEN n ELSE Len(d)
<1>0. Len(d) \in Nat
  OBVIOUS
<1>1. Kept(d, n) = SubSeq(d, 1, m) /\ m \in Nat /\ m <= Len(d)
  <2>1. Min({n, Len(d)}) = m
    BY <1>0, OfTwo
  <2>2. m \in Nat /\ m <= Len(d)
    BY <1>0
  <2> HIDE DEF m
  <2> QED
    BY <2>1, <2>2 DEF Kept
<1>2. Kept(d, n) \in Seq(Chars) /\ Len(Kept(d, n)) = m
      /\ \A j \in 1 .. m : Kept(d, n)[j] = d[j]
  BY <1>1
<1>3. ASSUME NEW p \in Nat
      PROVE  Byte(Kept(d, n), p) = IF p < n THEN Byte(d, p) ELSE NUL
  <2>1. CASE p < m
    BY <1>1, <1>2, <2>1 DEF Byte
  <2>2. CASE ~(p < m)
    BY <1>1, <1>2, <2>2 DEF Byte
  <2> QED
    BY <2>1, <2>2
<1> QED
  BY <1>2, <1>3

-----------------------------------------------------------------------------
(* C strings.                                                              *)

\* A text has no nul bytes.
LEMMA PlainIs ==
  ASSUME NEW t \in Plain
  PROVE  t \in Seq(Chars) /\ \A j \in 1 .. Len(t) : t[j] # NUL
BY EditorAssumption DEF Plain, Chars, NL, NUL

\* A C string is the text of the bytes, and the only one.
LEMMA CStringHolds ==
  ASSUME NEW d \in Seq(Chars)
  PROVE  CString(d) \in Plain /\ Len(CString(d)) <= Len(d) /\ Holds(d, CString(d))
<1> DEFINE I == {j \in 1 .. Len(d) : d[j] = NUL}
           k == SelectInSeq(d, LAMBDA c : c = NUL)
<1>1. k = IF I # {} THEN Min(I) ELSE 0
  BY DEF SelectInSeq
<1>2. CString(d) = IF k = 0 THEN d ELSE SubSeq(d, 1, k - 1)
  BY DEF CString
<1> HIDE DEF k
<1>3. CASE I = {}
  <2>1. CString(d) = d
    BY <1>1, <1>2, <1>3
  <2>2. \A j \in 1 .. Len(d) : d[j] \in Letters \cup {NL}
    BY <1>3 DEF Chars
  <2>3. d \in Plain
    BY <2>2 DEF Plain
  <2>4. Holds(d, d)
    BY DEF Holds, Byte
  <2> QED
    BY <2>1, <2>3, <2>4
<1>4. CASE I # {}
  <2>1. PICK m \in I : \A y \in I : ~(y < m)
    <3>1. I \in SUBSET Nat
      OBVIOUS
    <3> HIDE DEF I
    <3> QED
      BY <1>4, <3>1, LeastNumber
  <2>2. m \in 1 .. Len(d) /\ d[m] = NUL /\ I \in SUBSET Nat /\ \A y \in I : m <= y
    BY <2>1
  <2>3. Min(I) = m
    <3> HIDE DEF I
    <3> QED
      BY <2>1, <2>2, MinIs
  <2>4. CString(d) = SubSeq(d, 1, m - 1)
    <3>1. k = m /\ m # 0
      <4> HIDE DEF I
      <4> QED
        BY <1>1, <1>4, <2>2, <2>3
    <3> QED
      BY <1>2, <3>1
  <2>5. \A j \in 1 .. m - 1 : j \in 1 .. Len(d) /\ d[j] \in Letters \cup {NL}
    BY <2>2 DEF Chars
  <2>6. Len(CString(d)) = m - 1 /\ \A j \in 1 .. m - 1 : CString(d)[j] = d[j]
    BY <2>2, <2>4
  <2>7. CString(d) \in Plain
    <3>1. CString(d) \in Seq(Chars)
      BY <2>2, <2>4
    <3> QED
      BY <2>5, <2>6, <3>1 DEF Plain
  <2>8. Holds(d, CString(d))
    BY <2>2, <2>6 DEF Holds, Byte
  <2> QED
    BY <2>2, <2>6, <2>7, <2>8
<1> QED
  BY <1>3, <1>4

\* Bytes hold one text only.
LEMMA HoldsOne ==
  ASSUME NEW d, NEW s \in Plain, NEW t \in Plain, Holds(d, s), Holds(d, t)
  PROVE  s = t
<1>1. Len(s) \in Nat /\ Len(t) \in Nat /\ s \in Seq(Chars) /\ t \in Seq(Chars)
      /\ (\A j \in 1 .. Len(s) : s[j] # NUL) /\ (\A j \in 1 .. Len(t) : t[j] # NUL)
  BY PlainIs
<1>2. ~(Len(s) < Len(t))
  <2> SUFFICES ASSUME Len(s) < Len(t) PROVE FALSE
    OBVIOUS
  <2>1. Len(s) \in 0 .. Len(t) - 1 /\ Len(s) + 1 \in 1 .. Len(t)
    BY <1>1
  <2>2. Byte(d, Len(s)) = NUL /\ Byte(d, Len(s)) = t[Len(s) + 1]
    BY <2>1 DEF Holds
  <2> QED
    BY <1>1, <2>1, <2>2
<1>3. ~(Len(t) < Len(s))
  <2> SUFFICES ASSUME Len(t) < Len(s) PROVE FALSE
    OBVIOUS
  <2>1. Len(t) \in 0 .. Len(s) - 1 /\ Len(t) + 1 \in 1 .. Len(s)
    BY <1>1
  <2>2. Byte(d, Len(t)) = NUL /\ Byte(d, Len(t)) = s[Len(t) + 1]
    BY <2>1 DEF Holds
  <2> QED
    BY <1>1, <2>1, <2>2
<1>4. ASSUME NEW j \in 1 .. Len(s)
      PROVE  s[j] = t[j]
  <2>1. j - 1 \in 0 .. Len(s) - 1 /\ j - 1 \in 0 .. Len(t) - 1 /\ (j - 1) + 1 = j
    BY <1>1, <1>2, <1>3
  <2>2. Byte(d, j - 1) = s[(j - 1) + 1] /\ Byte(d, j - 1) = t[(j - 1) + 1]
    BY <2>1 DEF Holds
  <2> QED
    BY <2>1, <2>2
<1> QED
  BY <1>1, <1>2, <1>3, <1>4 DEF Plain

\* So a text that bytes hold is their C string.
LEMMA CStringIs ==
  ASSUME NEW d \in Seq(Chars), NEW t \in Plain, Holds(d, t)
  PROVE  CString(d) = t
BY CStringHolds, HoldsOne

\* A text is a C string.
LEMMA PlainString ==
  ASSUME NEW t \in Plain
  PROVE  CString(t) = t /\ Holds(t, t)
<1>1. t \in Seq(Chars)
  BY PlainIs
<1>2. Holds(t, t)
  BY <1>1 DEF Holds, Byte
<1> QED
  BY <1>1, <1>2, CStringIs

-----------------------------------------------------------------------------
(* Places of newlines.                                                     *)

\* The newlines among the first bytes, and one byte more.
LEMMA MarksNone ==
  ASSUME NEW d, NEW a \in Nat, NEW b \in Nat, b <= a
  PROVE  Marks(<<>>, d, a, b)
BY DEF Marks, Rising

\* The newlines in front of a place, and perhaps the byte at the place.
LEMMA MarksNext ==
  ASSUME NEW d, NEW a \in Nat, NEW p \in Nat, a < p, NEW m, Marks(m, d, a, p - 1)
  PROVE  Marks(IF Byte(d, p - 1) = NL THEN Append(m, p - 1) ELSE m, d, a, p)
<1>0. m \in Seq(Nat) /\ Len(m) \in Nat
  BY DEF Marks, Rising
<1>1. CASE Byte(d, p - 1) = NL
  <2> DEFINE o == Append(m, p - 1)
  <2>1. o \in Seq(Nat) /\ Len(o) = Len(m) + 1 /\ o[Len(m) + 1] = p - 1
        /\ \A k \in 1 .. Len(m) : o[k] = m[k]
    BY <1>0
  <2>2. \A k \in 1 .. Len(o) : k = Len(m) + 1 \/ k \in 1 .. Len(m)
    BY <1>0, <2>1
  <2>6. \A k \in 1 .. Len(m) : m[k] \in Nat /\ a <= m[k] /\ m[k] < p - 1 /\ Byte(d, m[k]) = NL
    BY <1>0 DEF Marks
  <2>7. \A j, k \in 1 .. Len(m) : j < k => m[j] < m[k]
    BY DEF Marks, Rising
  <2>8. \A q \in a .. (p - 1) - 1 : Byte(d, q) = NL => \E k \in 1 .. Len(m) : m[k] = q
    BY DEF Marks
  <2> HIDE DEF o
  <2>3. ASSUME NEW j \in 1 .. Len(o), NEW k \in 1 .. Len(o), j < k
        PROVE  o[j] < o[k]
    <3>1. j \in 1 .. Len(m)
      BY <1>0, <2>1, <2>3
    <3>2. CASE k \in 1 .. Len(m)
      BY <2>1, <2>3, <2>7, <3>1, <3>2
    <3>3. CASE k = Len(m) + 1
      BY <2>1, <2>6, <3>1, <3>3
    <3> QED
      BY <2>2, <3>2, <3>3
  <2>4. ASSUME NEW k \in 1 .. Len(o)
        PROVE  a <= o[k] /\ o[k] < p /\ Byte(d, o[k]) = NL
    <3>1. CASE k \in 1 .. Len(m)
      BY <2>1, <2>6, <3>1
    <3>2. CASE k = Len(m) + 1
      BY <1>1, <2>1, <3>2
    <3> QED
      BY <2>2, <3>1, <3>2
  <2>5. ASSUME NEW q \in a .. p - 1, Byte(d, q) = NL
        PROVE  \E k \in 1 .. Len(o) : o[k] = q
    <3>1. CASE q = p - 1
      BY <1>0, <2>1, <3>1
    <3>2. CASE q # p - 1
      <4>1. q \in a .. (p - 1) - 1
        BY <3>2
      <4>2. PICK k \in 1 .. Len(m) : m[k] = q
        BY <2>5, <2>8, <4>1
      <4> QED
        BY <1>0, <2>1, <4>2
    <3> QED
      BY <3>1, <3>2
  <2>9. Marks(o, d, a, p)
    BY <2>1, <2>3, <2>4, <2>5 DEF Marks, Rising
  <2> QED
    BY <1>1, <2>9 DEF o
<1>2. CASE Byte(d, p - 1) # NL
  <2>1. \A q \in a .. p - 1 : q = p - 1 \/ q \in a .. (p - 1) - 1
    OBVIOUS
  <2>2. \A k \in 1 .. Len(m) : m[k] \in Nat /\ a <= m[k] /\ m[k] < p /\ Byte(d, m[k]) = NL
    BY <1>0 DEF Marks
  <2>3. \A q \in a .. p - 1 : Byte(d, q) = NL => \E k \in 1 .. Len(m) : m[k] = q
    BY <1>2, <2>1 DEF Marks
  <2>4. Marks(m, d, a, p)
    BY <2>2, <2>3 DEF Marks
  <2> QED
    BY <1>2, <2>4
<1> QED
  BY <1>1, <1>2

\* g has those in front of each place up to n.
Gathers(g, d, a, n) ==
    g = [p \in 0 .. n |->
           IF p <= a THEN <<>>
           ELSE IF Byte(d, p - 1) = NL THEN Append(g[p - 1], p - 1) ELSE g[p - 1]]

\* There are such places.
LEMMA GatherExists ==
  ASSUME NEW d, NEW a \in Nat, NEW n \in Nat
  PROVE  \E g : Gathers(g, d, a, n)
<1> DEFINE T == {k \in Nat : ~\E g : Gathers(g, d, a, k)}
<1>1. ASSUME T # {} PROVE FALSE
  <2>1. PICK k \in T : \A y \in T : ~(y < k)
    <3>1. T \in SUBSET Nat
      OBVIOUS
    <3> HIDE DEF T
    <3> QED
      BY <1>1, <3>1, LeastNumber
  <2>2. CASE k = 0
    <3> DEFINE g == [p \in 0 .. 0 |-> <<>>]
    <3>1. g = [p \in 0 .. 0 |->
           IF p <= a THEN <<>>
           ELSE IF Byte(d, p - 1) = NL THEN Append(g[p - 1], p - 1) ELSE g[p - 1]]
      <4>1. \A p \in 0 .. 0 : p <= a
        OBVIOUS
      <4> QED
        BY <4>1
    <3>2. Gathers(g, d, a, 0)
      BY <3>1 DEF Gathers
    <3> QED
      BY <2>1, <2>2, <3>2
  <2>3. CASE k # 0
    <3>0. k \in Nat /\ k - 1 \in Nat /\ k - 1 < k
      BY <2>1, <2>3
    <3>1. k - 1 \notin T
      <4> HIDE DEF T
      <4> QED
        BY <2>1, <3>0
    <3>2. PICK g : Gathers(g, d, a, k - 1)
      BY <3>0, <3>1
    <3> DEFINE v(p) == IF p <= a THEN <<>>
                       ELSE IF Byte(d, p - 1) = NL THEN Append(g[p - 1], p - 1) ELSE g[p - 1]
               h == [p \in 0 .. k |-> v(p)]
    <3>3. ASSUME NEW p \in 0 .. k - 1
          PROVE  h[p] = g[p]
      <4>1. h[p] = v(p)
        BY <3>0
      <4>2. g[p] = v(p)
        BY <3>2 DEF Gathers
      <4> QED
        BY <4>1, <4>2
    <3>4. ASSUME NEW p \in 0 .. k
          PROVE  v(p) = IF p <= a THEN <<>>
                        ELSE IF Byte(d, p - 1) = NL THEN Append(h[p - 1], p - 1) ELSE h[p - 1]
      <4> HIDE DEF h
      <4>1. p <= a \/ p - 1 \in 0 .. k - 1
        BY <3>0
      <4> QED
        BY <3>3, <4>1
    <3>5. h = [p \in 0 .. k |->
                 IF p <= a THEN <<>>
                 ELSE IF Byte(d, p - 1) = NL THEN Append(h[p - 1], p - 1) ELSE h[p - 1]]
      <4>1. h = [p \in 0 .. k |-> v(p)]
        OBVIOUS
      <4> HIDE DEF h, v
      <4> QED
        BY <3>4, <4>1
    <3> HIDE DEF h
    <3> QED
      BY <2>1, <3>5 DEF Gathers
  <2> QED
    BY <2>2, <2>3
<1> QED
  BY <1>1

\* Newlines has them.
LEMMA NewlinesGather ==
  ASSUME NEW d, NEW a \in Nat, NEW n \in Nat
  PROVE  \E g : Gathers(g, d, a, n) /\ Newlines(d, a, n) = g[n]
<1> DEFINE Body(g) == [p \in 0 .. n |->
                         IF p <= a THEN <<>>
                         ELSE IF Byte(d, p - 1) = NL THEN Append(g[p - 1], p - 1) ELSE g[p - 1]]
           upto == CHOOSE g : g = Body(g)
<1>1. \E g : g = Body(g)
  <2>1. PICK g : Gathers(g, d, a, n)
    BY GatherExists
  <2> QED
    BY <2>1 DEF Gathers
<1>2. upto = Body(upto)
  <2> HIDE DEF Body
  <2> QED
    BY <1>1
<1>3. Newlines(d, a, n) = upto[n]
  BY DEF Newlines
<1>4. Gathers(upto, d, a, n)
  <2> HIDE DEF upto
  <2> QED
    BY <1>2 DEF Gathers
<1> HIDE DEF upto
<1> QED
  BY <1>3, <1>4

\* Newlines has all the places, in their order.
LEMMA NewlinesMark ==
  ASSUME NEW d, NEW a \in Nat, NEW n \in Nat
  PROVE  Marks(Newlines(d, a, n), d, a, n)
<1>1. PICK g : Gathers(g, d, a, n) /\ Newlines(d, a, n) = g[n]
  BY NewlinesGather
<1> DEFINE T == {p \in 0 .. n : ~Marks(g[p], d, a, p)}
<1>2. ASSUME T # {} PROVE FALSE
  <2>1. PICK k \in T : \A y \in T : ~(y < k)
    <3>1. T \in SUBSET Nat
      OBVIOUS
    <3> HIDE DEF T
    <3> QED
      BY <1>2, <3>1, LeastNumber
  <2>2. k \in 0 .. n /\ ~Marks(g[k], d, a, k)
    BY <2>1
  <2>3. CASE k <= a
    <3>1. g[k] = <<>>
      BY <1>1, <2>2, <2>3 DEF Gathers
    <3> QED
      BY <2>2, <2>3, <3>1, MarksNone
  <2>4. CASE ~(k <= a)
    <3>1. k - 1 \in 0 .. n /\ k - 1 < k /\ a < k /\ k \in Nat
      BY <2>2, <2>4
    <3>2. k - 1 \notin T
      <4> HIDE DEF T
      <4> QED
        BY <2>1, <3>1
    <3>3. Marks(g[k - 1], d, a, k - 1)
      BY <3>1, <3>2
    <3>4. g[k] = IF Byte(d, k - 1) = NL THEN Append(g[k - 1], k - 1) ELSE g[k - 1]
      BY <1>1, <2>2, <2>4 DEF Gathers
    <3>5. Marks(g[k], d, a, k)
      BY <3>1, <3>3, <3>4, MarksNext
    <3> QED
      BY <2>2, <3>5
  <2> QED
    BY <2>3, <2>4
<1> HIDE DEF T
<1>3. n \notin T
  BY <1>2
<1> QED
  BY <1>1, <1>3 DEF T

\* The first of rising numbers, those below a bound, are a sequence of just these.
LEMMA RisingPrefix ==
  ASSUME NEW m, Rising(m), NEW n, Rising(n), NEW t \in Nat,
         \A k \in 1 .. Len(n) : n[k] < t /\ \E j \in 1 .. Len(m) : m[j] = n[k],
         \A j \in 1 .. Len(m) : m[j] < t => \E k \in 1 .. Len(n) : n[k] = m[j]
  PROVE  /\ Len(n) <= Len(m)
         /\ \A k \in 1 .. Len(n) : m[k] = n[k]
         /\ \A k \in 1 .. Len(m) : k > Len(n) => m[k] >= t
<1>0. /\ Len(m) \in Nat /\ Len(n) \in Nat
      /\ \A k \in 1 .. Len(m) : m[k] \in Nat
      /\ \A k \in 1 .. Len(n) : n[k] \in Nat
      /\ \A j, k \in 1 .. Len(m) : j < k => m[j] < m[k]
      /\ \A j, k \in 1 .. Len(n) : j < k => n[j] < n[k]
  BY DEF Rising
<1> DEFINE T == {k \in 1 .. Len(n) : k > Len(m) \/ m[k] # n[k]}
<1>1. ASSUME T # {} PROVE FALSE
  <2>1. PICK k \in T : \A y \in T : ~(y < k)
    <3>1. T \in SUBSET Nat
      BY <1>0
    <3> HIDE DEF T
    <3> QED
      BY <1>1, <3>1, LeastNumber
  <2>2. k \in 1 .. Len(n) /\ (k > Len(m) \/ m[k] # n[k])
    BY <2>1
  <2>3. \A j \in 1 .. Len(n) : j < k => j <= Len(m) /\ m[j] = n[j]
    <3> SUFFICES ASSUME NEW j \in 1 .. Len(n), j < k
                 PROVE  j <= Len(m) /\ m[j] = n[j]
      OBVIOUS
    <3>1. j \notin T
      <4> HIDE DEF T
      <4> QED
        BY <2>1
    <3> QED
      BY <1>0, <3>1
  <2>4. PICK i \in 1 .. Len(m) : m[i] = n[k]
    BY <2>2
  <2>5. ~(i < k)
    <3> SUFFICES ASSUME i < k PROVE FALSE
      OBVIOUS
    <3>1. i \in 1 .. Len(n)
      BY <1>0, <2>2
    <3>2. m[i] = n[i] /\ n[i] < n[k]
      BY <1>0, <2>2, <2>3, <3>1
    <3> QED
      BY <1>0, <2>2, <2>4, <3>1, <3>2
  <2>6. k \in 1 .. Len(m) /\ k < i
    BY <1>0, <2>2, <2>4, <2>5
  <2>7. m[k] < n[k] /\ m[k] < t
    <3>1. m[k] < m[i] /\ n[k] < t
      BY <1>0, <2>2, <2>6
    <3> QED
      BY <1>0, <2>2, <2>4, <2>6, <3>1
  <2>8. PICK j \in 1 .. Len(n) : n[j] = m[k]
    BY <2>6, <2>7
  <2>9. j < k
    <3>1. k < j => n[k] < n[j]
      BY <1>0, <2>2
    <3> QED
      BY <1>0, <2>2, <2>6, <2>7, <2>8, <3>1
  <2>10. j \in 1 .. Len(m) /\ m[j] = n[j]
    BY <1>0, <2>2, <2>3, <2>9
  <2>11. m[j] < m[k]
    BY <1>0, <2>6, <2>9, <2>10
  <2> QED
    BY <1>0, <2>6, <2>8, <2>10, <2>11
<1> HIDE DEF T
<1>2. \A k \in 1 .. Len(n) : k <= Len(m) /\ m[k] = n[k]
  <2> SUFFICES ASSUME NEW k \in 1 .. Len(n) PROVE k <= Len(m) /\ m[k] = n[k]
    OBVIOUS
  <2>1. k \notin T
    BY <1>1
  <2> QED
    BY <1>0, <2>1 DEF T
<1>3. Len(n) <= Len(m)
  <2>1. Len(n) = 0 \/ Len(n) \in 1 .. Len(n)
    BY <1>0
  <2> QED
    BY <1>0, <1>2, <2>1
<1>4. ASSUME NEW k \in 1 .. Len(m), k > Len(n), ~(m[k] >= t)
      PROVE  FALSE
  <2>1. m[k] < t
    BY <1>0, <1>4
  <2>2. PICK j \in 1 .. Len(n) : n[j] = m[k]
    BY <2>1
  <2>3. m[j] = m[k] /\ j < k /\ j \in 1 .. Len(m)
    BY <1>0, <1>2, <1>4, <2>2
  <2>4. m[j] < m[k]
    BY <1>0, <2>3
  <2> QED
    BY <1>0, <2>3, <2>4
<1> QED
  BY <1>2, <1>3, <1>4

\* Bytes with the same newlines have the same places of newlines.
LEMMA MarksSame ==
  ASSUME NEW d, NEW e, NEW a \in Nat, NEW b \in Nat, NEW m, Marks(m, d, a, b),
         \A p \in a .. b - 1 : Byte(d, p) = NL <=> Byte(e, p) = NL
  PROVE  Marks(m, e, a, b)
<1>1. \A k \in 1 .. Len(m) : m[k] \in a .. b - 1
  BY DEF Marks, Rising
<1>2. /\ \A k \in 1 .. Len(m) : a <= m[k] /\ m[k] < b /\ Byte(e, m[k]) = NL
      /\ \A p \in a .. b - 1 : Byte(e, p) = NL => \E k \in 1 .. Len(m) : m[k] = p
  BY <1>1 DEF Marks
<1> QED
  BY <1>2 DEF Marks

\* The newlines in front of a place are the first of those in front of another.
LEMMA MarksPrefix ==
  ASSUME NEW d, NEW a \in Nat, NEW b \in Nat, NEW c \in Nat, c <= b,
         NEW m, Marks(m, d, a, b), NEW n, Marks(n, d, a, c)
  PROVE  /\ Len(n) <= Len(m)
         /\ \A k \in 1 .. Len(n) : m[k] = n[k]
         /\ \A k \in 1 .. Len(m) : k > Len(n) => m[k] >= c
<1>1. Rising(m) /\ Rising(n)
  BY DEF Marks
<1>2. ASSUME NEW k \in 1 .. Len(n)
      PROVE  n[k] < c /\ \E j \in 1 .. Len(m) : m[j] = n[k]
  <2>1. n[k] \in a .. b - 1 /\ Byte(d, n[k]) = NL /\ n[k] < c
    BY DEF Marks, Rising
  <2> QED
    BY <2>1 DEF Marks
<1>3. ASSUME NEW j \in 1 .. Len(m), m[j] < c
      PROVE  \E k \in 1 .. Len(n) : n[k] = m[j]
  <2>1. m[j] \in a .. c - 1 /\ Byte(d, m[j]) = NL
    BY <1>3 DEF Marks, Rising
  <2> QED
    BY <2>1 DEF Marks
<1> QED
  BY <1>1, <1>2, <1>3, RisingPrefix

\* Sequences of the same length and elements are equal.
LEMMA EqualSequences ==
  ASSUME NEW S, NEW a \in Seq(S), NEW b \in Seq(S), Len(a) = Len(b),
         \A j \in 1 .. Len(a) : a[j] = b[j]
  PROVE  a = b
OBVIOUS

\* There is one rising sequence of these places.
LEMMA MarksOne ==
  ASSUME NEW d, NEW a \in Nat, NEW b \in Nat, NEW m, Marks(m, d, a, b), NEW n, Marks(n, d, a, b)
  PROVE  m = n
<1>1. m \in Seq(Nat) /\ n \in Seq(Nat)
  BY DEF Marks, Rising
<1>2. Len(n) <= Len(m) /\ Len(m) <= Len(n) /\ \A k \in 1 .. Len(n) : m[k] = n[k]
  <2>1. b <= b
    OBVIOUS
  <2> QED
    <3>1. /\ Len(n) <= Len(m)
          /\ \A k \in 1 .. Len(n) : m[k] = n[k]
          /\ \A k \in 1 .. Len(m) : k > Len(n) => m[k] >= b
      BY <2>1, MarksPrefix
    <3>2. Len(m) <= Len(n)
      BY <2>1, MarksPrefix
    <3> QED
      BY <3>1, <3>2
<1>3. Len(m) = Len(n)
  BY <1>1, <1>2
<1>4. \A k \in 1 .. Len(m) : m[k] = n[k]
  BY <1>2, <1>3
<1> QED
  BY <1>1, <1>3, <1>4, EqualSequences

\* So Newlines is any sequence of these places.
LEMMA NewlinesAre ==
  ASSUME NEW d, NEW a \in Nat, NEW b \in Nat, NEW m, Marks(m, d, a, b)
  PROVE  Newlines(d, a, b) = m
BY NewlinesMark, MarksOne

\* The newlines of the text that bytes hold are the first of these.
LEMMA TextMarks ==
  ASSUME NEW d, NEW t \in Plain, Holds(d, t), NEW n \in Nat, Len(t) <= n,
         NEW m, Marks(m, d, 0, n)
  PROVE  /\ CountNewlines(t) \in Nat /\ CountNewlines(t) <= Len(m)
         /\ \A k \in 1 .. CountNewlines(t) : m[k] = Newlines(t, 0, Len(t))[k] /\ m[k] < Len(t)
         /\ \A k \in 1 .. Len(m) : k > CountNewlines(t) => m[k] >= Len(t)
<1> DEFINE o == Newlines(t, 0, Len(t))
<1>0. Len(t) \in Nat
  BY PlainIs
<1>1. Marks(o, t, 0, Len(t))
  BY <1>0, NewlinesMark
<1> HIDE DEF o
<1>2. \A p \in 0 .. Len(t) - 1 : Byte(t, p) = NL <=> Byte(d, p) = NL
  BY <1>0 DEF Holds, Byte
<1>3. Marks(o, d, 0, Len(t))
  BY <1>0, <1>1, <1>2, MarksSame
<1>4. /\ Len(o) <= Len(m)
      /\ \A k \in 1 .. Len(o) : m[k] = o[k]
      /\ \A k \in 1 .. Len(m) : k > Len(o) => m[k] >= Len(t)
  BY <1>0, <1>3, MarksPrefix
<1>5. Len(o) \in Nat /\ \A k \in 1 .. Len(o) : o[k] < Len(t)
  BY <1>3 DEF Marks, Rising
<1> QED
  BY <1>4, <1>5 DEF CountNewlines, o

-----------------------------------------------------------------------------
(* How many lines there are.                                               *)

\* How many lines there are is a number.
LEMMA CountType ==
  ASSUME NEW s \in Seq(Chars)
  PROVE  CountNewlines(s) \in Nat
<1>1. Marks(Newlines(s, 0, Len(s)), s, 0, Len(s))
  BY NewlinesMark
<1> QED
  BY <1>1 DEF Marks, Rising, CountNewlines

\* A text of nothing has no lines.
LEMMA CountNone == CountNewlines(<<>>) = 0
<1>1. Marks(<<>>, <<>>, 0, 0)
  BY MarksNone
<1> QED
  BY <1>1, NewlinesAre DEF CountNewlines

\* The C string of some bytes has no more lines than the bytes.
LEMMA CountCString ==
  ASSUME NEW s \in Seq(Chars)
  PROVE  CountNewlines(CString(s)) <= CountNewlines(s)
<1>1. CString(s) \in Plain /\ Len(CString(s)) <= Len(s) /\ Holds(s, CString(s))
  BY CStringHolds
<1>2. Marks(Newlines(s, 0, Len(s)), s, 0, Len(s)) /\ Len(s) \in Nat
  BY NewlinesMark
<1>3. CountNewlines(CString(s)) <= Len(Newlines(s, 0, Len(s)))
  BY <1>1, <1>2, TextMarks
<1> QED
  BY <1>3 DEF CountNewlines

\* A text and another after it.
LEMMA CountBoth ==
  ASSUME NEW t \in Plain, NEW s \in Plain
  PROVE  t \o s \in Plain /\ CountNewlines(t \o s) = CountNewlines(t) + CountNewlines(s)
<1> DEFINE a == Len(t)
           b == Len(s)
           m == Newlines(t, 0, a)
           n == Newlines(s, 0, b)
           c == Len(m)
           o == [k \in 1 .. c + Len(n) |-> IF k <= c THEN m[k] ELSE n[k - c] + a]
           u == t \o s
<1>0. a \in Nat /\ b \in Nat /\ u \in Plain /\ Len(u) = a + b
  BY DEF Plain
<1>1. ASSUME NEW p \in 0 .. a + b - 1
      PROVE  Byte(u, p) = IF p < a THEN Byte(t, p) ELSE Byte(s, p - a)
  BY <1>0 DEF Byte, Plain
<1>2. Marks(m, t, 0, a) /\ Marks(n, s, 0, b)
  BY <1>0, NewlinesMark
<1> HIDE DEF m, n, u, a, b
<1>3. /\ c \in Nat /\ Len(n) \in Nat
      /\ \A k \in 1 .. c : m[k] \in Nat /\ m[k] < a /\ Byte(t, m[k]) = NL
      /\ \A k \in 1 .. Len(n) : n[k] \in Nat /\ n[k] < b /\ Byte(s, n[k]) = NL
      /\ \A j, k \in 1 .. c : j < k => m[j] < m[k]
      /\ \A j, k \in 1 .. Len(n) : j < k => n[j] < n[k]
  BY <1>2 DEF Marks, Rising
<1> HIDE DEF c
<1>4. ASSUME NEW k \in 1 .. c + Len(n)
      PROVE  \/ k \in 1 .. c /\ o[k] = m[k]
             \/ k > c /\ k - c \in 1 .. Len(n) /\ o[k] = n[k - c] + a
  <2>1. c \in Nat /\ Len(n) \in Nat
    BY <1>3
  <2>2. CASE k <= c
    BY <2>1, <2>2
  <2>3. CASE ~(k <= c)
    BY <2>1, <2>3
  <2> QED
    BY <2>2, <2>3
<1>5. ASSUME NEW k \in 1 .. c + Len(n)
      PROVE  o[k] \in Nat
  <2> HIDE DEF o
  <2>1. CASE k \in 1 .. c /\ o[k] = m[k]
    BY <1>3, <2>1
  <2>2. CASE k - c \in 1 .. Len(n) /\ o[k] = n[k - c] + a
    BY <1>0, <1>3, <2>2
  <2> QED
    BY <1>4, <2>1, <2>2
<1>6. o \in Seq(Nat) /\ Len(o) = c + Len(n)
  <2>1. o \in [1 .. c + Len(n) -> Nat] /\ c + Len(n) \in Nat
    <3>1. o = [k \in 1 .. c + Len(n) |-> o[k]]
      OBVIOUS
    <3> HIDE DEF o
    <3> QED
      BY <1>3, <1>5, <3>1
  <2> HIDE DEF o
  <2> QED
    BY <2>1
<1> HIDE DEF o
<1>7. ASSUME NEW j \in 1 .. Len(o), NEW k \in 1 .. Len(o), j < k
      PROVE  o[j] < o[k]
  <2>1. CASE k \in 1 .. c
    <3>1. j \in 1 .. c /\ ~(j > c) /\ ~(k > c)
      BY <1>3, <1>6, <1>7, <2>1
    <3>2. o[j] = m[j] /\ o[k] = m[k]
      BY <1>4, <1>6, <3>1
    <3> QED
      BY <1>3, <1>7, <2>1, <3>1, <3>2
  <2>2. CASE k > c
    <3>1. k - c \in 1 .. Len(n) /\ o[k] = n[k - c] + a /\ n[k - c] \in Nat
      BY <1>3, <1>4, <1>6, <2>2
    <3>2. CASE j \in 1 .. c
      <4>1. o[j] < a /\ o[j] \in Nat
        BY <1>3, <1>4, <1>6, <3>2
      <4> QED
        BY <1>0, <3>1, <4>1
    <3>3. CASE j > c
      <4>1. j - c \in 1 .. Len(n) /\ o[j] = n[j - c] + a /\ n[j - c] \in Nat
        BY <1>3, <1>4, <1>6, <3>3
      <4>2. j - c < k - c
        BY <1>3, <1>7, <3>1, <4>1
      <4>3. n[j - c] < n[k - c]
        BY <1>3, <3>1, <4>1, <4>2
      <4> QED
        BY <1>0, <3>1, <4>1, <4>3
    <3> QED
      BY <1>3, <3>2, <3>3
  <2> QED
    BY <1>3, <2>1, <2>2
<1>8. ASSUME NEW k \in 1 .. Len(o)
      PROVE  0 <= o[k] /\ o[k] < a + b /\ Byte(u, o[k]) = NL
  <2>1. CASE k \in 1 .. c
    <3>1. o[k] \in Nat /\ o[k] < a /\ Byte(t, o[k]) = NL /\ o[k] \in 0 .. a + b - 1
      BY <1>0, <1>3, <1>4, <1>6, <2>1
    <3> QED
      BY <1>0, <1>1, <3>1
  <2>2. CASE k > c
    <3>1. k - c \in 1 .. Len(n) /\ o[k] = n[k - c] + a
      BY <1>4, <1>6, <2>2, <1>3
    <3>2. n[k - c] \in Nat /\ n[k - c] < b /\ Byte(s, n[k - c]) = NL
      BY <1>3, <3>1
    <3>3. o[k] \in 0 .. a + b - 1 /\ ~(o[k] < a) /\ o[k] - a = n[k - c]
      BY <1>0, <3>1, <3>2
    <3> QED
      BY <1>0, <1>1, <3>2, <3>3
  <2> QED
    BY <1>3, <2>1, <2>2
<1>9. ASSUME NEW p \in 0 .. (a + b) - 1, Byte(u, p) = NL
      PROVE  \E k \in 1 .. Len(o) : o[k] = p
  <2>1. CASE p < a
    <3>1. Byte(t, p) = NL /\ p \in 0 .. a - 1
      BY <1>0, <1>1, <1>9, <2>1
    <3>2. PICK k \in 1 .. c : m[k] = p
      BY <1>2, <3>1 DEF Marks, c
    <3>3. k \in 1 .. Len(o) /\ ~(k > c)
      BY <1>3, <1>6
    <3> QED
      BY <1>4, <1>6, <3>2, <3>3
  <2>2. CASE ~(p < a)
    <3>1. Byte(s, p - a) = NL /\ p - a \in 0 .. b - 1
      BY <1>0, <1>1, <1>9, <2>2
    <3>2. PICK k \in 1 .. Len(n) : n[k] = p - a
      BY <1>2, <3>1 DEF Marks
    <3>3. k + c \in 1 .. Len(o) /\ k + c > c /\ (k + c) - c = k
      BY <1>3, <1>6
    <3>4. o[k + c] = n[k] + a
      BY <1>3, <1>4, <1>6, <3>3
    <3> QED
      BY <1>0, <3>2, <3>3, <3>4
  <2> QED
    BY <2>1, <2>2
<1>10. Marks(o, u, 0, a + b)
  <2>1. Rising(o)
    BY <1>6, <1>7 DEF Rising
  <2> QED
    BY <1>8, <1>9, <2>1 DEF Marks
<1>11. Newlines(u, 0, a + b) = o
  BY <1>0, <1>10, NewlinesAre
<1> QED
  BY <1>0, <1>6, <1>11 DEF CountNewlines, u, m, n, c, a, b

-----------------------------------------------------------------------------
(* A text without one of its lines.                                        *)

\* A sequence after another.
Joins(u, a, b) ==
    /\ Len(u) = Len(a) + Len(b)
    /\ \A j \in 1 .. Len(a) : u[j] = a[j]
    /\ \A j \in 1 .. Len(b) : u[Len(a) + j] = b[j]

\* Two sequences, one after another.
LEMMA Joined ==
  ASSUME NEW S, NEW a \in Seq(S), NEW b \in Seq(S)
  PROVE  a \o b \in Seq(S) /\ Joins(a \o b, a, b)
BY DEF Joins

\* Without its bytes from one place on in front of another.
Cut(t, s, e) == SubSeq(t, 1, s) \o SubSeq(t, e + 1, Len(t))

\* A text without some of its bytes: its bytes, and how many lines it has at most.
LEMMA Shorter ==
  ASSUME NEW t \in Plain, NEW s \in Nat, NEW e \in Nat, s <= e, e <= Len(t)
  PROVE  /\ Cut(t, s, e) \in Plain /\ Len(Cut(t, s, e)) = s + Len(t) - e
         /\ \A p \in Nat : Byte(Cut(t, s, e), p)
                             = IF p < s THEN Byte(t, p) ELSE Byte(t, p + e - s)
         /\ CountNewlines(Cut(t, s, e)) <= CountNewlines(t)
<1> DEFINE u == Cut(t, s, e)
           a == SubSeq(t, 1, s)
           b == SubSeq(t, e + 1, Len(t))
           c == SubSeq(t, s + 1, e)
<1>1. Len(t) \in Nat /\ t \in Seq(Letters \cup {NL})
  BY DEF Plain
<1>2. a \in Plain /\ Len(a) = s /\ \A j \in 1 .. s : a[j] = t[j]
  BY <1>1 DEF Plain
<1>3. b \in Plain /\ Len(b) = Len(t) - e /\ \A j \in 1 .. Len(t) - e : b[j] = t[e + j]
  BY <1>1 DEF Plain
<1>4. c \in Plain /\ Len(c) = e - s /\ \A j \in 1 .. e - s : c[j] = t[s + j]
  BY <1>1 DEF Plain
<1>5. u = a \o b
  BY DEF Cut
<1> HIDE DEF a, b, c, u
<1>6. u \in Plain /\ Len(u) = s + (Len(t) - e)
      /\ (\A j \in 1 .. s : u[j] = t[j]) /\ \A j \in 1 .. Len(t) - e : u[s + j] = t[e + j]
  <2>1. a \in Seq(Letters \cup {NL}) /\ b \in Seq(Letters \cup {NL})
    BY <1>2, <1>3 DEF Plain
  <2>2. u \in Seq(Letters \cup {NL}) /\ Joins(u, a, b)
    BY <1>5, <2>1, Joined
  <2> QED
    BY <1>2, <1>3, <2>2 DEF Plain, Joins
<1>10. Len(u) \in Nat /\ Len(u) = s + Len(t) - e
  BY <1>1, <1>6
<1>7. ASSUME NEW p \in Nat
      PROVE  Byte(u, p) = IF p < s THEN Byte(t, p) ELSE Byte(t, p + e - s)
  <2>1. CASE p < s
    <3>1. p < Len(u) /\ p < Len(t) /\ p + 1 \in 1 .. Len(u) /\ p + 1 \in 1 .. s /\ p + 1 <= s
      BY <1>1, <1>10, <2>1
    <3>2. u[p + 1] = t[p + 1]
      BY <1>6, <3>1
    <3> QED
      BY <2>1, <3>1, <3>2 DEF Byte
  <2>2. CASE ~(p < s) /\ p < Len(u)
    <3>1. p + e - s < Len(t) /\ p + e - s \in Nat
          /\ (p + 1) - s \in 1 .. Len(t) - e /\ e + ((p + 1) - s) = (p + e - s) + 1
          /\ s + ((p + 1) - s) = p + 1
      BY <1>1, <1>10, <2>2
    <3>2. u[s + ((p + 1) - s)] = t[e + ((p + 1) - s)]
      BY <1>6, <3>1
    <3>3. u[p + 1] = t[(p + e - s) + 1]
      BY <3>1, <3>2
    <3> QED
      BY <2>2, <3>1, <3>3 DEF Byte
  <2>3. CASE ~(p < s) /\ ~(p < Len(u))
    <3>1. ~(p + e - s < Len(t))
      BY <1>1, <1>10, <2>3
    <3> QED
      BY <2>3, <3>1 DEF Byte
  <2> QED
    BY <2>1, <2>2, <2>3
<1>8. t = (a \o c) \o b
  <2> DEFINE f == a \o c
  <2>0. a \in Seq(Letters \cup {NL}) /\ b \in Seq(Letters \cup {NL}) /\ c \in Seq(Letters \cup {NL})
    BY <1>2, <1>3, <1>4 DEF Plain
  <2>1. f \in Seq(Letters \cup {NL}) /\ Joins(f, a, c)
    BY <2>0, Joined
  <2> HIDE DEF f
  <2>2. Len(f) = e /\ \A j \in 1 .. e : f[j] = t[j]
    <3>1. Len(f) = e
      BY <1>2, <1>4, <2>1 DEF Joins
    <3> SUFFICES ASSUME NEW j \in 1 .. e PROVE f[j] = t[j]
      BY <3>1
    <3>2. CASE j <= s
      BY <1>2, <2>1, <3>2 DEF Joins
    <3>3. CASE ~(j <= s)
      <4>1. j - s \in 1 .. e - s /\ s + (j - s) = j
        BY <3>3
      <4>2. f[s + (j - s)] = c[j - s] /\ c[j - s] = t[s + (j - s)]
        BY <1>2, <1>4, <2>1, <4>1 DEF Joins
      <4> QED
        BY <4>1, <4>2
    <3> QED
      BY <3>2, <3>3
  <2> DEFINE g == f \o b
  <2>3. g \in Seq(Letters \cup {NL}) /\ Joins(g, f, b)
    BY <2>0, <2>1, Joined
  <2> HIDE DEF g
  <2>4. Len(t) = Len(g)
    BY <1>1, <1>3, <2>2, <2>3 DEF Joins
  <2>5. \A j \in 1 .. Len(t) : t[j] = g[j]
    <3> SUFFICES ASSUME NEW j \in 1 .. Len(t) PROVE t[j] = g[j]
      OBVIOUS
    <3>1. CASE j <= e
      BY <2>2, <2>3, <3>1 DEF Joins
    <3>2. CASE ~(j <= e)
      <4>1. j - e \in 1 .. Len(t) - e /\ e + (j - e) = j
        BY <1>1, <3>2
      <4>2. g[e + (j - e)] = b[j - e] /\ b[j - e] = t[e + (j - e)]
        BY <1>3, <2>2, <2>3, <4>1 DEF Joins
      <4> QED
        BY <4>1, <4>2
    <3> QED
      BY <3>1, <3>2
  <2> QED
    BY <1>1, <2>3, <2>4, <2>5, EqualSequences DEF f, g
<1>9. CountNewlines(u) <= CountNewlines(t)
  <2>1. CountNewlines(u) = CountNewlines(a) + CountNewlines(b)
    BY <1>2, <1>3, <1>5, CountBoth
  <2>2. a \o c \in Plain /\ CountNewlines(a \o c) = CountNewlines(a) + CountNewlines(c)
    BY <1>2, <1>4, CountBoth
  <2>3. CountNewlines((a \o c) \o b) = CountNewlines(a \o c) + CountNewlines(b)
    BY <1>3, <2>2, CountBoth
  <2>4. CountNewlines(a) \in Nat /\ CountNewlines(b) \in Nat /\ CountNewlines(c) \in Nat
    BY <1>2, <1>3, <1>4, PlainIs, CountType
  <2>5. CountNewlines(t) = CountNewlines(a) + CountNewlines(c) + CountNewlines(b)
    BY <1>8, <2>2, <2>3
  <2> QED
    BY <2>1, <2>4, <2>5
<1> QED
  BY <1>6, <1>7, <1>9, <1>10 DEF u

\* Where a line starts, from the places of newlines.
StartOf(n, i) == IF i = 0 THEN 0 ELSE n[i] + 1

\* Taking a line out takes its bytes out, the newline at its end included.
LEMMA WithoutLine ==
  ASSUME NEW t \in Plain, NEW i \in Nat, i < CountNewlines(t),
         NEW n, n = Newlines(t, 0, Len(t)), NEW s, s = StartOf(n, i), NEW e, e = n[i + 1] + 1
  PROVE  /\ s \in Nat /\ e \in Nat /\ s < e /\ e <= Len(t)
         /\ Without(t, i) = Cut(t, s, e)
<1>0. Len(t) \in Nat /\ CountNewlines(t) = Len(n)
  BY PlainIs DEF CountNewlines
<1>1. Marks(n, t, 0, Len(t))
  BY <1>0, NewlinesMark
<1>2. /\ Len(n) \in Nat
      /\ \A k \in 1 .. Len(n) : n[k] \in Nat /\ n[k] < Len(t)
      /\ \A j, k \in 1 .. Len(n) : j < k => n[j] < n[k]
  BY <1>1 DEF Marks, Rising
<1> DEFINE c == Len(n)
           ends == <<0>> \o [k \in 1 .. c |-> n[k] + 1]
<1>3. i + 1 \in 1 .. c /\ (i = 0 \/ i \in 1 .. c)
  BY <1>0, <1>2
<1>4. s \in Nat /\ e \in Nat /\ s < e /\ e <= Len(t)
  <2>1. CASE i = 0
    BY <1>0, <1>2, <1>3, <2>1 DEF StartOf
  <2>2. CASE i # 0
    <3>1. n[i] < n[i + 1] /\ n[i] \in Nat /\ n[i + 1] \in Nat /\ n[i + 1] < Len(t)
      BY <1>2, <1>3, <2>2
    <3> QED
      BY <1>0, <2>2, <3>1 DEF StartOf
  <2> QED
    BY <2>1, <2>2
<1>5. /\ Len(ends) = c + 1 /\ ends[1] = 0
      /\ \A k \in 1 .. c : ends[k + 1] = n[k] + 1
  <2> DEFINE f == [k \in 1 .. c |-> n[k] + 1]
  <2>1. f \in Seq(Nat) /\ Len(f) = c /\ \A k \in 1 .. c : f[k] = n[k] + 1
    <3>1. \A k \in 1 .. c : f[k] = n[k] + 1 /\ f[k] \in Nat
      BY <1>2
    <3>2. f = [k \in 1 .. c |-> f[k]]
      OBVIOUS
    <3> HIDE DEF f
    <3>3. f \in [1 .. c -> Nat]
      BY <3>1, <3>2
    <3> QED
      BY <1>2, <3>1, <3>3
  <2>2. ends = <<0>> \o f /\ <<0>> \in Seq(Nat) /\ Len(<<0>>) = 1 /\ c \in Nat
    BY <1>2
  <2> HIDE DEF ends, f
  <2>3. Len(ends) = c + 1 /\ ends[1] = 0 /\ \A k \in 1 .. c : ends[k + 1] = f[k]
    BY <2>1, <2>2
  <2> QED
    BY <2>1, <2>3
<1>6. Without(t, i) = IF i + 1 >= Len(ends) THEN t
                      ELSE SubSeq(t, 1, ends[i + 1]) \o SubSeq(t, ends[i + 2] + 1, Len(t))
  BY <1>0 DEF Without
<1> HIDE DEF ends
<1>7. ~(i + 1 >= Len(ends)) /\ i + 2 = (i + 1) + 1
  BY <1>2, <1>3, <1>5
<1>8. ends[i + 2] = e
  BY <1>3, <1>5, <1>7
<1>9. ends[i + 1] = s
  BY <1>3, <1>5 DEF StartOf
<1> QED
  BY <1>4, <1>6, <1>7, <1>8, <1>9 DEF Cut

\* A line that is not there is not taken out.
LEMMA WithoutNone ==
  ASSUME NEW t \in Plain, NEW i \in Nat, CountNewlines(t) <= i
  PROVE  Without(t, i) = t
<1> DEFINE f == [k \in 1 .. CountNewlines(t) |-> Newlines(t, 0, Len(t))[k] + 1]
<1>1. CountNewlines(t) \in Nat
  BY PlainIs, CountType
<1>2. Len(<<0>> \o f) = CountNewlines(t) + 1
  <2>1. f = [k \in 1 .. CountNewlines(t) |-> f[k]]
    OBVIOUS
  <2> HIDE DEF f
  <2>2. f \in Seq({f[k] : k \in 1 .. CountNewlines(t)}) /\ Len(f) = CountNewlines(t)
    BY <1>1, <2>1
  <2>3. <<0>> \in Seq({0}) /\ Len(<<0>>) = 1
    OBVIOUS
  <2> QED
    BY <1>1, <2>2, <2>3
<1>3. i + 1 >= Len(<<0>> \o f)
  BY <1>1, <1>2
<1> QED
  BY <1>3 DEF Without

-----------------------------------------------------------------------------
(* The index of lines.                                                     *)

\* The lines of the index have places and lengths.
LEMMA LineType ==
  ASSUME NEW i \in Nat, lines \in Seq(Spans)
  PROVE  /\ Line(i) \in Spans /\ Line(i).start \in Nat /\ Line(i).length \in Nat
         /\ After(Line(i)) \in Nat /\ FirstStart(i) \in Nat
<1>1. \A j \in Nat : Line(j) \in Spans
  <2> SUFFICES ASSUME NEW j \in Nat PROVE Line(j) \in Spans
    OBVIOUS
  <2>1. [start |-> 0, length |-> 0] \in Spans
    BY DEF Spans
  <2>2. j < Len(lines) => lines[j + 1] \in Spans
    OBVIOUS
  <2> QED
    BY <2>1, <2>2 DEF Line
<1>2. \A j \in Nat : Line(j).start \in Nat /\ Line(j).length \in Nat
  BY <1>1 DEF Spans
<1>3. \A j \in Nat : After(Line(j)) \in Nat
  BY <1>2 DEF After
<1>4. FirstStart(i) \in Nat
  BY <1>3 DEF FirstStart
<1> QED
  BY <1>1, <1>2, <1>3, <1>4

\* Some entries of a sequence in place of those from one on.
Replace(l, from, new) ==
    SubSeq(l, 1, from) \o new \o SubSeq(l, from + Len(new) + 1, Len(l))

\* The entries in front stay, and the new ones follow.
LEMMA Replaced ==
  ASSUME NEW S, NEW l \in Seq(S), NEW from \in 0 .. Len(l), NEW new \in Seq(S)
  PROVE  /\ Replace(l, from, new) \in Seq(S) /\ from + Len(new) <= Len(Replace(l, from, new))
         /\ \A k \in 1 .. from : Replace(l, from, new)[k] = l[k]
         /\ \A k \in 1 .. Len(new) : Replace(l, from, new)[from + k] = new[k]
         /\ from = 0 /\ new = <<>> => Replace(l, from, new) = l
<1> DEFINE a == SubSeq(l, 1, from)
           b == SubSeq(l, from + Len(new) + 1, Len(l))
           f == a \o new
           g == f \o b
<1>1. a \in Seq(S) /\ Len(a) = from /\ \A k \in 1 .. from : a[k] = l[k]
  OBVIOUS
<1>2. b \in Seq(S) /\ Len(b) \in Nat
  OBVIOUS
<1>3. Replace(l, from, new) = g
  BY DEF Replace
<1>4. from = 0 /\ new = <<>> => b = l /\ a = <<>>
  OBVIOUS
<1> HIDE DEF a, b
<1>5. f \in Seq(S) /\ Joins(f, a, new)
  BY <1>1, Joined
<1> HIDE DEF f
<1>6. g \in Seq(S) /\ Joins(g, f, b)
  BY <1>2, <1>5, Joined
<1>7. from = 0 /\ new = <<>> => g = l
  <2> SUFFICES ASSUME from = 0, new = <<>> PROVE g = l
    OBVIOUS
  <2>1. f = <<>>
    BY <1>4 DEF f
  <2> QED
    BY <1>4, <2>1
<1> HIDE DEF g
<1>8. Len(f) = from + Len(new) /\ Len(g) >= Len(f)
  BY <1>1, <1>2, <1>5, <1>6 DEF Joins
<1>9. \A k \in 1 .. Len(f) : g[k] = f[k]
  BY <1>6 DEF Joins
<1>10. \A k \in 1 .. from : g[k] = l[k]
  <2> SUFFICES ASSUME NEW k \in 1 .. from PROVE g[k] = l[k]
    OBVIOUS
  <2>1. k \in 1 .. Len(a) /\ k \in 1 .. Len(f)
    BY <1>1, <1>8
  <2> QED
    BY <1>1, <1>5, <1>9, <2>1 DEF Joins
<1>11. \A k \in 1 .. Len(new) : g[from + k] = new[k]
  <2> SUFFICES ASSUME NEW k \in 1 .. Len(new) PROVE g[from + k] = new[k]
    OBVIOUS
  <2>1. from + k \in 1 .. Len(f)
    BY <1>1, <1>8
  <2> QED
    BY <1>1, <1>5, <1>9, <2>1 DEF Joins
<1> QED
  BY <1>3, <1>6, <1>7, <1>8, <1>10, <1>11

\* What is found from a line on.
Begin(o, m, k) == IF k = 1 THEN o ELSE m[k - 1] + 1
Found(o, m, first) ==
    [k \in 1 .. Len(m) |-> [start |-> first + Begin(o, m, k) - o,
                            length |-> m[k] - Begin(o, m, k)]]
New(d, n, from) ==
    LET o == Line(from).start
        m == Newlines(d, o, n)
    IN  IF m = <<>> /\ from = 0 /\ o < n THEN <<[start |-> 0, length |-> n]>>
        ELSE Found(o, m, FirstStart(from))

\* Rebuilding replaces the entries from a line on by what is found there.
LEMMA RebuildIs ==
  ASSUME NEW d, NEW n, NEW from, Rebuild(d, n, from)
  PROVE  lines' = Replace(lines, from, New(d, n, from))
         /\ lines_count' = from + Len(New(d, n, from))
BY DEF Rebuild, Replace, New, Found, Begin

\* Where a line starts that is found is in front of its newline.
LEMMA BeginType ==
  ASSUME NEW d, NEW o \in Nat, NEW n \in Nat, NEW m, Marks(m, d, o, n), NEW k \in 1 .. Len(m)
  PROVE  /\ Begin(o, m, k) \in Nat /\ o <= Begin(o, m, k) /\ m[k] \in Nat
         /\ Begin(o, m, k) <= m[k] /\ m[k] < n
<1>1. /\ \A j \in 1 .. Len(m) : m[j] \in Nat /\ o <= m[j] /\ m[j] < n
      /\ \A i, j \in 1 .. Len(m) : i < j => m[i] < m[j]
      /\ Len(m) \in Nat
  BY DEF Marks, Rising
<1>2. CASE k = 1
  BY <1>1, <1>2 DEF Begin
<1>3. CASE k # 1
  <2>1. k - 1 \in 1 .. Len(m) /\ k - 1 < k
    BY <1>1, <1>3
  <2>2. m[k - 1] < m[k] /\ m[k - 1] \in Nat /\ o <= m[k - 1] /\ m[k] \in Nat /\ m[k] < n
    BY <1>1, <2>1
  <2> QED
    BY <1>3, <2>2 DEF Begin
<1> QED
  BY <1>2, <1>3

Finds(f, o, m, first) ==
    /\ f \in Seq(Spans) /\ Len(f) = Len(m)
    /\ \A k \in 1 .. Len(m) : /\ f[k].start = first + Begin(o, m, k) - o
                              /\ f[k].length = m[k] - Begin(o, m, k)

\* The lines found are those that the newlines say.
LEMMA FoundType ==
  ASSUME NEW d, NEW o \in Nat, NEW n \in Nat, NEW m, Marks(m, d, o, n), NEW first \in Nat
  PROVE  Finds(Found(o, m, first), o, m, first)
<1> DEFINE f == Found(o, m, first)
<1>0. Len(m) \in Nat
  BY DEF Marks, Rising
<1>1. f = [k \in 1 .. Len(m) |-> f[k]]
  BY DEF Found
<1>2. ASSUME NEW k \in 1 .. Len(m)
      PROVE  /\ f[k] = [start |-> first + Begin(o, m, k) - o, length |-> m[k] - Begin(o, m, k)]
             /\ f[k] \in Spans
  <2>1. f[k] = [start |-> first + Begin(o, m, k) - o, length |-> m[k] - Begin(o, m, k)]
    BY DEF Found
  <2>2. first + Begin(o, m, k) - o \in Nat /\ m[k] - Begin(o, m, k) \in Nat
    BY BeginType
  <2> QED
    BY <2>1, <2>2 DEF Spans
<1> HIDE DEF f
<1>3. f \in [1 .. Len(m) -> Spans]
  BY <1>1, <1>2
<1>4. f \in Seq(Spans) /\ Len(f) = Len(m)
  BY <1>0, <1>3
<1> QED
  <2>1. \A k \in 1 .. Len(m) : /\ f[k].start = first + Begin(o, m, k) - o
                               /\ f[k].length = m[k] - Begin(o, m, k)
    <3> SUFFICES ASSUME NEW k \in 1 .. Len(m)
                 PROVE  /\ f[k].start = first + Begin(o, m, k) - o
                        /\ f[k].length = m[k] - Begin(o, m, k)
      OBVIOUS
    <3>1. f[k] = [start |-> first + Begin(o, m, k) - o, length |-> m[k] - Begin(o, m, k)]
      BY <1>2
    <3> QED
      BY <3>1
  <2> QED
    BY <1>4, <2>1 DEF f, Finds

\* New entries are entries.
LEMMA NewType ==
  ASSUME NEW d, NEW n \in Nat, NEW from \in Nat, lines \in Seq(Spans)
  PROVE  New(d, n, from) \in Seq(Spans)
         /\ (from = 0 /\ New(d, n, from) # <<>> => New(d, n, from)[1].start = 0)
<1> DEFINE o == Line(from).start
           m == Newlines(d, o, n)
           f == Found(o, m, FirstStart(from))
<1>1. o \in Nat /\ FirstStart(from) \in Nat
  BY LineType
<1>2. Marks(m, d, o, n)
  BY <1>1, NewlinesMark
<1>3. New(d, n, from) = IF m = <<>> /\ from = 0 /\ o < n THEN <<[start |-> 0, length |-> n]>> ELSE f
  BY DEF New
<1> HIDE DEF o, m
<1>7. Finds(f, o, m, FirstStart(from))
  BY <1>1, <1>2, FoundType
<1> HIDE DEF f
<1>4. f \in Seq(Spans) /\ Len(f) = Len(m)
      /\ \A k \in 1 .. Len(m) : f[k].start = FirstStart(from) + Begin(o, m, k) - o
  BY <1>7 DEF Finds
<1>5. CASE m = <<>> /\ from = 0 /\ o < n
  <2>1. [start |-> 0, length |-> n] \in Spans
    BY DEF Spans
  <2> QED
    BY <1>3, <1>5, <2>1
<1>6. CASE ~(m = <<>> /\ from = 0 /\ o < n)
  <2>1. ASSUME from = 0, f # <<>>
        PROVE  f[1].start = 0
    <3>1. 1 \in 1 .. Len(m)
      BY <1>4, <2>1
    <3>2. Begin(o, m, 1) = o /\ FirstStart(from) = 0
      BY <2>1 DEF Begin, FirstStart
    <3> QED
      BY <1>1, <1>4, <3>1, <3>2
  <2> QED
    BY <1>3, <1>4, <1>6, <2>1
<1> QED
  BY <1>5, <1>6

\* Rebuilding keeps what entries are.
LEMMA RebuildTypes ==
  ASSUME NEW d, NEW n \in Nat, NEW from \in 0 .. Len(lines), Rebuild(d, n, from),
         lines \in Seq(Spans), lines # <<>> => lines[1].start = 0
  PROVE  Entries(lines', lines_count')
<1> DEFINE new == New(d, n, from)
           l == Replace(lines, from, new)
<1>1. lines' = l /\ lines_count' = from + Len(new)
  BY RebuildIs
<1>2. from \in Nat /\ Len(lines) \in Nat
  OBVIOUS
<1>3. new \in Seq(Spans) /\ (from = 0 /\ new # <<>> => new[1].start = 0)
  BY <1>2, NewType
<1> HIDE DEF new
<1>4. /\ l \in Seq(Spans) /\ from + Len(new) <= Len(l)
      /\ \A k \in 1 .. from : l[k] = lines[k]
      /\ \A k \in 1 .. Len(new) : l[from + k] = new[k]
      /\ from = 0 /\ new = <<>> => l = lines
  BY <1>3, Replaced
<1> HIDE DEF l
<1>5. from + Len(new) \in 0 .. Len(l)
  BY <1>2, <1>3, <1>4
<1>6. ASSUME l # <<>> PROVE l[1].start = 0
  <2>1. CASE from > 0
    BY <1>2, <1>4, <2>1
  <2>2. CASE from = 0 /\ new # <<>>
    <3>1. 1 \in 1 .. Len(new) /\ from + 1 = 1
      BY <1>3, <2>2
    <3> QED
      BY <1>3, <1>4, <2>2, <3>1
  <2>3. CASE from = 0 /\ new = <<>>
    BY <1>4, <1>6, <2>3
  <2> QED
    BY <1>2, <2>1, <2>2, <2>3
<1> QED
  BY <1>1, <1>4, <1>5, <1>6 DEF Entries

\* The newlines up to a place and those from there on.
LEMMA MarksJoin ==
  ASSUME NEW d, NEW x \in Nat, NEW y \in Nat, NEW z \in Nat, x <= y, y <= z,
         NEW a, Marks(a, d, x, y), NEW b, Marks(b, d, y, z), NEW e \in Seq(Nat), Joins(e, a, b)
  PROVE  Marks(e, d, x, z)
<1>1. /\ Len(a) \in Nat /\ Len(b) \in Nat /\ Len(e) = Len(a) + Len(b)
      /\ \A k \in 1 .. Len(a) : a[k] \in Nat /\ x <= a[k] /\ a[k] < y /\ Byte(d, a[k]) = NL
      /\ \A k \in 1 .. Len(b) : b[k] \in Nat /\ y <= b[k] /\ b[k] < z /\ Byte(d, b[k]) = NL
      /\ \A j, k \in 1 .. Len(a) : j < k => a[j] < a[k]
      /\ \A j, k \in 1 .. Len(b) : j < k => b[j] < b[k]
  <2>1. /\ Len(a) \in Nat /\ \A j, k \in 1 .. Len(a) : j < k => a[j] < a[k]
        /\ \A k \in 1 .. Len(a) : a[k] \in Nat /\ x <= a[k] /\ a[k] < y /\ Byte(d, a[k]) = NL
    BY DEF Marks, Rising
  <2>2. /\ Len(b) \in Nat /\ \A j, k \in 1 .. Len(b) : j < k => b[j] < b[k]
        /\ \A k \in 1 .. Len(b) : b[k] \in Nat /\ y <= b[k] /\ b[k] < z /\ Byte(d, b[k]) = NL
    BY DEF Marks, Rising
  <2>3. Len(e) = Len(a) + Len(b)
    BY DEF Joins
  <2> QED
    BY <2>1, <2>2, <2>3
<1>2. ASSUME NEW k \in 1 .. Len(e)
      PROVE  \/ k \in 1 .. Len(a) /\ e[k] = a[k]
             \/ k > Len(a) /\ k - Len(a) \in 1 .. Len(b) /\ e[k] = b[k - Len(a)]
  <2>1. CASE k \in 1 .. Len(a)
    BY <2>1 DEF Joins
  <2>2. CASE k > Len(a)
    <3>1. k - Len(a) \in 1 .. Len(b) /\ Len(a) + (k - Len(a)) = k
      BY <1>1, <2>2
    <3>2. e[Len(a) + (k - Len(a))] = b[k - Len(a)]
      BY <3>1 DEF Joins
    <3> QED
      BY <2>2, <3>1, <3>2
  <2> QED
    BY <1>1, <2>1, <2>2
<1>3. ASSUME NEW j \in 1 .. Len(e), NEW k \in 1 .. Len(e), j < k
      PROVE  e[j] < e[k]
  <2>1. CASE k \in 1 .. Len(a)
    <3>1. j \in 1 .. Len(a) /\ ~(j > Len(a)) /\ ~(k > Len(a))
      BY <1>1, <1>3, <2>1
    <3>2. e[j] = a[j] /\ e[k] = a[k]
      BY <1>2, <3>1
    <3> QED
      BY <1>1, <1>3, <2>1, <3>1, <3>2
  <2>2. CASE k > Len(a)
    <3>1. k - Len(a) \in 1 .. Len(b) /\ e[k] = b[k - Len(a)]
      BY <1>1, <1>2, <2>2
    <3>2. CASE j \in 1 .. Len(a)
      <4>1. e[j] = a[j]
        BY <1>1, <1>2, <3>2
      <4>2. a[j] < y /\ y <= b[k - Len(a)] /\ a[j] \in Nat /\ b[k - Len(a)] \in Nat
        BY <1>1, <3>1, <3>2
      <4> QED
        BY <3>1, <4>1, <4>2
    <3>3. CASE j > Len(a)
      <4>1. j - Len(a) \in 1 .. Len(b) /\ e[j] = b[j - Len(a)]
        BY <1>1, <1>2, <3>3
      <4>2. j - Len(a) < k - Len(a)
        BY <1>1, <1>3, <3>1, <4>1
      <4> QED
        BY <1>1, <3>1, <4>1, <4>2
    <3> QED
      BY <1>1, <3>2, <3>3
  <2> QED
    BY <1>1, <2>1, <2>2
<1>4. ASSUME NEW k \in 1 .. Len(e)
      PROVE  x <= e[k] /\ e[k] < z /\ Byte(d, e[k]) = NL
  <2>1. CASE k \in 1 .. Len(a) /\ e[k] = a[k]
    <3>1. a[k] \in Nat /\ x <= a[k] /\ a[k] < y /\ Byte(d, a[k]) = NL
      BY <1>1, <2>1
    <3> QED
      BY <2>1, <3>1
  <2>2. CASE k - Len(a) \in 1 .. Len(b) /\ e[k] = b[k - Len(a)]
    <3>1. b[k - Len(a)] \in Nat /\ y <= b[k - Len(a)] /\ b[k - Len(a)] < z
          /\ Byte(d, b[k - Len(a)]) = NL
      BY <1>1, <2>2
    <3> QED
      BY <2>2, <3>1
  <2> QED
    BY <1>2, <2>1, <2>2
<1>5. ASSUME NEW p \in x .. z - 1, Byte(d, p) = NL
      PROVE  \E k \in 1 .. Len(e) : e[k] = p
  <2>1. CASE p < y
    <3>1. p \in x .. y - 1
      BY <2>1
    <3>2. PICK k \in 1 .. Len(a) : a[k] = p
      BY <1>5, <3>1 DEF Marks
    <3>3. k \in 1 .. Len(e) /\ ~(k > Len(a))
      BY <1>1
    <3> QED
      BY <1>2, <3>2, <3>3
  <2>2. CASE ~(p < y)
    <3>1. p \in y .. z - 1
      BY <2>2
    <3>2. PICK k \in 1 .. Len(b) : b[k] = p
      BY <1>5, <3>1 DEF Marks
    <3>3. Len(a) + k \in 1 .. Len(e)
      BY <1>1
    <3>4. e[Len(a) + k] = b[k]
      BY DEF Joins
    <3> QED
      BY <3>2, <3>3, <3>4
  <2> QED
    BY <2>1, <2>2
<1> QED
  BY <1>3, <1>4, <1>5 DEF Marks, Rising

\* A buffer of n bytes is indexed if it was in front of the line that the index
\* is rebuilt from, and this line starts where it should.
LEMMA RebuildIndexes ==
  ASSUME NEW d \in Seq(Chars), NEW n \in Nat, NEW from \in 0 .. Len(lines), lines \in Seq(Spans),
         Rebuild(d, n, from), Chained(lines, from), Line(from).start = FirstStart(from),
         FirstStart(from) <= n, Marks(Ends(lines, from), d, 0, FirstStart(from))
  PROVE  Indexes(lines', lines_count', d, n)
<1> DEFINE new == New(d, n, from)
           l == Replace(lines, from, new)
           o == FirstStart(from)
           m == Newlines(d, o, n)
           c == from + Len(new)
<1>1. lines' = l /\ lines_count' = c
  BY RebuildIs
<1>2. from \in Nat /\ Len(lines) \in Nat /\ o \in Nat
  BY LineType
<1>3. new \in Seq(Spans)
  BY <1>2, NewType
<1>4. new = IF m = <<>> /\ from = 0 /\ o < n THEN <<[start |-> 0, length |-> n]>>
            ELSE Found(o, m, o)
  BY DEF New
<1>5. Marks(m, d, o, n)
  BY <1>2, NewlinesMark
<1>6. o = IF from = 0 THEN 0 ELSE EndOf(lines[from]) + 1
  <2>1. from # 0 => from - 1 < Len(lines) /\ (from - 1) + 1 = from
    BY <1>2
  <2> QED
    BY <2>1 DEF FirstStart, After, EndOf, Line
<1> HIDE DEF new, m, o
<1>7. /\ l \in Seq(Spans) /\ from + Len(new) <= Len(l)
      /\ \A k \in 1 .. from : l[k] = lines[k]
      /\ \A k \in 1 .. Len(new) : l[from + k] = new[k]
      /\ from = 0 /\ new = <<>> => l = lines
  BY <1>3, Replaced
<1> HIDE DEF l
<1>8. c \in Nat /\ c <= Len(l) /\ Len(new) \in Nat
  BY <1>2, <1>3, <1>7
<1>9. CASE m = <<>> /\ from = 0 /\ o < n
  <2>1. Len(new) = 1 /\ new[1] = [start |-> 0, length |-> n]
    BY <1>4, <1>9
  <2>2. l[0 + 1] = new[1]
    BY <1>7, <1>9, <2>1
  <2>3. c = 1 /\ l[1] = [start |-> 0, length |-> n]
    BY <1>9, <2>1, <2>2
  <2>4. \A p \in 0 .. n - 1 : Byte(d, p) # NL
    <3>1. o = 0 /\ Len(m) = 0
      BY <1>6, <1>9
    <3> QED
      BY <1>5, <3>1 DEF Marks
  <2>5. Chained(l, c)
    BY <1>8, <2>3 DEF Chained
  <2>6. Unbroken(l, c, d, n)
    BY <1>2, <1>9, <2>3, <2>4 DEF Unbroken
  <2> QED
    BY <1>1, <2>5, <2>6 DEF Indexes
<1>10. CASE ~(m = <<>> /\ from = 0 /\ o < n)
  <2>1. Finds(new, o, m, o)
    BY <1>2, <1>4, <1>5, <1>10, FoundType
  <2>2. Len(new) = Len(m)
    BY <2>1 DEF Finds
  <2>3. ASSUME NEW k \in 1 .. Len(new)
        PROVE  /\ l[from + k].start = Begin(o, m, k) /\ EndOf(l[from + k]) = m[k]
               /\ m[k] \in Nat
    <3>1. k \in 1 .. Len(m) /\ l[from + k] = new[k]
      BY <1>7, <2>2
    <3>2. new[k].start = o + Begin(o, m, k) - o /\ new[k].length = m[k] - Begin(o, m, k)
      BY <2>1, <3>1 DEF Finds
    <3>3. Begin(o, m, k) \in Nat /\ m[k] \in Nat
      BY <1>2, <1>5, <3>1, BeginType
    <3>4. new[k].start = Begin(o, m, k)
      BY <1>2, <3>2, <3>3
    <3> QED
      BY <3>1, <3>2, <3>3, <3>4 DEF EndOf
  <2>4. ASSUME NEW k \in 1 .. c
        PROVE  l[k].start = IF k = 1 THEN 0 ELSE EndOf(l[k - 1]) + 1
    <3>1. CASE k \in 1 .. from
      <4>1. l[k] = lines[k] /\ (k # 1 => l[k - 1] = lines[k - 1])
        BY <1>2, <1>7, <3>1
      <4> QED
        BY <3>1, <4>1 DEF Chained
    <3>2. CASE k = from + 1
      <4>1. 1 \in 1 .. Len(new)
        BY <1>2, <1>8, <3>2
      <4>2. l[from + 1].start = Begin(o, m, 1)
        BY <2>3, <4>1
      <4>3. l[k].start = o
        BY <3>2, <4>2 DEF Begin
      <4>4. from # 0 => l[k - 1] = lines[from]
        BY <1>2, <1>7, <3>2
      <4> QED
        BY <1>2, <1>6, <3>2, <4>3, <4>4
    <3>3. CASE k > from + 1
      <4> DEFINE j == k - from
      <4>1. j \in 1 .. Len(new) /\ j - 1 \in 1 .. Len(new) /\ from + j = k
            /\ from + (j - 1) = k - 1 /\ j # 1 /\ k # 1
        BY <1>2, <1>8, <3>3
      <4> HIDE DEF j
      <4>2. l[from + j].start = Begin(o, m, j) /\ EndOf(l[from + (j - 1)]) = m[j - 1]
        BY <2>3, <4>1
      <4> QED
        BY <4>1, <4>2 DEF Begin
    <3> QED
      BY <1>2, <3>1, <3>2, <3>3
  <2>5. Chained(l, c)
    BY <1>8, <2>4 DEF Chained
  <2> DEFINE e == Ends(l, c)
  <2>6. e = [k \in 1 .. c |-> e[k]] /\ \A k \in 1 .. c : e[k] = EndOf(l[k])
    BY DEF Ends
  <2>7. ASSUME NEW k \in 1 .. c
        PROVE  e[k] \in Nat
    <3>1. l[k] \in Spans
      BY <1>7, <1>8
    <3> QED
      BY <2>6, <3>1 DEF EndOf, Spans
  <2> HIDE DEF e
  <2>8. e \in Seq(Nat) /\ Len(e) = c
    <3>1. e \in [1 .. c -> Nat]
      BY <2>6, <2>7
    <3> QED
      BY <1>8, <3>1
  <2> DEFINE a == Ends(lines, from)
  <2>9. Len(a) = from /\ \A k \in 1 .. from : a[k] = EndOf(lines[k])
    <3>1. a \in Seq(Nat)
      BY DEF Marks, Rising
    <3>2. a = [k \in 1 .. from |-> EndOf(lines[k])]
      BY DEF Ends
    <3> HIDE DEF a
    <3> QED
      BY <1>2, <3>1, <3>2
  <2>10. Marks(a, d, 0, o)
    BY DEF o
  <2> HIDE DEF a
  <2>11. Joins(e, a, m)
    <3>1. Len(e) = Len(a) + Len(m)
      BY <2>2, <2>8, <2>9
    <3>2. \A k \in 1 .. Len(a) : e[k] = a[k]
      <4> SUFFICES ASSUME NEW k \in 1 .. Len(a) PROVE e[k] = a[k]
        OBVIOUS
      <4>1. k \in 1 .. from /\ k \in 1 .. c
        BY <1>2, <1>8, <2>9
      <4> QED
        BY <1>7, <2>6, <2>9, <4>1
    <3>3. \A k \in 1 .. Len(m) : e[Len(a) + k] = m[k]
      <4> SUFFICES ASSUME NEW k \in 1 .. Len(m) PROVE e[Len(a) + k] = m[k]
        OBVIOUS
      <4>1. k \in 1 .. Len(new) /\ from + k \in 1 .. c
        BY <1>2, <1>8, <2>2
      <4> QED
        BY <2>3, <2>6, <2>9, <4>1
    <3> QED
      BY <3>1, <3>2, <3>3 DEF Joins
  <2>12. 0 \in Nat /\ 0 <= o /\ o <= n
    BY <1>2 DEF o
  <2>13. Marks(e, d, 0, n)
    BY <1>2, <1>5, <2>8, <2>10, <2>11, <2>12, MarksJoin
  <2>14. c > 0 \/ n = 0
    <3> SUFFICES ASSUME c = 0 PROVE n = 0
      BY <1>8
    <3>1. from = 0 /\ Len(m) = 0
      BY <1>2, <1>8, <2>2
    <3>2. m = <<>>
      BY <1>5, <3>1 DEF Marks, Rising
    <3> QED
      BY <1>6, <1>10, <3>1, <3>2
  <2> QED
    BY <1>1, <2>5, <2>13, <2>14 DEF Indexes, e
<1> QED
  BY <1>9, <1>10

\* The ends of the first lines are those newlines in front of the next line.
LEMMA MarksFirst ==
  ASSUME NEW d, NEW b \in Nat, NEW m, Marks(m, d, 0, b), NEW k \in 1 .. Len(m),
         NEW e \in Seq(Nat), Len(e) = k, \A j \in 1 .. k : e[j] = m[j]
  PROVE  Marks(e, d, 0, m[k] + 1) /\ m[k] \in Nat /\ m[k] + 1 <= b
<1>1. /\ Len(m) \in Nat
      /\ \A j \in 1 .. Len(m) : m[j] \in Nat /\ m[j] < b /\ Byte(d, m[j]) = NL
      /\ \A i, j \in 1 .. Len(m) : i < j => m[i] < m[j]
  BY DEF Marks, Rising
<1>2. \A j \in 1 .. k : j \in 1 .. Len(m)
  BY <1>1
<1>3. \A i, j \in 1 .. Len(e) : i < j => e[i] < e[j]
  BY <1>1, <1>2
<1>4. ASSUME NEW j \in 1 .. Len(e)
      PROVE  0 <= e[j] /\ e[j] < m[k] + 1 /\ Byte(d, e[j]) = NL
  <2>1. j = k \/ m[j] < m[k]
    BY <1>1, <1>2
  <2> QED
    BY <1>1, <1>2, <2>1
<1>5. ASSUME NEW p \in 0 .. (m[k] + 1) - 1, Byte(d, p) = NL
      PROVE  \E j \in 1 .. Len(e) : e[j] = p
  <2>1. p \in 0 .. b - 1 /\ p <= m[k]
    BY <1>1
  <2>2. PICK j \in 1 .. Len(m) : m[j] = p
    BY <1>5, <2>1 DEF Marks
  <2>3. k < j => m[k] < m[j]
    BY <1>1
  <2>4. j \in 1 .. k
    BY <1>1, <2>1, <2>2, <2>3
  <2> QED
    BY <2>2, <2>4
<1> QED
  BY <1>1, <1>3, <1>4, <1>5 DEF Marks, Rising

\* The ends of the first lines are places.
LEMMA EndsType ==
  ASSUME NEW l \in Seq(Spans), NEW n \in 0 .. Len(l)
  PROVE  /\ Ends(l, n) \in Seq(Nat) /\ Len(Ends(l, n)) = n
         /\ \A k \in 1 .. n : Ends(l, n)[k] = EndOf(l[k])
<1> DEFINE e == Ends(l, n)
<1>1. e = [k \in 1 .. n |-> e[k]] /\ \A k \in 1 .. n : e[k] = EndOf(l[k])
  BY DEF Ends
<1>2. ASSUME NEW k \in 1 .. n
      PROVE  e[k] \in Nat
  <2>1. l[k] \in Spans
    OBVIOUS
  <2> QED
    BY <1>1, <2>1 DEF EndOf, Spans
<1> HIDE DEF e
<1>3. e \in [1 .. n -> Nat]
  BY <1>1, <1>2
<1>4. e \in Seq(Nat) /\ Len(e) = n
  BY <1>3
<1> QED
  BY <1>1, <1>4 DEF e

\* What an index of the whole buffer says of the lines in front of one of them.
LEMMA IndexPrefix ==
  ASSUME Entries(lines, lines_count), length \in Nat,
         Indexes(lines, lines_count, data, length),
         NEW from \in Nat, from = 0 \/ from < lines_count
  PROVE  /\ from \in 0 .. Len(lines)
         /\ Chained(lines, from) /\ Line(from).start = FirstStart(from)
         /\ Marks(Ends(lines, from), data, 0, FirstStart(from))
         /\ from > 0 => /\ Marks(Ends(lines, lines_count), data, 0, length)
                        /\ FirstStart(from) = Ends(lines, lines_count)[from] + 1
                        /\ FirstStart(from) <= length
<1> DEFINE e == Ends(lines, lines_count)
           f == Ends(lines, from)
<1>1. lines \in Seq(Spans) /\ lines_count \in 0 .. Len(lines) /\ Len(lines) \in Nat
      /\ from \in 0 .. Len(lines)
  BY DEF Entries
<1>2. e \in Seq(Nat) /\ Len(e) = lines_count
      /\ \A k \in 1 .. lines_count : e[k] = EndOf(lines[k])
  BY <1>1, EndsType
<1>3. f \in Seq(Nat) /\ Len(f) = from /\ \A k \in 1 .. from : f[k] = EndOf(lines[k])
  BY <1>1, EndsType
<1> HIDE DEF e, f
<1>4. Chained(lines, lines_count)
  BY DEF Indexes
<1>5. Chained(lines, from)
  <2>1. \A k \in 1 .. from : k \in 1 .. lines_count
    BY <1>1
  <2> QED
    BY <1>1, <1>4, <2>1 DEF Chained
<1>6. CASE from = 0
  <2>1. FirstStart(from) = 0
    BY <1>6 DEF FirstStart
  <2>2. Line(from).start = 0
    <3>1. 0 < Len(lines) => lines # <<>>
      OBVIOUS
    <3>2. lines # <<>> => lines[0 + 1].start = 0
      BY DEF Entries
    <3> QED
      BY <1>6, <3>1, <3>2 DEF Line
  <2>3. f = <<>>
    BY <1>3, <1>6
  <2>4. Marks(f, data, 0, 0)
    BY <2>3, MarksNone
  <2> QED
    BY <1>1, <1>5, <1>6, <2>1, <2>2, <2>4 DEF f
<1>7. CASE from > 0
  <2>1. from < lines_count /\ from \in 1 .. Len(e) /\ from + 1 \in 1 .. lines_count
        /\ from - 1 < Len(lines) /\ (from - 1) + 1 = from /\ from < Len(lines)
        /\ (from + 1) - 1 = from /\ from + 1 # 1 /\ from \in 1 .. from /\ from - 1 \in Nat
    BY <1>1, <1>2, <1>7
  <2>2. Marks(e, data, 0, length)
    <3>1. ~Unbroken(lines, lines_count, data, length)
      BY <1>1, <2>1 DEF Unbroken
    <3> QED
      BY <3>1 DEF Indexes, e
  <2>3. FirstStart(from) = EndOf(lines[from]) + 1
    BY <1>7, <2>1 DEF FirstStart, After, EndOf, Line
  <2>4. e[from] = EndOf(lines[from])
    BY <1>1, <1>2, <2>1
  <2>5. Line(from).start = FirstStart(from)
    <3>1. Line(from) = lines[from + 1]
      BY <2>1 DEF Line
    <3>2. lines[from + 1].start = EndOf(lines[from]) + 1
      BY <1>4, <2>1 DEF Chained
    <3> QED
      BY <2>3, <3>1, <3>2
  <2>6. \A j \in 1 .. from : f[j] = e[j]
    BY <1>1, <1>2, <1>3, <2>1
  <2>7. Marks(f, data, 0, e[from] + 1) /\ e[from] \in Nat /\ e[from] + 1 <= length
    BY <1>3, <2>1, <2>2, <2>6, MarksFirst
  <2> QED
    BY <1>1, <1>5, <2>2, <2>3, <2>4, <2>5, <2>7 DEF e, f
<1> QED
  BY <1>6, <1>7

\* The bytes after appending: the text, what is appended, and then nul bytes only.
LEMMA AppendedBytes ==
  ASSUME NEW d \in Seq(Chars), NEW t \in Plain, Holds(d, t), NEW s \in Seq(Chars),
         d = <<>> \/ s \in Plain
  PROVE  /\ NewLength(d, s) = Len(t) + Len(s) + 1
         /\ Kept(Appended(d, s), NewLength(d, s)) \in Seq(Chars)
         /\ t \o CString(s) \in Plain /\ Len(t \o CString(s)) < NewLength(d, s)
         /\ Holds(Kept(Appended(d, s), NewLength(d, s)), t \o CString(s))
         /\ \A p \in Nat : /\ p < Len(t) => Byte(Kept(Appended(d, s), NewLength(d, s)), p) = Byte(d, p)
                           /\ p >= Len(t \o CString(s))
                                => Byte(Kept(Appended(d, s), NewLength(d, s)), p) = NUL
<1> DEFINE c == CString(s)
           a == Append(c, NUL)
           n == NewLength(d, s)
           o == Appended(d, s)
           k == Kept(o, n)
           u == t \o c
<1>1. CString(d) = t
  BY CStringIs
<1>2. c \in Plain /\ Len(c) <= Len(s) /\ (s \in Plain => c = s)
  BY CStringHolds, PlainString
<1>3. t \in Seq(Chars) /\ Len(t) \in Nat /\ Len(s) \in Nat
  BY PlainIs
<1>4. o = Overwrite(d, Len(t), a) /\ n = Len(t) + Len(s) + 1
  BY <1>1 DEF Appended, NewLength
<1>5. c \in Seq(Chars) /\ Len(c) \in Nat
  BY <1>2, PlainIs
<1>6. u \in Plain /\ Joins(u, t, c)
  BY <1>2, Joined DEF Plain
<1> HIDE DEF c, n, o, u
<1>7. a \in Seq(Chars) /\ Len(a) = Len(c) + 1 /\ a[Len(c) + 1] = NUL
      /\ \A j \in 1 .. Len(c) : a[j] = c[j]
  <2>1. NUL \in Chars
    BY DEF Chars
  <2> QED
    BY <1>5, <2>1
<1> HIDE DEF a
<1>8. n \in Nat
  BY <1>3, <1>4
<1>9. o \in Seq(Chars)
      /\ \A p \in Nat : Byte(o, p) = IF Len(t) <= p /\ p < Len(t) + Len(a)
                                     THEN a[p - Len(t) + 1] ELSE Byte(d, p)
  <2>1. o \in Seq(Chars) /\ Puts(o, d, Len(t), a)
    BY <1>3, <1>4, <1>7, OverwriteType
  <2> QED
    BY <2>1 DEF Puts
<1>10. k \in Seq(Chars) /\ \A p \in Nat : Byte(k, p) = IF p < n THEN Byte(o, p) ELSE NUL
  BY <1>8, <1>9, KeptType
<1> HIDE DEF k
<1>11. Len(u) = Len(t) + Len(c) /\ Len(u) < n
  BY <1>2, <1>3, <1>4, <1>5, <1>6 DEF Joins
<1>12. ASSUME NEW p \in Nat, p < Len(t)
       PROVE  Byte(k, p) = Byte(d, p)
  <2>1. p < n /\ ~(Len(t) <= p)
    BY <1>2, <1>3, <1>4, <1>5, <1>12
  <2> QED
    BY <1>9, <1>10, <2>1
<1>13. ASSUME NEW p \in Nat, p >= Len(u)
       PROVE  Byte(k, p) = NUL
  <2>1. CASE p = Len(u)
    <3>1. Len(t) <= p /\ p < Len(t) + Len(a) /\ p - Len(t) + 1 = Len(c) + 1 /\ p < n
      BY <1>3, <1>5, <1>7, <1>11, <2>1
    <3> QED
      BY <1>7, <1>9, <1>10, <3>1
  <2>2. CASE p > Len(u)
    <3>1. ~(p < Len(t) + Len(a))
      BY <1>3, <1>5, <1>7, <1>11, <2>2
    <3>2. Byte(o, p) = Byte(d, p)
      BY <1>9, <3>1
    <3>3. CASE d = <<>>
      <4>1. Byte(d, p) = NUL
        BY <3>3 DEF Byte
      <4> QED
        BY <1>10, <3>2, <4>1
    <3>4. CASE s \in Plain
      <4>1. ~(p < n)
        BY <1>2, <1>3, <1>4, <1>5, <1>11, <2>2, <3>4
      <4> QED
        BY <1>10, <4>1
    <3> QED
      BY <3>3, <3>4
  <2> QED
    <3>1. Len(u) \in Nat
      BY <1>3, <1>5, <1>11
    <3> QED
      BY <1>13, <2>1, <2>2, <3>1
<1>14. ASSUME NEW p \in 0 .. Len(u) - 1
       PROVE  Byte(k, p) = u[p + 1]
  <2>1. CASE p < Len(t)
    <3>1. p \in 0 .. Len(t) - 1 /\ p + 1 \in 1 .. Len(t)
      BY <1>3, <2>1
    <3>2. Byte(d, p) = t[p + 1] /\ u[p + 1] = t[p + 1]
      BY <1>6, <3>1 DEF Holds, Joins
    <3> QED
      BY <1>12, <2>1, <3>1, <3>2
  <2>2. CASE ~(p < Len(t))
    <3> DEFINE j == p - Len(t) + 1
    <3>0. /\ Len(t) \in Nat /\ Len(c) \in Nat /\ Len(a) = Len(c) + 1 /\ n \in Nat
          /\ Len(u) = Len(t) + Len(c) /\ Len(u) < n /\ p \in Nat /\ p < Len(u)
      BY <1>3, <1>5, <1>7, <1>8, <1>11
    <3>1. j \in 1 .. Len(c) /\ Len(t) + j = p + 1 /\ Len(t) <= p /\ p < Len(t) + Len(a) /\ p < n
      BY <2>2, <3>0
    <3>2. Byte(k, p) = a[j]
      BY <1>9, <1>10, <3>1
    <3> HIDE DEF j
    <3>3. a[j] = c[j] /\ u[Len(t) + j] = c[j]
      BY <1>6, <1>7, <3>1 DEF Joins
    <3> QED
      BY <3>1, <3>2, <3>3
  <2> QED
    BY <2>1, <2>2
<1>15. Holds(k, u)
  <2>1. Len(u) \in Nat /\ Len(u) >= Len(u)
    BY <1>3, <1>5, <1>11
  <2> QED
    BY <1>13, <1>14, <2>1 DEF Holds
<1> QED
  BY <1>4, <1>6, <1>10, <1>11, <1>12, <1>13, <1>15 DEF k, o, n, u, c

\* What is known of the buffer while a text is edited.
LEMMA EditedFacts ==
  ASSUME Edited, length \in Nat, data \in Seq(Chars)
  PROVE  /\ ideal \in Plain /\ Len(ideal) \in Nat /\ Len(ideal) <= length /\ Holds(data, ideal)
         /\ CString(data) = ideal /\ CountNewlines(ideal) \in Nat
<1>1. ideal \in Plain /\ Holds(data, ideal)
  BY DEF Edited
<1>2. Len(ideal) \in Nat /\ CountNewlines(ideal) \in Nat
  BY <1>1, PlainIs, CountType
<1>3. Len(ideal) <= length
  <2>1. CASE Len(ideal) < length
    BY <1>2, <2>1
  <2>2. CASE length = 0 /\ ideal = <<>>
    BY <2>2
  <2> QED
    BY <2>1, <2>2 DEF Edited
<1>4. CString(data) = ideal
  BY <1>1, CStringIs
<1> QED
  BY <1>1, <1>2, <1>3, <1>4

\* The lines of the text are the first of the index.
LEMMA LinesIndexed ==
  ASSUME Edited, length \in Nat, data \in Seq(Chars), Entries(lines, lines_count)
  PROVE  /\ CountNewlines(ideal) <= lines_count
         /\ Marks(Ends(lines, lines_count), data, 0, length) =>
              /\ \A k \in 1 .. CountNewlines(ideal) :
                   /\ Ends(lines, lines_count)[k] = Newlines(ideal, 0, Len(ideal))[k]
                   /\ Ends(lines, lines_count)[k] < Len(ideal)
              /\ \A k \in 1 .. lines_count :
                   k > CountNewlines(ideal) => Ends(lines, lines_count)[k] >= Len(ideal)
         /\ Unbroken(lines, lines_count, data, length) => CountNewlines(ideal) = 0
<1> DEFINE e == Ends(lines, lines_count)
           c == CountNewlines(ideal)
           n == Newlines(ideal, 0, Len(ideal))
<1>1. /\ ideal \in Plain /\ Len(ideal) \in Nat /\ Len(ideal) <= length /\ Holds(data, ideal)
      /\ c \in Nat
  BY EditedFacts
<1>2. lines \in Seq(Spans) /\ lines_count \in 0 .. Len(lines) /\ Len(lines) \in Nat
  BY DEF Entries
<1>3. Len(e) = lines_count
  BY <1>2, EndsType
<1> HIDE DEF e, c, n
<1>4. ASSUME Marks(e, data, 0, length)
      PROVE  /\ c <= lines_count
             /\ \A k \in 1 .. c : e[k] = n[k] /\ e[k] < Len(ideal)
             /\ \A k \in 1 .. lines_count : k > c => e[k] >= Len(ideal)
  <2>1. /\ c \in Nat /\ c <= Len(e)
        /\ \A k \in 1 .. c : e[k] = n[k] /\ e[k] < Len(ideal)
        /\ \A k \in 1 .. Len(e) : k > c => e[k] >= Len(ideal)
    BY <1>1, <1>4, TextMarks DEF c, n
  <2> QED
    BY <1>3, <2>1
<1>5. ASSUME Unbroken(lines, lines_count, data, length), c # 0
      PROVE  FALSE
  <2>1. Marks(n, ideal, 0, Len(ideal)) /\ Len(n) = c
    BY <1>1, NewlinesMark DEF n, c, CountNewlines
  <2>2. 1 \in 1 .. Len(n)
    BY <1>1, <1>5, <2>1
  <2>3. n[1] \in 0 .. Len(ideal) - 1 /\ Byte(ideal, n[1]) = NL
    BY <1>1, <2>1, <2>2 DEF Marks, Rising
  <2>4. Byte(data, n[1]) = NL /\ n[1] \in 0 .. length - 1
    BY <1>1, <2>3 DEF Holds, Byte
  <2> QED
    BY <1>5, <2>4 DEF Unbroken
<1>6. Marks(e, data, 0, length) \/ Unbroken(lines, lines_count, data, length)
  BY DEF Edited, Indexes, e
<1>7. c <= lines_count
  BY <1>2, <1>4, <1>5, <1>6
<1> QED
  BY <1>4, <1>5, <1>7 DEF e, c, n

\* What an action leaves of a text t in the buffer, besides the limits.
EditedAs(t) ==
    /\ data' \in Seq(Chars) /\ length' \in Nat /\ Entries(lines', lines_count')
    /\ t \in Plain /\ Holds(data', t) /\ (Len(t) < length' \/ (length' = 0 /\ t = <<>>))
    /\ Indexes(lines', lines_count', data', length')
    /\ Residue(data', t, length')

\* leditor.cpp:162-180, charvector.c:124-137: appending a text keeps the buffer and its
\* index, and the text gets longer.
LEMMA AppendKeeps ==
  ASSUME Edited, length \in Nat, data \in Seq(Chars), Entries(lines, lines_count),
         limit \in [length : Nat, lines : Nat],
         NEW s \in Seq(Chars), data = <<>> \/ s \in Plain, AppendText(s)
  PROVE  /\ EditedAs(ideal \o CString(s)) /\ Limited(ideal \o CString(s))
         /\ lines_count' <= CountNewlines(ideal \o CString(s)) + 1
         /\ Len(ideal \o CString(s)) < length' /\ length' = Len(ideal) + Len(s) + 1
<1> DEFINE u == ideal \o CString(s)
           from == IF lines_count > 1 THEN lines_count - 1 ELSE 0
           e == Ends(lines, lines_count)
           f == Ends(lines, from)
           o == FirstStart(from)
           c == CountNewlines(ideal)
<1>1. /\ ideal \in Plain /\ Len(ideal) \in Nat /\ Len(ideal) <= length /\ Holds(data, ideal)
      /\ c \in Nat
  BY EditedFacts
<1>2. lines \in Seq(Spans) /\ lines_count \in 0 .. Len(lines) /\ Len(lines) \in Nat
      /\ (lines # <<>> => lines[1].start = 0)
  BY DEF Entries
<1>3. /\ length' = NewLength(data, s) /\ data' = Kept(Appended(data, s), length')
      /\ Rebuild(data', length', from) /\ Fits(s) /\ FitsLines(s)
  BY DEF AppendText
<1>4. /\ length' = Len(ideal) + Len(s) + 1 /\ data' \in Seq(Chars)
      /\ u \in Plain /\ Len(u) < length' /\ Holds(data', u)
      /\ \A p \in Nat : /\ p < Len(ideal) => Byte(data', p) = Byte(data, p)
                        /\ p >= Len(u) => Byte(data', p) = NUL
  BY <1>1, <1>3, AppendedBytes
<1>5. Len(u) \in Nat /\ Len(s) \in Nat /\ length' \in Nat
  BY <1>1, <1>4, PlainIs
<1>6. c <= lines_count
  BY LinesIndexed
<1> HIDE DEF u, e, f, o, c
<1>7. from \in Nat /\ from \in 0 .. Len(lines) /\ (from = 0 \/ from < lines_count)
  BY <1>2
<1>8. /\ Chained(lines, from) /\ Line(from).start = o /\ Marks(f, data, 0, o)
      /\ (from > 0 => Marks(e, data, 0, length) /\ o = e[from] + 1)
  <2>1. Indexes(lines, lines_count, data, length)
    BY DEF Edited
  <2> HIDE DEF from
  <2> QED
    BY <1>7, <2>1, IndexPrefix DEF f, o, e
<1>9. o \in Nat /\ o <= Len(ideal)
  <2>1. CASE from = 0
    BY <1>1, <2>1 DEF o, FirstStart
  <2>2. CASE from > 0
    <3>1. from \in 1 .. c
      <4>1. lines_count <= c + 1
        BY DEF Edited, c
      <4> QED
        BY <1>1, <1>2, <2>2, <4>1
    <3>2. Marks(e, data, 0, length) /\ o = e[from] + 1
      BY <1>8, <2>2
    <3>3. e[from] < Len(ideal)
      <4> HIDE DEF from
      <4> QED
        BY <3>1, <3>2, LinesIndexed DEF e, c
    <3>4. e[from] \in Nat
      <4>1. Len(e) = lines_count /\ e \in Seq(Nat)
        BY <1>2, EndsType DEF e
      <4> HIDE DEF from
      <4>2. from \in 1 .. Len(e)
        BY <1>2, <1>7, <2>2, <4>1
      <4> QED
        BY <4>1, <4>2
    <3> HIDE DEF from
    <3> QED
      BY <1>1, <3>2, <3>3, <3>4
  <2> HIDE DEF from
  <2> QED
    BY <1>7, <2>1, <2>2
<1> HIDE DEF from
<1>10. Marks(f, data', 0, o)
  <2>1. \A p \in 0 .. o - 1 : Byte(data, p) = NL <=> Byte(data', p) = NL
    BY <1>1, <1>4, <1>9
  <2> QED
    BY <1>8, <1>9, <2>1, MarksSame
<1>11. o <= length'
  BY <1>1, <1>4, <1>5, <1>9
<1>12. Indexes(lines', lines_count', data', length')
  BY <1>2, <1>3, <1>4, <1>5, <1>7, <1>8, <1>10, <1>11, RebuildIndexes DEF f, o
<1>13. Entries(lines', lines_count')
  BY <1>2, <1>3, <1>5, <1>7, RebuildTypes
<1>14. Residue(data', u, length')
  <2>1. \A p \in Len(u) .. length' - 1 : p \in Nat /\ p >= Len(u)
    BY <1>5
  <2> QED
    BY <1>4, <2>1 DEF Residue
<1>15. CountNewlines(u) \in Nat
  BY <1>4, PlainIs, CountType
<1>16. lines_count' <= CountNewlines(u) + 1
  <2> DEFINE g == Ends(lines', lines_count')
  <2>1. lines' \in Seq(Spans) /\ lines_count' \in 0 .. Len(lines') /\ Len(lines') \in Nat
    BY <1>13 DEF Entries
  <2>2. Len(g) = lines_count' /\ g \in Seq(Nat)
    BY <2>1, EndsType
  <2>3. CASE Marks(g, data', 0, length')
    <3> HIDE DEF g
    <3>0. Len(u) <= length'
      BY <1>4, <1>5
    <3>1. /\ CountNewlines(u) \in Nat /\ CountNewlines(u) <= Len(g)
          /\ \A k \in 1 .. CountNewlines(u) : g[k] = Newlines(u, 0, Len(u))[k] /\ g[k] < Len(u)
          /\ \A k \in 1 .. Len(g) : k > CountNewlines(u) => g[k] >= Len(u)
      BY <1>4, <1>5, <2>3, <3>0, TextMarks
    <3>2. ASSUME NEW k \in 1 .. Len(g), k > CountNewlines(u)
          PROVE  FALSE
      <4>1. g[k] \in Nat /\ g[k] >= Len(u)
        BY <2>2, <3>1, <3>2
      <4>2. Byte(data', g[k]) = NUL /\ Byte(data', g[k]) = NL
        BY <1>4, <2>3, <4>1 DEF Marks
      <4> QED
        BY <4>2 DEF NL, NUL
    <3>3. Len(g) \in Nat /\ (Len(g) = 0 \/ Len(g) \in 1 .. Len(g))
      BY <2>2
    <3>4. Len(g) <= CountNewlines(u)
      BY <1>15, <3>2, <3>3
    <3> QED
      BY <1>15, <2>2, <3>3, <3>4
  <2>4. CASE Unbroken(lines', lines_count', data', length')
    BY <1>15, <2>4 DEF Unbroken
  <2> QED
    BY <1>12, <2>3, <2>4 DEF Indexes
<1>17. Limited(u)
  <2>1. limit.length \in Nat /\ limit.lines \in Nat
    OBVIOUS
  <2>2. CString(s) \in Plain /\ Len(CString(s)) <= Len(s)
    BY CStringHolds
  <2>3. limit.length > 0 => Len(u) <= limit.length
    BY <1>1, <1>3, <1>4, <1>5, <2>1 DEF Fits
  <2>4. CountNewlines(u) = c + CountNewlines(CString(s))
    BY <1>1, <2>2, CountBoth DEF c, u
  <2>5. CountNewlines(CString(s)) <= CountNewlines(s) /\ CountNewlines(s) \in Nat
        /\ CountNewlines(CString(s)) \in Nat
    BY <2>2, CountCString, CountType, PlainIs
  <2>6. limit.lines > 0 => CountNewlines(u) <= limit.lines
    <3>1. limit.lines > 0 => lines_count + CountNewlines(s) <= limit.lines
      BY <1>3, <2>1 DEF FitsLines
    <3> QED
      BY <1>1, <1>2, <1>6, <2>1, <2>4, <2>5, <3>1
  <2> QED
    BY <2>3, <2>6 DEF Limited
<1> QED
  BY <1>4, <1>5, <1>12, <1>13, <1>14, <1>16, <1>17 DEF u, EditedAs

\* The bytes after those from one place on are moved to another in front of it.
Move(d, n, s, from) ==
    LET moved == Bytes(d, from, n - from)
        cleared == Overwrite(d, from, [j \in DOMAIN moved |-> NUL])
    IN  Overwrite(cleared, s, moved)
Moves(o, d, n, s, from) ==
    \A p \in 0 .. n - 1 :
      Byte(o, p) = IF p < s THEN Byte(d, p)
                   ELSE IF p < s + (n - from) THEN Byte(d, p + (from - s))
                   ELSE IF p < from THEN Byte(d, p) ELSE NUL

\* Moving bytes does that.
LEMMA MoveType ==
  ASSUME NEW d \in Seq(Chars), NEW n \in Nat, NEW s \in Nat, NEW from \in Nat,
         s <= from, from <= n
  PROVE  Move(d, n, s, from) \in Seq(Chars) /\ Moves(Move(d, n, s, from), d, n, s, from)
<1> DEFINE m == n - from
           moved == Bytes(d, from, m)
           nuls == [j \in DOMAIN moved |-> NUL]
           cleared == Overwrite(d, from, nuls)
           o == Overwrite(cleared, s, moved)
<1>1. m \in Nat
  OBVIOUS
<1>2. Move(d, n, s, from) = o
  BY DEF Move
<1> HIDE DEF m
<1>3. moved \in Seq(Chars) /\ Len(moved) = m
      /\ \A p \in 0 .. m - 1 : Byte(moved, p) = Byte(d, from + p)
  BY <1>1, BytesType
<1> HIDE DEF moved
<1>4. nuls \in Seq(Chars) /\ Len(nuls) = m /\ \A j \in 1 .. m : nuls[j] = NUL
  <2>1. DOMAIN moved = 1 .. m /\ NUL \in Chars
    BY <1>1, <1>3 DEF Chars
  <2>2. nuls \in [1 .. m -> Chars] /\ \A j \in 1 .. m : nuls[j] = NUL
    BY <2>1
  <2> HIDE DEF nuls
  <2> QED
    BY <1>1, <2>2
<1> HIDE DEF nuls
<1>5. cleared \in Seq(Chars) /\ Puts(cleared, d, from, nuls)
  BY <1>4, OverwriteType
<1> HIDE DEF cleared
<1>6. o \in Seq(Chars) /\ Puts(o, cleared, s, moved)
  BY <1>3, <1>5, OverwriteType
<1> HIDE DEF o
<1>7. from + m = n
  BY DEF m
<1>8. ASSUME NEW p \in 0 .. n - 1
      PROVE  Byte(o, p) = IF p < s THEN Byte(d, p)
                          ELSE IF p < s + m THEN Byte(d, p + (from - s))
                          ELSE IF p < from THEN Byte(d, p) ELSE NUL
  <2>0. p \in Nat
    OBVIOUS
  <2>1. Byte(cleared, p) = IF p < from THEN Byte(d, p) ELSE NUL
    <3>1. Byte(cleared, p) = IF from <= p /\ p < from + m THEN nuls[p - from + 1] ELSE Byte(d, p)
      BY <1>4, <1>5, <2>0 DEF Puts
    <3>2. from <= p => p - from + 1 \in 1 .. m /\ p < from + m
      BY <1>1, <1>7
    <3> QED
      BY <1>4, <3>1, <3>2
  <2>2. Byte(o, p) = IF s <= p /\ p < s + m THEN moved[p - s + 1] ELSE Byte(cleared, p)
    BY <1>3, <1>6, <2>0 DEF Puts
  <2>3. CASE s <= p /\ p < s + m
    <3>1. p - s \in 0 .. m - 1 /\ from + (p - s) = p + (from - s) /\ ~(p < s) /\ p - s < m
      BY <1>1, <2>3
    <3>2. Byte(moved, p - s) = Byte(d, p + (from - s))
      BY <1>3, <3>1
    <3>3. Byte(moved, p - s) = moved[p - s + 1]
      BY <1>3, <3>1 DEF Byte
    <3> QED
      BY <2>2, <2>3, <3>1, <3>2, <3>3
  <2>4. CASE ~(s <= p /\ p < s + m)
    <3>1. p < s => p < from
      OBVIOUS
    <3>2. ~(p < s) => ~(p < s + m)
      BY <2>4
    <3> QED
      BY <2>1, <2>2, <2>4, <3>1, <3>2
  <2> QED
    BY <2>3, <2>4
<1> QED
  BY <1>2, <1>6, <1>8 DEF Moves, m

\* What deleting a line does to the buffer.
LEMMA DeleteIs ==
  ASSUME NEW i, EditorCmdDelete(i)
  PROVE  /\ i <= lines_count /\ Editing /\ ~Odd
         /\ ideal' = Without(ideal, i) /\ UNCHANGED <<text, sessions>>
         /\ \/ After(Line(i)) > length /\ mode' = "underflow" /\ UNCHANGED buffer
            \/ /\ ~(After(Line(i)) > length) /\ UNCHANGED <<mode, length>>
               /\ data' = Move(data, length, Line(i).start, After(Line(i)))
               /\ Rebuild(data', length, i)
         /\ quirks \subseteq quirks'
         /\ quirks' \subseteq quirks \cup {"remnants", "past", "unended", "ghosts"}
         /\ "remnants" \in quirks'
         /\ i = lines_count => "past" \in quirks'
         /\ ~Ended(ideal) => "unended" \in quirks'
         /\ lines_count' > CountNewlines(ideal') + 1 => "ghosts" \in quirks'
BY DEF EditorCmdDelete, DeletedFrom, Move

\* The place of a line, and where it is in the index.
LEMMA LineFrom ==
  ASSUME lines \in Seq(Spans), NEW i \in Nat
  PROVE  /\ Line(i).start \in Nat /\ After(Line(i)) \in Nat /\ Line(i).start < After(Line(i))
         /\ After(Line(i)) = EndOf(Line(i)) + 1
         /\ i < Len(lines) => Line(i) = lines[i + 1]
<1>1. Line(i).start \in Nat /\ Line(i).length \in Nat
  BY LineType
<1> QED
  BY <1>1 DEF After, EndOf, Line

\* The end of a line of several is a newline.
LEMMA LineEnd ==
  ASSUME Entries(lines, lines_count), length \in Nat, NEW i \in Nat, i < lines_count,
         Marks(Ends(lines, lines_count), data, 0, length)
  PROVE  /\ i + 1 \in 1 .. lines_count /\ lines_count \in Nat
         /\ Len(Ends(lines, lines_count)) = lines_count
         /\ After(Line(i)) = Ends(lines, lines_count)[i + 1] + 1
         /\ Ends(lines, lines_count)[i + 1] \in Nat /\ Ends(lines, lines_count)[i + 1] < length
         /\ Byte(data, Ends(lines, lines_count)[i + 1]) = NL
<1>1. lines \in Seq(Spans) /\ lines_count \in 0 .. Len(lines) /\ Len(lines) \in Nat
  BY DEF Entries
<1>2. Len(Ends(lines, lines_count)) = lines_count
      /\ \A k \in 1 .. lines_count : Ends(lines, lines_count)[k] = EndOf(lines[k])
  BY <1>1, EndsType
<1>3. i + 1 \in 1 .. lines_count /\ lines_count \in Nat /\ i < Len(lines)
  BY <1>1
<1>4. After(Line(i)) = EndOf(lines[i + 1]) + 1
  BY <1>1, <1>3, LineFrom
<1>5. Ends(lines, lines_count)[i + 1] \in Nat /\ Ends(lines, lines_count)[i + 1] < length
      /\ Byte(data, Ends(lines, lines_count)[i + 1]) = NL
  BY <1>2, <1>3 DEF Marks, Rising
<1> QED
  BY <1>2, <1>3, <1>4, <1>5

\* A line that ends in the buffer is not an unbroken one.
LEMMA DeletesMarked ==
  ASSUME Edited, Entries(lines, lines_count), length \in Nat, NEW i \in Nat, i < lines_count
  PROVE  /\ ~(After(Line(i)) > length) => Marks(Ends(lines, lines_count), data, 0, length)
         /\ After(Line(i)) > length => Unbroken(lines, lines_count, data, length)
<1>1. lines \in Seq(Spans) /\ lines_count \in 0 .. Len(lines) /\ Len(lines) \in Nat
      /\ (lines # <<>> => lines[1].start = 0)
  BY DEF Entries
<1>2. ASSUME Unbroken(lines, lines_count, data, length)
      PROVE  After(Line(i)) > length
  <2>1. i = 0 /\ Line(0) = lines[1] /\ lines[1].length = length /\ lines # <<>>
    BY <1>1, <1>2 DEF Unbroken, Line
  <2> QED
    BY <1>1, <2>1 DEF After
<1>3. ASSUME Marks(Ends(lines, lines_count), data, 0, length)
      PROVE  ~(After(Line(i)) > length)
  BY <1>3, LineEnd
<1>4. Unbroken(lines, lines_count, data, length) \/ Marks(Ends(lines, lines_count), data, 0, length)
  BY DEF Edited, Indexes
<1> QED
  BY <1>2, <1>3, <1>4

\* A line that ends beyond the buffer is one without a newline, or behind the index.
LEMMA UnderflowUnended ==
  ASSUME Edited, Entries(lines, lines_count), length \in Nat, data \in Seq(Chars),
         NEW i \in Nat, EditorCmdDelete(i), After(Line(i)) > length
  PROVE  CountNewlines(CString(data)) = 0 \/ "past" \in quirks'
<1>1. i <= lines_count /\ (i = lines_count => "past" \in quirks')
  BY DeleteIs
<1>2. CASE i = lines_count
  BY <1>1, <1>2
<1>3. CASE i # lines_count
  <2>1. lines_count \in Nat
    BY DEF Entries
  <2>2. i < lines_count
    BY <1>1, <1>3, <2>1
  <2>3. Unbroken(lines, lines_count, data, length)
    BY <2>2, DeletesMarked
  <2>4. CountNewlines(ideal) = 0
    BY <2>3, LinesIndexed
  <2> QED
    BY <2>4, EditedFacts
<1> QED
  BY <1>2, <1>3

\* The place of a line that is deleted, and the bytes of the text without it.
LEMMA DeletedText ==
  ASSUME Edited, Entries(lines, lines_count), length \in Nat, data \in Seq(Chars),
         NEW i \in Nat, i < lines_count, ~(After(Line(i)) > length), Ended(ideal)
  PROVE  LET s == Line(i).start
             from == After(Line(i))
             t == Without(ideal, i)
         IN  /\ t \in Plain /\ Len(t) \in Nat /\ Len(t) <= Len(ideal)
             /\ CountNewlines(t) <= CountNewlines(ideal)
             /\ s <= Len(t)
             /\ \/ /\ from <= Len(ideal) /\ Len(t) = s + Len(ideal) - from
                   /\ \A p \in Nat : Byte(t, p) = IF p < s THEN Byte(ideal, p)
                                                  ELSE Byte(ideal, p + from - s)
                \/ /\ t = ideal /\ s = Len(ideal) /\ s < from
                   /\ \A p \in from .. length - 1 : Byte(data, p) = NUL
<1> DEFINE e == Ends(lines, lines_count)
           c == CountNewlines(ideal)
           n == Newlines(ideal, 0, Len(ideal))
           s == Line(i).start
           from == After(Line(i))
           a == Len(ideal)
<1>1. /\ ideal \in Plain /\ a \in Nat /\ a <= length /\ Holds(data, ideal) /\ c \in Nat
  BY EditedFacts
<1>2. lines \in Seq(Spans) /\ lines_count \in 0 .. Len(lines) /\ Len(lines) \in Nat
  BY DEF Entries
<1>3. Marks(e, data, 0, length)
  BY DeletesMarked
<1>4. /\ i + 1 \in 1 .. lines_count /\ lines_count \in Nat /\ Len(e) = lines_count
      /\ from = e[i + 1] + 1 /\ e[i + 1] \in Nat /\ e[i + 1] < length /\ Byte(data, e[i + 1]) = NL
  BY <1>3, LineEnd
<1>5. s \in Nat /\ from \in Nat /\ s < from
  BY <1>2, LineFrom
<1>6. /\ s = FirstStart(i) /\ (i > 0 => s = e[i] + 1)
  <2>1. Indexes(lines, lines_count, data, length)
    BY DEF Edited
  <2> QED
    BY <2>1, IndexPrefix
<1>7. /\ c <= lines_count
      /\ \A k \in 1 .. c : e[k] = n[k] /\ e[k] < a
      /\ \A k \in 1 .. lines_count : k > c => e[k] >= a
  BY <1>3, LinesIndexed
<1>8. lines_count <= c + 1
  BY DEF Edited
<1>9. Marks(n, ideal, 0, a) /\ Len(n) = c
  BY <1>1, NewlinesMark DEF CountNewlines
<1>10. i = 0 => s = 0
  BY <1>6 DEF FirstStart
<1> HIDE DEF e, c, n, a, s, from
<1>11. CASE i < c
  <2>1. e[i + 1] = n[i + 1] /\ from = n[i + 1] + 1
    <3>1. i + 1 \in 1 .. c
      BY <1>1, <1>11
    <3> QED
      BY <1>4, <1>7, <3>1
  <2>2. s = StartOf(n, i)
    <3>1. i > 0 => e[i] = n[i]
      BY <1>1, <1>7, <1>11
    <3> QED
      BY <1>6, <1>10, <3>1 DEF StartOf
  <2>3. /\ s \in Nat /\ from \in Nat /\ s < from /\ from <= a
        /\ Without(ideal, i) = Cut(ideal, s, from)
    BY <1>1, <1>11, <2>1, <2>2, WithoutLine DEF c, n, a
  <2>4. s <= from
    BY <2>3
  <2>5. /\ Cut(ideal, s, from) \in Plain /\ Len(Cut(ideal, s, from)) = s + a - from
        /\ \A p \in Nat : Byte(Cut(ideal, s, from), p)
                            = IF p < s THEN Byte(ideal, p) ELSE Byte(ideal, p + from - s)
        /\ CountNewlines(Cut(ideal, s, from)) <= CountNewlines(ideal)
    BY <1>1, <2>3, <2>4, Shorter DEF a
  <2>6. s + a - from \in Nat /\ s + a - from <= a /\ s <= s + a - from
    BY <1>1, <2>3
  <2> QED
    BY <2>3, <2>5, <2>6 DEF s, from, a
<1>12. CASE ~(i < c)
  <2>1. i = c /\ lines_count = c + 1
    BY <1>1, <1>4, <1>8, <1>12
  <2>2. Without(ideal, i) = ideal
    BY <1>1, <2>1, WithoutNone DEF c
  <2>3. s = a
    <3>1. CASE ideal = <<>>
      <4>1. c = 0 /\ a = 0
        BY <3>1, CountNone DEF c, a
      <4> QED
        BY <1>10, <2>1, <4>1
    <3>2. CASE ideal # <<>>
      <4>1. a > 0 /\ ideal[a] = NL
        BY <1>1, <3>2 DEF Ended, Last, a, Plain
      <4>2. a - 1 \in 0 .. a - 1 /\ Byte(ideal, a - 1) = NL
        BY <1>1, <4>1 DEF Byte, a
      <4>3. PICK k \in 1 .. Len(n) : n[k] = a - 1
        BY <1>9, <4>2 DEF Marks
      <4>4. k \in 1 .. c /\ c \in 1 .. c
        BY <1>1, <1>9
      <4>5. n[c] \in Nat /\ n[c] < a /\ (k < c => n[k] < n[c])
        BY <1>9, <4>4 DEF Marks, Rising
      <4>6. n[c] = a - 1
        BY <1>1, <4>3, <4>4, <4>5
      <4>7. i > 0 /\ s = e[c] + 1 /\ e[c] = n[c]
        BY <1>6, <1>7, <2>1, <4>4
      <4> QED
        BY <1>1, <4>6, <4>7
    <3> QED
      BY <3>1, <3>2
  <2>4. ASSUME NEW p \in from .. length - 1, Byte(data, p) # NUL
        PROVE  FALSE
    <3>1. p \in Len(ideal) .. length - 1
      <4>1. a <= from
        BY <1>1, <1>5, <2>3
      <4> QED
        BY <1>1, <1>5, <4>1 DEF a
    <3>2. PICK q \in p .. length - 1 : Byte(data, q) = NL
      BY <2>4, <3>1 DEF Edited, Residue
    <3>3. q \in 0 .. length - 1
      BY <1>5, <3>1
    <3>4. PICK k \in 1 .. Len(e) : e[k] = q
      BY <1>3, <3>2, <3>3 DEF Marks
    <3>5. k \in 1 .. lines_count /\ lines_count = i + 1
      BY <1>4, <2>1, <3>4
    <3>6. e[k] <= e[i + 1]
      <4>1. k = i + 1 \/ k < i + 1
        BY <3>5
      <4>2. \A j, h \in 1 .. Len(e) : j < h => e[j] < e[h]
        BY <1>3 DEF Marks, Rising
      <4>3. e[k] \in Nat
        BY <3>3, <3>4
      <4> QED
        BY <1>4, <3>5, <4>1, <4>2, <4>3
    <3> QED
      BY <1>4, <1>5, <3>2, <3>3, <3>4, <3>6
  <2> QED
    <3>1. \A p \in from .. length - 1 : Byte(data, p) = NUL
      BY <2>4
    <3>2. c <= c /\ a <= a /\ s <= a /\ s < from
      BY <1>1, <1>5, <2>3
    <3> QED
      BY <1>1, <2>2, <2>3, <3>1, <3>2 DEF s, from, a, c
<1> QED
  BY <1>11, <1>12

\* leditor.cpp:252-273: deleting a line keeps the buffer and its index, and takes the line
\* out of the text.
LEMMA DeleteKeeps ==
  ASSUME Edited, Entries(lines, lines_count), length \in Nat, data \in Seq(Chars),
         limit \in [length : Nat, lines : Nat], NEW i \in Nat,
         EditorCmdDelete(i), mode' # "underflow", ~Odd'
  PROVE  /\ EditedAs(ideal') /\ Limited(ideal') /\ lines_count' <= CountNewlines(ideal') + 1
         /\ length' = length
<1> DEFINE s == Line(i).start
           from == After(Line(i))
           t == Without(ideal, i)
           a == Len(ideal)
           m == length - from
           f == Ends(lines, i)
<1>1. /\ ideal \in Plain /\ a \in Nat /\ a <= length /\ Holds(data, ideal)
  BY EditedFacts
<1>2. lines \in Seq(Spans) /\ lines_count \in 0 .. Len(lines) /\ Len(lines) \in Nat
      /\ (lines # <<>> => lines[1].start = 0)
  BY DEF Entries
<1>3. /\ i <= lines_count /\ ideal' = t
      /\ ~(from > length) /\ length' = length
      /\ data' = Move(data, length, s, from) /\ Rebuild(data', length, i)
      /\ i = lines_count => "past" \in quirks'
      /\ ~Ended(ideal) => "unended" \in quirks'
      /\ lines_count' > CountNewlines(t) + 1 => "ghosts" \in quirks'
  <2>1. mode' # "underflow"
    OBVIOUS
  <2> QED
    BY <2>1, DeleteIs
<1>4. "past" \notin quirks' /\ "unended" \notin quirks' /\ "ghosts" \notin quirks'
  BY DEF Odd
<1>5. i < lines_count /\ Ended(ideal)
  BY <1>2, <1>3, <1>4
<1>6. s \in Nat /\ from \in Nat /\ s < from /\ from <= length
  BY <1>2, <1>3, LineFrom
<1>7. /\ t \in Plain /\ Len(t) \in Nat /\ Len(t) <= a
      /\ CountNewlines(t) <= CountNewlines(ideal)
      /\ s <= Len(t)
      /\ \/ /\ from <= a /\ Len(t) = s + a - from
            /\ \A p \in Nat : Byte(t, p) = IF p < s THEN Byte(ideal, p)
                                           ELSE Byte(ideal, p + from - s)
         \/ /\ t = ideal /\ s = a /\ s < from
            /\ \A p \in from .. length - 1 : Byte(data, p) = NUL
  BY <1>3, <1>5, DeletedText
<1>8. Byte(data, from - 1) = NL /\ from - 1 \in Nat
  <2>1. Marks(Ends(lines, lines_count), data, 0, length)
    BY <1>3, <1>5, DeletesMarked
  <2> QED
    <3> DEFINE q == Ends(lines, lines_count)[i + 1]
    <3>1. from = q + 1 /\ q \in Nat /\ Byte(data, q) = NL
      BY <1>5, <2>1, LineEnd
    <3> HIDE DEF q, from
    <3>2. from - 1 = q
      BY <3>1
    <3> QED
      BY <3>1, <3>2
<1>9. /\ i \in 0 .. Len(lines) /\ Chained(lines, i) /\ s = FirstStart(i)
      /\ Marks(f, data, 0, s)
  <2>1. Indexes(lines, lines_count, data, length)
    BY DEF Edited
  <2>2. i \in 0 .. Len(lines) /\ Chained(lines, i) /\ s = FirstStart(i)
      /\ Marks(f, data, 0, FirstStart(i))
    BY <1>5, <2>1, IndexPrefix
  <2> QED
    BY <2>2
<1>10. a < length
  <2>1. length > 0
    BY <1>6
  <2> QED
    BY <2>1 DEF Edited
<1> HIDE DEF s, from, t, a, f
<1>11. data' \in Seq(Chars) /\ Moves(data', data, length, s, from)
  <2>1. s <= from
    BY <1>6
  <2> QED
    BY <1>3, <1>6, <2>1, MoveType
<1> DEFINE b(p) == Byte(data', p)
<1>12. ASSUME NEW p \in 0 .. length - 1
       PROVE  b(p) = IF p < s THEN Byte(data, p)
                     ELSE IF p < s + (length - from) THEN Byte(data, p + (from - s))
                     ELSE IF p < from THEN Byte(data, p) ELSE NUL
  BY <1>11 DEF Moves
<1> HIDE DEF b
<1>13. ASSUME NEW p \in Nat, p < a
       PROVE  Byte(data, p) = Byte(ideal, p) /\ Byte(ideal, p) # NUL
  <2>1. p \in 0 .. a - 1 /\ p + 1 \in 1 .. a
    BY <1>1, <1>13
  <2> QED
    BY <1>1, <1>13, <2>1, PlainIs DEF Holds, Byte, a
<1>14. Byte(data, a) = NUL
  BY <1>1 DEF Holds, a
\* The text is the one without the line.
<1>15. ASSUME NEW p \in 0 .. Len(t) - 1
       PROVE  b(p) = Byte(t, p)
  <2>1. p \in Nat /\ p < Len(t) /\ p \in 0 .. length - 1 /\ p < a
    BY <1>1, <1>7, <1>10
  <2>2. CASE /\ from <= a /\ Len(t) = s + a - from
             /\ \A q \in Nat : Byte(t, q) = IF q < s THEN Byte(ideal, q)
                                            ELSE Byte(ideal, q + from - s)
    <3>1. CASE p < s
      BY <1>12, <1>13, <2>1, <2>2, <3>1
    <3>2. CASE ~(p < s)
      <4>1. p < s + (length - from) /\ p + (from - s) \in Nat /\ p + (from - s) < a
            /\ p + (from - s) = p + from - s
        BY <1>1, <1>6, <1>10, <2>1, <2>2
      <4>2. b(p) = Byte(data, p + (from - s))
        BY <1>12, <2>1, <3>2, <4>1
      <4>3. Byte(data, p + (from - s)) = Byte(ideal, p + (from - s))
        BY <1>13, <4>1
      <4>4. Byte(t, p) = Byte(ideal, p + from - s)
        BY <2>1, <2>2, <3>2
      <4> QED
        BY <4>1, <4>2, <4>3, <4>4
    <3> QED
      BY <3>1, <3>2
  <2>3. CASE t = ideal /\ s = a
    BY <1>12, <1>13, <2>1, <2>3
  <2> QED
    BY <1>7, <2>2, <2>3
<1>16. b(Len(t)) = NUL
  <2>0. Len(t) \in Nat /\ Len(t) <= a /\ s <= Len(t)
    BY <1>7
  <2>1. Len(t) \in 0 .. length - 1 /\ ~(Len(t) < s)
    BY <1>1, <1>6, <1>10, <2>0
  <2>2. CASE from <= a /\ Len(t) = s + a - from
    <3>1. Len(t) < s + (length - from) /\ Len(t) + (from - s) = a
      BY <1>1, <1>6, <1>10, <2>2
    <3> QED
      BY <1>12, <1>14, <2>1, <3>1
  <2>3. CASE /\ t = ideal /\ s = a /\ s < from
             /\ \A p \in from .. length - 1 : Byte(data, p) = NUL
    <3>1. Len(t) = s
      BY <2>3 DEF a
    <3>2. CASE s < s + (length - from)
      <4>1. s + (from - s) = from /\ from \in from .. length - 1
        BY <1>6, <3>2
      <4> QED
        BY <1>12, <2>1, <2>3, <3>1, <3>2, <4>1
    <3>3. CASE ~(s < s + (length - from))
      BY <1>12, <1>14, <2>1, <2>3, <3>1, <3>3
    <3> QED
      BY <3>2, <3>3
  <2> QED
    BY <1>7, <2>2, <2>3
<1>17. Holds(data', t)
  <2>1. \A p \in 0 .. Len(t) - 1 : Byte(t, p) = t[p + 1]
    BY <1>7 DEF Byte
  <2> QED
    BY <1>15, <1>16, <2>1 DEF Holds, b
\* What is left behind it still ends with newlines.
<1>18. ASSUME NEW p \in Len(t) .. length - 1, b(p) # NUL
       PROVE  \E q \in p .. length - 1 : b(q) = NL
  <2>0. Len(t) \in Nat /\ s <= Len(t)
    BY <1>7
  <2>1. p \in 0 .. length - 1 /\ ~(p < s)
    BY <1>6, <2>0
  <2>2. CASE p < s + (length - from)
    <3> DEFINE g == p + (from - s)
    <3>1. g \in a .. length - 1
      <4>1. g <= length - 1 /\ g \in Nat
        BY <1>6, <2>1, <2>2
      <4>2. CASE Len(t) = s + a - from
        BY <1>1, <1>6, <2>1, <4>1, <4>2
      <4>3. CASE t = ideal /\ s = a /\ s < from
        BY <1>1, <1>6, <2>1, <4>1, <4>3
      <4> QED
        BY <1>7, <4>2, <4>3
    <3>2. b(p) = Byte(data, g)
      BY <1>12, <2>1, <2>2
    <3> HIDE DEF g
    <3>3. PICK q \in g .. length - 1 : Byte(data, q) = NL
      BY <1>18, <3>1, <3>2 DEF Edited, Residue, a
    <3> DEFINE h == q - (from - s)
    <3>4. h \in p .. length - 1 /\ h \in 0 .. length - 1 /\ ~(h < s) /\ h < s + (length - from)
          /\ h + (from - s) = q
      BY <1>1, <1>6, <2>1, <3>1, <3>3 DEF g
    <3>5. b(h) = Byte(data, q)
      <4> HIDE DEF h
      <4> QED
        BY <1>12, <3>4
    <3> QED
      BY <3>3, <3>4, <3>5
  <2>3. CASE ~(p < s + (length - from)) /\ p < from
    <3>1. from - 1 \in p .. length - 1 /\ from - 1 \in 0 .. length - 1 /\ ~(from - 1 < s)
          /\ ~(from - 1 < s + (length - from)) /\ from - 1 < from
      BY <1>6, <1>8, <2>1, <2>3
    <3>2. b(from - 1) = Byte(data, from - 1)
      BY <1>12, <3>1
    <3> QED
      BY <1>8, <3>1, <3>2
  <2>4. CASE ~(p < s + (length - from)) /\ ~(p < from)
    BY <1>12, <1>18, <2>1, <2>4
  <2> QED
    BY <2>2, <2>3, <2>4
<1>19. Residue(data', t, length)
  BY <1>18 DEF Residue, b
\* The index of the lines in front of it is still right.
<1>20. Marks(f, data', 0, s)
  <2>1. \A p \in 0 .. s - 1 : Byte(data, p) = NL <=> Byte(data', p) = NL
    <3> SUFFICES ASSUME NEW p \in 0 .. s - 1 PROVE Byte(data, p) = NL <=> Byte(data', p) = NL
      OBVIOUS
    <3>1. p \in 0 .. length - 1 /\ p < s
      BY <1>6
    <3> QED
      BY <1>12, <3>1 DEF b
  <2> QED
    BY <1>6, <1>9, <2>1, MarksSame
<1>21. s <= length /\ s = FirstStart(i) /\ Line(i).start = FirstStart(i)
  BY <1>6, <1>9 DEF s
<1>22. FirstStart(i) <= length /\ Marks(Ends(lines, i), data', 0, FirstStart(i))
  BY <1>20, <1>21 DEF f
<1>23. Indexes(lines', lines_count', data', length)
  BY <1>2, <1>3, <1>9, <1>11, <1>21, <1>22, RebuildIndexes
<1>24. Entries(lines', lines_count')
  BY <1>2, <1>3, <1>9, RebuildTypes
<1>25. lines_count' <= CountNewlines(t) + 1
  <2>1. lines_count' \in Nat
    BY <1>24 DEF Entries
  <2>2. CountNewlines(t) \in Nat
    BY <1>7, PlainIs, CountType
  <2> QED
    BY <1>3, <1>4, <2>1, <2>2
<1>26. Limited(t)
  <2>1. limit.length \in Nat /\ limit.lines \in Nat
    OBVIOUS
  <2>2. Limited(ideal)
    BY DEF Edited
  <2>3. CountNewlines(t) \in Nat /\ CountNewlines(ideal) \in Nat
    BY <1>1, <1>7, PlainIs, CountType
  <2>4. Len(t) <= Len(ideal) /\ Len(ideal) \in Nat
    BY <1>1, <1>7 DEF a
  <2> QED
    BY <1>7, <2>1, <2>2, <2>3, <2>4 DEF Limited
<1>27. Len(t) < length
  BY <1>1, <1>7, <1>10
<1> QED
  BY <1>3, <1>7, <1>11, <1>17, <1>19, <1>23, <1>24, <1>25, <1>26, <1>27 DEF EditedAs

-----------------------------------------------------------------------------
(* The inductive invariant.                                                *)

\* What is so of an empty buffer.
LEMMA NothingEdited ==
  /\ <<>> \in Plain /\ <<>> \in Seq(Chars) /\ CString(<<>>) = <<>>
  /\ Holds(<<>>, <<>>) /\ Entries(<<>>, 0) /\ Indexes(<<>>, 0, <<>>, 0) /\ Residue(<<>>, <<>>, 0)
  /\ CountNewlines(<<>>) = 0 /\ Len(<<>>) = 0
<1>1. <<>> \in Plain /\ <<>> \in Seq(Chars) /\ Len(<<>>) = 0 /\ <<>> \in Seq(Spans)
  BY DEF Plain
<1>2. Holds(<<>>, <<>>) /\ CString(<<>>) = <<>>
  BY <1>1, PlainString
<1>3. Entries(<<>>, 0)
  BY <1>1 DEF Entries
<1>4. Ends(<<>>, 0) = <<>>
  BY DEF Ends
<1>5. Marks(Ends(<<>>, 0), <<>>, 0, 0)
  BY <1>4, MarksNone
<1>6. Indexes(<<>>, 0, <<>>, 0)
  BY <1>1, <1>5 DEF Indexes, Chained
<1>7. Residue(<<>>, <<>>, 0)
  BY <1>1 DEF Residue
<1> QED
  BY <1>1, <1>2, <1>3, <1>6, <1>7, CountNone

\* What an action has to show of a buffer that is worked on.
LEMMA EditedNext ==
  ASSUME EditedAs(ideal'), Limited(ideal)', lines_count' <= CountNewlines(ideal') + 1
  PROVE  BufferTypes' /\ Edited' /\ NulKept'
<1>1. BufferTypes'
  BY DEF EditedAs, BufferTypes
<1>2. Edited'
  BY DEF EditedAs, Edited
<1>3. CString(data') = ideal'
  BY CStringIs DEF EditedAs
<1>4. length' > 0 => Len(CString(data')) < length'
  BY <1>3 DEF EditedAs
<1> QED
  BY <1>1, <1>2, <1>4 DEF NulKept

\* An editor that has emptied its buffer has an empty text.
LEMMA EmptiedNext ==
  ASSUME limit' \in [length : Nat, lines : Nat], Empty', ideal' = <<>>
  PROVE  BufferTypes' /\ Edited' /\ NulKept'
<1>1. data' = <<>> /\ length' = 0 /\ lines' = <<>> /\ lines_count' = 0
  BY DEF Empty
<1>2. EditedAs(ideal')
  BY <1>1, NothingEdited DEF EditedAs
<1>3. Limited(ideal)'
  BY NothingEdited DEF Limited
<1>4. lines_count' <= CountNewlines(ideal') + 1
  BY <1>1, NothingEdited
<1> QED
  BY <1>2, <1>3, <1>4, EditedNext

\* The initial state has the invariant.
LEMMA InitEdits ==
  ASSUME Init
  PROVE  EditInv
<1>1. target \in Plain /\ target \in Seq(Chars)
  <2>1. target \in Plain
    <3>1. target \in Strings \cup {<<>>}
      BY DEF Init
    <3>2. Strings \subseteq Plain
      BY EditorAssumption DEF Plain
    <3> QED
      BY <3>1, <3>2, NothingEdited
  <2> QED
    BY <2>1, PlainIs
<1>2. BufferTypes
  BY NothingEdited DEF Init, Empty, BufferTypes
<1>3. TextTypes
  <2>1. 0 \in 0 .. MaxSessions
    BY EditorAssumption
  <2>2. [length |-> 0, lines |-> 0] \in [length : Nat, lines : Nat]
    OBVIOUS
  <2> QED
    BY <1>1, <2>1, <2>2, NothingEdited DEF Init, TextTypes
<1>4. Limited(<<>>)
  BY <1>3, NothingEdited DEF TextTypes, Limited
<1>5. Edited
  BY <1>4, NothingEdited DEF Init, Empty, Edited
<1>6. Copied
  BY NothingEdited DEF Copied, Init, GetString
<1>7. TextNuls
  <2>1. GetString = <<>> /\ sessions = 0
    BY DEF Init, GetString
  <2> QED
    BY <2>1, NothingEdited DEF TextNuls
<1> QED
  BY <1>2, <1>3, <1>5, <1>6, <1>7
     DEF Init, EditInv, Shut, Working, NulKept, UnderflowsUnended, Empty, BufferNuls, Editing

\* The length of a C string.
LEMMA CStringLength ==
  ASSUME NEW d \in Seq(Chars)
  PROVE  Len(d) \in Nat /\ Len(CString(d)) \in Nat /\ Len(CString(d)) <= Len(d)
<1>1. CString(d) \in Plain /\ Len(CString(d)) <= Len(d)
  BY CStringHolds
<1> QED
  BY <1>1, PlainIs

\* A text that is added to is longer, or has what is added behind its nul byte.
LEMMA CStringBoth ==
  ASSUME NEW d \in Seq(Chars), NEW s \in Plain
  PROVE  CString(d \o s) \in {CString(d), CString(d) \o s}
<1> DEFINE c == CString(d)
<1>1. c \in Plain /\ c \in Seq(Chars) /\ Len(c) <= Len(d) /\ Holds(d, c)
  BY CStringHolds, PlainIs
<1>2. s \in Seq(Chars) /\ d \o s \in Seq(Chars) /\ Len(d) \in Nat /\ Len(s) \in Nat
  BY PlainIs
<1> HIDE DEF c
<1>3. Len(c) \in Nat
  BY <1>1
<1>4. CASE Len(c) < Len(d)
  <2>1. \A p \in 0 .. Len(d) - 1 : Byte(d \o s, p) = Byte(d, p)
    BY <1>2 DEF Byte
  <2>2. Holds(d \o s, c)
    <3>1. Len(c) \in 0 .. Len(d) - 1
      BY <1>2, <1>3, <1>4
    <3>2. \A p \in 0 .. Len(c) - 1 : p \in 0 .. Len(d) - 1
      BY <1>2, <1>3, <1>4
    <3> QED
      BY <1>1, <2>1, <3>1, <3>2 DEF Holds
  <2>3. CString(d \o s) = c
    BY <1>1, <1>2, <2>2, CStringIs
  <2> QED
    BY <2>3 DEF c
<1>5. CASE ~(Len(c) < Len(d))
  <2>1. Len(c) = Len(d)
    BY <1>1, <1>2, <1>3, <1>5
  <2>2. c = d
    <3>1. \A j \in 1 .. Len(d) : c[j] = d[j]
      <4> SUFFICES ASSUME NEW j \in 1 .. Len(d) PROVE c[j] = d[j]
        OBVIOUS
      <4>1. j - 1 \in 0 .. Len(c) - 1 /\ (j - 1) + 1 = j /\ j - 1 < Len(d)
        BY <1>2, <2>1
      <4>2. Byte(d, j - 1) = c[(j - 1) + 1]
        BY <1>1, <4>1 DEF Holds
      <4>3. Byte(d, j - 1) = d[(j - 1) + 1]
        BY <4>1 DEF Byte
      <4> QED
        BY <4>1, <4>2, <4>3
    <3> QED
      BY <1>1, <2>1, <3>1
  <2>3. d \in Plain
    BY <1>1, <2>2
  <2>4. d \o s \in Plain
    BY <2>3 DEF Plain
  <2>5. CString(d \o s) = d \o s /\ CString(d) = d
    BY <2>3, <2>4, PlainString
  <2> QED
    BY <2>5
<1> QED
  BY <1>4, <1>5

\* What keeps the buffer and the mode keeps what is so of them.
LEMMA BufferKept ==
  ASSUME EditInv, UNCHANGED <<mode, buffer, ideal, quirks>>,
         sessions' = sessions, mode # "underflow",
         limit' \in [length : Nat, lines : Nat], mode = "closed" \/ limit' = limit
  PROVE  /\ BufferTypes' /\ Shut' /\ Working' /\ NulKept' /\ UnderflowsUnended' /\ BufferNuls'
<1>1. /\ mode' = mode /\ data' = data /\ length' = length /\ lines' = lines
      /\ lines_count' = lines_count /\ ideal' = ideal /\ quirks' = quirks
  BY DEF buffer
<1>2. BufferTypes' /\ Shut' /\ NulKept' /\ UnderflowsUnended' /\ BufferNuls'
  BY <1>1 DEF EditInv, BufferTypes, Shut, Empty, NulKept, Odd, UnderflowsUnended, BufferNuls,
              Editing
<1>3. CASE mode = "closed"
  <2>1. Empty' /\ ideal' = <<>>
    BY <1>1, <1>3 DEF EditInv, Shut, Empty
  <2> QED
    BY <1>2, <2>1, EmptiedNext DEF Working
<1>4. CASE limit' = limit
  <2>1. Edited => Edited'
    BY <1>1, <1>4 DEF Edited, Limited
  <2>2. Working'
    BY <1>1, <2>1 DEF EditInv, Working, Odd
  <2> QED
    BY <1>2, <2>2
<1> QED
  BY <1>3, <1>4

\* What keeps the text and its copy keeps what is so of them.
LEMMA TextKept ==
  ASSUME EditInv, UNCHANGED text, sessions' = sessions,
         quirks' \subseteq {"remnants", "past", "unended", "ghosts"},
         mode' \in {"closed", "open", "blank", "underflow"}
  PROVE  TextTypes' /\ Copied' /\ TextNuls'
<1>1. /\ target' = target /\ cached' = cached /\ stale' = stale /\ limit' = limit
      /\ saved' = saved /\ added' = added /\ flaws' = flaws
  BY DEF text
<1>2. TextTypes'
  BY <1>1 DEF EditInv, TextTypes
<1>3. Copied' /\ TextNuls'
  BY <1>1 DEF EditInv, Copied, TextNuls, GetString
<1> QED
  BY <1>2, <1>3

\* A script assigns a string to a text.
LEMMA AssignKeeps ==
  ASSUME EditInv, NEW s \in Strings, NEW l \in Limits, Assign(s, l)
  PROVE  EditInv'
<1>1. s \in Plain /\ s \in Seq(Chars) /\ l \in [length : Nat, lines : Nat]
  <2>1. s \in Plain
    BY EditorAssumption DEF Plain
  <2> QED
    BY <2>1, PlainIs, EditorAssumption
<1>2. /\ mode # "underflow" /\ (mode = "closed" \/ l = limit) /\ limit' = l
      /\ target' = s /\ stale' = TRUE /\ saved' = s /\ added' = <<>> /\ flaws' = {}
      /\ cached' = cached /\ sessions' = sessions /\ UNCHANGED <<mode, buffer, ideal, quirks>>
      /\ mode' = mode /\ quirks' = quirks
  BY DEF Assign, Stale
<1>3. TextTypes'
  BY <1>1, <1>2, NothingEdited DEF EditInv, TextTypes
<1>4. BufferTypes' /\ Shut' /\ Working' /\ NulKept' /\ UnderflowsUnended' /\ BufferNuls'
  BY <1>1, <1>2, BufferKept
<1>5. GetString' = s
  BY <1>2 DEF GetString
<1>6. CString(s) = s
  BY <1>1, PlainString
<1>7. Copied'
  BY <1>1, <1>2, <1>5, <1>6 DEF Copied
<1>8. TextNuls'
  <2>1. Len(s) \in Nat /\ sessions \in Nat
    BY <1>1 DEF EditInv, TextTypes
  <2> QED
    BY <1>2, <1>5, <1>6, <2>1 DEF TextNuls
<1> QED
  BY <1>3, <1>4, <1>7, <1>8 DEF EditInv

\* A script adds a string to a text.
LEMMA AddAssignKeeps ==
  ASSUME EditInv, NEW s \in Strings, AddAssign(s)
  PROVE  EditInv'
<1>1. s \in Plain /\ s \in Seq(Chars)
  <2>1. s \in Plain
    BY EditorAssumption DEF Plain
  <2> QED
    BY <2>1, PlainIs
<1>2. /\ mode # "underflow" /\ limit' = limit /\ target' = target \o s /\ added = <<>>
      /\ added' = s /\ flaws' = flaws
      /\ stale' = stale /\ saved' = saved /\ cached' = cached /\ sessions' = sessions
      /\ UNCHANGED <<mode, buffer, ideal, quirks>> /\ mode' = mode /\ quirks' = quirks
  BY DEF AddAssign
<1>3. TextTypes /\ target \in Seq(Chars) /\ limit \in [length : Nat, lines : Nat]
  BY DEF EditInv, TextTypes
<1>4. TextTypes'
  BY <1>1, <1>2, <1>3 DEF TextTypes
<1>5. BufferTypes' /\ Shut' /\ Working' /\ NulKept' /\ UnderflowsUnended' /\ BufferNuls'
  BY <1>2, <1>3, BufferKept
<1>6. GetString' \in {GetString, GetString \o s}
  BY <1>2 DEF GetString
<1>7. GetString \in Seq(Chars)
  BY <1>3 DEF TextTypes, GetString
<1>8. CString(GetString') \in {CString(GetString), CString(GetString) \o s}
  BY <1>1, <1>6, <1>7, CStringBoth
<1>9. Copied'
  <2> SUFFICES ASSUME "spoilt" \notin flaws
               PROVE  saved \in Plain /\ CString(GetString') \in {saved, saved \o s}
    BY <1>2 DEF Copied
  <2>1. saved \in Plain /\ CString(GetString) \in {saved, saved \o <<>>}
    BY <1>2 DEF EditInv, Copied
  <2>2. saved \o <<>> = saved
    BY <2>1 DEF Plain
  <2> QED
    BY <1>8, <2>1, <2>2
<1>10. TextNuls'
  <2> SUFFICES ASSUME flaws = {}, s = <<>>
               PROVE  Len(GetString') <= Len(CString(GetString')) + sessions
    BY <1>2 DEF TextNuls
  <2>1. GetString' = GetString
    <3>1. GetString \o <<>> = GetString
      BY <1>7
    <3> QED
      BY <1>6, <3>1
  <2> QED
    BY <1>2, <2>1 DEF EditInv, TextNuls
<1> QED
  BY <1>4, <1>5, <1>9, <1>10 DEF EditInv

\* A copy is what GetString returns.
LEMMA CopyKeeps ==
  ASSUME Copy
  PROVE  GetString' = GetString
BY DEF Copy, GetString

\* A script asks for the text.
LEMMA ReadKeeps ==
  ASSUME EditInv, Read
  PROVE  EditInv'
<1>1. /\ mode # "underflow" /\ cached' = GetString /\ stale' = FALSE
      /\ target' = target /\ limit' = limit /\ saved' = saved /\ added' = added
      /\ flaws' = flaws /\ sessions' = sessions
      /\ UNCHANGED <<mode, buffer, ideal, quirks>> /\ mode' = mode /\ quirks' = quirks
  BY DEF Read, Copy
<1>2. GetString' = GetString
  BY CopyKeeps DEF Read
<1>3. TextTypes /\ GetString \in Seq(Chars) /\ limit \in [length : Nat, lines : Nat]
  BY DEF EditInv, TextTypes, GetString
<1>4. TextTypes'
  BY <1>1, <1>3 DEF TextTypes
<1>5. BufferTypes' /\ Shut' /\ Working' /\ NulKept' /\ UnderflowsUnended' /\ BufferNuls'
  BY <1>1, <1>3, BufferKept
<1>6. Copied' /\ TextNuls'
  BY <1>1, <1>2 DEF EditInv, Copied, TextNuls
<1> QED
  BY <1>4, <1>5, <1>6 DEF EditInv

\* leditor.cpp:63-74: an editor is opened, and loads the text, or does not.
LEMMA OpenKeeps ==
  ASSUME EditInv, Open
  PROVE  EditInv'
<1> DEFINE s == GetString
<1>1. /\ mode = "closed" /\ sessions < MaxSessions /\ sessions' = sessions + 1
      /\ cached' = s /\ stale' = FALSE /\ target' = target /\ limit' = limit
      /\ saved' = saved /\ added' = added /\ flaws' = flaws
  BY DEF Open, Copy
<1>2. \/ /\ mode' = "open" /\ AppendText(s) /\ ideal' = CString(s)
         /\ quirks' = IF flaws = {} /\ added = <<>> THEN {} ELSE {"remnants"}
      \/ mode' = "blank" /\ UNCHANGED <<buffer, ideal, quirks>>
  BY DEF Open
<1>3. GetString' = s
  BY CopyKeeps DEF Open
<1>4. s \in Seq(Chars)
  BY DEF EditInv, TextTypes, GetString
<1>5. Empty /\ ideal = <<>> /\ quirks = {} /\ ~Odd
  BY <1>1 DEF EditInv, Shut, Odd
<1>6. TextTypes /\ limit \in [length : Nat, lines : Nat] /\ BufferTypes
  BY DEF EditInv, TextTypes
<1>7. sessions + 1 \in 0 .. MaxSessions /\ sessions \in Nat
  <2>1. MaxSessions \in Nat
    BY EditorAssumption
  <2> QED
    BY <1>1, <1>6, <2>1 DEF TextTypes
<1>8. TextNuls'
  <2> SUFFICES ASSUME flaws = {}, added = <<>>
               PROVE  Len(s) <= Len(CString(s)) + (sessions + 1)
    BY <1>1, <1>3 DEF TextNuls
  <2>1. Len(s) <= Len(CString(s)) + sessions
    BY DEF EditInv, TextNuls
  <2>2. Len(s) \in Nat /\ Len(CString(s)) \in Nat
    BY <1>4, CStringLength
  <2> HIDE DEF s
  <2> QED
    BY <1>7, <2>1, <2>2
<1>9. Copied'
  BY <1>1, <1>3 DEF EditInv, Copied
<1>10. CASE /\ mode' = "open" /\ AppendText(s) /\ ideal' = CString(s)
            /\ quirks' = IF flaws = {} /\ added = <<>> THEN {} ELSE {"remnants"}
  <2>0. flaws = {} /\ added = <<>> => Len(s) <= Len(CString(s)) + sessions
    BY DEF EditInv, TextNuls
  <2>1. TextTypes'
    BY <1>1, <1>4, <1>6, <1>7, <1>10 DEF TextTypes
  <2>2. Edited /\ data = <<>> /\ data \in Seq(Chars) /\ length \in Nat
        /\ Entries(lines, lines_count)
    BY <1>1, <1>5, <1>6 DEF EditInv, Working, Empty, BufferTypes
  <2> HIDE DEF s
  <2>3. CString(s) \in Plain /\ ideal \o CString(s) = CString(s) /\ Len(ideal) = 0
    <3>1. CString(s) \in Plain
      BY <1>4, CStringHolds
    <3> QED
      BY <1>5, <3>1 DEF Plain
  <2>4. /\ EditedAs(ideal \o CString(s)) /\ Limited(ideal \o CString(s))
        /\ lines_count' <= CountNewlines(ideal \o CString(s)) + 1
        /\ length' = Len(ideal) + Len(s) + 1
    BY <1>4, <1>6, <1>10, <2>2, AppendKeeps
  <2>5. EditedAs(ideal') /\ lines_count' <= CountNewlines(ideal') + 1
    BY <1>10, <2>3, <2>4
  <2>6. Limited(ideal)'
    BY <1>1, <1>10, <2>3, <2>4 DEF Limited
  <2>7. BufferTypes' /\ Edited' /\ NulKept'
    BY <2>5, <2>6, EditedNext
  <2>8. BufferNuls'
    <3>1. Len(s) \in Nat /\ Len(CString(s)) \in Nat
      BY <1>4, CStringLength
    <3>2. sessions' > 0 /\ length' = Len(s) + 1
      BY <1>1, <1>7, <2>3, <2>4, <3>1
    <3>3. quirks' = {} => flaws = {} /\ added = <<>>
      BY <1>10
    <3>4. Len(ideal') = Len(CString(s)) /\ sessions' = sessions + 1 /\ sessions \in Nat
      BY <1>1, <1>7, <1>10
    <3>5. quirks' = {} => length' <= Len(ideal') + sessions'
      BY <2>0, <3>1, <3>2, <3>3, <3>4
    <3> QED
      BY <3>2, <3>5 DEF BufferNuls
  <2> QED
    BY <1>8, <1>9, <1>10, <2>1, <2>7, <2>8 DEF EditInv, Shut, Working, UnderflowsUnended
<1>11. CASE mode' = "blank" /\ UNCHANGED <<buffer, ideal, quirks>>
  <2>1. /\ data' = data /\ length' = length /\ lines' = lines /\ lines_count' = lines_count
        /\ ideal' = ideal /\ quirks' = quirks
    BY <1>11 DEF buffer
  <2>2. TextTypes'
    BY <1>1, <1>4, <1>6, <1>7, <1>11, <2>1 DEF TextTypes
  <2>3. Empty' /\ ideal' = <<>>
    BY <1>5, <2>1 DEF Empty
  <2>4. BufferTypes' /\ Edited' /\ NulKept'
    BY <1>1, <1>6, <2>3, EmptiedNext
  <2>5. BufferNuls'
    BY <1>1, <1>5, <1>7, <2>1, NothingEdited DEF BufferNuls, Empty
  <2> QED
    BY <1>8, <1>9, <1>11, <2>2, <2>4, <2>5 DEF EditInv, Shut, Working, UnderflowsUnended
<1> QED
  BY <1>2, <1>10, <1>11

\* A line is typed.
LEMMA TypeKeeps ==
  ASSUME EditInv, NEW s \in Inputs, Type(s)
  PROVE  EditInv'
<1>1. s \in Plain /\ s \in Seq(Chars) /\ CString(s) = s
  <2>1. s \in Plain
    BY EditorAssumption DEF Plain
  <2> QED
    BY <2>1, PlainIs, PlainString
<1>2. /\ Editing /\ ~Odd /\ mode' = mode /\ quirks' = quirks /\ sessions' = sessions
      /\ UNCHANGED text /\ limit' = limit
      /\ \/ AppendText(s) /\ ideal' = ideal \o s
         \/ UNCHANGED <<buffer, ideal>>
  BY DEF Type, text
<1>3. mode \in {"open", "blank"}
  BY <1>2 DEF Editing
<1>4. Edited /\ TextTypes /\ BufferTypes /\ limit \in [length : Nat, lines : Nat]
  BY <1>2, <1>3 DEF EditInv, Working, TextTypes
<1>5. TextTypes' /\ Copied' /\ TextNuls'
  BY <1>2, <1>4, TextKept DEF TextTypes
<1>6. CASE AppendText(s) /\ ideal' = ideal \o s
  <2>1. /\ EditedAs(ideal \o CString(s)) /\ Limited(ideal \o CString(s))
        /\ lines_count' <= CountNewlines(ideal \o CString(s)) + 1
        /\ length' = Len(ideal) + Len(s) + 1
    BY <1>1, <1>4, <1>6, AppendKeeps DEF BufferTypes
  <2>2. EditedAs(ideal') /\ lines_count' <= CountNewlines(ideal') + 1
    BY <1>1, <1>6, <2>1
  <2>3. Limited(ideal)'
    BY <1>1, <1>2, <1>6, <2>1 DEF Limited
  <2>4. BufferTypes' /\ Edited' /\ NulKept'
    BY <2>2, <2>3, EditedNext
  <2>5. BufferNuls'
    <3>1. sessions \in Nat /\ sessions > 0
      BY <1>2, <1>4 DEF EditInv, BufferNuls, TextTypes
    <3>2. ideal \in Seq(Chars) /\ Len(ideal) \in Nat /\ Len(s) \in Nat
      <4>1. ideal \in Plain
        BY <1>4 DEF Edited
      <4> QED
        BY <1>1, <4>1, PlainIs
    <3>3. Len(ideal') = Len(ideal) + Len(s)
      BY <1>1, <1>6, <3>2
    <3>4. length' <= Len(ideal') + sessions
      BY <2>1, <3>1, <3>2, <3>3
    <3> QED
      BY <1>2, <3>1, <3>4 DEF BufferNuls
  <2> QED
    BY <1>2, <1>3, <1>5, <2>4, <2>5 DEF EditInv, Shut, Working, UnderflowsUnended
<1>7. CASE UNCHANGED <<buffer, ideal>>
  <2>1. BufferTypes' /\ Shut' /\ Working' /\ NulKept' /\ UnderflowsUnended' /\ BufferNuls'
    BY <1>2, <1>3, <1>4, <1>7, BufferKept
  <2> QED
    BY <1>5, <2>1 DEF EditInv
<1> QED
  BY <1>2, <1>6, <1>7

\* .d: a line is deleted.
LEMMA DeleteStep ==
  ASSUME EditInv, NEW i \in 0 .. MaxText, EditorCmdDelete(i)
  PROVE  EditInv'
<1>0. i \in Nat
  OBVIOUS
<1>1. /\ i <= lines_count /\ Editing /\ ~Odd
      /\ ideal' = Without(ideal, i) /\ UNCHANGED <<text, sessions>>
      /\ \/ After(Line(i)) > length /\ mode' = "underflow" /\ UNCHANGED buffer
         \/ /\ ~(After(Line(i)) > length) /\ UNCHANGED <<mode, length>>
            /\ data' = Move(data, length, Line(i).start, After(Line(i)))
            /\ Rebuild(data', length, i)
      /\ quirks \subseteq quirks' /\ "remnants" \in quirks'
      /\ quirks' \subseteq quirks \cup {"remnants", "past", "unended", "ghosts"}
  BY DeleteIs
<1>2. UNCHANGED text /\ limit' = limit /\ sessions' = sessions
  BY <1>1 DEF text
<1>3. mode \in {"open", "blank"}
  BY <1>1 DEF Editing
<1>4. /\ Edited /\ TextTypes /\ limit \in [length : Nat, lines : Nat]
      /\ data \in Seq(Chars) /\ length \in Nat /\ Entries(lines, lines_count)
  BY <1>1, <1>3 DEF EditInv, Working, TextTypes, BufferTypes
<1>5. TextTypes' /\ Copied' /\ TextNuls'
  <2>1. quirks' \subseteq {"remnants", "past", "unended", "ghosts"}
    BY <1>1, <1>4 DEF TextTypes
  <2>2. mode' \in {"closed", "open", "blank", "underflow"}
    BY <1>1, <1>3
  <2> QED
    BY <1>2, <2>1, <2>2, TextKept
<1>6. BufferNuls'
  <2>1. Editing /\ sessions > 0
    BY <1>1 DEF EditInv, BufferNuls
  <2> QED
    BY <1>1, <1>2, <2>1 DEF BufferNuls
<1>7. CASE After(Line(i)) > length /\ mode' = "underflow" /\ UNCHANGED buffer
  <2>1. /\ data' = data /\ length' = length /\ lines' = lines /\ lines_count' = lines_count
    BY <1>7 DEF buffer
  <2>2. BufferTypes'
    BY <1>4, <2>1 DEF BufferTypes
  <2>3. NulKept'
    BY <1>1, <2>1 DEF EditInv, NulKept
  <2>4. UnderflowsUnended'
    <3>1. CountNewlines(CString(data)) = 0 \/ "past" \in quirks'
      BY <1>0, <1>4, <1>7, UnderflowUnended
    <3> QED
      BY <2>1, <3>1 DEF UnderflowsUnended
  <2> QED
    BY <1>5, <1>6, <1>7, <2>2, <2>3, <2>4 DEF EditInv, Shut, Working
<1>8. CASE /\ ~(After(Line(i)) > length) /\ UNCHANGED <<mode, length>>
           /\ data' = Move(data, length, Line(i).start, After(Line(i)))
           /\ Rebuild(data', length, i)
  <2>1. mode' \in {"open", "blank"} /\ length' = length
    BY <1>3, <1>8
  <2>2. CASE Odd'
    <3>1. lines \in Seq(Spans) /\ lines_count \in 0 .. Len(lines) /\ Len(lines) \in Nat
          /\ (lines # <<>> => lines[1].start = 0)
      BY <1>4 DEF Entries
    <3>2. /\ Line(i).start \in Nat /\ After(Line(i)) \in Nat
          /\ Line(i).start <= After(Line(i)) /\ After(Line(i)) <= length
      <4>1. /\ Line(i).start \in Nat /\ After(Line(i)) \in Nat
            /\ Line(i).start < After(Line(i))
        BY <1>0, <3>1, LineFrom
      <4> QED
        BY <1>4, <1>8, <4>1
    <3>3. data' \in Seq(Chars)
      BY <1>4, <1>8, <3>2, MoveType
    <3>4. i \in 0 .. Len(lines)
      BY <1>0, <1>1, <3>1
    <3>5. Entries(lines', lines_count')
      BY <1>4, <1>8, <3>1, <3>4, RebuildTypes
    <3> QED
      BY <1>4, <1>5, <1>6, <2>1, <2>2, <3>3, <3>5
         DEF EditInv, BufferTypes, Shut, Working, NulKept, UnderflowsUnended
  <2>3. CASE ~Odd'
    <3>1. EditedAs(ideal') /\ Limited(ideal') /\ lines_count' <= CountNewlines(ideal') + 1
      BY <1>0, <1>4, <2>1, <2>3, DeleteKeeps
    <3>2. Limited(ideal)'
      BY <1>2, <3>1 DEF Limited
    <3>3. BufferTypes' /\ Edited' /\ NulKept'
      BY <3>1, <3>2, EditedNext
    <3> QED
      BY <1>5, <1>6, <2>1, <3>3 DEF EditInv, Shut, Working, UnderflowsUnended
  <2> QED
    BY <2>2, <2>3
<1> QED
  BY <1>1, <1>7, <1>8

\* .c: the buffer is emptied.
LEMMA ClearStep ==
  ASSUME EditInv, EditorCmdClear
  PROVE  EditInv'
<1>1. /\ Editing /\ mode' = mode /\ data' = <<>> /\ length' = 0 /\ Rebuild(<<>>, 0, 0)
      /\ ideal' = <<>> /\ quirks' = {} /\ sessions' = sessions /\ UNCHANGED text
      /\ limit' = limit
  BY DEF EditorCmdClear, text
<1>2. mode \in {"open", "blank"}
  BY <1>1 DEF Editing
<1>3. limit \in [length : Nat, lines : Nat] /\ Entries(lines, lines_count)
  BY DEF EditInv, TextTypes, BufferTypes
<1>4. TextTypes' /\ Copied' /\ TextNuls'
  BY <1>1, <1>2, TextKept
<1>5. lines \in Seq(Spans) /\ Len(lines) \in Nat /\ (lines # <<>> => lines[1].start = 0)
      /\ 0 \in 0 .. Len(lines) /\ 0 \in Nat
  BY <1>3 DEF Entries
<1>6. Entries(lines', lines_count')
  BY <1>1, <1>5, RebuildTypes
<1>7. Indexes(lines', lines_count', <<>>, 0)
  <2>1. Line(0).start = 0
    <3>1. 0 < Len(lines) => lines # <<>> /\ lines[0 + 1] = lines[1]
      OBVIOUS
    <3> QED
      BY <1>5, <3>1 DEF Line
  <2>2. FirstStart(0) = 0 /\ Chained(lines, 0)
    BY <1>5 DEF FirstStart, Chained
  <2>3. Ends(lines, 0) = <<>>
    BY DEF Ends
  <2>4. Marks(Ends(lines, 0), <<>>, 0, FirstStart(0))
    BY <2>2, <2>3, MarksNone
  <2>5. Line(0).start = FirstStart(0) /\ FirstStart(0) <= 0
    BY <2>1, <2>2
  <2> QED
    BY <1>1, <1>5, <2>2, <2>4, <2>5, NothingEdited, RebuildIndexes
<1>8. lines_count' = 0
  <2>1. lines' \in Seq(Spans) /\ lines_count' \in 0 .. Len(lines')
    BY <1>6 DEF Entries
  <2>2. Len(Ends(lines', lines_count')) = lines_count'
    BY <2>1, EndsType
  <2>3. Marks(Ends(lines', lines_count'), <<>>, 0, 0)
    BY <1>7 DEF Indexes, Unbroken
  <2>4. \A k \in 1 .. lines_count' : FALSE
    <3> DEFINE e == Ends(lines', lines_count')
    <3>1. \A k \in 1 .. Len(e) : e[k] \in Nat /\ e[k] < 0
      BY <2>3 DEF Marks, Rising
    <3> HIDE DEF e
    <3>2. \A k \in 1 .. Len(e) : FALSE
      BY <3>1
    <3> QED
      BY <2>2, <3>2 DEF e
  <2> QED
    BY <2>1, <2>4
<1>9. EditedAs(ideal')
  BY <1>1, <1>6, <1>7, NothingEdited DEF EditedAs
<1>10. Limited(ideal)'
  BY <1>1, <1>3, NothingEdited DEF Limited
<1>11. BufferTypes' /\ Edited' /\ NulKept'
  BY <1>1, <1>8, <1>9, <1>10, NothingEdited, EditedNext
<1>12. BufferNuls'
  <2>1. sessions > 0 /\ sessions \in Nat
    BY <1>1 DEF EditInv, BufferNuls, TextTypes
  <2> QED
    BY <1>1, <2>1, NothingEdited DEF BufferNuls
<1> QED
  BY <1>1, <1>2, <1>4, <1>11, <1>12 DEF EditInv, Shut, Working, UnderflowsUnended

\* What the editor saves is the text, up to its nul byte.
LEMMA ContentsHold ==
  ASSUME Edited, data \in Seq(Chars), length \in Nat
  PROVE  Contents \in Seq(Chars) /\ Len(Contents) = length /\ CString(Contents) = ideal
<1>1. /\ ideal \in Plain /\ Len(ideal) \in Nat /\ Len(ideal) <= length /\ Holds(data, ideal)
  BY EditedFacts
<1>2. /\ Contents \in Seq(Chars) /\ Len(Contents) = length
      /\ \A p \in 0 .. length - 1 : Byte(Contents, p) = Byte(data, 0 + p)
  BY BytesType DEF Contents
<1>3. \A p \in 0 .. Len(ideal) - 1 : Byte(Contents, p) = ideal[p + 1]
  <2> SUFFICES ASSUME NEW p \in 0 .. Len(ideal) - 1 PROVE Byte(Contents, p) = ideal[p + 1]
    OBVIOUS
  <2>1. p \in 0 .. length - 1 /\ 0 + p = p
    BY <1>1
  <2> QED
    BY <1>1, <1>2, <2>1 DEF Holds
<1>4. Byte(Contents, Len(ideal)) = NUL
  <2>1. CASE Len(ideal) < length
    <3>1. Len(ideal) \in 0 .. length - 1 /\ 0 + Len(ideal) = Len(ideal)
      BY <1>1, <2>1
    <3> QED
      BY <1>1, <1>2, <3>1 DEF Holds
  <2>2. CASE ~(Len(ideal) < length)
    <3>1. ~(Len(ideal) < Len(Contents))
      BY <1>2, <2>2
    <3> QED
      BY <3>1 DEF Byte
  <2> QED
    BY <2>1, <2>2
<1> QED
  BY <1>1, <1>2, <1>3, <1>4, CStringIs DEF Holds

\* .s: the text is saved.
LEMMA SaveStep ==
  ASSUME EditInv, EditorCmdSave
  PROVE  EditInv'
<1>1. /\ Editing /\ UNCHANGED <<mode, buffer, ideal, quirks>> /\ mode' = mode
      /\ quirks' = quirks /\ limit' = limit /\ sessions' = sessions /\ cached' = cached
      /\ target' = Contents /\ stale' = TRUE /\ saved' = ideal /\ added' = <<>>
      /\ flaws' = (IF Remnants THEN {"remnants"} ELSE {}) \cup (IF Odd THEN {"spoilt"} ELSE {})
  BY DEF EditorCmdSave, Stale
<1>2. mode \in {"open", "blank"}
  BY <1>1 DEF Editing
<1>3. /\ TextTypes /\ data \in Seq(Chars) /\ length \in Nat
      /\ limit \in [length : Nat, lines : Nat]
  BY DEF EditInv, BufferTypes, TextTypes
<1>4. Contents \in Seq(Chars)
  BY <1>3, BytesType DEF Contents
<1>5. TextTypes'
  BY <1>1, <1>3, <1>4, NothingEdited DEF TextTypes
<1>6. BufferTypes' /\ Shut' /\ Working' /\ NulKept' /\ UnderflowsUnended' /\ BufferNuls'
  BY <1>1, <1>2, <1>3, BufferKept
<1>7. GetString' = Contents
  BY <1>1 DEF GetString
<1>8. ASSUME ~Odd
      PROVE  ideal \in Plain /\ Len(Contents) = length /\ CString(Contents) = ideal
  <2>1. Edited
    BY <1>2, <1>8 DEF EditInv, Working
  <2> QED
    BY <1>3, <2>1, ContentsHold DEF Edited
<1>9. Copied'
  <2>1. "spoilt" \notin flaws' => ~Odd
    BY <1>1
  <2> QED
    BY <1>1, <1>7, <1>8, <2>1 DEF Copied
<1>10. TextNuls'
  <2>1. flaws' = {} => quirks = {} /\ ~Odd
    BY <1>1 DEF Remnants, Odd
  <2>2. quirks = {} => length <= Len(ideal) + sessions
    BY <1>1 DEF EditInv, BufferNuls
  <2> QED
    BY <1>1, <1>7, <1>8, <2>1, <2>2 DEF TextNuls
<1> QED
  BY <1>5, <1>6, <1>9, <1>10 DEF EditInv

\* The text stays as it was saved.
LEMMA CloseStep ==
  ASSUME EditInv, Close
  PROVE  EditInv'
<1>1. /\ mode' = "closed" /\ Empty' /\ ideal' = <<>> /\ quirks' = {}
      /\ UNCHANGED text /\ sessions' = sessions /\ limit' = limit
  BY DEF Close, Empty, text
<1>2. TextTypes' /\ Copied' /\ TextNuls'
  BY <1>1, TextKept
<1>3. BufferTypes' /\ Edited' /\ NulKept'
  BY <1>1, <1>2, EmptiedNext DEF TextTypes
<1> QED
  BY <1>1, <1>2, <1>3
     DEF EditInv, Shut, Working, UnderflowsUnended, BufferNuls, Editing

\* Nothing changes.
LEMMA EditStutters ==
  ASSUME EditInv, UNCHANGED vars
  PROVE  EditInv'
<1>1. /\ target' = target /\ cached' = cached /\ stale' = stale /\ limit' = limit
      /\ saved' = saved /\ added' = added /\ flaws' = flaws
      /\ sessions' = sessions /\ mode' = mode /\ data' = data
      /\ length' = length /\ lines' = lines /\ lines_count' = lines_count /\ ideal' = ideal
      /\ quirks' = quirks
  BY DEF vars, text, buffer
<1>2. BufferTypes' /\ TextTypes' /\ Shut'
  BY <1>1 DEF EditInv, BufferTypes, TextTypes, Shut, Empty
<1>3. Edited => Edited'
  BY <1>1 DEF Edited, Limited
<1>4. Working' /\ NulKept'
  BY <1>1, <1>3 DEF EditInv, Working, NulKept, Odd
<1>5. UnderflowsUnended' /\ BufferNuls'
  BY <1>1 DEF EditInv, UnderflowsUnended, BufferNuls, Editing
<1>6. Copied' /\ TextNuls'
  BY <1>1 DEF EditInv, Copied, TextNuls, GetString
<1> QED
  BY <1>2, <1>4, <1>5, <1>6 DEF EditInv

\* leditor.cpp:63-273: through every command, with however long a text, whatever its
\* limits, the buffer has the text that the commands ask for and a nul byte, and the
\* index has the place of every newline of the buffer, or the one line that no newline
\* has ended yet.
THEOREM EditorIndexed == Spec => []EditInv
<1>1. Init => EditInv
  BY InitEdits
<1>2. EditInv /\ [Next]_vars => EditInv'
  <2> SUFFICES ASSUME EditInv, [Next]_vars PROVE EditInv'
    OBVIOUS
  <2>1. ASSUME NEW s \in Strings, NEW l \in Limits, Assign(s, l) PROVE EditInv'
    BY <2>1, AssignKeeps
  <2>2. ASSUME NEW s \in Strings, AddAssign(s) PROVE EditInv'
    BY <2>2, AddAssignKeeps
  <2>3. CASE Read
    BY <2>3, ReadKeeps
  <2>4. CASE Open
    BY <2>4, OpenKeeps
  <2>5. ASSUME NEW s \in Inputs, Type(s) PROVE EditInv'
    BY <2>5, TypeKeeps
  <2>6. ASSUME NEW i \in 0 .. MaxText, EditorCmdDelete(i) PROVE EditInv'
    BY <2>6, DeleteStep
  <2>7. CASE EditorCmdClear
    BY <2>7, ClearStep
  <2>8. CASE EditorCmdSave
    BY <2>8, SaveStep
  <2>9. CASE Close
    BY <2>9, CloseStep
  <2>10. CASE UNCHANGED vars
    BY <2>10, EditStutters
  <2> QED
    BY <2>1, <2>2, <2>3, <2>4, <2>5, <2>6, <2>7, <2>8, <2>9, <2>10 DEF Next
<1> QED
  BY <1>1, <1>2, PTL DEF Spec

\* The newline at the end of a line is the only one of the line.
LEMMA LineAlone ==
  ASSUME NEW t \in Plain, NEW i \in Nat, NEW n, n = Newlines(t, 0, Len(t)), i < Len(n)
  PROVE  Newlines(t, StartOf(n, i), n[i + 1] + 1) = <<n[i + 1]>>
<1> DEFINE s == StartOf(n, i)
           e == n[i + 1]
           m == <<e>>
<1>0. Len(t) \in Nat
  BY PlainIs
<1>1. Marks(n, t, 0, Len(t))
  BY <1>0, NewlinesMark
<1>2. /\ Len(n) \in Nat /\ i + 1 \in 1 .. Len(n)
      /\ \A k \in 1 .. Len(n) : n[k] \in Nat /\ n[k] < Len(t) /\ Byte(t, n[k]) = NL
      /\ \A j, k \in 1 .. Len(n) : j < k => n[j] < n[k]
  BY <1>1 DEF Marks, Rising
<1>3. s \in Nat /\ e \in Nat /\ s <= e
  <2>1. i # 0 => i \in 1 .. Len(n) /\ n[i] < n[i + 1] /\ n[i] \in Nat
    BY <1>2
  <2> QED
    BY <1>2, <2>1 DEF StartOf
<1>4. ASSUME NEW p \in s .. (e + 1) - 1, Byte(t, p) = NL
      PROVE  p = e
  <2>1. p \in 0 .. Len(t) - 1
    BY <1>0, <1>2, <1>3
  <2>2. PICK k \in 1 .. Len(n) : n[k] = p
    BY <1>1, <1>4, <2>1 DEF Marks
  <2>3. ~(i + 1 < k)
    <3>1. i + 1 < k => n[i + 1] < n[k]
      BY <1>2
    <3> QED
      BY <1>2, <1>3, <2>2, <3>1
  <2>4. ~(k <= i)
    <3> SUFFICES ASSUME k <= i PROVE FALSE
      OBVIOUS
    <3>1. i \in 1 .. Len(n) /\ (k < i => n[k] < n[i])
      BY <1>2
    <3>2. s = n[i] + 1 /\ n[i] \in Nat
      BY <1>2, <3>1 DEF StartOf
    <3> QED
      BY <1>2, <1>3, <2>2, <3>1, <3>2
  <2> QED
    BY <1>2, <2>2, <2>3, <2>4
<1>5. Byte(t, e) = NL
  BY <1>2
<1> HIDE DEF s, e
<1>6. m \in Seq(Nat) /\ Len(m) = 1 /\ m[1] = e
  BY <1>3
<1> HIDE DEF m
<1>7. \A j, k \in 1 .. Len(m) : ~(j < k)
  BY <1>6
<1>8. Marks(m, t, s, e + 1)
  <2>1. \A k \in 1 .. Len(m) : s <= m[k] /\ m[k] < e + 1 /\ Byte(t, m[k]) = NL
    BY <1>3, <1>5, <1>6
  <2>2. \A p \in s .. (e + 1) - 1 : Byte(t, p) = NL => \E k \in 1 .. Len(m) : m[k] = p
    BY <1>4, <1>6
  <2> QED
    BY <1>6, <1>7, <2>1, <2>2 DEF Marks, Rising
<1>9. Newlines(t, s, e + 1) = m
  BY <1>3, <1>8, NewlinesAre
<1> QED
  BY <1>9 DEF s, e, m

\* What the index says of the lines of the text.
LEMMA EditedIndexed ==
  ASSUME Edited, BufferTypes
  PROVE  /\ CountNewlines(ideal) <= lines_count
         /\ \A i \in 0 .. CountNewlines(ideal) - 1 :
              /\ Line(i).start = IF i = 0 THEN 0 ELSE After(Line(i - 1))
              /\ Newlines(ideal, Line(i).start, After(Line(i)))
                   = <<Line(i).start + Line(i).length>>
<1> DEFINE n == Newlines(ideal, 0, Len(ideal))
           e == Ends(lines, lines_count)
           c == CountNewlines(ideal)
<1>1. data \in Seq(Chars) /\ length \in Nat /\ Entries(lines, lines_count)
  BY DEF BufferTypes
<1>2. ideal \in Plain /\ c \in Nat /\ c = Len(n)
  BY <1>1, EditedFacts DEF CountNewlines
<1>3. lines \in Seq(Spans) /\ lines_count \in Nat /\ lines_count <= Len(lines)
  BY <1>1 DEF Entries
<1>4. c <= lines_count
  BY <1>1, LinesIndexed
<1>5. ASSUME NEW i \in 0 .. c - 1
      PROVE  /\ Line(i).start = IF i = 0 THEN 0 ELSE After(Line(i - 1))
             /\ Newlines(ideal, Line(i).start, After(Line(i)))
                  = <<Line(i).start + Line(i).length>>
  <2>1. i \in Nat /\ i < c /\ i < lines_count /\ (i # 0 => i - 1 \in Nat /\ i - 1 < lines_count)
    BY <1>2, <1>3, <1>4
  <2>2. Indexes(lines, lines_count, data, length)
    BY DEF Edited
  <2>3. Marks(e, data, 0, length)
    <3>1. ~Unbroken(lines, lines_count, data, length)
      BY <1>1, <1>2, <2>1, LinesIndexed
    <3> QED
      BY <2>2, <3>1 DEF Indexes
  <2>4. Line(i).start = FirstStart(i)
    BY <1>1, <2>1, <2>2, IndexPrefix
  <2>5. After(Line(i)) = e[i + 1] + 1 /\ e[i + 1] \in Nat
    BY <1>1, <2>1, <2>3, LineEnd
  <2>6. i # 0 => After(Line(i - 1)) = e[i] + 1
    <3> SUFFICES ASSUME i # 0 PROVE After(Line(i - 1)) = e[i] + 1
      OBVIOUS
    <3>1. i - 1 \in Nat /\ i - 1 < lines_count /\ (i - 1) + 1 = i
      BY <2>1
    <3>2. After(Line(i - 1)) = e[(i - 1) + 1] + 1
      BY <1>1, <2>3, <3>1, LineEnd
    <3> QED
      BY <3>1, <3>2
  <2>7. \A k \in 1 .. c : e[k] = n[k]
    BY <1>1, <2>3, LinesIndexed
  <2>8. e[i + 1] = n[i + 1] /\ (i # 0 => e[i] = n[i])
    <3>1. i + 1 \in 1 .. c /\ (i # 0 => i \in 1 .. c)
      BY <1>2
    <3> QED
      BY <2>7, <3>1
  <2> HIDE DEF n, e, c
  <2>9. FirstStart(i) = IF i = 0 THEN 0 ELSE After(Line(i - 1))
    BY DEF FirstStart
  <2>10. Line(i).start = StartOf(n, i)
    BY <2>4, <2>6, <2>8, <2>9 DEF StartOf
  <2>11. Newlines(ideal, StartOf(n, i), n[i + 1] + 1) = <<n[i + 1]>>
    BY <1>2, <2>1, LineAlone DEF n
  <2>12. Line(i).start + Line(i).length = e[i + 1]
    <3>1. Line(i).start \in Nat /\ Line(i).length \in Nat
      BY <1>3, <2>1, LineType
    <3>2. After(Line(i)) = Line(i).start + Line(i).length + 1
      BY DEF After
    <3>3. \A a, b, d \in Nat : a + b + 1 = d + 1 => a + b = d
      OBVIOUS
    <3>4. e[i + 1] \in Nat /\ Line(i).start + Line(i).length + 1 = e[i + 1] + 1
      BY <2>5, <3>2
    <3> QED
      BY <3>1, <3>3, <3>4
  <2> QED
    BY <2>4, <2>5, <2>8, <2>9, <2>10, <2>11, <2>12
<1> QED
  BY <1>4, <1>5

\* The invariant has the invariants that are asked for.
LEMMA EditInvImplies ==
  ASSUME EditInv
  PROVE  Inv /\ Faithful /\ SavedKept
<1>1. TypeOK
  <2>1. lines \in Seq(Spans) /\ lines_count \in 0 .. Len(lines)
    BY DEF EditInv, BufferTypes, Entries
  <2>2. \A k \in DOMAIN lines : lines[k].start \in Nat /\ lines[k].length \in Nat
    <3> SUFFICES ASSUME NEW k \in DOMAIN lines
                 PROVE  lines[k].start \in Nat /\ lines[k].length \in Nat
      OBVIOUS
    <3>1. lines[k] \in Spans
      BY <2>1
    <3> QED
      BY <3>1 DEF Spans
  <2>3. lines_count \in Nat /\ lines_count <= Len(lines)
    BY <2>1
  <2> QED
    BY <2>2, <2>3 DEF EditInv, TypeOK, TextTypes, BufferTypes, NulKept
<1>2. ASSUME Editing, ~Odd
      PROVE  Edited /\ CString(data) = ideal
  <2>1. Edited /\ data \in Seq(Chars) /\ length \in Nat
    BY <1>2 DEF EditInv, Working, BufferTypes, Editing
  <2> QED
    BY <2>1, EditedFacts
<1>3. Faithful
  BY <1>2 DEF Faithful
<1>4. WithinLimits
  BY <1>2 DEF WithinLimits, Edited, Limited
<1>5. Indexed
  <2> SUFFICES ASSUME Editing, ~Odd
               PROVE  /\ CountNewlines(ideal) <= lines_count
                      /\ \A i \in 0 .. CountNewlines(ideal) - 1 :
                           /\ Line(i).start = IF i = 0 THEN 0 ELSE After(Line(i - 1))
                           /\ Newlines(ideal, Line(i).start, After(Line(i)))
                                = <<Line(i).start + Line(i).length>>
    BY DEF Indexed
  <2>1. Edited /\ BufferTypes
    BY <1>2 DEF EditInv
  <2> QED
    BY <2>1, EditedIndexed
<1>6. SavedKept
  BY DEF EditInv, Copied, SavedKept
<1>7. RefusedAtLimit
  <2> SUFFICES ASSUME mode = "closed", flaws = {}, added = <<>>, ~Fits(GetString)
               PROVE  Len(CString(GetString)) + sessions > limit.length
    BY DEF RefusedAtLimit
  <2> DEFINE g == GetString
  <2>1. length = 0 /\ limit.length \in Nat /\ sessions \in Nat /\ g \in Seq(Chars)
    BY DEF EditInv, Shut, Empty, TextTypes, GetString
  <2>2. Len(g) <= Len(CString(g)) + sessions
    BY DEF EditInv, TextNuls
  <2>3. ~(Len(g) + length <= limit.length)
    BY DEF Fits
  <2>4. Len(g) \in Nat /\ Len(CString(g)) \in Nat
    BY <2>1, CStringLength
  <2> HIDE DEF g
  <2>5. Len(CString(g)) + sessions > limit.length
    BY <2>1, <2>2, <2>3, <2>4
  <2> QED
    BY <2>5 DEF g
<1> QED
  BY <1>1, <1>3, <1>4, <1>5, <1>6, <1>7 DEF EditInv, Inv

\* leditor.cpp:63-273: the numbers that .p shows in front of lines are those of the lines,
\* which are within the limits of the text, and no line ends beyond the buffer unless
\* the text had no newline at its end: in every editor, also in one that could not load the
\* text, which happens to a text without remnants of lines only at its limit.
THEOREM EditorSafe == Spec => []Inv
BY EditorIndexed, EditInvImplies, PTL

\* charvector.c:124, leditor.cpp:252-273: up to its first nul byte the buffer is the
\* text that the commands ask for, whatever deleted lines have left behind it: that of an
\* editor that could not load the text is what was typed into it.
THEOREM EditorFaithful == Spec => []Faithful
BY EditorIndexed, EditInvImplies, PTL

\* editabletext.cpp:121-163: what is read and opened next is what an editor or a script saved
\* last, or that with what a script has added since, unless a deletion was an odd one.
THEOREM EditorSaves == Spec => []SavedKept
BY EditorIndexed, EditInvImplies, PTL
=============================================================================
