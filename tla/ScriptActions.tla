---------------------------- MODULE ScriptActions ----------------------------
(***************************************************************************)
(* What becomes of an action that a script queues (nativeactor.cpp,        *)
(* as_api.cpp): the script object is referenced once more, a package that  *)
(* points to it is allocated in the memory pool of the actor, goes to the  *)
(* thread pool, at once or by way of the actor's queue, and is run by a    *)
(* worker on a context of the context pool.  The worker frees the package  *)
(* and after that reads from it which object it has to release.            *)
(*                                                                         *)
(* A block that has been freed may be allocated again: the lists of free   *)
(* blocks are last in, first out (AllocPool).  A package outlives its      *)
(* actor when the scripts let go of the actor and its queue is empty.      *)
(***************************************************************************)
EXTENDS ContextPool, Sequences, FiniteSetsExt, Functions

CONSTANTS
    Commands,  \* the addresses of script objects that are actions
    Actors,    \* the addresses of actors
    Blocks     \* how many packages an actor has room for: bounds the packages

ASSUME ScriptAssumption ==
    /\ IsFiniteSet(Commands) /\ IsFiniteSet(Actors) /\ Blocks \in Nat \ {0}
    /\ None \notin Commands

Packages == Actors \X (1 .. Blocks)
Owner(p) == p[1]

VARIABLES
    crefs,  \* the references to each command, 0 when it is not there
    kept,   \* commands a script has a handle of
    alive,  \* actors that have not been deleted
    held,   \* actors a script has a handle of
    active, \* actors in the set of the scheduler
    free,   \* the free blocks of each actor's pool, the next one first
    pkg,    \* the field cmd of each block
    queue,  \* packages in the actors' queues
    tasks,  \* packages in the thread pool
    job,    \* what each worker has taken, and whether it has freed it
    stray   \* what has gone wrong

avars == <<alive, held, active>>
bvars == <<free, pkg>>
pvars == <<queue, tasks, job>>
svars == <<cvars, crefs, kept, avars, bvars, pvars, stray>>

NoJob == [pkg |-> None, cmd |-> None, freed |-> FALSE]
Jobs == {t \in Threads : job[t] # NoJob}
\* The packages somebody has or will come to have.
Out == queue \cup tasks \cup {job[t].pkg : t \in {u \in Jobs : ~job[u].freed}}
\* The objects these are about, as they were queued.
About(c) == {p \in queue \cup tasks : pkg[p] = c}
Running(c) == {t \in Jobs : job[t].cmd = c}

-----------------------------------------------------------------------------
(* Variants of the definitions below, each with a bug it could have had.   *)

\* What is queued stays in the queue when it is handed over.
StaysQueued(ready) == queue

\* A package is freed twice.
PushTwice(p) == [free EXCEPT ![Owner(p)] = <<p[2], p[2]>> \o @]

\* After an object has been released that is not there, or memory used that is
\* gone, a package or an array of the context pool, anything may happen: the
\* model stops, and the properties say what holds up to there.
Sound == stray \subseteq {"mixed"} /\ astray = {}

-----------------------------------------------------------------------------
(* What a script does while a thread runs it.                              *)

InScript(t) == Sound /\ at[t] = "run"

\* It makes a command, at an address nothing points to, and lets go of one.
Make(t, c) ==
    /\ InScript(t) /\ crefs[c] = 0 /\ c \notin kept
    /\ About(c) = {} /\ Running(c) = {}
    /\ crefs' = [crefs EXCEPT ![c] = 1] /\ kept' = kept \cup {c}
    /\ UNCHANGED <<cvars, avars, bvars, pvars, stray>>

Drop(t, c) ==
    /\ InScript(t) /\ c \in kept
    /\ crefs' = [crefs EXCEPT ![c] = IF @ = 0 THEN 0 ELSE @ - 1]
    /\ kept' = kept \ {c}
    /\ stray' = IF crefs[c] = 0 THEN stray \cup {"overreleased"} ELSE stray
    /\ UNCHANGED <<cvars, avars, bvars, pvars>>

\* NativeActor: the constructor adds the actor to the active ones.
Create(t, a) ==
    /\ InScript(t) /\ a \notin alive /\ \A p \in Out : Owner(p) # a
    /\ \A u \in Jobs : Owner(job[u].pkg) # a
    /\ alive' = alive \cup {a} /\ held' = held \cup {a}
    /\ active' = active \cup {a}
    /\ free' = [free EXCEPT ![a] = [i \in 1 .. Blocks |-> i]]
    /\ pkg' = [p \in Packages |-> IF Owner(p) = a THEN None ELSE pkg[p]]
    /\ UNCHANGED <<cvars, crefs, kept, pvars, stray>>

\* The last handle of the scripts: if the scheduler has no reference either,
\* the actor is deleted, and then nothing of it is queued (QueuedAlive).
LetGo(t, a) ==
    /\ InScript(t) /\ a \in held
    /\ held' = held \ {a}
    /\ alive' = IF a \in active THEN alive ELSE alive \ {a}
    /\ UNCHANGED <<cvars, crefs, kept, active, bvars, pvars, stray>>

\* NativeActor::QueueScriptAction: AddRef, MemoryPool_Alloc, the fields, and
\* the package is on its way: straight to the thread pool when there is no
\* delay, which does not make the actor active, or by QueueAction.
AddRef(c) == [crefs EXCEPT ![c] = @ + 1]

QueueScriptAction(t, a, c, delayed) ==
    LET p == <<a, Head(free[a])>> IN
    /\ InScript(t) /\ a \in held /\ c \in kept /\ crefs[c] > 0
    /\ free[a] # <<>>
    /\ crefs' = AddRef(c)
    /\ free' = [free EXCEPT ![a] = Tail(@)]
    /\ pkg' = [pkg EXCEPT ![p] = c]
    /\ \/ /\ ~delayed /\ tasks' = tasks \cup {p}
          /\ UNCHANGED <<queue, active>>
       \/ /\ delayed /\ queue' = queue \cup {p} /\ active' = active \cup {a}
          /\ UNCHANGED tasks
    /\ UNCHANGED <<cvars, kept, alive, held, job, stray>>

-----------------------------------------------------------------------------
(* The scheduler: what is due of one actor is handed over, and the actor   *)
(* is released when nothing is left of its queue.                          *)

Left(ready) == queue \ ready
Drained(a, ready) == {p \in queue : Owner(p) = a} \subseteq ready

HandOver(a, ready) ==
    /\ Sound /\ a \in active /\ ready \subseteq {p \in queue : Owner(p) = a}
    /\ tasks' = tasks \cup ready /\ queue' = Left(ready)
    /\ active' = IF Drained(a, ready) THEN active \ {a} ELSE active
    /\ alive' = IF Drained(a, ready) /\ a \notin held THEN alive \ {a} ELSE alive
    /\ UNCHANGED <<cvars, crefs, kept, held, bvars, job, stray>>

-----------------------------------------------------------------------------
(* ASAPI_RunScriptAction, and the callbacks that use a context as well.    *)

Take(t) ==
    /\ Sound /\ at[t] = "idle" /\ job[t] = NoJob
    /\ \E p \in tasks :
         /\ tasks' = tasks \ {p}
         /\ job' = [job EXCEPT ![t] = [pkg |-> p, cmd |-> pkg[p], freed |-> FALSE]]
         /\ stray' = IF Owner(p) \in alive THEN stray ELSE stray \cup {"orphaned"}
    /\ UNCHANGED <<cvars, crefs, kept, avars, bvars, queue>>

\* The context is taken, used and given back.
Context(t) ==
    /\ Sound /\ (Lock(t) \/ UseContext(t))
    /\ UNCHANGED <<crefs, kept, avars, bvars, pvars, stray>>

Callback(t) ==
    /\ Sound /\ job[t] = NoJob /\ Done(t)
    /\ UNCHANGED <<crefs, kept, avars, bvars, pvars, stray>>

\* MemoryPool_Free: of a pool that is gone, nobody knows.
Push(p) == [free EXCEPT ![Owner(p)] = <<p[2]>> \o @]

FreePackage(t) ==
    LET p == job[t].pkg IN
    /\ Sound /\ at[t] = "returned" /\ t \in Jobs /\ ~job[t].freed
    /\ job' = [job EXCEPT ![t].freed = TRUE]
    /\ IF Owner(p) \in alive
       THEN free' = Push(p) /\ UNCHANGED stray
       ELSE stray' = stray \cup {"orphaned"} /\ UNCHANGED free
    /\ UNCHANGED <<cvars, crefs, kept, avars, pkg, queue, tasks>>

\* pPkg->cmd->Release(), of what the block says now.
Says(p) == IF Owner(p) \in alive THEN {pkg[p]} ELSE Commands

ReleaseCommand(t) ==
    /\ Sound /\ t \in Jobs /\ job[t].freed /\ Done(t)
    /\ job' = [job EXCEPT ![t] = NoJob]
    /\ \E c \in Says(job[t].pkg) :
         /\ crefs' = [crefs EXCEPT ![c] = IF @ = 0 THEN 0 ELSE @ - 1]
         /\ stray' = stray
              \cup (IF c # job[t].cmd THEN {"mixed"} ELSE {})
              \cup (IF crefs[c] = 0 THEN {"overreleased"} ELSE {})
              \cup (IF Owner(job[t].pkg) \notin alive THEN {"orphaned"} ELSE {})
    /\ UNCHANGED <<kept, avars, bvars, queue, tasks>>

-----------------------------------------------------------------------------
\* No actors and no commands yet; the threads are idle.
ScriptInit ==
    /\ ContextInit
    /\ crefs = [c \in Commands |-> 0] /\ kept = {}
    /\ alive = {} /\ held = {} /\ active = {}
    /\ free = [a \in Actors |-> <<>>]
    /\ pkg = [p \in Packages |-> None]
    /\ queue = {} /\ tasks = {}
    /\ job = [t \in Threads |-> NoJob]
    /\ stray = {}

Script(t) ==
    \/ \E c \in Commands : Make(t, c) \/ Drop(t, c)
    \/ \E a \in Actors : Create(t, a) \/ LetGo(t, a)
    \/ \E a \in Actors, c \in Commands, delayed \in BOOLEAN :
         QueueScriptAction(t, a, c, delayed)

ScriptNext ==
    \/ \E t \in Threads :
         \/ Script(t)
         \/ Take(t) \/ Context(t) \/ Callback(t)
         \/ FreePackage(t) \/ ReleaseCommand(t)
    \/ \E a \in Actors : \E ready \in SUBSET queue : HandOver(a, ready)

ScriptSpec == ScriptInit /\ [][ScriptNext]_svars

-----------------------------------------------------------------------------
(* Properties.                                                             *)

Bit(b) == IF b THEN 1 ELSE 0

\* Every variable keeps its type.
ScriptTypeOK ==
    /\ crefs \in [Commands -> Nat] /\ kept \subseteq Commands
    /\ alive \subseteq Actors /\ held \subseteq Actors /\ active \subseteq Actors
    /\ \A a \in Actors : free[a] \in Seq(1 .. Blocks)
    /\ pkg \in [Packages -> Commands \cup {None}]
    /\ queue \subseteq Packages /\ tasks \subseteq Packages
    /\ \A t \in Jobs : job[t].pkg \in Packages /\ job[t].cmd \in Commands
    /\ stray \subseteq {"mixed", "overreleased", "orphaned"}

\* nativeactor.cpp:121, as_api.cpp:53: a block that is in a queue, in the pool
\* or with a worker is in one of these places only, is not free, and is free
\* once if it is; and until a worker frees its block, the block says what the
\* worker has run.
OnePlace ==
    /\ queue \cap tasks = {}
    /\ \A t \in Jobs : ~job[t].freed =>
         /\ job[t].pkg \notin queue \cup tasks
         /\ \A u \in Jobs \ {t} : ~job[u].freed => job[u].pkg # job[t].pkg
         /\ Owner(job[t].pkg) \in alive => pkg[job[t].pkg] = job[t].cmd
    /\ \A a \in alive :
         /\ IsInjective(free[a])
         /\ \A i \in Range(free[a]) : <<a, i>> \notin Out

\* nativeactor.cpp:120, as_api.cpp:54: as long as no release has gone astray,
\* an object has one reference for the script and one for every package that is
\* about it, so that what a worker runs is there.
CommandsCounted ==
    stray = {} => \A c \in Commands :
        crefs[c] = Bit(c \in kept) + Cardinality(About(c)) + Cardinality(Running(c))

\* as_api.cpp:53: when a freed package is reused and another object than the one
\* that ran is released, what one object loses another keeps for ever: together
\* they have as many references as there are handles and packages.
Balanced ==
    Sound =>
        FoldFunctionOnSet(LAMBDA n, sum : n + sum, 0, crefs, Commands)
          = Cardinality(kept) + Cardinality(queue) + Cardinality(tasks) + Cardinality(Jobs)

\* nativeactor.cpp:97, action_scheduler.cpp:150: an actor lives as long as a
\* script or the scheduler refers to it, and the scheduler does while anything
\* of it is queued; so a package that outlives its actor is one handed over.
QueuedAlive ==
    /\ alive = held \cup active
    /\ \A p \in queue : Owner(p) \in active

\* nativeactor.cpp:84-148, as_api.cpp:28-57: a package is in one place from the
\* script that queues it to the worker that frees it, its actor lives until it
\* is handed over, and its object until a release goes astray.
ScriptsSafe == ScriptTypeOK /\ OnePlace /\ CommandsCounted /\ QueuedAlive
=============================================================================
