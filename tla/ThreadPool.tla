------------------------------ MODULE ThreadPool ------------------------------
(***************************************************************************)
(* The server's thread pool (threadpool.c): a priority queue of task       *)
(* blocks under one mutex, one condition variable, a fixed set of workers, *)
(* and any number of threads that submit tasks: the main thread, the tick  *)
(* thread, the action scheduler and the tasks themselves.                  *)
(*                                                                         *)
(* The steps are those another thread can tell apart.  What happens under  *)
(* the mutex in one go is one step; setting and reading bIsRunning,        *)
(* signalling and broadcasting are steps of their own because the code     *)
(* does them without the mutex.  The heap is a set from which any block of *)
(* smallest priority may be extracted: module PrioQ shows that this is     *)
(* what the heap promises, and that it promises no order among equals.     *)
(***************************************************************************)
EXTENDS Integers, FiniteSets

CONSTANTS
  Workers,    \* the threads ThreadPool_Init creates
  Owner,      \* the main thread: it submits tasks and destroys the pool
  Callers,    \* the other threads that submit tasks: ticks, action scheduler
  Blocks,     \* the task blocks of alloc_pool; the bound on live tasks
  Prios,      \* the priorities callers pass: 0 for actions, 1 for user input
  None        \* no thread, no block

ASSUME ThreadAssumption ==
  /\ IsFiniteSet(Workers) /\ IsFiniteSet(Callers)
  /\ Workers \cap Callers = {}
  /\ Owner \notin Workers \cup Callers
  /\ None \notin Workers \cup Callers \cup {Owner}

ASSUME BlockAssumption ==
  /\ IsFiniteSet(Blocks)
  /\ None \notin Blocks
  /\ Prios \subseteq Int

Threads == Workers \cup Callers \cup {Owner}

VARIABLES
  running,    \* bIsRunning
  phase,      \* how far ThreadPool_Destroy has come
  mutex,      \* who holds prio_queue_mutex from one of its steps to the next
  queue,      \* the blocks in prio_queue
  free,       \* the blocks on the free list of alloc_pool
  task,       \* the contents of each block, and who owns its pArgs
  pc,         \* where each worker is in ThreadPool_WorkerThreadFunc
  held,       \* the block each worker extracted: its pTask
  add,        \* where each thread is in ThreadPool_AddTask
  mine        \* the block that call is submitting: CreateTask's result

vars == <<running, phase, mutex, queue, free, task, pc, held, add, mine>>

(***************************************************************************)
(* A block's task.  "pool": the pool owns pArgs.  "released": releasefn    *)
(* was called on pArgs.  "mistaken": releasefn was called on the block     *)
(* itself and pArgs will never be released.  The contents of a free block  *)
(* are never read and are reset to Blank.                                  *)
(***************************************************************************)
Task == [prio : Prios, rel : BOOLEAN, args : {"pool", "released", "mistaken"}]

Blank == None

Minimal(S) == {b \in S : \A c \in S : task[b].prio <= task[c].prio}

Waiting == {w \in Workers : pc[w] = "waiting"}

Init ==
  /\ running = TRUE
  /\ phase = "up"
  /\ mutex = None
  /\ queue = {}
  /\ free = Blocks
  /\ task = [b \in Blocks |-> Blank]
  /\ pc = [w \in Workers |-> "lock"]
  /\ held = [w \in Workers |-> None]
  /\ add = [t \in Threads |-> "idle"]
  /\ mine = [t \in Threads |-> None]

-----------------------------------------------------------------------------
(* Faulty variants of the steps below, each the step with a plausible slip. *)
(* No specification uses them; they show that the properties can fail.      *)

\* The block goes back to the pool before releasefn has been called.
RunThenFree(w) ==
  /\ pc[w] = "run"
  /\ add[w] = "idle"
  /\ free' = free \cup {held[w]}
  /\ pc' = [pc EXCEPT ![w] = "release"]
  /\ UNCHANGED <<running, phase, mutex, queue, task, held, add, mine>>

\* Signal only if the queue was empty: the workers are awake otherwise, are they?
InsertSignalIfEmpty(t) ==
  /\ phase # "destroyed"
  /\ add[t] = "insert"
  /\ mutex = None
  /\ queue' = queue \cup {mine[t]}
  /\ mine' = [mine EXCEPT ![t] = None]
  /\ add' = [add EXCEPT ![t] = IF queue = {} THEN "signal" ELSE "idle"]
  /\ UNCHANGED <<running, phase, mutex, free, task, pc, held>>

\* The signal is forgotten.
InsertNoSignal(t) ==
  /\ phase # "destroyed"
  /\ add[t] = "insert"
  /\ mutex = None
  /\ queue' = queue \cup {mine[t]}
  /\ mine' = [mine EXCEPT ![t] = None]
  /\ add' = [add EXCEPT ![t] = "idle"]
  /\ UNCHANGED <<running, phase, mutex, free, task, pc, held>>

\* The worker takes the first block it finds instead of the most urgent one.
TakeAny(w) ==
  /\ pc[w] = "check"
  /\ running
  /\ \E b \in queue :
       /\ queue' = queue \ {b}
       /\ held' = [held EXCEPT ![w] = b]
  /\ mutex' = None
  /\ pc' = [pc EXCEPT ![w] = "run"]
  /\ UNCHANGED <<running, phase, free, task, add, mine>>

\* pthread_cond_signal where a broadcast is needed.
BroadcastOne ==
  /\ phase = "broadcast"
  /\ \/ Waiting = {} /\ UNCHANGED pc
     \/ \E w \in Waiting : pc' = [pc EXCEPT ![w] = "woken"]
  /\ phase' = "join"
  /\ UNCHANGED <<running, mutex, queue, free, task, held, add, mine>>

-----------------------------------------------------------------------------
(* ThreadPool_WorkerThreadFunc                                             *)

\* Lock, then the loop test: sleep if there is no task and the pool runs.
Acquire(w) ==
  /\ pc[w] \in {"lock", "woken"}
  /\ mutex = None
  /\ mutex' = w
  /\ pc' = [pc EXCEPT ![w] = IF queue = {} /\ running THEN "sleep" ELSE "check"]
  /\ UNCHANGED <<running, phase, queue, free, task, held, add, mine>>

\* pthread_cond_wait: the worker joins the waiters as it gives up the mutex.
Wait(w) ==
  /\ pc[w] = "sleep"
  /\ mutex' = None
  /\ pc' = [pc EXCEPT ![w] = "waiting"]
  /\ UNCHANGED <<running, phase, queue, free, task, held, add, mine>>

\* POSIX lets pthread_cond_wait return without a signal.
SpuriousWake(w) ==
  /\ pc[w] = "waiting"
  /\ pc' = [pc EXCEPT ![w] = "woken"]
  /\ UNCHANGED <<running, phase, mutex, queue, free, task, held, add, mine>>

\* bIsRunning is read a second time: stop with the queue as it is.
Exit(w) ==
  /\ pc[w] = "check"
  /\ ~running
  /\ mutex' = None
  /\ pc' = [pc EXCEPT ![w] = "exited"]
  /\ UNCHANGED <<running, phase, queue, free, task, held, add, mine>>

\* Extract the next task and unlock.
Take(w) ==
  /\ pc[w] = "check"
  /\ running
  /\ \E b \in Minimal(queue) :
       /\ queue' = queue \ {b}
       /\ held' = [held EXCEPT ![w] = b]
  /\ mutex' = None
  /\ pc' = [pc EXCEPT ![w] = "run"]
  /\ UNCHANGED <<running, phase, free, task, add, mine>>

\* taskfn(pArgs) returns; meanwhile it may have submitted tasks itself.
Run(w) ==
  /\ pc[w] = "run"
  /\ add[w] = "idle"
  /\ pc' = [pc EXCEPT ![w] = "release"]
  /\ UNCHANGED <<running, phase, mutex, queue, free, task, held, add, mine>>

\* releasefn(pArgs), if there is one.
Release(w) ==
  /\ pc[w] = "release"
  /\ task' = IF task[held[w]].rel
             THEN [task EXCEPT ![held[w]].args = "released"]
             ELSE task
  /\ pc' = [pc EXCEPT ![w] = "free"]
  /\ UNCHANGED <<running, phase, mutex, queue, free, held, add, mine>>

\* AllocPool_Free(pTask), and round the loop.
FreeBlock(w) ==
  /\ pc[w] = "free"
  /\ free' = free \cup {held[w]}
  /\ task' = [task EXCEPT ![held[w]] = Blank]
  /\ held' = [held EXCEPT ![w] = None]
  /\ pc' = [pc EXCEPT ![w] = "lock"]
  /\ UNCHANGED <<running, phase, mutex, queue, add, mine>>

WorkerStep(w) ==
  Acquire(w) \/ Wait(w) \/ Exit(w) \/ Take(w) \/ Run(w) \/ Release(w) \/ FreeBlock(w)

-----------------------------------------------------------------------------
(* ThreadPool_AddTask.  A worker calls it from inside a task.  A call on  *)
(* a destroyed pool is an error of the caller's and outside this module.   *)

MayCall(t) ==
  \/ t \in Callers
  \/ t = Owner /\ phase = "up"
  \/ t \in Workers /\ pc[t] = "run"

\* CreateTask: take a block and fill it in.
Create(t, p, r) ==
  /\ phase # "destroyed"
  /\ add[t] = "idle"
  /\ MayCall(t)
  /\ \E b \in free :
       /\ free' = free \ {b}
       /\ task' = [task EXCEPT ![b] = [prio |-> p, rel |-> r, args |-> "pool"]]
       /\ mine' = [mine EXCEPT ![t] = b]
  /\ add' = [add EXCEPT ![t] = "insert"]
  /\ UNCHANGED <<running, phase, mutex, queue, pc, held>>

\* Insert the block under the mutex.
Insert(t) ==
  /\ phase # "destroyed"
  /\ add[t] = "insert"
  /\ mutex = None
  /\ queue' = queue \cup {mine[t]}
  /\ mine' = [mine EXCEPT ![t] = None]
  /\ add' = [add EXCEPT ![t] = "signal"]
  /\ UNCHANGED <<running, phase, mutex, free, task, pc, held>>

\* pthread_cond_signal, after the unlock: wake one waiter, if there is one.
Signal(t) ==
  /\ phase # "destroyed"
  /\ add[t] = "signal"
  /\ \/ /\ Waiting = {}
        /\ UNCHANGED pc
     \/ \E w \in Waiting : pc' = [pc EXCEPT ![w] = "woken"]
  /\ add' = [add EXCEPT ![t] = "idle"]
  /\ UNCHANGED <<running, phase, mutex, queue, free, task, held, mine>>

AddStep(t) == Insert(t) \/ Signal(t)

-----------------------------------------------------------------------------
(* ThreadPool_Destroy, by the thread that owns the pool.                   *)

\* ThreadPool_Stop clears the flag without taking the mutex...
StopFlag ==
  /\ phase = "up"
  /\ add[Owner] = "idle"
  /\ running' = FALSE
  /\ phase' = "broadcast"
  /\ UNCHANGED <<mutex, queue, free, task, pc, held, add, mine>>

\* ...and broadcasts without taking it either.
Broadcast ==
  /\ phase = "broadcast"
  /\ pc' = [w \in Workers |-> IF pc[w] = "waiting" THEN "woken" ELSE pc[w]]
  /\ phase' = "join"
  /\ UNCHANGED <<running, mutex, queue, free, task, held, add, mine>>

\* pthread_join on every worker, then lock the queue for good.
JoinAll ==
  /\ phase = "join"
  /\ \A w \in Workers : pc[w] = "exited"
  /\ mutex = None
  /\ mutex' = Owner
  /\ phase' = "drain"
  /\ UNCHANGED <<running, queue, free, task, pc, held, add, mine>>

\* One turn of the drain loop: releasefn gets the block instead of pArgs, and
\* the pointer it then clears is the one the loop goes on by.
Drain ==
  /\ phase = "drain"
  /\ \/ /\ queue = {}
        /\ phase' = "destroyed"
        /\ UNCHANGED <<queue, task>>
     \/ \E b \in Minimal(queue) :
          /\ queue' = queue \ {b}
          /\ IF task[b].rel
             THEN /\ task' = [task EXCEPT ![b].args = "mistaken"]
                  /\ phase' = "destroyed"
             ELSE UNCHANGED <<task, phase>>
  /\ UNCHANGED <<running, mutex, free, pc, held, add, mine>>

OwnerStep == Broadcast \/ JoinAll \/ Drain

-----------------------------------------------------------------------------
Next ==
  \/ \E w \in Workers : WorkerStep(w) \/ SpuriousWake(w)
  \/ \E t \in Threads : AddStep(t)
  \/ \E t \in Threads, p \in Prios, r \in BOOLEAN : Create(t, p, r)
  \/ StopFlag
  \/ OwnerStep

Spec == Init /\ [][Next]_vars

(***************************************************************************)
(* Every thread keeps running: a worker makes the steps open to it, a call *)
(* of ThreadPool_AddTask finishes, and a call of ThreadPool_Destroy goes   *)
(* on.  Nobody has to submit, to stop the pool, or to wake by chance.      *)
(***************************************************************************)
Fairness ==
  /\ \A w \in Workers : WF_vars(WorkerStep(w))
  /\ \A t \in Threads : WF_vars(AddStep(t))
  /\ WF_vars(OwnerStep)

FairSpec == Spec /\ Fairness

-----------------------------------------------------------------------------
(***************************************************************************)
(*                                PROPERTIES                               *)
(***************************************************************************)

Stage == {"lock", "sleep", "waiting", "woken", "check", "run", "release",
          "free", "exited"}

TypeOK ==
  /\ running \in BOOLEAN
  /\ phase \in {"up", "broadcast", "join", "drain", "destroyed"}
  /\ mutex \in Workers \cup {Owner, None}
  /\ queue \subseteq Blocks
  /\ free \subseteq Blocks
  /\ task \in [Blocks -> Task \cup {Blank}]
  /\ pc \in [Workers -> Stage]
  /\ held \in [Workers -> Blocks \cup {None}]
  /\ add \in [Threads -> {"idle", "insert", "signal"}]
  /\ mine \in [Threads -> Blocks \cup {None}]

(***************************************************************************)
(* A task block is in one place: on the free list, being filled in by one  *)
(* caller, in the queue, or held by one worker.  So no task is run twice,  *)
(* none is overwritten while it waits or runs, and none is freed twice,    *)
(* whichever way callers and workers interleave.                           *)
(***************************************************************************)
OneOwner ==
  /\ free \cap queue = {}
  /\ \A w \in Workers : held[w] \notin free \cup queue
  /\ \A t \in Threads : mine[t] \notin free \cup queue
  /\ \A w \in Workers, t \in Threads : held[w] = mine[t] => held[w] = None
  /\ \A v, w \in Workers : held[v] = held[w] => v = w \/ held[v] = None
  /\ \A s, t \in Threads : mine[s] = mine[t] => s = t \/ mine[s] = None

(***************************************************************************)
(* AddTask signals once, after the unlock, and the signal is lost if no    *)
(* worker waits at that moment.  It is enough all the same: while a worker *)
(* sleeps, every queued task is spoken for, by a worker on its way to the  *)
(* queue or by a caller that has yet to signal.  Never does a task wait    *)
(* for a busy worker while another one sleeps.                             *)
(***************************************************************************)
Seeking   == {w \in Workers : pc[w] \in {"lock", "woken", "check"}}
Signalling == {t \in Threads : add[t] = "signal"}

NoIdleWorker ==
  running /\ Waiting # {}
    => Cardinality(queue) <= Cardinality(Seeking) + Cardinality(Signalling)

(***************************************************************************)
(* While the pool exists a block goes back to alloc_pool only after its    *)
(* pArgs have been handed to releasefn, when there is one: "the threadpool *)
(* takes ownership" of args (threadpool.h).                                *)
(***************************************************************************)
ReleasedBeforeFree ==
  [][\A b \in free' \ free : task[b].rel => task[b].args = "released"]_vars

(***************************************************************************)
(* No worker touches the queue, a block or the condition variable once     *)
(* Destroy starts to tear them down, and a task a worker has begun is      *)
(* finished and released before that.                                      *)
(***************************************************************************)
QuietTeardown ==
  phase \in {"drain", "destroyed"} =>
    \A w \in Workers : pc[w] = "exited" /\ held[w] = None /\ add[w] = "idle"

(***************************************************************************)
(* How the program counters, the mutex and the stages of Destroy belong    *)
(* together: the part of the inductive invariant that the properties above *)
(* rest on.  The last two lines are the point of taking the mutex: between *)
(* finding the queue empty and waiting, and between finding a task and     *)
(* extracting it, no other thread changes the queue.                       *)
(***************************************************************************)
Control ==
  /\ running <=> phase = "up"
  /\ mutex = Owner <=> phase \in {"drain", "destroyed"}
  /\ \A w \in Workers :
       /\ mutex = w <=> pc[w] \in {"sleep", "check"}
       /\ held[w] # None <=> pc[w] \in {"run", "release", "free"}
       /\ pc[w] # "run" => add[w] = "idle"
       /\ pc[w] = "exited" => ~running
       /\ mutex = Owner => pc[w] = "exited"
       /\ pc[w] = "sleep" => queue = {}
       /\ pc[w] = "check" => queue # {} \/ ~running
  /\ \A t \in Threads : mine[t] # None <=> add[t] = "insert"

(***************************************************************************)
(* What is known of the pArgs of a block at each stage of its life.        *)
(***************************************************************************)
ArgsStage ==
  /\ \A b \in queue : task[b] \in Task /\ task[b].args = "pool"
  /\ \A t \in Threads :
       add[t] = "insert" => task[mine[t]] \in Task /\ task[mine[t]].args = "pool"
  /\ \A w \in Workers :
       /\ pc[w] \in {"run", "release"} =>
            task[held[w]] \in Task /\ task[held[w]].args = "pool"
       /\ pc[w] = "free" =>
            task[held[w]] \in Task /\ (task[held[w]].rel => task[held[w]].args = "released")

(***************************************************************************)
(* From creation through Destroy (threadpool.c:14-190): a block has one    *)
(* owner, its pArgs are as far as that owner, and the joins leave Destroy  *)
(* alone with what it tears down.  None of the parts is inductive without  *)
(* the others.                                                             *)
(***************************************************************************)
Inv == TypeOK /\ OneOwner /\ Control /\ ArgsStage /\ QuietTeardown

(***************************************************************************)
(* The pool implements the task service: the queue is what is pending and  *)
(* a worker executes from the extraction of a block to its return to the   *)
(* free list.                                                              *)
(***************************************************************************)
Urgency == [b \in Blocks |-> IF b \in queue THEN task[b].prio ELSE None]

Service == INSTANCE TaskService WITH
  Tasks <- Blocks,
  open <- running,
  pending <- queue,
  prio <- Urgency,
  exec <- held

ImplementsService == Service!Spec

(***************************************************************************)
(* When submissions cease and nobody stops the pool, the backlog is        *)
(* executed to the last task, of every priority.                           *)
(***************************************************************************)
BacklogExecuted ==
  <>[](running /\ \A t \in Threads : add[t] = "idle") =>
    <>[](queue = {} /\ \A w \in Workers : held[w] = None)

(***************************************************************************)
(* Destroy gets past its joins if no worker was between finding the queue  *)
(* empty and waiting when the flag was cleared: busy and sleeping workers  *)
(* all notice.                                                             *)
(***************************************************************************)
StopJoins ==
  (phase = "broadcast" /\ \A w \in Workers : pc[w] # "sleep") ~> phase \in {"drain", "destroyed"}

(***************************************************************************)
(* threadpool.c:95 says of the drain that it burns through the remaining   *)
(* tasks "so that we release all resources": none is left in the queue,    *)
(* and no releasefn has got a block for its arguments.                     *)
(***************************************************************************)
DrainReleases ==
  phase = "destroyed" =>
    /\ queue = {}
    /\ \A b \in Blocks : task[b] # Blank => task[b].args # "mistaken"
=============================================================================
