-------------------------- MODULE ThreadPoolProofs --------------------------
(***************************************************************************)
(* Proofs about ThreadPool for any finite sets of threads and blocks and   *)
(* any integer priorities; in the second part about AllocPool, which the   *)
(* blocks of its tasks come from, for any size and any growth; and in the  *)
(* third about PrioQ, the heap that orders its tasks, for any integer keys *)
(* and any length a word has room for.                                     *)
(***************************************************************************)
EXTENDS ThreadPool, AllocPool, PrioQ, FiniteSetTheorems, TLAPS

(***************************************************************************)
(* The inductive invariant.  None of its parts is inductive alone: that a  *)
(* worker frees a block and not None needs Control, that the block it      *)
(* releases holds a task needs ArgsStage, and that no caller overwrites    *)
(* that task needs OneOwner.                                               *)
(***************************************************************************)
IInv == TypeOK /\ OneOwner /\ Control /\ ArgsStage

(***************************************************************************)
(* A pool as ThreadPool_Init leaves it satisfies the invariant.            *)
(***************************************************************************)
LEMMA InitIInv == Init => IInv
  <1> SUFFICES ASSUME Init PROVE IInv
    OBVIOUS
  <1> USE ThreadAssumption, BlockAssumption DEF Init
  <1>1. TypeOK  BY DEF TypeOK, Threads, Stage
  <1>2. OneOwner  BY DEF OneOwner, Threads
  <1>3. Control  BY DEF Control, Threads
  <1>4. ArgsStage  BY DEF ArgsStage, Threads
  <1> QED  BY <1>1, <1>2, <1>3, <1>4 DEF IInv

(***************************************************************************)
(* Every step of a worker, of a caller of AddTask and of Destroy preserves *)
(* the invariant.                                                          *)
(***************************************************************************)
LEMMA StepIInv == IInv /\ [Next]_vars => IInv'
  <1> SUFFICES ASSUME TypeOK, OneOwner, Control, ArgsStage, [Next]_vars
               PROVE  IInv'
    BY DEF IInv
  <1> USE ThreadAssumption, BlockAssumption DEF Threads, Stage
  <1>1. ASSUME NEW w \in Workers, Acquire(w)
        PROVE  IInv'
    <2>1. TypeOK'  BY <1>1 DEF Acquire, TypeOK
    <2>2. OneOwner'  BY <1>1 DEF Acquire, TypeOK, OneOwner
    <2>3. Control'  BY <1>1 DEF Acquire, TypeOK, Control
    <2>4. ArgsStage'  BY <1>1 DEF Acquire, TypeOK, ArgsStage
    <2> QED  BY <2>1, <2>2, <2>3, <2>4 DEF IInv
  <1>2. ASSUME NEW w \in Workers, Wait(w)
        PROVE  IInv'
    <2>1. TypeOK'  BY <1>2 DEF Wait, TypeOK
    <2>2. OneOwner'  BY <1>2 DEF Wait, TypeOK, OneOwner
    <2>3. Control'  BY <1>2 DEF Wait, TypeOK, Control
    <2>4. ArgsStage'  BY <1>2 DEF Wait, TypeOK, ArgsStage
    <2> QED  BY <2>1, <2>2, <2>3, <2>4 DEF IInv
  <1>3. ASSUME NEW w \in Workers, SpuriousWake(w)
        PROVE  IInv'
    <2>1. TypeOK'  BY <1>3 DEF SpuriousWake, TypeOK
    <2>2. OneOwner'  BY <1>3 DEF SpuriousWake, TypeOK, OneOwner
    <2>3. Control'  BY <1>3 DEF SpuriousWake, TypeOK, Control
    <2>4. ArgsStage'  BY <1>3 DEF SpuriousWake, TypeOK, ArgsStage
    <2> QED  BY <2>1, <2>2, <2>3, <2>4 DEF IInv
  <1>4. ASSUME NEW w \in Workers, Exit(w)
        PROVE  IInv'
    <2>1. TypeOK'  BY <1>4 DEF Exit, TypeOK
    <2>2. OneOwner'  BY <1>4 DEF Exit, TypeOK, OneOwner
    <2>3. Control'  BY <1>4 DEF Exit, TypeOK, Control
    <2>4. ArgsStage'  BY <1>4 DEF Exit, TypeOK, ArgsStage
    <2> QED  BY <2>1, <2>2, <2>3, <2>4 DEF IInv
  <1>5. ASSUME NEW w \in Workers, Take(w)
        PROVE  IInv'
    <2>1. TypeOK'  BY <1>5 DEF Take, TypeOK, Minimal
    <2>2. OneOwner'  BY <1>5 DEF Take, TypeOK, OneOwner, Minimal
    <2>3. Control'  BY <1>5 DEF Take, TypeOK, Control, Minimal
    <2>4. ArgsStage'  BY <1>5 DEF Take, TypeOK, ArgsStage, Minimal, Control
    <2> QED  BY <2>1, <2>2, <2>3, <2>4 DEF IInv
  <1>6. ASSUME NEW w \in Workers, Run(w)
        PROVE  IInv'
    <2>1. TypeOK'  BY <1>6 DEF Run, TypeOK
    <2>2. OneOwner'  BY <1>6 DEF Run, TypeOK, OneOwner
    <2>3. Control'  BY <1>6 DEF Run, TypeOK, Control
    <2>4. ArgsStage'  BY <1>6 DEF Run, TypeOK, ArgsStage, Control
    <2> QED  BY <2>1, <2>2, <2>3, <2>4 DEF IInv
  <1>7. ASSUME NEW w \in Workers, Release(w)
        PROVE  IInv'
    <2>1. TypeOK'  BY <1>7 DEF Release, TypeOK, Task, ArgsStage, Control
    <2>2. OneOwner'  BY <1>7 DEF Release, TypeOK, OneOwner
    <2>3. Control'  BY <1>7 DEF Release, TypeOK, Control
    <2>4. ArgsStage'  BY <1>7 DEF Release, TypeOK, ArgsStage, Task, OneOwner, Control
    <2> QED  BY <2>1, <2>2, <2>3, <2>4 DEF IInv
  <1>8. ASSUME NEW w \in Workers, FreeBlock(w)
        PROVE  IInv'
    <2>1. TypeOK'  BY <1>8 DEF FreeBlock, TypeOK, Control, Blank
    <2>2. OneOwner'  BY <1>8 DEF FreeBlock, TypeOK, OneOwner, Control
    <2>3. Control'  BY <1>8 DEF FreeBlock, TypeOK, Control
    <2>4. ArgsStage'  BY <1>8 DEF FreeBlock, TypeOK, ArgsStage, OneOwner, Control
    <2> QED  BY <2>1, <2>2, <2>3, <2>4 DEF IInv
  <1>9. ASSUME NEW t \in Threads, NEW p \in Prios, NEW r \in BOOLEAN, Create(t, p, r)
        PROVE  IInv'
    <2>1. TypeOK'  BY <1>9 DEF Create, TypeOK, Task
    <2>2. OneOwner'  BY <1>9 DEF Create, TypeOK, OneOwner
    <2>3. Control'  BY <1>9 DEF Create, TypeOK, Control, MayCall
    <2>4. ArgsStage'  BY <1>9 DEF Create, TypeOK, ArgsStage, Task, OneOwner, Control
    <2> QED  BY <2>1, <2>2, <2>3, <2>4 DEF IInv
  <1>10. ASSUME NEW t \in Threads, Insert(t)
         PROVE  IInv'
    <2>1. TypeOK'  BY <1>10 DEF Insert, TypeOK, Control
    <2>2. OneOwner'  BY <1>10 DEF Insert, TypeOK, OneOwner, Control
    <2>3. Control'  BY <1>10 DEF Insert, TypeOK, Control
    <2>4. ArgsStage'  BY <1>10 DEF Insert, TypeOK, ArgsStage, Control
    <2> QED  BY <2>1, <2>2, <2>3, <2>4 DEF IInv
  <1>11. ASSUME NEW t \in Threads, Signal(t)
         PROVE  IInv'
    <2>1. TypeOK'  BY <1>11 DEF Signal, TypeOK, Waiting
    <2>2. OneOwner'  BY <1>11 DEF Signal, TypeOK, OneOwner, Waiting
    <2>3. Control'  BY <1>11 DEF Signal, TypeOK, Control, Waiting
    <2>4. ArgsStage'  BY <1>11 DEF Signal, TypeOK, ArgsStage, Waiting
    <2> QED  BY <2>1, <2>2, <2>3, <2>4 DEF IInv
  <1>12. CASE StopFlag
    <2>1. TypeOK'  BY <1>12 DEF StopFlag, TypeOK
    <2>2. OneOwner'  BY <1>12 DEF StopFlag, TypeOK, OneOwner
    <2>3. Control'  BY <1>12 DEF StopFlag, TypeOK, Control
    <2>4. ArgsStage'  BY <1>12 DEF StopFlag, TypeOK, ArgsStage
    <2> QED  BY <2>1, <2>2, <2>3, <2>4 DEF IInv
  <1>13. CASE Broadcast
    <2>1. TypeOK'  BY <1>13 DEF Broadcast, TypeOK
    <2>2. OneOwner'  BY <1>13 DEF Broadcast, TypeOK, OneOwner
    <2>3. Control'  BY <1>13 DEF Broadcast, TypeOK, Control
    <2>4. ArgsStage'  BY <1>13 DEF Broadcast, TypeOK, ArgsStage
    <2> QED  BY <2>1, <2>2, <2>3, <2>4 DEF IInv
  <1>14. CASE JoinAll
    <2>1. TypeOK'  BY <1>14 DEF JoinAll, TypeOK
    <2>2. OneOwner'  BY <1>14 DEF JoinAll, TypeOK, OneOwner
    <2>3. Control'  BY <1>14 DEF JoinAll, TypeOK, Control
    <2>4. ArgsStage'  BY <1>14 DEF JoinAll, TypeOK, ArgsStage
    <2> QED  BY <2>1, <2>2, <2>3, <2>4 DEF IInv
  <1>15. CASE Drain
    <2>1. TypeOK'  BY <1>15 DEF Drain, TypeOK, Minimal, Task, ArgsStage
    <2>2. OneOwner'  BY <1>15 DEF Drain, TypeOK, OneOwner, Minimal
    <2>3. Control'
      <3>1. phase' \in {"drain", "destroyed"}  BY <1>15 DEF Drain
      <3>2. UNCHANGED <<running, mutex, pc, held, add, mine>>  BY <1>15 DEF Drain
      <3>3. phase = "drain" /\ mutex = Owner  BY <1>15 DEF Drain, Control
      <3>4. \A w \in Workers : pc[w] = "exited"  BY <3>3 DEF Control
      <3> QED  BY <3>1, <3>2, <3>3, <3>4 DEF Control
    <2>4. ArgsStage'  BY <1>15 DEF Drain, TypeOK, ArgsStage, Minimal, Control, OneOwner, Task
    <2> QED  BY <2>1, <2>2, <2>3, <2>4 DEF IInv
  <1>16. CASE UNCHANGED vars
    BY <1>16 DEF vars, IInv, TypeOK, OneOwner, Control, ArgsStage
  <1> QED
    BY <1>1, <1>2, <1>3, <1>4, <1>5, <1>6, <1>7, <1>8, <1>9, <1>10, <1>11,
       <1>12, <1>13, <1>14, <1>15, <1>16
    DEF Next, WorkerStep, AddStep, OwnerStep

(***************************************************************************)
(* The invariant holds in every state the pool can reach.                  *)
(***************************************************************************)
THEOREM Inductive == Spec => []IInv
  BY InitIInv, StepIInv, PTL DEF Spec

(***************************************************************************)
(* Every variable of the pool keeps its type.                              *)
(***************************************************************************)
THEOREM TypeCorrect == Spec => []TypeOK
  BY Inductive, PTL DEF IInv

(***************************************************************************)
(* No task block is ever in two places.                                    *)
(***************************************************************************)
THEOREM BlocksOwned == Spec => []OneOwner
  BY Inductive, PTL DEF IInv

(***************************************************************************)
(* Program counters, mutex and stages of Destroy always belong together:   *)
(* between a test of the queue and what a worker does about it, nobody     *)
(* else changes it.                                                        *)
(***************************************************************************)
THEOREM ControlKept == Spec => []Control
  BY Inductive, PTL DEF IInv

(***************************************************************************)
(* The arguments of a task are with the caller, the queue, a worker or     *)
(* released, as the place of the task says.                                *)
(***************************************************************************)
THEOREM ArgsFollow == Spec => []ArgsStage
  BY Inductive, PTL DEF IInv

(***************************************************************************)
(* Destroy tears nothing down that a worker still uses: when it drains the *)
(* queue, every worker has exited with its task finished and released.     *)
(***************************************************************************)
THEOREM TeardownQuiet == Spec => []QuietTeardown
  <1>1. IInv => QuietTeardown
    BY ThreadAssumption DEF IInv, Control, QuietTeardown
  <1> QED  BY <1>1, Inductive, PTL

(***************************************************************************)
(* While workers run, no block goes back to alloc_pool before its          *)
(* releasefn has had the pArgs.                                            *)
(***************************************************************************)
THEOREM BlocksReleased == Spec => ReleasedBeforeFree
  <1>1. IInv /\ [Next]_vars =>
          [\A b \in free' \ free : task[b].rel => task[b].args = "released"]_vars
    <2> SUFFICES ASSUME IInv, Next, NEW b \in free' \ free
                 PROVE  task[b].rel => task[b].args = "released"
      OBVIOUS
    <2>1. PICK w \in Workers : FreeBlock(w)
      BY DEF Next, WorkerStep, AddStep, OwnerStep, Acquire, Wait, SpuriousWake, Exit, Take, Run,
             Release, Create, Insert, Signal, StopFlag, Broadcast, JoinAll, Drain
    <2>2. b = held[w] /\ pc[w] = "free"  BY <2>1 DEF FreeBlock
    <2> QED  BY <2>2 DEF IInv, ArgsStage
  <1> QED  BY <1>1, Inductive, PTL DEF Spec, ReleasedBeforeFree

-----------------------------------------------------------------------------
(***************************************************************************)
(* The pool implements TaskService: Insert is Accept, Take is Start,       *)
(* FreeBlock is Finish, StopFlag is Close and Drain is Drop; every other   *)
(* step changes nothing a caller can see.                                  *)
(***************************************************************************)
THEOREM Refinement == Spec => ImplementsService
  <1> USE ThreadAssumption, BlockAssumption
  <1>1. Init => Service!Init
    BY DEF Init, Service!Init, Urgency
  <1>2. IInv /\ [Next]_vars => [Service!Next]_(Service!vars)
    <2> SUFFICES ASSUME TypeOK, OneOwner, Control, ArgsStage, [Next]_vars
                 PROVE  Service!Next \/ UNCHANGED <<running, queue, Urgency, held>>
      BY DEF IInv, Service!vars
    <2>1. ASSUME UNCHANGED <<running, queue, held>>, \A b \in queue : task'[b].prio = task[b].prio
          PROVE  UNCHANGED <<running, queue, Urgency, held>>
      BY <2>1 DEF Urgency
    <2>2. ASSUME NEW w \in Workers, Acquire(w) \/ Wait(w) \/ SpuriousWake(w) \/ Exit(w) \/ Run(w)
          PROVE  UNCHANGED <<running, queue, Urgency, held>>
      BY <2>1, <2>2 DEF Acquire, Wait, SpuriousWake, Exit, Run
    <2>3. ASSUME NEW w \in Workers, Take(w)
          PROVE  Service!Next
      <3>1. PICK b \in Minimal(queue) : queue' = queue \ {b} /\ held' = [held EXCEPT ![w] = b]
        BY <2>3 DEF Take
      <3>2. b \in Blocks /\ b \in queue /\ \A c \in queue : task[b].prio <= task[c].prio
        BY <3>1 DEF Minimal, TypeOK
      <3>3. Urgency' = [Urgency EXCEPT ![b] = None]
        BY <2>3, <3>1, <3>2 DEF Take, Urgency
      <3>4. \A c \in queue : Urgency[b] <= Urgency[c]
        BY <3>2 DEF Urgency, TypeOK
      <3>5. held[w] = None
        BY <2>3 DEF Take, Control
      <3>6. Service!Start(w, b)
        BY <2>3, <3>1, <3>2, <3>3, <3>4, <3>5 DEF Take, Service!Start
      <3> QED  BY <3>2, <3>6 DEF Service!Next
    <2>4. ASSUME NEW w \in Workers, Release(w)
          PROVE  UNCHANGED <<running, queue, Urgency, held>>
      <3>1. \A b \in queue : b # held[w]
        BY DEF OneOwner
      <3>2. \A b \in queue : task'[b].prio = task[b].prio
        BY <2>4, <3>1 DEF Release, TypeOK
      <3> QED  BY <2>1, <2>4, <3>2 DEF Release
    <2>5. ASSUME NEW w \in Workers, FreeBlock(w)
          PROVE  Service!Next
      <3>1. \A b \in queue : b # held[w]
        BY DEF OneOwner
      <3>2. Urgency' = Urgency
        BY <2>5, <3>1 DEF FreeBlock, Urgency, TypeOK
      <3>3. Service!Finish(w)
        BY <2>5, <3>2 DEF FreeBlock, Control, Service!Finish
      <3> QED  BY <3>3 DEF Service!Next
    <2>6. ASSUME NEW t \in Threads, NEW p \in Prios, NEW r \in BOOLEAN, Create(t, p, r)
          PROVE  UNCHANGED <<running, queue, Urgency, held>>
      <3>1. \A b \in queue : task'[b] = task[b]
        BY <2>6 DEF Create, TypeOK, OneOwner
      <3> QED  BY <2>1, <2>6, <3>1 DEF Create
    <2>7. ASSUME NEW t \in Threads, Insert(t)
          PROVE  Service!Next
      <3> DEFINE b == mine[t]
                 p == task[b].prio
      <3>1. b \in Blocks /\ b \notin queue
        BY <2>7 DEF Insert, Control, TypeOK, OneOwner
      <3>2. p \in Prios
        BY <2>7 DEF Insert, ArgsStage, Task
      <3>3. b \notin Service!Executing
        BY <3>1 DEF OneOwner, Service!Executing
      <3>4. Urgency' = [Urgency EXCEPT ![b] = p]
        BY <2>7, <3>1 DEF Insert, Urgency, TypeOK
      <3>5. Service!Accept(b, p)
        BY <2>7, <3>1, <3>3, <3>4 DEF Insert, Service!Accept
      <3> QED  BY <3>1, <3>2, <3>5 DEF Service!Next
    <2>8. ASSUME NEW t \in Threads, Signal(t)
          PROVE  UNCHANGED <<running, queue, Urgency, held>>
      BY <2>1, <2>8 DEF Signal
    <2>9. CASE StopFlag
      <3>1. Urgency' = Urgency  BY <2>9 DEF StopFlag, Urgency
      <3>2. Service!Close  BY <2>9, <3>1 DEF StopFlag, Service!Close, Control, TypeOK
      <3> QED  BY <3>2 DEF Service!Next
    <2>10. CASE Broadcast \/ JoinAll
      BY <2>1, <2>10 DEF Broadcast, JoinAll
    <2>11. CASE Drain
      <3>1. CASE queue = {}
        BY <2>1, <2>11, <3>1 DEF Drain, Minimal
      <3>2. ASSUME NEW b \in Minimal(queue), queue' = queue \ {b},
                   \A c \in queue \ {b} : task'[c] = task[c]
            PROVE  Service!Next
        <4>1. b \in Blocks /\ b \in queue
          BY DEF Minimal, TypeOK
        <4>2. Urgency' = [Urgency EXCEPT ![b] = None]
          BY <3>2, <4>1 DEF Urgency
        <4>3. ~running /\ \A w \in Workers : held[w] = None
          BY <2>11 DEF Drain, Control
        <4>4. Service!Executing = {}
          BY <4>3 DEF Service!Executing
        <4>5. Service!Drop(b)
          BY <2>11, <3>2, <4>1, <4>2, <4>3, <4>4 DEF Drain, Service!Drop
        <4> QED  BY <4>1, <4>5 DEF Service!Next
      <3>3. CASE queue # {}
        <4>1. PICK b \in Minimal(queue) :
                /\ queue' = queue \ {b}
                /\ task' = [task EXCEPT ![b].args = "mistaken"] \/ task' = task
          BY <2>11, <3>3 DEF Drain
        <4>2. \A c \in queue \ {b} : task'[c] = task[c]
          BY <4>1 DEF TypeOK
        <4> QED  BY <3>2, <4>1, <4>2
      <3> QED  BY <3>1, <3>3
    <2>12. CASE UNCHANGED vars
      BY <2>1, <2>12 DEF vars
    <2> QED
      BY <2>2, <2>3, <2>4, <2>5, <2>6, <2>7, <2>8, <2>9, <2>10, <2>11, <2>12
      DEF Next, WorkerStep, AddStep, OwnerStep
  <1> QED
    BY <1>1, <1>2, Inductive, PTL DEF Spec, ImplementsService, Service!Spec

-----------------------------------------------------------------------------
(***************************************************************************)
(* One signal per task, sent after the unlock, is enough.  The counts on   *)
(* both sides of NoIdleWorker move together: Insert adds a task and a      *)
(* signal to come, Signal turns that into a worker on its way, and Take    *)
(* removes a task and such a worker.  A worker goes to sleep only when the *)
(* queue is empty, and Control keeps it empty until the worker waits.      *)
(***************************************************************************)
\* What NoIdleWorker counts is finite.
LEMMA CountsFinite ==
  ASSUME TypeOK
  PROVE  /\ IsFiniteSet(queue) /\ IsFiniteSet(Seeking) /\ IsFiniteSet(Signalling)
         /\ Cardinality(queue) \in Nat
         /\ Cardinality(Seeking) \in Nat
         /\ Cardinality(Signalling) \in Nat
  <1>1. IsFiniteSet(Threads)
    BY ThreadAssumption, FS_Union, FS_AddElement DEF Threads
  <1>2. IsFiniteSet(queue)
    BY BlockAssumption, FS_Subset DEF TypeOK
  <1>3. IsFiniteSet(Seeking)
    BY ThreadAssumption, FS_Subset DEF Seeking
  <1>4. IsFiniteSet(Signalling)
    BY <1>1, FS_Subset DEF Signalling
  <1> QED  BY <1>2, <1>3, <1>4, FS_CardinalityType

(***************************************************************************)
(* Every step preserves NoIdleWorker in a state that satisfies the         *)
(* invariant.                                                              *)
(***************************************************************************)
LEMMA StepNoIdleWorker == IInv /\ NoIdleWorker /\ [Next]_vars => NoIdleWorker'
  <1> SUFFICES ASSUME IInv, NoIdleWorker, [Next]_vars, running', Waiting' # {}
               PROVE  Cardinality(queue') <= Cardinality(Seeking') + Cardinality(Signalling')
    BY DEF NoIdleWorker
  <1>t. TypeOK /\ TypeOK' /\ Control /\ OneOwner
    BY StepIInv DEF IInv
  <1>f. /\ IsFiniteSet(queue) /\ IsFiniteSet(Seeking) /\ IsFiniteSet(Signalling)
        /\ Cardinality(queue) \in Nat
        /\ Cardinality(Seeking) \in Nat
        /\ Cardinality(Signalling) \in Nat
    BY <1>t, CountsFinite
  <1>g. Cardinality(Seeking') \in Nat /\ Cardinality(Signalling') \in Nat
    <2>1. IsFiniteSet(Threads)
      BY ThreadAssumption, FS_Union, FS_AddElement DEF Threads
    <2>2. IsFiniteSet(Seeking') /\ IsFiniteSet(Signalling')
      BY <2>1, ThreadAssumption, FS_Subset DEF Seeking, Signalling
    <2> QED  BY <2>2, FS_CardinalityType
  <1>e. ASSUME queue' = {}
        PROVE  Cardinality(queue') <= Cardinality(Seeking') + Cardinality(Signalling')
    BY <1>e, <1>g, FS_EmptySet
  <1>s. ASSUME running, Waiting # {},
               Cardinality(queue') = Cardinality(queue),
               Cardinality(Seeking') >= Cardinality(Seeking),
               Signalling' = Signalling
        PROVE  Cardinality(queue') <= Cardinality(Seeking') + Cardinality(Signalling')
    BY <1>s, <1>f, <1>g DEF NoIdleWorker
  <1>1. ASSUME NEW w \in Workers, Acquire(w)
        PROVE  Cardinality(queue') <= Cardinality(Seeking') + Cardinality(Signalling')
    <2>1. CASE queue = {}
      BY <1>1, <1>e, <2>1 DEF Acquire
    <2>2. CASE queue # {}
      <3>1. pc' = [pc EXCEPT ![w] = "check"] /\ pc[w] \in {"lock", "woken"}
        BY <1>1, <2>2 DEF Acquire
      <3>2. Seeking' = Seeking /\ Waiting' = Waiting
        BY <1>t, <3>1 DEF Seeking, Waiting, TypeOK
      <3>3. Signalling' = Signalling /\ queue' = queue /\ running
        BY <1>1 DEF Acquire, Signalling
      <3> QED  BY <1>s, <1>f, <3>2, <3>3
    <2> QED  BY <2>1, <2>2
  <1>2. ASSUME NEW w \in Workers, Wait(w)
        PROVE  Cardinality(queue') <= Cardinality(Seeking') + Cardinality(Signalling')
    BY <1>2, <1>t, <1>e DEF Wait, Control
  <1>3. ASSUME NEW w \in Workers, SpuriousWake(w)
        PROVE  Cardinality(queue') <= Cardinality(Seeking') + Cardinality(Signalling')
    <2>1. Seeking' = Seeking \cup {w} /\ w \notin Seeking /\ w \in Waiting
      BY <1>3, <1>t DEF SpuriousWake, Seeking, Waiting, TypeOK
    <2>2. Cardinality(Seeking') = Cardinality(Seeking) + 1
      BY <2>1, <1>f, FS_AddElement
    <2>3. Signalling' = Signalling /\ queue' = queue /\ running
      BY <1>3 DEF SpuriousWake, Signalling
    <2> QED  BY <1>s, <1>f, <2>1, <2>2, <2>3
  <1>4. ASSUME NEW w \in Workers, Take(w)
        PROVE  Cardinality(queue') <= Cardinality(Seeking') + Cardinality(Signalling')
    <2>1. PICK b \in queue : queue' = queue \ {b}
      BY <1>4 DEF Take, Minimal
    <2>2. Cardinality(queue') = Cardinality(queue) - 1
      BY <2>1, <1>f, FS_RemoveElement
    <2>3. Seeking' = Seeking \ {w} /\ w \in Seeking /\ Waiting' = Waiting
      BY <1>4, <1>t DEF Take, Seeking, Waiting, TypeOK
    <2>4. Cardinality(Seeking') = Cardinality(Seeking) - 1
      BY <2>3, <1>f, FS_RemoveElement
    <2>5. Signalling' = Signalling /\ running
      BY <1>4 DEF Take, Signalling
    <2> QED  BY <2>2, <2>3, <2>4, <2>5, <1>f DEF NoIdleWorker
  <1>5. ASSUME NEW w \in Workers, Run(w) \/ Release(w)
        PROVE  Cardinality(queue') <= Cardinality(Seeking') + Cardinality(Signalling')
    <2>1. Seeking' = Seeking /\ Waiting' = Waiting
      BY <1>5, <1>t DEF Run, Release, Seeking, Waiting, TypeOK
    <2>2. Signalling' = Signalling /\ queue' = queue /\ running
      BY <1>5 DEF Run, Release, Signalling
    <2> QED  BY <1>s, <1>f, <2>1, <2>2
  <1>6. ASSUME NEW w \in Workers, FreeBlock(w)
        PROVE  Cardinality(queue') <= Cardinality(Seeking') + Cardinality(Signalling')
    <2>1. Seeking' = Seeking \cup {w} /\ w \notin Seeking /\ Waiting' = Waiting
      BY <1>6, <1>t DEF FreeBlock, Seeking, Waiting, TypeOK
    <2>2. Cardinality(Seeking') = Cardinality(Seeking) + 1
      BY <2>1, <1>f, FS_AddElement
    <2>3. Signalling' = Signalling /\ queue' = queue /\ running
      BY <1>6 DEF FreeBlock, Signalling
    <2> QED  BY <1>s, <1>f, <2>1, <2>2, <2>3
  <1>7. ASSUME NEW t \in Threads, NEW p \in Prios, NEW r \in BOOLEAN, Create(t, p, r)
        PROVE  Cardinality(queue') <= Cardinality(Seeking') + Cardinality(Signalling')
    <2>1. Signalling' = Signalling
      BY <1>7, <1>t DEF Create, Signalling, TypeOK
    <2>2. Seeking' = Seeking /\ Waiting' = Waiting /\ queue' = queue /\ running
      BY <1>7 DEF Create, Seeking, Waiting
    <2> QED  BY <1>s, <1>f, <2>1, <2>2
  <1>8. ASSUME NEW t \in Threads, Insert(t)
        PROVE  Cardinality(queue') <= Cardinality(Seeking') + Cardinality(Signalling')
    <2>1. queue' = queue \cup {mine[t]} /\ mine[t] \notin queue
      BY <1>8, <1>t DEF Insert, OneOwner
    <2>2. Cardinality(queue') = Cardinality(queue) + 1
      BY <2>1, <1>f, FS_AddElement
    <2>3. Signalling' = Signalling \cup {t} /\ t \notin Signalling
      BY <1>8, <1>t DEF Insert, Signalling, TypeOK
    <2>4. Cardinality(Signalling') = Cardinality(Signalling) + 1
      BY <2>3, <1>f, FS_AddElement
    <2>5. Seeking' = Seeking /\ Waiting' = Waiting /\ running
      BY <1>8 DEF Insert, Seeking, Waiting
    <2> QED  BY <2>2, <2>4, <2>5, <1>f DEF NoIdleWorker
  <1>9. ASSUME NEW t \in Threads, Signal(t)
        PROVE  Cardinality(queue') <= Cardinality(Seeking') + Cardinality(Signalling')
    <2>1. PICK w \in Waiting : pc' = [pc EXCEPT ![w] = "woken"]
      BY <1>9 DEF Signal, Waiting
    <2>2. Seeking' = Seeking \cup {w} /\ w \notin Seeking
      BY <2>1, <1>t DEF Seeking, Waiting, TypeOK
    <2>3. Cardinality(Seeking') = Cardinality(Seeking) + 1
      BY <2>2, <1>f, FS_AddElement
    <2>4. Signalling' = Signalling \ {t} /\ t \in Signalling
      BY <1>9, <1>t DEF Signal, Signalling, TypeOK
    <2>5. Cardinality(Signalling') = Cardinality(Signalling) - 1
      BY <2>4, <1>f, FS_RemoveElement
    <2>6. queue' = queue /\ running
      BY <1>9 DEF Signal
    <2> QED  BY <2>1, <2>3, <2>5, <2>6, <1>f DEF NoIdleWorker
  <1>x. ASSUME NEW w \in Workers, Exit(w)
        PROVE  FALSE
    BY <1>x DEF Exit
  <1>10. CASE StopFlag \/ OwnerStep
    BY <1>10, <1>t DEF StopFlag, OwnerStep, Broadcast, JoinAll, Drain, Control
  <1>11. CASE UNCHANGED vars
    <2>1. Seeking' = Seeking /\ Waiting' = Waiting /\ Signalling' = Signalling
      BY <1>11 DEF vars, Seeking, Waiting, Signalling
    <2> QED  BY <2>1, <1>11, <1>s, <1>f DEF vars
  <1> QED
    BY <1>1, <1>2, <1>3, <1>4, <1>5, <1>6, <1>7, <1>8, <1>9, <1>x, <1>10, <1>11
    DEF Next, WorkerStep, AddStep

(***************************************************************************)
(* However few signals AddTask sends, no task waits for a busy worker      *)
(* while another worker sleeps with nobody on the way to it.               *)
(***************************************************************************)
THEOREM NeverIdle == Spec => []NoIdleWorker
  <1>1. Init => NoIdleWorker
    BY DEF Init, NoIdleWorker, Waiting
  <1> QED  BY <1>1, StepNoIdleWorker, Inductive, PTL DEF Spec

(***************************************************************************)
(* Together: a task is in one place with its own arguments from AddTask    *)
(* (threadpool.c:171) to the free list, and what Destroy tears down is     *)
(* used by nobody.                                                         *)
(***************************************************************************)
THEOREM PoolSound == Spec => []Inv
<1>1. TypeOK /\ OneOwner /\ Control /\ ArgsStage /\ QuietTeardown => Inv
  BY DEF Inv
<1> QED
  BY TypeCorrect, BlocksOwned, ControlKept, ArgsFollow, TeardownQuiet, <1>1, PTL

-----------------------------------------------------------------------------
(* AllocPool never hands an element out twice and never touches one that a
   user holds.  Links is inductive with the types: it says of single links
   what a walk along the list would show. *)

\* AllocPool_Init establishes the invariant.
LEMMA InitFreeList == AllocInit => FreeListSound
  <1> SUFFICES ASSUME AllocInit PROVE FreeListSound
    OBVIOUS
  <1> USE CountAssumption, WordAssumption DEF AllocInit, Elements, Unowned
  <1>1. AllocTypeOK
    BY DEF AllocTypeOK, Chain
  <1>2. Links
    BY DEF Links, Chain
  <1> QED  BY <1>1, <1>2 DEF FreeListSound

\* Every operation, and every write of a user to an element of its own,
\* preserves the invariant.
LEMMA StepFreeList == FreeListSound /\ [AllocNext]_avars => FreeListSound'
  <1> SUFFICES ASSUME FreeListSound, [AllocNext]_avars PROVE FreeListSound'
    OBVIOUS
  <1> USE WordAssumption DEF FreeListSound, AllocTypeOK, Links, Elements, Unowned
  <1>1. CASE Alloc /\ word[headnode] # Null
    BY <1>1 DEF Alloc
  <1>2. CASE Alloc /\ word[headnode] = Null
    <2> DEFINE n == element_count
               w(c) == IF c <= n THEN word[c] ELSE IF c = 3 * n THEN Null ELSE c + 1
    <2>1. element_count' = 3 * n /\ headnode' = n + 1 /\ owned' = owned \cup {headnode}
          /\ block_count' = block_count + 1
      BY <1>2 DEF Alloc
    <2>2. word' = [c \in 1..(3 * n) |-> w(c)]
      <3>1. \A c \in 1..(3 * n) :
              (IF c <= n THEN word[c] ELSE Chain(n + 1, 3 * n)[c]) = w(c)
        BY DEF Chain
      <3>2. word' = [c \in 1..(3 * n) |->
                       IF c <= n THEN word[c] ELSE Chain(n + 1, 3 * n)[c]]
        BY <1>2, <2>1 DEF Alloc
      <3> QED  BY <3>1, <3>2
    <2> HIDE DEF w
    <2>3. AllocTypeOK'
      BY <2>1, <2>2 DEF w
    <2>4. Links'
      BY <2>1, <2>2, <1>2 DEF w
    <2> QED  BY <2>3, <2>4
  <1>3. CASE \E c \in owned : Free(c)
    BY <1>3 DEF Free
  <1>4. CASE \E c \in owned : Write(c)
    BY <1>4 DEF Write
  <1>5. CASE UNCHANGED avars
    BY <1>5 DEF avars
  <1> QED  BY <1>1, <1>2, <1>3, <1>4, <1>5 DEF AllocNext

\* The free list and the elements in use are apart in every state the pool can
\* reach (poolalloc.c:127-188).
THEOREM ListSound == AllocSpec => []FreeListSound
  BY InitFreeList, StepFreeList, PTL DEF AllocSpec

\* Every variable of the pool keeps its type.
THEOREM AllocTypeCorrect == AllocSpec => []AllocTypeOK
  BY ListSound, PTL DEF FreeListSound

\* The free list leads to free elements only, to each from one other at most:
\* AllocPool_Alloc never follows a word a user has written.
THEOREM ListDisjoint == AllocSpec => []Links
  BY ListSound, PTL DEF FreeListSound

\* AllocPool implements Allocator: nobody else is handed an element while its
\* user holds it, and expansion, allocation and release by others leave what
\* the user wrote alone.
THEOREM AllocRefinement == AllocSpec => ImplementsAllocator
  <1>1. AllocInit => Users!Init
    BY DEF AllocInit, Users!Init
  <1>2. FreeListSound /\ [AllocNext]_avars => [Users!Next]_Users!vars
    <2> SUFFICES ASSUME FreeListSound, [AllocNext]_avars PROVE [Users!Next]_Users!vars
      OBVIOUS
    <2> USE WordAssumption DEF FreeListSound, AllocTypeOK, Links, Elements, Unowned
    <2>1. CASE Alloc
      <3>1. headnode \in owned' \ owned /\ owned' = owned \cup {headnode}
        BY <2>1 DEF Alloc
      <3>2. \A c \in owned : word'[c] = word[c]
        BY <2>1 DEF Alloc
      <3> QED  BY <3>1, <3>2 DEF Users!Next, Users!Alloc
    <2>2. ASSUME NEW c \in owned, Free(c) PROVE Users!Free
      BY <2>2 DEF Free, Users!Free
    <2>3. ASSUME NEW c \in owned, Write(c) PROVE Users!Write
      BY <2>3 DEF Write, Users!Write
    <2>4. CASE UNCHANGED avars
      BY <2>4 DEF avars, Users!vars
    <2> QED  BY <2>1, <2>2, <2>3, <2>4 DEF AllocNext, Users!Next
  <1> QED  BY <1>1, <1>2, ListSound, PTL DEF AllocSpec, ImplementsAllocator, Users!Spec

-----------------------------------------------------------------------------
(* No element is lost.  The invariant is an enumeration of the list, in its
   order, that has every element nobody holds. *)

Enumerates(f, k) ==
  /\ f[1] = headnode /\ word[f[k]] = Null
  /\ \A i \in 1..k : \A j \in 1..k : f[i] = f[j] => i = j
  /\ \A i \in 1..(k - 1) : word[f[i]] = f[i + 1]
  /\ \A c \in Unowned : \E i \in 1..k : f[i] = c

Enumerated == \E k \in Nat \ {0} : \E f \in [1..k -> Unowned] : Enumerates(f, k)

\* The first block is chained in the order of its elements.
LEMMA InitEnumerated == AllocInit => Enumerated
  <1> SUFFICES ASSUME AllocInit PROVE Enumerated
    OBVIOUS
  <1> DEFINE f == [i \in 1..InitCount |-> i]
  <1>1. InitCount \in Nat \ {0} /\ Unowned = 1..InitCount
    BY CountAssumption DEF AllocInit, Unowned, Elements
  <1>2. f \in [1..InitCount -> Unowned] /\ Enumerates(f, InitCount)
    BY <1>1 DEF AllocInit, Enumerates, Chain
  <1> QED  BY <1>1, <1>2 DEF Enumerated

\* AllocPool_Alloc takes the head from the enumeration, or replaces it by the
\* elements of the new block; AllocPool_Free puts an element before it.
LEMMA StepEnumerated ==
  FreeListSound /\ Enumerated /\ [AllocNext]_avars => Enumerated'
  <1> SUFFICES ASSUME FreeListSound, Enumerated, [AllocNext]_avars PROVE Enumerated'
    OBVIOUS
  <1>0. PICK k \in Nat \ {0} : \E f \in [1..k -> Unowned] : Enumerates(f, k)
    BY DEF Enumerated
  <1>1. PICK f \in [1..k -> Unowned] : Enumerates(f, k)
    BY <1>0
  <1>2. \A i \in 1..k : f[i] \in Unowned
    BY <1>1
  <1> USE WordAssumption
  <1>3. CASE Alloc /\ word[headnode] # Null
    <2> DEFINE g == [i \in 1..(k - 1) |-> f[i + 1]]
    <2>1. k - 1 \in Nat \ {0}
      BY <1>1, <1>3 DEF Enumerates
    <2>2. word' = word /\ headnode' = f[2] /\ Unowned' = Unowned \ {f[1]}
      BY <1>1, <1>3, <2>1 DEF Alloc, Enumerates, Unowned, Elements
    <2>3. \A i \in 1..(k - 1) : g[i] \in Unowned'
      <3> SUFFICES ASSUME NEW i \in 1..(k - 1) PROVE g[i] \in Unowned'
        OBVIOUS
      <3>1. i + 1 \in 1..k /\ i + 1 # 1 /\ 1 \in 1..k
        BY <2>1
      <3>2. f[i + 1] # f[1]
        BY <1>1, <3>1 DEF Enumerates
      <3> QED  BY <1>2, <2>2, <3>1, <3>2
    <2>4. g \in [1..(k - 1) -> Unowned']
      BY <2>3
    <2>5. \A i \in 1..(k - 1) : i + 1 \in 1..k /\ g[i] = f[i + 1]
      BY <2>1
    <2>6. g[1] = headnode' /\ word'[g[k - 1]] = Null
      BY <1>1, <2>1, <2>2, <2>5 DEF Enumerates
    <2>7. ASSUME NEW i \in 1..(k - 1), NEW j \in 1..(k - 1), g[i] = g[j]
          PROVE  i = j
      <3>1. i + 1 = j + 1
        BY <1>1, <2>5, <2>7 DEF Enumerates
      <3> QED  BY <3>1
    <2>8. ASSUME NEW i \in 1..(k - 1 - 1) PROVE word'[g[i]] = g[i + 1]
      <3>1. i \in 1..(k - 1) /\ i + 1 \in 1..(k - 1)
        BY <2>1
      <3> QED  BY <1>1, <2>2, <2>5, <3>1 DEF Enumerates
    <2>9. ASSUME NEW d \in Unowned' PROVE \E i \in 1..(k - 1) : g[i] = d
      <3>1. PICK j \in 1..k : f[j] = d /\ j # 1
        BY <1>1, <2>2 DEF Enumerates
      <3>2. j - 1 \in 1..(k - 1) /\ g[j - 1] = f[j]
        BY <3>1
      <3> QED  BY <3>1, <3>2
    <2> HIDE DEF g
    <2>10. Enumerates(g, k - 1)'
      BY <2>6, <2>7, <2>8, <2>9 DEF Enumerates
    <2> QED  BY <2>1, <2>4, <2>10 DEF Enumerated
  <1>4. CASE Alloc /\ word[headnode] = Null
    <2>0. PICK n \in Nat \ {0} : n = element_count
      BY DEF FreeListSound, AllocTypeOK
    <2> DEFINE g == [i \in 1..(2 * n) |-> n + i]
    <2>1. headnode' = n + 1 /\ element_count' = 3 * n /\ owned' = owned \cup {headnode}
      BY <1>4, <2>0 DEF Alloc
    <2>2. \A c \in (n + 1)..(3 * n) : word'[c] = IF c = 3 * n THEN Null ELSE c + 1
      <3>1. word' = [c \in 1..(3 * n) |->
                       IF c <= n THEN word[c] ELSE Chain(n + 1, 3 * n)[c]]
        BY <1>4, <2>0, <2>1 DEF Alloc
      <3> QED  BY <2>1, <3>1 DEF Chain
    <2>3. Unowned = {headnode}
      <3>1. ASSUME k # 1 PROVE FALSE
        <4>1. 1 \in 1..(k - 1) /\ 2 \in 1..k
          BY <1>1, <3>1
        <4>2. word[f[1]] = f[2] /\ f[2] \in Unowned
          BY <1>1, <1>2, <4>1 DEF Enumerates
        <4> QED  BY <1>1, <1>4, <4>2 DEF Enumerates, Unowned, Elements
      <3> QED  BY <1>1, <1>2, <3>1 DEF Enumerates
    <2>4. Unowned' = (n + 1)..(3 * n)
      BY <2>0, <2>1, <2>3 DEF Unowned, Elements, FreeListSound, AllocTypeOK
    <2>5. 2 * n \in Nat \ {0} /\ g \in [1..(2 * n) -> Unowned']
      BY <2>1, <2>4
    <2>6. g[1] = headnode' /\ g[2 * n] = 3 * n /\ word'[3 * n] = Null
      BY <2>1, <2>2
    <2>7. \A i \in 1..(2 * n) : \A j \in 1..(2 * n) : g[i] = g[j] => i = j
      OBVIOUS
    <2>8. ASSUME NEW i \in 1..(2 * n - 1) PROVE word'[g[i]] = g[i + 1]
      <3>1. /\ i \in 1..(2 * n) /\ i + 1 \in 1..(2 * n)
            /\ n + i \in (n + 1)..(3 * n) /\ n + i # 3 * n
        OBVIOUS
      <3> QED  BY <2>2, <3>1
    <2>9. ASSUME NEW d \in Unowned' PROVE \E i \in 1..(2 * n) : g[i] = d
      <3>1. d - n \in 1..(2 * n) /\ g[d - n] = d
        BY <2>4
      <3> QED  BY <3>1
    <2> HIDE DEF g
    <2>10. Enumerates(g, 2 * n)'
      BY <2>6, <2>7, <2>8, <2>9 DEF Enumerates
    <2> QED  BY <2>5, <2>10 DEF Enumerated
  <1>5. ASSUME NEW c \in owned, Free(c) PROVE Enumerated'
    <2> DEFINE g == [i \in 1..(k + 1) |-> IF i = 1 THEN c ELSE f[i - 1]]
    <2>1. /\ c \in Elements /\ c \notin Unowned /\ Unowned' = Unowned \cup {c}
          /\ headnode' = c /\ word'[c] = headnode
          /\ \A d \in Unowned : word'[d] = word[d]
      BY <1>5 DEF Free, FreeListSound, AllocTypeOK, Unowned, Elements
    <2>2. k + 1 \in Nat \ {0} /\ g \in [1..(k + 1) -> Unowned']
      BY <1>1, <1>2, <2>1
    <2>3. /\ g[1] = c /\ \A i \in 1..k : g[i + 1] = f[i]
          /\ \A i \in 2..(k + 1) : i - 1 \in 1..k /\ g[i] = f[i - 1]
      BY <1>1
    <2>4. g[1] = headnode' /\ word'[g[k + 1]] = Null
      BY <1>1, <1>2, <2>1, <2>3 DEF Enumerates
    <2>5. ASSUME NEW i \in 1..(k + 1), NEW j \in 1..(k + 1), g[i] = g[j]
          PROVE  i = j
      BY <1>1, <1>2, <2>1, <2>3, <2>5 DEF Enumerates
    <2>6. ASSUME NEW i \in 1..k PROVE word'[g[i]] = g[i + 1]
      <3>1. CASE i = 1
        BY <1>1, <2>1, <2>3, <3>1 DEF Enumerates
      <3>2. CASE i # 1
        <4>1. /\ i - 1 \in 1..k /\ i - 1 \in 1..(k - 1) /\ i \in 2..(k + 1)
              /\ i - 1 + 1 = i
          BY <3>2
        <4>2. word[f[i - 1]] = f[i]
          BY <1>1, <4>1 DEF Enumerates
        <4> QED  BY <1>2, <2>1, <2>3, <4>1, <4>2
      <3> QED  BY <3>1, <3>2
    <2>7. \A d \in Unowned' : \E i \in 1..(k + 1) : g[i] = d
      BY <1>1, <2>1, <2>3 DEF Enumerates
    <2>8. k + 1 - 1 = k
      BY <1>1
    <2> HIDE DEF g
    <2>9. Enumerates(g, k + 1)'
      BY <2>4, <2>5, <2>6, <2>7, <2>8 DEF Enumerates
    <2> QED  BY <2>2, <2>9 DEF Enumerated
  <1>6. ASSUME NEW c \in owned, Write(c) PROVE Enumerated'
    <2>1. /\ Unowned' = Unowned /\ headnode' = headnode
          /\ \A d \in Unowned : word'[d] = word[d]
      BY <1>6 DEF Write, FreeListSound, AllocTypeOK, Unowned, Elements
    <2>2. Enumerates(f, k)'
      BY <1>1, <1>2, <2>1 DEF Enumerates
    <2> QED  BY <1>1, <2>1, <2>2 DEF Enumerated
  <1>7. CASE UNCHANGED avars
    <2>1. Unowned' = Unowned /\ Enumerates(f, k)'
      BY <1>1, <1>7 DEF avars, Unowned, Elements, Enumerates
    <2> QED  BY <1>1, <2>1 DEF Enumerated
  <1> QED  BY <1>3, <1>4, <1>5, <1>6, <1>7 DEF AllocNext

\* A set of naturals that is not empty has a least element.
LEMMA LeastNumber ==
  ASSUME NEW T \in SUBSET Nat, T # {}
  PROVE  \E x \in T : \A y \in T : ~(y < x)
  <1> DEFINE R == {p \in Nat \X Nat : p[1] < p[2]}
  <1>1. IsWellFoundedOn(R, Nat)
    BY NatLessThanWellFounded DEF OpToRel
  <1>2. PICK x \in T : \A y \in T : ~(<<y, x>> \in R)
    <2> HIDE DEF R
    <2> QED  BY <1>1, WFMin
  <1> QED  BY <1>2

\* What a walk along the list finds after n links: the first elements of the
\* enumeration, and its end.
LEMMA WalkFinds ==
  ASSUME FreeListSound, NEW k \in Nat \ {0}, NEW f \in [1..k -> Unowned],
         Enumerates(f, k)
  PROVE  Listed = Unowned
  <1> DEFINE N == element_count
             Follow(S) == S \cup {word[c] : c \in S \cap Elements}
             Walk(l) == [n \in 0..N |-> IF n = 0 THEN {headnode} ELSE Follow(l[n - 1])]
             list == CHOOSE l : l = Walk(l)
             found(n) == {f[i] : i \in {j \in 1..k : j <= n + 1}}
                           \cup {x \in {Null} : n >= k}
             g == [n \in 0..N |-> found(n)]
  <1> USE WordAssumption
  <1>1. /\ N \in Nat \ {0} /\ Null \notin Elements
        /\ \A i \in 1..k : f[i] \in Elements /\ f[i] \in Unowned
    BY DEF FreeListSound, AllocTypeOK, Unowned, Elements
  <1>2. found(0) = {headnode}
    BY DEF Enumerates
  <1>3. ASSUME NEW n \in Nat \ {0}
        PROVE  found(n) = Follow(found(n - 1))
    <2>1. ASSUME NEW x \in found(n) PROVE x \in Follow(found(n - 1))
      <3>1. CASE \E i \in 1..k : i <= n /\ x = f[i]
        BY <3>1
      <3>2. CASE n + 1 \in 1..k /\ x = f[n + 1]
        <4>1. n \in 1..(k - 1) /\ n \in 1..k
          BY <3>2
        <4>2. word[f[n]] = x /\ f[n] \in found(n - 1) \cap Elements
          BY <1>1, <3>2, <4>1 DEF Enumerates
        <4> QED  BY <4>2
      <3>3. CASE x = Null /\ n >= k
        <4>1. f[k] \in found(n - 1) \cap Elements
          BY <1>1, <3>3
        <4>2. word[f[k]] = x
          BY <3>3 DEF Enumerates
        <4> QED  BY <4>1, <4>2
      <3> QED  BY <3>1, <3>2, <3>3
    <2>2. ASSUME NEW x \in Follow(found(n - 1)) PROVE x \in found(n)
      <3>1. CASE x \in found(n - 1)
        BY <3>1
      <3>2. ASSUME NEW c \in found(n - 1) \cap Elements, x = word[c]
            PROVE  x \in found(n)
        <4>1. PICK i \in 1..k : i <= n /\ c = f[i]
          BY <1>1, <3>2
        <4>2. CASE i = k
          BY <3>2, <4>1, <4>2 DEF Enumerates
        <4>3. CASE i # k
          <5>1. i \in 1..(k - 1) /\ i + 1 \in 1..k /\ i + 1 <= n + 1
            BY <4>1, <4>3
          <5>2. x = f[i + 1]
            BY <3>2, <4>1, <5>1 DEF Enumerates
          <5> QED  BY <5>1, <5>2
        <4> QED  BY <4>2, <4>3
      <3> QED  BY <3>1, <3>2
    <2> QED  BY <2>1, <2>2
  <1>4. k <= N
    <2> SUFFICES ASSUME k > N PROVE FALSE
      BY <1>1
    <2>1. /\ IsFiniteSet(1..k) /\ Cardinality(1..k) = k
          /\ IsFiniteSet(1..N) /\ Cardinality(1..N) = N
      BY <1>1, FS_Interval
    <2>2. f \in [1..k -> 1..N]
      BY <1>1 DEF Elements
    <2> HIDE DEF N
    <2>3. Cardinality(1..N) < Cardinality(1..k)
      BY <2>1
    <2> DEFINE S == 1..k
               M == 1..N
    <2>4. \E i, j \in S : i # j /\ f[i] = f[j]
      <3>1. /\ IsFiniteSet(S) /\ IsFiniteSet(M) /\ f \in [S -> M]
            /\ Cardinality(M) < Cardinality(S)
        BY <2>1, <2>2, <2>3
      <3> HIDE DEF S, M
      <3> QED  BY <3>1, FS_PigeonHole
    <2> QED  BY <2>4 DEF Enumerates
  <1>5. found(N) \cap Elements = Unowned
    BY <1>1, <1>4 DEF Enumerates, Unowned
  <1> HIDE DEF found
  <1>6. g = Walk(g)
    <2>1. \A n \in 0..N : g[n] = IF n = 0 THEN {headnode} ELSE Follow(g[n - 1])
      BY <1>1, <1>2, <1>3
    <2> HIDE DEF Follow
    <2> QED  BY <2>1
  <1>7. list = Walk(list)
    <2> HIDE DEF Walk, g
    <2> QED  BY <1>6
  <1>8. /\ list[0] = {headnode}
        /\ \A n \in 1..N : list[n] = Follow(list[n - 1])
    <2> HIDE DEF Follow, list
    <2>1. \A n \in 0..N : list[n] = IF n = 0 THEN {headnode} ELSE Follow(list[n - 1])
      BY <1>7
    <2> QED  BY <1>1, <2>1
  <1>9. Listed = list[N] \cap Elements
    BY DEF Listed
  <1> HIDE DEF list, Walk, g
  <1>10. \A n \in 0..N : list[n] = found(n)
    <2> DEFINE T == {n \in 0..N : list[n] # found(n)}
    <2> SUFFICES ASSUME T # {} PROVE FALSE
      OBVIOUS
    <2>1. PICK n \in T : \A m \in T : ~(m < n)
      <3>1. T \in SUBSET Nat
        BY <1>1
      <3> HIDE DEF T
      <3> QED  BY <3>1, LeastNumber
    <2>2. n # 0
      BY <1>2, <1>8, <2>1
    <2>3. n \in Nat \ {0} /\ n \in 1..N /\ n - 1 \in 0..N /\ n - 1 < n
      BY <1>1, <2>1, <2>2
    <2>4. list[n - 1] = found(n - 1)
      BY <2>1, <2>3
    <2>5. list[n] = Follow(list[n - 1]) /\ found(n) = Follow(found(n - 1))
      BY <1>3, <1>8, <2>3
    <2> HIDE DEF Follow
    <2> QED  BY <2>1, <2>4, <2>5
  <1> QED  BY <1>1, <1>5, <1>9, <1>10

\* poolalloc.c:142-188: the list holds every element no user holds, for any
\* initial size and any number of expansions.
THEOREM NothingLost == AllocSpec => []NoLeak
  <1>1. Enumerated /\ FreeListSound => NoLeak
    BY WalkFinds DEF Enumerated, NoLeak
  <1>2. AllocSpec => []Enumerated
    BY ListSound, InitEnumerated, StepEnumerated, PTL DEF AllocSpec
  <1> QED  BY ListSound, <1>1, <1>2, PTL

-----------------------------------------------------------------------------
(* The queue of the pool: a heap in an array.                              *)

\* No two nodes carry the same, and the capacity stays far below a word.
Distinct ==
    \A i, j \in 1..Len(array) : i # j => array[i].data # array[j].data
Roomy ==
    /\ Len(array) <= MaxLen
    /\ capacity <= 2 * (MaxLen + InitLen) + 3

\* While a node moves up, it alone may be smaller than its parent; while it
\* moves down, it alone may be greater than its children.  Meanwhile its parent
\* is no greater than its children.
Moving ==
    /\ way = "up" => at <= Len(array)
                     /\ \A i \in 2..Len(array) :
                          i # at => array[i \div 2].key <= array[i].key
    /\ way = "down" => \A i \in 2..Len(array) :
                          i \div 2 # at => array[i \div 2].key <= array[i].key
    /\ way # "none" /\ at > 1 =>
          \A i \in 2..Len(array) :
             i \div 2 = at => array[at \div 2].key <= array[i].key

HeapInv == HeapSound /\ Distinct /\ Roomy /\ Moving

\* The parent of a node, from that of its index.
LEMMA Half ==
    ASSUME NEW i \in Nat
    PROVE  i \div 2 \in Nat /\ (i = 2 * (i \div 2) \/ i = 2 * (i \div 2) + 1)
OBVIOUS

\* A number that is less than the modulus is its own remainder.
LEMMA Remainder ==
  ASSUME NEW i \in Nat, NEW W \in Nat, i < W
  PROVE  i % W = i
  OBVIOUS

\* Keys are numbers.
LEMMA KeysAreNumbers ==
  ASSUME NEW a \in Seq(Node)
  PROVE  \A k \in 1..Len(a) : a[k].key \in Int
  <1> SUFFICES ASSUME NEW k \in 1..Len(a) PROVE a[k].key \in Int
    OBVIOUS
  <1>1. a[k] \in Node
    OBVIOUS
  <1>2. a[k].key \in Keys
    BY <1>1 DEF Node
  <1> QED  BY <1>2, KeyAssumption

\* The nodes stay the same ones.
LEMMA SwapKeeps ==
  ASSUME HeapTypeOK, Distinct, NEW i \in 1..Len(array), NEW j \in 1..Len(array),
         array' = Swap(array, i, j)
  PROVE  Distinct' /\ ToSet(array') = ToSet(array)
  <1>1. /\ Len(array') = Len(array) /\ array' \in Seq(Node)
        /\ \A k \in 1..Len(array) :
              array'[k] = IF k = j THEN array[i] ELSE IF k = i THEN array[j] ELSE array[k]
    BY DEF Swap, HeapTypeOK
  <1>2. Distinct'
    BY <1>1 DEF Distinct
  <1>3. ASSUME NEW x \in ToSet(array) PROVE x \in ToSet(array')
    <2>1. PICK k \in 1..Len(array) : x = array[k]
      BY <1>3 DEF ToSet, HeapTypeOK
    <2>2. x = array'[k] \/ x = array'[i] \/ x = array'[j]
      BY <1>1, <2>1
    <2> QED  BY <1>1, <2>2 DEF ToSet
  <1>4. ASSUME NEW x \in ToSet(array') PROVE x \in ToSet(array)
    <2>1. PICK k \in 1..Len(array) : x = array'[k]
      BY <1>1, <1>4 DEF ToSet
    <2> QED  BY <1>1, <2>1 DEF ToSet, HeapTypeOK
  <1> QED  BY <1>2, <1>3, <1>4

\* The least of a node and its children.
LEMMA SmallestFits ==
  ASSUME NEW a \in Seq(Node), NEW i \in 1..Len(a)
  PROVE  LET s == Smallest(a, i)
         IN  /\ s \in 1..Len(a)
             /\ s # i => s \div 2 = i /\ a[s].key < a[i].key
             /\ \A c \in 1..Len(a) : c \div 2 = i => a[s].key <= a[c].key
  <1>1. \A k \in 1..Len(a) : a[k].key \in Int
    BY KeysAreNumbers
  <1>2. \A c \in 1..Len(a) : c \div 2 = i => c = 2 * i \/ c = 2 * i + 1
    BY Half
  <1>3. (2 * i) \div 2 = i /\ (2 * i + 1) \div 2 = i
    OBVIOUS
  <1> DEFINE l == IF 2 * i <= Len(a) /\ a[i].key > a[2 * i].key THEN 2 * i ELSE i
             s == Smallest(a, i)
  <1>4. /\ l \in 1..Len(a) /\ (l = i \/ l = 2 * i)
        /\ a[l].key <= a[i].key /\ (2 * i <= Len(a) => a[l].key <= a[2 * i].key)
        /\ (l # i => a[l].key < a[i].key)
    BY <1>1
  <1>5. s = IF 2 * i + 1 <= Len(a) /\ a[l].key > a[2 * i + 1].key THEN 2 * i + 1 ELSE l
    BY DEF Smallest
  <1> HIDE DEF l, s
  <1>6. CASE 2 * i + 1 <= Len(a) /\ a[l].key > a[2 * i + 1].key
    <2>1. s = 2 * i + 1 /\ s \in 1..Len(a) /\ 2 * i \in 1..Len(a)
      BY <1>5, <1>6
    <2>2. a[s].key < a[i].key /\ a[s].key <= a[2 * i].key
      <3>1. /\ a[s].key \in Int /\ a[l].key \in Int
            /\ a[i].key \in Int /\ a[2 * i].key \in Int
        BY <1>1, <1>4, <2>1
      <3>2. a[s].key < a[l].key /\ a[l].key <= a[i].key /\ a[l].key <= a[2 * i].key
        BY <1>4, <1>6, <2>1
      <3> QED  BY <3>1, <3>2
    <2>3. ASSUME NEW c \in 1..Len(a), c \div 2 = i PROVE a[s].key <= a[c].key
      <3>1. CASE c = 2 * i
        BY <2>2, <3>1
      <3>2. CASE c = 2 * i + 1
        BY <1>1, <2>1, <3>2
      <3> QED  BY <1>2, <2>3, <3>1, <3>2
    <2> QED  BY <1>3, <2>1, <2>2, <2>3 DEF s
  <1>7. CASE ~(2 * i + 1 <= Len(a) /\ a[l].key > a[2 * i + 1].key)
    <2>1. s = l
      BY <1>5, <1>7
    <2>2. ASSUME NEW c \in 1..Len(a), c \div 2 = i PROVE a[s].key <= a[c].key
      <3>1. CASE c = 2 * i
        BY <1>4, <2>1, <3>1
      <3>2. CASE c = 2 * i + 1
        <4>1. a[l].key \in Int /\ a[c].key \in Int
          BY <1>1, <1>4
        <4>2. ~(a[l].key > a[c].key)
          BY <1>7, <3>2
        <4> QED  BY <2>1, <4>1, <4>2
      <3> QED  BY <1>2, <2>2, <3>1, <3>2
    <2> QED  BY <1>3, <1>4, <2>1, <2>2 DEF s
  <1> QED  BY <1>6, <1>7

\* The root is a least node.
LEMMA RootLeast ==
  ASSUME HeapSound, way = "none"
  PROVE  \A i \in 1..Len(array) : array[1].key <= array[i].key
  <1> DEFINE T == {i \in 1..Len(array) : array[i].key < array[1].key}
  <1>1. \A k \in 1..Len(array) : array[k].key \in Int
    BY KeysAreNumbers DEF HeapSound, HeapTypeOK
  <1>2. ASSUME T # {} PROVE FALSE
    <2>1. PICK x \in T : \A y \in T : ~(y < x)
      <3>1. T \in SUBSET Nat
        OBVIOUS
      <3> HIDE DEF T
      <3> QED  BY <1>2, <3>1, LeastNumber
    <2>2. x \in 2..Len(array)
      BY <1>1, <2>1
    <2>3. x \div 2 \in 1..Len(array) /\ x \div 2 < x
      BY <2>2, Half
    <2>4. array[x \div 2].key <= array[x].key
      BY <2>2 DEF HeapSound, IsHeap
    <2>5. x \div 2 \in T
      BY <1>1, <2>1, <2>3, <2>4
    <2> QED  BY <2>1, <2>3, <2>5
  <1> QED  BY <1>1, <1>2

\* The types and the capacity.
LEMMA InitHeap == HeapInit => HeapInv
  <1> SUFFICES ASSUME HeapInit PROVE HeapInv
    OBVIOUS
  <1> USE LenAssumption, RoomAssumption DEF HeapInit
  <1>1. HeapSound
    BY DEF HeapSound, HeapTypeOK, IsHeap
  <1> QED  BY <1>1 DEF HeapInv, Distinct, Roomy, Moving

\* A node behind the others.
LEMMA InsertKeeps ==
  ASSUME HeapInv, NEW k \in Keys, NEW d \in Items, MinInsert(k, d)
  PROVE  HeapInv'
  <1> DEFINE n == [key |-> k, data |-> d]
             len == Len(array)
  <1> USE LenAssumption, RoomAssumption DEF HeapInv, HeapSound, HeapTypeOK
  <1>1. /\ n \in Node /\ array' \in Seq(Node) /\ Len(array') = len + 1
        /\ array'[len + 1] = n /\ \A i \in 1..len : array'[i] = array[i]
        /\ way' = "up" /\ at' = len + 1 /\ out' = {} /\ len < MaxLen
    BY DEF MinInsert, Moves, Node
  <1>2. Roomy' /\ capacity' \in 0..(WordMod - 1) /\ Len(array') <= capacity'
    <2>1. CASE len = capacity
      <3>1. (2 * capacity + K) % WordMod = 2 * capacity + 2
        <4>1. 2 * capacity + 2 \in Nat /\ 2 * capacity + 2 < WordMod
          BY <1>1, <2>1
        <4> QED  BY <4>1, Remainder DEF K
      <3> QED  BY <1>1, <2>1, <3>1 DEF MinInsert, Grown, Roomy
    <2>2. CASE len # capacity
      BY <1>1, <2>2 DEF MinInsert, Grown, Roomy
    <2> QED  BY <2>1, <2>2
  <1>3. Distinct'
    BY <1>1 DEF MinInsert, Distinct
  <1>4. Moving'
    <2>1. \A i \in 2..len : i \div 2 \in 1..len
      BY Half
    <2>2. \A i \in 2..(len + 1) : i \div 2 # len + 1
      BY Half
    <2>3. \A i \in 2..len : array[i \div 2].key <= array[i].key
      BY DEF MinInsert, IsHeap
    <2>4. \A i \in 2..(len + 1) :
             i # len + 1 => array'[i \div 2].key <= array'[i].key
      <3> SUFFICES ASSUME NEW i \in 2..len PROVE array'[i \div 2].key <= array'[i].key
        OBVIOUS
      <3>1. array'[i] = array[i] /\ array'[i \div 2] = array[i \div 2]
        BY <1>1, <2>1
      <3> QED  BY <2>3, <3>1
    <2> QED  BY <1>1, <2>2, <2>4 DEF Moving
  <1> QED  BY <1>1, <1>2, <1>3, <1>4 DEF IsHeap

\* A round of the loop that moves a node up.
LEMMA UpKeeps ==
  ASSUME HeapInv, DecreaseKey
  PROVE  HeapInv' /\ ToSet(array') = ToSet(array)
  <1> DEFINE len == Len(array)
             p == at \div 2
  <1> USE DEF HeapInv, HeapSound, HeapTypeOK
  <1>1. \A i \in 1..len : array[i].key \in Int
    BY KeysAreNumbers
  <1>2. CASE at > 1 /\ array[p].key > array[at].key
    <2>1. at \in 1..len /\ p \in 1..len /\ p < at
      BY <1>2, Half DEF DecreaseKey, Moving
    <2>2. array' = Swap(array, at, p) /\ way = "up" /\ way' = "up" /\ at' = p
          /\ UNCHANGED <<capacity, out>>
      BY <1>2 DEF DecreaseKey, Moves
    <2>3. /\ array' \in Seq(Node) /\ Len(array') = len
          /\ \A k \in 1..len :
                array'[k] = IF k = p THEN array[at] ELSE IF k = at THEN array[p] ELSE array[k]
      BY <2>1, <2>2 DEF Swap
    <2>4. Distinct' /\ ToSet(array') = ToSet(array)
      BY <2>1, <2>2, SwapKeeps
    <2>5. \A i \in 2..len : i \div 2 \in 1..len /\ i \div 2 < i
      BY Half
    <2>6. \A i \in 2..len : i # p => array'[i \div 2].key <= array'[i].key
      <3> SUFFICES ASSUME NEW i \in 2..len, i # p
                   PROVE  array'[i \div 2].key <= array'[i].key
        OBVIOUS
      <3>1. i \div 2 \in 1..len /\ i \div 2 < i
        BY <2>5
      <3>2. i # at => array[i \div 2].key <= array[i].key
        BY <2>2 DEF Moving
      <3>3. i \div 2 = at => array[p].key <= array[i].key
        BY <1>2, <2>2 DEF Moving
      <3>4. CASE i = at
        BY <1>1, <1>2, <2>1, <2>3, <3>1, <3>4
      <3>5. CASE i # at /\ i \div 2 = at
        BY <2>1, <2>3, <3>1, <3>3, <3>5
      <3>6. CASE i # at /\ i \div 2 = p
        <4>1. array'[p] = array[at] /\ array'[i] = array[i]
          BY <2>1, <2>3, <3>6
        <4>2. array[p].key <= array[i].key /\ array[p].key > array[at].key
          BY <1>2, <3>2, <3>6
        <4>3. array[p].key \in Int /\ array[i].key \in Int /\ array[at].key \in Int
          BY <1>1, <2>1
        <4> QED  BY <3>6, <4>1, <4>2, <4>3
      <3>7. CASE i # at /\ i \div 2 \notin {at, p}
        BY <2>1, <2>3, <3>1, <3>2, <3>7
      <3> QED  BY <3>4, <3>5, <3>6, <3>7
    <2>7. p > 1 => \A i \in 2..len : i \div 2 = p => array'[p \div 2].key <= array'[i].key
      <3> SUFFICES ASSUME p > 1, NEW i \in 2..len, i \div 2 = p
                   PROVE  array'[p \div 2].key <= array'[i].key
        OBVIOUS
      <3>1. p \in 2..len /\ p \div 2 \in 1..len /\ p \div 2 < p
        BY <2>1, <2>5
      <3>2. array[p \div 2].key <= array[p].key
        BY <2>1, <2>2, <3>1 DEF Moving
      <3>3. i # at => array[p].key <= array[i].key
        BY <2>2 DEF Moving
      <3>4. CASE i = at
        BY <2>1, <2>3, <3>1, <3>2, <3>4
      <3>5. CASE i # at
        <4>1. i # p
          BY <2>5, <3>1
        <4>2. array'[p \div 2] = array[p \div 2] /\ array'[i] = array[i]
          BY <2>1, <2>3, <3>1, <3>5, <4>1
        <4>3. array[p \div 2].key \in Int /\ array[p].key \in Int /\ array[i].key \in Int
          BY <1>1, <2>1, <3>1
        <4> QED  BY <3>2, <3>3, <3>5, <4>2, <4>3
      <3> QED  BY <3>4, <3>5
    <2>8. Moving' /\ IsHeap'
      BY <2>1, <2>2, <2>3, <2>6, <2>7 DEF Moving, IsHeap
    <2> QED  BY <2>1, <2>2, <2>3, <2>4, <2>8 DEF Roomy
  <1>3. CASE ~(at > 1 /\ array[p].key > array[at].key)
    <2>1. way = "up" /\ way' = "none" /\ at' = 1 /\ UNCHANGED <<array, capacity, out>>
      BY <1>3 DEF DecreaseKey, Rests, Moves
    <2>2. \A i \in 2..len : i \div 2 \in 1..len
      BY Half
    <2>3. \A i \in 2..len : array[i \div 2].key <= array[i].key
      BY <1>1, <1>3, <2>1, <2>2 DEF Moving
    <2> QED  BY <2>1, <2>3 DEF Moving, IsHeap, Distinct, Roomy
  <1> QED  BY <1>2, <1>3

\* The last node takes the place of the first.
LEMMA ExtractKeeps ==
  ASSUME HeapInv, ExtractMin
  PROVE  HeapInv' /\ ToSet(array') = ToSet(array) \ {array[1]}
  <1> DEFINE len == Len(array)
  <1> USE LenAssumption, RoomAssumption DEF HeapInv, HeapSound, HeapTypeOK
  <1>1. len \in Nat \ {0} /\ way = "none" /\ way' = "down" /\ at' = 1
        /\ out' = {array[1]} /\ array[1] \in Node
    BY DEF ExtractMin, Moves
  <1> DEFINE b == Swap(array, 1, len)
  <1>2. /\ b \in Seq(Node) /\ Len(b) = len
        /\ \A k \in 1..len :
              b[k] = IF k = len THEN array[1] ELSE IF k = 1 THEN array[len] ELSE array[k]
    BY <1>1 DEF Swap
  <1>3. /\ array' \in Seq(Node) /\ Len(array') = len - 1
        /\ \A k \in 1..(len - 1) : array'[k] = IF k = 1 THEN array[len] ELSE array[k]
    <2>1. array' = SubSeq(b, 1, len - 1)
      BY <1>2 DEF ExtractMin, Front
    <2> HIDE DEF b
    <2> QED  BY <1>1, <1>2, <2>1
  <1>4. Roomy' /\ capacity' \in 0..(WordMod - 1) /\ Len(array') <= capacity'
    <2>1. capacity' = Shrunk(len - 1) /\ capacity \div 2 \in Nat
          /\ (capacity = 2 * (capacity \div 2) \/ capacity = 2 * (capacity \div 2) + 1)
      BY Half DEF ExtractMin
    <2>2. capacity \div 2 >= 2 => Sub(capacity \div 2, K) = capacity \div 2 - 2
      BY <2>1, Remainder DEF Sub, K
    <2> QED  BY <1>1, <1>3, <2>1, <2>2 DEF Shrunk, Roomy, K
  <1>5. Distinct'
    <2>1. ASSUME NEW i \in 1..(len - 1), NEW j \in 1..(len - 1), i # j
          PROVE  array'[i].data # array'[j].data
      <3> DEFINE from(k) == IF k = 1 THEN len ELSE k
      <3>1. from(i) \in 1..len /\ from(j) \in 1..len /\ from(i) # from(j)
        BY <1>1, <2>1
      <3>2. array'[i] = array[from(i)] /\ array'[j] = array[from(j)]
        BY <1>3
      <3> HIDE DEF from
      <3> QED  BY <3>1, <3>2 DEF Distinct
    <2> QED  BY <1>3, <2>1 DEF Distinct
  <1>6. Moving' /\ IsHeap'
    <2>1. \A i \in 2..len : i \div 2 \in 1..len
      BY Half
    <2>2. \A i \in 2..len : array[i \div 2].key <= array[i].key
      BY <1>1 DEF IsHeap
    <2>3. \A i \in 2..(len - 1) :
             i \div 2 # 1 => array'[i \div 2].key <= array'[i].key
      <3> SUFFICES ASSUME NEW i \in 2..(len - 1), i \div 2 # 1
                   PROVE  array'[i \div 2].key <= array'[i].key
        OBVIOUS
      <3>1. i \in 2..len /\ i \div 2 \in 2..(len - 1)
        BY Half, <2>1
      <3>2. array'[i] = array[i]
        BY <1>3
      <3>3. array'[i \div 2] = array[i \div 2]
        BY <1>3, <3>1
      <3> QED  BY <2>2, <3>1, <3>2, <3>3
    <2> QED  BY <1>1, <1>3, <2>3 DEF Moving, IsHeap
  <1>7. ASSUME NEW x \in ToSet(array'), x \notin ToSet(array) \ {array[1]} PROVE FALSE
    <2>1. PICK k \in 1..(len - 1) : x = array'[k]
      BY <1>3, <1>7 DEF ToSet
    <2>2. PICK l \in 2..len : x = array[l]
      BY <1>1, <1>3, <2>1
    <2>3. array[l].data # array[1].data
      BY <1>1 DEF Distinct
    <2> QED  BY <1>1, <1>7, <2>2, <2>3 DEF ToSet
  <1>8. ASSUME NEW x \in ToSet(array) \ {array[1]} PROVE x \in ToSet(array')
    <2>1. PICK k \in 2..len : x = array[k]
      BY <1>8 DEF ToSet
    <2>2. \E l \in 1..(len - 1) : x = array'[l]
      <3>1. CASE k = len
        <4>1. 1 \in 1..(len - 1) /\ array'[1] = array[len]
          BY <1>3, <2>1
        <4> QED  BY <2>1, <3>1, <4>1
      <3>2. CASE k # len
        <4>1. k \in 1..(len - 1) /\ array'[k] = array[k]
          BY <1>3, <2>1, <3>2
        <4> QED  BY <2>1, <4>1
      <3> QED  BY <3>1, <3>2
    <2> QED  BY <1>3, <2>2 DEF ToSet
  <1>9. HeapTypeOK'
    <2>1. /\ Len(array') \in Nat /\ way' \in {"none", "up", "down"}
          /\ at' \in 1..(Len(array') + 1) /\ out' \subseteq Node
      BY <1>1, <1>3
    <2> QED  BY <1>3, <1>4, <2>1
  <1>10. ToSet(array') = ToSet(array) \ {array[1]}
    BY <1>7, <1>8
  <1> QED  BY <1>4, <1>5, <1>6, <1>9, <1>10

\* A round of the loop that moves a node down.
LEMMA DownKeeps ==
  ASSUME HeapInv, Heapify
  PROVE  HeapInv' /\ ToSet(array') = ToSet(array)
  <1> DEFINE len == Len(array)
             s == Smallest(array, at)
  <1> USE DEF HeapInv, HeapSound, HeapTypeOK
  <1>1. \A i \in 1..len : array[i].key \in Int
    BY KeysAreNumbers
  <1>2. \A i \in 2..len : i \div 2 \in 1..len /\ i \div 2 < i
    BY Half
  <1>3. at <= len => /\ at \in 1..len /\ s \in 1..len
                     /\ s # at => s \div 2 = at /\ array[s].key < array[at].key
                     /\ \A c \in 1..len : c \div 2 = at => array[s].key <= array[c].key
    <2> SUFFICES ASSUME at <= len
                 PROVE  /\ at \in 1..len /\ s \in 1..len
                        /\ s # at => s \div 2 = at /\ array[s].key < array[at].key
                        /\ \A c \in 1..len : c \div 2 = at => array[s].key <= array[c].key
      OBVIOUS
    <2>1. array \in Seq(Node) /\ at \in 1..len
      OBVIOUS
    <2> QED  BY <2>1, SmallestFits
  <1> HIDE DEF s
  <1>4. CASE at <= len /\ s # at
    <2>1. at \in 1..len /\ s \in 2..len /\ s \div 2 = at /\ at < s
      BY <1>3, <1>4, Half
    <2>2. array' = Swap(array, at, s) /\ way = "down" /\ way' = "down" /\ at' = s
          /\ UNCHANGED <<capacity, out>>
      BY <1>4 DEF Heapify, Moves, s
    <2>3. /\ array' \in Seq(Node) /\ Len(array') = len
          /\ \A k \in 1..len :
                array'[k] = IF k = s THEN array[at] ELSE IF k = at THEN array[s] ELSE array[k]
      BY <2>1, <2>2 DEF Swap
    <2>4. Distinct' /\ ToSet(array') = ToSet(array)
      BY <2>1, <2>2, SwapKeeps
    <2>5. \A i \in 2..len : i \div 2 # s => array'[i \div 2].key <= array'[i].key
      <3> SUFFICES ASSUME NEW i \in 2..len, i \div 2 # s
                   PROVE  array'[i \div 2].key <= array'[i].key
        OBVIOUS
      <3>1. i \div 2 \in 1..len /\ i \div 2 < i
        BY <1>2
      <3>2. i \div 2 # at => array[i \div 2].key <= array[i].key
        BY <2>2 DEF Moving
      <3>3. at > 1 => array[at \div 2].key <= array[s].key
        BY <2>1, <2>2 DEF Moving
      <3>4. array[s].key < array[at].key
        BY <1>3, <1>4
      <3>5. CASE i = at
        BY <2>1, <2>3, <3>1, <3>3, <3>5
      <3>6. CASE i = s
        BY <1>1, <2>1, <2>3, <3>4, <3>6
      <3>7. CASE i \notin {at, s} /\ i \div 2 = at
        <4>1. array[s].key <= array[i].key
          BY <1>3, <1>4, <3>7
        <4> QED  BY <2>1, <2>3, <3>1, <3>7, <4>1
      <3>8. CASE i \notin {at, s} /\ i \div 2 # at
        BY <2>1, <2>3, <3>1, <3>2, <3>8
      <3> QED  BY <3>5, <3>6, <3>7, <3>8
    <2>6. \A i \in 2..len : i \div 2 = s => array'[s \div 2].key <= array'[i].key
      <3> SUFFICES ASSUME NEW i \in 2..len, i \div 2 = s
                   PROVE  array'[s \div 2].key <= array'[i].key
        OBVIOUS
      <3>1. i \div 2 < i /\ array[i \div 2].key <= array[i].key
        BY <1>2, <2>1, <2>2 DEF Moving
      <3> QED  BY <2>1, <2>3, <3>1
    <2>7. Moving' /\ IsHeap'
      BY <2>1, <2>2, <2>3, <2>5, <2>6 DEF Moving, IsHeap
    <2> QED  BY <2>1, <2>2, <2>3, <2>4, <2>7 DEF Roomy
  <1>5. CASE ~(at <= len /\ s # at)
    <2>1. way = "down" /\ way' = "none" /\ at' = 1 /\ UNCHANGED <<array, capacity, out>>
      BY <1>5 DEF Heapify, Rests, Moves, s
    <2>2. \A i \in 2..len : array[i \div 2].key <= array[i].key
      <3> SUFFICES ASSUME NEW i \in 2..len
                   PROVE  array[i \div 2].key <= array[i].key
        OBVIOUS
      <3>1. CASE i \div 2 # at
        BY <2>1, <3>1 DEF Moving
      <3>2. CASE i \div 2 = at
        <4>1. at <= len
          BY <1>2, <3>2
        <4> QED  BY <1>3, <1>5, <3>2, <4>1
      <3> QED  BY <3>1, <3>2
    <2> QED  BY <2>1, <2>2 DEF Moving, IsHeap, Distinct, Roomy
  <1> QED  BY <1>4, <1>5

\* Every operation, in every round.
LEMMA StepHeap == HeapInv /\ [HeapNext]_hvars => HeapInv'
  <1> SUFFICES ASSUME HeapInv, [HeapNext]_hvars PROVE HeapInv'
    OBVIOUS
  <1>1. CASE ExtractNothing \/ UNCHANGED hvars
    BY <1>1 DEF ExtractNothing, hvars, HeapInv, HeapSound, HeapTypeOK, IsHeap,
                Distinct, Roomy, Moving
  <1> QED  BY <1>1, InsertKeeps, UpKeeps, ExtractKeeps, DownKeeps DEF HeapNext

\* prioq.c:61-247: when an operation has returned, no node has a smaller key than
\* its parent, and the array always fits in the memory it has, for any keys,
\* items, initial length and bound on the nodes that a word has room for.
THEOREM QueueSound == HeapSpec => []HeapSound
  <1>1. HeapSpec => []HeapInv
    BY InitHeap, StepHeap, PTL DEF HeapSpec
  <1> QED  BY <1>1, PTL DEF HeapInv

\* prioq.c:158-247: each extraction returns a node with the least key there is,
\* each node put in comes out once, and moving nodes about loses none.
THEOREM QueueRefinement == HeapSpec => ImplementsPriorityQueue
  <1>1. HeapInit => Entries!Init
    BY DEF HeapInit, Entries!Init, ToSet
  <1>2. HeapInv /\ [HeapNext]_hvars => [Entries!Next]_Entries!vars
    <2> SUFFICES ASSUME HeapInv, [HeapNext]_hvars PROVE [Entries!Next]_Entries!vars
      OBVIOUS
    <2> USE DEF HeapInv, HeapSound, HeapTypeOK
    <2>1. ASSUME NEW k \in Keys, NEW d \in Items, MinInsert(k, d) PROVE Entries!Insert
      <3> DEFINE n == [key |-> k, data |-> d]
      <3>1. /\ Len(array') = Len(array) + 1 /\ array'[Len(array) + 1] = n
            /\ \A i \in 1..Len(array) : array'[i] = array[i]
        BY <2>1 DEF MinInsert, Node
      <3>2. ToSet(array') = ToSet(array) \cup {n}
        BY <2>1, <3>1 DEF MinInsert, ToSet
      <3>3. n \notin ToSet(array)
        BY <2>1 DEF MinInsert, ToSet
      <3> QED  BY <2>1, <3>2, <3>3 DEF MinInsert, Entries!Insert
    <2>2. CASE ExtractMin
      <3>1. ToSet(array') = ToSet(array) \ {array[1]} /\ out' = {array[1]}
        BY <2>2, ExtractKeeps DEF ExtractMin
      <3>2. array[1] \in Entries!Least(ToSet(array))
        <4>1. way = "none" /\ 1 \in 1..Len(array)
          BY <2>2 DEF ExtractMin
        <4> QED  BY <4>1, RootLeast DEF Entries!Least, ToSet
      <3> QED  BY <3>1, <3>2 DEF Entries!Extract, Entries!Next
    <2>3. CASE DecreaseKey \/ Heapify
      BY <2>3, UpKeeps, DownKeeps DEF DecreaseKey, Heapify, Entries!vars
    <2>4. CASE ExtractNothing
      BY <2>4 DEF ExtractNothing, Entries!ExtractNothing, Entries!Next, ToSet
    <2>5. CASE UNCHANGED hvars
      BY <2>5 DEF hvars, Entries!vars
    <2> QED  BY <2>1, <2>2, <2>3, <2>4, <2>5 DEF HeapNext, Entries!Next
  <1>3. HeapSpec => []HeapInv
    BY InitHeap, StepHeap, PTL DEF HeapSpec
  <1> QED  BY <1>1, <1>2, <1>3, PTL DEF HeapSpec, ImplementsPriorityQueue, Entries!Spec
=============================================================================
