--------------------------- MODULE ActionScheduler ---------------------------
(***************************************************************************)
(* The action scheduler of action_scheduler.cpp and the actors of          *)
(* nativeactor.cpp, whose actions it hands to the thread pool.             *)
(*                                                                         *)
(* A thread that queues an action of an actor computes the time it is due, *)
(* puts it into the actor's queue, makes the actor active and signals the  *)
(* scheduler, in four steps.  The scheduler scans the queues of the active *)
(* actors under a write lock, hands over what is due, and sleeps.          *)
(*                                                                         *)
(* Every time is relative to the second the clock is in, so that the clock *)
(* may run for ever and there are still finitely many states.  A time that *)
(* is more than Past seconds gone is not told from one that is just that.  *)
(***************************************************************************)
EXTENDS Integers, FiniteSets

CONSTANTS
  Actors,       \* the addresses of actors
  Actions,      \* the actions of the scripts, each with its package
  Callers,      \* the threads that run scripts
  NS,           \* nanoseconds of a second
  Hour,         \* seconds the scheduler sleeps when it knows of no time
  Delays,       \* the delays scripts ask for: pairs of seconds and nanoseconds
  None          \* no actor, no action, a timespec of zeroes

ASSUME ActorAssumption == Actors \subseteq Int /\ IsFiniteSet(Actors)

ASSUME TimeAssumption ==
  /\ NS \in Nat \ {0} /\ Hour \in Nat
  /\ Delays \subseteq (Nat \X Nat) \ {<<0, 0>>}

ASSUME NoneAssumption == None \notin Actors \cup Actions \cup [s : Int, ns : Int]

VARIABLES
  nsec,         \* nanoseconds of the clock, CLOCK_MONOTONIC
  active,       \* m_active_actors
  queue,        \* m_action_queue of each actor
  due,          \* when each action is due: its key in the queue
  refs,         \* m_refCount of each actor, 0 if there is none at the address
  held,         \* the actors scripts refer to
  handed,       \* the actions the last step has handed to the thread pool
  call,         \* what each caller does: which action it queues for which actor
  phase,        \* of StopThread
  pc,           \* of the scheduler's thread
  cur, todo, minDelay, wait,    \* its current_ts, the actors ahead of it,
                                \* min_delay_ts and wait_ts
  missed        \* for the properties: a signal came since the scan began,
                \* before the thread waited

clock  == <<nsec, due, cur, minDelay, wait>>
actors == <<active, queue, refs, held>>
vars   == <<clock, actors, handed, call, phase, pc, todo, missed>>

-----------------------------------------------------------------------------
(* Variants of the definitions below, each with a bug it could have had.   *)

\* Times are compared by their nanoseconds only.
LaterNs(a, b) == a.ns > b.ns

\* The call ends without the signal.
SignalNobody(c) ==
  /\ call[c].at = "signal"
  /\ call' = [call EXCEPT ![c] = [at |-> "idle", actor |-> None, action |-> None]]
  /\ handed' = {}
  /\ UNCHANGED <<clock, actors, phase, pc, todo, missed>>

\* The thread does not look at m_bIsRunning.
RunningAlways == TRUE

-----------------------------------------------------------------------------
(* Time.                                                                   *)

Ts   == [s : Int, ns : Nat]
Past == 1
Now  == [s |-> 0, ns |-> nsec]

\* CmpTs(a, b) == 1
Later(a, b) == a.s > b.s \/ (a.s = b.s /\ a.ns > b.ns)

\* The seconds of the clock are never zero, so only the nanoseconds can be.
IsTsNonZero(ts) == ts # None /\ ts.ns # 0

Plus(ts, n) == [ts EXCEPT !.s = @ + n]

NextSecond(ts) == IF ts = None \/ ts.s = -Past THEN ts ELSE Plus(ts, -1)

\* The clock goes on.  It is assumed that a scan is over within the second.
Tick ==
  /\ pc = "scan" => nsec < NS - 1
  /\ nsec' = (nsec + 1) % NS
  /\ IF nsec = NS - 1
     THEN due' = [x \in Actions |-> NextSecond(due[x])] /\ wait' = NextSecond(wait)
     ELSE UNCHANGED <<due, wait>>
  /\ handed' = {}
  /\ UNCHANGED <<actors, cur, minDelay, call, phase, pc, todo, missed>>

-----------------------------------------------------------------------------
(* The actors.                                                             *)

Idle == [at |-> "idle", actor |-> None, action |-> None]

\* NativeActor::~NativeActor for the actors S: what they have queued is gone.
Destroy(S) ==
  /\ queue' = [a \in Actors |-> IF a \in S THEN {} ELSE queue[a]]
  /\ due' = [x \in Actions |-> IF \E a \in S : x \in queue[a] THEN None ELSE due[x]]

\* The lock of the active actors is free: the thread has it for its whole scan.
Unlocked == pc # "scan"

\* A script creates an actor, which makes itself active.
Create(a) ==
  /\ phase = "up" /\ Unlocked
  /\ refs[a] = 0
  /\ refs' = [refs EXCEPT ![a] = 2]
  /\ held' = held \cup {a}
  /\ active' = active \cup {a}
  /\ handed' = {}
  /\ UNCHANGED <<clock, queue, call, phase, pc, todo, missed>>

\* The last reference of the scripts to an actor goes.
LetGo(a) ==
  /\ a \in held
  /\ \A c \in Callers : call[c].actor # a
  /\ held' = held \ {a}
  /\ refs' = [refs EXCEPT ![a] = @ - 1]
  /\ Destroy(IF refs[a] = 1 THEN {a} ELSE {})
  /\ handed' = {}
  /\ UNCHANGED <<active, nsec, cur, minDelay, wait, call, phase, pc, todo, missed>>

\* QueueScriptAction without a delay: the action goes straight to the pool.
QueueNow(c, a, x) ==
  /\ phase = "up" /\ call[c] = Idle /\ a \in held
  /\ due[x] = None
  /\ handed' = {x}
  /\ UNCHANGED <<clock, actors, call, phase, pc, todo, missed>>

\* With one: it is due at the sum of the clock and the delay, field by field.
QueueScriptAction(c, a, x, d) ==
  /\ phase = "up" /\ call[c] = Idle /\ a \in held
  /\ due[x] = None
  /\ due' = [due EXCEPT ![x] = [s |-> d[1], ns |-> nsec + d[2]]]
  /\ call' = [call EXCEPT ![c] = [at |-> "insert", actor |-> a, action |-> x]]
  /\ handed' = {}
  /\ UNCHANGED <<nsec, cur, minDelay, wait, actors, phase, pc, todo, missed>>

\* QueueAction: the insertion under the actor's mutex...
Insert(c) ==
  /\ call[c].at = "insert"
  /\ queue' = [queue EXCEPT ![call[c].actor] = @ \cup {call[c].action}]
  /\ call' = [call EXCEPT ![c].at = "activate"]
  /\ handed' = {}
  /\ UNCHANGED <<clock, active, refs, held, phase, pc, todo, missed>>

\* ... AddActiveActor under the scheduler's lock...
AddActiveActor(c) ==
  LET a == call[c].actor
  IN /\ call[c].at = "activate" /\ Unlocked
     /\ active' = active \cup {a}
     /\ refs' = IF a \in active THEN refs ELSE [refs EXCEPT ![a] = @ + 1]
     /\ call' = [call EXCEPT ![c].at = "signal"]
     /\ handed' = {}
     /\ UNCHANGED <<clock, queue, held, phase, pc, todo, missed>>

\* A signal or a broadcast ends the wait of the thread, if it waits.
Notify ==
  \/ pc = "asleep" /\ pc' = "top" /\ wait' = None /\ missed' = FALSE
  \/ pc \in {"scan", "wait"} /\ missed' = TRUE /\ UNCHANGED <<pc, wait>>
  \/ pc \in {"top", "done"} /\ UNCHANGED <<pc, wait, missed>>

\* ... and Signal without the mutex.
Signal(c) ==
  /\ call[c].at = "signal"
  /\ Notify
  /\ call' = [call EXCEPT ![c] = Idle]
  /\ handed' = {}
  /\ UNCHANGED <<nsec, due, cur, minDelay, actors, todo, phase>>

-----------------------------------------------------------------------------
(* ActionScheduler::ThreadFunction.                                        *)

\* m_bIsRunning
Running == phase = "up"

\* The top of the loop, up to the lock.
BeginScan ==
  /\ pc = "top" /\ Running
  /\ pc' = "scan"
  /\ cur' = Now
  /\ todo' = active
  /\ handed' = {}
  /\ UNCHANGED <<nsec, due, minDelay, wait, actors, call, phase, missed>>

\* What the scan hands over of an actor's actions, and what it leaves.
Ready(a) == {x \in queue[a] : ~Later(due[x], cur)}
Rest(a)  == queue[a] \ Ready(a)

\* Variant of Leaves: an actor leaves once something of it is handed over.
LeavesWhenReady(a) == Rest(a) = {} \/ Ready(a) # {}

\* An actor with nothing left leaves the set and is released; the iterator has
\* gone on before.
Leaves(a)   == Rest(a) = {}
Released(a) == [refs EXCEPT ![a] = @ - 1]
Ahead(a)    == todo \ {a}

\* The new min_delay_ts when the first action left is due at ts.
Minimum(ts) ==
  IF ~IsTsNonZero(minDelay) \/ (IsTsNonZero(ts) /\ Later(minDelay, ts))
  THEN Plus(ts, 1)
  ELSE minDelay

\* One actor, in the order of the addresses.
ScanActor(a) ==
  /\ pc = "scan"
  /\ a \in todo /\ \A b \in todo : a <= b
  /\ todo' = Ahead(a)
  /\ handed' = Ready(a)
  /\ queue' = [queue EXCEPT ![a] = Rest(a)]
  /\ due' = [x \in Actions |-> IF x \in Ready(a) THEN None ELSE due[x]]
  /\ \/ /\ Leaves(a)
        /\ active' = active \ {a}
        /\ refs' = Released(a)
        /\ UNCHANGED minDelay
     \/ /\ ~Leaves(a)
        /\ \E x \in Rest(a) :
             /\ \A y \in Rest(a) : ~Later(due[x], due[y])
             /\ minDelay' = Minimum(due[x])
        /\ UNCHANGED <<active, refs>>
  /\ UNCHANGED <<nsec, cur, wait, held, call, phase, pc, missed>>

\* wait_ts: the minimum, or an hour from now.
WaitTs == IF IsTsNonZero(minDelay) THEN minDelay ELSE Plus(cur, Hour)

\* The end of the scan, and how long to wait.
EndScan ==
  /\ pc = "scan" /\ todo = {}
  /\ pc' = "wait"
  /\ wait' = WaitTs
  /\ cur' = None
  /\ minDelay' = None
  /\ handed' = {}
  /\ UNCHANGED <<nsec, due, actors, call, phase, todo, missed>>

\* pthread_cond_timedwait, without the mutex.  It fails at once when the
\* nanoseconds make up more than a second.
TimedWait ==
  /\ pc = "wait"
  /\ IF wait.ns < NS
     THEN pc' = "asleep" /\ UNCHANGED <<wait, missed>>
     ELSE pc' = "top" /\ wait' = None /\ missed' = FALSE
  /\ handed' = {}
  /\ UNCHANGED <<nsec, due, cur, minDelay, actors, call, phase, todo>>

WakeUp ==
  /\ pc = "asleep"
  /\ pc' = "top"
  /\ wait' = None
  /\ missed' = FALSE
  /\ handed' = {}
  /\ UNCHANGED <<nsec, due, cur, minDelay, actors, call, phase, todo>>

TimeOut == pc = "asleep" /\ ~Later(wait, Now) /\ WakeUp

\* The loop has ended: the thread releases the actors and exits.
Exit ==
  /\ pc = "top" /\ ~Running
  /\ pc' = "done"
  /\ refs' = [a \in Actors |-> IF a \in active THEN refs[a] - 1 ELSE refs[a]]
  /\ Destroy({a \in active : refs[a] = 1})
  /\ handed' = {}
  /\ UNCHANGED <<nsec, cur, minDelay, wait, active, held, call, phase, todo, missed>>

-----------------------------------------------------------------------------
(* StopThread, by the main thread when the threads that run scripts have   *)
(* been joined (server_init.c:381 to 397), and the deletion.               *)

StopFlag ==
  /\ phase = "up"
  /\ \A c \in Callers : call[c] = Idle
  /\ phase' = "flag"
  /\ handed' = {}
  /\ UNCHANGED <<clock, actors, call, pc, todo, missed>>

Broadcast ==
  /\ phase = "flag"
  /\ phase' = "join"
  /\ Notify
  /\ handed' = {}
  /\ UNCHANGED <<nsec, due, cur, minDelay, actors, todo, call>>

Join ==
  /\ phase = "join" /\ pc = "done"
  /\ phase' = "gone"
  /\ active' = {}
  /\ handed' = {}
  /\ UNCHANGED <<clock, queue, refs, held, call, pc, todo, missed>>

-----------------------------------------------------------------------------
Init ==
  /\ nsec \in 0..(NS - 1)
  /\ active = {} /\ held = {}
  /\ queue = [a \in Actors |-> {}]
  /\ due = [x \in Actions |-> None]
  /\ refs = [a \in Actors |-> 0]
  /\ handed = {}
  /\ call = [c \in Callers |-> Idle]
  /\ phase = "up" /\ pc = "top"
  /\ cur = None /\ minDelay = None /\ wait = None
  /\ todo = {}
  /\ missed = FALSE

Caller(c) == Insert(c) \/ AddActiveActor(c) \/ Signal(c)

Scheduler ==
  \/ BeginScan
  \/ \E a \in Actors : ScanActor(a)
  \/ EndScan
  \/ TimedWait
  \/ TimeOut
  \/ Exit

Next ==
  \/ Tick
  \/ \E a \in Actors : Create(a)
  \/ \E a \in Actors : LetGo(a)
  \/ \E c \in Callers, a \in Actors, x \in Actions : QueueNow(c, a, x)
  \/ \E c \in Callers, a \in Actors, x \in Actions, d \in Delays : QueueScriptAction(c, a, x, d)
  \/ \E c \in Callers : Caller(c)
  \/ Scheduler
  \/ WakeUp
  \/ StopFlag
  \/ Broadcast
  \/ Join

Spec == Init /\ [][Next]_vars

\* Time goes on, and no thread stops in the middle of what it does.
FairSpec ==
  /\ Spec
  /\ SF_vars(Tick)
  /\ WF_vars(Scheduler)
  /\ \A c \in Callers : WF_vars(Caller(c)) /\ SF_vars(AddActiveActor(c))
  /\ WF_vars(Broadcast)
  /\ WF_vars(Join)

-----------------------------------------------------------------------------
(* Properties.                                                             *)

\* Every variable keeps its type, and the thread has times when it needs them.
TypeOK ==
  /\ nsec \in 0..(NS - 1)
  /\ active \subseteq Actors /\ held \subseteq Actors /\ todo \subseteq Actors
  /\ queue \in [Actors -> SUBSET Actions]
  /\ due \in [Actions -> Ts \cup {None}]
  /\ refs \in [Actors -> 0..2]
  /\ handed \subseteq Actions
  /\ call \in [Callers -> [at : {"insert", "activate", "signal"},
                           actor : Actors, action : Actions] \cup {Idle}]
  /\ phase \in {"up", "flag", "join", "gone"}
  /\ pc \in {"top", "scan", "wait", "asleep", "done"}
  /\ cur \in Ts \cup {None} /\ minDelay \in Ts \cup {None} /\ wait \in Ts \cup {None}
  /\ pc = "scan" => cur # None /\ cur.s = 0 /\ cur.ns <= nsec
  /\ pc \in {"wait", "asleep"} => wait # None
  /\ missed \in BOOLEAN

Bit(b) == IF b THEN 1 ELSE 0

\* An actor is referred to once for the scripts and once for the set of active
\* actors, so it lives as long as it is in the set.
Referenced ==
  \A a \in Actors : refs[a] = Bit(a \in held) + Bit(a \in active /\ pc # "done")

\* The actors ahead of a scan are all in the set still, and so alive; a thread
\* that queues an action works on an actor that the scripts hold, and it does
\* so before StopThread.
Control ==
  /\ pc = "scan" => todo \subseteq active
  /\ pc # "scan" => todo = {}
  /\ pc = "done" => phase # "up"
  /\ \A c \in Callers : call[c] # Idle => phase = "up" /\ call[c].actor \in held

\* An actor that has something queued is active, and so alive and scanned, or
\* the thread that has put it there is about to make it active.
QueuedActive ==
  pc # "done" =>
    \A a \in Actors : queue[a] # {} =>
      a \in active \/ \E c \in Callers : call[c].at = "activate" /\ call[c].actor = a

\* An action that waits for its time is in one queue, or on its way to one.
OnePlace ==
  /\ \A a \in Actors : \A x \in queue[a] : due[x] # None
  /\ \A a, b \in Actors : a # b => queue[a] \cap queue[b] = {}
  /\ \A c \in Callers : call[c].at = "insert" =>
       /\ due[call[c].action] # None
       /\ \A a \in Actors : call[c].action \notin queue[a]
       /\ \A d \in Callers \ {c} : call[d].at = "insert" => call[d].action # call[c].action

\* action_scheduler.cpp:94-202, nativeactor.cpp:114-148: a queued action is in
\* one queue, of an actor that is active or about to be, and so counted, alive
\* and scanned, wherever the scan and the calls have come to.
Inv == TypeOK /\ Referenced /\ Control /\ QueuedActive /\ OnePlace

\* While the scheduler sleeps, no call is about to signal it, and it missed no
\* signal, it wakes up in time for the first action of every actor, with a
\* second of delay for each actor, unless that action is due on a whole second.
WakesFor(x) == ~Later(wait, Plus(due[x], Cardinality(Actors)))

IsFirst(x, a) == x \in queue[a] /\ \A y \in queue[a] : ~Later(due[x], due[y])

SleepCovers ==
  /\ pc = "asleep" /\ phase = "up" /\ ~missed
  /\ \A c \in Callers : call[c].at \in {"idle", "insert"}
  => \A a \in Actors : \A x \in queue[a] : IsFirst(x, a) /\ due[x].ns # 0 => WakesFor(x)

\* No action is handed to the pool before it is due, provided that the sum of
\* the nanoseconds stayed below a second.
Reached(ts) == ts.s * NS + ts.ns <= nsec

NotEarly ==
  [][\A x \in handed' : due[x] # None /\ due[x].ns < NS => Reached(due[x])]_vars

\* Whatever signal it misses, the scheduler hands over every queued action.
HandedOver ==
  \A x \in Actions : (\E a \in Actors : x \in queue[a]) ~> (x \in handed \/ phase # "up")

\* StopThread returns, if only after the hour.
StopReturns == phase = "flag" ~> phase = "gone"
=============================================================================
