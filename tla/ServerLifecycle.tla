--------------------------- MODULE ServerLifecycle ---------------------------
(***************************************************************************)
(* What the main thread starts, reloads and stops (server_init.c), the     *)
(* loop and the command pipe that ask for it (mud.c), and the threads that *)
(* go on meanwhile: the workers of the pool, the tick thread with the      *)
(* queue of timed tasks (tickthread.c), and the action scheduler.          *)
(*                                                                         *)
(* The pool is what TaskService promises of it, with one more thing that   *)
(* counts here: after ThreadPool_Destroy it is zeroed, and a call of       *)
(* ThreadPool_AddTask follows a null pointer.  Using what has been torn    *)
(* down, or what is something else, ends the behaviour with a `fault'.     *)
(***************************************************************************)
EXTENDS Naturals, Sequences, FiniteSets

CONSTANTS
    Workers,   \* threads of the pool
    Clients,   \* connections
    Jobs,      \* bounds the script actions that are queued at a time
    MaxCmds,   \* bounds the commands written to the pipe
    Settings,  \* what scripts and the surroundings do, see Init
    None

ASSUME LifecycleAssumption ==
    /\ Workers # {} /\ MaxCmds \in Nat
    /\ Clients \cap Jobs = {} /\ None \notin Clients \cup Jobs
    /\ "pipe" \notin Clients
    /\ \A s \in Settings : /\ s.kinds \subseteq {"timed", "acts"}
                           /\ s.cmds \subseteq {"kill", "reload"}
                           /\ s.fails \in BOOLEAN

VARIABLES
    set,     \* the setting of this behaviour, an element of Settings
    at,      \* the step the main thread is about to take
    duty,    \* what it is doing: starting, serving, reloading, stopping
    batch,   \* events of the last epoll_wait not handled yet
    pipe,    \* commands written and not read
    left,    \* commands that may still be written
    pool,    \* "up", "closing" while it is stopped and joined, or "down"
    queue,   \* the tasks in the pool: clients for input tasks, and jobs
    worker,  \* what each worker executes
    mem,     \* the server's mem_pool: "zero" before the first use, "up", "gone"
    engine,  \* "up" or "down"
    gen,     \* how many script engines there have been
    tick,    \* the tick thread: "off", "top" of its loop, "script", "dispatch"
    tickOn,  \* its bIsRunning
    sched,   \* the action scheduler's thread: "off" or "on"
    schedOn, \* its m_bIsRunning
    job,     \* where each script action is, and what it was made from
    client,  \* what the server and the kernel know of each connection
    fault    \* the first use of something torn down, or taken for another

pvars == <<pool, queue, worker>>
tvars == <<tick, tickOn>>
svars == <<sched, schedOn>>
evars == <<engine, gen>>
vars == <<set, at, duty, batch, pipe, left, pvars, mem, evars, tvars, svars,
          job, client, fault>>

Steps == {"adts", "engine", "config", "load", "mem", "tick", "pool", "net",
          "loop", "greet", "close", "join", "flag", "tickjoin", "memdown",
          "players", "schedflag", "schedjoin", "connect", "unnet",
          "end", "exit"}
Duties == {"start", "serve", "reload", "stop", "failed"}
FreeJob == [place |-> "free", eng |-> 0, block |-> "none", due |-> FALSE]
Away == [on |-> FALSE, eng |-> 0, armed |-> FALSE, input |-> FALSE]

\* A single type invariant: where the main thread may be, and what the other
\* variables range over.
TypeOK ==
    /\ set \in Settings /\ at \in Steps /\ duty \in Duties
    /\ batch \subseteq Clients \cup {"pipe"}
    /\ pipe \in Seq({"kill", "reload"}) /\ Len(pipe) + left <= MaxCmds
    /\ left \in 0 .. MaxCmds
    /\ pool \in {"up", "closing", "down"}
    /\ queue \subseteq Clients \cup Jobs
    /\ worker \in [Workers -> Clients \cup Jobs \cup {None}]
    /\ mem \in {"zero", "up", "gone"} /\ engine \in {"up", "down"}
    /\ gen \in Nat /\ gen <= MaxCmds + 1
    /\ tick \in {"off", "top", "script", "dispatch"} /\ tickOn \in BOOLEAN
    /\ sched \in {"off", "on"} /\ schedOn \in BOOLEAN
    /\ job \in [Jobs -> [place : {"free", "timed", "acts", "pool"},
                         eng : 0 .. gen, due : BOOLEAN,
                         block : {"none", "pool", "leaked", "freed"}]]
    /\ client \in [Clients -> [on : BOOLEAN, eng : 0 .. gen,
                               armed : BOOLEAN, input : BOOLEAN]]
    /\ fault \in {<<>>} \cup ({"main", "worker", "tick", "sched"} \X
                              {"pool", "memory", "block", "engine", "task"})

(***************************************************************************)
(* Init: nothing is up.  A setting says which script actions there are,    *)
(* "timed" ones of the server and "acts" of actors, which commands are     *)
(* written to the pipe, and whether a part of the start may fail.          *)
(***************************************************************************)
Init ==
    /\ set \in Settings
    /\ at = "adts" /\ duty = "start" /\ batch = {} /\ pipe = <<>>
    /\ left = MaxCmds
    /\ pool = "down" /\ queue = {} /\ worker = [w \in Workers |-> None]
    /\ mem = "zero" /\ engine = "down" /\ gen = 0
    /\ tick = "off" /\ tickOn = FALSE /\ sched = "off" /\ schedOn = FALSE
    /\ job = [i \in Jobs |-> FreeJob]
    /\ client = [c \in Clients |-> Away]
    /\ fault = <<>>

Alive == fault = <<>> /\ at \notin {"end", "exit"}

\* The main thread goes from one step to the next with what it is doing.
Step(from, to) == at = from /\ at' = to /\ UNCHANGED duty

Fails(who, what) == fault' = <<who, what>>
Fine == UNCHANGED fault

\* ThreadPool_AddTask: a closing pool still queues, a zeroed one has no list
\* of free elements to take the task from.
AddTask(t, who) ==
    IF pool = "down"
      THEN Fails(who, "pool") /\ UNCHANGED pvars
      ELSE queue' = queue \cup {t} /\ UNCHANGED <<pool, worker>> /\ Fine

-----------------------------------------------------------------------------
(* Scripts run on the workers, on the tick thread between the top of its
   loop and the dispatch, and on the main thread in OnServerInit and in the
   connect callbacks. *)
InScript ==
    {"worker" : w \in {v \in Workers : worker[v] # None}}
      \cup {x \in {"tick"} : tick = "script"}
      \cup {x \in {"main"} : at \in {"load", "greet", "connect"}}

\* server.QueueAction: the task is allocated in mem_pool and inserted under
\* the mutex that the tick thread holds during its dispatch.  What was
\* allocated before MemoryPool_Init is left alone by everybody.
AddTimedTask(who, i) ==
    /\ who \in InScript /\ "timed" \in set.kinds /\ job[i].place = "free"
    /\ tick # "dispatch"
    /\ IF mem = "gone"
         THEN Fails(who, "memory") /\ UNCHANGED job
         ELSE /\ \E due \in BOOLEAN :
                   job' = [job EXCEPT ![i] =
                             [place |-> "timed", eng |-> gen, due |-> due,
                              block |-> IF mem = "up" THEN "pool"
                                                      ELSE "leaked"]]
              /\ Fine
    /\ UNCHANGED <<set, at, duty, batch, pipe, left, pvars, mem, evars, tvars,
                   svars, client>>

\* An actor's QueueScriptAction with a delay, for the scheduler.
QueueDelayed(who, i) ==
    /\ who \in InScript /\ "acts" \in set.kinds /\ job[i].place = "free"
    /\ \E due \in BOOLEAN :
         job' = [job EXCEPT ![i] = [place |-> "acts", eng |-> gen,
                                    due |-> due, block |-> "none"]]
    /\ UNCHANGED <<set, at, duty, batch, pipe, left, pvars, mem, evars, tvars,
                   svars, client, fault>>

\* The same without a delay goes straight to the pool.
QueueDirect(who, i) ==
    /\ who \in InScript /\ "acts" \in set.kinds /\ job[i].place = "free"
    /\ AddTask(i, who)
    /\ job' = [job EXCEPT ![i] = [place |-> "pool", eng |-> gen,
                                  due |-> TRUE, block |-> "none"]]
    /\ UNCHANGED <<set, at, duty, batch, pipe, left, mem, evars, tvars, svars,
                   client>>

\* Kill() and Reload() of scripts, and the signal handler for a kill.
WriteToCmdPipe(cmd) ==
    /\ duty \in {"serve", "reload"} /\ cmd \in set.cmds /\ left > 0
    /\ cmd = "reload" => InScript # {}
    /\ pipe' = Append(pipe, cmd) /\ left' = left - 1
    /\ UNCHANGED <<set, at, duty, batch, pvars, mem, evars, tvars, svars, job,
                   client, fault>>

\* Time passes.
FallsDue(i) ==
    /\ job[i].place \in {"timed", "acts"} /\ ~job[i].due
    /\ job' = [job EXCEPT ![i].due = TRUE]
    /\ UNCHANGED <<set, at, duty, batch, pipe, left, pvars, mem, evars, tvars,
                   svars, client, fault>>

PeerSends(c) ==
    /\ client[c].on /\ ~client[c].input
    /\ client' = [client EXCEPT ![c].input = TRUE]
    /\ UNCHANGED <<set, at, duty, batch, pipe, left, pvars, mem, evars, tvars,
                   svars, job, fault>>

-----------------------------------------------------------------------------
(* The workers.  Jobs have priority 0, input has priority 1.  A worker that
   takes a task holds the mutex since it has read bIsRunning, so nothing is
   taken that the queue did not hold before the flag was cleared.  The
   package of a script action went with the engine it was made for. *)
Take(w, t) ==
    /\ pool = "up" /\ worker[w] = None
    /\ t \in queue /\ (t \in Jobs \/ queue \cap Jobs = {})
    /\ IF t \in Jobs /\ job[t].eng # gen
         THEN Fails("worker", "engine") /\ UNCHANGED <<queue, worker, client>>
         ELSE /\ queue' = queue \ {t} /\ worker' = [worker EXCEPT ![w] = t]
              /\ client' = IF t \in Clients
                             THEN [client EXCEPT ![t].input = FALSE]
                             ELSE client
              /\ Fine
    /\ UNCHANGED <<set, at, duty, batch, pipe, left, pool, mem, evars, tvars,
                   svars, job>>

\* Faulty variant: the socket is not rearmed.
FinishNoRearm(w) ==
    /\ worker[w] # None
    /\ worker' = [worker EXCEPT ![w] = None]
    /\ IF worker[w] \in Clients
         THEN UNCHANGED <<client, job>>
         ELSE job' = [job EXCEPT ![worker[w]] = FreeJob] /\ UNCHANGED client
    /\ UNCHANGED <<set, at, duty, batch, pipe, left, pool, queue, mem, evars,
                   tvars, svars, fault>>

\* The input task rearms the socket; the package goes back to its pool.
Finish(w) ==
    /\ worker[w] # None
    /\ worker' = [worker EXCEPT ![w] = None]
    /\ IF worker[w] \in Clients
         THEN client' = [client EXCEPT ![worker[w]].armed = TRUE]
              /\ UNCHANGED job
         ELSE job' = [job EXCEPT ![worker[w]] = FreeJob] /\ UNCHANGED client
    /\ UNCHANGED <<set, at, duty, batch, pipe, left, pool, queue, mem, evars,
                   tvars, svars, fault>>

(* The tick thread. *)
TickTop ==
    /\ tick = "top" /\ tick' = IF tickOn THEN "script" ELSE "off"
    /\ UNCHANGED <<set, at, duty, batch, pipe, left, pvars, mem, evars,
                   tickOn, svars, job, client, fault>>

TickLocks ==
    /\ tick = "script" /\ tick' = "dispatch"
    /\ UNCHANGED <<set, at, duty, batch, pipe, left, pvars, mem, evars,
                   tickOn, svars, job, client, fault>>

\* A due task is read from its block, handed to the pool, and freed.  A block
\* that is none of this mem_pool's stays what it is.
TickDispatch(i) ==
    /\ tick = "dispatch" /\ job[i].place = "timed" /\ job[i].due
    /\ IF job[i].block = "freed"
         THEN Fails("tick", "block") /\ UNCHANGED <<pvars, job>>
         ELSE /\ AddTask(i, "tick")
              /\ job' = [job EXCEPT ![i].place = "pool",
                                 ![i].block = IF @ = "pool" THEN "none" ELSE @]
    /\ UNCHANGED <<set, at, duty, batch, pipe, left, mem, evars, tvars, svars,
                   client>>

TickSleeps ==
    /\ tick = "dispatch"
    /\ \A i \in Jobs : job[i].place = "timed" => ~job[i].due
    /\ tick' = "top"
    /\ UNCHANGED <<set, at, duty, batch, pipe, left, pvars, mem, evars,
                   tickOn, svars, job, client, fault>>

(* The action scheduler, of which ActionScheduler has the details. *)
SchedHandsOver(i) ==
    /\ sched = "on" /\ job[i].place = "acts" /\ job[i].due
    /\ AddTask(i, "sched")
    /\ job' = [job EXCEPT ![i].place = "pool"]
    /\ UNCHANGED <<set, at, duty, batch, pipe, left, mem, evars, tvars, svars,
                   client>>

SchedExits ==
    /\ sched = "on" /\ ~schedOn /\ sched' = "off"
    /\ UNCHANGED <<set, at, duty, batch, pipe, left, pvars, mem, evars, tvars,
                   schedOn, job, client, fault>>

-----------------------------------------------------------------------------
(* The main thread serves: epoll_wait, accept, input, and the pipe. *)
Events == {c \in Clients : client[c].armed /\ client[c].input}
            \cup {x \in {"pipe"} : pipe # <<>>}

Poll ==
    /\ at = "loop" /\ batch = {} /\ Events # {}
    /\ batch' = Events
    /\ client' = [c \in Clients |->
                    [client[c] EXCEPT !.armed = @ /\ c \notin Events]]
    /\ UNCHANGED <<set, at, duty, pipe, left, pvars, mem, evars, tvars, svars,
                   job, fault>>

\* Server_HandleUserInput
HandleUserInput(c) ==
    /\ at = "loop" /\ c \in batch \ {"pipe"} /\ batch' = batch \ {c}
    /\ AddTask(c, "main")
    /\ UNCHANGED <<set, at, duty, pipe, left, mem, evars, tvars, svars, job,
                   client>>

\* Server_AcceptClient up to the connect callback; after it the socket is
\* registered.
AcceptClient(c) ==
    /\ Step("loop", "greet") /\ batch = {} /\ ~client[c].on
    /\ client' = [client EXCEPT ![c].eng = gen]
    /\ UNCHANGED <<set, batch, pipe, left, pvars, mem, evars, tvars, svars,
                   job, fault>>

Greeted(c) ==
    /\ Step("greet", "loop") /\ client[c].eng # 0 /\ ~client[c].on
    /\ client' = [client EXCEPT ![c].on = TRUE, ![c].armed = TRUE]
    /\ UNCHANGED <<set, batch, pipe, left, pvars, mem, evars, tvars, svars,
                   job, fault>>

\* One read takes everything, and only its first command is compared.  A
\* kill leaves the other events of the batch alone.
ReadPipe ==
    /\ at = "loop" /\ "pipe" \in batch /\ pipe' = <<>>
    /\ IF Head(pipe) = "kill"
         THEN at' = "unnet" /\ duty' = "stop" /\ batch' = {}
         ELSE at' = "close" /\ duty' = "reload" /\ batch' = batch \ {"pipe"}
    /\ UNCHANGED <<set, left, pvars, mem, evars, tvars, svars, job, client,
                   fault>>

-----------------------------------------------------------------------------
(* Server_StopThreads: the pool is stopped, joined and destroyed, then the
   tick thread, then the memory of both. *)
\* Faulty variant: the pool goes before its workers.
StopPoolAtOnce ==
    /\ Step("close", "join")
    /\ pool' = IF pool = "up" THEN "down" ELSE pool
    /\ UNCHANGED <<set, batch, pipe, left, queue, worker, mem, evars, tvars,
                   svars, job, client, fault>>

StopPool ==
    /\ Step("close", "join")
    /\ pool' = IF pool = "up" THEN "closing" ELSE pool
    /\ UNCHANGED <<set, batch, pipe, left, queue, worker, mem, evars, tvars,
                   svars, job, client, fault>>

\* The drain of the queue.  What has no release function is thrown away, as
\* jobs are.  That of an input task is called with the task's block in place of
\* its package, and takes the address of a function for the server.
Drain ==
    IF queue \cap Clients # {}
      THEN Fails("main", "task") /\ UNCHANGED <<at, duty, pvars, job>>
      ELSE /\ Step("join", "flag")
           /\ pool' = "down" /\ queue' = {} /\ UNCHANGED worker
           /\ job' = [i \in Jobs |-> IF i \in queue THEN FreeJob ELSE job[i]]
           /\ Fine

\* Faulty variant: the workers are not joined.
DestroyPoolNoJoin ==
    /\ at = "join" /\ Drain
    /\ UNCHANGED <<set, batch, pipe, left, mem, evars, tvars, svars, client>>

\* The workers have been joined, and the queue is drained.
DestroyPool ==
    /\ at = "join" /\ (\A w \in Workers : worker[w] = None) /\ Drain
    /\ UNCHANGED <<set, batch, pipe, left, mem, evars, tvars, svars, client>>

StopTick ==
    /\ Step("flag", "tickjoin") /\ tickOn' = FALSE
    /\ UNCHANGED <<set, batch, pipe, left, pvars, mem, evars, tick, svars,
                   job, client, fault>>

JoinTick ==
    /\ Step("tickjoin", "memdown") /\ tick = "off"
    /\ UNCHANGED <<set, batch, pipe, left, pvars, mem, evars, tvars, svars,
                   job, client, fault>>

DestroyMemory ==
    /\ Step("memdown", "players") /\ mem' = "gone"
    /\ job' = [i \in Jobs |-> IF job[i].block = "pool"
                                THEN [job[i] EXCEPT !.block = "freed"]
                                ELSE job[i]]
    /\ UNCHANGED <<set, batch, pipe, left, pvars, evars, tvars, svars, client,
                   fault>>

\* A reload releases the script objects of the clients, a stop the clients
\* and the queue of timed tasks.
ReleasePlayers ==
    /\ Step("players", "schedflag")
    /\ client' = [c \in Clients |->
                    IF duty = "reload" THEN [client[c] EXCEPT !.eng = 0]
                                       ELSE Away]
    /\ job' = [i \in Jobs |-> IF duty # "reload" /\ job[i].place = "timed"
                                THEN FreeJob ELSE job[i]]
    /\ UNCHANGED <<set, batch, pipe, left, pvars, mem, evars, tvars, svars,
                   fault>>

\* Faulty variant: the flag of the scheduler stays set.
StopSchedulerNoFlag ==
    /\ Step("schedflag", "schedjoin")
    /\ IF engine = "down" THEN Fails("main", "engine") /\ UNCHANGED schedOn
                          ELSE UNCHANGED schedOn /\ Fine
    /\ UNCHANGED <<set, batch, pipe, left, pvars, mem, evars, tvars, sched,
                   job, client>>

\* AngelScriptManager_ReleaseEngine begins with the scheduler, which is a
\* null pointer if there is no engine.
StopScheduler ==
    /\ Step("schedflag", "schedjoin")
    /\ IF engine = "down" THEN Fails("main", "engine") /\ UNCHANGED schedOn
                          ELSE schedOn' = FALSE /\ Fine
    /\ UNCHANGED <<set, batch, pipe, left, pvars, mem, evars, tvars, sched,
                   job, client>>

\* A stop that Server_Start called itself is followed by the one of main.
ReleaseEngine ==
    /\ at = "schedjoin" /\ sched = "off" /\ engine' = "down"
    /\ at' = CASE duty = "reload" -> "engine" [] duty = "stop" -> "end"
               [] duty = "failed" -> "unnet"
    /\ duty' = IF duty = "failed" THEN "stop" ELSE duty
    /\ job' = [i \in Jobs |-> IF job[i].place = "acts" THEN FreeJob
                                                       ELSE job[i]]
    /\ UNCHANGED <<set, batch, pipe, left, pvars, mem, gen, tvars, svars,
                   client, fault>>

StopNetwork ==
    /\ Step("unnet", "close") /\ pipe' = <<>>
    /\ UNCHANGED <<set, batch, left, pvars, mem, evars, tvars, svars, job,
                   client, fault>>

(* Server_Start and the second half of Server_Reload. *)
InitializeADTs ==
    /\ Step("adts", "engine")
    /\ UNCHANGED <<set, batch, pipe, left, pvars, mem, evars, tvars, svars,
                   job, client, fault>>

InitEngine ==
    /\ Step("engine", "config")
    /\ engine' = "up" /\ gen' = gen + 1 /\ sched' = "on" /\ schedOn' = TRUE
    /\ UNCHANGED <<set, batch, pipe, left, pvars, mem, tvars, job, client,
                   fault>>

\* Configuration and database.
LoadConfiguration ==
    /\ Step("config", "load")
    /\ UNCHANGED <<set, batch, pipe, left, pvars, mem, evars, tvars, svars,
                   job, client, fault>>

LoadGame ==
    /\ Step("load", "mem")
    /\ UNCHANGED <<set, batch, pipe, left, pvars, mem, evars, tvars, svars,
                   job, client, fault>>

InitMemory ==
    /\ Step("mem", "tick") /\ mem' = "up"
    /\ UNCHANGED <<set, batch, pipe, left, pvars, evars, tvars, svars, job,
                   client, fault>>

StartTick ==
    /\ Step("tick", "pool") /\ tick' = "top" /\ tickOn' = TRUE
    /\ UNCHANGED <<set, batch, pipe, left, pvars, mem, evars, svars, job,
                   client, fault>>

InitPool ==
    /\ at = "pool" /\ pool' = "up"
    /\ at' = IF duty = "reload" THEN "connect" ELSE "net"
    /\ UNCHANGED <<set, duty, batch, pipe, left, queue, worker, mem, evars,
                   tvars, svars, job, client, fault>>

InitializeNetwork ==
    /\ at = "net" /\ at' = "loop" /\ duty' = "serve"
    /\ UNCHANGED <<set, batch, pipe, left, pvars, mem, evars, tvars, svars,
                   job, client, fault>>

\* The clients that were kept meet the new scripts one after another.
Reconnect(c) ==
    /\ at = "connect" /\ client[c].on /\ client[c].eng = 0
    /\ client' = [client EXCEPT ![c].eng = gen]
    /\ UNCHANGED <<set, at, duty, batch, pipe, left, pvars, mem, evars, tvars,
                   svars, job, fault>>

Reloaded ==
    /\ at = "connect" /\ at' = "loop" /\ duty' = "serve"
    /\ \A c \in Clients : client[c].on => client[c].eng # 0
    /\ UNCHANGED <<set, batch, pipe, left, pvars, mem, evars, tvars, svars,
                   job, client, fault>>

\* A failure ends a reload together with the process.  A failed start is
\* followed by Server_Stop in main, and some failures by one before that.
Failure ==
    /\ set.fails
    /\ \/ duty = "reload" /\ at \in {"config", "load"}
          /\ at' = "exit" /\ UNCHANGED duty
       \/ duty = "start" /\ at \in {"config", "load", "net"}
          /\ at' = "unnet" /\ duty' = "stop"
       \/ duty = "start" /\ at \in {"adts", "config", "net"}
          /\ at' = "unnet" /\ duty' = "failed"
    /\ UNCHANGED <<set, batch, pipe, left, pvars, mem, evars, tvars, svars,
                   job, client, fault>>

-----------------------------------------------------------------------------
Script ==
    \E who \in InScript, i \in Jobs :
        AddTimedTask(who, i) \/ QueueDelayed(who, i) \/ QueueDirect(who, i)
Surroundings ==
    \/ \E cmd \in {"kill", "reload"} : WriteToCmdPipe(cmd)
    \/ \E c \in Clients : PeerSends(c) \/ AcceptClient(c)
Clock == \E i \in Jobs : FallsDue(i)
Work(w) == Finish(w) \/ \E t \in queue : Take(w, t)
Tick == TickTop \/ TickLocks \/ TickSleeps \/ \E i \in Jobs : TickDispatch(i)
Scheduler == SchedExits \/ \E i \in Jobs : SchedHandsOver(i)
Serve == Poll \/ ReadPipe \/ \E c \in Clients : HandleUserInput(c) \/ Greeted(c)
Stop == \/ StopNetwork \/ StopPool \/ DestroyPool \/ StopTick \/ JoinTick
        \/ DestroyMemory \/ ReleasePlayers \/ StopScheduler \/ ReleaseEngine
Start == \/ InitializeADTs \/ InitEngine \/ LoadConfiguration \/ LoadGame
         \/ InitMemory \/ StartTick \/ InitPool \/ InitializeNetwork
         \/ Reloaded \/ Failure \/ \E c \in Clients : Reconnect(c)
Main == Serve \/ Stop \/ Start

Next ==
    Alive /\ \/ Script \/ Surroundings \/ Clock \/ Tick \/ Scheduler \/ Main
             \/ \E w \in Workers : Work(w)

Spec == Init /\ [][Next]_vars

\* Threads go on, scripts return, and the clock moves.  That the workers can
\* be joined is what ThreadPool's StopJoins says.
FairSpec ==
    /\ Spec /\ WF_vars(Alive /\ Main) /\ WF_vars(Alive /\ Tick)
    /\ WF_vars(Alive /\ Scheduler) /\ WF_vars(Alive /\ Clock)
    /\ \A w \in Workers : WF_vars(Alive /\ Work(w))

-----------------------------------------------------------------------------
InPool == queue \cup ({worker[w] : w \in Workers} \ {None})

\* server_init.c:381-397: the threads that run scripts are stopped before the
\* engine is released, in this order for a reload and a stop.  Whoever
\* executes a script, and whatever input the pool holds, meets the engine it
\* was made for, however the tick thread and the scheduler go on meanwhile.
EngineOutlivesScripts ==
    /\ InScript # {} => engine = "up"
    /\ \A w \in Workers :
          worker[w] \in Jobs => job[worker[w]].eng = gen
    /\ \A c \in Clients \cap InPool : engine = "up" /\ client[c].eng = gen

\* client.c:89, server_init.c:389: the script objects of clients go before
\* the engine does, and after a reload no client has one of an older engine.
PlayersBeforeEngine ==
    \A c \in Clients : client[c].eng \in {0, gen}
                       /\ (engine = "down" => client[c].eng = 0)

\* server_init.c:350-352: the packages of input tasks live in mem_pool, and
\* timed tasks too.  The memory goes when no worker and no tick thread is
\* left, and only what waits in the timed queue is left without its block.
MemoryOutlivesUsers ==
    /\ (InPool \cap Clients # {} \/ tick # "off") => mem = "up"
    /\ \A i \in Jobs : job[i].block = "freed" => gen > 1 \/ mem = "gone"

\* mud.c:54-112: the main thread serves only while everything it serves with
\* is up, whatever was started, reloaded or failed before.
UpWhileServing ==
    at \in {"loop", "greet"} =>
        pool = "up" /\ mem = "up" /\ engine = "up" /\ sched = "on" /\ tickOn

\* server_init.c:295-492: engine, memory and pool are there for whoever uses
\* them, through starts, reloads, failures and the stop.
Inv ==
    /\ TypeOK /\ EngineOutlivesScripts /\ PlayersBeforeEngine
    /\ MemoryOutlivesUsers /\ UpWhileServing

\* server_init.c:348-353, 434, 191-199, threadpool.c:102-105: when the server
\* uses what is not there.  The tick thread is exposed between the end of the
\* pool and its own, before the pool is there, and to tasks that outlived a
\* reload; the scheduler to the whole time without a pool; OnServerInit, which
\* runs before the threads exist, to both the pool and the memory; a start that
\* failed releases the engine twice; and a worker is exposed only to an action
\* that the OnServerInit of the first start queued, because its block is the
\* only one that outlives a reload.  Input that is still queued when the pool is
\* drained, by a reload or a stop, ends the server there.  Without queued script
\* actions that is all a server that has started is exposed to.
FaultWindows ==
    /\ fault = <<"tick", "pool">> => at \in {"flag", "tickjoin", "pool"}
    /\ fault = <<"tick", "block">> => gen > 1
    /\ fault = <<"sched", "pool">> => duty # "serve"
    /\ fault \in {<<"main", "pool">>, <<"main", "memory">>} => at = "load"
    /\ fault = <<"main", "memory">> => duty = "reload"
    /\ fault = <<"main", "engine">> => duty \in {"failed", "stop"} /\ set.fails
    /\ fault = <<"main", "task">> =>
          /\ at = "join" /\ duty \in {"reload", "stop"}
          /\ \E c \in Clients \cap queue : client[c].on
    /\ (fault # <<>> /\ fault[1] = "worker") =>
          \E i \in Jobs \cap queue : job[i].block = "leaked" /\ job[i].eng < gen
    /\ fault \notin {<<>>, <<"main", "task">>} /\ set.kinds = {} => set.fails

\* server.c:340-343, server_init.c:350: a connected client is armed, in the
\* batch, or in the pool, through reloads too, unless the server is going down.
NobodyForgotten ==
    \A c \in Clients :
        client[c].on => \/ client[c].armed \/ duty = "stop"
                        \/ c \in batch \cup InPool

\* mud.c:94-105: a reload comes to an end, if by a fault.
ReloadReturns == duty = "reload" ~> (duty = "serve" \/ ~Alive)

\* mud.c:88-93: a kill that is the first command read ends the server.  One
\* that was read behind another command is lost.
KillStops ==
    (at = "loop" /\ "pipe" \in batch /\ Head(pipe) = "kill") ~> ~Alive

\* mud.c:83-105: what the pipe says is done, and done with.
CommandsObeyed == ReloadReturns /\ KillStops

\* mud.c:110: who sends something is served, unless others send for ever: the
\* queue is not first come, first served.
Served ==
    \A c \in Clients :
        <>[](\A d \in Clients \ {c} : ~client[d].input) =>
            [](client[c].input /\ set.kinds = {} =>
                   <>(~client[c].input \/ ~Alive))

\* tickthread.c:58-67: a timed task is handed over, unless the server stops
\* or fails first.
TimedRun ==
    \A i \in Jobs : (job[i].place = "timed") ~> (job[i].place # "timed"
                                                   \/ ~Alive)

\* server.c:179-347, tickthread.c:49-70: neither input nor a timed task is put
\* off for ever.
WorkDone == Served /\ TimedRun
=============================================================================
