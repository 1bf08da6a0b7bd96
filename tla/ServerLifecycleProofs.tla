------------------------ MODULE ServerLifecycleProofs ------------------------
(***************************************************************************)
(* Proofs about ServerLifecycle, for any workers, clients, script actions, *)
(* commands and settings: the start, the reload and the stop of            *)
(* server_init.c take things down in an order in which nobody who is left  *)
(* uses them, with the exceptions that FaultWindows names.                 *)
(***************************************************************************)
EXTENDS ServerLifecycle, TLAPS

Stopping == {"close", "join", "flag", "tickjoin", "memdown", "players",
             "schedflag", "schedjoin"}

\* The types, in the parts that the steps change.
JobsOf(n) == [place : {"free", "timed", "acts", "pool"}, eng : 0 .. n,
              due : BOOLEAN, block : {"none", "pool", "leaked", "freed"}]
ClientsOf(n) == [on : BOOLEAN, eng : 0 .. n, armed : BOOLEAN, input : BOOLEAN]

JobTypes == job \in [Jobs -> JobsOf(gen)]
ClientTypes == client \in [Clients -> ClientsOf(gen)]

OtherTypes ==
    /\ set \in Settings /\ at \in Steps /\ duty \in Duties
    /\ batch \subseteq Clients \cup {"pipe"}
    /\ pipe \in Seq({"kill", "reload"}) /\ Len(pipe) + left <= MaxCmds
    /\ left \in 0 .. MaxCmds
    /\ pool \in {"up", "closing", "down"}
    /\ queue \subseteq Clients \cup Jobs
    /\ worker \in [Workers -> Clients \cup Jobs \cup {None}]
    /\ mem \in {"zero", "up", "gone"} /\ engine \in {"up", "down"}
    /\ gen \in Nat
    /\ tick \in {"off", "top", "script", "dispatch"} /\ tickOn \in BOOLEAN
    /\ sched \in {"off", "on"} /\ schedOn \in BOOLEAN
    /\ fault \in {<<>>} \cup ({"main", "worker", "tick", "sched"} \X
                              {"pool", "memory", "block", "engine", "task"})

\* Where the main thread may be with what it is doing.
AtDuty ==
    /\ duty = "start" => at \in {"adts", "engine", "config", "load", "mem",
                                 "tick", "pool", "net"}
    /\ duty = "serve" => at \in {"loop", "greet"}
    /\ duty = "reload" => at \in Stopping \cup {"engine", "config", "load",
                                 "mem", "tick", "pool", "connect", "exit"}
    /\ duty = "failed" => at \in Stopping \cup {"unnet"}
    /\ duty = "stop" => at \in Stopping \cup {"unnet", "end"}

\* What each step finds, in the order in which the parts come up and go down.
Order ==
    /\ at \in {"config", "load", "mem", "tick", "pool", "net", "loop", "greet",
               "connect"} => engine = "up" /\ schedOn
    /\ at \in {"adts", "engine", "end"} => engine = "down"
    /\ at \in {"tick", "pool", "net", "loop", "greet", "connect"} => mem = "up"
    /\ at \in {"adts", "engine", "config", "load", "mem", "players",
               "schedflag", "schedjoin", "exit", "end"} => mem # "up"
    /\ at \in {"pool", "net", "loop", "greet", "connect"} => tickOn
    /\ at \in {"adts", "engine", "config", "load", "mem", "tick", "memdown",
               "players", "schedflag", "schedjoin", "exit", "end"} => tick = "off"
    /\ at \in {"net", "loop", "greet", "connect"} => pool = "up"
    /\ at = "join" => pool # "up"
    /\ at \in {"unnet", "close", "join"} /\ tick # "off" => pool # "down"
    /\ at \in {"adts", "engine", "config", "load", "mem", "tick", "pool",
               "flag", "tickjoin", "memdown", "players", "schedflag",
               "schedjoin", "exit", "end"} => pool = "down"

\* Whoever uses a part finds what it needs below it, and a start finds what
\* nobody has used before.
Below ==
    /\ pool # "down" \/ tick # "off" => mem = "up" /\ engine = "up"
    /\ pool = "down" => queue = {} /\ \A w \in Workers : worker[w] = None
    /\ schedOn => sched = "on"
    /\ engine = "down" => \/ at \in {"adts", "engine", "end"}
                          \/ duty \in {"failed", "stop"} /\ set.fails
    /\ duty = "start" =>
          /\ at \in {"adts", "engine", "config", "load", "mem"} => mem = "zero"
          /\ gen = IF at \in {"adts", "engine"} THEN 0 ELSE 1
    /\ duty = "serve" => gen > 0
    /\ duty = "failed" => set.fails
    /\ duty = "reload" =>
          gen > IF at \in Stopping \cup {"engine"} THEN 0 ELSE 1

\* Every engine after the first takes a command.
EngineAhead ==
    \/ duty = "start" /\ at \in {"adts", "engine"}
    \/ duty = "reload" /\ at \in Stopping \cup {"engine"}

Generations ==
    /\ gen + Len(pipe) + left <= MaxCmds + IF EngineAhead THEN 0 ELSE 1
    /\ "pipe" \in batch => pipe # <<>>

\* The clients: their objects are those of the present engine and go before it.
Players ==
    /\ \A c \in Clients : client[c].eng \in {0, gen}
    /\ engine = "down" \/ at \in {"schedflag", "schedjoin"} =>
          \A c \in Clients : client[c].eng = 0
    /\ at \in {"loop", "greet"} => \A c \in Clients : client[c].on => client[c].eng = gen
    /\ \A c \in Clients : c \in batch \/ client[c].input => client[c].on
    /\ \A c \in Clients \cap queue : client[c].eng = gen /\ client[c].on
    /\ \A w \in Workers : worker[w] \in Clients => client[worker[w]].eng = gen
    /\ duty \in {"start", "failed", "stop"} => batch = {}
    /\ duty \in {"start", "failed"} => \A c \in Clients : ~client[c].on

\* The script actions: one is in one place, and only a block from the time
\* before there was a mem_pool outlives its engine.
JobsPlaced ==
    /\ \A i \in Jobs \cap queue :
          job[i].place = "pool" /\ (job[i].eng = gen \/ job[i].block = "leaked")
    /\ \A w \in Workers : worker[w] \in Jobs =>
          /\ job[worker[w]].place = "pool" /\ job[worker[w]].eng = gen
          /\ worker[w] \notin queue
          /\ \A v \in Workers \ {w} : worker[v] # worker[w]
    /\ \A i \in Jobs : job[i].place = "acts" => job[i].eng = gen /\ engine = "up"
    /\ \A i \in Jobs : job[i].place = "timed" => job[i].block # "none"
    /\ \A i \in Jobs : job[i].block = "pool" =>
          job[i].place = "timed" /\ job[i].eng = gen /\ mem = "up"
    /\ \A i \in Jobs : job[i].block = "freed" => gen > 1 \/ mem = "gone"
    /\ set.kinds = {} => \A i \in Jobs : job[i].place = "free"

Control == OtherTypes /\ AtDuty /\ Order /\ Below /\ Generations
PlayersFit == ClientTypes /\ Players
JobsFit == JobTypes /\ JobsPlaced

LifeInv == Control /\ PlayersFit /\ JobsFit /\ FaultWindows

\* The parts make up the type invariant; that there are no more engines than
\* commands is in Generations.
LEMMA Types == LifeInv => TypeOK
<1> SUFFICES ASSUME LifeInv PROVE TypeOK
  OBVIOUS
<1> USE DEF LifeInv, Control, PlayersFit, JobsFit
<1>1. gen <= MaxCmds + 1
  BY LifecycleAssumption DEF OtherTypes, Generations
<1> QED
  BY <1>1 DEF TypeOK, OtherTypes, JobTypes, ClientTypes, JobsOf, ClientsOf

-----------------------------------------------------------------------------
(* The steps. *)

\* A step that ends in no fault leaves nothing to explain.
LEMMA NoFault == fault' = <<>> => FaultWindows'
BY DEF FaultWindows

\* One record of a function is replaced.
LEMMA JobSet ==
    ASSUME JobTypes, gen' = gen, NEW i \in Jobs, NEW r \in JobsOf(gen),
           job' = [job EXCEPT ![i] = r]
    PROVE  JobTypes' /\ job'[i] = r /\ \A j \in Jobs \ {i} : job'[j] = job[j]
BY DEF JobTypes

\* The same for the clients.
LEMMA ClientSet ==
    ASSUME ClientTypes, gen' = gen, NEW c \in Clients, NEW r \in ClientsOf(gen),
           client' = [client EXCEPT ![c] = r]
    PROVE  ClientTypes' /\ client'[c] = r
           /\ \A d \in Clients \ {c} : client'[d] = client[d]
BY DEF ClientTypes

\* A job that is not in the pool is neither queued nor with a worker.
LEMMA NotInPool ==
    ASSUME JobsFit, NEW i \in Jobs, job[i].place # "pool"
    PROVE  i \notin queue /\ \A w \in Workers : worker[w] # i
BY DEF JobsFit, JobsPlaced

\* A job moves: what it becomes fits where it goes.
LEMMA JobMoves ==
    ASSUME JobsFit, UNCHANGED <<set, gen, engine, mem, worker>>,
           NEW i \in Jobs, job[i].place # "pool", NEW r \in JobsOf(gen),
           job' = [job EXCEPT ![i] = r],
           queue' = queue \/ queue' = queue \cup {i},
           i \in queue' => r.place = "pool" /\ (r.eng = gen \/ r.block = "leaked"),
           r.place = "acts" => r.eng = gen /\ engine = "up",
           r.place = "timed" => r.block # "none",
           r.block = "pool" => r.place = "timed" /\ r.eng = gen /\ mem = "up",
           r.block = "freed" => gen > 1 \/ mem = "gone",
           set.kinds = {} => r.place = "free"
    PROVE  JobsFit'
<1>1. JobTypes' /\ job'[i] = r /\ \A j \in Jobs \ {i} : job'[j] = job[j]
  BY JobSet DEF JobsFit
<1>2. i \notin queue /\ \A w \in Workers : worker[w] # i
  BY NotInPool
<1>3. JobsPlaced'
  <2>1. \A j \in Jobs \cap queue' :
           job'[j].place = "pool" /\ (job'[j].eng = gen' \/ job'[j].block = "leaked")
    BY <1>1 DEF JobsFit, JobsPlaced
  <2>2. \A w \in Workers : worker'[w] \in Jobs =>
           /\ job'[worker'[w]].place = "pool" /\ job'[worker'[w]].eng = gen'
           /\ worker'[w] \notin queue'
           /\ \A v \in Workers \ {w} : worker'[v] # worker'[w]
    BY <1>1, <1>2 DEF JobsFit, JobsPlaced
  <2> QED
    BY <1>1, <2>1, <2>2 DEF JobsFit, JobsPlaced
<1> QED
  BY <1>1, <1>3 DEF JobsFit

\* Who runs a script has an engine, and a worker or the tick thread has the
\* memory too, and a worker the pool.
LEMMA InScriptHas ==
    ASSUME Control, NEW who \in InScript
    PROVE  /\ engine = "up" /\ who \in {"worker", "tick", "main"}
           /\ who = "worker" => pool # "down" /\ mem = "up"
           /\ who = "tick" => tick = "script" /\ mem = "up"
           /\ who = "main" => at \in {"load", "greet", "connect"}
<1>1. \/ who = "worker" /\ \E w \in Workers : worker[w] # None
      \/ who = "tick" /\ tick = "script"
      \/ who = "main" /\ at \in {"load", "greet", "connect"}
  BY DEF InScript
<1> QED
  BY <1>1 DEF Control, Order, Below

\* The jobs are where they were while tasks, engine and memory stay.
LEMMA JobsKept ==
    JobsFit /\ UNCHANGED <<set, gen, engine, mem, job, queue, worker>> => JobsFit'
BY DEF JobsFit, JobTypes, JobsPlaced

\* While nothing is in the pool, jobs may be freed, and must be if they are of
\* the scheduler and the engine goes.
LEMMA FreedKept ==
    ASSUME Control, JobsFit, UNCHANGED <<set, gen, mem>>,
           queue' = {}, worker' = worker, \A w \in Workers : worker[w] = None,
           job' \in [Jobs -> JobsOf(gen) \cup {FreeJob}],
           \A i \in Jobs : job'[i] = job[i] \/ job'[i] = FreeJob,
           engine' # engine => \A i \in Jobs : job'[i].place # "acts"
    PROVE  JobsFit'
<1>1. FreeJob.place = "free" /\ FreeJob.block = "none" /\ FreeJob \in JobsOf(gen)
  BY DEF FreeJob, JobsOf, Control, OtherTypes
<1> HIDE DEF FreeJob
<1>2. JobTypes'
  BY <1>1 DEF JobTypes
<1> QED
  BY <1>1, <1>2, LifecycleAssumption DEF JobsFit, JobsPlaced

\* The tick thread is up and the pool is not: between their ends, or their
\* starts.
LEMMA PoolAway ==
    Control /\ pool = "down" /\ tick # "off" => at \in {"flag", "tickjoin", "pool"}
BY DEF Control, OtherTypes, Steps, Order

\* The clients are as they were as long as the main thread goes on with the
\* same.
LEMMA PlayersKept ==
    /\ PlayersFit /\ UNCHANGED <<gen, client, queue, worker, engine, duty>>
    /\ batch' \subseteq batch
    /\ at' \in {"loop", "greet"} => at \in {"loop", "greet"}
    /\ at' \in {"schedflag", "schedjoin"} => at \in {"schedflag", "schedjoin"}
    => PlayersFit'
BY DEF PlayersFit, ClientTypes, Players

\* Whatever scripts queue, for the server, the scheduler or the pool.
LEMMA ScriptsKeep == LifeInv /\ Alive /\ Script => LifeInv'
<1> SUFFICES ASSUME LifeInv, Alive, Script PROVE LifeInv'
  OBVIOUS
<1> USE DEF LifeInv, Alive, pvars, tvars, evars, svars, Step, Fine, Fails
<1>1. ASSUME NEW who \in InScript, NEW i \in Jobs, AddTimedTask(who, i) PROVE LifeInv'
  <2>1. Control'
    BY <1>1 DEF AddTimedTask, InScript, Control, OtherTypes, AtDuty, Order,
       Below, Generations, EngineAhead
  <2>2. PlayersFit'
    BY <1>1, PlayersKept DEF AddTimedTask
  <2>3. JobsFit'
    <3>1. CASE mem = "gone"
      BY <1>1, <3>1, JobsKept DEF AddTimedTask
    <3>2. CASE mem # "gone"
      <4>1. PICK d \in BOOLEAN :
              job' = [job EXCEPT ![i] =
                        [place |-> "timed", eng |-> gen, due |-> d,
                         block |-> IF mem = "up" THEN "pool" ELSE "leaked"]]
        BY <1>1, <3>2 DEF AddTimedTask
      <4> DEFINE r == [place |-> "timed", eng |-> gen, due |-> d,
                       block |-> IF mem = "up" THEN "pool" ELSE "leaked"]
      <4>2. r \in JobsOf(gen)
        BY DEF JobsOf, Control, OtherTypes
      <4>3. job[i].place # "pool" /\ set.kinds # {}
            /\ UNCHANGED <<set, gen, engine, mem, worker, queue>>
        BY <1>1 DEF AddTimedTask
      <4>4. i \notin queue
        BY <4>3, NotInPool
      <4> QED
        BY <4>1, <4>2, <4>3, <4>4, JobMoves
    <3> QED
      BY <3>1, <3>2
  <2>4. FaultWindows'
    <3>1. CASE mem = "gone"
      <4>1. who = "main" /\ at = "load"
        BY <3>1, InScriptHas DEF Control, Order
      <4>2. duty = "reload"
        BY <3>1, <4>1 DEF Control, OtherTypes, Duties, AtDuty, Below, Stopping
      <4>3. /\ fault' = <<"main", "memory">> /\ UNCHANGED <<at, duty, set>>
            /\ set.kinds # {}
        BY <1>1, <3>1, <4>1 DEF AddTimedTask
      <4> QED
        BY <4>1, <4>2, <4>3 DEF FaultWindows
    <3>2. CASE mem # "gone"
      BY <1>1, <3>2, NoFault DEF AddTimedTask
    <3> QED
      BY <3>1, <3>2
  <2> QED
    BY <2>1, <2>2, <2>3, <2>4
<1>2. ASSUME NEW who \in InScript, NEW i \in Jobs, QueueDelayed(who, i) PROVE LifeInv'
  <2>1. Control'
    BY <1>2 DEF QueueDelayed, Control, OtherTypes, AtDuty, Order, Below,
       Generations, EngineAhead
  <2>2. PlayersFit'
    BY <1>2, PlayersKept DEF QueueDelayed
  <2>3. JobsFit'
    <3>1. PICK d \in BOOLEAN :
            job' = [job EXCEPT ![i] = [place |-> "acts", eng |-> gen,
                                       due |-> d, block |-> "none"]]
      BY <1>2 DEF QueueDelayed
    <3> DEFINE r == [place |-> "acts", eng |-> gen, due |-> d, block |-> "none"]
    <3>2. r \in JobsOf(gen)
      BY DEF JobsOf, Control, OtherTypes
    <3>3. job[i].place # "pool" /\ set.kinds # {} /\ engine = "up"
          /\ UNCHANGED <<set, gen, engine, mem, worker, queue>>
      BY <1>2, InScriptHas DEF QueueDelayed
    <3>4. i \notin queue
      BY <3>3, NotInPool
    <3> QED
      BY <3>1, <3>2, <3>3, <3>4, JobMoves
  <2>4. FaultWindows'
    BY <1>2, NoFault DEF QueueDelayed
  <2> QED
    BY <2>1, <2>2, <2>3, <2>4
<1>3. ASSUME NEW who \in InScript, NEW i \in Jobs, QueueDirect(who, i) PROVE LifeInv'
  <2>1. Control'
    BY <1>3 DEF QueueDirect, InScript, AddTask, Control, OtherTypes, AtDuty,
       Order, Below, Generations, EngineAhead
  <2>2. PlayersFit'
    BY <1>3, LifecycleAssumption DEF QueueDirect, AddTask, PlayersFit,
       ClientTypes, Players
  <2>3. JobsFit'
    <3> DEFINE r == [place |-> "pool", eng |-> gen, due |-> TRUE, block |-> "none"]
    <3>1. r \in JobsOf(gen)
      BY DEF JobsOf, Control, OtherTypes
    <3>2. job[i].place # "pool" /\ set.kinds # {} /\ job' = [job EXCEPT ![i] = r]
          /\ UNCHANGED <<set, gen, engine, mem, worker>>
          /\ (queue' = queue \/ queue' = queue \cup {i})
      BY <1>3 DEF QueueDirect, AddTask
    <3> QED
      BY <3>1, <3>2, JobMoves
  <2>4. FaultWindows'
    <3>1. CASE pool = "down"
      <4>1. /\ fault' = <<who, "pool">> /\ UNCHANGED <<at, duty, set>>
            /\ set.kinds # {}
        BY <1>3, <3>1 DEF QueueDirect, AddTask
      <4>2. who = "tick" => at \in {"flag", "tickjoin", "pool"}
        BY <3>1, InScriptHas, PoolAway
      <4>3. who = "main" => at = "load"
        BY <3>1, InScriptHas DEF Control, Order
      <4>4. who \in {"tick", "main"}
        BY <3>1, InScriptHas
      <4> QED
        BY <4>1, <4>2, <4>3, <4>4 DEF FaultWindows
    <3>2. CASE pool # "down"
      BY <1>3, <3>2, NoFault DEF QueueDirect, AddTask
    <3> QED
      BY <3>1, <3>2
  <2> QED
    BY <2>1, <2>2, <2>3, <2>4
<1> QED
  BY <1>1, <1>2, <1>3 DEF Script

\* Commands, peers, and the passing of time.
LEMMA SurroundingsKeep == LifeInv /\ Alive /\ (Surroundings \/ Clock) => LifeInv'
<1> SUFFICES ASSUME LifeInv, Alive, Surroundings \/ Clock PROVE LifeInv'
  OBVIOUS
<1> USE DEF LifeInv, Alive, pvars, tvars, evars, svars, Step, Fine, Fails
<1>1. ASSUME NEW cmd \in {"kill", "reload"}, WriteToCmdPipe(cmd) PROVE LifeInv'
  <2>1. Control'
    BY <1>1, LifecycleAssumption DEF WriteToCmdPipe, Control, OtherTypes,
       AtDuty, Order, Below, Generations, EngineAhead
  <2>2. PlayersFit'
    BY <1>1, PlayersKept DEF WriteToCmdPipe
  <2>3. JobsFit'
    BY <1>1, JobsKept DEF WriteToCmdPipe
  <2>4. FaultWindows'
    BY <1>1, NoFault DEF WriteToCmdPipe
  <2> QED
    BY <2>1, <2>2, <2>3, <2>4
<1>2. ASSUME NEW c \in Clients, PeerSends(c) PROVE LifeInv'
  <2>1. Control'
    BY <1>2 DEF PeerSends, Control, OtherTypes, AtDuty, Order, Below,
       Generations, EngineAhead
  <2>2. PlayersFit'
    <3>1. [client[c] EXCEPT !.input = TRUE] \in ClientsOf(gen) /\ client[c].on
      BY <1>2 DEF PeerSends, PlayersFit, ClientTypes, ClientsOf
    <3>2. /\ ClientTypes' /\ client'[c] = [client[c] EXCEPT !.input = TRUE]
          /\ \A d \in Clients \ {c} : client'[d] = client[d]
      BY <1>2, <3>1, ClientSet DEF PeerSends, PlayersFit
    <3>3. /\ \A d \in Clients : client'[d].on = client[d].on /\ client'[d].eng = client[d].eng
          /\ \A d \in Clients : client'[d].input => client[d].input \/ client[d].on
      BY <3>1, <3>2 DEF PlayersFit, ClientTypes, ClientsOf
    <3> QED
      BY <1>2, <3>2, <3>3 DEF PeerSends, PlayersFit, Players
  <2>3. JobsFit'
    BY <1>2, JobsKept DEF PeerSends
  <2>4. FaultWindows'
    BY <1>2, NoFault DEF PeerSends
  <2> QED
    BY <2>1, <2>2, <2>3, <2>4
<1>3. ASSUME NEW c \in Clients, AcceptClient(c) PROVE LifeInv'
  <2>1. Control'
    BY <1>3 DEF AcceptClient, Control, OtherTypes, AtDuty, Order, Below,
       Generations, EngineAhead, Stopping, Steps
  <2>2. PlayersFit'
    <3>1. [client[c] EXCEPT !.eng = gen] \in ClientsOf(gen)
      BY DEF PlayersFit, ClientTypes, ClientsOf, Control, OtherTypes
    <3>2. /\ ClientTypes' /\ client'[c] = [client[c] EXCEPT !.eng = gen]
          /\ \A d \in Clients \ {c} : client'[d] = client[d]
      BY <1>3, <3>1, ClientSet DEF AcceptClient, PlayersFit
    <3>3. /\ \A d \in Clients : client'[d].on = client[d].on /\ client'[d].input = client[d].input
          /\ \A d \in Clients : client'[d].eng = client[d].eng \/ client'[d].eng = gen
      BY <3>1, <3>2 DEF PlayersFit, ClientTypes, ClientsOf
    <3>4. at = "loop" /\ at' = "greet" /\ UNCHANGED <<duty, batch, queue, worker, gen, engine>>
          /\ ~client[c].on
      BY <1>3 DEF AcceptClient
    <3>5. engine = "up" /\ duty = "serve"
      BY <3>4 DEF Control, OtherTypes, Duties, AtDuty, Order, Stopping
    <3> QED
      BY <3>1, <3>2, <3>3, <3>4, <3>5 DEF PlayersFit, Players
  <2>3. JobsFit'
    BY <1>3, JobsKept DEF AcceptClient
  <2>4. FaultWindows'
    BY <1>3, NoFault DEF AcceptClient
  <2> QED
    BY <2>1, <2>2, <2>3, <2>4
<1>4. ASSUME NEW i \in Jobs, FallsDue(i) PROVE LifeInv'
  <2>1. Control'
    BY <1>4 DEF FallsDue, Control, OtherTypes, AtDuty, Order, Below,
       Generations, EngineAhead
  <2>2. PlayersFit'
    BY <1>4, PlayersKept DEF FallsDue
  <2>3. JobsFit'
    <3> DEFINE r == [job[i] EXCEPT !.due = TRUE]
    <3>1. r \in JobsOf(gen) /\ r.place = job[i].place /\ r.eng = job[i].eng
          /\ r.block = job[i].block
      BY DEF JobsFit, JobTypes, JobsOf
    <3>2. job[i].place # "pool" /\ job' = [job EXCEPT ![i] = r]
          /\ UNCHANGED <<set, gen, engine, mem, worker, queue>>
      BY <1>4 DEF FallsDue
    <3>3. i \notin queue
      BY <3>2, NotInPool
    <3> HIDE DEF r
    <3>4. /\ r.place = "acts" => r.eng = gen /\ engine = "up"
          /\ r.place = "timed" => r.block # "none"
          /\ r.block = "pool" => r.place = "timed" /\ r.eng = gen /\ mem = "up"
          /\ r.block = "freed" => gen > 1 \/ mem = "gone"
          /\ set.kinds = {} => r.place = "free"
      BY <3>1 DEF JobsFit, JobsPlaced
    <3> QED
      BY <3>1, <3>2, <3>3, <3>4, JobMoves
  <2>4. FaultWindows'
    BY <1>4, NoFault DEF FallsDue
  <2> QED
    BY <2>1, <2>2, <2>3, <2>4
<1> QED
  BY <1>1, <1>2, <1>3, <1>4 DEF Surroundings, Clock

\* The workers.
LEMMA WorkersKeep == LifeInv /\ Alive /\ (\E w \in Workers : Work(w)) => LifeInv'
<1> SUFFICES ASSUME LifeInv, Alive, \E w \in Workers : Work(w) PROVE LifeInv'
  OBVIOUS
<1> USE DEF LifeInv, Alive, pvars, tvars, evars, svars, Step, Fine, Fails
<1>1. ASSUME NEW w \in Workers, NEW t \in queue, Take(w, t) PROVE LifeInv'
  <2>1. Control'
    BY <1>1 DEF Take, Control, OtherTypes, AtDuty, Order, Below, Generations,
       EngineAhead
  <2>2. PlayersFit'
    <3>1. CASE t \in Jobs
      BY <1>1, <3>1, LifecycleAssumption
         DEF Take, PlayersFit, ClientTypes, Players, Control, OtherTypes
    <3>2. CASE t \in Clients \ Jobs
      <4>1. [client[t] EXCEPT !.input = FALSE] \in ClientsOf(gen) /\ client[t].eng = gen
        BY <3>2 DEF PlayersFit, ClientTypes, Players, ClientsOf
      <4>2. /\ client' = [client EXCEPT ![t] = [client[t] EXCEPT !.input = FALSE]]
            /\ queue' = queue \ {t} /\ worker' = [worker EXCEPT ![w] = t]
            /\ UNCHANGED <<at, duty, batch, gen, engine>>
        BY <1>1, <3>2 DEF Take
      <4>3. /\ ClientTypes' /\ client'[t] = [client[t] EXCEPT !.input = FALSE]
            /\ \A d \in Clients \ {t} : client'[d] = client[d]
        BY <3>2, <4>1, <4>2, ClientSet DEF PlayersFit
      <4>4. \A d \in Clients : /\ client'[d].on = client[d].on
                               /\ client'[d].eng = client[d].eng
                               /\ client'[d].input => client[d].input
        BY <4>1, <4>3 DEF PlayersFit, ClientTypes, ClientsOf
      <4>5. \A v \in Workers : worker'[v] = IF v = w THEN t ELSE worker[v]
        BY <4>2 DEF Control, OtherTypes
      <4> QED
        BY <4>1, <4>2, <4>3, <4>4, <4>5 DEF PlayersFit, Players
    <3> QED
      BY <1>1, <3>1, <3>2 DEF Control, OtherTypes
  <2>3. JobsFit'
    BY <1>1 DEF Take, OtherTypes, Control, JobsFit, JobTypes, JobsPlaced
  <2>4. FaultWindows'
    <3>1. CASE t \in Jobs /\ job[t].eng # gen
      <4>1. /\ fault' = <<"worker", "engine">>
            /\ UNCHANGED <<queue, job, gen, set>>
        BY <1>1, <3>1 DEF Take
      <4>2. t \in Jobs \cap queue /\ job[t].block = "leaked" /\ job[t].eng < gen
            /\ set.kinds # {}
        BY <3>1 DEF Control, OtherTypes, JobsFit, JobTypes, JobsOf, JobsPlaced
      <4> QED
        BY <4>1, <4>2 DEF FaultWindows
    <3>2. CASE ~(t \in Jobs /\ job[t].eng # gen)
      BY <1>1, <3>2, NoFault DEF Take
    <3> QED
      BY <3>1, <3>2
  <2> QED
    BY <2>1, <2>2, <2>3, <2>4
<1>2. ASSUME NEW w \in Workers, Finish(w) PROVE LifeInv'
  <2>1. Control'
    BY <1>2 DEF Finish, Control, OtherTypes, AtDuty, Order, Below,
       Generations, EngineAhead
  <2>2. PlayersFit'
    <3>1. \A v \in Workers : worker'[v] = IF v = w THEN None ELSE worker[v]
      BY <1>2 DEF Finish, Control, OtherTypes
    <3>2. UNCHANGED <<at, duty, batch, gen, engine, queue>>
      BY <1>2 DEF Finish
    <3>3. ClientTypes' /\ \A d \in Clients : /\ client'[d].on = client[d].on
                                             /\ client'[d].eng = client[d].eng
                                             /\ client'[d].input = client[d].input
      <4>1. CASE worker[w] \in Clients
        <5>1. [client[worker[w]] EXCEPT !.armed = TRUE] \in ClientsOf(gen)
          BY <4>1 DEF PlayersFit, ClientTypes, ClientsOf
        <5>2. /\ ClientTypes'
              /\ client'[worker[w]] = [client[worker[w]] EXCEPT !.armed = TRUE]
              /\ \A d \in Clients \ {worker[w]} : client'[d] = client[d]
          BY <1>2, <4>1, <5>1, ClientSet DEF PlayersFit, Finish
        <5> QED
          BY <4>1, <5>2 DEF PlayersFit, ClientTypes, ClientsOf
      <4>2. CASE worker[w] \notin Clients
        BY <1>2, <4>2 DEF Finish, PlayersFit, ClientTypes
      <4> QED
        BY <4>1, <4>2
    <3> QED
      BY <3>1, <3>2, <3>3, LifecycleAssumption DEF PlayersFit, Players
  <2>3. JobsFit'
    <3>1. \A v \in Workers : worker'[v] = IF v = w THEN None ELSE worker[v]
      BY <1>2 DEF Finish, Control, OtherTypes
    <3>2. UNCHANGED <<set, gen, engine, mem, queue>>
      BY <1>2 DEF Finish
    <3>3. CASE worker[w] \in Clients
      <4>1. job' = job
        BY <1>2, <3>3 DEF Finish
      <4> QED
        BY <3>1, <3>2, <4>1, LifecycleAssumption DEF JobsFit, JobTypes,
           JobsPlaced
    <3>4. CASE worker[w] \in Jobs
      <4>1. FreeJob \in JobsOf(gen)
        BY DEF FreeJob, JobsOf, Control, OtherTypes
      <4>2. job' = [job EXCEPT ![worker[w]] = FreeJob]
        BY <1>2, <3>4, LifecycleAssumption DEF Finish
      <4>3. /\ JobTypes' /\ job'[worker[w]] = FreeJob
            /\ \A j \in Jobs \ {worker[w]} : job'[j] = job[j]
        BY <3>2, <3>4, <4>1, <4>2, JobSet DEF JobsFit
      <4>4. FreeJob.place = "free" /\ FreeJob.block = "none"
        BY DEF FreeJob
      <4>5. worker[w] \notin queue /\ \A v \in Workers \ {w} : worker[v] # worker[w]
        BY <3>4 DEF JobsFit, JobsPlaced
      <4>6. \A v \in Workers : worker'[v] \in Jobs =>
              /\ v # w /\ worker'[v] = worker[v] /\ job'[worker'[v]] = job[worker[v]]
        BY <3>1, <4>3, <4>5, LifecycleAssumption
      <4>7. \A j \in Jobs : job'[j] = job[j] \/ job'[j] = FreeJob
        BY <4>3
      <4>8. \A j \in Jobs \cap queue' : job'[j] = job[j]
        BY <3>2, <4>3, <4>5
      <4> HIDE DEF FreeJob
      <4>9. \A v \in Workers : worker'[v] \in Jobs =>
              /\ job'[worker'[v]].place = "pool" /\ job'[worker'[v]].eng = gen'
              /\ worker'[v] \notin queue'
              /\ \A u \in Workers \ {v} : worker'[u] # worker'[v]
        BY <3>1, <3>2, <4>6, LifecycleAssumption DEF JobsFit, JobsPlaced
      <4> QED
        BY <3>2, <4>3, <4>4, <4>7, <4>8, <4>9 DEF JobsFit, JobsPlaced
    <3> QED
      BY <1>2, <3>3, <3>4 DEF Finish, Control, OtherTypes
  <2>4. FaultWindows'
    BY <1>2, NoFault DEF Finish
  <2> QED
    BY <2>1, <2>2, <2>3, <2>4
<1> QED
  BY <1>1, <1>2 DEF Work

\* The tick thread.
LEMMA TickKeeps == LifeInv /\ Alive /\ Tick => LifeInv'
<1> SUFFICES ASSUME LifeInv, Alive, Tick PROVE LifeInv'
  OBVIOUS
<1> USE DEF LifeInv, Alive, pvars, tvars, evars, svars, Step, Fine, Fails
<1>1. CASE TickTop
  <2>1. Control'
    BY <1>1 DEF TickTop, Control, OtherTypes, AtDuty, Order, Below,
       Generations, EngineAhead
  <2>2. PlayersFit'
    BY <1>1, PlayersKept DEF TickTop
  <2>3. JobsFit'
    BY <1>1, JobsKept DEF TickTop
  <2>4. FaultWindows'
    BY <1>1, NoFault DEF TickTop
  <2> QED
    BY <2>1, <2>2, <2>3, <2>4
<1>2. CASE TickLocks
  <2>1. Control'
    BY <1>2 DEF TickLocks, Control, OtherTypes, AtDuty, Order, Below,
       Generations, EngineAhead
  <2>2. PlayersFit'
    BY <1>2, PlayersKept DEF TickLocks
  <2>3. JobsFit'
    BY <1>2, JobsKept DEF TickLocks
  <2>4. FaultWindows'
    BY <1>2, NoFault DEF TickLocks
  <2> QED
    BY <2>1, <2>2, <2>3, <2>4
<1>3. ASSUME NEW i \in Jobs, TickDispatch(i) PROVE LifeInv'
  <2>1. Control'
    BY <1>3 DEF TickDispatch, AddTask, Control, OtherTypes, AtDuty, Order,
       Below, Generations, EngineAhead
  <2>2. PlayersFit'
    BY <1>3, LifecycleAssumption DEF TickDispatch, AddTask, PlayersFit,
       ClientTypes, Players
  <2>3. JobsFit'
    <3>1. CASE job[i].block = "freed"
      BY <1>3, <3>1, JobsKept DEF TickDispatch
    <3>2. CASE job[i].block # "freed"
      <4> DEFINE r == [job[i] EXCEPT !.place = "pool",
                                     !.block = IF @ = "pool" THEN "none" ELSE @]
      <4>1. /\ job[i].place = "timed" /\ job' = [job EXCEPT ![i] = r]
            /\ UNCHANGED <<set, gen, engine, mem, worker>>
            /\ (queue' = queue \/ queue' = queue \cup {i})
        BY <1>3, <3>2 DEF TickDispatch, AddTask
      <4>2. /\ r \in JobsOf(gen) /\ r.place = "pool" /\ r.eng = job[i].eng
            /\ r.block = IF job[i].block = "pool" THEN "none" ELSE job[i].block
        BY DEF JobsFit, JobTypes, JobsOf
      <4>3. (job[i].block = "pool" /\ job[i].eng = gen) \/ job[i].block = "leaked"
        BY <3>2, <4>1 DEF JobsFit, JobTypes, JobsOf, JobsPlaced
      <4>4. set.kinds # {}
        BY <4>1 DEF JobsFit, JobsPlaced
      <4> HIDE DEF r
      <4> QED
        BY <4>1, <4>2, <4>3, <4>4, JobMoves
    <3> QED
      BY <3>1, <3>2
  <2>4. FaultWindows'
    <3>1. set.kinds # {} /\ UNCHANGED <<at, duty, set, gen>>
      BY <1>3 DEF TickDispatch, JobsFit, JobsPlaced
    <3>2. CASE job[i].block = "freed"
      <4>1. fault' = <<"tick", "block">>
        BY <1>3, <3>2 DEF TickDispatch
      <4>2. gen > 1
        BY <1>3, <3>2 DEF TickDispatch, JobsFit, JobsPlaced, Control, Below
      <4> QED
        BY <3>1, <4>1, <4>2 DEF FaultWindows
    <3>3. CASE job[i].block # "freed" /\ pool = "down"
      <4>1. fault' = <<"tick", "pool">>
        BY <1>3, <3>3 DEF TickDispatch, AddTask
      <4>2. at \in {"flag", "tickjoin", "pool"}
        BY <1>3, <3>3, PoolAway DEF TickDispatch
      <4> QED
        BY <3>1, <4>1, <4>2 DEF FaultWindows
    <3>4. CASE job[i].block # "freed" /\ pool # "down"
      BY <1>3, <3>4, NoFault DEF TickDispatch, AddTask
    <3> QED
      BY <3>2, <3>3, <3>4
  <2> QED
    BY <2>1, <2>2, <2>3, <2>4
<1>4. CASE TickSleeps
  <2>1. Control'
    BY <1>4 DEF TickSleeps, Control, OtherTypes, AtDuty, Order, Below,
       Generations, EngineAhead
  <2>2. PlayersFit'
    BY <1>4, PlayersKept DEF TickSleeps
  <2>3. JobsFit'
    BY <1>4, JobsKept DEF TickSleeps
  <2>4. FaultWindows'
    BY <1>4, NoFault DEF TickSleeps
  <2> QED
    BY <2>1, <2>2, <2>3, <2>4
<1> QED
  BY <1>1, <1>2, <1>3, <1>4 DEF Tick

\* The action scheduler.
LEMMA SchedulerKeeps == LifeInv /\ Alive /\ Scheduler => LifeInv'
<1> SUFFICES ASSUME LifeInv, Alive, Scheduler PROVE LifeInv'
  OBVIOUS
<1> USE DEF LifeInv, Alive, pvars, tvars, evars, svars, Step, Fine, Fails
<1>1. ASSUME NEW i \in Jobs, SchedHandsOver(i) PROVE LifeInv'
  <2>1. Control'
    BY <1>1 DEF SchedHandsOver, AddTask, Control, OtherTypes, AtDuty, Order,
       Below, Generations, EngineAhead
  <2>2. PlayersFit'
    BY <1>1, LifecycleAssumption DEF SchedHandsOver, AddTask, PlayersFit,
       ClientTypes, Players
  <2>3. JobsFit'
    <3> DEFINE r == [job[i] EXCEPT !.place = "pool"]
    <3>1. /\ job[i].place = "acts" /\ job' = [job EXCEPT ![i] = r]
          /\ UNCHANGED <<set, gen, engine, mem, worker>>
          /\ (queue' = queue \/ queue' = queue \cup {i})
      BY <1>1 DEF SchedHandsOver, AddTask
    <3>2. /\ r \in JobsOf(gen) /\ r.place = "pool" /\ r.eng = job[i].eng
          /\ r.block = job[i].block
      BY DEF JobsFit, JobTypes, JobsOf
    <3>3. /\ job[i].eng = gen /\ job[i].block # "pool" /\ set.kinds # {}
          /\ job[i].block = "freed" => gen > 1 \/ mem = "gone"
      BY <3>1 DEF JobsFit, JobsPlaced
    <3> HIDE DEF r
    <3> QED
      BY <3>1, <3>2, <3>3, JobMoves
  <2>4. FaultWindows'
    <3>1. set.kinds # {} /\ UNCHANGED <<at, duty, set>>
      BY <1>1 DEF SchedHandsOver, JobsFit, JobsPlaced
    <3>2. CASE pool = "down"
      <4>1. fault' = <<"sched", "pool">>
        BY <1>1, <3>2 DEF SchedHandsOver, AddTask
      <4>2. duty # "serve"
        BY <3>2 DEF Control, AtDuty, Order
      <4> QED
        BY <3>1, <4>1, <4>2 DEF FaultWindows
    <3>3. CASE pool # "down"
      BY <1>1, <3>3, NoFault DEF SchedHandsOver, AddTask
    <3> QED
      BY <3>2, <3>3
  <2> QED
    BY <2>1, <2>2, <2>3, <2>4
<1>2. CASE SchedExits
  <2>1. Control'
    BY <1>2 DEF SchedExits, Control, OtherTypes, AtDuty, Order, Below,
       Generations, EngineAhead
  <2>2. PlayersFit'
    BY <1>2, PlayersKept DEF SchedExits
  <2>3. JobsFit'
    BY <1>2, JobsKept DEF SchedExits
  <2>4. FaultWindows'
    BY <1>2, NoFault DEF SchedExits
  <2> QED
    BY <2>1, <2>2, <2>3, <2>4
<1> QED
  BY <1>1, <1>2 DEF Scheduler

\* The main thread while it serves.
LEMMA ServeKeeps == LifeInv /\ Alive /\ Serve => LifeInv'
<1> SUFFICES ASSUME LifeInv, Alive, Serve PROVE LifeInv'
  OBVIOUS
<1> USE DEF LifeInv, Alive, pvars, tvars, evars, svars, Step, Fine, Fails
<1>1. CASE Poll
  <2>1. Control'
    BY <1>1, LifecycleAssumption DEF Poll, Events, Control, OtherTypes,
       AtDuty, Order, Below, Generations, EngineAhead
  <2>2. PlayersFit'
    <3>1. /\ client' = [c \in Clients |->
                          [client[c] EXCEPT !.armed = @ /\ c \notin Events]]
          /\ UNCHANGED <<at, duty, gen, engine, queue, worker>>
          /\ batch' = Events /\ at = "loop"
      BY <1>1 DEF Poll
    <3>2. ASSUME NEW c \in Clients
          PROVE  /\ client'[c] \in ClientsOf(gen)
                 /\ client'[c].on = client[c].on /\ client'[c].eng = client[c].eng
                 /\ client'[c].input = client[c].input
      <4>1. client[c] \in ClientsOf(gen)
        BY DEF PlayersFit, ClientTypes
      <4>2. client'[c] = [client[c] EXCEPT !.armed = @ /\ c \notin Events]
        BY <3>1
      <4> QED
        BY <4>1, <4>2 DEF ClientsOf
    <3>3. ClientTypes'
      BY <3>1, <3>2 DEF ClientTypes
    <3>4. \A c \in Clients \cap Events : client[c].input
      BY LifecycleAssumption DEF Events
    <3>5. duty = "serve"
      BY <3>1 DEF Control, OtherTypes, Duties, AtDuty, Stopping
    <3> QED
      BY <3>1, <3>2, <3>3, <3>4, <3>5 DEF PlayersFit, Players
  <2>3. JobsFit'
    BY <1>1, JobsKept DEF Poll
  <2>4. FaultWindows'
    BY <1>1, NoFault DEF Poll
  <2> QED
    BY <2>1, <2>2, <2>3, <2>4
<1>2. ASSUME NEW c \in Clients, HandleUserInput(c) PROVE LifeInv'
  <2>1. Control'
    BY <1>2 DEF HandleUserInput, AddTask, Control, OtherTypes, AtDuty, Order,
       Below, Generations, EngineAhead
  <2>2. PlayersFit'
    BY <1>2 DEF HandleUserInput, AddTask, PlayersFit, ClientTypes, Players
  <2>3. JobsFit'
    BY <1>2, LifecycleAssumption DEF HandleUserInput, AddTask, JobsFit,
       JobTypes, JobsPlaced
  <2>4. FaultWindows'
    BY <1>2 DEF HandleUserInput, AddTask, Control, Order, FaultWindows
  <2> QED
    BY <2>1, <2>2, <2>3, <2>4
<1>3. ASSUME NEW c \in Clients, Greeted(c) PROVE LifeInv'
  <2>1. Control'
    BY <1>3 DEF Greeted, Control, OtherTypes, AtDuty, Order, Below,
       Generations, EngineAhead, Stopping, Steps
  <2>2. PlayersFit'
    <3> DEFINE r == [client[c] EXCEPT !.on = TRUE, !.armed = TRUE]
    <3>1. /\ r \in ClientsOf(gen) /\ r.on /\ r.eng = client[c].eng
          /\ r.input = client[c].input
      BY DEF PlayersFit, ClientTypes, ClientsOf
    <3>2. /\ client' = [client EXCEPT ![c] = r] /\ client[c].eng # 0
          /\ UNCHANGED <<duty, batch, gen, engine, queue, worker>>
          /\ at = "greet" /\ at' = "loop"
      BY <1>3 DEF Greeted
    <3> HIDE DEF r
    <3>3. ClientTypes' /\ client'[c] = r /\ \A d \in Clients \ {c} : client'[d] = client[d]
      BY <3>1, <3>2, ClientSet DEF PlayersFit
    <3>4. duty = "serve" /\ client[c].eng = gen
      BY <3>2 DEF Control, OtherTypes, Duties, AtDuty, Stopping, PlayersFit,
         Players
    <3> QED
      BY <3>1, <3>2, <3>3, <3>4 DEF PlayersFit, Players
  <2>3. JobsFit'
    BY <1>3, JobsKept DEF Greeted
  <2>4. FaultWindows'
    BY <1>3, NoFault DEF Greeted
  <2> QED
    BY <2>1, <2>2, <2>3, <2>4
<1>4. CASE ReadPipe
  <2>1. Control'
    BY <1>4, LifecycleAssumption DEF ReadPipe, Control, OtherTypes, AtDuty,
       Order, Below, Generations, Stopping, Steps, Duties
  <2>2. PlayersFit'
    BY <1>4 DEF ReadPipe, PlayersFit, ClientTypes, Players
  <2>3. JobsFit'
    BY <1>4, JobsKept DEF ReadPipe
  <2>4. FaultWindows'
    BY <1>4, NoFault DEF ReadPipe
  <2> QED
    BY <2>1, <2>2, <2>3, <2>4
<1> QED
  BY <1>1, <1>2, <1>3, <1>4 DEF Serve

\* The stop, for a reload or for good.
LEMMA StopKeeps == LifeInv /\ Alive /\ Stop => LifeInv'
<1> SUFFICES ASSUME LifeInv, Alive, Stop PROVE LifeInv'
  OBVIOUS
<1> USE DEF LifeInv, Alive, pvars, tvars, evars, svars, Step, Fine, Fails
<1>1. CASE StopNetwork
  <2>1. Control'
    <3>1. at = "unnet" /\ batch = {} /\ pipe' = <<>>
      BY <1>1 DEF StopNetwork, Control, OtherTypes, Duties, AtDuty,
         PlayersFit, Players, Stopping
    <3>2. OtherTypes' /\ AtDuty' /\ Order' /\ Below'
      BY <1>1 DEF StopNetwork, Control, OtherTypes, AtDuty, Order, Below,
                  Stopping, Steps, Duties
    <3>3. Generations'
      BY <1>1, <3>1, LifecycleAssumption
         DEF StopNetwork, Control, OtherTypes, AtDuty, Generations, EngineAhead, Stopping
    <3> QED
      BY <3>2, <3>3 DEF Control
  <2>2. PlayersFit'
    BY <1>1, PlayersKept DEF StopNetwork
  <2>3. JobsFit'
    BY <1>1, JobsKept DEF StopNetwork
  <2>4. FaultWindows'
    BY <1>1, NoFault DEF StopNetwork
  <2> QED
    BY <2>1, <2>2, <2>3, <2>4
<1>2. CASE StopPool
  <2>1. Control'
    BY <1>2 DEF StopPool, Control, OtherTypes, AtDuty, Order, Below,
       Generations, EngineAhead, Stopping, Steps
  <2>2. PlayersFit'
    BY <1>2, PlayersKept DEF StopPool
  <2>3. JobsFit'
    BY <1>2, JobsKept DEF StopPool
  <2>4. FaultWindows'
    BY <1>2, NoFault DEF StopPool
  <2> QED
    BY <2>1, <2>2, <2>3, <2>4
<1>3. CASE DestroyPool
  <2> USE DEF DestroyPool, Drain
  <2>1. CASE queue \cap Clients # {}
    <3>1. /\ at = "join" /\ fault' = <<"main", "task">>
          /\ UNCHANGED <<set, at, duty, batch, pipe, left, queue, pool, worker,
                         mem, evars, tvars, svars, job, client>>
      BY <1>3, <2>1
    <3>2. Control'
      BY <3>1 DEF Control, OtherTypes, AtDuty, Order, Below, Generations,
         EngineAhead
    <3>3. PlayersFit' /\ JobsFit'
      BY <3>1, PlayersKept, JobsKept
    <3>4. PICK c \in Clients \cap queue : client[c].on
      BY <2>1 DEF PlayersFit, Players
    <3>5. duty \in {"reload", "stop"}
      BY <3>1, <3>4 DEF Control, OtherTypes, Duties, AtDuty, Stopping,
         PlayersFit, Players
    <3>6. FaultWindows'
      BY <3>1, <3>4, <3>5 DEF FaultWindows
    <3> QED
      BY <3>2, <3>3, <3>6
  <2>2. CASE queue \cap Clients = {}
    <3>1. Control'
      BY <1>3, <2>2 DEF Control, OtherTypes, AtDuty, Order, Below,
         Generations, EngineAhead, Stopping, Steps
    <3>2. PlayersFit'
      BY <1>3, <2>2 DEF PlayersFit, ClientTypes, Players
    <3>3. JobsFit'
      <4>1. /\ job' = [i \in Jobs |-> IF i \in queue THEN FreeJob ELSE job[i]]
            /\ queue' = {} /\ worker' = worker /\ \A w \in Workers : worker[w] = None
            /\ UNCHANGED <<set, gen, engine, mem>>
        BY <1>3, <2>2
      <4>2. \A i \in Jobs : job'[i] = job[i] \/ job'[i] = FreeJob
        BY <4>1
      <4>3. job' \in [Jobs -> JobsOf(gen) \cup {FreeJob}]
        BY <4>1 DEF JobsFit, JobTypes
      <4> QED
        BY <4>1, <4>2, <4>3, FreedKept
    <3>4. FaultWindows'
      BY <1>3, <2>2, NoFault
    <3> QED
      BY <3>1, <3>2, <3>3, <3>4
  <2> QED
    BY <2>1, <2>2
<1>4. CASE StopTick
  <2>1. Control'
    <3>1. /\ at = "flag" /\ at' = "tickjoin" /\ tickOn' = FALSE
          /\ UNCHANGED <<set, duty, batch, pipe, left, pvars, mem, evars, tick, svars,
                         fault>>
      BY <1>4 DEF StopTick
    <3>2. OtherTypes'
      BY <3>1 DEF Control, OtherTypes, Steps
    <3>3. Generations'
      BY <3>1 DEF Control, Generations, EngineAhead, Stopping
    <3>4. AtDuty' /\ Order' /\ Below'
      BY <3>1 DEF Control, AtDuty, Order, Below, Stopping
    <3> QED
      BY <3>2, <3>3, <3>4 DEF Control
  <2>2. PlayersFit'
    BY <1>4, PlayersKept DEF StopTick
  <2>3. JobsFit'
    BY <1>4, JobsKept DEF StopTick
  <2>4. FaultWindows'
    BY <1>4, NoFault DEF StopTick
  <2> QED
    BY <2>1, <2>2, <2>3, <2>4
<1>5. CASE JoinTick
  <2>1. Control'
    BY <1>5 DEF JoinTick, Control, OtherTypes, AtDuty, Order, Below,
       Generations, EngineAhead, Stopping, Steps
  <2>2. PlayersFit'
    BY <1>5, PlayersKept DEF JoinTick
  <2>3. JobsFit'
    BY <1>5, JobsKept DEF JoinTick
  <2>4. FaultWindows'
    BY <1>5, NoFault DEF JoinTick
  <2> QED
    BY <2>1, <2>2, <2>3, <2>4
<1>6. CASE DestroyMemory
  <2>1. Control'
    BY <1>6 DEF DestroyMemory, Control, OtherTypes, AtDuty, Order, Below,
       Generations, EngineAhead, Stopping, Steps
  <2>2. PlayersFit'
    BY <1>6 DEF DestroyMemory, PlayersFit, ClientTypes, Players
  <2>3. JobsFit'
    <3>1. /\ job' = [i \in Jobs |-> IF job[i].block = "pool"
                                      THEN [job[i] EXCEPT !.block = "freed"]
                                      ELSE job[i]]
          /\ mem' = "gone" /\ UNCHANGED <<set, gen, engine, queue, worker>>
          /\ queue = {} /\ \A w \in Workers : worker[w] = None
      BY <1>6 DEF DestroyMemory, Control, Order, Below
    <3>2. ASSUME NEW i \in Jobs
          PROVE  /\ job'[i] \in JobsOf(gen) /\ job'[i].place = job[i].place
                 /\ job'[i].eng = job[i].eng
                 /\ job'[i].block = IF job[i].block = "pool" THEN "freed" ELSE job[i].block
      <4>1. job[i] \in JobsOf(gen)
        BY DEF JobsFit, JobTypes
      <4>2. job'[i] = IF job[i].block = "pool" THEN [job[i] EXCEPT !.block = "freed"]
                                               ELSE job[i]
        BY <3>1
      <4> QED
        BY <4>1, <4>2 DEF JobsOf
    <3>3. JobTypes'
      BY <3>1, <3>2 DEF JobTypes
    <3> QED
      BY <3>1, <3>2, <3>3, LifecycleAssumption DEF JobsFit, JobsPlaced
  <2>4. FaultWindows'
    BY <1>6, NoFault DEF DestroyMemory
  <2> QED
    BY <2>1, <2>2, <2>3, <2>4
<1>7. CASE ReleasePlayers
  <2>1. Control'
    BY <1>7 DEF ReleasePlayers, Control, OtherTypes, AtDuty, Order, Below,
       Generations, EngineAhead, Stopping, Steps
  <2>2. PlayersFit'
    <3>1. /\ client' = [c \in Clients |->
                          IF duty = "reload" THEN [client[c] EXCEPT !.eng = 0] ELSE Away]
          /\ at' = "schedflag" /\ UNCHANGED <<duty, gen, batch, queue, worker>>
          /\ queue = {} /\ \A w \in Workers : worker[w] = None
      BY <1>7 DEF ReleasePlayers, Control, Order, Below
    <3>2. ASSUME NEW c \in Clients
          PROVE  /\ client'[c] \in ClientsOf(gen) /\ client'[c].eng = 0
                 /\ duty = "reload" => client'[c].on = client[c].on
                                       /\ client'[c].input = client[c].input
                 /\ duty # "reload" => ~client'[c].on /\ ~client'[c].input
      <4>1. client[c] \in ClientsOf(gen) /\ gen \in Nat
        BY DEF PlayersFit, ClientTypes, Control, OtherTypes
      <4>2. client'[c] = IF duty = "reload" THEN [client[c] EXCEPT !.eng = 0] ELSE Away
        BY <3>1
      <4>3. Away \in ClientsOf(gen) /\ Away.eng = 0 /\ ~Away.on /\ ~Away.input
        BY <4>1 DEF ClientsOf, Away
      <4>4. /\ [client[c] EXCEPT !.eng = 0] \in ClientsOf(gen)
            /\ [client[c] EXCEPT !.eng = 0].eng = 0
            /\ [client[c] EXCEPT !.eng = 0].on = client[c].on
            /\ [client[c] EXCEPT !.eng = 0].input = client[c].input
        BY <4>1 DEF ClientsOf
      <4> QED
        BY <4>2, <4>3, <4>4
    <3>3. ClientTypes'
      BY <3>1, <3>2 DEF ClientTypes
    <3>4. duty \in {"reload", "failed", "stop"}
      BY <1>7 DEF ReleasePlayers, Control, AtDuty, OtherTypes, Duties
    <3> QED
      BY <3>1, <3>2, <3>3, <3>4, LifecycleAssumption DEF PlayersFit, Players
  <2>3. JobsFit'
    <3>1. /\ job' = [i \in Jobs |-> IF duty # "reload" /\ job[i].place = "timed"
                                      THEN FreeJob ELSE job[i]]
          /\ queue' = {} /\ worker' = worker /\ \A w \in Workers : worker[w] = None
          /\ UNCHANGED <<set, gen, engine, mem>>
      BY <1>7 DEF ReleasePlayers, Control, Order, Below
    <3>2. \A i \in Jobs : job'[i] = job[i] \/ job'[i] = FreeJob
      BY <3>1
    <3>3. job' \in [Jobs -> JobsOf(gen) \cup {FreeJob}]
      BY <3>1 DEF JobsFit, JobTypes
    <3> QED
      BY <3>1, <3>2, <3>3, FreedKept
  <2>4. FaultWindows'
    BY <1>7, NoFault DEF ReleasePlayers
  <2> QED
    BY <2>1, <2>2, <2>3, <2>4
<1>8. CASE StopScheduler
  <2>1. Control'
    <3>1. /\ at = "schedflag" /\ at' = "schedjoin" /\ (schedOn' = schedOn \/ schedOn' = FALSE)
          /\ UNCHANGED <<set, duty, batch, pipe, left, pvars, mem, evars, tvars, sched>>
          /\ (fault' = <<>> \/ fault' = <<"main", "engine">>)
      BY <1>8 DEF StopScheduler
    <3>2. OtherTypes'
      <4>1. fault' \in {<<>>} \cup ({"main", "worker", "tick", "sched"} \X
                                    {"pool", "memory", "block", "engine", "task"})
        BY <3>1
      <4>2. schedOn' \in BOOLEAN /\ at' \in Steps
        BY <3>1 DEF Control, OtherTypes, Steps
      <4> QED
        BY <3>1, <4>1, <4>2 DEF Control, OtherTypes
    <3>3. AtDuty' /\ Order' /\ Below'
      BY <3>1 DEF Control, OtherTypes, AtDuty, Order, Below, Stopping
    <3>4. Generations'
      BY <3>1 DEF Control, Generations, EngineAhead, Stopping
    <3> QED
      BY <3>2, <3>3, <3>4 DEF Control
  <2>2. PlayersFit'
    BY <1>8, PlayersKept DEF StopScheduler
  <2>3. JobsFit'
    BY <1>8, JobsKept DEF StopScheduler
  <2>4. FaultWindows'
    BY <1>8 DEF StopScheduler, Control, Below, FaultWindows
  <2> QED
    BY <2>1, <2>2, <2>3, <2>4
<1>9. CASE ReleaseEngine
  <2>1. Control'
    <3>1. /\ at = "schedjoin" /\ sched = "off" /\ engine' = "down" /\ ~schedOn
          /\ UNCHANGED <<set, batch, pipe, left, pvars, mem, gen, tvars, svars, fault>>
      BY <1>9 DEF ReleaseEngine, Control, OtherTypes, Below
    <3>2. \/ duty = "reload" /\ duty' = "reload" /\ at' = "engine"
          \/ duty = "stop" /\ duty' = "stop" /\ at' = "end"
          \/ duty = "failed" /\ duty' = "stop" /\ at' = "unnet"
      BY <1>9 DEF ReleaseEngine, Control, AtDuty, OtherTypes, Duties
    <3>3. duty = "failed" => set.fails
      BY DEF Control, Below
    <3>4. OtherTypes'
      BY <3>1, <3>2 DEF Control, OtherTypes, Steps, Duties
    <3>5. AtDuty' /\ Order' /\ Below'
      BY <3>1, <3>2, <3>3 DEF Control, AtDuty, Order, Below
    <3>6. Generations'
      BY <3>1, <3>2 DEF Control, Generations, EngineAhead, Stopping
    <3> QED
      BY <3>4, <3>5, <3>6 DEF Control
  <2>2. PlayersFit'
    <3>1. /\ duty' \in {"reload", "stop"} /\ (duty' = "stop" => duty \in {"stop", "failed"})
          /\ at' \in {"engine", "end", "unnet"}
          /\ UNCHANGED <<client, batch, gen, queue, worker>> /\ at = "schedjoin"
      BY <1>9 DEF ReleaseEngine, Control, AtDuty, OtherTypes, Duties
    <3> QED
      BY <3>1 DEF PlayersFit, ClientTypes, Players
  <2>3. JobsFit'
    <3>1. /\ job' = [i \in Jobs |-> IF job[i].place = "acts" THEN FreeJob ELSE job[i]]
          /\ queue' = {} /\ worker' = worker /\ \A w \in Workers : worker[w] = None
          /\ UNCHANGED <<set, gen, mem>>
      BY <1>9 DEF ReleaseEngine, Control, Order, Below
    <3>2. \A i \in Jobs : /\ job'[i] = job[i] \/ job'[i] = FreeJob
                          /\ job'[i].place # "acts"
      BY <3>1 DEF FreeJob
    <3>3. job' \in [Jobs -> JobsOf(gen) \cup {FreeJob}]
      BY <3>1 DEF JobsFit, JobTypes
    <3> QED
      BY <3>1, <3>2, <3>3, FreedKept
  <2>4. FaultWindows'
    BY <1>9, NoFault DEF ReleaseEngine
  <2> QED
    BY <2>1, <2>2, <2>3, <2>4
<1> QED
  BY <1>1, <1>2, <1>3, <1>4, <1>5, <1>6, <1>7, <1>8, <1>9 DEF Stop

\* The start, and the second half of a reload.
LEMMA StartKeeps == LifeInv /\ Alive /\ Start => LifeInv'
<1> SUFFICES ASSUME LifeInv, Alive, Start PROVE LifeInv'
  OBVIOUS
<1> USE DEF LifeInv, Alive, pvars, tvars, evars, svars, Step, Fine, Fails
<1>1. CASE InitializeADTs
  <2>1. Control'
    BY <1>1, LifecycleAssumption DEF InitializeADTs, Control, OtherTypes,
       AtDuty, Order, Below, Generations, Stopping, Steps, Duties
  <2>2. PlayersFit'
    BY <1>1, PlayersKept DEF InitializeADTs
  <2>3. JobsFit'
    BY <1>1, JobsKept DEF InitializeADTs
  <2>4. FaultWindows'
    BY <1>1, NoFault DEF InitializeADTs
  <2> QED
    BY <2>1, <2>2, <2>3, <2>4
<1>2. CASE InitEngine
  <2>1. Control'
    BY <1>2, LifecycleAssumption DEF InitEngine, Control, OtherTypes, AtDuty,
       Order, Below, Generations, EngineAhead, Stopping, Steps, Duties
  <2>2. PlayersFit'
    <3>1. /\ gen' = gen + 1 /\ at' = "config" /\ engine' = "up" /\ at = "engine"
          /\ UNCHANGED <<client, duty, batch, queue, worker>>
          /\ queue = {} /\ \A w \in Workers : worker[w] = None
      BY <1>2 DEF InitEngine, Control, Order, Below
    <3>2. \A c \in Clients : client[c].eng = 0
      BY <3>1 DEF Control, Order, PlayersFit, Players
    <3>3. ClientTypes'
      BY <3>1 DEF PlayersFit, ClientTypes, ClientsOf, Control, OtherTypes
    <3> QED
      BY <3>1, <3>2, <3>3, LifecycleAssumption DEF PlayersFit, Players
  <2>3. JobsFit'
    <3>1. /\ gen' = gen + 1 /\ gen \in Nat /\ engine' = "up" /\ engine = "down" /\ mem # "up"
          /\ UNCHANGED <<set, mem, job, queue, worker>>
          /\ queue = {} /\ \A w \in Workers : worker[w] = None
      BY <1>2 DEF InitEngine, Control, OtherTypes, Order, Below
    <3>2. JobTypes'
      BY <3>1 DEF JobsFit, JobTypes, JobsOf
    <3> QED
      BY <3>1, <3>2, LifecycleAssumption DEF JobsFit, JobsPlaced
  <2>4. FaultWindows'
    BY <1>2, NoFault DEF InitEngine
  <2> QED
    BY <2>1, <2>2, <2>3, <2>4
<1>3. CASE LoadConfiguration
  <2>1. Control'
    BY <1>3 DEF LoadConfiguration, Control, OtherTypes, AtDuty, Order, Below,
       Generations, EngineAhead, Stopping, Steps
  <2>2. PlayersFit'
    BY <1>3, PlayersKept DEF LoadConfiguration
  <2>3. JobsFit'
    BY <1>3, JobsKept DEF LoadConfiguration
  <2>4. FaultWindows'
    BY <1>3, NoFault DEF LoadConfiguration
  <2> QED
    BY <2>1, <2>2, <2>3, <2>4
<1>4. CASE LoadGame
  <2>1. Control'
    BY <1>4 DEF LoadGame, Control, OtherTypes, AtDuty, Order, Below,
       Generations, EngineAhead, Stopping, Steps
  <2>2. PlayersFit'
    BY <1>4, PlayersKept DEF LoadGame
  <2>3. JobsFit'
    BY <1>4, JobsKept DEF LoadGame
  <2>4. FaultWindows'
    BY <1>4, NoFault DEF LoadGame
  <2> QED
    BY <2>1, <2>2, <2>3, <2>4
<1>5. CASE InitMemory
  <2>1. Control'
    BY <1>5 DEF InitMemory, Control, OtherTypes, AtDuty, Order, Below,
       Generations, EngineAhead, Stopping, Steps
  <2>2. PlayersFit'
    BY <1>5, PlayersKept DEF InitMemory
  <2>3. JobsFit'
    <3>1. /\ mem' = "up" /\ mem # "up" /\ UNCHANGED <<set, gen, engine, job, queue, worker>>
      BY <1>5 DEF InitMemory, Control, Order
    <3>2. mem = "zero" \/ gen > 1
      BY <1>5 DEF InitMemory, Control, AtDuty, OtherTypes, Duties, Below,
         Stopping
    <3> QED
      BY <3>1, <3>2 DEF JobsFit, JobTypes, JobsPlaced
  <2>4. FaultWindows'
    BY <1>5, NoFault DEF InitMemory
  <2> QED
    BY <2>1, <2>2, <2>3, <2>4
<1>6. CASE StartTick
  <2>1. Control'
    BY <1>6 DEF StartTick, Control, OtherTypes, AtDuty, Order, Below,
       Generations, EngineAhead, Stopping, Steps
  <2>2. PlayersFit'
    BY <1>6, PlayersKept DEF StartTick
  <2>3. JobsFit'
    BY <1>6, JobsKept DEF StartTick
  <2>4. FaultWindows'
    BY <1>6, NoFault DEF StartTick
  <2> QED
    BY <2>1, <2>2, <2>3, <2>4
<1>7. CASE InitPool
  <2>1. Control'
    BY <1>7 DEF InitPool, Control, OtherTypes, AtDuty, Order, Below,
       Generations, EngineAhead, Stopping, Steps
  <2>2. PlayersFit'
    BY <1>7, PlayersKept DEF InitPool
  <2>3. JobsFit'
    BY <1>7, JobsKept DEF InitPool
  <2>4. FaultWindows'
    BY <1>7, NoFault DEF InitPool
  <2> QED
    BY <2>1, <2>2, <2>3, <2>4
<1>8. CASE InitializeNetwork
  <2>1. Control'
    BY <1>8 DEF InitializeNetwork, Control, OtherTypes, AtDuty, Order, Below,
       Generations, EngineAhead, Stopping, Steps, Duties
  <2>2. PlayersFit'
    <3>1. /\ duty = "start" /\ duty' = "serve" /\ at' = "loop" /\ engine' = engine
          /\ UNCHANGED <<client, gen, batch, queue, worker>> /\ engine = "up"
      BY <1>8 DEF InitializeNetwork, Control, AtDuty, OtherTypes, Duties,
         Stopping, Order
    <3> QED
      BY <3>1 DEF PlayersFit, ClientTypes, Players
  <2>3. JobsFit'
    BY <1>8, JobsKept DEF InitializeNetwork
  <2>4. FaultWindows'
    BY <1>8, NoFault DEF InitializeNetwork
  <2> QED
    BY <2>1, <2>2, <2>3, <2>4
<1>9. ASSUME NEW c \in Clients, Reconnect(c) PROVE LifeInv'
  <2>1. Control'
    BY <1>9 DEF Reconnect, Control, OtherTypes, AtDuty, Order, Below,
       Generations, EngineAhead
  <2>2. PlayersFit'
    <3> DEFINE r == [client[c] EXCEPT !.eng = gen]
    <3>1. /\ r \in ClientsOf(gen) /\ r.on = client[c].on /\ r.eng = gen
          /\ r.input = client[c].input
      BY DEF PlayersFit, ClientTypes, ClientsOf, Control, OtherTypes
    <3>2. /\ client' = [client EXCEPT ![c] = r]
          /\ UNCHANGED <<at, duty, batch, gen, engine, queue, worker>> /\ at = "connect"
          /\ engine = "up"
      BY <1>9 DEF Reconnect, Control, Order
    <3> HIDE DEF r
    <3>3. ClientTypes' /\ client'[c] = r /\ \A d \in Clients \ {c} : client'[d] = client[d]
      BY <3>1, <3>2, ClientSet DEF PlayersFit
    <3> QED
      BY <3>1, <3>2, <3>3 DEF PlayersFit, Players
  <2>3. JobsFit'
    BY <1>9, JobsKept DEF Reconnect
  <2>4. FaultWindows'
    BY <1>9, NoFault DEF Reconnect
  <2> QED
    BY <2>1, <2>2, <2>3, <2>4
<1>10. CASE Reloaded
  <2>1. Control'
    BY <1>10 DEF Reloaded, Control, OtherTypes, AtDuty, Order, Below,
       Generations, EngineAhead, Stopping, Steps, Duties
  <2>2. PlayersFit'
    BY <1>10 DEF Reloaded, PlayersFit, ClientTypes, Players
  <2>3. JobsFit'
    BY <1>10, JobsKept DEF Reloaded
  <2>4. FaultWindows'
    BY <1>10, NoFault DEF Reloaded
  <2> QED
    BY <2>1, <2>2, <2>3, <2>4
<1>11. CASE Failure
  <2>1. Control'
    <3>1. OtherTypes'
      BY <1>11, LifecycleAssumption DEF Failure, Control, OtherTypes, Steps, Duties
    <3>2. AtDuty' /\ Order'
      BY <1>11 DEF Failure, Control, AtDuty, Order, Stopping
    <3>3. Below'
      BY <1>11 DEF Failure, Control, OtherTypes, AtDuty, Order, Below, Stopping
    <3>4. ~EngineAhead'
      BY <1>11 DEF Failure, EngineAhead, Stopping
    <3>5. UNCHANGED <<gen, pipe, left, batch>>
      BY <1>11 DEF Failure
    <3>6. MaxCmds \in Nat /\ gen + Len(pipe) + left \in Nat
      BY LifecycleAssumption DEF Control, OtherTypes
    <3>7. Generations'
      BY <3>4, <3>5, <3>6 DEF Control, Generations
    <3> QED
      BY <3>1, <3>2, <3>3, <3>7 DEF Control
  <2>2. PlayersFit'
    BY <1>11 DEF Failure, PlayersFit, ClientTypes, Players
  <2>3. JobsFit'
    BY <1>11, JobsKept DEF Failure
  <2>4. FaultWindows'
    BY <1>11, NoFault DEF Failure
  <2> QED
    BY <2>1, <2>2, <2>3, <2>4
<1> QED
  BY <1>1, <1>2, <1>3, <1>4, <1>5, <1>6, <1>7, <1>8, <1>9, <1>10, <1>11 DEF
     Start

-----------------------------------------------------------------------------
(* The theorems. *)

\* Nothing is up.
LEMMA InitLife == Init => LifeInv
<1> SUFFICES ASSUME Init PROVE LifeInv
  OBVIOUS
<1> USE LifecycleAssumption DEF Init
<1>1. OtherTypes
  <2>1. pipe \in Seq({"kill", "reload"}) /\ Len(pipe) + left <= MaxCmds
        /\ left \in 0 .. MaxCmds
    OBVIOUS
  <2>2. at \in Steps /\ duty \in Duties
    BY DEF Steps, Duties
  <2>3. worker \in [Workers -> Clients \cup Jobs \cup {None}]
    OBVIOUS
  <2> QED
    BY <2>1, <2>2, <2>3 DEF OtherTypes
<1>2. AtDuty /\ Order /\ Below /\ Generations
  BY DEF AtDuty, Order, Below, Generations, EngineAhead, Stopping
<1>3. PlayersFit
  BY DEF PlayersFit, ClientTypes, ClientsOf, Players, Away
<1>4. JobsFit
  <2>1. FreeJob \in JobsOf(0) /\ FreeJob.place = "free" /\ FreeJob.block = "none"
    BY DEF FreeJob, JobsOf
  <2> HIDE DEF FreeJob
  <2> QED
    BY <2>1 DEF JobsFit, JobTypes, JobsPlaced
<1>5. FaultWindows
  BY DEF FaultWindows
<1> QED
  BY <1>1, <1>2, <1>3, <1>4, <1>5 DEF LifeInv, Control

\* Whoever takes a step preserves the invariant.
LEMMA StepLife == LifeInv /\ [Next]_vars => LifeInv'
<1>1. LifeInv /\ Next => LifeInv'
  BY ScriptsKeep, SurroundingsKeep, WorkersKeep, TickKeeps, SchedulerKeeps,
     ServeKeeps, StopKeeps, StartKeeps DEF Next, Main
<1>2. LifeInv /\ UNCHANGED vars => LifeInv'
  <2> SUFFICES ASSUME LifeInv, UNCHANGED vars PROVE LifeInv'
    OBVIOUS
  <2> USE DEF LifeInv, vars, pvars, tvars, evars, svars
  <2>1. Control'
    BY DEF Control, OtherTypes, AtDuty, Order, Below, Generations, EngineAhead
  <2>2. PlayersFit' /\ JobsFit'
    BY PlayersKept, JobsKept
  <2>3. FaultWindows'
    BY DEF FaultWindows
  <2> QED
    BY <2>1, <2>2, <2>3
<1> QED
  BY <1>1, <1>2

\* The invariant holds in every state of the server.
THEOREM Inductive == Spec => []LifeInv
BY InitLife, StepLife, PTL DEF Spec

\* server_init.c:295-492: engine, memory and pool are there for whoever uses
\* them, through starts, reloads, failures and the stop.
THEOREM LifecycleSound == Spec => []Inv
<1>1. LifeInv => Inv
  <2> SUFFICES ASSUME LifeInv PROVE Inv
    OBVIOUS
  <2> USE DEF LifeInv
  <2>1. ASSUME NEW c \in Clients \cap InPool PROVE pool # "down" /\ client[c].eng = gen
    BY <2>1 DEF InPool, Control, Below, PlayersFit, Players
  <2>2. EngineOutlivesScripts
    <3>1. InScript # {} => engine = "up"
      BY InScriptHas
    <3>2. \A w \in Workers : worker[w] \in Jobs => job[worker[w]].eng = gen
      BY DEF JobsFit, JobsPlaced
    <3> QED
      BY <2>1, <3>1, <3>2 DEF EngineOutlivesScripts, Control, Below
  <2>3. PlayersBeforeEngine
    BY DEF PlayersBeforeEngine, PlayersFit, Players
  <2>4. MemoryOutlivesUsers
    BY <2>1 DEF MemoryOutlivesUsers, Control, Below, JobsFit, JobsPlaced
  <2>5. UpWhileServing
    BY DEF UpWhileServing, Control, Order, Below
  <2> QED
    BY Types, <2>2, <2>3, <2>4, <2>5 DEF Inv
<1> QED
  BY Inductive, <1>1, PTL

\* server_init.c:348-353, 434, 191-199: the server uses what is not there in the
\* windows between the ends of the parts and nowhere else, for any number of
\* threads, script actions and reloads.
THEOREM FaultsInWindows == Spec => []FaultWindows
BY Inductive, PTL DEF LifeInv

-----------------------------------------------------------------------------
(* Nobody is forgotten. *)

\* Most steps leave alone what is known of the clients.
LEMMA HeardKept ==
    ASSUME NobodyForgotten,
           \A c \in Clients : client'[c].on =>
              client[c].on /\ (client[c].armed => client'[c].armed),
           batch \subseteq batch', queue \cap Clients \subseteq queue',
           worker' = worker,
           duty = "stop" => duty' = "stop"
    PROVE  NobodyForgotten'
BY DEF NobodyForgotten, InPool

\* The main thread leaves a stop only at its end.
LEMMA StopStays ==
    Control /\ duty = "stop" /\ Main => duty' = "stop"
<1> SUFFICES ASSUME Control, duty = "stop", Main PROVE duty' = "stop"
  OBVIOUS
<1>1. at \in Stopping \cup {"unnet", "end"}
  BY DEF Control, AtDuty
<1> USE <1>1 DEF Stopping, Step
<1>2. CASE Serve
  BY <1>2 DEF Serve, Poll, ReadPipe, HandleUserInput, Greeted
<1>3. CASE Stop
  BY <1>3 DEF Stop, StopNetwork, StopPool, DestroyPool, Drain, StopTick,
              JoinTick, DestroyMemory, ReleasePlayers, StopScheduler, ReleaseEngine
<1>4. CASE Start
  BY <1>4 DEF Start, InitializeADTs, InitEngine, LoadConfiguration, LoadGame,
              InitMemory, StartTick, InitPool, InitializeNetwork, Reconnect,
              Reloaded, Failure
<1> QED
  BY <1>2, <1>3, <1>4 DEF Main

\* A client stays heard of.
LEMMA StepHeard == LifeInv /\ NobodyForgotten /\ [Next]_vars => NobodyForgotten'
<1> SUFFICES ASSUME LifeInv, NobodyForgotten, [Next]_vars PROVE NobodyForgotten'
  OBVIOUS
<1> USE DEF LifeInv, pvars, tvars, evars, svars
<1>1. ASSUME Script \/ Clock \/ Tick \/ Scheduler PROVE NobodyForgotten'
  <2>1. UNCHANGED <<client, batch, worker, duty>> /\ queue \subseteq queue'
    <3>1. CASE Script \/ Clock
      BY <3>1 DEF Script, Clock, AddTimedTask, QueueDelayed, QueueDirect,
         AddTask, FallsDue
    <3>2. CASE Tick \/ Scheduler
      BY <3>2 DEF Tick, TickTop, TickLocks, TickSleeps, TickDispatch, AddTask,
                  Scheduler, SchedExits, SchedHandsOver
    <3> QED
      BY <1>1, <3>1, <3>2
  <2> QED
    BY <2>1, HeardKept
<1>2. ASSUME Surroundings PROVE NobodyForgotten'
  <2>1. UNCHANGED <<batch, worker, duty, queue>>
        /\ \A c \in Clients : client'[c].on = client[c].on
                              /\ client'[c].armed = client[c].armed
    <3>1. ASSUME NEW c \in Clients, PeerSends(c) \/ AcceptClient(c)
          PROVE  \A d \in Clients : client'[d].on = client[d].on
                                    /\ client'[d].armed = client[d].armed
      BY <3>1 DEF PeerSends, AcceptClient, PlayersFit, ClientTypes, ClientsOf
    <3> QED
      BY <1>2, <3>1 DEF Surroundings, WriteToCmdPipe, PeerSends, AcceptClient,
         Step
  <2> QED
    BY <2>1, HeardKept
<1>3. ASSUME NEW w \in Workers, NEW t \in queue, Take(w, t) PROVE NobodyForgotten'
  <2>1. UNCHANGED <<batch, duty>>
        /\ \A c \in Clients : client'[c].on = client[c].on
                              /\ client'[c].armed = client[c].armed
    BY <1>3 DEF Take, PlayersFit, ClientTypes, ClientsOf
  <2>2. CASE UNCHANGED <<queue, worker>>
    BY <2>1, <2>2, HeardKept
  <2>3. CASE queue' = queue \ {t} /\ worker' = [worker EXCEPT ![w] = t]
    <3>1. worker[w] = None /\ worker'[w] = t
          /\ \A v \in Workers \ {w} : worker'[v] = worker[v]
      BY <1>3, <2>3 DEF Take, Control, OtherTypes
    <3>2. ASSUME NEW c \in Clients, c \in InPool PROVE c \in InPool'
      <4>1. c # None
        BY LifecycleAssumption
      <4>2. CASE c = t
        BY <3>1, <4>1, <4>2 DEF InPool
      <4>3. CASE c # t /\ c \in queue
        BY <2>3, <4>3 DEF InPool
      <4>4. ASSUME NEW v \in Workers, worker[v] = c PROVE c \in InPool'
        <5>1. v # w /\ worker'[v] = c
          BY <3>1, <4>1, <4>4
        <5> QED
          BY <4>1, <5>1 DEF InPool
      <4> QED
        BY <3>2, <4>2, <4>3, <4>4 DEF InPool
    <3> QED
      BY <2>1, <3>2 DEF NobodyForgotten
  <2> QED
    BY <1>3, <2>2, <2>3 DEF Take
<1>4. ASSUME NEW w \in Workers, Finish(w) PROVE NobodyForgotten'
  <2>1. UNCHANGED <<batch, duty, queue>> /\ worker[w] # None
        /\ worker'[w] = None /\ \A v \in Workers \ {w} : worker'[v] = worker[v]
    BY <1>4 DEF Finish, Control, OtherTypes
  <2>2. \A c \in Clients : c \in InPool => c \in InPool' \/ c = worker[w]
    BY <2>1, LifecycleAssumption DEF InPool
  <2>3. \A c \in Clients : /\ client'[c].on = client[c].on
                           /\ client[c].armed \/ c = worker[w] => client'[c].armed
    BY <1>4 DEF Finish, PlayersFit, ClientTypes, ClientsOf
  <2> QED
    BY <2>1, <2>2, <2>3 DEF NobodyForgotten
<1>5. CASE Poll
  <2>1. /\ UNCHANGED <<queue, worker, duty>> /\ batch = {} /\ batch' = Events
        /\ client' = [c \in Clients |-> [client[c] EXCEPT !.armed = @ /\ c \notin Events]]
    BY <1>5 DEF Poll
  <2>2. ASSUME NEW c \in Clients
        PROVE  /\ client'[c].on = client[c].on
               /\ client[c].armed => client'[c].armed \/ c \in Events
    <3>1. client[c] \in ClientsOf(gen)
      BY DEF PlayersFit, ClientTypes
    <3>2. client'[c] = [client[c] EXCEPT !.armed = @ /\ c \notin Events]
      BY <2>1
    <3> QED
      BY <3>1, <3>2 DEF ClientsOf
  <2>3. InPool' = InPool
    BY <2>1 DEF InPool
  <2> QED
    BY <2>1, <2>2, <2>3 DEF NobodyForgotten
<1>6. ASSUME NEW c \in Clients, HandleUserInput(c) PROVE NobodyForgotten'
  <2>1. at = "loop" /\ pool = "up"
    BY <1>6 DEF HandleUserInput, Control, Order
  <2>2. /\ UNCHANGED <<client, worker, duty>>
        /\ batch' = batch \ {c} /\ queue' = queue \cup {c}
    BY <1>6, <2>1 DEF HandleUserInput, AddTask
  <2> QED
    BY <2>2 DEF NobodyForgotten, InPool
<1>7. ASSUME NEW c \in Clients, Greeted(c) PROVE NobodyForgotten'
  <2>1. UNCHANGED <<batch, worker, duty, queue>>
    BY <1>7 DEF Greeted, Step
  <2>2. \A d \in Clients : \/ client'[d] = client[d]
                           \/ client'[d].armed
    BY <1>7 DEF Greeted, PlayersFit, ClientTypes, ClientsOf
  <2>3. InPool' = InPool
    BY <2>1 DEF InPool
  <2> QED
    BY <2>1, <2>2, <2>3 DEF NobodyForgotten
<1>8. CASE ReadPipe
  <2>1. UNCHANGED <<client, queue, worker>> /\ duty # "stop"
    BY <1>8 DEF ReadPipe, Control, AtDuty, Stopping
  <2>2. duty' = "stop" \/ batch' = batch \ {"pipe"}
    BY <1>8 DEF ReadPipe
  <2> QED
    BY <2>1, <2>2, LifecycleAssumption DEF NobodyForgotten, InPool
<1>9. CASE DestroyPool
  <2>1. UNCHANGED <<client, batch, worker, duty>>
    BY <1>9 DEF DestroyPool, Drain, Step, pvars
  <2>2. queue' = queue \/ queue \cap Clients = {}
    BY <1>9 DEF DestroyPool, Drain, pvars
  <2>3. queue \cap Clients \subseteq queue'
    BY <2>2
  <2> QED
    BY <2>1, <2>3, HeardKept
<1>10. CASE ReleasePlayers
  <2>1. UNCHANGED <<batch, worker, duty, queue>>
    BY <1>10 DEF ReleasePlayers, Step
  <2>2. ASSUME NEW c \in Clients, client'[c].on
        PROVE  client[c].on /\ client'[c].armed = client[c].armed
    <3>1. client[c] \in ClientsOf(gen)
      BY DEF PlayersFit, ClientTypes
    <3>2. client'[c] = IF duty = "reload" THEN [client[c] EXCEPT !.eng = 0] ELSE Away
      BY <1>10 DEF ReleasePlayers
    <3>3. CASE duty = "reload"
      BY <2>2, <3>1, <3>2, <3>3 DEF ClientsOf
    <3>4. CASE duty # "reload"
      BY <2>2, <3>2, <3>4 DEF Away
    <3> QED
      BY <3>3, <3>4
  <2> QED
    BY <2>1, <2>2, HeardKept
<1>11. ASSUME NEW c \in Clients, Reconnect(c) PROVE NobodyForgotten'
  <2>1. UNCHANGED <<batch, worker, duty, queue>>
    BY <1>11 DEF Reconnect
  <2>2. \A d \in Clients : client'[d].on = client[d].on
                           /\ client'[d].armed = client[d].armed
    BY <1>11 DEF Reconnect, PlayersFit, ClientTypes, ClientsOf
  <2> QED
    BY <2>1, <2>2, HeardKept
<1>12. ASSUME \/ StopNetwork \/ StopPool \/ StopTick \/ JoinTick \/ DestroyMemory
              \/ StopScheduler \/ ReleaseEngine \/ InitializeADTs \/ InitEngine
              \/ LoadConfiguration \/ LoadGame \/ InitMemory \/ StartTick
              \/ InitPool \/ InitializeNetwork \/ Reloaded \/ Failure
       PROVE  NobodyForgotten'
  <2>1. UNCHANGED <<client, batch, worker, queue>>
    BY <1>12 DEF StopNetwork, StopPool, StopTick, JoinTick, DestroyMemory,
                 StopScheduler, ReleaseEngine, InitializeADTs, InitEngine,
                 LoadConfiguration, LoadGame, InitMemory, StartTick, InitPool,
                 InitializeNetwork, Reloaded, Failure
  <2>2. duty = "stop" => duty' = "stop"
    BY <1>12, StopStays DEF Main, Stop, Start
  <2> QED
    BY <2>1, <2>2, HeardKept
<1>13. CASE UNCHANGED vars
  BY <1>13, HeardKept DEF vars
<1> QED
  BY <1>1, <1>2, <1>3, <1>4, <1>5, <1>6, <1>7, <1>8, <1>9, <1>10, <1>11, <1>12,
     <1>13 DEF Next, Main, Serve, Stop, Start, Work

\* server.c:340-343, server_init.c:350: a connected client is armed, in the
\* batch, or in the pool, unless the server is going down, for any number of
\* workers, clients and reloads.
THEOREM ClientsHeard == Spec => []NobodyForgotten
<1>1. Init => NobodyForgotten
  BY DEF Init, Away, NobodyForgotten
<1> QED
  BY Inductive, StepHeard, <1>1, PTL DEF Spec
=============================================================================
