---------------------------- MODULE ClientSession ----------------------------
(***************************************************************************)
(* The life of a connection (mud.c, server.c, client.c): the main thread   *)
(* accepts it and turns epoll events into tasks; pool workers read its     *)
(* input, run the script callback and rearm the socket; whoever releases   *)
(* the last reference of a disconnected client removes and frees it.       *)
(*                                                                         *)
(* The kernel is part of the model as far as the code depends on it: a     *)
(* descriptor number is reused as soon as it is closed, the lowest free    *)
(* one first; closing a descriptor drops its epoll registration; a         *)
(* one-shot registration delivers one event each time it is armed.         *)
(*                                                                         *)
(* A freed client keeps its contents here: a step on one reads what was    *)
(* last there.  That is one outcome of the undefined behaviour; the        *)
(* properties say where it cannot begin.                                   *)
(***************************************************************************)
EXTENDS Integers, Sequences, FiniteSets

CONSTANTS
  Workers,      \* the threads of the pool
  Clients,      \* the connections that may be made, each a struct Client
  Fds,          \* the descriptor numbers accept may return
  None,
  MaxTasks,     \* bound on the queued packages of one client
  Settings      \* the settings to look at

\* What epoll knows of a descriptor.
Registration == [ptr : Clients, armed : BOOLEAN]

ASSUME SetAssumption ==
  /\ IsFiniteSet(Workers) /\ IsFiniteSet(Clients)
  /\ Fds \subseteq Nat /\ Fds # {}
  /\ None \notin Workers \cup Clients \cup Fds /\ None \notin Registration
  /\ MaxTasks \in Nat \ {0}

(***************************************************************************)
(* A setting: how many workers there are and who connects, and what peers  *)
(* and scripts may do.  Peers may send at a rate that earns a warning, an  *)
(* input callback may disconnect its own player, callbacks may disconnect  *)
(* a player outside a task of its own, and connections may keep arriving   *)
(* once a client is disconnected.                                          *)
(***************************************************************************)
Setting == [workers : SUBSET Workers, clients : SUBSET Clients,
            bursts : BOOLEAN, quits : BOOLEAN, kicks : BOOLEAN, arrivals : BOOLEAN]

ASSUME SettingAssumption == Settings \subseteq Setting

VARIABLES
  setting,      \* the setting of this behaviour
  life,         \* "unborn", "live" or "freed": the memory of each client
  disc,         \* bDisconnected
  ref,          \* refcount
  sock,         \* sock and ev_pkg.sockfd
  clients,      \* server->clients, in order
  input,        \* what the peer has sent and nobody has read
  file,         \* the connection each descriptor refers to
  interest,     \* the epoll registration of each descriptor
  batch,        \* evlist: the clients of the events not yet dispatched
  adding,       \* the client Server_AcceptClient has yet to register
  queued,       \* how many packages of each client wait in the pool
  at,           \* where each worker is
  client,       \* the client of the package each worker handles
  back,         \* where Server_HandleClientDisconnect returns to
  told          \* how often each player's disconnect callback was called

kernel  == <<input, file, interest>>
main    == <<batch, adding>>
threads == <<at, client, back>>
vars == <<setting, life, disc, ref, sock, clients, kernel, main, queued, threads, told>>

Init ==
  /\ setting \in Settings
  /\ life = [c \in Clients |-> "unborn"]
  /\ disc = [c \in Clients |-> FALSE]
  /\ ref = [c \in Clients |-> 0]
  /\ sock = [c \in Clients |-> None]
  /\ clients = <<>>
  /\ input = [c \in Clients |-> "none"]
  /\ file = [f \in Fds |-> None]
  /\ interest = [f \in Fds |-> None]
  /\ batch = {}
  /\ adding = None
  /\ queued = [c \in Clients |-> 0]
  /\ at = [w \in Workers |-> "idle"]
  /\ client = [w \in Workers |-> None]
  /\ back = [w \in Workers |-> None]
  /\ told = [c \in Clients |-> 0]

-----------------------------------------------------------------------------
(* The peers and the kernel.                                               *)

Open(c) == \E f \in Fds : file[f] = c

PeerSends(c) ==
  /\ Open(c) /\ input[c] = "none"
  /\ input' = [input EXCEPT ![c] = "data"]
  /\ UNCHANGED <<setting, life, disc, ref, sock, clients, file, interest, main, queued, threads, told>>

PeerHangsUp(c) ==
  /\ Open(c) /\ input[c] = "none"
  /\ input' = [input EXCEPT ![c] = "eof"]
  /\ UNCHANGED <<setting, life, disc, ref, sock, clients, file, interest, main, queued, threads, told>>

\* close(fd), also on a number that is not open or is open for someone else.
Close(f) ==
  /\ file' = [file EXCEPT ![f] = None]
  /\ interest' = [interest EXCEPT ![f] = None]

Ready == {f \in Fds : /\ file[f] # None /\ input[file[f]] # "none"
                      /\ interest[f] # None /\ interest[f].armed}

-----------------------------------------------------------------------------
(* What the steps are made of.                                             *)

Goto(w, stage) == at' = [at EXCEPT ![w] = stage]

\* Server_DisconnectClient, to come back to stage r.
Call(w, r) ==
  /\ at' = [at EXCEPT ![w] = "disconnect"]
  /\ back' = [back EXCEPT ![w] = r]

\* RearmClientSocket: EPOLL_CTL_MOD of whatever the number now stands for.
RearmSocket(c) ==
  interest' = IF interest[sock[c]] = None THEN interest
              ELSE [interest EXCEPT ![sock[c]] = [ptr |-> c, armed |-> TRUE]]

-----------------------------------------------------------------------------
(* Variants of the actions below, each with a bug it could have had.  The  *)
(* properties are checked to notice them; Next does not use them.          *)

\* The task for the event takes no reference.
DispatchNoRef(c) ==
  /\ c \in batch
  /\ adding = None
  /\ queued[c] < MaxTasks
  /\ batch' = batch \ {c}
  /\ queued' = [queued EXCEPT ![c] = @ + 1]
  /\ UNCHANGED <<setting, life, disc, ref, sock, clients, kernel, adding, threads, told>>

\* The socket is rearmed as the task starts.
EnterRearms(w) ==
  /\ at[w] = "enter"
  /\ \/ disc[client[w]] /\ Call(w, "release") /\ UNCHANGED interest
     \/ ~disc[client[w]] /\ Goto(w, "read") /\ RearmSocket(client[w]) /\ UNCHANGED back
  /\ UNCHANGED <<setting, life, disc, ref, sock, clients, input, file, main, queued, client, told>>

\* Input that cannot be decompressed: the early return without its rearm.
ReadDataNoRearm(w) ==
  /\ at[w] = "read"
  /\ file[sock[client[w]]] # None
  /\ LET peer == file[sock[client[w]]] IN
       /\ input[peer] = "data"
       /\ input' = [input EXCEPT ![peer] = "none"]
  /\ \/ Call(w, "release")
     \/ at' = [at EXCEPT ![w] = "release"] /\ UNCHANGED back
     \/ Goto(w, "process") /\ UNCHANGED back
  /\ UNCHANGED <<setting, life, disc, ref, sock, clients, file, interest, main, queued, client, told>>

\* The release leaves the disconnection to the task.
CheckRefNever(w) ==
  /\ at[w] = "check"
  /\ Goto(w, "done") /\ UNCHANGED back
  /\ UNCHANGED <<setting, life, disc, ref, sock, clients, kernel, main, queued, client, told>>

\* The release forgets to ask whether the client is disconnected.
CheckRefOnly(w) ==
  /\ at[w] = "check"
  /\ IF ref[client[w]] = 0
     THEN Call(w, "done")
     ELSE Goto(w, "done") /\ UNCHANGED back
  /\ UNCHANGED <<setting, life, disc, ref, sock, clients, kernel, main, queued, client, told>>

-----------------------------------------------------------------------------
(* The main thread: the epoll loop.                                        *)

\* epoll_wait: some of the ready events, each disarming its registration.
Poll ==
  /\ batch = {} /\ adding = None
  /\ \E F \in SUBSET Ready \ {{}} :
       /\ batch' = {interest[f].ptr : f \in F}
       /\ interest' = [f \in Fds |-> IF f \in F THEN [interest[f] EXCEPT !.armed = FALSE]
                                                ELSE interest[f]]
  /\ UNCHANGED <<setting, life, disc, ref, sock, clients, input, file, adding, queued, threads, told>>

\* Server_HandleUserInput: a reference and a task for the client of the event.
Dispatch(c) ==
  /\ c \in batch
  /\ adding = None
  /\ queued[c] < MaxTasks
  /\ batch' = batch \ {c}
  /\ ref' = [ref EXCEPT ![c] = @ + 1]
  /\ queued' = [queued EXCEPT ![c] = @ + 1]
  /\ UNCHANGED <<setting, life, disc, sock, clients, kernel, adding, threads, told>>

\* Server_AcceptClient up to the connect callback: the client is in the vector.
Accept(c) ==
  /\ life[c] = "unborn"
  /\ adding = None
  /\ setting.arrivals \/ \A d \in Clients : ~disc[d]
  /\ \E f \in Fds :
       /\ file[f] = None
       /\ \A g \in Fds : file[g] = None => f <= g
       /\ file' = [file EXCEPT ![f] = c]
       /\ sock' = [sock EXCEPT ![c] = f]
  /\ life' = [life EXCEPT ![c] = "live"]
  /\ clients' = Append(clients, c)
  /\ adding' = c
  /\ UNCHANGED <<setting, disc, ref, input, interest, batch, queued, threads, told>>

\* The EPOLL_CTL_ADD at its end; it fails if the descriptor is not open.
Register ==
  /\ adding # None
  /\ interest' = IF file[sock[adding]] = None THEN interest
                 ELSE [interest EXCEPT ![sock[adding]] = [ptr |-> adding, armed |-> TRUE]]
  /\ adding' = None
  /\ UNCHANGED <<setting, life, disc, ref, sock, clients, input, file, batch, queued, threads, told>>

-----------------------------------------------------------------------------
(* HandleUserInputTask.                                                    *)

Begin(w) ==
  /\ w \in setting.workers
  /\ at[w] = "idle"
  /\ \E c \in Clients :
       /\ queued[c] > 0
       /\ queued' = [queued EXCEPT ![c] = @ - 1]
       /\ client' = [client EXCEPT ![w] = c]
  /\ Goto(w, "enter")
  /\ UNCHANGED <<setting, life, disc, ref, sock, clients, kernel, main, back, told>>

\* A task that was enqueued before its client was disconnected.
Enter(w) ==
  /\ at[w] = "enter"
  /\ \/ disc[client[w]] /\ Call(w, "release")
     \/ ~disc[client[w]] /\ Goto(w, "read") /\ UNCHANGED back
  /\ UNCHANGED <<setting, life, disc, ref, sock, clients, kernel, main, queued, client, told>>

\* The read fails on a closed descriptor; (size_t) -1 bytes are too many.
ReadFails(w) ==
  /\ at[w] = "read"
  /\ file[sock[client[w]]] = None
  /\ Call(w, "release")
  /\ UNCHANGED <<setting, life, disc, ref, sock, clients, kernel, main, queued, client, told>>

\* Bytes arrive: refused by the clock or the telnet parser, lost to a failed
\* decompression, warned of and processed, or processed.  The socket blocks, so
\* there is no step while there is nothing to read.
ReadData(w) ==
  /\ at[w] = "read"
  /\ file[sock[client[w]]] # None
  /\ LET peer == file[sock[client[w]]] IN
       /\ input[peer] = "data"
       /\ input' = [input EXCEPT ![peer] = "none"]
  /\ \/ Call(w, "release")
     \/ Goto(w, "rearm") /\ UNCHANGED back
     \/ setting.bursts /\ Goto(w, "warn") /\ UNCHANGED back
     \/ Goto(w, "process") /\ UNCHANGED back
  /\ UNCHANGED <<setting, life, disc, ref, sock, clients, file, interest, main, queued, client, told>>

\* Zero bytes: the peer has hung up.  The clock runs first, and may still warn.
ReadEnd(w) ==
  /\ at[w] = "read"
  /\ file[sock[client[w]]] # None
  /\ input[file[sock[client[w]]]] = "eof"
  /\ \/ Call(w, "release")
     \/ setting.bursts /\ Goto(w, "warnend") /\ UNCHANGED back
  /\ UNCHANGED <<setting, life, disc, ref, sock, clients, kernel, main, queued, client, told>>

\* Server_ClockPlayer warns and rearms while the input is still in hand...
Warn(w) ==
  /\ at[w] = "warn"
  /\ RearmSocket(client[w])
  /\ Goto(w, "process")
  /\ UNCHANGED <<setting, life, disc, ref, sock, clients, input, file, main, queued, client, back, told>>

\* ...which the telnet parser may refuse after that, or which was the end.
WarnThenRefuse(w) ==
  /\ at[w] \in {"warn", "warnend"}
  /\ RearmSocket(client[w])
  /\ Call(w, "release")
  /\ UNCHANGED <<setting, life, disc, ref, sock, clients, input, file, main, queued, client, told>>

\* Telnet, line assembly and, for a complete line, the input callback.
Process(w) ==
  /\ at[w] = "process"
  /\ Goto(w, "rearm")
  /\ UNCHANGED <<setting, life, disc, ref, sock, clients, kernel, main, queued, client, back, told>>

\* PlayerConnection::Disconnect, for a script that has a handle on the player:
\* Client_Disconnect and nothing else.
PlayerDisconnect(d) ==
  /\ life[d] = "live"
  /\ disc' = [disc EXCEPT ![d] = TRUE]
  /\ Close(sock[d])

\* The input callback disconnects its own player or another one.
ProcessDisconnects(w) ==
  /\ at[w] = "process"
  /\ \E d \in Clients :
       /\ IF d = client[w] THEN setting.quits ELSE setting.kicks
       /\ PlayerDisconnect(d)
  /\ Goto(w, "rearm")
  /\ UNCHANGED <<setting, life, ref, sock, clients, input, main, queued, client, back, told>>

\* The connect callback, called by the main thread, does.
ConnectDisconnects ==
  /\ adding # None /\ setting.kicks
  /\ \E d \in Clients : PlayerDisconnect(d)
  /\ UNCHANGED <<setting, life, ref, sock, clients, input, main, queued, threads, told>>

Rearm(w) ==
  /\ at[w] = "rearm"
  /\ RearmSocket(client[w])
  /\ Goto(w, "release")
  /\ UNCHANGED <<setting, life, disc, ref, sock, clients, input, file, main, queued, client, back, told>>

-----------------------------------------------------------------------------
(* ReleaseHandleUserInputTaskPkg, called by the pool after the task.       *)

ReleaseRef(w) ==
  /\ at[w] = "release"
  /\ ref' = [ref EXCEPT ![client[w]] = @ - 1]
  /\ Goto(w, "check")
  /\ UNCHANGED <<setting, life, disc, sock, clients, kernel, main, queued, client, back, told>>

\* The count is read again: another release may come between.
CheckRef(w) ==
  /\ at[w] = "check"
  /\ IF disc[client[w]] /\ ref[client[w]] = 0
     THEN Call(w, "done")
     ELSE Goto(w, "done") /\ UNCHANGED back
  /\ UNCHANGED <<setting, life, disc, ref, sock, clients, kernel, main, queued, client, told>>

\* The package goes back to mem_pool.
Done(w) ==
  /\ at[w] = "done"
  /\ Goto(w, "idle")
  /\ client' = [client EXCEPT ![w] = None]
  /\ back' = [back EXCEPT ![w] = None]
  /\ UNCHANGED <<setting, life, disc, ref, sock, clients, kernel, main, queued, told>>

-----------------------------------------------------------------------------
(* Server_HandleClientDisconnect.                                          *)

\* Client_Disconnect: close whatever the number now stands for.
Disconnect(w) ==
  /\ at[w] = "disconnect"
  /\ disc' = [disc EXCEPT ![client[w]] = TRUE]
  /\ Close(sock[client[w]])
  /\ Goto(w, "getref")
  /\ UNCHANGED <<setting, life, ref, sock, clients, input, main, queued, client, back, told>>

GetRefCount(w) ==
  /\ at[w] = "getref"
  /\ Goto(w, IF ref[client[w]] = 0 THEN "callback" ELSE back[w])
  /\ UNCHANGED <<setting, life, disc, ref, sock, clients, kernel, main, queued, client, back, told>>

CallOnPlayerDisconnect(w) ==
  /\ at[w] = "callback"
  /\ told' = [told EXCEPT ![client[w]] = @ + 1]
  /\ Goto(w, "remove")
  /\ UNCHANGED <<setting, life, disc, ref, sock, clients, kernel, main, queued, client, back>>

\* Under the write lock: find the first client with this descriptor number,
\* drop the number from the interest list, and free the client found.
Matches(c) == {i \in DOMAIN clients : sock[clients[i]] = sock[c]}

Without(s, i) == [j \in 1..(Len(s) - 1) |-> IF j < i THEN s[j] ELSE s[j + 1]]

Remove(w) ==
  /\ at[w] = "remove"
  /\ IF Matches(client[w]) = {}
     THEN UNCHANGED <<life, clients, interest>>
     ELSE \E i \in Matches(client[w]) :
            /\ \A j \in Matches(client[w]) : i <= j
            /\ interest' = [interest EXCEPT ![sock[client[w]]] = None]
            /\ life' = [life EXCEPT ![clients[i]] = "freed"]
            /\ clients' = Without(clients, i)
  /\ Goto(w, back[w])
  /\ UNCHANGED <<setting, disc, ref, sock, input, file, main, queued, client, back, told>>

-----------------------------------------------------------------------------
TaskStep(w) ==
  \/ Begin(w) \/ Enter(w) \/ ReadFails(w) \/ ReadData(w) \/ ReadEnd(w)
  \/ Warn(w) \/ WarnThenRefuse(w) \/ Process(w) \/ ProcessDisconnects(w) \/ Rearm(w)
  \/ ReleaseRef(w) \/ CheckRef(w) \/ Done(w)
  \/ Disconnect(w) \/ GetRefCount(w) \/ CallOnPlayerDisconnect(w) \/ Remove(w)

MainStep == Poll \/ Register \/ ConnectDisconnects \/ \E c \in Clients : Dispatch(c)

Peer == \E c \in setting.clients : PeerSends(c) \/ PeerHangsUp(c) \/ Accept(c)

Next == Peer \/ MainStep \/ \E w \in Workers : TaskStep(w)

Spec == Init /\ [][Next]_vars

(***************************************************************************)
(* The main thread and the workers keep running.  Nothing is assumed about *)
(* the order in which the pool takes tasks, and no peer has to do anything.*)
(***************************************************************************)
Fairness ==
  /\ WF_vars(Poll) /\ WF_vars(Register)
  /\ \A c \in Clients : WF_vars(Dispatch(c))
  /\ \A w \in Workers : WF_vars(TaskStep(w))

FairSpec == Spec /\ Fairness

-----------------------------------------------------------------------------
(* Properties.                                                             *)

InTask   == {"enter", "read", "warn", "warnend", "process", "rearm"}
InReturn == {"release", "check", "done"}
InCall   == {"disconnect", "getref", "callback", "remove"}

\* Every variable keeps its type, and a worker has a client exactly while it
\* has a package.
TypeOK ==
  /\ setting \in Settings
  /\ life \in [Clients -> {"unborn", "live", "freed"}]
  /\ disc \in [Clients -> BOOLEAN]
  /\ ref \in [Clients -> Nat]
  /\ sock \in [Clients -> Fds \cup {None}]
  /\ clients \in Seq(Clients)
  /\ input \in [Clients -> {"none", "data", "eof"}]
  /\ file \in [Fds -> Clients \cup {None}]
  /\ interest \in [Fds -> Registration \cup {None}]
  /\ batch \subseteq Clients
  /\ adding \in Clients \cup {None}
  /\ queued \in [Clients -> 0..MaxTasks]
  /\ at \in [Workers -> {"idle"} \cup InTask \cup InReturn \cup InCall]
  /\ client \in [Workers -> Clients \cup {None}]
  /\ back \in [Workers -> {None, "release", "done"}]
  /\ told \in [Clients -> Nat]
  /\ \A w \in Workers : at[w] = "idle" <=> client[w] = None

InVector(c) == \E i \in DOMAIN clients : clients[i] = c

\* The workers that hold a reference to c: from Begin to ReleaseRef, and while
\* Server_HandleClientDisconnect is to return to the release of the package.
Holders(c) == {w \in Workers : /\ client[w] = c
                               /\ \/ at[w] \in InTask \cup {"release"}
                                  \/ at[w] \in InCall /\ back[w] = "release"}

\* The reference count of a client is the number of its packages that are
\* queued or being handled: Server_HandleUserInput and the release function
\* agree on every path through the task, freed clients included.
RefCounted == \A c \in Clients : ref[c] = queued[c] + Cardinality(Holders(c))

Alone(c) == Cardinality({w \in Workers : client[w] = c /\ at[w] \in InTask}) <= 1

\* EPOLLONESHOT serializes a client's input as long as nobody earns a warning:
\* no two workers are between the start of a task and its rearm for the same
\* client, where they would share its input_buffer, tel_stream and clock.
SerialInput == ~setting.bursts /\ ~setting.arrivals => \A c \in Clients : Alone(c)

\* A live client is never forgotten, unless a script disconnects it outside its
\* task: it is armed in epoll, its event has been fetched, it is still being
\* accepted, a task of it is queued or has its rearm ahead, or it is
\* disconnected and a worker is about to see whether its last reference is gone.
NeverForgotten ==
  ~setting.kicks /\ ~setting.arrivals =>
    \A c \in Clients : life[c] = "live" =>
      \/ interest[sock[c]] = [ptr |-> c, armed |-> TRUE]
      \/ c \in batch \/ adding = c \/ queued[c] > 0
      \/ \E w \in Workers : client[w] = c /\ (at[w] \in InTask \/ back[w] = "release")
      \/ disc[c] /\ \E w \in Workers : client[w] = c /\ at[w] # "done"

\* Nobody comes across the client c once it is freed: no event, registration,
\* task or worker that has yet to touch it refers to it.
Unreachable(c) ==
  /\ c \notin batch /\ queued[c] = 0 /\ adding # c
  /\ \A f \in Fds : interest[f] = None \/ interest[f].ptr # c
  /\ \A w \in Workers : client[w] = c => at[w] = "done"

Orderly ==
  /\ Cardinality(setting.workers) = 1
  /\ ~setting.bursts /\ ~setting.kicks /\ ~setting.arrivals

\* With a pool of one worker, the pool of a machine of up to three cores, a
\* client is freed when nothing refers to it any more.
HandlersLive == Orderly => \A c \in Clients : life[c] = "freed" => Unreachable(c)

\* There a player's disconnect callback runs once, when the player's client is
\* about to be removed.
CallbackOnce ==
  Orderly => \A c \in Clients :
    told[c] = IF \/ life[c] = "freed"
                 \/ \E w \in Workers : client[w] = c /\ at[w] = "remove" THEN 1 ELSE 0

Silence == \A c \in Clients : <>[](input[c] # "data")

\* A peer that hangs up is removed from the server, at the latest when the
\* others leave the workers time for it.
HangupLeaves ==
  Silence /\ ~setting.arrivals =>
    \A c \in Clients : InVector(c) /\ input[c] = "eof" ~> ~InVector(c)

\* A player the server disconnects, or its own callback, is removed too.
DisconnectLeaves ==
  Silence /\ ~setting.kicks /\ ~setting.arrivals =>
    \A c \in Clients : InVector(c) /\ disc[c] ~> ~InVector(c)

\* server.c:140-176, 410-428: whoever works for a client is counted, so that a
\* count of zero means what the disconnection takes it for, in all settings.
Inv == TypeOK /\ RefCounted

\* server.c:97-176: in an orderly server a client is freed once, with its
\* callback before, and when nobody comes across it any more.
FreedInTime == HandlersLive /\ CallbackOnce

\* server.c:97-176, 334-347: whoever hangs up or is disconnected by its own
\* callback leaves the server, however the workers share out the tasks.
Leaves == HangupLeaves /\ DisconnectLeaves
=============================================================================
