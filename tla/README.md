# A TLA+ model of the MUD server

The server in `src/src/` is a multiplayer game server in C and C++: one main
thread with an epoll loop, a pool of worker threads that process what players
type, a tick thread, an action scheduler, and AngelScript for the game itself.
This directory models the parts in which threads meet, checks them with TLC,
and proves the central ones with TLAPS.

To check a run: `tlc -config <cfg> <module>`; to check the proofs:
`tlapm` with each of the eight modules whose name ends in `Proofs`. `PROJECT.json`
lists the runs, the source lines of every definition, and for every property a
faulty variant of some action that violates it.

## The system

| Component | Files | State | Operations | What makes it correct |
|---|---|---|---|---|
| Thread pool | `threadpool.c` | heap of tasks, its mutex, a condition variable, `bIsRunning`, a block allocator | add a task (any thread), run tasks (workers), stop, destroy | each task runs once and its arguments are released; no task waits while a worker sleeps; Destroy returns and releases what is left |
| Priority queue | `prioq.c`, `hrt_prioq.c` | array heap, length, capacity | insert, extract, peek | a least key comes out; nothing is lost; the array is never overrun |
| Pool allocator | `poolalloc.c` | blocks, free list threaded through free elements | allocate, expand, free; by size in `MemoryPool` | nothing is handed out twice or lost; user data is never touched |
| Client session | `server.c`, `client.c`, `mud.c`, `player.cpp` | `clients` vector, per client: socket, `bDisconnected`, `refcount`, input buffer; the epoll interest list | accept, poll, dispatch, input task, release, disconnect, remove | serial input per client; a client is freed when nothing refers to it, once; nobody is forgotten |
| Server lifecycle, command pipe | `server_init.c`, `mud.c` | everything above | start, `reload`, `kill` | threads stop before what they use; clients survive a reload |
| Tick thread, timed tasks | `tickthread.c`, `server.c` | `timed_queue` and its mutex | add a timed task, tick, stop | due tasks are dispatched once, in order |
| Action scheduler, actors | `action_scheduler.cpp`, `nativeactor.cpp` | set of active actors, a queue per actor, a condition variable | queue an action, scan, wait, stop | actions run when due; actors live as long as they are queued |
| Script contexts and actions | `as_manager.cpp`, `as_api.cpp`, `nativeactor.cpp` | two arrays of contexts and their use; packages in the memory of their actors; counts of script objects | take and return a context, queue and run an action | no context is used twice; a package is read and freed while it is there |
| Counted script objects | `as_refcountedobj.cpp` | reference counts, weak flags | add and release references | nothing is deleted twice or while it is used |
| Persistence | `sqlite*.cpp`, `database.cpp` | SQLite tables, rows, subtables, one connection and its transaction | save, load | an object is saved wholly or not at all, and stays saved |
| Telnet, compression | `telnet.c`, `zcompressor.c`, `client.c` | automaton per client, zlib streams, a mutex for output | process a byte, negotiate, write | what is typed becomes input, and what is sent can be read |
| Line editor, text | `leditor.cpp`, `editabletext.cpp` | buffer, index of lines, cached copy of the text | open, type, delete, clear, save | the index and the copies agree with the text |
| Lexers, text, numbers, containers | many | none shared | pure functions | |

How they interact. The main thread turns an epoll event into a pool task that
holds a reference to the client (`Server_HandleUserInput`). The task reads the
socket, passes the bytes through decompression and the telnet automaton, runs
the input callback of the script and rearms the one-shot registration; after it
the pool calls the task's `releasefn`, which drops the reference and removes a
disconnected client with the last one. The tick thread and the action scheduler
put the tasks that are due into the same pool with a more urgent priority; a
script action runs on a context of the pool of contexts and its package is given
back to its actor. Scripts call back into the server from any of these threads.
`reload` and `kill` arrive through a pipe and are executed by the main thread
while the others run.

The hard parts are listed as hazards in `PROJECT.json`, each at its line: the
wakeups of the pool and the scheduler, flags tested under a lock but set
without it, counts that are decremented in one critical section and tested in
the next, descriptor numbers that are reused while something still refers to
the old owner, one-shot registrations that a path might not rearm, arrays that
move under unlocked readers, a transaction that several threads share, commands
that the network cuts in two, and teardown in an order the threads do not follow.

## The modules

**ThreadPool** models `threadpool.c` step by step. A worker's `pc` follows
`ThreadPool_WorkerThreadFunc`: `lock` (about to take the mutex), `sleep` (it
holds the mutex and has found nothing to do), `waiting` and `woken` (inside
`pthread_cond_wait`), `check` (it holds the mutex and has a reason to go on),
`run`, `release`, `free`. `add` and `mine` follow a call of
`ThreadPool_AddTask`, which any thread may make, workers from inside a task
included: take and fill a block, insert it under the mutex, signal after the
unlock. `phase` follows `ThreadPool_Destroy`. What the code does under the
mutex in one go is one step; the flag, the signal and the broadcast, which the
code handles without it, are steps of their own. Spurious wakeups are included.
The heap is a set of blocks of which any with a least priority may be taken, and
the allocator is a set of free blocks: PrioQ and AllocPool show that this is
what the code provides. Calls of `ThreadPool_AddTask` after the end of
`ThreadPool_Destroy` are outside the module.

**TaskService** is what a caller of the pool relies on, without mutex, wakeups
or memory. ThreadPool implements it: the queue is what is pending, a worker
executes from the extraction of a block until it frees the block.

**ClientSession** models a connection from `accept` to the removal of its
`struct Client`. `at`, `client` and `back` say where each worker is in
`HandleUserInputTask`, in the release function, and in
`Server_HandleClientDisconnect`, which both of them call (`back` is the place
it returns to). The kernel is modelled as far as the code depends on it:
`file` says whose connection a descriptor number stands for, `interest` is the
epoll interest list with its one-shot flags; `accept` returns the lowest free
number, `close` frees the number at once and drops its registration,
`EPOLL_CTL_MOD` and `EPOLL_CTL_DEL` act on whatever the number stands for, and
a read waits while there is nothing to read, because the sockets block. What
bytes arrive is abstracted to *data* or *end of input*, and everything the
clock, the telnet parser and the decompression decide on them to a choice of
outcomes. A freed client keeps its contents, one of the outcomes of the
undefined behaviour; the properties say when nobody looks. The constant
`Settings` says how many workers and which clients there are and what peers
and scripts may do, so that one run covers several situations and each
property names the ones it holds in.

**ActionScheduler** models `action_scheduler.cpp` and the queues of
`nativeactor.cpp`. A script that queues a delayed action computes when it is due
(`QueueScriptAction`), inserts it under the actor's mutex (`Insert`), makes the
actor active under the scheduler's lock (`AddActiveActor`) and signals without
any lock (`Signal`); `call` says how far each thread is. The scheduler's `pc`
is `top` (about to test `m_bIsRunning`), `scan` (it holds the lock; `todo` are
the actors ahead of the iterator), `wait` (before `pthread_cond_timedwait`),
`asleep` and `done`. The scan of one actor is one step: it holds the actor's
mutex, and an insertion between its unlock and the erasure leads to the same
state as one after it, because `AddActiveActor` waits for the scan's lock. The
condition variable is faithful to the code, which waits without the mutex: a
signal reaches only a thread that is asleep. `phase` follows `StopThread`,
which the main thread calls after the threads that run scripts have been joined.
`refs` counts what keeps an actor: one for the scripts, one for the set.
A deadline is a pair of seconds and nanoseconds that is stored, compared and
added to field by field, as the code does it. Seconds are relative to the
current second of the clock, so the clock can go on without end: `Tick` at the
end of a second takes one second off every stored time, and what lies more than
`Past` seconds back is not told from `Past`. That is sound because the code
compares times with one another and with the clock only where the order of two
times in the past makes no difference: what is in the past is extracted in the
same scan. The absolute seconds of the clock are never zero, so `IsTsNonZero`
reduces to its nanoseconds. A scan is assumed to be over within the second it
has started in.

**AllocPool** models `AllocPool` in `poolalloc.c`, one operation one step,
because each is one critical section of `pool_mutex`. Elements are numbered
through all blocks. `word` is the first word of each element, which the pool
uses as a link while the element is free and its user overwrites at any time.
**Allocator** is the abstract specification: nobody else gets an element while
its user has it, and what the user wrote stays.

**PrioQ** models `prioq.c`: the array as a sequence, and the capacity with its
unsigned arithmetic (modulo `WordMod`). A node moves up after an insertion and
down after an extraction in a loop; one round of it is one step, and `way` and
`at` are the loop that runs and its index. Callers serialize the operations,
so no operation begins before the loop has ended. **PriorityQueue** is the
abstract specification; it leaves the order among equal keys open, and so does
the code.

**ServerLifecycle** models the main thread from `Server_Start` to the end
(`server_init.c`, `mud.c`) with what goes on meanwhile. `at` is the next step
of the main thread and `duty` what it is doing; starting, reloading and
stopping share the steps of `Server_StopThreads`,
`AngelScriptManager_ReleaseEngine` and the initialisations, as the code does.
The pool is TaskService with one more thing: after `ThreadPool_Destroy` it is
zeroed. `tick` follows `TickThreadFn` with its dispatch under
`timed_queue_mtx`; the scheduler is a thread that may hand over what is due
until it sees its flag. `gen` counts script engines, so that every action and
every client knows which engine it was made for; `block` says what has become
of the memory of a timed task. A use of something torn down is not hidden: it
ends the behaviour with a `fault`, and `FaultWindows` says which faults there
are and between which steps. So does the drain of the pool (`Drain`): a queued
job has no `releasefn` and is thrown away, but that of a queued input task is
called with the task in place of its package, takes the address of
`HandleUserInputTask` for the server and the package for the client, and
writes through both. What memory that hits is not modelled; the behaviour
ends. Settings choose what scripts do, which commands are written, and whether
a part of a start fails.

**ContextPool** models the context pool of `as_manager.cpp`: `Lock` to `Grow` is
`ASContextPool_GetFreeContextIndex`, whose two arrays move one after the other;
lookups and returns take no mutex, so each is a load of the array's address and
an access of what was loaded. An array that was loaded before a move is freed
memory, told by its generation. Who looks up a context there finds any, or none, and
who returns one clears any byte of the live array or none; both are `astray` from
then on. **ScriptActions** adds what the
contexts are used for: `NativeActor::QueueScriptAction` with the block it takes
from the memory of the actor, the scheduler's hand-over, the end of an actor
with its memory, and `ASAPI_RunScriptAction`, which frees the package before it
releases the command through it. The free list is the one of AllocPool, last in
first out. ScriptActions refines ContextPool (proved, `ScriptsUseContexts`).

**RefCounts** models both classes of `as_refcountedobj.cpp`: the proxied one,
whose `Release` decrements and then reads the count again, and the counted one
with its weak reference flag. References of scripts to the script object behind
a proxy are counted too, because `AddRef` and `Release` pass them on.

**ObjectStore** models `ASAPI_SaveObject` and `LoadObject` on one SQLite
connection. A save is a version number with a number of child rows; each row is
a statement, `disk` is what a crash leaves, `view` what the connection sees. An
`END TRANSACTION` commits whatever the open transaction holds, of any thread. It
fails in two ways: refused, because somebody else reads the database, it leaves the
transaction open (`EndRefused`); with a full or failing disk SQLite gives up the
transaction with everything that any thread has stored in it (`EndLost`). A
statement, too, fails alone (`Fail`) or with the transaction (`FailLost`). The code
does not notice that the transaction is gone, so a thread in the middle of a save goes
on, each statement then being a transaction of its own. `pending` are the objects whose save has returned
after a refused END. **VersionStore** is the abstract specification, without rows,
statements and transactions: an object has one version that is seen and one that is
written, a save replaces both in one step, what is not written may be lost at any
time, and nothing is known of an object while it is saved or after one of its saves
has failed or met another, until one ends well that met none.

**TelnetStream** models one connection: the peer and the network, the input
task with the scan for IAC bytes, the automaton of `telnet.c` byte by byte,
decompression, and `Client_WriteToImpl` on several threads, including the lock
that the input task releases without holding it. Bytes are the few kinds that
the automaton tells apart. `quirks` records what has happened that the code is
not prepared for, such as a command cut by a read, and the properties say what
holds without which of them. The peers of the model send no byte 255 as text
and do not end their compressed stream. One input task of the client runs at a
time: with the early rearm of `Server_ClockPlayer`, which ClientSession has, two
tasks could be in the automaton at once, and nothing here is about that.

**LineEditor** models the editor's buffer with the bytes that deletions leave
behind, the index of lines as it is rebuilt from some line on, the limits, and
`EditableText` with its cached copy. `ideal` is the text that the commands ask
for. A text that exceeds its limits when it is opened is refused, but to a
client that the editor has not got yet (`leditor.cpp:72`, `client.c:181`): it
goes on as a `blank` editor, empty and as good as any, and what is saved with
it replaces the text. Saving keeps the editor open, `.q` changes nothing, and
`Close` is the script letting go. Scripts may assign to the text, add to it
and read it meanwhile. After a deletion beyond the last line, of a text
without a final newline, or one that leaves several lines behind the text, no
more is typed or deleted in that session; the text can still be saved, left or
cleared. A deletion that would move fewer than no bytes (`underflow`) ends the
behaviour, as it ends the program.

**MCThreadPool** and the other modules with that prefix give the constants their
values and symmetries.

## The runs

| Run | Bounds | What it shows |
|---|---|---|
| `pool` | 2 workers, main thread, 1 other caller, 3 blocks, 2 priorities | All safety properties, refinement of TaskService, and liveness under fairness |
| `session` | four settings of up to 2 workers and 3 clients, 2 queued packages per client | All properties of ClientSession |
| `scheduler` | 2 actors, 2 actions, 1 caller, seconds of 2 parts, 3 seconds to the hour, delays of a part and of a second | All properties of ActionScheduler, liveness included |
| `allocpool` | one element at first, 5 in use, so 2 expansions (1, 3, 9 elements) | All properties of AllocPool, refinement of Allocator |
| `prioq` | 7 nodes, 3 keys, capacity 2 at first | heap order, capacity, refinement of PriorityQueue |
| `lifecycle` | 2 workers, 2 clients, 1 script action, 2 commands, three settings | engine, memory and threads in every start, reload, stop and failure; reloads return, kills end, who sends is served |
| `pool_drain` | 1 worker, main thread, 2 blocks | violated: the drain releases all resources |
| `scripts` | 2 threads, 2 commands, 1 actor with 2 blocks, 1 context growing to 2 | contexts exclusive until freed memory is used, and by whom it may be; packages and counts of commands |
| `refcounts` | 2 scripts, 2 natives, 3 users of a counted object | when objects are deleted, and how often |
| `store` | 2 threads, 2 objects of up to 2 child rows, 3 saves | what is on disk after failures, overlaps, rollbacks and crashes |
| `telnet` | 2 messages of 6, 1 write, reads of 4 bytes, tasks of 8 | input kept, consent, readable output, tasks that end |
| `editor` | 1 letter, 1 input, 2 strings, limits of none, 2 bytes, or 2 lines, texts of 3 bytes, 2 sessions | text, index, limits, refused texts, and what is saved, read and opened again |

Why the bounds are enough. In the pool, two workers and a third thread suffice
for every pair of steps that do not commute (test and signal, two extractions,
a signal each for two tasks), and three blocks allow a queue of two while a
worker is busy; the theorems cover every size. In a session the hazards need
two tasks of one client (two workers, two packages) or two clients that share
a descriptor number. The allocator run passes two expansions with elements of
the old blocks still in use. Seven nodes fill three levels of the heap, with
an incomplete last level on the way, and the capacity goes through growth, the
wrap-around below 4, and shrinking. `MaxTasks`, `MaxOwned` and `MaxLen` bound
counters in guards; `Blocks` bounds the live tasks.

A reload and a kill, in either order and in one read or two, are what the pipe
distinguishes. An action of either kind that is queued before a reload and run
after it needs one action, because its slot says which engine it was made for;
two clients let one be served while the other's task is in the queue that is
drained. Two threads, of which one grows the arrays while the other looks up or
returns, are what every lost use needs, and a second command what a freed and
reused package can be confused with. Three saves of two objects let a save
overlap one of its own and one of another object and be followed by a third that
reads or shortens it. The telnet run has each pair of messages in every cut; its
capacities are small enough that text, arguments and decompressed bytes exceed
them. Three bytes of text are three empty lines, one of which can be deleted
before, between or behind the others, or a line and a rest; two sessions and a
limit of two bytes are enough for a text to grow by its nul byte until it is
refused, and for a blank editor to save over it. For the drain one worker and
two blocks leave both tasks in the queue.

In the scheduler, two actors are what the iterator and the minimum over actors
need, and two actions allow two in one queue as well as one in each. A second of
two parts has a whole second and a time within; the hour of three seconds is
longer than any delay, as the real one is longer than what scripts are likely
to ask for. `Actions` bounds what is queued at a time, not how often.

### Properties worth reading

Safety that holds together is checked together, and proved together where it is
proved: where a module has an
`Inv` (or `ContextsSafe`, `ScriptsSafe`, `ProxySafe`, `InputSound`, `OutputSound`),
it is the conjunction of named parts, each with a comment of its own.
`FreedInTime`, `Leaves`, `CommandsObeyed` and `WorkDone` are conjunctions of two in
the same way.

* `ThreadPool!NoIdleWorker`: `AddTask` signals after the unlock and the signal
  may find nobody waiting. It is enough, because while a worker sleeps there
  are at least as many workers on their way to the queue and signals to come as
  there are tasks.
* `ThreadPool!StopJoins`: Destroy does return, provided no worker is between
  its test of `bIsRunning` and `pthread_cond_wait` when the flag is cleared;
  with one there it need not.
* `ClientSession!NeverForgotten`: on every path through the input task the
  client is rearmed, or on its way to be, or to be removed.
* `ClientSession!HandlersLive` (in `FreedInTime`): with one worker nothing
  refers to a freed client. With two, with the early rearm, or with a
  disconnection by somebody else's callback, something may. The connect callback
  is enough: it runs on the main thread, which may have fetched events of the
  client it disconnects.
* `ActionScheduler!QueuedActive` (in `Inv`): the scan takes an actor whose queue
  is empty out of the set while a caller may just have put something into the
  queue; the call then makes the actor active again, and no action is left where
  no scan looks.
* `ActionScheduler!SleepCovers`: while the scheduler sleeps and has missed no
  signal, it wakes up for every deadline, at most a second per actor late. The
  property names what the code does not cover: deadlines on a whole second
  (`IsTsNonZero` takes them for none), and signals between scan and wait.
* `ActionScheduler!HandedOver`: after any of these, the hour still ends the
  sleep and the action runs.
* `AllocPool!NoLeak`: expansion happens with the allocation
  that takes the last element, and no element ever drops off the list.
* `ServerLifecycle!FaultWindows`: every use of what is torn down or not there
  yet, and when. The tick thread is exposed between the end of the pool and its
  own; a reload or a stop is, to input that is still queued when the pool is
  drained. Nothing else can happen to a server that has started and whose
  scripts queue nothing.
* `ServerLifecycle!NobodyForgotten`: a reload that gets past the drain has lost no
  client, because there was no input task in the queue.
* `ServerLifecycle!EngineOutlivesScripts` (in `Inv`): whatever the tick thread
  and the scheduler still do during a stop, no script runs without the engine it
  was made for; for the tick thread this rests on the order of two joins.
* `ContextPool!OneUser` and `StraysOld` (in `ContextsSafe`): lookups and returns
  take no mutex, and while nobody meets freed memory a context has one user and
  none is lost. Who may meet it is bounded: it takes a growth, and a thread that
  had its context before the growth and loads the address of an array before,
  and uses it after, the array moves. With no more threads than the initial 32
  contexts nobody does (`ContextsEnough`).
* `ScriptActions!Balanced`: freeing the package first means that another
  action's command may be released instead; the counts stay balanced over all
  commands although single ones are off.
* `RefCounts!DeletedOnce` (in `ProxySafe`) and `FreedOnce`: deleted twice only
  by two releases between the decrement and the second read, and freed unflagged
  only by two that both saw two.
* `ObjectStore!Durable` and `Whole`: a save may be committed by another thread's
  END and is still durable when it returns, unless a transaction was given up under
  it; half an object is on disk only after a failed statement or an overlap.
* `TelnetStream!InputKept` (in `InputSound`): in every cut of the stream, what
  was typed is what is passed on, but for three reasons that the property names.
* `TelnetStream!Readable` (in `OutputSound`): which interleavings of a write
  with the beginning of compression the peer cannot decode.
* `LineEditor!Indexed` (in `Inv`) and `Faithful`: the bytes that deletions leave
  behind the text never come back into it, and the number shown before a line is
  the one that deletes it.
* `LineEditor!RefusedAtLimit` (in `Inv`) and `SavedKept`: every save stores one
  nul byte more, which costs the text, refused and then saved over, only when it
  is at its limit; and what is added by a script is in what is read and opened
  as a whole or not at all.

### Findings

The violated run is `pool_drain`. The comment at `threadpool.c:95` says that the
drain burns through the remaining tasks "so that we release all resources". It
calls `releasefn` with the task itself, where the workers call it with `pArgs`,
and it clears the variable its loop tests, so that it ends after the first task
with a `releasefn`: with two tasks in the queue one is left, and the other is
mistaken for its arguments. (The comment at `threadpool.h:17` says that
`releasefn` is called "on the ThreadTask instance"; the workers, and the one
function that is passed for it, have it otherwise.) For an input task that means
that `ReleaseHandleUserInputTaskPkg` counts down in the package as if it were
the client, and frees through the code of `HandleUserInputTask` as if that were
the server (`server.c:146`): a reload or stop with input in the queue all but
certainly ends there. ServerLifecycle has it as the fault of `main` with a
`task`.

The other disagreements met while modelling are in the modules as the code has
them. The properties hold with the provisos that they state, or name the case:

1. `leditor.cpp:72`: the refusal of a text is sent to no client, and the player
   gets an empty editor, which saves over the text.
2. `threadpool.c:79`: the flag and the broadcast without the mutex, a lost
   wakeup: Destroy waits for ever for a worker that was about to wait.
3. `server.c:155`: the reference count is read again after the release, so two
   workers may both find it zero; the callback runs twice and the second one
   works on a freed client.
4. `server.c:127` (and the second `close` in `client.c:76` before it): every
   ordinary disconnection closes the descriptor number twice, once in the task
   and once with the last reference, and then drops its registration. A client
   accepted in between may own the number.
5. `player.cpp:49`: disconnecting a player who has no task in flight closes the
   socket, which also ends its events, and nobody removes the client.
6. `server.c:402`: the warning for a high rate rearms the socket before the
   input has been processed.
7. `nativeactor.cpp:144`: the nanoseconds of the delay are added to the clock's
   without a carry. A deadline of 10 seconds and 1.5e9 nanoseconds is compared
   with the clock by its seconds first, so the action runs at 11 instead of 11.5.
8. `server_init.c:322` with `mud.c:120`: a start whose database fails stops the
   server twice, and the second stop follows the scheduler's null pointer.
9. `server_init.c:170`: `OnServerInit` runs before memory, tick thread and pool
   exist; `server_init.c:191`: the tick thread starts before the pool it uses.
10. `mud.c:83`: two commands that are read together are one; a kill behind a
   reload is lost.
11. `tickthread.c:60`: timed tasks survive a reload in the queue, their memory
   and the scripts they run do not.
12. `as_api.cpp:53`: the package is freed before its command is released through
   it.
13. `as_refcountedobj.cpp:36` and `:49`: the count is read a second time, and the
   weak reference flag is set on a test before the decrement.
14. `database.cpp:329`: a failed save is committed as far as it went;
   `sqliteutil.cpp:92`: nobody looks at the result of `END TRANSACTION`, so a save
   whose transaction is lost returns true, and the threads that were in it go on;
   `sqlitetable.cpp:817`: rows of an array that has become shorter stay.
15. `server.c:285`: the input task unlocks `connection_state_mtx` without having
   locked it. `telnet.c:156`: compression is switched on before it is announced.
   `server.c:240`: a command whose rest is read without an IAC byte is input.
   `server.c:245`: the length before decompression bounds the scan after it.
   `zcompressor.c:91`: 1024 decompressed bytes in one task, or an ended stream,
   keep the worker in the loop for ever.
16. `leditor.cpp:254`: a line number equal to the count is let pass;
   `leditor.cpp:262`: the byte count wraps for a last line without a newline;
   `leditor.cpp:379`: saving stores nul bytes, so a text grows with every
   session until it exceeds its limit (and see 1). `editabletext.cpp:146` and
   `:110` leave the cached copy stale. The command `.i`, "Insert text before
   line #" (`leditor.cpp:22`), never inserts: the lexer is asked for two tokens
   (`leditor.cpp:417`) and `EditorCmdInsert` wants more than two
   (`leditor.cpp:353`).

Observed while modelling the scheduler and covered by the provisos of
`SleepCovers`, `HandedOver` and `StopReturns`:
a signal or the broadcast of StopThread that comes between the scan and the
wait is lost, and only the time-out (up to an hour) makes up for it; a deadline
with no nanoseconds counts as no deadline; a minimum with a second or more of
nanoseconds makes `pthread_cond_timedwait` fail at once, so the thread loops
without sleeping until the time has come.

## Fairness

`ThreadPool`: every thread that can make its next step eventually does (weak
fairness of a worker's steps, of a call of AddTask, of Destroy). The code takes
no step that waits for anything but the mutex, the condition variable or the
joins, mutexes are held for a bounded time, and tasks are assumed to return.
Neither submissions nor Destroy nor spurious wakeups are fair.

`ClientSession`: weak fairness of the main thread's steps and of each worker.
Nothing is assumed of the order in which the pool takes tasks, since the heap
keeps none among equal keys; the liveness properties therefore speak of
behaviours in which peers stop sending at some time (`Silence`). Peers need not
send, hang up or connect.

`ActionScheduler`: weak fairness of the scheduler's steps, of each started
call, of the broadcast and of the join, for the same reason as in the pool.
Strong fairness of `AddActiveActor`, which needs the lock of the active set: a
scheduler that scans in a loop takes the lock again and again, but it is free
between any two scans, and the lock is assumed not to starve a writer for ever.
Strong fairness of `Tick`: the clock goes on whatever the threads do; it is
strong only because a tick at the end of a second waits for a scan in progress.
Queueing, creating and releasing actors, spurious wakeups and StopThread are
not fair.

`ServerLifecycle`: weak fairness of the main thread, the tick thread, the
scheduler, every worker, and the clock. Each of them waits only for a join, an
event or a mutex that is held for a bounded time, and scripts are assumed to
return. That a join of the pool ends is `ThreadPool!StopJoins`, with its proviso.
Peers, scripts and whoever writes commands are not fair.

`TelnetStream`: weak fairness of the input task and of each write, which wait
for the mutex or for bytes; a peer is assumed to take what is sent to it. The
peer is not fair, and `Returns` says so: a task may wait in its second read.

ContextPool, ScriptActions, RefCounts, ObjectStore and LineEditor state safety
only: their operations are finite sequences of steps that end if their thread
goes on, and promise nothing beyond that.

## Proofs

*ThreadPoolProofs*, for any finite sets of workers, callers and blocks. The
inductive invariant is `IInv == TypeOK /\ OneOwner /\ Control /\ ArgsStage`.
`OneOwner` alone is not inductive: that a block taken from the queue is not
also held needs the relation of program counters and held blocks in `Control`,
and `Control` in turn needs that the mutex owner is where it should be. From
it follow by one step each: `TypeCorrect`, `BlocksOwned`, `ControlKept`,
`ArgsFollow` and `TeardownQuiet`, together `PoolSound` (`Spec => []Inv`),
`BlocksReleased` (an action property that is proved only: no block is freed
before its arguments are released while the workers run) and `Refinement`
(TaskService; Insert is Accept, Take is Start, FreeBlock is Finish, StopFlag
is Close, Drain is Drop). `NeverIdle` is a counting argument on top: an
insertion adds a task and a pending signal, a signal turns into a worker on
its way, a taken task costs one such worker, and a worker goes to sleep only
when the queue is empty.

*ActionSchedulerProofs*, for any actors, actions, callers, delays and number of
nanoseconds. `IInv == TypeOK /\ Referenced /\ Control /\ QueuedActive /\ OnePlace`.
That a count never leaves 0..2 is a consequence of `Referenced`; that the scan
releases only what is in the set needs `Control`; that the queue of a destroyed
actor is not one somebody still inserts into needs that callers hold their
actor (`Control`) and that whoever has something queued is active or about to
be (`QueuedActive`); that a time which leaves a queue belonged to that queue
only is `OnePlace`. `TypeCorrect`, `ReferencesCounted`, `QueuedAreActive`,
`QueuedOnce` and `ScanSafe` follow from it, together `SchedulerSound`
(`Spec => []Inv`), and `NeverEarly` (an action
property) from it and the arithmetic of deadlines: `TypeOK` says that the time
of a scan is not after the clock.

`WakesInTime` (`SleepCovers`) has an invariant of its own, `CoverInv`. The scan
takes a minimum over the actors it passes, plus a second, and replaces it when
an actor is due before it: each replacement can move it to up to a second later.
So what is proved of the minimum is that it is not later than the time of any
action of a scanned actor plus as many seconds as actors were scanned, unless an
earlier action of that actor is due on a whole second (the code takes a time whose
nanoseconds are zero for no time at all), or the call that has changed that
actor's queue has yet to signal or was missed: the cases `SleepCovers` excepts.

Its second part is about AllocPool, the allocator of the pool, for any initial
size, user data and number of expansions. `Links` says of single links what a
walk of the list would show (the head and every link lead to free elements, no
two links meet, none leads to the head) and is inductive with `AllocTypeOK`:
`ListSound` (`FreeListSound`). `AllocRefinement` (Allocator) follows. That no
element drops off the list (`NothingLost`) needs the list as a whole: `Enumerated`
says that some numbering of the free elements has the head as its first and
follows the links to the end, and each operation says what becomes of the
numbering. A walk that missed an element would miss one of least number, whose
predecessor is on the walk; the least number is that of a well-founded order.

Its third part is about PrioQ, for any integer keys, any items, any initial
length and any bound on the nodes, if a word has room for the capacities
(`RoomAssumption`). Between the rounds of a loop the array is no heap. `Moving`
says how far it is from one: the node on its way up alone may be smaller than
its parent, the node on its way down alone greater than its children, and
meanwhile the parent of that node is no greater than its children, without which
the exchange would break the order one level off. With `Distinct`, that no two
nodes carry the same, and `Roomy`, which bounds the capacity so that its
arithmetic does not wrap where it is used, this is `HeapInv`; `QueueSound`
(`HeapSound`) is a part of it. `QueueRefinement` (PriorityQueue) needs that the
root is a least node: of the nodes smaller than the root the one of least index
would have a parent that is one of them.

*ScriptProofs*, for any threads, actors, blocks and objects, any initial size of
the context pool and any bound on its growth. For ContextPool, `ContextInv`
says which generation of an array each thread may have loaded, that whoever is
between `Lock` and the unlock is the one that holds the mutex, that every
index is below the count whatever freed memory did to the marks, and that who
has an old address overlaps with a growth or has an index in the lower half;
until somebody is astray it has who holds what. `ContextsAreSafe` is
`ContextsSafe` from it, `ContextStraysBounded` its part about freed memory.
`ContextsEnough` says that the 32 initial contexts make all of this void as
long as there are no more threads than that. Every step of ScriptActions is a
step of ContextPool or leaves its variables alone (`ScriptsUseContexts`), so
that `ContextsExclusive` carries over (`ScriptsExclusive`). `QueuedHaveActors`
is inductive with the relation of queue, active set and live actors. On top of
it `ScriptInv` follows the packages: a block is on the free list of its actor,
in the queue, with the pool or with one worker, so that the package a worker
frees cannot be one that is queued; and the number of packages about an object
and of jobs that run it changes by one in each step that changes its
references. `ScriptsAreSafe` (`ScriptsSafe`) is what it comes to.
`ReferencesBalance` (`Balanced`) is about all objects together, because a
release that goes to another object leaves no single count right. It needs a
sum over a set of any size: that a fold does not depend on which element it
takes first (`AnyFirst`), and that it changes by as much as one of its terms
(`TotalOfChange`), by way of a smallest set for which this is not so. Then
`Even` is inductive with `ScriptInv` and `JobsSay` (a job whose actor lives
names some object), one lemma for each kind of step.

Its second part is about LineEditor, for any letters, inputs, strings and limits
and texts of any length. `EditInv` says what is in the buffer and not only what
can be seen of it. `Holds`: the bytes of the text and then a nul byte.
`Indexes`: the ends of the indexed lines are all newlines of the buffer
(`Marks`), those behind the nul byte too, because a rebuild from some line on
trusts what is in front of that line and scans all of the rest; or no newline
has come yet and the one line is the whole buffer with its nul byte, which is
the case in which a deletion wraps. `Residue`: what deletions have left behind
the text ends in a newline, so that after the last newline there are nul bytes
only; otherwise deleting the entry behind the text could move bytes of deleted
lines back to its end. At most one entry lies behind the text (a behaviour that
leaves more is a quirk). `Limited` are the limits, `Shut` says that a closed
editor has let go of its buffer, and `Working` that an open one has the text and
the blank one as well what was typed into it. `BufferNuls` bounds how much
longer the buffer is than its text, a byte for each save and load, and
`TextNuls` the same of what was saved, which is what `RefusedAtLimit` needs;
`Copied` says that the cached copy is what was saved, or that with all that was
added. The lemmas come in layers: bytes and C strings (`CStringIs`,
`OverwriteType`), the places of newlines as a rising sequence that is the only
one of its kind (`NewlinesMark`, `MarksOne`; every fact about counting lines is
read off it), the text without one of its lines (`WithoutLine`), the entries
that a rebuild finds (`RebuildIndexes`), and with these one lemma for each
command (`AppendKeeps`, `DeleteKeeps`, `OpenKeeps`, ...). `EditorIndexed` is the
invariant; `EditorSafe` (`Inv`), `EditorFaithful` (`Faithful`) and `EditorSaves`
(`SavedKept`) follow from it.

*RefCountsProofs*, for any finite sets of holders and users. The invariant counts
who holds what: `refCount` is the number of holders that have been added and not
counted down, the references of the script object are those of the scripts and
of the natives passed on, and the `deleted` count is tied to the releases that
are between the decrement and the second read. Most of the proof is about
cardinalities of the sets of holders at a place before and after a step. It gives
`ProxiesSafe` (`ProxySafe`) and `ObjectFreedOnce` (`FreedOnce`).

*ObjectStoreProofs*, for any threads, objects and bounds: `NoOrphans` is
inductive with `TypeOK`, because the foreign key refuses a child without its
row, also after the row was given up with its transaction: `RowsSound` (`Spec
=> []Inv`). What survives a crash needs more, because the view of the shared
connection is what the next commit of anybody writes: `SInv` says when disk
and view agree (`Synced`), that no row is newer than the saves begun
(`Dated`), what a save that has its object for itself has left in the view up
to its present statement (`Only`, `Written`), that nobody has ended the
transaction of a save that is alone (`Alone`), and that an object nobody has
disturbed is whole on disk and in the view (`Calm`, `Settled`). `Durable`,
`Whole` and `LoadsWhole` are its consequences (`SavesDurable`, `SavesWhole`,
`LoadsComplete`). So is `StoreRefinement` (`ImplementsVersions`, which is
proved and not part of a run): a calm object is the version of its row, if all
rows of that version are there, on disk and, while nobody saves it, for the
connection. An object that is not calm is unknown. Every `END` leaves the disk
with what is seen, because whatever is calm is at rest then (`EndWrites`);
which of the versions it is needs `Finished`. A transaction that is given up
takes the view back to the disk and the saves in the middle of it out of what
is said of saves that are alone, so it maps to `Lose`, and with a failing
statement to `Fail`.

*ClientSessionProofs*, for any workers and clients. `CountInv` counts the holders of
a reference by where each worker is, and gives `ReferencesCounted` (`Inv`) in all
settings. The other three hold where nobody connects after a disconnection,
because then a descriptor stands for one client and the invariant can speak of
its registration: a client has one event at a time, either armed in epoll, in the
batch, queued, or with the one worker that has not rearmed it, which is
`InputSerial`; together with who is about to look at a disconnected client that is
`ClientsRemembered`; and with a single worker, which is at one place only, no
event of an ended client is left, and its callback has run exactly once when it is
freed (`TimeInv`, `ClientsFreedInTime`).

*ServerLifecycleProofs*, for any workers, clients, script actions, commands and
settings. What the main thread will do next says what is up: `AtDuty` says
where it may be in a start, a reload, a failed start and a stop, `Order` what
each of its steps finds up and what it finds gone, `Below` that whoever uses a
part finds the parts it was built on, and `Generations` that no engine comes
without a command (so that a job's engine is one of finitely many). `Players`
and `JobsPlaced` tie clients and script actions to the engine they were made
for: what a worker executes is of the present engine, which needs that the
queue holds nothing older except blocks from before there was a `mem_pool`,
and that needs to know when the queue is empty. `LifeInv` is the conjunction
of these with `FaultWindows`, and `LifecycleSound` (`Inv`) and
`FaultsInWindows` follow from it. `ClientsHeard` (`NobodyForgotten`) is an
induction of its own on top: most steps leave a client where it is or move it
along (`HeardKept`); a pool that ends has no input task in its queue, or the
behaviour has ended with it, and only the stop lets a client go.

*TelnetStreamProofs*, for any writers, messages and capacities: `Exclusion` and
`Readable` from who holds the mutex, which form each write has chosen, and what
the peer expects; together `OutputIsSound` (`OutputSound`).

Its second part is the way in, however the network cuts the stream. What text a
sequence of bytes holds is a recursion over the sequence; `TextOfMore` and
`TextOfBoth` (the text of a sequence with one more byte, of two joined) come from
it by way of a least number that would not have it. `InputInv` looks at the
bytes that the task has read and not handled and those on the wire as one
sequence. `Labels` gives each of them the phase of the command in which the
peer sent it, and `Matches` says that the automaton, with its arguments and its
last byte, is in the phase of the first of them. `Accounted` says of the text
that what was typed is what was passed on, what the task has collected and what
it has read and not handled. These are `Followed`, which holds while the client
is there and no command was cut, came late or was too long; `Compressed` says
who has agreed when something is compressed. `ByteMeant` says of one byte what
the peer meant by it, and each action of the automaton has a lemma that uses it.
`StreamInv` is `InputInv` with the invariant of the way out and the types, and
`InputIsSound` (`InputSound`) follows.
The attempt to prove `Consent` and `SpinsLate` as they first stood failed for a
reason: with longer conversations than those of the run, arguments that are too
long can make the server believe that it may compress, and a cut command can
make it take plain bytes for compressed ones. Both properties now name these
quirks.

The assumptions are the named ASSUMEs of the modules: finite, disjoint sets of
threads, blocks, holders and users, `None` and `Null` different from everything
else, integer priorities, positive sizes, a second of at least one part, and no
delay of zero (the code treats that as none). `MessageAssumption` is about the
peer: what it says is either text without a byte 255 or a whole command, with no
byte 255 among the arguments, and the two messages that agree to compression are
said on their own.

Only model-checked: the liveness properties `BacklogExecuted`, `StopJoins`,
`Leaves`, `HandedOver`, `StopReturns`, `CommandsObeyed`, `WorkDone` and
`Returns`, which are out of the prover's reach. Every invariant, action property
and refinement that a passing run checks is a theorem as well.

## Not modelled

The components marked `not_modelled` in `PROJECT.json`: the lexers, text,
number, container and cryptography code have no behaviour over time, and the
vendored libraries (GMP, SQLite, the script engine's add-ons, by far most of the
lines under `src/`) are not this program's logic.
Within the modelled components: a failing `clock_gettime`;
`ActionScheduler::RemoveActor`, `prioq_initfromarray` and what belongs to it,
which nothing calls; failure of `pthread_cond_wait`, of `malloc` and of thread
creation; `MemoryPool`, which finds an AllocPool by size; the arithmetic of
`Server_ClockPlayer`, whose decision is a choice; a read that fails with an
error, other sub-negotiations than the one for MCCP3 beyond the bytes they take,
and zlib; in the store, the statements that create tables and columns, and the
conversion of values; in the editor, formatting, printing, help and `.i`.
Descriptor reuse, which ClientSession has, is not repeated in TelnetStream.

## Plan

Written: the core (ThreadPool with TaskService, ClientSession, ActionScheduler,
AllocPool with Allocator, PrioQ with PriorityQueue), what composes and surrounds
it (ServerLifecycle, ContextPool with ScriptActions, RefCounts), and the data
paths of a connection (ObjectStore with VersionStore, TelnetStream, LineEditor).

Left:

1. `MemoryPool`, and the statements that create tables.
2. An abstract session, in which the input of a client is a queue, refined by
   ClientSession in its orderly settings.
