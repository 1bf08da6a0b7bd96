------------------------ MODULE ActionSchedulerProofs ------------------------
(***************************************************************************)
(* Proofs of the safety properties of ActionScheduler, for any actors,     *)
(* actions, callers and delays.                                            *)
(***************************************************************************)
EXTENDS ActionScheduler, FiniteSetTheorems, TLAPS

IInv == TypeOK /\ Referenced /\ Control /\ QueuedActive /\ OnePlace

-----------------------------------------------------------------------------
(* Times.                                                                  *)

Time == Ts \cup {None}

\* None is not a timespec.
LEMMA NoneIsNoTs == None \notin Ts
BY NoneAssumption DEF Ts

\* Seconds can be added to a timespec.
LEMMA PlusType ==
  ASSUME NEW ts \in Ts, NEW n \in Int
  PROVE  Plus(ts, n) \in Ts /\ Plus(ts, n).s = ts.s + n /\ Plus(ts, n).ns = ts.ns
BY DEF Plus, Ts

\* A second later, a time is still a time, and none is still none.
LEMMA NextSecondType ==
  ASSUME NEW ts \in Time
  PROVE  NextSecond(ts) \in Time /\ (NextSecond(ts) = None <=> ts = None)
BY PlusType, NoneIsNoTs DEF NextSecond, Time

\* The minimum of the scan stays a time.
LEMMA MinimumType ==
  ASSUME minDelay \in Time, NEW ts \in Ts
  PROVE  Minimum(ts) \in Time
BY PlusType DEF Minimum, Time

-----------------------------------------------------------------------------
(* The inductive invariant.                                                *)

\* The initial states satisfy the invariant.
LEMMA InitIInv == Init => IInv
<1> SUFFICES ASSUME Init PROVE IInv
  OBVIOUS
<1> USE DEF Init
<1>1. TypeOK
  <2>1. nsec \in 0..(NS - 1) /\ cur \in Time /\ minDelay \in Time /\ wait \in Time
    BY DEF Time
  <2>2. due \in [Actions -> Time]
    BY Zenon DEF Time
  <2>5. queue \in [Actors -> SUBSET Actions]
    BY Zenon
  <2>3. refs \in [Actors -> 0..2]
    OBVIOUS
  <2>4. call \in [Callers -> [at : {"insert", "activate", "signal"},
                              actor : Actors, action : Actions] \cup {Idle}]
    BY Zenon
  <2> QED BY <2>1, <2>2, <2>3, <2>4, <2>5 DEF TypeOK, Time
<1>2. Referenced
  BY DEF Referenced, Bit
<1>3. Control /\ QueuedActive /\ OnePlace
  BY DEF Control, QueuedActive, OnePlace, Idle
<1> QED BY <1>1, <1>2, <1>3 DEF IInv

\* The clock disturbs nothing.
LEMMA TickKeeps ==
  ASSUME IInv, Tick
  PROVE  IInv'
<1> USE DEF IInv, Tick, clock, actors
<1>1. TypeOK'
  <2>1. nsec' \in 0..(NS - 1) /\ (pc = "scan" => nsec' = nsec + 1)
    BY TimeAssumption DEF TypeOK
  <2>2. due' \in [Actions -> Time]
    BY NextSecondType DEF TypeOK, Time
  <2>3. wait' \in Time /\ (wait' = None <=> wait = None)
    BY NextSecondType DEF TypeOK, Time
  <2>4. UNCHANGED <<active, held, todo, queue, refs, call, phase, pc, cur, minDelay, missed>>
    OBVIOUS
  <2>5. handed' \subseteq Actions
    OBVIOUS
  <2>6. (pc = "scan" => cur # None /\ cur.s = 0 /\ cur.ns <= nsec)'
    BY <2>1, <2>4 DEF TypeOK, Ts
  <2> QED BY <2>1, <2>2, <2>3, <2>4, <2>5, <2>6 DEF TypeOK, Time
<1>2. Referenced'
  BY DEF TypeOK, Referenced, Control, Idle, Bit
<1>3. Control'
  BY DEF TypeOK, Control, Idle
<1>4. QueuedActive'
  BY DEF TypeOK, Control, QueuedActive, Idle
<1>5. OnePlace'
  <2>1. \A x \in Actions : due'[x] = None <=> due[x] = None
    BY NextSecondType DEF TypeOK, Time
  <2> QED BY <2>1 DEF TypeOK, OnePlace, Idle
<1> QED BY <1>1, <1>2, <1>3, <1>4, <1>5

\* An actor is created.
LEMMA CreateKeeps ==
  ASSUME IInv, NEW a \in Actors, Create(a)
  PROVE  IInv'
<1> USE DEF IInv, Create, Unlocked, clock, actors
<1>1. TypeOK'
  BY DEF TypeOK, Referenced, Control, Ts, Idle, Bit
<1>2. Referenced'
  BY DEF TypeOK, Referenced, Control, Idle, Bit
<1>3. Control'
  BY DEF TypeOK, Control, Idle
<1>4. QueuedActive'
  BY DEF TypeOK, Control, QueuedActive, Idle
<1>5. OnePlace'
  BY DEF TypeOK, OnePlace, Idle
<1> QED BY <1>1, <1>2, <1>3, <1>4, <1>5

\* The scripts let go of an actor.
LEMMA LetGoKeeps ==
  ASSUME IInv, NEW a \in Actors, LetGo(a)
  PROVE  IInv'
<1> USE DEF IInv, LetGo, Destroy, clock, actors
<1>1. TypeOK'
  BY DEF TypeOK, Referenced, Control, Ts, Idle, Bit
<1>2. Referenced'
  BY DEF TypeOK, Referenced, Control, Idle, Bit
<1>3. Control'
  BY DEF TypeOK, Control, Idle
<1>4. QueuedActive'
  BY DEF TypeOK, Control, QueuedActive, Idle
<1>5. OnePlace'
  BY DEF TypeOK, OnePlace, Idle
<1> QED BY <1>1, <1>2, <1>3, <1>4, <1>5

\* An action goes straight to the pool.
LEMMA QueueNowKeeps ==
  ASSUME IInv, NEW c \in Callers, NEW a \in Actors, NEW x \in Actions, QueueNow(c, a, x)
  PROVE  IInv'
<1> USE DEF IInv, QueueNow, clock, actors
<1>1. TypeOK'
  BY DEF TypeOK, Referenced, Control, Ts, Idle, Bit
<1>2. Referenced'
  BY DEF TypeOK, Referenced, Control, Idle, Bit
<1>3. Control'
  BY DEF TypeOK, Control, Idle
<1>4. QueuedActive'
  BY DEF TypeOK, Control, QueuedActive, Idle
<1>5. OnePlace'
  BY DEF TypeOK, OnePlace, Idle
<1> QED BY <1>1, <1>2, <1>3, <1>4, <1>5

\* A caller begins to queue an action.
LEMMA QueueScriptActionKeeps ==
  ASSUME IInv, NEW c \in Callers, NEW a \in Actors, NEW x \in Actions, NEW d \in Delays,
         QueueScriptAction(c, a, x, d)
  PROVE  IInv'
<1> USE DEF IInv, QueueScriptAction, clock, actors
<1>1. TypeOK'
  <2>1. [s |-> d[1], ns |-> nsec + d[2]] \in Ts
    BY TimeAssumption DEF TypeOK, Ts
  <2>2. due' \in [Actions -> Ts \cup {None}]
    BY <2>1 DEF TypeOK
  <2>3. call' \in [Callers -> [at : {"insert", "activate", "signal"},
                               actor : Actors, action : Actions] \cup {Idle}]
    BY DEF TypeOK
  <2> QED BY <2>2, <2>3 DEF TypeOK
<1>2. Referenced'
  BY DEF TypeOK, Referenced, Control, Idle, Bit
<1>3. Control'
  BY DEF TypeOK, Control, Idle
<1>4. QueuedActive'
  BY DEF TypeOK, Control, QueuedActive, Idle
<1>5. OnePlace'
  <2>1. [s |-> d[1], ns |-> nsec + d[2]] # None
    BY TimeAssumption, NoneIsNoTs DEF TypeOK, Ts
  <2>2. due'[x] # None /\ \A y \in Actions : y # x => due'[y] = due[y]
    BY <2>1 DEF TypeOK
  <2>3. \A b \in Actors : x \notin queue[b]
    BY DEF OnePlace
  <2>4. \A e \in Callers : call[e].at = "insert" => e # c /\ call[e].action # x
    BY DEF OnePlace, Idle
  <2>5. /\ call'[c].at = "insert" /\ call'[c].action = x
        /\ \A e \in Callers \ {c} : call'[e] = call[e]
    BY DEF TypeOK
  <2>6. \A e \in Callers : call[e].at = "insert" => call[e].action \in Actions
    BY DEF TypeOK, Idle
  <2>7. (\A b \in Actors : \A y \in queue[b] : due[y] # None)'
    BY <2>2, <2>3 DEF OnePlace, TypeOK
  <2>8. (\A b, e \in Actors : b # e => queue[b] \cap queue[e] = {})'
    BY DEF OnePlace
  <2>9. ASSUME NEW e \in Callers, call'[e].at = "insert"
        PROVE  /\ due'[call'[e].action] # None
               /\ \A b \in Actors : call'[e].action \notin queue[b]
               /\ \A f \in Callers \ {e} :
                    call'[f].at = "insert" => call'[f].action # call'[e].action
    BY <2>2, <2>3, <2>4, <2>5, <2>6, <2>9 DEF OnePlace
  <2> QED BY <2>7, <2>8, <2>9 DEF OnePlace
<1> QED BY <1>1, <1>2, <1>3, <1>4, <1>5

\* An action gets into the queue.
LEMMA InsertKeeps ==
  ASSUME IInv, NEW c \in Callers, Insert(c)
  PROVE  IInv'
<1> USE DEF IInv, Insert, clock, actors
<1>1. TypeOK'
  BY DEF TypeOK, Referenced, Control, Ts, Idle, Bit
<1>2. Referenced'
  BY DEF TypeOK, Referenced, Control, Idle, Bit
<1>3. Control'
  BY DEF TypeOK, Control, Idle
<1>4. QueuedActive'
  BY DEF TypeOK, Control, QueuedActive, Idle
<1>5. OnePlace'
  BY DEF TypeOK, OnePlace, Idle
<1> QED BY <1>1, <1>2, <1>3, <1>4, <1>5

\* An actor becomes active.
LEMMA AddActiveActorKeeps ==
  ASSUME IInv, NEW c \in Callers, AddActiveActor(c)
  PROVE  IInv'
<1> USE DEF IInv, AddActiveActor, Unlocked, clock, actors
<1>1. TypeOK'
  BY DEF TypeOK, Referenced, Control, Ts, Idle, Bit
<1>2. Referenced'
  BY DEF TypeOK, Referenced, Control, Idle, Bit
<1>3. Control'
  BY DEF TypeOK, Control, Idle
<1>4. QueuedActive'
  BY DEF TypeOK, Control, QueuedActive, Idle
<1>5. OnePlace'
  BY DEF TypeOK, OnePlace, Idle
<1> QED BY <1>1, <1>2, <1>3, <1>4, <1>5

\* A call ends with its signal.
LEMMA SignalKeeps ==
  ASSUME IInv, NEW c \in Callers, Signal(c)
  PROVE  IInv'
<1> USE DEF IInv, Signal, Notify, clock, actors
<1>1. TypeOK'
  BY DEF TypeOK, Referenced, Control, Ts, Idle, Bit
<1>2. Referenced'
  BY DEF TypeOK, Referenced, Control, Idle, Bit
<1>3. Control'
  BY DEF TypeOK, Control, Idle
<1>4. QueuedActive'
  BY DEF TypeOK, Control, QueuedActive, Idle
<1>5. OnePlace'
  BY DEF TypeOK, OnePlace, Idle
<1> QED BY <1>1, <1>2, <1>3, <1>4, <1>5

\* A scan begins.
LEMMA BeginScanKeeps ==
  ASSUME IInv, BeginScan
  PROVE  IInv'
<1> USE DEF IInv, BeginScan, Running, clock, actors
<1>1. TypeOK'
  <2>1. Now \in Ts /\ Now.s = 0 /\ Now.ns = nsec
    BY TimeAssumption DEF TypeOK, Now, Ts
  <2>2. cur' = Now /\ cur' # None
    BY <2>1, NoneIsNoTs
  <2>3. cur'.ns <= nsec'
    BY <2>1, <2>2, TimeAssumption DEF TypeOK
  <2> QED BY <2>1, <2>2, <2>3 DEF TypeOK
<1>2. Referenced'
  BY DEF TypeOK, Referenced, Control, Idle, Bit
<1>3. Control'
  BY DEF TypeOK, Control, Idle
<1>4. QueuedActive'
  BY DEF TypeOK, Control, QueuedActive, Idle
<1>5. OnePlace'
  BY DEF TypeOK, OnePlace, Idle
<1> QED BY <1>1, <1>2, <1>3, <1>4, <1>5

\* The scan passes an actor.
LEMMA ScanActorKeeps ==
  ASSUME IInv, NEW a \in Actors, ScanActor(a)
  PROVE  IInv'
<1> USE DEF IInv, ScanActor, Leaves, Released, Ahead, Rest, clock, actors
<1>1. TypeOK'
  <2>1. Ready(a) \subseteq queue[a] /\ queue[a] \subseteq Actions
    BY DEF Ready, TypeOK
  <2>2. \A x \in queue[a] : due[x] \in Ts
    BY DEF TypeOK, OnePlace
  <2>3. /\ handed' \subseteq Actions
        /\ queue' \in [Actors -> SUBSET Actions]
        /\ due' \in [Actions -> Ts \cup {None}]
        /\ todo' \subseteq Actors /\ active' \subseteq Actors
    BY <2>1 DEF TypeOK
  <2>4. refs' \in [Actors -> 0..2]
    BY DEF TypeOK, Referenced, Control, Bit
  <2>5. minDelay' \in Ts \cup {None}
    BY <2>1, <2>2, MinimumType DEF TypeOK, Time
  <2> QED BY <2>3, <2>4, <2>5 DEF TypeOK
<1>2. Referenced'
  BY DEF TypeOK, Referenced, Control, Idle, Bit
<1>3. Control'
  BY DEF TypeOK, Control, Idle
<1>4. QueuedActive'
  BY DEF TypeOK, Control, QueuedActive, Idle
<1>5. OnePlace'
  <2>1. Ready(a) \subseteq queue[a] /\ queue[a] \subseteq Actions
    BY DEF Ready, TypeOK
  <2>2. /\ \A x \in Ready(a) : due'[x] = None
        /\ \A x \in Actions \ Ready(a) : due'[x] = due[x]
    BY <2>1
  <2>3. /\ queue'[a] = queue[a] \ Ready(a)
        /\ \A b \in Actors \ {a} : queue'[b] = queue[b]
    BY DEF TypeOK
  <2>4. \A b \in Actors \ {a} : queue[b] \subseteq Actions /\ queue[b] \cap Ready(a) = {}
    BY <2>1 DEF OnePlace, TypeOK
  <2>5. \A c \in Callers : call[c].at = "insert" => call[c].action \in Actions \ Ready(a)
    BY <2>1 DEF OnePlace, TypeOK, Idle
  <2>6. (\A b \in Actors : \A x \in queue[b] : due[x] # None)'
    BY <2>1, <2>2, <2>3, <2>4 DEF OnePlace
  <2>7. (\A b, c \in Actors : b # c => queue[b] \cap queue[c] = {})'
    BY <2>3 DEF OnePlace
  <2>8. (\A c \in Callers : call[c].at = "insert" => due[call[c].action] # None)'
    BY <2>2, <2>5 DEF OnePlace
  <2>9. (\A c \in Callers : call[c].at = "insert" =>
            /\ \A b \in Actors : call[c].action \notin queue[b]
            /\ \A d \in Callers \ {c} : call[d].at = "insert" => call[d].action # call[c].action)'
    BY <2>3 DEF OnePlace
  <2> QED BY <2>6, <2>7, <2>8, <2>9 DEF OnePlace
<1> QED BY <1>1, <1>2, <1>3, <1>4, <1>5

\* A scan ends.
LEMMA EndScanKeeps ==
  ASSUME IInv, EndScan
  PROVE  IInv'
<1> USE DEF IInv, EndScan, clock, actors
<1>1. TypeOK'
  <2>1. cur \in Ts /\ minDelay \in Time
    BY DEF TypeOK, Time
  <2>2. WaitTs \in Ts
    BY <2>1, PlusType, TimeAssumption DEF WaitTs, IsTsNonZero, Time
  <2> QED BY <2>2, NoneIsNoTs DEF TypeOK
<1>2. Referenced'
  BY DEF TypeOK, Referenced, Control, Idle, Bit
<1>3. Control'
  BY DEF TypeOK, Control, Idle
<1>4. QueuedActive'
  BY DEF TypeOK, Control, QueuedActive, Idle
<1>5. OnePlace'
  BY DEF TypeOK, OnePlace, Idle
<1> QED BY <1>1, <1>2, <1>3, <1>4, <1>5

\* The thread falls asleep, or not.
LEMMA TimedWaitKeeps ==
  ASSUME IInv, TimedWait
  PROVE  IInv'
<1> USE DEF IInv, TimedWait, clock, actors
<1>1. TypeOK'
  BY DEF TypeOK, Referenced, Control, Ts, Idle, Bit
<1>2. Referenced'
  BY DEF TypeOK, Referenced, Control, Idle, Bit
<1>3. Control'
  BY DEF TypeOK, Control, Idle
<1>4. QueuedActive'
  BY DEF TypeOK, Control, QueuedActive, Idle
<1>5. OnePlace'
  BY DEF TypeOK, OnePlace, Idle
<1> QED BY <1>1, <1>2, <1>3, <1>4, <1>5

\* The thread wakes up.
LEMMA WakeUpKeeps ==
  ASSUME IInv, WakeUp
  PROVE  IInv'
<1> USE DEF IInv, WakeUp, clock, actors
<1>1. TypeOK'
  BY DEF TypeOK, Referenced, Control, Ts, Idle, Bit
<1>2. Referenced'
  BY DEF TypeOK, Referenced, Control, Idle, Bit
<1>3. Control'
  BY DEF TypeOK, Control, Idle
<1>4. QueuedActive'
  BY DEF TypeOK, Control, QueuedActive, Idle
<1>5. OnePlace'
  BY DEF TypeOK, OnePlace, Idle
<1> QED BY <1>1, <1>2, <1>3, <1>4, <1>5

\* The thread ends.
LEMMA ExitKeeps ==
  ASSUME IInv, Exit
  PROVE  IInv'
<1> USE DEF IInv, Exit, Destroy, Running, clock, actors
<1>1. TypeOK'
  BY DEF TypeOK, Referenced, Control, Ts, Idle, Bit
<1>2. Referenced'
  BY DEF TypeOK, Referenced, Control, Idle, Bit
<1>3. Control'
  BY DEF TypeOK, Control, Idle
<1>4. QueuedActive'
  BY DEF TypeOK, Control, QueuedActive, Idle
<1>5. OnePlace'
  BY DEF TypeOK, OnePlace, Idle
<1> QED BY <1>1, <1>2, <1>3, <1>4, <1>5

\* StopThread clears the flag.
LEMMA StopFlagKeeps ==
  ASSUME IInv, StopFlag
  PROVE  IInv'
<1> USE DEF IInv, StopFlag, clock, actors
<1>1. TypeOK'
  BY DEF TypeOK, Referenced, Control, Ts, Idle, Bit
<1>2. Referenced'
  BY DEF TypeOK, Referenced, Control, Idle, Bit
<1>3. Control'
  BY DEF TypeOK, Control, Idle
<1>4. QueuedActive'
  BY DEF TypeOK, Control, QueuedActive, Idle
<1>5. OnePlace'
  BY DEF TypeOK, OnePlace, Idle
<1> QED BY <1>1, <1>2, <1>3, <1>4, <1>5

\* StopThread wakes the thread.
LEMMA BroadcastKeeps ==
  ASSUME IInv, Broadcast
  PROVE  IInv'
<1> USE DEF IInv, Broadcast, Notify, clock, actors
<1>1. TypeOK'
  BY DEF TypeOK, Referenced, Control, Ts, Idle, Bit
<1>2. Referenced'
  BY DEF TypeOK, Referenced, Control, Idle, Bit
<1>3. Control'
  BY DEF TypeOK, Control, Idle
<1>4. QueuedActive'
  BY DEF TypeOK, Control, QueuedActive, Idle
<1>5. OnePlace'
  BY DEF TypeOK, OnePlace, Idle
<1> QED BY <1>1, <1>2, <1>3, <1>4, <1>5

\* StopThread joins the thread.
LEMMA JoinKeeps ==
  ASSUME IInv, Join
  PROVE  IInv'
<1> USE DEF IInv, Join, clock, actors
<1>1. TypeOK'
  BY DEF TypeOK, Referenced, Control, Ts, Idle, Bit
<1>2. Referenced'
  BY DEF TypeOK, Referenced, Control, Idle, Bit
<1>3. Control'
  BY DEF TypeOK, Control, Idle
<1>4. QueuedActive'
  BY DEF TypeOK, Control, QueuedActive, Idle
<1>5. OnePlace'
  BY DEF TypeOK, OnePlace, Idle
<1> QED BY <1>1, <1>2, <1>3, <1>4, <1>5

\* Every step preserves the invariant.
LEMMA StepIInv == IInv /\ [Next]_vars => IInv'
<1> SUFFICES ASSUME IInv, [Next]_vars PROVE IInv'
  OBVIOUS
<1>1. CASE Tick
  BY <1>1, TickKeeps
<1>2. CASE \E a \in Actors : Create(a)
  BY <1>2, CreateKeeps
<1>3. CASE \E a \in Actors : LetGo(a)
  BY <1>3, LetGoKeeps
<1>4. CASE \E c \in Callers, a \in Actors, x \in Actions : QueueNow(c, a, x)
  BY <1>4, QueueNowKeeps
<1>5. CASE \E c \in Callers, a \in Actors, x \in Actions, d \in Delays :
            QueueScriptAction(c, a, x, d)
  BY <1>5, QueueScriptActionKeeps
<1>6. CASE \E c \in Callers : Insert(c)
  BY <1>6, InsertKeeps
<1>7. CASE \E c \in Callers : AddActiveActor(c)
  BY <1>7, AddActiveActorKeeps
<1>8. CASE \E c \in Callers : Signal(c)
  BY <1>8, SignalKeeps
<1>9. CASE BeginScan
  BY <1>9, BeginScanKeeps
<1>10. CASE \E a \in Actors : ScanActor(a)
  BY <1>10, ScanActorKeeps
<1>11. CASE EndScan
  BY <1>11, EndScanKeeps
<1>12. CASE TimedWait
  BY <1>12, TimedWaitKeeps
<1>13. CASE WakeUp
  BY <1>13, WakeUpKeeps
<1>14. CASE Exit
  BY <1>14, ExitKeeps
<1>15. CASE StopFlag
  BY <1>15, StopFlagKeeps
<1>16. CASE Broadcast
  BY <1>16, BroadcastKeeps
<1>17. CASE Join
  BY <1>17, JoinKeeps
<1>18. CASE UNCHANGED vars
  BY <1>18 DEF IInv, TypeOK, Referenced, Control, QueuedActive, OnePlace, vars, clock, actors
<1> QED BY <1>1, <1>2, <1>3, <1>4, <1>5, <1>6, <1>7, <1>8, <1>9,
          <1>10, <1>11, <1>12, <1>13, <1>14, <1>15, <1>16, <1>17, <1>18
     DEF Next, Caller, Scheduler, TimeOut

-----------------------------------------------------------------------------
(* Handing over.                                                           *)

\* What the scan takes for ready has been reached by the clock: the time of the
\* scan is not after the clock's, and a time whose nanoseconds are less than a
\* second, and whose seconds are not after the clock's second, is in the past
\* or in this second.
LEMMA ReadyReached ==
  ASSUME IInv, pc = "scan", NEW a \in Actors, NEW x \in Ready(a), due[x].ns < NS
  PROVE  Reached(due[x])
<1>1. /\ cur.s = 0 /\ cur \in Ts /\ cur.ns <= nsec
      /\ nsec \in Nat /\ NS \in Nat \ {0}
  BY NoneIsNoTs, TimeAssumption DEF IInv, TypeOK
<1>2. due[x] \in Ts
  BY DEF IInv, TypeOK, OnePlace, Ready
<1> DEFINE s == due[x].s  n == due[x].ns
<1>3. s \in Int /\ n \in Nat /\ n < NS
  BY <1>2 DEF Ts
<1>4. s < 0 \/ (s = 0 /\ n <= cur.ns)
  BY <1>1, <1>3 DEF Ready, Later, Ts
<1>5. CASE s = 0
  BY <1>1, <1>3, <1>4, <1>5 DEF Reached, Ts
<1>6. CASE s < 0
  <2>1. \A k \in Int : k <= -1 => k * NS <= -NS
    BY <1>1
  <2>2. s * NS <= -NS
    BY <1>3, <1>6, <2>1
  <2>3. s * NS \in Int
    BY <1>1, <1>3
  <2> QED BY <1>1, <1>3, <2>2, <2>3 DEF Reached
<1> QED BY <1>4, <1>5, <1>6

\* No step hands over an action that is not due.
LEMMA StepNotEarly ==
  ASSUME IInv, [Next]_vars, NEW x \in handed', ~UNCHANGED vars,
         due[x] # None, due[x].ns < NS
  PROVE  Reached(due[x])
<1>1. CASE \E a \in Actors : ScanActor(a)
  BY <1>1, ReadyReached DEF ScanActor
<1>2. CASE \E c \in Callers, a \in Actors, y \in Actions : QueueNow(c, a, y)
  BY <1>2 DEF QueueNow
<1>3. CASE handed' = {}
  BY <1>3
<1> QED BY <1>1, <1>2, <1>3 DEF Next, Caller, Scheduler, Tick, Create, LetGo,
  QueueScriptAction, Insert, AddActiveActor, Signal, BeginScan, EndScan,
  TimedWait, TimeOut, WakeUp, Exit, StopFlag, Broadcast, Join

-----------------------------------------------------------------------------
(* The theorems.                                                           *)

\* The invariant holds in every behaviour.
THEOREM Invariance == Spec => []IInv
<1>1. IInv /\ [Next]_vars => IInv'
  BY StepIInv
<1> QED BY InitIInv, <1>1, PTL DEF Spec

\* Every variable keeps its type.
THEOREM TypeCorrect == Spec => []TypeOK
<1>1. IInv => TypeOK
  BY DEF IInv
<1> QED BY Invariance, <1>1, PTL

\* The count of an actor agrees with who refers to it: it lives as long as the
\* scheduler or a script can reach it.
THEOREM ReferencesCounted == Spec => []Referenced
<1>1. IInv => Referenced
  BY DEF IInv
<1> QED BY Invariance, <1>1, PTL

\* No queued action is left behind: its actor is active, or about to be.
THEOREM QueuedAreActive == Spec => []QueuedActive
<1>1. IInv => QueuedActive
  BY DEF IInv
<1> QED BY Invariance, <1>1, PTL

\* An action is never queued in two places.
THEOREM QueuedOnce == Spec => []OnePlace
<1>1. IInv => OnePlace
  BY DEF IInv
<1> QED BY Invariance, <1>1, PTL

\* The scan walks over actors that are in the set, and nobody queues an action
\* for an actor that is gone or for a scheduler that is.
THEOREM ScanSafe == Spec => []Control
<1>1. IInv => Control
  BY DEF IInv
<1> QED BY Invariance, <1>1, PTL

\* No action whose nanoseconds fit into a second is handed to the thread pool
\* before the clock has reached the time it is due.
THEOREM NeverEarly == Spec => NotEarly
<1>1. IInv /\ [Next]_vars =>
        [\A x \in handed' : due[x] # None /\ due[x].ns < NS => Reached(due[x])]_vars
  BY StepNotEarly
<1> QED BY Invariance, <1>1, PTL DEF Spec, NotEarly

\* Together: what is queued is in one place, of an actor that lives and is active
\* (nativeactor.cpp:114-148, action_scheduler.cpp:94-202).
THEOREM SchedulerSound == Spec => []Inv
<1>1. TypeOK /\ Referenced /\ Control /\ QueuedActive /\ OnePlace => Inv
  BY DEF Inv
<1> QED
  BY TypeCorrect, ReferencesCounted, ScanSafe, QueuedAreActive, QueuedOnce, <1>1, PTL

-----------------------------------------------------------------------------
(* Waking up in time.                                                      *)

\* No time is further in the past than the clock counts.
NotLong == \A x \in Actions : due[x] # None => due[x].s >= -Past

\* The time ts is early enough, with n seconds of delay, for every action of the
\* actor, unless an earlier one of it is due on a whole second.
InTime(ts, y, n) == IsTsNonZero(ts) /\ ~Later(ts, Plus(due[y], n))

Covered(a, ts, n) ==
  \A y \in queue[a] : due[y].ns # 0 =>
    \/ \E x \in queue[a] : due[x].ns = 0 /\ Later(due[y], due[x])
    \/ InTime(ts, y, n)

\* A signal came, or is about to come for the actor.
Excused(a) ==
  missed \/ \E c \in Callers : call[c].at \in {"activate", "signal"} /\ call[c].actor = a

\* The minimum covers the actors behind the scan, with a second of delay for each:
\* a later actor may replace it by a time that is up to a second after it.
ScanCovers ==
  pc = "scan" =>
    \A a \in Actors \ todo : Excused(a) \/ Covered(a, minDelay, Cardinality(Actors \ todo))

WaitCovers ==
  pc \in {"wait", "asleep"} =>
    \A a \in Actors : Excused(a) \/
      \A y \in queue[a] : due[y].ns # 0 =>
        \/ \E x \in queue[a] : due[x].ns = 0 /\ Later(due[y], due[x])
        \/ ~Later(wait, Plus(due[y], Cardinality(Actors)))

CoverInv == IInv /\ NotLong /\ ScanCovers /\ WaitCovers

\* The fields of a time.
LEMMA Fields ==
  ASSUME NEW ts \in Ts
  PROVE  ts.s \in Int /\ ts.ns \in Nat /\ ts # None
BY NoneIsNoTs DEF Ts

\* What is queued has a time, and it is at most a second in the past.
LEMMA QueuedTimes ==
  ASSUME IInv, NotLong, NEW a \in Actors, NEW y \in queue[a]
  PROVE  y \in Actions /\ due[y] \in Ts /\ due[y].s >= -Past
BY DEF IInv, TypeOK, OnePlace, NotLong

\* What a second does to a time.
LEMMA NextSecondOf ==
  ASSUME NEW ts \in Ts
  PROVE  /\ NextSecond(ts) \in Ts /\ NextSecond(ts).ns = ts.ns
         /\ NextSecond(ts).s = (IF ts.s = -Past THEN ts.s ELSE ts.s - 1)
<1>1. ts.s \in Int /\ ts # None /\ -1 \in Int /\ ts.s + (-1) = ts.s - 1
  BY Fields
<1>2. CASE ts.s = -Past
  BY <1>1, <1>2 DEF NextSecond
<1>3. CASE ts.s # -Past
  <2>1. NextSecond(ts) = Plus(ts, -1)
    BY <1>1, <1>3 DEF NextSecond
  <2> QED BY <1>1, <1>3, <2>1, PlusType
<1> QED BY <1>2, <1>3

\* A second later, times that are at most a second in the past are in the same
\* order, if the later one has nanoseconds and the earlier one none.
LEMMA OrderKept ==
  ASSUME NEW x \in Ts, NEW y \in Ts, x.s >= -Past, y.s >= -Past, x.ns = 0, y.ns # 0, Later(y, x)
  PROVE  Later(NextSecond(y), NextSecond(x))
<1>1. x.s \in Int /\ y.s \in Int /\ y.ns \in Nat /\ x # None /\ y # None
  BY Fields
<1>2. x.s <= y.s
  BY <1>1 DEF Later
<1>3. /\ NextSecond(x).s = (IF x.s = -Past THEN x.s ELSE x.s - 1) /\ NextSecond(x).ns = 0
      /\ NextSecond(y).s = (IF y.s = -Past THEN y.s ELSE y.s - 1) /\ NextSecond(y).ns = y.ns
  BY NextSecondOf
<1>4. NextSecond(x).s <= NextSecond(y).s
  BY <1>1, <1>2, <1>3 DEF Past
<1>5. NextSecond(x).s \in Int /\ NextSecond(y).s \in Int /\ 0 < y.ns
  BY <1>1, <1>3 DEF Past
<1> QED BY <1>3, <1>4, <1>5 DEF Later

\* A second later, a time is early enough still, if there is a delay.
LEMMA BoundKept ==
  ASSUME NEW w \in Ts, NEW y \in Ts, NEW n \in Nat \ {0}, y.s >= -Past,
         ~Later(w, Plus(y, n))
  PROVE  ~Later(NextSecond(w), Plus(NextSecond(y), n))
<1>1. /\ w.s \in Int /\ y.s \in Int /\ w.ns \in Nat /\ y.ns \in Nat /\ w # None /\ y # None
  BY Fields
<1>2. Plus(y, n).s = y.s + n /\ Plus(y, n).ns = y.ns
  BY PlusType
<1>3. /\ NextSecond(w).s = (IF w.s = -Past THEN w.s ELSE w.s - 1) /\ NextSecond(w).ns = w.ns
      /\ NextSecond(y).s = (IF y.s = -Past THEN y.s ELSE y.s - 1) /\ NextSecond(y).ns = y.ns
  BY NextSecondOf
<1>4. NextSecond(y) \in Ts
  BY NextSecondOf
<1>5. Plus(NextSecond(y), n).s = NextSecond(y).s + n /\ Plus(NextSecond(y), n).ns = y.ns
  BY <1>3, <1>4, PlusType
<1>6. w.s < y.s + n \/ (w.s = y.s + n /\ w.ns <= y.ns)
  BY <1>1, <1>2 DEF Later
<1>7. CASE y.s = -Past
  BY <1>1, <1>3, <1>5, <1>6, <1>7 DEF Later, Past
<1>8. CASE y.s # -Past /\ w.s = -Past
  BY <1>1, <1>3, <1>5, <1>8 DEF Later, Past
<1>9. CASE y.s # -Past /\ w.s # -Past
  BY <1>1, <1>3, <1>5, <1>6, <1>9 DEF Later, Past
<1> QED BY <1>7, <1>8, <1>9

\* There are finitely many actors.
LEMMA Counts ==
  /\ \A S \in SUBSET Actors : IsFiniteSet(S) /\ Cardinality(S) \in Nat
  /\ \A S \in SUBSET Actors : \A a \in Actors \ S :
       Cardinality(S \cup {a}) = Cardinality(S) + 1
  /\ \A a \in Actors : Cardinality(Actors) \in Nat \ {0}
<1>1. \A S \in SUBSET Actors : IsFiniteSet(S) /\ Cardinality(S) \in Nat
  BY ActorAssumption, FS_Subset, FS_CardinalityType
<1>2. \A S \in SUBSET Actors : \A a \in Actors \ S :
        Cardinality(S \cup {a}) = Cardinality(S) + 1
  BY <1>1, FS_AddElement
<1>3. ASSUME NEW a \in Actors
      PROVE  Cardinality(Actors) \in Nat \ {0}
  <2>1. IsFiniteSet(Actors) /\ Actors # {}
    BY <1>3, ActorAssumption
  <2>2. Cardinality(Actors) # 0 /\ Cardinality(Actors) \in Nat
    BY <2>1, FS_EmptySet, FS_CardinalityType
  <2> QED BY <2>2
<1> QED BY <1>1, <1>2, <1>3

\* No step makes a time longer past.
LEMMA StepNotLong == IInv /\ NotLong /\ [Next]_vars => NotLong'
<1> SUFFICES ASSUME IInv, NotLong, [Next]_vars PROVE NotLong'
  OBVIOUS
<1>1. CASE Tick
  <2>1. ASSUME NEW x \in Actions, due'[x] # None
        PROVE  due'[x].s >= -Past
    <3>1. due'[x] = due[x] \/ due'[x] = NextSecond(due[x])
      BY <1>1 DEF Tick
    <3>2. due[x] # None
      BY <2>1, <3>1 DEF NextSecond
    <3>3. due[x] \in Ts /\ due[x].s >= -Past
      BY <3>2 DEF IInv, TypeOK, NotLong
    <3>4. due[x].s \in Int /\ NextSecond(due[x]).s >= -Past
      BY <3>3, Fields, NextSecondOf DEF Past
    <3> QED BY <3>1, <3>3, <3>4
  <2> QED BY <2>1 DEF NotLong
<1>2. CASE \E c \in Callers, a \in Actors, x \in Actions, d \in Delays :
             QueueScriptAction(c, a, x, d)
  <2>1. PICK x \in Actions, d \in Delays :
          due' = [due EXCEPT ![x] = [s |-> d[1], ns |-> nsec + d[2]]]
    BY <1>2 DEF QueueScriptAction
  <2>2. due'[x] = [s |-> d[1], ns |-> nsec + d[2]] /\ \A y \in Actions \ {x} : due'[y] = due[y]
    BY <2>1 DEF IInv, TypeOK
  <2>3. due'[x].s >= -Past
    BY <2>2, TimeAssumption DEF Past
  <2> QED BY <2>2, <2>3 DEF NotLong
<1>3. CASE \A x \in Actions : due'[x] = due[x] \/ due'[x] = None
  BY <1>3 DEF NotLong
<1>4. CASE UNCHANGED due
  BY <1>4 DEF NotLong
<1>5. ASSUME NEW a \in Actors, LetGo(a) \/ ScanActor(a)
      PROVE  NotLong'
  BY <1>3, <1>5 DEF LetGo, Destroy, ScanActor
<1>6. CASE Exit
  BY <1>3, <1>6 DEF Exit, Destroy
<1>7. CASE UNCHANGED vars
  BY <1>4, <1>7 DEF vars, clock
<1>8. ASSUME NEW a \in Actors, Create(a)
      PROVE  NotLong'
  BY <1>4, <1>8 DEF Create, clock
<1>9. ASSUME NEW c \in Callers, NEW a \in Actors, NEW x \in Actions, QueueNow(c, a, x)
      PROVE  NotLong'
  BY <1>4, <1>9 DEF QueueNow, clock
<1>10. ASSUME NEW c \in Callers, Caller(c)
       PROVE  NotLong'
  BY <1>4, <1>10 DEF Caller, Insert, AddActiveActor, Signal, clock
<1>11. CASE BeginScan \/ EndScan \/ TimedWait \/ WakeUp
  BY <1>4, <1>11 DEF BeginScan, EndScan, TimedWait, WakeUp
<1>12. CASE StopFlag \/ Broadcast \/ Join
  BY <1>4, <1>12 DEF StopFlag, Broadcast, Join, clock
<1> QED BY <1>1, <1>2, <1>5, <1>6, <1>7, <1>8, <1>9, <1>10, <1>11, <1>12
     DEF Next, Scheduler, TimeOut

\* The clock keeps what is covered: in a scan it stays within the second.
LEMMA TickCovers ==
  ASSUME CoverInv, Tick
  PROVE  ScanCovers' /\ WaitCovers'
<1> USE DEF CoverInv
<1>1. UNCHANGED <<queue, todo, minDelay, pc, missed, call>>
  BY DEF Tick, actors
<1>2. \A a \in Actors : Excused(a)' <=> Excused(a)
  BY <1>1 DEF Excused
<1>3. ScanCovers'
  <2>1. SUFFICES ASSUME pc = "scan" PROVE ScanCovers'
    BY <1>1 DEF ScanCovers
  <2>2. UNCHANGED due
    BY <2>1, TimeAssumption DEF Tick, IInv, TypeOK
  <2> QED BY <1>1, <1>2, <2>2 DEF ScanCovers, Covered, InTime
<1>4. WaitCovers'
  <2>1. SUFFICES ASSUME pc \in {"wait", "asleep"}, NEW a \in Actors, ~Excused(a)',
                        NEW y \in queue[a], due'[y].ns # 0,
                        ~\E x \in queue[a] : due'[x].ns = 0 /\ Later(due'[y], due'[x])
                 PROVE  ~Later(wait', Plus(due'[y], Cardinality(Actors)))
    BY <1>1 DEF WaitCovers
  <2>2. /\ \A x \in queue[a] : x \in Actions /\ due[x] \in Ts /\ due[x].s >= -Past
        /\ wait \in Ts /\ Cardinality(Actors) \in Nat \ {0}
    BY <2>1, QueuedTimes, Counts DEF IInv, TypeOK
  <2>3. CASE nsec = NS - 1
    <3>1. wait' = NextSecond(wait) /\ \A x \in queue[a] : due'[x] = NextSecond(due[x])
      BY <2>2, <2>3 DEF Tick
    <3>2. due[y].ns # 0
      BY <2>1, <2>2, <3>1, NextSecondOf
    <3>3. ~\E x \in queue[a] : due[x].ns = 0 /\ Later(due[y], due[x])
      BY <2>1, <2>2, <3>1, <3>2, OrderKept, NextSecondOf
    <3>4. ~Later(wait, Plus(due[y], Cardinality(Actors)))
      BY <1>2, <2>1, <3>2, <3>3 DEF WaitCovers
    <3> QED BY <2>2, <3>1, <3>4, BoundKept
  <2>4. CASE nsec # NS - 1
    BY <1>2, <2>1, <2>4 DEF Tick, WaitCovers
  <2> QED BY <2>3, <2>4
<1> QED BY <1>3, <1>4

\* A step that leaves the thread, the calls and its times alone, and of each queue
\* either everything, with its times, or nothing, keeps what is covered.
LEMMA AloneCovers ==
  ASSUME CoverInv, UNCHANGED <<todo, minDelay, wait, pc, missed>>,
         \A a \in Actors : Excused(a) => Excused(a)',
         \A a \in Actors : \/ queue'[a] = {}
                           \/ queue'[a] = queue[a] /\ \A y \in queue[a] : due'[y] = due[y]
                           \/ Excused(a)'
  PROVE  ScanCovers' /\ WaitCovers'
<1> USE DEF CoverInv
<1>1. ASSUME NEW a \in Actors, NEW n, Excused(a) \/ Covered(a, minDelay, n)
      PROVE  Excused(a)' \/ Covered(a, minDelay, n)'
  BY <1>1, Zenon DEF Covered, InTime
<1>2. ScanCovers'
  BY <1>1 DEF ScanCovers
<1>3. WaitCovers'
  <2>1. SUFFICES ASSUME pc \in {"wait", "asleep"}, NEW a \in Actors, ~Excused(a)',
                        NEW y \in queue'[a], due'[y].ns # 0,
                        ~\E x \in queue'[a] : due'[x].ns = 0 /\ Later(due'[y], due'[x])
                 PROVE  ~Later(wait, Plus(due'[y], Cardinality(Actors)))
    BY DEF WaitCovers
  <2>2. ~Excused(a)
    BY <2>1
  <2>3. queue'[a] = queue[a] /\ \A x \in queue[a] : due'[x] = due[x]
    BY <2>1
  <2> QED BY <2>1, <2>2, <2>3 DEF WaitCovers
<1> QED BY <1>2, <1>3

\* Actors come and go, and actions are queued, by the threads that run scripts.
LEMMA ScriptsCover ==
  ASSUME CoverInv,
         \/ \E a \in Actors : Create(a) \/ LetGo(a)
         \/ \E c \in Callers, a \in Actors, x \in Actions : QueueNow(c, a, x)
  PROVE  ScanCovers' /\ WaitCovers'
<1> USE DEF CoverInv
<1>1. UNCHANGED <<todo, minDelay, wait, pc, missed, call>>
  BY DEF Create, LetGo, QueueNow, clock
<1>2. \A a \in Actors : Excused(a) => Excused(a)'
  BY <1>1 DEF Excused
<1>3. CASE UNCHANGED <<queue, due>>
  BY <1>1, <1>2, <1>3, AloneCovers
<1>4. ASSUME NEW a \in Actors, LetGo(a)
      PROVE  ScanCovers' /\ WaitCovers'
  <2>1. ASSUME NEW b \in Actors
        PROVE  queue'[b] = {} \/ (queue'[b] = queue[b] /\ \A y \in queue[b] : due'[y] = due[y])
    <3>1. CASE refs[a] # 1
      BY <1>4, <3>1, QueuedTimes DEF LetGo, Destroy
    <3>2. CASE refs[a] = 1 /\ b = a
      BY <1>4, <3>2 DEF LetGo, Destroy
    <3>3. CASE refs[a] = 1 /\ b # a
      <4>1. queue'[b] = queue[b] /\ \A y \in Actions : y \notin queue[a] => due'[y] = due[y]
        BY <1>4, <3>3 DEF LetGo, Destroy
      <4>2. \A y \in queue[b] : y \in Actions /\ y \notin queue[a]
        BY <3>3 DEF IInv, OnePlace, TypeOK
      <4> QED BY <4>1, <4>2
    <3> QED BY <3>1, <3>2, <3>3
  <2> QED BY <1>1, <1>2, <2>1, AloneCovers
<1> QED BY <1>3, <1>4 DEF Create, QueueNow, clock, actors

\* An actor in whose queue a call puts an action is excused until the call has
\* signalled the thread.
LEMMA CallerCovers ==
  ASSUME CoverInv, NEW c \in Callers,
         Insert(c) \/ AddActiveActor(c) \/ \E a \in Actors, x \in Actions, d \in Delays :
                                             QueueScriptAction(c, a, x, d)
  PROVE  ScanCovers' /\ WaitCovers'
<1> USE DEF CoverInv
<1>1. UNCHANGED <<todo, minDelay, wait, pc, missed>>
  BY DEF Insert, AddActiveActor, QueueScriptAction, clock
<1>2. CASE Insert(c)
  <2>1. /\ call'[c].at = "activate" /\ call'[c].actor = call[c].actor
        /\ \A d \in Callers \ {c} : call'[d] = call[d]
    BY <1>2 DEF Insert, IInv, TypeOK, Idle
  <2>2. \A a \in Actors : Excused(a) => Excused(a)'
    BY <1>1, <1>2, <2>1 DEF Excused, Insert
  <2>3. \A a \in Actors : queue'[a] = queue[a] \/ Excused(a)'
    BY <1>2, <2>1 DEF Excused, Insert, IInv, TypeOK
  <2>4. due' = due
    BY <1>2 DEF Insert, clock
  <2> QED BY <1>1, <2>2, <2>3, <2>4, AloneCovers
<1>3. CASE AddActiveActor(c)
  <2>1. /\ call'[c].at = "signal" /\ call'[c].actor = call[c].actor
        /\ \A d \in Callers \ {c} : call'[d] = call[d]
    BY <1>3 DEF AddActiveActor, IInv, TypeOK, Idle
  <2>2. \A a \in Actors : Excused(a) => Excused(a)'
    BY <1>1, <2>1 DEF Excused
  <2>3. due' = due /\ queue' = queue
    BY <1>3 DEF AddActiveActor, clock
  <2> QED BY <1>1, <2>2, <2>3, AloneCovers
<1>4. ASSUME NEW a \in Actors, NEW x \in Actions, NEW d \in Delays, QueueScriptAction(c, a, x, d)
      PROVE  ScanCovers' /\ WaitCovers'
  <2>1. call[c] = Idle /\ \A e \in Callers \ {c} : call'[e] = call[e]
    BY <1>4 DEF QueueScriptAction, IInv, TypeOK
  <2>2. \A b \in Actors : Excused(b) => Excused(b)'
    BY <1>1, <2>1 DEF Excused, Idle
  <2>3. ASSUME NEW b \in Actors
        PROVE  queue'[b] = queue[b] /\ \A y \in queue[b] : due'[y] = due[y]
    BY <1>4, <2>3 DEF QueueScriptAction, IInv, TypeOK, OnePlace, actors
  <2> QED BY <1>1, <2>2, <2>3, AloneCovers
<1> QED BY <1>2, <1>3, <1>4

\* A signal excuses everything, or the thread does not wait.
LEMMA NotifyCovers ==
  ASSUME CoverInv, Notify
  PROVE  ScanCovers' /\ WaitCovers'
<1>1. missed' \/ pc' \notin {"scan", "wait", "asleep"}
  BY DEF Notify, CoverInv, IInv, TypeOK
<1> QED BY <1>1, Zenon DEF ScanCovers, WaitCovers, Excused

\* When the scan begins, an actor it does not visit has nothing queued, or a call
\* is about to make it active.
LEMMA BeginScanCovers ==
  ASSUME CoverInv, BeginScan
  PROVE  ScanCovers' /\ WaitCovers'
<1> USE DEF CoverInv
<1>1. pc' = "scan" /\ todo' = active /\ UNCHANGED <<queue, call>>
  BY DEF BeginScan, actors
<1>2. ASSUME NEW a \in Actors \ active
      PROVE  queue'[a] = {} \/ Excused(a)'
  BY <1>1, <1>2 DEF BeginScan, IInv, QueuedActive, Excused
<1>3. ScanCovers'
  BY <1>1, <1>2 DEF ScanCovers, Covered
<1>4. WaitCovers'
  BY <1>1 DEF WaitCovers
<1> QED BY <1>3, <1>4

\* At the end of the scan the minimum covers all actors, and if there is none
\* nothing needs it.
LEMMA EndScanCovers ==
  ASSUME CoverInv, EndScan
  PROVE  ScanCovers' /\ WaitCovers'
<1> USE DEF CoverInv
<1>1. /\ pc = "scan" /\ pc' = "wait" /\ wait' = WaitTs /\ todo = {}
      /\ UNCHANGED <<queue, due, call, missed>>
  BY DEF EndScan, actors
<1>2. Actors \ todo = Actors
  BY <1>1
<1>3. ASSUME NEW a \in Actors, ~Excused(a)'
      PROVE  Covered(a, minDelay, Cardinality(Actors))
  BY <1>1, <1>2, <1>3 DEF ScanCovers, Excused
<1>4. WaitCovers'
  BY <1>1, <1>3 DEF WaitCovers, Covered, InTime, WaitTs
<1>5. ScanCovers'
  BY <1>1 DEF ScanCovers
<1> QED BY <1>4, <1>5

\* The minimum after the scan has passed an actor whose first action is due at ts.
LEMMA MinimumCovers ==
  ASSUME minDelay \in Time, NEW t \in Ts
  PROVE  /\ t.ns # 0 => IsTsNonZero(Minimum(t)) /\ ~Later(Minimum(t), Plus(t, 1))
         /\ \A y \in Ts : \A n \in Nat :
              IsTsNonZero(minDelay) /\ ~Later(minDelay, Plus(y, n)) => ~Later(Minimum(t), Plus(y, n + 1))
         /\ IsTsNonZero(minDelay) => IsTsNonZero(Minimum(t))
<1>1. /\ t.s \in Int /\ t.ns \in Nat /\ t # None
      /\ Plus(t, 1) \in Ts /\ Plus(t, 1).s = t.s + 1 /\ Plus(t, 1).ns = t.ns
  BY Fields, PlusType
<1>2. Plus(t, 1) # None
  BY <1>1, Fields
<1>3. CASE ~IsTsNonZero(minDelay)
  BY <1>1, <1>2, <1>3 DEF Minimum, IsTsNonZero, Later
<1>4. CASE IsTsNonZero(minDelay)
  <2>1. minDelay \in Ts /\ minDelay.s \in Int /\ minDelay.ns \in Nat /\ minDelay # None
    BY <1>4, Fields DEF IsTsNonZero, Time
  <2>2. IsTsNonZero(Minimum(t))
    BY <1>1, <1>2, <1>4 DEF Minimum, IsTsNonZero
  <2>3. (t.ns # 0 /\ Later(minDelay, t) /\ Minimum(t) = Plus(t, 1))
          \/ ((t.ns = 0 \/ ~Later(minDelay, t)) /\ Minimum(t) = minDelay)
    BY <1>1, <1>4 DEF Minimum, IsTsNonZero
  <2>4. t.ns # 0 => ~Later(Minimum(t), Plus(t, 1))
    BY <1>1, <2>1, <2>3 DEF Later
  <2>5. ASSUME NEW y \in Ts, NEW n \in Nat, ~Later(minDelay, Plus(y, n))
        PROVE  ~Later(Minimum(t), Plus(y, n + 1))
    <3>1. y.s \in Int /\ y.ns \in Nat
      BY Fields
    <3>2. Plus(y, n).s = y.s + n /\ Plus(y, n).ns = y.ns
      BY PlusType
    <3>3. Plus(y, n + 1).s = y.s + (n + 1) /\ Plus(y, n + 1).ns = y.ns
      BY PlusType
    <3> QED BY <1>1, <2>1, <2>3, <2>5, <3>1, <3>2, <3>3 DEF Later
  <2> QED BY <1>4, <2>2, <2>4, <2>5
<1> QED BY <1>3, <1>4

\* A time that is early enough for an action is early enough for a later one, and
\* with a longer delay.
LEMMA LaterStill ==
  ASSUME NEW w \in Ts, NEW x \in Ts, NEW y \in Ts, NEW n \in Nat, NEW k \in Nat,
         ~Later(w, Plus(x, n)), ~Later(x, y), n <= k
  PROVE  ~Later(w, Plus(y, k))
<1>1. /\ w.s \in Int /\ x.s \in Int /\ y.s \in Int
      /\ w.ns \in Nat /\ x.ns \in Nat /\ y.ns \in Nat
  BY Fields
<1>2. Plus(x, n).s = x.s + n /\ Plus(x, n).ns = x.ns
  BY PlusType
<1>3. Plus(y, k).s = y.s + k /\ Plus(y, k).ns = y.ns
  BY PlusType
<1> QED BY <1>1, <1>2, <1>3 DEF Later

\* The scan passes an actor: the new minimum covers it, and the others with a
\* second more.
LEMMA ScanActorCovers ==
  ASSUME CoverInv, NEW a \in Actors, ScanActor(a)
  PROVE  ScanCovers' /\ WaitCovers'
<1> USE DEF CoverInv
<1> DEFINE n == Cardinality(Actors \ todo)
<1>1. /\ pc = "scan" /\ pc' = "scan" /\ a \in todo /\ todo' = todo \ {a}
      /\ UNCHANGED <<call, missed>>
  BY DEF ScanActor, Ahead
<1>2. n \in Nat /\ Cardinality(Actors \ todo') = n + 1
  <2>1. /\ Actors \ todo' = (Actors \ todo) \cup {a}
        /\ Actors \ todo \in SUBSET Actors /\ a \in Actors \ (Actors \ todo)
    BY <1>1 DEF IInv, TypeOK
  <2> QED BY <2>1, Counts
<1>3. \A b \in Actors : Excused(b)' <=> Excused(b)
  BY <1>1 DEF Excused
<1>4. \A b \in Actors : \A y \in queue[b] : y \in Actions /\ due[y] \in Ts
  BY QueuedTimes
<1>5. /\ queue'[a] = Rest(a) /\ Rest(a) \subseteq queue[a]
      /\ \A y \in Rest(a) : due'[y] = due[y]
  BY <1>4 DEF ScanActor, Rest, IInv, TypeOK
<1>6. \A b \in Actors \ {a} :
        queue'[b] = queue[b] /\ \A y \in queue[b] : due'[y] = due[y]
  <2>1. \A b \in Actors \ {a} : queue[b] \cap queue[a] = {}
    BY DEF IInv, OnePlace
  <2> QED BY <1>4, <2>1 DEF ScanActor, Ready, IInv, TypeOK
<1>7. minDelay \in Time /\ minDelay' \in Time
  BY ScanActorKeeps DEF IInv, TypeOK, Time
<1>8. CASE Rest(a) = {}
  <2>1. minDelay' = minDelay
    BY <1>8 DEF ScanActor, Leaves
  <2>2. ASSUME NEW b \in Actors \ todo', ~Excused(b)',
               NEW y \in queue'[b], due'[y].ns # 0,
               ~\E x \in queue'[b] : due'[x].ns = 0 /\ Later(due'[y], due'[x])
        PROVE  IsTsNonZero(minDelay) /\ ~Later(minDelay, Plus(due'[y], n + 1))
    <3>1. b # a
      BY <1>5, <1>8, <2>2
    <3>2. /\ b \in Actors \ todo /\ ~Excused(b)
          /\ queue'[b] = queue[b] /\ \A x \in queue[b] : due'[x] = due[x] /\ due[x] \in Ts
      BY <1>1, <1>3, <1>4, <1>6, <2>2, <3>1
    <3>3. Covered(b, minDelay, n)
      BY <1>1, <3>2 DEF ScanCovers
    <3>4. /\ IsTsNonZero(minDelay) /\ ~Later(minDelay, Plus(due[y], n))
          /\ due'[y] = due[y] /\ due[y] \in Ts
      BY <2>2, <3>2, <3>3 DEF Covered, InTime
    <3>5. minDelay \in Ts
      BY <1>7, <3>4 DEF IsTsNonZero, Time
    <3>6. ~Later(due[y], due[y])
      BY <3>4, Fields DEF Later
    <3> QED BY <1>2, <3>4, <3>5, <3>6, LaterStill
  <2> QED BY <1>1, <1>2, <2>1, <2>2 DEF ScanCovers, WaitCovers, Covered, InTime
<1>9. CASE Rest(a) # {}
  <2>1. PICK x \in Rest(a) : /\ \A y \in Rest(a) : ~Later(due[x], due[y])
                             /\ minDelay' = Minimum(due[x])
    BY <1>9 DEF ScanActor, Leaves
  <2>2. due[x] \in Ts
    BY <1>4, <1>5
  <2>3. ASSUME NEW b \in Actors \ todo', ~Excused(b)',
               NEW y \in queue'[b], due'[y].ns # 0,
               ~\E z \in queue'[b] : due'[z].ns = 0 /\ Later(due'[y], due'[z])
        PROVE  IsTsNonZero(minDelay') /\ ~Later(minDelay', Plus(due'[y], n + 1))
    <3>1. CASE b # a
      <4>1. /\ b \in Actors \ todo /\ ~Excused(b)
            /\ queue'[b] = queue[b] /\ \A z \in queue[b] : due'[z] = due[z] /\ due[z] \in Ts
        BY <1>1, <1>3, <1>4, <1>6, <2>3, <3>1
      <4>2. Covered(b, minDelay, n)
        BY <1>1, <4>1 DEF ScanCovers
      <4>3. /\ IsTsNonZero(minDelay) /\ ~Later(minDelay, Plus(due[y], n))
            /\ due'[y] = due[y] /\ due[y] \in Ts
        BY <2>3, <4>1, <4>2 DEF Covered, InTime
      <4>4. IsTsNonZero(Minimum(due[x])) /\ ~Later(Minimum(due[x]), Plus(due[y], n + 1))
        BY <1>2, <1>7, <2>2, <4>3, MinimumCovers
      <4> QED BY <2>1, <4>3, <4>4
    <3>2. CASE b = a
      <4>1. y \in Rest(a) /\ due'[y] = due[y] /\ due[y] \in Ts /\ due[y].ns # 0
        BY <1>4, <1>5, <2>3, <3>2
      <4>2. ~Later(due[x], due[y])
        BY <2>1, <4>1
      <4>3. ~(due[x].ns = 0 /\ Later(due[y], due[x]))
        BY <1>5, <2>3, <3>2, <4>1
      <4>4. due[x].ns # 0
        BY <2>2, <4>1, <4>2, <4>3, Fields DEF Later
      <4>5. IsTsNonZero(Minimum(due[x])) /\ ~Later(Minimum(due[x]), Plus(due[x], 1))
        BY <1>7, <2>2, <4>4, MinimumCovers
      <4>6. Minimum(due[x]) \in Ts
        BY <1>7, <2>2, <4>5, MinimumType DEF IsTsNonZero, Time
      <4>7. ~Later(Minimum(due[x]), Plus(due[y], n + 1))
        BY <1>2, <2>2, <4>1, <4>2, <4>5, <4>6, LaterStill
      <4> QED BY <2>1, <4>1, <4>5, <4>7
    <3> QED BY <3>1, <3>2
  <2> QED BY <1>1, <1>2, <2>3 DEF ScanCovers, WaitCovers, Covered, InTime
<1> QED BY <1>8, <1>9

\* Nothing waits for the thread once it wakes or ends.
LEMMA WakeCovers ==
  ASSUME CoverInv, WakeUp \/ Exit \/ TimedWait
  PROVE  ScanCovers' /\ WaitCovers'
<1>1. CASE pc' \in {"top", "done"}
  BY <1>1 DEF ScanCovers, WaitCovers
<1>2. CASE pc = "wait" /\ pc' = "asleep" /\ TimedWait
  <2>1. UNCHANGED <<wait, missed, due, queue, call>>
    BY <1>2 DEF TimedWait, actors
  <2> QED BY <1>2, <2>1 DEF CoverInv, ScanCovers, WaitCovers, Excused
<1> QED BY <1>1, <1>2 DEF WakeUp, Exit, TimedWait

\* Every step preserves the invariant.
LEMMA StepCoverInv == CoverInv /\ [Next]_vars => CoverInv'
<1> SUFFICES ASSUME CoverInv, [Next]_vars PROVE ScanCovers' /\ WaitCovers'
  BY StepIInv, StepNotLong DEF CoverInv
<1>1. CASE Tick
  BY <1>1, TickCovers
<1>2. CASE \/ \E a \in Actors : Create(a) \/ LetGo(a)
           \/ \E c \in Callers, a \in Actors, x \in Actions : QueueNow(c, a, x)
  BY <1>2, ScriptsCover
<1>3. CASE \E c \in Callers :
             \/ Insert(c) \/ AddActiveActor(c)
             \/ \E a \in Actors, x \in Actions, d \in Delays : QueueScriptAction(c, a, x, d)
  BY <1>3, CallerCovers
<1>4. CASE Broadcast \/ \E c \in Callers : Signal(c)
  BY <1>4, NotifyCovers DEF Broadcast, Signal
<1>5. CASE BeginScan
  BY <1>5, BeginScanCovers
<1>6. CASE \E a \in Actors : ScanActor(a)
  BY <1>6, ScanActorCovers
<1>7. CASE EndScan
  BY <1>7, EndScanCovers
<1>8. CASE WakeUp \/ Exit \/ TimedWait
  BY <1>8, WakeCovers
<1>9. CASE StopFlag \/ Join \/ UNCHANGED vars
  <2>1. UNCHANGED <<queue, due, call, todo, minDelay, wait, pc, missed>>
    BY <1>9 DEF StopFlag, Join, vars, clock, actors
  <2> QED BY <2>1 DEF CoverInv, ScanCovers, WaitCovers, Covered, InTime, Excused
<1> QED BY <1>1, <1>2, <1>3, <1>4, <1>5, <1>6, <1>7, <1>8, <1>9
     DEF Next, Caller, Scheduler, TimeOut

\* While the thread sleeps and no signal is missed or on its way, it wakes up in
\* time for the first action of every actor (action_scheduler.cpp:125-190), with a
\* second of delay for each, unless that action is due on a whole second.
THEOREM WakesInTime == Spec => []SleepCovers
<1>1. Init => CoverInv
  BY InitIInv DEF Init, CoverInv, NotLong, ScanCovers, WaitCovers
<1>2. CoverInv => SleepCovers
  <2> SUFFICES ASSUME CoverInv, pc = "asleep", ~missed,
                      \A c \in Callers : call[c].at \in {"idle", "insert"},
                      NEW a \in Actors, NEW x \in queue[a], IsFirst(x, a), due[x].ns # 0
               PROVE  WakesFor(x)
    BY DEF SleepCovers
  <2>1. ~Excused(a)
    BY DEF Excused
  <2>2. ~\E y \in queue[a] : Later(due[x], due[y])
    BY DEF IsFirst
  <2> QED BY <2>1, <2>2 DEF CoverInv, WaitCovers, WakesFor
<1> QED BY <1>1, <1>2, StepCoverInv, PTL DEF Spec
=============================================================================
