------------------------- MODULE ClientSessionProofs -------------------------
(***************************************************************************)
(* Proofs about ClientSession, for any number of workers, clients and      *)
(* descriptors: references are counted, one worker at a time reads the     *)
(* input of a client, none is forgotten, and none is freed too early.      *)
(***************************************************************************)
EXTENDS ClientSession, FiniteSetTheorems, SequenceTheorems, TLAPS

\* A disconnection knows where to return to.  It has closed the socket before it
\* looks at the count, and a package it is part of keeps it from going on.
Returns ==
  \A w \in Workers :
    /\ at[w] \in InCall => back[w] \in {"release", "done"}
    /\ at[w] \in InCall \ {"disconnect"} => disc[client[w]]
    /\ at[w] \in {"callback", "remove"} => back[w] = "done"

CountInv == TypeOK /\ RefCounted /\ Returns

\* Nothing refers to a client before it is registered.
Fresh(c) ==
  /\ c \notin batch /\ queued[c] = 0
  /\ \A w \in Workers : client[w] # c
  /\ \A f \in Fds : interest[f] = None \/ interest[f].ptr # c

Births ==
  \A c \in Clients :
    /\ life[c] = "unborn" => Fresh(c) /\ adding # c /\ told[c] = 0 /\ ~disc[c]
    /\ life[c] # "unborn" => sock[c] \in Fds
    /\ adding = c => Fresh(c)

\* The vector has each live client once.
Listed ==
  /\ \A c \in Clients : life[c] = "live" <=> InVector(c)
  /\ \A i, j \in DOMAIN clients : clients[i] = clients[j] => i = j

\* As long as nobody connects after the first disconnection, a descriptor number
\* stands for one client, and is open and registered until that is disconnected.
Born(c) == life[c] # "unborn"

Sockets ==
  ~setting.arrivals =>
    /\ \A c, d \in Clients : Born(c) /\ Born(d) /\ sock[c] = sock[d] => c = d
    /\ \A c \in Clients : Born(c) =>
         /\ file[sock[c]] = IF disc[c] THEN None ELSE c
         /\ interest[sock[c]] = None <=> disc[c] \/ adding = c
    /\ \A f \in Fds : interest[f] # None =>
         Born(interest[f].ptr) /\ sock[interest[f].ptr] = f

SocketInv == CountInv /\ Births /\ Listed /\ Sockets

\* An event of a client is armed, in a batch, queued or handled, and only one
\* of these.
Armed(c) == \E f \in Fds : interest[f] # None /\ interest[f].ptr = c /\ interest[f].armed
Tasks(c) == {w \in Workers : client[w] = c /\ at[w] \in InTask}

OneEventOf(c) ==
  /\ \A w, u \in Tasks(c) : w = u
  /\ Tasks(c) # {} => queued[c] = 0 /\ c \notin batch /\ ~Armed(c)
  /\ queued[c] <= 1
  /\ queued[c] > 0 => c \notin batch /\ ~Armed(c)
  /\ c \in batch => ~Armed(c)

OneEvent ==
  ~setting.bursts /\ ~setting.arrivals =>
    /\ \A c \in Clients : OneEventOf(c)
    /\ \A w \in Workers : at[w] \notin {"warn", "warnend"}

\* No event of a client is left once it is disconnected, but the one in whose
\* task it was.
Quiet(c) == c \notin batch /\ queued[c] = 0 /\ adding # c /\ ~Armed(c)

Ended ==
  ~setting.bursts /\ ~setting.arrivals /\ ~setting.kicks =>
    /\ \A c \in Clients : disc[c] => Quiet(c)
    /\ \A c \in Clients : life[c] = "freed" => disc[c] /\ Tasks(c) = {}
    /\ \A w \in Workers : at[w] \in InCall => Quiet(client[w]) /\ Tasks(client[w]) = {}

\* A live client is seen again.
Seen(c) ==
  \/ Armed(c) \/ c \in batch \/ adding = c \/ queued[c] > 0
  \/ \E w \in Workers :
       /\ client[w] = c
       /\ \/ at[w] \in InTask
          \/ at[w] \in InCall /\ back[w] = "release"
          \/ disc[c] /\ at[w] # "done"

AllSeen ==
  ~setting.kicks /\ ~setting.arrivals =>
    \A c \in Clients : /\ life[c] = "live" => Seen(c)
                       /\ adding = c => ~disc[c]

\* No worker works but those of the setting.
Enlisted == \A w \in Workers : at[w] # "idle" => w \in setting.workers

-----------------------------------------------------------------------------
(* References.                                                             *)

\* What a step of worker w leaves alone, and what of its package it keeps.
Others(w) ==
  \A u \in Workers \ {w} : at'[u] = at[u] /\ client'[u] = client[u] /\ back'[u] = back[u]

\* Steps of a worker in the middle of a package.
Middle(w) ==
  \/ Enter(w) \/ ReadFails(w) \/ ReadData(w) \/ ReadEnd(w)
  \/ Warn(w) \/ WarnThenRefuse(w) \/ Process(w) \/ ProcessDisconnects(w) \/ Rearm(w)
  \/ ReleaseRef(w) \/ CheckRef(w)
  \/ Disconnect(w) \/ GetRefCount(w) \/ CallOnPlayerDisconnect(w) \/ Remove(w)

Stages == {"idle"} \cup InTask \cup InReturn \cup InCall

\* A worker moves on by itself.
LEMMA Moves ==
  ASSUME TypeOK, Returns, NEW w \in Workers, Middle(w)
  PROVE  /\ Others(w) /\ client' = client
         /\ at' \in [Workers -> Stages] /\ back' \in [Workers -> {None, "release", "done"}]
         /\ at[w] # "idle" /\ at'[w] # "idle" /\ client[w] \in Clients
         /\ at[w] # "done"
         /\ at'[w] \in InCall => back'[w] \in {"release", "done"}
<1> USE DEF TypeOK, InTask, InReturn, InCall, Stages, Goto, Call, Others
<1>1. at[w] # "idle" /\ client[w] \in Clients /\ client' = client /\ at[w] # "done"
  BY DEF Middle, Enter, ReadFails, ReadData, ReadEnd, Warn, WarnThenRefuse, Process,
         ProcessDisconnects, Rearm, ReleaseRef, CheckRef, Disconnect, GetRefCount,
         CallOnPlayerDisconnect, Remove
<1>2. CASE \/ Warn(w) \/ Process(w) \/ ProcessDisconnects(w) \/ Rearm(w)
           \/ ReleaseRef(w) \/ Disconnect(w) \/ CallOnPlayerDisconnect(w)
  <2>1. back' = back /\ \E s \in Stages \ {"idle"} : at' = [at EXCEPT ![w] = s]
    BY <1>2 DEF Warn, Process, ProcessDisconnects, Rearm, ReleaseRef, Disconnect,
                CallOnPlayerDisconnect
  <2>2. at'[w] \in InCall => at[w] \in InCall
    BY <1>2 DEF Warn, Process, ProcessDisconnects, Rearm, ReleaseRef, Disconnect,
                CallOnPlayerDisconnect
  <2> QED
    BY <1>1, <2>1, <2>2 DEF Returns
<1>3. CASE Remove(w) \/ GetRefCount(w)
  <2>1. back[w] \in {"release", "done"} /\ back' = back
    BY <1>3 DEF Remove, GetRefCount, Returns
  <2>2. \E s \in {"callback", "release", "done"} : at' = [at EXCEPT ![w] = s]
    BY <1>3, <2>1 DEF Remove, GetRefCount
  <2> QED
    BY <1>1, <2>1, <2>2
<1>4. CASE Enter(w) \/ ReadFails(w) \/ ReadData(w) \/ ReadEnd(w) \/ WarnThenRefuse(w)
           \/ CheckRef(w)
  <2> DEFINE Goes(s) == back' = back /\ at' = [at EXCEPT ![w] = s]
             Calls(r) == back' = [back EXCEPT ![w] = r] /\ at' = [at EXCEPT ![w] = "disconnect"]
             Goal == \/ \E s \in {"read", "rearm", "warn", "process", "warnend", "done"} : Goes(s)
                     \/ \E r \in {"release", "done"} : Calls(r)
  <2>1. ASSUME Enter(w) PROVE Goal
    BY <2>1 DEF Enter
  <2>2. ASSUME ReadFails(w) \/ WarnThenRefuse(w) PROVE Goal
    BY <2>2 DEF ReadFails, WarnThenRefuse
  <2>3. ASSUME ReadData(w) PROVE Goal
    BY <2>3 DEF ReadData
  <2>4. ASSUME ReadEnd(w) PROVE Goal
    BY <2>4 DEF ReadEnd
  <2>5. ASSUME CheckRef(w) PROVE Goal
    BY <2>5 DEF CheckRef
  <2>6. Goal
    BY <1>4, <2>1, <2>2, <2>3, <2>4, <2>5
  <2>7. CASE \E s \in {"read", "rearm", "warn", "process", "warnend", "done"} : Goes(s)
    BY <1>1, <2>7
  <2>8. CASE \E r \in {"release", "done"} : Calls(r)
    BY <1>1, <2>8
  <2> QED
    BY <2>6, <2>7, <2>8
<1> QED
  BY <1>2, <1>3, <1>4 DEF Middle

\* Each variable is changed by the steps that are about it.
Keeps(w) ==
  /\ UNCHANGED <<setting, sock, batch, adding, queued>>
  /\ ReadData(w) \/ UNCHANGED input
  /\ CallOnPlayerDisconnect(w) \/ UNCHANGED told
  /\ Remove(w) \/ UNCHANGED <<life, clients>>
  /\ Disconnect(w) \/ ProcessDisconnects(w) \/ UNCHANGED <<disc, file>>
  /\ \/ Disconnect(w) \/ ProcessDisconnects(w) \/ Remove(w)
     \/ Rearm(w) \/ Warn(w) \/ WarnThenRefuse(w)
     \/ UNCHANGED interest
  /\ ReleaseRef(w) \/ UNCHANGED ref

\* In the middle of a package nothing else is touched.
LEMMA MiddleKeeps ==
  ASSUME NEW w \in Workers, Middle(w)
  PROVE  Keeps(w)
<1> USE DEF Keeps, kernel, main
<1>1. CASE Enter(w)
  BY <1>1 DEF Enter
<1>2. CASE ReadFails(w)
  BY <1>2 DEF ReadFails
<1>3. CASE ReadData(w)
  BY <1>3 DEF ReadData
<1>4. CASE ReadEnd(w)
  BY <1>4 DEF ReadEnd
<1>5. CASE Warn(w)
  BY <1>5 DEF Warn
<1>6. CASE WarnThenRefuse(w)
  BY <1>6 DEF WarnThenRefuse
<1>7. CASE Process(w)
  BY <1>7 DEF Process
<1>8. CASE ProcessDisconnects(w)
  BY <1>8 DEF ProcessDisconnects
<1>9. CASE Rearm(w)
  BY <1>9 DEF Rearm
<1>10. CASE ReleaseRef(w)
  BY <1>10 DEF ReleaseRef
<1>11. CASE CheckRef(w)
  BY <1>11 DEF CheckRef
<1>12. CASE Disconnect(w)
  BY <1>12 DEF Disconnect
<1>13. CASE GetRefCount(w)
  BY <1>13 DEF GetRefCount
<1>14. CASE CallOnPlayerDisconnect(w)
  BY <1>14 DEF CallOnPlayerDisconnect
<1>15. CASE Remove(w)
  BY <1>15 DEF Remove
<1> QED
  BY <1>1, <1>2, <1>3, <1>4, <1>5, <1>6, <1>7, <1>8, <1>9, <1>10, <1>11, <1>12, <1>13, <1>14, <1>15 DEF Middle

\* Holders can be counted, and one that comes or goes counts.
LEMMA HoldersCount ==
  ASSUME NEW c \in Clients
  PROVE  /\ IsFiniteSet(Holders(c)) /\ Cardinality(Holders(c)) \in Nat
         /\ Holders(c) # {} => Cardinality(Holders(c)) > 0
         /\ \A w : w \notin Holders(c)
              => Cardinality(Holders(c) \cup {w}) = Cardinality(Holders(c)) + 1
         /\ \A w \in Holders(c) : Cardinality(Holders(c) \ {w}) = Cardinality(Holders(c)) - 1
<1>1. Holders(c) \subseteq Workers /\ IsFiniteSet(Workers)
  BY SetAssumption DEF Holders
<1>2. IsFiniteSet(Holders(c))
  BY <1>1, FS_Subset
<1>3. Cardinality(Holders(c)) \in Nat
  BY <1>2, FS_CardinalityType
<1>4. Holders(c) # {} => Cardinality(Holders(c)) # 0
  BY <1>2, FS_EmptySet
<1> QED
  BY <1>2, <1>3, <1>4, FS_AddElement, FS_RemoveElement

\* Whether a worker holds a client.
Holds(w, c) ==
  /\ client[w] = c
  /\ \/ at[w] \in InTask \cup {"release"}
     \/ at[w] \in InCall /\ back[w] = "release"

\* A step of one worker makes or unmakes at most that holder.
LEMMA HoldersChange ==
  ASSUME NEW w \in Workers, Others(w), NEW c \in Clients
  PROVE  /\ Holds(w, c) <=> w \in Holders(c)
         /\ (Holds(w, c)' <=> Holds(w, c)) => Holders(c)' = Holders(c)
         /\ ~Holds(w, c) /\ Holds(w, c)' => Holders(c)' = Holders(c) \cup {w}
         /\ Holds(w, c) /\ ~Holds(w, c)' => Holders(c)' = Holders(c) \ {w}
<1>1. \A u \in Workers : u \in Holders(c) <=> Holds(u, c)
  BY DEF Holders, Holds
<1>2. \A u \in Workers : u \in Holders(c)' <=> Holds(u, c)'
  BY DEF Holders, Holds
<1>3. \A u \in Workers \ {w} : Holds(u, c)' <=> Holds(u, c)
  BY DEF Others, Holds
<1>4. Holders(c) \subseteq Workers /\ Holders(c)' \subseteq Workers
  BY DEF Holders
<1> QED
  BY <1>1, <1>2, <1>3, <1>4

\* In the middle of a package a worker holds its client until it releases it.
LEMMA MiddleHolds ==
  ASSUME TypeOK, Returns, NEW w \in Workers, Middle(w), NEW c \in Clients
  PROVE  /\ ReleaseRef(w) /\ c = client[w] => Holds(w, c) /\ ~Holds(w, c)'
         /\ ~(ReleaseRef(w) /\ c = client[w]) => (Holds(w, c)' <=> Holds(w, c))
<1> USE DEF TypeOK, InTask, InReturn, InCall, Goto, Call
<1>1. client' = client
  BY Moves
<1>2. CASE c # client[w]
  BY <1>1, <1>2 DEF Holds
<1>3. CASE c = client[w]
  <2>1. CASE \/ Warn(w) \/ Process(w) \/ ProcessDisconnects(w) \/ Rearm(w)
    BY <1>1, <1>3, <2>1 DEF Warn, Process, ProcessDisconnects, Rearm, ReleaseRef, Holds
  <2>2. CASE Disconnect(w) \/ CallOnPlayerDisconnect(w)
    BY <1>1, <1>3, <2>2 DEF Disconnect, CallOnPlayerDisconnect, ReleaseRef, Holds
  <2>3. CASE Remove(w) \/ GetRefCount(w)
    <3>1. back' = back /\ back[w] \in {"release", "done"} /\ at[w] \in {"getref", "remove"}
      BY <2>3 DEF Remove, GetRefCount, Returns
    <3>2. at'[w] = "callback" \/ at'[w] = back[w]
      BY <2>3 DEF Remove, GetRefCount
    <3> QED
      BY <1>1, <1>3, <2>3, <3>1, <3>2 DEF ReleaseRef, Holds
  <2>4. ASSUME at[w] \in InTask,
               \/ at'[w] \in InTask \cup {"release"}
               \/ at'[w] = "disconnect" /\ back'[w] = "release"
        PROVE  Holds(w, c)' /\ Holds(w, c) /\ ~ReleaseRef(w)
    BY <1>1, <1>3, <2>4 DEF Holds, ReleaseRef
  <2>5. CASE Enter(w) \/ ReadFails(w)
    <3>1. /\ at[w] \in InTask
          /\ at'[w] \in InTask \cup {"release"} \/ (at'[w] = "disconnect" /\ back'[w] = "release")
      BY <2>5 DEF Enter, ReadFails
    <3> QED
      BY <2>4, <3>1
  <2>6. CASE ReadData(w) \/ ReadEnd(w) \/ WarnThenRefuse(w)
    <3>1. CASE ReadData(w)
      <4>1. /\ at[w] \in InTask
            /\ at'[w] \in InTask \cup {"release"} \/ (at'[w] = "disconnect" /\ back'[w] = "release")
        BY <3>1 DEF ReadData
      <4> QED
        BY <2>4, <4>1
    <3>2. CASE ReadEnd(w) \/ WarnThenRefuse(w)
      <4>1. /\ at[w] \in InTask
            /\ at'[w] \in InTask \cup {"release"} \/ (at'[w] = "disconnect" /\ back'[w] = "release")
        BY <3>2 DEF ReadEnd, WarnThenRefuse
      <4> QED
        BY <2>4, <4>1
    <3> QED
      BY <2>6, <3>1, <3>2
  <2>7. CASE CheckRef(w)
    <3>1. /\ at[w] = "check"
          /\ at'[w] = "done" \/ (at'[w] = "disconnect" /\ back'[w] = "done")
      BY <2>7 DEF CheckRef
    <3> QED
      BY <1>1, <3>1 DEF ReleaseRef, Holds
  <2>8. CASE ReleaseRef(w)
    <3>1. at[w] = "release" /\ at'[w] = "check"
      BY <2>8 DEF ReleaseRef
    <3> QED
      BY <1>1, <1>3, <2>8, <3>1 DEF Holds
  <2> QED
    BY <2>1, <2>2, <2>3, <2>4, <2>5, <2>6, <2>7, <2>8 DEF Middle
<1> QED
  BY <1>2, <1>3

\* The count goes down with the holder, and no other step of a package changes it.
LEMMA MiddleCounted ==
  ASSUME CountInv, NEW w \in Workers, Middle(w)
  PROVE  RefCounted' /\ ref' \in [Clients -> Nat] /\ queued' = queued
<1> USE DEF CountInv
<1>1. Others(w) /\ client[w] \in Clients
  BY Moves
<1>2. queued' = queued
  BY MiddleKeeps DEF Keeps
<1>3. \/ ReleaseRef(w) /\ ref' = [ref EXCEPT ![client[w]] = @ - 1]
      \/ ~ReleaseRef(w) /\ ref' = ref
  BY MiddleKeeps DEF Keeps, ReleaseRef
<1>4. ASSUME NEW c \in Clients
      PROVE  ref'[c] = queued'[c] + Cardinality(Holders(c)') /\ ref'[c] \in Nat
  <2>1. ref[c] = queued[c] + Cardinality(Holders(c)) /\ queued[c] \in Nat /\ ref[c] \in Nat
    BY DEF RefCounted, TypeOK
  <2>2. CASE ReleaseRef(w) /\ c = client[w]
    <3>1. w \in Holders(c) /\ Holders(c)' = Holders(c) \ {w}
      BY <1>1, <2>2, MiddleHolds, HoldersChange
    <3>2. ref'[c] = ref[c] - 1
      BY <1>3, <2>2 DEF TypeOK
    <3>3. Cardinality(Holders(c)') = Cardinality(Holders(c)) - 1 /\ Cardinality(Holders(c)) > 0
          /\ Cardinality(Holders(c)) \in Nat
      BY <3>1, HoldersCount
    <3> QED
      BY <1>2, <2>1, <3>2, <3>3
  <2>3. CASE ~(ReleaseRef(w) /\ c = client[w])
    <3>1. Holders(c)' = Holders(c)
      BY <1>1, <2>3, MiddleHolds, HoldersChange
    <3>2. ref'[c] = ref[c]
      BY <1>3, <2>3 DEF TypeOK
    <3> QED
      BY <1>2, <2>1, <3>1, <3>2
  <2> QED
    BY <2>2, <2>3
<1>5. ref' \in [Clients -> Nat]
  <2>1. ref' \in [Clients -> Int]
    BY <1>3 DEF TypeOK
  <2> QED
    BY <1>4, <2>1
<1> QED
  BY <1>2, <1>4, <1>5 DEF RefCounted

\* VectorRemove: the elements behind the one that goes move up.
LEMMA WithoutOne ==
  ASSUME NEW S, NEW s \in Seq(S), NEW i \in DOMAIN s
  PROVE  /\ Without(s, i) \in Seq(S) /\ Len(s) \in Nat /\ i \in 1 .. Len(s)
         /\ DOMAIN Without(s, i) = 1 .. Len(s) - 1 /\ DOMAIN s = 1 .. Len(s)
         /\ \A j \in 1 .. Len(s) - 1 : Without(s, i)[j] = IF j < i THEN s[j] ELSE s[j + 1]
<1>1. Len(s) \in Nat /\ DOMAIN s = 1 .. Len(s) /\ \A j \in 1 .. Len(s) : s[j] \in S
  BY LenProperties, ElementOfSeq
<1> DEFINE n == Len(s) - 1
<1>2. n \in Nat
  BY <1>1
<1>3. Without(s, i) \in [1 .. n -> S]
  BY <1>1 DEF Without
<1>4. Without(s, i) \in Seq(S)
  <2> HIDE DEF n
  <2> QED
    BY <1>2, <1>3, SeqDef
<1> QED
  BY <1>1, <1>3, <1>4 DEF Without

\* No step in the middle of a package breaks a type.
LEMMA MiddleTyped ==
  ASSUME CountInv, NEW w \in Workers, Middle(w)
  PROVE  TypeOK'
<1> USE SetAssumption DEF CountInv, TypeOK
<1>1. /\ Others(w) /\ client' = client
      /\ at' \in [Workers -> Stages] /\ back' \in [Workers -> {None, "release", "done"}]
      /\ at[w] # "idle" /\ at'[w] # "idle" /\ client[w] \in Clients
  BY Moves
<1>2. \A u \in Workers : at'[u] = "idle" <=> client'[u] = None
  BY <1>1 DEF Others
<1>3. ref' \in [Clients -> Nat] /\ queued' = queued
  BY MiddleCounted
<1>4. UNCHANGED <<setting, sock, batch, adding>> /\ input' \in [Clients -> {"none", "data", "eof"}]
  <2>1. input' = input \/ \E c : input' = [input EXCEPT ![c] = "none"]
    BY MiddleKeeps DEF Keeps, ReadData
  <2> QED
    BY <2>1, MiddleKeeps DEF Keeps
<1>5. disc' \in [Clients -> BOOLEAN] /\ file' \in [Fds -> Clients \cup {None}]
  <2>1. disc' = disc \/ \E c : disc' = [disc EXCEPT ![c] = TRUE]
    BY MiddleKeeps DEF Keeps, Disconnect, ProcessDisconnects, PlayerDisconnect
  <2>2. file' = file \/ \E f : file' = [file EXCEPT ![f] = None]
    BY MiddleKeeps DEF Keeps, Disconnect, ProcessDisconnects, PlayerDisconnect, Close
  <2>3. disc' \in [Clients -> BOOLEAN]
    BY <2>1
  <2>4. file' \in [Fds -> Clients \cup {None}]
    BY <2>2
  <2> QED
    BY <2>3, <2>4
<1>6. interest' \in [Fds -> Registration \cup {None}]
  <2>1. [ptr |-> client[w], armed |-> TRUE] \in Registration
    BY <1>1 DEF Registration
  <2>2. CASE interest' = interest \/ \E f : interest' = [interest EXCEPT ![f] = None]
    BY <2>2
  <2>3. CASE \E f : interest' = [interest EXCEPT ![f] = [ptr |-> client[w], armed |-> TRUE]]
    BY <2>1, <2>3
  <2> QED
    BY <2>2, <2>3, MiddleKeeps DEF Keeps, Disconnect, ProcessDisconnects,
       PlayerDisconnect, Close, Rearm, Warn, WarnThenRefuse, RearmSocket, Remove
<1>7. told' \in [Clients -> Nat]
  <2>1. told' = told \/ told' = [told EXCEPT ![client[w]] = told[client[w]] + 1]
    BY MiddleKeeps DEF Keeps, CallOnPlayerDisconnect
  <2>2. told \in [Clients -> Nat] /\ told[client[w]] + 1 \in Nat
    BY <1>1
  <2> QED
    BY <2>1, <2>2
<1>8. life' \in [Clients -> {"unborn", "live", "freed"}] /\ clients' \in Seq(Clients)
  <2>1. CASE UNCHANGED <<life, clients>>
    BY <2>1
  <2>2. \A i \in DOMAIN clients : Without(clients, i) \in Seq(Clients)
    BY WithoutOne
  <2>3. ASSUME NEW i \in DOMAIN clients, life' = [life EXCEPT ![clients[i]] = "freed"],
               clients' = Without(clients, i)
        PROVE  life' \in [Clients -> {"unborn", "live", "freed"}] /\ clients' \in Seq(Clients)
    BY <2>2, <2>3
  <2>4. CASE Remove(w)
    <3>1. \/ UNCHANGED <<life, clients>>
          \/ \E i \in DOMAIN clients : life' = [life EXCEPT ![clients[i]] = "freed"]
                                       /\ clients' = Without(clients, i)
      BY <2>4 DEF Remove, Matches
    <3> QED
      BY <2>1, <2>3, <3>1
  <2> QED
    BY <2>1, <2>4, MiddleKeeps DEF Keeps
<1> QED
  BY <1>1, <1>2, <1>3, <1>4, <1>5, <1>6, <1>7, <1>8 DEF Stages

\* A disconnection is not called back.
LEMMA DisconnectedStays ==
  ASSUME TypeOK, NEW w \in Workers, Middle(w)
  PROVE  \A c \in Clients : disc[c] => disc'[c]
<1>1. disc' = disc \/ \E d : disc' = [disc EXCEPT ![d] = TRUE]
  BY MiddleKeeps DEF Keeps, Disconnect, ProcessDisconnects, PlayerDisconnect
<1> QED
  BY <1>1 DEF TypeOK

\* A worker that comes to the callback has found the count at zero, and with a
\* package in its hands it would not be.
LEMMA MiddleReturns ==
  ASSUME CountInv, NEW w \in Workers, Middle(w)
  PROVE  Returns'
<1> USE DEF CountInv, InCall
<1>1. /\ Others(w) /\ client' = client /\ client[w] \in Clients
      /\ at'[w] \in InCall => back'[w] \in {"release", "done"}
  BY Moves
<1>2. \A u \in Workers : at[u] # "idle" => client[u] \in Clients
  BY SetAssumption DEF TypeOK
<1>3. ASSUME NEW u \in Workers \ {w}
      PROVE  /\ at'[u] \in InCall => back'[u] \in {"release", "done"}
             /\ at'[u] \in InCall \ {"disconnect"} => disc'[client'[u]]
             /\ at'[u] \in {"callback", "remove"} => back'[u] = "done"
  BY <1>1, <1>2, DisconnectedStays DEF Returns, Others
<1>4. /\ at'[w] \in InCall \ {"disconnect"} => disc'[client'[w]]
      /\ at'[w] \in {"callback", "remove"} => back'[w] = "done"
  <2>1. CASE at'[w] \notin InCall \ {"disconnect"}
    BY <2>1
  <2>2. CASE Disconnect(w)
    BY <1>1, <2>2 DEF Disconnect, TypeOK, Goto
  <2>3. CASE GetRefCount(w)
    <3>1. disc[client[w]] /\ back[w] \in {"release", "done"} /\ back' = back /\ disc' = disc
      BY <2>3 DEF GetRefCount, Returns
    <3>2. at'[w] = "callback" => ref[client[w]] = 0
      BY <2>3, <3>1 DEF GetRefCount, TypeOK, Goto
    <3>3. back[w] = "release" => w \in Holders(client[w])
      BY <2>3 DEF GetRefCount, Holders
    <3>4. w \in Holders(client[w]) => ref[client[w]] > 0
      BY <1>1, HoldersCount DEF RefCounted, TypeOK
    <3>5. at'[w] \in {"callback", "release", "done"}
      BY <2>3, <3>1 DEF GetRefCount, TypeOK, Goto
    <3> QED
      BY <1>1, <3>1, <3>2, <3>3, <3>4, <3>5
  <2>4. CASE CallOnPlayerDisconnect(w)
    BY <1>1, <2>4 DEF CallOnPlayerDisconnect, Returns, TypeOK, Goto
  <2>5. CASE Remove(w)
    BY <1>1, <2>5 DEF Remove, Returns, TypeOK, Goto
  <2>6. CASE \/ Enter(w) \/ ReadFails(w) \/ ReadData(w) \/ ReadEnd(w)
             \/ Warn(w) \/ WarnThenRefuse(w) \/ Process(w) \/ ProcessDisconnects(w)
             \/ Rearm(w) \/ ReleaseRef(w) \/ CheckRef(w)
    <3>1. at'[w] \notin InCall \ {"disconnect"}
      <4> USE DEF TypeOK, Goto, Call
      <4>1. CASE Enter(w) \/ ReadFails(w) \/ ReadEnd(w)
        BY <4>1 DEF Enter, ReadFails, ReadEnd
      <4>2. CASE ReadData(w) \/ CheckRef(w)
        BY <4>2 DEF ReadData, CheckRef
      <4>3. CASE \/ Warn(w) \/ WarnThenRefuse(w) \/ Process(w) \/ ProcessDisconnects(w)
                 \/ Rearm(w) \/ ReleaseRef(w)
        BY <4>3 DEF Warn, WarnThenRefuse, Process, ProcessDisconnects, Rearm, ReleaseRef
      <4> QED
        BY <2>6, <4>1, <4>2, <4>3
    <3> QED
      BY <3>1
  <2> QED
    BY <2>2, <2>3, <2>4, <2>5, <2>6 DEF Middle
<1> QED
  BY <1>1, <1>3, <1>4 DEF Returns

\* A package is taken from the pool with its reference.
LEMMA BeginCounted ==
  ASSUME CountInv, NEW w \in Workers, Begin(w)
  PROVE  CountInv'
<1> USE SetAssumption DEF CountInv
<1>1. PICK b \in Clients : /\ queued[b] > 0 /\ queued' = [queued EXCEPT ![b] = @ - 1]
                           /\ client' = [client EXCEPT ![w] = b]
  BY DEF Begin
<1>2. /\ at[w] = "idle" /\ at' = [at EXCEPT ![w] = "enter"] /\ client[w] = None
      /\ UNCHANGED <<setting, life, disc, ref, sock, clients, kernel, main, back, told>>
  BY DEF Begin, Goto, TypeOK
<1>3. Others(w) /\ at'[w] = "enter" /\ client'[w] = b
  BY <1>1, <1>2 DEF Others, TypeOK
<1>4. TypeOK'
  <2>1. queued' \in [Clients -> 0 .. MaxTasks]
    BY <1>1 DEF TypeOK
  <2>2. at' \in [Workers -> {"idle"} \cup InTask \cup InReturn \cup InCall]
        /\ client' \in [Workers -> Clients \cup {None}]
    BY <1>1, <1>2 DEF TypeOK, InTask
  <2>3. \A u \in Workers : at'[u] = "idle" <=> client'[u] = None
    BY <1>1, <1>3 DEF TypeOK, Others
  <2> QED
    BY <1>2, <2>1, <2>2, <2>3 DEF TypeOK, kernel, main
<1>5. ASSUME NEW c \in Clients PROVE ref'[c] = queued'[c] + Cardinality(Holders(c)')
  <2>1. /\ ref[c] = queued[c] + Cardinality(Holders(c)) /\ queued[c] \in Nat
        /\ ref'[c] = ref[c] /\ Cardinality(Holders(c)) \in Nat
    BY <1>2, HoldersCount DEF RefCounted, TypeOK
  <2>2. ~Holds(w, c) /\ (Holds(w, c)' <=> c = b)
    BY <1>2, <1>3 DEF Holds, InTask
  <2>3. CASE c = b
    <3>1. queued'[c] = queued[c] - 1
      BY <1>1, <2>3 DEF TypeOK
    <3>2. Holders(c)' = Holders(c) \cup {w} /\ w \notin Holders(c)
      BY <1>3, <2>2, <2>3, HoldersChange
    <3>3. Cardinality(Holders(c)') = Cardinality(Holders(c)) + 1
      BY <3>2, HoldersCount
    <3> QED
      BY <2>1, <3>1, <3>3
  <2>4. CASE c # b
    <3>1. queued'[c] = queued[c]
      BY <1>1, <2>4 DEF TypeOK
    <3>2. Holders(c)' = Holders(c)
      BY <1>3, <2>2, <2>4, HoldersChange
    <3> QED
      BY <2>1, <3>1, <3>2
  <2> QED
    BY <2>3, <2>4
<1>6. Returns'
  BY <1>2, <1>3 DEF Returns, Others, InCall
<1> QED
  BY <1>4, <1>5, <1>6 DEF RefCounted

\* The package goes back to the memory pool, released before.
LEMMA DoneCounted ==
  ASSUME CountInv, NEW w \in Workers, Done(w)
  PROVE  CountInv'
<1> USE SetAssumption DEF CountInv
<1>1. /\ at[w] = "done" /\ at' = [at EXCEPT ![w] = "idle"]
      /\ client' = [client EXCEPT ![w] = None] /\ back' = [back EXCEPT ![w] = None]
      /\ UNCHANGED <<setting, life, disc, ref, sock, clients, kernel, main, queued, told>>
  BY DEF Done, Goto
<1>2. Others(w) /\ at'[w] = "idle" /\ client'[w] = None
  BY <1>1 DEF Others, TypeOK
<1>3. TypeOK'
  <2>1. \A u \in Workers : at'[u] = "idle" <=> client'[u] = None
    BY <1>2 DEF TypeOK, Others
  <2>2. /\ at' \in [Workers -> {"idle"} \cup InTask \cup InReturn \cup InCall]
        /\ client' \in [Workers -> Clients \cup {None}]
        /\ back' \in [Workers -> {None, "release", "done"}]
    BY <1>1 DEF TypeOK
  <2> QED
    BY <1>1, <2>1, <2>2 DEF TypeOK, kernel, main
<1>4. \A c \in Clients : Holders(c)' = Holders(c)
  <2>1. \A c \in Clients : ~Holds(w, c) /\ ~Holds(w, c)'
    BY <1>1, <1>2 DEF Holds, InTask, InCall
  <2> QED
    BY <1>2, <2>1, HoldersChange
<1>5. Returns'
  BY <1>1, <1>2 DEF Returns, Others, InCall
<1> QED
  BY <1>1, <1>3, <1>4, <1>5 DEF RefCounted

\* The main thread counts a reference with each package, and no other step
\* outside of the packages matters to the counts.
LEMMA OutsideCounted ==
  ASSUME CountInv, Peer \/ MainStep
  PROVE  CountInv'
<1> USE SetAssumption DEF CountInv
<1>1. UNCHANGED threads /\ UNCHANGED setting
  BY DEF Peer, PeerSends, PeerHangsUp, Accept, MainStep, Poll, Register, ConnectDisconnects,
         Dispatch
<1>2. \A c \in Clients : Holders(c)' = Holders(c)
  BY <1>1 DEF threads, Holders
<1>3. /\ \A u \in Workers : at'[u] = "idle" <=> client'[u] = None
      /\ at' \in [Workers -> {"idle"} \cup InTask \cup InReturn \cup InCall]
      /\ client' \in [Workers -> Clients \cup {None}]
      /\ back' \in [Workers -> {None, "release", "done"}]
  BY <1>1 DEF threads, TypeOK
<1>4. (\A c \in Clients : disc[c] => disc'[c]) => Returns'
  <2>1. \A u \in Workers : at[u] \in InCall => client[u] \in Clients
    BY DEF TypeOK, InCall
  <2>2. UNCHANGED <<at, client, back>>
    BY <1>1 DEF threads
  <2> QED
    BY <2>1, <2>2 DEF Returns, InCall
<1>5. ASSUME NEW c \in Clients, PeerSends(c) \/ PeerHangsUp(c) PROVE CountInv'
  <2>1. UNCHANGED <<life, disc, ref, sock, clients, file, interest, main, queued, told>>
    BY <1>5 DEF PeerSends, PeerHangsUp
  <2>2. input' \in [Clients -> {"none", "data", "eof"}]
    <3>1. input' = [input EXCEPT ![c] = "data"] \/ input' = [input EXCEPT ![c] = "eof"]
      BY <1>5 DEF PeerSends, PeerHangsUp
    <3> QED
      BY <3>1 DEF TypeOK
  <2>3. TypeOK'
    BY <1>1, <1>3, <2>1, <2>2 DEF TypeOK, main
  <2> QED
    BY <1>2, <1>4, <2>1, <2>3 DEF RefCounted
<1>6. ASSUME NEW c \in Clients, Accept(c) PROVE CountInv'
  <2>1. /\ UNCHANGED <<disc, ref, input, interest, batch, queued, told>>
        /\ file' \in [Fds -> Clients \cup {None}] /\ sock' \in [Clients -> Fds \cup {None}]
        /\ life' \in [Clients -> {"unborn", "live", "freed"}]
        /\ clients' \in Seq(Clients) /\ adding' \in Clients \cup {None}
    BY <1>6 DEF Accept, TypeOK
  <2>2. TypeOK'
    BY <1>1, <1>3, <2>1 DEF TypeOK
  <2> QED
    BY <1>2, <1>4, <2>1, <2>2 DEF RefCounted
<1>7. ASSUME Poll PROVE CountInv'
  <2>1. PICK F \in SUBSET Ready \ {{}} :
          /\ batch' = {interest[f].ptr : f \in F}
          /\ interest' = [f \in Fds |-> IF f \in F THEN [interest[f] EXCEPT !.armed = FALSE]
                                                   ELSE interest[f]]
    BY <1>7 DEF Poll
  <2>2. \A f \in F : interest[f] \in Registration
    BY DEF Ready, TypeOK
  <2>3. batch' \subseteq Clients
    BY <2>1, <2>2 DEF Registration
  <2>4. interest' \in [Fds -> Registration \cup {None}]
    <3>1. \A f \in F : [interest[f] EXCEPT !.armed = FALSE] \in Registration
      BY <2>2 DEF Registration
    <3> QED
      BY <2>1, <3>1 DEF TypeOK
  <2>5. UNCHANGED <<setting, life, disc, ref, sock, clients, input, file, adding, queued, told>>
    BY <1>7 DEF Poll
  <2>6. TypeOK'
    BY <1>3, <2>3, <2>4, <2>5 DEF TypeOK
  <2> QED
    BY <1>2, <1>4, <2>5, <2>6 DEF RefCounted
<1>8. ASSUME Register PROVE CountInv'
  <2>1. interest' \in [Fds -> Registration \cup {None}] /\ adding' \in Clients \cup {None}
    <3>1. [ptr |-> adding, armed |-> TRUE] \in Registration
      BY <1>8 DEF Register, Registration, TypeOK
    <3> QED
      BY <1>8, <3>1 DEF Register, TypeOK
  <2>2. UNCHANGED <<setting, life, disc, ref, sock, clients, input, file, batch, queued, told>>
    BY <1>8 DEF Register
  <2>3. TypeOK'
    BY <1>3, <2>1, <2>2 DEF TypeOK
  <2> QED
    BY <1>2, <1>4, <2>2, <2>3 DEF RefCounted
<1>9. ASSUME ConnectDisconnects PROVE CountInv'
  <2> DEFINE Kept == UNCHANGED <<setting, life, ref, sock, clients, input, main, queued, told>>
  <2>1. /\ disc' \in [Clients -> BOOLEAN] /\ file' \in [Fds -> Clients \cup {None}]
        /\ interest' \in [Fds -> Registration \cup {None}]
        /\ \A c \in Clients : disc[c] => disc'[c]
        /\ Kept
    <3>1. PICK d \in Clients : /\ disc' = [disc EXCEPT ![d] = TRUE]
                               /\ file' = [file EXCEPT ![sock[d]] = None]
                               /\ interest' = [interest EXCEPT ![sock[d]] = None]
      BY <1>9 DEF ConnectDisconnects, PlayerDisconnect, Close
    <3>2. disc' \in [Clients -> BOOLEAN] /\ \A c \in Clients : disc[c] => disc'[c]
      BY <3>1 DEF TypeOK
    <3>3. file' \in [Fds -> Clients \cup {None}] /\ interest' \in [Fds -> Registration \cup {None}]
      BY <3>1 DEF TypeOK
    <3>4. Kept
      BY <1>9 DEF ConnectDisconnects
    <3> QED
      BY <3>2, <3>3, <3>4
  <2>2. TypeOK'
    BY <1>3, <2>1 DEF TypeOK, main
  <2> QED
    BY <1>2, <1>4, <2>1, <2>2 DEF RefCounted
<1>10. ASSUME NEW b \in Clients, Dispatch(b) PROVE CountInv'
  <2>1. /\ queued[b] < MaxTasks /\ batch' = batch \ {b}
        /\ ref' = [ref EXCEPT ![b] = ref[b] + 1]
        /\ queued' = [queued EXCEPT ![b] = queued[b] + 1]
        /\ UNCHANGED <<setting, life, disc, sock, clients, kernel, adding, told>>
    BY <1>10 DEF Dispatch
  <2>2. ref' \in [Clients -> Nat] /\ queued' \in [Clients -> 0 .. MaxTasks]
    BY <2>1 DEF TypeOK
  <2>3. TypeOK'
    BY <1>3, <2>1, <2>2 DEF TypeOK, kernel
  <2>4. RefCounted'
    <3> SUFFICES ASSUME NEW c \in Clients
                 PROVE  ref'[c] = queued'[c] + Cardinality(Holders(c)')
      BY DEF RefCounted
    <3>1. ref[c] = queued[c] + Cardinality(Holders(c)) /\ Cardinality(Holders(c)) \in Nat
      BY HoldersCount DEF RefCounted
    <3> QED
      BY <1>2, <2>1, <3>1 DEF TypeOK
  <2> QED
    BY <1>4, <2>1, <2>3, <2>4
<1> QED
  <2>1. setting.clients \subseteq Clients
    BY SettingAssumption DEF TypeOK, Setting
  <2> QED
    BY <1>5, <1>6, <1>7, <1>8, <1>9, <1>10, <2>1 DEF Peer, MainStep

\* Nobody is there at first.
LEMMA InitCounted == Init => CountInv
<1> SUFFICES ASSUME Init PROVE CountInv
  OBVIOUS
<1> USE SetAssumption DEF Init
<1>1. TypeOK
  BY DEF TypeOK
<1>2. \A c \in Clients : Holders(c) = {}
  BY DEF Holders, InTask, InCall
<1>3. RefCounted
  <2>1. Cardinality({}) = 0
    BY FS_EmptySet
  <2>2. \A c \in Clients : ref[c] = 0 /\ queued[c] = 0
    OBVIOUS
  <2> HIDE DEF Init
  <2> QED
    BY <1>2, <2>1, <2>2 DEF RefCounted
<1>4. Returns
  BY DEF Returns, InCall
<1> QED
  BY <1>1, <1>3, <1>4 DEF CountInv

\* Every step keeps types and counts.
LEMMA CountStep == CountInv /\ [Next]_vars => CountInv'
<1> SUFFICES ASSUME CountInv, [Next]_vars PROVE CountInv'
  OBVIOUS
<1>1. ASSUME NEW w \in Workers, Middle(w) PROVE CountInv'
  BY <1>1, MiddleTyped, MiddleCounted, MiddleReturns DEF CountInv
<1>2. CASE UNCHANGED vars
  <2>1. UNCHANGED <<at, client, back, ref, queued, disc>>
    BY <1>2 DEF vars, threads
  <2>2. TypeOK'
    BY <1>2 DEF CountInv, TypeOK, vars, kernel, main, threads
  <2>3. RefCounted' /\ Returns'
    BY <2>1 DEF CountInv, RefCounted, Holders, Returns
  <2> QED
    BY <2>2, <2>3 DEF CountInv
<1> QED
  BY <1>1, <1>2, BeginCounted, DoneCounted, OutsideCounted DEF Next, TaskStep, Middle

\* The invariant holds in every state of every behaviour.
THEOREM SessionsCounted == Spec => []CountInv
<1> QED
  BY InitCounted, CountStep, PTL DEF Spec

\* server.c:140-176, 410-428: a client has as many references as packages that
\* are queued or handled, for any number of workers and clients, in all settings.
THEOREM ReferencesCounted == Spec => []Inv
<1>1. CountInv => Inv
  BY DEF CountInv, Inv
<1> QED
  BY <1>1, SessionsCounted, PTL

-----------------------------------------------------------------------------
(* Births and the vector.                                                  *)

\* What a step in the middle of a package may do to the registrations: drop one,
\* or arm the one that the number of its own client has.
LEMMA MiddleInterest ==
  ASSUME TypeOK, NEW w \in Workers, Middle(w), NEW f \in Fds
  PROVE  \/ interest'[f] = interest[f]
         \/ interest'[f] = None
         \/ /\ at[w] \in {"rearm", "warn", "warnend"} /\ f = sock[client[w]]
            /\ interest[f] # None /\ interest'[f] = [ptr |-> client[w], armed |-> TRUE]
<1>1. interest \in [Fds -> Registration \cup {None}]
  BY DEF TypeOK
<1>2. CASE interest' = interest
  BY <1>2
<1>3. CASE \E g : interest' = [interest EXCEPT ![g] = None]
  BY <1>1, <1>3
<1>4. CASE Rearm(w) \/ Warn(w) \/ WarnThenRefuse(w)
  <2>1. at[w] \in {"rearm", "warn", "warnend"} /\ RearmSocket(client[w])
    BY <1>4 DEF Rearm, Warn, WarnThenRefuse
  <2> QED
    BY <1>1, <2>1 DEF RearmSocket
<1> QED
  BY <1>2, <1>3, <1>4, MiddleKeeps
  DEF Keeps, Disconnect, ProcessDisconnects, PlayerDisconnect, Close, Remove

\* A removal frees a client of the vector, and takes it out.
LEMMA Removes ==
  ASSUME TypeOK, Births, Listed, NEW w \in Workers, Remove(w)
  PROVE  \/ UNCHANGED <<life, clients, interest>> /\ Matches(client[w]) = {}
         \/ \E i \in DOMAIN clients :
              /\ clients[i] \in Clients /\ life[clients[i]] = "live"
              /\ sock[clients[i]] = sock[client[w]]
              /\ life' = [life EXCEPT ![clients[i]] = "freed"]
              /\ interest' = [interest EXCEPT ![sock[client[w]]] = None]
              /\ clients' = Without(clients, i)
<1>1. \A i \in DOMAIN clients : clients[i] \in Clients /\ life[clients[i]] = "live"
  BY LenProperties, ElementOfSeq DEF TypeOK, Listed, InVector
<1> QED
  BY <1>1 DEF Remove, Matches

\* What is taken out of the vector was there once, and the others stay.
LEMMA ListedWithout ==
  ASSUME TypeOK, Listed, NEW i \in DOMAIN clients,
         life' = [life EXCEPT ![clients[i]] = "freed"], clients' = Without(clients, i)
  PROVE  Listed'
<1> DEFINE n == Len(clients)
           r == Without(clients, i)
<1>1. clients \in Seq(Clients) /\ life \in [Clients -> {"unborn", "live", "freed"}]
  BY DEF TypeOK
<1>2. /\ n \in Nat /\ i \in 1 .. n /\ DOMAIN clients = 1 .. n /\ DOMAIN r = 1 .. n - 1
      /\ \A j \in 1 .. n - 1 : r[j] = IF j < i THEN clients[j] ELSE clients[j + 1]
      /\ \A j \in 1 .. n : clients[j] \in Clients
  BY <1>1, WithoutOne, ElementOfSeq
<1> HIDE DEF n, r
<1>3. clients' = r
  BY DEF r
<1>4. \A j, k \in 1 .. n : clients[j] = clients[k] => j = k
  BY <1>2 DEF Listed
<1>5. \A j, k \in 1 .. n - 1 : r[j] = r[k] => j = k
  <2> SUFFICES ASSUME NEW j \in 1 .. n - 1, NEW k \in 1 .. n - 1, r[j] = r[k] PROVE j = k
    OBVIOUS
  <2>1. CASE j < i /\ k < i
    BY <1>2, <1>4, <2>1
  <2>2. CASE j < i /\ ~(k < i)
    <3>1. clients[j] = clients[k + 1] /\ k + 1 \in 1 .. n /\ j \in 1 .. n
      BY <1>2, <2>2
    <3> QED
      BY <1>2, <1>4, <2>2, <3>1
  <2>3. CASE ~(j < i) /\ k < i
    <3>1. clients[j + 1] = clients[k] /\ j + 1 \in 1 .. n /\ k \in 1 .. n
      BY <1>2, <2>3
    <3> QED
      BY <1>2, <1>4, <2>3, <3>1
  <2>4. CASE ~(j < i) /\ ~(k < i)
    <3>1. clients[j + 1] = clients[k + 1] /\ j + 1 \in 1 .. n /\ k + 1 \in 1 .. n
      BY <1>2, <2>4
    <3> QED
      BY <1>2, <1>4, <3>1
  <2> QED
    BY <2>1, <2>2, <2>3, <2>4
<1>6. ASSUME NEW c \in Clients
      PROVE  (\E j \in 1 .. n - 1 : r[j] = c) <=> c # clients[i] /\ \E j \in 1 .. n : clients[j] = c
  <2>1. ASSUME NEW j \in 1 .. n - 1, r[j] = c
        PROVE  c # clients[i] /\ \E k \in 1 .. n : clients[k] = c
    <3>1. CASE j < i
      BY <1>2, <1>4, <2>1, <3>1
    <3>2. CASE ~(j < i)
      <4>1. c = clients[j + 1] /\ j + 1 \in 1 .. n /\ j + 1 # i
        BY <1>2, <2>1, <3>2
      <4> QED
        BY <1>2, <1>4, <4>1
    <3> QED
      BY <3>1, <3>2
  <2>2. ASSUME c # clients[i], NEW j \in 1 .. n, clients[j] = c
        PROVE  \E k \in 1 .. n - 1 : r[k] = c
    <3>1. j # i
      BY <2>2
    <3>2. CASE j < i
      <4>1. j \in 1 .. n - 1 /\ r[j] = c
        BY <1>2, <2>2, <3>2
      <4> QED
        BY <4>1
    <3>3. CASE j > i
      <4>1. j - 1 \in 1 .. n - 1 /\ ~(j - 1 < i) /\ j - 1 + 1 = j
        BY <1>2, <3>3
      <4>2. r[j - 1] = clients[j - 1 + 1]
        BY <1>2, <4>1
      <4> QED
        BY <2>2, <4>1, <4>2
    <3> QED
      BY <1>2, <3>1, <3>2, <3>3
  <2> QED
    BY <2>1, <2>2
<1>7. \A c \in Clients : life'[c] = "live" <=> c # clients[i] /\ life[c] = "live"
  BY <1>1, <1>2
<1>8. \A c \in Clients : life[c] = "live" <=> \E j \in 1 .. n : clients[j] = c
  BY <1>2 DEF Listed, InVector
<1>9. \A c \in Clients : InVector(c)' <=> \E j \in 1 .. n - 1 : r[j] = c
  BY <1>2, <1>3 DEF InVector
<1> QED
  BY <1>2, <1>3, <1>5, <1>6, <1>7, <1>8, <1>9 DEF Listed

\* Client_Create and VectorPush: a new client is the last of the vector.
LEMMA ListedAccept ==
  ASSUME TypeOK, Listed, NEW c \in Clients, life[c] # "live",
         life' = [life EXCEPT ![c] = "live"], clients' = Append(clients, c)
  PROVE  Listed'
<1>1. clients \in Seq(Clients) /\ life \in [Clients -> {"unborn", "live", "freed"}]
  BY DEF TypeOK
<1> DEFINE n == Len(clients)
<1>2. /\ n \in Nat /\ DOMAIN clients = 1 .. n
      /\ DOMAIN clients' = 1 .. n + 1 /\ clients'[n + 1] = c
      /\ \A j \in 1 .. n : clients'[j] = clients[j]
  BY <1>1, AppendProperties, LenProperties
<1> HIDE DEF n
<1>3. \A j \in 1 .. n : clients[j] # c
  BY <1>2 DEF Listed, InVector
<1>4. \A j, k \in 1 .. n : clients[j] = clients[k] => j = k
  BY <1>2 DEF Listed
<1>5. \A j, k \in 1 .. n + 1 : clients'[j] = clients'[k] => j = k
  <2>1. \A j \in 1 .. n + 1 : j = n + 1 \/ j \in 1 .. n
    BY <1>2
  <2> QED
    BY <1>2, <1>3, <1>4, <2>1
<1>6. \A d \in Clients : InVector(d)' <=> d = c \/ InVector(d)
  <2>1. \A j \in 1 .. n + 1 : j = n + 1 \/ j \in 1 .. n
    BY <1>2
  <2>2. n + 1 \in 1 .. n + 1 /\ 1 .. n \subseteq 1 .. n + 1
    BY <1>2
  <2> QED
    BY <1>2, <2>1, <2>2 DEF InVector
<1>7. \A d \in Clients : life'[d] = "live" <=> d = c \/ life[d] = "live"
  BY <1>1
<1> QED
  BY <1>2, <1>5, <1>6, <1>7 DEF Listed

\* Who has a package has a client that was born.
LEMMA Working ==
  ASSUME TypeOK, Births, NEW w \in Workers, at[w] # "idle"
  PROVE  client[w] \in Clients /\ Born(client[w]) /\ sock[client[w]] \in Fds
                               /\ adding # client[w]
<1>1. client[w] \in Clients
  BY DEF TypeOK
<1> QED
  BY <1>1 DEF Births, Fresh, Born

\* Steps in the middle of a package have to do with clients that are known.
LEMMA MiddleBirths ==
  ASSUME CountInv, Births, Listed, NEW w \in Workers, Middle(w)
  PROVE  Births' /\ Listed'
<1> USE DEF CountInv
<1>1. client' = client /\ at[w] # "idle" /\ client[w] \in Clients
  BY Moves
<1>2. Born(client[w])
  BY <1>1, Working
<1>3. UNCHANGED <<sock, batch, adding, queued>>
  BY MiddleKeeps DEF Keeps
<1>4. Listed' /\ \A c \in Clients : life'[c] = life[c] \/ (life[c] = "live" /\ life'[c] = "freed")
  <2>1. CASE UNCHANGED <<life, clients>>
    BY <2>1 DEF Listed, InVector
  <2>2. ASSUME NEW i \in DOMAIN clients, clients[i] \in Clients, life[clients[i]] = "live",
               life' = [life EXCEPT ![clients[i]] = "freed"], clients' = Without(clients, i)
        PROVE  Listed' /\ \A c \in Clients : life'[c] = life[c]
                                             \/ (life[c] = "live" /\ life'[c] = "freed")
    BY <2>2, ListedWithout DEF TypeOK
  <2>3. CASE Remove(w)
    BY <2>1, <2>2, <2>3, Removes
  <2> QED
    BY <2>1, <2>3, MiddleKeeps DEF Keeps
<1>5. \A c \in Clients : Fresh(c) => Fresh(c)'
  <2> SUFFICES ASSUME NEW c \in Clients, Fresh(c), NEW f \in Fds
               PROVE  interest'[f] = None \/ interest'[f].ptr # c
    BY <1>1, <1>3 DEF Fresh
  <2>1. c # client[w] /\ (interest[f] = None \/ interest[f].ptr # c)
    BY DEF Fresh
  <2>2. \/ interest'[f] = interest[f] \/ interest'[f] = None
        \/ interest'[f] = [ptr |-> client[w], armed |-> TRUE]
    BY MiddleInterest
  <2> QED
    BY <2>1, <2>2
<1>6. \A c \in Clients : life[c] = "unborn" => told'[c] = told[c] /\ disc'[c] = disc[c]
  <2>1. ASSUME NEW c \in Clients, life[c] = "unborn" PROVE told'[c] = told[c]
    BY <1>2, <2>1, MiddleKeeps DEF Keeps, CallOnPlayerDisconnect, TypeOK, Born
  <2>2. ASSUME NEW c \in Clients, life[c] = "unborn" PROVE disc'[c] = disc[c]
    <3>1. disc' = disc \/ \E d \in Clients : Born(d) /\ disc' = [disc EXCEPT ![d] = TRUE]
      BY <1>1, <1>2, MiddleKeeps
      DEF Keeps, Disconnect, ProcessDisconnects, PlayerDisconnect, Born
    <3> QED
      BY <2>2, <3>1 DEF Born, TypeOK
  <2> QED
    BY <2>1, <2>2
<1> QED
  BY <1>3, <1>4, <1>5, <1>6 DEF Births

\* Neither do the others know any other.
LEMMA BirthStep ==
  ASSUME CountInv, Births, Listed, [Next]_vars
  PROVE  Births' /\ Listed'
<1> USE DEF CountInv
<1>1. ASSUME UNCHANGED <<life, clients>> PROVE Listed'
  BY <1>1 DEF Listed, InVector
<1>2. ASSUME NEW w \in Workers, Begin(w) PROVE Births' /\ Listed'
  <2>1. PICK b \in Clients : queued[b] > 0 /\ queued' = [queued EXCEPT ![b] = @ - 1]
                             /\ client' = [client EXCEPT ![w] = b]
    BY <1>2 DEF Begin
  <2>2. UNCHANGED <<life, disc, sock, clients, interest, batch, adding, told>>
    BY <1>2 DEF Begin, kernel, main
  <2>3. \A c \in Clients : Fresh(c) => Fresh(c)'
    <3>1. \A c \in Clients : Fresh(c) => c # b
      BY <2>1 DEF Fresh
    <3> QED
      BY <2>1, <2>2, <3>1 DEF Fresh, TypeOK
  <2> QED
    BY <1>1, <2>2, <2>3 DEF Births
<1>3. ASSUME NEW w \in Workers, Done(w) PROVE Births' /\ Listed'
  <2>1. UNCHANGED <<life, disc, sock, clients, interest, batch, adding, queued, told>>
        /\ client' = [client EXCEPT ![w] = None]
    BY <1>3 DEF Done, kernel, main
  <2>2. \A c \in Clients : Fresh(c) => Fresh(c)'
    BY <2>1, SetAssumption DEF Fresh, TypeOK
  <2> QED
    BY <1>1, <2>1, <2>2 DEF Births
<1>4. ASSUME NEW c \in Clients, PeerSends(c) \/ PeerHangsUp(c) PROVE Births' /\ Listed'
  <2>1. UNCHANGED <<life, disc, sock, clients, interest, batch, adding, queued, client, told>>
    BY <1>4 DEF PeerSends, PeerHangsUp, main, threads
  <2> QED
    BY <1>1, <2>1 DEF Births, Fresh
<1>5. ASSUME NEW c \in Clients, Accept(c) PROVE Births' /\ Listed'
  <2>1. /\ life[c] = "unborn" /\ adding = None /\ adding' = c
        /\ life' = [life EXCEPT ![c] = "live"] /\ clients' = Append(clients, c)
        /\ UNCHANGED <<disc, interest, batch, queued, client, told>>
    BY <1>5 DEF Accept, threads
  <2>2. PICK f \in Fds : sock' = [sock EXCEPT ![c] = f]
    BY <1>5 DEF Accept
  <2>3. Listed'
    BY <2>1, ListedAccept
  <2>4. \A d \in Clients : Fresh(d)' <=> Fresh(d)
    BY <2>1 DEF Fresh
  <2> QED
    BY <2>1, <2>2, <2>3, <2>4 DEF Births, TypeOK
<1>6. ASSUME Poll PROVE Births' /\ Listed'
  <2>1. PICK F \in SUBSET Ready \ {{}} :
          /\ batch' = {interest[f].ptr : f \in F}
          /\ interest' = [f \in Fds |-> IF f \in F THEN [interest[f] EXCEPT !.armed = FALSE]
                                                   ELSE interest[f]]
    BY <1>6 DEF Poll
  <2>2. UNCHANGED <<life, disc, sock, clients, adding, queued, client, told>>
    BY <1>6 DEF Poll, threads
  <2>3. \A f \in F : f \in Fds /\ interest[f] # None /\ interest[f] \in Registration
    BY DEF Ready, TypeOK
  <2>4. \A c \in Clients : Fresh(c) => Fresh(c)'
    <3> SUFFICES ASSUME NEW c \in Clients, Fresh(c)
                 PROVE  c \notin batch' /\ \A f \in Fds : interest'[f] = None \/ interest'[f].ptr # c
      BY <2>2 DEF Fresh
    <3>1. \A f \in F : interest[f].ptr # c
      BY <2>3 DEF Fresh
    <3>2. \A f \in F : interest'[f].ptr = interest[f].ptr
      BY <2>1, <2>3 DEF Registration
    <3>3. \A f \in Fds \ F : interest'[f] = interest[f]
      BY <2>1
    <3> QED
      BY <2>1, <3>1, <3>2, <3>3 DEF Fresh
  <2> QED
    BY <1>1, <2>2, <2>4 DEF Births
<1>7. ASSUME Register PROVE Births' /\ Listed'
  <2>1. /\ UNCHANGED <<life, disc, sock, clients, batch, queued, client, told>>
        /\ adding # None /\ adding \in Clients /\ adding' = None
        /\ \/ interest' = interest
           \/ interest' = [interest EXCEPT ![sock[adding]] = [ptr |-> adding, armed |-> TRUE]]
    BY <1>7 DEF Register, TypeOK, threads
  <2>2. \A c \in Clients : life[c] = "unborn" => c # adding
    BY DEF Births
  <2>3. \A c \in Clients : Fresh(c) /\ c # adding => Fresh(c)'
    BY <2>1 DEF Fresh, TypeOK
  <2> QED
    BY <1>1, <2>1, <2>2, <2>3, SetAssumption DEF Births
<1>8. ASSUME ConnectDisconnects PROVE Births' /\ Listed'
  <2>1. UNCHANGED <<life, sock, clients, batch, adding, queued, client, told>>
    BY <1>8 DEF ConnectDisconnects, main, threads
  <2>2. PICK d \in Clients : /\ life[d] = "live" /\ disc' = [disc EXCEPT ![d] = TRUE]
                             /\ interest' = [interest EXCEPT ![sock[d]] = None]
    BY <1>8 DEF ConnectDisconnects, PlayerDisconnect, Close
  <2>3. \A c \in Clients : Fresh(c) => Fresh(c)'
    BY <2>1, <2>2 DEF Fresh, TypeOK
  <2>4. \A c \in Clients : life[c] = "unborn" => disc'[c] = disc[c]
    BY <2>2 DEF TypeOK
  <2> QED
    BY <1>1, <2>1, <2>3, <2>4 DEF Births
<1>9. ASSUME NEW b \in Clients, Dispatch(b) PROVE Births' /\ Listed'
  <2>1. /\ b \in batch /\ batch' = batch \ {b} /\ queued' = [queued EXCEPT ![b] = queued[b] + 1]
        /\ UNCHANGED <<life, disc, sock, clients, interest, adding, client, told>>
    BY <1>9 DEF Dispatch, kernel, threads
  <2>2. \A c \in Clients : Fresh(c) => Fresh(c)'
    BY <2>1 DEF Fresh, TypeOK
  <2> QED
    BY <1>1, <2>1, <2>2 DEF Births
<1>10. CASE UNCHANGED vars
  BY <1>10 DEF vars, kernel, main, threads, Births, Fresh, Listed, InVector
<1>11. setting.clients \subseteq Clients
  BY SettingAssumption DEF TypeOK, Setting
<1>12. ASSUME NEW w \in Workers, Middle(w) PROVE Births' /\ Listed'
  BY <1>12, MiddleBirths
<1> QED
  BY <1>2, <1>3, <1>4, <1>5, <1>6, <1>7, <1>8, <1>9, <1>10, <1>11, <1>12
  DEF Next, Peer, MainStep, TaskStep, Middle

-----------------------------------------------------------------------------
(* Descriptor numbers.                                                     *)

\* A disconnection closes the number and marks the client.
LEMMA SocketsClose ==
  ASSUME TypeOK, Births, Sockets, NEW d \in Clients, Born(d),
         disc' = [disc EXCEPT ![d] = TRUE], Close(sock[d]),
         UNCHANGED <<setting, life, sock, adding>>
  PROVE  Sockets'
<1> SUFFICES ASSUME ~setting.arrivals
             PROVE  /\ \A c, e \in Clients : Born(c) /\ Born(e) /\ sock[c] = sock[e] => c = e
                    /\ \A c \in Clients : Born(c) =>
                         /\ file'[sock[c]] = IF disc'[c] THEN None ELSE c
                         /\ interest'[sock[c]] = None <=> disc'[c] \/ adding = c
                    /\ \A f \in Fds : interest'[f] # None =>
                         Born(interest'[f].ptr) /\ sock[interest'[f].ptr] = f
  BY DEF Sockets, Born
<1>1. /\ file' = [file EXCEPT ![sock[d]] = None] /\ interest' = [interest EXCEPT ![sock[d]] = None]
  BY DEF Close
<1>2. /\ \A c, e \in Clients : Born(c) /\ Born(e) /\ sock[c] = sock[e] => c = e
      /\ \A c \in Clients : Born(c) =>
           /\ file[sock[c]] = IF disc[c] THEN None ELSE c
           /\ interest[sock[c]] = None <=> disc[c] \/ adding = c
      /\ \A f \in Fds : interest[f] # None =>
           Born(interest[f].ptr) /\ sock[interest[f].ptr] = f
  BY DEF Sockets
<1>3. \A c \in Clients : Born(c) => sock[c] \in Fds
  BY DEF Births, Born
<1>4. ASSUME NEW c \in Clients, Born(c)
      PROVE  /\ file'[sock[c]] = IF disc'[c] THEN None ELSE c
             /\ interest'[sock[c]] = None <=> disc'[c] \/ adding = c
  <2>1. CASE c = d
    BY <1>1, <1>3, <1>4, <2>1 DEF TypeOK
  <2>2. CASE c # d
    <3>1. sock[c] # sock[d] /\ disc'[c] = disc[c]
      BY <1>2, <1>4, <2>2 DEF TypeOK
    <3> QED
      BY <1>1, <1>2, <1>3, <1>4, <3>1 DEF TypeOK
  <2> QED
    BY <2>1, <2>2
<1>5. \A f \in Fds : interest'[f] # None => interest'[f] = interest[f]
  BY <1>1 DEF TypeOK
<1> QED
  BY <1>2, <1>4, <1>5

\* Other steps keep what is open, and register at most what is open.
LEMMA SocketsKept ==
  ASSUME TypeOK, Births, Sockets, UNCHANGED <<setting, sock, disc, file, adding>>,
         \A c \in Clients : Born(c)' <=> Born(c),
         \A f \in Fds : interest'[f] = None <=> interest[f] = None,
         \A f \in Fds : interest'[f] # None =>
            \/ interest'[f].ptr = interest[f].ptr
            \/ interest'[f].ptr \in Clients /\ Born(interest'[f].ptr) /\ sock[interest'[f].ptr] = f
  PROVE  Sockets'
<1>1. \A f \in Fds : interest[f] # None => interest[f].ptr \in Clients
  BY DEF TypeOK, Registration
<1>2. \A c \in Clients : Born(c) => sock[c] \in Fds
  BY DEF Births, Born
<1>3. ASSUME ~setting.arrivals
      PROVE  /\ \A c, e \in Clients : Born(c) /\ Born(e) /\ sock[c] = sock[e] => c = e
             /\ \A c \in Clients : Born(c) =>
                  /\ file[sock[c]] = IF disc[c] THEN None ELSE c
                  /\ interest'[sock[c]] = None <=> disc[c] \/ adding = c
             /\ \A f \in Fds : interest'[f] # None =>
                  /\ interest'[f].ptr \in Clients /\ Born(interest'[f].ptr)
                  /\ sock[interest'[f].ptr] = f
  BY <1>1, <1>2, <1>3 DEF Sockets
<1> QED
  BY <1>3 DEF Sockets, Born

\* Steps in the middle of a package.
LEMMA MiddleSockets ==
  ASSUME SocketInv, NEW w \in Workers, Middle(w)
  PROVE  Sockets'
<1> USE DEF SocketInv, CountInv
<1>1. UNCHANGED <<setting, sock, adding>> /\ client[w] \in Clients /\ Born(client[w])
      /\ adding # client[w]
  BY Moves, MiddleKeeps, Working DEF Keeps
<1>2. CASE Disconnect(w) \/ ProcessDisconnects(w)
  <2>1. PICK d \in Clients : Born(d) /\ disc' = [disc EXCEPT ![d] = TRUE] /\ Close(sock[d])
    BY <1>1, <1>2 DEF Disconnect, ProcessDisconnects, PlayerDisconnect, Born
  <2>2. UNCHANGED life
    BY <1>2 DEF Disconnect, ProcessDisconnects
  <2> QED
    BY <1>1, <2>1, <2>2, SocketsClose
<1>3. CASE ~(Disconnect(w) \/ ProcessDisconnects(w))
  <2>1. UNCHANGED <<disc, file>>
    BY <1>3, MiddleKeeps DEF Keeps
  <2>2. \A c \in Clients : Born(c)' <=> Born(c)
    <3>1. UNCHANGED life \/ Remove(w)
      BY MiddleKeeps DEF Keeps
    <3> QED
      BY <3>1, Removes DEF Born, TypeOK
  <2>3. CASE Remove(w)
    <3>1. disc[client[w]] /\ interest \in [Fds -> Registration \cup {None}]
      BY <2>3 DEF Remove, Returns, InCall, TypeOK
    <3>2. ~setting.arrivals => interest' = interest
      <4>1. ~setting.arrivals => interest[sock[client[w]]] = None
        BY <1>1, <3>1 DEF Sockets
      <4>2. interest' = interest \/ interest' = [interest EXCEPT ![sock[client[w]]] = None]
        BY <2>3, Removes
      <4> QED
        BY <3>1, <4>1, <4>2
    <3>3. CASE setting.arrivals
      BY <1>1, <3>3 DEF Sockets
    <3>4. CASE ~setting.arrivals
      BY <1>1, <2>1, <2>2, <3>2, <3>4, SocketsKept
    <3> QED
      BY <3>3, <3>4
  <2>4. CASE ~Remove(w)
    <3>1. interest' = interest \/ RearmSocket(client[w])
      <4>1. Rearm(w) \/ Warn(w) \/ WarnThenRefuse(w) \/ UNCHANGED interest
        BY <1>3, <2>4, MiddleKeeps DEF Keeps
      <4> QED
        BY <4>1 DEF Rearm, Warn, WarnThenRefuse
    <3>2. [ptr |-> client[w], armed |-> TRUE] # None
      <4>1. [ptr |-> client[w], armed |-> TRUE] \in Registration
        BY <1>1 DEF Registration
      <4> QED
        BY <4>1, SetAssumption
    <3>3. \A f \in Fds : \/ interest'[f] = interest[f]
                         \/ /\ interest[f] # None /\ f = sock[client[w]]
                            /\ interest'[f] = [ptr |-> client[w], armed |-> TRUE]
      BY <3>1 DEF RearmSocket, TypeOK
    <3>4. /\ \A f \in Fds : interest'[f] = None <=> interest[f] = None
          /\ \A f \in Fds : interest'[f] # None =>
               \/ interest'[f].ptr = interest[f].ptr
               \/ /\ interest'[f].ptr \in Clients /\ Born(interest'[f].ptr)
                  /\ sock[interest'[f].ptr] = f
      BY <1>1, <3>2, <3>3
    <3> QED
      BY <1>1, <2>1, <2>2, <3>4, SocketsKept
  <2> QED
    BY <2>3, <2>4
<1> QED
  BY <1>2, <1>3

\* accept returns a number that nobody has.
LEMMA SocketsAccept ==
  ASSUME SocketInv, NEW c \in Clients, Accept(c)
  PROVE  Sockets'
<1> USE DEF SocketInv, CountInv
<1>1. /\ life[c] = "unborn" /\ adding = None /\ adding' = c
      /\ life' = [life EXCEPT ![c] = "live"]
      /\ UNCHANGED <<setting, disc, interest>>
      /\ ~setting.arrivals => \A d \in Clients : ~disc[d]
  BY DEF Accept
<1>2. PICK f \in Fds : /\ file[f] = None /\ file' = [file EXCEPT ![f] = c]
                       /\ sock' = [sock EXCEPT ![c] = f]
  BY DEF Accept
<1>3. \A d \in Clients : Born(d)' <=> d = c \/ Born(d)
  BY <1>1 DEF Born, TypeOK
<1>4. ~Born(c) /\ \A d \in Clients : Born(d) => sock[d] \in Fds
  BY <1>1 DEF Births, Born
<1>5. \A d \in Clients : Born(d) => sock'[d] = sock[d]
  BY <1>2, <1>4 DEF TypeOK
<1>6. sock'[c] = f /\ file'[f] = c /\ \A g \in Fds \ {f} : file'[g] = file[g]
  BY <1>2 DEF TypeOK
<1>7. interest' = interest /\ \A g \in Fds : interest[g] # None => interest[g].ptr \in Clients
  BY <1>1 DEF TypeOK, Registration
<1>8. ASSUME ~setting.arrivals
      PROVE  /\ \A d, e \in Clients : Born(d)' /\ Born(e)' /\ sock'[d] = sock'[e] => d = e
             /\ \A d \in Clients : Born(d)' =>
                  /\ file'[sock'[d]] = IF disc'[d] THEN None ELSE d
                  /\ interest'[sock'[d]] = None <=> disc'[d] \/ adding' = d
             /\ \A g \in Fds : interest'[g] # None =>
                  Born(interest[g].ptr)' /\ sock'[interest[g].ptr] = g
  <2>1. /\ \A d, e \in Clients : Born(d) /\ Born(e) /\ sock[d] = sock[e] => d = e
        /\ \A d \in Clients : Born(d) =>
             /\ file[sock[d]] = IF disc[d] THEN None ELSE d
             /\ interest[sock[d]] = None <=> disc[d] \/ adding = d
        /\ \A g \in Fds : interest[g] # None =>
             Born(interest[g].ptr) /\ sock[interest[g].ptr] = g
    BY <1>8 DEF Sockets
  <2>2. \A d \in Clients : Born(d) => sock[d] # f
    BY <1>1, <1>2, <1>8, <2>1, SetAssumption
  <2>3. interest[f] = None
    BY <1>7, <2>1, <2>2
  <2>4. \A d, e \in Clients : Born(d)' /\ Born(e)' /\ sock'[d] = sock'[e] => d = e
    BY <1>3, <1>5, <1>6, <2>1, <2>2
  <2>5. ASSUME NEW d \in Clients, Born(d)'
        PROVE  /\ file'[sock'[d]] = IF disc'[d] THEN None ELSE d
               /\ interest'[sock'[d]] = None <=> disc'[d] \/ adding' = d
    <3>1. CASE d = c
      BY <1>1, <1>6, <1>8, <2>3, <3>1
    <3>2. CASE d # c
      <4>1. Born(d) /\ sock'[d] = sock[d] /\ sock[d] \in Fds \ {f}
        BY <1>3, <1>4, <1>5, <2>2, <2>5, <3>2
      <4>2. adding # d /\ adding' # d /\ disc'[d] = disc[d]
        BY <1>1, <3>2, SetAssumption
      <4> QED
        BY <1>6, <1>7, <2>1, <4>1, <4>2
    <3> QED
      BY <3>1, <3>2
  <2>6. \A g \in Fds : interest'[g] # None => Born(interest[g].ptr)' /\ sock'[interest[g].ptr] = g
    BY <1>3, <1>5, <1>7, <2>1
  <2> QED
    BY <2>4, <2>5, <2>6
<1> QED
  BY <1>1, <1>7, <1>8 DEF Sockets, Born

\* The end of an accept registers the number, if it is still open.
LEMMA SocketsRegister ==
  ASSUME SocketInv, Register
  PROVE  Sockets'
<1> USE DEF SocketInv, CountInv
<1> DEFINE a == adding
<1>1. /\ a \in Clients /\ adding' = None
      /\ UNCHANGED <<setting, life, disc, sock, file>>
  BY DEF Register, TypeOK
<1>2. interest' = IF file[sock[a]] = None THEN interest
                  ELSE [interest EXCEPT ![sock[a]] = [ptr |-> a, armed |-> TRUE]]
  BY DEF Register
<1>3. Born(a) /\ sock[a] \in Fds
  BY <1>1 DEF Births, Born
<1>4. [ptr |-> a, armed |-> TRUE] # None
  <2>1. [ptr |-> a, armed |-> TRUE] \in Registration
    BY <1>1 DEF Registration
  <2> QED
    BY <2>1, SetAssumption
<1>5. \A c \in Clients : Born(c) => sock[c] \in Fds
  BY DEF Births, Born
<1>6. interest \in [Fds -> Registration \cup {None}] /\ None \notin Clients
  BY SetAssumption DEF TypeOK
<1> HIDE DEF a
<1>7. ASSUME ~setting.arrivals
      PROVE  /\ \A d, e \in Clients : Born(d) /\ Born(e) /\ sock[d] = sock[e] => d = e
             /\ \A d \in Clients : Born(d) =>
                  /\ file[sock[d]] = IF disc[d] THEN None ELSE d
                  /\ interest'[sock[d]] = None <=> disc[d]
             /\ \A g \in Fds : interest'[g] # None =>
                  Born(interest'[g].ptr) /\ sock[interest'[g].ptr] = g
  <2>1. /\ \A d, e \in Clients : Born(d) /\ Born(e) /\ sock[d] = sock[e] => d = e
        /\ \A d \in Clients : Born(d) =>
             /\ file[sock[d]] = IF disc[d] THEN None ELSE d
             /\ interest[sock[d]] = None <=> disc[d] \/ a = d
        /\ \A g \in Fds : interest[g] # None =>
             Born(interest[g].ptr) /\ sock[interest[g].ptr] = g
    BY <1>7 DEF Sockets, a
  <2>2. CASE disc[a]
    <3>1. interest' = interest /\ interest[sock[a]] = None
      BY <1>1, <1>2, <1>3, <2>1, <2>2
    <3> QED
      BY <2>1, <2>2, <3>1
  <2>3. CASE ~disc[a]
    <3>1. interest' = [interest EXCEPT ![sock[a]] = [ptr |-> a, armed |-> TRUE]]
      BY <1>1, <1>2, <1>3, <1>6, <2>1, <2>3
    <3>2. /\ interest'[sock[a]] = [ptr |-> a, armed |-> TRUE]
          /\ \A g \in Fds : g # sock[a] => interest'[g] = interest[g]
      BY <1>3, <1>6, <3>1
    <3>3. \A d \in Clients : Born(d) => (interest'[sock[d]] = None <=> disc[d])
      BY <1>1, <1>3, <1>4, <1>5, <2>1, <2>3, <3>2
    <3>4. \A g \in Fds : interest'[g] # None =>
                  Born(interest'[g].ptr) /\ sock[interest'[g].ptr] = g
      BY <1>3, <2>1, <3>2
    <3> QED
      BY <2>1, <3>3, <3>4
  <2> QED
    BY <2>2, <2>3
<1> QED
  BY <1>1, <1>6, <1>7 DEF Sockets, Born

\* An event leaves the registration where it is, disarmed.
LEMMA PollEvents ==
  ASSUME TypeOK, Poll
  PROVE  \E F \in SUBSET Fds :
           /\ batch = {} /\ batch' = {interest[f].ptr : f \in F}
           /\ \A f \in F : /\ interest[f] # None /\ interest[f].armed
                           /\ interest'[f] # None /\ ~interest'[f].armed
                           /\ interest'[f].ptr = interest[f].ptr
           /\ \A f \in Fds \ F : interest'[f] = interest[f]
<1>1. PICK F \in SUBSET Ready \ {{}} :
        /\ batch' = {interest[f].ptr : f \in F}
        /\ interest' = [f \in Fds |-> IF f \in F THEN [interest[f] EXCEPT !.armed = FALSE]
                                                 ELSE interest[f]]
  BY DEF Poll
<1>2. batch = {}
  BY DEF Poll
<1>3. ASSUME NEW f \in F
      PROVE  /\ f \in Fds /\ interest[f] # None /\ interest[f].armed
             /\ interest'[f] # None /\ ~interest'[f].armed
             /\ interest'[f].ptr = interest[f].ptr
  <2>1. f \in Fds /\ interest[f] # None /\ interest[f].armed /\ interest[f] \in Registration
    BY <1>3 DEF Ready, TypeOK
  <2>2. interest'[f] = [interest[f] EXCEPT !.armed = FALSE]
    BY <1>1, <1>3, <2>1
  <2>3. /\ interest'[f] \in Registration /\ interest'[f].ptr = interest[f].ptr
        /\ ~interest'[f].armed
    BY <2>1, <2>2 DEF Registration
  <2> QED
    BY <2>1, <2>3, SetAssumption
<1>4. \A f \in Fds \ F : interest'[f] = interest[f]
  BY <1>1
<1> QED
  BY <1>1, <1>2, <1>3, <1>4

\* Every step keeps the descriptor numbers apart.
LEMMA SocketStep == SocketInv /\ [Next]_vars => SocketInv'
<1> SUFFICES ASSUME SocketInv, [Next]_vars PROVE SocketInv'
  OBVIOUS
<1>1. CountInv' /\ Births' /\ Listed'
  BY CountStep, BirthStep DEF SocketInv
<1> USE DEF SocketInv, CountInv
<1>2. ASSUME UNCHANGED <<setting, life, sock, disc, file, adding, interest>> PROVE Sockets'
  BY <1>2 DEF Sockets, Born
<1>3. ASSUME NEW w \in Workers, Begin(w) \/ Done(w) PROVE Sockets'
  BY <1>2, <1>3 DEF Begin, Done, kernel, main
<1>4. ASSUME NEW c \in Clients, PeerSends(c) \/ PeerHangsUp(c) \/ Dispatch(c) PROVE Sockets'
  BY <1>2, <1>4 DEF PeerSends, PeerHangsUp, Dispatch, kernel, main
<1>5. ASSUME Poll PROVE Sockets'
  <2>1. UNCHANGED <<setting, life, sock, disc, file, adding>>
    BY <1>5 DEF Poll
  <2>2. \A c \in Clients : Born(c)' <=> Born(c)
    BY <2>1 DEF Born
  <2>3. \A f \in Fds : /\ interest'[f] = None <=> interest[f] = None
                       /\ interest[f] # None => interest'[f].ptr = interest[f].ptr
    BY <1>5, PollEvents
  <2> QED
    BY <2>1, <2>2, <2>3, SocketsKept
<1>6. ASSUME ConnectDisconnects PROVE Sockets'
  <2>1. UNCHANGED <<setting, life, sock, adding>>
    BY <1>6 DEF ConnectDisconnects, main
  <2>2. PICK d \in Clients : Born(d) /\ disc' = [disc EXCEPT ![d] = TRUE] /\ Close(sock[d])
    BY <1>6 DEF ConnectDisconnects, PlayerDisconnect, Born
  <2> QED
    BY <2>1, <2>2, SocketsClose
<1>7. ASSUME UNCHANGED vars PROVE Sockets'
  <2>1. UNCHANGED <<setting, life, sock, disc, file, adding, interest>>
    BY <1>7 DEF vars, kernel, main
  <2> QED
    BY <1>2, <2>1
<1>8. setting.clients \subseteq Clients
  BY SettingAssumption DEF TypeOK, Setting
<1>9. ASSUME NEW w \in Workers, Middle(w) PROVE Sockets'
  BY <1>9, MiddleSockets
<1>10. ASSUME Register PROVE Sockets'
  BY <1>10, SocketsRegister
<1>11. ASSUME NEW c \in Clients, Accept(c) PROVE Sockets'
  BY <1>11, SocketsAccept
<1>12. Sockets'
  BY <1>3, <1>4, <1>5, <1>6, <1>7, <1>8, <1>9, <1>10, <1>11
  DEF Next, Peer, MainStep, TaskStep, Middle
<1> QED
  BY <1>1, <1>12

\* There is no connection at first.
LEMMA InitSockets == Init => SocketInv
<1> SUFFICES ASSUME Init PROVE SocketInv
  OBVIOUS
<1>1. CountInv
  BY InitCounted
<1>2. Births
  BY SetAssumption DEF Init, Births, Fresh
<1>3. Listed
  BY DEF Init, Listed, InVector
<1>4. Sockets
  BY DEF Init, Sockets, Born
<1> QED
  BY <1>1, <1>2, <1>3, <1>4 DEF SocketInv

-----------------------------------------------------------------------------
(* One event of a client at a time.                                        *)

\* No step in the middle of a package starts a task, and the rearm ends it.
LEMMA MiddleTasks ==
  ASSUME TypeOK, Returns, NEW w \in Workers, Middle(w)
  PROVE  /\ at'[w] \in InTask => at[w] \in InTask
         /\ \A c \in Clients : Tasks(c)' \subseteq Tasks(c)
         /\ at[w] = "rearm" => at'[w] = "release"
<1>1. Others(w) /\ client' = client
  BY Moves
<1>2. at'[w] \in InTask => at[w] \in InTask
  <2> USE DEF TypeOK, InTask, InReturn, InCall, Goto, Call
  <2>1. CASE Enter(w) \/ ReadFails(w) \/ ReadData(w) \/ ReadEnd(w) \/ Process(w)
    BY <2>1 DEF Enter, ReadFails, ReadData, ReadEnd, Process
  <2>2. CASE Warn(w) \/ WarnThenRefuse(w) \/ ProcessDisconnects(w) \/ Rearm(w)
    BY <2>2 DEF Warn, WarnThenRefuse, ProcessDisconnects, Rearm
  <2>3. CASE ReleaseRef(w) \/ CheckRef(w) \/ Disconnect(w) \/ CallOnPlayerDisconnect(w)
    BY <2>3 DEF ReleaseRef, CheckRef, Disconnect, CallOnPlayerDisconnect
  <2>4. CASE GetRefCount(w) \/ Remove(w)
    <3>1. back[w] \in {"release", "done"}
      BY <2>4 DEF GetRefCount, Remove, Returns
    <3> QED
      BY <2>4, <3>1 DEF GetRefCount, Remove
  <2> QED
    BY <2>1, <2>2, <2>3, <2>4 DEF Middle
<1>3. at[w] = "rearm" => at'[w] = "release"
  BY DEF Middle, Enter, ReadFails, ReadData, ReadEnd, Warn, WarnThenRefuse, Process,
         ProcessDisconnects, Rearm, ReleaseRef, CheckRef, Disconnect, GetRefCount,
         CallOnPlayerDisconnect, Remove, Goto, TypeOK
<1>4. \A u \in Workers : at'[u] \in InTask => at[u] \in InTask
  BY <1>1, <1>2 DEF Others
<1> QED
  BY <1>1, <1>2, <1>3, <1>4 DEF Tasks

\* A step in the middle of a package arms only its own client, and only if its
\* number is registered.
LEMMA MiddleArmed ==
  ASSUME TypeOK, NEW w \in Workers, Middle(w), NEW c \in Clients, Armed(c)', ~Armed(c)
  PROVE  /\ c = client[w] /\ at[w] \in {"rearm", "warn", "warnend"}
         /\ interest[sock[client[w]]] # None
<1>1. PICK f \in Fds : interest'[f] # None /\ interest'[f].ptr = c /\ interest'[f].armed
  BY DEF Armed
<1>2. interest'[f] # interest[f]
  BY <1>1 DEF Armed
<1>3. /\ at[w] \in {"rearm", "warn", "warnend"} /\ f = sock[client[w]]
      /\ interest[f] # None /\ interest'[f] = [ptr |-> client[w], armed |-> TRUE]
  BY <1>1, <1>2, MiddleInterest
<1> QED
  BY <1>1, <1>3

\* Without warnings a step in the middle of a package is not about one.
LEMMA MiddleWarned ==
  ASSUME TypeOK, NEW w \in Workers, Middle(w), ~setting.bursts, at'[w] \in {"warn", "warnend"},
         Returns
  PROVE  FALSE
<1> USE DEF TypeOK, Goto, Call, InTask, InReturn, InCall
<1>1. CASE Enter(w) \/ ReadFails(w) \/ ReadData(w) \/ ReadEnd(w) \/ Process(w)
  BY <1>1 DEF Enter, ReadFails, ReadData, ReadEnd, Process
<1>2. CASE Warn(w) \/ WarnThenRefuse(w) \/ ProcessDisconnects(w) \/ Rearm(w)
  BY <1>2 DEF Warn, WarnThenRefuse, ProcessDisconnects, Rearm
<1>3. CASE ReleaseRef(w) \/ CheckRef(w) \/ Disconnect(w) \/ CallOnPlayerDisconnect(w)
  BY <1>3 DEF ReleaseRef, CheckRef, Disconnect, CallOnPlayerDisconnect
<1>4. CASE GetRefCount(w) \/ Remove(w)
  <2>1. back[w] \in {"release", "done"}
    BY <1>4 DEF GetRefCount, Remove, Returns
  <2> QED
    BY <1>4, <2>1 DEF GetRefCount, Remove
<1> QED
  BY <1>1, <1>2, <1>3, <1>4 DEF Middle

\* A client keeps its one event as long as no new one is made.
LEMMA OneEventKept ==
  ASSUME NEW c \in Clients, OneEventOf(c), Tasks(c)' \subseteq Tasks(c), queued'[c] = queued[c],
         c \in batch' => c \in batch, Armed(c)' => Armed(c)
  PROVE  OneEventOf(c)'
BY DEF OneEventOf

\* A task that is over leaves its client without any event.
LEMMA TaskOver ==
  ASSUME NEW w \in Workers, NEW c \in Clients, OneEventOf(c), w \in Tasks(c),
         Tasks(c)' \subseteq Tasks(c), at'[w] \notin InTask
  PROVE  /\ Tasks(c)' = {} /\ queued[c] = 0 /\ c \notin batch /\ ~Armed(c)
BY DEF OneEventOf, Tasks

\* A task makes no second event of its client: the rearm comes last.
LEMMA MiddleOneEvent ==
  ASSUME SocketInv, OneEvent, NEW w \in Workers, Middle(w)
  PROVE  OneEvent'
<1> USE DEF SocketInv, CountInv
<1>1. /\ UNCHANGED <<setting, batch, queued>> /\ Others(w) /\ client' = client
      /\ at[w] # "idle" /\ client[w] \in Clients
  BY Moves, MiddleKeeps DEF Keeps
<1> SUFFICES ASSUME ~setting.bursts, ~setting.arrivals
             PROVE  /\ \A c \in Clients : OneEventOf(c)'
                    /\ \A u \in Workers : at'[u] \notin {"warn", "warnend"}
  BY <1>1 DEF OneEvent
<1>2. /\ \A c \in Clients : OneEventOf(c)
      /\ \A u \in Workers : at[u] \notin {"warn", "warnend"}
  BY DEF OneEvent
<1>3. \A u \in Workers : at'[u] \notin {"warn", "warnend"}
  BY <1>1, <1>2, MiddleWarned DEF Others
<1>4. ASSUME NEW c \in Clients PROVE OneEventOf(c)'
  <2>1. Tasks(c)' \subseteq Tasks(c) /\ OneEventOf(c)
    BY <1>2, MiddleTasks
  <2>2. CASE Armed(c)' => Armed(c)
    BY <1>1, <2>1, <2>2, OneEventKept
  <2>3. CASE ~(Armed(c)' => Armed(c))
    <3>1. c = client[w] /\ at[w] = "rearm"
      BY <1>2, <2>3, MiddleArmed
    <3>2. w \in Tasks(c) /\ at'[w] \notin InTask
      BY <3>1, MiddleTasks DEF Tasks, InTask
    <3>3. Tasks(c)' = {} /\ queued[c] = 0 /\ c \notin batch
      BY <2>1, <3>2, TaskOver
    <3> QED
      BY <1>1, <3>3 DEF OneEventOf
  <2> QED
    BY <2>2, <2>3
<1> QED
  BY <1>3, <1>4

\* What epoll_wait returns was armed, and is not armed any more.
LEMMA PollOneEvent ==
  ASSUME SocketInv, OneEvent, Poll
  PROVE  OneEvent'
<1> USE DEF SocketInv, CountInv
<1>1. UNCHANGED <<setting, sock, queued, at, client>>
  BY DEF Poll, threads
<1> SUFFICES ASSUME ~setting.bursts, ~setting.arrivals, NEW c \in Clients
             PROVE  OneEventOf(c)'
  BY <1>1 DEF OneEvent
<1>2. PICK F \in SUBSET Fds :
         /\ batch = {} /\ batch' = {interest[f].ptr : f \in F}
         /\ \A f \in F : /\ interest[f] # None /\ interest[f].armed
                         /\ interest'[f] # None /\ ~interest'[f].armed
                         /\ interest'[f].ptr = interest[f].ptr
         /\ \A f \in Fds \ F : interest'[f] = interest[f]
  BY PollEvents
<1>3. OneEventOf(c) /\ Tasks(c)' = Tasks(c)
  BY <1>1 DEF OneEvent, Tasks
<1>4. Armed(c)' => Armed(c)
  BY <1>2 DEF Armed
<1>5. CASE c \notin batch'
  BY <1>1, <1>3, <1>4, <1>5, OneEventKept
<1>6. CASE c \in batch'
  <2>1. PICK f \in F : interest[f].ptr = c
    BY <1>2, <1>6
  <2>2. Armed(c)
    BY <1>2, <2>1 DEF Armed
  <2>3. Tasks(c) = {} /\ queued[c] = 0
    BY <1>3, <2>2 DEF OneEventOf, TypeOK
  <2>4. \A g \in Fds : interest[g] # None /\ interest[g].ptr = c => g = f
    BY <1>2, <2>1 DEF Sockets
  <2>5. ~Armed(c)'
    BY <1>2, <2>4 DEF Armed
  <2> QED
    BY <1>1, <1>3, <2>3, <2>5 DEF OneEventOf
<1> QED
  BY <1>5, <1>6

\* Every step leaves a client with one event.
LEMMA OneEventStep ==
  ASSUME SocketInv, OneEvent, [Next]_vars
  PROVE  OneEvent'
<1> USE DEF SocketInv, CountInv
<1>1. ASSUME NEW w \in Workers, Begin(w) PROVE OneEvent'
  <2>1. PICK b \in Clients : /\ queued[b] > 0 /\ queued' = [queued EXCEPT ![b] = queued[b] - 1]
                             /\ client' = [client EXCEPT ![w] = b]
    BY <1>1 DEF Begin
  <2>2. /\ at[w] = "idle" /\ at' = [at EXCEPT ![w] = "enter"]
        /\ UNCHANGED <<setting, interest, batch>>
    BY <1>1 DEF Begin, Goto, kernel, main
  <2> SUFFICES ASSUME ~setting.bursts, ~setting.arrivals
               PROVE  /\ \A c \in Clients : OneEventOf(c)'
                      /\ \A u \in Workers : at'[u] \notin {"warn", "warnend"}
    BY <2>2 DEF OneEvent
  <2>3. \A u \in Workers : at'[u] \notin {"warn", "warnend"}
    BY <2>2 DEF OneEvent, TypeOK
  <2>4. ASSUME NEW c \in Clients PROVE OneEventOf(c)'
    <3>1. OneEventOf(c) /\ (Armed(c)' <=> Armed(c)) /\ batch' = batch
      BY <2>2 DEF OneEvent, Armed
    <3>2. CASE c = b
      <4>1. Tasks(c) = {} /\ queued[c] = 1 /\ queued'[c] = 0 /\ c \notin batch /\ ~Armed(c)
        BY <2>1, <3>1, <3>2 DEF OneEventOf, TypeOK
      <4>2. Tasks(c)' \subseteq {w}
        BY <2>1, <2>2, <4>1 DEF Tasks, TypeOK
      <4> QED
        BY <3>1, <4>1, <4>2 DEF OneEventOf
    <3>3. CASE c # b
      <4>1. queued'[c] = queued[c]
        BY <2>1, <3>3 DEF TypeOK
      <4>2. Tasks(c)' \subseteq Tasks(c)
        BY <2>1, <2>2, <3>3 DEF Tasks, TypeOK
      <4> QED
        BY <3>1, <4>1, <4>2, OneEventKept
    <3> QED
      BY <3>2, <3>3
  <2> QED
    BY <2>3, <2>4
<1>2. ASSUME NEW w \in Workers, Done(w) PROVE OneEvent'
  <2>1. /\ at' = [at EXCEPT ![w] = "idle"] /\ client' = [client EXCEPT ![w] = None]
        /\ UNCHANGED <<setting, interest, batch, queued>>
    BY <1>2 DEF Done, Goto, kernel, main
  <2>2. \A c \in Clients : Tasks(c)' \subseteq Tasks(c)
    BY <2>1 DEF Tasks, TypeOK, InTask
  <2>3. \A c \in Clients : Armed(c)' <=> Armed(c)
    BY <2>1 DEF Armed
  <2>4. \A c \in Clients : OneEventOf(c) => OneEventOf(c)'
    BY <2>1, <2>2, <2>3, OneEventKept
  <2> QED
    BY <2>1, <2>4 DEF OneEvent, TypeOK
<1>3. ASSUME NEW b \in Clients, Dispatch(b) PROVE OneEvent'
  <2>1. /\ b \in batch /\ batch' = batch \ {b} /\ queued' = [queued EXCEPT ![b] = queued[b] + 1]
        /\ UNCHANGED <<setting, interest, at, client>>
    BY <1>3 DEF Dispatch, kernel, threads
  <2>2. \A c \in Clients : Tasks(c)' = Tasks(c) /\ (Armed(c)' <=> Armed(c))
    BY <2>1 DEF Tasks, Armed
  <2>3. ASSUME NEW c \in Clients, OneEventOf(c) PROVE OneEventOf(c)'
    <3>1. CASE c = b
      <4>1. Tasks(c) = {} /\ queued[c] = 0 /\ ~Armed(c)
        BY <2>1, <2>3, <3>1 DEF OneEventOf, TypeOK
      <4>2. queued'[c] = 1 /\ c \notin batch'
        BY <2>1, <3>1, <4>1 DEF TypeOK
      <4> QED
        BY <2>2, <4>1, <4>2 DEF OneEventOf
    <3>2. CASE c # b
      <4>1. queued'[c] = queued[c]
        BY <2>1, <3>2 DEF TypeOK
      <4> QED
        BY <2>1, <2>2, <2>3, <4>1, OneEventKept
    <3> QED
      BY <3>1, <3>2
  <2> QED
    BY <2>1, <2>3 DEF OneEvent
<1>4. ASSUME Register PROVE OneEvent'
  <2>1. /\ UNCHANGED <<setting, batch, queued, at, client>>
        /\ adding \in Clients
        /\ \/ interest' = interest
           \/ interest' = [interest EXCEPT ![sock[adding]] = [ptr |-> adding, armed |-> TRUE]]
    BY <1>4 DEF Register, TypeOK, threads
  <2>2. \A c \in Clients : Tasks(c)' = Tasks(c)
    BY <2>1 DEF Tasks
  <2>3. ASSUME NEW c \in Clients, OneEventOf(c) PROVE OneEventOf(c)'
    <3>1. CASE c = adding
      <4>1. Fresh(c)
        BY <3>1 DEF Births
      <4>2. Tasks(c) = {} /\ queued[c] = 0 /\ c \notin batch
        BY <4>1 DEF Fresh, Tasks
      <4> QED
        BY <2>1, <2>2, <4>2 DEF OneEventOf
    <3>2. CASE c # adding
      <4>1. \A f \in Fds : \/ interest'[f] = interest[f]
                           \/ interest'[f] = [ptr |-> adding, armed |-> TRUE]
        BY <2>1 DEF TypeOK
      <4>2. Armed(c)' => Armed(c)
        BY <3>2, <4>1 DEF Armed
      <4> QED
        BY <2>1, <2>2, <2>3, <4>2, OneEventKept
    <3> QED
      BY <3>1, <3>2
  <2> QED
    BY <2>1, <2>3 DEF OneEvent
<1>5. ASSUME UNCHANGED <<setting, batch, queued, at, client>>,
             \A f \in Fds : interest'[f] = interest[f] \/ interest'[f] = None
      PROVE  OneEvent'
  <2>1. \A c \in Clients : Tasks(c)' = Tasks(c)
    BY <1>5 DEF Tasks
  <2>2. \A c \in Clients : Armed(c)' => Armed(c)
    BY <1>5 DEF Armed
  <2>3. \A c \in Clients : OneEventOf(c) => OneEventOf(c)'
    BY <1>5, <2>1, <2>2, OneEventKept
  <2> QED
    BY <1>5, <2>3 DEF OneEvent
<1>6. ASSUME ConnectDisconnects PROVE OneEvent'
  <2>1. UNCHANGED <<setting, batch, queued, at, client>>
    BY <1>6 DEF ConnectDisconnects, main, threads
  <2>2. \E g : interest' = [interest EXCEPT ![g] = None]
    BY <1>6 DEF ConnectDisconnects, PlayerDisconnect, Close
  <2>3. \A f \in Fds : interest'[f] = interest[f] \/ interest'[f] = None
    BY <2>2 DEF TypeOK
  <2> QED
    BY <1>5, <2>1, <2>3
<1>7. ASSUME NEW c \in Clients, PeerSends(c) \/ PeerHangsUp(c) PROVE OneEvent'
  <2>1. UNCHANGED <<setting, batch, queued, at, client, interest>>
    BY <1>7 DEF PeerSends, PeerHangsUp, main, threads
  <2> QED
    BY <1>5, <2>1
<1>8. ASSUME NEW c \in Clients, Accept(c) PROVE OneEvent'
  <2>1. UNCHANGED <<setting, batch, queued, at, client, interest>>
    BY <1>8 DEF Accept, threads
  <2> QED
    BY <1>5, <2>1
<1>9. ASSUME UNCHANGED vars PROVE OneEvent'
  <2>1. UNCHANGED <<setting, batch, queued, at, client, interest>>
    BY <1>9 DEF vars, kernel, main, threads
  <2> QED
    BY <1>5, <2>1
<1>10. setting.clients \subseteq Clients
  BY SettingAssumption DEF TypeOK, Setting
<1>11. ASSUME NEW w \in Workers, Middle(w) PROVE OneEvent'
  BY <1>11, MiddleOneEvent
<1>12. ASSUME Poll PROVE OneEvent'
  BY <1>12, PollOneEvent
<1> QED
  BY <1>1, <1>2, <1>3, <1>4, <1>6, <1>7, <1>8, <1>9, <1>10, <1>11, <1>12
  DEF Next, Peer, MainStep, TaskStep, Middle

\* At first there is no event.
LEMMA InitOneEvent == Init => OneEvent
<1> SUFFICES ASSUME Init PROVE OneEvent
  OBVIOUS
<1>1. \A c \in Clients : Tasks(c) = {} /\ queued[c] = 0 /\ c \notin batch /\ ~Armed(c)
  BY DEF Init, Tasks, InTask, Armed
<1> QED
  BY <1>1 DEF Init, OneEvent, OneEventOf

\* The descriptor numbers and the events of every state of every behaviour.
THEOREM EventsSingle == Spec => [](SocketInv /\ OneEvent)
<1>1. Init => SocketInv /\ OneEvent
  BY InitSockets, InitOneEvent
<1>2. SocketInv /\ OneEvent /\ [Next]_vars => (SocketInv /\ OneEvent)'
  BY SocketStep, OneEventStep
<1> QED
  BY <1>1, <1>2, PTL DEF Spec

\* server.c:211-219, 402-408: one worker at a time is between the start of a task
\* and its rearm for a client, if nobody earns a warning and nobody connects once
\* a client is disconnected.
THEOREM InputSerial == Spec => []SerialInput
<1>1. ASSUME OneEvent PROVE SerialInput
  <2> SUFFICES ASSUME ~setting.bursts, ~setting.arrivals, NEW c \in Clients
               PROVE  Cardinality(Tasks(c)) <= 1
    BY DEF SerialInput, Alone, Tasks
  <2>1. \A w, u \in Tasks(c) : w = u
    BY <1>1 DEF OneEvent, OneEventOf
  <2>2. CASE Tasks(c) = {}
    BY <2>2, FS_EmptySet
  <2>3. CASE Tasks(c) # {}
    <3>1. PICK w : Tasks(c) = {w}
      BY <2>1, <2>3
    <3>2. Cardinality({w}) = 1
      BY FS_Singleton
    <3> QED
      BY <3>1, <3>2
  <2> QED
    BY <2>2, <2>3
<1> QED
  BY <1>1, EventsSingle, PTL

-----------------------------------------------------------------------------
(* A disconnection is the end of the events of a client.                   *)

\* A step in the middle of a package makes an event only of a client that is not
\* disconnected, and only with its rearm.
LEMMA MiddleQuiet ==
  ASSUME SocketInv, OneEvent, ~setting.bursts, ~setting.arrivals,
         NEW w \in Workers, Middle(w), NEW c \in Clients, Quiet(c)
  PROVE  Quiet(c)' \/ (c = client[w] /\ at[w] = "rearm" /\ ~disc[c])
<1> USE DEF SocketInv, CountInv
<1>1. UNCHANGED <<batch, adding, queued>>
  BY MiddleKeeps DEF Keeps
<1>2. CASE ~Armed(c)'
  BY <1>1, <1>2 DEF Quiet
<1>3. CASE Armed(c)'
  <2>1. c = client[w] /\ at[w] \in {"rearm", "warn", "warnend"} /\ interest[sock[c]] # None
    BY <1>3, MiddleArmed DEF Quiet
  <2>2. at[w] = "rearm" /\ Born(c)
    BY <2>1, Working DEF OneEvent
  <2>3. ~disc[c]
    BY <2>1, <2>2 DEF Sockets
  <2> QED
    BY <2>1, <2>2, <2>3
<1> QED
  BY <1>2, <1>3

\* A client without references is in nobody's hands.
LEMMA NoReference ==
  ASSUME TypeOK, RefCounted, NEW c \in Clients, ref[c] = 0
  PROVE  queued[c] = 0 /\ Holders(c) = {} /\ Tasks(c) = {}
<1>1. queued[c] \in Nat /\ Cardinality(Holders(c)) \in Nat
      /\ (Holders(c) # {} => Cardinality(Holders(c)) > 0)
  BY HoldersCount DEF TypeOK
<1>2. queued[c] = 0 /\ Holders(c) = {}
  BY <1>1 DEF RefCounted
<1> QED
  BY <1>2 DEF Tasks, Holders

\* A worker disconnects a client in its task, or when it has seen it has none.
LEMMA MiddleCalls ==
  ASSUME SocketInv, OneEvent, ~setting.bursts, ~setting.arrivals,
         NEW w \in Workers, Middle(w), at'[w] \in InCall
  PROVE  \/ at[w] \in InCall
         \/ at[w] \in InTask \ {"rearm"}
         \/ /\ at[w] = "check" /\ disc[client[w]] /\ ref[client[w]] = 0
<1> USE DEF SocketInv, CountInv, TypeOK, InCall, InTask, Goto, Call
<1>1. CASE Enter(w) \/ ReadFails(w) \/ ReadData(w) \/ ReadEnd(w) \/ Process(w)
  BY <1>1 DEF Enter, ReadFails, ReadData, ReadEnd, Process
<1>2. CASE Warn(w) \/ WarnThenRefuse(w) \/ ProcessDisconnects(w)
  BY <1>2 DEF Warn, WarnThenRefuse, ProcessDisconnects
<1>3. CASE Rearm(w) \/ ReleaseRef(w)
  BY <1>3 DEF Rearm, ReleaseRef
<1>4. CASE CheckRef(w)
  BY <1>4 DEF CheckRef
<1>5. CASE Disconnect(w) \/ CallOnPlayerDisconnect(w) \/ GetRefCount(w) \/ Remove(w)
  BY <1>5 DEF Disconnect, CallOnPlayerDisconnect, GetRefCount, Remove
<1> QED
  BY <1>1, <1>2, <1>3, <1>4, <1>5 DEF Middle

\* In a task there is no event left, but the one it is about.
LEMMA InTaskQuiet ==
  ASSUME SocketInv, OneEvent, ~setting.bursts, ~setting.arrivals,
         NEW w \in Workers, at[w] \in InTask
  PROVE  /\ client[w] \in Clients /\ w \in Tasks(client[w]) /\ Quiet(client[w])
         /\ Tasks(client[w]) = {w}
<1> USE DEF SocketInv, CountInv
<1>1. client[w] \in Clients /\ adding # client[w]
  BY Working DEF InTask
<1>2. w \in Tasks(client[w])
  BY DEF Tasks
<1>3. OneEventOf(client[w])
  BY <1>1 DEF OneEvent
<1> QED
  BY <1>1, <1>2, <1>3 DEF OneEventOf, Quiet

\* Who is disconnected in the middle of a package has no other event, nor who is
\* freed, nor who is being disconnected.
LEMMA MiddleEnded ==
  ASSUME SocketInv, OneEvent, Ended, NEW w \in Workers, Middle(w)
  PROVE  Ended'
<1> USE DEF SocketInv, CountInv
<1> DEFINE p == client[w]
<1>1. /\ UNCHANGED <<setting, adding, sock>> /\ Others(w) /\ client' = client
      /\ p \in Clients /\ at[w] # "idle"
  BY Moves, MiddleKeeps DEF Keeps
<1> SUFFICES ASSUME ~setting.bursts, ~setting.arrivals, ~setting.kicks
             PROVE  /\ \A c \in Clients : disc'[c] => Quiet(c)'
                    /\ \A c \in Clients : life'[c] = "freed" => disc'[c] /\ Tasks(c)' = {}
                    /\ \A u \in Workers : at'[u] \in InCall =>
                         Quiet(client[u])' /\ Tasks(client[u])' = {}
  <2>1. UNCHANGED <<setting, client>>
    BY <1>1
  <2> QED
    BY <2>1 DEF Ended, Quiet, Armed, Tasks
<1>2. /\ \A c \in Clients : disc[c] => Quiet(c)
      /\ \A c \in Clients : life[c] = "freed" => disc[c] /\ Tasks(c) = {}
      /\ \A u \in Workers : at[u] \in InCall => Quiet(client[u]) /\ Tasks(client[u]) = {}
  BY DEF Ended
<1>3. \A c \in Clients : Tasks(c)' \subseteq Tasks(c)
  BY MiddleTasks
<1>4. ASSUME NEW c \in Clients, disc'[c] PROVE Quiet(c)'
  <2>1. CASE disc[c]
    BY <1>2, <2>1, MiddleQuiet
  <2>2. CASE ~disc[c]
    <3>1. c = p /\ (Disconnect(w) \/ ProcessDisconnects(w))
      <4>1. Disconnect(w) \/ ProcessDisconnects(w)
        BY <1>4, <2>2, MiddleKeeps DEF Keeps
      <4>2. PICK d \in Clients : disc' = [disc EXCEPT ![d] = TRUE] /\ d = p
        BY <1>1, <4>1 DEF Disconnect, ProcessDisconnects, PlayerDisconnect
      <4> QED
        BY <1>4, <2>2, <4>1, <4>2 DEF TypeOK
    <3>2. Quiet(c) /\ at[w] # "rearm"
      <4>1. CASE Disconnect(w)
        BY <1>2, <3>1, <4>1 DEF Disconnect, InCall
      <4>2. CASE ProcessDisconnects(w)
        BY <3>1, <4>2, InTaskQuiet DEF ProcessDisconnects, InTask
      <4> QED
        BY <3>1, <4>1, <4>2
    <3> QED
      BY <3>2, MiddleQuiet
  <2> QED
    BY <2>1, <2>2
<1>5. ASSUME NEW c \in Clients, life'[c] = "freed" PROVE disc'[c] /\ Tasks(c)' = {}
  <2>1. CASE life[c] = "freed"
    BY <1>2, <1>3, <2>1, DisconnectedStays
  <2>2. CASE life[c] # "freed"
    <3>1. Remove(w)
      BY <1>5, <2>2, MiddleKeeps DEF Keeps
    <3>2. life[c] = "live" /\ sock[c] = sock[p]
      <4>1. PICK i \in DOMAIN clients :
              /\ clients[i] \in Clients /\ life[clients[i]] = "live"
              /\ sock[clients[i]] = sock[p] /\ life' = [life EXCEPT ![clients[i]] = "freed"]
        BY <1>5, <2>2, <3>1, Removes
      <4>2. c = clients[i]
        BY <1>5, <2>2, <4>1 DEF TypeOK
      <4> QED
        BY <4>1, <4>2
    <3>3. c = p
      BY <1>1, <3>2, Working DEF Sockets, Born
    <3>4. disc[p] /\ Tasks(p) = {}
      BY <1>2, <3>1 DEF Remove, Returns, InCall
    <3> QED
      BY <1>3, <3>3, <3>4, DisconnectedStays
  <2> QED
    BY <2>1, <2>2
<1>6. ASSUME NEW u \in Workers, at'[u] \in InCall
      PROVE  Quiet(client[u])' /\ Tasks(client[u])' = {}
  <2>1. client[u] \in Clients
    BY <1>1, <1>6 DEF Others, TypeOK, InCall
  <2> DEFINE q == client[u]
  <2>2. \A c \in Clients : c = q => Quiet(c) /\ Tasks(c)' = {} /\ ~(c = p /\ at[w] = "rearm")
    <3> SUFFICES Quiet(q) /\ Tasks(q) \in {{}, {w}} /\ (w \in Tasks(q) => at'[w] \notin InTask)
                 /\ ~(q = p /\ at[w] = "rearm")
      <4>1. \A c \in Clients : \A v \in Tasks(c)' : v \in Tasks(c) /\ at'[v] \in InTask
        BY <1>3 DEF Tasks
      <4> QED
        BY <4>1
    <3>1. CASE at[u] \in InCall
      <4>1. Quiet(q) /\ Tasks(q) = {}
        BY <1>2, <3>1
      <4>2. q = p /\ at[w] = "rearm" => w \in Tasks(q)
        BY DEF Tasks, InTask
      <4> QED
        BY <4>1, <4>2
    <3>2. CASE at[u] \notin InCall
      <4>1. u = w /\ q = p
        BY <1>1, <1>6, <3>2 DEF Others
      <4>2. CASE at[w] \in InTask \ {"rearm"}
        <5>1. Quiet(q) /\ Tasks(q) = {w}
          BY <4>1, <4>2, InTaskQuiet
        <5> QED
          BY <1>6, <4>1, <4>2, <5>1 DEF InCall, InTask
      <4>3. CASE at[w] = "check" /\ disc[p] /\ ref[p] = 0
        BY <1>1, <1>2, <4>1, <4>3, NoReference
      <4> QED
        BY <1>6, <3>2, <4>1, <4>2, <4>3, MiddleCalls
    <3> QED
      BY <3>1, <3>2
  <2>3. \A c \in Clients : c = q => Quiet(c)' /\ Tasks(c)' = {}
    BY <2>2, MiddleQuiet
  <2>4. client'[u] = client[u] /\ client[u] \in Clients
    BY <1>1, <2>1
  <2> QED
    BY <2>3, <2>4 DEF Quiet, Armed, Tasks
<1> QED
  BY <1>4, <1>5, <1>6

\* The steps outside of the packages make no event of a client that has ended.
LEMMA EndedStep ==
  ASSUME SocketInv, OneEvent, Ended, [Next]_vars
  PROVE  Ended'
<1> USE DEF SocketInv, CountInv
<1> DEFINE Kept == /\ \A c \in Clients : disc'[c] => disc[c] /\ (Quiet(c) => Quiet(c)')
                   /\ \A c \in Clients : life'[c] = "freed" =>
                        life[c] = "freed" /\ (disc[c] => disc'[c])
                        /\ (disc[c] /\ Tasks(c) = {} => Tasks(c)' = {})
                   /\ \A u \in Workers : at'[u] \in InCall =>
                        /\ at[u] \in InCall /\ client'[u] = client[u] /\ client[u] \in Clients
                        /\ Quiet(client[u]) /\ Tasks(client[u]) = {}
                             => \A c \in Clients : c = client[u] => Quiet(c)' /\ Tasks(c)' = {}
           Mild == ~setting.bursts /\ ~setting.arrivals /\ ~setting.kicks
<1>1. ASSUME setting' = setting, Mild => Kept PROVE Ended'
  <2> SUFFICES ASSUME Mild
               PROVE  /\ \A c \in Clients : disc'[c] => Quiet(c)'
                      /\ \A c \in Clients : life'[c] = "freed" => disc'[c] /\ Tasks(c)' = {}
                      /\ \A u \in Workers : at'[u] \in InCall =>
                           \E c \in Clients : c = client'[u] /\ Quiet(c)' /\ Tasks(c)' = {}
    BY <1>1 DEF Ended, Quiet, Armed, Tasks
  <2> QED
    BY <1>1 DEF Ended
<1>2. \A u \in Workers : at[u] # "idle" => client[u] \in Clients
  BY Working
<1>3. ASSUME NEW w \in Workers, Begin(w) PROVE Ended'
  <2>1. PICK b \in Clients : /\ queued[b] > 0 /\ queued' = [queued EXCEPT ![b] = queued[b] - 1]
                             /\ client' = [client EXCEPT ![w] = b]
    BY <1>3 DEF Begin
  <2>2. /\ at[w] = "idle" /\ at' = [at EXCEPT ![w] = "enter"]
        /\ UNCHANGED <<setting, interest, batch, adding, disc, life>>
    BY <1>3 DEF Begin, Goto, kernel, main
  <2>3. \A c \in Clients : Quiet(c) => c # b /\ Quiet(c)'
    BY <2>1, <2>2 DEF Quiet, Armed, TypeOK
  <2>4. \A c \in Clients : c # b /\ Tasks(c) = {} => Tasks(c)' = {}
    BY <2>1, <2>2 DEF Tasks, TypeOK
  <2>5. ASSUME Mild PROVE Kept
    <3>1. \A c \in Clients : disc[c] => c # b
      BY <2>3, <2>5 DEF Ended
    <3>2. \A u \in Workers : at'[u] \in InCall => u # w /\ at[u] \in InCall /\ client'[u] = client[u]
      BY <2>1, <2>2 DEF TypeOK, InCall
    <3> QED
      BY <1>2, <2>2, <2>3, <2>4, <3>1, <3>2 DEF InCall
  <2> QED
    BY <1>1, <2>2, <2>5
<1>4. ASSUME NEW w \in Workers, Done(w) PROVE Ended'
  <2>1. /\ at' = [at EXCEPT ![w] = "idle"] /\ client' = [client EXCEPT ![w] = None]
        /\ at[w] = "done"
        /\ UNCHANGED <<setting, interest, batch, adding, disc, life, queued>>
    BY <1>4 DEF Done, Goto, kernel, main
  <2>2. \A c \in Clients : Tasks(c)' \subseteq Tasks(c)
    BY <2>1 DEF Tasks, TypeOK, InTask
  <2>3. \A c \in Clients : Quiet(c) => Quiet(c)'
    BY <2>1 DEF Quiet, Armed
  <2>4. \A u \in Workers : at'[u] \in InCall => at[u] \in InCall /\ client'[u] = client[u]
    BY <2>1 DEF TypeOK, InCall
  <2> QED
    BY <1>1, <1>2, <2>1, <2>2, <2>3, <2>4 DEF InCall
<1>5. ASSUME UNCHANGED <<setting, at, client>>,
             Mild => /\ \A c \in Clients : disc'[c] <=> disc[c]
                     /\ \A c \in Clients : life'[c] = "freed" => life[c] = "freed"
                     /\ \A c \in Clients : Quiet(c) => Quiet(c)' \/ (Fresh(c) /\ ~disc[c])
      PROVE  Ended'
  <2>1. \A c \in Clients : Tasks(c)' = Tasks(c)
    BY <1>5 DEF Tasks
  <2>2. \A u \in Workers : at[u] \in InCall => client[u] \in Clients /\ ~Fresh(client[u])
    BY <1>2 DEF InCall, Fresh
  <2> QED
    BY <1>1, <1>5, <2>1, <2>2
<1>6. ASSUME NEW b \in Clients, Dispatch(b) PROVE Ended'
  <2>1. /\ b \in batch /\ batch' = batch \ {b} /\ queued' = [queued EXCEPT ![b] = queued[b] + 1]
        /\ UNCHANGED <<setting, interest, adding, at, client, disc, life>>
    BY <1>6 DEF Dispatch, kernel, threads
  <2>2. \A c \in Clients : Quiet(c) => Quiet(c)'
    BY <2>1 DEF Quiet, Armed, TypeOK
  <2> QED
    BY <1>5, <2>1, <2>2
<1>7. ASSUME Register PROVE Ended'
  <2>1. /\ UNCHANGED <<setting, batch, queued, at, client, disc, life>>
        /\ adding \in Clients /\ adding' = None
        /\ \/ interest' = interest
           \/ interest' = [interest EXCEPT ![sock[adding]] = [ptr |-> adding, armed |-> TRUE]]
    BY <1>7 DEF Register, TypeOK, threads
  <2>2. \A f \in Fds : \/ interest'[f] = interest[f]
                       \/ interest'[f] = [ptr |-> adding, armed |-> TRUE]
    BY <2>1 DEF TypeOK
  <2>3. \A c \in Clients : Quiet(c) => Quiet(c)'
    BY <2>1, <2>2, SetAssumption DEF Quiet, Armed
  <2> QED
    BY <1>5, <2>1, <2>3
<1>8. ASSUME Poll PROVE Ended'
  <2>1. UNCHANGED <<setting, adding, queued, at, client, disc, life>>
    BY <1>8 DEF Poll, threads
  <2>2. PICK F \in SUBSET Fds :
         /\ batch = {} /\ batch' = {interest[f].ptr : f \in F}
         /\ \A f \in F : /\ interest[f] # None /\ interest[f].armed
                         /\ interest'[f] # None /\ ~interest'[f].armed
                         /\ interest'[f].ptr = interest[f].ptr
         /\ \A f \in Fds \ F : interest'[f] = interest[f]
    BY <1>8, PollEvents
  <2>3. ASSUME NEW c \in Clients, Quiet(c) PROVE Quiet(c)'
    <3>1. c \notin batch'
      BY <2>2, <2>3 DEF Quiet, Armed
    <3>2. Armed(c)' => Armed(c)
      BY <2>2 DEF Armed
    <3> QED
      BY <2>1, <2>3, <3>1, <3>2 DEF Quiet
  <2> QED
    BY <1>5, <2>1, <2>3
<1>9. ASSUME NEW c \in Clients, Accept(c) PROVE Ended'
  <2>1. /\ UNCHANGED <<setting, batch, queued, interest, at, client, disc>>
        /\ life[c] = "unborn" /\ life' = [life EXCEPT ![c] = "live"] /\ adding' = c
    BY <1>9 DEF Accept, threads
  <2>2. Fresh(c) /\ ~disc[c]
    BY <2>1 DEF Births
  <2>3. \A d \in Clients : Quiet(d) => Quiet(d)' \/ d = c
    BY <2>1 DEF Quiet, Armed
  <2>4. \A d \in Clients : life'[d] = "freed" => life[d] = "freed"
    BY <2>1 DEF TypeOK
  <2> QED
    BY <1>5, <2>1, <2>2, <2>3, <2>4
<1>10. ASSUME ConnectDisconnects PROVE Ended'
  <2>1. UNCHANGED <<setting, at, client>> /\ ~Mild
    BY <1>10 DEF ConnectDisconnects, threads
  <2> QED
    BY <1>5, <2>1
<1>11. ASSUME UNCHANGED <<setting, batch, queued, interest, at, client, disc, life, adding>>
       PROVE  Ended'
  <2>1. \A c \in Clients : Quiet(c)' <=> Quiet(c)
    BY <1>11 DEF Quiet, Armed
  <2> QED
    BY <1>5, <1>11, <2>1
<1>12. ASSUME NEW c \in Clients, PeerSends(c) \/ PeerHangsUp(c) PROVE Ended'
  <2>1. UNCHANGED <<setting, batch, queued, interest, at, client, disc, life, adding>>
    BY <1>12 DEF PeerSends, PeerHangsUp, main, threads
  <2> QED
    BY <1>11, <2>1
<1>13. ASSUME UNCHANGED vars PROVE Ended'
  <2>1. UNCHANGED <<setting, batch, queued, interest, at, client, disc, life, adding>>
    BY <1>13 DEF vars, kernel, main, threads
  <2> QED
    BY <1>11, <2>1
<1>14. setting.clients \subseteq Clients
  BY SettingAssumption DEF TypeOK, Setting
<1>15. ASSUME NEW w \in Workers, Middle(w) PROVE Ended'
  BY <1>15, MiddleEnded
<1> QED
  BY <1>3, <1>4, <1>6, <1>7, <1>8, <1>9, <1>10, <1>12, <1>13, <1>14, <1>15
  DEF Next, Peer, MainStep, TaskStep, Middle

\* Nobody has ended at first.
LEMMA InitEnded == Init => Ended
BY DEF Init, Ended, InCall

-----------------------------------------------------------------------------
(* No client is forgotten.                                                 *)

\* A step in the middle of a package disarms no client but its own.
LEMMA MiddleOthersArmed ==
  ASSUME SocketInv, ~setting.arrivals, ~setting.kicks,
         NEW w \in Workers, Middle(w), NEW c \in Clients, c # client[w], Armed(c)
  PROVE  Armed(c)'
<1> USE DEF SocketInv, CountInv
<1>1. client[w] \in Clients /\ Born(client[w])
  BY Moves, Working
<1>2. PICK f \in Fds : interest[f] # None /\ interest[f].ptr = c /\ interest[f].armed
  BY DEF Armed
<1>3. f # sock[client[w]]
  BY <1>1, <1>2 DEF Sockets
<1>4. interest' = interest \/ \E r : interest' = [interest EXCEPT ![sock[client[w]]] = r]
  <2>1. CASE Disconnect(w) \/ ProcessDisconnects(w)
    BY <2>1 DEF Disconnect, ProcessDisconnects, PlayerDisconnect, Close
  <2>2. CASE Remove(w)
    BY <2>2 DEF Remove
  <2>3. CASE Rearm(w) \/ Warn(w) \/ WarnThenRefuse(w)
    BY <2>3 DEF Rearm, Warn, WarnThenRefuse, RearmSocket
  <2> QED
    BY <2>1, <2>2, <2>3, MiddleKeeps DEF Keeps
<1>5. interest'[f] = interest[f]
  BY <1>3, <1>4 DEF TypeOK
<1> QED
  BY <1>2, <1>5 DEF Armed

\* What a worker in the middle of a package stands for is seen, but at the end.
WorkSees(w, c) ==
  /\ client[w] = c
  /\ \/ at[w] \in InTask
     \/ at[w] \in InCall /\ back[w] = "release"
     \/ disc[c] /\ at[w] # "done"

\* What sees a client and is not the worker w.
SeenWithout(w, c) ==
  \/ Armed(c) \/ c \in batch \/ adding = c \/ queued[c] > 0
  \/ \E u \in Workers \ {w} : WorkSees(u, c)

\* A client is seen by its events, or by a worker.
LEMMA SeenBy ==
  ASSUME NEW w \in Workers, NEW c \in Clients
  PROVE  Seen(c) <=> SeenWithout(w, c) \/ WorkSees(w, c)
BY DEF Seen, SeenWithout, WorkSees

\* Who still refers to a disconnected client will see it.
LEMMA LeftWithReference ==
  ASSUME SocketInv, NEW w \in Workers, NEW c \in Clients, ref[c] # 0, disc[c],
         w \notin Holders(c)
  PROVE  SeenWithout(w, c)
<1> USE DEF SocketInv, CountInv
<1>1. queued[c] \in Nat /\ ref[c] = queued[c] + Cardinality(Holders(c))
  BY DEF RefCounted, TypeOK
<1>2. CASE queued[c] > 0
  BY <1>2 DEF SeenWithout
<1>3. CASE queued[c] = 0
  <2>1. Holders(c) # {}
    BY <1>1, <1>3, FS_EmptySet
  <2>2. PICK u \in Holders(c) : TRUE
    BY <2>1
  <2>3. u \in Workers \ {w} /\ client[u] = c /\ at[u] # "done"
    BY <2>2 DEF Holders, InTask, InCall
  <2> QED
    BY <2>3 DEF SeenWithout, WorkSees
<1> QED
  BY <1>1, <1>2, <1>3

\* A rearm that finds its number registered arms the client.
LEMMA RearmArms ==
  ASSUME SocketInv, NEW w \in Workers, Rearm(w)
  PROVE  interest[sock[client[w]]] # None => \A c \in Clients : c = client[w] => Armed(c)'
<1> USE DEF SocketInv, CountInv
<1>1. client[w] \in Clients /\ sock[client[w]] \in Fds
  BY Working DEF Rearm
<1>2. RearmSocket(client[w])
  BY DEF Rearm
<1>3. [ptr |-> client[w], armed |-> TRUE] # None
  <2>1. [ptr |-> client[w], armed |-> TRUE] \in Registration
    BY <1>1 DEF Registration
  <2> QED
    BY <2>1, SetAssumption
<1> SUFFICES ASSUME interest[sock[client[w]]] # None,
                    NEW c \in Clients, c = client[w] PROVE Armed(c)'
  OBVIOUS
<1>4. interest'[sock[c]] = [ptr |-> c, armed |-> TRUE]
  BY <1>1, <1>2 DEF RearmSocket, TypeOK
<1>5. /\ interest'[sock[c]] # None /\ interest'[sock[c]].ptr = c /\ interest'[sock[c]].armed
  BY <1>3, <1>4
<1> QED
  BY <1>1, <1>5 DEF Armed

\* What sees a client besides a worker stays in sight of its steps.
LEMMA SeenStays ==
  ASSUME SocketInv, NEW w \in Workers, Middle(w), NEW c \in Clients,
         SeenWithout(w, c), Armed(c) => Armed(c)'
  PROVE  SeenWithout(w, c)'
<1> USE DEF SocketInv, CountInv
<1>1. UNCHANGED <<batch, adding, queued>> /\ Others(w) /\ (disc[c] => disc'[c])
  BY Moves, MiddleKeeps, DisconnectedStays DEF Keeps
<1>2. \A u \in Workers \ {w} : WorkSees(u, c) => WorkSees(u, c)'
  BY <1>1 DEF WorkSees, Others
<1> QED
  BY <1>1, <1>2 DEF SeenWithout

\* The client of a step in the middle of a package is seen after it, if it is not
\* removed: until the rearm by the task, and from then on by epoll, or because it
\* is disconnected and another reference is left, or this worker looks again.
LEMMA MiddleSeesOwn ==
  ASSUME SocketInv, ~setting.arrivals, ~setting.kicks, NEW w \in Workers, Middle(w),
         NEW c \in Clients, c = client[w], life[c] = "live", life'[c] = "live", Seen(c)
  PROVE  Seen(c)'
<1> USE DEF SocketInv, CountInv
<1>1. /\ client' = client /\ (disc[c] => disc'[c])
      /\ Born(c) /\ adding # c /\ sock[c] \in Fds /\ Returns'
  BY Moves, DisconnectedStays, Working, MiddleReturns
<1>2. ASSUME at'[w] \in InTask \/ (at'[w] \in InCall /\ back'[w] = "release") PROVE Seen(c)'
  BY <1>1, <1>2 DEF Seen
<1>3. ASSUME disc'[c], at'[w] # "done" PROVE Seen(c)'
  BY <1>1, <1>3 DEF Seen
<1>4. ASSUME UNCHANGED interest, SeenWithout(w, c) PROVE Seen(c)'
  <2>1. Armed(c) => Armed(c)'
    BY <1>4 DEF Armed
  <2>2. SeenWithout(w, c)'
    BY <1>4, <2>1, SeenStays
  <2> QED
    BY <2>2 DEF SeenWithout, WorkSees, Seen
<1>5. SeenWithout(w, c) \/ WorkSees(w, c)
  BY SeenBy
<1> USE DEF TypeOK, Goto, Call, InTask, InReturn, InCall
<1>6. CASE Enter(w) \/ ReadFails(w)
  <2>1. at'[w] \in InTask \/ (at'[w] \in InCall /\ back'[w] = "release")
    BY <1>6 DEF Enter, ReadFails
  <2> QED
    BY <1>2, <2>1
<1>7. CASE ReadData(w) \/ ReadEnd(w)
  <2>1. at'[w] \in InTask \/ (at'[w] \in InCall /\ back'[w] = "release")
    BY <1>7 DEF ReadData, ReadEnd
  <2> QED
    BY <1>2, <2>1
<1>8. CASE Warn(w) \/ WarnThenRefuse(w) \/ Process(w) \/ ProcessDisconnects(w)
  <2>1. at'[w] \in InTask \/ (at'[w] \in InCall /\ back'[w] = "release")
    BY <1>8 DEF Warn, WarnThenRefuse, Process, ProcessDisconnects
  <2> QED
    BY <1>2, <2>1
<1>9. CASE Rearm(w)
  <2>1. at'[w] = "release"
    BY <1>9 DEF Rearm
  <2>2. CASE interest[sock[c]] = None
    <3>1. disc[c]
      BY <1>1, <2>2 DEF Sockets
    <3> QED
      BY <1>1, <1>3, <2>1, <3>1
  <2>3. CASE interest[sock[c]] # None
    <3>1. Armed(c)'
      BY <1>9, <2>3, RearmArms
    <3> QED
      BY <3>1 DEF Seen
  <2> QED
    BY <2>2, <2>3
<1>10. CASE ReleaseRef(w)
  <2>1. at[w] = "release" /\ at'[w] = "check" /\ UNCHANGED interest
    BY <1>10 DEF ReleaseRef, kernel
  <2>2. WorkSees(w, c) => disc[c]
    BY <2>1 DEF WorkSees
  <2> QED
    BY <1>1, <1>3, <1>4, <1>5, <2>1, <2>2
<1>11. CASE CheckRef(w)
  <2>1. at[w] = "check" /\ UNCHANGED interest
    BY <1>11 DEF CheckRef, kernel
  <2>2. CASE disc[c] /\ ref[c] = 0
    <3>1. at'[w] = "disconnect"
      BY <1>11, <2>2 DEF CheckRef
    <3> QED
      BY <1>1, <1>3, <2>2, <3>1
  <2>3. CASE disc[c] /\ ref[c] # 0
    <3>1. w \notin Holders(c)
      BY <2>1 DEF Holders
    <3>2. SeenWithout(w, c)
      BY <2>3, <3>1, LeftWithReference
    <3> QED
      BY <1>4, <2>1, <3>2
  <2>4. CASE ~disc[c]
    <3>1. ~WorkSees(w, c)
      BY <2>1, <2>4 DEF WorkSees
    <3> QED
      BY <1>4, <1>5, <2>1, <3>1
  <2> QED
    BY <2>2, <2>3, <2>4
<1>12. CASE Disconnect(w) \/ CallOnPlayerDisconnect(w)
  <2>1. at'[w] \in {"getref", "remove"}
    BY <1>12 DEF Disconnect, CallOnPlayerDisconnect
  <2>2. disc'[c]
    BY <1>1, <2>1 DEF Returns
  <2> QED
    BY <1>3, <2>1, <2>2
<1>13. CASE GetRefCount(w)
  <2>1. /\ at[w] = "getref" /\ disc[c] /\ UNCHANGED interest /\ back[w] \in {"release", "done"}
        /\ at'[w] = IF ref[c] = 0 THEN "callback" ELSE back[w]
    BY <1>13 DEF GetRefCount, kernel, Returns
  <2>2. CASE ref[c] = 0 \/ back[w] = "release"
    BY <1>1, <1>3, <2>1, <2>2
  <2>3. CASE ref[c] # 0 /\ back[w] = "done"
    <3>1. w \notin Holders(c)
      BY <2>1, <2>3 DEF Holders
    <3>2. SeenWithout(w, c)
      BY <2>1, <2>3, <3>1, LeftWithReference
    <3> QED
      BY <1>4, <2>1, <3>2
  <2> QED
    BY <2>1, <2>2, <2>3
<1>14. CASE Remove(w)
  <2>1. PICK i \in DOMAIN clients : clients[i] = c
    BY DEF Listed, InVector
  <2>2. Matches(client[w]) # {}
    BY <2>1 DEF Matches
  <2>3. PICK j \in DOMAIN clients :
          /\ clients[j] \in Clients /\ life[clients[j]] = "live"
          /\ sock[clients[j]] = sock[c] /\ life' = [life EXCEPT ![clients[j]] = "freed"]
    BY <1>14, <2>2, Removes
  <2>4. clients[j] = c
    BY <1>1, <2>3 DEF Sockets, Born
  <2> QED
    BY <2>3, <2>4
<1> QED
  BY <1>6, <1>7, <1>8, <1>9, <1>10, <1>11, <1>12, <1>13, <1>14 DEF Middle

\* Steps in the middle of a package forget nobody.
LEMMA MiddleAllSeen ==
  ASSUME SocketInv, AllSeen, NEW w \in Workers, Middle(w)
  PROVE  AllSeen'
<1> USE DEF SocketInv, CountInv
<1>1. /\ UNCHANGED <<setting, adding>> /\ client[w] \in Clients /\ at[w] # "idle"
      /\ adding # client[w]
  BY Moves, MiddleKeeps, Working DEF Keeps
<1> SUFFICES ASSUME ~setting.kicks, ~setting.arrivals, NEW c \in Clients
             PROVE  /\ life'[c] = "live" => Seen(c)'
                    /\ adding = c => ~disc'[c]
  BY <1>1 DEF AllSeen
<1>2. life'[c] = "live" => life[c] = "live"
  <2>1. life' = life \/ \E i \in DOMAIN clients : life' = [life EXCEPT ![clients[i]] = "freed"]
    BY MiddleKeeps, Removes DEF Keeps
  <2> QED
    BY <2>1 DEF TypeOK
<1>3. (life[c] = "live" => Seen(c)) /\ (adding = c => ~disc[c])
  BY DEF AllSeen
<1>4. ASSUME life'[c] = "live" PROVE Seen(c)'
  <2>1. life[c] = "live" /\ Seen(c)
    BY <1>2, <1>3, <1>4
  <2>2. CASE c = client[w]
    BY <1>4, <2>1, <2>2, MiddleSeesOwn
  <2>3. CASE c # client[w]
    <3>1. SeenWithout(w, c)
      BY <2>1, <2>3, SeenBy DEF WorkSees
    <3>2. SeenWithout(w, c)'
      BY <2>3, <3>1, MiddleOthersArmed, SeenStays
    <3> QED
      BY <3>2 DEF SeenWithout, WorkSees, Seen
  <2> QED
    BY <2>2, <2>3
<1>5. ASSUME adding = c PROVE ~disc'[c]
  <2>1. disc' = disc \/ disc' = [disc EXCEPT ![client[w]] = TRUE]
    BY MiddleKeeps DEF Keeps, Disconnect, ProcessDisconnects, PlayerDisconnect
  <2> QED
    BY <1>1, <1>3, <1>5, <2>1 DEF TypeOK
<1> QED
  BY <1>4, <1>5

\* The main thread, the peers, and the ends of the packages forget nobody.
LEMMA AllSeenStep ==
  ASSUME SocketInv, AllSeen, [Next]_vars
  PROVE  AllSeen'
<1> USE DEF SocketInv, CountInv
<1> DEFINE Mild == ~setting.kicks /\ ~setting.arrivals
<1>1. ASSUME setting' = setting,
             ASSUME Mild, NEW c \in Clients
             PROVE  /\ life'[c] = "live" /\ (life[c] = "live" => Seen(c)) => Seen(c)'
                    /\ adding' = c /\ (adding = c => ~disc[c]) => ~disc'[c]
      PROVE  AllSeen'
  BY <1>1 DEF AllSeen
<1>2. ASSUME NEW w \in Workers, Begin(w) PROVE AllSeen'
  <2>1. PICK b \in Clients : /\ queued[b] > 0 /\ queued' = [queued EXCEPT ![b] = queued[b] - 1]
                             /\ client' = [client EXCEPT ![w] = b]
    BY <1>2 DEF Begin
  <2>2. /\ at[w] = "idle" /\ at' = [at EXCEPT ![w] = "enter"]
        /\ UNCHANGED <<setting, interest, batch, adding, disc, life, back>>
    BY <1>2 DEF Begin, Goto, kernel, main
  <2>3. client[w] = None
    BY <2>2 DEF TypeOK
  <2>4. ASSUME NEW c \in Clients, Seen(c) PROVE Seen(c)'
    <3>1. CASE c = b
      BY <2>1, <2>2, <3>1 DEF Seen, TypeOK, InTask
    <3>2. CASE c # b
      <4>1. queued'[c] = queued[c] /\ c # client[w] /\ (Armed(c)' <=> Armed(c))
        BY <2>1, <2>2, <2>3, <3>2, SetAssumption DEF TypeOK, Armed
      <4>2. \A u \in Workers : client[u] = c =>
              client'[u] = c /\ at'[u] = at[u] /\ back'[u] = back[u]
        BY <2>1, <2>2, <4>1 DEF TypeOK
      <4> QED
        BY <2>2, <2>4, <4>1, <4>2 DEF Seen
    <3> QED
      BY <3>1, <3>2
  <2> QED
    BY <1>1, <2>2, <2>4
<1>3. ASSUME NEW w \in Workers, Done(w) PROVE AllSeen'
  <2>1. /\ at' = [at EXCEPT ![w] = "idle"] /\ client' = [client EXCEPT ![w] = None]
        /\ at[w] = "done" /\ back' = [back EXCEPT ![w] = None]
        /\ UNCHANGED <<setting, interest, batch, adding, disc, life, queued>>
    BY <1>3 DEF Done, Goto, kernel, main
  <2>2. \A u \in Workers \ {w} : client'[u] = client[u] /\ at'[u] = at[u] /\ back'[u] = back[u]
    BY <2>1 DEF TypeOK
  <2>3. \A c \in Clients : Armed(c) => Armed(c)'
    BY <2>1 DEF Armed
  <2>4. \A u \in Workers, c \in Clients : WorkSees(u, c) => u # w
    BY <2>1 DEF WorkSees, InTask, InCall
  <2>5. \A u \in Workers, c \in Clients : WorkSees(u, c) => WorkSees(u, c)'
    BY <2>1, <2>2, <2>4 DEF WorkSees
  <2>6. \A c \in Clients : Seen(c) => Seen(c)'
    BY <2>1, <2>3, <2>5 DEF Seen, WorkSees
  <2> QED
    BY <1>1, <2>1, <2>6
<1>4. ASSUME UNCHANGED <<setting, at, client, back, disc>>, NEW c \in Clients,
             Armed(c) => Armed(c)' \/ c \in batch', c \in batch => c \in batch' \/ queued'[c] > 0,
             adding = c => adding' = c \/ Armed(c)', queued[c] > 0 => queued'[c] > 0, Seen(c)
      PROVE  Seen(c)'
  BY <1>4 DEF Seen
<1>5. ASSUME NEW b \in Clients, Dispatch(b) PROVE AllSeen'
  <2>1. /\ b \in batch /\ batch' = batch \ {b} /\ queued' = [queued EXCEPT ![b] = queued[b] + 1]
        /\ UNCHANGED <<setting, interest, adding, at, client, back, disc, life>>
    BY <1>5 DEF Dispatch, kernel, threads
  <2>2. \A c \in Clients : /\ c \in batch => c \in batch' \/ queued'[c] > 0
                           /\ queued[c] > 0 => queued'[c] > 0
    BY <2>1 DEF TypeOK
  <2>3. \A c \in Clients : Armed(c) => Armed(c)'
    BY <2>1 DEF Armed
  <2> QED
    BY <1>1, <1>4, <2>1, <2>2, <2>3
<1>6. ASSUME Register PROVE AllSeen'
  <2>1. /\ UNCHANGED <<setting, batch, queued, at, client, back, disc, life>>
        /\ adding \in Clients /\ adding' = None
        /\ interest' = IF file[sock[adding]] = None THEN interest
                       ELSE [interest EXCEPT ![sock[adding]] = [ptr |-> adding, armed |-> TRUE]]
    BY <1>6 DEF Register, TypeOK, threads
  <2>2. Born(adding) /\ sock[adding] \in Fds
    BY <2>1 DEF Births, Born
  <2>3. ASSUME Mild, NEW c \in Clients
        PROVE  (Armed(c) => Armed(c)') /\ (adding = c => Armed(c)')
    <3>1. file[sock[adding]] = adding /\ interest[sock[adding]] = None
      BY <2>1, <2>2, <2>3 DEF Sockets, AllSeen
    <3>2. interest' = [interest EXCEPT ![sock[adding]] = [ptr |-> adding, armed |-> TRUE]]
      BY <2>1, <3>1, SetAssumption
    <3>3. /\ interest'[sock[adding]] = [ptr |-> adding, armed |-> TRUE]
          /\ \A f \in Fds : f # sock[adding] => interest'[f] = interest[f]
      BY <2>2, <3>2 DEF TypeOK
    <3>4. [ptr |-> adding, armed |-> TRUE] # None
      <4>1. [ptr |-> adding, armed |-> TRUE] \in Registration
        BY <2>1 DEF Registration
      <4> QED
        BY <4>1, SetAssumption
    <3>5. /\ interest'[sock[adding]] # None /\ interest'[sock[adding]].ptr = adding
          /\ interest'[sock[adding]].armed
      BY <3>3, <3>4
    <3>6. adding = c => Armed(c)'
      BY <2>2, <3>5 DEF Armed
    <3>7. Armed(c) => Armed(c)'
      BY <3>1, <3>3 DEF Armed
    <3> QED
      BY <3>6, <3>7
  <2>4. ASSUME Mild, NEW c \in Clients, Seen(c) PROVE Seen(c)'
    BY <1>4, <2>1, <2>3, <2>4
  <2>5. \A c \in Clients : adding' # c
    BY <2>1, SetAssumption
  <2> QED
    BY <1>1, <2>1, <2>4, <2>5
<1>7. ASSUME Poll PROVE AllSeen'
  <2>1. UNCHANGED <<setting, adding, queued, at, client, back, disc, life>>
    BY <1>7 DEF Poll, threads
  <2>2. PICK F \in SUBSET Fds :
         /\ batch = {} /\ batch' = {interest[f].ptr : f \in F}
         /\ \A f \in F : /\ interest[f] # None /\ interest[f].armed
                         /\ interest'[f] # None /\ ~interest'[f].armed
                         /\ interest'[f].ptr = interest[f].ptr
         /\ \A f \in Fds \ F : interest'[f] = interest[f]
    BY <1>7, PollEvents
  <2>3. ASSUME NEW c \in Clients, Armed(c) PROVE Armed(c)' \/ c \in batch'
    <3>1. PICK f \in Fds : interest[f] # None /\ interest[f].ptr = c /\ interest[f].armed
      BY <2>3 DEF Armed
    <3>2. CASE f \in F
      BY <2>2, <3>1, <3>2
    <3>3. CASE f \notin F
      BY <2>2, <3>1, <3>3 DEF Armed
    <3> QED
      BY <3>2, <3>3
  <2> QED
    BY <1>1, <1>4, <2>1, <2>2, <2>3
<1>8. ASSUME NEW b \in Clients, Accept(b) PROVE AllSeen'
  <2>1. /\ UNCHANGED <<setting, batch, queued, interest, at, client, back, disc>>
        /\ life[b] = "unborn" /\ life' = [life EXCEPT ![b] = "live"]
        /\ adding = None /\ adding' = b
    BY <1>8 DEF Accept, threads
  <2>2. ~disc[b] /\ Seen(b)'
    BY <2>1 DEF Births, Seen
  <2>3. \A c \in Clients : Armed(c) => Armed(c)'
    BY <2>1 DEF Armed
  <2>4. \A c \in Clients : c # b => life'[c] = life[c] /\ adding # c
    BY <2>1, SetAssumption DEF TypeOK
  <2>5. ASSUME NEW c \in Clients, c # b, Seen(c) PROVE Seen(c)'
    BY <1>4, <2>1, <2>3, <2>4, <2>5
  <2> QED
    BY <1>1, <2>1, <2>2, <2>4, <2>5
<1>9. ASSUME ConnectDisconnects PROVE AllSeen'
  <2>1. setting' = setting /\ ~Mild
    BY <1>9 DEF ConnectDisconnects
  <2> QED
    BY <1>1, <2>1
<1>10. ASSUME UNCHANGED <<setting, batch, queued, interest, at, client, back, disc, life, adding>>
       PROVE  AllSeen'
  <2>1. \A c \in Clients : Seen(c)' <=> Seen(c)
    BY <1>10 DEF Seen, Armed
  <2> QED
    BY <1>1, <1>10, <2>1
<1>11. ASSUME NEW c \in Clients, PeerSends(c) \/ PeerHangsUp(c) PROVE AllSeen'
  <2>1. UNCHANGED <<setting, batch, queued, interest, at, client, back, disc, life, adding>>
    BY <1>11 DEF PeerSends, PeerHangsUp, main, threads
  <2> QED
    BY <1>10, <2>1
<1>12. ASSUME UNCHANGED vars PROVE AllSeen'
  <2>1. UNCHANGED <<setting, batch, queued, interest, at, client, back, disc, life, adding>>
    BY <1>12 DEF vars, kernel, main, threads
  <2> QED
    BY <1>10, <2>1
<1>13. setting.clients \subseteq Clients
  BY SettingAssumption DEF TypeOK, Setting
<1>14. ASSUME NEW w \in Workers, Middle(w) PROVE AllSeen'
  BY <1>14, MiddleAllSeen
<1> QED
  BY <1>2, <1>3, <1>5, <1>6, <1>7, <1>8, <1>9, <1>11, <1>12, <1>13, <1>14
  DEF Next, Peer, MainStep, TaskStep, Middle

\* server.c:97-176, 334-347, 402-428: a live client is armed, has an event on its
\* way, is worked for, or is disconnected and about to be looked at, for any number
\* of workers and clients, as long as no script disconnects it from outside and
\* nobody connects once a client is disconnected.
THEOREM ClientsRemembered == Spec => []NeverForgotten
<1>1. Init => SocketInv /\ AllSeen
  <2>1. Init => AllSeen
    BY SetAssumption DEF Init, AllSeen
  <2> QED
    BY <2>1, InitSockets
<1>2. SocketInv /\ AllSeen /\ [Next]_vars => (SocketInv /\ AllSeen)'
  BY SocketStep, AllSeenStep
<1>3. SocketInv /\ AllSeen => NeverForgotten
  <2> SUFFICES ASSUME SocketInv, AllSeen, ~setting.kicks, ~setting.arrivals,
                      NEW c \in Clients, life[c] = "live"
               PROVE  \/ interest[sock[c]] = [ptr |-> c, armed |-> TRUE]
                      \/ c \in batch \/ adding = c \/ queued[c] > 0
                      \/ \E w \in Workers : client[w] = c /\ (at[w] \in InTask \/ back[w] = "release")
                      \/ disc[c] /\ \E w \in Workers : client[w] = c /\ at[w] # "done"
    BY DEF NeverForgotten
  <2>1. Seen(c)
    BY DEF AllSeen
  <2>2. Armed(c) => interest[sock[c]] = [ptr |-> c, armed |-> TRUE]
    <3> SUFFICES ASSUME NEW f \in Fds, interest[f] # None, interest[f].ptr = c, interest[f].armed
                 PROVE  interest[sock[c]] = [ptr |-> c, armed |-> TRUE]
      BY DEF Armed
    <3>1. sock[c] = f
      BY DEF SocketInv, Sockets
    <3>2. interest[f] \in Registration
      BY DEF SocketInv, CountInv, TypeOK
    <3> QED
      BY <3>1, <3>2 DEF Registration
  <2> QED
    BY <2>1, <2>2 DEF Seen
<1> QED
  BY <1>1, <1>2, <1>3, PTL DEF Spec

-----------------------------------------------------------------------------
(* Freed in time: one worker does all the work.                            *)

\* A worker that comes across a client that is freed has only to give the package
\* back.
Untouched ==
  Orderly => \A c \in Clients : life[c] = "freed" =>
               \A w \in Workers : client[w] = c => at[w] = "done"

\* Only a worker of the setting takes a package, and it does not go on after it.
LEMMA EnlistedStep ==
  ASSUME CountInv, Enlisted, [Next]_vars
  PROVE  Enlisted' /\ setting' = setting
<1> USE DEF CountInv
<1>1. ASSUME UNCHANGED <<setting, at>> PROVE Enlisted' /\ setting' = setting
  BY <1>1 DEF Enlisted
<1>2. ASSUME NEW w \in Workers, Begin(w) \/ Done(w) PROVE Enlisted' /\ setting' = setting
  <2>1. setting' = setting /\ \A u \in Workers : u # w => at'[u] = at[u]
    BY <1>2 DEF Begin, Done, Goto, TypeOK
  <2>2. at'[w] = "idle" \/ w \in setting.workers
    BY <1>2 DEF Begin, Done, Goto, TypeOK
  <2> QED
    BY <2>1, <2>2 DEF Enlisted
<1>3. ASSUME NEW w \in Workers, Middle(w) PROVE Enlisted' /\ setting' = setting
  <2>1. setting' = setting /\ at[w] # "idle" /\ Others(w)
    BY <1>3, Moves, MiddleKeeps DEF Keeps
  <2> QED
    BY <2>1 DEF Enlisted, Others
<1>4. ASSUME NEW c \in Clients, PeerSends(c) \/ PeerHangsUp(c) \/ Accept(c) \/ Dispatch(c)
      PROVE  Enlisted' /\ setting' = setting
  BY <1>1, <1>4 DEF PeerSends, PeerHangsUp, Accept, Dispatch, threads
<1>5. ASSUME Poll \/ Register \/ ConnectDisconnects PROVE Enlisted' /\ setting' = setting
  BY <1>1, <1>5 DEF Poll, Register, ConnectDisconnects, threads
<1>6. ASSUME UNCHANGED vars PROVE Enlisted' /\ setting' = setting
  BY <1>1, <1>6 DEF vars, threads
<1>7. setting.clients \subseteq Clients
  BY SettingAssumption DEF TypeOK, Setting
<1> QED
  BY <1>2, <1>3, <1>4, <1>5, <1>6, <1>7 DEF Next, Peer, MainStep, TaskStep, Middle

\* With one worker in the setting no other has a package.
LEMMA NobodyElse ==
  ASSUME TypeOK, Enlisted, Orderly, NEW w \in Workers, at[w] # "idle"
  PROVE  \A u \in Workers : u # w => at[u] = "idle" /\ client[u] = None
<1>1. setting.workers \subseteq Workers
  BY SettingAssumption DEF TypeOK, Setting
<1>2. IsFiniteSet(setting.workers)
  BY <1>1, SetAssumption, FS_Subset
<1>3. PICK x : setting.workers = {x}
  BY <1>2, FS_Singleton DEF Orderly
<1> QED
  BY <1>3 DEF Enlisted, TypeOK

TimeInv ==
  /\ SocketInv /\ OneEvent /\ Ended /\ Enlisted
  /\ Untouched /\ CallbackOnce

\* A step in the middle of a package frees at most its own client, at its end.
LEMMA MiddleFrees ==
  ASSUME SocketInv, ~setting.arrivals, NEW w \in Workers, Middle(w)
  PROVE  /\ life' = life \/ (Remove(w) /\ life' = [life EXCEPT ![client[w]] = "freed"])
         /\ Remove(w) /\ life[client[w]] = "live" => life'[client[w]] = "freed"
         /\ Remove(w) => at'[w] = "done"
<1> USE DEF SocketInv, CountInv
<1>1. client[w] \in Clients /\ Born(client[w])
  BY Moves, Working
<1>2. ASSUME Remove(w), life' # life PROVE life' = [life EXCEPT ![client[w]] = "freed"]
  <2>1. PICK i \in DOMAIN clients :
          /\ clients[i] \in Clients /\ life[clients[i]] = "live"
          /\ sock[clients[i]] = sock[client[w]]
          /\ life' = [life EXCEPT ![clients[i]] = "freed"]
    BY <1>2, Removes
  <2>2. clients[i] = client[w]
    BY <1>1, <2>1 DEF Sockets, Born
  <2> QED
    BY <2>1, <2>2
<1>3. ASSUME Remove(w), life[client[w]] = "live" PROVE life'[client[w]] = "freed"
  <2>1. PICK i \in DOMAIN clients : clients[i] = client[w]
    BY <1>1, <1>3 DEF Listed, InVector
  <2>2. Matches(client[w]) # {}
    BY <2>1 DEF Matches
  <2>3. PICK j \in DOMAIN clients :
          /\ clients[j] \in Clients /\ life[clients[j]] = "live"
          /\ sock[clients[j]] = sock[client[w]]
          /\ life' = [life EXCEPT ![clients[j]] = "freed"]
    BY <1>3, <2>2, Removes
  <2>4. clients[j] = client[w]
    BY <1>1, <2>3 DEF Sockets, Born
  <2> QED
    BY <1>1, <2>3, <2>4 DEF TypeOK
<1>4. Remove(w) => at'[w] = "done"
  BY DEF Remove, Returns, Goto, TypeOK
<1> QED
  BY <1>2, <1>3, <1>4, MiddleKeeps DEF Keeps

\* Nobody but the callback leads to the removal.
LEMMA ToRemove ==
  ASSUME TypeOK, Returns, NEW w \in Workers, Middle(w), at'[w] = "remove"
  PROVE  CallOnPlayerDisconnect(w)
<1> USE DEF TypeOK, Goto, Call
<1>1. CASE Enter(w) \/ ReadFails(w) \/ ReadData(w) \/ ReadEnd(w) \/ Process(w)
  BY <1>1 DEF Enter, ReadFails, ReadData, ReadEnd, Process
<1>2. CASE Warn(w) \/ WarnThenRefuse(w) \/ ProcessDisconnects(w) \/ Rearm(w)
  BY <1>2 DEF Warn, WarnThenRefuse, ProcessDisconnects, Rearm
<1>3. CASE ReleaseRef(w) \/ CheckRef(w) \/ Disconnect(w)
  BY <1>3 DEF ReleaseRef, CheckRef, Disconnect
<1>4. CASE GetRefCount(w) \/ Remove(w)
  <2>1. back[w] \in {"release", "done"}
    BY <1>4 DEF GetRefCount, Remove, Returns, InCall
  <2> QED
    BY <1>4, <2>1 DEF GetRefCount, Remove
<1> QED
  BY <1>1, <1>2, <1>3, <1>4 DEF Middle

\* The worker frees a client that nobody else works for, after one callback.
LEMMA MiddleInTime ==
  ASSUME TimeInv, NEW w \in Workers, Middle(w)
  PROVE  Untouched' /\ CallbackOnce'
<1> USE DEF TimeInv, SocketInv, CountInv
<1>1. /\ setting' = setting /\ Others(w) /\ client' = client /\ client[w] \in Clients
      /\ at[w] # "idle" /\ at[w] # "done"
  BY Moves, MiddleKeeps DEF Keeps
<1> SUFFICES ASSUME Orderly, NEW c \in Clients
             PROVE  /\ life'[c] = "freed" => \A u \in Workers : client[u] = c => at'[u] = "done"
                    /\ told'[c] = IF \/ life'[c] = "freed"
                                     \/ \E u \in Workers : client[u] = c /\ at'[u] = "remove"
                                  THEN 1 ELSE 0
  BY <1>1 DEF Untouched, CallbackOnce, Orderly
<1>2. /\ life[c] = "freed" => \A u \in Workers : client[u] = c => at[u] = "done"
      /\ told[c] = IF \/ life[c] = "freed"
                      \/ \E u \in Workers : client[u] = c /\ at[u] = "remove" THEN 1 ELSE 0
  BY DEF Untouched, CallbackOnce
<1>3. \A u \in Workers : u # w => client[u] # c
  BY <1>1, NobodyElse, SetAssumption
<1>4. /\ life' = life \/ (Remove(w) /\ life' = [life EXCEPT ![client[w]] = "freed"])
      /\ Remove(w) /\ life[client[w]] = "live" => life'[client[w]] = "freed"
      /\ Remove(w) => at'[w] = "done"
  BY MiddleFrees DEF Orderly
<1>5. told' = told \/ (CallOnPlayerDisconnect(w) /\ told' = [told EXCEPT ![client[w]] = @ + 1])
  BY MiddleKeeps DEF Keeps, CallOnPlayerDisconnect
<1>6. CASE c # client[w]
  <2>1. life'[c] = life[c] /\ told'[c] = told[c]
    BY <1>4, <1>5, <1>6 DEF TypeOK
  <2> QED
    BY <1>2, <1>3, <1>6, <2>1
<1>7. CASE c = client[w]
  <2>1. life[c] = "live"
    <3>1. Born(c)
      BY <1>1, <1>7, Working
    <3> QED
      BY <1>1, <1>2, <1>7, <3>1 DEF Born, TypeOK
  <2>2. CASE Remove(w)
    <3>1. life'[c] = "freed" /\ at'[w] = "done" /\ at[w] = "remove"
      BY <1>4, <1>7, <2>1, <2>2 DEF Remove
    <3>2. told'[c] = told[c]
      BY <1>5, <2>2 DEF Remove
    <3> QED
      BY <1>2, <1>3, <1>7, <3>1, <3>2
  <2>3. CASE CallOnPlayerDisconnect(w)
    <3>1. /\ at[w] = "callback" /\ at'[w] = "remove" /\ life' = life
          /\ told' = [told EXCEPT ![client[w]] = @ + 1]
      BY <2>3 DEF CallOnPlayerDisconnect, Goto, TypeOK
    <3>2. told[c] = 0
      BY <1>2, <1>3, <2>1, <3>1
    <3>3. told'[c] = 1
      BY <1>7, <3>1, <3>2 DEF TypeOK
    <3> QED
      BY <1>7, <2>1, <3>1, <3>3
  <2>4. CASE ~Remove(w) /\ ~CallOnPlayerDisconnect(w)
    <3>1. life' = life /\ told' = told /\ at'[w] # "remove" /\ at[w] # "remove"
      <4>1. at'[w] # "remove"
        BY <2>4, ToRemove
      <4>2. at[w] # "remove"
        BY <2>4 DEF Middle, Enter, ReadFails, ReadData, ReadEnd, Warn, WarnThenRefuse, Process,
                    ProcessDisconnects, Rearm, ReleaseRef, CheckRef, Disconnect, GetRefCount
      <4> QED
        BY <1>4, <1>5, <2>4, <4>1, <4>2
    <3> QED
      BY <1>2, <1>3, <2>1, <3>1
  <2> QED
    BY <2>2, <2>3, <2>4
<1> QED
  BY <1>6, <1>7

\* Every step keeps to it.
LEMMA TimeStep == TimeInv /\ [Next]_vars => TimeInv'
<1> SUFFICES ASSUME TimeInv, [Next]_vars PROVE TimeInv'
  OBVIOUS
<1> USE DEF TimeInv
<1>1. SocketInv' /\ OneEvent' /\ Ended' /\ Enlisted' /\ setting' = setting
  BY SocketStep, OneEventStep, EndedStep, EnlistedStep DEF SocketInv
<1> USE DEF SocketInv, CountInv
<1>2. (Orderly)' <=> Orderly
  BY <1>1 DEF Orderly
<1>3. ASSUME UNCHANGED <<at, client, told>>,
             \A c \in Clients : life'[c] = "freed" <=> life[c] = "freed"
      PROVE  Untouched' /\ CallbackOnce'
  <2>1. Untouched'
    BY <1>2, <1>3 DEF Untouched
  <2>2. CallbackOnce'
    BY <1>2, <1>3 DEF CallbackOnce
  <2> QED
    BY <2>1, <2>2
<1>4. ASSUME NEW w \in Workers, Begin(w) PROVE Untouched' /\ CallbackOnce'
  <2>1. PICK b \in Clients : queued[b] > 0 /\ client' = [client EXCEPT ![w] = b]
    BY <1>4 DEF Begin
  <2>2. /\ at[w] = "idle" /\ at' = [at EXCEPT ![w] = "enter"]
        /\ UNCHANGED <<setting, life, told>>
    BY <1>4 DEF Begin, Goto
  <2>3. client[w] = None
    BY <2>2 DEF TypeOK
  <2>4. Orderly => life[b] # "freed"
    BY <2>1 DEF Orderly, Ended, Quiet
  <2>5. \A u \in Workers, c \in Clients :
          client'[u] = c => (u = w /\ c = b /\ at'[u] = "enter")
                            \/ (client[u] = c /\ at'[u] = at[u])
    BY <2>1, <2>2 DEF TypeOK
  <2>6. \A u \in Workers, c \in Clients :
          client[u] = c => client'[u] = c /\ at'[u] = at[u]
    BY <2>1, <2>2, <2>3, SetAssumption DEF TypeOK
  <2>7. Untouched'
    BY <1>2, <2>2, <2>4, <2>5 DEF Untouched
  <2>8. CallbackOnce'
    <3> SUFFICES ASSUME Orderly, NEW c \in Clients
                 PROVE  (\E u \in Workers : client'[u] = c /\ at'[u] = "remove")
                        <=> (\E u \in Workers : client[u] = c /\ at[u] = "remove")
      BY <1>2, <2>2 DEF CallbackOnce
    <3> QED
      BY <2>5, <2>6
  <2> QED
    BY <2>7, <2>8
<1>5. ASSUME NEW w \in Workers, Done(w) PROVE Untouched' /\ CallbackOnce'
  <2>1. /\ at[w] = "done" /\ at' = [at EXCEPT ![w] = "idle"]
        /\ client' = [client EXCEPT ![w] = None] /\ UNCHANGED <<setting, life, told>>
    BY <1>5 DEF Done, Goto
  <2>2. \A u \in Workers, c \in Clients : client'[u] = c => client[u] = c /\ at'[u] = at[u]
    BY <2>1, SetAssumption DEF TypeOK
  <2>3. \A u \in Workers, c \in Clients :
          client[u] = c /\ at[u] = "remove" => client'[u] = c /\ at'[u] = "remove"
    BY <2>1 DEF TypeOK
  <2>4. Untouched'
    BY <1>2, <2>1, <2>2 DEF Untouched
  <2>5. CallbackOnce'
    <3> SUFFICES ASSUME Orderly, NEW c \in Clients
                 PROVE  (\E u \in Workers : client'[u] = c /\ at'[u] = "remove")
                        <=> (\E u \in Workers : client[u] = c /\ at[u] = "remove")
      BY <1>2, <2>1 DEF CallbackOnce
    <3> QED
      BY <2>2, <2>3
  <2> QED
    BY <2>4, <2>5
<1>6. ASSUME NEW c \in Clients, PeerSends(c) \/ PeerHangsUp(c) \/ Dispatch(c)
      PROVE  Untouched' /\ CallbackOnce'
  <2>1. UNCHANGED <<at, client, told, life>>
    BY <1>6 DEF PeerSends, PeerHangsUp, Dispatch, threads
  <2> QED
    BY <1>3, <2>1
<1>7. ASSUME NEW c \in Clients, Accept(c) PROVE Untouched' /\ CallbackOnce'
  <2>1. /\ UNCHANGED <<at, client, told>>
        /\ life[c] = "unborn" /\ life' = [life EXCEPT ![c] = "live"]
    BY <1>7 DEF Accept, threads
  <2>2. \A d \in Clients : life'[d] = "freed" <=> life[d] = "freed"
    BY <2>1 DEF TypeOK
  <2> QED
    BY <1>3, <2>1, <2>2
<1>8. ASSUME Poll \/ Register \/ ConnectDisconnects PROVE Untouched' /\ CallbackOnce'
  <2>1. UNCHANGED <<at, client, told, life>>
    BY <1>8 DEF Poll, Register, ConnectDisconnects, threads
  <2> QED
    BY <1>3, <2>1
<1>9. ASSUME UNCHANGED vars PROVE Untouched' /\ CallbackOnce'
  <2>1. UNCHANGED <<at, client, told, life>>
    BY <1>9 DEF vars, threads
  <2> QED
    BY <1>3, <2>1
<1>10. setting.clients \subseteq Clients
  BY SettingAssumption DEF TypeOK, Setting
<1>11. ASSUME NEW w \in Workers, Middle(w) PROVE Untouched' /\ CallbackOnce'
  BY <1>11, MiddleInTime
<1>12. Untouched' /\ CallbackOnce'
  BY <1>4, <1>5, <1>6, <1>7, <1>8, <1>9, <1>10, <1>11
  DEF Next, Peer, MainStep, TaskStep, Middle
<1> QED
  BY <1>1, <1>12

\* server.c:97-176: with one worker, no warnings, and no script that disconnects
\* others, a client is freed when no event, task or registration refers to it any
\* more, after exactly one disconnect callback.
THEOREM ClientsFreedInTime == Spec => []FreedInTime
<1>1. Init => TimeInv
  <2>1. Init => Enlisted /\ Untouched
    BY DEF Init, Enlisted, Untouched
  <2>2. Init => CallbackOnce
    BY DEF Init, CallbackOnce
  <2> QED
    BY <2>1, <2>2, InitSockets, InitOneEvent, InitEnded DEF TimeInv
<1>2. TimeInv => FreedInTime
  <2> SUFFICES ASSUME TimeInv, Orderly, NEW c \in Clients, life[c] = "freed"
               PROVE  Unreachable(c)
    BY DEF FreedInTime, HandlersLive, TimeInv
  <2>1. disc[c] /\ Quiet(c)
    BY DEF TimeInv, Orderly, Ended
  <2>2. interest[sock[c]] = None
    BY <2>1 DEF TimeInv, SocketInv, Orderly, Sockets, Born
  <2>3. \A f \in Fds : interest[f] = None \/ interest[f].ptr # c
    BY <2>2 DEF TimeInv, SocketInv, Orderly, Sockets
  <2>4. \A w \in Workers : client[w] = c => at[w] = "done"
    BY DEF TimeInv, Untouched
  <2> QED
    BY <2>1, <2>3, <2>4 DEF Unreachable, Quiet
<1> QED
  BY <1>1, <1>2, TimeStep, PTL DEF Spec
=============================================================================
