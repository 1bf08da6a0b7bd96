-------------------------- MODULE ObjectStoreProofs --------------------------
(***************************************************************************)
(* Proofs about ObjectStore: types, that child rows always have the row of *)
(* their object, that saves are whole and durable, and that the store      *)
(* implements VersionStore.                                                *)
(***************************************************************************)
EXTENDS ObjectStore, TLAPS

IInv == TypeOK /\ NoOrphans

-----------------------------------------------------------------------------
(* What makes a save whole and durable.                                    *)

\* Outside of a transaction the connection sees what is on disk.
Synced == ~open => disk = view

\* What is stored was stored by a save that has begun and has that many rows.
DatedRow(stored) ==
    /\ stored.row # None => stored.row <= saves
    /\ \A i \in Index : stored.child[i] # None =>
          stored.child[i] <= saves /\ i <= len[stored.child[i]]

Dated ==
    \A o \in Objects :
        /\ DatedRow(disk[o]) /\ DatedRow(view[o])
        /\ settled[o] # None => settled[o] <= saves

\* Who is marked as the only one has its object for itself; who is marked as alone
\* has begun last, and nobody has ended its transaction.
Only ==
    \A t \in Threads :
        /\ save[t].at # "idle" /\ save[t].only =>
             \A u \in Busy \ {t} : save[u].obj # save[t].obj
        /\ save[t].at = "load" =>
             save[t].obj \in Objects /\ save[t].version \in 0 .. saves

Alone ==
    \A t \in Busy : save[t].alone =>
        /\ save[t].only /\ Busy = {t} /\ save[t].version = saves
        /\ save[t].at # "begin" => open

\* A save that has its object for itself finds there what it has stored.
Has(stored, v, n) ==
    /\ n > 0 => stored.row = v
    /\ \A i \in Index : i < n => stored.child[i] = v

Written ==
    \A t \in Busy :
        /\ save[t].at = "begin" => save[t].next = 0
        /\ save[t].at = "end" /\ save[t].ok => save[t].next > len[save[t].version]
        /\ save[t].only => Has(view[save[t].obj], save[t].version, save[t].next)

\* A calm object is whole on disk, and for the connection too unless it is being
\* saved, which a thread that is alone does and without a failure so far.
Tidy(stored) ==
    stored.row # None =>
        /\ Complete(stored, stored.row)
        /\ \A i \in Index :
             i > len[stored.row] /\ stored.child[i] # None =>
                 stored.child[i] < stored.row /\ i <= len[stored.child[i]]

Calm ==
    \A o \in Objects : calm[o] =>
        /\ Tidy(disk[o])
        /\ Saving(o) = {} => Tidy(view[o])
        /\ \A t \in Saving(o) : save[t].alone /\ save[t].ok

\* A settled object is not being saved, and complete for the connection.
Settled ==
    \A o \in Objects : settled[o] # None =>
        Saving(o) = {} /\ Complete(view[o], settled[o])

SInv ==
    /\ TypeOK /\ Synced /\ Dated /\ Only /\ Alone /\ Written /\ Calm /\ Settled
    /\ Durable /\ LoadsWhole

\* The state a thread is in while it saves has an object and a version.
LEMMA SavesOf ==
    ASSUME TypeOK, NEW t \in Threads, save[t].at \in {"begin", "store", "end"}
    PROVE  /\ save[t] \in Saves /\ save[t].obj \in Objects
           /\ save[t].version \in 1 .. saves /\ save[t].version \in Versions
           /\ len[save[t].version] \in 0 .. MaxChildren
BY StoreAssumption DEF TypeOK, Saves, Busy, Versions

\* What the program starts with has its type.
LEMMA Empty == NoSave \in Saves /\ Nothing \in Stored
<1>1. NoSave \in Saves
  BY StoreAssumption DEF NoSave, Saves
<1>2. Nothing \in Stored
  BY DEF Nothing, Stored
<1> QED
  BY <1>1, <1>2

\* A thread's record keeps its type as the save goes on.
LEMMA SaveSteps ==
    ASSUME NEW s \in Saves
    PROVE  /\ [s EXCEPT !.at = "store"] \in Saves
           /\ [s EXCEPT !.at = "end"] \in Saves
           /\ Failed(s) \in Saves /\ Met(s) \in Saves
           /\ Met(s).at = s.at /\ Met(s).obj = s.obj /\ Met(s).version = s.version
           /\ Met(s).ok = s.ok /\ Met(s).next = s.next
           /\ \/ s.at \in {"idle", "begin"} /\ Met(s) = s
              \/ ~Met(s).only /\ ~Met(s).alone
           /\ \A n \in 0 .. MaxChildren + 1 : [s EXCEPT !.next = n] \in Saves
<1>1. [s EXCEPT !.at = "store"] \in Saves
  BY DEF Saves
<1>2. [s EXCEPT !.at = "end"] \in Saves
  BY DEF Saves
<1>3. Failed(s) \in Saves
  BY DEF Saves, Failed
<1>4. ASSUME NEW n \in 0 .. MaxChildren + 1 PROVE [s EXCEPT !.next = n] \in Saves
  BY DEF Saves
<1>5. /\ Met(s) \in Saves
      /\ Met(s).at = s.at /\ Met(s).obj = s.obj /\ Met(s).version = s.version
      /\ Met(s).ok = s.ok /\ Met(s).next = s.next
      /\ \/ s.at \in {"idle", "begin"} /\ Met(s) = s
         \/ ~Met(s).only /\ ~Met(s).alone
  <2>1. CASE s.at \in {"idle", "begin"}
    BY <2>1 DEF Met
  <2>2. CASE s.at \notin {"idle", "begin"}
    <3>1. Met(s) = [s EXCEPT !.alone = FALSE, !.only = FALSE]
      BY <2>2 DEF Met
    <3> QED
      BY <3>1 DEF Saves
  <2> QED
    BY <2>1, <2>2
<1> QED
  BY <1>1, <1>2, <1>3, <1>4, <1>5

\* What a transaction that is given up does to the threads.
LEMMA RollsBack ==
    ASSUME TypeOK, NEW t \in Threads, EndLost(t) \/ FailLost(t)
    PROVE  /\ t \in Busy /\ save[t].obj \in Objects
           /\ save' \in [Threads -> Saves] /\ Busy' \subseteq Busy
           /\ \A u \in Threads \ {t} :
                /\ save'[u].at = save[u].at /\ save'[u].obj = save[u].obj
                /\ save'[u].version = save[u].version
           /\ \A u \in Threads :
                \/ save'[u].at = "idle"
                \/ save'[u].at = "begin" /\ u # t /\ save'[u] = save[u]
                \/ ~save'[u].only /\ ~save'[u].alone
           /\ \/ save'[t].at = "idle"
              \/ /\ save'[t].at = "end" /\ save'[t].obj = save[t].obj
                 /\ save'[t].version = save[t].version
           /\ \A u \in Busy' : u # t \/ ~save'[u].ok
           /\ \A u \in Busy' \ {t} :
                save'[u].ok = save[u].ok /\ save'[u].next = save[u].next
<1>1. save \in [Threads -> Saves] /\ save[t].at \in {"store", "end"}
  BY DEF TypeOK, EndLost, FailLost, Fails
<1>2. t \in Busy /\ save[t].obj \in Objects
  BY <1>1, SavesOf DEF Busy
<1> DEFINE s == save[t]
           f == [s EXCEPT !.at = "end", !.ok = FALSE]
<1>3. Met(f) = [f EXCEPT !.alone = FALSE, !.only = FALSE] /\ f \in Saves
  BY <1>1 DEF Met, Saves
<1>4. /\ Met(f) \in Saves /\ Met(f).at = "end" /\ Met(f).ok = FALSE
      /\ Met(f).alone = FALSE /\ Met(f).only = FALSE
      /\ Met(f).obj = s.obj /\ Met(f).version = s.version
  BY <1>1, <1>3 DEF Saves
<1>5. save'[t] = NoSave \/ save'[t] = Met(f)
  BY DEF EndLost, FailLost, Failed
<1> HIDE DEF f, s
<1>6. \A u \in Threads \ {t} : save'[u] = Met(save[u])
  BY DEF EndLost, FailLost
<1>7. \A u \in Threads \ {t} :
        /\ save'[u] \in Saves
        /\ save'[u].at = save[u].at /\ save'[u].obj = save[u].obj
        /\ save'[u].version = save[u].version
  <2> SUFFICES ASSUME NEW u \in Threads \ {t}
               PROVE  /\ save'[u] \in Saves
                      /\ save'[u].at = save[u].at /\ save'[u].obj = save[u].obj
                      /\ save'[u].version = save[u].version
    OBVIOUS
  <2>1. save[u] \in Saves /\ save'[u] = Met(save[u])
    BY <1>1, <1>6
  <2> QED
    BY <2>1, SaveSteps
<1>8. \A u \in Threads \ {t} :
        /\ save'[u].ok = save[u].ok /\ save'[u].next = save[u].next
        /\ \/ save'[u].at = "idle"
           \/ save'[u].at = "begin" /\ save'[u] = save[u]
           \/ ~save'[u].only /\ ~save'[u].alone
  <2> SUFFICES ASSUME NEW u \in Threads \ {t}
               PROVE  /\ save'[u].ok = save[u].ok /\ save'[u].next = save[u].next
                      /\ \/ save'[u].at = "idle"
                         \/ save'[u].at = "begin" /\ save'[u] = save[u]
                         \/ ~save'[u].only /\ ~save'[u].alone
    OBVIOUS
  <2>1. save[u] \in Saves /\ save'[u] = Met(save[u])
    BY <1>1, <1>6
  <2>2. /\ Met(save[u]).ok = save[u].ok /\ Met(save[u]).next = save[u].next
        /\ \/ save[u].at \in {"idle", "begin"} /\ Met(save[u]) = save[u]
           \/ ~Met(save[u]).only /\ ~Met(save[u]).alone
    BY <2>1, SaveSteps
  <2> QED
    BY <2>1, <2>2
<1>9. save' \in [Threads -> Saves]
  <2>1. save'[t] \in Saves
    BY <1>4, <1>5, Empty
  <2>2. save' = [u \in Threads |-> save'[u]]
    BY DEF EndLost, FailLost
  <2> QED
    BY <1>7, <2>1, <2>2
<1>10. Busy' \subseteq Busy
  BY <1>2, <1>7 DEF Busy
<1>11. /\ save'[t].at = "idle" \/ (~save'[t].only /\ ~save'[t].alone)
       /\ \/ save'[t].at = "idle"
          \/ /\ save'[t].at = "end" /\ save'[t].obj = save[t].obj
             /\ save'[t].version = save[t].version
       /\ save'[t].at # "idle" => ~save'[t].ok
  <2>1. CASE save'[t] = NoSave
    <3>1. NoSave.at = "idle"
      BY DEF NoSave
    <3>2. save'[t].at = "idle"
      BY <2>1, <3>1
    <3> QED
      BY <3>2
  <2>2. CASE save'[t] = Met(f)
    <3>1. s = save[t]
      BY DEF s
    <3> QED
      BY <1>4, <2>2, <3>1
  <2> QED
    BY <1>5, <2>1, <2>2
<1> QED
  BY <1>2, <1>7, <1>8, <1>9, <1>10, <1>11 DEF Busy

\* A new save makes the others overlap, and leaves the rest of them alone.
LEMMA SaveOthers ==
    ASSUME TypeOK, NEW t \in Threads, NEW o \in Objects, NEW n \in 0 .. MaxChildren,
           Save(t, o, n), NEW u \in Threads, u # t
    PROVE  /\ save'[u].at = save[u].at /\ save'[u].obj = save[u].obj
           /\ save'[u].version = save[u].version /\ save'[u].next = save[u].next
           /\ save'[u].ok = save[u].ok
           /\ save[u].at # "idle" =>
                /\ ~save'[u].alone
                /\ save'[u].only => save[u].only /\ save[u].obj # o
<1>1. CASE save[u] = NoSave
  <2>1. save'[u] = save[u]
    BY <1>1 DEF Save
  <2> QED
    BY <1>1, <2>1 DEF NoSave
<1>2. CASE save[u] # NoSave
  <2> DEFINE c == save[u].only /\ save[u].obj # o
  <2>1. save'[u] = [save[u] EXCEPT !.alone = FALSE, !.only = c]
    BY <1>2 DEF Save
  <2>2. save[u] \in Saves
    BY DEF TypeOK
  <2> HIDE DEF c
  <2>3. /\ save'[u].at = save[u].at /\ save'[u].obj = save[u].obj
        /\ save'[u].version = save[u].version /\ save'[u].next = save[u].next
        /\ save'[u].ok = save[u].ok /\ save'[u].alone = FALSE /\ save'[u].only = c
    BY <2>1, <2>2 DEF Saves
  <2> QED
    BY <2>3 DEF c
<1> QED
  BY <1>1, <1>2

\* Nothing is stored at first.
LEMMA InitInv == Init => IInv
<1> SUFFICES ASSUME Init PROVE IInv
  OBVIOUS
<1>1. TypeOK
  <2>1. disk \in [Objects -> Stored] /\ view \in [Objects -> Stored]
    BY Empty DEF Init
  <2>2. save \in [Threads -> Saves]
    BY Empty DEF Init
  <2>3. Busy = {}
    BY DEF Init, Busy, NoSave
  <2>4. len \in [Versions -> 0 .. MaxChildren] /\ saves \in 0 .. MaxSaves
    BY StoreAssumption DEF Init
  <2>5. /\ calm \in [Objects -> BOOLEAN] /\ settled \in [Objects -> Versions \cup {None}]
        /\ open \in BOOLEAN /\ pending \subseteq Objects
    BY DEF Init
  <2> QED
    BY <2>1, <2>2, <2>3, <2>4, <2>5 DEF TypeOK
<1>2. NoOrphans
  BY DEF Init, NoOrphans, Nothing
<1> QED
  BY <1>1, <1>2 DEF IInv

\* Every step keeps the types.
LEMMA TypeStep == TypeOK /\ [Next]_vars => TypeOK'
<1> SUFFICES ASSUME TypeOK, [Next]_vars PROVE TypeOK'
  OBVIOUS
<1> USE StoreAssumption
<1>1. ASSUME NEW t \in Threads, NEW o \in Objects, NEW n \in 0 .. MaxChildren, Save(t, o, n)
      PROVE  TypeOK'
  <2> DEFINE new == [at |-> "begin", obj |-> o, version |-> saves + 1, next |-> 0,
                     ok |-> TRUE, alone |-> Busy = {}, only |-> Saving(o) = {}]
  <2>1. saves' \in 1 .. MaxSaves /\ saves' = saves + 1 /\ len' \in [Versions -> 0 .. MaxChildren]
    <3>1. saves < MaxSaves /\ saves' = saves + 1 /\ len' = [len EXCEPT ![saves + 1] = n]
      BY <1>1, Zenon DEF Save
    <3>2. saves \in 0 .. MaxSaves /\ len \in [Versions -> 0 .. MaxChildren]
      BY DEF TypeOK
    <3> QED
      BY <3>1, <3>2 DEF Versions
  <2> DEFINE a == Busy = {}
             b == Saving(o) = {}
  <2>2. new \in Saves
    <3>1. a \in BOOLEAN /\ b \in BOOLEAN
      OBVIOUS
    <3> HIDE DEF a, b
    <3>2. [at |-> "begin", obj |-> o, version |-> saves + 1, next |-> 0,
           ok |-> TRUE, alone |-> a, only |-> b] \in Saves
      BY <2>1, <3>1 DEF Saves
    <3> QED
      BY <3>2 DEF a, b
  <2>3. ASSUME NEW u \in Threads
        PROVE  /\ save'[u] \in Saves
               /\ u # t => /\ save'[u].at = save[u].at /\ save'[u].obj = save[u].obj
                           /\ save'[u].version = save[u].version
    <3>1. CASE u = t
      BY <1>1, <2>2, <3>1 DEF Save
    <3>2. CASE u # t /\ save[u] = NoSave
      BY <1>1, <3>2, Empty DEF Save
    <3>3. CASE u # t /\ save[u] # NoSave
      <4> DEFINE c == save[u].only /\ save[u].obj # o
      <4>1. save'[u] = [save[u] EXCEPT !.alone = FALSE, !.only = c]
        BY <1>1, <3>3 DEF Save
      <4>2. c \in BOOLEAN /\ save[u] \in Saves
        BY DEF TypeOK
      <4> HIDE DEF c
      <4> QED
        BY <3>3, <4>1, <4>2 DEF Saves
    <3> QED
      BY <3>1, <3>2, <3>3
  <2>4. save'[t] = new
    BY <1>1 DEF Save
  <2>5. save' \in [Threads -> Saves]
    BY <1>1, <2>3 DEF Save
  <2>6. \A u \in Busy' : save'[u].obj \in Objects /\ save'[u].version \in 1 .. saves'
    BY <2>1, <2>3, <2>4 DEF Busy, TypeOK
  <2>7. calm' \in [Objects -> BOOLEAN]
    BY <1>1, Zenon DEF Save, TypeOK
  <2> QED
    <3>1. settled' \in [Objects -> Versions \cup {None}] /\ saves' \in 0 .. MaxSaves
      <4>1. settled' = [settled EXCEPT ![o] = None]
        BY <1>1, Zenon DEF Save
      <4> QED
        BY <2>1, <4>1 DEF TypeOK
    <3>2. UNCHANGED <<disk, view, open, pending>>
      BY <1>1 DEF Save
    <3> QED
      BY <2>1, <2>5, <2>6, <2>7, <3>1, <3>2 DEF TypeOK
<1>2. ASSUME NEW t \in Threads, Begin(t) PROVE TypeOK'
  <2>1. save' \in [Threads -> Saves]
    <3>1. save' = [save EXCEPT ![t] = [save[t] EXCEPT !.at = "store"]]
      BY <1>2 DEF Begin
    <3>2. save \in [Threads -> Saves] /\ [save[t] EXCEPT !.at = "store"] \in Saves
      BY SaveSteps DEF TypeOK
    <3> QED
      BY <3>1, <3>2, Zenon
  <2> QED
    BY <1>2, <2>1, SavesOf DEF Begin, TypeOK, Busy
<1>3. ASSUME NEW t \in Threads, StoreRow(t) PROVE TypeOK'
  <2>1. save[t] \in Saves /\ save[t].obj \in Objects /\ save[t].version \in Versions
        /\ len[save[t].version] \in 0 .. MaxChildren
    BY <1>3, SavesOf DEF StoreRow
  <2>2. save[t].next \in Nat /\ (~IsRow(t) => save[t].next \in Index)
    BY <1>3, <2>1 DEF StoreRow, Saves, Index, Last, IsRow
  <2>3. save' \in [Threads -> Saves]
    <3>1. save' = [save EXCEPT ![t] = [save[t] EXCEPT !.next = save[t].next + 1]]
      BY <1>3 DEF StoreRow
    <3>2. save[t].next + 1 \in 0 .. MaxChildren + 1
      BY <1>3, <2>1, <2>2 DEF StoreRow, Last
    <3>3. save \in [Threads -> Saves] /\ [save[t] EXCEPT !.next = save[t].next + 1] \in Saves
      BY <2>1, <3>2, SaveSteps DEF TypeOK
    <3> QED
      BY <3>1, <3>3, Zenon
  <2>4. view' \in [Objects -> Stored]
    <3> DEFINE o == save[t].obj
               v == save[t].version
               i == save[t].next
    <3>1. view \in [Objects -> Stored] /\ view[o] \in Stored
      BY <2>1 DEF TypeOK
    <3>2. [view[o] EXCEPT !.row = v] \in Stored
      BY <2>1, <3>1 DEF Stored
    <3>3. ~IsRow(t) => [view[o] EXCEPT !.child[i] = v] \in Stored
      BY <2>1, <2>2, <3>1 DEF Stored
    <3>4. CASE IsRow(t)
      <4>1. view' = [view EXCEPT ![o] = [view[o] EXCEPT !.row = v]]
        BY <1>3, <3>4 DEF StoreRow, Update
      <4> QED
        BY <3>1, <3>2, <4>1, Zenon
    <3>5. CASE ~IsRow(t)
      <4>1. view' = [view EXCEPT ![o] = [view[o] EXCEPT !.child[i] = v]]
        BY <1>3, <3>5 DEF StoreRow, Update
      <4> QED
        BY <3>1, <3>3, <3>5, <4>1, Zenon
    <3> QED
      BY <3>4, <3>5
  <2>5. disk' \in [Objects -> Stored]
    BY <1>3, <2>4 DEF StoreRow, TypeOK, Update
  <2> QED
    BY <1>3, <2>3, <2>4, <2>5 DEF StoreRow, TypeOK, Busy
<1>4. ASSUME NEW t \in Threads, Fail(t) PROVE TypeOK'
  <2>1. save' \in [Threads -> Saves]
    <3>1. save' = [save EXCEPT ![t] = Failed(save[t])]
      BY <1>4 DEF Fail
    <3>2. save \in [Threads -> Saves] /\ Failed(save[t]) \in Saves
      BY SaveSteps DEF TypeOK
    <3> QED
      BY <3>1, <3>2, Zenon
  <2> QED
    BY <1>4, <2>1, SavesOf DEF Fail, Fails, Failed, TypeOK, Busy
<1>5. ASSUME NEW t \in Threads, AllStored(t) PROVE TypeOK'
  <2>1. save' \in [Threads -> Saves]
    <3>1. save' = [save EXCEPT ![t] = [save[t] EXCEPT !.at = "end"]]
      BY <1>5 DEF AllStored
    <3>2. save \in [Threads -> Saves] /\ [save[t] EXCEPT !.at = "end"] \in Saves
      BY SaveSteps DEF TypeOK
    <3> QED
      BY <3>1, <3>2, Zenon
  <2> QED
    BY <1>5, <2>1, SavesOf DEF AllStored, TypeOK, Busy
<1>6. ASSUME NEW t \in Threads, Return(t), UNCHANGED <<saves, len>>
      PROVE  /\ save' \in [Threads -> Saves]
             /\ \A u \in Busy' : save'[u].obj \in Objects /\ save'[u].version \in 1 .. saves'
             /\ settled' \in [Objects -> Versions \cup {None}]
  <2>1. save' \in [Threads -> Saves] /\ save'[t].at = "idle"
    BY <1>6, Empty DEF Return, TypeOK, NoSave
  <2>2. \A u \in Busy' : save'[u].obj \in Objects /\ save'[u].version \in 1 .. saves'
    BY <1>6, <2>1 DEF Return, TypeOK, Busy
  <2>3. settled' \in [Objects -> Versions \cup {None}]
    BY <1>6, SavesOf DEF Return, TypeOK
  <2> QED
    BY <2>1, <2>2, <2>3
<1>7. ASSUME NEW t \in Threads, End(t) PROVE TypeOK'
  <2>1. calm' \in [Objects -> BOOLEAN]
    BY <1>7 DEF End, TypeOK
  <2> QED
    BY <1>6, <1>7, <2>1 DEF End, TypeOK, Committed
<1>8. ASSUME NEW t \in Threads, EndRefused(t) PROVE TypeOK'
  BY <1>6, <1>8, SavesOf DEF EndRefused, Return, TypeOK
<1>9. ASSUME NEW t \in Threads, NEW o \in Objects, LoadRow(t, o) PROVE TypeOK'
  <2> DEFINE v == IF view[o].row = None THEN 0 ELSE view[o].row
  <2>1. v \in 0 .. MaxSaves
    BY DEF TypeOK, Stored, Versions
  <2> DEFINE b == Saving(o) = {}
             new == [at |-> "load", obj |-> o, version |-> v, next |-> 0, ok |-> TRUE,
                     alone |-> TRUE, only |-> b]
  <2>2. new \in Saves
    <3>1. b \in BOOLEAN
      OBVIOUS
    <3> HIDE DEF b, v
    <3> QED
      BY <2>1, <3>1 DEF Saves
  <2>3. save' \in [Threads -> Saves] /\ save'[t].at = "load"
    BY <1>9, <2>2 DEF LoadRow, TypeOK, NoSave
  <2> QED
    BY <1>9, <2>3 DEF LoadRow, TypeOK, Busy
<1>10. ASSUME NEW t \in Threads, LoadSubTable(t) PROVE TypeOK'
  <2>1. save' \in [Threads -> Saves] /\ save'[t].at = "idle"
    BY <1>10, Empty DEF LoadSubTable, TypeOK, NoSave
  <2> QED
    BY <1>10, <2>1 DEF LoadSubTable, TypeOK, Busy
<1>11. CASE Crash
  <2>1. save' \in [Threads -> Saves] /\ Busy' = {}
    BY <1>11, Empty DEF Crash, Busy, NoSave
  <2>2. settled' \in [Objects -> Versions \cup {None}]
    BY <1>11 DEF Crash, Forgotten, TypeOK
  <2> QED
    BY <1>11, <2>1, <2>2 DEF Crash, TypeOK
<1>13. ASSUME NEW t \in Threads, EndLost(t) \/ FailLost(t) PROVE TypeOK'
  <2>1. /\ save' \in [Threads -> Saves]
        /\ \A u \in Busy' : save'[u].obj \in Objects /\ save'[u].version \in 1 .. saves
    BY <1>13, RollsBack DEF TypeOK, Busy
  <2>2. settled' \in [Objects -> Versions \cup {None}]
    BY <1>13 DEF EndLost, FailLost, RollBack, Forgotten, TypeOK
  <2>3. calm' \in [Objects -> BOOLEAN]
    BY <1>13 DEF EndLost, FailLost, Fails, TypeOK
  <2>4. UNCHANGED <<disk, saves, len>> /\ view' = disk /\ open' = FALSE /\ pending' = {}
    BY <1>13 DEF EndLost, FailLost, RollBack
  <2> QED
    BY <2>1, <2>2, <2>3, <2>4 DEF TypeOK
<1>12. CASE UNCHANGED vars
  BY <1>12 DEF vars, TypeOK, Busy
<1> QED
  BY <1>1, <1>2, <1>3, <1>4, <1>5, <1>7, <1>8, <1>9, <1>10, <1>11, <1>12, <1>13 DEF Next

\* No step leaves a child row without the row of its object: none is stored
\* without it, rows are taken away only by going back to what is on disk.
LEMMA OrphanStep == IInv /\ [Next]_vars => NoOrphans'
<1> SUFFICES ASSUME TypeOK, NoOrphans, [Next]_vars PROVE NoOrphans'
  BY DEF IInv
<1> USE StoreAssumption
<1>1. ASSUME NEW t \in Threads, StoreRow(t) PROVE NoOrphans'
  <2> DEFINE o == save[t].obj
             v == save[t].version
  <2>1. save[t] \in Saves /\ o \in Objects /\ v \in Versions /\ v # None
        /\ len[v] \in 0 .. MaxChildren
    BY <1>1, SavesOf DEF StoreRow, Versions
  <2>2. view'[o].row # None
    BY <1>1, <2>1 DEF StoreRow, Update, TypeOK, Stored, IsRow, HasParent
  <2>3. \A p \in Objects, i \in Index : p # o => view'[p] = view[p]
    BY <1>1, <2>1 DEF StoreRow, Update, TypeOK
  <2> QED
    BY <1>1, <2>2, <2>3 DEF StoreRow, Update, NoOrphans
<1>2. ASSUME UNCHANGED <<disk, view>> PROVE NoOrphans'
  BY <1>2 DEF NoOrphans
<1>3. ASSUME NEW t \in Threads,
             \/ \E o \in Objects, n \in 0 .. MaxChildren : Save(t, o, n)
             \/ Begin(t) \/ Fail(t) \/ AllStored(t) \/ EndRefused(t)
             \/ (\E o \in Objects : LoadRow(t, o)) \/ LoadSubTable(t)
      PROVE  NoOrphans'
  BY <1>2, <1>3 DEF Save, Begin, Fail, AllStored, EndRefused, LoadRow, LoadSubTable
<1>4. ASSUME NEW t \in Threads, End(t) PROVE NoOrphans'
  BY <1>4 DEF End, Committed, NoOrphans
<1>5. ASSUME disk' = disk, view' = disk PROVE NoOrphans'
  BY <1>5 DEF NoOrphans
<1>6. ASSUME NEW t \in Threads, EndLost(t) \/ FailLost(t) PROVE NoOrphans'
  BY <1>5, <1>6 DEF EndLost, FailLost, RollBack
<1>7. CASE Crash
  BY <1>5, <1>7 DEF Crash
<1>8. CASE UNCHANGED vars
  BY <1>2, <1>8 DEF vars
<1> QED
  BY <1>1, <1>3, <1>4, <1>6, <1>7, <1>8 DEF Next

\* The invariant holds in every state of every behaviour.
THEOREM StoreInvariant == Spec => []IInv
<1>1. IInv /\ [Next]_vars => IInv'
  BY TypeStep, OrphanStep DEF IInv
<1> QED
  BY <1>1, InitInv, PTL DEF Spec

\* Every variable keeps its type, for all threads, objects and bounds.
THEOREM StoreTypeCorrect == Spec => []TypeOK
<1>1. IInv => TypeOK
  BY DEF IInv
<1> QED
  BY <1>1, StoreInvariant, PTL

\* sqlitetable.cpp:866, database.cpp:21: on disk and for the connection, a child row has the row
\* of its object, through overlapping saves, failures, transactions that are given
\* up, and crashes.
THEOREM RowsHaveParents == Spec => []NoOrphans
<1>1. IInv => NoOrphans
  BY DEF IInv
<1> QED
  BY <1>1, StoreInvariant, PTL

\* Together: the rows are what they are declared to be and none is an orphan
\* (sqlitetable.cpp:751-866).
THEOREM RowsSound == Spec => []Inv
<1>1. TypeOK /\ NoOrphans => Inv
  BY DEF Inv
<1> QED
  BY StoreTypeCorrect, RowsHaveParents, <1>1, PTL

-----------------------------------------------------------------------------
(* Saves are whole and durable.                                            *)

\* An object and version that is stored has a number of child rows.
LEMMA Typed ==
    ASSUME TypeOK, NEW o \in Objects
    PROVE  /\ disk[o] \in Stored /\ view[o] \in Stored /\ None \notin Nat
           /\ view[o].row # None => view[o].row \in Versions
           /\ disk[o].row # None => disk[o].row \in Versions
           /\ \A i \in Index :
                /\ view[o].child[i] # None => view[o].child[i] \in Versions
                /\ disk[o].child[i] # None => disk[o].child[i] \in Versions
BY StoreAssumption DEF TypeOK, Stored

\* Nothing is stored at first, and nobody saves.
LEMMA InitSInv == Init => SInv
<1> SUFFICES ASSUME Init PROVE SInv
  OBVIOUS
<1>1. TypeOK /\ Busy = {} /\ \A t \in Threads : save[t].at = "idle"
  BY InitInv DEF IInv, Init, Busy, NoSave
<1>2. \A o \in Objects : /\ disk[o] = Nothing /\ view[o] = Nothing
                         /\ settled[o] = None /\ Saving(o) = {}
  BY <1>1 DEF Init, Saving
<1>3. Synced /\ Dated /\ Calm
  BY <1>2 DEF Init, Synced, Dated, DatedRow, Calm, Tidy, Nothing
<1>4. Only /\ Alone /\ Written /\ Settled /\ Durable /\ LoadsWhole
  BY <1>1, <1>2 DEF Only, Alone, Written, Settled, Durable, LoadsWhole
<1> QED
  BY <1>1, <1>3, <1>4 DEF SInv

-----------------------------------------------------------------------------
(* A new save.                                                             *)

\* The lengths of the versions saved so far stay.
LEMMA OldLengths ==
    ASSUME TypeOK, NEW t \in Threads, NEW o \in Objects, NEW n \in 0 .. MaxChildren,
           Save(t, o, n)
    PROVE  /\ saves' = saves + 1 /\ saves \in Nat
           /\ \A v \in 1 .. saves : v \in Versions /\ len'[v] = len[v]
<1>1. saves' = saves + 1 /\ saves < MaxSaves /\ len' = [len EXCEPT ![saves + 1] = n]
  BY Zenon DEF Save
<1>2. saves \in 0 .. MaxSaves /\ len \in [Versions -> 0 .. MaxChildren]
  BY DEF TypeOK
<1> QED
  BY <1>1, <1>2, StoreAssumption DEF Versions

\* The new save joins those that are under way.
LEMMA Joins ==
    ASSUME TypeOK, NEW t \in Threads, NEW o \in Objects, NEW n \in 0 .. MaxChildren,
           Save(t, o, n)
    PROVE  /\ t \notin Busy /\ Busy' = Busy \cup {t}
           /\ save'[t].at = "begin" /\ save'[t].obj = o /\ save'[t].version = saves + 1
           /\ save'[t].next = 0 /\ save'[t].ok
           /\ save'[t].alone <=> Busy = {}
           /\ save'[t].only <=> Saving(o) = {}
           /\ Saving(o)' = Saving(o) \cup {t}
           /\ \A p \in Objects : p # o => Saving(p)' = Saving(p)
<1>1. /\ save'[t].at = "begin" /\ save'[t].obj = o /\ save'[t].version = saves + 1
      /\ save'[t].next = 0 /\ save'[t].ok
      /\ save'[t].alone <=> Busy = {}
      /\ save'[t].only <=> Saving(o) = {}
  BY DEF Save
<1>2. save[t].at = "idle"
  BY DEF Save
<1>3. \A u \in Threads \ {t} : save'[u].at = save[u].at /\ save'[u].obj = save[u].obj
  BY SaveOthers
<1>4. t \notin Busy /\ Busy' = Busy \cup {t}
  BY <1>1, <1>2, <1>3 DEF Busy
<1>5. Saving(o)' = Saving(o) \cup {t}
  BY <1>1, <1>3, <1>4 DEF Saving, Busy
<1>6. \A p \in Objects : p # o => Saving(p)' = Saving(p)
  BY <1>1, <1>3, <1>4 DEF Saving, Busy
<1> QED
  BY <1>1, <1>4, <1>5, <1>6

\* What was stored is neither more nor less complete for a new version.
LEMMA SameRows ==
    ASSUME TypeOK, NEW t \in Threads, NEW o \in Objects, NEW n \in 0 .. MaxChildren,
           Save(t, o, n)
    PROVE  \A stored \in Stored : DatedRow(stored) =>
              /\ DatedRow(stored)'
              /\ \A v \in 1 .. saves : Complete(stored, v) => Complete(stored, v)'
              /\ Tidy(stored) => Tidy(stored)'
<1> SUFFICES ASSUME NEW stored \in Stored, DatedRow(stored)
             PROVE  /\ DatedRow(stored)'
                    /\ \A v \in 1 .. saves : Complete(stored, v) => Complete(stored, v)'
                    /\ Tidy(stored) => Tidy(stored)'
  OBVIOUS
<1>1. saves' = saves + 1 /\ saves \in Nat
  BY OldLengths
<1>2. \A v \in 1 .. saves : len'[v] = len[v]
  BY OldLengths
<1>3. /\ stored.row # None => stored.row \in 1 .. saves
      /\ \A i \in Index : stored.child[i] # None => stored.child[i] \in 1 .. saves
  BY <1>1 DEF Stored, Versions, DatedRow
<1>4. DatedRow(stored)'
  BY <1>1, <1>2, <1>3 DEF DatedRow
<1>5. \A v \in 1 .. saves : Complete(stored, v) => Complete(stored, v)'
  BY <1>2 DEF Complete
<1>6. ASSUME Tidy(stored) PROVE Tidy(stored)'
  BY <1>2, <1>3, <1>5, <1>6 DEF Tidy
<1> QED
  BY <1>4, <1>5, <1>6

\* database.cpp:318: a save begins.
LEMMA SaveSafe ==
    ASSUME SInv, TypeOK', NEW t \in Threads, NEW o \in Objects, NEW n \in 0 .. MaxChildren,
           Save(t, o, n)
    PROVE  SInv'
<1> USE DEF SInv
<1>1. disk' = disk /\ view' = view /\ open' = open /\ pending' = pending
  BY DEF Save
<1>2. saves' = saves + 1 /\ saves \in Nat /\ \A v \in 1 .. saves : len'[v] = len[v]
  BY OldLengths
<1>3. /\ t \notin Busy /\ Busy' = Busy \cup {t}
      /\ save'[t].at = "begin" /\ save'[t].obj = o /\ save'[t].version = saves + 1
      /\ save'[t].next = 0 /\ save'[t].ok
      /\ save'[t].alone <=> Busy = {}
      /\ save'[t].only <=> Saving(o) = {}
      /\ Saving(o)' = Saving(o) \cup {t}
      /\ \A p \in Objects : p # o => Saving(p)' = Saving(p)
  BY Joins
<1>4. \A u \in Threads \ {t} :
        /\ save'[u].at = save[u].at /\ save'[u].obj = save[u].obj
        /\ save'[u].version = save[u].version /\ save'[u].next = save[u].next
        /\ save'[u].ok = save[u].ok
        /\ save[u].at # "idle" =>
             /\ ~save'[u].alone
             /\ save'[u].only => save[u].only /\ save[u].obj # o
  BY SaveOthers
<1>5. \A u \in Busy : save[u].version \in 1 .. saves /\ save[u].at # "idle" /\ u \in Threads
  BY DEF TypeOK, Busy
<1>6. \A p \in Objects :
        /\ settled'[p] # None => p # o /\ settled'[p] = settled[p]
        /\ calm'[p] => calm[p] /\ (Busy # {} => p # o /\ Saving(p) = {})
  BY DEF Save, TypeOK
<1>7. \A p \in Objects : settled[p] # None => settled[p] \in 1 .. saves
  BY <1>2 DEF TypeOK, Dated, Versions
<1>8. \A p \in Objects :
        /\ DatedRow(disk[p])' /\ DatedRow(view[p])'
        /\ Tidy(disk[p]) => Tidy(disk[p])'
        /\ Tidy(view[p]) => Tidy(view[p])'
        /\ \A v \in 1 .. saves :
             /\ Complete(disk[p], v) => Complete(disk[p], v)'
             /\ Complete(view[p], v) => Complete(view[p], v)'
  <2> SUFFICES ASSUME NEW p \in Objects
               PROVE  /\ DatedRow(disk[p])' /\ DatedRow(view[p])'
                      /\ Tidy(disk[p]) => Tidy(disk[p])'
                      /\ Tidy(view[p]) => Tidy(view[p])'
                      /\ \A v \in 1 .. saves :
                           /\ Complete(disk[p], v) => Complete(disk[p], v)'
                           /\ Complete(view[p], v) => Complete(view[p], v)'
    OBVIOUS
  <2>1. disk[p] \in Stored /\ view[p] \in Stored /\ DatedRow(disk[p]) /\ DatedRow(view[p])
    BY Typed DEF Dated
  <2>2. DatedRow(disk[p])' /\ DatedRow(view[p])'
    BY <1>1, <2>1, SameRows DEF DatedRow
  <2>3. \A v \in 1 .. saves : /\ Complete(disk[p], v) => Complete(disk[p], v)'
                              /\ Complete(view[p], v) => Complete(view[p], v)'
    BY <1>1, <2>1, SameRows DEF Complete
  <2>4. Tidy(disk[p]) => Tidy(disk[p])'
    BY <1>1, <2>1, SameRows DEF Tidy, Complete
  <2>5. Tidy(view[p]) => Tidy(view[p])'
    BY <1>1, <2>1, SameRows DEF Tidy, Complete
  <2> QED
    BY <2>2, <2>3, <2>4, <2>5
<1>9. Synced'
  BY <1>1 DEF Synced
<1>10. Dated'
  BY <1>2, <1>6, <1>7, <1>8 DEF Dated
<1>11. Only'
  <2> SUFFICES ASSUME NEW u \in Threads
               PROVE  /\ save'[u].at # "idle" /\ save'[u].only =>
                           \A w \in Busy' \ {u} : save'[w].obj # save'[u].obj
                      /\ save'[u].at = "load" =>
                           save'[u].obj \in Objects /\ save'[u].version \in 0 .. saves'
    BY DEF Only
  <2>1. CASE u = t
    <3>1. Saving(o) = {} => \A w \in Busy : save[w].obj # o
      BY DEF Saving
    <3>2. Busy' \ {u} = Busy /\ \A w \in Busy : save'[w].obj = save[w].obj
      BY <1>3, <1>4, <1>5, <2>1
    <3> QED
      BY <1>3, <2>1, <3>1, <3>2
  <2>2. CASE u # t
    <3>1. Busy' \ {u} = (Busy \ {u}) \cup {t} /\ \A w \in Busy : save'[w].obj = save[w].obj
      BY <1>3, <1>4, <1>5, <2>2
    <3>2. save[u].at = "load" => save[u].obj \in Objects /\ save[u].version \in 0 .. saves
      BY DEF Only
    <3>3. save'[u].at # "idle" /\ save'[u].only =>
            save[u].obj # o /\ \A w \in Busy \ {u} : save[w].obj # save[u].obj
      BY <1>4, <2>2 DEF Only
    <3> QED
      BY <1>2, <1>3, <1>4, <2>2, <3>1, <3>2, <3>3
  <2> QED
    BY <2>1, <2>2
<1>12. Alone'
  <2>1. \A u \in Busy : ~save'[u].alone
    BY <1>3, <1>4, <1>5
  <2>2. Busy = {} => Saving(o) = {}
    BY DEF Saving
  <2> QED
    BY <1>2, <1>3, <2>1, <2>2 DEF Alone
<1>13. Written'
  <2> SUFFICES ASSUME NEW u \in Busy'
               PROVE  /\ save'[u].at = "begin" => save'[u].next = 0
                      /\ save'[u].at = "end" /\ save'[u].ok
                            => save'[u].next > len'[save'[u].version]
                      /\ save'[u].only
                            => Has(view'[save'[u].obj], save'[u].version, save'[u].next)
    BY DEF Written, Has
  <2>1. CASE u = t
    BY <1>3, <2>1 DEF Has, Index
  <2>2. CASE u # t
    <3>1. u \in Busy /\ u \in Threads \ {t}
      BY <1>3, <1>5, <2>2
    <3>2. len'[save[u].version] = len[save[u].version]
      BY <1>2, <1>5, <3>1
    <3> QED
      BY <1>1, <1>4, <1>5, <3>1, <3>2 DEF Written
  <2> QED
    BY <2>1, <2>2
<1>14. Calm'
  <2> SUFFICES ASSUME NEW p \in Objects, calm'[p]
               PROVE  /\ Tidy(disk[p])'
                      /\ Saving(p)' = {} => Tidy(view[p])'
                      /\ \A u \in Saving(p)' : save'[u].alone /\ save'[u].ok
    BY DEF Calm
  <2>1. calm[p] /\ Tidy(disk[p])
    BY <1>6 DEF Calm
  <2>2. Saving(p)' = {} => Saving(p) = {}
    BY <1>3
  <2>3. ASSUME NEW u \in Saving(p)' PROVE u = t /\ Busy = {}
    <3>1. CASE Busy = {}
      BY <1>3, <3>1, <2>3 DEF Saving
    <3>2. CASE Busy # {}
      BY <1>3, <1>6, <3>2, <2>3
    <3> QED
      BY <3>1, <3>2
  <2> QED
    BY <1>3, <1>8, <2>1, <2>2, <2>3 DEF Calm
<1>15. Settled'
  <2> SUFFICES ASSUME NEW p \in Objects, settled'[p] # None
               PROVE  Saving(p)' = {} /\ Complete(view[p], settled[p])'
    BY DEF Settled
  <2>1. p # o /\ settled'[p] = settled[p] /\ settled[p] \in 1 .. saves
    BY <1>6, <1>7
  <2>2. Saving(p)' = {} /\ Complete(view[p], settled[p])
    BY <1>3, <2>1, <1>6 DEF Settled
  <2> QED
    BY <1>8, <2>1, <2>2 DEF Complete
<1>16. Durable'
  <2> SUFFICES ASSUME NEW p \in Objects \ pending', settled'[p] # None
               PROVE  Complete(disk[p], settled[p])'
    BY DEF Durable
  <2>1. settled'[p] = settled[p] /\ settled[p] \in 1 .. saves
    BY <1>6, <1>7
  <2>2. Complete(disk[p], settled[p])
    BY <1>1, <1>6, <2>1 DEF Durable
  <2> QED
    BY <1>8, <2>1, <2>2 DEF Complete
<1>17. LoadsWhole'
  <2> SUFFICES ASSUME NEW u \in Threads, save'[u].at = "load", save'[u].only,
                      calm'[save'[u].obj], save'[u].version # 0
               PROVE  Complete(view[save[u].obj], save[u].version)'
    BY DEF LoadsWhole
  <2>1. u # t /\ save[u].at = "load" /\ save'[u].obj = save[u].obj
        /\ save'[u].version = save[u].version /\ save[u].only
    BY <1>3, <1>4
  <2>2. save[u].obj \in Objects /\ save[u].version \in 1 .. saves
    BY <1>2, <2>1 DEF Only
  <2>3. calm[save[u].obj]
    BY <1>6, <2>1, <2>2
  <2>4. Complete(view[save[u].obj], save[u].version)
    BY <2>1, <2>3 DEF LoadsWhole
  <2> QED
    BY <1>8, <2>1, <2>2, <2>4 DEF Complete
<1> QED
  BY <1>9, <1>10, <1>11, <1>12, <1>13, <1>14, <1>15, <1>16, <1>17

-----------------------------------------------------------------------------
(* A save goes on.                                                         *)

\* Whatever a thread does in the middle of a save, it is the save it has begun.
Goes(t) == Begin(t) \/ StoreRow(t) \/ Fail(t) \/ AllStored(t)

\* A save under way goes on by itself, and stays the save it is.
LEMMA GoesOn ==
    ASSUME TypeOK, NEW t \in Threads, Goes(t)
    PROVE  /\ t \in Busy /\ save'[t].at \in {"store", "end"}
           /\ save[t].at # "begin" => save'[t].at # "begin" /\ open' = open
           /\ save[t].at = "begin" => open'
           /\ save'[t].obj = save[t].obj /\ save'[t].version = save[t].version
           /\ save'[t].alone = save[t].alone /\ save'[t].only = save[t].only
           /\ \A u \in Threads \ {t} : save'[u] = save[u]
           /\ Busy' = Busy /\ \A o \in Objects : Saving(o)' = Saving(o)
           /\ UNCHANGED <<saves, len, settled, pending>>
<1>1. save[t] \in Saves /\ save \in [Threads -> Saves]
  BY DEF TypeOK
<1>2. /\ save[t].at \in {"begin", "store"}
      /\ UNCHANGED <<saves, len, settled, pending>>
  BY DEF Goes, Begin, StoreRow, Fail, Fails, AllStored
<1>3. /\ save'[t].at \in {"store", "end"}
      /\ save[t].at # "begin" => save'[t].at # "begin" /\ open' = open
      /\ save[t].at = "begin" => open'
      /\ save'[t].obj = save[t].obj /\ save'[t].version = save[t].version
      /\ save'[t].alone = save[t].alone /\ save'[t].only = save[t].only
  <2>1. CASE Begin(t)
    <3>1. save'[t] = [save[t] EXCEPT !.at = "store"] /\ open'
      BY <1>1, <2>1 DEF Begin
    <3> QED
      BY <1>1, <3>1, <2>1 DEF Begin, Saves
  <2>2. CASE StoreRow(t)
    <3>1. save'[t] = [save[t] EXCEPT !.next = save[t].next + 1]
      BY <1>1, <2>2 DEF StoreRow
    <3>2. save[t].at = "store" /\ open' = open
      BY <2>2 DEF StoreRow
    <3> QED
      BY <1>1, <3>1, <3>2 DEF Saves
  <2>3. CASE Fail(t)
    <3>1. save'[t] = Failed(save[t])
      BY <1>1, <2>3 DEF Fail, Fails
    <3>2. save[t].at = "store" /\ open' = open
      BY <2>3 DEF Fail, Fails
    <3> QED
      BY <1>1, <3>1, <3>2 DEF Failed, Saves
  <2>4. CASE AllStored(t)
    <3>1. save'[t] = [save[t] EXCEPT !.at = "end"]
      BY <1>1, <2>4 DEF AllStored
    <3>2. save[t].at = "store" /\ open' = open
      BY <2>4 DEF AllStored
    <3> QED
      BY <1>1, <3>1, <3>2 DEF Saves
  <2> QED
    BY <2>1, <2>2, <2>3, <2>4 DEF Goes
<1>4. \A u \in Threads \ {t} : save'[u] = save[u]
  BY <1>1 DEF Goes, Begin, StoreRow, Fail, Fails, AllStored
<1>5. t \in Busy /\ Busy' = Busy
  BY <1>2, <1>3, <1>4 DEF Busy
<1>6. \A o \in Objects : Saving(o)' = Saving(o)
  BY <1>3, <1>4, <1>5 DEF Saving, Busy
<1> QED
  BY <1>2, <1>3, <1>4, <1>5, <1>6

\* Who has its object for itself goes on having it.
LEMMA OwnersStay ==
    ASSUME SInv, NEW t \in Threads, Goes(t)
    PROVE  Only' /\ Alone'
<1> USE DEF SInv
<1>1. /\ t \in Busy /\ save'[t].at \in {"store", "end"}
      /\ save[t].at # "begin" => open' = open
      /\ save[t].at = "begin" => open'
      /\ save'[t].obj = save[t].obj /\ save'[t].version = save[t].version
      /\ save'[t].alone = save[t].alone /\ save'[t].only = save[t].only
      /\ \A u \in Threads \ {t} : save'[u] = save[u]
      /\ Busy' = Busy /\ saves' = saves
  BY GoesOn
<1>2. save[t].at \notin {"idle", "load"} /\ Busy \subseteq Threads
  BY <1>1 DEF Busy
<1>3. Only'
  BY <1>1, <1>2 DEF Only
<1>4. Alone'
  BY <1>1, <1>2 DEF Alone
<1> QED
  BY <1>3, <1>4

\* BEGIN, the end of the rows, and a statement that fails: nothing is written.
LEMMA GoesSafe ==
    ASSUME SInv, TypeOK', NEW t \in Threads, Begin(t) \/ Fail(t) \/ AllStored(t)
    PROVE  SInv'
<1> USE DEF SInv
<1>1. /\ t \in Busy /\ save'[t].at \in {"store", "end"}
      /\ save'[t].obj = save[t].obj /\ save'[t].version = save[t].version
      /\ save'[t].alone = save[t].alone /\ save'[t].only = save[t].only
      /\ \A u \in Threads \ {t} : save'[u] = save[u]
      /\ Busy' = Busy /\ \A o \in Objects : Saving(o)' = Saving(o)
      /\ UNCHANGED <<saves, len, settled, pending>>
  BY GoesOn DEF Goes
<1>2. UNCHANGED <<disk, view>>
  BY DEF Begin, Fail, AllStored
<1>3. save[t].obj \in Objects /\ save[t] \in Saves /\ save \in [Threads -> Saves]
      /\ save[t].version \in Versions /\ calm \in [Objects -> BOOLEAN]
  BY <1>1, SavesOf DEF TypeOK, Busy, Saves
<1>4. \A o \in Objects : calm'[o] =>
        /\ calm[o]
        /\ o = save[t].obj => save'[t].ok = save[t].ok
  <2>1. CASE Begin(t)
    BY <1>3, <2>1 DEF Begin, Saves
  <2>2. CASE AllStored(t)
    BY <1>3, <2>2 DEF AllStored, Saves
  <2>3. CASE Fail(t)
    BY <1>3, <2>3 DEF Fail, Fails
  <2> QED
    BY <2>1, <2>2, <2>3
<1>5. Only' /\ Alone'
  BY OwnersStay DEF Goes
<1>6. Synced'
  BY <1>2 DEF Synced, Begin, Fail, AllStored
<1>7. Dated'
  BY <1>1, <1>2 DEF Dated, DatedRow
<1>8. Written'
  <2>1. \A u \in Busy \ {t} : save'[u] = save[u]
    BY <1>1 DEF Busy
  <2>2. save'[t].next = save[t].next
    <3>1. CASE Begin(t)
      BY <1>3, <3>1 DEF Begin, Saves
    <3>2. CASE AllStored(t)
      BY <1>3, <3>2 DEF AllStored, Saves
    <3>3. CASE Fail(t)
      BY <1>3, <3>3 DEF Fail, Failed, Saves
    <3> QED
      BY <3>1, <3>2, <3>3
  <2>3. save'[t].at = "end" /\ save'[t].ok => save'[t].next > len[save[t].version]
    <3>1. CASE Begin(t)
      BY <1>3, <3>1 DEF Begin, Saves
    <3>2. CASE AllStored(t)
      BY <1>3, <2>2, <3>2 DEF AllStored, Saves, Last
    <3>3. CASE Fail(t)
      BY <1>3, <3>3 DEF Fail, Failed, Saves
    <3> QED
      BY <3>1, <3>2, <3>3
  <2>4. save[t].only => Has(view[save[t].obj], save[t].version, save[t].next)
    BY <1>1 DEF Written
  <2> SUFFICES ASSUME NEW u \in Busy
               PROVE  /\ save'[u].at = "begin" => save'[u].next = 0
                      /\ save'[u].at = "end" /\ save'[u].ok
                            => save'[u].next > len'[save'[u].version]
                      /\ save'[u].only
                            => Has(view'[save'[u].obj], save'[u].version, save'[u].next)
    BY <1>1 DEF Written, Has
  <2>5. CASE u = t
    BY <1>1, <1>2, <2>2, <2>3, <2>4, <2>5
  <2>6. CASE u # t
    BY <1>1, <1>2, <2>1, <2>6 DEF Written
  <2> QED
    BY <2>5, <2>6
<1>9. Calm'
  <2> SUFFICES ASSUME NEW o \in Objects, calm'[o]
               PROVE  /\ Tidy(disk[o])'
                      /\ Saving(o)' = {} => Tidy(view[o])'
                      /\ \A u \in Saving(o)' : save'[u].alone /\ save'[u].ok
    BY DEF Calm
  <2>1. /\ Tidy(disk[o]) /\ (Saving(o) = {} => Tidy(view[o]))
        /\ \A u \in Saving(o) : save[u].alone /\ save[u].ok
    BY <1>4 DEF Calm
  <2>2. Tidy(disk[o])' /\ (Saving(o)' = {} => Tidy(view[o])')
    BY <1>1, <1>2, <2>1 DEF Tidy, Complete
  <2>3. \A u \in Saving(o)' : save'[u].alone /\ save'[u].ok
    BY <1>1, <1>4, <2>1 DEF Saving, Busy
  <2> QED
    BY <2>2, <2>3
<1>10. Settled' /\ Durable'
  BY <1>1, <1>2 DEF Settled, Durable, Complete
<1>11. LoadsWhole'
  <2> SUFFICES ASSUME NEW u \in Threads, save'[u].at = "load", save'[u].only,
                      calm'[save'[u].obj], save'[u].version # 0
               PROVE  Complete(view[save[u].obj], save[u].version)'
    BY DEF LoadsWhole
  <2>1. u # t /\ save'[u] = save[u]
    BY <1>1
  <2>2. calm[save[u].obj]
    BY <1>4, <2>1 DEF Only
  <2> QED
    BY <1>1, <1>2, <2>1, <2>2 DEF LoadsWhole, Complete
<1> QED
  BY <1>5, <1>6, <1>7, <1>8, <1>9, <1>10, <1>11

\* A row is stored where it belongs, and where nobody sees anything else change.
LEMMA Stores ==
    ASSUME TypeOK, Synced, NEW t \in Threads, StoreRow(t)
    PROVE  LET o == save[t].obj
               v == save[t].version
               i == save[t].next
           IN  /\ o \in Objects /\ v \in Versions /\ v \in 1 .. saves /\ i \in Nat
               /\ i <= len[v] /\ len[v] \in 0 .. MaxChildren
               /\ i = 0 => view'[o] = [view[o] EXCEPT !.row = v]
               /\ i # 0 => i \in Index /\ view'[o] = [view[o] EXCEPT !.child[i] = v]
               /\ \A p \in Objects \ {o} : view'[p] = view[p] /\ disk'[p] = disk[p]
               /\ \A p \in Objects : disk'[p] = disk[p] \/ disk'[p] = view'[p]
               /\ open => disk' = disk
               /\ ~open => disk' = view'
               /\ save'[t] = [save[t] EXCEPT !.next = i + 1]
               /\ open' = open /\ calm' = calm
<1> DEFINE o == save[t].obj
           v == save[t].version
           i == save[t].next
<1>1. /\ o \in Objects /\ v \in Versions /\ v \in 1 .. saves /\ save[t] \in Saves
      /\ len[v] \in 0 .. MaxChildren
  BY SavesOf DEF StoreRow
<1>2. i \in Nat /\ i <= len[v] /\ (i # 0 => i \in Index)
  <2>1. i \in 0 .. MaxChildren + 1
    BY <1>1 DEF Saves
  <2>2. i <= len[v]
    BY DEF StoreRow, Last
  <2> QED
    BY <1>1, <2>1, <2>2, StoreAssumption DEF Index
<1>3. /\ view' = IF i = 0 THEN [view EXCEPT ![o].row = v] ELSE [view EXCEPT ![o].child[i] = v]
      /\ disk' = IF open THEN disk ELSE view'
      /\ save' = [save EXCEPT ![t].next = i + 1]
      /\ open' = open /\ calm' = calm
  BY DEF StoreRow, Update, IsRow
<1>4. view \in [Objects -> Stored] /\ save \in [Threads -> Saves]
  BY DEF TypeOK
<1>5. /\ i = 0 => view'[o] = [view[o] EXCEPT !.row = v]
      /\ i # 0 => view'[o] = [view[o] EXCEPT !.child[i] = v]
  BY <1>1, <1>3, <1>4
<1>6. \A p \in Objects \ {o} : view'[p] = view[p]
  BY <1>1, <1>3, <1>4
<1>7. save'[t] = [save[t] EXCEPT !.next = i + 1]
  BY <1>3, <1>4
<1>8. /\ open => disk' = disk
      /\ ~open => disk' = view'
      /\ \A p \in Objects : disk'[p] = disk[p] \/ disk'[p] = view'[p]
      /\ \A p \in Objects \ {o} : disk'[p] = disk[p]
  BY <1>3, <1>6 DEF Synced
<1> HIDE DEF o, v, i
<1>9. /\ o \in Objects /\ v \in Versions /\ v \in 1 .. saves /\ i \in Nat
      /\ i <= len[v] /\ len[v] \in 0 .. MaxChildren
      /\ i = 0 => view'[o] = [view[o] EXCEPT !.row = v]
      /\ i # 0 => i \in Index /\ view'[o] = [view[o] EXCEPT !.child[i] = v]
      /\ \A p \in Objects \ {o} : view'[p] = view[p] /\ disk'[p] = disk[p]
      /\ \A p \in Objects : disk'[p] = disk[p] \/ disk'[p] = view'[p]
      /\ open => disk' = disk
      /\ ~open => disk' = view'
      /\ save'[t] = [save[t] EXCEPT !.next = i + 1]
      /\ open' = open /\ calm' = calm
  BY <1>1, <1>2, <1>3, <1>5, <1>6, <1>7, <1>8
<1> QED
  BY <1>9 DEF o, v, i

\* What is there after a row was stored is as it was declared, and all of the
\* save that has been stored so far.
LEMMA RowAdds ==
    ASSUME NEW s \in Stored, NEW v \in Versions, NEW i \in Nat, v <= saves, saves \in Nat,
           DatedRow(s), NEW r, i <= len[v],
           i = 0 => r = [s EXCEPT !.row = v],
           i # 0 => i \in Index /\ r = [s EXCEPT !.child[i] = v]
    PROVE  DatedRow(r) /\ (Has(s, v, i) => Has(r, v, i + 1))
<1> USE DEF Stored, DatedRow, Has
<1>1. CASE i = 0
  <2>1. r.row = v /\ r.child = s.child
    BY <1>1
  <2> QED
    BY <1>1, <2>1 DEF Index
<1>2. CASE i # 0
  <2>1. r.row = s.row /\ r.child = [s.child EXCEPT ![i] = v] /\ i \in Index
    BY <1>2
  <2>2. r.child[i] = v /\ \A j \in Index \ {i} : r.child[j] = s.child[j]
    BY <2>1
  <2>3. DatedRow(r)
    BY <2>1, <2>2
  <2>4. ASSUME Has(s, v, i) PROVE Has(r, v, i + 1)
    BY <1>2, <2>1, <2>2, <2>4 DEF Index
  <2> QED
    BY <2>3, <2>4
<1> QED
  BY <1>1, <1>2

\* sqlitetable.cpp:751-866: a row is stored.
LEMMA StoreRowSafe ==
    ASSUME SInv, TypeOK', NEW t \in Threads, StoreRow(t)
    PROVE  SInv'
<1> USE DEF SInv
<1> DEFINE o == save[t].obj
           v == save[t].version
           i == save[t].next
<1>1. /\ t \in Busy /\ save'[t].at \in {"store", "end"}
      /\ save'[t].obj = o /\ save'[t].version = v
      /\ save'[t].alone = save[t].alone /\ save'[t].only = save[t].only
      /\ \A u \in Threads \ {t} : save'[u] = save[u]
      /\ Busy' = Busy /\ \A p \in Objects : Saving(p)' = Saving(p)
      /\ UNCHANGED <<saves, len, settled, pending>>
  BY GoesOn DEF Goes
<1>2. /\ o \in Objects /\ v \in Versions /\ v \in 1 .. saves /\ i \in Nat
      /\ i <= len[v] /\ len[v] \in 0 .. MaxChildren
      /\ i = 0 => view'[o] = [view[o] EXCEPT !.row = v]
      /\ i # 0 => i \in Index /\ view'[o] = [view[o] EXCEPT !.child[i] = v]
      /\ \A p \in Objects \ {o} : view'[p] = view[p] /\ disk'[p] = disk[p]
      /\ \A p \in Objects : disk'[p] = disk[p] \/ disk'[p] = view'[p]
      /\ open => disk' = disk
      /\ ~open => disk' = view'
      /\ save'[t] = [save[t] EXCEPT !.next = i + 1]
      /\ open' = open /\ calm' = calm
  BY Stores
<1>3. save[t] \in Saves /\ save[t].at = "store" /\ save'[t].at = "store"
      /\ save'[t].ok = save[t].ok /\ save'[t].next = i + 1
  BY <1>2 DEF TypeOK, Saves, StoreRow
<1>4. Only' /\ Alone'
  BY OwnersStay DEF Goes
<1>5. Synced'
  BY <1>2 DEF Synced
<1>6. DatedRow(view'[o]) /\ (Has(view[o], v, i) => Has(view'[o], v, i + 1))
  <2>1. view[o] \in Stored /\ DatedRow(view[o]) /\ saves \in Nat /\ v <= saves
    BY <1>2, Typed DEF Dated, TypeOK
  <2> HIDE DEF o, v, i
  <2> QED
    BY <1>2, <2>1, RowAdds
<1>7. Dated'
  <2>1. \A p \in Objects : DatedRow(view'[p]) /\ DatedRow(disk'[p])
    <3>1. \A p \in Objects : DatedRow(view'[p])
      BY <1>2, <1>6 DEF Dated
    <3>2. \A p \in Objects : DatedRow(disk[p])
      BY DEF Dated
    <3> QED
      BY <1>2, <3>1, <3>2
  <2> QED
    BY <1>1, <2>1 DEF Dated, DatedRow
<1>8. Written'
  <2> SUFFICES ASSUME NEW u \in Busy
               PROVE  /\ save'[u].at = "begin" => save'[u].next = 0
                      /\ save'[u].at = "end" /\ save'[u].ok
                            => save'[u].next > len'[save'[u].version]
                      /\ save'[u].only
                            => Has(view'[save'[u].obj], save'[u].version, save'[u].next)
    BY <1>1 DEF Written, Has
  <2>1. CASE u = t
    <3>1. save[t].only => Has(view[o], v, i)
      BY <1>1 DEF Written
    <3> QED
      BY <1>1, <1>3, <1>6, <2>1, <3>1
  <2>2. CASE u # t
    <3>1. save'[u] = save[u] /\ save[u].at # "idle" /\ u \in Threads /\ save[u].obj \in Objects
      BY <1>1, <2>2 DEF Busy, TypeOK
    <3>2. save[u].only => save[u].obj # o
      BY <1>1, <2>2, <3>1 DEF Only
    <3>3. save[u].only => view'[save[u].obj] = view[save[u].obj]
      BY <1>2, <3>1, <3>2
    <3> QED
      BY <1>1, <3>1, <3>3 DEF Written
  <2> QED
    BY <2>1, <2>2
<1>9. Calm'
  <2> SUFFICES ASSUME NEW p \in Objects, calm'[p]
               PROVE  /\ Tidy(disk[p])'
                      /\ Saving(p)' = {} => Tidy(view[p])'
                      /\ \A u \in Saving(p)' : save'[u].alone /\ save'[u].ok
    BY DEF Calm
  <2>1. /\ Tidy(disk[p]) /\ (Saving(p) = {} => Tidy(view[p]))
        /\ \A u \in Saving(p) : save[u].alone /\ save[u].ok
    BY <1>2 DEF Calm
  <2>2. Saving(p) = {} => p # o
    BY <1>1 DEF Saving
  <2>3. p = o => open
    BY <1>1, <1>3, <2>1 DEF Saving, Alone
  <2>4. disk'[p] = disk[p] /\ (Saving(p) = {} => view'[p] = view[p])
    BY <1>2, <2>2, <2>3
  <2>5. Tidy(disk[p])' /\ (Saving(p)' = {} => Tidy(view[p])')
    BY <1>1, <2>1, <2>4 DEF Tidy, Complete
  <2>6. \A u \in Saving(p)' : save'[u].alone /\ save'[u].ok
    BY <1>1, <1>3, <2>1 DEF Saving, Busy
  <2> QED
    BY <2>5, <2>6
<1>10. \A p \in Objects : settled[p] # None => p # o
  BY <1>1 DEF Settled, Saving
<1>11. Settled' /\ Durable'
  BY <1>1, <1>2, <1>10 DEF Settled, Durable, Complete
<1>12. LoadsWhole'
  <2> SUFFICES ASSUME NEW u \in Threads, save'[u].at = "load", save'[u].only,
                      calm'[save'[u].obj], save'[u].version # 0
               PROVE  Complete(view[save[u].obj], save[u].version)'
    BY DEF LoadsWhole
  <2>1. u # t /\ save'[u] = save[u]
    BY <1>1, <1>3
  <2>2. save[u].obj \in Objects /\ save[u].obj # o
    BY <1>1, <2>1 DEF Only
  <2> QED
    BY <1>1, <1>2, <2>1, <2>2 DEF LoadsWhole, Complete
<1> QED
  BY <1>4, <1>5, <1>7, <1>8, <1>9, <1>11, <1>12

-----------------------------------------------------------------------------
(* A save ends.                                                            *)

\* A save that had its object for itself has stored all of it; what follows is
\* older, if it was the only save at all.
LEMMA Finished ==
    ASSUME SInv, NEW t \in Threads, save[t].at = "end", save[t].ok, save[t].only
    PROVE  /\ Complete(view[save[t].obj], save[t].version)
           /\ save[t].alone => Tidy(view[save[t].obj])
<1> USE DEF SInv
<1> DEFINE s == view[save[t].obj]
           v == save[t].version
<1>1. /\ t \in Busy /\ save[t] \in Saves /\ save[t].obj \in Objects
      /\ v \in 1 .. saves /\ v \in Versions /\ len[v] \in 0 .. MaxChildren
  BY SavesOf DEF Busy
<1>2. save[t].next > len[v] /\ Has(s, v, save[t].next) /\ save[t].next \in Nat
  BY <1>1 DEF Written, Saves
<1>3. Complete(s, v)
  BY <1>1, <1>2, StoreAssumption DEF Has, Complete, Index
<1>4. ASSUME save[t].alone PROVE Tidy(s)
  <2>1. v = saves /\ s.row = v /\ saves \in Nat
    BY <1>1, <1>3, <1>4 DEF Alone, Complete, TypeOK
  <2>2. s \in Stored /\ DatedRow(s)
    BY <1>1, Typed DEF Dated
  <2>3. \A i \in Index : i > len[v] /\ s.child[i] # None => s.child[i] # v
    BY <1>1, <2>2 DEF DatedRow, Index
  <2>4. \A i \in Index : s.child[i] # None =>
            /\ s.child[i] \in Nat /\ s.child[i] <= v /\ i <= len[s.child[i]]
    BY <2>1, <2>2 DEF DatedRow, Stored, Versions
  <2> HIDE DEF s, v
  <2> QED
    BY <1>1, <1>3, <2>1, <2>3, <2>4 DEF Tidy
<1> QED
  BY <1>3, <1>4

\* The thread is through with its save, the others are where they were.
LEMMA Returns ==
    ASSUME TypeOK, NEW t \in Threads, Return(t)
    PROVE  /\ t \in Busy /\ save[t].at = "end" /\ save[t].obj \in Objects
           /\ save[t].version \in 1 .. saves
           /\ Busy' = Busy \ {t} /\ save'[t] = NoSave
           /\ \A u \in Threads \ {t} : save'[u] = save[u]
           /\ \A o \in Objects : Saving(o)' = Saving(o) \ {t}
           /\ \A o \in Objects :
                \/ settled'[o] = settled[o]
                \/ /\ o = save[t].obj /\ save[t].ok /\ save[t].only
                   /\ settled'[o] = save[t].version
<1>1. save[t].at = "end" /\ save' = [save EXCEPT ![t] = NoSave]
  BY DEF Return
<1>2. t \in Busy /\ save[t].obj \in Objects /\ save[t].version \in 1 .. saves
  BY <1>1, SavesOf DEF Busy
<1>3. save'[t] = NoSave /\ \A u \in Threads \ {t} : save'[u] = save[u]
  BY <1>1 DEF TypeOK
<1>4. Busy' = Busy \ {t}
  BY <1>2, <1>3 DEF Busy, NoSave
<1>5. \A o \in Objects : Saving(o)' = Saving(o) \ {t}
  BY <1>3, <1>4 DEF Saving, Busy
<1>6. \A o \in Objects :
        \/ settled'[o] = settled[o]
        \/ /\ o = save[t].obj /\ save[t].ok /\ save[t].only
           /\ settled'[o] = save[t].version
  BY <1>2 DEF Return, TypeOK
<1> QED
  BY <1>1, <1>2, <1>3, <1>4, <1>5, <1>6

\* database.cpp:346: a save ends, and what it has stored stays, though others
\* go on; with END everything the connection sees is on disk.
LEMMA EndSafe ==
    ASSUME SInv, TypeOK', NEW t \in Threads, End(t) \/ EndRefused(t)
    PROVE  SInv'
<1> USE DEF SInv
<1> DEFINE o == save[t].obj
<1>1. /\ t \in Busy /\ save[t].at = "end" /\ o \in Objects
      /\ save[t].version \in 1 .. saves
      /\ Busy' = Busy \ {t} /\ save'[t] = NoSave
      /\ \A u \in Threads \ {t} : save'[u] = save[u]
      /\ \A p \in Objects : Saving(p)' = Saving(p) \ {t}
      /\ \A p \in Objects :
           \/ settled'[p] = settled[p]
           \/ /\ p = o /\ save[t].ok /\ save[t].only
              /\ settled'[p] = save[t].version
  BY Returns DEF End, EndRefused
<1>2. view' = view /\ UNCHANGED <<saves, len>>
  BY DEF End, EndRefused
<1>3. \/ disk' = view /\ ~open' /\ End(t)
      \/ /\ disk' = disk /\ open' /\ EndRefused(t)
         /\ pending' = pending \cup {o}
  BY DEF End, EndRefused, Committed, Synced
<1>4. \A p \in Objects : disk'[p] = disk[p] \/ disk'[p] = view[p]
  BY <1>3
<1>5. \A u \in Busy \ {t} : ~save[u].alone
  BY <1>1 DEF Alone
<1>6. \A u \in Busy' : save'[u] = save[u] /\ u \in Busy \ {t} /\ u \in Threads
  BY <1>1 DEF Busy
<1>7. Synced'
  BY <1>2, <1>3 DEF Synced
<1>8. Dated'
  <2>1. \A p \in Objects : settled'[p] # None => settled'[p] <= saves
    BY <1>1 DEF Dated, TypeOK
  <2>2. \A p \in Objects : DatedRow(disk'[p]) /\ DatedRow(view[p])
    BY <1>4 DEF Dated
  <2> QED
    BY <1>2, <2>1, <2>2 DEF Dated, DatedRow
<1>9. Only'
  <2>1. \A u \in Threads : save'[u].at # "idle" => u # t /\ save'[u] = save[u]
    BY <1>1 DEF NoSave
  <2> QED
    BY <1>1, <1>2, <1>6, <2>1 DEF Only
<1>10. Alone'
  BY <1>5, <1>6 DEF Alone
<1>11. Written'
  BY <1>2, <1>6 DEF Written, Has
<1>12. ASSUME NEW p \in Objects, calm'[p] PROVE Tidy(view[p]) /\ Saving(p)' = {}
  <2>1. CASE p = o /\ save[t].ok /\ save[t].alone
    <3>1. Tidy(view[p]) /\ Busy = {t}
      BY <1>1, <2>1, Finished DEF Alone
    <3> QED
      BY <1>1, <3>1 DEF Saving
  <2>2. CASE ~(p = o /\ save[t].ok /\ save[t].alone)
    <3>1. calm[p]
      BY <1>12, <2>2 DEF End, EndRefused, TypeOK
    <3>2. /\ Saving(p) = {} => Tidy(view[p])
          /\ \A u \in Saving(p) : save[u].alone /\ save[u].ok
      BY <3>1 DEF Calm
    <3>3. t \notin Saving(p)
      BY <2>2, <3>2 DEF Saving
    <3>4. Saving(p) = {}
      BY <1>5, <3>2, <3>3 DEF Saving
    <3> QED
      BY <1>1, <3>2, <3>4
  <2> QED
    BY <2>1, <2>2
<1>13. \A p \in Objects : calm'[p] => Tidy(disk'[p])
  <2> SUFFICES ASSUME NEW p \in Objects, calm'[p] PROVE Tidy(disk'[p])
    OBVIOUS
  <2>1. CASE disk' = view
    BY <1>12, <2>1
  <2>2. CASE disk' = disk /\ EndRefused(t)
    <3>1. calm' = calm
      BY <2>2 DEF EndRefused
    <3> QED
      BY <2>2, <3>1 DEF Calm
  <2> QED
    BY <1>3, <2>1, <2>2
<1>14. Calm'
  BY <1>2, <1>12, <1>13 DEF Calm, Tidy, Complete
<1>15. ASSUME NEW p \in Objects, settled'[p] # None
       PROVE  Saving(p)' = {} /\ Complete(view[p], settled'[p])
  <2>1. CASE settled'[p] = settled[p]
    BY <1>1, <1>15, <2>1 DEF Settled
  <2>2. CASE p = o /\ save[t].ok /\ save[t].only /\ settled'[p] = save[t].version
    <3>1. Complete(view[p], settled'[p])
      BY <1>1, <2>2, Finished
    <3>2. \A u \in Busy \ {t} : save[u].obj # p
      BY <1>1, <2>2 DEF Only
    <3> QED
      BY <1>1, <3>1, <3>2 DEF Saving
  <2> QED
    BY <1>1, <2>1, <2>2
<1>16. Settled'
  BY <1>2, <1>15 DEF Settled, Complete
<1>17. Durable'
  <2> SUFFICES ASSUME NEW p \in Objects \ pending', settled'[p] # None
               PROVE  Complete(disk[p], settled[p])'
    BY DEF Durable
  <2>1. CASE disk' = view
    BY <1>2, <1>15, <2>1 DEF Complete
  <2>2. CASE disk' = disk /\ pending' = pending \cup {o}
    <3>1. p # o /\ p \notin pending /\ settled'[p] = settled[p]
      BY <1>1, <2>2
    <3> QED
      BY <1>2, <2>2, <3>1 DEF Durable, Complete
  <2> QED
    BY <1>3, <2>1, <2>2
<1>18. LoadsWhole'
  <2> SUFFICES ASSUME NEW u \in Threads, save'[u].at = "load", save'[u].only,
                      calm'[save'[u].obj], save'[u].version # 0
               PROVE  Complete(view[save[u].obj], save[u].version)'
    BY DEF LoadsWhole
  <2>1. u # t /\ save'[u] = save[u]
    BY <1>1 DEF NoSave
  <2>2. save[u].obj \in Objects /\ save[u].obj # o
    BY <1>1, <2>1 DEF Only
  <2>3. calm[save[u].obj]
    BY <2>1, <2>2 DEF End, EndRefused, TypeOK
  <2> QED
    BY <1>2, <2>1, <2>3 DEF LoadsWhole, Complete
<1> QED
  BY <1>7, <1>8, <1>9, <1>10, <1>11, <1>14, <1>16, <1>17, <1>18

-----------------------------------------------------------------------------
(* Loads, crashes, and the whole.                                          *)

\* database.cpp:39: a load looks at what the connection sees.
LEMMA LoadSafe ==
    ASSUME SInv, TypeOK', NEW t \in Threads,
           (\E o \in Objects : LoadRow(t, o)) \/ LoadSubTable(t)
    PROVE  SInv'
<1> USE DEF SInv
<1>1. UNCHANGED <<disk, view, open, saves, len, pending, calm, settled>>
  BY DEF LoadRow, LoadSubTable
<1>2. /\ save[t].at \in {"idle", "load"} /\ save'[t].at \in {"idle", "load"}
      /\ \A u \in Threads \ {t} : save'[u] = save[u]
  BY DEF LoadRow, LoadSubTable, TypeOK, NoSave
<1>3. Busy' = Busy /\ \A u \in Busy : u # t /\ save'[u] = save[u] /\ u \in Threads
  BY <1>2 DEF Busy
<1>4. \A p \in Objects : Saving(p)' = Saving(p)
  BY <1>3 DEF Saving
<1>5. save'[t].at = "load" =>
        /\ save'[t].obj \in Objects /\ save'[t].version \in 0 .. saves
        /\ save'[t].only => \A u \in Busy : save[u].obj # save'[t].obj
        /\ save'[t].only /\ calm[save'[t].obj] /\ save'[t].version # 0
              => Complete(view[save'[t].obj], save'[t].version)
  <2> HAVE save'[t].at = "load"
  <2>1. PICK o \in Objects : LoadRow(t, o)
    BY DEF LoadSubTable, TypeOK, NoSave
  <2>2. /\ save'[t].obj = o
        /\ save'[t].version = IF view[o].row = None THEN 0 ELSE view[o].row
        /\ save'[t].only <=> Saving(o) = {}
    BY <2>1 DEF LoadRow, TypeOK
  <2>3. save'[t].version \in 0 .. saves
    BY <2>2, Typed DEF Dated, DatedRow, TypeOK, Versions
  <2>4. Saving(o) = {} => \A u \in Busy : save[u].obj # o
    BY DEF Saving
  <2>5. Saving(o) = {} /\ calm[o] /\ view[o].row # None => Complete(view[o], view[o].row)
    BY DEF Calm, Tidy
  <2> QED
    BY <2>2, <2>3, <2>4, <2>5
<1>6. Synced' /\ Settled' /\ Durable'
  BY <1>1, <1>4 DEF Synced, Settled, Durable, Complete
<1>7. Dated'
  BY <1>1 DEF Dated, DatedRow
<1>8. Only'
  BY <1>1, <1>2, <1>3, <1>5 DEF Only
<1>9. Alone'
  BY <1>1, <1>3 DEF Alone
<1>10. Written'
  BY <1>1, <1>3 DEF Written, Has
<1>11. Calm'
  <2>1. \A p \in Objects : \A u \in Saving(p) : save'[u] = save[u]
    BY <1>3 DEF Saving
  <2> QED
    BY <1>1, <1>4, <2>1 DEF Calm, Tidy, Complete
<1>12. LoadsWhole'
  BY <1>1, <1>2, <1>5 DEF LoadsWhole, Complete
<1> QED
  BY <1>6, <1>7, <1>8, <1>9, <1>10, <1>11, <1>12

\* database.cpp:340-346, sqliteutil.cpp:90-93: when the transaction is given up the
\* connection sees what is on disk, and of the saves in the middle nothing is said.
LEMMA RollBackSafe ==
    ASSUME SInv, TypeOK', NEW t \in Threads, EndLost(t) \/ FailLost(t)
    PROVE  SInv'
<1> USE DEF SInv
<1>1. /\ disk' = disk /\ view' = disk /\ UNCHANGED <<saves, len>> /\ open' = FALSE
      /\ settled' = Forgotten
  BY DEF EndLost, FailLost, RollBack
<1>2. /\ t \in Busy /\ Busy' \subseteq Busy
      /\ \A u \in Threads \ {t} :
           /\ save'[u].at = save[u].at /\ save'[u].obj = save[u].obj
           /\ save'[u].version = save[u].version
      /\ \A u \in Threads :
           \/ save'[u].at = "idle"
           \/ save'[u].at = "begin" /\ u # t /\ save'[u] = save[u]
           \/ ~save'[u].only /\ ~save'[u].alone
      /\ \/ save'[t].at = "idle"
         \/ /\ save'[t].at = "end" /\ save'[t].obj = save[t].obj
            /\ save'[t].version = save[t].version
      /\ \A u \in Busy' : u # t \/ ~save'[u].ok
      /\ \A u \in Busy' \ {t} : save'[u].ok = save[u].ok /\ save'[u].next = save[u].next
  BY RollsBack
<1>3. Busy \subseteq Threads /\ \A u \in Busy : save[u].at \notin {"idle", "load"}
  BY DEF Busy
<1>4. \A o \in Objects : calm'[o] =>
        calm[o] /\ (FailLost(t) => o # save[t].obj)
  BY <1>2 DEF EndLost, FailLost, Fails, TypeOK
<1>5. \A o \in Objects : settled'[o] # None =>
        settled'[o] = settled[o] /\ o \notin pending /\ Complete(disk[o], settled[o])
  BY <1>1 DEF Forgotten, Durable
<1>6. \A o \in Objects : Saving(o)' \subseteq Saving(o)
  BY <1>2, <1>3 DEF Saving, Busy
<1>7. Synced' /\ Dated'
  BY <1>1, <1>5 DEF Synced, Dated, DatedRow
<1>8. Only'
  <2> SUFFICES ASSUME NEW u \in Threads
               PROVE  /\ save'[u].at # "idle" /\ save'[u].only =>
                           \A w \in Busy' \ {u} : save'[w].obj # save'[u].obj
                      /\ save'[u].at = "load" =>
                           save'[u].obj \in Objects /\ save'[u].version \in 0 .. saves'
    BY DEF Only
  <2>1. ASSUME save'[u].at # "idle", save'[u].only, NEW w \in Busy' \ {u}
        PROVE  save'[w].obj # save'[u].obj
    <3>1. u # t /\ save'[u] = save[u] /\ save[u].at # "idle"
      BY <1>2, <2>1
    <3>2. save'[w].obj = save[w].obj /\ w \in Busy
      BY <1>2, <1>3 DEF Busy
    <3> QED
      BY <2>1, <3>1, <3>2 DEF Only
  <2>2. ASSUME save'[u].at = "load"
        PROVE  save'[u].obj \in Objects /\ save'[u].version \in 0 .. saves'
    <3>1. u # t
      BY <1>2, <2>2
    <3> QED
      BY <1>1, <1>2, <2>2, <3>1 DEF Only
  <2> QED
    BY <2>1, <2>2
<1>9. Alone'
  <2> SUFFICES ASSUME NEW u \in Busy', save'[u].alone PROVE FALSE
    BY DEF Alone
  <2>1. u # t /\ save'[u] = save[u] /\ u \in Busy
    BY <1>2 DEF Busy
  <2>2. Busy = {u}
    BY <2>1 DEF Alone
  <2> QED
    BY <1>2, <2>1, <2>2
<1>10. Written'
  <2> SUFFICES ASSUME NEW u \in Busy'
               PROVE  /\ save'[u].at = "begin" => save'[u].next = 0
                      /\ save'[u].at = "end" /\ save'[u].ok
                            => save'[u].next > len'[save'[u].version]
                      /\ save'[u].only
                            => Has(view'[save'[u].obj], save'[u].version, save'[u].next)
    BY DEF Written, Has
  <2>1. u \in Threads /\ u \in Busy /\ save'[u].at # "idle"
    BY <1>2 DEF Busy
  <2>2. CASE u = t
    <3>1. ~save'[u].ok /\ ~save'[u].only /\ save'[u].at # "begin"
      BY <1>2, <2>1, <2>2
    <3> QED
      BY <3>1
  <2>3. CASE u # t
    <3>1. /\ save[u].at = "begin" => save[u].next = 0
          /\ save[u].at = "end" /\ save[u].ok => save[u].next > len[save[u].version]
      BY <2>1 DEF Written
    <3>2. save'[u].only => save'[u].at = "begin" /\ save'[u].next = 0
      BY <1>2, <2>1, <2>3, <3>1
    <3>3. save'[u].only => Has(view'[save'[u].obj], save'[u].version, save'[u].next)
      BY <3>2 DEF Has, Index
    <3> QED
      BY <1>1, <1>2, <2>1, <2>3, <3>1, <3>3
  <2> QED
    BY <2>2, <2>3
<1>11. ASSUME NEW o \in Objects, calm'[o] PROVE Tidy(disk[o]) /\ Saving(o)' = {}
  <2>1. Tidy(disk[o]) /\ \A u \in Saving(o) : save[u].alone
    BY <1>4, <1>11 DEF Calm
  <2>2. ASSUME NEW u \in Saving(o)' PROVE FALSE
    <3>1. u \in Saving(o) /\ u \in Busy
      BY <1>6 DEF Saving
    <3>2. Busy = {u}
      BY <2>1, <3>1 DEF Alone
    <3>3. u = t /\ save[t].obj = o
      BY <1>2, <3>1, <3>2 DEF Saving
    <3>4. EndLost(t)
      BY <1>4, <1>11, <3>3
    <3>5. save'[t].at = "idle"
      BY <3>4 DEF EndLost, NoSave
    <3> QED
      BY <2>2, <3>3, <3>5 DEF Saving, Busy
  <2> QED
    BY <2>1, <2>2
<1>12. Calm'
  BY <1>1, <1>11 DEF Calm, Tidy, Complete
<1>13. Settled' /\ Durable'
  <2>1. \A o \in Objects : settled'[o] # None => Saving(o)' = {}
    BY <1>5, <1>6 DEF Settled
  <2> QED
    BY <1>1, <1>5, <2>1 DEF Settled, Durable, Complete
<1>14. LoadsWhole'
  BY <1>2 DEF LoadsWhole
<1> QED
  BY <1>7, <1>8, <1>9, <1>10, <1>12, <1>13, <1>14

\* After a crash the connection sees what is on disk, and nobody saves.
LEMMA CrashSafe == SInv /\ TypeOK' /\ Crash => SInv'
<1> SUFFICES ASSUME SInv, TypeOK', Crash PROVE SInv'
  OBVIOUS
<1> USE DEF SInv
<1>1. disk' = disk /\ view' = disk /\ UNCHANGED <<saves, len, calm>> /\ open' = FALSE
  BY DEF Crash
<1>2. Busy' = {} /\ \A t \in Threads : save'[t].at = "idle"
  BY DEF Crash, Busy, NoSave
<1>3. \A o \in Objects : Saving(o)' = {}
  BY <1>2 DEF Saving
<1>4. \A o \in Objects : settled'[o] # None =>
        settled'[o] = settled[o] /\ Complete(disk[o], settled[o])
  BY DEF Crash, Forgotten, Durable
<1>5. Synced' /\ Dated'
  BY <1>1, <1>4 DEF Synced, Dated, DatedRow
<1>6. Only' /\ Alone' /\ Written' /\ LoadsWhole'
  BY <1>2 DEF Only, Alone, Written, LoadsWhole
<1>7. Calm'
  BY <1>1, <1>3 DEF Calm, Tidy, Complete
<1>8. Settled' /\ Durable'
  BY <1>1, <1>3, <1>4 DEF Settled, Durable, Complete
<1> QED
  BY <1>5, <1>6, <1>7, <1>8

\* Every step keeps it.
LEMMA SInvStep == SInv /\ [Next]_vars => SInv'
<1> SUFFICES ASSUME SInv, [Next]_vars PROVE SInv'
  OBVIOUS
<1>1. TypeOK'
  BY TypeStep DEF SInv
<1>2. CASE UNCHANGED vars
  BY <1>1, <1>2 DEF vars, SInv, Synced, Dated, DatedRow, Only, Alone, Written, Has, Calm,
                    Tidy, Complete, Settled, Durable, LoadsWhole, Saving, Busy
<1>3. CASE Next
  BY <1>1, <1>3, SaveSafe, GoesSafe, StoreRowSafe, EndSafe, RollBackSafe,
     LoadSafe, CrashSafe DEF Next
<1> QED
  BY <1>2, <1>3

\* The invariant holds in every state of every behaviour.
THEOREM SaveInvariant == Spec => []SInv
<1> QED
  BY InitSInv, SInvStep, PTL DEF Spec

\* database.cpp:346: the version whose save has returned true is on disk and
\* survives a crash, for all threads and objects, unless its END was refused and
\* none has gone through since, or a transaction was given up under the save.
THEOREM SavesDurable == Spec => []Durable
<1>1. SInv => Durable
  BY DEF SInv
<1> QED
  BY <1>1, SaveInvariant, PTL

\* database.cpp:318-346: a save that ran alone and did not fail is on disk
\* completely or not at all, whenever the process dies.
THEOREM SavesWhole == Spec => []Whole
<1>1. SInv => Whole
  BY DEF SInv, Calm, Tidy, Whole
<1> QED
  BY <1>1, SaveInvariant, PTL

\* database.cpp:39, sqlitetable.cpp:530: who loads an object that nobody saves
\* meanwhile finds with its row all the child rows of the same version.
THEOREM LoadsComplete == Spec => []LoadsWhole
<1>1. SInv => LoadsWhole
  BY DEF SInv
<1> QED
  BY <1>1, SaveInvariant, PTL

-----------------------------------------------------------------------------
(***************************************************************************)
(* The store implements VersionStore.  A save begins and fails as it does  *)
(* there; the END of one that was alone is Commit or Refuse, and any other *)
(* END is Flush: it commits what the connection sees.  A transaction that  *)
(* is given up is Lose, or a Fail that loses, and so is a crash.  Rows are *)
(* stored and loaded unseen.                                               *)
(***************************************************************************)

\* What an object that stays as it is looks like.
LEMMA SameObject ==
    ASSUME NEW p \in Objects, calm'[p] = calm[p], UNCHANGED len
    PROVE  /\ disk'[p] = disk[p] => WrittenVersions'[p] = WrittenVersions[p]
           /\ view'[p] = view[p] /\ (Saving(p)' = {} <=> Saving(p) = {})
                => SeenVersions'[p] = SeenVersions[p]
BY DEF WrittenVersions, SeenVersions, Content, Complete

\* Of an object that is disturbed nothing is known.
LEMMA Disturbed ==
    ASSUME NEW p \in Objects, calm \in [Objects -> BOOLEAN]
    PROVE  /\ ~calm[p] => WrittenVersions[p] = None /\ SeenVersions[p] = None
           /\ Saving(p) # {} => SeenVersions[p] = None
BY DEF WrittenVersions, SeenVersions

\* Both are functions.
LEMMA FunctionsOfObjects ==
    /\ WrittenVersions = [o \in Objects |-> WrittenVersions[o]]
    /\ SeenVersions = [o \in Objects |-> SeenVersions[o]]
    /\ WrittenVersions' = [o \in Objects |-> WrittenVersions'[o]]
    /\ SeenVersions' = [o \in Objects |-> SeenVersions'[o]]
BY DEF WrittenVersions, SeenVersions

\* Functions of objects that agree are the same.
LEMMA SameVersions ==
    ASSUME NEW f, NEW g, f = [o \in Objects |-> f[o]], g = [o \in Objects |-> g[o]],
           \A p \in Objects : f[p] = g[p]
    PROVE  f = g
<1>1. [o \in Objects |-> f[o]] = [o \in Objects |-> g[o]]
  OBVIOUS
<1> QED
  BY <1>1

\* Nothing is stored, and nothing is seen.
LEMMA StartVersions == Init => Versioned!Init
<1> SUFFICES ASSUME Init PROVE Versioned!Init
  OBVIOUS
<1>1. Busy = {}
  BY InitInv DEF IInv, Init, Busy, NoSave
<1>2. ASSUME NEW o \in Objects
      PROVE  WrittenVersions[o] = 0 /\ SeenVersions[o] = 0
  <2>1. Saving(o) = {} /\ disk[o].row = None /\ view[o].row = None /\ calm[o]
    BY <1>1 DEF Init, Nothing, Saving
  <2> QED
    BY <2>1 DEF WrittenVersions, SeenVersions, Content
<1>3. SeenVersions = [o \in Objects |-> 0] /\ WrittenVersions = SeenVersions
  BY <1>2 DEF WrittenVersions, SeenVersions
<1> QED
  BY <1>3 DEF Init, Versioned!Init

\* database.cpp:318: a save begins.
LEMMA SaveBegins ==
    ASSUME SInv, NEW t \in Threads, NEW o \in Objects, NEW n \in 0 .. MaxChildren, Save(t, o, n)
    PROVE  Versioned!Begin(o)
<1> USE DEF SInv
<1> DEFINE met == IF Busy = {} THEN {} ELSE {p \in Objects : p = o \/ Saving(p) # {}}
<1>1. /\ disk' = disk /\ view' = view /\ saves' = saves + 1
      /\ calm' = [p \in Objects |-> calm[p] /\ (Busy # {} => p # o /\ Saving(p) = {})]
  BY DEF Save
<1>2. /\ t \in Saving(o)' /\ \A p \in Objects : p # o => Saving(p)' = Saving(p)
  BY Joins
<1>3. calm \in [Objects -> BOOLEAN]
  BY DEF TypeOK
<1>4. ASSUME NEW p \in Objects
      PROVE  Content(disk[p])' = Content(disk[p]) /\ Content(view[p])' = Content(view[p])
  <2>1. \A v \in 1 .. saves : v \in Versions /\ len'[v] = len[v]
    BY OldLengths
  <2>2. /\ disk[p].row # None => disk[p].row \in Versions /\ disk[p].row <= saves
        /\ view[p].row # None => view[p].row \in Versions /\ view[p].row <= saves
    BY Typed DEF Dated, DatedRow
  <2>3. saves \in Nat
    BY DEF TypeOK
  <2>4. /\ disk[p].row # None => disk[p].row \in 1 .. saves
        /\ view[p].row # None => view[p].row \in 1 .. saves
    BY <2>2, <2>3, StoreAssumption DEF Versions
  <2>5. /\ disk[p].row # None => len'[disk[p].row] = len[disk[p].row]
        /\ view[p].row # None => len'[view[p].row] = len[view[p].row]
    BY <2>1, <2>4
  <2> QED
    BY <1>1, <2>5 DEF Content, Complete
<1>5. ASSUME NEW p \in Objects
      PROVE  /\ SeenVersions'[p] = IF p \in met \cup {o} THEN None ELSE SeenVersions[p]
             /\ WrittenVersions'[p] = IF p \in met THEN None ELSE WrittenVersions[p]
  <2>1. calm'[p] = (calm[p] /\ p \notin met)
    BY <1>1, <1>3
  <2>2. p = o => Saving(p)' # {}
    BY <1>2
  <2>3. p # o => Saving(p)' = Saving(p)
    BY <1>2
  <2> HIDE DEF met
  <2>4. WrittenVersions'[p] = IF p \in met THEN None ELSE WrittenVersions[p]
    BY <1>3, <1>4, <2>1 DEF WrittenVersions
  <2>5. SeenVersions'[p] = IF p \in met \cup {o} THEN None ELSE SeenVersions[p]
    <3>1. CASE p = o
      BY <2>2, <3>1 DEF SeenVersions
    <3>2. CASE p # o /\ p \in met
      BY <1>3, <2>1, <3>2 DEF SeenVersions
    <3>3. CASE p # o /\ p \notin met
      BY <1>3, <1>4, <2>1, <2>3, <3>3 DEF SeenVersions
    <3> QED
      BY <3>1, <3>2, <3>3
  <2> QED
    BY <2>4, <2>5
<1>6. met \in SUBSET {p \in Objects : p = o \/ SeenVersions[p] = None}
  <2>1. \A p \in Objects : Saving(p) # {} => SeenVersions[p] = None
    BY DEF SeenVersions
  <2> QED
    BY <2>1
<1> HIDE DEF met
<1>7. SeenVersions' = [p \in Objects |-> IF p \in met \cup {o} THEN None ELSE SeenVersions[p]]
  BY <1>5 DEF SeenVersions
<1>8. WrittenVersions' = [p \in Objects |-> IF p \in met THEN None ELSE WrittenVersions[p]]
  BY <1>5 DEF WrittenVersions
<1> QED
  BY <1>1, <1>6, <1>7, <1>8 DEF Versioned!Begin

\* What is seen and written when no object changes that is known.
LEMMA Unseen ==
    ASSUME UNCHANGED <<saves, len, calm>>,
           \A p \in Objects : calm[p] =>
               /\ Saving(p)' = {} <=> Saving(p) = {}
               /\ disk'[p] = disk[p]
               /\ Saving(p) = {} => view'[p] = view[p]
    PROVE  UNCHANGED Versioned!vars
<1>1. ASSUME NEW p \in Objects
      PROVE  WrittenVersions'[p] = WrittenVersions[p] /\ SeenVersions'[p] = SeenVersions[p]
  BY DEF WrittenVersions, SeenVersions, Content, Complete
<1>2. SeenVersions' = SeenVersions /\ WrittenVersions' = WrittenVersions
  BY <1>1, FunctionsOfObjects, SameVersions
<1> QED
  BY <1>2 DEF Versioned!vars

\* sqlitetable.cpp:751-866: a transaction begins, a row is stored, the last was.
LEMMA GoesUnseen ==
    ASSUME SInv, NEW t \in Threads, Begin(t) \/ StoreRow(t) \/ AllStored(t)
    PROVE  UNCHANGED Versioned!vars
<1> USE DEF SInv
<1>1. /\ t \in Busy /\ \A p \in Objects : Saving(p)' = Saving(p)
      /\ UNCHANGED <<saves, len>>
  BY GoesOn DEF Goes
<1>2. calm' = calm
  BY DEF Begin, StoreRow, AllStored
<1>3. CASE Begin(t) \/ AllStored(t)
  <2>1. disk' = disk /\ view' = view
    BY <1>3 DEF Begin, AllStored
  <2> QED
    BY <1>1, <1>2, <2>1, Unseen
<1>4. CASE StoreRow(t)
  <2> DEFINE o == save[t].obj
  <2>1. /\ o \in Objects
        /\ \A p \in Objects \ {o} : view'[p] = view[p] /\ disk'[p] = disk[p]
        /\ open => disk' = disk
    BY <1>4, Stores
  <2>2. t \in Saving(o)
    BY <1>1 DEF Saving
  <2>3. calm[o] => open
    <3>1. save[t].at # "begin"
      BY <1>4 DEF StoreRow
    <3>2. calm[o] => save[t].alone
      BY <2>1, <2>2 DEF Calm
    <3> QED
      BY <1>1, <3>1, <3>2 DEF Alone
  <2> HIDE DEF o
  <2>4. \A p \in Objects : /\ calm[p] => disk'[p] = disk[p]
                           /\ calm[p] /\ Saving(p) = {} => view'[p] = view[p]
    BY <2>1, <2>2, <2>3
  <2> QED
    BY <1>1, <1>2, <2>4, Unseen
<1> QED
  BY <1>3, <1>4

\* A statement fails.
LEMMA FailLoses ==
    ASSUME SInv, NEW t \in Threads, Fail(t)
    PROVE  Versioned!Fail(save[t].obj)
<1> USE DEF SInv
<1> DEFINE o == save[t].obj
<1>1. /\ t \in Busy /\ \A p \in Objects : Saving(p)' = Saving(p)
      /\ UNCHANGED <<saves, len>>
  BY GoesOn DEF Goes
<1>2. disk' = disk /\ view' = view /\ calm' = [calm EXCEPT ![o] = FALSE]
  BY DEF Fail, Fails
<1>3. o \in Objects /\ t \in Saving(o) /\ calm \in [Objects -> BOOLEAN]
  BY <1>1 DEF TypeOK, Saving
<1> HIDE DEF o
<1>4. SeenVersions[o] = None
  BY <1>3, Disturbed
<1>5. ASSUME NEW p \in Objects
      PROVE  /\ SeenVersions'[p] = SeenVersions[p]
             /\ WrittenVersions'[p] = IF p = o THEN None ELSE WrittenVersions[p]
  BY <1>1, <1>2, <1>3 DEF WrittenVersions, SeenVersions, Content, Complete
<1>6. SeenVersions' = SeenVersions
  BY <1>5, FunctionsOfObjects, SameVersions
<1>7. WrittenVersions' = [WrittenVersions EXCEPT ![o] = None]
  <2>1. WrittenVersions' = [p \in Objects |-> IF p = o THEN None ELSE WrittenVersions[p]]
    BY <1>5 DEF WrittenVersions
  <2> QED
    BY <2>1 DEF WrittenVersions
<1> QED
  BY <1>1, <1>4, <1>6, <1>7 DEF Versioned!Fail, o

\* sqliteutil.cpp:90-93: when the transaction is given up, a load finds what is
\* written, of all objects.
LEMMA RollBackSeen ==
    ASSUME SInv, NEW t \in Threads, EndLost(t) \/ FailLost(t)
    PROVE  Versioned!Next
<1> USE DEF SInv
<1> DEFINE o == save[t].obj
<1>1. disk' = disk /\ view' = disk /\ UNCHANGED <<saves, len>> /\ o \in Objects
  BY RollsBack DEF EndLost, FailLost, RollBack
<1>2. TypeOK' /\ SInv'
  BY TypeStep, RollBackSafe DEF Next
<1>3. ASSUME NEW p \in Objects, calm'[p] PROVE Saving(p)' = {}
  <2>1. \A u \in Saving(p)' : save'[u].alone
    BY <1>2, <1>3 DEF Calm
  <2>2. \A u \in Busy' : save'[u].alone => save'[u].at = "begin" /\ u # t /\ Busy' = {u}
    BY <1>2, RollsBack DEF Alone, Busy
  <2>3. \A u \in Busy' : save'[u].alone => save'[u] = save[u] /\ u \in Busy
    BY RollsBack DEF Busy
  <2>4. \A u \in Busy : save[u].alone => Busy = {u}
    BY DEF Alone
  <2>5. t \in Busy
    BY RollsBack
  <2> QED
    BY <2>1, <2>2, <2>3, <2>4, <2>5 DEF Saving
<1>4. \A p \in Objects : SeenVersions'[p] = WrittenVersions'[p]
  BY <1>1, <1>3 DEF WrittenVersions, SeenVersions, Content, Complete
<1>5. SeenVersions' = WrittenVersions'
  BY <1>4, FunctionsOfObjects, SameVersions
<1> HIDE DEF o
<1>6. CASE EndLost(t)
  <2>1. calm' = calm
    BY <1>6 DEF EndLost
  <2>2. \A p \in Objects : WrittenVersions'[p] = WrittenVersions[p]
    BY <1>1, <2>1 DEF WrittenVersions, Content, Complete
  <2>3. WrittenVersions' = WrittenVersions
    BY <2>2, FunctionsOfObjects, SameVersions
  <2> QED
    BY <1>1, <1>5, <2>3 DEF Versioned!Next, Versioned!Lose
<1>7. CASE FailLost(t)
  <2>1. calm' = [calm EXCEPT ![o] = FALSE] /\ calm \in [Objects -> BOOLEAN]
    BY <1>7 DEF FailLost, Fails, TypeOK, o
  <2>2. SeenVersions[o] = None
    <3>1. t \in Saving(o)
      BY RollsBack DEF Saving, o
    <3> QED
      BY <1>1, <2>1, <3>1, Disturbed
  <2>3. \A p \in Objects :
           WrittenVersions'[p] = IF p = o THEN None ELSE WrittenVersions[p]
    BY <1>1, <2>1 DEF WrittenVersions, Content, Complete
  <2>4. WrittenVersions' = [WrittenVersions EXCEPT ![o] = None]
    <3>1. WrittenVersions' = [p \in Objects |-> IF p = o THEN None ELSE WrittenVersions[p]]
      BY <2>3 DEF WrittenVersions
    <3> QED
      BY <3>1 DEF WrittenVersions
  <2>5. Versioned!Fail(o)
    BY <1>1, <1>5, <2>2, <2>4 DEF Versioned!Fail
  <2> QED
    BY <1>1, <2>5 DEF Versioned!Next
<1> QED
  BY <1>6, <1>7

\* database.cpp:346: a save that was alone ends, and its version is seen.
LEMMA EndSeen ==
    ASSUME SInv, NEW t \in Threads, NEW o \in Objects, o = save[t].obj,
           End(t) \/ EndRefused(t), save[t].ok, save[t].alone, calm'[o]
    PROVE  Versioned!Ends(o)
<1> USE DEF SInv
<1>1. Return(t) /\ UNCHANGED <<view, saves, len>>
  BY DEF End, EndRefused
<1>2. /\ t \in Busy /\ save[t].at = "end" /\ \A p \in Objects : Saving(p)' = Saving(p) \ {t}
  BY <1>1, Returns
<1>3. Busy = {t} /\ save[t].version = saves /\ save[t].only
  BY <1>2 DEF Alone
<1>4. Saving(o) = {t} /\ \A p \in Objects : p # o => Saving(p) = {}
  BY <1>3 DEF Saving
<1>5. Complete(view[o], saves)
  BY <1>2, <1>3, Finished
<1>6. calm \in [Objects -> BOOLEAN] /\ \A p \in Objects : p # o => calm'[p] = calm[p]
  BY DEF TypeOK, End, EndRefused
<1>7. saves \in Versions /\ None \notin Nat
  BY <1>2, <1>3, StoreAssumption DEF TypeOK, Versions
<1>9. SeenVersions[o] = None
  BY <1>2, <1>4, <1>6, Disturbed
<1>10. SeenVersions'[o] = saves
  <2>1. Saving(o)' = {}
    BY <1>2, <1>4
  <2>2. view[o].row = saves /\ saves # None
    BY <1>5, <1>7 DEF Complete, Versions
  <2>3. Complete(view[o], saves)'
    BY <1>1, <1>5 DEF Complete
  <2>4. Content(view[o])' = saves
    BY <1>1, <2>2, <2>3 DEF Content
  <2> QED
    BY <2>1, <2>4 DEF SeenVersions
<1>11. ASSUME NEW p \in Objects, p # o
       PROVE  SeenVersions'[p] = SeenVersions[p]
  <2>1. Saving(p)' = {} /\ Saving(p) = {} /\ calm'[p] = calm[p]
    BY <1>2, <1>4, <1>6, <1>11
  <2> QED
    BY <1>1, <2>1 DEF SeenVersions, Content, Complete
<1>12. SeenVersions' = [p \in Objects |-> IF p = o THEN saves ELSE SeenVersions[p]]
  BY <1>10, <1>11 DEF SeenVersions
<1>13. SeenVersions' = [SeenVersions EXCEPT ![o] = saves]
  BY <1>12 DEF SeenVersions
<1> QED
  BY <1>1, <1>9, <1>13 DEF Versioned!Ends

\* database.cpp:346: END commits what the connection sees, of all objects.
LEMMA EndWrites ==
    ASSUME SInv, NEW t \in Threads, End(t)
    PROVE  Versioned!Next
<1> USE DEF SInv
<1>1. PICK o \in Objects : o = save[t].obj
  BY Returns DEF End
<1>2. /\ t \in Busy /\ \A p \in Objects : Saving(p)' = Saving(p) \ {t}
      /\ UNCHANGED <<view, saves, len>> /\ disk' = view
  BY Returns DEF End, Synced, Committed
<1>3. /\ calm \in [Objects -> BOOLEAN]
      /\ calm' = IF save[t].ok /\ save[t].alone THEN [calm EXCEPT ![o] = TRUE] ELSE calm
  BY <1>1 DEF TypeOK, End
<1>4. calm[o] => save[t].ok /\ save[t].alone
  BY <1>1, <1>2 DEF Calm, Saving
<1>5. ASSUME NEW p \in Objects, calm'[p]
      PROVE  Saving(p)' = {}
  <2>1. CASE p = o
    <3>1. save[t].alone
      BY <1>3, <1>4, <1>5, <2>1
    <3>2. Busy = {t}
      BY <1>2, <3>1 DEF Alone
    <3> QED
      BY <1>2, <3>2 DEF Saving
  <2>2. CASE p # o
    <3>1. calm[p]
      BY <1>3, <1>5, <2>2
    <3>2. ASSUME NEW u \in Saving(p) PROVE FALSE
      <4>1. u \in Busy /\ save[u].obj = p /\ save[u].alone
        BY <3>1 DEF Calm, Saving
      <4>2. Busy = {u}
        BY <4>1 DEF Alone
      <4> QED
        BY <1>1, <1>2, <2>2, <4>1, <4>2
    <3> QED
      BY <1>2, <3>2
  <2> QED
    BY <2>1, <2>2
<1>6. WrittenVersions' = SeenVersions'
  <2>1. ASSUME NEW p \in Objects
        PROVE  WrittenVersions'[p] = SeenVersions'[p]
    <3>1. disk'[p] = view'[p]
      BY <1>2
    <3> QED
      BY <1>5, <3>1 DEF WrittenVersions, SeenVersions, Content, Complete
  <2> QED
    BY <2>1, FunctionsOfObjects, SameVersions
<1>7. CASE save[t].ok /\ save[t].alone
  <2>1. calm'[o]
    BY <1>3, <1>7
  <2>2. Versioned!Ends(o)
    BY <1>1, <1>7, <2>1, EndSeen
  <2> QED
    BY <1>6, <2>2 DEF Versioned!Next, Versioned!Commit
<1>8. CASE ~(save[t].ok /\ save[t].alone)
  <2>1. calm' = calm /\ ~calm[o]
    BY <1>3, <1>4, <1>8
  <2>2. ASSUME NEW p \in Objects
        PROVE  SeenVersions'[p] = SeenVersions[p]
    <3>1. CASE p = o
      BY <2>1, <3>1 DEF SeenVersions
    <3>2. CASE p # o
      <4>1. t \notin Saving(p)
        BY <1>1, <3>2 DEF Saving
      <4>2. Saving(p)' = Saving(p)
        BY <1>2, <4>1
      <4> QED
        BY <1>2, <2>1, <4>2 DEF SeenVersions, Content, Complete
    <3> QED
      BY <3>1, <3>2
  <2>3. SeenVersions' = SeenVersions
    BY <2>2, FunctionsOfObjects, SameVersions
  <2> QED
    BY <1>2, <1>6, <2>3 DEF Versioned!Next, Versioned!Flush
<1> QED
  BY <1>7, <1>8

\* database.cpp:346: a refused END writes nothing, though the save is seen.
LEMMA EndRefusedKeeps ==
    ASSUME SInv, NEW t \in Threads, EndRefused(t)
    PROVE  Versioned!Next \/ UNCHANGED Versioned!vars
<1> USE DEF SInv
<1>1. PICK o \in Objects : o = save[t].obj
  BY Returns DEF EndRefused
<1>2. /\ t \in Busy /\ \A p \in Objects : Saving(p)' = Saving(p) \ {t}
      /\ UNCHANGED <<view, saves, len, disk, calm>>
  BY Returns DEF EndRefused
<1>3. CASE calm[o]
  <2>1. save[t].ok /\ save[t].alone
    BY <1>1, <1>2, <1>3 DEF Calm, Saving
  <2>2. Versioned!Ends(o)
    BY <1>1, <1>2, <1>3, <2>1, EndSeen
  <2>3. WrittenVersions' = WrittenVersions
    BY <1>2 DEF WrittenVersions, Content, Complete
  <2> QED
    BY <2>2, <2>3 DEF Versioned!Next, Versioned!Refuse
<1>4. CASE ~calm[o]
  <2>1. ASSUME NEW p \in Objects, calm[p]
        PROVE  Saving(p)' = Saving(p)
    <3>1. t \notin Saving(p)
      BY <1>1, <1>4, <2>1 DEF Saving
    <3> QED
      BY <1>2, <3>1
  <2>2. \A p \in Objects : calm[p] =>
               /\ Saving(p)' = {} <=> Saving(p) = {}
               /\ disk'[p] = disk[p]
               /\ Saving(p) = {} => view'[p] = view[p]
    BY <1>2, <2>1
  <2> QED
    BY <1>2, <2>2, Unseen
<1> QED
  BY <1>3, <1>4

\* Loading changes nothing.
LEMMA LoadUnseen ==
    ASSUME SInv, NEW t \in Threads, (\E o \in Objects : LoadRow(t, o)) \/ LoadSubTable(t)
    PROVE  UNCHANGED Versioned!vars
<1> USE DEF SInv
<1>1. UNCHANGED <<disk, view, saves, len, calm>>
  BY DEF LoadRow, LoadSubTable
<1>2. /\ save[t].at \in {"idle", "load"} /\ save'[t].at \in {"idle", "load"}
      /\ \A u \in Threads \ {t} : save'[u] = save[u]
  BY DEF LoadRow, LoadSubTable, TypeOK, NoSave
<1>3. Busy' = Busy /\ \A u \in Busy : save'[u] = save[u]
  BY <1>2 DEF Busy
<1>4. \A p \in Objects : Saving(p)' = Saving(p)
  BY <1>3 DEF Saving
<1>5. \A p \in Objects : calm[p] =>
               /\ Saving(p)' = {} <=> Saving(p) = {}
               /\ disk'[p] = disk[p]
               /\ Saving(p) = {} => view'[p] = view[p]
  BY <1>1, <1>4
<1> QED
  BY <1>1, <1>5, Unseen

\* The process dies: what is written is what is seen.
LEMMA CrashVersions == SInv /\ Crash => Versioned!Lose
<1> SUFFICES ASSUME Crash PROVE Versioned!Lose
  OBVIOUS
<1>1. disk' = disk /\ view' = disk /\ UNCHANGED <<saves, len, calm>>
  BY DEF Crash
<1>2. Busy' = {}
  BY DEF Crash, Busy, NoSave
<1>3. \A p \in Objects : Saving(p)' = {}
  BY <1>2 DEF Saving
<1>4. ASSUME NEW p \in Objects
      PROVE  WrittenVersions'[p] = WrittenVersions[p] /\ SeenVersions'[p] = WrittenVersions[p]
  BY <1>1, <1>3 DEF WrittenVersions, SeenVersions, Content, Complete
<1>5. WrittenVersions' = WrittenVersions /\ SeenVersions' = WrittenVersions
  BY <1>4, FunctionsOfObjects, SameVersions
<1> QED
  BY <1>1, <1>5 DEF Versioned!Lose

\* Every step of the store is one of VersionStore, or nobody sees it.
LEMMA StepVersions == SInv /\ [Next]_vars => [Versioned!Next]_(Versioned!vars)
<1> SUFFICES ASSUME SInv, [Next]_vars PROVE Versioned!Next \/ UNCHANGED Versioned!vars
  BY DEF Versioned!vars
<1>1. ASSUME NEW t \in Threads, NEW o \in Objects, NEW n \in 0 .. MaxChildren, Save(t, o, n)
      PROVE  Versioned!Next
  BY <1>1, SaveBegins DEF Versioned!Next
<1>2. ASSUME NEW t \in Threads, Begin(t) \/ StoreRow(t) \/ AllStored(t)
      PROVE  UNCHANGED Versioned!vars
  BY <1>2, GoesUnseen
<1>3. ASSUME NEW t \in Threads, Fail(t)
      PROVE  Versioned!Next
  <2>1. save[t].obj \in Objects
    BY <1>3, SavesOf DEF SInv, Fail, Fails
  <2> QED
    BY <1>3, <2>1, FailLoses DEF Versioned!Next
<1>4. ASSUME NEW t \in Threads, End(t)
      PROVE  Versioned!Next
  BY <1>4, EndWrites
<1>5. ASSUME NEW t \in Threads, EndRefused(t)
      PROVE  Versioned!Next \/ UNCHANGED Versioned!vars
  BY <1>5, EndRefusedKeeps
<1>6. ASSUME NEW t \in Threads, (\E o \in Objects : LoadRow(t, o)) \/ LoadSubTable(t)
      PROVE  UNCHANGED Versioned!vars
  BY <1>6, LoadUnseen
<1>7. CASE Crash
  BY <1>7, CrashVersions DEF Versioned!Next
<1>8. CASE UNCHANGED vars
  BY <1>8 DEF vars, Versioned!vars, WrittenVersions, SeenVersions, Content, Complete, Saving, Busy
<1>9. ASSUME NEW t \in Threads, EndLost(t) \/ FailLost(t)
      PROVE  Versioned!Next
  BY <1>9, RollBackSeen
<1> QED
  BY <1>1, <1>2, <1>3, <1>4, <1>5, <1>6, <1>7, <1>8, <1>9 DEF Next

\* database.cpp:318-346: statement by statement, in the transaction that all threads
\* share, a save that meets no other and does not fail replaces one whole version by
\* another in one step, which END writes with whatever else is seen; a crash, or a
\* transaction that is given up, brings back what was written.
THEOREM StoreRefinement == Spec => ImplementsVersions
<1> QED
  BY StartVersions, StepVersions, SaveInvariant, PTL
     DEF Spec, ImplementsVersions, Versioned!Spec
=============================================================================
