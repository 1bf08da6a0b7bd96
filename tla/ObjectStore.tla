----------------------------- MODULE ObjectStore -----------------------------
(***************************************************************************)
(* How scripts save objects (ASAPI_SaveObject of database.cpp, and         *)
(* StoreRow and PerformUpsert of sqlitetable.cpp): one row for the object, *)
(* and one for every element of its arrays, between BEGIN and END.         *)
(*                                                                         *)
(* All threads use one connection to SQLite, which has one transaction at  *)
(* a time.  BEGIN in a transaction fails, and so does END outside of one;  *)
(* neither result is looked at.  END follows a failed statement as well.   *)
(* SQLite may keep the transaction when END or a statement fails, or give  *)
(* it up, with what all threads have stored in it; nobody notices.         *)
(* The process may die at any moment and start again from what is on disk. *)
(*                                                                         *)
(* A version of an object stands for everything one save writes of it.     *)
(***************************************************************************)
EXTENDS Naturals

CONSTANTS
    Threads,  \* the workers that run scripts
    Objects,  \* the keys of objects
    MaxChildren, \* bounds the rows of an object's arrays
    MaxSaves, \* bounds the versions
    None

ASSUME StoreAssumption ==
    MaxChildren \in Nat /\ MaxSaves \in Nat /\ None \notin Objects \cup Nat

Versions == 1 .. MaxSaves
Index == 1 .. MaxChildren

VARIABLES
    disk,    \* what would be found after a crash
    view,    \* what the connection sees
    open,    \* the connection is in a transaction
    saves,   \* how many saves have begun: the last version
    len,     \* the number of child rows of each version
    save,    \* what each thread does
    pending, \* the objects whose save returned though its END was refused, and
             \* whose transaction is still open
    calm,    \* since the last save of an object that ran alone and was committed,
             \* none of it has failed or overlapped another save
    settled  \* the version whose save returned true, of each object, if no
             \* other save of the object ran meanwhile or began since, and no
             \* transaction was given up under it

vars == <<disk, view, open, saves, len, save, pending, calm, settled>>

NoSave == [at |-> "idle", obj |-> None, version |-> 0, next |-> 0,
           ok |-> TRUE, alone |-> TRUE, only |-> TRUE]
Stored == [row : Versions \cup {None}, child : [Index -> Versions \cup {None}]]
Nothing == [row |-> None, child |-> [i \in Index |-> None]]

Busy == {t \in Threads : save[t].at \notin {"idle", "load"}}
Saving(o) == {t \in Busy : save[t].obj = o}

\* All of a version is there.  Rows of a longer array saved before may follow.
Complete(stored, v) ==
    stored.row = v /\ \A i \in 1 .. len[v] : stored.child[i] = v

\* Outside of a transaction, each statement is one.
Update(stored) ==
    /\ view' = stored
    /\ disk' = IF open THEN disk ELSE stored

-----------------------------------------------------------------------------
(* Variants of the definitions below, each with a bug it could have had.   *)

\* The pragma is forgotten: foreign keys are not looked at.
ParentIgnored(t) == TRUE

\* END does not write anything.
CommittedNot(stored) == disk

\* The last element of an array is forgotten.
LastBut(v) == len[v] - 1

\* No transaction is begun.
BeginNot(t) ==
    /\ save[t].at = "begin" /\ save' = [save EXCEPT ![t].at = "store"]
    /\ UNCHANGED <<disk, view, open, saves, len, pending, calm, settled>>

-----------------------------------------------------------------------------
(* ASAPI_SaveObject.                                                       *)

\* OnSave has filled the row: a new version, with some number of child rows.
Save(t, o, n) ==
    /\ save[t].at = "idle" /\ saves < MaxSaves
    /\ saves' = saves + 1 /\ len' = [len EXCEPT ![saves + 1] = n]
    /\ save' = [u \in Threads |->
         IF u = t THEN [at |-> "begin", obj |-> o, version |-> saves + 1, next |-> 0,
                        ok |-> TRUE, alone |-> Busy = {}, only |-> Saving(o) = {}]
         ELSE IF save[u] = NoSave THEN NoSave
         ELSE [save[u] EXCEPT !.alone = FALSE, !.only = @ /\ save[u].obj # o]]
    /\ calm' = [p \in Objects |->
                  calm[p] /\ (Busy # {} => p # o /\ Saving(p) = {})]
    /\ settled' = [settled EXCEPT ![o] = None]
    /\ UNCHANGED <<disk, view, open, pending>>

\* BeginDatabaseTransaction.
Begin(t) ==
    /\ save[t].at = "begin" /\ save' = [save EXCEPT ![t].at = "store"]
    /\ open' = TRUE
    /\ UNCHANGED <<disk, view, saves, len, pending, calm, settled>>

\* StoreIntoDB, and StoreAllChildRowsIntoDB row by row: a row that is there is
\* updated.  Rows that are not stored again stay.
IsRow(t) == save[t].next = 0
Last(v) == len[v]

\* The database is opened with foreign_keys=ON: a child row that refers to no
\* row is refused, and is a statement that fails.
HasParent(t) == view[save[t].obj].row # None

StoreRow(t) ==
    LET s == save[t] IN
    /\ s.at = "store" /\ s.next <= Last(s.version)
    /\ IsRow(t) \/ HasParent(t)
    /\ Update(IF IsRow(t)
              THEN [view EXCEPT ![s.obj].row = s.version]
              ELSE [view EXCEPT ![s.obj].child[s.next] = s.version])
    /\ save' = [save EXCEPT ![t].next = s.next + 1]
    /\ UNCHANGED <<open, saves, len, pending, calm, settled>>

\* SQLite gives the transaction up: what was stored in it is gone, of all
\* threads, and what is stored next is not in a transaction.
Forgotten == [o \in Objects |-> IF o \in pending THEN None ELSE settled[o]]

RollBack ==
    /\ open /\ open' = FALSE /\ view' = disk
    /\ settled' = Forgotten /\ pending' = {}
    /\ UNCHANGED <<disk, saves, len>>

\* Who was in the middle of something is not told.
Met(s) == IF s.at \in {"idle", "begin"} THEN s
          ELSE [s EXCEPT !.alone = FALSE, !.only = FALSE]

\* A statement fails, alone or with the transaction (the disk is full): the rest
\* is not stored.
Failed(s) == [s EXCEPT !.at = "end", !.ok = FALSE]

Fails(t) ==
    /\ save[t].at = "store" /\ save[t].next <= Last(save[t].version)
    /\ calm' = [calm EXCEPT ![save[t].obj] = FALSE]

Fail(t) ==
    /\ Fails(t) /\ save' = [save EXCEPT ![t] = Failed(save[t])]
    /\ UNCHANGED <<disk, view, open, saves, len, pending, settled>>

FailLost(t) ==
    /\ Fails(t) /\ RollBack
    /\ save' = [u \in Threads |-> Met(IF u = t THEN Failed(save[t]) ELSE save[u])]

AllStored(t) ==
    /\ save[t].at = "store" /\ save[t].next > Last(save[t].version)
    /\ save' = [save EXCEPT ![t].at = "end"]
    /\ UNCHANGED <<disk, view, open, saves, len, pending, calm, settled>>

\* EndDatabaseTransaction, and the return.
Return(t) ==
    LET s == save[t] IN
    /\ s.at = "end" /\ save' = [save EXCEPT ![t] = NoSave]
    /\ settled' = IF s.ok /\ s.only THEN [settled EXCEPT ![s.obj] = s.version]
                  ELSE settled

Committed(stored) == stored

End(t) ==
    /\ Return(t)
    /\ disk' = IF open THEN Committed(view) ELSE disk
    /\ open' = FALSE /\ pending' = {}
    /\ calm' = IF save[t].ok /\ save[t].alone
               THEN [calm EXCEPT ![save[t].obj] = TRUE] ELSE calm
    /\ UNCHANGED <<view, saves, len>>

\* Another process reads the database: END fails, the transaction goes on.
EndRefused(t) ==
    /\ Return(t) /\ open
    /\ pending' = pending \cup {save[t].obj}
    /\ UNCHANGED <<disk, view, open, saves, len, calm>>

\* The disk is full, or fails: END fails, and the transaction is given up.
EndLost(t) ==
    /\ save[t].at = "end" /\ RollBack
    /\ save' = [u \in Threads |-> IF u = t THEN NoSave ELSE Met(save[u])]
    /\ UNCHANGED calm

-----------------------------------------------------------------------------
\* LoadObject: LoadRow, where a missing row leaves the default values and is
\* no error, and then OnLoad, which loads the rows of the arrays.
LoadRow(t, o) ==
    /\ save[t].at = "idle"
    /\ save' = [save EXCEPT ![t] =
         [at |-> "load", obj |-> o,
          version |-> IF view[o].row = None THEN 0 ELSE view[o].row,
          next |-> 0, ok |-> TRUE, alone |-> TRUE, only |-> Saving(o) = {}]]
    /\ UNCHANGED <<disk, view, open, saves, len, pending, calm, settled>>

LoadSubTable(t) ==
    /\ save[t].at = "load" /\ save' = [save EXCEPT ![t] = NoSave]
    /\ UNCHANGED <<disk, view, open, saves, len, pending, calm, settled>>

\* The process is killed, and starts again.
Crash ==
    /\ view' = disk /\ open' = FALSE
    /\ save' = [t \in Threads |-> NoSave]
    /\ settled' = Forgotten /\ pending' = {}
    /\ UNCHANGED <<disk, saves, len, calm>>

Init ==
    /\ disk = [o \in Objects |-> Nothing] /\ view = disk
    /\ open = FALSE /\ saves = 0 /\ len = [v \in Versions |-> 0]
    /\ save = [t \in Threads |-> NoSave]
    /\ pending = {}
    /\ calm = [o \in Objects |-> TRUE]
    /\ settled = [o \in Objects |-> None]

Next ==
    \/ \E t \in Threads :
         \/ \E o \in Objects, n \in 0 .. MaxChildren : Save(t, o, n)
         \/ Begin(t) \/ StoreRow(t) \/ Fail(t) \/ FailLost(t) \/ AllStored(t)
         \/ End(t) \/ EndRefused(t) \/ EndLost(t)
         \/ \E o \in Objects : LoadRow(t, o)
         \/ LoadSubTable(t)
    \/ Crash

Spec == Init /\ [][Next]_vars

-----------------------------------------------------------------------------
(* Properties.                                                             *)

Saves == [at : {"idle", "begin", "store", "end", "load"}, obj : Objects \cup {None},
          version : 0 .. MaxSaves, next : 0 .. MaxChildren + 1,
          ok : BOOLEAN, alone : BOOLEAN, only : BOOLEAN]

\* Every variable keeps its type; whoever saves has an object and a version.
TypeOK ==
    /\ disk \in [Objects -> Stored] /\ view \in [Objects -> Stored]
    /\ open \in BOOLEAN /\ pending \subseteq Objects
    /\ saves \in 0 .. MaxSaves /\ len \in [Versions -> 0 .. MaxChildren]
    /\ save \in [Threads -> Saves]
    /\ \A t \in Busy : save[t].obj \in Objects /\ save[t].version \in 1 .. saves
    /\ calm \in [Objects -> BOOLEAN] /\ settled \in [Objects -> Versions \cup {None}]

\* sqlitetable.cpp:866, database.cpp:21: a child row refers to the row of its
\* object, and that is there, on disk and for the connection, whatever fails,
\* overlaps, is rolled back or dies.
NoOrphans ==
    \A o \in Objects, i \in Index :
        /\ disk[o].child[i] # None => disk[o].row # None
        /\ view[o].child[i] # None => view[o].row # None

\* sqlitetable.cpp:751-866: no version of the store that the connection sees, or
\* a crash leaves, has children without their row.
Inv == TypeOK /\ NoOrphans

\* database.cpp:346: the version whose save has returned true is on disk and
\* survives a crash, though it may have been another thread's END that committed
\* it.  Not so if its own END was refused, until another goes through, nor if a
\* transaction was given up between its first row and its commit: nobody looks
\* at these results, and the save returns true.
Durable ==
    \A o \in Objects \ pending :
        settled[o] # None => Complete(disk[o], settled[o])

\* database.cpp:318-346: whatever dies in the middle of it, or is given up, a save
\* is found on disk completely or not at all, unless a statement of it failed or
\* another thread saved at the same time.  Child rows beyond its own are older
\* ones.
Whole ==
    \A o \in Objects :
        calm[o] /\ disk[o].row # None =>
            /\ Complete(disk[o], disk[o].row)
            /\ \A i \in Index :
                 i > len[disk[o].row] /\ disk[o].child[i] # None =>
                     disk[o].child[i] < disk[o].row /\ i <= len[disk[o].child[i]]

\* database.cpp:39, sqlitetable.cpp:530: a thread that loads an object which is
\* not being saved meanwhile finds with the row all the child rows of the same
\* version, though it sees what other threads have not committed, unless these
\* lose it in between.
LoadsWhole ==
    \A t \in Threads :
        save[t].at = "load" /\ save[t].only /\ calm[save[t].obj] /\ save[t].version # 0
          => Complete(view[save[t].obj], save[t].version)

\* Objects as whole versions.  MaxSaves + 1, which is none, stands for one of
\* which rows are missing.
Content(stored) ==
    IF stored.row = None THEN 0
    ELSE IF Complete(stored, stored.row) THEN stored.row ELSE MaxSaves + 1

\* What would be found after a crash, and what a load finds, of an object that is
\* calm; none of it may be seen while it is saved.
WrittenVersions == [o \in Objects |-> IF calm[o] THEN Content(disk[o]) ELSE None]
SeenVersions == [o \in Objects |-> IF calm[o] /\ Saving(o) = {} THEN Content(view[o]) ELSE None]

Versioned == INSTANCE VersionStore WITH
    Unknown <- None, last <- saves, seen <- SeenVersions,
    written <- WrittenVersions

\* database.cpp:318-346: statement by statement, in a transaction that all threads
\* share, saves do what one step does that replaces a version by another, as long
\* as they do not meet and do not fail; and what is given up or dies with the
\* process leaves whole versions.
ImplementsVersions == Versioned!Spec
=============================================================================
