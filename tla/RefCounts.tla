------------------------------ MODULE RefCounts ------------------------------
(***************************************************************************)
(* The two ways as_refcountedobj.cpp counts references.                    *)
(*                                                                         *)
(* A native actor (AS_RefCountedProxiedObj) belongs to a script object     *)
(* that has a handle of it; every other reference to the native object is  *)
(* one to the script object as well, until that is dead.  Release counts   *)
(* down and then reads the count again.                                    *)
(*                                                                         *)
(* An object that scripts use directly (AS_RefCountedObj) has a flag for   *)
(* weak references, set by a release that reads a count of one before it   *)
(* counts down.  A weak reference becomes a reference unless it is set.    *)
(***************************************************************************)
EXTENDS Naturals, FiniteSets

CONSTANTS
    Scripts, \* who may have a handle of the script object
    Natives, \* who may have a reference to the native one: the scheduler
    Users    \* who may have a reference to the object of the second kind

ASSUME HolderAssumption ==
    /\ IsFiniteSet(Scripts) /\ IsFiniteSet(Natives) /\ IsFiniteSet(Users)
    /\ Scripts \cap Natives = {} /\ Scripts # {} /\ Users # {}

VARIABLES
    objRefs,    \* references to the script object (the engine's count)
    dead,       \* its flag, m_isDead
    refCount,   \* m_refCount of the native object
    deleted,    \* how many times that has been deleted
    at,         \* where each holder is
    overlapped, \* two have counted it down and not yet read it again
    refs,       \* m_refcount of the other object
    flag,       \* its m_weakrefflag
    freed,      \* how many times that object has been deleted
    stage,      \* where each user of it is
    crossed,    \* two users released it at the same time
    touched     \* a weak reference was followed to an object already deleted

proxied == <<objRefs, dead, refCount, deleted, at, overlapped>>
counted == <<refs, flag, freed, stage, crossed, touched>>
vars == <<proxied, counted>>

Holders == Scripts \cup Natives
Bit(b) == IF b THEN 1 ELSE 0
In(places) == {h \in Holders : at[h] \in places}
To(h, place) == at' = [at EXCEPT ![h] = place]

\* A count in memory that has been freed may be anything.
Reads(value, gone) == IF gone THEN {0, 1} ELSE {value}

-----------------------------------------------------------------------------
(* Variants of the definitions below, each with a bug it could have had.   *)

\* The handle of the script object stays.
ReleaseObjKeepsHandle(h) ==
    /\ at[h] = "in"
    /\ objRefs' = objRefs - 1 /\ dead' = (objRefs = 1)
    /\ To(h, IF h \in Natives THEN "unproxied" ELSE "out")
    /\ UNCHANGED <<refCount, deleted, overlapped, counted>>

\* The flag is not looked at.
UpgradesAlways == TRUE

-----------------------------------------------------------------------------
(* AS_RefCountedProxiedObj.                                                *)

\* AddRef, by a script that has a handle: the native object's count, and that
\* of the script object, which cannot be dead.
AddRef(n) ==
    /\ at[n] = "out" /\ In({"in"}) \cap Scripts # {} /\ To(n, "added")
    /\ refCount' = refCount + 1
    /\ UNCHANGED <<objRefs, dead, deleted, overlapped, counted>>

AddObjRef(h) ==
    /\ at[h] = "added" /\ To(h, "in")
    /\ objRefs' = objRefs + 1
    /\ UNCHANGED <<dead, refCount, deleted, overlapped, counted>>

\* A script copies a handle of the script object.
CopyHandle(s) ==
    /\ at[s] = "out" /\ In({"in"}) \cap Scripts # {} /\ To(s, "in")
    /\ objRefs' = objRefs + 1
    /\ UNCHANGED <<dead, refCount, deleted, overlapped, counted>>

\* m_obj->Release(), or a script lets go of its handle.  The last to do so
\* destroys the script object, which releases its handle of the native one.
Idle(s) == s \in Scripts => In({"added"}) = {} \/ In({"in"}) \cap Scripts # {s}

ReleaseObj(h) ==
    /\ at[h] = "in" /\ Idle(h)
    /\ objRefs' = objRefs - 1 /\ dead' = (objRefs = 1)
    /\ To(h, CASE objRefs = 1 -> "destroys"
               [] objRefs # 1 /\ h \in Natives -> "unproxied"
               [] OTHER -> "out")
    /\ UNCHANGED <<refCount, deleted, overlapped, counted>>

\* asAtomicDec, for the script object's handle and for one's own reference.
CountDown(h) ==
    /\ at[h] \in {"destroys", "unproxied"}
    /\ To(h, IF at[h] = "destroys" THEN "destroyed" ELSE "counted")
    /\ refCount' = refCount - 1
    /\ overlapped' = (overlapped \/ In({"destroyed", "counted"}) # {})
    /\ UNCHANGED <<objRefs, dead, deleted, counted>>

\* `if (!m_refCount) delete this': the count is read again.
ReadAgain == Reads(refCount, deleted > 0)

DeleteIfZero(h) ==
    /\ at[h] \in {"destroyed", "counted"}
    /\ To(h, IF at[h] = "destroyed" /\ h \in Natives THEN "unproxied" ELSE "out")
    /\ \E n \in ReadAgain : deleted' = deleted + Bit(n = 0)
    /\ UNCHANGED <<objRefs, dead, refCount, overlapped, counted>>

-----------------------------------------------------------------------------
(* AS_RefCountedObj.                                                       *)

Move(u, place) == stage' = [stage EXCEPT ![u] = place]
Using == {u \in Users : stage[u] = "in"}
Releasing == {u \in Users : stage[u] \in {"one", "more"}}

\* AddRef, by somebody who has a reference.
Share(u) ==
    /\ stage[u] = "out" /\ Using # {} /\ Move(u, "in")
    /\ refs' = refs + 1
    /\ UNCHANGED <<flag, freed, crossed, touched, proxied>>

\* The engine follows a weak reference, with the flag locked.
Upgrades == ~flag

Upgrade(u) ==
    /\ stage[u] = "out" /\ Upgrades /\ ~touched /\ Move(u, "in")
    /\ refs' = refs + 1 /\ touched' = (freed > 0)
    /\ UNCHANGED <<flag, freed, crossed, proxied>>

\* Release looks whether it is the last...
Look(u) ==
    /\ stage[u] = "in" /\ ~touched
    /\ Move(u, IF refs = 1 THEN "one" ELSE "more")
    /\ crossed' = (crossed \/ Releasing # {})
    /\ UNCHANGED <<refs, flag, freed, touched, proxied>>

\* ... sets the flag if so ...
SetFlag(u) ==
    /\ stage[u] = "one" /\ ~flag /\ flag' = TRUE
    /\ UNCHANGED <<refs, freed, stage, crossed, touched, proxied>>

\* ... counts down, and deletes if the result is zero.
Decrement(u) ==
    /\ stage[u] \in {"one", "more"} /\ (stage[u] = "one" => flag) /\ ~touched
    /\ Move(u, "out")
    /\ refs' = IF refs = 0 THEN 0 ELSE refs - 1
    /\ freed' = freed + Bit(refs = 1)
    /\ UNCHANGED <<flag, crossed, touched, proxied>>

-----------------------------------------------------------------------------
\* The script object has just been made, and some object of the other kind.
Init ==
    /\ objRefs = 1 /\ dead = FALSE /\ refCount = 1 /\ deleted = 0
    /\ \E s \in Scripts : at = [h \in Holders |-> IF h = s THEN "in" ELSE "out"]
    /\ overlapped = FALSE
    /\ refs = 1 /\ flag = FALSE /\ freed = 0
    /\ \E u \in Users : stage = [v \in Users |-> IF v = u THEN "in" ELSE "out"]
    /\ crossed = FALSE /\ touched = FALSE

Next ==
    \/ \E n \in Natives : AddRef(n)
    \/ \E s \in Scripts : CopyHandle(s)
    \/ \E h \in Holders :
         AddObjRef(h) \/ ReleaseObj(h) \/ CountDown(h) \/ DeleteIfZero(h)
    \/ \E u \in Users : Share(u) \/ Upgrade(u) \/ Look(u) \/ SetFlag(u) \/ Decrement(u)

Spec == Init /\ [][Next]_vars

-----------------------------------------------------------------------------
(* Properties.                                                             *)

Places == {"out", "added", "in", "destroys", "destroyed", "unproxied", "counted"}
Stages == {"out", "in", "one", "more"}

\* Every variable keeps its type; no count goes below zero.
TypeOK ==
    /\ objRefs \in Nat /\ dead \in BOOLEAN /\ refCount \in Nat
    /\ deleted \in Nat /\ at \in [Holders -> Places] /\ overlapped \in BOOLEAN
    /\ refs \in Nat /\ flag \in BOOLEAN /\ freed \in Nat
    /\ stage \in [Users -> Stages] /\ crossed \in BOOLEAN /\ touched \in BOOLEAN

\* as_refcountedobj.cpp:20-40: the native object is not deleted while the
\* script object lives or anybody has a reference, whoever else releases.
NotTooSoon ==
    deleted > 0 =>
        objRefs = 0 /\ dead /\ In({"added", "in", "destroys", "unproxied"}) = {}

\* as_refcountedobj.cpp:36: it is deleted when the last one has gone, and twice
\* only if two releases overlapped between the count and the second look at it.
DeletedOnce ==
    /\ In(Places \ {"out"}) = {} => deleted > 0
    /\ deleted > 1 => overlapped

\* as_refcountedobj.cpp:15-40: the native object goes with the last of its
\* references and not before, twice only in the race between two releases.
ProxySafe == TypeOK /\ NotTooSoon /\ DeletedOnce

\* as_refcountedobj.cpp:47-58: the other kind is deleted once and not while it
\* is in use, unless a weak reference found it deleted and not flagged, and that
\* takes two releases at the same time.
FreedOnce ==
    /\ ~touched => freed + Bit(refs > 0) = 1 /\ refs = Cardinality(Using \cup Releasing)
    /\ touched => crossed
=============================================================================
