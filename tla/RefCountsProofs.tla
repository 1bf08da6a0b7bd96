--------------------------- MODULE RefCountsProofs ---------------------------
(***************************************************************************)
(* Proofs about RefCounts, for any finite sets of holders and users: the   *)
(* counts are exact, and both kinds of object are deleted when nobody      *)
(* holds them any more and not before.                                     *)
(***************************************************************************)
EXTENDS RefCounts, FiniteSetTheorems, TLAPS

-----------------------------------------------------------------------------
(* The inductive invariant of a native object and its script object.       *)

ProxyTypes ==
    /\ objRefs \in Nat /\ dead \in BOOLEAN /\ refCount \in Nat
    /\ deleted \in Nat /\ at \in [Holders -> Places] /\ overlapped \in BOOLEAN

\* A script has handles of the script object only.
Kinds == \A s \in Scripts : at[s] \in {"out", "in", "destroys", "destroyed"}

\* The script object's count is exact, and its last handle goes once.
Handles ==
    /\ objRefs = Cardinality(In({"in"}))
    /\ dead <=> objRefs = 0
    /\ objRefs > 0 => In({"destroys", "destroyed"}) = {}
    /\ \A g, h \in In({"destroys"}) : g = h

\* While a reference is being made a script keeps its handle.
Making == In({"added"}) # {} => In({"in"}) \cap Scripts # {}

\* The native object's count is exact: one for each native holder that has not
\* counted down yet, and one for the handle of the script object.
Own == In({"added", "in", "destroys", "destroyed", "unproxied"}) \cap Natives
Handle == objRefs > 0 \/ In({"destroys"}) # {}
Counts == refCount = Cardinality(Own) + Bit(Handle)

\* Whoever has counted down and not looked at the count yet.
Late == In({"destroyed", "counted"})

Deletes ==
    /\ deleted > 0 => refCount = 0
    /\ refCount = 0 /\ Late = {} => deleted > 0
    /\ ~overlapped => /\ deleted <= 1
                      /\ deleted > 0 => Late = {}
                      /\ \A g, h \in Late : g = h

ProxyInv == ProxyTypes /\ Kinds /\ Handles /\ Making /\ Counts /\ Deletes

(* ... and of an object of the other kind.                                 *)

CountedTypes ==
    /\ refs \in Nat /\ flag \in BOOLEAN /\ freed \in Nat
    /\ stage \in [Users -> Stages] /\ crossed \in BOOLEAN /\ touched \in BOOLEAN

\* Unless two users release it at the same time, the one that does is the one
\* that has seen how many there are, and nobody finds a deleted object unflagged.
Alone ==
    ~crossed => /\ \A u, v \in Releasing : u = v
                /\ \A u \in Users : stage[u] = "more" => refs > 1
                /\ freed > 0 => flag

CountedInv == CountedTypes /\ FreedOnce /\ Alone

IInv == ProxyInv /\ CountedInv

-----------------------------------------------------------------------------
(* Finite sets of holders.                                                 *)

\* Holders are finitely many.
LEMMA InFinite ==
    /\ \A P : IsFiniteSet(In(P)) /\ Cardinality(In(P)) \in Nat
    /\ IsFiniteSet(Own) /\ Cardinality(Own) \in Nat
<1>1. IsFiniteSet(Holders)
  BY HolderAssumption, FS_Union DEF Holders
<1>2. ASSUME NEW P PROVE IsFiniteSet(In(P))
  BY <1>1, FS_Subset DEF In
<1>3. IsFiniteSet(Own)
  BY <1>1, FS_Subset DEF In, Own
<1> QED
  BY <1>2, <1>3, FS_CardinalityType

\* One more, one fewer, none.
LEMMA Count ==
    ASSUME NEW S, IsFiniteSet(S), NEW h
    PROVE  /\ Cardinality(S) \in Nat
           /\ h \notin S => Cardinality(S \cup {h}) = Cardinality(S) + 1
           /\ h \in S => /\ Cardinality(S) > 0
                         /\ Cardinality(S \ {h}) = Cardinality(S) - 1
           /\ Cardinality(S) = 0 <=> S = {}
<1>1. Cardinality(S) \in Nat /\ (Cardinality(S) = 0 <=> S = {})
  BY FS_CardinalityType, FS_EmptySet
<1>2. h \notin S => Cardinality(S \cup {h}) = Cardinality(S) + 1
  BY FS_AddElement
<1>3. h \in S => Cardinality(S \ {h}) = Cardinality(S) - 1
  BY FS_RemoveElement
<1>4. h \in S => Cardinality(S) > 0
  BY <1>1
<1> QED
  BY <1>1, <1>2, <1>3, <1>4

\* The counts say whether there is anybody.
LEMMA Someone ==
    ASSUME ProxyInv
    PROVE  /\ objRefs > 0 <=> In({"in"}) # {}
           /\ refCount = 0 <=> Own = {} /\ ~Handle
           /\ Handle \in BOOLEAN
<1>1. Cardinality(In({"in"})) = 0 <=> In({"in"}) = {}
  BY InFinite, FS_EmptySet
<1>2. Cardinality(Own) = 0 <=> Own = {}
  BY InFinite, FS_EmptySet
<1>3. Handle \in BOOLEAN
  BY DEF Handle
<1>4. objRefs \in Nat /\ objRefs = Cardinality(In({"in"}))
  BY DEF ProxyInv, ProxyTypes, Handles
<1>5. refCount = Cardinality(Own) + Bit(Handle) /\ Cardinality(Own) \in Nat
  BY InFinite DEF ProxyInv, Counts
<1> QED
  BY <1>1, <1>2, <1>3, <1>4, <1>5 DEF Bit

-----------------------------------------------------------------------------
(* The native object.                                                      *)

\* A script object that has just been made has one handle, and is a reference.
LEMMA InitProxy == Init => ProxyInv
<1> SUFFICES ASSUME Init PROVE ProxyInv
  OBVIOUS
<1> PICK s \in Scripts : at = [h \in Holders |-> IF h = s THEN "in" ELSE "out"]
  BY DEF Init
<1>1. s \in Holders /\ s \notin Natives
  BY HolderAssumption DEF Holders
<1>2. In({"in"}) = {s} /\ Own = {} /\ Late = {}
  BY <1>1 DEF In, Own, Late, Holders
<1>3. Cardinality(In({"in"})) = 1 /\ Cardinality(Own) = 0
  BY <1>2, FS_Singleton, FS_EmptySet
<1>4. ProxyTypes /\ Kinds
  BY <1>1 DEF Init, ProxyTypes, Kinds, Places, Holders
<1>5. Handles
  BY <1>3 DEF Init, Handles, In
<1>6. Making
  BY DEF Making, In
<1>7. Counts
  BY <1>3 DEF Init, Counts, Handle, Bit
<1>8. Deletes
  BY <1>2 DEF Init, Deletes
<1> QED
  BY <1>4, <1>5, <1>6, <1>7, <1>8 DEF ProxyInv

\* AddRef counts a new native holder, while a script has a handle.
LEMMA AddRefKeeps == ASSUME ProxyInv, NEW n \in Natives, AddRef(n) PROVE ProxyInv'
<1> USE DEF AddRef, To
<1>1. n \in Holders /\ n \notin Scripts /\ at[n] = "out"
  BY HolderAssumption DEF Holders
<1>2. ProxyTypes /\ Kinds /\ Handles /\ Counts /\ Deletes
  BY DEF ProxyInv
<1>3. objRefs > 0 /\ refCount > 0
  BY Someone DEF Handle, ProxyInv, ProxyTypes
<1>4. In({"in"})' = In({"in"}) /\ Late' = Late /\ In({"destroys"})' = In({"destroys"})
      /\ In({"destroys", "destroyed"})' = In({"destroys", "destroyed"})
  BY <1>1, <1>2 DEF In, Late, ProxyTypes
<1>5. Own' = Own \cup {n} /\ n \notin Own
  BY <1>1, <1>2 DEF In, Own, ProxyTypes
<1>6. Cardinality(Own') = Cardinality(Own) + 1
  BY <1>5, InFinite, Count
<1>7. ProxyTypes' /\ Kinds'
  BY <1>1, <1>2 DEF ProxyTypes, Kinds, Places
<1>8. Handles'
  BY <1>2, <1>4 DEF Handles
<1>9. Making'
  BY <1>4 DEF Making
<1>10. Counts'
  BY <1>2, <1>4, <1>6, InFinite DEF Counts, Handle, Bit
<1>11. Deletes'
  BY <1>2, <1>3, <1>4 DEF Deletes, ProxyTypes
<1> QED
  BY <1>7, <1>8, <1>9, <1>10, <1>11 DEF ProxyInv

\* AddObjRef or a copy of a handle: one more has a handle, and may have been
\* counted already.
LEMMA EntersKeeps ==
    ASSUME ProxyInv, NEW h \in Holders, In({"in"}) \cap Scripts # {},
           at[h] \in {"added", "out"}, at[h] = "out" => h \in Scripts,
           To(h, "in"), objRefs' = objRefs + 1, dead' = dead,
           refCount' = refCount, deleted' = deleted, overlapped' = overlapped
    PROVE  ProxyInv'
<1> USE DEF To
<1>1. ProxyTypes /\ Kinds /\ Handles /\ Counts /\ Deletes
  BY DEF ProxyInv
<1>2. objRefs > 0
  BY Someone
<1>3. In({"in"})' = In({"in"}) \cup {h} /\ h \notin In({"in"})
  BY <1>1 DEF In, ProxyTypes
<1>4. Late' = Late /\ In({"destroys"})' = In({"destroys"})
      /\ In({"destroys", "destroyed"})' = In({"destroys", "destroyed"})
  BY <1>1 DEF In, Late, ProxyTypes
<1>5. Own' = Own
  BY <1>1, HolderAssumption DEF In, Own, ProxyTypes
<1>6. Cardinality(In({"in"})') = Cardinality(In({"in"})) + 1
  BY <1>3, InFinite, Count
<1>7. ProxyTypes' /\ Kinds'
  BY <1>1 DEF ProxyTypes, Kinds, Places
<1>8. Handles'
  BY <1>1, <1>2, <1>4, <1>6 DEF Handles, ProxyTypes
<1>9. Making'
  BY <1>3 DEF Making
<1>10. Counts'
  BY <1>1, <1>2, <1>4, <1>5 DEF Counts, Handle, Bit, ProxyTypes
<1>11. Deletes'
  BY <1>1, <1>4 DEF Deletes
<1> QED
  BY <1>7, <1>8, <1>9, <1>10, <1>11 DEF ProxyInv


\* ReleaseObj: one fewer has a handle, and the last one destroys the object.
LEMMA ReleaseObjKeeps ==
    ASSUME ProxyInv, NEW h \in Holders, ReleaseObj(h) PROVE ProxyInv'
<1> USE DEF ReleaseObj, To
<1>1. ProxyTypes /\ Kinds /\ Handles /\ Making /\ Counts /\ Deletes
  BY DEF ProxyInv
<1>2. h \in In({"in"}) /\ at[h] = "in" /\ objRefs > 0
  BY Someone DEF In
<1>3. In({"in"})' = In({"in"}) \ {h}
  BY <1>1, <1>2 DEF In, ProxyTypes
<1>4. Cardinality(In({"in"})') = Cardinality(In({"in"})) - 1
  BY <1>2, <1>3, InFinite, Count
<1>5. Late' = Late /\ In({"added"})' = In({"added"})
  BY <1>1, <1>2 DEF In, Late, ProxyTypes
<1>6. In({"destroys", "destroyed"}) = {} /\ In({"destroys"}) = {}
  BY <1>1, <1>2 DEF Handles, In
<1>7. ProxyTypes' /\ Kinds'
  BY <1>1, <1>2, HolderAssumption DEF ProxyTypes, Kinds, Places, Holders
<1>8. Making'
  <2> SUFFICES ASSUME In({"added"})' # {} PROVE (In({"in"}) \cap Scripts)' # {}
    BY DEF Making
  <2>1. In({"in"}) \cap Scripts # {}
    BY <1>1, <1>5 DEF Making
  <2>2. h \in Scripts => In({"in"}) \cap Scripts # {h}
    BY <1>5 DEF Idle
  <2> QED
    BY <1>3, <2>1, <2>2
<1>9. CASE objRefs = 1
  <2>1. In({"destroys"})' = {h} /\ In({"destroys", "destroyed"})' = {h}
    BY <1>1, <1>2, <1>6, <1>9 DEF In, ProxyTypes
  <2>2. Own' = Own
    BY <1>1, <1>2, <1>9 DEF In, Own, ProxyTypes
  <2>3. Handles'
    <3>1. dead'
      BY <1>9, Zenon
    <3>2. objRefs' = 0 /\ objRefs' = Cardinality(In({"in"})')
      BY <1>1, <1>4, <1>9 DEF Handles, ProxyTypes
    <3>3. \A f, g \in In({"destroys"})' : f = g
      BY <2>1
    <3>4. dead' <=> objRefs' = 0
      BY <3>1, <3>2
    <3> QED
      BY <3>2, <3>3, <3>4 DEF Handles
  <2>4. Handle /\ Handle'
    BY <1>2, <2>1 DEF Handle
  <2>5. Counts'
    BY <1>1, <2>2, <2>4 DEF Counts, Bit
  <2> QED
    BY <1>1, <1>5, <1>7, <1>8, <2>3, <2>5 DEF ProxyInv, Deletes
<1>10. CASE objRefs # 1
  <2>1. In({"destroys"})' = {} /\ In({"destroys", "destroyed"})' = {}
    BY <1>1, <1>2, <1>6, <1>10 DEF In, ProxyTypes
  <2>2. Own' = Own
    BY <1>1, <1>2, <1>10, HolderAssumption DEF In, Own, ProxyTypes
  <2>3. objRefs' > 0 /\ objRefs' = objRefs - 1
    BY <1>1, <1>2, <1>10 DEF ProxyTypes
  <2>4. Handles'
    <3>1. ~dead'
      BY <1>10, Zenon
    <3>2. objRefs' = Cardinality(In({"in"})')
      BY <1>1, <1>4, <2>3 DEF Handles
    <3> QED
      BY <2>1, <2>3, <3>1, <3>2 DEF Handles
  <2>5. Counts'
    BY <1>1, <1>2, <2>2, <2>3 DEF Counts, Handle, Bit
  <2> QED
    BY <1>1, <1>5, <1>7, <1>8, <2>4, <2>5 DEF ProxyInv, Deletes
<1> QED
  BY <1>9, <1>10

\* CountDown takes off what the holder, or the handle it destroys, stood for.
LEMMA CountDownKeeps ==
    ASSUME ProxyInv, NEW h \in Holders, CountDown(h) PROVE ProxyInv'
<1> USE DEF CountDown, To
<1>1. ProxyTypes /\ Kinds /\ Handles /\ Making /\ Counts /\ Deletes
  BY DEF ProxyInv
<1>2. at[h] \in {"destroys", "unproxied"}
  OBVIOUS
<1>3. In({"in"})' = In({"in"}) /\ In({"added"})' = In({"added"})
  BY <1>1, <1>2 DEF In, ProxyTypes
<1>4. refCount > 0 /\ refCount = Cardinality(Own) + Bit(Handle) /\ Cardinality(Own) \in Nat
  <2>1. CASE at[h] = "destroys"
    BY <2>1, <1>1, Someone, InFinite DEF Handle, In, ProxyTypes, Counts
  <2>2. CASE at[h] = "unproxied"
    <3>1. h \in Natives
      BY <1>1, <2>2 DEF Kinds, Holders
    <3>2. h \in Own
      BY <2>2, <3>1 DEF Own, In
    <3> QED
      BY <1>1, <3>2, Someone, InFinite DEF ProxyTypes, Counts
  <2> QED
    BY <1>2, <2>1, <2>2
<1>5. ProxyTypes' /\ Kinds'
  BY <1>1, <1>2, <1>4 DEF ProxyTypes, Kinds, Places
<1>6. Making'
  BY <1>1, <1>3 DEF Making
<1>7. Late' = Late \cup {h} /\ (~overlapped' => ~overlapped /\ Late = {})
  BY <1>1, <1>2 DEF Late, In, ProxyTypes
<1>8. Deletes'
  BY <1>1, <1>4, <1>7 DEF Deletes, ProxyTypes
<1>9. CASE at[h] = "destroys"
  <2>1. objRefs = 0 /\ In({"destroys"}) = {h} /\ Handle
    BY <1>1, <1>9 DEF Handles, Handle, In, ProxyTypes
  <2>2. In({"destroys"})' = {} /\ Own' = Own
    BY <1>1, <1>9, <2>1 DEF In, Own, ProxyTypes
  <2>3. Handles'
    BY <1>1, <1>3, <2>1, <2>2 DEF Handles
  <2>4. Counts'
    BY <1>4, <2>1, <2>2 DEF Counts, Handle, Bit
  <2> QED
    BY <1>5, <1>6, <1>8, <2>3, <2>4 DEF ProxyInv
<1>10. CASE at[h] = "unproxied"
  <2>1. h \in Natives /\ h \in Own
    BY <1>1, <1>10 DEF Kinds, Holders, Own, In
  <2>2. Own' = Own \ {h}
    BY <1>1, <1>10 DEF In, Own, ProxyTypes
  <2>3. In({"destroys"})' = In({"destroys"})
        /\ In({"destroys", "destroyed"})' = In({"destroys", "destroyed"})
    BY <1>1, <1>10 DEF In, ProxyTypes
  <2>4. Cardinality(Own') = Cardinality(Own) - 1
    BY <2>1, <2>2, InFinite, Count
  <2>5. Handles'
    BY <1>1, <1>3, <2>3 DEF Handles
  <2>6. Counts'
    BY <1>4, <2>3, <2>4 DEF Counts, Handle, Bit
  <2> QED
    BY <1>5, <1>6, <1>8, <2>5, <2>6 DEF ProxyInv
<1> QED
  BY <1>2, <1>9, <1>10

\* DeleteIfZero: if nobody is left the object goes, and nobody comes back.
LEMMA DeleteIfZeroKeeps ==
    ASSUME ProxyInv, NEW h \in Holders, DeleteIfZero(h) PROVE ProxyInv'
<1> USE DEF DeleteIfZero, To
<1>1. ProxyTypes /\ Kinds /\ Handles /\ Making /\ Counts /\ Deletes
  BY DEF ProxyInv
<1>2. at[h] \in {"destroyed", "counted"} /\ h \in Late
  BY DEF Late, In
<1>3. In({"in"})' = In({"in"}) /\ In({"added"})' = In({"added"})
      /\ In({"destroys"})' = In({"destroys"})
      /\ In({"destroys", "destroyed"})' \subseteq In({"destroys", "destroyed"})
  BY <1>1, <1>2 DEF In, ProxyTypes
<1>4. Own' = Own
  BY <1>1, <1>2 DEF In, Own, ProxyTypes
<1>5. Late' = Late \ {h}
  BY <1>1, <1>2 DEF In, Late, ProxyTypes
<1> PICK n \in Reads(refCount, deleted > 0) : deleted' = deleted + Bit(n = 0)
  BY DEF ReadAgain
<1>6. /\ deleted' \in Nat /\ deleted' >= deleted
      /\ deleted = 0 => deleted' <= 1 /\ (deleted' > 0 <=> refCount = 0)
  BY <1>1 DEF Reads, Bit, ProxyTypes
<1>7. ProxyTypes' /\ Kinds'
  BY <1>1, <1>2, <1>6, HolderAssumption DEF ProxyTypes, Kinds, Places
<1>8. Handles' /\ Making' /\ Counts'
  BY <1>1, <1>3, <1>4 DEF Handles, Making, Counts, Handle
<1>9. Deletes'
  <2>1. deleted' > 0 => refCount' = 0
    BY <1>1, <1>6 DEF Deletes, ProxyTypes
  <2>2. refCount' = 0 => deleted' > 0
    BY <1>1, <1>6 DEF Deletes, ProxyTypes
  <2>3. ~overlapped => deleted = 0 /\ Late' = {}
    BY <1>1, <1>2, <1>5 DEF Deletes, ProxyTypes
  <2> QED
    BY <1>1, <1>6, <2>1, <2>2, <2>3 DEF Deletes
<1> QED
  BY <1>7, <1>8, <1>9 DEF ProxyInv

\* No step breaks the first half.
LEMMA StepProxy == ASSUME ProxyInv, [Next]_vars PROVE ProxyInv'
<1>1. CASE \E n \in Natives : AddRef(n)
  BY <1>1, AddRefKeeps
<1>2. CASE \E s \in Scripts : CopyHandle(s)
  <2> PICK s \in Scripts : CopyHandle(s)
    BY <1>2
  <2> QED
    BY EntersKeeps DEF CopyHandle, Holders
<1>3. ASSUME NEW h \in Holders, AddObjRef(h) PROVE ProxyInv'
  <2>1. at[h] = "added" /\ h \in In({"added"}) /\ h \in Holders
    BY <1>3 DEF AddObjRef, In
  <2>2. In({"in"}) \cap Scripts # {}
    BY <2>1 DEF ProxyInv, Making
  <2>3. To(h, "in")
    BY <1>3 DEF AddObjRef
  <2>4. /\ objRefs' = objRefs + 1 /\ dead' = dead /\ refCount' = refCount
        /\ deleted' = deleted /\ overlapped' = overlapped
    BY <1>3 DEF AddObjRef
  <2> QED
    BY <2>1, <2>2, <2>3, <2>4, EntersKeeps
<1>4. CASE \E h \in Holders : ReleaseObj(h)
  BY <1>4, ReleaseObjKeeps
<1>5. CASE \E h \in Holders : CountDown(h)
  BY <1>5, CountDownKeeps
<1>6. CASE \E h \in Holders : DeleteIfZero(h)
  BY <1>6, DeleteIfZeroKeeps
<1>7. ASSUME UNCHANGED proxied PROVE ProxyInv'
  BY <1>7 DEF proxied, ProxyInv, ProxyTypes, Kinds, Handles, Making, Counts, Deletes,
        Handle, Own, Late, In
<1>8. CASE \E u \in Users : Share(u) \/ Upgrade(u) \/ Look(u) \/ SetFlag(u) \/ Decrement(u)
  BY <1>7, <1>8 DEF Share, Upgrade, Look, SetFlag, Decrement
<1>9. CASE UNCHANGED vars
  BY <1>7, <1>9 DEF vars
<1> QED
  BY <1>1, <1>2, <1>3, <1>4, <1>5, <1>6, <1>8, <1>9 DEF Next


-----------------------------------------------------------------------------
(* The object of the other kind.                                           *)

\* Who is using it or about to let go of it.
Referring == Using \cup Releasing

\* Users are finitely many.
LEMMA ReferringFinite == IsFiniteSet(Referring) /\ Cardinality(Referring) \in Nat
<1>1. Referring \subseteq Users
  BY DEF Referring, Using, Releasing
<1> QED
  BY <1>1, HolderAssumption, FS_Subset, FS_CardinalityType

\* Somebody has a reference just when there are any.
LEMMA Referred ==
    ASSUME CountedInv, ~touched
    PROVE  /\ refs = Cardinality(Referring)
           /\ refs > 0 <=> Referring # {}
           /\ freed = IF refs > 0 THEN 0 ELSE 1
<1>1. refs = Cardinality(Referring) /\ freed + Bit(refs > 0) = 1
  BY DEF CountedInv, FreedOnce, Referring
<1>2. Cardinality(Referring) = 0 <=> Referring = {}
  BY ReferringFinite, FS_EmptySet
<1>3. refs \in Nat /\ freed \in Nat
  BY DEF CountedInv, CountedTypes
<1> QED
  BY <1>1, <1>2, <1>3 DEF Bit

\* An object that has just been made has one reference.
LEMMA InitCounted == Init => CountedInv
<1> SUFFICES ASSUME Init PROVE CountedInv
  OBVIOUS
<1> PICK u \in Users : stage = [v \in Users |-> IF v = u THEN "in" ELSE "out"]
  BY DEF Init
<1>1. Using \cup Releasing = {u} /\ Releasing = {}
  BY DEF Using, Releasing
<1>2. Cardinality(Using \cup Releasing) = 1
  BY <1>1, FS_Singleton
<1>3. CountedTypes
  BY DEF Init, CountedTypes, Stages
<1>4. FreedOnce
  BY <1>2 DEF Init, FreedOnce, Bit
<1>5. Alone
  BY <1>1 DEF Init, Alone
<1> QED
  BY <1>3, <1>4, <1>5 DEF CountedInv

\* Share and Upgrade: one more, of an object that is not deleted.
LEMMA ComesKeeps ==
    ASSUME CountedInv, NEW u \in Users, stage[u] = "out", Move(u, "in"),
           refs' = refs + 1, UNCHANGED <<flag, freed, crossed>>,
           touched' = FALSE, ~touched, freed = 0
    PROVE  CountedInv'
<1> USE DEF Move
<1>1. CountedTypes /\ Alone /\ refs \in Nat /\ stage \in [Users -> Stages]
  BY DEF CountedInv, CountedTypes
<1>2. Referring' = Referring \cup {u} /\ u \notin Referring /\ Releasing' = Releasing
  BY <1>1 DEF Referring, Using, Releasing
<1>3. refs' = Cardinality(Referring')
  BY <1>1, <1>2, ReferringFinite, Referred, Count
<1>4. CountedTypes'
  <2>1. stage' \in [Users -> Stages]
    BY <1>1 DEF Stages
  <2>2. refs' \in Nat /\ freed' \in Nat
    BY <1>1 DEF CountedTypes
  <2>3. flag' \in BOOLEAN /\ crossed' \in BOOLEAN /\ touched' \in BOOLEAN
    BY <1>1 DEF CountedTypes
  <2> QED
    BY <2>1, <2>2, <2>3 DEF CountedTypes
<1>5. FreedOnce'
  BY <1>1, <1>3 DEF FreedOnce, Referring, Bit
<1>6. Alone'
  BY <1>1, <1>2 DEF Alone
<1> QED
  BY <1>4, <1>5, <1>6 DEF CountedInv

\* Only somebody who has a reference can share it.
LEMMA ShareKeeps == ASSUME CountedInv, NEW u \in Users, Share(u) PROVE CountedInv'
<1>1. CASE touched
  <2>1. CountedTypes' /\ FreedOnce'
    BY <1>1 DEF Share, Move, CountedInv, CountedTypes, FreedOnce, Stages
  <2>2. crossed'
    BY <1>1 DEF Share, CountedInv, FreedOnce
  <2> QED
    BY <2>1, <2>2 DEF CountedInv, Alone
<1>2. CASE ~touched
  <2>1. Referring # {}
    BY DEF Share, Referring
  <2>2. freed = 0
    BY <1>2, <2>1, Referred
  <2>3. touched' = FALSE
    BY <1>2 DEF Share, CountedInv, CountedTypes
  <2> QED
    BY <1>2, <2>2, <2>3, ComesKeeps DEF Share
<1>3. touched \in BOOLEAN
  BY DEF CountedInv, CountedTypes
<1> QED
  BY <1>1, <1>2, <1>3

\* A weak reference that finds a deleted object finds it after two releases at
\* the same time.
LEMMA UpgradeKeeps == ASSUME CountedInv, NEW u \in Users, Upgrade(u) PROVE CountedInv'
<1>1. freed \in Nat /\ ~flag /\ ~touched
  BY DEF CountedInv, CountedTypes, Upgrade, Upgrades
<1> DEFINE late == freed > 0
<1>4. touched' = late
  BY Zenon DEF Upgrade
<1>5. late \in BOOLEAN /\ (late <=> freed > 0)
  OBVIOUS
<1> HIDE DEF late
<1>2. CASE freed = 0
  <2>1. touched' = FALSE
    BY <1>1, <1>2, <1>4, <1>5
  <2> QED
    BY <1>1, <1>2, <2>1, ComesKeeps DEF Upgrade
<1>3. CASE freed > 0
  <2>1. touched' = TRUE
    BY <1>3, <1>4, <1>5
  <2>2. crossed'
    BY <1>1, <1>3 DEF Upgrade, CountedInv, Alone, CountedTypes
  <2>3. CountedTypes'
    BY <1>1, <2>1 DEF Upgrade, Move, CountedInv, CountedTypes, Stages
  <2> QED
    BY <2>1, <2>2, <2>3 DEF CountedInv, FreedOnce, Alone
<1> QED
  BY <1>1, <1>2, <1>3

\* Looking at the count changes nothing, but two may do it.
LEMMA LookKeeps == ASSUME CountedInv, NEW u \in Users, Look(u) PROVE CountedInv'
<1> USE DEF Look, Move
<1>1. CountedTypes /\ Alone /\ FreedOnce /\ ~touched /\ stage[u] = "in"
      /\ refs \in Nat /\ stage \in [Users -> Stages] /\ crossed \in BOOLEAN
  BY DEF CountedInv, CountedTypes
<1>2. Referring' = Referring /\ Releasing' = Releasing \cup {u} /\ u \in Referring
  BY <1>1 DEF Referring, Using, Releasing
<1>3. refs > 0
  BY <1>1, <1>2, Referred
<1>4. CountedTypes'
  BY <1>1 DEF CountedTypes, Stages
<1>5. FreedOnce'
  BY <1>1, <1>2 DEF FreedOnce, Referring
<1>6. Alone'
  <2> SUFFICES ASSUME ~crossed' PROVE Alone'
    BY DEF Alone
  <2>1. ~crossed /\ Releasing = {}
    BY <1>1
  <2>2. \A v \in Users : stage'[v] = "more" => v = u
    BY <1>1, <2>1 DEF Releasing
  <2>3. stage'[u] = "more" => refs > 1
    BY <1>1, <1>3
  <2> QED
    BY <1>1, <1>2, <2>1, <2>2, <2>3 DEF Alone
<1> QED
  BY <1>4, <1>5, <1>6 DEF CountedInv

\* The flag alone.
LEMMA SetFlagKeeps == ASSUME CountedInv, NEW u \in Users, SetFlag(u) PROVE CountedInv'
BY DEF SetFlag, CountedInv, CountedTypes, FreedOnce, Alone, Using, Releasing

\* One fewer; whoever takes the last one has set the flag, unless two cross.
LEMMA DecrementKeeps == ASSUME CountedInv, NEW u \in Users, Decrement(u) PROVE CountedInv'
<1> USE DEF Decrement, Move
<1>1. CountedTypes /\ Alone /\ FreedOnce /\ ~touched /\ stage[u] \in {"one", "more"}
      /\ refs \in Nat /\ freed \in Nat /\ stage \in [Users -> Stages]
  BY DEF CountedInv, CountedTypes
<1>2. Referring' = Referring \ {u} /\ u \in Referring /\ u \in Releasing
      /\ Releasing' = Releasing \ {u}
  BY <1>1 DEF Referring, Using, Releasing
<1>3. refs > 0 /\ freed = 0 /\ refs = Cardinality(Referring)
  BY <1>1, <1>2, Referred
<1>4. refs' = refs - 1 /\ refs' = Cardinality(Referring')
  BY <1>1, <1>2, <1>3, ReferringFinite, Count
<1>5. freed' = Bit(refs = 1) /\ freed' \in Nat
  BY <1>3 DEF Bit
<1>6. CountedTypes'
  BY <1>1, <1>3, <1>4, <1>5 DEF CountedTypes, Stages
<1>7. FreedOnce'
  BY <1>1, <1>3, <1>4, <1>5 DEF FreedOnce, Referring, Bit
<1>8. Alone'
  <2> SUFFICES ASSUME ~crossed' PROVE Alone'
    BY DEF Alone
  <2>1. Releasing = {u} /\ Releasing' = {}
    BY <1>1, <1>2 DEF Alone
  <2>2. \A v \in Users : stage'[v] # "more"
    BY <2>1 DEF Releasing
  <2>3. freed' > 0 => flag'
    BY <1>1, <1>5 DEF Alone, Bit
  <2> QED
    BY <2>1, <2>2, <2>3 DEF Alone
<1> QED
  BY <1>6, <1>7, <1>8 DEF CountedInv

\* No step breaks the second half.
LEMMA StepCounted == ASSUME CountedInv, [Next]_vars PROVE CountedInv'
<1>1. CASE \E u \in Users : Share(u) \/ Upgrade(u) \/ Look(u) \/ SetFlag(u) \/ Decrement(u)
  BY <1>1, ShareKeeps, UpgradeKeeps, LookKeeps, SetFlagKeeps, DecrementKeeps
<1>2. ASSUME UNCHANGED counted PROVE CountedInv'
  BY <1>2 DEF counted, CountedInv, CountedTypes, FreedOnce, Alone, Using, Releasing
<1>3. CASE \E n \in Natives : AddRef(n)
  BY <1>2, <1>3 DEF AddRef
<1>4. CASE \E s \in Scripts : CopyHandle(s)
  BY <1>2, <1>4 DEF CopyHandle
<1>5. CASE \E h \in Holders :
             AddObjRef(h) \/ ReleaseObj(h) \/ CountDown(h) \/ DeleteIfZero(h)
  BY <1>2, <1>5 DEF AddObjRef, ReleaseObj, CountDown, DeleteIfZero
<1>6. CASE UNCHANGED vars
  BY <1>2, <1>6 DEF vars
<1> QED
  BY <1>1, <1>3, <1>4, <1>5, <1>6 DEF Next

-----------------------------------------------------------------------------
(* The theorems.                                                           *)

\* as_refcountedobj.cpp:20-58: the counts are exact and nothing is released
\* before its time, for any holders and users.
THEOREM CountsInvariant == Spec => []IInv
<1>1. Init => IInv
  BY InitProxy, InitCounted DEF IInv
<1>2. IInv /\ [Next]_vars => IInv'
  BY StepProxy, StepCounted DEF IInv
<1> QED
  BY <1>1, <1>2, PTL DEF Spec

\* No count goes below zero: every variable keeps its type.
THEOREM CountsTypeCorrect == Spec => []TypeOK
<1>1. IInv => TypeOK
  BY DEF IInv, ProxyInv, ProxyTypes, CountedInv, CountedTypes, TypeOK
<1> QED
  BY <1>1, CountsInvariant, PTL

\* as_refcountedobj.cpp:20-40: the native object is not deleted while a script
\* has a handle of its script object or anybody a reference to it.
THEOREM ProxyNotTooSoon == Spec => []NotTooSoon
<1>1. IInv => NotTooSoon
  <2> SUFFICES ASSUME ProxyInv, deleted > 0 PROVE NotTooSoon
    BY DEF IInv, NotTooSoon
  <2>1. Own = {} /\ ~Handle
    BY Someone DEF ProxyInv, Deletes
  <2>2. objRefs = 0 /\ dead /\ In({"in"}) = {} /\ In({"destroys"}) = {}
    BY <2>1, Someone DEF Handle, ProxyInv, ProxyTypes, Handles
  <2>3. In({"added", "unproxied"}) = {}
    BY <2>1 DEF ProxyInv, Kinds, Own, In, Holders
  <2> QED
    BY <2>2, <2>3 DEF NotTooSoon, In
<1> QED
  BY <1>1, CountsInvariant, PTL

\* as_refcountedobj.cpp:36: it is deleted once everybody has gone, and again only
\* if two releases overlapped.
THEOREM ProxyDeletedOnce == Spec => []DeletedOnce
<1>1. IInv => DeletedOnce
  <2> SUFFICES ASSUME ProxyInv PROVE DeletedOnce
    BY DEF IInv
  <2>1. ASSUME In(Places \ {"out"}) = {} PROVE deleted > 0
    <3>1. In({"in"}) = {} /\ In({"destroys"}) = {} /\ Own = {} /\ Late = {}
      BY <2>1 DEF In, Own, Late, Places
    <3>2. objRefs = 0 /\ ~Handle
      BY <3>1, Someone DEF Handle, ProxyInv, ProxyTypes
    <3> QED
      BY <3>1, <3>2, Someone DEF ProxyInv, Deletes
  <2>2. deleted > 1 => overlapped
    BY DEF ProxyInv, ProxyTypes, Deletes
  <2> QED
    BY <2>1, <2>2 DEF DeletedOnce
<1> QED
  BY <1>1, CountsInvariant, PTL

\* as_refcountedobj.cpp:47-58: the other kind is deleted once, with the last
\* reference; a weak one finds it deleted only after two releases at a time.
THEOREM ObjectFreedOnce == Spec => []FreedOnce
<1>1. IInv => FreedOnce
  BY DEF IInv, CountedInv
<1> QED
  BY <1>1, CountsInvariant, PTL

\* Together: the native object goes with its last reference, and twice only in the
\* race of as_refcountedobj.cpp:36.
THEOREM ProxiesSafe == Spec => []ProxySafe
<1>1. TypeOK /\ NotTooSoon /\ DeletedOnce => ProxySafe
  BY DEF ProxySafe
<1> QED
  BY CountsTypeCorrect, ProxyNotTooSoon, ProxyDeletedOnce, <1>1, PTL
=============================================================================
