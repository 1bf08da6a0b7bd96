----------------------------- MODULE ContextPool -----------------------------
(***************************************************************************)
(* The pool of script contexts of as_manager.cpp: an array of contexts and *)
(* an array of in-use bytes, both reallocated when every context is in     *)
(* use.  Taking a context is done under a mutex; looking up its address    *)
(* and giving it back are not, so they may meet a reallocation half way.   *)
(*                                                                         *)
(* Memory is counted in generations: an array lives in generation `lives', *)
(* while the pointer to it may still have an older one.  Who goes through  *)
(* an older one uses memory that has been freed: a lookup finds anything,  *)
(* and a byte that is cleared may be one of the live array, which may have *)
(* got that memory.  What else it spoils is not modelled.                  *)
(***************************************************************************)
EXTENDS Naturals, FiniteSets

CONSTANTS
    Threads,   \* whoever runs scripts: workers, tick thread, main thread
    InitCount, \* 32 in the code
    MaxCount,  \* bounds the growth
    None

ASSUME ContextAssumption ==
    /\ IsFiniteSet(Threads)
    /\ InitCount \in Nat \ {0} /\ MaxCount \in Nat /\ None \notin Threads

VARIABLES
    count,  \* ctx_count
    used,   \* the indices whose byte in the live in-use array is set
    ctxs,   \* pContextArray: generations of the memory and of the pointer
    uses,   \* pInUseArray, likewise
    mtx,    \* the thread in the critical section, or None
    at,     \* where each thread is
    idx,    \* the index it has got
    ptr,    \* the generation of the pointer it has loaded
    ctx,    \* the context it runs on: the number of one of the pool, or None
    astray  \* threads that have used freed memory

cvars == <<count, used, ctxs, uses, mtx, at, idx, ptr, ctx, astray>>

Array == [lives : Nat, pointer : Nat]
Places == {"idle", "scan", "moved", "copied", "lookup", "deref", "run",
           "giveback", "returned"}
\* The places from which a thread has an index, up to its return.
Holding == {"lookup", "deref", "run", "giveback"}
Holders == {t \in Threads : at[t] \in Holding}

ContextTypeOK ==
    /\ count \in Nat \ {0} /\ used \subseteq 0 .. count - 1
    /\ ctxs \in Array /\ uses \in Array
    /\ mtx \in Threads \cup {None} /\ astray \subseteq Threads
    /\ at \in [Threads -> Places] /\ idx \in [Threads -> Nat]
    /\ ptr \in [Threads -> Nat] /\ ctx \in [Threads -> Nat \cup {None}]

ContextInit ==
    /\ count = InitCount /\ used = {}
    /\ ctxs = [lives |-> 0, pointer |-> 0] /\ uses = ctxs
    /\ mtx = None /\ astray = {}
    /\ at = [t \in Threads |-> "idle"]
    /\ idx = [t \in Threads |-> 0] /\ ptr = [t \in Threads |-> 0]
    /\ ctx = [t \in Threads |-> None]

Goto(t, from, to) == at[t] = from /\ at' = [at EXCEPT ![t] = to]

Unused == (0 .. count - 1) \ used

\* Reallocation, which may move the memory, and the assignment of what it
\* returns are two things.
Moved(array) ==
    {array, [lives |-> array.lives + 1, pointer |-> array.pointer]}
Assigned(array) == [lives |-> array.lives, pointer |-> array.lives]

-----------------------------------------------------------------------------
(* Variants of the definitions below, each with a bug it could have had.   *)

\* The byte is not set.
FindUnmarked(t) ==
    /\ Goto(t, "scan", "lookup")
    /\ \E i \in Unused :
         /\ \A j \in Unused : i <= j
         /\ idx' = [idx EXCEPT ![t] = i]
    /\ mtx' = None
    /\ UNCHANGED <<count, used, ctxs, uses, ptr, ctx, astray>>

-----------------------------------------------------------------------------
\* ASContextPool_GetFreeContextIndex: take the mutex, and the first byte
\* that is zero.
Lock(t) ==
    /\ Goto(t, "idle", "scan") /\ mtx = None /\ mtx' = t
    /\ UNCHANGED <<count, used, ctxs, uses, idx, ptr, ctx, astray>>

Find(t) ==
    /\ Goto(t, "scan", "lookup")
    /\ \E i \in Unused :
         /\ \A j \in Unused : i <= j
         /\ used' = used \cup {i} /\ idx' = [idx EXCEPT ![t] = i]
    /\ mtx' = None
    /\ UNCHANGED <<count, ctxs, uses, ptr, ctx, astray>>

MoveContexts(t) ==
    /\ Goto(t, "scan", "moved") /\ Unused = {} /\ 2 * count <= MaxCount
    /\ ctxs' \in Moved(ctxs)
    /\ UNCHANGED <<count, used, uses, mtx, idx, ptr, ctx, astray>>

CopyUses(t) ==
    /\ Goto(t, "moved", "copied") /\ ctxs' = Assigned(ctxs)
    /\ uses' \in Moved(uses)
    /\ UNCHANGED <<count, used, mtx, idx, ptr, ctx, astray>>

\* The first of the new contexts is this thread's.
Grow(t) ==
    /\ Goto(t, "copied", "lookup") /\ uses' = Assigned(uses)
    /\ used' = used \cup {count} /\ idx' = [idx EXCEPT ![t] = count]
    /\ count' = 2 * count /\ mtx' = None
    /\ UNCHANGED <<ctxs, ptr, ctx, astray>>

\* ASContextPool_GetContextAt: load the pointer, then the element.  It would
\* return no context for an index beyond ctx_count.
LoadContexts(t) ==
    /\ Goto(t, "lookup", "deref") /\ idx[t] <= count
    /\ ptr' = [ptr EXCEPT ![t] = ctxs.pointer]
    /\ UNCHANGED <<count, used, ctxs, uses, mtx, idx, ctx, astray>>

\* What a lookup through freed memory finds.
Anything == 0 .. count - 1 \cup {None}

LookUp(t) ==
    /\ Goto(t, "deref", "run")
    /\ \/ /\ ptr[t] = ctxs.lives /\ ctx' = [ctx EXCEPT ![t] = idx[t]]
          /\ UNCHANGED astray
       \/ /\ ptr[t] # ctxs.lives /\ \E c \in Anything : ctx' = [ctx EXCEPT ![t] = c]
          /\ astray' = astray \cup {t}
    /\ UNCHANGED <<count, used, ctxs, uses, mtx, idx, ptr>>

\* ASContextPool_ReturnContextByIndex: load the pointer, then clear the byte,
\* or through a pointer out of date any byte, of the array (below `count') or not.
LoadUses(t) ==
    /\ Goto(t, "run", "giveback") /\ ptr' = [ptr EXCEPT ![t] = uses.pointer]
    /\ UNCHANGED <<count, used, ctxs, uses, mtx, idx, ctx, astray>>

GiveBack(t) ==
    /\ Goto(t, "giveback", "returned")
    /\ \/ /\ ptr[t] = uses.lives /\ used' = used \ {idx[t]}
          /\ UNCHANGED astray
       \/ /\ ptr[t] # uses.lives /\ \E i \in 0 .. count : used' = used \ {i}
          /\ astray' = astray \cup {t}
    /\ ctx' = [ctx EXCEPT ![t] = None]
    /\ UNCHANGED <<count, ctxs, uses, mtx, idx, ptr>>

\* The end of a callback.
Done(t) ==
    /\ Goto(t, "returned", "idle")
    /\ UNCHANGED <<count, used, ctxs, uses, mtx, idx, ptr, ctx, astray>>

UseContext(t) ==
    \/ Find(t) \/ MoveContexts(t) \/ CopyUses(t) \/ Grow(t)
    \/ LoadContexts(t) \/ LookUp(t) \/ LoadUses(t) \/ GiveBack(t)

ContextNext == \E t \in Threads : Lock(t) \/ UseContext(t) \/ Done(t)
ContextSpec == ContextInit /\ [][ContextNext]_cvars

-----------------------------------------------------------------------------
\* The arrays are being reallocated.
Growing == \E t \in Threads : at[t] \in {"moved", "copied"}

\* as_manager.cpp:630-662: as long as no unlocked step has met freed memory, no
\* context is used by two threads, each runs on the one it has taken, and the
\* contexts marked as in use are those that somebody has: none is lost.
OneUser ==
    astray = {} =>
        /\ \A t, u \in Holders : t # u => idx[t] # idx[u]
        /\ \A t \in Holders : at[t] \in {"run", "giveback"} => ctx[t] = idx[t]
        /\ used = {idx[t] : t \in Holders}

\* A thread whose next access goes through a pointer that is out of date.
OutOfDate(t) ==
    \/ at[t] = "deref" /\ ptr[t] # ctxs.lives
    \/ at[t] = "giveback" /\ ptr[t] # uses.lives

\* as_manager.cpp:621, 627, 641-643: freed memory is used only by threads that
\* overlap with a growth and have a context that was there before it.  Who has
\* got one that the last growth made, the thread that grew among them, does
\* not; and if it has happened, an array has moved.
StraysOld ==
    /\ \A t \in Threads : OutOfDate(t) => Growing \/ 2 * idx[t] < count
    /\ astray # {} => ctxs.lives > 0 \/ uses.lives > 0

\* as_manager.cpp:83: with no more threads than contexts to begin with, the
\* arrays never move, no lookup meets freed memory, and none is lost.
EnoughContexts ==
    Cardinality(Threads) <= InitCount =>
        count = InitCount /\ ctxs.lives = 0 /\ astray = {}
          /\ used = {idx[t] : t \in Holders}

\* as_manager.cpp:618: the test lets the index ctx_count pass, but no index
\* that a thread holds reaches it, astray or not.
IndexInRange == \A t \in Holders : idx[t] < count

\* as_manager.cpp:586-662: contexts are used by one thread each and within the
\* arrays until somebody uses freed memory, and who may do that is bounded.
ContextsSafe == ContextTypeOK /\ OneUser /\ StraysOld /\ IndexInRange
=============================================================================
