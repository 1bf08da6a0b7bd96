-------------------------------- MODULE PrioQ --------------------------------
(***************************************************************************)
(* The binary heap of prioq.c, which orders the thread pool's tasks and    *)
(* the server's timed tasks.  Its callers serialize the operations.        *)
(*                                                                         *)
(* The array is a sequence of the nodes in use, so index i of the code is  *)
(* i + 1 here and the node of an index i has the children 2i and 2i + 1.   *)
(* A node moves up or down the heap in a loop, of which one round is one   *)
(* step; the operation returns when the loop has ended.                    *)
(***************************************************************************)
EXTENDS Integers, Sequences, SequencesExt

CONSTANTS
  Keys,         \* the keys, some of the time_t values
  Items,        \* what is put in the queue: void *data
  InitLen,      \* the len given to prioq_create
  MaxLen,       \* bound on the nodes in the queue
  WordMod       \* how many values a size_t has

ASSUME KeyAssumption == Keys \subseteq Int

ASSUME LenAssumption == InitLen \in Nat /\ MaxLen \in Nat

ASSUME RoomAssumption == WordMod \in Nat /\ 4 * (MaxLen + InitLen + 1) < WordMod

K == 2          \* PARAMETER_K

VARIABLES
  array,        \* the nodes array[0] to array[len - 1]
  capacity,
  out,          \* the node the last extraction returned, in a set, if it did
  way,          \* where a node moves: "up", "down", or "none" does
  at            \* the place of that node

hvars == <<array, capacity, out, way, at>>

Node == [key : Keys, data : Items]

\* size_t arithmetic wraps around.
Sub(m, n) == (m - n) % WordMod

-----------------------------------------------------------------------------
(* Variants of the definitions below, each with a bug it could have had.   *)

\* The right child is compared with the node and not with the smaller one.
SmallestOfTwo(a, i) ==
  LET l == IF 2 * i <= Len(a) /\ a[i].key > a[2 * i].key THEN 2 * i ELSE i
  IN IF 2 * i + 1 <= Len(a) /\ a[i].key > a[2 * i + 1].key THEN 2 * i + 1 ELSE l

\* Two nodes are exchanged without the temporary copy.
SwapLoses(a, i, j) == [a EXCEPT ![i] = a[j]]

-----------------------------------------------------------------------------
(* The helpers.                                                            *)

Swap(a, i, j) == [a EXCEPT ![i] = a[j], ![j] = a[i]]

\* The left child unless it is not smaller than the node, then the right one if
\* it is smaller still.
Smallest(a, i) ==
  LET l == IF 2 * i <= Len(a) /\ a[i].key > a[2 * i].key THEN 2 * i ELSE i
  IN IF 2 * i + 1 <= Len(a) /\ a[l].key > a[2 * i + 1].key THEN 2 * i + 1 ELSE l

\* What insertion and extraction make of the capacity.
Grown(len)  == IF len = capacity THEN (2 * capacity + K) % WordMod ELSE capacity
Shrunk(len) == IF len < Sub(capacity \div 2, K) THEN capacity \div 2 + K ELSE capacity

-----------------------------------------------------------------------------
(* The operations.                                                         *)

\* prioq_create
HeapInit ==
  /\ array = <<>> /\ capacity = 2 * InitLen /\ out = {}
  /\ way = "none" /\ at = 1

\* A loop begins with the node at i, which is at i afterwards, or ends.
Moves(w, i) == way' = w /\ at' = i
Rests == Moves("none", 1)

\* prioq_min_insert: the node is put behind the others.
MinInsert(k, d) ==
  /\ way = "none" /\ Len(array) < MaxLen
  /\ \A i \in DOMAIN array : array[i].data # d
  /\ capacity' = Grown(Len(array))
  /\ array' = Append(array, [key |-> k, data |-> d])
  /\ Moves("up", Len(array) + 1)
  /\ out' = {}

\* The loop of prioq_DecreaseKey: up, while its parent has a greater key.
DecreaseKey ==
  /\ way = "up"
  /\ IF at > 1 /\ array[at \div 2].key > array[at].key
     THEN array' = Swap(array, at, at \div 2) /\ Moves("up", at \div 2)
     ELSE Rests /\ UNCHANGED array
  /\ UNCHANGED <<capacity, out>>

\* prioq_extract_min and prioq_extract_min_node: the last node takes the place
\* of the first, the array may shrink, and the node moves down.
ExtractMin ==
  /\ way = "none" /\ array # <<>>
  /\ out' = {array[1]}
  /\ capacity' = Shrunk(Len(array) - 1)
  /\ array' = Front(Swap(array, 1, Len(array)))
  /\ Moves("down", 1)

\* The loop of min_heapify_it.
Heapify ==
  /\ way = "down"
  /\ LET s == Smallest(array, at)
     IN IF at <= Len(array) /\ s # at
        THEN array' = Swap(array, at, s) /\ Moves("down", s)
        ELSE Rests /\ UNCHANGED array
  /\ UNCHANGED <<capacity, out>>

\* Of an empty queue they return null, or a node of zeroes.
ExtractNothing ==
  /\ way = "none" /\ array = <<>>
  /\ out' = {}
  /\ UNCHANGED <<array, capacity, way, at>>

HeapNext ==
  \/ \E k \in Keys, d \in Items : MinInsert(k, d)
  \/ DecreaseKey \/ ExtractMin \/ Heapify \/ ExtractNothing

HeapSpec == HeapInit /\ [][HeapNext]_hvars

-----------------------------------------------------------------------------
(* Properties.                                                             *)

\* Every variable keeps its type, the array fits in the memory it has, and the
\* capacity never wraps around.
HeapTypeOK ==
  /\ array \in Seq(Node)
  /\ capacity \in 0..(WordMod - 1)
  /\ Len(array) <= capacity
  /\ out \subseteq Node
  /\ way \in {"none", "up", "down"} /\ at \in 1..(Len(array) + 1)

\* No node has a smaller key than its parent, when an operation has returned.
IsHeap ==
  way = "none" => \A i \in 2..Len(array) : array[i \div 2].key <= array[i].key

\* prioq.c:61-247: sifting up and down leaves a heap behind, in an array that has
\* room for it, through every growth and shrinking.
HeapSound == HeapTypeOK /\ IsHeap

Entries == INSTANCE PriorityQueue WITH entries <- ToSet(array)

\* Extraction returns a least node and none is lost or returned twice.
ImplementsPriorityQueue == Entries!Spec
=============================================================================
