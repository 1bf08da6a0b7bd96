------------------------------ MODULE AllocPool ------------------------------
(***************************************************************************)
(* AllocPool (poolalloc.c): elements of one size, in blocks of growing     *)
(* size, the free ones chained through their own first word.  Every        *)
(* operation is one critical section of pool_mutex, so one step.           *)
(*                                                                         *)
(* An element is its number: the blocks follow each other, and element c   *)
(* of the pool is the c-th of them.                                        *)
(***************************************************************************)
EXTENDS Integers, FiniteSets

CONSTANTS
  InitCount,    \* element_count of AllocPool_Init
  Data,         \* what users write to the first word of an element
  Null,
  MaxOwned      \* bound on the elements users hold at once

ASSUME CountAssumption == InitCount \in Nat \ {0} /\ MaxOwned \in Nat

ASSUME WordAssumption == Null \notin Int /\ Data \cap (Int \cup {Null}) = {}

VARIABLES
  element_count,
  block_count,
  headnode,     \* the first free element
  word,         \* the first word of each element: nextinplacenode, or user data
  owned         \* the elements users hold

avars == <<element_count, block_count, headnode, word, owned>>

Elements == 1..element_count

\* PoolMemBlock_Init: elements first..last, chained in order.
Chain(first, last) == [c \in first..last |-> IF c = last THEN Null ELSE c + 1]

\* AllocPool_Init
AllocInit ==
  /\ element_count = InitCount
  /\ block_count = 1
  /\ word = Chain(1, InitCount)
  /\ headnode = 1
  /\ owned = {}

-----------------------------------------------------------------------------
(* Variants of the operations, each with a bug it could have had.          *)

\* headnode starts with the second element of the new block.
AllocSkipsFirst ==
  /\ Cardinality(owned) < MaxOwned
  /\ owned' = owned \cup {headnode}
  /\ IF word[headnode] # Null
     THEN /\ headnode' = word[headnode]
          /\ UNCHANGED <<element_count, block_count, word>>
     ELSE /\ element_count' = 3 * element_count
          /\ block_count' = block_count + 1
          /\ word' = [c \in 1..element_count' |->
                        IF c <= element_count THEN word[c]
                        ELSE Chain(element_count + 1, element_count')[c]]
          /\ headnode' = element_count + 2

\* AllocPool_AddBlock chains the old elements again with the new ones.
AllocRechains ==
  /\ Cardinality(owned) < MaxOwned
  /\ owned' = owned \cup {headnode}
  /\ IF word[headnode] # Null
     THEN /\ headnode' = word[headnode]
          /\ UNCHANGED <<element_count, block_count, word>>
     ELSE /\ element_count' = 3 * element_count
          /\ block_count' = block_count + 1
          /\ word' = Chain(1, element_count')
          /\ headnode' = element_count + 1

\* The link goes to the wrong end: the head is chained to the freed element.
FreeReversed(c) ==
  /\ c \in owned
  /\ owned' = owned \ {c}
  /\ word' = [word EXCEPT ![headnode] = c]
  /\ headnode' = c
  /\ UNCHANGED <<element_count, block_count>>

-----------------------------------------------------------------------------
(* The operations.                                                         *)

\* AllocPool_Alloc: take the first free element; if that was the last one,
\* AllocPool_AddBlock adds a block of twice the elements there are.
Alloc ==
  /\ Cardinality(owned) < MaxOwned
  /\ owned' = owned \cup {headnode}
  /\ IF word[headnode] # Null
     THEN /\ headnode' = word[headnode]
          /\ UNCHANGED <<element_count, block_count, word>>
     ELSE /\ element_count' = 3 * element_count
          /\ block_count' = block_count + 1
          /\ word' = [c \in 1..element_count' |->
                        IF c <= element_count THEN word[c]
                        ELSE Chain(element_count + 1, element_count')[c]]
          /\ headnode' = element_count + 1

\* AllocPool_Free
Free(c) ==
  /\ c \in owned
  /\ owned' = owned \ {c}
  /\ word' = [word EXCEPT ![c] = headnode]
  /\ headnode' = c
  /\ UNCHANGED <<element_count, block_count>>

\* The user of an element overwrites it, its link included, at any time.
Write(c) ==
  /\ c \in owned
  /\ \E d \in Data : word' = [word EXCEPT ![c] = d]
  /\ UNCHANGED <<element_count, block_count, headnode, owned>>

AllocNext == Alloc \/ \E c \in owned : Free(c) \/ Write(c)

AllocSpec == AllocInit /\ [][AllocNext]_avars

-----------------------------------------------------------------------------
(* Properties.                                                             *)

\* Every variable keeps its type; a word holds a link or user data.
AllocTypeOK ==
  /\ element_count \in Nat \ {0}
  /\ block_count \in Nat \ {0}
  /\ headnode \in Elements
  /\ word \in [Elements -> Elements \cup {Null} \cup Data]
  /\ owned \subseteq Elements

Unowned == Elements \ owned

\* The list never leads into an element a user holds, and no two of its
\* links meet: the first word of what Alloc takes is a link, and what it
\* leads to is not handed out yet.
Links ==
  /\ headnode \in Unowned
  /\ \A c \in Unowned : word[c] \in Unowned \cup {Null}
  /\ \A c \in Unowned : word[c] # headnode
  /\ \A c, d \in Unowned : word[c] = word[d] /\ word[c] # Null => c = d

\* poolalloc.c:127-188: the list of free elements and the elements in use are
\* apart, whatever users have written where the links used to be.
FreeListSound == AllocTypeOK /\ Links

\* The elements on the list after n links.
Listed ==
  LET list[n \in 0..element_count] ==
        IF n = 0 THEN {headnode}
        ELSE list[n - 1] \cup {word[c] : c \in list[n - 1] \cap Elements}
  IN list[element_count] \cap Elements

\* poolalloc.c:142-188: no sequence of operations loses an element.  The list holds
\* every element no user holds, so the pool grows only when it has none left.
NoLeak == Listed = Unowned

\* What users rely on, whatever the operations of other users are.
Users == INSTANCE Allocator WITH content <- [c \in owned |-> word[c]]

ImplementsAllocator == Users!Spec
=============================================================================
