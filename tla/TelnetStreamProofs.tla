-------------------------- MODULE TelnetStreamProofs --------------------------
(***************************************************************************)
(* Proofs about what a client gets to read, and about what becomes of what *)
(* it says, for any number of threads and messages, whatever the peer says *)
(* and however it is cut.                                                  *)
(***************************************************************************)
EXTENDS TelnetStream, FiniteSetTheorems, SequenceTheorems, WellFoundedInduction, TLAPS

\* What the proofs need of the types.
WriteTypes ==
    /\ wr \in [Threads -> [at : {"idle", "lock", "send", "rest"}, zip : BOOLEAN]]
    /\ mccp2 \in BOOLEAN /\ hears \in {"plain", "zip"}
    /\ partial \in Threads \cup {None}

\* Unless it has been unlocked for another thread, the mutex belongs to whoever
\* sends, and to the thread whose message has arrived in part.
Owned ==
    "robbed" \notin quirks =>
        /\ \A t \in Inside : lock = t
        /\ partial # None => partial \in Inside

\* The peer has heard of compression when the announcement has been sent, and a
\* message that is being sent is as the peer reads it.
Announced ==
    /\ hears = "zip" \/ pc = "announce" => mccp2
    /\ mccp2 /\ pc # "announce" => hears = "zip"
    /\ "overlap" \notin quirks =>
         /\ pc = "announce" => Inside = {}
         /\ \A t \in Inside : wr[t].zip <=> hears = "zip"

IInv == WriteTypes /\ Owned /\ Announced /\ Readable

\* Nothing is sent at first.
LEMMA InitInv == Init => IInv
<1> SUFFICES ASSUME Init PROVE IInv
  OBVIOUS
<1>1. Inside = {}
  BY DEF Init, Inside, NoWrite
<1>2. WriteTypes
  BY DEF Init, WriteTypes, NoWrite
<1> QED
  BY <1>1, <1>2 DEF Init, IInv, Owned, Announced, Readable

\* What neither sends, nor locks, nor turns compression on disturbs nothing.
LEMMA Quiet ==
    ASSUME IInv, UNCHANGED <<writing, mccp2, out>>, quirks \subseteq quirks',
           pc' = "announce" <=> pc = "announce"
    PROVE  IInv'
BY DEF IInv, WriteTypes, Owned, Announced, Readable, Inside, writing, out

\* The input task, up to its commands, and the peer are quiet.
LEMMA QuietStep ==
    ASSUME IInv,
           \/ \E m \in Messages : PeerSends(m)
           \/ PeerCloses \/ (\E n \in 1 .. ReadSize : Read(n)) \/ ReadEnd \/ TooFast
           \/ ScanEmpty \/ ScanPlain \/ ScanZip \/ DecodeFails \/ Spin
           \/ Rearm \/ Disconnect
    PROVE  IInv'
<1>1. ASSUME NEW m \in Messages, PeerSends(m) PROVE IInv'
  BY <1>1, Quiet DEF PeerSends, automaton
<1>2. ASSUME PeerCloses \/ ReadEnd \/ TooFast PROVE IInv'
  BY <1>2, Quiet DEF PeerCloses, ReadEnd, TooFast, automaton
<1>3. ASSUME NEW n \in 1 .. ReadSize, Read(n) PROVE IInv'
  <2>1. pc' # "announce" /\ pc # "announce"
    BY <1>3 DEF Read
  <2> QED
    BY <1>3, <2>1, Quiet DEF Read, automaton
<1>4. ASSUME ScanEmpty \/ ScanPlain \/ ScanZip PROVE IInv'
  <2>1. pc' # "announce" /\ pc # "announce" /\ quirks \subseteq quirks'
    BY <1>4 DEF ScanEmpty, ScanPlain, ScanZip, Scan
  <2> QED
    BY <1>4, <2>1, Quiet DEF ScanEmpty, ScanPlain, ScanZip, automaton
<1>5. ASSUME DecodeFails \/ Spin \/ Rearm \/ Disconnect PROVE IInv'
  BY <1>5, Quiet DEF DecodeFails, Spin, Rearm, Disconnect, automaton
<1> QED
  BY <1>1, <1>2, <1>3, <1>4, <1>5

\* Bytes of the automaton are quiet but for commands of three bytes.
LEMMA ByteStep ==
    ASSUME IInv, NEW x, InputByte(x) \/ IacByte(x) \/ SbByte(x) \/ SeByte(x) \/ NulByte
    PROVE  IInv'
<1>1. pc = "scan" /\ pc' # "announce" /\ quirks' = quirks
  BY DEF InputByte, IacByte, SbByte, SeByte, NulByte, Took, Takes
<1>2. UNCHANGED <<writing, mccp2, out>>
  BY DEF InputByte, IacByte, SbByte, SeByte, NulByte, Took
<1> QED
  BY <1>1, <1>2, Quiet

\* The agreement to compress, its announcement, and the other commands.
LEMMA CommandStep ==
    ASSUME IInv, NEW x, CmdMCCP2(x) \/ Announce \/ CmdByte(x)
    PROVE  IInv'
<1> USE DEF IInv, WriteTypes, Owned, Announced, Readable, Inside, writing
<1>1. CASE CmdMCCP2(x)
  <2>1. pc' = "announce" /\ mccp2' = TRUE /\ UNCHANGED <<writing, out>>
        /\ quirks' = quirks \cup (IF Inside # {} THEN {"overlap"} ELSE {})
    BY <1>1 DEF CmdMCCP2
  <2>2. CASE Inside = {}
    BY <2>1, <2>2 DEF out
  <2>3. CASE Inside # {}
    BY <2>1, <2>3 DEF out
  <2> QED
    BY <2>2, <2>3
<1>2. CASE Announce
  BY <1>2 DEF Announce, automaton
<1>3. CASE CmdByte(x)
  <2>1. pc = "scan" /\ pc' # "announce" /\ UNCHANGED <<writing, mccp2, hears, partial>>
    BY <1>3 DEF CmdByte, Takes
  <2>2. faults' = IF Answers(x) /\ hears = "zip" THEN faults \cup {"raw"} ELSE faults
    BY <1>3 DEF CmdByte
  <2>3. quirks' = IF Answers(x) /\ mccp2 THEN quirks \cup {"answer"} ELSE quirks
    BY <1>3 DEF CmdByte
  <2>4. Readable'
    BY <2>2, <2>3
  <2>5. Owned' /\ Announced' /\ WriteTypes'
    BY <2>1, <2>3
  <2> QED
    BY <2>4, <2>5
<1> QED
  BY <1>1, <1>2, <1>3

\* Writes: a call, the mutex, and the two pieces.
LEMMA WriteStep ==
    ASSUME IInv, NEW t \in Threads, Call(t) \/ Write(t)
    PROVE  IInv'
<1> USE DEF IInv, WriteTypes
<1>1. CASE Call(t)
  <2>1. wr' = [wr EXCEPT ![t] = [at |-> "lock", zip |-> mccp2]] /\ wr[t].at = "idle"
    BY <1>1 DEF Call
  <2>2. WriteTypes' /\ Inside' = Inside /\ \A u \in Inside : wr'[u] = wr[u]
    BY <1>1, <2>1 DEF Call, Inside, automaton, out
  <2>3. pc' = "announce" <=> pc = "announce"
    BY <1>1 DEF Call
  <2>4. UNCHANGED <<lock, mccp2, out, quirks>>
    BY <1>1 DEF Call, automaton
  <2> QED
    BY <2>2, <2>3, <2>4 DEF Owned, Announced, Readable, out
<1>2. CASE Lock(t)
  <2>1. wr' = [wr EXCEPT ![t] = [at |-> "send", zip |-> mccp2]] /\ wr[t].at = "lock"
        /\ lock = None /\ lock' = t
    BY <1>2 DEF Lock, Lockable, Chosen
  <2>2. WriteTypes' /\ Inside' = Inside \cup {t} /\ wr'[t].zip = mccp2
        /\ \A u \in Inside : wr'[u] = wr[u]
    BY <1>2, <2>1 DEF Lock, Inside, automaton, out
  <2>3. UNCHANGED <<pc, mccp2, out>>
        /\ quirks' = IF pc = "announce" THEN quirks \cup {"overlap"} ELSE quirks
    BY <1>2 DEF Lock, automaton
  <2>4. None \notin Threads
    BY TelnetAssumption DEF Threads
  <2>5. Inside \subseteq Threads
    BY DEF Inside
  <2>6. Owned'
    BY <2>1, <2>2, <2>3, <2>4, <2>5 DEF Owned, out
  <2>7. Announced' /\ Readable'
    BY <2>2, <2>3 DEF Announced, Readable, out
  <2> QED
    BY <2>2, <2>6, <2>7
<1>3. ASSUME t \in Inside, Arrives(t), quirks' = quirks PROVE Readable'
  <2>1. "mixed" \in faults' /\ "mixed" \notin faults => "robbed" \in quirks
    BY <1>3 DEF Arrives, Owned
  <2>2. faults' \cap {"early", "late"} # {} /\ faults \cap {"early", "late"} = {}
          => "overlap" \in quirks
    BY <1>3 DEF Arrives, Announced
  <2>3. "raw" \in faults' => "raw" \in faults
    BY <1>3 DEF Arrives
  <2> QED
    BY <1>3, <2>1, <2>2, <2>3 DEF Readable
<1>4. CASE Send(t)
  <2>1. t \in Inside /\ Arrives(t) /\ partial' = t
        /\ UNCHANGED <<pc, mccp2, hears, lock, quirks>>
    BY <1>4 DEF Send, Inside, automaton
  <2>2. WriteTypes' /\ Inside' = Inside /\ \A u \in Inside : wr'[u].zip = wr[u].zip
    BY <1>4, <2>1 DEF Send, Inside
  <2>3. Owned' /\ Announced'
    BY <2>1, <2>2 DEF Owned, Announced
  <2> QED
    BY <1>3, <2>1, <2>2, <2>3
<1>5. CASE Rest(t)
  <2>1. t \in Inside /\ Arrives(t) /\ partial' = None /\ lock' = None
        /\ UNCHANGED <<pc, mccp2, hears, quirks>>
    BY <1>5 DEF Rest, Inside, Unlocked, automaton
  <2>2. WriteTypes' /\ Inside' = Inside \ {t} /\ \A u \in Inside' : wr'[u] = wr[u]
    BY <1>5, <2>1 DEF Rest, Inside, NoWrite
  <2>3. Owned' /\ Announced'
    BY <2>1, <2>2 DEF Owned, Announced
  <2> QED
    BY <1>3, <2>1, <2>2, <2>3
<1> QED
  BY <1>1, <1>2, <1>4, <1>5 DEF Write

\* The end of a task unlocks the mutex: for another thread, if one had locked it.
LEMMA PassStep == ASSUME IInv, PassOn PROVE IInv'
<1>1. pc = "scan" /\ pc' # "announce" /\ UNCHANGED <<wr, mccp2, out>> /\ lock' = None
      /\ quirks' = IF lock # None THEN quirks \cup {"robbed"} ELSE quirks
  BY DEF PassOn, automaton
<1>2. None \notin Threads /\ Inside \subseteq Threads
  BY TelnetAssumption DEF Threads, Inside
<1>3. Owned'
  BY <1>1, <1>2 DEF IInv, Owned, Inside, out
<1>4. WriteTypes' /\ Announced' /\ Readable'
  BY <1>1 DEF IInv, WriteTypes, Announced, Readable, Inside, out
<1> QED
  BY <1>3, <1>4 DEF IInv

\* Every step keeps the invariant.
LEMMA StepInv == IInv /\ [Next]_vars => IInv'
<1> SUFFICES ASSUME IInv, [Next]_vars PROVE IInv'
  OBVIOUS
<1>1. CASE UNCHANGED vars
  BY <1>1, Quiet DEF vars, automaton
<1>2. CASE InputTask
  <2>1. CASE ProcessByte
    BY <2>1, ByteStep, CommandStep DEF ProcessByte
  <2>2. CASE Call(Worker)
    BY <2>2, WriteStep DEF Threads
  <2> QED
    BY <1>2, <2>1, <2>2, QuietStep, PassStep DEF InputTask
<1>3. CASE (\E m \in Messages : PeerSends(m)) \/ PeerCloses
  BY <1>3, QuietStep
<1>4. CASE \E t \in Threads : Call(t) \/ Write(t)
  BY <1>4, WriteStep
<1> QED
  BY <1>1, <1>2, <1>3, <1>4 DEF Next

\* client.c:117-165: a client can read what it gets, but for the reasons named.
THEOREM StreamReadable == Spec => []Readable
<1>1. IInv => Readable
  BY DEF IInv
<1> QED
  BY <1>1, InitInv, StepInv, PTL DEF Spec

\* client.c:116: two threads send to a client at a time only after the input task
\* has unlocked the mutex of another thread.
THEOREM WritesExclude == Spec => []Exclusion
<1>1. IInv => Exclusion
  <2> SUFFICES ASSUME IInv, "robbed" \notin quirks PROVE ~(Cardinality(Inside) > 1)
    BY DEF Exclusion
  <2>1. CASE Inside = {}
    BY <2>1, FS_EmptySet
  <2>2. CASE Inside # {}
    <3>1. PICK t \in Inside : TRUE
      BY <2>2
    <3>2. Inside = {t}
      BY <3>1 DEF IInv, Owned
    <3> QED
      BY <3>2, FS_Singleton
  <2> QED
    BY <2>1, <2>2
<1> QED
  BY <1>1, InitInv, StepInv, PTL DEF Spec

\* Together: the peer can read what several threads and the automaton send, but for
\* the named races (client.c:97-167, telnet.c:151-208).
THEOREM OutputIsSound == Spec => []OutputSound
<1>1. Exclusion /\ Readable => OutputSound
  BY DEF OutputSound
<1> QED
  BY WritesExclude, StreamReadable, <1>1, PTL

-----------------------------------------------------------------------------
(* The input side.  First, the text among what the peer sends.  It is defined *)
(* by a recursive function, and what is said of it for sequences of any length *)
(* is shown by the least length for which it would not hold.                 *)

\* What the peer sends, byte by byte.
Element == [byte : Bytes, zip : BOOLEAN, kind : {"text", "start", "rest"}]

\* A set of naturals that is not empty has a least element.
LEMMA LeastNumber ==
  ASSUME NEW T \in SUBSET Nat, T # {}
  PROVE  \E x \in T : \A y \in T : ~(y < x)
  <1> DEFINE R == {p \in Nat \X Nat : p[1] < p[2]}
  <1>1. IsWellFoundedOn(R, Nat)
    BY NatLessThanWellFounded DEF OpToRel
  <1>2. PICK x \in T : \A y \in T : ~(<<y, x>> \in R)
    <2> HIDE DEF R
    <2> QED  BY <1>1, WFMin
  <1> QED  BY <1>2

\* f has, for each number up to n, the text among so many elements of s.
Collects(f, s, n) ==
    /\ DOMAIN f = 0 .. n /\ f[0] = <<>>
    /\ \A i \in 1 .. n : f[i] = IF s[i].kind = "text" THEN Append(f[i - 1], s[i].byte)
                                ELSE f[i - 1]

\* There is such a collection.
LEMMA Collection ==
  ASSUME NEW s, NEW n \in Nat
  PROVE  \E f : f = [i \in 0 .. n |-> f[i]] /\ Collects(f, s, n)
  <1> DEFINE T == {k \in Nat : ~\E f : f = [i \in 0 .. k |-> f[i]] /\ Collects(f, s, k)}
  <1>1. ASSUME T # {} PROVE FALSE
    <2>1. PICK k \in T : \A y \in T : ~(y < k)
      <3>1. T \in SUBSET Nat
        OBVIOUS
      <3> HIDE DEF T
      <3> QED  BY <1>1, <3>1, LeastNumber
    <2>2. CASE k = 0
      <3> DEFINE g == [i \in 0 .. 0 |-> <<>>]
      <3>1. g = [i \in 0 .. 0 |-> g[i]] /\ Collects(g, s, 0)
        BY DEF Collects
      <3> HIDE DEF g
      <3> QED  BY <2>1, <2>2, <3>1
    <2>3. CASE k # 0
      <3>1. k - 1 \in Nat /\ k - 1 < k /\ k - 1 \notin T
        BY <2>1, <2>3
      <3>2. PICK f : f = [i \in 0 .. (k - 1) |-> f[i]] /\ Collects(f, s, k - 1)
        BY <3>1
      <3> DEFINE g == [i \in 0 .. k |->
                         IF i < k THEN f[i]
                         ELSE IF s[k].kind = "text" THEN Append(f[k - 1], s[k].byte)
                         ELSE f[k - 1]]
      <3>3. g = [i \in 0 .. k |-> g[i]] /\ DOMAIN g = 0 .. k
        OBVIOUS
      <3>4. g[0] = <<>> /\ \A i \in 0 .. (k - 1) : g[i] = f[i]
        BY <2>3, <3>1, <3>2 DEF Collects
      <3>5. g[k] = IF s[k].kind = "text" THEN Append(g[k - 1], s[k].byte) ELSE g[k - 1]
        BY <2>3, <3>1
      <3>6. ASSUME NEW i \in 1 .. (k - 1)
            PROVE  g[i] = IF s[i].kind = "text" THEN Append(g[i - 1], s[i].byte)
                          ELSE g[i - 1]
        <4> HIDE DEF g
        <4>1. i - 1 \in 0 .. (k - 1) /\ i \in 0 .. (k - 1)
          BY <3>1
        <4> QED  BY <3>2, <3>4, <4>1 DEF Collects
      <3>7. Collects(g, s, k)
        <4> HIDE DEF g
        <4>1. \A i \in 1 .. k : i = k \/ i \in 1 .. (k - 1)
          BY <3>1
        <4>2. ASSUME NEW i \in 1 .. k
              PROVE  g[i] = IF s[i].kind = "text" THEN Append(g[i - 1], s[i].byte)
                            ELSE g[i - 1]
          BY <3>5, <3>6, <4>1
        <4> QED  BY <3>3, <3>4, <4>2 DEF Collects
      <3> HIDE DEF g
      <3> QED  BY <2>1, <3>3, <3>7
    <2> QED  BY <2>2, <2>3
  <1> QED  BY <1>1

\* Two collections of the same elements are the same.
LEMMA CollectionsAgree ==
  ASSUME NEW s, NEW t, NEW f, NEW g, NEW m \in Nat, NEW n \in Nat,
         Collects(f, s, m), Collects(g, t, n), m <= n,
         \A i \in 1 .. m : s[i] = t[i]
  PROVE  \A i \in 0 .. m : f[i] = g[i]
  <1> DEFINE T == {k \in 0 .. m : f[k] # g[k]}
  <1>1. ASSUME T # {} PROVE FALSE
    <2>1. PICK k \in T : \A y \in T : ~(y < k)
      <3>1. T \in SUBSET Nat
        OBVIOUS
      <3> HIDE DEF T
      <3> QED  BY <1>1, <3>1, LeastNumber
    <2>2. k # 0
      BY <2>1 DEF Collects
    <2>3. k - 1 \in 0 .. m /\ k - 1 < k /\ k \in 1 .. m /\ k \in 1 .. n
      BY <2>1, <2>2
    <2>4. f[k - 1] = g[k - 1]
      BY <2>1, <2>3
    <2>5. f[k] = g[k]
      BY <2>3, <2>4 DEF Collects
    <2> QED  BY <2>1, <2>5
  <1> QED  BY <1>1

\* The text of a sequence is the last of a collection.
LEMMA TextCollects ==
  ASSUME NEW s \in Seq(Element)
  PROVE  \E f : Collects(f, s, Len(s)) /\ Text(s) = f[Len(s)]
  <1> DEFINE N == Len(s)
             Body(l) == [i \in 0 .. N |->
                           IF i = 0 THEN <<>>
                           ELSE IF s[i].kind = "text" THEN Append(l[i - 1], s[i].byte)
                           ELSE l[i - 1]]
             text == CHOOSE l : l = Body(l)
  <1>1. PICK f : f = [i \in 0 .. N |-> f[i]] /\ Collects(f, s, N)
    <2>1. N \in Nat
      OBVIOUS
    <2> HIDE DEF N
    <2> QED  BY <2>1, Collection
  <1>2. f = Body(f)
    <2>1. \A i \in 0 .. N : f[i] = Body(f)[i]
      <3> SUFFICES ASSUME NEW i \in 0 .. N PROVE f[i] = Body(f)[i]
        OBVIOUS
      <3>1. CASE i = 0
        BY <1>1, <3>1 DEF Collects
      <3>2. CASE i # 0
        <4>1. i \in 1 .. N
          BY <3>2
        <4> QED  BY <1>1, <4>1 DEF Collects
      <3> QED  BY <3>1, <3>2
    <2> QED  BY <1>1, <2>1
  <1>3. text = Body(text)
    <2> HIDE DEF Body
    <2> QED  BY <1>2
  <1>4. Collects(text, s, N)
    <2>1. DOMAIN text = 0 .. N
      BY <1>3
    <2>2. \A i \in 0 .. N : text[i] = Body(text)[i]
      BY <1>3
    <2> HIDE DEF text
    <2>3. text[0] = <<>>
      BY <2>2
    <2>4. ASSUME NEW i \in 1 .. N
          PROVE  text[i] = IF s[i].kind = "text" THEN Append(text[i - 1], s[i].byte)
                           ELSE text[i - 1]
      <3>1. i \in 0 .. N /\ i # 0
        OBVIOUS
      <3> QED  BY <2>2, <3>1
    <2> QED  BY <2>1, <2>3, <2>4 DEF Collects
  <1>5. Text(s) = text[N]
    BY DEF Text
  <1> HIDE DEF text
  <1> QED  BY <1>4, <1>5

\* The text of no elements, and of one more element.
LEMMA TextOfNone == Text(<<>>) = <<>>
  <1>1. <<>> \in Seq(Element) /\ Len(<<>>) = 0
    OBVIOUS
  <1> QED  BY <1>1, TextCollects DEF Collects

\* The text of one element more.
LEMMA TextOfMore ==
  ASSUME NEW s \in Seq(Element), NEW e \in Element
  PROVE  Text(Append(s, e)) = IF e.kind = "text" THEN Append(Text(s), e.byte) ELSE Text(s)
  <1> DEFINE n == Len(s)
             t == Append(s, e)
  <1>1. t \in Seq(Element) /\ Len(t) = n + 1 /\ t[n + 1] = e /\ n \in Nat
        /\ \A i \in 1 .. n : s[i] = t[i]
    OBVIOUS
  <1>2. PICK f : Collects(f, s, n) /\ Text(s) = f[n]
    BY TextCollects
  <1>3. PICK g : Collects(g, t, n + 1) /\ Text(t) = g[n + 1]
    BY <1>1, TextCollects
  <1> HIDE DEF n, t
  <1>4. f[n] = g[n]
    <2>1. n + 1 \in Nat /\ n <= n + 1 /\ n \in 0 .. n
      BY <1>1
    <2>2. \A i \in 0 .. n : f[i] = g[i]
      BY <1>1, <1>2, <1>3, <2>1, CollectionsAgree
    <2> QED  BY <2>1, <2>2
  <1>5. g[n + 1] = IF e.kind = "text" THEN Append(g[n], e.byte) ELSE g[n]
    <2>1. n + 1 \in 1 .. (n + 1) /\ (n + 1) - 1 = n
      BY <1>1
    <2> QED  BY <1>1, <1>3, <2>1 DEF Collects
  <1> QED  BY <1>2, <1>3, <1>4, <1>5 DEF t

\* The first n elements of a sequence, and the others.
LEMMA Cut ==
  ASSUME NEW u \in Seq(Element), NEW n \in 0 .. Len(u)
  PROVE  /\ SubSeq(u, 1, n) \in Seq(Element) /\ SubSeq(u, n + 1, Len(u)) \in Seq(Element)
         /\ Len(SubSeq(u, 1, n)) = n /\ Len(SubSeq(u, n + 1, Len(u))) = Len(u) - n
         /\ \A i \in 1 .. n : SubSeq(u, 1, n)[i] = u[i]
         /\ \A i \in 1 .. (Len(u) - n) : SubSeq(u, n + 1, Len(u))[i] = u[n + i]
         /\ u = SubSeq(u, 1, n) \o SubSeq(u, n + 1, Len(u))
  <1>1. /\ SubSeq(u, 1, n) \in Seq(Element) /\ Len(SubSeq(u, 1, n)) = n
        /\ \A i \in 1 .. n : SubSeq(u, 1, n)[i] = u[i]
    OBVIOUS
  <1>2. /\ SubSeq(u, n + 1, Len(u)) \in Seq(Element)
        /\ Len(SubSeq(u, n + 1, Len(u))) = Len(u) - n
        /\ \A i \in 1 .. (Len(u) - n) : SubSeq(u, n + 1, Len(u))[i] = u[n + i]
    OBVIOUS
  <1>3. u = SubSeq(u, 1, n) \o SubSeq(u, n + 1, Len(u))
    <2>1. 1 \in 1 .. Len(u) + 1 /\ n \in 1 - 1 .. Len(u) /\ Len(u) \in n .. Len(u)
      OBVIOUS
    <2>2. SubSeq(u, 1, n) \o SubSeq(u, n + 1, Len(u)) = SubSeq(u, 1, Len(u))
      BY <2>1, ConcatAdjacentSubSeq
    <2> QED  BY <2>2, SubSeqFull
  <1> QED  BY <1>1, <1>2, <1>3

\* A sequence that is not empty has a last element.
LEMMA LastOff ==
  ASSUME NEW u \in Seq(Element), u # <<>>
  PROVE  \E v \in Seq(Element), e \in Element :
            u = Append(v, e) /\ Len(u) \in Nat \ {0} /\ Len(v) = Len(u) - 1
  <1>1. PICK v \in Seq(Element), e \in Element : u = Append(v, e)
    BY SequenceEmptyOrAppend
  <1>2. Len(u) = Len(v) + 1 /\ Len(v) \in Nat
    BY <1>1
  <1> QED  BY <1>1, <1>2

\* A set of sequences that has the empty one and, with each, those longer by one
\* element, has all of them.
LEMMA SequencesGrow ==
  ASSUME NEW G, <<>> \in G,
         \A s \in Seq(Element), e \in Element : s \in G => Append(s, e) \in G
  PROVE  \A s \in Seq(Element) : s \in G
  <1> DEFINE T == {k \in Nat : \E u \in Seq(Element) : Len(u) = k /\ u \notin G}
  <1>1. ASSUME T # {} PROVE FALSE
    <2>1. PICK k \in T : \A y \in T : ~(y < k)
      <3>1. T \in SUBSET Nat
        OBVIOUS
      <3> HIDE DEF T
      <3> QED  BY <1>1, <3>1, LeastNumber
    <2>2. PICK u \in Seq(Element) : Len(u) = k /\ u \notin G
      BY <2>1
    <2>3. PICK v \in Seq(Element), e \in Element :
             u = Append(v, e) /\ Len(u) \in Nat \ {0} /\ Len(v) = Len(u) - 1
      BY <2>2, LastOff
    <2>4. k - 1 \in Nat /\ k - 1 < k /\ Len(v) = k - 1
      BY <2>2, <2>3
    <2>5. k - 1 \notin T
      BY <2>1, <2>4
    <2>6. v \in G
      BY <2>4, <2>5
    <2> QED  BY <2>2, <2>3, <2>6
  <1>2. \A u \in Seq(Element) : Len(u) \in Nat
    OBVIOUS
  <1> QED  BY <1>1, <1>2

\* Text is bytes.
LEMMA TextIsBytes ==
  ASSUME NEW s \in Seq(Element)
  PROVE  Text(s) \in Seq(Bytes)
  <1> DEFINE G == {u \in Seq(Element) : Text(u) \in Seq(Bytes)}
  <1>1. <<>> \in G
    <2>1. <<>> \in Seq(Element) /\ <<>> \in Seq(Bytes)
      OBVIOUS
    <2> QED  BY <2>1, TextOfNone
  <1>2. ASSUME NEW u \in Seq(Element), NEW e \in Element, u \in G
        PROVE  Append(u, e) \in G
    <2>1. e.byte \in Bytes /\ Append(u, e) \in Seq(Element)
      BY DEF Element
    <2>2. Text(Append(u, e)) = IF e.kind = "text" THEN Append(Text(u), e.byte) ELSE Text(u)
      BY TextOfMore
    <2>3. Text(u) \in Seq(Bytes)
      BY <1>2
    <2>4. Append(Text(u), e.byte) \in Seq(Bytes)
      BY <2>1, <2>3
    <2> QED  BY <2>1, <2>2, <2>3, <2>4
  <1> HIDE DEF G
  <1>3. \A u \in Seq(Element) : u \in G
    BY <1>1, <1>2, SequencesGrow
  <1> QED  BY <1>3 DEF G

\* Appending to the second of two sequences.
LEMMA AppendAfter ==
  ASSUME NEW s \in Seq(Bytes), NEW t \in Seq(Bytes), NEW x \in Bytes
  PROVE  Append(s \o t, x) = s \o Append(t, x)
  <1>1. /\ Append(s \o t, x) \in Seq(Bytes) /\ s \o Append(t, x) \in Seq(Bytes)
        /\ Len(Append(s \o t, x)) = Len(s \o Append(t, x))
    OBVIOUS
  <1>2. \A i \in 1 .. Len(s \o Append(t, x)) : Append(s \o t, x)[i] = (s \o Append(t, x))[i]
    OBVIOUS
  <1> QED  BY <1>1, <1>2

\* Two sequences one after the other.
LEMMA Joined ==
  ASSUME NEW s \in Seq(Element), NEW t \in Seq(Element)
  PROVE  /\ s \o t \in Seq(Element) /\ Len(s \o t) = Len(s) + Len(t)
         /\ \A i \in 1 .. Len(s) : (s \o t)[i] = s[i]
         /\ \A i \in 1 .. Len(t) : (s \o t)[Len(s) + i] = t[i]
  OBVIOUS

\* Three sequences one after the other.
LEMMA BytesAssociate ==
  ASSUME NEW s \in Seq(Bytes), NEW t \in Seq(Bytes), NEW u \in Seq(Bytes)
  PROVE  (s \o t) \o u = s \o (t \o u)
  BY ConcatAssociative

\* And three of elements.
LEMMA ElementsAssociate ==
  ASSUME NEW s \in Seq(Element), NEW t \in Seq(Element), NEW u \in Seq(Element)
  PROVE  (s \o t) \o u = s \o (t \o u)
  BY ConcatAssociative

\* The text of one sequence after another.
LEMMA TextOfBoth ==
  ASSUME NEW s \in Seq(Element), NEW t \in Seq(Element)
  PROVE  Text(s \o t) = Text(s) \o Text(t)
  <1> DEFINE G == {u \in Seq(Element) : Text(s \o u) = Text(s) \o Text(u)}
  <1>1. <<>> \in G
    <2>1. s \o <<>> = s /\ Text(<<>>) = <<>> /\ Text(s) \in Seq(Bytes)
      BY TextOfNone, TextIsBytes
    <2> QED  BY <2>1
  <1>2. ASSUME NEW u \in Seq(Element), NEW e \in Element, u \in G
        PROVE  Append(u, e) \in G
    <2>1. s \o Append(u, e) = Append(s \o u, e) /\ s \o u \in Seq(Element)
          /\ Append(u, e) \in Seq(Element)
      OBVIOUS
    <2>2. Text(s) \in Seq(Bytes) /\ Text(u) \in Seq(Bytes) /\ e.byte \in Bytes
      BY TextIsBytes DEF Element
    <2>3. Text(s \o Append(u, e)) = IF e.kind = "text" THEN Append(Text(s) \o Text(u), e.byte)
                                   ELSE Text(s) \o Text(u)
      BY <1>2, <2>1, TextOfMore
    <2>4. Text(Append(u, e)) = IF e.kind = "text" THEN Append(Text(u), e.byte) ELSE Text(u)
      BY TextOfMore
    <2>5. Append(Text(s) \o Text(u), e.byte) = Text(s) \o Append(Text(u), e.byte)
      BY <2>2, AppendAfter
    <2> QED  BY <2>1, <2>3, <2>4, <2>5
  <1> HIDE DEF G
  <1>3. \A u \in Seq(Element) : u \in G
    BY <1>1, <1>2, SequencesGrow
  <1> QED  BY <1>3 DEF G

\* The text of elements that are text.
LEMMA TextOfText ==
  ASSUME NEW s \in Seq(Element), \A i \in 1 .. Len(s) : s[i].kind = "text"
  PROVE  Text(s) = [i \in 1 .. Len(s) |-> s[i].byte]
  <1> DEFINE G == {u \in Seq(Element) :
                     (\A i \in 1 .. Len(u) : u[i].kind = "text")
                       => Text(u) = [i \in 1 .. Len(u) |-> u[i].byte]}
  <1>1. <<>> \in G
    <2>1. <<>> \in Seq(Element) /\ [i \in 1 .. Len(<<>>) |-> <<>>[i].byte] = <<>>
      OBVIOUS
    <2> QED  BY <2>1, TextOfNone
  <1>2. ASSUME NEW u \in Seq(Element), NEW e \in Element, u \in G
        PROVE  Append(u, e) \in G
    <2> DEFINE w == Append(u, e)
               n == Len(u)
    <2>1. w \in Seq(Element) /\ Len(w) = n + 1 /\ w[n + 1] = e /\ n \in Nat
          /\ \A i \in 1 .. n : w[i] = u[i]
      OBVIOUS
    <2> SUFFICES ASSUME \A i \in 1 .. Len(w) : w[i].kind = "text"
                 PROVE  Text(w) = [i \in 1 .. Len(w) |-> w[i].byte]
      BY <2>1
    <2>2. Text(u) = [i \in 1 .. n |-> u[i].byte]
      BY <1>2, <2>1
    <2>3. e.kind = "text"
      BY <2>1
    <2>4. Text(w) = Append(Text(u), e.byte)
      BY <2>3, TextOfMore
    <2> HIDE DEF w, n
    <2>5. Text(w) \in Seq(Bytes) /\ Text(u) \in Seq(Bytes) /\ e.byte \in Bytes
      BY <2>1, TextIsBytes DEF Element
    <2>6. Len(Text(u)) = n
      BY <2>1, <2>2, <2>5
    <2>7. Len(Text(w)) = n + 1 /\ \A i \in 1 .. (n + 1) : Text(w)[i] = w[i].byte
      BY <2>1, <2>2, <2>4, <2>5, <2>6
    <2> QED  BY <2>1, <2>5, <2>7
  <1> HIDE DEF G
  <1>3. \A u \in Seq(Element) : u \in G
    BY <1>1, <1>2, SequencesGrow
  <1> QED  BY <1>3 DEF G

-----------------------------------------------------------------------------
\* Bytes are handled as the peer means them, unless it is for one of these reasons.
Regular == quirks \cap {"cut", "late", "length"} = {}

\* What has been read is in the chunk until it is scanned; of what is scanned the
\* automaton has yet to take the bytes in todo.
Going == {"idle", "reading", "read", "scan", "announce", "input"}

\* The types of the input side; Locals are the local variables of its task.
Locals == [chunk : Seq(Element), bytes : Seq(Bytes), todo : Seq(Bytes),
           normal : Seq(Bytes), had : BOOLEAN, empty : BOOLEAN]
InputTypes ==
    /\ wire \in Seq(Element) /\ said \subseteq Messages
    /\ work \in Locals
    /\ args \in Seq(Bytes) /\ typed \in Seq(Bytes) /\ passed \in Seq(Bytes)
    /\ mccp2 \in BOOLEAN /\ mccp3 \in BOOLEAN

\* A phase of the peer, and the place in its message.
Label == [at : Phases, pos : Nat \ {0}]

\* The peer has sent a sub-negotiation that is too long.
Long == \E m \in said : m[1] = "IAC" /\ Len(m) > ArgsCapacity + 4

\* An element is what its message has between two labels.
Between(e, p, q) ==
    /\ e.kind = "text" => p.at = "INPUT" /\ q.at = "INPUT" /\ e.byte # "IAC"
    /\ e.kind # "text" => Follows(p.at, e.byte, q.at)
    /\ e.kind = "start" => e.byte = "IAC"
    /\ q.at # "INPUT" => q.pos = p.pos + 1
    /\ p.at \in {"OPT", "SB"} /\ e.byte # "IAC" => p.pos < ArgsCapacity + 3 \/ Long
    /\ p.at = "SEW" => BeginMCCP3 \in said
    /\ p.at = "DO" /\ e.byte = "V" => DoMCCP2 \in said

\* The labels of elements that the peer has sent one after the other.
Labels(L, r) ==
    /\ L \in [1 .. Len(r) + 1 -> Label] /\ L[Len(r) + 1].at = "INPUT"
    /\ \A i \in 1 .. Len(r) : Between(r[i], L[i], L[i + 1])
    /\ \A i \in 1 .. (Len(r) - 1) : r[i].kind = "text" => r[i + 1].kind # "rest"
    /\ \A i, j \in 1 .. Len(r) : i < j /\ L[i].at = "SEW" => r[j].zip

\* The automaton is where the peer is.
StateOf(p) == CASE p \in {"DO", "DONT"} -> "CMD"
                [] p \in {"OPT", "SB", "SBW"} -> "SB"
                [] p \in {"SE", "SEW"} -> "SE"
                [] OTHER -> p
Matches(l) ==
    /\ state = StateOf(l.at)
    /\ l.at = "IAC" => l.pos >= 2
    /\ l.at \in {"OPT", "SB", "SBW"} => Len(args) + 3 <= l.pos
    /\ l.at = "OPT" => args = <<>>
    /\ l.at \in {"SBW", "SEW"} => args # <<>> /\ args[1] = "W"
    /\ l.at = "SB" => args # <<>>
    /\ l.at \in {"SB", "SE"} /\ args # <<>> => args[1] # "W"
    /\ l.at \in {"DO", "DONT"} => last = l.at

\* What becomes of the text in the chunk, of which rest is to come.
Accounted(rest) ==
    /\ pc \in {"idle", "input"} => rest = <<>> /\ typed = passed
    /\ pc \in {"reading", "read"} =>
         /\ rest = work.chunk /\ work.normal = <<>> /\ ~work.had
         /\ typed = passed \o Text(rest)
    /\ pc \in {"scan", "announce"} =>
         /\ Len(work.todo) = Len(rest)
         /\ \A i \in 1 .. Len(rest) : work.todo[i] = rest[i].byte
         /\ typed = passed \o (IF HasIAC(work.bytes) THEN work.normal \o Text(rest)
                               ELSE work.bytes)
         /\ HasIAC(work.bytes) => work.had \/ \E i \in 1 .. Len(rest) : rest[i].byte = "IAC"
         /\ ~HasIAC(work.bytes) => ~work.had /\ rest = <<>>
         /\ Len(work.normal \o Text(rest)) <= NormalCapacity \/ "long" \in quirks
         /\ (\E i \in 1 .. Len(rest) : rest[i].byte = "NUL") => "nul" \in quirks

\* The automaton follows the peer, and no text is lost.
Followed ==
    Regular /\ ~gone /\ pc \in Going =>
        \E rest \in Seq(Element) :
            Accounted(rest) /\ \E L : Labels(L, rest \o wire) /\ Matches(L[1])

\* Compression.
Compressed ==
    /\ (\E i \in DOMAIN wire : wire[i].zip) \/ (\E i \in DOMAIN work.chunk : work.chunk[i].zip)
         \/ "late" \in quirks => BeginMCCP3 \in said
    /\ "length" \in quirks => mccp3
    /\ quirks \cap {"cut", "late"} = {} =>
         /\ inflate = "ok"
         /\ mccp3 => /\ BeginMCCP3 \in said
                     /\ \A i \in DOMAIN wire : wire[i].zip
                     /\ pc \in {"reading", "read"} =>
                          \A i \in DOMAIN work.chunk : work.chunk[i].zip

\* The client is gone when its last task has ended, and a task begins with nothing.
Resting ==
    /\ gone => pc = "idle"
    /\ pc = "idle" => work = NoWork

\* The invariant of the input side.
InputInv ==
    /\ InputTypes /\ Compressed /\ Resting /\ Followed
    /\ NoFalseAlarm /\ Consent /\ SpinsLate

-----------------------------------------------------------------------------
\* Labels of what remains when the first elements have been taken.
LEMMA LabelsDrop ==
  ASSUME NEW L, NEW s \in Seq(Element), NEW t \in Seq(Element), Labels(L, s \o t)
  PROVE  Labels([i \in 1 .. Len(t) + 1 |-> L[Len(s) + i]], t)
  <1> DEFINE M == [i \in 1 .. Len(t) + 1 |-> L[Len(s) + i]]
             r == s \o t
             m == Len(s)
             n == Len(t)
  <1>1. m \in Nat /\ n \in Nat /\ Len(r) = m + n /\ \A i \in 1 .. n : r[m + i] = t[i]
    OBVIOUS
  <1>2. Labels(L, r)
    OBVIOUS
  <1>3. M = [i \in 1 .. n + 1 |-> L[m + i]]
    OBVIOUS
  <1> HIDE DEF M, r, m, n
  <1>4. M \in [1 .. n + 1 -> Label] /\ M[n + 1].at = "INPUT"
    BY <1>1, <1>2, <1>3 DEF Labels
  <1>5. ASSUME NEW i \in 1 .. n PROVE Between(t[i], M[i], M[i + 1])
    <2>1. m + i \in 1 .. Len(r) /\ M[i] = L[m + i] /\ M[i + 1] = L[(m + i) + 1]
          /\ t[i] = r[m + i]
      BY <1>1, <1>3
    <2> QED  BY <1>2, <2>1 DEF Labels
  <1>6. ASSUME NEW i \in 1 .. (n - 1), t[i].kind = "text" PROVE t[i + 1].kind # "rest"
    <2>1. m + i \in 1 .. (Len(r) - 1) /\ t[i] = r[m + i] /\ t[i + 1] = r[(m + i) + 1]
      BY <1>1
    <2> QED  BY <1>2, <1>6, <2>1 DEF Labels
  <1>7. ASSUME NEW i \in 1 .. n, NEW j \in 1 .. n, i < j, M[i].at = "SEW" PROVE t[j].zip
    <2>1. m + i \in 1 .. Len(r) /\ m + j \in 1 .. Len(r) /\ m + i < m + j
          /\ M[i] = L[m + i] /\ t[j] = r[m + j]
      BY <1>1, <1>3, <1>7
    <2> QED  BY <1>2, <1>7, <2>1 DEF Labels
  <1> QED  BY <1>4, <1>5, <1>6, <1>7 DEF Labels, M, n

\* The phases of a message.
LEMMA MessageLabels ==
  ASSUME NEW m \in Messages
  PROVE  /\ m \in Seq(Bytes) /\ Len(m) \in Nat \ {0}
         /\ \E M \in [1 .. Len(m) + 1 -> Label] :
              /\ M[1].at = "INPUT" /\ M[Len(m) + 1].at = "INPUT"
              /\ \A i \in 1 .. Len(m) :
                   /\ IF m[1] = "IAC" THEN Follows(M[i].at, m[i], M[i + 1].at)
                      ELSE M[i].at = "INPUT" /\ M[i + 1].at = "INPUT" /\ m[i] # "IAC"
                   /\ M[i].pos = i /\ M[i + 1].pos = i + 1
                   /\ M[i].at \in {"OPT", "SB"} /\ m[i] # "IAC" => i <= Len(m) - 2
                   /\ M[i].at = "SEW" => m = BeginMCCP3 /\ i = Len(m)
                   /\ M[i].at = "DO" /\ m[i] = "V" => m = DoMCCP2
  <1> DEFINE n == Len(m)
  <1>1. m \in Seq(Bytes) /\ n \in Nat \ {0}
    BY MessageAssumption
  <1>2. CASE m[1] = "IAC"
    <2>1. PICK p \in [1 .. n + 1 -> Phases] :
            /\ p[1] = "INPUT" /\ p[n + 1] = "INPUT"
            /\ \A i \in 1 .. n :
                 /\ Follows(p[i], m[i], p[i + 1])
                 /\ (p[i] = "DO" /\ m[i] = "V") => m = DoMCCP2
                 /\ (p[i] = "SEW") => m = BeginMCCP3
      BY <1>2, MessageAssumption DEF Commands
    <2> DEFINE M == [i \in 1 .. n + 1 |-> [at |-> p[i], pos |-> i]]
    <2>2. M \in [1 .. n + 1 -> Label]
      BY <1>1, <2>1 DEF Label
    <2>3. \A i \in 1 .. n + 1 : M[i].at = p[i] /\ M[i].pos = i
      OBVIOUS
    <2> HIDE DEF n
    <2>4. ASSUME NEW i \in 1 .. n, p[i] \in {"OPT", "SB"}, m[i] # "IAC" PROVE i <= n - 2
      <3>1. p[i + 1] \in {"SB", "SBW"}
        BY <2>1, <2>4 DEF Follows
      <3>2. i + 1 \in 1 .. n
        BY <1>1, <2>1, <3>1
      <3>3. p[(i + 1) + 1] \in {"SB", "SE", "SEW"}
        BY <2>1, <3>1, <3>2 DEF Follows
      <3>4. i + 2 # n + 1
        BY <1>1, <2>1, <3>3
      <3> QED  BY <1>1, <3>2, <3>4
    <2>5. ASSUME NEW i \in 1 .. n, p[i] = "SEW" PROVE m = BeginMCCP3 /\ i = n
      <3>1. m = BeginMCCP3
        BY <2>1, <2>5
      <3>2. n = 5 /\ m[1] = "IAC" /\ m[2] = "SB" /\ m[3] = "W" /\ m[4] = "IAC" /\ m[5] = "SE"
        BY <3>1 DEF BeginMCCP3, n
      <3>3. p[2] = "IAC"
        <4>1. Follows(p[1], m[1], p[1 + 1])
          BY <2>1, <3>2
        <4> QED  BY <2>1, <4>1 DEF Follows
      <3>4. p[3] = "OPT"
        <4>1. Follows(p[2], m[2], p[2 + 1])
          BY <2>1, <3>2
        <4> QED  BY <3>2, <3>3, <4>1 DEF Follows
      <3>5. p[4] = "SBW"
        <4>1. Follows(p[3], m[3], p[3 + 1])
          BY <2>1, <3>2
        <4> QED  BY <3>2, <3>4, <4>1 DEF Follows
      <3>6. i \in {1, 2, 3, 4, 5}
        BY <3>2
      <3> QED  BY <2>1, <2>5, <3>1, <3>2, <3>3, <3>4, <3>5, <3>6
    <2> HIDE DEF M
    <2>6. ASSUME NEW i \in 1 .. n
          PROVE  /\ Follows(M[i].at, m[i], M[i + 1].at)
                 /\ M[i].pos = i /\ M[i + 1].pos = i + 1
                 /\ M[i].at \in {"OPT", "SB"} /\ m[i] # "IAC" => i <= n - 2
                 /\ M[i].at = "SEW" => m = BeginMCCP3 /\ i = n
                 /\ M[i].at = "DO" /\ m[i] = "V" => m = DoMCCP2
      <3>1. i \in 1 .. n + 1 /\ i + 1 \in 1 .. n + 1
        BY <1>1
      <3> QED  BY <2>1, <2>3, <2>4, <2>5, <3>1
    <2>7. M[1].at = "INPUT" /\ M[n + 1].at = "INPUT"
      BY <1>1, <2>1, <2>3
    <2> QED  BY <1>1, <1>2, <2>2, <2>6, <2>7 DEF n
  <1>3. CASE m[1] # "IAC"
    <2> DEFINE M == [i \in 1 .. n + 1 |-> [at |-> "INPUT", pos |-> i]]
    <2>1. M \in [1 .. n + 1 -> Label]
      BY <1>1 DEF Label, Phases
    <2>2. \A i \in 1 .. n + 1 : M[i].at = "INPUT" /\ M[i].pos = i
      OBVIOUS
    <2>3. \A i \in 1 .. n : m[i] # "IAC"
      BY <1>1, <1>3, MessageAssumption DEF HasIAC, ToSet
    <2> HIDE DEF M, n
    <2>4. \A i \in 1 .. n : i \in 1 .. n + 1 /\ i + 1 \in 1 .. n + 1
      BY <1>1
    <2> QED  BY <1>1, <1>3, <2>1, <2>2, <2>3, <2>4 DEF n
  <1> QED  BY <1>1, <1>2, <1>3

\* What the peer says next has labels as well.
LEMMA LabelsAdd ==
  ASSUME NEW m \in Messages, NEW L, NEW r \in Seq(Element), Labels(L, r),
         said' = said \cup {m}, m[1] = "IAC" => m \notin said,
         NEW s, s = Elements(m)
  PROVE  s \in Seq(Element) /\ \E M : Labels(M, r \o s)' /\ M[1].at = L[1].at
                                     /\ (r # <<>> => M[1] = L[1])
  <1> DEFINE n == Len(r)
             k == Len(m)
             z == BeginMCCP3 \in said
             u == r \o s
  <1>1. PICK N \in [1 .. k + 1 -> Label] :
              /\ N[1].at = "INPUT" /\ N[k + 1].at = "INPUT"
              /\ \A i \in 1 .. k :
                   /\ IF m[1] = "IAC" THEN Follows(N[i].at, m[i], N[i + 1].at)
                      ELSE N[i].at = "INPUT" /\ N[i + 1].at = "INPUT" /\ m[i] # "IAC"
                   /\ N[i].pos = i /\ N[i + 1].pos = i + 1
                   /\ N[i].at \in {"OPT", "SB"} /\ m[i] # "IAC" => i <= k - 2
                   /\ N[i].at = "SEW" => m = BeginMCCP3 /\ i = k
                   /\ N[i].at = "DO" /\ m[i] = "V" => m = DoMCCP2
    BY MessageLabels
  <1>2. n \in Nat /\ k \in Nat \ {0} /\ m \in Seq(Bytes)
    BY MessageLabels
  <1>3. s \in Seq(Element) /\ Len(s) = k
        /\ \A i \in 1 .. k :
              s[i] = [byte |-> m[i], zip |-> z,
                      kind |-> IF m[1] # "IAC" THEN "text" ELSE IF i = 1 THEN "start" ELSE "rest"]
    <2>1. DOMAIN m = 1 .. k /\ \A i \in 1 .. k : m[i] \in Bytes
      BY <1>2
    <2> DEFINE e(i) == [byte |-> m[i], zip |-> z,
                        kind |-> IF m[1] # "IAC" THEN "text" ELSE IF i = 1 THEN "start"
                                 ELSE "rest"]
    <2>2. s = [i \in 1 .. k |-> e(i)]
      BY <2>1 DEF Elements
    <2>3. \A i \in 1 .. k : e(i) \in Element
      BY <2>1 DEF Element
    <2> HIDE DEF e, k
    <2>4. s \in Seq(Element) /\ Len(s) = k /\ \A i \in 1 .. k : s[i] = e(i)
      BY <1>2, <2>2, <2>3
    <2> QED  BY <2>4 DEF e
  <1>4. u \in Seq(Element) /\ Len(u) = n + k /\ (\A i \in 1 .. n : u[i] = r[i])
        /\ \A i \in 1 .. k : u[n + i] = s[i]
    <2>1. s \in Seq(Element) /\ Len(s) = k
      BY <1>3
    <2> HIDE DEF k
    <2> QED  BY <2>1, Joined
  <1> DEFINE M == [i \in 1 .. (n + k) + 1 |-> IF i <= n THEN L[i] ELSE N[i - n]]
  <1>5. L \in [1 .. n + 1 -> Label] /\ L[n + 1].at = "INPUT"
    BY DEF Labels
  <1>6. /\ M \in [1 .. (n + k) + 1 -> Label]
        /\ \A i \in 1 .. n : M[i] = L[i]
        /\ \A i \in 1 .. k + 1 : M[n + i] = N[i]
    BY <1>1, <1>2, <1>5
  <1> HIDE DEF M, u, n, k, z
  <1>7. ASSUME NEW i \in 1 .. n PROVE Between(u[i], M[i], M[i + 1])'
    <2>1. Between(r[i], L[i], L[i + 1])
      BY DEF Labels, n
    <2>2. u[i] = r[i] /\ M[i] = L[i]
      BY <1>4, <1>6
    <2>3. M[i + 1] = L[i + 1] \/ (M[i + 1].at = "INPUT" /\ L[i + 1].at = "INPUT")
      <3>1. CASE i < n
        BY <1>2, <1>6, <3>1
      <3>2. CASE i = n
        <4>1. M[n + 1] = N[1]
          BY <1>2, <1>6
        <4> QED  BY <1>1, <1>5, <3>2, <4>1
      <3> QED  BY <1>2, <3>1, <3>2
    <2>4. Long => Long'
      BY DEF Long
    <2>5. \A y : y \in said => y \in said'
      OBVIOUS
    <2>6. Between(r[i], L[i], L[i + 1])'
      BY <2>1, <2>4, <2>5 DEF Between
    <2> QED  BY <2>2, <2>3, <2>6 DEF Between
  <1>8. ASSUME NEW i \in 1 .. k PROVE Between(u[n + i], M[n + i], M[(n + i) + 1])'
    <2>1. M[n + i] = N[i] /\ M[(n + i) + 1] = N[i + 1] /\ u[n + i] = s[i]
      <3>1. i \in 1 .. k + 1 /\ i + 1 \in 1 .. k + 1 /\ (n + i) + 1 = n + (i + 1)
        BY <1>2
      <3> QED  BY <1>4, <1>6, <3>1
    <2>2. N[i].at \in {"OPT", "SB"} /\ m[i] # "IAC" => N[i].pos < ArgsCapacity + 3 \/ Long'
      <3> SUFFICES ASSUME N[i].at \in {"OPT", "SB"}, m[i] # "IAC", ~Long'
                   PROVE  N[i].pos < ArgsCapacity + 3
        OBVIOUS
      <3>1. m[1] = "IAC"
        BY <1>1
      <3>2. k <= ArgsCapacity + 4
        BY <1>2, <3>1, TelnetAssumption DEF Long, k
      <3>3. N[i].pos = i /\ i <= k - 2
        BY <1>1
      <3> QED  BY <1>2, <3>2, <3>3, TelnetAssumption
    <2>3. s[i].byte = m[i] /\ s[i].kind = IF m[1] # "IAC" THEN "text"
                                         ELSE IF i = 1 THEN "start" ELSE "rest"
      BY <1>3
    <2>4. N[i + 1].pos = N[i].pos + 1
      BY <1>1
    <2>5. m \in said'
      OBVIOUS
    <2>6. CASE m[1] # "IAC"
      <3>1. N[i].at = "INPUT" /\ N[i + 1].at = "INPUT" /\ m[i] # "IAC" /\ s[i].kind = "text"
        BY <1>1, <2>3, <2>6
      <3> QED  BY <2>1, <2>3, <3>1 DEF Between
    <2>7. CASE m[1] = "IAC"
      <3>1. Follows(N[i].at, m[i], N[i + 1].at)
        BY <1>1, <2>7
      <3>2. N[i].at = "SEW" => BeginMCCP3 \in said'
        BY <1>1, <2>5
      <3>3. N[i].at = "DO" /\ m[i] = "V" => DoMCCP2 \in said'
        BY <1>1, <2>5
      <3>4. s[i].kind # "text" /\ (s[i].kind = "start" => m[i] = "IAC")
        BY <2>3, <2>7
      <3> QED  BY <2>1, <2>2, <2>3, <2>4, <3>1, <3>2, <3>3, <3>4 DEF Between
    <2> QED  BY <2>1, <2>6, <2>7
  <1>9. ASSUME NEW i \in 1 .. Len(u) PROVE Between(u[i], M[i], M[i + 1])'
    <2>1. CASE i \in 1 .. n
      BY <1>7, <2>1
    <2>2. CASE i > n
      <3>1. i - n \in 1 .. k /\ n + (i - n) = i
        BY <1>2, <1>4, <2>2
      <3> QED  BY <1>8, <3>1
    <2> QED  BY <1>2, <2>1, <2>2
  <1>10. ASSUME NEW i \in 1 .. (Len(u) - 1), u[i].kind = "text" PROVE u[i + 1].kind # "rest"
    <2>1. CASE i + 1 \in 1 .. n
      <3>1. i \in 1 .. (n - 1) /\ i \in 1 .. n /\ u[i] = r[i] /\ u[i + 1] = r[i + 1]
        BY <1>2, <1>4, <2>1
      <3>2. \A h \in 1 .. (n - 1) : r[h].kind = "text" => r[h + 1].kind # "rest"
        BY DEF Labels, n
      <3> QED  BY <1>10, <3>1, <3>2
    <2>2. CASE i = n
      <3>1. 1 \in 1 .. k /\ u[n + 1] = s[1]
        BY <1>2, <1>4
      <3>2. s[1].kind # "rest"
        BY <1>3, <3>1
      <3> QED  BY <2>2, <3>1, <3>2
    <2>3. CASE i > n
      <3>1. i - n \in 1 .. k /\ (i + 1) - n \in 1 .. k
            /\ n + (i - n) = i /\ n + ((i + 1) - n) = i + 1
        <4>1. Len(u) = n + k
          BY <1>4
        <4> QED  BY <1>2, <2>3, <4>1
      <3>2. u[i] = s[i - n] /\ u[i + 1] = s[(i + 1) - n]
        BY <1>4, <3>1
      <3>3. m[1] # "IAC"
        BY <1>3, <1>10, <3>1, <3>2
      <3> QED  BY <1>3, <3>1, <3>2, <3>3
    <2> QED  BY <1>2, <2>1, <2>2, <2>3
  <1>11. ASSUME NEW i \in 1 .. Len(u), NEW j \in 1 .. Len(u), i < j, M[i].at = "SEW"
         PROVE  u[j].zip
    <2>1. CASE i > n
      <3>1. i - n \in 1 .. k /\ n + (i - n) = i
        BY <1>2, <1>4, <2>1
      <3>2. M[i] = N[i - n]
        BY <1>2, <1>6, <3>1
      <3>3. i - n = k
        BY <1>1, <1>11, <3>1, <3>2
      <3> QED  BY <1>2, <1>4, <1>11, <3>3
    <2>2. CASE i <= n
      <3>1. i \in 1 .. n /\ L[i].at = "SEW"
        BY <1>2, <1>6, <1>11, <2>2
      <3>2. z
        BY <3>1 DEF Labels, Between, n, z
      <3>3. CASE j <= n
        <4>1. j \in 1 .. n /\ u[j] = r[j]
          BY <1>2, <1>4, <3>3
        <4> QED  BY <1>11, <3>1, <4>1 DEF Labels, n
      <3>4. CASE j > n
        <4>1. j - n \in 1 .. k /\ n + (j - n) = j
          BY <1>2, <1>4, <3>4
        <4>2. u[j] = s[j - n]
          BY <1>4, <4>1
        <4> QED  BY <1>3, <3>2, <4>1, <4>2
      <3> QED  BY <1>2, <3>3, <3>4
    <2> QED  BY <1>2, <2>1, <2>2
  <1>12. M[Len(u) + 1].at = "INPUT" /\ M \in [1 .. Len(u) + 1 -> Label]
    <2>1. k + 1 \in 1 .. k + 1 /\ n + (k + 1) = (n + k) + 1
      BY <1>2
    <2> QED  BY <1>1, <1>4, <1>6, <2>1
  <1>13. Labels(M, u)'
    BY <1>9, <1>10, <1>11, <1>12 DEF Labels
  <1>14. M[1].at = L[1].at /\ (r # <<>> => M[1] = L[1])
    <2>1. CASE n = 0
      <3>1. M[0 + 1] = N[1] /\ r = <<>>
        BY <1>2, <1>6, <2>1 DEF n
      <3> QED  BY <1>1, <1>5, <2>1, <3>1
    <2>2. CASE n # 0
      BY <1>2, <1>6, <2>2
    <2> QED  BY <2>1, <2>2
  <1> QED  BY <1>3, <1>13, <1>14 DEF u

\* A task begins with nothing.
LEMMA NothingRead == NoWork \in Locals /\ DOMAIN NoWork.chunk = {}
  <1>1. <<>> \in Seq(Element) /\ <<>> \in Seq(Bytes)
    OBVIOUS
  <1> QED  BY <1>1 DEF NoWork, Locals

\* Nothing has been said at first.
LEMMA InitInput == Init => InputInv
  <1> SUFFICES ASSUME Init PROVE InputInv
    OBVIOUS
  <1> USE DEF Init
  <1>1. InputTypes
    <2>1. <<>> \in Seq(Element) /\ <<>> \in Seq(Bytes)
      OBVIOUS
    <2> QED  BY <2>1, NothingRead DEF InputTypes
  <1>2. Compressed /\ Resting /\ NoFalseAlarm /\ Consent /\ SpinsLate
    BY DEF Compressed, Resting, NoFalseAlarm, Consent, SpinsLate, NoWork
  <1>3. Followed
    <2> DEFINE L == [i \in 1 .. 1 |-> [at |-> "INPUT", pos |-> 1]]
    <2>1. Len(<<>>) = 0 /\ <<>> \o wire = <<>> /\ <<>> \in Seq(Element)
      OBVIOUS
    <2>2. L \in [1 .. 1 -> Label] /\ L[1].at = "INPUT"
      BY DEF Label, Phases
    <2> HIDE DEF L
    <2>3. Labels(L, <<>>)
      BY <2>1, <2>2 DEF Labels
    <2>4. Matches(L[1])
      BY <2>2 DEF Matches, StateOf
    <2>5. Accounted(<<>>)
      BY DEF Accounted
    <2> QED  BY <2>1, <2>3, <2>4, <2>5 DEF Followed
  <1> QED  BY <1>1, <1>2, <1>3 DEF InputInv

\* What the input side is about.
Peculiar == {"cut", "late", "length", "nul", "long"}
inward == <<wire, said, pc, work, automaton, inflate, gone, typed, passed>>

\* Steps of the output side do not disturb it.
LEMMA Undisturbed ==
  ASSUME InputInv, UNCHANGED inward, \A y \in Peculiar : y \in quirks' <=> y \in quirks
  PROVE  InputInv'
  <1> USE DEF inward, automaton, Peculiar
  <1>1. InputTypes' /\ Resting' /\ Compressed'
    BY DEF InputInv, InputTypes, Resting, Compressed
  <1>2. NoFalseAlarm' /\ Consent' /\ SpinsLate'
    BY DEF InputInv, NoFalseAlarm, Consent, SpinsLate, Overflows, Decodes
  <1>3. Followed'
    <2> SUFFICES ASSUME Regular', ~gone', pc' \in Going
                 PROVE  \E rest \in Seq(Element) :
                           Accounted(rest)' /\ \E L : Labels(L, rest \o wire)' /\ Matches(L[1])'
      BY DEF Followed
    <2>0. PICK rest \in Seq(Element) :
             Accounted(rest) /\ \E L : Labels(L, rest \o wire) /\ Matches(L[1])
      BY DEF InputInv, Followed, Regular
    <2>1. PICK L : Accounted(rest) /\ Labels(L, rest \o wire) /\ Matches(L[1])
      BY <2>0
    <2>2. Accounted(rest)'
      BY <2>1 DEF Accounted
    <2>3. Labels(L, rest \o wire)' /\ Matches(L[1])'
      BY <2>1 DEF Labels, Between, Long, Matches
    <2> QED  BY <2>2, <2>3
  <1> QED  BY <1>1, <1>2, <1>3 DEF InputInv

\* The peer goes on talking.
LEMMA SaysMore == ASSUME InputInv, NEW m \in Messages, PeerSends(m) PROVE InputInv'
  <1>0. PICK s, z : s = Elements(m) /\ z = (BeginMCCP3 \in said)
    OBVIOUS
  <1>1. /\ wire' = wire \o s /\ said' = said \cup {m} /\ (m[1] = "IAC" => m \notin said)
        /\ UNCHANGED <<pc, work, state, last, args, mccp2, mccp3, inflate, gone, typed,
                       passed, quirks>>
    BY <1>0 DEF PeerSends, automaton
  <1>2. s \in Seq(Element) /\ \A i \in 1 .. Len(s) : s[i].zip = z
    <2>1. m \in Seq(Bytes)
      BY MessageAssumption
    <2>2. s = [i \in 1 .. Len(m) |->
                 [byte |-> m[i], zip |-> z,
                  kind |-> IF m[1] # "IAC" THEN "text" ELSE IF i = 1 THEN "start" ELSE "rest"]]
      BY <1>0, <2>1 DEF Elements
    <2>3. Len(m) \in Nat /\ \A i \in 1 .. Len(m) : m[i] \in Bytes
      BY <2>1
    <2>4. z \in BOOLEAN
      BY <1>0
    <2>5. s \in [1 .. Len(m) -> Element] /\ Len(s) = Len(m)
      BY <2>2, <2>3, <2>4 DEF Element
    <2> QED  BY <2>2, <2>3, <2>5
  <1>3. wire \in Seq(Element)
    BY DEF InputInv, InputTypes
  <1>4. /\ wire' \in Seq(Element)
        /\ \A i \in DOMAIN wire' : \/ i \in DOMAIN wire /\ wire'[i] = wire[i]
                                 \/ wire'[i].zip = z
    <2>1. /\ wire' \in Seq(Element) /\ Len(wire') = Len(wire) + Len(s)
          /\ \A i \in 1 .. Len(wire) + Len(s) :
                wire'[i] = IF i <= Len(wire) THEN wire[i] ELSE s[i - Len(wire)]
      BY <1>1, <1>2, <1>3, ConcatProperties
    <2>2. Len(wire) \in Nat /\ Len(s) \in Nat /\ DOMAIN wire = 1 .. Len(wire)
          /\ DOMAIN wire' = 1 .. Len(wire) + Len(s)
      BY <1>2, <1>3, <2>1
    <2>3. ASSUME NEW i \in 1 .. Len(wire) + Len(s)
          PROVE  \/ i \in DOMAIN wire /\ wire'[i] = wire[i]
                 \/ wire'[i].zip = z
      <3>1. CASE i <= Len(wire)
        BY <2>1, <2>2, <3>1
      <3>2. CASE i > Len(wire)
        <4>1. i - Len(wire) \in 1 .. Len(s) /\ wire'[i] = s[i - Len(wire)]
          BY <2>1, <2>2, <3>2
        <4> QED  BY <1>2, <4>1
      <3> QED  BY <2>2, <3>1, <3>2
    <2> QED  BY <2>1, <2>2, <2>3
  <1>5. InputTypes' /\ Resting'
    BY <1>1, <1>4 DEF InputInv, InputTypes, Resting
  <1>6. Compressed'
    BY <1>0, <1>1, <1>4 DEF InputInv, Compressed
  <1>7. NoFalseAlarm' /\ Consent' /\ SpinsLate'
    BY <1>1 DEF InputInv, NoFalseAlarm, Consent, SpinsLate, Overflows, Decodes
  <1>8. Followed'
    <2> SUFFICES ASSUME Regular', ~gone', pc' \in Going
                 PROVE  \E rest \in Seq(Element) :
                           Accounted(rest)' /\ \E L : Labels(L, rest \o wire)' /\ Matches(L[1])'
      BY DEF Followed
    <2>0. PICK rest \in Seq(Element) :
             Accounted(rest) /\ \E L : Labels(L, rest \o wire) /\ Matches(L[1])
      BY <1>1 DEF InputInv, Followed, Regular
    <2>1. PICK L : Accounted(rest) /\ Labels(L, rest \o wire) /\ Matches(L[1])
      BY <2>0
    <2>2. Accounted(rest)'
      BY <1>1, <2>1 DEF Accounted
    <2>3. PICK r \in Seq(Element) : r = rest \o wire /\ rest \o wire' = r \o s
      <3>1. rest \o wire \in Seq(Element)
        BY <1>3, ConcatProperties
      <3>2. rest \o (wire \o s) = (rest \o wire) \o s
        BY <1>2, <1>3, ElementsAssociate
      <3> QED  BY <1>1, <3>1, <3>2
    <2>4. Labels(L, r)
      BY <2>1, <2>3
    <2>5. PICK M : Labels(M, r \o s)' /\ M[1].at = L[1].at /\ (r # <<>> => M[1] = L[1])
      BY <1>0, <1>1, <2>4, LabelsAdd
    <2>6. Matches(M[1])'
      <3>1. CASE r # <<>>
        BY <1>1, <2>1, <2>5, <3>1 DEF Matches
      <3>2. CASE r = <<>>
        <4>1. L[1].at = "INPUT"
          BY <2>4, <3>2 DEF Labels
        <4>2. state = "INPUT"
          BY <2>1, <4>1 DEF Matches, StateOf
        <4> QED  BY <1>1, <2>5, <4>1, <4>2 DEF Matches, StateOf
      <3> QED  BY <3>1, <3>2
    <2>7. Labels(M, rest \o wire)'
      BY <2>3, <2>5 DEF Labels
    <2> QED  BY <2>2, <2>6, <2>7
  <1> QED  BY <1>5, <1>6, <1>7, <1>8 DEF InputInv

\* What has been read is all that the peer has sent so far.
LEMMA ReadMore == ASSUME InputInv, NEW n \in 1 .. ReadSize, Read(n) PROVE InputInv'
  <1>1. wire \in Seq(Element) /\ work.chunk \in Seq(Element) /\ typed \in Seq(Bytes)
        /\ passed \in Seq(Bytes)
    BY DEF InputInv, InputTypes, Locals
  <1>2. n \in 0 .. Len(wire)
    BY <1>1, TelnetAssumption DEF Read
  <1>3. PICK a \in Seq(Element), b \in Seq(Element) :
          /\ a = SubSeq(wire, 1, n) /\ b = SubSeq(wire, n + 1, Len(wire)) /\ wire = a \o b
          /\ Len(a) = n /\ Len(b) = Len(wire) - n
          /\ \A i \in 1 .. n : a[i] = wire[i]
          /\ \A i \in 1 .. (Len(wire) - n) : b[i] = wire[n + i]
    BY <1>1, <1>2, Cut
  <1>4. PICK c \in Seq(Element) : c = work.chunk
    BY <1>1
  <1>5. /\ wire' = b /\ typed' = typed \o Text(a) /\ work' = [work EXCEPT !.chunk = c \o a]
        /\ pc \in {"idle", "reading"} /\ pc' \in {"reading", "read"} /\ ~gone
        /\ UNCHANGED <<said, state, last, args, mccp2, mccp3, inflate, gone, passed, quirks>>
    BY <1>3, <1>4 DEF Read, automaton
  <1>6. c \o a \in Seq(Element) /\ Text(a) \in Seq(Bytes) /\ Text(c) \in Seq(Bytes)
    BY ConcatProperties, TextIsBytes
  <1>7. InputTypes'
    <2>1. typed' \in Seq(Bytes)
      BY <1>1, <1>5, <1>6, ConcatProperties
    <2> QED  BY <1>5, <1>6, <2>1 DEF InputInv, InputTypes, Locals
  <1>8. /\ work'.chunk = c \o a /\ work'.bytes = work.bytes /\ work'.todo = work.todo
        /\ work'.normal = work.normal /\ work'.had = work.had
    BY <1>5 DEF InputInv, InputTypes
  <1>9. Resting'
    BY <1>5 DEF Resting
  <1>10. Compressed'
    <2>1. \A i \in DOMAIN b : \E j \in DOMAIN wire : b[i] = wire[j]
      <3>1. DOMAIN wire = 1 .. Len(wire) /\ DOMAIN b = 1 .. (Len(wire) - n) /\ Len(wire) \in Nat
        BY <1>1, <1>3
      <3>2. ASSUME NEW i \in 1 .. (Len(wire) - n) PROVE n + i \in 1 .. Len(wire)
        BY <1>2, <3>1
      <3> QED  BY <1>3, <3>1, <3>2
    <2>2. \A i \in DOMAIN (c \o a) : (\E j \in DOMAIN wire : (c \o a)[i] = wire[j])
                                     \/ (\E j \in DOMAIN c : (c \o a)[i] = c[j])
      <3>1. /\ DOMAIN (c \o a) = 1 .. Len(c) + n /\ Len(c) \in Nat
            /\ \A i \in 1 .. Len(c) + n :
                  (c \o a)[i] = IF i <= Len(c) THEN c[i] ELSE a[i - Len(c)]
        BY <1>2, <1>3, <1>6, ConcatProperties
      <3> SUFFICES ASSUME NEW i \in 1 .. Len(c) + n
                   PROVE  (\E j \in DOMAIN wire : (c \o a)[i] = wire[j])
                          \/ (\E j \in DOMAIN c : (c \o a)[i] = c[j])
        BY <3>1
      <3>2. CASE i <= Len(c)
        <4>1. i \in DOMAIN c /\ (c \o a)[i] = c[i]
          BY <3>1, <3>2
        <4> QED  BY <4>1
      <3>3. CASE i > Len(c)
        <4>1. i - Len(c) \in 1 .. n /\ i - Len(c) \in DOMAIN wire
          BY <1>1, <1>2, <3>1, <3>3
        <4>2. (c \o a)[i] = wire[i - Len(c)]
          BY <1>3, <3>1, <3>3, <4>1
        <4> QED  BY <4>1, <4>2
      <3> QED  BY <3>1, <3>2, <3>3
    <2>3. pc = "idle" => c = <<>>
      BY <1>4 DEF InputInv, Resting, NoWork
    <2>4. pc = "idle" => DOMAIN c = {}
      BY <2>3
    <2>5. quirks \cap {"cut", "late"} = {} /\ mccp3 => \A j \in DOMAIN c : c[j].zip
      BY <1>4, <1>5, <2>4 DEF InputInv, Compressed
    <2>6. ((\E i \in DOMAIN wire' : wire'[i].zip)
             \/ (\E i \in DOMAIN work'.chunk : work'.chunk[i].zip) \/ "late" \in quirks')
             => BeginMCCP3 \in said'
      <3>1. (\E i \in DOMAIN wire : wire[i].zip) \/ (\E i \in DOMAIN c : c[i].zip)
              \/ "late" \in quirks => BeginMCCP3 \in said
        BY <1>4 DEF InputInv, Compressed
      <3>2. (\E i \in DOMAIN b : b[i].zip) => \E i \in DOMAIN wire : wire[i].zip
        BY <2>1
      <3>3. (\E i \in DOMAIN (c \o a) : (c \o a)[i].zip)
              => (\E i \in DOMAIN wire : wire[i].zip) \/ (\E i \in DOMAIN c : c[i].zip)
        BY <2>2
      <3> QED  BY <1>5, <1>8, <3>1, <3>2, <3>3
    <2>7. quirks \cap {"cut", "late"} = {} /\ mccp3
             => BeginMCCP3 \in said /\ (\A i \in DOMAIN wire' : wire'[i].zip)
                /\ (\A i \in DOMAIN work'.chunk : work'.chunk[i].zip)
      <3> SUFFICES ASSUME quirks \cap {"cut", "late"} = {}, mccp3
                   PROVE  /\ BeginMCCP3 \in said /\ \A i \in DOMAIN b : b[i].zip
                          /\ \A i \in DOMAIN (c \o a) : (c \o a)[i].zip
        BY <1>5, <1>8
      <3>1. BeginMCCP3 \in said /\ \A i \in DOMAIN wire : wire[i].zip
        BY DEF InputInv, Compressed
      <3>2. \A i \in DOMAIN c : c[i].zip
        BY <2>5
      <3> QED  BY <2>1, <2>2, <3>1, <3>2
    <2>8. /\ "length" \in quirks' => mccp3'
          /\ quirks' \cap {"cut", "late"} = {} => inflate' = "ok"
      BY <1>5 DEF InputInv, Compressed
    <2> QED  BY <1>5, <2>6, <2>7, <2>8 DEF Compressed
  <1>11. NoFalseAlarm' /\ Consent' /\ SpinsLate'
    BY <1>5 DEF InputInv, NoFalseAlarm, Consent, SpinsLate
  <1>12. Followed'
    <2> SUFFICES ASSUME Regular'
                 PROVE  \E rest \in Seq(Element) :
                           Accounted(rest)' /\ \E L : Labels(L, rest \o wire)' /\ Matches(L[1])'
      BY DEF Followed
    <2>0. PICK rest \in Seq(Element) :
             Accounted(rest) /\ \E L : Labels(L, rest \o wire) /\ Matches(L[1])
      BY <1>5 DEF InputInv, Followed, Regular, Going
    <2>1. PICK L : Accounted(rest) /\ Labels(L, rest \o wire) /\ Matches(L[1])
      BY <2>0
    <2>2. rest = c /\ work.normal = <<>> /\ ~work.had /\ typed = passed \o Text(c)
      <3>1. CASE pc = "reading"
        BY <1>4, <2>1, <3>1 DEF Accounted
      <3>2. CASE pc = "idle"
        <4>1. rest = <<>> /\ typed = passed
          BY <2>1, <3>2 DEF Accounted
        <4>2. work = NoWork
          BY <3>2 DEF InputInv, Resting
        <4>3. passed \o <<>> = passed
          BY <1>1, ConcatEmptySeq
        <4> QED  BY <1>4, <4>1, <4>2, <4>3, TextOfNone DEF NoWork
      <3> QED  BY <1>5, <3>1, <3>2
    <2>3. typed' = passed \o Text(c \o a)
      <3>1. Text(c \o a) = Text(c) \o Text(a)
        BY TextOfBoth
      <3>2. (passed \o Text(c)) \o Text(a) = passed \o (Text(c) \o Text(a))
        <4>1. passed \in Seq(Bytes) /\ Text(a) \in Seq(Bytes) /\ Text(c) \in Seq(Bytes)
          BY <1>1, <1>6
        <4> QED  BY <4>1, BytesAssociate
      <3> QED  BY <1>5, <2>2, <3>1, <3>2
    <2>4. Accounted(c \o a)'
      BY <1>5, <1>8, <2>2, <2>3 DEF Accounted
    <2>5. rest \o wire = (c \o a) \o wire'
      <3>1. (c \o a) \o b = c \o (a \o b)
        BY ElementsAssociate
      <3> QED  BY <1>3, <1>5, <2>2, <3>1
    <2>6. Labels(L, (c \o a) \o wire')
      BY <2>1, <2>5
    <2>7. Labels(L, (c \o a) \o wire)' /\ Matches(L[1])'
      BY <1>5, <2>1, <2>6 DEF Labels, Between, Long, Matches
    <2> QED  BY <1>6, <2>4, <2>7
  <1> QED  BY <1>7, <1>9, <1>10, <1>11, <1>12 DEF InputInv

\* The end of the input.
LEMMA ReadNothing == ASSUME InputInv, ReadEnd PROVE InputInv'
  <1>1. /\ work' = [work EXCEPT !.empty = TRUE]
        /\ pc \in {"idle", "reading"} /\ pc' = "read" /\ ~gone
        /\ UNCHANGED <<wire, said, state, last, args, mccp2, mccp3, inflate, gone, typed,
                       passed, quirks>>
    BY DEF ReadEnd, peer, automaton
  <1>2. /\ work'.chunk = work.chunk /\ work'.normal = work.normal /\ work'.had = work.had
    BY <1>1 DEF InputInv, InputTypes
  <1>3. InputTypes' /\ Resting'
    BY <1>1 DEF InputInv, InputTypes, Locals, Resting
  <1>4. Compressed'
    <2>1. pc = "idle" => DOMAIN work.chunk = {}
      BY DEF InputInv, Resting, NoWork
    <2> QED  BY <1>1, <1>2, <2>1 DEF InputInv, Compressed
  <1>5. NoFalseAlarm' /\ Consent' /\ SpinsLate'
    BY <1>1 DEF InputInv, NoFalseAlarm, Consent, SpinsLate
  <1>6. Followed'
    <2> SUFFICES ASSUME Regular'
                 PROVE  \E rest \in Seq(Element) :
                           Accounted(rest)' /\ \E L : Labels(L, rest \o wire)' /\ Matches(L[1])'
      BY DEF Followed
    <2>0. PICK rest \in Seq(Element) :
             Accounted(rest) /\ \E L : Labels(L, rest \o wire) /\ Matches(L[1])
      BY <1>1 DEF InputInv, Followed, Regular, Going
    <2>1. PICK L : Accounted(rest) /\ Labels(L, rest \o wire) /\ Matches(L[1])
      BY <2>0
    <2>2. rest = work.chunk /\ work.normal = <<>> /\ ~work.had /\ typed = passed \o Text(rest)
      <3>1. CASE pc = "reading"
        BY <2>1, <3>1 DEF Accounted
      <3>2. CASE pc = "idle"
        <4>1. rest = <<>> /\ typed = passed
          BY <2>1, <3>2 DEF Accounted
        <4>2. work = NoWork
          BY <3>2 DEF InputInv, Resting
        <4>3. passed \o <<>> = passed
          BY ConcatEmptySeq DEF InputInv, InputTypes
        <4> QED  BY <4>1, <4>2, <4>3, TextOfNone DEF NoWork
      <3> QED  BY <1>1, <3>1, <3>2
    <2>3. Accounted(rest)'
      BY <1>1, <1>2, <2>2 DEF Accounted
    <2>4. Labels(L, rest \o wire)' /\ Matches(L[1])'
      BY <1>1, <2>1 DEF Labels, Between, Long, Matches
    <2> QED  BY <2>3, <2>4
  <1> QED  BY <1>3, <1>4, <1>5, <1>6 DEF InputInv

\* Steps that leave what has been read alone.
LEMMA Ends ==
  ASSUME InputInv, TooFast \/ Disconnect \/ PeerCloses
  PROVE  InputInv'
  <1>1. CASE TooFast
    <2>1. pc = "read" /\ pc' = "refuse" /\ quirks' = quirks \cup {"fast"}
          /\ UNCHANGED <<wire, said, work, state, last, args, mccp2, mccp3, inflate, gone,
                         typed, passed>>
      BY <1>1 DEF TooFast, peer, automaton
    <2>2. Resting' /\ InputTypes' /\ Compressed'
      BY <2>1 DEF InputInv, InputTypes, Resting, Compressed
    <2>3. NoFalseAlarm' /\ Consent' /\ SpinsLate' /\ Followed'
      BY <2>1 DEF InputInv, NoFalseAlarm, Consent, SpinsLate, Followed, Going
    <2> QED  BY <2>2, <2>3 DEF InputInv
  <1>2. CASE Disconnect
    <2>1. gone' /\ pc' = "idle" /\ work' = NoWork /\ pc = "close"
          /\ UNCHANGED <<wire, said, state, last, args, mccp2, mccp3, inflate, quirks,
                         typed, passed>>
      BY <1>2 DEF Disconnect, peer, automaton
    <2>2. Resting' /\ Compressed'
      BY <2>1, NothingRead DEF InputInv, Resting, Compressed
    <2>3. InputTypes'
      BY <2>1, NothingRead DEF InputInv, InputTypes
    <2>4. NoFalseAlarm' /\ Consent' /\ SpinsLate' /\ Followed'
      BY <2>1 DEF InputInv, NoFalseAlarm, Consent, SpinsLate, Followed
    <2> QED  BY <2>2, <2>3, <2>4 DEF InputInv
  <1>3. CASE PeerCloses
    <2>1. UNCHANGED inward /\ quirks' = quirks
      BY <1>3 DEF PeerCloses, inward, automaton
    <2> QED  BY <2>1, Undisturbed
  <1> QED  BY <1>1, <1>2, <1>3

\* Without an IAC, and without the end of a command before it, all of a chunk is
\* text, and the peer is between messages after it.
LEMMA AllText ==
  ASSUME NEW c \in Seq(Element), c # <<>>, NEW t \in Seq(Element), NEW L, Labels(L, c \o t),
         \A i \in 1 .. Len(c) : c[i].byte # "IAC", c[1].kind # "rest"
  PROVE  /\ Text(c) = [i \in 1 .. Len(c) |-> c[i].byte]
         /\ L[1].at = "INPUT" /\ L[Len(c) + 1].at = "INPUT"
  <1> DEFINE n == Len(c)
             r == c \o t
             T == {i \in 1 .. n : c[i].kind # "text"}
  <1>1. /\ n \in Nat \ {0} /\ r \in Seq(Element) /\ Len(t) \in Nat /\ Len(r) = n + Len(t)
        /\ \A i \in 1 .. n : r[i] = c[i]
    BY Joined
  <1>2. /\ \A i \in 1 .. Len(r) : Between(r[i], L[i], L[i + 1])
        /\ \A i \in 1 .. (Len(r) - 1) : r[i].kind = "text" => r[i + 1].kind # "rest"
    BY DEF Labels
  <1>3. \A i \in 1 .. n : c[i].kind \in {"text", "start", "rest"}
    <2>1. \A i \in 1 .. n : c[i] \in Element
      OBVIOUS
    <2> QED  BY <2>1 DEF Element
  <1> HIDE DEF n, r, T
  <1>4. ASSUME NEW i \in 1 .. n PROVE Between(c[i], L[i], L[i + 1]) /\ c[i].kind # "start"
    <2>1. i \in 1 .. Len(r) /\ r[i] = c[i]
      BY <1>1
    <2>2. Between(c[i], L[i], L[i + 1])
      BY <1>2, <2>1
    <2> QED  BY <2>2 DEF Between, n
  <1>5. ASSUME T # {} PROVE FALSE
    <2>1. PICK k \in T : \A y \in T : ~(y < k)
      <3>1. T \in SUBSET Nat
        BY <1>1 DEF T
      <3> QED  BY <1>5, <3>1, LeastNumber
    <2>2. k \in 1 .. n /\ c[k].kind = "rest"
      BY <1>3, <1>4, <2>1 DEF T
    <2>3. k # 1
      BY <2>2
    <2>4. k - 1 \in 1 .. n /\ k - 1 < k /\ k - 1 \in 1 .. (Len(r) - 1) /\ (k - 1) + 1 = k
      BY <1>1, <2>2, <2>3
    <2>5. c[k - 1].kind = "text"
      BY <2>1, <2>4 DEF T
    <2>6. r[k].kind # "rest"
      BY <1>1, <1>2, <2>4, <2>5
    <2> QED  BY <1>1, <2>2, <2>6
  <1>6. \A i \in 1 .. n : c[i].kind = "text"
    BY <1>5 DEF T
  <1>7. 1 \in 1 .. n /\ n \in 1 .. n
    BY <1>1
  <1>8. L[1].at = "INPUT" /\ L[n + 1].at = "INPUT"
    BY <1>4, <1>6, <1>7 DEF Between
  <1> QED  BY <1>6, <1>8, TextOfText DEF n

\* What is scanned accounts for the chunk.
LEMMA Scanned ==
  ASSUME InputInv, pc = "read", NEW bytes \in Seq(Bytes), NEW todo \in Seq(Bytes),
         Scan(bytes, todo),
         UNCHANGED <<wire, said, state, last, args, mccp2, mccp3, gone, typed, passed>>,
         quirks \subseteq quirks',
         work.chunk # <<>> => Quirks(work.chunk, bytes, todo) \subseteq quirks',
         Regular' => bytes = [i \in 1 .. Len(work.chunk) |-> work.chunk[i].byte]
  PROVE  Followed' /\ InputTypes' /\ Resting'
  <1>1. PICK c \in Seq(Element) : c = work.chunk
    BY DEF InputInv, InputTypes, Locals
  <1>2. PICK has : has = HasIAC(bytes)
    OBVIOUS
  <1>3. PICK w : w = IF has THEN todo ELSE <<>>
    OBVIOUS
  <1>4. /\ work' = [work EXCEPT !.bytes = bytes, !.todo = w]
        /\ pc' = "scan" /\ ~gone
    BY <1>2, <1>3 DEF Scan, InputInv, Resting
  <1>5. /\ work'.bytes = bytes /\ work'.todo = w /\ work'.chunk = c
        /\ work'.normal = work.normal /\ work'.had = work.had
    BY <1>1, <1>4 DEF InputInv, InputTypes
  <1>6. Resting'
    BY <1>4 DEF Resting
  <1>7. Followed'
    <2> SUFFICES ASSUME Regular'
                 PROVE  \E rest \in Seq(Element) :
                           Accounted(rest)' /\ \E L : Labels(L, rest \o wire)' /\ Matches(L[1])'
      BY DEF Followed
    <2>1. Regular
      BY DEF Regular
    <2>0. PICK rest \in Seq(Element) :
             Accounted(rest) /\ \E L : Labels(L, rest \o wire) /\ Matches(L[1])
      BY <1>4, <2>1 DEF InputInv, Followed, Going
    <2>2. PICK L : Accounted(rest) /\ Labels(L, rest \o wire) /\ Matches(L[1])
      BY <2>0
    <2>3. rest = c /\ work.normal = <<>> /\ ~work.had /\ typed = passed \o Text(c)
      BY <1>1, <2>2 DEF Accounted
    <2>4. bytes = [i \in 1 .. Len(c) |-> c[i].byte] /\ Len(c) \in Nat /\ Len(bytes) = Len(c)
      BY <1>1
    <2>5. has <=> \E i \in 1 .. Len(c) : c[i].byte = "IAC"
      BY <1>2, <2>4 DEF HasIAC, ToSet
    <2>6. CASE has
      <3>1. c # <<>>
        BY <2>5, <2>6
      <3>2. w = bytes
        BY <1>1, <1>2, <1>3, <2>6, <3>1 DEF Quirks, Regular
      <3>3. (\E i \in 1 .. Len(c) : c[i].byte = "NUL") => "nul" \in quirks'
        <4> SUFFICES ASSUME NEW i \in 1 .. Len(c), c[i].byte = "NUL" PROVE "nul" \in quirks'
          OBVIOUS
        <4>1. "NUL" \in ToSet(bytes)
          BY <2>4 DEF ToSet
        <4> QED  BY <1>1, <1>2, <2>6, <3>1, <4>1 DEF Quirks
      <3>4. work'.normal \o Text(c) = Text(c) /\ Text(c) \in Seq(Bytes)
        BY <1>5, <2>3, TextIsBytes, ConcatEmptySeq
      <3>5. Len(Text(c)) <= NormalCapacity \/ "long" \in quirks'
        <4>1. Len(Text(c)) > NormalCapacity => "long" \in quirks'
          BY <1>1, <1>2, <2>6, <3>1 DEF Quirks
        <4> QED  BY <3>4, <4>1, TelnetAssumption
      <3>6. HasIAC(work'.bytes) /\ \E i \in 1 .. Len(c) : c[i].byte = "IAC"
        BY <1>2, <1>5, <2>5, <2>6
      <3>7. Len(work'.todo) = Len(c) /\ \A i \in 1 .. Len(c) : work'.todo[i] = c[i].byte
        BY <1>5, <2>4, <3>2
      <3>8. typed' = passed' \o (work'.normal \o Text(c))
        BY <2>3, <3>4
      <3>9. Accounted(c)'
        BY <1>4, <3>3, <3>4, <3>5, <3>6, <3>7, <3>8 DEF Accounted
      <3>10. Labels(L, c \o wire)' /\ Matches(L[1])'
        BY <2>2, <2>3 DEF Labels, Between, Long, Matches
      <3> QED  BY <3>9, <3>10
    <2>7. CASE ~has
      <3>1. w = <<>>
        BY <1>3, <2>7
      <3>2. Text(c) = bytes /\ \E M : Labels(M, wire) /\ Matches(M[1])
        <4>1. CASE c = <<>>
          <5>1. bytes = <<>>
            BY <2>4, <4>1
          <5>2. c \o wire = wire
            BY <4>1, ConcatEmptySeq DEF InputInv, InputTypes
          <5> QED  BY <2>2, <2>3, <4>1, <5>1, <5>2, TextOfNone
        <4>2. CASE c # <<>>
          <5>1. c[1].kind # "rest"
            <6>1. Head(c) = c[1]
              BY <4>2
            <6>2. ~HasIAC(bytes) /\ "cut" \notin quirks'
              BY <1>2, <2>7 DEF Regular
            <6> QED  BY <1>1, <4>2, <6>1, <6>2 DEF Quirks
          <5>2. wire \in Seq(Element)
            BY DEF InputInv, InputTypes
          <5>3. Text(c) = bytes /\ L[1].at = "INPUT" /\ L[Len(c) + 1].at = "INPUT"
            BY <2>2, <2>3, <2>4, <2>5, <2>7, <4>2, <5>1, <5>2, AllText
          <5>4. Labels([i \in 1 .. Len(wire) + 1 |-> L[Len(c) + i]], wire)
            BY <2>2, <2>3, <5>2, LabelsDrop
          <5>5. [i \in 1 .. Len(wire) + 1 |-> L[Len(c) + i]][1] = L[Len(c) + 1]
            BY <5>2
          <5>6. state = "INPUT"
            BY <2>2, <5>3 DEF Matches, StateOf
          <5>7. Matches(L[Len(c) + 1])
            BY <5>3, <5>6 DEF Matches, StateOf
          <5> QED  BY <5>3, <5>4, <5>5, <5>7
        <4> QED  BY <4>1, <4>2
      <3>3. PICK M : Labels(M, wire) /\ Matches(M[1])
        BY <3>2
      <3>4. <<>> \in Seq(Element) /\ <<>> \o wire = wire /\ Len(<<>>) = 0
        BY ConcatEmptySeq DEF InputInv, InputTypes
      <3>5. Accounted(<<>>)'
        <4>1. work'.normal \o Text(<<>>) = <<>>
          BY <1>5, <2>3, TextOfNone
        <4>2. ~HasIAC(work'.bytes) /\ typed' = passed' \o work'.bytes
          BY <1>2, <1>5, <2>3, <2>7, <3>2
        <4>3. Len(work'.normal \o Text(<<>>)) <= NormalCapacity
          BY <3>4, <4>1, TelnetAssumption
        <4>4. Len(work'.todo) = 0 /\ ~work'.had
          BY <1>5, <2>3, <3>1, <3>4
        <4> QED  BY <1>4, <3>4, <4>2, <4>3, <4>4 DEF Accounted
      <3>6. Labels(M, <<>> \o wire)' /\ Matches(M[1])'
        <4>1. Labels(M, wire)'
          BY <3>3 DEF Labels, Between, Long
        <4>2. <<>> \o wire' = wire'
          BY <3>4
        <4> QED  BY <3>3, <4>1, <4>2 DEF Matches
      <3> QED  BY <3>4, <3>5, <3>6
    <2> QED  BY <2>6, <2>7
  <1>8. InputTypes'
    <2>1. w \in Seq(Bytes)
      BY <1>3
    <2>2. work' \in Locals
      BY <1>4, <2>1 DEF InputInv, InputTypes, Locals
    <2> QED  BY <2>2 DEF InputInv, InputTypes
  <1> QED  BY <1>6, <1>7, <1>8

\* Nothing to scan.
LEMMA ScansNothing == ASSUME InputInv, ScanEmpty PROVE InputInv'
  <1>1. /\ pc = "read" /\ work.chunk = <<>> /\ Scan(<<>>, <<>>)
        /\ UNCHANGED <<wire, said, state, last, args, mccp2, mccp3, inflate, gone, typed,
                       passed, quirks>>
    BY DEF ScanEmpty, peer, automaton
  <1>2. <<>> \in Seq(Bytes) /\ <<>> = [i \in 1 .. Len(<<>>) |-> <<>>[i].byte]
    OBVIOUS
  <1>3. Followed' /\ InputTypes' /\ Resting'
    BY <1>1, <1>2, Scanned
  <1>4. pc' = "scan" /\ work'.chunk = work.chunk
    BY <1>1 DEF Scan, InputInv, InputTypes
  <1>5. NoFalseAlarm' /\ Consent' /\ SpinsLate'
    BY <1>1, <1>4 DEF InputInv, NoFalseAlarm, Consent, SpinsLate
  <1>6. Compressed'
    BY <1>1, <1>4 DEF InputInv, Compressed
  <1> QED  BY <1>3, <1>5, <1>6 DEF InputInv

\* Bytes as they came.
LEMMA ScansPlain == ASSUME InputInv, ScanPlain PROVE InputInv'
  <1>1. PICK c \in Seq(Element) : c = work.chunk
    BY DEF InputInv, InputTypes, Locals
  <1>2. PICK late \in BOOLEAN : late = \E i \in DOMAIN c : c[i].zip
    OBVIOUS
  <1>0. PICK garbled \in {"IAC", "X", "NUL"} :
          LET bs == [i \in DOMAIN c |-> IF c[i].zip THEN garbled ELSE c[i].byte]
          IN  /\ Scan(bs, bs) /\ inflate' = IF late THEN "lost" ELSE inflate
              /\ quirks' = quirks \cup Quirks(c, bs, bs) \cup (IF late THEN {"late"} ELSE {})
    BY <1>1, <1>2 DEF ScanPlain
  <1>3. PICK bytes :
          /\ bytes = [i \in DOMAIN c |-> IF c[i].zip THEN garbled ELSE c[i].byte]
          /\ Scan(bytes, bytes) /\ inflate' = IF late THEN "lost" ELSE inflate
          /\ quirks' = quirks \cup Quirks(c, bytes, bytes) \cup (IF late THEN {"late"} ELSE {})
    BY <1>0
  <1>4. /\ pc = "read" /\ c # <<>> /\ ~mccp3
        /\ UNCHANGED <<wire, said, state, last, args, mccp2, mccp3, gone, typed, passed>>
    BY <1>1 DEF ScanPlain, peer, automaton
  <1>5. bytes \in Seq(Bytes)
    <2>1. DOMAIN c = 1 .. Len(c) /\ Len(c) \in Nat /\ \A i \in 1 .. Len(c) : c[i] \in Element
      OBVIOUS
    <2>2. \A i \in 1 .. Len(c) : (IF c[i].zip THEN garbled ELSE c[i].byte) \in Bytes
      BY <2>1 DEF Element, Bytes
    <2> QED  BY <1>3, <2>1, <2>2
  <1>6. Regular' => bytes = [i \in 1 .. Len(c) |-> c[i].byte]
    <2>1. DOMAIN c = 1 .. Len(c)
      OBVIOUS
    <2>2. Regular' => ~late
      BY <1>3 DEF Regular
    <2> QED  BY <1>2, <1>3, <2>1, <2>2
  <1>7. Followed' /\ InputTypes' /\ Resting'
    BY <1>1, <1>3, <1>4, <1>5, <1>6, Scanned
  <1>8. pc' = "scan" /\ work'.chunk = c
    BY <1>1, <1>3 DEF Scan, InputInv, InputTypes
  <1>9. NoFalseAlarm' /\ Consent' /\ SpinsLate'
    BY <1>3, <1>4, <1>8 DEF InputInv, NoFalseAlarm, Consent, SpinsLate
  <1>10. "length" \notin Quirks(c, bytes, bytes) /\ "late" \notin Quirks(c, bytes, bytes)
    BY DEF Quirks
  <1>11. Compressed'
    <2>1. "late" \in quirks' => late \/ "late" \in quirks
      BY <1>3, <1>10
    <2>2. "length" \notin quirks'
      BY <1>3, <1>4, <1>10 DEF InputInv, Compressed
    <2>3. (\E i \in DOMAIN c : c[i].zip) <=> late
      BY <1>2
    <2>4. quirks' \cap {"cut", "late"} = {} => inflate' = "ok"
      BY <1>3 DEF InputInv, Compressed
    <2>5. (\E i \in DOMAIN wire : wire[i].zip) \/ late \/ "late" \in quirks
             => BeginMCCP3 \in said
      BY <1>1, <2>3 DEF InputInv, Compressed
    <2> QED  BY <1>4, <1>8, <2>1, <2>2, <2>3, <2>4, <2>5 DEF Compressed
  <1> QED  BY <1>7, <1>9, <1>11 DEF InputInv

\* Decompressed bytes.
LEMMA ScansZip == ASSUME InputInv, ScanZip PROVE InputInv'
  <1>1. PICK c \in Seq(Element) : c = work.chunk
    BY DEF InputInv, InputTypes, Locals
  <1>2. PICK bytes : bytes = [i \in DOMAIN c |-> c[i].byte]
    OBVIOUS
  <1>3. PICK todo \in {SubSeq(bytes, 1, z) : z \in 1 .. Len(bytes)}
                        \cup {Append(bytes, x) : x \in {"NUL", "X"}} :
          Scan(bytes, todo) /\ quirks' = quirks \cup Quirks(c, bytes, todo)
    BY <1>1, <1>2 DEF ScanZip
  <1>4. /\ pc = "read" /\ c # <<>> /\ mccp3
        /\ UNCHANGED <<wire, said, state, last, args, mccp2, mccp3, inflate, gone, typed, passed>>
    BY <1>1 DEF ScanZip, peer, automaton
  <1>5. bytes \in Seq(Bytes) /\ bytes = [i \in 1 .. Len(c) |-> c[i].byte]
    <2>1. DOMAIN c = 1 .. Len(c) /\ Len(c) \in Nat /\ \A i \in 1 .. Len(c) : c[i] \in Element
      OBVIOUS
    <2>2. \A i \in 1 .. Len(c) : c[i].byte \in Bytes
      BY <2>1 DEF Element
    <2> QED  BY <1>2, <2>1, <2>2
  <1>6. todo \in Seq(Bytes)
    <2>1. CASE todo \in {SubSeq(bytes, 1, z) : z \in 1 .. Len(bytes)}
      <3>1. PICK z \in 1 .. Len(bytes) : todo = SubSeq(bytes, 1, z)
        BY <2>1
      <3> QED  BY <1>5, <3>1
    <2>2. CASE todo \in {Append(bytes, x) : x \in {"NUL", "X"}}
      <3>1. PICK x \in {"NUL", "X"} : todo = Append(bytes, x)
        BY <2>2
      <3>2. x \in Bytes
        BY DEF Bytes
      <3> QED  BY <1>5, <3>1, <3>2
    <2> QED  BY <2>1, <2>2
  <1>7. Followed' /\ InputTypes' /\ Resting'
    BY <1>1, <1>3, <1>4, <1>5, <1>6, Scanned
  <1>8. pc' = "scan" /\ work'.chunk = c
    BY <1>1, <1>3 DEF Scan, InputInv, InputTypes
  <1>9. NoFalseAlarm' /\ Consent' /\ SpinsLate'
    BY <1>3, <1>4, <1>8 DEF InputInv, NoFalseAlarm, Consent, SpinsLate
  <1>10. "late" \in quirks' => "late" \in quirks
    BY <1>3 DEF Quirks
  <1>11. Compressed'
    <2>1. quirks' \cap {"cut", "late"} = {} => quirks \cap {"cut", "late"} = {}
      BY <1>3
    <2> QED  BY <1>1, <1>4, <1>8, <1>10, <2>1 DEF InputInv, Compressed
  <1> QED  BY <1>7, <1>9, <1>11 DEF InputInv

\* Decompression fails for bytes that the peer has not compressed or that follow
\* missing ones, and loops for those that follow a failure or overflow.
LEMMA DecodesNot == ASSUME InputInv, DecodeFails \/ Spin PROVE InputInv'
  <1>1. pc = "read" /\ mccp3
        /\ UNCHANGED <<wire, said, state, last, args, mccp2, mccp3, gone, typed, passed, quirks>>
    BY DEF DecodeFails, Spin, peer, automaton
  <1>2. quirks \cap {"cut", "late"} = {} => Decodes(work.chunk) /\ inflate = "ok"
    BY <1>1 DEF InputInv, Compressed, Decodes
  <1>3. CASE DecodeFails
    <2>1. inflate' = "ended" /\ pc' = "idle" /\ work' = NoWork /\ quirks \cap {"cut", "late"} # {}
      BY <1>2, <1>3 DEF DecodeFails
    <2>2. InputTypes' /\ Resting'
      BY <1>1, <2>1, NothingRead DEF InputInv, InputTypes, Resting
    <2>3. Compressed' /\ Followed'
      BY <1>1, <2>1, NothingRead DEF InputInv, Compressed, Followed, Regular
    <2>4. NoFalseAlarm' /\ Consent' /\ SpinsLate'
      BY <1>1, <2>1 DEF InputInv, NoFalseAlarm, Consent, SpinsLate
    <2> QED  BY <2>2, <2>3, <2>4 DEF InputInv
  <1>4. CASE Spin
    <2>1. inflate = "ended" \/ Overflows(work.chunk)
      BY <1>4 DEF Spin
    <2>2. pc' = "spins" /\ work' = work /\ inflate' = inflate
      BY <1>4 DEF Spin
    <2>3. InputTypes' /\ Resting' /\ Compressed' /\ Followed'
      BY <1>1, <2>2 DEF InputInv, InputTypes, Resting, Compressed, Followed, Going
    <2>4. SpinsLate'
      BY <1>1, <1>2, <2>1, <2>2 DEF SpinsLate, Overflows, Decodes
    <2>5. NoFalseAlarm' /\ Consent'
      BY <1>1 DEF InputInv, NoFalseAlarm, Consent
    <2> QED  BY <2>3, <2>4, <2>5 DEF InputInv
  <1> QED  BY <1>3, <1>4

-----------------------------------------------------------------------------
\* The byte x is that of element e, between the labels p and M[1]; rest remains.
Ahead(x, e, p, rest, M) ==
    /\ e \in Element /\ rest \in Seq(Element) /\ e.byte = x
    /\ p \in Label /\ M[1] \in Label /\ Between(e, p, M[1]) /\ Matches(p)
    /\ Labels(M, rest \o wire) /\ (p.at = "SEW" => \A i \in DOMAIN wire : wire[i].zip)
    /\ HasIAC(work.bytes)
    /\ Len(Tail(work.todo)) = Len(rest)
    /\ \A i \in 1 .. Len(rest) : Tail(work.todo)[i] = rest[i].byte
    /\ LET normal == IF e.kind = "text" THEN Append(work.normal, x) ELSE work.normal
       IN  /\ typed = passed \o (normal \o Text(rest))
           /\ Len(normal \o Text(rest)) <= NormalCapacity \/ "long" \in quirks
    /\ work.had \/ x = "IAC" \/ \E i \in 1 .. Len(rest) : rest[i].byte = "IAC"
    /\ x = "NUL" \/ (\E i \in 1 .. Len(rest) : rest[i].byte = "NUL") => "nul" \in quirks

\* There is such an element.
LEMMA NextByte ==
  ASSUME InputInv, Regular, NEW x, Takes(x)
  PROVE  \E e, p, rest, M : Ahead(x, e, p, rest, M)
  <1>1. pc = "scan" /\ work.todo # <<>> /\ x = Head(work.todo)
    BY DEF Takes
  <1>2. /\ wire \in Seq(Element) /\ work.todo \in Seq(Bytes) /\ work.normal \in Seq(Bytes)
        /\ passed \in Seq(Bytes) /\ ~gone
    BY <1>1 DEF InputInv, InputTypes, Locals, Resting
  <1>0. PICK r \in Seq(Element) :
          Accounted(r) /\ \E L : Labels(L, r \o wire) /\ Matches(L[1])
    BY <1>1, <1>2 DEF InputInv, Followed, Going
  <1>3. PICK L : Accounted(r) /\ Labels(L, r \o wire) /\ Matches(L[1])
    BY <1>0
  <1>4. /\ Len(work.todo) = Len(r) /\ \A i \in 1 .. Len(r) : work.todo[i] = r[i].byte
        /\ typed = passed \o (IF HasIAC(work.bytes) THEN work.normal \o Text(r) ELSE work.bytes)
        /\ HasIAC(work.bytes) => work.had \/ \E i \in 1 .. Len(r) : r[i].byte = "IAC"
        /\ ~HasIAC(work.bytes) => ~work.had /\ r = <<>>
        /\ Len(work.normal \o Text(r)) <= NormalCapacity \/ "long" \in quirks
        /\ (\E i \in 1 .. Len(r) : r[i].byte = "NUL") => "nul" \in quirks
    BY <1>1, <1>3 DEF Accounted
  <1>5. Len(r) \in Nat \ {0} /\ 1 \in 0 .. Len(r) /\ HasIAC(work.bytes)
    BY <1>1, <1>2, <1>4
  <1>6. PICK a \in Seq(Element), b \in Seq(Element) :
          /\ r = a \o b /\ Len(a) = 1 /\ Len(b) = Len(r) - 1 /\ a[1] = r[1]
          /\ \A i \in 1 .. (Len(r) - 1) : b[i] = r[1 + i]
    <2>1. 1 \in 1 .. 1 /\ Len(SubSeq(r, 1, 1)) = 1
      BY <1>5, Cut
    <2>2. SubSeq(r, 1, 1)[1] = r[1]
      BY <1>5, <2>1, Cut
    <2>3. /\ SubSeq(r, 1, 1) \in Seq(Element) /\ SubSeq(r, 1 + 1, Len(r)) \in Seq(Element)
          /\ Len(SubSeq(r, 1 + 1, Len(r))) = Len(r) - 1
          /\ \A i \in 1 .. (Len(r) - 1) : SubSeq(r, 1 + 1, Len(r))[i] = r[1 + i]
          /\ r = SubSeq(r, 1, 1) \o SubSeq(r, 1 + 1, Len(r))
      BY <1>5, Cut
    <2> QED  BY <2>1, <2>2, <2>3
  <1>7. PICK e \in Element : e = r[1] /\ a = Append(<<>>, e)
    BY <1>5, <1>6
  <1>8. e.byte = x /\ x \in Bytes
    BY <1>1, <1>2, <1>4, <1>5, <1>7
  <1>9. PICK normal : normal = IF e.kind = "text" THEN Append(work.normal, x) ELSE work.normal
    OBVIOUS
  <1>10. work.normal \o Text(r) = normal \o Text(b)
    <2>1. Text(r) = Text(a) \o Text(b) /\ Text(a) \in Seq(Bytes) /\ Text(b) \in Seq(Bytes)
      BY <1>6, TextOfBoth, TextIsBytes
    <2>2. Text(a) = IF e.kind = "text" THEN Append(<<>>, x) ELSE <<>>
      <3>1. <<>> \in Seq(Element)
        OBVIOUS
      <3> QED  BY <1>7, <1>8, <3>1, TextOfMore, TextOfNone
    <2>3. work.normal \o Text(a) = normal
      <3>1. <<>> \in Seq(Bytes) /\ work.normal \o <<>> = work.normal
        BY <1>2, ConcatEmptySeq
      <3>2. Append(work.normal \o <<>>, x) = work.normal \o Append(<<>>, x)
        BY <1>2, <1>8, <3>1, AppendAfter
      <3> QED  BY <1>9, <2>2, <3>1, <3>2
    <2>4. (work.normal \o Text(a)) \o Text(b) = work.normal \o (Text(a) \o Text(b))
      BY <1>2, <2>1, BytesAssociate
    <2> QED  BY <2>1, <2>3, <2>4
  <1>11. /\ Len(Tail(work.todo)) = Len(b)
         /\ \A i \in 1 .. Len(b) : Tail(work.todo)[i] = b[i].byte
    <2>1. Len(Tail(work.todo)) = Len(b)
      BY <1>1, <1>2, <1>4, <1>6
    <2>2. ASSUME NEW i \in 1 .. Len(b) PROVE Tail(work.todo)[i] = b[i].byte
      <3>1. 1 + i \in 1 .. Len(r) /\ i \in 1 .. (Len(r) - 1)
        BY <1>5, <1>6
      <3>2. Tail(work.todo)[i] = work.todo[1 + i]
        BY <1>1, <1>2, <1>4, <3>1
      <3> QED  BY <1>4, <1>6, <3>1, <3>2
    <2> QED  BY <2>1, <2>2
  <1>12. \A i \in 1 .. Len(r) : i = 1 \/ (i - 1 \in 1 .. Len(b) /\ b[i - 1] = r[i])
    <2> SUFFICES ASSUME NEW i \in 1 .. Len(r), i # 1
                 PROVE  i - 1 \in 1 .. Len(b) /\ b[i - 1] = r[i]
      OBVIOUS
    <2>1. i - 1 \in 1 .. (Len(r) - 1) /\ 1 + (i - 1) = i
      BY <1>5
    <2> QED  BY <1>6, <2>1
  <1>13. work.had \/ x = "IAC" \/ \E i \in 1 .. Len(b) : b[i].byte = "IAC"
    <2>1. CASE work.had
      BY <2>1
    <2>2. CASE ~work.had
      <3>1. PICK i \in 1 .. Len(r) : r[i].byte = "IAC"
        BY <1>4, <1>5, <2>2
      <3> QED  BY <1>7, <1>8, <1>12, <3>1
    <2> QED  BY <2>1, <2>2
  <1>14. x = "NUL" \/ (\E i \in 1 .. Len(b) : b[i].byte = "NUL") => "nul" \in quirks
    <2>1. \A i \in 1 .. Len(b) : 1 + i \in 1 .. Len(r) /\ b[i] = r[1 + i]
      BY <1>5, <1>6
    <2> QED  BY <1>4, <1>5, <1>7, <1>8, <2>1
  <1>15. PICK t \in Seq(Element) : t = b \o wire /\ r \o wire = a \o t
    <2>1. (a \o b) \o wire = a \o (b \o wire)
      BY <1>2, ElementsAssociate
    <2> QED  BY <1>2, <1>6, <2>1, Joined
  <1>16. PICK M : M = [i \in 1 .. Len(t) + 1 |-> L[1 + i]]
    OBVIOUS
  <1>17. Labels(M, t)
    BY <1>3, <1>6, <1>15, <1>16, LabelsDrop
  <1>18. Len(t) \in Nat /\ Len(a \o t) = 1 + Len(t) /\ (a \o t)[1] = e
         /\ \A i \in 1 .. Len(t) : (a \o t)[1 + i] = t[i]
    <2>1. /\ Len(a \o t) = Len(a) + Len(t) /\ \A i \in 1 .. Len(a) : (a \o t)[i] = a[i]
          /\ \A i \in 1 .. Len(t) : (a \o t)[Len(a) + i] = t[i]
      BY Joined
    <2>2. Len(t) \in Nat /\ 1 \in 1 .. Len(a) /\ a[1] = e
      BY <1>6, <1>7
    <2> QED  BY <1>6, <2>1, <2>2
  <1>19. /\ L[1] \in Label /\ M[1] \in Label /\ M[1] = L[2] /\ Between(e, L[1], M[1])
    <2>1. M[1] = L[2] /\ 1 \in 1 .. Len(a \o t) /\ 1 \in 1 .. Len(t) + 1
          /\ 1 \in 1 .. Len(a \o t) + 1
      BY <1>16, <1>18
    <2>2. L[1] \in Label /\ Between(e, L[1], L[1 + 1])
      BY <1>3, <1>15, <1>18, <2>1 DEF Labels
    <2>3. M[1] \in Label
      BY <1>17, <2>1 DEF Labels
    <2> QED  BY <2>1, <2>2, <2>3
  <1>20. ASSUME L[1].at = "SEW", NEW i \in DOMAIN wire PROVE wire[i].zip
    <2>1. i \in 1 .. Len(wire) /\ Len(b) \in Nat
      BY <1>2
    <2>2. Len(b) + i \in 1 .. Len(t) /\ t[Len(b) + i] = wire[i]
      <3>1. Len(t) = Len(b) + Len(wire) /\ t[Len(b) + i] = wire[i]
        BY <1>2, <1>15, <2>1, Joined
      <3> QED  BY <1>2, <2>1, <3>1
    <2>3. PICK j \in 1 .. Len(t) : t[j] = wire[i]
      BY <2>2
    <2>4. 1 + j \in 1 .. Len(a \o t) /\ (a \o t)[1 + j] = wire[i]
          /\ 1 < 1 + j /\ 1 \in 1 .. Len(a \o t)
      BY <1>18, <2>3
    <2> QED  BY <1>3, <1>15, <1>20, <2>4 DEF Labels
  <1>21. Ahead(x, e, L[1], b, M)
    BY <1>3, <1>4, <1>5, <1>8, <1>9, <1>10, <1>11, <1>13, <1>14, <1>15, <1>17, <1>19, <1>20
       DEF Ahead
  <1> QED  BY <1>21

\* What a byte leaves of the local variables of the task.
LEMMA HadTypes ==
  ASSUME InputInv, NEW x, Takes(x), NEW s
  PROVE  /\ x \in Bytes /\ Tail(work.todo) \in Seq(Bytes)
         /\ Had(s) \in Locals
         /\ Had(s).chunk = work.chunk /\ Had(s).bytes = work.bytes
         /\ Had(s).normal = work.normal /\ Had(s).todo = Tail(work.todo)
         /\ Had(s).had = (work.had \/ s # "INPUT")
  <1>1. work \in Locals
    BY DEF InputInv, InputTypes
  <1>2. x \in Bytes /\ Tail(work.todo) \in Seq(Bytes)
    <2>1. work.todo \in Seq(Bytes) /\ work.todo # <<>> /\ x = Head(work.todo)
      BY <1>1 DEF Takes, Locals
    <2> QED  BY <2>1, HeadTailProperties
  <1>3. Had(s) = [work EXCEPT !.todo = Tail(work.todo), !.had = (work.had \/ s # "INPUT")]
    BY DEF Had
  <1> QED  BY <1>1, <1>2, <1>3 DEF Locals

\* What the automaton makes of a byte is what the peer meant, or an error for one of
\* the reasons for which there may be one.
LEMMA ByteMeant ==
  ASSUME InputInv, NEW x, Takes(x), NEW s,
         UNCHANGED <<wire, said, inflate, gone, typed, passed>>,
         \A y \in Peculiar : y \in quirks' <=> y \in quirks,
         work' \in Locals,
         work'.chunk = work.chunk, work'.bytes = work.bytes, work'.todo = Tail(work.todo),
         work'.had = (work.had \/ s # "INPUT"),
         args' \in Seq(Bytes), mccp2' \in BOOLEAN, mccp3' \in BOOLEAN,
         state' = s, s = "ERROR" => pc' = "refuse",
         pc' \in {"scan", "announce", "refuse"},
         mccp2 => mccp2', mccp2' /\ ~mccp2 /\ Regular => DoMCCP2 \in said,
         mccp3 => mccp3',
         mccp3' /\ ~mccp3 /\ Regular =>
            BeginMCCP3 \in said /\ \A i \in DOMAIN wire : wire[i].zip,
         Regular => \/ s = "ERROR" /\ (quirks \cap {"nul", "long"} # {} \/ Long)
                    \/ \E e, p, rest, M :
                         /\ Ahead(x, e, p, rest, M) /\ Matches(M[1])'
                         /\ work'.normal = IF e.kind = "text" THEN Append(work.normal, x)
                                           ELSE work.normal
                         /\ x = "IAC" => s # "INPUT"
  PROVE  InputInv'
  <1>1. pc = "scan" /\ ~gone
    BY DEF Takes, InputInv, Resting
  <1>2. Regular' <=> Regular
    BY DEF Regular, Peculiar
  <1>3. InputTypes' /\ Resting'
    BY <1>1 DEF InputInv, InputTypes, Resting
  <1>4. SpinsLate'
    BY DEF SpinsLate
  <1>5. Consent'
    <2>1. mccp2' => DoMCCP2 \in said' \/ quirks' \cap {"cut", "late", "length"} # {}
      <3>1. CASE mccp2
        BY <3>1 DEF InputInv, Consent, Peculiar
      <3>2. CASE ~mccp2
        BY <1>2, <3>2 DEF Regular
      <3> QED  BY <3>1, <3>2
    <2>2. mccp3' => BeginMCCP3 \in said' \/ "cut" \in quirks'
      <3>1. CASE mccp3
        BY <3>1 DEF InputInv, Consent, Peculiar
      <3>2. CASE ~mccp3 /\ Regular
        BY <3>2
      <3>3. CASE ~mccp3 /\ ~Regular
        BY <3>3 DEF InputInv, Compressed, Regular, Peculiar
      <3> QED  BY <3>1, <3>2, <3>3
    <2> QED  BY <2>1, <2>2 DEF Consent
  <1>6. Compressed'
    <2>1. /\ "late" \in quirks' <=> "late" \in quirks
          /\ "length" \in quirks' <=> "length" \in quirks
          /\ "cut" \in quirks' <=> "cut" \in quirks
      BY DEF Peculiar
    <2>2. (\E i \in DOMAIN work'.chunk : work'.chunk[i].zip)
            => \E i \in DOMAIN work.chunk : work.chunk[i].zip
      OBVIOUS
    <2>3. quirks' \cap {"cut", "late"} = {} =>
             /\ inflate' = "ok"
             /\ mccp3' => BeginMCCP3 \in said' /\ \A i \in DOMAIN wire' : wire'[i].zip
      <3>1. CASE mccp3
        BY <2>1, <3>1 DEF InputInv, Compressed
      <3>2. CASE ~mccp3
        BY <2>1, <3>2 DEF InputInv, Compressed, Regular
      <3> QED  BY <3>1, <3>2
    <2> QED  BY <2>1, <2>2, <2>3 DEF InputInv, Compressed
  <1>7. CASE ~Regular
    <2>1. Followed'
      BY <1>2, <1>7 DEF Followed
    <2>2. NoFalseAlarm'
      BY <1>2, <1>7 DEF NoFalseAlarm, Regular
    <2> QED  BY <1>3, <1>4, <1>5, <1>6, <2>1, <2>2 DEF InputInv
  <1>8. CASE Regular /\ s = "ERROR" /\ (quirks \cap {"nul", "long"} # {} \/ Long)
    <2>1. Followed'
      BY <1>8 DEF Followed, Going
    <2>2. NoFalseAlarm'
      BY <1>8 DEF NoFalseAlarm, Long, Peculiar
    <2> QED  BY <1>3, <1>4, <1>5, <1>6, <2>1, <2>2 DEF InputInv
  <1>9. ASSUME Regular, NEW e, NEW p, NEW rest, NEW M, Ahead(x, e, p, rest, M), Matches(M[1])',
               work'.normal = IF e.kind = "text" THEN Append(work.normal, x) ELSE work.normal,
               x = "IAC" => s # "INPUT"
        PROVE  InputInv'
    <2>1. s # "ERROR"
      <3>1. s = StateOf(M[1].at)
        BY <1>9 DEF Matches
      <3>2. M[1].at \in Phases
        BY <1>9 DEF Ahead, Label
      <3> QED  BY <3>1, <3>2 DEF StateOf, Phases
    <2>2. NoFalseAlarm'
      BY <2>1 DEF NoFalseAlarm
    <2>3. rest \in Seq(Element)
      BY <1>9 DEF Ahead
    <2>4. Labels(M, rest \o wire)'
      <3>1. Labels(M, rest \o wire)
        BY <1>9 DEF Ahead
      <3> QED  BY <3>1 DEF Labels, Between, Long
    <2>5. HasIAC(work'.bytes)
      BY <1>9 DEF Ahead
    <2>6. CASE pc' \in {"scan", "announce"}
      <3>1. /\ Len(work'.todo) = Len(rest)
            /\ \A i \in 1 .. Len(rest) : work'.todo[i] = rest[i].byte
        BY <1>9 DEF Ahead
      <3>2. typed' = passed' \o (work'.normal \o Text(rest))
        BY <1>9 DEF Ahead
      <3>3. Len(work'.normal \o Text(rest)) <= NormalCapacity \/ "long" \in quirks'
        BY <1>9 DEF Ahead, Peculiar
      <3>4. work'.had \/ \E i \in 1 .. Len(rest) : rest[i].byte = "IAC"
        BY <1>9 DEF Ahead
      <3>5. (\E i \in 1 .. Len(rest) : rest[i].byte = "NUL") => "nul" \in quirks'
        BY <1>9 DEF Ahead, Peculiar
      <3>6. Accounted(rest)'
        BY <2>5, <2>6, <3>1, <3>2, <3>3, <3>4, <3>5 DEF Accounted
      <3>7. Followed'
        BY <1>9, <2>3, <2>4, <3>6 DEF Followed
      <3> QED  BY <1>3, <1>4, <1>5, <1>6, <2>2, <3>7 DEF InputInv
    <2>7. CASE pc' = "refuse"
      <3>1. Followed'
        BY <2>7 DEF Followed, Going
      <3> QED  BY <1>3, <1>4, <1>5, <1>6, <2>2, <3>1 DEF InputInv
    <2> QED  BY <2>6, <2>7
  <1> QED  BY <1>7, <1>8, <1>9

\* A byte outside of commands.
LEMMA TextByte == ASSUME InputInv, NEW x, InputByte(x) PROVE InputInv'
  <1>1. PICK s : s = IF x = "IAC" THEN "IAC"
                     ELSE IF Pushed(work.normal, x, NormalCapacity) THEN "INPUT" ELSE "ERROR"
    OBVIOUS
  <1>2. /\ Takes(x) /\ state = "INPUT" /\ state' = s /\ pc = "scan"
        /\ pc' = IF s = "ERROR" THEN "refuse" ELSE pc
        /\ work' = [Had(s) EXCEPT !.normal = IF s = "INPUT" THEN Append(@, x) ELSE @]
        /\ UNCHANGED <<wire, said, inflate, gone, typed, passed, quirks, args, mccp2, mccp3>>
    BY <1>1 DEF InputByte, Took, Takes, peer
  <1>3. /\ args \in Seq(Bytes) /\ mccp2 \in BOOLEAN /\ mccp3 \in BOOLEAN
        /\ work.normal \in Seq(Bytes)
    BY DEF InputInv, InputTypes, Locals
  <1>4. x \in Bytes /\ Append(work.normal, x) \in Seq(Bytes)
    BY <1>2, <1>3, HadTypes
  <1>5. /\ work' \in Locals
        /\ work'.chunk = work.chunk /\ work'.bytes = work.bytes /\ work'.todo = Tail(work.todo)
        /\ work'.had = (work.had \/ s # "INPUT")
        /\ work'.normal = IF s = "INPUT" THEN Append(work.normal, x) ELSE work.normal
    BY <1>2, <1>4, HadTypes DEF Locals
  <1>6. ASSUME Regular
        PROVE  \/ s = "ERROR" /\ (quirks \cap {"nul", "long"} # {} \/ Long)
               \/ \E e, p, rest, M :
                    /\ Ahead(x, e, p, rest, M) /\ Matches(M[1])'
                    /\ work'.normal = IF e.kind = "text" THEN Append(work.normal, x)
                                      ELSE work.normal
                    /\ x = "IAC" => s # "INPUT"
    <2>1. PICK e, p, rest, M : Ahead(x, e, p, rest, M)
      BY <1>2, <1>6, NextByte
    <2>2. p \in Label /\ M[1] \in Label /\ Matches(p) /\ Between(e, p, M[1]) /\ e.byte = x
      BY <2>1 DEF Ahead
    <2>3. p.at = "INPUT"
      BY <1>2, <2>2 DEF Matches, StateOf, Label, Phases
    <2>4. CASE e.kind = "text"
      <3>1. x # "IAC" /\ M[1].at = "INPUT"
        BY <2>2, <2>4 DEF Between
      <3>2. CASE s = "INPUT"
        <4>1. Matches(M[1])'
          BY <1>2, <3>1, <3>2 DEF Matches, StateOf
        <4> QED  BY <1>5, <2>1, <2>4, <3>1, <3>2, <4>1
      <3>3. CASE s # "INPUT"
        <4>1. s = "ERROR" /\ Len(work.normal) >= NormalCapacity
          BY <1>1, <1>3, <3>1, <3>3, TelnetAssumption DEF Pushed
        <4>2. Len(Append(work.normal, x) \o Text(rest)) <= NormalCapacity \/ "long" \in quirks
          BY <2>1, <2>4 DEF Ahead
        <4>3. rest \in Seq(Element) /\ Text(rest) \in Seq(Bytes)
          BY <2>1, TextIsBytes DEF Ahead
        <4>4. Len(Append(work.normal, x) \o Text(rest)) > NormalCapacity
          BY <1>3, <1>4, <4>1, <4>3, TelnetAssumption
        <4> QED  BY <1>3, <1>4, <4>1, <4>2, <4>3, <4>4, TelnetAssumption
      <3> QED  BY <3>2, <3>3
    <2>5. CASE e.kind # "text"
      <3>1. x = "IAC" /\ M[1].at = "IAC" /\ M[1].pos = p.pos + 1
        BY <2>2, <2>3, <2>5 DEF Between, Follows
      <3>2. M[1].pos >= 2
        BY <2>2, <3>1 DEF Label
      <3>3. s = "IAC"
        BY <1>1, <3>1
      <3>4. Matches(M[1])'
        BY <1>2, <3>1, <3>2, <3>3 DEF Matches, StateOf
      <3> QED  BY <1>5, <2>1, <2>5, <3>3, <3>4
    <2> QED  BY <2>4, <2>5
  <1>7. /\ Takes(x) /\ state' = s /\ pc' \in {"scan", "refuse"} /\ (s = "ERROR" => pc' = "refuse")
        /\ UNCHANGED <<wire, said, inflate, gone, typed, passed, quirks, args, mccp2, mccp3>>
    BY <1>2
  <1> QED  BY <1>3, <1>5, <1>6, <1>7, ByteMeant

\* A nul byte outside of sub-negotiations.
LEMMA NulByteKeeps == ASSUME InputInv, NulByte PROVE InputInv'
  <1>1. /\ Takes("NUL") /\ state' = "ERROR" /\ pc' = "refuse" /\ work' = Had("ERROR")
        /\ UNCHANGED <<wire, said, inflate, gone, typed, passed, quirks, args, mccp2, mccp3>>
    BY DEF NulByte, Took, peer
  <1>2. args \in Seq(Bytes) /\ mccp2 \in BOOLEAN /\ mccp3 \in BOOLEAN
    BY DEF InputInv, InputTypes
  <1>3. Regular => "nul" \in quirks
    <2> SUFFICES ASSUME Regular PROVE "nul" \in quirks
      OBVIOUS
    <2>1. PICK e, p, rest, M : Ahead("NUL", e, p, rest, M)
      BY <1>1, NextByte
    <2> QED  BY <2>1 DEF Ahead
  <1>4. /\ work' \in Locals
        /\ work'.chunk = work.chunk /\ work'.bytes = work.bytes /\ work'.todo = Tail(work.todo)
        /\ work'.had = (work.had \/ "ERROR" # "INPUT")
    BY <1>1, HadTypes
  <1> QED  BY <1>1, <1>2, <1>3, <1>4, ByteMeant

\* The byte after an IAC.
LEMMA IacByteKeeps == ASSUME InputInv, NEW x, IacByte(x) PROVE InputInv'
  <1>1. PICK s : s = IF x = "SB" THEN "SB" ELSE IF GetIs2CmdByte(x) THEN "INPUT" ELSE "CMD"
    OBVIOUS
  <1>2. /\ Takes(x) /\ state = "IAC" /\ state' = s /\ last' = x /\ pc = "scan"
        /\ pc' = IF s = "ERROR" THEN "refuse" ELSE pc
        /\ work' = Had(s) /\ args' = IF x = "SB" THEN <<>> ELSE args
        /\ UNCHANGED <<wire, said, inflate, gone, typed, passed, quirks, mccp2, mccp3>>
    BY <1>1 DEF IacByte, Took, Takes, peer
  <1>3. args' \in Seq(Bytes) /\ mccp2 \in BOOLEAN /\ mccp3 \in BOOLEAN
    BY <1>2 DEF InputInv, InputTypes
  <1>4. /\ work' \in Locals
        /\ work'.chunk = work.chunk /\ work'.bytes = work.bytes /\ work'.todo = Tail(work.todo)
        /\ work'.had = (work.had \/ s # "INPUT") /\ work'.normal = work.normal
    BY <1>2, HadTypes
  <1>5. ASSUME Regular
        PROVE  \E e, p, rest, M :
                    /\ Ahead(x, e, p, rest, M) /\ Matches(M[1])'
                    /\ work'.normal = IF e.kind = "text" THEN Append(work.normal, x)
                                      ELSE work.normal
                    /\ x = "IAC" => s # "INPUT"
    <2>1. PICK e, p, rest, M : Ahead(x, e, p, rest, M)
      BY <1>2, <1>5, NextByte
    <2>2. p \in Label /\ M[1] \in Label /\ Matches(p) /\ Between(e, p, M[1]) /\ e.byte = x
      BY <2>1 DEF Ahead
    <2>3. p.at = "IAC" /\ p.pos >= 2
      BY <1>2, <2>2 DEF Matches, StateOf, Label, Phases
    <2>4. e.kind # "text" /\ Follows("IAC", x, M[1].at)
      BY <2>2, <2>3 DEF Between
    <2>5. x # "IAC"
      BY <2>4 DEF Follows
    <2>6. CASE x = "SB"
      <3>1. M[1].at = "OPT" /\ M[1].pos = p.pos + 1
        BY <2>2, <2>4, <2>6 DEF Follows, Between
      <3>2. args' = <<>> /\ Len(<<>>) + 3 <= M[1].pos
        BY <1>2, <2>2, <2>3, <2>6, <3>1 DEF Label
      <3>3. Matches(M[1])'
        BY <1>1, <1>2, <2>6, <3>1, <3>2 DEF Matches, StateOf
      <3> QED  BY <1>4, <2>1, <2>4, <2>5, <3>3
    <2>7. CASE x # "SB"
      <3>1. \/ x \in {"SE", "NOP"} /\ M[1].at = "INPUT" /\ s = "INPUT"
            \/ x \in {"DO", "DONT"} /\ M[1].at = x /\ s = "CMD"
        BY <1>1, <2>4, <2>7 DEF Follows, GetIs2CmdByte
      <3>2. Matches(M[1])'
        BY <1>2, <3>1 DEF Matches, StateOf
      <3> QED  BY <1>4, <2>1, <2>4, <2>5, <3>2
    <2> QED  BY <2>6, <2>7
  <1> QED  BY <1>2, <1>3, <1>4, <1>5, ByteMeant

\* An argument of a sub-negotiation, or the IAC after them.
LEMMA SbByteKeeps == ASSUME InputInv, NEW x, SbByte(x) PROVE InputInv'
  <1>1. PICK s : s = IF x = "IAC" THEN "SE"
                     ELSE IF Len(args) < ArgsCapacity THEN "SB" ELSE "ERROR"
    OBVIOUS
  <1>2. /\ Takes(x) /\ state = "SB" /\ state' = s /\ last' = x /\ pc = "scan"
        /\ pc' = IF s = "ERROR" THEN "refuse" ELSE pc
        /\ work' = Had(s) /\ args' = IF s = "SB" THEN Append(args, x) ELSE args
        /\ UNCHANGED <<wire, said, inflate, gone, typed, passed, quirks, mccp2, mccp3>>
    BY <1>1 DEF SbByte, Took, Takes, peer
  <1>3. x \in Bytes /\ args \in Seq(Bytes)
    BY <1>2, HadTypes DEF InputInv, InputTypes
  <1>4. args' \in Seq(Bytes) /\ mccp2 \in BOOLEAN /\ mccp3' \in BOOLEAN
    BY <1>2, <1>3 DEF InputInv, InputTypes
  <1>5. /\ work' \in Locals
        /\ work'.chunk = work.chunk /\ work'.bytes = work.bytes /\ work'.todo = Tail(work.todo)
        /\ work'.had = (work.had \/ s # "INPUT") /\ work'.normal = work.normal
    BY <1>2, HadTypes
  <1>6. ASSUME Regular
        PROVE  \/ s = "ERROR" /\ (quirks \cap {"nul", "long"} # {} \/ Long)
               \/ \E e, p, rest, M :
                    /\ Ahead(x, e, p, rest, M) /\ Matches(M[1])'
                    /\ work'.normal = IF e.kind = "text" THEN Append(work.normal, x)
                                      ELSE work.normal
                    /\ x = "IAC" => s # "INPUT"
    <2>1. PICK e, p, rest, M : Ahead(x, e, p, rest, M)
      BY <1>2, <1>6, NextByte
    <2>2. p \in Label /\ M[1] \in Label /\ Matches(p) /\ Between(e, p, M[1]) /\ e.byte = x
      BY <2>1 DEF Ahead
    <2>3. p.at \in {"OPT", "SB", "SBW"} /\ Len(args) + 3 <= p.pos /\ p.pos \in Nat
      BY <1>2, <2>2 DEF Matches, StateOf, Label, Phases
    <2>4. e.kind # "text" /\ Follows(p.at, x, M[1].at)
      BY <2>2, <2>3 DEF Between
    <2>5. s # "INPUT"
      BY <1>1
    <2>6. CASE x = "IAC"
      <3>1. s = "SE" /\ args' = args
        BY <1>1, <1>2, <2>6
      <3>2. \/ p.at \in {"OPT", "SB"} /\ M[1].at = "SE"
            \/ p.at = "SBW" /\ M[1].at = "SEW"
        BY <2>3, <2>4, <2>6 DEF Follows
      <3>3. Matches(M[1])'
        BY <1>2, <2>2, <3>1, <3>2 DEF Matches, StateOf
      <3> QED  BY <1>5, <2>1, <2>4, <2>5, <3>3
    <2>7. CASE x # "IAC" /\ s = "SB"
      <3>1. args' = Append(args, x) /\ Len(args') = Len(args) + 1 /\ args' # <<>>
            /\ args'[1] = IF args = <<>> THEN x ELSE args[1]
        BY <1>2, <1>3, <2>7
      <3>2. \/ p.at = "OPT" /\ args = <<>> /\ M[1].at = IF x = "W" THEN "SBW" ELSE "SB"
            \/ p.at = "SB" /\ args # <<>> /\ args[1] # "W" /\ M[1].at = "SB"
        BY <2>2, <2>3, <2>4, <2>7 DEF Follows, Matches
      <3>3. M[1].pos = p.pos + 1
        BY <2>2, <3>2 DEF Between
      <3>4. Len(args') + 3 <= M[1].pos
        BY <1>3, <2>3, <3>1, <3>3
      <3>5. args'[1] = "W" <=> M[1].at = "SBW"
        BY <3>1, <3>2
      <3>6. Matches(M[1])'
        BY <1>2, <2>7, <3>1, <3>2, <3>4, <3>5 DEF Matches, StateOf
      <3> QED  BY <1>5, <2>1, <2>4, <2>5, <2>7, <3>6
    <2>8. CASE x # "IAC" /\ s # "SB"
      <3>1. s = "ERROR" /\ Len(args) >= ArgsCapacity
        BY <1>1, <1>3, <2>8, TelnetAssumption
      <3>2. p.at \in {"OPT", "SB"}
        BY <2>3, <2>4, <2>8 DEF Follows
      <3>3. p.pos < ArgsCapacity + 3 \/ Long
        BY <2>2, <2>8, <3>2 DEF Between
      <3>4. ~(p.pos < ArgsCapacity + 3)
        BY <1>3, <2>3, <3>1, TelnetAssumption
      <3> QED  BY <3>1, <3>3, <3>4
    <2> QED  BY <2>6, <2>7, <2>8
  <1> QED  BY <1>2, <1>4, <1>5, <1>6, ByteMeant

\* The byte after that IAC.
LEMMA SeByteKeeps == ASSUME InputInv, NEW x, SeByte(x) PROVE InputInv'
  <1>1. PICK s : s = IF x = "SE" THEN "INPUT" ELSE "ERROR"
    OBVIOUS
  <1>2. /\ Takes(x) /\ state = "SE" /\ state' = s /\ last' = x /\ pc = "scan"
        /\ pc' = IF s = "ERROR" THEN "refuse" ELSE pc
        /\ work' = Had(s) /\ args' = args
        /\ mccp3' = (mccp3 \/ (x = "SE" /\ args # <<>> /\ args[1] = "W"))
        /\ UNCHANGED <<wire, said, inflate, gone, typed, passed, quirks, mccp2>>
    <2>1. CASE x = "SE"
      BY <1>1, <2>1 DEF SeByte, Took, Takes, peer, RunSubnegotiationCmd
    <2>2. CASE x # "SE"
      <3>1. mccp3' = mccp3 /\ mccp3 \in BOOLEAN
        BY <2>2 DEF SeByte, InputInv, InputTypes
      <3>2. mccp3' = (mccp3 \/ (x = "SE" /\ args # <<>> /\ args[1] = "W"))
        BY <2>2, <3>1
      <3> QED  BY <1>1, <2>2, <3>2 DEF SeByte, Took, Takes, peer
    <2> QED  BY <2>1, <2>2
  <1>3. args \in Seq(Bytes) /\ mccp2 \in BOOLEAN /\ mccp3' \in BOOLEAN
    BY <1>2 DEF InputInv, InputTypes
  <1>4. /\ work' \in Locals
        /\ work'.chunk = work.chunk /\ work'.bytes = work.bytes /\ work'.todo = Tail(work.todo)
        /\ work'.had = (work.had \/ s # "INPUT") /\ work'.normal = work.normal
    BY <1>2, HadTypes
  <1>5. ASSUME Regular
        PROVE  /\ mccp3' /\ ~mccp3
                    => BeginMCCP3 \in said /\ \A i \in DOMAIN wire : wire[i].zip
               /\ \E e, p, rest, M :
                       /\ Ahead(x, e, p, rest, M) /\ Matches(M[1])'
                       /\ work'.normal = IF e.kind = "text" THEN Append(work.normal, x)
                                         ELSE work.normal
                       /\ x = "IAC" => s # "INPUT"
    <2>1. PICK e, p, rest, M : Ahead(x, e, p, rest, M)
      BY <1>2, <1>5, NextByte
    <2>2. p \in Label /\ M[1] \in Label /\ Matches(p) /\ Between(e, p, M[1]) /\ e.byte = x
          /\ (p.at = "SEW" => \A i \in DOMAIN wire : wire[i].zip)
      BY <2>1 DEF Ahead
    <2>3. p.at \in {"SE", "SEW"}
      BY <1>2, <2>2 DEF Matches, StateOf, Label, Phases
    <2>4. e.kind # "text" /\ x = "SE" /\ M[1].at = "INPUT"
      BY <2>2, <2>3 DEF Between, Follows
    <2>5. s = "INPUT"
      BY <1>1, <2>4
    <2>6. Matches(M[1])'
      BY <1>2, <2>4, <2>5 DEF Matches, StateOf
    <2>7. mccp3' /\ ~mccp3 => p.at = "SEW"
      BY <1>2, <2>2, <2>3 DEF Matches
    <2>8. p.at = "SEW" => BeginMCCP3 \in said
      BY <2>2 DEF Between
    <2> QED  BY <1>4, <2>1, <2>2, <2>4, <2>6, <2>7, <2>8
  <1>6. mccp3 => mccp3'
    BY <1>2
  <1> QED  BY <1>2, <1>3, <1>4, <1>5, <1>6, ByteMeant

\* The last byte of a command of three.
LEMMA CmdByteKeeps ==
  ASSUME InputInv, NEW x, CmdMCCP2(x) \/ CmdByte(x)
  PROVE  InputInv'
  <1>1. PICK s : s = IF Is3ByteCmd(x) THEN "INPUT" ELSE "ERROR"
    OBVIOUS
  <1>2. /\ Takes(x) /\ state = "CMD" /\ state' = s /\ last' = x /\ pc = "scan"
        /\ pc' \in {"scan", "announce", "refuse"} /\ (s = "ERROR" => pc' = "refuse")
        /\ work' = Had(s) /\ (mccp2' = mccp2 \/ (mccp2' = TRUE /\ x = "V" /\ last = "DO"))
        /\ UNCHANGED <<wire, said, inflate, gone, typed, passed, args, mccp3>>
        /\ \A y \in Peculiar : y \in quirks' <=> y \in quirks
    <2>1. CASE CmdMCCP2(x)
      BY <1>1, <2>1 DEF CmdMCCP2, Agreed, Takes, peer, Is3ByteCmd, Peculiar
    <2>2. CASE CmdByte(x)
      <3>1. state' = s /\ work' = Had(s) /\ pc' = IF s = "ERROR" THEN "refuse" ELSE pc
        BY <1>1, <2>2 DEF CmdByte
      <3>2. /\ Takes(x) /\ state = "CMD" /\ last' = x
            /\ UNCHANGED <<wire, said, inflate, gone, typed, passed, args, mccp2, mccp3>>
            /\ quirks' = quirks \/ quirks' = quirks \cup {"answer"}
        BY <2>2 DEF CmdByte, peer
      <3> QED  BY <3>1, <3>2 DEF Takes, Peculiar
    <2> QED  BY <2>1, <2>2
  <1>3. args \in Seq(Bytes) /\ mccp2' \in BOOLEAN /\ mccp3 \in BOOLEAN
    BY <1>2 DEF InputInv, InputTypes
  <1>4. /\ work' \in Locals
        /\ work'.chunk = work.chunk /\ work'.bytes = work.bytes /\ work'.todo = Tail(work.todo)
        /\ work'.had = (work.had \/ s # "INPUT") /\ work'.normal = work.normal
    BY <1>2, HadTypes
  <1>5. ASSUME Regular
        PROVE  /\ mccp2' /\ ~mccp2 => DoMCCP2 \in said
               /\ \E e, p, rest, M :
                       /\ Ahead(x, e, p, rest, M) /\ Matches(M[1])'
                       /\ work'.normal = IF e.kind = "text" THEN Append(work.normal, x)
                                         ELSE work.normal
                       /\ x = "IAC" => s # "INPUT"
    <2>1. PICK e, p, rest, M : Ahead(x, e, p, rest, M)
      BY <1>2, <1>5, NextByte
    <2>2. p \in Label /\ M[1] \in Label /\ Matches(p) /\ Between(e, p, M[1]) /\ e.byte = x
      BY <2>1 DEF Ahead
    <2>3. p.at \in {"DO", "DONT"} /\ last = p.at
      BY <1>2, <2>2 DEF Matches, StateOf, Label, Phases
    <2>4. e.kind # "text" /\ x \in {"TT", "V", "W", "X"} /\ M[1].at = "INPUT"
      BY <2>2, <2>3 DEF Between, Follows
    <2>5. s = "INPUT"
      BY <1>1, <2>4 DEF Is3ByteCmd
    <2>6. Matches(M[1])'
      BY <1>2, <2>4, <2>5 DEF Matches, StateOf
    <2>7. mccp2' /\ ~mccp2 => DoMCCP2 \in said
      BY <1>2, <2>2, <2>3 DEF Between
    <2> QED  BY <1>4, <2>1, <2>4, <2>6, <2>7
  <1>6. mccp2 => mccp2'
    BY <1>2
  <1> QED  BY <1>2, <1>3, <1>4, <1>5, <1>6, ByteMeant

\* The announcement of compression is not about input.
LEMMA AnnounceKeeps == ASSUME InputInv, Announce PROVE InputInv'
  <1>1. pc = "announce" /\ pc' = "scan"
        /\ UNCHANGED <<wire, said, work, state, last, args, mccp2, mccp3, inflate, gone,
                       typed, passed, quirks>>
    BY DEF Announce, peer, automaton
  <1>2. InputTypes' /\ Resting' /\ Compressed' /\ NoFalseAlarm' /\ Consent' /\ SpinsLate'
    BY <1>1 DEF InputInv, InputTypes, Resting, Compressed, NoFalseAlarm, Consent, SpinsLate
  <1>3. Followed'
    <2> SUFFICES ASSUME Regular', ~gone'
                 PROVE  \E rest \in Seq(Element) :
                           Accounted(rest)' /\ \E L : Labels(L, rest \o wire)' /\ Matches(L[1])'
      BY DEF Followed
    <2>0. PICK rest \in Seq(Element) :
             Accounted(rest) /\ \E L : Labels(L, rest \o wire) /\ Matches(L[1])
      BY <1>1 DEF InputInv, Followed, Regular, Going
    <2>1. PICK L : Accounted(rest) /\ Labels(L, rest \o wire) /\ Matches(L[1])
      BY <2>0
    <2>2. Accounted(rest)'
      BY <1>1, <2>1 DEF Accounted
    <2>3. Labels(L, rest \o wire)' /\ Matches(L[1])'
      BY <1>1, <2>1 DEF Labels, Between, Long, Matches
    <2> QED  BY <2>2, <2>3
  <1> QED  BY <1>2, <1>3 DEF InputInv

\* All that was read has become input.
LEMMA PassOnKeeps == ASSUME InputInv, PassOn PROVE InputInv'
  <1>1. /\ pc = "scan" /\ work.todo = <<>> /\ passed' = passed \o Input(work)
        /\ pc' \in {"close", "input"}
        /\ \A y \in Peculiar : y \in quirks' <=> y \in quirks
        /\ UNCHANGED <<wire, said, work, state, last, args, mccp2, mccp3, inflate, gone, typed>>
    BY DEF PassOn, peer, automaton, Peculiar
  <1>2. /\ wire \in Seq(Element) /\ passed \in Seq(Bytes)
        /\ work.normal \in Seq(Bytes) /\ work.bytes \in Seq(Bytes)
    BY DEF InputInv, InputTypes, Locals
  <1>3. Input(work) \in Seq(Bytes)
    BY <1>2 DEF Input
  <1>4. passed' \in Seq(Bytes)
    BY <1>1, <1>2, <1>3, ConcatProperties
  <1>5. InputTypes'
    BY <1>1, <1>4 DEF InputInv, InputTypes
  <1>6. Resting' /\ Compressed' /\ NoFalseAlarm' /\ Consent' /\ SpinsLate'
    BY <1>1 DEF InputInv, Resting, Compressed, NoFalseAlarm, Consent, SpinsLate, Peculiar
  <1>7. Followed'
    <2> SUFFICES ASSUME Regular', ~gone'
                 PROVE  \E rest \in Seq(Element) :
                           Accounted(rest)' /\ \E L : Labels(L, rest \o wire)' /\ Matches(L[1])'
      BY DEF Followed
    <2>1. Regular
      BY <1>1 DEF Regular, Peculiar
    <2>0. PICK rest \in Seq(Element) :
             Accounted(rest) /\ \E L : Labels(L, rest \o wire) /\ Matches(L[1])
      BY <1>1, <2>1 DEF InputInv, Followed, Going
    <2>2. PICK L : Accounted(rest) /\ Labels(L, rest \o wire) /\ Matches(L[1])
      BY <2>0
    <2>3. rest = <<>>
      BY <1>1, <2>2 DEF Accounted
    <2>4. work.normal \o Text(<<>>) = work.normal
      BY <1>2, TextOfNone, ConcatEmptySeq
    <2>5. typed = passed \o (IF HasIAC(work.bytes) THEN work.normal ELSE work.bytes)
      BY <1>1, <2>2, <2>3, <2>4 DEF Accounted
    <2>6. HasIAC(work.bytes) <=> work.had
      <3>1. ~\E i \in 1 .. Len(<<>>) : <<>>[i].byte = "IAC"
        OBVIOUS
      <3> QED  BY <1>1, <2>2, <2>3, <3>1 DEF Accounted
    <2>7. typed' = passed'
      BY <1>1, <2>5, <2>6 DEF Input
    <2>8. Accounted(rest)'
      BY <1>1, <2>3, <2>7 DEF Accounted
    <2>9. Labels(L, rest \o wire)' /\ Matches(L[1])'
      BY <1>1, <2>2 DEF Labels, Between, Long, Matches
    <2> QED  BY <2>8, <2>9
  <1> QED  BY <1>5, <1>6, <1>7 DEF InputInv

\* The socket is rearmed.
LEMMA RearmKeeps == ASSUME InputInv, Rearm PROVE InputInv'
  <1>1. /\ pc = "input" /\ pc' = "idle" /\ work' = NoWork
        /\ UNCHANGED <<wire, said, state, last, args, mccp2, mccp3, inflate, gone, quirks,
                       typed, passed>>
    BY DEF Rearm, peer, automaton
  <1>2. InputTypes' /\ Resting'
    BY <1>1, NothingRead DEF InputInv, InputTypes, Resting
  <1>3. Compressed' /\ NoFalseAlarm' /\ Consent' /\ SpinsLate'
    BY <1>1, NothingRead DEF InputInv, Compressed, NoFalseAlarm, Consent, SpinsLate
  <1>4. Followed'
    <2> SUFFICES ASSUME Regular', ~gone'
                 PROVE  \E rest \in Seq(Element) :
                           Accounted(rest)' /\ \E L : Labels(L, rest \o wire)' /\ Matches(L[1])'
      BY DEF Followed
    <2>0. PICK rest \in Seq(Element) :
             Accounted(rest) /\ \E L : Labels(L, rest \o wire) /\ Matches(L[1])
      BY <1>1 DEF InputInv, Followed, Regular, Going
    <2>1. PICK L : Accounted(rest) /\ Labels(L, rest \o wire) /\ Matches(L[1])
      BY <2>0
    <2>2. Accounted(rest)'
      BY <1>1, <2>1 DEF Accounted
    <2>3. Labels(L, rest \o wire)' /\ Matches(L[1])'
      BY <1>1, <2>1 DEF Labels, Between, Long, Matches
    <2> QED  BY <2>2, <2>3
  <1> QED  BY <1>2, <1>3, <1>4 DEF InputInv

\* Writes do not disturb input, but that a client is told why it is disconnected.
LEMMA WriteKeeps ==
  ASSUME InputInv, NEW t \in Threads, Call(t) \/ Write(t)
  PROVE  InputInv'
  <1>1. CASE Write(t)
    <2>1. UNCHANGED inward /\ \A y \in Peculiar : y \in quirks' <=> y \in quirks
      BY <1>1 DEF Write, Lock, Send, Rest, peer, inward, automaton, Peculiar
    <2> QED  BY <2>1, Undisturbed
  <1>2. CASE Call(t) /\ pc' = pc
    <2>1. UNCHANGED inward /\ quirks' = quirks
      BY <1>2 DEF Call, peer, inward, automaton
    <2> QED  BY <2>1, Undisturbed
  <1>3. CASE Call(t) /\ pc' # pc
    <2>1. pc = "refuse" /\ pc' = "close"
          /\ UNCHANGED <<wire, said, work, state, last, args, mccp2, mccp3, inflate, gone,
                         typed, passed, quirks>>
      BY <1>3 DEF Call, peer, automaton
    <2>2. InputTypes' /\ Resting' /\ Compressed'
      BY <2>1 DEF InputInv, InputTypes, Resting, Compressed
    <2>3. NoFalseAlarm' /\ Consent' /\ SpinsLate' /\ Followed'
      BY <2>1 DEF InputInv, NoFalseAlarm, Consent, SpinsLate, Followed, Going
    <2> QED  BY <2>2, <2>3 DEF InputInv
  <1> QED  BY <1>1, <1>2, <1>3

\* Every step keeps the invariant of the input side.
LEMMA StepInput == InputInv /\ [Next]_vars => InputInv'
  <1> SUFFICES ASSUME InputInv, [Next]_vars PROVE InputInv'
    OBVIOUS
  <1>1. CASE UNCHANGED vars
    <2>1. UNCHANGED inward /\ quirks' = quirks
      BY <1>1 DEF vars, peer, inward, automaton
    <2> QED  BY <2>1, Undisturbed
  <1>2. CASE InputTask
    <2>1. CASE ProcessByte
      BY <2>1, AnnounceKeeps, NulByteKeeps, TextByte, IacByteKeeps, SbByteKeeps, SeByteKeeps,
         CmdByteKeeps DEF ProcessByte
    <2>2. CASE pc = "refuse" /\ Call(Worker)
      BY <2>2, WriteKeeps DEF Threads
    <2>3. CASE \/ \E n \in 1 .. ReadSize : Read(n)
               \/ ReadEnd \/ TooFast \/ Disconnect
      BY <2>3, ReadMore, ReadNothing, Ends
    <2>4. CASE \/ ScanEmpty \/ ScanPlain \/ ScanZip \/ DecodeFails \/ Spin
               \/ PassOn \/ Rearm
      BY <2>4, ScansNothing, ScansPlain, ScansZip, DecodesNot, PassOnKeeps, RearmKeeps
    <2> QED  BY <1>2, <2>1, <2>2, <2>3, <2>4 DEF InputTask
  <1>3. CASE (\E m \in Messages : PeerSends(m)) \/ PeerCloses
    BY <1>3, SaysMore, Ends
  <1>4. CASE \E t \in Threads : Call(t) \/ Write(t)
    BY <1>4, WriteKeeps
  <1> QED  BY <1>1, <1>2, <1>3, <1>4 DEF Next

\* The types that neither side's invariant has.
Places ==
    /\ pc \in {"idle", "reading", "read", "scan", "announce", "input", "refuse", "close",
               "spins"}
    /\ state \in {"INPUT", "IAC", "SB", "SE", "CMD", "ERROR"} /\ last \in Bytes
Buffers == Len(work.normal) <= NormalCapacity /\ Len(args) <= ArgsCapacity
Others ==
    /\ gone \in BOOLEAN /\ closed \in BOOLEAN /\ inflate \in {"ok", "lost", "ended"}
    /\ lock \in Threads \cup {None}
    /\ writes \in 0 .. MaxWrites /\ left \in 0 .. MaxMessages
    /\ faults \subseteq {"early", "late", "mixed", "raw"}

\* Steps of the peer and of writers keep them.
LEMMA OutsideTypes ==
  ASSUME Places, Buffers, Others,
         \/ \E m \in Messages : PeerSends(m)
         \/ PeerCloses
         \/ \E t \in Threads : Call(t) \/ Write(t)
  PROVE  Places' /\ Buffers' /\ Others'
  <1>1. CASE \E m \in Messages : PeerSends(m)
    BY <1>1, TelnetAssumption DEF PeerSends, Places, Buffers, Others, automaton, writing, out
  <1>2. CASE PeerCloses
    BY <1>2 DEF PeerCloses, Places, Buffers, Others, automaton, writing, out
  <1>3. ASSUME NEW t \in Threads, Call(t) PROVE Places' /\ Buffers' /\ Others'
    BY <1>3, TelnetAssumption DEF Call, Places, Buffers, Others, peer, automaton, out
  <1>4. ASSUME NEW t \in Threads, Write(t) PROVE Places' /\ Buffers' /\ Others'
    BY <1>4 DEF Write, Lock, Send, Rest, Arrives, Unlocked, Places, Buffers, Others, peer,
                automaton, out
  <1> QED  BY <1>1, <1>2, <1>3, <1>4

\* So do those of the input task, but for bytes.
LEMMA TaskTypes ==
  ASSUME Places, Buffers, Others, InputInv,
         \/ \E n \in 1 .. ReadSize : Read(n)
         \/ ReadEnd \/ TooFast \/ ScanEmpty \/ ScanPlain \/ ScanZip \/ DecodeFails \/ Spin
         \/ PassOn \/ Rearm \/ Disconnect
  PROVE  Places' /\ Buffers' /\ Others'
  <1>1. work \in Locals
    BY DEF InputInv, InputTypes
  <1>2. NoWork.normal = <<>> /\ Len(<<>>) = 0
    BY DEF NoWork
  <1>3. CASE (\E n \in 1 .. ReadSize : Read(n)) \/ ReadEnd
    <2>1. /\ work'.normal = work.normal /\ pc' \in {"reading", "read"}
          /\ UNCHANGED <<state, last, args, gone, closed, inflate, lock, writes, left, faults>>
      BY <1>1, <1>3 DEF Locals, Read, ReadEnd, peer, automaton, writing, out
    <2> QED  BY <2>1 DEF Places, Buffers, Others
  <1>4. CASE TooFast \/ Spin
    BY <1>4 DEF TooFast, Spin, Places, Buffers, Others, peer, automaton, writing, out
  <1>5. CASE ScanEmpty \/ ScanPlain \/ ScanZip
    <2>1. \A bytes, todo : Scan(bytes, todo) => work'.normal = work.normal /\ pc' = "scan"
      BY <1>1 DEF Scan
    <2>2. /\ work'.normal = work.normal /\ pc' = "scan" /\ inflate' \in {inflate, "lost"}
          /\ UNCHANGED <<state, last, args, gone, closed, lock, writes, left, faults>>
      <3>1. CASE ScanEmpty
        BY <2>1, <3>1 DEF ScanEmpty, peer, automaton, writing, out
      <3>2. CASE ScanPlain
        BY <2>1, <3>2 DEF ScanPlain, peer, automaton, writing, out
      <3>3. CASE ScanZip
        BY <2>1, <3>3 DEF ScanZip, peer, automaton, writing, out
      <3> QED  BY <1>5, <3>1, <3>2, <3>3
    <2> QED  BY <2>2 DEF Places, Buffers, Others
  <1>6. CASE DecodeFails \/ Rearm \/ Disconnect
    <2>1. /\ pc' = "idle" /\ work' = NoWork
          /\ gone' \in {gone, TRUE} /\ inflate' \in {inflate, "ended"}
          /\ UNCHANGED <<state, last, args, closed, lock, writes, left, faults>>
      BY <1>6 DEF DecodeFails, Rearm, Disconnect, peer, automaton, writing, out
    <2>2. Len(work'.normal) <= NormalCapacity
      BY <1>2, <2>1, TelnetAssumption
    <2> QED  BY <2>1, <2>2 DEF Places, Buffers, Others
  <1>7. CASE PassOn
    BY <1>7 DEF PassOn, Places, Buffers, Others, peer, automaton, out
  <1> QED  BY <1>3, <1>4, <1>5, <1>6, <1>7

\* And bytes.
LEMMA ByteTypes ==
  ASSUME Places, Buffers, Others, InputInv, ProcessByte
  PROVE  Places' /\ Buffers' /\ Others'
  <1>1. work.normal \in Seq(Bytes) /\ args \in Seq(Bytes)
    BY DEF InputInv, InputTypes, Locals
  <1>2. \A x, s : Takes(x) => x \in Bytes /\ Had(s).normal = work.normal
    BY HadTypes
  <1>3. ASSUME NEW x, NEW s \in {"INPUT", "IAC", "SB", "SE", "CMD", "ERROR"},
               Took(x, s), Takes(x), args' = args \/ Len(args') <= ArgsCapacity,
               work'.normal = work.normal \/ Len(work'.normal) <= NormalCapacity, out' = out
        PROVE  Places' /\ Buffers' /\ Others'
    <2>1. x \in Bytes
      BY <1>2, <1>3
    <2>2. state' = s /\ last' = x /\ pc' \in {pc, "refuse"}
          /\ UNCHANGED <<gone, closed, inflate, lock, writes, left, faults>>
      BY <1>3 DEF Took, peer, writing, out
    <2> QED  BY <1>3, <2>1, <2>2 DEF Places, Buffers, Others
  <1>4. CASE NulByte
    BY <1>2, <1>3, <1>4 DEF NulByte
  <1>5. CASE Announce
    BY <1>5 DEF Announce, Places, Buffers, Others, peer, automaton, writing
  <1>6. ASSUME NEW x \in Bytes, InputByte(x) PROVE Places' /\ Buffers' /\ Others'
    <2>1. PICK s \in {"INPUT", "IAC", "ERROR"} :
            /\ s = IF x = "IAC" THEN "IAC"
                   ELSE IF Pushed(work.normal, x, NormalCapacity) THEN "INPUT" ELSE "ERROR"
            /\ Took(x, s)
            /\ work' = [Had(s) EXCEPT !.normal = IF s = "INPUT" THEN Append(@, x) ELSE @]
      BY <1>6 DEF InputByte
    <2>2. Takes(x) /\ args' = args /\ out' = out
      BY <1>6 DEF InputByte
    <2>3. work'.normal = IF s = "INPUT" THEN Append(work.normal, x) ELSE work.normal
      BY <2>1, <2>2, HadTypes
    <2>4. s = "INPUT" => Len(Append(work.normal, x)) <= NormalCapacity
      BY <1>1, <2>1, TelnetAssumption DEF Pushed
    <2> QED  BY <1>3, <2>1, <2>2, <2>3, <2>4
  <1>7. ASSUME NEW x \in Bytes, IacByte(x) PROVE Places' /\ Buffers' /\ Others'
    <2>1. PICK s \in {"INPUT", "SB", "CMD"} : Took(x, s) /\ work' = Had(s)
      BY <1>7 DEF IacByte
    <2>2. Takes(x) /\ out' = out /\ (args' = args \/ args' = <<>>)
      BY <1>7 DEF IacByte
    <2>3. Len(<<>>) <= ArgsCapacity
      BY TelnetAssumption
    <2> QED  BY <1>2, <1>3, <2>1, <2>2, <2>3
  <1>8. ASSUME NEW x \in Bytes, SbByte(x) PROVE Places' /\ Buffers' /\ Others'
    <2>1. PICK s \in {"SE", "SB", "ERROR"} :
            /\ s = IF x = "IAC" THEN "SE" ELSE IF Len(args) < ArgsCapacity THEN "SB" ELSE "ERROR"
            /\ Took(x, s) /\ work' = Had(s)
            /\ args' = IF s = "SB" THEN Append(args, x) ELSE args
      BY <1>8 DEF SbByte
    <2>2. Takes(x) /\ out' = out
      BY <1>8 DEF SbByte
    <2>3. s = "SB" => Len(Append(args, x)) <= ArgsCapacity
      BY <1>1, <2>1, TelnetAssumption
    <2> QED  BY <1>2, <1>3, <2>1, <2>2, <2>3
  <1>9. ASSUME NEW x \in Bytes, SeByte(x) PROVE Places' /\ Buffers' /\ Others'
    <2>1. PICK s \in {"INPUT", "ERROR"} : Took(x, s) /\ work' = Had(s)
      BY <1>9 DEF SeByte
    <2>2. Takes(x) /\ out' = out /\ args' = args
      BY <1>9 DEF SeByte
    <2> QED  BY <1>2, <1>3, <2>1, <2>2
  <1>10. ASSUME NEW x \in Bytes, CmdMCCP2(x) \/ CmdByte(x) PROVE Places' /\ Buffers' /\ Others'
    <2>1. /\ state' \in {"INPUT", "ERROR"} /\ last' = x /\ pc' \in {pc, "announce", "refuse"}
          /\ faults' \subseteq faults \cup {"raw"}
          /\ UNCHANGED <<args, gone, closed, inflate, lock, writes, left>>
      BY <1>10 DEF CmdMCCP2, CmdByte, peer, writing, out
    <2>2. work'.normal = work.normal
      BY <1>2, <1>10 DEF CmdMCCP2, CmdByte
    <2> QED  BY <2>1, <2>2 DEF Places, Buffers, Others
  <1> QED  BY <1>4, <1>5, <1>6, <1>7, <1>8, <1>9, <1>10 DEF ProcessByte

\* The invariants of both sides and the types, together.
StreamInv == IInv /\ InputInv /\ Places /\ Buffers /\ Others

\* They hold at first.
LEMMA InitStream == Init => StreamInv
  <1> SUFFICES ASSUME Init PROVE StreamInv
    OBVIOUS
  <1>1. Len(<<>>) = 0 /\ Len(NoWork.normal) = 0
    BY DEF NoWork
  <1>2. Places /\ Buffers /\ Others
    <2>1. work = NoWork /\ args = <<>>
      BY DEF Init
    <2>2. Buffers
      BY <1>1, <2>1, TelnetAssumption DEF Buffers
    <2>3. Places
      BY DEF Init, Places, Bytes
    <2>4. 0 \in 0 .. MaxWrites /\ MaxMessages \in 0 .. MaxMessages
      BY TelnetAssumption
    <2>5. Others
      BY <2>4 DEF Init, Others
    <2> QED  BY <2>2, <2>3, <2>5
  <1> QED  BY <1>2, InitInv, InitInput DEF StreamInv

\* Every step keeps them.
LEMMA StepStream == StreamInv /\ [Next]_vars => StreamInv'
  <1> SUFFICES ASSUME StreamInv, [Next]_vars PROVE StreamInv'
    OBVIOUS
  <1> USE DEF StreamInv
  <1>1. IInv' /\ InputInv'
    BY StepInv, StepInput
  <1>2. CASE UNCHANGED vars
    BY <1>1, <1>2 DEF vars, peer, automaton, writing, out, Places, Buffers, Others
  <1>3. CASE Next
    <2>1. Places' /\ Buffers' /\ Others'
      BY <1>3, OutsideTypes, TaskTypes, ByteTypes DEF Next, InputTask, Threads
    <2> QED  BY <1>1, <2>1
  <1> QED  BY <1>2, <1>3

\* server.c:216-288, telnet.c:288-385: for any messages, however the network cuts
\* them, and any capacities, text becomes input and nothing else does, a peer that
\* follows the protocol is not accused of errors, compression is used by consent, and
\* the worker does not loop in the decompressor, but for the named reasons.
THEOREM InputIsSound == Spec => []InputSound
  <1>1. StreamInv => InputSound
    <2> SUFFICES ASSUME StreamInv PROVE InputSound
      OBVIOUS
    <2> USE DEF StreamInv
    <2>1. TypeOK
      BY DEF TypeOK, Places, Buffers, Others, IInv, WriteTypes, InputInv, InputTypes
    <2>2. InputKept
      <3> SUFFICES ASSUME pc = "idle", ~gone, Regular PROVE passed = typed
        BY DEF InputKept, Regular
      <3>1. PICK rest \in Seq(Element) : Accounted(rest)
        BY DEF InputInv, Followed, Going
      <3> QED  BY <3>1 DEF Accounted
    <2> QED  BY <2>1, <2>2 DEF InputSound, InputInv
  <1> QED  BY <1>1, InitStream, StepStream, PTL DEF Spec
=============================================================================
