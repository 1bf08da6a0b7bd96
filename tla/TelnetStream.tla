---------------------------- MODULE TelnetStream ----------------------------
(***************************************************************************)
(* The connection of one client: HandleUserInputTask of server.c and the   *)
(* automaton of telnet.c on the way in, Client_WriteToImpl of client.c and *)
(* the answers of Run3ByteCmd on the way out.                              *)
(*                                                                         *)
(* The automaton keeps its state between reads, but only chunks with an    *)
(* IAC in them are passed through it, and a read ends where the network    *)
(* has cut the stream.  Compression of what the peer sends begins after    *)
(* its sub-negotiation, and is looked at once per read.                    *)
(* One input task of the client runs at a time: the warning of             *)
(* Server_ClockPlayer, which rearms the socket earlier (ClientSession has  *)
(* it), is not part of this module.                                        *)
(*                                                                         *)
(* Scripts of any thread write to the client.  A write chooses compression *)
(* and sends under a mutex; the answers of the automaton do neither, and   *)
(* the input task unlocks the mutex without having locked it.              *)
(*                                                                         *)
(* A byte stands for itself: "V" is MCCP2 and "W" is MCCP3, and both are   *)
(* letters; "X" is a letter and the number of an option that the server    *)
(* does not know; "TT" is the terminal type, "NOP" any two byte command.   *)
(***************************************************************************)
EXTENDS Naturals, Sequences, FiniteSets, SequencesExt

CONSTANTS
    Writers,     \* threads that send something to the client
    Worker,      \* the thread that runs the client's input tasks
    Messages,    \* what the peer says: commands, which begin with an IAC, and text
    MaxMessages, \* bounds them
    MaxWrites,   \* bounds the messages of the server
    ReadSize,    \* the bytes of one call of read(): 512
    MaxInput,    \* the bytes of one input task: 2048
    NormalCapacity, \* the text that may come with commands: 128
    ArgsCapacity,   \* the arguments of a sub-negotiation: 32
    InflateCapacity, \* what the decompressor has room for: 1024
    None

ASSUME TelnetAssumption ==
    /\ Worker \notin Writers /\ None \notin Writers \cup {Worker}
    /\ MaxMessages \in Nat /\ MaxWrites \in Nat
    /\ ReadSize \in Nat \ {0} /\ MaxInput \in Nat /\ MaxInput % ReadSize = 0
    /\ NormalCapacity \in Nat /\ ArgsCapacity \in Nat /\ InflateCapacity \in Nat

Threads == Writers \cup {Worker}

DoMCCP2 == <<"IAC", "DO", "V">>
BeginMCCP3 == <<"IAC", "SB", "W", "IAC", "SE">>

VARIABLES
    \* The peer and the network.
    wire,    \* what the peer has sent and nobody has read
    said,    \* the messages sent so far
    left,    \* how many more there will be
    closed,  \* the peer has closed its side
    \* The input task.
    pc,      \* where it is
    work,    \* its local variables
    state, last, args, \* the automaton: state, last_byte, sb_args
    mccp2, mccp3,      \* its options
    inflate, \* the decompressor: "ok", "lost" when it misses bytes, "ended"
    gone,    \* the client is disconnected
    \* Writes.
    lock,    \* who has locked connection_state_mtx
    wr,      \* the write of each thread
    writes,  \* how many have begun
    \* What the two ends make of it.
    typed, passed, \* text the peer sent and the server read; what became input
    hears,   \* "plain" or "zip": how the peer reads what arrives
    partial, \* the thread of whose message only a part has arrived
    faults,  \* what was wrong with it
    quirks   \* what happened that can be a reason for that

peer == <<wire, said, left, closed>>
automaton == <<state, last, args, mccp2, mccp3>>
out == <<hears, partial, faults>>
writing == <<lock, wr, writes>>
vars == <<peer, pc, work, automaton, inflate, gone, writing, typed, passed, out, quirks>>

Bytes == {"IAC", "SB", "SE", "NOP", "DO", "DONT", "TT", "V", "W", "X", "NUL"}
NoWork == [chunk |-> <<>>, bytes |-> <<>>, todo |-> <<>>, normal |-> <<>>,
           had |-> FALSE, empty |-> FALSE]
NoWrite == [at |-> "idle", zip |-> FALSE]

Inside == {t \in Threads : wr[t].at \in {"send", "rest"}}
HasIAC(bytes) == "IAC" \in ToSet(bytes)

-----------------------------------------------------------------------------
(* Variants of the definitions below, each with a bug it could have had.   *)

\* What is passed on is all that was read.
InputAll(w) == w.bytes

\* Compression is looked at before the mutex is locked.
ChosenBefore(t) == wr[t].zip

\* The mutex is not unlocked.
UnlockedNot(t) == lock

-----------------------------------------------------------------------------
(* The peer.  After its sub-negotiation all that it sends is compressed.   *)

\* How far a command is: before an argument ("OPT"), after the first one, which
\* may be MCCP3 ("SBW") or not ("SB"), and after the IAC that ends them.
Phases == {"INPUT", "IAC", "DO", "DONT", "OPT", "SB", "SBW", "SE", "SEW"}

\* From phase p a command goes on to phase q with x.  A peer that repeated an IAC
\* among the arguments, to escape it, would not be understood.
Follows(p, x, q) ==
    \/ p = "INPUT" /\ x = "IAC" /\ q = "IAC"
    \/ p = "IAC" /\ x = "SB" /\ q = "OPT"
    \/ p = "IAC" /\ x \in {"SE", "NOP"} /\ q = "INPUT"
    \/ p = "IAC" /\ x \in {"DO", "DONT"} /\ q = x
    \/ p \in {"DO", "DONT"} /\ x \in {"TT", "V", "W", "X"} /\ q = "INPUT"
    \/ p = "OPT" /\ x # "IAC" /\ q = (IF x = "W" THEN "SBW" ELSE "SB")
    \/ p = "SB" /\ x # "IAC" /\ q = "SB"
    \/ p \in {"OPT", "SB"} /\ x = "IAC" /\ q = "SE"
    \/ p = "SBW" /\ x = "IAC" /\ q = "SEW"
    \/ p \in {"SE", "SEW"} /\ x = "SE" /\ q = "INPUT"

\* Commands one after the other.  Agreement to MCCP2, and the beginning of MCCP3,
\* are messages of their own.
Commands(m) ==
    \E p \in [1 .. Len(m) + 1 -> Phases] :
        /\ p[1] = "INPUT" /\ p[Len(m) + 1] = "INPUT"
        /\ \A i \in 1 .. Len(m) :
              /\ Follows(p[i], m[i], p[i + 1])
              /\ (p[i] = "DO" /\ m[i] = "V") => m = DoMCCP2
              /\ (p[i] = "SEW") => m = BeginMCCP3

ASSUME MessageAssumption ==
    \A m \in Messages :
        /\ m \in Seq(Bytes) /\ m # <<>>
        /\ IF m[1] = "IAC" THEN Commands(m) ELSE ~HasIAC(m)

Elements(m) ==
    [i \in DOMAIN m |->
       [byte |-> m[i], zip |-> BeginMCCP3 \in said,
        kind |-> IF m[1] # "IAC" THEN "text" ELSE IF i = 1 THEN "start" ELSE "rest"]]

PeerSends(m) ==
    /\ left > 0 /\ ~closed /\ (m[1] = "IAC" => m \notin said)
    /\ wire' = wire \o Elements(m) /\ said' = said \cup {m} /\ left' = left - 1
    /\ UNCHANGED <<closed, pc, work, automaton, inflate, gone, writing, typed, passed,
                   out, quirks>>

PeerCloses ==
    /\ left = 0 /\ ~closed /\ closed' = TRUE
    /\ UNCHANGED <<wire, said, left, pc, work, automaton, inflate, gone, writing, typed,
                   passed, out, quirks>>

-----------------------------------------------------------------------------
(* The input task.                                                         *)

\* read_to_cv: a read that fills its piece is followed by another one, which
\* waits.
Text(elements) ==
    LET text[i \in 0 .. Len(elements)] ==
          IF i = 0 THEN <<>>
          ELSE IF elements[i].kind = "text" THEN Append(text[i - 1], elements[i].byte)
          ELSE text[i - 1]
    IN  text[Len(elements)]

Read(n) ==
    LET chunk == work.chunk \o SubSeq(wire, 1, n) IN
    /\ pc \in {"idle", "reading"} /\ ~gone /\ n <= Len(wire) /\ n <= ReadSize
    /\ wire' = SubSeq(wire, n + 1, Len(wire))
    /\ typed' = typed \o Text(SubSeq(wire, 1, n))
    /\ work' = [work EXCEPT !.chunk = chunk]
    /\ pc' = IF n = ReadSize /\ Len(chunk) < MaxInput THEN "reading" ELSE "read"
    /\ UNCHANGED <<said, left, closed, automaton, inflate, gone, writing, passed, out, quirks>>

\* The end of the input: zero bytes, whatever has been read before.
ReadEnd ==
    /\ pc \in {"idle", "reading"} /\ ~gone /\ wire = <<>> /\ closed
    /\ pc' = "read" /\ work' = [work EXCEPT !.empty = TRUE]
    /\ UNCHANGED <<peer, automaton, inflate, gone, writing, typed, passed, out, quirks>>

\* Server_ClockPlayer: too many bytes per second.
TooFast ==
    /\ pc = "read" /\ pc' = "refuse" /\ quirks' = quirks \cup {"fast"}
    /\ UNCHANGED <<peer, work, automaton, inflate, gone, writing, typed, passed, out>>

\* Bytes without an IAC among them are input.  All others go to the automaton,
\* of them those that the length of what was read, before it was decompressed,
\* has room for.
Scan(bytes, todo) ==
    /\ work' = [work EXCEPT !.bytes = bytes, !.todo = IF HasIAC(bytes) THEN todo ELSE <<>>]
    /\ pc' = "scan"

\* What is unusual about a chunk.
Quirks(chunk, bytes, todo) ==
    {q \in {"cut", "length", "nul", "long"} :
       \/ q = "cut" /\ Head(chunk).kind = "rest" /\ ~HasIAC(bytes)
       \/ q = "length" /\ HasIAC(bytes) /\ todo # bytes
       \/ q = "nul" /\ HasIAC(bytes) /\ "NUL" \in ToSet(bytes)
       \/ q = "long" /\ HasIAC(bytes) /\ Len(Text(chunk)) > NormalCapacity}

ScanEmpty ==
    /\ pc = "read" /\ work.chunk = <<>> /\ Scan(<<>>, <<>>)
    /\ UNCHANGED <<peer, automaton, inflate, gone, writing, typed, passed, out, quirks>>

\* Bytes as they came.  If the peer has compressed them, they are any bytes,
\* and the decompressor will miss them.
ScanPlain ==
    LET chunk == work.chunk IN
    /\ pc = "read" /\ chunk # <<>> /\ ~mccp3
    /\ \E garbled \in {"IAC", "X", "NUL"} :
         LET bytes == [i \in DOMAIN chunk |-> IF chunk[i].zip THEN garbled ELSE chunk[i].byte]
             late == \E i \in DOMAIN chunk : chunk[i].zip
         IN  /\ Scan(bytes, bytes)
             /\ inflate' = IF late THEN "lost" ELSE inflate
             /\ quirks' = quirks \cup Quirks(chunk, bytes, bytes)
                                 \cup (IF late THEN {"late"} ELSE {})
    /\ UNCHANGED <<peer, automaton, gone, writing, typed, passed, out>>

\* Decompressed bytes, of which there may be more or fewer than were read:
\* beyond their end is memory that nobody has written.
Decodes(chunk) == inflate = "ok" /\ \A i \in DOMAIN chunk : chunk[i].zip
Overflows(chunk) == Decodes(chunk) /\ Len(chunk) >= InflateCapacity

ScanZip ==
    LET chunk == work.chunk
        bytes == [i \in DOMAIN chunk |-> chunk[i].byte]
    IN
    /\ pc = "read" /\ chunk # <<>> /\ mccp3
    /\ Decodes(chunk) /\ ~Overflows(chunk)
    /\ \E todo \in {SubSeq(bytes, 1, z) : z \in 1 .. Len(bytes)}
                     \cup {Append(bytes, x) : x \in {"NUL", "X"}} :
         /\ Scan(bytes, todo)
         /\ quirks' = quirks \cup Quirks(chunk, bytes, todo)
    /\ UNCHANGED <<peer, automaton, inflate, gone, writing, typed, passed, out>>

\* Decompression fails, which ends the decompressor: the reset that follows has
\* nothing to reset.  The socket is rearmed.
DecodeFails ==
    /\ pc = "read" /\ work.chunk # <<>> /\ mccp3
    /\ ~Decodes(work.chunk) /\ inflate # "ended"
    /\ inflate' = "ended" /\ pc' = "idle" /\ work' = NoWork
    /\ UNCHANGED <<peer, automaton, gone, writing, typed, passed, out, quirks>>

\* An ended decompressor takes no bytes, and one whose room is full has none for
\* more: both report errors that the loop around it does not know.
Spin ==
    /\ pc = "read" /\ work.chunk # <<>> /\ mccp3
    /\ inflate = "ended" \/ Overflows(work.chunk)
    /\ pc' = "spins"
    /\ UNCHANGED <<peer, work, automaton, inflate, gone, writing, typed, passed, out, quirks>>

-----------------------------------------------------------------------------
(* TelnetStream_ProcessByte, one byte per step.  A nul byte is an error     *)
(* outside of a sub-negotiation.                                           *)

GetIs2CmdByte(x) == x \in {"SE", "NOP"}
Is3ByteCmd(x) == x \in {"TT", "V", "W", "X"}
Pushed(s, x, capacity) == Len(s) < capacity

\* The automaton has taken x and is in state s.
Took(x, s) ==
    /\ state' = s /\ last' = x
    /\ pc' = IF s = "ERROR" THEN "refuse" ELSE pc
    /\ UNCHANGED <<peer, inflate, gone, writing, typed, passed, quirks>>

Takes(x) == pc = "scan" /\ work.todo # <<>> /\ Head(work.todo) = x
Had(s) == [work EXCEPT !.todo = Tail(work.todo), !.had = @ \/ s # "INPUT"]

NulByte ==
    /\ Takes("NUL") /\ state # "SB"
    /\ Took("NUL", "ERROR") /\ work' = Had("ERROR")
    /\ UNCHANGED <<args, mccp2, mccp3, out>>

InputByte(x) ==
    /\ Takes(x) /\ state = "INPUT" /\ x # "NUL"
    /\ LET s == IF x = "IAC" THEN "IAC"
                ELSE IF Pushed(work.normal, x, NormalCapacity) THEN "INPUT" ELSE "ERROR"
       IN  /\ Took(x, s)
           /\ work' = [Had(s) EXCEPT !.normal = IF s = "INPUT" THEN Append(@, x) ELSE @]
    /\ UNCHANGED <<args, mccp2, mccp3, out>>

IacByte(x) ==
    /\ Takes(x) /\ state = "IAC" /\ x # "NUL"
    /\ LET s == IF x = "SB" THEN "SB" ELSE IF GetIs2CmdByte(x) THEN "INPUT" ELSE "CMD"
       IN  Took(x, s) /\ work' = Had(s)
    /\ args' = IF x = "SB" THEN <<>> ELSE args
    /\ UNCHANGED <<mccp2, mccp3, out>>

SbByte(x) ==
    /\ Takes(x) /\ state = "SB"
    /\ LET s == IF x = "IAC" THEN "SE"
                ELSE IF Len(args) < ArgsCapacity THEN "SB" ELSE "ERROR"
       IN  /\ Took(x, s) /\ work' = Had(s)
           /\ args' = IF s = "SB" THEN Append(args, x) ELSE args
    /\ UNCHANGED <<mccp2, mccp3, out>>

\* A sub-negotiation runs at its end: that of MCCP3 turns decompression on.
RunSubnegotiationCmd == mccp3' = (mccp3 \/ (args # <<>> /\ args[1] = "W"))

SeByte(x) ==
    /\ Takes(x) /\ state = "SE" /\ x # "NUL"
    /\ LET s == IF x = "SE" THEN "INPUT" ELSE "ERROR"
       IN  Took(x, s) /\ work' = Had(s)
    /\ IF x = "SE" THEN RunSubnegotiationCmd ELSE UNCHANGED mccp3
    /\ UNCHANGED <<args, mccp2, out>>

\* Run3ByteCmd.  The peer agrees to MCCP2: the option is set, and announced in
\* the next step.
Agreed(x) == x = "V" /\ last = "DO"

CmdMCCP2(x) ==
    /\ Takes(x) /\ state = "CMD" /\ Agreed(x)
    /\ mccp2' = TRUE /\ work' = Had("INPUT")
    /\ state' = "INPUT" /\ last' = x /\ pc' = "announce"
    /\ quirks' = quirks \cup (IF Inside # {} THEN {"overlap"} ELSE {})
    /\ UNCHANGED <<peer, args, mccp3, inflate, gone, writing, typed, passed, out>>

Announce ==
    /\ pc = "announce" /\ pc' = "scan" /\ hears' = "zip"
    /\ UNCHANGED <<peer, work, automaton, inflate, gone, writing, typed, passed, partial,
                   faults, quirks>>

\* A question about the terminal, or a refusal of an option, is sent as it is.
Answers(x) == x = "TT" \/ (x = "X" /\ last \in {"DO", "WILL"})

CmdByte(x) ==
    LET s == IF Is3ByteCmd(x) THEN "INPUT" ELSE "ERROR" IN
    /\ Takes(x) /\ state = "CMD" /\ x # "NUL" /\ ~Agreed(x)
    /\ state' = s /\ last' = x /\ work' = Had(s)
    /\ pc' = IF s = "ERROR" THEN "refuse" ELSE pc
    /\ faults' = IF Answers(x) /\ hears = "zip" THEN faults \cup {"raw"} ELSE faults
    /\ quirks' = IF Answers(x) /\ mccp2 THEN quirks \cup {"answer"} ELSE quirks
    /\ UNCHANGED <<peer, args, mccp2, mccp3, inflate, gone, writing, typed, passed, hears,
                   partial>>

-----------------------------------------------------------------------------
(* The end of the task.                                                    *)

\* If there were commands, only the text between them is input.  The mutex is
\* unlocked, whoever has locked it.
Input(w) == IF w.had THEN w.normal ELSE w.bytes

PassOn ==
    /\ pc = "scan" /\ work.todo = <<>>
    /\ passed' = passed \o Input(work)
    /\ lock' = None
    /\ quirks' = IF lock # None THEN quirks \cup {"robbed"} ELSE quirks
    /\ pc' = IF work.empty THEN "close" ELSE "input"
    /\ UNCHANGED <<peer, work, automaton, inflate, gone, wr, writes, typed, out>>

\* The socket is rearmed.
Rearm ==
    /\ pc = "input" /\ wr[Worker] = NoWrite
    /\ pc' = "idle" /\ work' = NoWork
    /\ UNCHANGED <<peer, automaton, inflate, gone, writing, typed, passed, out, quirks>>

\* Server_DisconnectClient, when the peer has gone or has been told why.
Disconnect ==
    /\ pc = "close" /\ wr[Worker] = NoWrite
    /\ gone' = TRUE /\ pc' = "idle" /\ work' = NoWork
    /\ UNCHANGED <<peer, automaton, inflate, writing, typed, passed, out, quirks>>

-----------------------------------------------------------------------------
(* Client_WriteToImpl, in two pieces for the calls of send().               *)

\* The input task writes what the script answers, or why it disconnects.
Call(t) ==
    /\ wr[t].at = "idle" /\ ~gone
    /\ IF t = Worker /\ pc = "refuse" THEN pc' = "close" /\ writes' = writes
       ELSE /\ writes < MaxWrites /\ writes' = writes + 1
            /\ t = Worker => pc = "input"
            /\ pc' = pc
    /\ wr' = [wr EXCEPT ![t] = [at |-> "lock", zip |-> mccp2]]
    /\ UNCHANGED <<peer, work, automaton, inflate, gone, lock, typed, passed, out, quirks>>

Lockable(t) == lock = None
Chosen(t) == mccp2

Lock(t) ==
    /\ wr[t].at = "lock" /\ Lockable(t) /\ lock' = t
    /\ wr' = [wr EXCEPT ![t] = [at |-> "send", zip |-> Chosen(t)]]
    /\ quirks' = IF pc = "announce" THEN quirks \cup {"overlap"} ELSE quirks
    /\ UNCHANGED <<peer, pc, work, automaton, inflate, gone, writes, typed, passed, out>>

\* A piece of t arrives, unless the socket has been closed.
Arrives(t) ==
    faults' = faults \cup {f \in {"early", "late", "mixed"} :
        /\ ~gone
        /\ \/ f = "early" /\ wr[t].zip /\ hears = "plain"
           \/ f = "late" /\ ~wr[t].zip /\ hears = "zip"
           \/ f = "mixed" /\ partial \notin {None, t}}

Send(t) ==
    /\ wr[t].at = "send" /\ Arrives(t) /\ partial' = t
    /\ wr' = [wr EXCEPT ![t].at = "rest"]
    /\ UNCHANGED <<peer, pc, work, automaton, inflate, gone, lock, writes, typed, passed,
                   hears, quirks>>

Unlocked(t) == None

Rest(t) ==
    /\ wr[t].at = "rest" /\ Arrives(t) /\ partial' = None
    /\ wr' = [wr EXCEPT ![t] = NoWrite] /\ lock' = Unlocked(t)
    /\ UNCHANGED <<peer, pc, work, automaton, inflate, gone, writes, typed, passed,
                   hears, quirks>>

-----------------------------------------------------------------------------
Init ==
    /\ wire = <<>> /\ said = {} /\ left = MaxMessages /\ closed = FALSE
    /\ pc = "idle" /\ work = NoWork
    /\ state = "INPUT" /\ last = "NUL" /\ args = <<>> /\ mccp2 = FALSE /\ mccp3 = FALSE
    /\ inflate = "ok" /\ gone = FALSE
    /\ lock = None /\ wr = [t \in Threads |-> NoWrite] /\ writes = 0
    /\ typed = <<>> /\ passed = <<>>
    /\ hears = "plain" /\ partial = None /\ faults = {} /\ quirks = {}

ProcessByte ==
    \/ NulByte \/ Announce
    \/ \E x \in Bytes : \/ InputByte(x) \/ IacByte(x) \/ SbByte(x) \/ SeByte(x)
                        \/ CmdMCCP2(x) \/ CmdByte(x)

InputTask ==
    \/ \E n \in 1 .. ReadSize : Read(n)
    \/ ReadEnd \/ TooFast \/ ScanEmpty \/ ScanPlain \/ ScanZip \/ DecodeFails \/ Spin
    \/ ProcessByte \/ PassOn \/ Rearm \/ Disconnect
    \/ pc = "refuse" /\ Call(Worker)

Write(t) == Lock(t) \/ Send(t) \/ Rest(t)

Next ==
    \/ \E m \in Messages : PeerSends(m)
    \/ PeerCloses
    \/ InputTask
    \/ \E t \in Threads : Call(t) \/ Write(t)

\* Threads run on.  The peer need not say or close anything, and scripts need not
\* write.
Spec ==
    /\ Init /\ [][Next]_vars
    /\ WF_vars(InputTask) /\ \A t \in Threads : WF_vars(Write(t))

-----------------------------------------------------------------------------
(* Properties.                                                             *)

\* Every variable keeps its type; buffers stay within their capacity.
TypeOK ==
    /\ pc \in {"idle", "reading", "read", "scan", "announce", "input", "refuse", "close",
               "spins"}
    /\ state \in {"INPUT", "IAC", "SB", "SE", "CMD", "ERROR"} /\ last \in Bytes
    /\ Len(work.normal) <= NormalCapacity /\ Len(args) <= ArgsCapacity
    /\ mccp2 \in BOOLEAN /\ mccp3 \in BOOLEAN /\ gone \in BOOLEAN /\ closed \in BOOLEAN
    /\ inflate \in {"ok", "lost", "ended"}
    /\ lock \in Threads \cup {None} /\ partial \in Threads \cup {None}
    /\ \A t \in Threads : wr[t].at \in {"idle", "lock", "send", "rest"}
    /\ writes \in 0 .. MaxWrites /\ left \in 0 .. MaxMessages
    /\ hears \in {"plain", "zip"} /\ faults \subseteq {"early", "late", "mixed", "raw"}

\* server.c:240-284: however the network cuts the stream, text becomes input, all
\* of it, in its order, and nothing else does, between tasks of a client that is
\* still there: unless a read began within a command and had no IAC in it, or
\* compressed bytes were read with the sub-negotiation that begins compression, or
\* the length before decompression was used for what came out of it.
InputKept ==
    pc = "idle" /\ ~gone /\ quirks \cap {"cut", "late", "length"} = {} => passed = typed

\* telnet.c:288-385: a peer that follows the protocol is not accused of errors, but
\* for the reasons above, a nul byte, and text or arguments longer than the buffers
\* for them.
NoFalseAlarm ==
    state = "ERROR" =>
        \/ quirks \cap {"cut", "late", "length", "nul", "long"} # {}
        \/ \E m \in said : m[1] = "IAC" /\ Len(m) > ArgsCapacity + 4

\* telnet.c:147-158 and 265: compression is used in neither direction before the
\* peer has agreed to it, unless a command was taken for input, so that what
\* follows it is taken for its end, or what came out of the decompressor was.
Consent ==
    /\ mccp2 => DoMCCP2 \in said \/ quirks \cap {"cut", "late", "length"} # {}
    /\ mccp3 => BeginMCCP3 \in said \/ "cut" \in quirks

\* client.c:116: two messages are sent at a time only after the input task has
\* unlocked a mutex that another thread had locked (server.c:285).
Exclusion == Cardinality(Inside) > 1 => "robbed" \in quirks

\* client.c:117-165: the peer can read what it gets, plain before the announcement
\* and compressed after it and one message after the other: unless a message was
\* being sent or chosen when compression began, the mutex was taken away, or the
\* automaton answered something after compression began.
Readable ==
    /\ faults \cap {"early", "late"} # {} => "overlap" \in quirks
    /\ "mixed" \in faults => "robbed" \in quirks
    /\ "raw" \in faults => "answer" \in quirks

\* zcompressor.c:79-106: the worker loops for ever in the decompressor only for a
\* peer whose compressed bytes were read as plain ones, or whose command was taken
\* for input so that another seemed to begin compression, or whose bytes make up
\* more than there is room for.
SpinsLate ==
    pc = "spins" => quirks \cap {"cut", "late"} # {} \/ Overflows(work.chunk)

\* server.c:216-288, telnet.c:288-385: the automaton takes text for input, commands
\* for commands and compressed bytes for what they say, however they are cut, but
\* for the named quirks of the code.
InputSound == TypeOK /\ InputKept /\ NoFalseAlarm /\ Consent /\ SpinsLate

\* client.c:97-167, telnet.c:151-208: what several threads and the automaton write
\* reaches the peer one message at a time in the form it expects, but for the named
\* races.
OutputSound == Exclusion /\ Readable

\* An input task ends, unless it loops in the decompressor or waits in a read for
\* bytes, having read as many as a read takes (iohelper.c:14-24).
Returns ==
    pc # "idle" ~> (pc \in {"idle", "spins"} \/ (pc = "reading" /\ wire = <<>>))
=============================================================================
