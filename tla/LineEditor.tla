----------------------------- MODULE LineEditor -----------------------------
(***************************************************************************)
(* The line editor of players (leditor.cpp) on a buffer of characters      *)
(* (charvector.c), and the text it edits and saves (editabletext.cpp).     *)
(*                                                                         *)
(* The buffer is an array of bytes with a length.  What is appended goes   *)
(* to the first nul byte, as strncat has it, and the length becomes that   *)
(* of the text, what is appended and a nul byte; deleting moves bytes and  *)
(* keeps the length.  An index of lines, each with the place where it      *)
(* starts and its length, is rebuilt from some line on after each change;  *)
(* entries after the last line keep what they were.                        *)
(*                                                                         *)
(* An editor that cannot load the text, as it would exceed its limits, is  *)
(* as good as any with an empty buffer: the refusal is told to a client    *)
(* that it does not have yet.  It saves what is typed over the text.       *)
(*                                                                         *)
(* Inserting is left out: the command is read with two tokens at most and  *)
(* inserts only if there are three.  So is formatting, which replaces the  *)
(* whole text.                                                             *)
(***************************************************************************)
EXTENDS Integers, Sequences, SequencesExt, FiniteSetsExt

CONSTANTS
    Letters,
    Inputs,     \* what the player types: lines, each with its newline
    Strings,    \* what scripts assign to the text or add to it
    Limits,     \* [length, lines]: the limits of the text, 0 for none
    MaxText,    \* bounds the text that is edited
    MaxSessions \* bounds how often it is opened

NL == "newline"
NUL == "nul"

ASSUME EditorAssumption ==
    /\ NL \notin Letters /\ NUL \notin Letters
    /\ Inputs \subseteq Seq(Letters \cup {NL}) /\ Strings \subseteq Seq(Letters \cup {NL})
    /\ Limits \subseteq [length : Nat, lines : Nat]
    /\ MaxText \in Nat /\ MaxSessions \in Nat

VARIABLES
    target,   \* m_text of the EditableText
    cached,   \* m_cachedret: what GetString has copied
    stale,    \* m_bCopyNeedsUpdate
    limit,    \* its limits
    sessions, \* how often it has been opened
    mode,     \* the script has no editor: "closed"; one that has loaded the text: "open",
              \* or was refused it: "blank"; or it has moved a number of bytes less than
              \* none: "underflow"
    data,     \* the bytes of the buffer that are not known to be nul
    length,   \* the length of the buffer
    lines,    \* the index, with entries that are not used any more
    lines_count, \* how many are
    ideal,    \* the text the player should have
    saved,    \* that text when it was saved last, by the editor or a script
    added,    \* what a script made the text from, or has added to it, since
    flaws,    \* what was unusual of the buffer that was saved
    quirks    \* what is unusual of the buffer

text == <<target, cached, stale, limit, saved, added, flaws>>
buffer == <<data, length, lines, lines_count>>
vars == <<text, sessions, mode, buffer, ideal, quirks>>

-----------------------------------------------------------------------------
(* Bytes and lines.  Places count from zero.                               *)

Byte(d, i) == IF i < Len(d) THEN d[i + 1] ELSE NUL
Bytes(d, i, n) == [j \in 1 .. n |-> Byte(d, i + j - 1)]
Overwrite(d, i, s) ==
    [j \in 1 .. Max({Len(d), i + Len(s)}) |->
       IF j > i /\ j <= i + Len(s) THEN s[j - i] ELSE Byte(d, j - 1)]

\* A C string: up to the first nul byte.
CString(d) ==
    LET k == SelectInSeq(d, LAMBDA c : c = NUL)
    IN  IF k = 0 THEN d ELSE SubSeq(d, 1, k - 1)

Line(i) == IF i < Len(lines) THEN lines[i + 1] ELSE [start |-> 0, length |-> 0]
After(line) == line.start + line.length + 1

\* The places of newlines, from a place on, in front of another.
Newlines(d, from, to) ==
    LET upto[p \in 0 .. to] ==
          IF p <= from THEN <<>>
          ELSE IF Byte(d, p - 1) = NL THEN Append(upto[p - 1], p - 1) ELSE upto[p - 1]
    IN  upto[to]

Ended(s) == s = <<>> \/ Last(s) = NL
CountNewlines(s) == Len(Newlines(s, 0, Len(s)))

\* The text without its i-th line.
Without(s, i) ==
    LET ends == <<0>> \o [k \in 1 .. CountNewlines(s) |-> Newlines(s, 0, Len(s))[k] + 1]
    IN  IF i + 1 >= Len(ends) THEN s
        ELSE SubSeq(s, 1, ends[i + 1]) \o SubSeq(s, ends[i + 2] + 1, Len(s))

-----------------------------------------------------------------------------
(* Variants of the definitions below, each with a bug it could have had.   *)

\* The newline of the line before is not counted.
FirstStartsEarly(from) == IF from = 0 THEN 0 ELSE After(Line(from - 1)) - 1

\* What is appended goes to the end of the buffer.
AppendedAtLength(d, s) == Overwrite(d, length, Append(CString(s), NUL))

\* Saving does not invalidate the copy of GetString.
StaleNot == stale

-----------------------------------------------------------------------------
(* LineEditor_RebuildLineIndices: the index of a buffer d of length n from *)
(* a line on.  A text without a newline is one line, nul byte included.    *)

FirstStart(from) == IF from = 0 THEN 0 ELSE After(Line(from - 1))

Rebuild(d, n, from) ==
    LET offset == Line(from).start
        ends == Newlines(d, offset, n)
        begin(k) == IF k = 1 THEN offset ELSE ends[k - 1] + 1
        found == [k \in 1 .. Len(ends) |->
                    [start |-> FirstStart(from) + begin(k) - offset,
                     length |-> ends[k] - begin(k)]]
        new == IF ends = <<>> /\ from = 0 /\ offset < n
               THEN <<[start |-> 0, length |-> n]>> ELSE found
    IN  /\ lines' = SubSeq(lines, 1, from) \o new
                      \o SubSeq(lines, from + Len(new) + 1, Len(lines))
        /\ lines_count' = from + Len(new)

-----------------------------------------------------------------------------
(* LineEditor_Append.  A refusal is told to the client.                    *)

Fits(s) == limit.length = 0 \/ Len(s) + length <= limit.length
FitsLines(s) == limit.lines = 0 \/ lines_count + CountNewlines(s) <= limit.lines

\* cv_strncat.
Appended(d, s) == Overwrite(d, Len(CString(d)), Append(CString(s), NUL))
NewLength(d, s) == Len(CString(d)) + Len(s) + 1

\* Bytes beyond the length are not read again: those of the text and a nul byte
\* are written before the length exceeds them.
Kept(d, n) == SubSeq(d, 1, Min({n, Len(d)}))

AppendText(s) ==
    /\ Fits(s) /\ FitsLines(s)
    /\ length' = NewLength(data, s) /\ data' = Kept(Appended(data, s), length')
    /\ Rebuild(data', length', IF lines_count > 1 THEN lines_count - 1 ELSE 0)

-----------------------------------------------------------------------------
(* The text.                                                               *)

\* operator=: what was copied is stale.  The limits are set before editing.
Stale == TRUE

Assign(s, l) ==
    /\ mode # "underflow" /\ (mode = "closed" \/ l = limit) /\ limit' = l
    /\ target' = s /\ stale' = Stale /\ saved' = s /\ added' = <<>> /\ flaws' = {}
    /\ UNCHANGED <<cached, sessions, mode, buffer, ideal, quirks>>

\* operator+= leaves the copy as it is.
AddAssign(s) ==
    /\ mode # "underflow" /\ added = <<>> /\ Len(CString(target \o s)) <= MaxText
    /\ target' = target \o s /\ added' = s
    /\ UNCHANGED <<cached, stale, limit, saved, flaws, sessions, mode, buffer, ideal, quirks>>

GetString == IF stale THEN target ELSE cached

\* A script asks for the text.
Copy == cached' = GetString /\ stale' = FALSE

Read ==
    /\ mode # "underflow" /\ stale /\ Copy
    /\ UNCHANGED <<target, limit, saved, added, flaws, sessions, mode, buffer, ideal, quirks>>

Empty == data = <<>> /\ length = 0 /\ lines = <<>> /\ lines_count = 0

\* Bytes may be left behind the text: a line was deleted, or a text was added to.
Remnants == quirks # {}

\* A new editor, and LineEditor_SetEditTarget: it is not connected to a player
\* yet, and the refusal of a text that is too long has nobody to go to.
Open ==
    /\ mode = "closed" /\ sessions < MaxSessions /\ sessions' = sessions + 1
    /\ Copy
    /\ \/ /\ mode' = "open" /\ AppendText(GetString) /\ ideal' = CString(GetString)
          /\ quirks' = IF flaws = {} /\ added = <<>> THEN {} ELSE {"remnants"}
       \/ /\ ~(Fits(GetString) /\ FitsLines(GetString))
          /\ mode' = "blank" /\ UNCHANGED <<buffer, ideal, quirks>>
    /\ UNCHANGED <<target, limit, saved, added, flaws>>

-----------------------------------------------------------------------------
(* LineEditor_ProcessInput: text, or a command.                            *)

Editing == mode \in {"open", "blank"}

\* A line was deleted that is not there, or of a text that does not end with a
\* newline, as a script's may; or a deletion of a long line has left several
\* lines behind the text, from which the index is not rebuilt.  After
\* that the buffer is not edited any more here, only saved, left or cleared.
Odd == {"past", "unended", "ghosts"} \cap quirks # {}

Type(s) ==
    /\ Editing /\ ~Odd /\ Len(ideal \o s) <= MaxText
    /\ \/ AppendText(s) /\ ideal' = ideal \o s
       \/ ~(Fits(s) /\ FitsLines(s)) /\ UNCHANGED <<buffer, ideal>>
    /\ UNCHANGED <<text, sessions, mode, quirks>>

\* .d: the bytes after line i are moved to its start.  The number of lines is
\* let pass.  A line that ends beyond the buffer would have fewer than no bytes
\* after it.
DeletedFrom(line) == After(line)

EditorCmdDelete(i) ==
    LET line == Line(i)
        from == DeletedFrom(line)
        moved == Bytes(data, from, length - from)
        cleared == Overwrite(data, from, [j \in DOMAIN moved |-> NUL])
    IN
    /\ Editing /\ ~Odd /\ i <= lines_count
    /\ IF from > length
       THEN mode' = "underflow" /\ UNCHANGED buffer
       ELSE /\ data' = Overwrite(cleared, line.start, moved)
            /\ Rebuild(data', length, i)
            /\ UNCHANGED <<mode, length>>
    /\ ideal' = Without(ideal, i)
    /\ quirks' = quirks \cup {"remnants"}
                         \cup (IF i = lines_count THEN {"past"} ELSE {})
                         \cup (IF Ended(ideal) THEN {} ELSE {"unended"})
                         \cup (IF lines_count' > CountNewlines(ideal') + 1 THEN {"ghosts"} ELSE {})
    /\ UNCHANGED <<text, sessions>>

\* .c
EditorCmdClear ==
    /\ Editing
    /\ data' = <<>> /\ length' = 0 /\ Rebuild(<<>>, 0, 0)
    /\ ideal' = <<>> /\ quirks' = {}
    /\ UNCHANGED <<text, sessions, mode>>

\* .s: the whole buffer, nul bytes included.  The editor goes on.
Contents == Bytes(data, 0, length)

EditorCmdSave ==
    /\ Editing
    /\ target' = Contents /\ stale' = Stale /\ saved' = ideal /\ added' = <<>>
    /\ flaws' = (IF Remnants THEN {"remnants"} ELSE {}) \cup (IF Odd THEN {"spoilt"} ELSE {})
    /\ UNCHANGED <<cached, limit, sessions, mode, buffer, ideal, quirks>>

\* The script lets go of the editor.  .q leaves it as it is.
Close ==
    /\ Editing /\ mode' = "closed"
    /\ data' = <<>> /\ length' = 0 /\ lines' = <<>> /\ lines_count' = 0
    /\ ideal' = <<>> /\ quirks' = {}
    /\ UNCHANGED <<text, sessions>>

-----------------------------------------------------------------------------
\* A text made from a string has that, and has not copied it.
Init ==
    /\ target \in Strings \cup {<<>>} /\ cached = <<>> /\ stale = FALSE
    /\ limit = [length |-> 0, lines |-> 0] /\ saved = <<>> /\ added = target
    /\ sessions = 0 /\ mode = "closed" /\ Empty /\ ideal = <<>>
    /\ flaws = {} /\ quirks = {}

Next ==
    \/ \E s \in Strings, l \in Limits : Assign(s, l)
    \/ \E s \in Strings : AddAssign(s)
    \/ Read \/ Open
    \/ \E s \in Inputs : Type(s)
    \/ \E i \in 0 .. MaxText : EditorCmdDelete(i)
    \/ EditorCmdClear \/ EditorCmdSave \/ Close

Spec == Init /\ [][Next]_vars

-----------------------------------------------------------------------------
(* Properties.                                                             *)

\* Every variable keeps its type; charvector.c:113-131: a buffer that is not empty
\* has a nul byte within its length, as what is appended next has to find it.
TypeOK ==
    /\ mode \in {"closed", "open", "blank", "underflow"} /\ stale \in BOOLEAN
    /\ sessions \in 0 .. MaxSessions
    /\ length \in Nat /\ lines_count \in Nat /\ lines_count <= Len(lines)
    /\ \A k \in DOMAIN lines : lines[k].start \in Nat /\ lines[k].length \in Nat
    /\ flaws \subseteq {"remnants", "spoilt"}
    /\ quirks \subseteq {"remnants", "past", "unended", "ghosts"}
    /\ ~Odd /\ length > 0 => Len(CString(data)) < length

\* leditor.cpp:182-226: the lines of the text are the first of the index, each
\* where the text has it: the number that is shown before a line, and is given to
\* delete it, is that of this line.  What deleted lines have left, nul bytes and
\* newlines behind the text, may be indexed after them.
Indexed ==
    Editing /\ ~Odd =>
        /\ CountNewlines(ideal) <= lines_count
        /\ \A i \in 0 .. CountNewlines(ideal) - 1 :
             /\ Line(i).start = IF i = 0 THEN 0 ELSE After(Line(i - 1))
             /\ Newlines(ideal, Line(i).start, After(Line(i)))
                  = <<Line(i).start + Line(i).length>>

\* charvector.c:124: up to its first nul byte, the buffer is the text that the
\* commands ask for, whatever is left of deleted lines after it.
Faithful == Editing /\ ~Odd => CString(data) = ideal

\* leditor.cpp:166-176: the text never exceeds its limits.
WithinLimits ==
    Editing /\ ~Odd =>
        /\ limit.length > 0 => Len(CString(data)) <= limit.length
        /\ limit.lines > 0 => CountNewlines(CString(data)) <= limit.lines

\* leditor.cpp:263: the length of what is moved wraps only in a text without a
\* newline, which is one line with its nul byte, or for the line after the last.
UnderflowsUnended ==
    mode = "underflow" => CountNewlines(CString(data)) = 0 \/ "past" \in quirks

\* leditor.cpp:72, 379: the nul bytes that the editor saves with a text count when it
\* is loaded again: as long as no line was deleted from it and nothing added, a text is
\* refused for its length only if it is at its limit but for one byte for each session.
RefusedAtLimit ==
    mode = "closed" /\ flaws = {} /\ added = <<>> /\ ~Fits(GetString) =>
        Len(CString(GetString)) + sessions > limit.length

\* leditor.cpp:63-273: the numbers shown before the lines are those of the lines,
\* within the limits and for every text, after any editing, also in an editor that
\* could not load the text.
Inv == TypeOK /\ Indexed /\ WithinLimits /\ UnderflowsUnended /\ RefusedAtLimit

\* editabletext.cpp:121-163: what scripts read, and open next, is what was saved last, by
\* an editor or a script, or that with all a script has made it from or added since:
\* what is added leaves the copy of GetString as it is, and may be behind a nul byte.
SavedKept == "spoilt" \notin flaws => CString(GetString) \in {saved, saved \o added}
=============================================================================
