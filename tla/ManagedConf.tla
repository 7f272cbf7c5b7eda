---------------------------- MODULE ManagedConf ----------------------------
(***************************************************************************)
(* The postgresql.conf of a persistent data directory: write_postgresql_conf *)
(* of src/src/engine.rs puts the settings of this start between two mark    *)
(* lines and leaves the rest of the file to the user, who edits it between  *)
(* starts.                                                                  *)
(*                                                                          *)
(* The file is read, cut apart and written in place, without a lock: two    *)
(* starts on one directory, or an editor, may come between, and a start may *)
(* end between the truncation and the last byte.  The file is a sequence of *)
(* lines; the settings of one start are one line here.  The user leaves the *)
(* marks and what is between them alone.  The last port setting counts for  *)
(* the server (external); without one it is PostgreSQL's own.               *)
(***************************************************************************)
EXTENDS Integers, SequencesExt

CONSTANTS
    Starts,     \* the starts on this directory, each made at most once
    Port,       \* Port[w]: the port of start w, already resolved
    UserLines,  \* the lines a user may write
    Pinned,     \* those of them that set the port, to UserPort
    Foreign,    \* those that are not UTF-8
    UserPort,
    MaxEdits    \* how often the user saves the file

ASSUME ConfAssumption ==
    /\ Port \in [Starts -> Nat \ {0}]
    /\ Pinned \subseteq UserLines
    /\ Foreign \subseteq UserLines
    /\ UserPort \in Nat \ {0}
    /\ MaxEdits \in Nat

VARIABLES
    pc,       \* pc[w]: where start w is
    existing, \* existing[w]: the text w has read, while it needs it
    file,     \* postgresql.conf
    edits,    \* how often the user has saved it
    mine,     \* the user's lines, as the user last saved them
    mishaps   \* what has happened to it, see Mishaps

vars == <<pc, existing, file, edits, mine, mishaps>>

Default == 5432

Begin == <<"begin">>
End == <<"end">>
Blank == <<"blank">>
Managed(w) == <<"managed", w>>
User(u) == <<"user", u>>

Lines == {Begin, End, Blank} \cup {Managed(w) : w \in Starts} \cup {User(u) : u \in UserLines}

\* "overlap": two starts, or a start and an editor, at the file at once; "cut":
\* a write that was not completed; "unreadable": a text that is not UTF-8.
Mishaps == {"overlap", "cut", "unreadable"}

Places == {"idle", "compose", "write", "spawn", "up", "failed"}

UserText(f) ==
    FlattenSeq([k \in DOMAIN f |-> IF f[k][1] = "user" THEN <<f[k]>> ELSE <<>>])

\* The port a line sets, 0 if it sets none.
Sets(l) ==
    IF l[1] = "managed" THEN Port[l[2]]
    ELSE IF l \in {User(u) : u \in Pinned} THEN UserPort
    ELSE 0

EffectivePort(f) ==
    LET k == SelectLastInSeq(f, LAMBDA l : Sets(l) # 0)
    IN  IF k = 0 THEN Default ELSE Sets(f[k])

Active == {w \in Starts : pc[w] \in {"compose", "write", "spawn"}}

TypeOK ==
    /\ pc \in [Starts -> Places]
    /\ existing \in [Starts -> Seq(Lines)]
    /\ file \in Seq(Lines)
    /\ edits \in 0..MaxEdits
    /\ mine \in Seq({User(u) : u \in UserLines})
    /\ mishaps \subseteq Mishaps

\* What initdb left: comments, and nothing of anybody's.
Init ==
    /\ pc = [w \in Starts |-> "idle"]
    /\ existing = [w \in Starts |-> <<>>]
    /\ file = <<>>
    /\ edits = 0
    /\ mine = <<>>
    /\ mishaps = {}

-----------------------------------------------------------------------------
(* The new text.                                                            *)

\* find: the first place of a mark, 0 if there is none.
Find(f, mark) ==
    IF Contains(f, mark) THEN SelectInSeq(f, LAMBDA l : l = mark) ELSE 0

Before(f) == SubSeq(f, 1, Find(f, Begin) - 1)

\* Wrong variant: what is behind the section is not looked for.
AfterNothing(f) == <<>>

\* Wrong variant: the old section is taken for something of the user's.
AfterBegin(f) ==
    IF Find(f, End) = 0 THEN <<>> ELSE <<Blank>> \o SubSeq(f, Find(f, Begin) + 1, Len(f))

\* What is behind the end mark, beginning with the end of its line.
After(f) ==
    IF Find(f, End) = 0 THEN <<>> ELSE <<Blank>> \o SubSeq(f, Find(f, End) + 1, Len(f))

Section(w) == <<Begin, Managed(w), End>>

\* Wrong variant: a file without a section does not get one.
NewContentReplaceOnly(f, w) ==
    IF Find(f, Begin) # 0 THEN Before(f) \o Section(w) \o After(f) ELSE f

\* Wrong variant: the section is appended each time.
NewContentAppend(f, w) == f \o <<Blank>> \o Section(w)

NewContent(f, w) ==
    IF Find(f, Begin) # 0
    THEN Before(f) \o Section(w) \o After(f)
    ELSE f \o <<Blank>> \o Section(w)

-----------------------------------------------------------------------------
(* write_postgresql_conf.                                                   *)

Goto(w, from, to) ==
    /\ pc[w] = from
    /\ pc' = [pc EXCEPT ![w] = to]

Readable == \A k \in DOMAIN file : file[k] \notin {User(u) : u \in Foreign}

\* read_to_string(...).unwrap_or_default()
Read(w) ==
    /\ Goto(w, "idle", "compose")
    /\ existing' = [existing EXCEPT ![w] = IF Readable THEN file ELSE <<>>]
    /\ mishaps' = mishaps \cup (IF Readable THEN {} ELSE {"unreadable"})
                          \cup (IF Active # {} THEN {"overlap"} ELSE {})
    /\ UNCHANGED <<file, edits, mine>>

\* fs::write opens the file with O_TRUNC.
Truncate(w) ==
    /\ Goto(w, "compose", "write")
    /\ file' = <<>>
    /\ UNCHANGED <<existing, edits, mine, mishaps>>

\* Text put at the start of the file; what is longer there stays.
Overwrite(text) == text \o SubSeq(file, Len(text) + 1, Len(file))

Write(w) ==
    /\ Goto(w, "write", "spawn")
    /\ file' = Overwrite(NewContent(existing[w], w))
    /\ existing' = [existing EXCEPT ![w] = <<>>]
    /\ UNCHANGED <<edits, mine, mishaps>>

\* A full disk, an error before the file is opened, or the end of the process.
Interrupted(w) ==
    /\ pc[w] \in {"compose", "write"}
    /\ pc' = [pc EXCEPT ![w] = "failed"]
    /\ \/ /\ pc[w] = "compose"
          /\ UNCHANGED <<file, mishaps>>
       \/ /\ pc[w] = "write"
          /\ \E n \in 0..(Len(NewContent(existing[w], w)) - 1) :
                file' = Overwrite(SubSeq(NewContent(existing[w], w), 1, n))
          /\ mishaps' = mishaps \cup {"cut"}
    /\ existing' = [existing EXCEPT ![w] = <<>>]
    /\ UNCHANGED <<edits, mine>>

\* The server reads the file when it starts (external).
Boot(w) ==
    /\ Goto(w, "spawn", "up")
    /\ UNCHANGED <<existing, file, edits, mine, mishaps>>

-----------------------------------------------------------------------------
(* The user's editor (external): one line more, or one of them less, and    *)
(* the text as it is by now is what the user wants.                         *)

InSection(k) == Find(file, Begin) # 0 /\ k \in Find(file, Begin)..(Find(file, End) - 1)

Save(text) ==
    /\ edits < MaxEdits
    /\ edits' = edits + 1
    /\ file' = text
    /\ mine' = UserText(text)
    /\ mishaps' = mishaps \cup (IF Active # {} THEN {"overlap"} ELSE {})
    /\ UNCHANGED <<pc, existing>>

AddLine ==
    \E u \in UserLines, k \in 0..Len(file) :
        ~InSection(k) /\ Save(InsertAt(file, k + 1, User(u)))

RemoveLine ==
    \E k \in DOMAIN file : file[k][1] = "user" /\ Save(RemoveAt(file, k))

-----------------------------------------------------------------------------

Next ==
    \/ \E w \in Starts : Read(w) \/ Truncate(w) \/ Write(w) \/ Interrupted(w) \/ Boot(w)
    \/ AddLine \/ RemoveLine

Spec == Init /\ [][Next]_vars

-----------------------------------------------------------------------------
(* Properties.                                                              *)

Occurs(f, l) == {k \in DOMAIN f : f[k] = l}

\* The file never gets a second section, however often it is rewritten and
\* wherever a write is cut off, as long as starts do not overlap: a half section
\* is replaced by the next start (engine.rs:117-133).
OneSection ==
    "overlap" \notin mishaps =>
        /\ Cardinality(Occurs(file, Begin)) <= 1
        /\ Cardinality(Occurs(file, End)) <= 1
        /\ \A b \in Occurs(file, Begin), e \in Occurs(file, End) : e = b + 2

\* The user's lines survive every start, in their order, unless a write was cut
\* off, two writers met, or the text was not UTF-8 (engine.rs:115, 135).
UserTextKept ==
    UserText(file) # mine => mishaps # {} \/ \E w \in Starts : pc[w] = "write"

\* The user set the port behind the section.
PinnedBehind ==
    \E k \in DOMAIN file :
        /\ file[k] \in {User(u) : u \in Pinned}
        /\ \A e \in Occurs(file, End) : e < k

\* A server comes up on the port that its start polls, also after a start that
\* was cut off or did not understand the file, unless the user set another
\* behind the section or other writers met (engine.rs:94, 117-136, 174-190).
OwnPortCounts ==
    [][\A w \in Starts :
          pc[w] = "spawn" /\ pc'[w] = "up" /\ "overlap" \notin mishaps =>
              EffectivePort(file) = Port[w] \/ PinnedBehind]_vars

=============================================================================
