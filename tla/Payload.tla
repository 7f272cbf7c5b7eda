------------------------------ MODULE Payload ------------------------------
(***************************************************************************)
(* The binary cache of src/src/payload.rs: extract_payload makes sure that  *)
(* the install directory of an engine holds the PostgreSQL binaries, by     *)
(* downloading an archive into the cache, unpacking it into a private       *)
(* temporary directory and renaming that directory to its final name.       *)
(*                                                                          *)
(* Any number of calls run at once: threads of one test binary (every       *)
(* #[postg::test] calls Postg::start) and separate CLI processes share one  *)
(* cache directory.  There is no lock; each file-system call is a step.     *)
(*                                                                          *)
(* Abstraction: one engine, hence one archive file and one install          *)
(* directory.  The archive is NumBlocks blocks, the unit one read() and     *)
(* write_all() moves, and unpacking block b creates file b of the tree;     *)
(* file 0 is the marker ".extracted".  A directory is named after the call  *)
(* that created it, whatever its current path is, because remove_dir_all    *)
(* works on the opened directory and rename moves a directory as a whole.   *)
(***************************************************************************)
EXTENDS Integers

CONSTANTS
    Calls,      \* the calls of extract_payload, each made at most once
    Given,      \* the calls made with archive_path = Some(path)
    NumBlocks,  \* blocks in a whole archive
    Serial,     \* TRUE: a call starts only when no other is in progress
    Faults,     \* TRUE: I/O and network errors and crashes may happen
    NoDir,      \* there is no such directory
    Legacy      \* an install directory that was there before any call

ASSUME PayloadAssumption ==
    /\ NumBlocks \in Nat \ {0}
    /\ Given \subseteq Calls
    /\ Serial \in BOOLEAN
    /\ Faults \in BOOLEAN
    /\ NoDir \notin Calls
    /\ Legacy \notin Calls
    /\ NoDir # Legacy

VARIABLES
    pc,       \* pc[c]: where call c is
    pos,      \* pos[c]: the next block c writes, and later the next it reads
    cached,   \* the archive file exists in the cache directory
    archive,  \* its blocks: "data", "hole" (skipped by a seek), "none" (past EOF)
    dir,      \* dir[d]: the files in directory d
    tmp,      \* the directories still called .extract-XXXX
    install,  \* the directory called cache_dir/<engine>, or NoDir
    victim    \* victim[c]: the directory c set out to remove, or NoDir

vars == <<pc, pos, cached, archive, dir, tmp, install, victim>>

Marker == 0
Parts == 1..NumBlocks
Files == {Marker} \cup Parts
Dirs == Calls \cup {Legacy}

Finished == {"idle", "ok", "err", "crashed"}
Running == {"task", "probe", "create", "download", "tempdir",
            "unpack", "mark", "swap", "open", "remove", "rename"}

TypeOK ==
    /\ pc \in [Calls -> Finished \cup Running]
    /\ pos \in [Calls -> 1..(NumBlocks + 1)]
    /\ cached \in BOOLEAN
    /\ archive \in [Parts -> {"none", "hole", "data"}]
    /\ dir \in [Dirs -> SUBSET Files]
    /\ tmp \in SUBSET Calls
    /\ install \in Dirs \cup {NoDir}
    /\ victim \in [Calls -> Dirs \cup {NoDir}]

InProgress(c) == pc[c] \in Running

Whole(d) == dir[d] = Files

\* install_dir.join(MARKER_FILE).exists()
Marked == install # NoDir /\ Marker \in dir[install]

\* What a caller that was told Ok counts on: pg_bin(name) exists.
Usable == install # NoDir /\ Whole(install)

(***************************************************************************)
(* Before the first call the cache is empty, or the install directory holds *)
(* some files but no marker (an unpacking by hand that was interrupted).    *)
(***************************************************************************)
Init ==
    /\ pc = [c \in Calls |-> "idle"]
    /\ pos = [c \in Calls |-> 1]
    /\ cached = FALSE
    /\ archive = [b \in Parts |-> "none"]
    /\ dir \in {[d \in Dirs |-> IF d = Legacy THEN old ELSE {}] : old \in SUBSET Parts}
    /\ tmp = {}
    /\ install \in {NoDir, Legacy}
    /\ victim = [c \in Calls |-> NoDir]

Goto(c, from, to) ==
    /\ pc[c] = from
    /\ pc' = [pc EXCEPT ![c] = to]

\* A step that changes nothing but the place.
Move(c, from, to) ==
    /\ Goto(c, from, to)
    /\ UNCHANGED <<pos, cached, archive, dir, tmp, install, victim>>

-----------------------------------------------------------------------------
(* The two looks at the marker: on entry, and again on the blocking thread. *)

\* Wrong variant: the directory is looked at and not the marker in it.
BeginByDirectory(c) ==
    /\ Serial => \A o \in Calls : ~InProgress(o)
    /\ Move(c, "idle", IF install # NoDir THEN "ok" ELSE "task")

Begin(c) ==
    /\ Serial => \A o \in Calls : ~InProgress(o)
    /\ Move(c, "idle", IF Marked THEN "ok" ELSE "task")

Recheck(c) ==
    Move(c, "task", IF Marked THEN "ok"
                       ELSE IF c \in Given THEN "tempdir" ELSE "probe")

-----------------------------------------------------------------------------
(* The download.  File::create truncates a file another call may be writing *)
(* or reading; every writer keeps its own offset, so a write past the end   *)
(* leaves holes.                                                            *)

\* Wrong variant: the test for the cached archive is inverted.
ProbeInverted(c) ==
    Move(c, "probe", IF cached THEN "create" ELSE "tempdir")

Probe(c) ==
    Move(c, "probe", IF cached THEN "tempdir" ELSE "create")

Create(c) ==
    /\ Goto(c, "create", "download")
    /\ pos' = [pos EXCEPT ![c] = 1]
    /\ cached' = TRUE
    /\ archive' = [b \in Parts |-> "none"]
    /\ UNCHANGED <<dir, tmp, install, victim>>

\* Wrong variant: the end of the response is not looked for.
WriteBlockPastEnd(c) ==
    /\ pc[c] = "download"
    /\ pos' = [pos EXCEPT ![c] = @ + 1]
    /\ archive' = [b \in Parts |-> IF b = pos[c] THEN "data" ELSE archive[b]]
    /\ UNCHANGED <<pc, cached, dir, tmp, install, victim>>

WriteBlock(c) ==
    /\ pc[c] = "download"
    /\ pos[c] \in Parts
    /\ pos' = [pos EXCEPT ![c] = @ + 1]
    /\ archive' = [b \in Parts |->
                      IF b = pos[c] THEN "data"
                      ELSE IF b < pos[c] /\ archive[b] = "none" THEN "hole"
                      ELSE archive[b]]
    /\ UNCHANGED <<pc, cached, dir, tmp, install, victim>>

\* Wrong variant: read() = 0 does not leave the loop.
DownloadedContinue(c) ==
    /\ pos[c] \notin Parts
    /\ Move(c, "download", "download")

\* Wrong variant: the last block is not waited for.
DownloadedShort(c) ==
    /\ pos[c] >= NumBlocks
    /\ Move(c, "download", "tempdir")

Downloaded(c) ==
    /\ pos[c] \notin Parts
    /\ Move(c, "download", "tempdir")

-----------------------------------------------------------------------------
(* Unpacking into the private directory, and the marker written last.       *)

\* Wrong variant: the archive is unpacked straight into install_dir.
MakeTempInPlace(c) ==
    /\ Goto(c, "tempdir", "unpack")
    /\ pos' = [pos EXCEPT ![c] = 1]
    /\ install' = c
    /\ UNCHANGED <<cached, archive, dir, tmp, victim>>

MakeTemp(c) ==
    /\ Goto(c, "tempdir", "unpack")
    /\ pos' = [pos EXCEPT ![c] = 1]
    /\ tmp' = tmp \cup {c}
    /\ UNCHANGED <<cached, archive, dir, install, victim>>

\* The decoder gets block b of the archive c reads.
Readable(c, b) == c \in Given \/ archive[b] = "data"

UnpackBlock(c) ==
    /\ pc[c] = "unpack"
    /\ pos[c] \in Parts
    /\ Readable(c, pos[c])
    /\ pos' = [pos EXCEPT ![c] = @ + 1]
    /\ dir' = [dir EXCEPT ![c] = @ \cup {pos[c]}]
    /\ UNCHANGED <<pc, cached, archive, tmp, install, victim>>

\* Wrong variant: the TempDir is kept before the work that may fail.
AbortKeeps(c) ==
    /\ pc' = [pc EXCEPT ![c] = "err"]
    /\ UNCHANGED <<pos, cached, archive, dir, tmp, install, victim>>

\* Every error return after MakeTemp drops the TempDir, which deletes it.
Abort(c) ==
    /\ pc' = [pc EXCEPT ![c] = "err"]
    /\ tmp' = tmp \ {c}
    /\ dir' = IF c \in tmp THEN [dir EXCEPT ![c] = {}] ELSE dir
    /\ UNCHANGED <<pos, cached, archive, install, victim>>

\* Wrong variant: the result of unpack() is dropped.
UnpackErrorIgnored(c) ==
    /\ pos[c] \in Parts
    /\ ~Readable(c, pos[c])
    /\ Move(c, "unpack", "mark")

UnpackError(c) ==
    /\ pc[c] = "unpack"
    /\ pos[c] \in Parts
    /\ ~Readable(c, pos[c])
    /\ Abort(c)

Unpacked(c) ==
    /\ pos[c] \notin Parts
    /\ Move(c, "unpack", "mark")

WriteMarker(c) ==
    /\ Goto(c, "mark", "swap")
    /\ dir' = [dir EXCEPT ![c] = @ \cup {Marker}]
    /\ UNCHANGED <<pos, cached, archive, tmp, install, victim>>

-----------------------------------------------------------------------------
(* Putting the directory in place: remove what is there, then rename.  The  *)
(* removal deletes entries one by one, in no particular order (an entry     *)
(* another removal got to first is no error), and its result is ignored;    *)
(* rename replaces nothing but an empty directory.                          *)

Swap(c) ==
    Move(c, "swap", IF install = NoDir THEN "rename" ELSE "open")

\* remove_dir_all opens whatever has the name by now.
OpenVictim(c) ==
    /\ Goto(c, "open", IF install = NoDir THEN "rename" ELSE "remove")
    /\ victim' = [victim EXCEPT ![c] = install]
    /\ UNCHANGED <<pos, cached, archive, dir, tmp, install>>

Unlink(c) ==
    /\ pc[c] = "remove"
    /\ \E f \in dir[victim[c]] : dir' = [dir EXCEPT ![victim[c]] = @ \ {f}]
    /\ UNCHANGED <<pc, pos, cached, archive, tmp, install, victim>>

\* The final rmdir goes by name: it does nothing when the name has moved on
\* to another, non-empty directory.
Removed(c) ==
    /\ Goto(c, "remove", "rename")
    /\ dir[victim[c]] = {}
    /\ install' = IF install # NoDir /\ dir[install] = {} THEN NoDir ELSE install
    /\ UNCHANGED <<pos, cached, archive, dir, tmp, victim>>

\* Nothing stands in the way of rename(tmp_path, install_dir).
NameIsFree == install # NoDir => dir[install] = {}

Publish(c) ==
    /\ Goto(c, "rename", "ok")
    /\ NameIsFree
    /\ install' = c
    /\ tmp' = tmp \ {c}
    /\ UNCHANGED <<pos, cached, archive, dir, victim>>

\* Wrong variant: the result of rename() is dropped.
RenameRefusedIgnored(c) ==
    /\ ~NameIsFree
    /\ Move(c, "rename", "ok")

RenameRefused(c) ==
    /\ pc[c] = "rename"
    /\ ~NameIsFree
    /\ Abort(c)

-----------------------------------------------------------------------------
(* Faults: any I/O or network call fails, remove_dir_all stops half way     *)
(* (its error is dropped), the process dies between two steps.              *)

Fail(c) ==
    /\ Faults
    /\ pc[c] \in Running \ {"probe", "swap", "open", "remove"}
    /\ Abort(c)

RemoveGivesUp(c) ==
    /\ Faults
    /\ Move(c, "remove", "rename")

Crash(c) ==
    /\ Faults
    /\ InProgress(c)
    /\ pc' = [pc EXCEPT ![c] = "crashed"]
    /\ UNCHANGED <<pos, cached, archive, dir, tmp, install, victim>>

-----------------------------------------------------------------------------

Step(c) ==
    \/ Begin(c) \/ Recheck(c)
    \/ Probe(c) \/ Create(c) \/ WriteBlock(c) \/ Downloaded(c)
    \/ MakeTemp(c) \/ UnpackBlock(c) \/ UnpackError(c) \/ Unpacked(c)
    \/ WriteMarker(c)
    \/ Swap(c) \/ OpenVictim(c) \/ Unlink(c) \/ Removed(c) \/ Publish(c) \/ RenameRefused(c)

Fault(c) == Fail(c) \/ RemoveGivesUp(c) \/ Crash(c)

Next == \E c \in Calls : Step(c) \/ Fault(c)

Spec == Init /\ [][Next]_vars

-----------------------------------------------------------------------------
(* Properties.                                                              *)

\* A directory that appears under the final name is whole, whatever the other
\* calls did to the archive while it was unpacked: the directory is filled and
\* marked under its private name first (payload.rs:107-112, 119).
PublishesWhole ==
    [][install' # install /\ install' # NoDir => dir'[install'] = Files]_vars

\* Only the removal of the old directory (payload.rs:115-117) can leave a
\* damaged one under the final name: an installed directory that nobody set
\* out to remove has every file, or was there before any call.
DamageNeedsRemoval ==
    install # NoDir =>
        Whole(install) \/ install = Legacy \/ \E c \in Calls : victim[c] = install

\* What a caller got with Ok lasts, unless another call sets out to remove a
\* directory one of them published, having looked for the marker too early
\* (payload.rs:32, 115).
OkLasts ==
    (\E c \in Calls : pc[c] = "ok") =>
        Usable \/ \E c \in Calls : victim[c] \in Calls

\* The marker stands for a whole installation, as is_extracted takes it to
\* (payload.rs:8-10, 111), also after crashes and failed removals.
MarkerMeansWhole == Marked => Whole(install)

\* Once a call has returned Ok the binaries are there, now and ever after.
OkMeansUsable == (\E c \in Calls : pc[c] = "ok") => Usable

\* No private directory outlives its call, except through a crash: every error
\* return deletes it, and a published one is not in the TempDir's care any more
\* (payload.rs:127-128).
NoTempLeft == \A c \in tmp : InProgress(c) \/ pc[c] = "crashed"

\* The archive found in the cache when nobody is downloading is a whole one,
\* which "Using cached postgres binary" (payload.rs:86) takes for granted.
CachedArchiveIsWhole ==
    cached /\ (\A c \in Calls : ~InProgress(c)) => \A b \in Parts : archive[b] = "data"

-----------------------------------------------------------------------------
\* What a call has returned, by its place.
Result(p) ==
    CASE p = "ok" -> "ok"
      [] p \in {"err", "crashed"} -> "failed"
      [] OTHER -> "pending"

Outcome == [c \in Calls |-> Result(pc[c])]

\* What the calls promise when they do not overlap: a success installs the
\* binaries, nothing takes them away again, a failure changes nothing.
Promise == INSTANCE PayloadPromise WITH usable <- Usable, outcome <- Outcome

\* extract_payload keeps that promise (payload.rs:12-135), through errors and
\* crashes, as long as the calls come one after another.
ImplementsPromise == Promise!Spec

=============================================================================
