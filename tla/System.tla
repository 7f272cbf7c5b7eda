------------------------------- MODULE System -------------------------------
(***************************************************************************)
(* A test binary whose #[postg::test]s start together: each Postg::start    *)
(* first calls extract_payload and then runs initdb, postgres, pg_isready   *)
(* and pg_ctl out of the install directory of the shared cache.  Payload    *)
(* and Engine are composed: Engine's extraction is a call of Payload, and   *)
(* a binary can be run only while its file is under the final name, which   *)
(* another call may be taking away.                                         *)
(*                                                                          *)
(* Config::default: every instance has a temporary directory of its own     *)
(* and an ephemeral port.  Nothing fails here but what the instances do to  *)
(* one another; faults and crashes are looked at in Payload and Engine.     *)
(***************************************************************************)
EXTENDS Integers

CONSTANTS
    Instances,  \* the tests
    Ports,      \* TCP ports
    NumBlocks,  \* blocks in a whole archive
    PartOf,     \* PartOf[b]: the block of the archive binary b is unpacked from
    Legacy,     \* an install directory that was there before any call
    Nobody      \* no instance, no directory

Binaries == {"initdb", "postgres", "pg_isready", "pg_ctl"}

ASSUME SystemAssumption ==
    /\ Ports \subseteq Nat \ {0}
    /\ NumBlocks \in Nat \ {0}
    /\ PartOf \in [Binaries -> 1..NumBlocks]
    /\ Legacy \notin Instances
    /\ Nobody \notin Instances
    /\ Nobody # Legacy

VARIABLES
    call,                                                    \* Payload's pc
    pos, cached, archive, dir, tmp, install, victim,         \* as in Payload
    pc, port, temporary, target, srv, sport, data, conf, undeleted  \* as in Engine

cache == <<call, pos, cached, archive, dir, tmp, install, victim>>
engine == <<pc, port, temporary, target, srv, sport, data, conf, undeleted>>
vars == <<cache, engine>>

Payload == INSTANCE Payload
    WITH pc <- call, Calls <- Instances, Given <- {}, Serial <- FALSE,
         Faults <- FALSE, NoDir <- Nobody

\* What a missing binary causes is among the errors of Engine.
Engine == INSTANCE Engine
    WITH Dirs <- Instances, DataDir <- [i \in Instances |-> i],
         FixedPort <- [i \in Instances |-> 0], Temporary <- [i \in Instances |-> TRUE],
         StopDirs <- {}, Serial <- FALSE, Faults <- TRUE, Crashes <- FALSE,
         NoInst <- Nobody

Init == Payload!Init /\ Engine!Init

-----------------------------------------------------------------------------
(* extract_payload(...).await?                                              *)

CallStep(i) ==
    /\ pc[i] = "extract"
    /\ Payload!Step(i)
    /\ UNCHANGED engine

\* Wrong variant: the result of the extraction is not awaited.
ExtractedUnawaited(i) ==
    /\ Engine!Extracted(i)
    /\ UNCHANGED cache

Extracted(i) ==
    /\ call[i] = "ok"
    /\ Engine!Extracted(i)
    /\ UNCHANGED cache

ExtractFails(i) ==
    /\ call[i] = "err"
    /\ pc[i] = "extract"
    /\ Engine!StartFails(i)
    /\ UNCHANGED cache

-----------------------------------------------------------------------------
(* Running the binaries.                                                    *)

\* pg_bin(b) is there.
Has(b) == install # Nobody /\ PartOf[b] \in dir[install]

Executes(i) ==
    /\ \/ Has("initdb") /\ Engine!InitdbBegins(i)
       \/ Has("postgres") /\ Engine!Spawn(i)
       \/ Has("pg_isready") /\ Engine!Ready(i)
    /\ UNCHANGED cache

\* Command::new fails; initdb and a server that starts need the other files of
\* the installation too.
NotFound(i) ==
    /\ \/ pc[i] = "initdb" /\ ~Has("initdb") /\ Engine!StartFails(i)
       \/ pc[i] = "spawn" /\ ~Has("postgres") /\ Engine!StartFails(i)
       \/ ~Payload!Usable /\ Engine!InitdbFails(i) /\ data'[i] = "empty"
       \/ srv[i] = "boot" /\ ~Payload!Usable /\ Engine!ServerDies(i)
    /\ UNCHANGED cache

\* Steps of Engine that run nothing.  With a directory for each instance, none
\* is refused or lost.
Prepares(i) ==
    /\ \/ Engine!ResolvePort(i) \/ Engine!Mkdir(i) \/ Engine!CheckVersion(i)
       \/ Engine!InitdbDone(i) \/ Engine!WriteConf(i) \/ Engine!GiveUp(i)
    /\ UNCHANGED cache

PgCtl(i) ==
    /\ target[i] = Nobody
    /\ \/ Has("pg_ctl") /\ Engine!PgCtlSignals(i)
       \/ (Has("pg_ctl") => Engine!PidFile(i) = {}) /\ Engine!PgCtlFails(i)
    /\ UNCHANGED cache

Ends(i) ==
    /\ \/ Engine!PgCtlDone(i) \/ Engine!Reap(i)
       \/ (Engine!StopClean(i) \/ Engine!DropClean(i)) /\ data'[i] = "absent"
    /\ UNCHANGED cache

Uses(i) == Engine!UserStep(i) /\ UNCHANGED cache

Serves(i) == Engine!ServerStep(i) /\ UNCHANGED cache

-----------------------------------------------------------------------------

StartStep(i) ==
    CallStep(i) \/ Extracted(i) \/ ExtractFails(i) \/ Executes(i) \/ NotFound(i) \/ Prepares(i)

EndStep(i) == PgCtl(i) \/ Ends(i)

Next == \E i \in Instances : StartStep(i) \/ EndStep(i) \/ Uses(i) \/ Serves(i)

Spec == Init /\ [][Next]_vars

\* As in Payload and Engine: running threads and processes go on; the tests may
\* start and end when they like.
FairSpec ==
    Spec /\ \A i \in Instances :
               WF_vars(StartStep(i)) /\ WF_vars(EndStep(i)) /\ WF_vars(Serves(i))

-----------------------------------------------------------------------------
(* Properties.                                                              *)

\* The types of both parts, and the call an instance is in belongs to where it
\* is: nothing runs before its extraction has returned Ok (engine.rs:18-20).
TypeOK ==
    /\ Payload!TypeOK
    /\ Engine!TypeOK
    /\ \A i \in Instances :
          /\ pc[i] = "new" => call[i] = "idle"
          /\ pc[i] \notin {"new", "extract", "failed"} => call[i] = "ok"

\* A call set out to remove a directory that one of the calls published.
Raced == \E c \in Instances : victim[c] \in Instances

\* A start fails only when starts race on a cold cache: its own extraction met
\* another one, or the binaries it had extracted were removed by a call that
\* had looked for the marker too early (engine.rs:18-46, payload.rs:32, 115).
FailureNeedsRace ==
    \A i \in Instances :
        pc[i] = "failed" =>
            Raced \/ (call[i] = "err" /\ \E c \in Instances \ {i} : call[c] # "idle")

\* A server that is up is shut down by pg_ctl and not killed, unless pg_ctl was
\* taken away by such a call (engine.rs:203-218, 238-255).
KilledNeedsRace ==
    [][\A i \in Instances : srv[i] = "up" /\ srv'[i] = "reaped" => Raced]_vars

\* Without faults, the archive at rest in the cache is a whole one, however the
\* downloads interleaved (payload.rs:49-86).
CachedArchiveIsWhole == Payload!CachedArchiveIsWhole

\* start() returns, through the extraction, whatever is missing, and through the
\* Drop of a server that does not come up (engine.rs:17-52, payload.rs:12-135).
StartReturns ==
    \A i \in Instances : pc[i] \in Engine!Starting ~> pc[i] \notin Engine!Starting

\* Once a start has begun, the engine is installed in the end, and for good,
\* even if that start itself fails (payload.rs:59-82, 115-119).
EventuallyInstalled ==
    (\E i \in Instances : pc[i] # "new") ~> []Payload!Usable

=============================================================================
