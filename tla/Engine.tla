------------------------------- MODULE Engine -------------------------------
(***************************************************************************)
(* The life of managed servers, src/src/engine.rs: Postg::start prepares a  *)
(* data directory, spawns postgres on it and polls until something answers  *)
(* on the port; stop() and Drop run pg_ctl on the data directory, kill the  *)
(* child if that fails, and delete a temporary directory.                   *)
(*                                                                          *)
(* Several instances run at once: tests of one binary, CLI commands in      *)
(* separate processes.  They meet in the data directories, in the ports     *)
(* and in the servers pg_ctl and pg_isready reach by directory and port.    *)
(*                                                                          *)
(* postgres, initdb, pg_ctl and pg_isready are external: a server reads     *)
(* the port in the directory's configuration, takes the directory's lock,   *)
(* binds the port, and exits when it cannot.  Every instance has the same   *)
(* host address, is started once, and stopped or dropped once.              *)
(***************************************************************************)
EXTENDS Integers

CONSTANTS
    Instances,   \* the values of type Postg that are started
    Dirs,        \* data directories
    Ports,       \* TCP ports
    DataDir,     \* DataDir[i]: config.data_dir
    FixedPort,   \* FixedPort[i]: config.port, 0 for an ephemeral one
    Temporary,   \* Temporary[i]: config.temporary
    StopDirs,    \* the directories somebody runs "postg stop" on
    Serial,      \* TRUE: a directory's next instance waits for the one before
    Faults,      \* TRUE: I/O and process errors, slow shutdowns
    Crashes,     \* TRUE: the program that holds an instance may be killed
    NoInst       \* no instance

ASSUME EngineAssumption ==
    /\ Ports \subseteq Nat \ {0}
    /\ DataDir \in [Instances -> Dirs]
    /\ FixedPort \in [Instances -> Ports \cup {0}]
    /\ Temporary \in [Instances -> BOOLEAN]
    /\ StopDirs \subseteq Dirs
    /\ Serial \in BOOLEAN
    /\ Faults \in BOOLEAN
    /\ Crashes \in BOOLEAN
    /\ NoInst \notin Instances

VARIABLES
    pc,         \* pc[i]: where instance i is
    port,       \* port[i]: config.port, once resolved
    temporary,  \* temporary[i]: config.temporary, cleared by stop()
    target,     \* target[i]: the server whose end i's pg_ctl waits for
    srv,        \* srv[i]: the child i spawned
    sport,      \* sport[i]: the port that child read in its configuration
    data,       \* data[d]: what is in directory d
    conf,       \* conf[d]: the port in d's postgresql.conf, 0 if not set
    undeleted   \* for the properties only: the instances whose removal of the
                \* directory failed, an error the code drops

inst == <<pc, port, temporary, target>>
server == <<srv, sport>>
disk == <<data, conf, undeleted>>
vars == <<inst, server, disk>>

\* Before there is a Postg value.
Preparing == {"extract", "port", "mkdir", "check", "initdb", "initdb_run", "conf", "spawn"}
\* The Drop of a value that start() itself gives up.
Undoing == {"undo_ctl", "undo_reap", "undo_clean"}
Starting == Preparing \cup {"wait"} \cup Undoing
Ending == {"stop_ctl", "stop_clean", "drop_ctl", "drop_reap", "drop_clean"}
Over == {"failed", "gone", "crashed"}
\* The places between ResolvePort and the end.
PortKnown == (Starting \ {"extract", "port"}) \cup Ending \cup {"running", "stopped", "gone"}

Live == {"boot", "locked", "up", "closing", "stray"}
Locking == {"locked", "up", "closing"}   \* holds the directory's postmaster.pid
Bound == {"up", "closing", "stray"}      \* holds its port
Answering == {"up", "stray"}             \* a stray server lost its directory

TypeOK ==
    /\ pc \in [Instances -> {"new", "running", "stopped"} \cup Starting \cup Ending \cup Over]
    /\ port \in [Instances -> Ports \cup {0}]
    /\ temporary \in [Instances -> BOOLEAN]
    /\ target \in [Instances -> Instances \cup {NoInst}]
    /\ srv \in [Instances -> Live \cup {"none", "exited", "reaped"}]
    /\ sport \in [Instances -> Ports \cup {0}]
    /\ data \in [Dirs -> {"absent", "empty", "debris", "partial", "cut", "ready"}]
    /\ conf \in [Dirs -> Ports \cup {0}]
    /\ undeleted \subseteq Instances
    /\ \A i \in Instances : pc[i] \in PortKnown => port[i] \in Ports

Active(i) == pc[i] \notin {"new"} \cup Over

Holder(d) == {h \in Instances : DataDir[h] = d /\ srv[h] \in Locking}

PortFree(p) == \A j \in Instances : ~(srv[j] \in Bound /\ sport[j] = p)

\* The directory of a temporary instance is not there yet (its name is made up
\* for it); a persistent one may hold a cluster from before.
Init ==
    /\ pc = [i \in Instances |-> "new"]
    /\ port = [i \in Instances |-> 0]
    /\ temporary = Temporary
    /\ target = [i \in Instances |-> NoInst]
    /\ srv = [i \in Instances |-> "none"]
    /\ sport = [i \in Instances |-> 0]
    /\ data \in [Dirs -> {"absent", "empty", "ready"}]
    /\ \A i \in Instances : Temporary[i] => data[DataDir[i]] = "absent"
    /\ conf = [d \in Dirs |-> 0]
    /\ undeleted = {}

Goto(i, from, to) ==
    /\ pc[i] = from
    /\ pc' = [pc EXCEPT ![i] = to]

\* A step that changes nothing but the place.
Move(i, from, to) ==
    /\ Goto(i, from, to)
    /\ UNCHANGED <<port, temporary, target, server, disk>>

-----------------------------------------------------------------------------
(* Postg::start.                                                            *)

Start(i) ==
    /\ Serial => \A j \in Instances : DataDir[j] = DataDir[i] => ~Active(j)
    /\ Move(i, "new", "extract")

\* The payload is external here: extract_payload returned Ok.
Extracted(i) ==
    Move(i, "extract", "port")

\* Wrong variant: port 0 is handed on.
ResolveNothing(i) ==
    /\ Goto(i, "port", "mkdir")
    /\ port' = [port EXCEPT ![i] = FixedPort[i]]
    /\ UNCHANGED <<temporary, target, server, disk>>

\* The kernel picks a port nobody is bound to now; the listener is dropped at
\* the end of the block, so the port is free again.
ResolvePort(i) ==
    /\ Goto(i, "port", "mkdir")
    /\ \E p \in Ports :
          /\ IF FixedPort[i] = 0 THEN PortFree(p) ELSE p = FixedPort[i]
          /\ port' = [port EXCEPT ![i] = p]
    /\ UNCHANGED <<temporary, target, server, disk>>

Mkdir(i) ==
    /\ Goto(i, "mkdir", "check")
    /\ data' = [data EXCEPT ![DataDir[i]] = IF @ = "absent" THEN "empty" ELSE @]
    /\ UNCHANGED <<port, temporary, target, server, conf, undeleted>>

\* PG_VERSION is among the first files initdb writes: a directory has it while
\* initdb works on it ("partial"), and may have it when nobody does ("cut");
\* "debris" is files without it.
HasVersion(d) == data[d] \in {"partial", "cut", "ready"}

\* Wrong variant: the directory is emptied and initialised anew each time.
CheckAlways(i) ==
    /\ Goto(i, "check", "initdb")
    /\ data' = [data EXCEPT ![DataDir[i]] = "empty"]
    /\ UNCHANGED <<port, temporary, target, server, conf, undeleted>>

CheckVersion(i) ==
    Move(i, "check", IF HasVersion(DataDir[i]) THEN "conf" ELSE "initdb")

InitdbBegins(i) ==
    /\ Goto(i, "initdb", "initdb_run")
    /\ data[DataDir[i]] \in {"absent", "empty"}
    /\ data' = [data EXCEPT ![DataDir[i]] = "partial"]
    /\ UNCHANGED <<port, temporary, target, server, conf, undeleted>>

InitdbDone(i) ==
    /\ Goto(i, "initdb_run", "conf")
    /\ data[DataDir[i]] = "partial"
    /\ data' = [data EXCEPT ![DataDir[i]] = "ready"]
    /\ conf' = [conf EXCEPT ![DataDir[i]] = 0]
    /\ UNCHANGED <<port, temporary, target, server, undeleted>>

\* initdb refuses a directory that is not empty, or loses it to a removal.
InitdbRefuses(i) ==
    /\ \/ pc[i] = "initdb" /\ data[DataDir[i]] \notin {"absent", "empty"}
       \/ pc[i] = "initdb_run" /\ data[DataDir[i]] # "partial"
    /\ pc' = [pc EXCEPT ![i] = "failed"]
    /\ UNCHANGED <<port, temporary, target, server, disk>>

\* Wrong variant: the exit status of initdb is not looked at.
InitdbFailsIgnored(i) ==
    /\ Faults
    /\ Goto(i, "initdb_run", "conf")
    /\ \E left \in {"empty", "debris", "cut"} :
          data' = [data EXCEPT ![DataDir[i]] = IF @ = "partial" THEN left ELSE @]
    /\ UNCHANGED <<port, temporary, target, server, conf, undeleted>>

\* A failing initdb removes what it wrote; one that is killed does not.  Both
\* are a status that is no success.
InitdbFails(i) ==
    /\ Faults
    /\ Goto(i, "initdb_run", "failed")
    /\ \E left \in {"empty", "debris", "cut"} :
          data' = [data EXCEPT ![DataDir[i]] = IF @ = "partial" THEN left ELSE @]
    /\ UNCHANGED <<port, temporary, target, server, conf, undeleted>>

\* postgresql.conf, see ManagedConf, gets the port; pg_hba.conf gets the same text every time.
WriteConf(i) ==
    /\ Goto(i, "conf", "spawn")
    /\ data[DataDir[i]] # "absent"
    /\ conf' = [conf EXCEPT ![DataDir[i]] = port[i]]
    /\ UNCHANGED <<port, temporary, target, server, data, undeleted>>

\* From here on there is a Postg value, and Drop.
Spawn(i) ==
    /\ Goto(i, "spawn", "wait")
    /\ data[DataDir[i]] # "absent"
    /\ srv' = [srv EXCEPT ![i] = "boot"]
    /\ UNCHANGED <<port, temporary, target, sport, disk>>

\* Neither file can be written into a directory that somebody removed.
DirLost(i) ==
    /\ pc[i] \in {"conf", "spawn"}
    /\ data[DataDir[i]] = "absent"
    /\ pc' = [pc EXCEPT ![i] = "failed"]
    /\ UNCHANGED <<port, temporary, target, server, disk>>

\* postgresql.conf has been truncated and not written.
ConfCut(i) ==
    /\ pc[i] = "conf"
    /\ conf' = [conf EXCEPT ![DataDir[i]] = 0]
    /\ UNCHANGED <<data, undeleted>>

\* An error return before the Postg value exists cleans up nothing.
StartFails(i) ==
    /\ Faults
    /\ pc[i] \in {"extract", "port", "mkdir", "initdb", "conf", "spawn"}
    /\ pc' = [pc EXCEPT ![i] = "failed"]
    /\ ConfCut(i) \/ UNCHANGED disk
    /\ UNCHANGED <<port, temporary, target, server>>

\* Wrong variant: one poll, whatever pg_isready says.
ReadyAtOnce(i) ==
    Move(i, "wait", "running")

\* pg_isready asks whoever listens on the port.
Ready(i) ==
    /\ Move(i, "wait", "running")
    /\ \E j \in Instances : srv[j] \in Answering /\ sport[j] = port[i]

\* Wrong variant: each turn of the loop sets a new deadline.
GiveUpNever(i) ==
    Move(i, "wait", "wait")

\* The deadline passes, or the future is dropped: the `?` drops the instance
\* before start returns.
GiveUp(i) ==
    Move(i, "wait", "undo_ctl")

-----------------------------------------------------------------------------
(* stop() and Drop.  pg_ctl -D finds the server by the directory's          *)
(* postmaster.pid, whoever spawned it.                                      *)

\* The temporary directory is there to be removed.
ToRemove(i) == temporary[i] /\ data[DataDir[i]] # "absent"

\* A server that is up outlives its directory for a while; one that is coming
\* up or shutting down ends.
Bereft(h) == IF srv[h] = "up" THEN "stray" ELSE "exited"

\* What is left where remove_dir_all fails, at its first file or a later one.
Remains == [ready |-> {"ready", "cut", "debris", "empty"},
            partial |-> {"partial", "debris", "empty"}, cut |-> {"cut", "debris", "empty"},
            debris |-> {"debris", "empty"}, empty |-> {"empty"}]

RemoveDir(i, left) ==
    /\ data' = [data EXCEPT ![DataDir[i]] = left]
    /\ undeleted' = IF left = "absent" THEN undeleted ELSE undeleted \cup {i}
    /\ srv' = [h \in Instances |->
                  IF h \in Holder(DataDir[i]) /\ left # data[DataDir[i]] THEN Bereft(h) ELSE srv[h]]

\* The result of remove_dir_all is dropped.
Clean(i) ==
    /\ \/ ~ToRemove(i) /\ UNCHANGED <<data, undeleted, srv>>
       \/ ToRemove(i) /\ RemoveDir(i, "absent")
       \/ /\ Faults /\ ToRemove(i)
          /\ \E left \in Remains[data[DataDir[i]]] : RemoveDir(i, left)
    /\ UNCHANGED <<port, target, sport, conf>>

Stop(i) ==
    Move(i, "running", "stop_ctl")

\* Wrong variant: the directory is removed before the server is stopped.
CleanFirst(i) ==
    /\ Goto(i, "running", "drop_ctl")
    /\ UNCHANGED temporary
    /\ Clean(i)

\* Wrong variant: the child is waited for without being told to stop.
DropWithoutCtl(i) ==
    Move(i, "running", "drop_reap")

Drop(i) ==
    Move(i, "running", "drop_ctl")

InPgCtl(i) == pc[i] \in {"stop_ctl", "drop_ctl", "undo_ctl"}

PidFile(d) == Holder(d)

PgCtlSignals(i) ==
    /\ InPgCtl(i)
    /\ target[i] = NoInst
    /\ \E h \in PidFile(DataDir[i]) :
          /\ target' = [target EXCEPT ![i] = h]
          /\ srv' = [srv EXCEPT ![h] = "closing"]
    /\ UNCHANGED <<pc, port, temporary, sport, disk>>

\* stop() leaves its child unreaped, Drop waits for it.
AfterSuccess == [stop_ctl |-> "stop_clean", drop_ctl |-> "drop_reap", undo_ctl |-> "undo_reap"]

\* pg_ctl -w saw the pid file go.
PgCtlDone(i) ==
    /\ InPgCtl(i)
    /\ target[i] # NoInst
    /\ srv[target[i]] \notin Locking
    /\ Move(i, pc[i], AfterSuccess[pc[i]])

Reap(i) ==
    /\ srv[i] \notin Live
    /\ Goto(i, "drop_reap", "drop_clean") \/ Goto(i, "undo_reap", "undo_clean")
    /\ srv' = [srv EXCEPT ![i] = "reaped"]
    /\ UNCHANGED <<port, temporary, target, sport, disk>>

AfterKill == [stop_ctl |-> "stop_clean", drop_ctl |-> "drop_clean", undo_ctl |-> "undo_clean"]

\* Wrong variant: a failing pg_ctl is taken for a server that is gone.
PgCtlFailsNoKill(i) ==
    /\ InPgCtl(i)
    /\ \/ target[i] = NoInst /\ PidFile(DataDir[i]) = {}
       \/ Faults /\ (target[i] # NoInst => srv[target[i]] \in Locking)
    /\ pc' = [pc EXCEPT ![i] = AfterKill[@]]
    /\ UNCHANGED <<port, temporary, target, server, disk>>

\* pg_ctl found no server, could not run, or waited in vain: kill() and wait().
PgCtlFails(i) ==
    /\ InPgCtl(i)
    /\ \/ target[i] = NoInst /\ PidFile(DataDir[i]) = {}
       \/ Faults /\ (target[i] # NoInst => srv[target[i]] \in Locking)
    /\ pc' = [pc EXCEPT ![i] = AfterKill[@]]
    /\ srv' = [srv EXCEPT ![i] = "reaped"]
    /\ UNCHANGED <<port, temporary, target, sport, disk>>

\* temporary is cleared whether or not the removal succeeded.
StopClean(i) ==
    /\ Goto(i, "stop_clean", "stopped")
    /\ temporary' = [temporary EXCEPT ![i] = @ /\ ~ToRemove(i)]
    /\ Clean(i)

DropClean(i) ==
    /\ Goto(i, "drop_clean", "gone") \/ Goto(i, "undo_clean", "gone")
    /\ UNCHANGED temporary
    /\ Clean(i)

\* Dropping a stopped instance: it has no child any more.
DropStopped(i) ==
    Move(i, "stopped", "drop_clean")

\* "postg stop" asks the same pg_ctl.
CliStop(d) ==
    /\ d \in StopDirs
    /\ \E h \in PidFile(d) : srv' = [srv EXCEPT ![h] = "closing"]
    /\ UNCHANGED <<inst, sport, disk>>

\* The program dies without Drop; its server lives on.  A running initdb dies
\* with it, or ends on its own.
Crash(i) ==
    /\ Crashes
    /\ Active(i)
    /\ pc' = [pc EXCEPT ![i] = "crashed"]
    /\ IF pc[i] = "initdb_run" /\ data[DataDir[i]] = "partial"
       THEN /\ \E left \in {"debris", "cut", "ready"} : data' = [data EXCEPT ![DataDir[i]] = left]
            /\ conf' = [conf EXCEPT ![DataDir[i]] = 0]
            /\ UNCHANGED undeleted
       ELSE ConfCut(i) \/ UNCHANGED disk
    /\ UNCHANGED <<port, temporary, target, server>>

-----------------------------------------------------------------------------
(* The servers (external).                                                  *)

\* Some of the clusters whose initdb was cut off come up.
Lock(i) ==
    /\ srv[i] = "boot"
    /\ data[DataDir[i]] \in {"cut", "ready"}
    /\ Holder(DataDir[i]) = {}
    /\ srv' = [srv EXCEPT ![i] = "locked"]
    /\ sport' = [sport EXCEPT ![i] = conf[DataDir[i]]]
    /\ UNCHANGED <<inst, disk>>

Bind(i) ==
    /\ srv[i] = "locked"
    /\ PortFree(sport[i])
    /\ srv' = [srv EXCEPT ![i] = "up"]
    /\ UNCHANGED <<inst, sport, disk>>

\* No cluster, a locked directory, a port in use; the shutdown is complete; or
\* the server looks for its pid file, as it does every minute, and it is gone.
Exit(i) ==
    /\ \/ /\ srv[i] = "boot"
          /\ data[DataDir[i]] # "ready" \/ Holder(DataDir[i]) # {}
       \/ srv[i] = "locked" /\ ~PortFree(sport[i])
       \/ srv[i] \in {"closing", "stray"}
    /\ srv' = [srv EXCEPT ![i] = "exited"]
    /\ UNCHANGED <<inst, sport, disk>>

\* A server dies by itself, or of a signal from the terminal.
ServerDies(i) ==
    /\ Faults
    /\ srv[i] \in Live
    /\ srv' = [srv EXCEPT ![i] = "exited"]
    /\ UNCHANGED <<inst, sport, disk>>

-----------------------------------------------------------------------------

StartStep(i) ==
    \/ Extracted(i) \/ ResolvePort(i) \/ Mkdir(i) \/ CheckVersion(i)
    \/ InitdbBegins(i) \/ InitdbDone(i) \/ InitdbRefuses(i)
    \/ WriteConf(i) \/ Spawn(i) \/ DirLost(i) \/ Ready(i) \/ GiveUp(i)

EndStep(i) ==
    \/ PgCtlSignals(i) \/ PgCtlDone(i) \/ Reap(i) \/ PgCtlFails(i)
    \/ StopClean(i) \/ DropClean(i)

UserStep(i) == Start(i) \/ Stop(i) \/ Drop(i) \/ DropStopped(i)

FaultStep(i) == InitdbFails(i) \/ StartFails(i) \/ Crash(i) \/ ServerDies(i)

ServerStep(i) == Lock(i) \/ Bind(i) \/ Exit(i)

Next ==
    \/ \E i \in Instances :
          StartStep(i) \/ EndStep(i) \/ UserStep(i) \/ FaultStep(i) \/ ServerStep(i)
    \/ \E d \in Dirs : CliStop(d)

Spec == Init /\ [][Next]_vars

\* The code's own steps and the servers' are taken by running processes; the
\* deadline of wait_for_ready makes GiveUp one of them.  What the user does,
\* and faults, may never come.
FairSpec ==
    /\ Spec
    /\ \A i \in Instances :
          WF_vars(StartStep(i)) /\ WF_vars(EndStep(i)) /\ WF_vars(ServerStep(i))

-----------------------------------------------------------------------------
(* Properties.                                                              *)

\* When a Postg value is gone, so is its server, whichever way pg_ctl went; and
\* so is its temporary data directory, unless its removal was tried and failed
\* (engine.rs:49, 199-262).
GoneIsClean ==
    \A i \in Instances :
        pc[i] = "gone" =>
            /\ srv[i] \notin Live
            /\ Temporary[i] /\ data[DataDir[i]] # "absent" => i \in undeleted

\* No server runs on a directory that was removed, or not initialised, under
\* it (engine.rs:30-32, 223-227, 258-260).
ServedDirIsThere ==
    \A i \in Instances :
        srv[i] # "stray" /\ (srv[i] \in Locking => data[DataDir[i]] = "ready")

\* A program that was killed without Drop used i's directory, and its server, or
\* one that waited for that server's lock, may be there still.
LeftBehind(i) == \E j \in Instances : DataDir[j] = DataDir[i] /\ pc[j] = "crashed"

\* start() returns Ok only when the server it spawned answers on the port it
\* hands out, but on a directory where a killed program may have left a server
\* (engine.rs:49, 174-197).
ReadyIsOwn ==
    [][\A i \in Instances :
          pc[i] = "wait" /\ pc'[i] = "running" /\ ~LeftBehind(i) =>
              srv[i] = "up" /\ sport[i] = port[i]]_vars

\* No start, failed or not, costs a persistent directory its data
\* (engine.rs:27-32, 223, 258).
DataKept ==
    [][\A d \in Dirs :
          (\A i \in Instances : DataDir[i] = d => ~Temporary[i])
          /\ data[d] = "ready" => data'[d] = "ready"]_vars

\* A server is spawned on an initialised directory, or on one whose initdb was
\* killed, which passes the look at PG_VERSION: never on what a failed initdb or
\* a failed start left behind, nor while initdb still works (engine.rs:29-32, 83).
InitialisedBeforeSpawn ==
    \A i \in Instances : pc[i] = "spawn" => data[DataDir[i]] \in {"cut", "ready"}

\* Once pg_ctl has succeeded, all that is left for Drop is to reap the child
\* (engine.rs:248-249).
CtlStoppedTheChild ==
    \A i \in Instances : pc[i] \in {"drop_reap", "undo_reap"} => srv[i] \notin Live

\* Drop, also the one inside start(), waits for a child that nobody told to stop.
WaitsInVain(i) == pc[i] \in {"drop_reap", "undo_reap"} /\ srv[i] = "up"

\* That takes a pg_ctl that found the server of another instance on the same
\* directory, and stopped it instead (engine.rs:238-249).
VainWaitNeedsAnother ==
    \A i \in Instances : WaitsInVain(i) => target[i] \notin {NoInst, i}

\* Whatever instances do to one another's directory, start(), stop() and Drop
\* return or come to such a wait (engine.rs:17-52, 174-262).
ReturnsOrWaitsInVain ==
    \A i \in Instances :
        pc[i] \in Starting \cup Ending ~> pc[i] \notin Starting \cup Ending \/ WaitsInVain(i)

\* With directories of their own nobody waits in vain: start() returns, through
\* the Drop of what it gives up, and so do stop() and Drop (engine.rs:17-52, 174-262).
Returns ==
    \A i \in Instances : pc[i] \in Starting \cup Ending ~> pc[i] \notin Starting \cup Ending

=============================================================================
