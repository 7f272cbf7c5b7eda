---------------------------- MODULE SystemProofs ----------------------------
(***************************************************************************)
(* The composition implements its parts, for any number of tests: what the  *)
(* cache does in System is something Payload allows, and what the instances *)
(* do is something Engine allows for directories of their own.  So what is  *)
(* proved of Payload, and of Engine under OwnDirs, holds in System, and is  *)
(* used here (Cache and Servers are these proofs) for what System promises  *)
(* itself: a start fails, and a server is killed, only after a race.        *)
(***************************************************************************)
EXTENDS System, TLAPS

\* A step of System is a call's step in the cache, or leaves the cache alone.
LEMMA CacheStep == [Next]_vars => [Payload!Next]_cache
<1> SUFFICES ASSUME [Next]_vars, ~UNCHANGED cache
             PROVE  Payload!Next
  OBVIOUS
<1>1. PICK i \in Instances : CallStep(i)
  BY DEF Next, vars, StartStep, EndStep, Extracted, ExtractFails, Executes, NotFound,
     Prepares, PgCtl, Ends, Uses, Serves
<1>2. QED
  BY <1>1 DEF CallStep, Payload!Next

\* With its initial states: the cache of System behaves as Payload says.
THEOREM ImplementsPayload == Spec => Payload!Spec
<1>1. Init => Payload!Init
  BY DEF Init
<1>2. [Payload!Next]_cache => [Payload!Next]_(Payload!vars)
  BY DEF cache, Payload!vars
<1>3. QED
  BY <1>1, <1>2, CacheStep, PTL DEF Spec, Payload!Spec

\* What an instance does is a step of Engine: a missing binary is one of its
\* faults, and a call of extract_payload is none of its steps.
LEMMA EngineStep == [Next]_vars => [Engine!Next]_engine
<1> SUFFICES ASSUME NEW i \in Instances,
                    StartStep(i) \/ EndStep(i) \/ Uses(i) \/ Serves(i)
             PROVE  Engine!Next \/ UNCHANGED engine
  BY DEF Next, vars
<1> USE DEF Engine!Next
<1>1. CASE CallStep(i)
  BY <1>1 DEF CallStep
<1>2. CASE Extracted(i) \/ Executes(i) \/ Prepares(i)
  <2>1. Engine!StartStep(i)
    BY <1>2 DEF Extracted, Executes, Prepares, Engine!StartStep
  <2>2. QED
    BY <2>1
<1>3. CASE ExtractFails(i) \/ NotFound(i)
  <2>1. Engine!FaultStep(i)
    BY <1>3 DEF ExtractFails, NotFound, Engine!FaultStep
  <2>2. QED
    BY <2>1
<1>4. CASE EndStep(i)
  <2>1. Engine!EndStep(i)
    BY <1>4 DEF EndStep, PgCtl, Ends, Engine!EndStep
  <2>2. QED
    BY <2>1
<1>5. CASE Uses(i) \/ Serves(i)
  BY <1>5 DEF Uses, Serves
<1>6. QED
  BY <1>1, <1>2, <1>3, <1>4, <1>5 DEF StartStep

\* The instances of System behave as Engine says.
THEOREM ImplementsEngine == Spec => Engine!Spec
<1>1. Init => Engine!Init
  BY DEF Init
<1>2. [Engine!Next]_engine => [Engine!Next]_(Engine!vars)
  BY DEF engine, Engine!vars, Engine!inst, Engine!server, Engine!disk
<1>3. QED
  BY <1>1, <1>2, EngineStep, PTL DEF Spec, Engine!Spec

-----------------------------------------------------------------------------
(* What is known of the parts.                                              *)

Cache == INSTANCE PayloadProofs
    WITH pc <- call, Calls <- Instances, Given <- {}, Serial <- FALSE,
         Faults <- FALSE, NoDir <- Nobody

Servers == INSTANCE EngineProofs
    WITH Dirs <- Instances, DataDir <- [i \in Instances |-> i],
         FixedPort <- [i \in Instances |-> 0], Temporary <- [i \in Instances |-> TRUE],
         StopDirs <- {}, Serial <- FALSE, Faults <- TRUE, Crashes <- FALSE,
         NoInst <- Nobody

\* The constants of System are allowed for its parts.
LEMMA PartsAssumptions ==
    Cache!PayloadAssumption /\ Servers!EngineAssumption /\ Servers!OwnDirs
  BY SystemAssumption DEF Cache!PayloadAssumption, Servers!EngineAssumption, Servers!OwnDirs

\* Both instances of a part say the same of a step.
LEMMA SameCalls == \A i \in Instances : (Payload!Step(i) \/ Payload!Fault(i)) = (Cache!Step(i) \/ Cache!Fault(i))
  BY DEF Payload!Step, Cache!Step, Payload!Begin, Cache!Begin, Payload!Recheck,
     Cache!Recheck, Payload!Probe, Cache!Probe, Payload!Create, Cache!Create,
     Payload!WriteBlock, Cache!WriteBlock, Payload!Downloaded, Cache!Downloaded,
     Payload!MakeTemp, Cache!MakeTemp, Payload!UnpackBlock, Cache!UnpackBlock,
     Payload!UnpackError, Cache!UnpackError, Payload!Unpacked, Cache!Unpacked,
     Payload!WriteMarker, Cache!WriteMarker, Payload!Swap, Cache!Swap,
     Payload!OpenVictim, Cache!OpenVictim, Payload!Unlink, Cache!Unlink,
     Payload!Removed, Cache!Removed, Payload!Publish, Cache!Publish,
     Payload!RenameRefused, Cache!RenameRefused, Payload!Fault, Cache!Fault,
     Payload!Fail, Cache!Fail, Payload!RemoveGivesUp, Cache!RemoveGivesUp,
     Payload!Crash, Cache!Crash, Payload!Abort, Cache!Abort, Payload!Move,
     Cache!Move, Payload!Goto, Cache!Goto, Payload!Readable, Cache!Readable,
     Payload!NameIsFree, Cache!NameIsFree, Payload!Marked, Cache!Marked,
     Payload!InProgress, Cache!InProgress, Payload!Parts, Cache!Parts,
     Payload!Marker, Cache!Marker, Payload!Running, Cache!Running, Payload!Finished,
     Cache!Finished

LEMMA SameServers == Engine!Next = Servers!Next
  BY DEF Engine!inst, Servers!inst, Engine!server, Servers!server, Engine!disk,
     Servers!disk, Engine!Next, Servers!Next, Engine!StartStep, Servers!StartStep,
     Engine!EndStep, Servers!EndStep, Engine!UserStep, Servers!UserStep,
     Engine!FaultStep, Servers!FaultStep, Engine!ServerStep, Servers!ServerStep,
     Engine!CliStop, Servers!CliStop, Engine!Start, Servers!Start, Engine!Extracted,
     Servers!Extracted, Engine!ResolvePort, Servers!ResolvePort, Engine!Mkdir,
     Servers!Mkdir, Engine!CheckVersion, Servers!CheckVersion, Engine!InitdbBegins,
     Servers!InitdbBegins, Engine!InitdbDone, Servers!InitdbDone,
     Engine!InitdbRefuses, Servers!InitdbRefuses, Engine!WriteConf,
     Servers!WriteConf, Engine!Spawn, Servers!Spawn, Engine!DirLost,
     Servers!DirLost, Engine!Ready, Servers!Ready, Engine!GiveUp, Servers!GiveUp,
     Engine!Stop, Servers!Stop, Engine!Drop, Servers!Drop, Engine!DropStopped,
     Servers!DropStopped, Engine!PgCtlSignals, Servers!PgCtlSignals,
     Engine!PgCtlDone, Servers!PgCtlDone, Engine!Reap, Servers!Reap,
     Engine!PgCtlFails, Servers!PgCtlFails, Engine!StopClean, Servers!StopClean,
     Engine!DropClean, Servers!DropClean, Engine!InitdbFails, Servers!InitdbFails,
     Engine!StartFails, Servers!StartFails, Engine!Crash, Servers!Crash,
     Engine!ServerDies, Servers!ServerDies, Engine!Lock, Servers!Lock, Engine!Bind,
     Servers!Bind, Engine!Exit, Servers!Exit, Engine!Move, Servers!Move,
     Engine!Goto, Servers!Goto, Engine!HasVersion, Servers!HasVersion,
     Engine!ConfCut, Servers!ConfCut, Engine!ToRemove, Servers!ToRemove,
     Engine!Bereft, Servers!Bereft, Engine!Clean, Servers!Clean, Engine!InPgCtl,
     Servers!InPgCtl, Engine!PidFile, Servers!PidFile, Engine!Holder,
     Servers!Holder, Engine!PortFree, Servers!PortFree, Engine!Active,
     Servers!Active, Engine!Starting, Servers!Starting, Engine!Ending,
     Servers!Ending, Engine!Over, Servers!Over, Engine!Live, Servers!Live,
     Engine!Locking, Servers!Locking, Engine!Bound, Servers!Bound, Engine!Answering,
     Servers!Answering, Engine!Preparing, Servers!Preparing, Engine!Undoing,
     Servers!Undoing, Engine!Remains, Servers!Remains, Engine!RemoveDir,
     Servers!RemoveDir, Engine!AfterSuccess, Servers!AfterSuccess,
     Engine!AfterKill, Servers!AfterKill

\* The invariants of the cache, with what holds because nothing fails in it.
CacheInv ==
    Cache!IInv /\ Cache!CachedArchiveIsWhole /\ Cache!OnlyCallSucceeds

LEMMA CacheInvariance == Spec => []CacheInv
<1>1. Init => Cache!Init
  BY DEF Init, Payload!Init, Cache!Init, Payload!Parts, Cache!Parts, Payload!Dirs, Cache!Dirs
<1>2. [Next]_vars => [Cache!Next]_(Cache!vars)
  BY CacheStep, SameCalls DEF Payload!Next, Cache!Next, cache, Cache!vars
<1>3. Spec => Cache!Spec
  BY <1>1, <1>2, PTL DEF Spec, Cache!Spec
<1>4. Cache!Spec => []Cache!IInv
  BY PartsAssumptions, Cache!Invariance, PTL
<1>5. Cache!Spec => []Cache!CachedArchiveIsWhole
  BY PartsAssumptions, Cache!CachedArchiveIsWholeHolds, PTL
<1>6. Cache!Spec => []Cache!OnlyCallSucceeds
  BY PartsAssumptions, Cache!OnlyCallSucceedsHolds, PTL
<1>7. QED
  BY <1>3, <1>4, <1>5, <1>6, PTL DEF CacheInv

LEMMA ServersInvariance == Spec => []Servers!IInv
<1>1. Init => Servers!Init
  BY DEF Init, Engine!Init, Servers!Init
<1>2. [Next]_vars => [Servers!Next]_(Servers!vars)
  BY EngineStep, SameServers DEF engine, Servers!vars, Servers!inst,
     Servers!server, Servers!disk
<1>3. Spec => Servers!Spec
  BY <1>1, <1>2, PTL DEF Spec, Servers!Spec
<1>4. Servers!Spec => []Servers!IInv
  BY PartsAssumptions, Servers!Invariance, PTL
<1>5. QED
  BY <1>3, <1>4, PTL

-----------------------------------------------------------------------------
(* What the instances promise together.                                     *)

\* The call an instance is in belongs to where the instance is.
Coupled ==
    \A i \in Instances :
        /\ pc[i] = "new" => call[i] = "idle"
        /\ pc[i] \notin {"new", "extract", "failed"} => call[i] = "ok"
        /\ pc[i] = "failed" => call[i] \in {"ok", "err"}

\* Every part of the inductive invariant.
SInv == CacheInv /\ Servers!IInv /\ Coupled /\ FailureNeedsRace

\* A call moves only while its instance awaits it, and never goes back.
LEMMA CallsMove ==
    ASSUME CacheInv, NEW i \in Instances, CallStep(i)
    PROVE  /\ pc[i] = "extract" /\ UNCHANGED engine
           /\ \A j \in Instances \ {i} : call'[j] = call[j]
           /\ call'[i] # "idle"
           /\ Raced => Raced'
<1> USE DEF CallStep, CacheInv, Cache!IInv, Cache!TypeOK, Cache!Published, Raced,
        Payload!Step, Payload!Move, Payload!Goto, Cache!Running, Cache!Finished, Cache!Early
<1>1. CASE Payload!Begin(i) \/ Payload!Recheck(i) \/ Payload!Probe(i) \/ Payload!Swap(i)
  BY <1>1 DEF Payload!Begin, Payload!Recheck, Payload!Probe, Payload!Swap
<1>2. CASE Payload!Create(i) \/ Payload!WriteBlock(i) \/ Payload!Downloaded(i) \/ Payload!MakeTemp(i)
  BY <1>2 DEF Payload!Create, Payload!WriteBlock, Payload!Downloaded, Payload!MakeTemp
<1>3. CASE Payload!UnpackBlock(i) \/ Payload!Unpacked(i) \/ Payload!WriteMarker(i) \/ Payload!Unlink(i)
  BY <1>3 DEF Payload!UnpackBlock, Payload!Unpacked, Payload!WriteMarker, Payload!Unlink
<1>4. CASE Payload!UnpackError(i) \/ Payload!RenameRefused(i)
  BY <1>4 DEF Payload!UnpackError, Payload!RenameRefused, Payload!Abort
<1>5. CASE Payload!OpenVictim(i)
  BY <1>5, SystemAssumption DEF Payload!OpenVictim
<1>6. CASE Payload!Removed(i) \/ Payload!Publish(i)
  BY <1>6 DEF Payload!Removed, Payload!Publish
<1>7. QED
  BY <1>1, <1>2, <1>3, <1>4, <1>5, <1>6

\* What is missing from an installation somebody was told Ok about was taken
\* away by a call that came too late.
LEMMA MissingNeedsRace ==
    ASSUME CacheInv, Coupled, NEW i \in Instances, pc[i] \notin {"new", "extract", "failed"},
           ~Payload!Usable \/ \E b \in Binaries : ~Has(b)
    PROVE  Raced
<1>1. call[i] = "ok"
  BY DEF Coupled
<1>2. ASSUME Payload!Usable, NEW b \in Binaries PROVE Has(b)
  BY <1>2, SystemAssumption DEF Payload!Usable, Payload!Whole, Payload!Files, Payload!Parts, Has
<1>3. ~Payload!Usable
  BY <1>2
<1>4. ~Cache!Usable
  BY <1>3 DEF Payload!Usable, Payload!Whole, Payload!Files, Payload!Parts, Payload!Marker,
     Cache!Usable, Cache!Whole, Cache!Files, Cache!Parts, Cache!Marker
<1>5. QED
  BY <1>1, <1>4 DEF CacheInv, Cache!IInv, Cache!OkLasts, Raced

\* Where an instance is stays in step with its call.
LEMMA CoupledStep == CacheInv /\ Servers!IInv /\ Coupled /\ [Next]_vars => Coupled'
<1> SUFFICES ASSUME CacheInv, Servers!IInv, Coupled, NEW i \in Instances,
                    StartStep(i) \/ EndStep(i) \/ Uses(i) \/ Serves(i)
             PROVE  Coupled'
  BY DEF Next, vars, cache, engine, Coupled
<1> USE DEF Coupled, Servers!IInv, Servers!TypeOK, Engine!Move, Engine!Goto, cache,
        Engine!inst
<1>1. CASE CallStep(i)
  BY <1>1, CallsMove DEF engine
<1>2. CASE Extracted(i) \/ ExtractFails(i)
  BY <1>2 DEF Extracted, ExtractFails, Engine!Extracted, Engine!StartFails
<1>3. CASE Executes(i)
  BY <1>3 DEF Executes, Engine!InitdbBegins, Engine!Spawn, Engine!Ready
<1>4. CASE NotFound(i)
  BY <1>4 DEF NotFound, Engine!StartFails, Engine!InitdbFails, Engine!ServerDies
<1>5. CASE Prepares(i)
  BY <1>5 DEF Prepares, Engine!ResolvePort, Engine!Mkdir, Engine!CheckVersion,
     Engine!InitdbDone, Engine!WriteConf, Engine!GiveUp
<1>6. CASE PgCtl(i)
  BY <1>6 DEF PgCtl, Engine!PgCtlSignals, Engine!PgCtlFails, Engine!InPgCtl, Engine!AfterKill
<1>7. CASE Ends(i)
  BY <1>7 DEF Ends, Engine!PgCtlDone, Engine!InPgCtl, Engine!AfterSuccess, Engine!Reap, Engine!StopClean, Engine!DropClean
<1>8. CASE Uses(i)
  BY <1>8 DEF Uses, Engine!UserStep, Engine!Start, Engine!Stop, Engine!Drop, Engine!DropStopped
<1>9. CASE Serves(i)
  BY <1>9 DEF Serves, Engine!ServerStep, Engine!Lock, Engine!Bind, Engine!Exit
<1>10. QED
  BY <1>1, <1>2, <1>3, <1>4, <1>5, <1>6, <1>7, <1>8, <1>9 DEF StartStep, EndStep

\* A race once run is never undone, and a call once begun stays begun.
LEMMA RacedStep ==
    ASSUME CacheInv, [Next]_vars
    PROVE  /\ Raced => Raced'
           /\ \A c \in Instances : call[c] # "idle" => call'[c] # "idle"
<1>1. CASE UNCHANGED cache
  BY <1>1 DEF cache, Raced
<1>2. ASSUME NEW i \in Instances, CallStep(i)
      PROVE  /\ Raced => Raced'
             /\ \A c \in Instances : call[c] # "idle" => call'[c] # "idle"
  BY <1>2, CallsMove
<1>3. QED
  BY <1>1, <1>2 DEF Next, vars, StartStep, EndStep, Extracted, ExtractFails, Executes,
     NotFound, Prepares, PgCtl, Ends, Uses, Serves

\* A start that fails here met another extraction, or its binaries were removed.
LEMMA FailureStep ==
    CacheInv /\ Servers!IInv /\ Coupled /\ FailureNeedsRace /\ [Next]_vars
        => FailureNeedsRace'
<1> SUFFICES ASSUME CacheInv, Servers!IInv, Coupled, FailureNeedsRace, [Next]_vars,
                    NEW i \in Instances, pc'[i] = "failed"
             PROVE  Raced' \/ (call'[i] = "err" /\ \E c \in Instances \ {i} : call'[c] # "idle")
  BY DEF FailureNeedsRace
<1>1. CASE pc[i] = "failed"
  <2>1. call'[i] = call[i]
    BY <1>1, CallsMove DEF Next, vars, cache, StartStep, EndStep, Extracted, ExtractFails,
       Executes, NotFound, Prepares, PgCtl, Ends, Uses, Serves
  <2>2. QED
    BY <1>1, <2>1, RacedStep DEF FailureNeedsRace
<1>2. CASE pc[i] # "failed"
  <2> USE DEF Servers!IInv, Servers!TypeOK, Engine!Move, Engine!Goto
  <2>1. PICK j \in Instances : StartStep(j) \/ EndStep(j) \/ Uses(j) \/ Serves(j)
    BY <1>2 DEF Next, vars, engine
  <2>2. CASE ExtractFails(j)
    <3>1. i = j /\ call[i] = "err" /\ UNCHANGED cache
      BY <1>2, <2>2 DEF ExtractFails, Engine!StartFails
    <3>2. \E c \in Instances \ {i} : call[c] # "idle"
      BY <3>1 DEF CacheInv, Cache!OnlyCallSucceeds
    <3>3. QED
      BY <3>1, <3>2 DEF cache
  <2>3. CASE NotFound(j)
    <3>1. /\ i = j /\ pc[i] \in {"initdb", "spawn", "initdb_run"}
          /\ ~Payload!Usable \/ \E b \in Binaries : ~Has(b)
      BY <1>2, <2>3 DEF NotFound, Engine!StartFails, Engine!InitdbFails, Engine!ServerDies,
         Engine!inst, Binaries
    <3>2. QED
      BY <3>1, MissingNeedsRace, RacedStep
  <2>4. CASE CallStep(j) \/ Extracted(j) \/ Executes(j) \/ Prepares(j) \/ PgCtl(j)
    BY <1>2, <2>4 DEF CallStep, engine, Extracted, Engine!Extracted, Executes,
       Engine!InitdbBegins, Engine!Spawn, Engine!Ready, Prepares, Engine!ResolvePort,
       Engine!Mkdir, Engine!CheckVersion, Engine!InitdbDone, Engine!WriteConf,
       Engine!GiveUp, PgCtl, Engine!PgCtlSignals, Engine!PgCtlFails,
       Engine!InPgCtl, Engine!AfterKill
  <2>5. CASE Ends(j) \/ Uses(j) \/ Serves(j)
    BY <1>2, <2>5 DEF Ends, Engine!PgCtlDone, Engine!InPgCtl, Engine!AfterSuccess, Engine!Reap,
       Engine!StopClean, Engine!DropClean,
       Uses, Engine!UserStep, Engine!Start, Engine!Stop, Engine!Drop, Engine!DropStopped,
       Serves, Engine!ServerStep, Engine!Lock, Engine!Bind, Engine!Exit, Engine!inst
  <2>6. QED
    BY <2>1, <2>2, <2>3, <2>4, <2>5 DEF StartStep, EndStep
<1>3. QED
  BY <1>1, <1>2

LEMMA Invariance == Spec => []SInv
<1>1. Init => Coupled /\ FailureNeedsRace
  BY DEF Init, Payload!Init, Engine!Init, Coupled, FailureNeedsRace
<1>2. CacheInv /\ Servers!IInv /\ Coupled /\ FailureNeedsRace /\ [Next]_vars
        => Coupled' /\ FailureNeedsRace'
  BY CoupledStep, FailureStep
<1>3. QED
  BY <1>1, <1>2, CacheInvariance, ServersInvariance, PTL DEF Spec, SInv

\* Both parts keep their types, and nothing of an instance runs before its
\* extraction has returned Ok (engine.rs:18-20).
THEOREM TypeCorrect == Spec => []TypeOK
<1>1. Cache!TypeOK => Payload!TypeOK
  BY DEF Cache!TypeOK, Payload!TypeOK, Cache!Finished, Payload!Finished, Cache!Running,
     Payload!Running, Cache!Parts, Payload!Parts, Cache!Files, Payload!Files,
     Cache!Marker, Payload!Marker, Cache!Dirs, Payload!Dirs
<1>2. Servers!TypeOK => Engine!TypeOK
  BY DEF Servers!TypeOK, Engine!TypeOK, Servers!Starting, Engine!Starting, Servers!Ending,
     Engine!Ending, Servers!Over, Engine!Over, Servers!Live, Engine!Live,
     Servers!PortKnown, Engine!PortKnown, Servers!Preparing, Engine!Preparing,
     Servers!Undoing, Engine!Undoing
<1>3. SInv => TypeOK
  BY <1>1, <1>2 DEF SInv, CacheInv, Cache!IInv, Servers!IInv, Coupled, TypeOK
<1>4. QED
  BY <1>3, Invariance, PTL

\* A start fails only when starts race on a cold cache (engine.rs:18-46,
\* payload.rs:32, 115).
THEOREM FailureNeedsRaceHolds == Spec => []FailureNeedsRace
<1>1. SInv => FailureNeedsRace
  BY DEF SInv
<1>2. QED
  BY <1>1, Invariance, PTL

\* A server that is up is killed only when its pg_ctl has been taken away by a
\* call that came too late (engine.rs:203-218, 238-255).
THEOREM KilledNeedsRaceHolds == Spec => KilledNeedsRace
<1> DEFINE Killed == \A i \in Instances : srv[i] = "up" /\ srv'[i] = "reaped" => Raced
<1>1. SInv /\ [Next]_vars => [Killed]_vars
  <2> SUFFICES ASSUME SInv, [Next]_vars, NEW i \in Instances,
                      srv[i] = "up", srv'[i] = "reaped"
               PROVE  Raced
    OBVIOUS
  <2> USE DEF SInv, Servers!IInv, Servers!TypeOK, Engine!Move, Engine!Goto, Engine!server
  <2>1. PICK j \in Instances : StartStep(j) \/ EndStep(j) \/ Uses(j) \/ Serves(j)
    BY DEF Next, vars, engine
  <2>2. CASE PgCtl(j)
    <3>1. /\ i = j /\ pc[i] \in {"stop_ctl", "drop_ctl", "undo_ctl"}
          /\ Has("pg_ctl") => Engine!PidFile(i) = {}
      BY <2>2 DEF PgCtl, Engine!PgCtlSignals, Engine!PgCtlFails, Engine!InPgCtl
    <3>2. i \in Engine!PidFile(i)
      BY DEF Engine!PidFile, Engine!Holder, Engine!Locking
    <3>3. ~Has("pg_ctl")
      BY <3>1, <3>2
    <3>4. QED
      BY <3>1, <3>3, MissingNeedsRace DEF Binaries
  <2>3. CASE CallStep(j) \/ Extracted(j) \/ ExtractFails(j) \/ Executes(j) \/ NotFound(j) \/ Prepares(j)
    BY <2>3 DEF CallStep, engine, Extracted, Engine!Extracted, ExtractFails, Executes,
       Engine!InitdbBegins, Engine!Spawn, Engine!Ready, NotFound, Engine!StartFails,
       Engine!InitdbFails, Engine!ServerDies, Prepares, Engine!ResolvePort, Engine!Mkdir,
       Engine!CheckVersion, Engine!InitdbDone, Engine!WriteConf, Engine!GiveUp
  <2>4. CASE Ends(j)
    BY <2>4 DEF Ends, Engine!PgCtlDone, Engine!Reap, Engine!Live, Engine!StopClean,
       Engine!DropClean, Engine!Clean, Engine!RemoveDir, Engine!Bereft
  <2>5. CASE Uses(j) \/ Serves(j)
    BY <2>5 DEF Uses, Engine!UserStep, Engine!Start, Engine!Stop, Engine!Drop,
       Engine!DropStopped, Serves, Engine!ServerStep, Engine!Lock, Engine!Bind, Engine!Exit
  <2>6. QED
    BY <2>1, <2>2, <2>3, <2>4, <2>5 DEF StartStep, EndStep
<1>2. QED
  BY <1>1, Invariance, PTL DEF Spec, KilledNeedsRace

\* However the downloads of the tests interleave, the archive at rest in the
\* cache is a whole one (payload.rs:49-86).
THEOREM CachedArchiveIsWholeHolds == Spec => []CachedArchiveIsWhole
<1>1. Cache!CachedArchiveIsWhole => CachedArchiveIsWhole
  BY DEF CachedArchiveIsWhole, Cache!CachedArchiveIsWhole, Payload!CachedArchiveIsWhole,
     Cache!InProgress, Payload!InProgress, Cache!Running, Payload!Running, Cache!Parts,
     Payload!Parts
<1>2. QED
  BY <1>1, CacheInvariance, PTL DEF CacheInv

=============================================================================
