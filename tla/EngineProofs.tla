---------------------------- MODULE EngineProofs ----------------------------
(***************************************************************************)
(* Theorems about Engine, for any number of instances and ports and any     *)
(* faults.                                                                  *)
(*                                                                          *)
(* The argument for instances that keep to directories of their own: a      *)
(* directory's lock can only be held by its instance's child, so pg_ctl -D  *)
(* finds that child or nothing; hence an instance comes to the end with     *)
(* its child dead, and the directory goes after the server.                 *)
(*                                                                          *)
(* Instances that share directories may wait for a child nobody told to     *)
(* stop, but only behind a pg_ctl that found another one's server (Told).   *)
(*                                                                          *)
(* A directory that one instance at a time uses is only half initialised    *)
(* while that instance waits for initdb, so that finding PG_VERSION there   *)
(* means a whole cluster, or what a killed initdb left (Prepared).  A       *)
(* child on a directory of its own reads the port its instance wrote there, *)
(* so that with distinct fixed ports nobody else can answer on it           *)
(* (OwnPorts, Configured).                                                  *)
(***************************************************************************)
EXTENDS Engine, TLAPS

\* Config::default gives every instance of a process its own directory
\* (config.rs:44).
OwnDirs == \A i, j \in Instances : DataDir[i] = DataDir[j] => i = j

\* pg_ctl found the child of its own instance, or none.
OwnTarget == \A i \in Instances : target[i] \in {NoInst, i}

\* Nothing of the server is there before the spawn, nothing lives after the end.
ChildFollows ==
    \A i \in Instances :
        /\ pc[i] \in {"new", "failed"} \cup Preparing => srv[i] = "none"
        /\ pc[i] \in {"drop_reap", "undo_reap", "drop_clean", "undo_clean", "stop_clean", "stopped", "gone"} =>
              srv[i] \notin Live
        /\ target[i] = i => srv[i] \notin {"none", "boot"}
        /\ srv[i] # "none" => pc[i] \notin {"new", "failed"} \cup Preparing

\* The directory stays as it is from the spawn to the end of the server.
DirStays ==
    \A i \in Instances :
        /\ srv[i] # "stray"
        /\ srv[i] \in Live => data[DataDir[i]] = "ready"
        /\ pc[i] \in {"new", "extract", "port", "mkdir", "check"} =>
              data[DataDir[i]] \in {"absent", "empty", "ready"}
        /\ pc[i] \in {"conf", "spawn"} => data[DataDir[i]] = "ready"
        /\ pc[i] = "gone" /\ Temporary[i] => data[DataDir[i]] = "absent" \/ i \in undeleted
        /\ Temporary[i] /\ ~temporary[i] =>
              /\ data[DataDir[i]] = "absent" \/ i \in undeleted
              /\ pc[i] \in {"stopped", "drop_clean", "gone", "crashed"}

\* Only a directory of temporary instances is ever removed.
TempKept == \A i \in Instances : temporary[i] => Temporary[i]

IInv == TypeOK /\ OwnTarget /\ ChildFollows /\ DirStays

-----------------------------------------------------------------------------

LEMMA InitIInv == Init => IInv /\ TempKept
  BY EngineAssumption DEF Init, IInv, TypeOK, OwnTarget, ChildFollows, DirStays,
     TempKept, Starting, Preparing, Undoing, Ending, Over, PortKnown, Live, Locking

\* Every variable stays within its type, and a resolved port is a port.
LEMMA TypeStep ==
    TypeOK /\ [Next]_vars => TypeOK'
<1> SUFFICES ASSUME TypeOK, [Next]_vars PROVE TypeOK'
  OBVIOUS
<1> USE EngineAssumption DEF TypeOK, Goto, Move, inst, server, disk, Starting, Preparing, Undoing, Ending, Over, PortKnown, Live, Locking
<1>1. ASSUME NEW i \in Instances, Start(i) PROVE TypeOK'
  BY <1>1 DEF Start
<1>2. ASSUME NEW i \in Instances, Extracted(i) PROVE TypeOK'
  BY <1>2 DEF Extracted
<1>3. ASSUME NEW i \in Instances, ResolvePort(i) PROVE TypeOK'
  BY <1>3 DEF ResolvePort
<1>4. ASSUME NEW i \in Instances, Mkdir(i) PROVE TypeOK'
  BY <1>4 DEF Mkdir
<1>5. ASSUME NEW i \in Instances, CheckVersion(i) PROVE TypeOK'
  BY <1>5 DEF CheckVersion
<1>6. ASSUME NEW i \in Instances, InitdbBegins(i) PROVE TypeOK'
  BY <1>6 DEF InitdbBegins
<1>7. ASSUME NEW i \in Instances, InitdbDone(i) PROVE TypeOK'
  BY <1>7 DEF InitdbDone
<1>8. ASSUME NEW i \in Instances, InitdbRefuses(i) PROVE TypeOK'
  BY <1>8 DEF InitdbRefuses
<1>9. ASSUME NEW i \in Instances, InitdbFails(i) PROVE TypeOK'
  BY <1>9 DEF InitdbFails
<1>10. ASSUME NEW i \in Instances, WriteConf(i) PROVE TypeOK'
  BY <1>10 DEF WriteConf
<1>11. ASSUME NEW i \in Instances, Spawn(i) PROVE TypeOK'
  BY <1>11 DEF Spawn
<1>12. ASSUME NEW i \in Instances, DirLost(i) PROVE TypeOK'
  BY <1>12 DEF DirLost
<1>13. ASSUME NEW i \in Instances, StartFails(i) PROVE TypeOK'
  BY <1>13 DEF StartFails, ConfCut
<1>14. ASSUME NEW i \in Instances, Ready(i) PROVE TypeOK'
  BY <1>14 DEF Ready
<1>15. ASSUME NEW i \in Instances, GiveUp(i) PROVE TypeOK'
  BY <1>15 DEF GiveUp
<1>16. ASSUME NEW i \in Instances, Stop(i) PROVE TypeOK'
  BY <1>16 DEF Stop
<1>17. ASSUME NEW i \in Instances, Drop(i) PROVE TypeOK'
  BY <1>17 DEF Drop
<1>18. ASSUME NEW i \in Instances, PgCtlSignals(i) PROVE TypeOK'
  BY <1>18 DEF PgCtlSignals, InPgCtl, PidFile, Holder
<1>19. ASSUME NEW i \in Instances, PgCtlDone(i) PROVE TypeOK'
  BY <1>19 DEF PgCtlDone, AfterSuccess, InPgCtl
<1>20. ASSUME NEW i \in Instances, Reap(i) PROVE TypeOK'
  BY <1>20 DEF Reap
<1>21. ASSUME NEW i \in Instances, PgCtlFails(i) PROVE TypeOK'
  BY <1>21 DEF PgCtlFails, AfterKill, InPgCtl
<1>22. ASSUME NEW i \in Instances, StopClean(i) PROVE TypeOK'
  BY <1>22 DEF StopClean, Clean, RemoveDir, Bereft, ToRemove, Remains
<1>23. ASSUME NEW i \in Instances, DropClean(i) PROVE TypeOK'
  BY <1>23 DEF DropClean, Clean, RemoveDir, Bereft, ToRemove, Remains
<1>24. ASSUME NEW i \in Instances, DropStopped(i) PROVE TypeOK'
  BY <1>24 DEF DropStopped
<1>25. ASSUME NEW i \in Instances, Crash(i) PROVE TypeOK'
  BY <1>25 DEF Crash, ConfCut
<1>26. ASSUME NEW i \in Instances, Lock(i) PROVE TypeOK'
  BY <1>26 DEF Lock
<1>27. ASSUME NEW i \in Instances, Bind(i) PROVE TypeOK'
  BY <1>27 DEF Bind
<1>28. ASSUME NEW i \in Instances, Exit(i) PROVE TypeOK'
  BY <1>28 DEF Exit
<1>29. ASSUME NEW i \in Instances, ServerDies(i) PROVE TypeOK'
  BY <1>29 DEF ServerDies
<1>30. ASSUME NEW d \in Dirs, CliStop(d) PROVE TypeOK'
  BY <1>30 DEF CliStop
<1>31. CASE UNCHANGED vars
  BY <1>31 DEF vars
<1>32. QED
  BY <1>1, <1>2, <1>3, <1>4, <1>5, <1>6, <1>7, <1>8, <1>9, <1>10, <1>11, <1>12, <1>13, <1>14, <1>15, <1>16, <1>17, <1>18, <1>19, <1>20, <1>21, <1>22, <1>23, <1>24, <1>25, <1>26, <1>27, <1>28, <1>29, <1>30, <1>31
     DEF Next, StartStep, EndStep, UserStep, FaultStep, ServerStep

\* Nobody turns a persistent instance into a temporary one.
LEMMA TempStep ==
    TypeOK /\ TempKept /\ [Next]_vars => TempKept'
<1> SUFFICES ASSUME TypeOK, TempKept, [Next]_vars PROVE TempKept'
  OBVIOUS
<1> USE EngineAssumption DEF TempKept, TypeOK, Goto, Move, inst, server, disk, Starting, Preparing, Undoing, Ending, Over, PortKnown, Live, Locking
<1>1. ASSUME NEW i \in Instances, Start(i) PROVE TempKept'
  BY <1>1 DEF Start
<1>2. ASSUME NEW i \in Instances, Extracted(i) PROVE TempKept'
  BY <1>2 DEF Extracted
<1>3. ASSUME NEW i \in Instances, ResolvePort(i) PROVE TempKept'
  BY <1>3 DEF ResolvePort
<1>4. ASSUME NEW i \in Instances, Mkdir(i) PROVE TempKept'
  BY <1>4 DEF Mkdir
<1>5. ASSUME NEW i \in Instances, CheckVersion(i) PROVE TempKept'
  BY <1>5 DEF CheckVersion
<1>6. ASSUME NEW i \in Instances, InitdbBegins(i) PROVE TempKept'
  BY <1>6 DEF InitdbBegins
<1>7. ASSUME NEW i \in Instances, InitdbDone(i) PROVE TempKept'
  BY <1>7 DEF InitdbDone
<1>8. ASSUME NEW i \in Instances, InitdbRefuses(i) PROVE TempKept'
  BY <1>8 DEF InitdbRefuses
<1>9. ASSUME NEW i \in Instances, InitdbFails(i) PROVE TempKept'
  BY <1>9 DEF InitdbFails
<1>10. ASSUME NEW i \in Instances, WriteConf(i) PROVE TempKept'
  BY <1>10 DEF WriteConf
<1>11. ASSUME NEW i \in Instances, Spawn(i) PROVE TempKept'
  BY <1>11 DEF Spawn
<1>12. ASSUME NEW i \in Instances, DirLost(i) PROVE TempKept'
  BY <1>12 DEF DirLost
<1>13. ASSUME NEW i \in Instances, StartFails(i) PROVE TempKept'
  BY <1>13 DEF StartFails, ConfCut
<1>14. ASSUME NEW i \in Instances, Ready(i) PROVE TempKept'
  BY <1>14 DEF Ready
<1>15. ASSUME NEW i \in Instances, GiveUp(i) PROVE TempKept'
  BY <1>15 DEF GiveUp
<1>16. ASSUME NEW i \in Instances, Stop(i) PROVE TempKept'
  BY <1>16 DEF Stop
<1>17. ASSUME NEW i \in Instances, Drop(i) PROVE TempKept'
  BY <1>17 DEF Drop
<1>18. ASSUME NEW i \in Instances, PgCtlSignals(i) PROVE TempKept'
  BY <1>18 DEF PgCtlSignals
<1>19. ASSUME NEW i \in Instances, PgCtlDone(i) PROVE TempKept'
  BY <1>19 DEF PgCtlDone, AfterSuccess
<1>20. ASSUME NEW i \in Instances, Reap(i) PROVE TempKept'
  BY <1>20 DEF Reap
<1>21. ASSUME NEW i \in Instances, PgCtlFails(i) PROVE TempKept'
  BY <1>21 DEF PgCtlFails, AfterKill
<1>22. ASSUME NEW i \in Instances, StopClean(i) PROVE TempKept'
  BY <1>22 DEF StopClean, Clean, RemoveDir, Bereft, ToRemove, Remains
<1>23. ASSUME NEW i \in Instances, DropClean(i) PROVE TempKept'
  BY <1>23 DEF DropClean, Clean, RemoveDir, Bereft, ToRemove, Remains
<1>24. ASSUME NEW i \in Instances, DropStopped(i) PROVE TempKept'
  BY <1>24 DEF DropStopped
<1>25. ASSUME NEW i \in Instances, Crash(i) PROVE TempKept'
  BY <1>25 DEF Crash, ConfCut
<1>26. ASSUME NEW i \in Instances, Lock(i) PROVE TempKept'
  BY <1>26 DEF Lock
<1>27. ASSUME NEW i \in Instances, Bind(i) PROVE TempKept'
  BY <1>27 DEF Bind
<1>28. ASSUME NEW i \in Instances, Exit(i) PROVE TempKept'
  BY <1>28 DEF Exit
<1>29. ASSUME NEW i \in Instances, ServerDies(i) PROVE TempKept'
  BY <1>29 DEF ServerDies
<1>30. ASSUME NEW d \in Dirs, CliStop(d) PROVE TempKept'
  BY <1>30 DEF CliStop
<1>31. CASE UNCHANGED vars
  BY <1>31 DEF vars
<1>32. QED
  BY <1>1, <1>2, <1>3, <1>4, <1>5, <1>6, <1>7, <1>8, <1>9, <1>10, <1>11, <1>12, <1>13, <1>14, <1>15, <1>16, <1>17, <1>18, <1>19, <1>20, <1>21, <1>22, <1>23, <1>24, <1>25, <1>26, <1>27, <1>28, <1>29, <1>30, <1>31
     DEF Next, StartStep, EndStep, UserStep, FaultStep, ServerStep

\* pg_ctl -D finds the child of the directory's only instance.
LEMMA TargetStep ==
    OwnDirs /\ TypeOK /\ OwnTarget /\ [Next]_vars => OwnTarget'
<1> SUFFICES ASSUME OwnDirs, TypeOK, OwnTarget, [Next]_vars PROVE OwnTarget'
  OBVIOUS
<1> USE EngineAssumption DEF OwnDirs, OwnTarget, PidFile, Holder, TypeOK, Goto, Move, inst, server, disk, Starting, Preparing, Undoing, Ending, Over, PortKnown, Live, Locking
<1>1. ASSUME NEW i \in Instances, Start(i) PROVE OwnTarget'
  BY <1>1 DEF Start
<1>2. ASSUME NEW i \in Instances, Extracted(i) PROVE OwnTarget'
  BY <1>2 DEF Extracted
<1>3. ASSUME NEW i \in Instances, ResolvePort(i) PROVE OwnTarget'
  BY <1>3 DEF ResolvePort
<1>4. ASSUME NEW i \in Instances, Mkdir(i) PROVE OwnTarget'
  BY <1>4 DEF Mkdir
<1>5. ASSUME NEW i \in Instances, CheckVersion(i) PROVE OwnTarget'
  BY <1>5 DEF CheckVersion
<1>6. ASSUME NEW i \in Instances, InitdbBegins(i) PROVE OwnTarget'
  BY <1>6 DEF InitdbBegins
<1>7. ASSUME NEW i \in Instances, InitdbDone(i) PROVE OwnTarget'
  BY <1>7 DEF InitdbDone
<1>8. ASSUME NEW i \in Instances, InitdbRefuses(i) PROVE OwnTarget'
  BY <1>8 DEF InitdbRefuses
<1>9. ASSUME NEW i \in Instances, InitdbFails(i) PROVE OwnTarget'
  BY <1>9 DEF InitdbFails
<1>10. ASSUME NEW i \in Instances, WriteConf(i) PROVE OwnTarget'
  BY <1>10 DEF WriteConf
<1>11. ASSUME NEW i \in Instances, Spawn(i) PROVE OwnTarget'
  BY <1>11 DEF Spawn
<1>12. ASSUME NEW i \in Instances, DirLost(i) PROVE OwnTarget'
  BY <1>12 DEF DirLost
<1>13. ASSUME NEW i \in Instances, StartFails(i) PROVE OwnTarget'
  BY <1>13 DEF StartFails, ConfCut
<1>14. ASSUME NEW i \in Instances, Ready(i) PROVE OwnTarget'
  BY <1>14 DEF Ready
<1>15. ASSUME NEW i \in Instances, GiveUp(i) PROVE OwnTarget'
  BY <1>15 DEF GiveUp
<1>16. ASSUME NEW i \in Instances, Stop(i) PROVE OwnTarget'
  BY <1>16 DEF Stop
<1>17. ASSUME NEW i \in Instances, Drop(i) PROVE OwnTarget'
  BY <1>17 DEF Drop
<1>18. ASSUME NEW i \in Instances, PgCtlSignals(i) PROVE OwnTarget'
  BY <1>18 DEF PgCtlSignals
<1>19. ASSUME NEW i \in Instances, PgCtlDone(i) PROVE OwnTarget'
  BY <1>19 DEF PgCtlDone, AfterSuccess
<1>20. ASSUME NEW i \in Instances, Reap(i) PROVE OwnTarget'
  BY <1>20 DEF Reap
<1>21. ASSUME NEW i \in Instances, PgCtlFails(i) PROVE OwnTarget'
  BY <1>21 DEF PgCtlFails, AfterKill
<1>22. ASSUME NEW i \in Instances, StopClean(i) PROVE OwnTarget'
  BY <1>22 DEF StopClean, Clean, RemoveDir, Bereft, ToRemove, Remains
<1>23. ASSUME NEW i \in Instances, DropClean(i) PROVE OwnTarget'
  BY <1>23 DEF DropClean, Clean, RemoveDir, Bereft, ToRemove, Remains
<1>24. ASSUME NEW i \in Instances, DropStopped(i) PROVE OwnTarget'
  BY <1>24 DEF DropStopped
<1>25. ASSUME NEW i \in Instances, Crash(i) PROVE OwnTarget'
  BY <1>25 DEF Crash, ConfCut
<1>26. ASSUME NEW i \in Instances, Lock(i) PROVE OwnTarget'
  BY <1>26 DEF Lock
<1>27. ASSUME NEW i \in Instances, Bind(i) PROVE OwnTarget'
  BY <1>27 DEF Bind
<1>28. ASSUME NEW i \in Instances, Exit(i) PROVE OwnTarget'
  BY <1>28 DEF Exit
<1>29. ASSUME NEW i \in Instances, ServerDies(i) PROVE OwnTarget'
  BY <1>29 DEF ServerDies
<1>30. ASSUME NEW d \in Dirs, CliStop(d) PROVE OwnTarget'
  BY <1>30 DEF CliStop
<1>31. CASE UNCHANGED vars
  BY <1>31 DEF vars
<1>32. QED
  BY <1>1, <1>2, <1>3, <1>4, <1>5, <1>6, <1>7, <1>8, <1>9, <1>10, <1>11, <1>12, <1>13, <1>14, <1>15, <1>16, <1>17, <1>18, <1>19, <1>20, <1>21, <1>22, <1>23, <1>24, <1>25, <1>26, <1>27, <1>28, <1>29, <1>30, <1>31
     DEF Next, StartStep, EndStep, UserStep, FaultStep, ServerStep

\* An instance that comes to an end has no live child.
LEMMA ChildStep ==
    OwnDirs /\ TypeOK /\ OwnTarget /\ ChildFollows /\ DirStays /\ [Next]_vars => ChildFollows'
<1> SUFFICES ASSUME OwnDirs, TypeOK, OwnTarget, ChildFollows, DirStays, [Next]_vars PROVE ChildFollows'
  OBVIOUS
<1> USE EngineAssumption DEF OwnDirs, OwnTarget, ChildFollows, InPgCtl, Active, PidFile, Holder, TypeOK, Goto, Move, inst, server, disk, Starting, Preparing, Undoing, Ending, Over, PortKnown, Live, Locking
<1>1. ASSUME NEW i \in Instances, Start(i) PROVE ChildFollows'
  BY <1>1 DEF Start
<1>2. ASSUME NEW i \in Instances, Extracted(i) PROVE ChildFollows'
  BY <1>2 DEF Extracted
<1>3. ASSUME NEW i \in Instances, ResolvePort(i) PROVE ChildFollows'
  BY <1>3 DEF ResolvePort
<1>4. ASSUME NEW i \in Instances, Mkdir(i) PROVE ChildFollows'
  BY <1>4 DEF Mkdir
<1>5. ASSUME NEW i \in Instances, CheckVersion(i) PROVE ChildFollows'
  BY <1>5 DEF CheckVersion
<1>6. ASSUME NEW i \in Instances, InitdbBegins(i) PROVE ChildFollows'
  BY <1>6 DEF InitdbBegins
<1>7. ASSUME NEW i \in Instances, InitdbDone(i) PROVE ChildFollows'
  BY <1>7 DEF InitdbDone
<1>8. ASSUME NEW i \in Instances, InitdbRefuses(i) PROVE ChildFollows'
  BY <1>8 DEF InitdbRefuses
<1>9. ASSUME NEW i \in Instances, InitdbFails(i) PROVE ChildFollows'
  BY <1>9 DEF InitdbFails
<1>10. ASSUME NEW i \in Instances, WriteConf(i) PROVE ChildFollows'
  BY <1>10 DEF WriteConf
<1>11. ASSUME NEW i \in Instances, Spawn(i) PROVE ChildFollows'
  BY <1>11 DEF Spawn
<1>12. ASSUME NEW i \in Instances, DirLost(i) PROVE ChildFollows'
  BY <1>12 DEF DirLost
<1>13. ASSUME NEW i \in Instances, StartFails(i) PROVE ChildFollows'
  BY <1>13 DEF StartFails, ConfCut
<1>14. ASSUME NEW i \in Instances, Ready(i) PROVE ChildFollows'
  BY <1>14 DEF Ready
<1>15. ASSUME NEW i \in Instances, GiveUp(i) PROVE ChildFollows'
  BY <1>15 DEF GiveUp
<1>16. ASSUME NEW i \in Instances, Stop(i) PROVE ChildFollows'
  BY <1>16 DEF Stop
<1>17. ASSUME NEW i \in Instances, Drop(i) PROVE ChildFollows'
  BY <1>17 DEF Drop
<1>18. ASSUME NEW i \in Instances, PgCtlSignals(i) PROVE ChildFollows'
  BY <1>18 DEF PgCtlSignals
<1>19. ASSUME NEW i \in Instances, PgCtlDone(i) PROVE ChildFollows'
  BY <1>19 DEF PgCtlDone, AfterSuccess, DirStays
<1>20. ASSUME NEW i \in Instances, Reap(i) PROVE ChildFollows'
  BY <1>20 DEF Reap
<1>21. ASSUME NEW i \in Instances, PgCtlFails(i) PROVE ChildFollows'
  BY <1>21 DEF PgCtlFails, AfterKill
<1>22. ASSUME NEW i \in Instances, StopClean(i) PROVE ChildFollows'
  BY <1>22 DEF StopClean, Clean, RemoveDir, Bereft, ToRemove, Remains
<1>23. ASSUME NEW i \in Instances, DropClean(i) PROVE ChildFollows'
  BY <1>23 DEF DropClean, Clean, RemoveDir, Bereft, ToRemove, Remains
<1>24. ASSUME NEW i \in Instances, DropStopped(i) PROVE ChildFollows'
  BY <1>24 DEF DropStopped
<1>25. ASSUME NEW i \in Instances, Crash(i) PROVE ChildFollows'
  BY <1>25 DEF Crash, ConfCut
<1>26. ASSUME NEW i \in Instances, Lock(i) PROVE ChildFollows'
  BY <1>26 DEF Lock
<1>27. ASSUME NEW i \in Instances, Bind(i) PROVE ChildFollows'
  BY <1>27 DEF Bind
<1>28. ASSUME NEW i \in Instances, Exit(i) PROVE ChildFollows'
  BY <1>28 DEF Exit
<1>29. ASSUME NEW i \in Instances, ServerDies(i) PROVE ChildFollows'
  BY <1>29 DEF ServerDies
<1>30. ASSUME NEW d \in Dirs, CliStop(d) PROVE ChildFollows'
  BY <1>30 DEF CliStop
<1>31. CASE UNCHANGED vars
  BY <1>31 DEF vars
<1>32. QED
  BY <1>1, <1>2, <1>3, <1>4, <1>5, <1>6, <1>7, <1>8, <1>9, <1>10, <1>11, <1>12, <1>13, <1>14, <1>15, <1>16, <1>17, <1>18, <1>19, <1>20, <1>21, <1>22, <1>23, <1>24, <1>25, <1>26, <1>27, <1>28, <1>29, <1>30, <1>31
     DEF Next, StartStep, EndStep, UserStep, FaultStep, ServerStep

\* No directory goes before its server.
LEMMA DirStep ==
    OwnDirs /\ TypeOK /\ OwnTarget /\ ChildFollows /\ DirStays /\ [Next]_vars => DirStays'
<1> SUFFICES ASSUME OwnDirs, TypeOK, OwnTarget, ChildFollows, DirStays, [Next]_vars PROVE DirStays'
  OBVIOUS
<1> USE EngineAssumption DEF OwnDirs, OwnTarget, ChildFollows, DirStays, HasVersion, ToRemove, InPgCtl, Active, PidFile, Holder, TypeOK, Goto, Move, inst, server, disk, Starting, Preparing, Undoing, Ending, Over, PortKnown, Live, Locking
<1>1. ASSUME NEW i \in Instances, Start(i) PROVE DirStays'
  BY <1>1 DEF Start
<1>2. ASSUME NEW i \in Instances, Extracted(i) PROVE DirStays'
  BY <1>2 DEF Extracted
<1>3. ASSUME NEW i \in Instances, ResolvePort(i) PROVE DirStays'
  BY <1>3 DEF ResolvePort
<1>4. ASSUME NEW i \in Instances, Mkdir(i) PROVE DirStays'
  BY <1>4 DEF Mkdir
<1>5. ASSUME NEW i \in Instances, CheckVersion(i) PROVE DirStays'
  BY <1>5 DEF CheckVersion
<1>6. ASSUME NEW i \in Instances, InitdbBegins(i) PROVE DirStays'
  BY <1>6 DEF InitdbBegins
<1>7. ASSUME NEW i \in Instances, InitdbDone(i) PROVE DirStays'
  BY <1>7 DEF InitdbDone
<1>8. ASSUME NEW i \in Instances, InitdbRefuses(i) PROVE DirStays'
  BY <1>8 DEF InitdbRefuses
<1>9. ASSUME NEW i \in Instances, InitdbFails(i) PROVE DirStays'
  BY <1>9 DEF InitdbFails
<1>10. ASSUME NEW i \in Instances, WriteConf(i) PROVE DirStays'
  BY <1>10 DEF WriteConf
<1>11. ASSUME NEW i \in Instances, Spawn(i) PROVE DirStays'
  BY <1>11 DEF Spawn
<1>12. ASSUME NEW i \in Instances, DirLost(i) PROVE DirStays'
  BY <1>12 DEF DirLost
<1>13. ASSUME NEW i \in Instances, StartFails(i) PROVE DirStays'
  BY <1>13 DEF StartFails, ConfCut
<1>14. ASSUME NEW i \in Instances, Ready(i) PROVE DirStays'
  BY <1>14 DEF Ready
<1>15. ASSUME NEW i \in Instances, GiveUp(i) PROVE DirStays'
  BY <1>15 DEF GiveUp
<1>16. ASSUME NEW i \in Instances, Stop(i) PROVE DirStays'
  BY <1>16 DEF Stop
<1>17. ASSUME NEW i \in Instances, Drop(i) PROVE DirStays'
  BY <1>17 DEF Drop
<1>18. ASSUME NEW i \in Instances, PgCtlSignals(i) PROVE DirStays'
  BY <1>18 DEF PgCtlSignals
<1>19. ASSUME NEW i \in Instances, PgCtlDone(i) PROVE DirStays'
  BY <1>19 DEF PgCtlDone, AfterSuccess
<1>20. ASSUME NEW i \in Instances, Reap(i) PROVE DirStays'
  BY <1>20 DEF Reap
<1>21. ASSUME NEW i \in Instances, PgCtlFails(i) PROVE DirStays'
  BY <1>21 DEF PgCtlFails, AfterKill
<1>22. ASSUME NEW i \in Instances, StopClean(i) PROVE DirStays'
  BY <1>22 DEF StopClean, Clean, RemoveDir, Bereft, ToRemove, Remains
<1>23. ASSUME NEW i \in Instances, DropClean(i) PROVE DirStays'
  BY <1>23 DEF DropClean, Clean, RemoveDir, Bereft, ToRemove, Remains
<1>24. ASSUME NEW i \in Instances, DropStopped(i) PROVE DirStays'
  BY <1>24 DEF DropStopped
<1>25. ASSUME NEW i \in Instances, Crash(i) PROVE DirStays'
  BY <1>25 DEF Crash, ConfCut
<1>26. ASSUME NEW i \in Instances, Lock(i) PROVE DirStays'
  BY <1>26 DEF Lock
<1>27. ASSUME NEW i \in Instances, Bind(i) PROVE DirStays'
  BY <1>27 DEF Bind
<1>28. ASSUME NEW i \in Instances, Exit(i) PROVE DirStays'
  BY <1>28 DEF Exit
<1>29. ASSUME NEW i \in Instances, ServerDies(i) PROVE DirStays'
  BY <1>29 DEF ServerDies
<1>30. ASSUME NEW d \in Dirs, CliStop(d) PROVE DirStays'
  BY <1>30 DEF CliStop
<1>31. CASE UNCHANGED vars
  BY <1>31 DEF vars
<1>32. QED
  BY <1>1, <1>2, <1>3, <1>4, <1>5, <1>6, <1>7, <1>8, <1>9, <1>10, <1>11, <1>12, <1>13, <1>14, <1>15, <1>16, <1>17, <1>18, <1>19, <1>20, <1>21, <1>22, <1>23, <1>24, <1>25, <1>26, <1>27, <1>28, <1>29, <1>30, <1>31
     DEF Next, StartStep, EndStep, UserStep, FaultStep, ServerStep

-----------------------------------------------------------------------------

\* The inductive invariant, for instances with directories of their own.
LEMMA Invariance == ASSUME OwnDirs PROVE Spec => []IInv
<1>1. Init => IInv
  BY InitIInv
<1>2. IInv /\ [Next]_vars => IInv'
  BY TypeStep, TargetStep, ChildStep, DirStep DEF IInv
<1>3. QED
  BY <1>1, <1>2, PTL DEF Spec

\* Every variable keeps its type, and an instance that got past ResolvePort has
\* a port, whoever shares what with whom.
THEOREM TypeCorrect == Spec => []TypeOK
<1>1. Init => TypeOK
  BY InitIInv DEF IInv
<1>2. TypeOK /\ [Next]_vars => TypeOK'
  BY TypeStep
<1>3. QED
  BY <1>1, <1>2, PTL DEF Spec

\* With directories of their own, a Postg value that is gone has left no server,
\* whatever pg_ctl did, and no temporary directory but one whose removal was
\* tried and failed: no way through stop() and Drop leaves the removal out
\* (engine.rs:49, 199-262).
THEOREM GoneIsCleanHolds == ASSUME OwnDirs PROVE Spec => []GoneIsClean
<1>1. IInv => GoneIsClean
  BY DEF IInv, ChildFollows, DirStays, GoneIsClean
<1>2. QED
  BY <1>1, Invariance, PTL

\* With directories of their own, no server loses its directory while it runs
\* (engine.rs:223-227, 258-260).
THEOREM ServedDirIsThereHolds == ASSUME OwnDirs PROVE Spec => []ServedDirIsThere
<1>1. IInv => ServedDirIsThere
  BY DEF IInv, DirStays, ServedDirIsThere, Live, Locking
<1>2. QED
  BY <1>1, Invariance, PTL

\* With directories of their own, Drop waits for a child that has ended
\* (engine.rs:248-249).
THEOREM CtlStoppedTheChildHolds == ASSUME OwnDirs PROVE Spec => []CtlStoppedTheChild
<1>1. IInv => CtlStoppedTheChild
  BY DEF IInv, ChildFollows, CtlStoppedTheChild
<1>2. QED
  BY <1>1, Invariance, PTL

\* An initialised persistent directory stays initialised, also when any number
\* of instances start and stop on it at once (engine.rs:27-32, 223, 258).
THEOREM DataKeptHolds == Spec => DataKept
<1> DEFINE Kept == \A d \in Dirs :
                     (\A i \in Instances : DataDir[i] = d => ~Temporary[i])
                     /\ data[d] = "ready" => data'[d] = "ready"
<1>1. ASSUME TypeOK, TempKept, [Next]_vars PROVE Kept
  <2> SUFFICES ASSUME NEW d \in Dirs, \A i \in Instances : DataDir[i] = d => ~Temporary[i],
                      data[d] = "ready"
               PROVE  data'[d] = "ready"
    OBVIOUS
  <2> USE <1>1 DEF TypeOK
  <2>1. ASSUME NEW i \in Instances, Mkdir(i) PROVE data'[d] = "ready"
    BY <2>1, EngineAssumption DEF Mkdir
  <2>2. ASSUME NEW i \in Instances, InitdbBegins(i) PROVE data'[d] = "ready"
    BY <2>2, EngineAssumption DEF InitdbBegins, HasVersion
  <2>3. ASSUME NEW i \in Instances, InitdbDone(i) PROVE data'[d] = "ready"
    BY <2>3, EngineAssumption DEF InitdbDone
  <2>4. ASSUME NEW i \in Instances, InitdbFails(i) PROVE data'[d] = "ready"
    BY <2>4, EngineAssumption DEF InitdbFails
  <2>5. ASSUME NEW i \in Instances, StopClean(i) PROVE data'[d] = "ready"
    BY <2>5, EngineAssumption DEF StopClean, Clean, RemoveDir, ToRemove, TempKept
  <2>6. ASSUME NEW i \in Instances, DropClean(i) PROVE data'[d] = "ready"
    BY <2>6, EngineAssumption DEF DropClean, Clean, RemoveDir, ToRemove, TempKept
  <2>7. ASSUME NEW i \in Instances, Crash(i) PROVE data'[d] = "ready"
    BY <2>7, EngineAssumption DEF Crash, ConfCut, disk
  <2>8. CASE data' = data
    BY <2>8
  <2>9. QED
    BY <2>1, <2>2, <2>3, <2>4, <2>5, <2>6, <2>7, <2>8 DEF Next, StartStep, EndStep, UserStep, FaultStep, ServerStep,
       Move, Start, Extracted, ResolvePort, CheckVersion, InitdbRefuses, WriteConf,
       Spawn, DirLost, StartFails, ConfCut, Ready, GiveUp, Stop, Drop, PgCtlSignals,
       PgCtlDone, Reap, PgCtlFails, DropStopped, Lock, Bind, Exit,
       ServerDies, CliStop, vars, disk
<1>2. TypeOK /\ TempKept /\ [Next]_vars => [Kept]_vars
  BY <1>1
<1>3. Init => TempKept
  BY InitIInv
<1>4. TypeOK /\ TempKept /\ [Next]_vars => TempKept'
  BY TempStep
<1>5. QED
  BY <1>2, <1>3, <1>4, TypeCorrect, PTL DEF Spec, DataKept

-----------------------------------------------------------------------------
(* Who waits in vain.                                                       *)

\* pg_ctl told the server it found to stop, and that one never comes up again;
\* Drop waits for its child only after pg_ctl has found one.
Told ==
    \A i \in Instances :
        /\ pc[i] \in {"new", "failed"} \cup Preparing => srv[i] = "none"
        /\ pc[i] \in {"drop_reap", "undo_reap"} => target[i] # NoInst
        /\ target[i] # NoInst => srv[target[i]] \in {"closing", "exited", "reaped"}

\* Signals, exits and removals only take such a server further.
LEMMA ToldStep ==
    TypeOK /\ Told /\ [Next]_vars => Told'
<1> SUFFICES ASSUME TypeOK, Told, [Next]_vars PROVE Told'
  OBVIOUS
<1> USE EngineAssumption DEF Told, PidFile, Holder, InPgCtl, TypeOK, Goto, Move, inst, server, disk, Starting, Preparing, Undoing, Ending, Over, PortKnown, Live, Locking
<1>1. ASSUME NEW i \in Instances, Start(i) PROVE Told'
  BY <1>1 DEF Start
<1>2. ASSUME NEW i \in Instances, Extracted(i) PROVE Told'
  BY <1>2 DEF Extracted
<1>3. ASSUME NEW i \in Instances, ResolvePort(i) PROVE Told'
  BY <1>3 DEF ResolvePort
<1>4. ASSUME NEW i \in Instances, Mkdir(i) PROVE Told'
  BY <1>4 DEF Mkdir
<1>5. ASSUME NEW i \in Instances, CheckVersion(i) PROVE Told'
  BY <1>5 DEF CheckVersion
<1>6. ASSUME NEW i \in Instances, InitdbBegins(i) PROVE Told'
  BY <1>6 DEF InitdbBegins
<1>7. ASSUME NEW i \in Instances, InitdbDone(i) PROVE Told'
  BY <1>7 DEF InitdbDone
<1>8. ASSUME NEW i \in Instances, InitdbRefuses(i) PROVE Told'
  BY <1>8 DEF InitdbRefuses
<1>9. ASSUME NEW i \in Instances, InitdbFails(i) PROVE Told'
  BY <1>9 DEF InitdbFails
<1>10. ASSUME NEW i \in Instances, WriteConf(i) PROVE Told'
  BY <1>10 DEF WriteConf
<1>11. ASSUME NEW i \in Instances, Spawn(i) PROVE Told'
  BY <1>11 DEF Spawn
<1>12. ASSUME NEW i \in Instances, DirLost(i) PROVE Told'
  BY <1>12 DEF DirLost
<1>13. ASSUME NEW i \in Instances, StartFails(i) PROVE Told'
  BY <1>13 DEF StartFails, ConfCut
<1>14. ASSUME NEW i \in Instances, Ready(i) PROVE Told'
  BY <1>14 DEF Ready
<1>15. ASSUME NEW i \in Instances, GiveUp(i) PROVE Told'
  BY <1>15 DEF GiveUp
<1>16. ASSUME NEW i \in Instances, Stop(i) PROVE Told'
  BY <1>16 DEF Stop
<1>17. ASSUME NEW i \in Instances, Drop(i) PROVE Told'
  BY <1>17 DEF Drop
<1>18. ASSUME NEW i \in Instances, PgCtlSignals(i) PROVE Told'
  BY <1>18 DEF PgCtlSignals
<1>19. ASSUME NEW i \in Instances, PgCtlDone(i) PROVE Told'
  BY <1>19 DEF PgCtlDone, AfterSuccess
<1>20. ASSUME NEW i \in Instances, Reap(i) PROVE Told'
  BY <1>20 DEF Reap
<1>21. ASSUME NEW i \in Instances, PgCtlFails(i) PROVE Told'
  BY <1>21 DEF PgCtlFails, AfterKill
<1>22. ASSUME NEW i \in Instances, StopClean(i) PROVE Told'
  BY <1>22 DEF StopClean, Clean, RemoveDir, Bereft, ToRemove, Remains
<1>23. ASSUME NEW i \in Instances, DropClean(i) PROVE Told'
  BY <1>23 DEF DropClean, Clean, RemoveDir, Bereft, ToRemove, Remains
<1>24. ASSUME NEW i \in Instances, DropStopped(i) PROVE Told'
  BY <1>24 DEF DropStopped
<1>25. ASSUME NEW i \in Instances, Crash(i) PROVE Told'
  BY <1>25 DEF Crash, ConfCut
<1>26. ASSUME NEW i \in Instances, Lock(i) PROVE Told'
  BY <1>26 DEF Lock
<1>27. ASSUME NEW i \in Instances, Bind(i) PROVE Told'
  BY <1>27 DEF Bind
<1>28. ASSUME NEW i \in Instances, Exit(i) PROVE Told'
  BY <1>28 DEF Exit
<1>29. ASSUME NEW i \in Instances, ServerDies(i) PROVE Told'
  BY <1>29 DEF ServerDies
<1>30. ASSUME NEW d \in Dirs, CliStop(d) PROVE Told'
  BY <1>30 DEF CliStop
<1>31. CASE UNCHANGED vars
  BY <1>31 DEF vars
<1>32. QED
  BY <1>1, <1>2, <1>3, <1>4, <1>5, <1>6, <1>7, <1>8, <1>9, <1>10, <1>11, <1>12, <1>13, <1>14, <1>15, <1>16, <1>17, <1>18, <1>19, <1>20, <1>21, <1>22, <1>23, <1>24, <1>25, <1>26, <1>27, <1>28, <1>29, <1>30, <1>31
     DEF Next, StartStep, EndStep, UserStep, FaultStep, ServerStep

\* Instances may share directories and ports as they like: Drop can only come to
\* wait for a server that is up when its pg_ctl stopped that of another instance
\* on the same directory (engine.rs:238-249).
THEOREM VainWaitNeedsAnotherHolds == Spec => []VainWaitNeedsAnother
<1> DEFINE TInv == TypeOK /\ Told
<1>1. Init => TInv
  BY InitIInv DEF Init, IInv, Told
<1>2. TInv /\ [Next]_vars => TInv'
  BY TypeStep, ToldStep
<1>3. TInv => VainWaitNeedsAnother
  BY DEF Told, VainWaitNeedsAnother, WaitsInVain
<1>4. QED
  BY <1>1, <1>2, <1>3, PTL DEF Spec

-----------------------------------------------------------------------------
(* What a server is spawned on.                                             *)

\* One instance at a time is active on a directory.
Exclusive ==
    \A i, j \in Instances : DataDir[i] = DataDir[j] /\ Active(i) /\ Active(j) => i = j

\* A cluster is only half there while an initdb runs on it.
Prepared ==
    \A i \in Instances :
        /\ data[DataDir[i]] = "partial" =>
              \E j \in Instances : DataDir[j] = DataDir[i] /\ pc[j] = "initdb_run"
        /\ pc[i] \in {"conf", "spawn"} => data[DataDir[i]] \in {"cut", "ready"}

OneAtATime == OwnDirs \/ Serial

\* The next instance on a directory waits, or there is none.
LEMMA ExclusiveStep ==
    OneAtATime /\ TypeOK /\ Exclusive /\ [Next]_vars => Exclusive'
<1> SUFFICES ASSUME OneAtATime, TypeOK, Exclusive, [Next]_vars PROVE Exclusive'
  OBVIOUS
<1> USE EngineAssumption DEF OneAtATime, OwnDirs, Exclusive, Active, InPgCtl, TypeOK, Goto, Move, inst, server, disk, Starting, Preparing, Undoing, Ending, Over, PortKnown, Live, Locking
<1>1. ASSUME NEW i \in Instances, Start(i) PROVE Exclusive'
  BY <1>1 DEF Start
<1>2. ASSUME NEW i \in Instances, Extracted(i) PROVE Exclusive'
  BY <1>2 DEF Extracted
<1>3. ASSUME NEW i \in Instances, ResolvePort(i) PROVE Exclusive'
  BY <1>3 DEF ResolvePort
<1>4. ASSUME NEW i \in Instances, Mkdir(i) PROVE Exclusive'
  BY <1>4 DEF Mkdir
<1>5. ASSUME NEW i \in Instances, CheckVersion(i) PROVE Exclusive'
  BY <1>5 DEF CheckVersion
<1>6. ASSUME NEW i \in Instances, InitdbBegins(i) PROVE Exclusive'
  BY <1>6 DEF InitdbBegins
<1>7. ASSUME NEW i \in Instances, InitdbDone(i) PROVE Exclusive'
  BY <1>7 DEF InitdbDone
<1>8. ASSUME NEW i \in Instances, InitdbRefuses(i) PROVE Exclusive'
  BY <1>8 DEF InitdbRefuses
<1>9. ASSUME NEW i \in Instances, InitdbFails(i) PROVE Exclusive'
  BY <1>9 DEF InitdbFails
<1>10. ASSUME NEW i \in Instances, WriteConf(i) PROVE Exclusive'
  BY <1>10 DEF WriteConf
<1>11. ASSUME NEW i \in Instances, Spawn(i) PROVE Exclusive'
  BY <1>11 DEF Spawn
<1>12. ASSUME NEW i \in Instances, DirLost(i) PROVE Exclusive'
  BY <1>12 DEF DirLost
<1>13. ASSUME NEW i \in Instances, StartFails(i) PROVE Exclusive'
  BY <1>13 DEF StartFails, ConfCut
<1>14. ASSUME NEW i \in Instances, Ready(i) PROVE Exclusive'
  BY <1>14 DEF Ready
<1>15. ASSUME NEW i \in Instances, GiveUp(i) PROVE Exclusive'
  BY <1>15 DEF GiveUp
<1>16. ASSUME NEW i \in Instances, Stop(i) PROVE Exclusive'
  BY <1>16 DEF Stop
<1>17. ASSUME NEW i \in Instances, Drop(i) PROVE Exclusive'
  BY <1>17 DEF Drop
<1>18. ASSUME NEW i \in Instances, PgCtlSignals(i) PROVE Exclusive'
  BY <1>18 DEF PgCtlSignals
<1>19. ASSUME NEW i \in Instances, PgCtlDone(i) PROVE Exclusive'
  BY <1>19 DEF PgCtlDone, AfterSuccess
<1>20. ASSUME NEW i \in Instances, Reap(i) PROVE Exclusive'
  BY <1>20 DEF Reap
<1>21. ASSUME NEW i \in Instances, PgCtlFails(i) PROVE Exclusive'
  BY <1>21 DEF PgCtlFails, AfterKill
<1>22. ASSUME NEW i \in Instances, StopClean(i) PROVE Exclusive'
  BY <1>22 DEF StopClean, Clean, RemoveDir, Bereft, ToRemove, Remains
<1>23. ASSUME NEW i \in Instances, DropClean(i) PROVE Exclusive'
  BY <1>23 DEF DropClean, Clean, RemoveDir, Bereft, ToRemove, Remains
<1>24. ASSUME NEW i \in Instances, DropStopped(i) PROVE Exclusive'
  BY <1>24 DEF DropStopped
<1>25. ASSUME NEW i \in Instances, Crash(i) PROVE Exclusive'
  BY <1>25 DEF Crash, ConfCut
<1>26. ASSUME NEW i \in Instances, Lock(i) PROVE Exclusive'
  BY <1>26 DEF Lock
<1>27. ASSUME NEW i \in Instances, Bind(i) PROVE Exclusive'
  BY <1>27 DEF Bind
<1>28. ASSUME NEW i \in Instances, Exit(i) PROVE Exclusive'
  BY <1>28 DEF Exit
<1>29. ASSUME NEW i \in Instances, ServerDies(i) PROVE Exclusive'
  BY <1>29 DEF ServerDies
<1>30. ASSUME NEW d \in Dirs, CliStop(d) PROVE Exclusive'
  BY <1>30 DEF CliStop
<1>31. CASE UNCHANGED vars
  BY <1>31 DEF vars
<1>32. QED
  BY <1>1, <1>2, <1>3, <1>4, <1>5, <1>6, <1>7, <1>8, <1>9, <1>10, <1>11, <1>12, <1>13, <1>14, <1>15, <1>16, <1>17, <1>18, <1>19, <1>20, <1>21, <1>22, <1>23, <1>24, <1>25, <1>26, <1>27, <1>28, <1>29, <1>30, <1>31
     DEF Next, StartStep, EndStep, UserStep, FaultStep, ServerStep

\* What an initdb leaves, that is killed or whose program is, is partial no more.
LEMMA PreparedStep ==
    TypeOK /\ Exclusive /\ Prepared /\ [Next]_vars => Prepared'
<1> SUFFICES ASSUME TypeOK, Exclusive, Prepared, [Next]_vars PROVE Prepared'
  OBVIOUS
<1> USE EngineAssumption DEF Exclusive, Prepared, Active, InPgCtl, TypeOK, Goto, Move, inst, server, disk, Starting, Preparing, Undoing, Ending, Over, PortKnown, Live, Locking
<1>1. ASSUME NEW i \in Instances, Start(i) PROVE Prepared'
  BY <1>1 DEF Start
<1>2. ASSUME NEW i \in Instances, Extracted(i) PROVE Prepared'
  BY <1>2 DEF Extracted
<1>3. ASSUME NEW i \in Instances, ResolvePort(i) PROVE Prepared'
  BY <1>3 DEF ResolvePort
<1>4. ASSUME NEW i \in Instances, Mkdir(i) PROVE Prepared'
  BY <1>4 DEF Mkdir
<1>5. ASSUME NEW i \in Instances, CheckVersion(i) PROVE Prepared'
  BY <1>5 DEF CheckVersion, HasVersion
<1>6. ASSUME NEW i \in Instances, InitdbBegins(i) PROVE Prepared'
  BY <1>6 DEF InitdbBegins, HasVersion
<1>7. ASSUME NEW i \in Instances, InitdbDone(i) PROVE Prepared'
  BY <1>7 DEF InitdbDone
<1>8. ASSUME NEW i \in Instances, InitdbRefuses(i) PROVE Prepared'
  BY <1>8 DEF InitdbRefuses, HasVersion
<1>9. ASSUME NEW i \in Instances, InitdbFails(i) PROVE Prepared'
  BY <1>9 DEF InitdbFails
<1>10. ASSUME NEW i \in Instances, WriteConf(i) PROVE Prepared'
  BY <1>10 DEF WriteConf
<1>11. ASSUME NEW i \in Instances, Spawn(i) PROVE Prepared'
  BY <1>11 DEF Spawn
<1>12. ASSUME NEW i \in Instances, DirLost(i) PROVE Prepared'
  BY <1>12 DEF DirLost
<1>13. ASSUME NEW i \in Instances, StartFails(i) PROVE Prepared'
  BY <1>13 DEF StartFails, ConfCut
<1>14. ASSUME NEW i \in Instances, Ready(i) PROVE Prepared'
  BY <1>14 DEF Ready
<1>15. ASSUME NEW i \in Instances, GiveUp(i) PROVE Prepared'
  BY <1>15 DEF GiveUp
<1>16. ASSUME NEW i \in Instances, Stop(i) PROVE Prepared'
  BY <1>16 DEF Stop
<1>17. ASSUME NEW i \in Instances, Drop(i) PROVE Prepared'
  BY <1>17 DEF Drop
<1>18. ASSUME NEW i \in Instances, PgCtlSignals(i) PROVE Prepared'
  BY <1>18 DEF PgCtlSignals
<1>19. ASSUME NEW i \in Instances, PgCtlDone(i) PROVE Prepared'
  BY <1>19 DEF PgCtlDone, AfterSuccess
<1>20. ASSUME NEW i \in Instances, Reap(i) PROVE Prepared'
  BY <1>20 DEF Reap
<1>21. ASSUME NEW i \in Instances, PgCtlFails(i) PROVE Prepared'
  BY <1>21 DEF PgCtlFails, AfterKill
<1>22. ASSUME NEW i \in Instances, StopClean(i) PROVE Prepared'
  BY SMTT(60), <1>22 DEF StopClean, Clean, RemoveDir, Bereft, ToRemove, Remains
<1>23. ASSUME NEW i \in Instances, DropClean(i) PROVE Prepared'
  BY SMTT(60), <1>23 DEF DropClean, Clean, RemoveDir, Bereft, ToRemove, Remains
<1>24. ASSUME NEW i \in Instances, DropStopped(i) PROVE Prepared'
  BY <1>24 DEF DropStopped
<1>25. ASSUME NEW i \in Instances, Crash(i) PROVE Prepared'
  BY <1>25 DEF Crash, ConfCut
<1>26. ASSUME NEW i \in Instances, Lock(i) PROVE Prepared'
  BY <1>26 DEF Lock
<1>27. ASSUME NEW i \in Instances, Bind(i) PROVE Prepared'
  BY <1>27 DEF Bind
<1>28. ASSUME NEW i \in Instances, Exit(i) PROVE Prepared'
  BY <1>28 DEF Exit
<1>29. ASSUME NEW i \in Instances, ServerDies(i) PROVE Prepared'
  BY <1>29 DEF ServerDies
<1>30. ASSUME NEW d \in Dirs, CliStop(d) PROVE Prepared'
  BY <1>30 DEF CliStop
<1>31. CASE UNCHANGED vars
  BY <1>31 DEF vars
<1>32. QED
  BY <1>1, <1>2, <1>3, <1>4, <1>5, <1>6, <1>7, <1>8, <1>9, <1>10, <1>11, <1>12, <1>13, <1>14, <1>15, <1>16, <1>17, <1>18, <1>19, <1>20, <1>21, <1>22, <1>23, <1>24, <1>25, <1>26, <1>27, <1>28, <1>29, <1>30, <1>31
     DEF Next, StartStep, EndStep, UserStep, FaultStep, ServerStep

\* With one instance at a time on each directory, whatever fails, is killed or
\* crashes in between, the server is only started on a directory that is
\* initialised or that a killed initdb left with PG_VERSION (engine.rs:29-32, 83).
THEOREM InitialisedBeforeSpawnHolds ==
    ASSUME OneAtATime PROVE Spec => []InitialisedBeforeSpawn
<1> DEFINE PInv == TypeOK /\ Exclusive /\ Prepared
<1>1. Init => PInv
  BY InitIInv, EngineAssumption DEF Init, IInv, Exclusive, Prepared, Active
<1>2. PInv /\ [Next]_vars => PInv'
  BY TypeStep, ExclusiveStep, PreparedStep
<1>3. PInv => InitialisedBeforeSpawn
  BY DEF Prepared, InitialisedBeforeSpawn
<1>4. QED
  BY <1>1, <1>2, <1>3, PTL DEF Spec

-----------------------------------------------------------------------------
(* Whose server answers.                                                    *)

\* --port is given, another one to each.
OwnPorts ==
    /\ \A i \in Instances : FixedPort[i] # 0
    /\ \A i, j \in Instances : FixedPort[i] = FixedPort[j] => i = j

\* From the spawn on, the directory's configuration names the instance's port,
\* and so does the server.
Configured ==
    \A i \in Instances :
        /\ pc[i] \in PortKnown => port[i] = FixedPort[i]
        /\ pc[i] = "spawn" \/ srv[i] \in Live => conf[DataDir[i]] = FixedPort[i]
        /\ srv[i] \in Locking => sport[i] = FixedPort[i]

\* Nobody writes into a directory another instance serves.
LEMMA ConfiguredStep ==
    OwnDirs /\ OwnPorts /\ IInv /\ Configured /\ [Next]_vars => Configured'
<1> SUFFICES ASSUME OwnDirs, OwnPorts, IInv, Configured, [Next]_vars PROVE Configured'
  OBVIOUS
<1> USE EngineAssumption DEF OwnDirs, OwnPorts, IInv, Configured, ChildFollows, DirStays, Active, InPgCtl, PidFile, Holder, TypeOK, Goto, Move, inst, server, disk, Starting, Preparing, Undoing, Ending, Over, PortKnown, Live, Locking
<1>1. ASSUME NEW i \in Instances, Start(i) PROVE Configured'
  BY <1>1 DEF Start
<1>2. ASSUME NEW i \in Instances, Extracted(i) PROVE Configured'
  BY <1>2 DEF Extracted
<1>3. ASSUME NEW i \in Instances, ResolvePort(i) PROVE Configured'
  BY <1>3 DEF ResolvePort
<1>4. ASSUME NEW i \in Instances, Mkdir(i) PROVE Configured'
  BY <1>4 DEF Mkdir
<1>5. ASSUME NEW i \in Instances, CheckVersion(i) PROVE Configured'
  BY <1>5 DEF CheckVersion
<1>6. ASSUME NEW i \in Instances, InitdbBegins(i) PROVE Configured'
  BY <1>6 DEF InitdbBegins
<1>7. ASSUME NEW i \in Instances, InitdbDone(i) PROVE Configured'
  BY <1>7 DEF InitdbDone
<1>8. ASSUME NEW i \in Instances, InitdbRefuses(i) PROVE Configured'
  BY <1>8 DEF InitdbRefuses
<1>9. ASSUME NEW i \in Instances, InitdbFails(i) PROVE Configured'
  BY <1>9 DEF InitdbFails
<1>10. ASSUME NEW i \in Instances, WriteConf(i) PROVE Configured'
  BY <1>10 DEF WriteConf
<1>11. ASSUME NEW i \in Instances, Spawn(i) PROVE Configured'
  BY <1>11 DEF Spawn
<1>12. ASSUME NEW i \in Instances, DirLost(i) PROVE Configured'
  BY <1>12 DEF DirLost
<1>13. ASSUME NEW i \in Instances, StartFails(i) PROVE Configured'
  BY <1>13 DEF StartFails, ConfCut
<1>14. ASSUME NEW i \in Instances, Ready(i) PROVE Configured'
  BY <1>14 DEF Ready
<1>15. ASSUME NEW i \in Instances, GiveUp(i) PROVE Configured'
  BY <1>15 DEF GiveUp
<1>16. ASSUME NEW i \in Instances, Stop(i) PROVE Configured'
  BY <1>16 DEF Stop
<1>17. ASSUME NEW i \in Instances, Drop(i) PROVE Configured'
  BY <1>17 DEF Drop
<1>18. ASSUME NEW i \in Instances, PgCtlSignals(i) PROVE Configured'
  BY <1>18 DEF PgCtlSignals
<1>19. ASSUME NEW i \in Instances, PgCtlDone(i) PROVE Configured'
  BY <1>19 DEF PgCtlDone, AfterSuccess
<1>20. ASSUME NEW i \in Instances, Reap(i) PROVE Configured'
  BY <1>20 DEF Reap
<1>21. ASSUME NEW i \in Instances, PgCtlFails(i) PROVE Configured'
  BY <1>21 DEF PgCtlFails, AfterKill
<1>22. ASSUME NEW i \in Instances, StopClean(i) PROVE Configured'
  BY <1>22 DEF StopClean, Clean, RemoveDir, Bereft, ToRemove, Remains
<1>23. ASSUME NEW i \in Instances, DropClean(i) PROVE Configured'
  BY <1>23 DEF DropClean, Clean, RemoveDir, Bereft, ToRemove, Remains
<1>24. ASSUME NEW i \in Instances, DropStopped(i) PROVE Configured'
  BY <1>24 DEF DropStopped
<1>25. ASSUME NEW i \in Instances, Crash(i) PROVE Configured'
  BY <1>25 DEF Crash, ConfCut
<1>26. ASSUME NEW i \in Instances, Lock(i) PROVE Configured'
  BY <1>26 DEF Lock
<1>27. ASSUME NEW i \in Instances, Bind(i) PROVE Configured'
  BY <1>27 DEF Bind
<1>28. ASSUME NEW i \in Instances, Exit(i) PROVE Configured'
  BY <1>28 DEF Exit
<1>29. ASSUME NEW i \in Instances, ServerDies(i) PROVE Configured'
  BY <1>29 DEF ServerDies
<1>30. ASSUME NEW d \in Dirs, CliStop(d) PROVE Configured'
  BY <1>30 DEF CliStop
<1>31. CASE UNCHANGED vars
  BY <1>31 DEF vars
<1>32. QED
  BY <1>1, <1>2, <1>3, <1>4, <1>5, <1>6, <1>7, <1>8, <1>9, <1>10, <1>11, <1>12, <1>13, <1>14, <1>15, <1>16, <1>17, <1>18, <1>19, <1>20, <1>21, <1>22, <1>23, <1>24, <1>25, <1>26, <1>27, <1>28, <1>29, <1>30, <1>31
     DEF Next, StartStep, EndStep, UserStep, FaultStep, ServerStep

\* With directories and ports of their own, an instance that start() returns
\* has its own server on its port (engine.rs:49, 174-197).
THEOREM ReadyIsOwnHolds == ASSUME OwnDirs, OwnPorts PROVE Spec => ReadyIsOwn
<1> DEFINE Own == \A i \in Instances :
                    pc[i] = "wait" /\ pc'[i] = "running" /\ ~LeftBehind(i) => srv[i] = "up" /\ sport[i] = port[i]
<1> DEFINE CInv == IInv /\ Configured
<1>1. Init => CInv
  BY InitIInv, EngineAssumption DEF Init, Configured, PortKnown, Starting, Preparing, Undoing, Ending, Locking, Live
<1>2. CInv /\ [Next]_vars => CInv'
  BY TypeStep, TargetStep, ChildStep, DirStep, ConfiguredStep DEF IInv
<1>3. ASSUME CInv, Next PROVE Own
  <2> SUFFICES ASSUME NEW i \in Instances, pc[i] = "wait", pc'[i] = "running"
               PROVE  srv[i] = "up" /\ sport[i] = port[i]
    OBVIOUS
  <2>1. Ready(i)
    BY <1>3 DEF IInv, TypeOK, Next, StartStep, EndStep, UserStep, FaultStep, ServerStep,
       Goto, Move, inst, Start, Extracted, ResolvePort, Mkdir, CheckVersion, InitdbBegins,
       InitdbDone, InitdbRefuses, InitdbFails, WriteConf, Spawn, DirLost, StartFails, Ready,
       GiveUp, Stop, Drop, PgCtlSignals, PgCtlDone, Reap, PgCtlFails, StopClean, DropClean,
       DropStopped, Crash, Lock, Bind, Exit, ServerDies, CliStop, InPgCtl, AfterSuccess, AfterKill
  <2>2. PICK j \in Instances : srv[j] \in Answering /\ sport[j] = port[i]
    BY <2>1 DEF Ready
  <2>3. srv[j] = "up"
    BY <1>3, <2>2 DEF IInv, DirStays, Answering
  <2>4. port[i] = FixedPort[i] /\ sport[j] = FixedPort[j]
    BY <1>3, <2>3 DEF Configured, PortKnown, Starting, Preparing, Undoing, Ending, Locking, Live
  <2>5. i = j
    BY <2>2, <2>4 DEF OwnPorts
  <2>6. QED
    BY <2>2, <2>3, <2>5
<1>4. CInv /\ [Next]_vars => [Own]_vars
  BY <1>3
<1>5. QED
  BY <1>1, <1>2, <1>4, PTL DEF Spec, ReadyIsOwn

=============================================================================
