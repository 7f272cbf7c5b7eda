--------------------------- MODULE PayloadProofs ---------------------------
(***************************************************************************)
(* Theorems about Payload, for any set of calls, any number of blocks and   *)
(* any faults.                                                              *)
(*                                                                          *)
(* The argument: a directory is private, and known file by file, until its  *)
(* call ends (Private, Contents); so the installed one, and any one that a  *)
(* call removes, was left there by a call that ended with Ok or was there   *)
(* before (Published).  It was whole when it was renamed, and from then on  *)
(* only a removal touches it (DamageNeedsRemoval).  When calls do not       *)
(* overlap, none that is past the re-check finds a marked directory, so     *)
(* none removes what another published (Alone).                             *)
(***************************************************************************)
EXTENDS Payload, TLAPS

Early == {"idle", "task", "probe", "create", "download", "tempdir"}
Late == {"swap", "open", "remove", "rename"}

\* A call has no directory before MakeTemp, then fills it in order.
Contents ==
    \A c \in Calls :
        /\ pc[c] \in Early => dir[c] = {} /\ c \notin tmp
        /\ pc[c] = "unpack" => dir[c] = 1..(pos[c] - 1)
        /\ pc[c] = "mark" => dir[c] = Parts
        /\ pc[c] \in Late => dir[c] = Files

\* A directory under the final name, or being removed, has no call at work.
Settled(d) == d \in {NoDir, Legacy} \/ (d \in Calls /\ pc[d] = "ok")

Published ==
    /\ Settled(install)
    /\ \A c \in Calls : Settled(victim[c])
    /\ \A c \in Calls : pc[c] = "remove" => victim[c] # NoDir
    /\ \A c \in Calls : pc[c] \in Early \cup {"unpack", "mark", "swap", "open"} => victim[c] = NoDir

LegacyUnmarked == Marker \notin dir[Legacy]

\* No call overlaps another, so none takes a published directory for a victim.
Alone ==
    Serial =>
        /\ \A c, o \in Calls : InProgress(c) /\ InProgress(o) => c = o
        /\ \A c \in Calls : pc[c] \in Running \ {"task"} => ~Marked
        /\ \A c \in Calls : victim[c] \notin Calls

IInv ==
    /\ TypeOK
    /\ Contents
    /\ Published
    /\ LegacyUnmarked
    /\ DamageNeedsRemoval
    /\ OkLasts
    /\ NoTempLeft
    /\ Alone

-----------------------------------------------------------------------------

\* The initial states satisfy every part of the invariant.
LEMMA InitIInv == Init => IInv
<1> SUFFICES ASSUME Init PROVE IInv
  OBVIOUS
<1> USE PayloadAssumption DEF Init, Files, Parts, Marker, Dirs, Finished, Running, Early, Late
<1>1. TypeOK
  <2>1. PICK old \in SUBSET Parts : dir = [d \in Dirs |-> IF d = Legacy THEN old ELSE {}]
    OBVIOUS
  <2>2. dir \in [Dirs -> SUBSET Files]
    BY <2>1
  <2>3. /\ pc \in [Calls -> Finished \cup Running]
        /\ pos \in [Calls -> 1..(NumBlocks + 1)]
    OBVIOUS
  <2>4. /\ archive \in [Parts -> {"none", "hole", "data"}]
        /\ victim \in [Calls -> Dirs \cup {NoDir}]
    OBVIOUS
  <2>5. QED
    BY <2>2, <2>3, <2>4 DEF TypeOK
<1>2. Contents /\ Published /\ LegacyUnmarked /\ NoTempLeft
  BY DEF Contents, Published, Settled, LegacyUnmarked, NoTempLeft
<1>3. DamageNeedsRemoval /\ OkLasts
  BY DEF DamageNeedsRemoval, OkLasts
<1>4. Alone
  BY DEF Alone, InProgress
<1>5. QED
  BY <1>1, <1>2, <1>3, <1>4 DEF IInv

\* Every step keeps each variable within its type.
LEMMA TypeStep == TypeOK /\ [Next]_vars => TypeOK'
<1> SUFFICES ASSUME TypeOK, [Next]_vars PROVE TypeOK'
  OBVIOUS
<1> USE PayloadAssumption DEF TypeOK, Goto, Move, Files, Parts, Marker, Dirs, Finished, Running
<1>0. SUFFICES ASSUME NEW c \in Calls, Step(c) \/ Fault(c) \/ UNCHANGED vars PROVE TypeOK'
  BY DEF Next, vars
<1>1. CASE Begin(c)
  BY <1>1 DEF Begin
<1>2. CASE Recheck(c)
  BY <1>2 DEF Recheck
<1>3. CASE Probe(c)
  BY <1>3 DEF Probe
<1>4. CASE Create(c)
  BY <1>4 DEF Create
<1>5. CASE WriteBlock(c)
  BY <1>5 DEF WriteBlock
<1>6. CASE Downloaded(c)
  BY <1>6 DEF Downloaded
<1>7. CASE MakeTemp(c)
  BY <1>7 DEF MakeTemp
<1>8. CASE UnpackBlock(c)
  BY <1>8 DEF UnpackBlock, Readable
<1>9. CASE UnpackError(c)
  BY <1>9 DEF UnpackError, Abort
<1>10. CASE Unpacked(c)
  BY <1>10 DEF Unpacked
<1>11. CASE WriteMarker(c)
  BY <1>11 DEF WriteMarker
<1>12. CASE Swap(c)
  BY <1>12 DEF Swap
<1>13. CASE OpenVictim(c)
  BY <1>13 DEF OpenVictim
<1>14. CASE Unlink(c)
  <2>1. PICK f \in dir[victim[c]] : dir' = [dir EXCEPT ![victim[c]] = @ \ {f}]
    BY <1>14 DEF Unlink
  <2>2. dir' \in [Dirs -> SUBSET Files]
    BY <2>1
  <2>3. QED
    BY <1>14, <2>2 DEF Unlink
<1>15. CASE Removed(c)
  BY <1>15 DEF Removed
<1>16. CASE Publish(c)
  BY <1>16 DEF Publish
<1>17. CASE RenameRefused(c)
  BY <1>17 DEF RenameRefused, Abort
<1>18. CASE Fail(c)
  BY <1>18 DEF Fail, Abort
<1>19. CASE RemoveGivesUp(c)
  BY <1>19 DEF RemoveGivesUp
<1>20. CASE Crash(c)
  BY <1>20 DEF Crash
<1>21. CASE UNCHANGED vars
  BY <1>21 DEF vars
<1>22. QED
  BY <1>0, <1>1, <1>2, <1>3, <1>4, <1>5, <1>6, <1>7, <1>8, <1>9, <1>10, <1>11, <1>12, <1>13, <1>14, <1>15, <1>16, <1>17, <1>18, <1>19, <1>20, <1>21 DEF Step, Fault

\* The private directories stay known file by file, whatever other calls remove.
LEMMA ContentsStep ==
    TypeOK /\ Contents /\ Published /\ [Next]_vars => Contents'
<1> SUFFICES ASSUME TypeOK, Contents, Published, [Next]_vars PROVE Contents'
  OBVIOUS
<1> USE PayloadAssumption DEF Contents, Published, Settled, Early, Late, Goto, Move, TypeOK, Files, Parts, Marker, Dirs, Finished, Running
<1>0. SUFFICES ASSUME NEW c \in Calls, Step(c) \/ Fault(c) \/ UNCHANGED vars PROVE Contents'
  BY DEF Next, vars
<1>1. CASE Begin(c)
  BY <1>1 DEF Begin
<1>2. CASE Recheck(c)
  BY <1>2 DEF Recheck
<1>3. CASE Probe(c)
  BY <1>3 DEF Probe
<1>4. CASE Create(c)
  BY <1>4 DEF Create
<1>5. CASE WriteBlock(c)
  BY <1>5 DEF WriteBlock
<1>6. CASE Downloaded(c)
  BY <1>6 DEF Downloaded
<1>7. CASE MakeTemp(c)
  BY <1>7 DEF MakeTemp
<1>8. CASE UnpackBlock(c)
  <2>1. 1..(pos[c] - 1) \cup {pos[c]} = 1..((pos[c] + 1) - 1)
    BY <1>8 DEF UnpackBlock
  <2>2. dir'[c] = 1..(pos'[c] - 1) /\ pc'[c] = "unpack"
    BY <1>8, <2>1 DEF UnpackBlock
  <2>3. \A o \in Calls \ {c} : dir'[o] = dir[o] /\ pos'[o] = pos[o]
    BY <1>8 DEF UnpackBlock
  <2>4. pc' = pc /\ tmp' = tmp
    BY <1>8 DEF UnpackBlock
  <2>5. QED
    BY <2>2, <2>3, <2>4
<1>9. CASE UnpackError(c)
  BY <1>9 DEF UnpackError, Abort
<1>10. CASE Unpacked(c)
  BY <1>10 DEF Unpacked
<1>11. CASE WriteMarker(c)
  BY <1>11 DEF WriteMarker
<1>12. CASE Swap(c)
  BY <1>12 DEF Swap
<1>13. CASE OpenVictim(c)
  BY <1>13 DEF OpenVictim
<1>14. CASE Unlink(c)
  BY <1>14 DEF Unlink
<1>15. CASE Removed(c)
  BY <1>15 DEF Removed
<1>16. CASE Publish(c)
  BY <1>16 DEF Publish
<1>17. CASE RenameRefused(c)
  BY <1>17 DEF RenameRefused, Abort
<1>18. CASE Fail(c)
  BY <1>18 DEF Fail, Abort
<1>19. CASE RemoveGivesUp(c)
  BY <1>19 DEF RemoveGivesUp
<1>20. CASE Crash(c)
  BY <1>20 DEF Crash
<1>21. CASE UNCHANGED vars
  BY <1>21 DEF vars
<1>22. QED
  BY <1>0, <1>1, <1>2, <1>3, <1>4, <1>5, <1>6, <1>7, <1>8, <1>9, <1>10, <1>11, <1>12, <1>13, <1>14, <1>15, <1>16, <1>17, <1>18, <1>19, <1>20, <1>21 DEF Step, Fault

\* Only a call that ends with Ok puts its directory under the final name.
LEMMA PublishedStep ==
    TypeOK /\ Published /\ [Next]_vars => Published'
<1> SUFFICES ASSUME TypeOK, Published, [Next]_vars PROVE Published'
  OBVIOUS
<1> USE PayloadAssumption DEF Published, Settled, Early, Goto, Move, TypeOK, Files, Parts, Marker, Dirs, Finished, Running
<1>0. SUFFICES ASSUME NEW c \in Calls, Step(c) \/ Fault(c) \/ UNCHANGED vars PROVE Published'
  BY DEF Next, vars
<1>1. CASE Begin(c)
  BY <1>1 DEF Begin
<1>2. CASE Recheck(c)
  BY <1>2 DEF Recheck
<1>3. CASE Probe(c)
  BY <1>3 DEF Probe
<1>4. CASE Create(c)
  BY <1>4 DEF Create
<1>5. CASE WriteBlock(c)
  BY <1>5 DEF WriteBlock
<1>6. CASE Downloaded(c)
  BY <1>6 DEF Downloaded
<1>7. CASE MakeTemp(c)
  BY <1>7 DEF MakeTemp
<1>8. CASE UnpackBlock(c)
  BY <1>8 DEF UnpackBlock, Readable
<1>9. CASE UnpackError(c)
  BY <1>9 DEF UnpackError, Abort
<1>10. CASE Unpacked(c)
  BY <1>10 DEF Unpacked
<1>11. CASE WriteMarker(c)
  BY <1>11 DEF WriteMarker
<1>12. CASE Swap(c)
  BY <1>12 DEF Swap
<1>13. CASE OpenVictim(c)
  BY <1>13 DEF OpenVictim
<1>14. CASE Unlink(c)
  BY <1>14 DEF Unlink
<1>15. CASE Removed(c)
  BY <1>15 DEF Removed
<1>16. CASE Publish(c)
  BY <1>16 DEF Publish
<1>17. CASE RenameRefused(c)
  BY <1>17 DEF RenameRefused, Abort
<1>18. CASE Fail(c)
  BY <1>18 DEF Fail, Abort
<1>19. CASE RemoveGivesUp(c)
  BY <1>19 DEF RemoveGivesUp
<1>20. CASE Crash(c)
  BY <1>20 DEF Crash, InProgress
<1>21. CASE UNCHANGED vars
  BY <1>21 DEF vars
<1>22. QED
  BY <1>0, <1>1, <1>2, <1>3, <1>4, <1>5, <1>6, <1>7, <1>8, <1>9, <1>10, <1>11, <1>12, <1>13, <1>14, <1>15, <1>16, <1>17, <1>18, <1>19, <1>20, <1>21 DEF Step, Fault

\* Nobody writes the marker into a directory that was there before.
LEMMA LegacyStep ==
    TypeOK /\ LegacyUnmarked /\ [Next]_vars => LegacyUnmarked'
<1> SUFFICES ASSUME TypeOK, LegacyUnmarked, [Next]_vars PROVE LegacyUnmarked'
  OBVIOUS
<1> USE PayloadAssumption DEF LegacyUnmarked, Goto, Move, TypeOK, Files, Parts, Marker, Dirs, Finished, Running
<1>0. SUFFICES ASSUME NEW c \in Calls, Step(c) \/ Fault(c) \/ UNCHANGED vars PROVE LegacyUnmarked'
  BY DEF Next, vars
<1>1. CASE Begin(c)
  BY <1>1 DEF Begin
<1>2. CASE Recheck(c)
  BY <1>2 DEF Recheck
<1>3. CASE Probe(c)
  BY <1>3 DEF Probe
<1>4. CASE Create(c)
  BY <1>4 DEF Create
<1>5. CASE WriteBlock(c)
  BY <1>5 DEF WriteBlock
<1>6. CASE Downloaded(c)
  BY <1>6 DEF Downloaded
<1>7. CASE MakeTemp(c)
  BY <1>7 DEF MakeTemp
<1>8. CASE UnpackBlock(c)
  BY <1>8 DEF UnpackBlock, Readable
<1>9. CASE UnpackError(c)
  BY <1>9 DEF UnpackError, Abort
<1>10. CASE Unpacked(c)
  BY <1>10 DEF Unpacked
<1>11. CASE WriteMarker(c)
  BY <1>11 DEF WriteMarker
<1>12. CASE Swap(c)
  BY <1>12 DEF Swap
<1>13. CASE OpenVictim(c)
  BY <1>13 DEF OpenVictim
<1>14. CASE Unlink(c)
  BY <1>14 DEF Unlink
<1>15. CASE Removed(c)
  BY <1>15 DEF Removed
<1>16. CASE Publish(c)
  BY <1>16 DEF Publish
<1>17. CASE RenameRefused(c)
  BY <1>17 DEF RenameRefused, Abort
<1>18. CASE Fail(c)
  BY <1>18 DEF Fail, Abort
<1>19. CASE RemoveGivesUp(c)
  BY <1>19 DEF RemoveGivesUp
<1>20. CASE Crash(c)
  BY <1>20 DEF Crash
<1>21. CASE UNCHANGED vars
  BY <1>21 DEF vars
<1>22. QED
  BY <1>0, <1>1, <1>2, <1>3, <1>4, <1>5, <1>6, <1>7, <1>8, <1>9, <1>10, <1>11, <1>12, <1>13, <1>14, <1>15, <1>16, <1>17, <1>18, <1>19, <1>20, <1>21 DEF Step, Fault

\* An installed directory loses files only to a call that set out to remove it.
LEMMA DamageStep ==
    TypeOK /\ Contents /\ Published /\ DamageNeedsRemoval /\ [Next]_vars => DamageNeedsRemoval'
<1> SUFFICES ASSUME TypeOK, Contents, Published, DamageNeedsRemoval, [Next]_vars PROVE DamageNeedsRemoval'
  OBVIOUS
<1> USE PayloadAssumption DEF DamageNeedsRemoval, Contents, Published, Settled, Whole, Early, Late, Goto, Move, TypeOK, Files, Parts, Marker, Dirs, Finished, Running
<1>0. SUFFICES ASSUME NEW c \in Calls, Step(c) \/ Fault(c) \/ UNCHANGED vars PROVE DamageNeedsRemoval'
  BY DEF Next, vars
<1>1. CASE Begin(c)
  BY <1>1 DEF Begin
<1>2. CASE Recheck(c)
  BY <1>2 DEF Recheck
<1>3. CASE Probe(c)
  BY <1>3 DEF Probe
<1>4. CASE Create(c)
  BY <1>4 DEF Create
<1>5. CASE WriteBlock(c)
  BY <1>5 DEF WriteBlock
<1>6. CASE Downloaded(c)
  BY <1>6 DEF Downloaded
<1>7. CASE MakeTemp(c)
  BY <1>7 DEF MakeTemp
<1>8. CASE UnpackBlock(c)
  BY <1>8 DEF UnpackBlock, Readable
<1>9. CASE UnpackError(c)
  BY <1>9 DEF UnpackError, Abort
<1>10. CASE Unpacked(c)
  BY <1>10 DEF Unpacked
<1>11. CASE WriteMarker(c)
  BY <1>11 DEF WriteMarker
<1>12. CASE Swap(c)
  BY <1>12 DEF Swap
<1>13. CASE OpenVictim(c)
  BY <1>13 DEF OpenVictim
<1>14. CASE Unlink(c)
  BY <1>14 DEF Unlink
<1>15. CASE Removed(c)
  BY <1>15 DEF Removed
<1>16. CASE Publish(c)
  BY <1>16 DEF Publish
<1>17. CASE RenameRefused(c)
  BY <1>17 DEF RenameRefused, Abort
<1>18. CASE Fail(c)
  BY <1>18 DEF Fail, Abort
<1>19. CASE RemoveGivesUp(c)
  BY <1>19 DEF RemoveGivesUp
<1>20. CASE Crash(c)
  BY <1>20 DEF Crash
<1>21. CASE UNCHANGED vars
  BY <1>21 DEF vars
<1>22. QED
  BY <1>0, <1>1, <1>2, <1>3, <1>4, <1>5, <1>6, <1>7, <1>8, <1>9, <1>10, <1>11, <1>12, <1>13, <1>14, <1>15, <1>16, <1>17, <1>18, <1>19, <1>20, <1>21 DEF Step, Fault

\* What was there for one success is there for all, short of a removal.
LEMMA OkStep ==
    TypeOK /\ Contents /\ Published /\ LegacyUnmarked /\ DamageNeedsRemoval /\ OkLasts /\ [Next]_vars => OkLasts'
<1> SUFFICES ASSUME TypeOK, Contents, Published, LegacyUnmarked, DamageNeedsRemoval, OkLasts, [Next]_vars PROVE OkLasts'
  OBVIOUS
<1> USE PayloadAssumption DEF OkLasts, Usable, Marked, LegacyUnmarked, DamageNeedsRemoval, Contents, Published, Settled, Whole, NameIsFree, Early, Late, Goto, Move, TypeOK, Files, Parts, Marker, Dirs, Finished, Running
<1>0. SUFFICES ASSUME NEW c \in Calls, Step(c) \/ Fault(c) \/ UNCHANGED vars PROVE OkLasts'
  BY DEF Next, vars
<1>1. CASE Begin(c)
  BY <1>1 DEF Begin
<1>2. CASE Recheck(c)
  BY <1>2 DEF Recheck
<1>3. CASE Probe(c)
  BY <1>3 DEF Probe
<1>4. CASE Create(c)
  BY <1>4 DEF Create
<1>5. CASE WriteBlock(c)
  BY <1>5 DEF WriteBlock
<1>6. CASE Downloaded(c)
  BY <1>6 DEF Downloaded
<1>7. CASE MakeTemp(c)
  BY <1>7 DEF MakeTemp
<1>8. CASE UnpackBlock(c)
  BY <1>8 DEF UnpackBlock, Readable
<1>9. CASE UnpackError(c)
  BY <1>9 DEF UnpackError, Abort
<1>10. CASE Unpacked(c)
  BY <1>10 DEF Unpacked
<1>11. CASE WriteMarker(c)
  BY <1>11 DEF WriteMarker
<1>12. CASE Swap(c)
  BY <1>12 DEF Swap
<1>13. CASE OpenVictim(c)
  BY <1>13 DEF OpenVictim
<1>14. CASE Unlink(c)
  BY <1>14 DEF Unlink
<1>15. CASE Removed(c)
  BY <1>15 DEF Removed
<1>16. CASE Publish(c)
  BY <1>16 DEF Publish
<1>17. CASE RenameRefused(c)
  BY <1>17 DEF RenameRefused, Abort
<1>18. CASE Fail(c)
  BY <1>18 DEF Fail, Abort
<1>19. CASE RemoveGivesUp(c)
  BY <1>19 DEF RemoveGivesUp
<1>20. CASE Crash(c)
  BY <1>20 DEF Crash
<1>21. CASE UNCHANGED vars
  BY <1>21 DEF vars
<1>22. QED
  BY <1>0, <1>1, <1>2, <1>3, <1>4, <1>5, <1>6, <1>7, <1>8, <1>9, <1>10, <1>11, <1>12, <1>13, <1>14, <1>15, <1>16, <1>17, <1>18, <1>19, <1>20, <1>21 DEF Step, Fault

\* A private directory goes with its call.
LEMMA TempStep ==
    TypeOK /\ Contents /\ NoTempLeft /\ [Next]_vars => NoTempLeft'
<1> SUFFICES ASSUME TypeOK, Contents, NoTempLeft, [Next]_vars PROVE NoTempLeft'
  OBVIOUS
<1> USE PayloadAssumption DEF NoTempLeft, InProgress, Contents, Early, Late, Goto, Move, TypeOK, Files, Parts, Marker, Dirs, Finished, Running
<1>0. SUFFICES ASSUME NEW c \in Calls, Step(c) \/ Fault(c) \/ UNCHANGED vars PROVE NoTempLeft'
  BY DEF Next, vars
<1>1. CASE Begin(c)
  BY <1>1 DEF Begin
<1>2. CASE Recheck(c)
  BY <1>2 DEF Recheck
<1>3. CASE Probe(c)
  BY <1>3 DEF Probe
<1>4. CASE Create(c)
  BY <1>4 DEF Create
<1>5. CASE WriteBlock(c)
  BY <1>5 DEF WriteBlock
<1>6. CASE Downloaded(c)
  BY <1>6 DEF Downloaded
<1>7. CASE MakeTemp(c)
  BY <1>7 DEF MakeTemp
<1>8. CASE UnpackBlock(c)
  BY <1>8 DEF UnpackBlock, Readable
<1>9. CASE UnpackError(c)
  BY <1>9 DEF UnpackError, Abort
<1>10. CASE Unpacked(c)
  BY <1>10 DEF Unpacked
<1>11. CASE WriteMarker(c)
  BY <1>11 DEF WriteMarker
<1>12. CASE Swap(c)
  BY <1>12 DEF Swap
<1>13. CASE OpenVictim(c)
  BY <1>13 DEF OpenVictim
<1>14. CASE Unlink(c)
  BY <1>14 DEF Unlink
<1>15. CASE Removed(c)
  BY <1>15 DEF Removed
<1>16. CASE Publish(c)
  BY <1>16 DEF Publish
<1>17. CASE RenameRefused(c)
  BY <1>17 DEF RenameRefused, Abort
<1>18. CASE Fail(c)
  BY <1>18 DEF Fail, Abort
<1>19. CASE RemoveGivesUp(c)
  BY <1>19 DEF RemoveGivesUp
<1>20. CASE Crash(c)
  BY <1>20 DEF Crash
<1>21. CASE UNCHANGED vars
  BY <1>21 DEF vars
<1>22. QED
  BY <1>0, <1>1, <1>2, <1>3, <1>4, <1>5, <1>6, <1>7, <1>8, <1>9, <1>10, <1>11, <1>12, <1>13, <1>14, <1>15, <1>16, <1>17, <1>18, <1>19, <1>20, <1>21 DEF Step, Fault

\* Calls that do not overlap remove nothing that was published.
LEMMA AloneStep ==
    TypeOK /\ Contents /\ Published /\ LegacyUnmarked /\ DamageNeedsRemoval /\ Alone /\ [Next]_vars => Alone'
<1> SUFFICES ASSUME TypeOK, Contents, Published, LegacyUnmarked, DamageNeedsRemoval, Alone, [Next]_vars PROVE Alone'
  OBVIOUS
<1> USE PayloadAssumption DEF Alone, InProgress, Marked, LegacyUnmarked, DamageNeedsRemoval, Contents, Published, Settled, Whole, NameIsFree, Early, Late, Goto, Move, TypeOK, Files, Parts, Marker, Dirs, Finished, Running
<1>0. SUFFICES ASSUME NEW c \in Calls, Step(c) \/ Fault(c) \/ UNCHANGED vars PROVE Alone'
  BY DEF Next, vars
<1>1. CASE Begin(c)
  BY <1>1 DEF Begin
<1>2. CASE Recheck(c)
  BY <1>2 DEF Recheck
<1>3. CASE Probe(c)
  BY <1>3 DEF Probe
<1>4. CASE Create(c)
  BY <1>4 DEF Create
<1>5. CASE WriteBlock(c)
  BY <1>5 DEF WriteBlock
<1>6. CASE Downloaded(c)
  BY <1>6 DEF Downloaded
<1>7. CASE MakeTemp(c)
  BY <1>7 DEF MakeTemp
<1>8. CASE UnpackBlock(c)
  BY <1>8 DEF UnpackBlock, Readable
<1>9. CASE UnpackError(c)
  BY <1>9 DEF UnpackError, Abort
<1>10. CASE Unpacked(c)
  BY <1>10 DEF Unpacked
<1>11. CASE WriteMarker(c)
  BY <1>11 DEF WriteMarker
<1>12. CASE Swap(c)
  BY <1>12 DEF Swap
<1>13. CASE OpenVictim(c)
  BY <1>13 DEF OpenVictim
<1>14. CASE Unlink(c)
  BY <1>14 DEF Unlink
<1>15. CASE Removed(c)
  BY <1>15 DEF Removed
<1>16. CASE Publish(c)
  BY <1>16 DEF Publish
<1>17. CASE RenameRefused(c)
  BY <1>17 DEF RenameRefused, Abort
<1>18. CASE Fail(c)
  BY <1>18 DEF Fail, Abort
<1>19. CASE RemoveGivesUp(c)
  BY <1>19 DEF RemoveGivesUp
<1>20. CASE Crash(c)
  BY <1>20 DEF Crash
<1>21. CASE UNCHANGED vars
  BY <1>21 DEF vars
<1>22. QED
  BY <1>0, <1>1, <1>2, <1>3, <1>4, <1>5, <1>6, <1>7, <1>8, <1>9, <1>10, <1>11, <1>12, <1>13, <1>14, <1>15, <1>16, <1>17, <1>18, <1>19, <1>20, <1>21 DEF Step, Fault

-----------------------------------------------------------------------------

\* The parts together are inductive.
LEMMA IInvStep == IInv /\ [Next]_vars => IInv'
  BY TypeStep, ContentsStep, PublishedStep, LegacyStep, DamageStep, OkStep,
     TempStep, AloneStep DEF IInv

\* The inductive invariant holds of every behaviour.
LEMMA Invariance == Spec => []IInv
<1>1. Init => IInv
  BY InitIInv
<1>2. IInv /\ [Next]_vars => IInv'
  BY IInvStep
<1>3. QED
  BY <1>1, <1>2, PTL DEF Spec

\* Every variable keeps its type: no write goes past the end of the archive, no
\* directory holds a file that is not in it.
THEOREM TypeCorrect == Spec => []TypeOK
  BY Invariance, PTL DEF IInv

\* A damaged installation under the final name was always left by a removal
\* (payload.rs:115-117), never by an unpacking, however the calls interleave
\* and fail.
THEOREM DamageNeedsRemovalHolds == Spec => []DamageNeedsRemoval
  BY Invariance, PTL DEF IInv

\* A successful call's binaries stay unless a later step of another call sets
\* out to remove a directory that was already published (payload.rs:32, 115).
THEOREM OkLastsHolds == Spec => []OkLasts
  BY Invariance, PTL DEF IInv

\* Only a crash leaves a .extract-XXXX directory behind (payload.rs:94, 128).
THEOREM NoTempLeftHolds == Spec => []NoTempLeft
  BY Invariance, PTL DEF IInv

\* Whatever appears under the final name is whole (payload.rs:107-119).
THEOREM PublishesWholeHolds == Spec => PublishesWhole
<1> DEFINE Whole2 == install' # install /\ install' # NoDir => dir'[install'] = Files
<1>1. ASSUME IInv, [Next]_vars PROVE Whole2
  <2>1. SUFFICES ASSUME install' # install, install' # NoDir PROVE dir'[install'] = Files
    OBVIOUS
  <2>2. PICK c \in Calls : Step(c) \/ Fault(c)
    BY <1>1, <2>1 DEF Next, vars
  <2>3. Publish(c)
    BY <2>1, <2>2 DEF Step, Fault, Goto, Move, Begin, Recheck, Probe, Create, WriteBlock,
       Downloaded, MakeTemp, UnpackBlock, UnpackError, Abort, Unpacked, WriteMarker,
       Swap, OpenVictim, Unlink, Removed, RenameRefused, Fail, RemoveGivesUp, Crash
  <2>4. pc[c] = "rename" /\ install' = c /\ dir' = dir
    BY <2>3 DEF Publish, Goto, Move
  <2>5. QED
    BY <1>1, <2>4 DEF IInv, Contents, Late
<1>2. IInv /\ [Next]_vars => [Whole2]_vars
  BY <1>1
<1>3. QED
  BY <1>2, Invariance, PTL DEF Spec, PublishesWhole

-----------------------------------------------------------------------------
(* When the calls do not overlap.                                           *)

\* The invariant says more of a state in which no victim was published.
LEMMA SerialState ==
    ASSUME Serial, IInv
    PROVE  MarkerMeansWhole /\ OkMeansUsable
<1>1. \A c \in Calls : victim[c] \notin Calls
  BY DEF IInv, Alone
<1>2. MarkerMeansWhole
  <2>1. SUFFICES ASSUME Marked PROVE Whole(install)
    BY DEF MarkerMeansWhole
  <2>2. install \in Calls
    BY <2>1 DEF IInv, LegacyUnmarked, Published, Settled, Marked
  <2>3. QED
    BY <1>1, <2>1, <2>2, PayloadAssumption DEF IInv, DamageNeedsRemoval, Marked
<1>3. OkMeansUsable
  BY <1>1 DEF IInv, OkLasts, OkMeansUsable
<1>4. QED
  BY <1>2, <1>3

\* Without overlap the marker stands for a whole installation, also after any
\* errors and crashes (payload.rs:8-10, 111).
THEOREM MarkerMeansWholeHolds == ASSUME Serial PROVE Spec => []MarkerMeansWhole
<1>1. IInv => MarkerMeansWhole
  BY SerialState
<1>2. QED
  BY <1>1, Invariance, PTL

\* Without overlap a success is for good (payload.rs:12-135).
THEOREM OkMeansUsableHolds == ASSUME Serial PROVE Spec => []OkMeansUsable
<1>1. IInv => OkMeansUsable
  BY SerialState
<1>2. QED
  BY <1>1, Invariance, PTL

-----------------------------------------------------------------------------
(* When nothing fails, the calls harm one another at most.                  *)

\* A block that is missing in the archive has a writer who will come to it.
Refilled ==
    cached => \A b \in Parts : archive[b] # "data" =>
                  \E c \in Calls : pc[c] = "download" /\ pos[c] <= b

\* No other call has begun.
LoneCall(c) == \A o \in Calls \ {c} : pc[o] = "idle"

\* The only call that has begun finds what it left, and nothing in its way.
Undisturbed ==
    \A c \in Calls : LoneCall(c) =>
        /\ pc[c] # "err"
        /\ pc[c] \in {"download", "tempdir", "unpack"} /\ c \notin Given => cached
        /\ pc[c] = "remove" => install = victim[c]
        /\ pc[c] = "rename" => NameIsFree

\* Truncating the archive is followed by writing it, and nobody stops half way.
LEMMA RefilledStep ==
    ASSUME ~Faults, TypeOK, Refilled, [Next]_vars
    PROVE  Refilled'
<1> USE PayloadAssumption DEF TypeOK, Parts
<1>1. CASE UNCHANGED vars
  BY <1>1 DEF Refilled, vars
<1>2. ASSUME NEW c \in Calls, Step(c) PROVE Refilled'
  <2>1. CASE Create(c)
    <3>1. pc'[c] = "download" /\ pos'[c] = 1
      BY <2>1 DEF Create, Goto
    <3>2. QED
      BY <3>1 DEF Refilled
  <2>2. CASE WriteBlock(c)
    <3>1. pc' = pc /\ cached' = cached /\ pos' = [pos EXCEPT ![c] = @ + 1]
      BY <2>2 DEF WriteBlock
    <3>2. SUFFICES ASSUME cached, NEW b \in Parts, archive'[b] # "data"
                   PROVE  \E o \in Calls : pc[o] = "download" /\ pos'[o] <= b
      BY <3>1 DEF Refilled
    <3>3. archive[b] # "data" /\ b # pos[c]
      BY <2>2, <3>2 DEF WriteBlock
    <3>4. PICK o \in Calls : pc[o] = "download" /\ pos[o] <= b
      BY <3>2, <3>3 DEF Refilled
    <3>5. QED
      BY <3>1, <3>3, <3>4
  <2>3. CASE Downloaded(c)
    <3>1. /\ \A o \in Calls \ {c} : pc'[o] = pc[o]
          /\ pos' = pos /\ cached' = cached /\ archive' = archive
      BY <2>3 DEF Downloaded, Move, Goto
    <3>2. \A b \in Parts : ~(pos[c] <= b)
      BY <2>3 DEF Downloaded
    <3>3. QED
      BY <3>1, <3>2 DEF Refilled
  <2>4. CASE MakeTemp(c) \/ UnpackBlock(c)
    BY <2>4 DEF Refilled, MakeTemp, UnpackBlock, Goto
  <2>5. ASSUME \/ Begin(c) \/ Recheck(c) \/ Probe(c) \/ Unpacked(c)
               \/ UnpackError(c) \/ WriteMarker(c) \/ Swap(c) \/ OpenVictim(c)
               \/ Unlink(c) \/ Removed(c) \/ Publish(c) \/ RenameRefused(c)
        PROVE  Refilled'
    <3>1. /\ \A o \in Calls \ {c} : pc'[o] = pc[o]
          /\ pos' = pos /\ cached' = cached /\ archive' = archive
          /\ pc[c] # "download"
      BY <2>5 DEF Begin, Recheck, Probe, Unpacked, UnpackError, WriteMarker, Swap,
         OpenVictim, Unlink, Removed, Publish, RenameRefused, Abort, Move, Goto
    <3>2. QED
      BY <3>1 DEF Refilled
  <2>6. QED
    BY <1>2, <2>1, <2>2, <2>3, <2>4, <2>5 DEF Step
<1>3. QED
  BY <1>1, <1>2 DEF Next, Fault, Fail, RemoveGivesUp, Crash

\* The archive at rest is a whole one as long as nothing fails, however many
\* calls download it at once (payload.rs:49-86).
THEOREM CachedArchiveIsWholeHolds == ASSUME ~Faults PROVE Spec => []CachedArchiveIsWhole
<1>1. Init => Refilled
  BY DEF Init, Refilled
<1>2. IInv /\ Refilled /\ [Next]_vars => Refilled'
  BY RefilledStep DEF IInv
<1>3. Refilled => CachedArchiveIsWhole
  BY DEF Refilled, CachedArchiveIsWhole, InProgress, Running
<1>4. QED
  BY <1>1, <1>2, <1>3, Invariance, PTL DEF Spec

\* What the only call that has begun does is not disturbed.
LEMMA UndisturbedStep ==
    ASSUME ~Faults, TypeOK, Refilled, Published, Undisturbed, [Next]_vars
    PROVE  Undisturbed'
<1> USE PayloadAssumption DEF TypeOK
<1>1. CASE UNCHANGED vars
  BY <1>1 DEF Undisturbed, LoneCall, NameIsFree, vars
<1>2. ASSUME NEW c \in Calls, Step(c) PROVE Undisturbed'
  <2> USE DEF Move, Goto
  <2>1. \A o \in Calls \ {c} : pc'[o] = pc[o]
    BY <1>2 DEF Step, Begin, Recheck, Probe, Create, WriteBlock, Downloaded, MakeTemp,
       UnpackBlock, UnpackError, Unpacked, WriteMarker, Swap, OpenVictim, Unlink, Removed,
       Publish, RenameRefused, Abort
  <2>2. pc'[c] # "idle"
    BY <1>2 DEF Step, Begin, Recheck, Probe, Create, WriteBlock, Downloaded, MakeTemp,
       UnpackBlock, UnpackError, Unpacked, WriteMarker, Swap, OpenVictim, Unlink, Removed,
       Publish, RenameRefused, Abort
  <2>3. SUFFICES ASSUME LoneCall(c)
                 PROVE  /\ pc'[c] # "err"
                        /\ pc'[c] \in {"download", "tempdir", "unpack"} /\ c \notin Given => cached'
                        /\ pc'[c] = "remove" => install' = victim'[c]
                        /\ pc'[c] = "rename" => NameIsFree'
    BY <2>1, <2>2 DEF Undisturbed, LoneCall
  <2> USE <2>3 DEF Undisturbed, NameIsFree
  <2>4. CASE Begin(c) \/ Recheck(c) \/ Probe(c) \/ Create(c) \/ WriteBlock(c)
    BY <2>4 DEF Begin, Recheck, Probe, Create, WriteBlock
  <2>5. CASE Downloaded(c) \/ MakeTemp(c) \/ UnpackBlock(c) \/ Unpacked(c) \/ WriteMarker(c)
    BY <2>5 DEF Downloaded, MakeTemp, UnpackBlock, Unpacked, WriteMarker
  <2>6. ~UnpackError(c)
    <3>1. \A o \in Calls : pc[o] = "download" => o = c
      BY DEF LoneCall
    <3>2. pc[c] = "unpack" /\ c \notin Given => \A b \in Parts : archive[b] = "data"
      BY <3>1 DEF Refilled
    <3>3. QED
      BY <3>2 DEF UnpackError, Readable
  <2>7. CASE Swap(c) \/ OpenVictim(c) \/ Unlink(c) \/ Publish(c)
    BY <2>7 DEF Swap, OpenVictim, Unlink, Publish
  <2>8. CASE Removed(c)
    BY <2>8 DEF Removed
  <2>9. ~RenameRefused(c)
    BY DEF RenameRefused
  <2>10. QED
    BY <1>2, <2>4, <2>5, <2>6, <2>7, <2>8, <2>9 DEF Step
<1>3. QED
  BY <1>1, <1>2 DEF Next, Fault, Fail, RemoveGivesUp, Crash

\* A call that fails is not the only one that has begun.
OnlyCallSucceeds ==
    \A c \in Calls : pc[c] = "err" => \E o \in Calls \ {c} : pc[o] # "idle"

\* Without faults a call fails only when another one has begun too: on a cache
\* that nobody else uses, extract_payload succeeds (payload.rs:12-135).
THEOREM OnlyCallSucceedsHolds == ASSUME ~Faults PROVE Spec => []OnlyCallSucceeds
<1>1. Init => Refilled /\ Undisturbed
  BY DEF Init, Refilled, Undisturbed
<1>2. IInv /\ Refilled /\ Undisturbed /\ [Next]_vars => Refilled' /\ Undisturbed'
  BY RefilledStep, UndisturbedStep DEF IInv
<1>3. Undisturbed => OnlyCallSucceeds
  BY DEF Undisturbed, LoneCall, OnlyCallSucceeds
<1>4. QED
  BY <1>1, <1>2, <1>3, Invariance, PTL DEF Spec

-----------------------------------------------------------------------------
(* The refinement.                                                          *)

\* A call's result is its place, seen from outside.
LEMMA ResultOf ==
    /\ Result("ok") = "ok" /\ Result("err") = "failed" /\ Result("crashed") = "failed"
    /\ Result("idle") = "pending"
    /\ \A p \in Running : Result(p) = "pending"
  BY DEF Result, Running

\* A call that stays where it is, or goes on, has no result yet; one that ends
\* gets the result of its end.
LEMMA OutcomeStep ==
    ASSUME TypeOK, NEW c \in Calls, NEW p \in Finished \cup Running,
           pc[c] \in {"idle"} \cup Running, pc' = [pc EXCEPT ![c] = p]
    PROVE  /\ Outcome[c] = "pending"
           /\ Outcome' = [Outcome EXCEPT ![c] = Result(p)]
  <1>1. Outcome[c] = "pending"
    BY ResultOf DEF Outcome
  <1>2. Outcome' = [Outcome EXCEPT ![c] = Result(p)]
    BY DEF Outcome, TypeOK
  <1>3. QED
    BY <1>1, <1>2

\* A call that fails deletes its own directory, which is not the installed one.
LEMMA AbortKeepsUsable ==
    ASSUME IInv, NEW c \in Calls, pc[c] \in Running, Abort(c)
    PROVE  Usable' = Usable
<1>1. install' = install
  BY DEF Abort
<1>2. install # NoDir => install \in Dirs /\ install # c
  BY PayloadAssumption DEF IInv, TypeOK, Published, Settled, Dirs, Running
<1>3. install # NoDir => dir'[install] = dir[install]
  BY <1>2 DEF Abort, IInv, TypeOK
<1>4. QED
  BY <1>1, <1>3 DEF Usable, Whole

\* Without overlap the binaries come with a success and stay.
LEMMA UsableStep ==
    ASSUME Serial, IInv, IInv', [Next]_vars, Usable' # Usable
    PROVE  Usable' /\ \E c \in Calls : Publish(c)
<1> USE PayloadAssumption DEF Usable, Whole, Marked, IInv, Alone, Contents, Published, Settled,
        LegacyUnmarked, Goto, Move, TypeOK, Files, Parts, Marker, Dirs, Finished, Running, Early, Late
<1>0. PICK c \in Calls : Step(c) \/ Fault(c)
  BY DEF Next, vars
<1>1. ~Begin(c)
  BY DEF Begin
<1>2. ~Recheck(c)
  BY DEF Recheck
<1>3. ~Probe(c)
  BY DEF Probe
<1>4. ~Create(c)
  BY DEF Create
<1>5. ~WriteBlock(c)
  BY DEF WriteBlock
<1>6. ~Downloaded(c)
  BY DEF Downloaded
<1>7. ~MakeTemp(c)
  BY DEF MakeTemp
<1>8. ~UnpackBlock(c)
  BY SMTT(60) DEF UnpackBlock, Readable
<1>9. ~UnpackError(c)
  BY AbortKeepsUsable DEF UnpackError
<1>10. ~Unpacked(c)
  BY DEF Unpacked
<1>11. ~WriteMarker(c)
  BY DEF WriteMarker
<1>12. ~Swap(c)
  BY DEF Swap
<1>13. ~OpenVictim(c)
  BY DEF OpenVictim
<1>14. ~Unlink(c)
  BY DEF Unlink
<1>15. ~Removed(c)
  BY DEF Removed
<1>16. CASE Publish(c)
  <2>1. install' = c /\ dir'[c] = Files
    BY <1>16 DEF Publish
  <2>2. Usable'
    BY <2>1
  <2>3. QED
    BY <1>16, <2>2
<1>17. ~RenameRefused(c)
  BY AbortKeepsUsable DEF RenameRefused
<1>18. ~Fail(c)
  BY AbortKeepsUsable DEF Fail
<1>19. ~RemoveGivesUp(c)
  BY DEF RemoveGivesUp
<1>20. ~Crash(c)
  BY DEF Crash
<1>21. QED
  BY <1>0, <1>1, <1>2, <1>3, <1>4, <1>5, <1>6, <1>7, <1>8, <1>9, <1>10, <1>11, <1>12, <1>13, <1>14, <1>15, <1>16, <1>17, <1>18, <1>19, <1>20 DEF Step, Fault

\* Only the successful end of a call changes what the promise speaks of.
LEMMA PromiseStep ==
    ASSUME Serial, IInv, IInv', [Next]_vars
    PROVE  [Promise!Next]_<<Usable, Outcome>>
<1>1. CASE UNCHANGED vars
  <2>1. pc' = pc /\ dir' = dir /\ install' = install
    BY <1>1 DEF vars
  <2>2. QED
    BY <2>1 DEF Usable, Whole, Outcome
<1>2. CASE \E c \in Calls : Step(c) \/ Fault(c)
  <2>1. PICK c \in Calls : Step(c) \/ Fault(c)
    BY <1>2
  <2>2. CASE pc' = pc
    <3>1. Outcome' = Outcome
      BY <2>2 DEF Outcome
    <3>2. Usable' = Usable
      <4>1. \A o \in Calls : ~Publish(o)
        BY <2>2 DEF Publish, Goto, Move, IInv, TypeOK
      <4>2. QED
        BY <4>1, UsableStep
    <3>3. QED
      BY <3>1, <3>2
  <2>3. CASE pc' # pc
    <3>1. PICK p \in Finished \cup Running : pc' = [pc EXCEPT ![c] = p]
      BY <2>1, <2>3 DEF Step, Fault, Begin, Recheck, Probe, Create, WriteBlock,
         Downloaded, MakeTemp, UnpackBlock, UnpackError, Abort, Unpacked, WriteMarker,
         Swap, OpenVictim, Unlink, Removed, Publish, RenameRefused, Fail, RemoveGivesUp,
         Crash, Goto, Move, Finished, Running
    <3>2. pc[c] \in {"idle"} \cup Running /\ p # "idle"
      BY <2>1, <2>3, <3>1 DEF Step, Fault, Begin, Recheck, Probe, Create, WriteBlock,
         Downloaded, MakeTemp, UnpackBlock, UnpackError, Abort, Unpacked, WriteMarker,
         Swap, OpenVictim, Unlink, Removed, Publish, RenameRefused, Fail, RemoveGivesUp,
         Crash, Goto, Move, InProgress, Finished, Running, IInv, TypeOK
    <3>3. Outcome[c] = "pending" /\ Outcome' = [Outcome EXCEPT ![c] = Result(p)]
      BY <3>1, <3>2, OutcomeStep DEF IInv
    <3>4. CASE p = "ok"
      <4>1. Usable'
        <5>1. OkMeansUsable'
          BY SerialState, PTL
        <5>2. pc'[c] = "ok"
          BY <3>1, <3>4 DEF IInv, TypeOK
        <5>3. QED
          BY <5>1, <5>2 DEF OkMeansUsable
      <4>2. Promise!Succeed(c)
        BY <3>3, <3>4, <4>1, ResultOf DEF Promise!Succeed
      <4>3. QED
        BY <4>2 DEF Promise!Next
    <3>5. CASE p # "ok"
      <4>1. Usable' = Usable
        <5>1. \A o \in Calls : ~Publish(o)
          BY <3>1, <3>2, <3>5 DEF Publish, Goto, Move, IInv, TypeOK, Running
        <5>2. QED
          BY <5>1, UsableStep
      <4>2. CASE p \in Running
        <5>1. Outcome' = Outcome
          BY <3>3, <4>2, ResultOf DEF Outcome
        <5>2. QED
          BY <4>1, <5>1
      <4>3. CASE p \in {"err", "crashed"}
        <5>1. Promise!Fail(c)
          BY <3>3, <4>1, <4>3, ResultOf DEF Promise!Fail
        <5>2. QED
          BY <5>1 DEF Promise!Next
      <4>4. QED
        BY <3>2, <3>5, <4>2, <4>3 DEF Finished
    <3>6. QED
      BY <3>4, <3>5
  <2>4. QED
    BY <2>2, <2>3
<1>3. QED
  BY <1>1, <1>2 DEF Next

\* Calls that do not overlap keep the promise: a success installs the binaries,
\* nothing takes them away, an error or a crash changes nothing a caller can see
\* (payload.rs:12-135).
THEOREM ImplementsPromiseHolds == ASSUME Serial PROVE Spec => ImplementsPromise
<1>1. Init => Promise!Init
  <2>1. SUFFICES ASSUME Init PROVE Usable = FALSE /\ Outcome = [c \in Calls |-> "pending"]
    BY DEF Promise!Init
  <2>2. Usable = FALSE
    BY <2>1, InitIInv DEF Init, IInv, LegacyUnmarked, Usable, Whole, Files
  <2>3. Outcome = [c \in Calls |-> "pending"]
    BY <2>1, ResultOf DEF Init, Outcome
  <2>4. QED
    BY <2>2, <2>3
<1>2. IInv /\ IInv' /\ [Next]_vars => [Promise!Next]_<<Usable, Outcome>>
  BY PromiseStep
<1>3. QED
  BY <1>1, <1>2, Invariance, PTL DEF Spec, ImplementsPromise, Promise!Spec

=============================================================================
