----------------------------- MODULE SyncProofs -----------------------------
(* Theorems about Sync, for any tables, clients and bounds.                  *)
EXTENDS Sync, TLAPS

USE SyncAssumption DEF SyncAssumption

-----------------------------------------------------------------------------
(* Type correctness, with what it rests on: nothing is connected to a server *)
(* that does not run.                                                        *)

LEMMA InitTypes == Init => TypeOK
<1> SUFFICES ASSUME Init PROVE TypeOK
  OBVIOUS
<1> USE DEF Init
<1>1. wal \in 0..MaxCommits /\ runs \in 0..MaxRuns /\ since \in 0..wal
  OBVIOUS
<1>2. result \in [Kinds -> {"never", "ok", "refused", "fault"}]
  OBVIOUS
<1>3. position \in [Clients -> 0..wal] /\ link \in [Clients -> {"away", "null", "known"}]
  OBVIOUS
<1>4. cmd \in Kinds
  BY DEF Kinds
<1> QED
  BY <1>1, <1>2, <1>3, <1>4 DEF TypeOK

LEMMA NextTypes == TypeOK /\ [Next]_vars => TypeOK'
<1> SUFFICES ASSUME TypeOK, [Next]_vars
             PROVE  TypeOK'
  OBVIOUS
<1> USE DEF TypeOK, Kinds, Statements, vars, command, catalog, schema, clients, report
<1>0. CASE UNCHANGED vars
  BY <1>0
<1>1. CASE Start
  BY <1>1 DEF Start
<1>2. CASE Connect
  BY <1>2 DEF Connect, First
<1>3. ASSUME NEW how \in {"ok", "refused", "fault"}, Ends(how)
      PROVE  TypeOK'
  BY <1>3 DEF Ends
<1>4. CASE Stop \/ Fault
  BY <1>3, <1>4 DEF Stop, Fault
<1>5. CASE CreateExtension
  BY <1>5 DEF CreateExtension, Goto
<1>6. CASE NodeCreate
  BY <1>3, <1>6 DEF NodeCreate, Goto
<1>7. CASE RepsetCreate
  BY <1>7 DEF RepsetCreate, Goto
<1>8. CASE AddAllTables
  BY <1>3, <1>8 DEF AddAllTables, Goto
<1>9. CASE SubCreate
  BY <1>3, <1>9 DEF SubCreate, Goto
<1>10. CASE ReadSubscriptions
  BY <1>10 DEF ReadSubscriptions
<1>11. CASE ReadReplication
  BY <1>11 DEF ReadReplication, ReadReplicationWith
<1>12. CASE CreateTable
  BY <1>12 DEF CreateTable, others, Up
<1>13. CASE OthersCommit
  BY <1>13 DEF OthersCommit, others, Up
<1>14. CASE SubChanges
  BY <1>14 DEF SubChanges, others, Up
<1>15. ASSUME NEW c \in Clients, LinkChanges(c)
       PROVE  TypeOK'
  BY <1>15 DEF LinkChanges, others, Up
<1>16. ASSUME NEW c \in Clients, Confirms(c)
       PROVE  TypeOK'
  BY <1>16 DEF Confirms, others, Up
<1> QED
  BY <1>0, <1>1, <1>2, <1>4, <1>5, <1>6, <1>7, <1>8, <1>9, <1>10, <1>11, <1>12,
     <1>13, <1>14, <1>15, <1>16 DEF Next

\* Every reachable state is one the types allow.
THEOREM TypeCorrect == Spec => []TypeOK
BY InitTypes, NextTypes, PTL DEF Spec

-----------------------------------------------------------------------------
(* Success means done.  While a command is at db.stop(), the effect of its    *)
(* last statement is there; it is what makes OkMeansDone inductive.           *)

DoneAtStop ==
    /\ node => extension
    /\ pc = "node_create" => extension
    /\ pc = "stop" /\ cmd = "init" => node
    /\ pc = "stop" /\ cmd = "publish" => repset
    /\ pc = "stop" /\ cmd = "subscribe" => node /\ sub # "none"
    /\ pc \in {"create_extension", "node_create"} => cmd = "init"
    /\ pc \in {"repset_create", "add_all_tables"} => cmd = "publish"
    /\ pc = "sub_create" => cmd = "subscribe"
    /\ pc \in {"read_subscriptions", "read_replication"} => cmd = "status"
    /\ repset => node

DoneInv == TypeOK /\ DoneAtStop /\ OkMeansDone

LEMMA InitDone == Init => DoneInv
BY InitTypes DEF Init, DoneInv, DoneAtStop, OkMeansDone, Kinds

LEMMA NextDone == DoneInv /\ [Next]_vars => DoneInv'
<1> SUFFICES ASSUME DoneInv, [Next]_vars
             PROVE  DoneAtStop' /\ OkMeansDone'
  BY NextTypes DEF DoneInv
<1> USE DEF DoneInv, DoneAtStop, OkMeansDone, TypeOK, Kinds, Statements,
            vars, command, catalog, schema, clients, report
<1>0. CASE UNCHANGED vars
  BY <1>0
<1>1. CASE Start
  BY <1>1 DEF Start
<1>2. CASE Connect
  BY <1>2 DEF Connect, First
<1>3. ASSUME NEW how \in {"refused", "fault"}, Ends(how)
      PROVE  DoneAtStop' /\ OkMeansDone'
  BY <1>3 DEF Ends
<1>4. CASE Stop
  BY <1>4 DEF Stop, Ends
<1>5. CASE Fault
  BY <1>3, <1>5 DEF Fault
<1>6. CASE CreateExtension
  BY <1>6 DEF CreateExtension, Goto
<1>7. CASE NodeCreate
  BY <1>3, <1>7 DEF NodeCreate, Goto
<1>8. CASE RepsetCreate
  BY <1>8 DEF RepsetCreate, Goto
<1>9. CASE AddAllTables
  BY <1>3, <1>9 DEF AddAllTables, Goto
<1>10. CASE SubCreate
  BY <1>3, <1>10 DEF SubCreate, Goto
<1>11. CASE ReadSubscriptions
  BY <1>11 DEF ReadSubscriptions
<1>12. CASE ReadReplication
  BY <1>12 DEF ReadReplication, ReadReplicationWith
<1>13. CASE CreateTable
  BY <1>13 DEF CreateTable, others, Up
<1>14. CASE OthersCommit
  BY <1>14 DEF OthersCommit, others, Up
<1>15. CASE SubChanges
  BY <1>15 DEF SubChanges, others, Up
<1>16. ASSUME NEW c \in Clients, LinkChanges(c) \/ Confirms(c)
       PROVE  DoneAtStop' /\ OkMeansDone'
  BY <1>16 DEF LinkChanges, Confirms, others, Up
<1> QED
  BY <1>0, <1>1, <1>2, <1>4, <1>5, <1>6, <1>7, <1>8, <1>9, <1>10, <1>11, <1>12,
     <1>13, <1>14, <1>15, <1>16 DEF Next

\* A command that reported success did what it is for, after any sequence of
\* runs and failures.
THEOREM SuccessMeansDone == Spec => []OkMeansDone
<1>1. DoneInv => OkMeansDone
  BY DEF DoneInv
<1> QED
  BY <1>1, InitDone, NextDone, PTL DEF Spec

-----------------------------------------------------------------------------
(* Refusals.  The extension is made if it is not there, so that an init is    *)
(* only refused by node_create; and there is no node without the extension.   *)

RefusalInv == DoneInv /\ RefusedInitWasDone

LEMMA NextRefusal == RefusalInv /\ [Next]_vars => RefusalInv'
<1> SUFFICES ASSUME RefusalInv, [Next]_vars
             PROVE  RefusedInitWasDone'
  BY NextDone DEF RefusalInv
<1>t. TypeOK /\ DoneAtStop
  BY DEF RefusalInv, DoneInv
<1> USE DEF RefusedInitWasDone, vars, command, catalog, schema, clients, report
<1>0. CASE UNCHANGED vars
  BY <1>0 DEF RefusalInv
<1>1. ASSUME result' = result, extension => extension', node => node'
      PROVE  RefusedInitWasDone'
  BY <1>1 DEF RefusalInv
<1>2. CASE Start \/ Connect \/ CreateExtension \/ RepsetCreate \/ ReadSubscriptions
           \/ ReadReplication
  BY <1>1, <1>2 DEF Start, Connect, CreateExtension, RepsetCreate, ReadSubscriptions,
     ReadReplication, ReadReplicationWith, Goto
<1>3. ASSUME NEW how \in {"ok", "refused", "fault"}, Ends(how),
             (how = "refused" /\ cmd = "init") => node
      PROVE  RefusedInitWasDone'
  <2>1. extension' = extension /\ node' = node
    BY <1>3 DEF Ends
  <2>2. result'.init = "refused" => result.init = "refused" \/ (how = "refused" /\ cmd = "init")
    <3>1. result' = [result EXCEPT ![cmd] = how] /\ cmd \in Kinds /\ "init" \in Kinds
          /\ result \in [Kinds -> {"never", "ok", "refused", "fault"}]
      BY <1>3, <1>t DEF Ends, TypeOK, Kinds
    <3>2. CASE cmd = "init"
      BY <3>1, <3>2
    <3>3. CASE cmd # "init"
      BY <3>1, <3>3
    <3> QED
      BY <3>2, <3>3
  <2>3. node => extension
    BY <1>t DEF DoneAtStop
  <2> QED
    BY <1>3, <2>1, <2>2, <2>3 DEF RefusalInv
<1>4. CASE Stop \/ Fault
  BY <1>3, <1>4 DEF Stop, Fault
<1>5. CASE NodeCreate
  <2>1. CASE node /\ Ends("refused")
    BY <1>3, <2>1
  <2>2. CASE Goto("node_create", "stop") /\ node' = TRUE /\ UNCHANGED <<extension, schema, sub>>
    BY <1>1, <2>2 DEF Goto
  <2> QED
    BY <1>5, <2>1, <2>2 DEF NodeCreate
<1>6. CASE AddAllTables
  <2>1. cmd # "init"
    BY <1>6, <1>t DEF AddAllTables, Goto, DoneAtStop
  <2>2. CASE Ends("refused")
    BY <1>3, <2>1, <2>2
  <2> QED
    BY <1>1, <1>6, <2>2 DEF AddAllTables, Goto
<1>7. CASE SubCreate
  <2>1. cmd # "init"
    BY <1>7, <1>t DEF SubCreate, Goto, DoneAtStop
  <2>2. CASE Ends("refused")
    BY <1>3, <2>1, <2>2
  <2> QED
    BY <1>1, <1>7, <2>2 DEF SubCreate, Goto
<1>8. CASE CreateTable \/ OthersCommit \/ SubChanges
  BY <1>1, <1>8 DEF CreateTable, OthersCommit, SubChanges, others
<1>9. ASSUME NEW c \in Clients, LinkChanges(c) \/ Confirms(c)
      PROVE  RefusedInitWasDone'
  BY <1>1, <1>9 DEF LinkChanges, Confirms, others
<1> QED
  BY <1>0, <1>2, <1>4, <1>5, <1>6, <1>7, <1>8, <1>9 DEF Next

\* After any sequence of runs, faults and lost answers, an init that is refused
\* has been done before: the database has its node and the extension.
THEOREM RefusedInitWasDoneHolds == Spec => []RefusedInitWasDone
<1>1. Init => RefusalInv
  BY InitDone DEF RefusalInv, RefusedInitWasDone, Init, Kinds
<1>2. RefusalInv => RefusedInitWasDone
  BY DEF RefusalInv
<1> QED
  BY <1>1, <1>2, NextRefusal, PTL DEF Spec

-----------------------------------------------------------------------------
(* The report.  While `status` runs, wal only grows and so do the positions;  *)
(* a client whose lag was none had all of it when the lag was read.           *)

SyncInv == TypeOK /\ DoneAtStop /\ OkMeansDone /\ SyncedReport

LEMMA NextReport == SyncInv /\ [Next]_vars => SyncInv'
<1> SUFFICES ASSUME SyncInv, [Next]_vars
             PROVE  SyncedReport'
  BY NextDone DEF SyncInv, DoneInv
<1>t. TypeOK' /\ TypeOK
  BY NextTypes DEF SyncInv
<1> USE DEF SyncInv, SyncedReport, vars, command, catalog, schema, clients, report
<1>0. CASE UNCHANGED vars
  BY <1>0
<1>1. CASE ReadReplication
  <2> SUFFICES ASSUME is_fully_synced', NEW c \in listed'
               PROVE  position'[c] >= since'
    BY DEF SyncedReport
  <2>1. c \in Clients /\ link[c] = "known" /\ position' = position /\ since' = since
    BY <1>1 DEF ReadReplication, ReadReplicationWith
  <2>2. wal - position[c] <= 0
    BY <1>1, <2>1 DEF ReadReplication, ReadReplicationWith, lag_bytes
  <2>3. position[c] \in Nat /\ wal \in Nat /\ since \in 0..wal
    BY <1>t, <2>1 DEF TypeOK
  <2> QED
    BY <2>1, <2>2, <2>3
<1>2. CASE Start \/ Connect \/ Stop \/ Fault \/ CreateExtension \/ NodeCreate
           \/ RepsetCreate \/ AddAllTables \/ SubCreate \/ ReadSubscriptions
  <2>1. DoneAtStop
    BY DEF SyncInv
  <2>2. ~(pc' = "stop" /\ cmd' = "status")
    BY <1>2, <1>t, <2>1 DEF DoneAtStop, TypeOK, Kinds, Start, Connect, First, Stop, Fault, Ends,
       CreateExtension, NodeCreate, RepsetCreate, AddAllTables, SubCreate, ReadSubscriptions, Goto
  <2> QED
    BY <2>2
<1>3. CASE CreateTable \/ OthersCommit \/ SubChanges
  BY <1>3 DEF CreateTable, OthersCommit, SubChanges, others
<1>4. ASSUME NEW c \in Clients, LinkChanges(c)
      PROVE  SyncedReport'
  BY <1>4 DEF LinkChanges, others
<1>5. ASSUME NEW c \in Clients, Confirms(c)
      PROVE  SyncedReport'
  <2>1. PICK p \in position[c]..wal : position' = [position EXCEPT ![c] = p]
    BY <1>5 DEF Confirms
  <2>2. \A d \in Clients : position'[d] >= position[d]
    BY <1>t, <1>5, <2>1 DEF TypeOK
  <2>3. /\ pc' = pc /\ cmd' = cmd /\ is_fully_synced' = is_fully_synced
        /\ listed' = listed /\ since' = since
    BY <1>5 DEF Confirms, others
  <2>4. /\ \A d \in Clients : position[d] \in Int /\ position'[d] \in Int
        /\ since \in Int /\ listed \subseteq Clients
    BY <1>t DEF TypeOK
  <2> SUFFICES ASSUME pc = "stop", cmd = "status", is_fully_synced, NEW d \in listed
               PROVE  position'[d] >= since
    BY <2>3 DEF SyncedReport
  <2>5. position[d] >= since
    BY DEF SyncedReport
  <2> QED
    BY <2>2, <2>4, <2>5
<1> QED
  BY <1>0, <1>1, <1>2, <1>3, <1>4, <1>5 DEF Next

\* "Fully synced" holds of every client whose lag was known.
THEOREM ReportIsTrue == Spec => []SyncedReport
<1>1. Init => SyncInv
  BY InitDone DEF DoneInv, SyncInv, Init, SyncedReport
<1>2. SyncInv => SyncedReport
  BY DEF SyncInv
<1> QED
  BY <1>1, <1>2, NextReport, PTL DEF Spec

=============================================================================
