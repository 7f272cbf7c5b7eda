-------------------------------- MODULE Sync --------------------------------
(***************************************************************************)
(* "postg sync": the commands of main.rs that turn a database into a Spock  *)
(* node, publish its tables, subscribe to another node and report on        *)
(* replication.  Each command starts a server of its own, sends its         *)
(* statements one by one through a pool, each of them a transaction, and    *)
(* stops the server; `?` ends it at the first error it looks at.            *)
(*                                                                          *)
(* The user runs the commands in any order and again after a failure, with  *)
(* the engine that has Spock.  Spock is external: node_create refuses a     *)
(* second node and may make the default replication set (the comment at     *)
(* main.rs:226 is not sure); the statements about sets and subscriptions    *)
(* are refused without a node, repset_create also if the set exists;        *)
(* repset_add_all_tables passes over the tables the set has.                *)
(***************************************************************************)
EXTENDS Integers

CONSTANTS
    Tables,     \* tables of the published schema
    Clients,    \* nodes that subscribe to this one
    MaxRuns,    \* how often a command is run
    MaxCommits, \* transactions that other sessions commit
    Faults      \* TRUE: a statement may not get through, or its answer be lost

ASSUME SyncAssumption ==
    /\ MaxRuns \in Nat
    /\ MaxCommits \in Nat
    /\ Faults \in BOOLEAN

VARIABLES
    cmd,        \* the command that runs, or ran last
    pc,         \* the statement it is at
    runs,       \* commands run so far
    result,     \* result[k]: how the last command of kind k ended
    extension,  \* CREATE EXTENSION spock was done
    node,       \* the local node exists
    repset,     \* its default replication set exists
    tables,     \* the tables that exist
    published,  \* those in the default set
    due,        \* those that existed when a publish that succeeded began
    sub,        \* the own subscription: "none", "down" or "connected"
    wal,        \* transactions committed
    position,   \* position[c]: how many of them client c has replayed
    link,       \* link[c]: its row in pg_stat_replication
    is_fully_synced,
    listed,     \* the clients whose lag the report was made from
    since       \* wal when the command began

catalog == <<extension, node, repset>>
schema == <<tables, published, due>>
clients == <<position, link>>
report == <<is_fully_synced, listed>>
command == <<cmd, runs, since>>
vars == <<command, pc, result, catalog, schema, sub, wal, clients, report>>

Kinds == {"init", "publish", "subscribe", "status"}

Statements == {"create_extension", "node_create", "repset_create", "add_all_tables",
               "sub_create", "read_subscriptions", "read_replication"}

TypeOK ==
    /\ cmd \in Kinds
    /\ pc \in {"idle", "connect", "stop"} \cup Statements
    /\ runs \in 0..MaxRuns
    /\ result \in [Kinds -> {"never", "ok", "refused", "fault"}]
    /\ extension \in BOOLEAN /\ node \in BOOLEAN /\ repset \in BOOLEAN
    /\ tables \subseteq Tables /\ published \subseteq tables /\ due \subseteq tables
    /\ sub \in {"none", "down", "connected"}
    /\ wal \in 0..MaxCommits
    /\ position \in [Clients -> 0..wal]
    /\ link \in [Clients -> {"away", "null", "known"}]
    /\ is_fully_synced \in BOOLEAN
    /\ listed \subseteq Clients
    /\ since \in 0..wal
    /\ pc = "idle" => sub # "connected" /\ \A c \in Clients : link[c] = "away"

Init ==
    /\ cmd = "init" /\ pc = "idle" /\ runs = 0 /\ since = 0
    /\ result = [k \in Kinds |-> "never"]
    /\ extension = FALSE /\ node = FALSE /\ repset = FALSE
    /\ tables \in SUBSET Tables /\ published = {} /\ due = {}
    /\ sub = "none"
    /\ wal = 0
    /\ position = [c \in Clients |-> 0]
    /\ link = [c \in Clients |-> "away"]
    /\ is_fully_synced = TRUE /\ listed = {}

-----------------------------------------------------------------------------
(* How a command begins, goes on and ends.                                  *)

\* Postg::start.
Start ==
    /\ runs < MaxRuns
    /\ pc = "idle" /\ pc' = "connect"
    /\ cmd' \in Kinds
    /\ runs' = runs + 1
    /\ since' = wal
    /\ UNCHANGED <<result, catalog, schema, sub, wal, clients, report>>

First == [init |-> "create_extension", publish |-> "repset_create",
          subscribe |-> "sub_create", status |-> "read_subscriptions"]

\* PgPool::connect; is_fully_synced = true.
Connect ==
    /\ pc = "connect" /\ pc' = First[cmd]
    /\ is_fully_synced' = TRUE /\ listed' = {}
    /\ UNCHANGED <<command, result, catalog, schema, sub, wal, clients>>

\* Wrong variant: the server is left running.
EndsDetached(how) ==
    /\ pc' = "idle"
    /\ result' = [result EXCEPT ![cmd] = how]
    /\ UNCHANGED <<command, catalog, schema, sub, wal, clients, report>>

\* The command returns; the server goes, and every connection with it.
Ends(how) ==
    /\ pc' = "idle"
    /\ result' = [result EXCEPT ![cmd] = how]
    /\ link' = [c \in Clients |-> "away"]
    /\ sub' = IF sub = "connected" THEN "down" ELSE sub
    /\ UNCHANGED <<command, catalog, schema, wal, position, report>>

\* db.stop(), and Ok(()).
Stop == pc = "stop" /\ Ends("ok")

\* The server does not come up, a statement does not get through, the answer
\* to the one before was lost, or stop() fails.
Fault == Faults /\ pc # "idle" /\ Ends("fault")

\* The statement was executed, and the command is at the next one.
Goto(from, to) ==
    /\ pc = from /\ pc' = to
    /\ UNCHANGED <<command, result, wal, clients, report>>

-----------------------------------------------------------------------------
(* sync init, publish and subscribe.                                        *)

\* Wrong variant: without IF NOT EXISTS.
CreateExtensionOnce ==
    \/ /\ ~extension
       /\ Goto("create_extension", "node_create")
       /\ extension' = TRUE
       /\ UNCHANGED <<node, repset, schema, sub>>
    \/ extension /\ pc = "create_extension" /\ Ends("refused")

CreateExtension ==
    /\ Goto("create_extension", "node_create")
    /\ extension' = TRUE
    /\ UNCHANGED <<node, repset, schema, sub>>

NodeCreate ==
    \/ /\ ~node
       /\ Goto("node_create", "stop")
       /\ node' = TRUE
       /\ repset' \in BOOLEAN
       /\ UNCHANGED <<extension, schema, sub>>
    \/ node /\ pc = "node_create" /\ Ends("refused")

\* Wrong variant: the result is looked at.
RepsetCreateChecked ==
    \/ /\ node /\ ~repset
       /\ Goto("repset_create", "add_all_tables")
       /\ repset' = TRUE
       /\ UNCHANGED <<extension, node, schema, sub>>
    \/ (repset \/ ~node) /\ pc = "repset_create" /\ Ends("refused")

\* The result is dropped: an error is passed over, whatever it is.
RepsetCreate ==
    /\ Goto("repset_create", "add_all_tables")
    /\ repset' \in {node} \cup (IF Faults THEN {repset} ELSE {})
    /\ UNCHANGED <<extension, node, schema, sub>>

\* Wrong variant: the result is dropped as well.
AddAllTablesUnchecked ==
    /\ Goto("add_all_tables", "stop")
    /\ published' = IF repset THEN tables ELSE published
    /\ due' = tables
    /\ UNCHANGED <<catalog, tables, sub>>

AddAllTables ==
    \/ /\ repset
       /\ Goto("add_all_tables", "stop")
       /\ published' = tables
       /\ due' = tables
       /\ UNCHANGED <<catalog, tables, sub>>
    \/ ~repset /\ pc = "add_all_tables" /\ Ends("refused")

SubCreate ==
    \/ /\ node /\ sub = "none"
       /\ Goto("sub_create", "stop")
       /\ sub' = "down"
       /\ UNCHANGED <<catalog, schema>>
    \/ (~node \/ sub # "none") /\ pc = "sub_create" /\ Ends("refused")

-----------------------------------------------------------------------------
(* sync status: two statements, between which replication goes on.          *)

\* pid is NULL for a subscription without a worker.
ReadSubscriptions ==
    /\ pc = "read_subscriptions" /\ pc' = "read_replication"
    /\ is_fully_synced' = (is_fully_synced /\ sub # "down")
    /\ UNCHANGED <<command, result, catalog, schema, sub, wal, clients, listed>>

\* A NULL lag counts as 0.
lag_bytes(c) == IF link[c] = "known" THEN wal - position[c] ELSE 0

ReadReplicationWith(synced) ==
    /\ pc = "read_replication" /\ pc' = "stop"
    /\ is_fully_synced' = synced
    /\ listed' = {c \in Clients : link[c] = "known"}
    /\ UNCHANGED <<command, result, catalog, schema, sub, wal, clients>>

\* Wrong variant: each row sets is_fully_synced, and the last one counts.
ReadReplicationLast ==
    \E last \in Clients :
        ReadReplicationWith(IF link[last] = "away" THEN is_fully_synced ELSE lag_bytes(last) = 0)

ReadReplication ==
    ReadReplicationWith(is_fully_synced /\ \A c \in Clients : lag_bytes(c) <= 0)

-----------------------------------------------------------------------------
(* While the server is up, its other sessions and the other nodes go on.    *)

Up == pc \notin {"idle", "connect"}

others == <<command, pc, result, catalog, published, due, report>>

CreateTable ==
    /\ Up /\ \E t \in Tables \ tables : tables' = tables \cup {t}
    /\ UNCHANGED <<others, sub, wal, clients>>

OthersCommit ==
    /\ Up /\ wal < MaxCommits
    /\ wal' = wal + 1
    /\ UNCHANGED <<others, tables, sub, clients>>

\* A client comes, leaves, or confirms what it has replayed.
LinkChanges(c) ==
    /\ Up /\ node
    /\ link' = [link EXCEPT ![c] = IF link[c] = "away" THEN "null" ELSE "away"]
    /\ UNCHANGED <<others, tables, sub, wal, position>>

Confirms(c) ==
    /\ Up /\ link[c] # "away"
    /\ link' = [link EXCEPT ![c] = "known"]
    /\ \E p \in position[c]..wal : position' = [position EXCEPT ![c] = p]
    /\ UNCHANGED <<others, tables, sub, wal>>

SubChanges ==
    /\ Up /\ sub # "none"
    /\ sub' = IF sub = "down" THEN "connected" ELSE "down"
    /\ UNCHANGED <<others, tables, wal, clients>>

Next ==
    \/ Start \/ Connect \/ Stop \/ Fault
    \/ CreateExtension \/ NodeCreate \/ RepsetCreate \/ AddAllTables \/ SubCreate
    \/ ReadSubscriptions \/ ReadReplication
    \/ CreateTable \/ OthersCommit \/ SubChanges
    \/ \E c \in Clients : LinkChanges(c) \/ Confirms(c)

Spec == Init /\ [][Next]_vars

-----------------------------------------------------------------------------
(* Properties.                                                              *)

\* A command that reported success did what it is for, though `publish` drops
\* the result of its first statement: there is a node, the tables that existed
\* are all in the set, there is a subscription (main.rs:208-250).
OkMeansDone ==
    /\ result.init = "ok" => extension /\ node
    /\ due \subseteq published
    /\ result.publish = "ok" => repset
    /\ result.subscribe = "ok" => node /\ sub # "none"

\* An init that is refused has been done: by an earlier run, be it one that was
\* cut off between its two statements, or whose answer was lost, and the runs
\* that finished it.  So whoever runs init again until it is not a fault, comes
\* to a node (main.rs:208-219).
RefusedInitWasDone == result.init = "refused" => extension /\ node

\* "Fully synced" speaks of every client whose lag is known: each has replayed
\* what was committed before the command began, whatever is committed, and
\* whoever comes and goes, while it runs (main.rs:252-289).
SyncedReport ==
    pc = "stop" /\ cmd = "status" /\ is_fully_synced =>
        \A c \in listed : position[c] >= since

=============================================================================
