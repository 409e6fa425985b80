---------------------------- MODULE Credentials ----------------------------
(***************************************************************************)
(* The master key, the encrypted communities and the start-up that         *)
(* protects them: src/lib.rs, src/crypto.rs, src/db/credentials.rs, the    *)
(* configuration file of src/config/mod.rs and the handlers that write     *)
(* secrets afterwards.                                                     *)
(*                                                                         *)
(* Processes (Web GUI, TUI) share one data directory.  A process may be    *)
(* killed or give up between any two steps; the host may lose power.  An   *)
(* envelope is abstracted to the key it is encrypted under.                *)
(***************************************************************************)
EXTENDS FiniteSets

CONSTANTS
  Processes,
  Rows,          \* IP addresses of devices
  Keys,          \* bound: the master keys there can be
  Overrides,     \* those an operator may pass in TRACEPULSE_MASTER_KEY
  PowerFails     \* may the host lose power?

ASSUME KeysAssumption == /\ Overrides \subseteq Keys
                         /\ Keys \cap {"none", "plain", "absent"} = {}
                         /\ PowerFails \in BOOLEAN

VARIABLES
  keyFile,       \* secret.key
  synced,        \* its directory entry has reached the disk
  config,        \* default_community of config.toml
  db,            \* data.db as its connections see it
  durable,       \* what a loss of power may leave of data.db
  pc,            \* where each process is
  override,      \* TRACEPULSE_MASTER_KEY of each process, or "none"
  key,           \* the master key a process holds
  mayCreate,     \* protect: nothing is encrypted yet, so a key may be created
  opened,        \* the start-up has passed protect once
  issued,        \* history: keys generated or supplied so far
  lost,          \* history: keys whose file the operator removed
  exposed        \* history: keys whose creator ended before it had synchronised their file

disk   == <<keyFile, synced, config, db, durable>>
locals == <<pc, override, key, mayCreate, opened>>
vars   == <<disk, locals, issued, lost, exposed>>

KeyOrNone == Keys \cup {"none"}

\* table: credential_storage exists; check: its key_check; pending: cleanup_pending;
\* residue: "pages" when old copies of converted plaintext are left in the file or the
\* WAL, "compacted" when only the file below an unflushed VACUUM still has them.
Database == [table: BOOLEAN, check: KeyOrNone, pending: BOOLEAN,
             rows: [Rows -> Keys \cup {"plain", "absent"}],
             residue: {"none", "pages", "compacted"}]

EmptyDatabase == [table |-> FALSE, check |-> "none", pending |-> FALSE,
                  rows |-> [r \in Rows |-> "absent"], residue |-> "none"]

Locations == {"off", "inspect", "load", "persist", "sync", "table", "migrate", "pending",
              "checkpoint", "vacuum", "flush", "clear", "final", "config", "rewrite",
              "running"}

AllOff == \A p \in Processes : pc[p] = "off"

-----------------------------------------------------------------------------
\* A data directory of the version before: no key, plaintext or nothing.
Init ==
  /\ keyFile = "none" /\ synced = TRUE
  /\ config \in {"none", "plain"}
  /\ \E rows \in [Rows -> {"plain", "absent"}] :
       db = [EmptyDatabase EXCEPT !.rows = rows]
  /\ durable   = {db}
  /\ pc        = [p \in Processes |-> "off"]
  /\ override  = [p \in Processes |-> "none"]
  /\ key       = [p \in Processes |-> "none"]
  /\ mayCreate = [p \in Processes |-> FALSE]
  /\ opened    = [p \in Processes |-> FALSE]
  /\ issued    = {}
  /\ lost      = {}
  /\ exposed   = {}

Goto(p, l) == pc' = [pc EXCEPT ![p] = l]

\* Mutant of Commit: the transaction is not logged.
CommitUnlogged(d) == db' = d /\ durable' = durable

\* A transaction of SQLite in WAL mode with synchronous=NORMAL: the other connections
\* see it, a loss of power may take it back.  (Automatic checkpoints only make durable
\* smaller.)
Commit(d) == db' = d /\ durable' = durable \cup {d}

\* MasterKey::load without creation: the environment, else the file.
LoadedKey(o) == IF o # "none" THEN o ELSE keyFile

\* verify_stored_key, then initialize_database.  A process that cannot decrypt the
\* configuration stops before it changes anything.  A key file that it finds is used as
\* it is: its directory is not synchronised.
Start(p) ==
  /\ pc[p] = "off"
  /\ \E o \in Overrides \cup {"none"} :
       /\ config \in Keys => LoadedKey(o) = config
       /\ override' = [override EXCEPT ![p] = o]
       /\ issued'   = issued \cup ({o} \cap Keys)
  /\ Goto(p, "inspect")
  /\ UNCHANGED <<disk, key, mayCreate, opened, lost, exposed>>

\* Mutant of CreationAllowed: an empty database does not remember its key.
CreationAllowedWithoutRows == \A r \in Rows : db.rows[r] \notin Keys

\* Creating a key is allowed while nothing in the database can depend on another.
CreationAllowed == (\A r \in Rows : db.rows[r] \notin Keys) /\ ~db.table

\* protect: what the database holds, read before the key is loaded.
Inspect(p) ==
  /\ pc[p] = "inspect"
  /\ mayCreate' = [mayCreate EXCEPT ![p] = CreationAllowed]
  /\ Goto(p, "load")
  /\ UNCHANGED <<disk, override, key, opened, issued, lost, exposed>>

\* MasterKey::load: the environment, the file, or a new key for the file.
LoadKey(p) ==
  /\ pc[p] = "load"
  /\ \/ /\ LoadedKey(override[p]) # "none"
        /\ key' = [key EXCEPT ![p] = LoadedKey(override[p])]
        /\ Goto(p, "table")
        /\ UNCHANGED issued
     \/ /\ LoadedKey(override[p]) = "none" /\ mayCreate[p]
        /\ \E k \in Keys \ (issued \cup Overrides) :
             key' = [key EXCEPT ![p] = k] /\ issued' = issued \cup {k}
        /\ Goto(p, "persist")
  /\ UNCHANGED <<disk, override, mayCreate, opened, lost, exposed>>

\* Mutant of PersistKey: the directory is not synchronised before the key is used.
PersistKeyUnsynced(p) ==
  /\ pc[p] = "persist"
  /\ keyFile = "none"
  /\ keyFile' = key[p] /\ synced' = FALSE
  /\ Goto(p, "table")
  /\ UNCHANGED <<config, db, durable, override, key, mayCreate, opened, issued, lost, exposed>>

\* persist_noclobber: the first process wins, the others load its file.
PersistKey(p) ==
  /\ pc[p] = "persist"
  /\ \/ /\ keyFile = "none"
        /\ keyFile' = key[p] /\ synced' = FALSE
        /\ Goto(p, "sync")
        /\ UNCHANGED key
     \/ /\ keyFile # "none"
        /\ key' = [key EXCEPT ![p] = keyFile]
        /\ Goto(p, "table")
        /\ UNCHANGED <<keyFile, synced>>
  /\ UNCHANGED <<config, db, durable, override, mayCreate, opened, issued, lost, exposed>>

\* sync_directory.  An error of it ends the process like a kill: Stop.
SyncKey(p) ==
  /\ pc[p] = "sync"
  /\ synced' = TRUE
  /\ Goto(p, "table")
  /\ UNCHANGED <<keyFile, config, db, durable, override, key, mayCreate, opened, issued, lost, exposed>>

\* CREATE TABLE IF NOT EXISTS credential_storage, a transaction of its own.
CreateTable(p) ==
  /\ pc[p] = "table"
  /\ Commit([db EXCEPT !.table = TRUE])
  /\ Goto(p, "migrate")
  /\ UNCHANGED <<keyFile, synced, config, override, key, mayCreate, opened, issued, lost, exposed>>

\* Mutant of KeyAccepted: the verification value is not checked.
KeyAcceptedByRows(k) == \A r \in Rows : db.rows[r] \in Keys => db.rows[r] = k

\* The key decrypts the verification value and every envelope.
KeyAccepted(k) == /\ db.check \in {"none", k}
                  /\ \A r \in Rows : db.rows[r] \in Keys => db.rows[r] = k

HasPlaintext == \E r \in Rows : db.rows[r] = "plain"

\* Mutant of Migrated: the marker is left for a transaction of its own.
MigratedUnmarked(k) ==
  [db EXCEPT !.check = k,
             !.rows = [r \in Rows |-> IF db.rows[r] = "plain" THEN k ELSE db.rows[r]],
             !.residue = IF HasPlaintext THEN "pages" ELSE @]

\* The one transaction of protect: verification value, rows and marker together.
Migrated(k) ==
  [db EXCEPT !.check = k,
             !.rows = [r \in Rows |-> IF db.rows[r] = "plain" THEN k ELSE db.rows[r]],
             !.pending = @ \/ HasPlaintext,
             !.residue = IF HasPlaintext THEN "pages" ELSE @]

Migrate(p) ==
  /\ pc[p] = "migrate" /\ KeyAccepted(key[p])
  /\ Commit(Migrated(key[p]))
  /\ Goto(p, "pending")
  /\ UNCHANGED <<keyFile, synced, config, override, key, mayCreate, opened, issued, lost, exposed>>

\* The first protect is followed by AppConfig::load, the second (Repository::new) by work.
AfterProtect(p) == IF opened[p] THEN "running" ELSE "config"

ReadPending(p) ==
  /\ pc[p] = "pending"
  /\ Goto(p, IF db.pending THEN "checkpoint" ELSE AfterProtect(p))
  /\ UNCHANGED <<disk, override, key, mayCreate, opened, issued, lost, exposed>>

\* Mutant of AfterCheckpoint: the cleanup stops after its first checkpoint.
AfterCheckpointSkippingVacuum(p) ==
  CASE pc[p] = "checkpoint" -> "clear"
    [] pc[p] = "final" -> AfterProtect(p)
    [] pc[p] = "flush" -> "clear"

AfterCheckpoint(p) ==
  CASE pc[p] = "checkpoint" -> "vacuum"
    [] pc[p] = "flush"      -> "clear"
    [] pc[p] = "final"      -> AfterProtect(p)

\* wal_checkpoint(TRUNCATE).  A busy database makes the process give up: Stop.
Checkpoint(p) ==
  LET d == [db EXCEPT !.residue = IF @ = "compacted" THEN "none" ELSE @]
  IN  /\ pc[p] \in {"checkpoint", "flush", "final"}
      /\ db' = d /\ durable' = {d}
      /\ Goto(p, AfterCheckpoint(p))
      /\ UNCHANGED <<keyFile, synced, config, override, key, mayCreate, opened, issued, lost, exposed>>

\* VACUUM rewrites the database into the WAL.
Vacuum(p) ==
  /\ pc[p] = "vacuum"
  /\ Commit([db EXCEPT !.residue = IF @ = "pages" THEN "compacted" ELSE @])
  /\ Goto(p, "flush")
  /\ UNCHANGED <<keyFile, synced, config, override, key, mayCreate, opened, issued, lost, exposed>>

ClearMarker(p) ==
  /\ pc[p] = "clear"
  /\ Commit([db EXCEPT !.pending = FALSE])
  /\ Goto(p, "final")
  /\ UNCHANGED <<keyFile, synced, config, override, key, mayCreate, opened, issued, lost, exposed>>

\* AppConfig::load reads the file: plaintext is rewritten, an envelope must be readable.
ReadConfig(p) ==
  /\ pc[p] = "config"
  /\ config \in Keys => LoadedKey(override[p]) = config
  /\ IF config = "plain"
     THEN Goto(p, "rewrite") /\ UNCHANGED opened
     ELSE Goto(p, "inspect") /\ opened' = [opened EXCEPT ![p] = TRUE]
  /\ UNCHANGED <<disk, override, key, mayCreate, issued, lost, exposed>>

\* write_private_atomic: the file is renamed, then the directory it shares with secret.key
\* is synchronised.
WriteConfig(p) ==
  /\ config' = LoadedKey(override[p])
  /\ synced' = TRUE /\ exposed' = exposed \ {keyFile}

\* The file that was read is written, then Repository::new.
RewriteConfig(p) ==
  /\ pc[p] = "rewrite" /\ WriteConfig(p)
  /\ opened' = [opened EXCEPT ![p] = TRUE]
  /\ Goto(p, "inspect")
  /\ UNCHANGED <<keyFile, db, durable, override, key, mayCreate, issued, lost>>

\* save_device and save_device_config: a new community is encrypted, an empty one keeps
\* the envelope that is there, if the key decrypts it.
SaveDevice(p) ==
  /\ pc[p] = "running"
  /\ \E r \in Rows : Commit([db EXCEPT !.rows[r] = key[p]])
  /\ UNCHANGED <<keyFile, synced, config, locals, issued, lost, exposed>>

\* remove_device_by_ip, after find_device_by_ip has decrypted the row.
RemoveDevice(p) ==
  /\ pc[p] = "running"
  /\ \E r \in Rows : db.rows[r] = key[p] /\ Commit([db EXCEPT !.rows[r] = "absent"])
  /\ UNCHANGED <<keyFile, synced, config, locals, issued, lost, exposed>>

\* persist_config loads the key again and encrypts the community in memory.
SaveSettings(p) ==
  /\ pc[p] = "running" /\ LoadedKey(override[p]) # "none"
  /\ config \in Keys => LoadedKey(override[p]) = config
  /\ WriteConfig(p)
  /\ UNCHANGED <<keyFile, db, durable, locals, issued, lost>>

\* The TUI opens a repository of its own for each poll it is asked for: protect again.
Reopen(p) ==
  /\ pc[p] = "running"
  /\ Goto(p, "inspect")
  /\ UNCHANGED <<disk, override, key, mayCreate, opened, issued, lost, exposed>>

-----------------------------------------------------------------------------
\* The creators of a key file that have not come to synchronise it.
Unsynchronised == IF synced THEN {} ELSE {p \in Processes : pc[p] = "sync"}

Forget(S) ==
  /\ pc'        = [p \in Processes |-> IF p \in S THEN "off" ELSE pc[p]]
  /\ override'  = [p \in Processes |-> IF p \in S THEN "none" ELSE override[p]]
  /\ key'       = [p \in Processes |-> IF p \in S THEN "none" ELSE key[p]]
  /\ mayCreate' = [p \in Processes |-> mayCreate[p] /\ p \notin S]
  /\ opened'    = [p \in Processes |-> opened[p] /\ p \notin S]

\* A process ends: killed, stopped, or by an error of the step it is at.
Stop(p) ==
  /\ pc[p] # "off"
  /\ Forget({p})
  /\ exposed' = exposed \cup {key[q] : q \in Unsynchronised \cap {p}}
  /\ UNCHANGED <<disk, issued, lost>>

\* sync_directory fails, or is cut off, after config.toml was renamed: the start-up is over,
\* a handler answers with the error.
ConfigUnsynced(p) ==
  /\ pc[p] \in {"rewrite", "running"} /\ LoadedKey(override[p]) # "none"
  /\ config \in Keys => LoadedKey(override[p]) = config
  /\ config' = LoadedKey(override[p])
  /\ IF pc[p] = "rewrite" THEN Forget({p}) ELSE UNCHANGED locals
  /\ UNCHANGED <<keyFile, synced, db, durable, issued, lost, exposed>>

\* The host loses power: transactions since the last checkpoint may be gone, and a key
\* file whose directory entry is not synchronised.
PowerLoss ==
  /\ PowerFails
  /\ \E d \in durable : db' = d /\ durable' = {d}
  /\ \/ keyFile' = keyFile /\ exposed' = exposed \ {keyFile}
     \/ /\ ~synced /\ keyFile' = "none"
        /\ exposed' = exposed \cup {key[p] : p \in Unsynchronised}
  /\ synced' = TRUE
  /\ Forget(Processes)
  /\ UNCHANGED <<config, issued, lost>>

\* The operator, while no process runs: loses or restores the key file, starts over with
\* an empty database, or writes a community into the configuration.
Operator ==
  /\ AllOff
  /\ \/ /\ keyFile # "none"
        /\ keyFile' = "none" /\ lost' = lost \cup {keyFile}
        /\ UNCHANGED <<config, db, durable>>
     \/ /\ keyFile' \in lost
        /\ lost' = (lost \cup {keyFile}) \cap Keys
        /\ UNCHANGED <<config, db, durable>>
     \/ /\ db' = EmptyDatabase /\ durable' = {EmptyDatabase}
        /\ UNCHANGED <<keyFile, config, lost>>
     \/ /\ config' = "plain"
        /\ UNCHANGED <<keyFile, db, durable, lost>>
  /\ UNCHANGED <<synced, locals, issued, exposed>>

Startup(p) ==
  \/ Start(p) \/ Inspect(p) \/ LoadKey(p) \/ PersistKey(p) \/ SyncKey(p)
  \/ CreateTable(p) \/ Migrate(p) \/ ReadPending(p) \/ Checkpoint(p) \/ Vacuum(p)
  \/ ClearMarker(p) \/ ReadConfig(p) \/ RewriteConfig(p)

Next ==
  \/ \E p \in Processes : \/ Startup(p) \/ Stop(p)
                          \/ SaveDevice(p) \/ RemoveDevice(p) \/ SaveSettings(p)
                          \/ Reopen(p) \/ ConfigUnsynced(p)
  \/ PowerLoss
  \/ Operator

Spec == Init /\ [][Next]_vars

-----------------------------------------------------------------------------
TypeOK ==
  /\ keyFile \in KeyOrNone /\ synced \in BOOLEAN
  /\ config \in Keys \cup {"none", "plain"}
  /\ db \in Database
  /\ durable \subseteq Database /\ db \in durable
  /\ pc \in [Processes -> Locations]
  /\ override \in [Processes -> Overrides \cup {"none"}]
  /\ key \in [Processes -> KeyOrNone]
  /\ mayCreate \in [Processes -> BOOLEAN]
  /\ opened \in [Processes -> BOOLEAN]
  /\ issued \subseteq Keys
  /\ lost \subseteq Keys /\ exposed \subseteq Keys

\* The keys the stored envelopes need.
KeysInUse == Keys \cap ({config, db.check} \cup {db.rows[r] : r \in Rows})

\* Everything encrypted in the data directory is under one master key, whatever process
\* created it, however many started at once and wherever they were stopped: a key is never
\* created, accepted or used beside another.
OneKey == \A j, k \in KeysInUse : j = k

\* And that key is not lost: it is in secret.key, or the operator supplies it or removed it.
\* One window is left.  When the process that creates the file ends between the rename and
\* the synchronisation of the directory, by a kill, an error or the very loss of power, the
\* others use the file as they find it, and until one of them writes config.toml a loss of
\* power may take the key from what they have encrypted.
KeyKeptWithData == \A k \in KeysInUse : k \in Overrides \cup lost \cup exposed \/ keyFile = k

\* "Refuses silent key recreation": a process creates a key file only in a directory where
\* nothing is encrypted yet, after any crash, loss of power or loss of the key.  (Processes
\* that are started together must be given the same key for this to hold.)
KeysAreNotRecreated ==
  [][keyFile = "none" /\ keyFile' # "none" /\ ~AllOff => KeysInUse = {}]_vars

\* Old plaintext left in the file is never forgotten: the marker that makes the next
\* start clean up is set, from the transaction that converts the rows to the checkpoint
\* after the VACUUM.
CleanupRemembered == db.residue # "none" => db.pending

\* A process that has started works on a data directory without plaintext.
OpenedClean ==
  \A p \in Processes : pc[p] = "running" =>
    ~HasPlaintext /\ db.residue = "none" /\ config # "plain"
=============================================================================
