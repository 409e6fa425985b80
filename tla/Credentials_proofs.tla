------------------------- MODULE Credentials_proofs -------------------------
(***************************************************************************)
(* Proofs about Credentials, for any number of processes, devices and      *)
(* keys, with and without loss of power: the types, one master key for     *)
(* everything stored, and the cleanup of old plaintext.                    *)
(***************************************************************************)
EXTENDS Credentials, TLAPS

-----------------------------------------------------------------------------
(* Types. *)

\* A process holds a key from the moment it has loaded or generated one.
WithKey == Locations \ {"off", "inspect", "load"}

KeyHeld == \A p \in Processes : pc[p] \in WithKey => key[p] \in Keys

TypeInv == TypeOK /\ KeyHeld

LEMMA EmptyIsDatabase == EmptyDatabase \in Database
BY DEF EmptyDatabase, Database, KeyOrNone

LEMMA TypeInit == Init => TypeInv
<1> SUFFICES ASSUME Init PROVE TypeInv
  OBVIOUS
<1>1. PICK rows \in [Rows -> {"plain", "absent"}] : db = [EmptyDatabase EXCEPT !.rows = rows]
  BY DEF Init
<1>2. rows \in [Rows -> Keys \cup {"plain", "absent"}]
  OBVIOUS
<1>3. db \in Database
  BY <1>1, <1>2 DEF EmptyDatabase, Database, KeyOrNone
<1> QED
  BY <1>3 DEF Init, TypeInv, TypeOK, KeyHeld, WithKey, KeyOrNone, Locations

\* The key a process would load is typed, and it is a key unless there is none.
LEMMA LoadedKeyType ==
  ASSUME TypeOK, NEW p \in Processes
  PROVE  LoadedKey(override[p]) \in KeyOrNone
BY KeysAssumption DEF TypeOK, LoadedKey, KeyOrNone

\* Stopping processes leaves their variables typed.
LEMMA ForgetType ==
  ASSUME TypeInv, NEW S, Forget(S)
  PROVE  /\ pc' \in [Processes -> Locations]
         /\ override' \in [Processes -> Overrides \cup {"none"}]
         /\ key' \in [Processes -> KeyOrNone]
         /\ mayCreate' \in [Processes -> BOOLEAN]
         /\ opened' \in [Processes -> BOOLEAN]
         /\ KeyHeld'
BY DEF TypeInv, TypeOK, KeyHeld, WithKey, Forget, Locations, KeyOrNone

\* A transaction that keeps the shape of the database keeps its types.
LEMMA CommitType ==
  ASSUME TypeOK, NEW d \in Database, Commit(d)
  PROVE  db' \in Database /\ durable' \subseteq Database /\ db' \in durable'
BY DEF TypeOK, Commit

LEMMA TypeStep == TypeInv /\ [Next]_vars => TypeInv'
<1> SUFFICES ASSUME TypeInv, [Next]_vars PROVE TypeInv'
  OBVIOUS
<1> USE KeysAssumption DEF TypeInv
<1>1. ASSUME NEW p \in Processes, Start(p) PROVE TypeInv'
  BY <1>1 DEF Start, disk, TypeOK, KeyHeld, WithKey, Goto, Locations
<1>2. ASSUME NEW p \in Processes, Inspect(p) PROVE TypeInv'
  <2>1. CreationAllowed \in BOOLEAN
    BY DEF CreationAllowed, TypeOK, Database
  <2> QED BY <1>2, <2>1 DEF Inspect, TypeOK, KeyHeld, WithKey, Goto, Locations, disk
<1>3. ASSUME NEW p \in Processes, LoadKey(p) PROVE TypeInv'
  <2>1. PICK k \in Keys : /\ key' = [key EXCEPT ![p] = k]
                          /\ pc' \in {[pc EXCEPT ![p] = "table"], [pc EXCEPT ![p] = "persist"]}
                          /\ issued' \in {issued, issued \cup {k}}
    BY <1>3, LoadedKeyType DEF LoadKey, Goto, KeyOrNone
  <2>2. KeyHeld'
    BY <2>1 DEF KeyHeld, WithKey, TypeOK
  <2>3. pc' \in [Processes -> Locations] /\ key' \in [Processes -> KeyOrNone]
    BY <2>1 DEF TypeOK, Locations, KeyOrNone
  <2>4. issued' \subseteq Keys
    BY <2>1 DEF TypeOK
  <2>5. UNCHANGED <<disk, override, mayCreate, opened, lost, exposed>>
    BY <1>3 DEF LoadKey
  <2> QED BY <2>2, <2>3, <2>4, <2>5 DEF TypeOK, disk
<1>4. ASSUME NEW p \in Processes, PersistKey(p) PROVE TypeInv'
  <2>1. key[p] \in Keys
    BY <1>4 DEF PersistKey, KeyHeld, WithKey, Locations
  <2>2. CASE keyFile = "none"
    BY <1>4, <2>1, <2>2 DEF PersistKey, TypeOK, KeyHeld, WithKey, Goto, Locations, KeyOrNone
  <2>3. CASE keyFile # "none"
    <3>1. keyFile \in Keys
      BY <2>3 DEF TypeOK, KeyOrNone
    <3> QED BY <1>4, <2>3, <3>1 DEF PersistKey, TypeOK, KeyHeld, WithKey, Goto, Locations,
                                    KeyOrNone
  <2> QED BY <2>2, <2>3
<1>5. ASSUME NEW p \in Processes, SyncKey(p) PROVE TypeInv'
  BY <1>5 DEF SyncKey, TypeOK, KeyHeld, WithKey, Goto, Locations
<1>6. ASSUME NEW p \in Processes, CreateTable(p) PROVE TypeInv'
  <2>1. [db EXCEPT !.table = TRUE] \in Database
    BY DEF TypeOK, Database
  <2> QED BY <1>6, <2>1, CommitType DEF CreateTable, TypeOK, KeyHeld, WithKey, Goto, Locations
<1>7. ASSUME NEW p \in Processes, Migrate(p) PROVE TypeInv'
  <2>1. key[p] \in Keys
    BY <1>7 DEF Migrate, KeyHeld, WithKey, Locations
  <2>2. Migrated(key[p]) \in Database
    BY <2>1 DEF TypeOK, Database, Migrated, HasPlaintext, KeyOrNone
  <2> QED BY <1>7, <2>2, CommitType DEF Migrate, TypeOK, KeyHeld, WithKey, Goto, Locations
<1>8. ASSUME NEW p \in Processes, ReadPending(p) PROVE TypeInv'
  BY <1>8 DEF ReadPending, TypeOK, KeyHeld, WithKey, Goto, Locations, AfterProtect, disk
<1>9. ASSUME NEW p \in Processes, Checkpoint(p) PROVE TypeInv'
  <2>1. [db EXCEPT !.residue = IF @ = "compacted" THEN "none" ELSE @] \in Database
    BY DEF TypeOK, Database
  <2>2. AfterCheckpoint(p) \in Locations
    BY <1>9 DEF Checkpoint, AfterCheckpoint, AfterProtect, Locations
  <2> QED BY <1>9, <2>1, <2>2 DEF Checkpoint, TypeOK, KeyHeld, WithKey, Goto, Locations
<1>10. ASSUME NEW p \in Processes, Vacuum(p) PROVE TypeInv'
  <2>1. [db EXCEPT !.residue = IF @ = "pages" THEN "compacted" ELSE @] \in Database
    BY DEF TypeOK, Database
  <2> QED BY <1>10, <2>1, CommitType DEF Vacuum, TypeOK, KeyHeld, WithKey, Goto, Locations
<1>11. ASSUME NEW p \in Processes, ClearMarker(p) PROVE TypeInv'
  <2>1. [db EXCEPT !.pending = FALSE] \in Database
    BY DEF TypeOK, Database
  <2> QED BY <1>11, <2>1, CommitType DEF ClearMarker, TypeOK, KeyHeld, WithKey, Goto, Locations
<1>12. ASSUME NEW p \in Processes, ReadConfig(p) PROVE TypeInv'
  BY <1>12 DEF ReadConfig, TypeOK, KeyHeld, WithKey, Goto, Locations, disk
<1>13. ASSUME NEW p \in Processes, RewriteConfig(p) PROVE TypeInv'
  BY <1>13, LoadedKeyType DEF RewriteConfig, WriteConfig, TypeOK, KeyHeld, WithKey, Goto, Locations, KeyOrNone
<1>14. ASSUME NEW p \in Processes, SaveDevice(p) PROVE TypeInv'
  <2>1. PICK r \in Rows : Commit([db EXCEPT !.rows[r] = key[p]])
    BY <1>14 DEF SaveDevice
  <2>2. key[p] \in Keys
    BY <1>14 DEF SaveDevice, KeyHeld, WithKey, Locations
  <2>3. [db EXCEPT !.rows[r] = key[p]] \in Database
    BY <2>2 DEF TypeOK, Database
  <2> QED BY <1>14, <2>1, <2>3, CommitType DEF SaveDevice, TypeOK, KeyHeld, locals
<1>15. ASSUME NEW p \in Processes, RemoveDevice(p) PROVE TypeInv'
  <2>1. PICK r \in Rows : Commit([db EXCEPT !.rows[r] = "absent"])
    BY <1>15 DEF RemoveDevice
  <2>2. [db EXCEPT !.rows[r] = "absent"] \in Database
    BY DEF TypeOK, Database
  <2> QED BY <1>15, <2>1, <2>2, CommitType DEF RemoveDevice, TypeOK, KeyHeld, locals
<1>16. ASSUME NEW p \in Processes, SaveSettings(p) PROVE TypeInv'
  BY <1>16, LoadedKeyType DEF SaveSettings, WriteConfig, TypeOK, KeyHeld, KeyOrNone, locals
<1>17. ASSUME NEW p \in Processes, Reopen(p) PROVE TypeInv'
  BY <1>17 DEF Reopen, TypeOK, KeyHeld, WithKey, Goto, Locations, disk
\* The keys of creators that end before they have synchronised their file.
<1>a. \A q \in Unsynchronised : key[q] \in Keys
  BY DEF Unsynchronised, KeyHeld, WithKey, Locations
<1>18. ASSUME NEW p \in Processes, Stop(p) PROVE TypeInv'
  <2>1. exposed' \subseteq Keys
    BY <1>18, <1>a DEF Stop, TypeOK
  <2> QED BY <1>18, <2>1, ForgetType DEF Stop, TypeOK, disk
<1>19. CASE PowerLoss
  <2>1. exposed' \subseteq Keys
    BY <1>19, <1>a DEF PowerLoss, TypeOK
  <2> QED BY <1>19, <2>1, ForgetType DEF PowerLoss, TypeOK, KeyOrNone
<1>22. ASSUME NEW p \in Processes, ConfigUnsynced(p) PROVE TypeInv'
  <2>1. /\ pc' \in [Processes -> Locations] /\ override' \in [Processes -> Overrides \cup {"none"}]
        /\ key' \in [Processes -> KeyOrNone] /\ mayCreate' \in [Processes -> BOOLEAN]
        /\ opened' \in [Processes -> BOOLEAN] /\ KeyHeld'
    BY <1>22, ForgetType DEF ConfigUnsynced, locals, TypeOK, KeyHeld
  <2> QED BY <1>22, <2>1, LoadedKeyType DEF ConfigUnsynced, TypeOK, KeyOrNone
<1>20. CASE Operator
  BY <1>20, EmptyIsDatabase DEF Operator, TypeOK, KeyHeld, KeyOrNone, locals
<1>21. CASE UNCHANGED vars
  BY <1>21 DEF vars, disk, locals, TypeOK, KeyHeld
<1> QED
  BY <1>1, <1>2, <1>3, <1>4, <1>5, <1>6, <1>7, <1>8, <1>9, <1>10, <1>11, <1>12, <1>13,
     <1>14, <1>15, <1>16, <1>17, <1>18, <1>19, <1>20, <1>21, <1>22 DEF Next, Startup

\* Every reachable state is typed: no process works with a key it does not have.
THEOREM TypeCorrect == Spec => []TypeOK
<1>1. TypeInv => TypeOK
  BY DEF TypeInv
<1> QED
  BY <1>1, TypeInit, TypeStep, PTL DEF Spec

-----------------------------------------------------------------------------
(* One key. *)

AfterLoad    == Locations \ {"off", "inspect", "load", "persist"}
AfterMigrate == AfterLoad \ {"sync", "table", "migrate"}

\* The envelopes of a database are under the key it verifies, which is the key of the
\* database in use and of the configuration.
Agrees(d) == /\ \A r \in Rows : d.rows[r] \in Keys => d.rows[r] = d.check
             /\ d.check \in Keys => d.check = db.check
             /\ config \in Keys /\ d.check \in Keys => d.check = config

DatabasesAgree == \A d \in durable : Agrees(d)

\* The key a process holds is the one it would load again.
SourceHeld ==
  \A p \in Processes : /\ pc[p] \in AfterLoad => LoadedKey(override[p]) = key[p]
                       /\ pc[p] = "persist" => override[p] = "none"

\* Past the transaction of protect it is the key of the database.
KeyChecked == \A p \in Processes : pc[p] \in AfterMigrate => db.check = key[p]

\* While the database has none, every process will load the key of the configuration.
ConfigPromised ==
  config \in Keys /\ db.check = "none" =>
    \A p \in Processes : pc[p] # "off" => LoadedKey(override[p]) = config

KeyInv == TypeInv /\ DatabasesAgree /\ SourceHeld /\ KeyChecked /\ ConfigPromised

LEMMA KeyInit == Init => KeyInv
<1> SUFFICES ASSUME Init PROVE KeyInv
  OBVIOUS
<1>1. PICK rows \in [Rows -> {"plain", "absent"}] : db = [EmptyDatabase EXCEPT !.rows = rows]
  BY DEF Init
<1>2. db.check = "none" /\ \A r \in Rows : db.rows[r] \notin Keys
  BY <1>1, KeysAssumption DEF EmptyDatabase
<1>3. config \notin Keys /\ "none" \notin Keys
  BY KeysAssumption DEF Init
<1>4. DatabasesAgree
  BY <1>2, <1>3 DEF Init, DatabasesAgree, Agrees
<1> QED
  BY <1>3, <1>4, TypeInit DEF Init, KeyInv, SourceHeld, KeyChecked, ConfigPromised, AfterLoad,
                        AfterMigrate

\* A transaction that keeps the verification value, and encrypts under it only, keeps the
\* databases in agreement.
LEMMA CommitAgrees ==
  ASSUME KeyInv, NEW d \in Database, UNCHANGED config, db' = d,
         durable' \subseteq durable \cup {d}, d.check = db.check,
         \A r \in Rows : d.rows[r] \in Keys => d.rows[r] = db.rows[r] \/ d.rows[r] = d.check
  PROVE  DatabasesAgree'
<1>1. Agrees(db)
  BY DEF KeyInv, DatabasesAgree, TypeInv, TypeOK
<1>2. Agrees(d)'
  BY <1>1 DEF Agrees
<1>3. ASSUME NEW e \in durable PROVE Agrees(e)'
  BY <1>3 DEF KeyInv, DatabasesAgree, Agrees
<1> QED
  BY <1>2, <1>3 DEF DatabasesAgree

\* Steps that move one process, within the same stages, and change neither the keys nor the
\* verification value.
LEMMA MoveKeeps ==
  ASSUME KeyInv, NEW p \in Processes, NEW l \in Locations, Goto(p, l),
         pc[p] # "off", pc[p] # "persist", l # "persist",
         l \in AfterLoad => pc[p] \in AfterLoad,
         l \in AfterMigrate => pc[p] \in AfterMigrate,
         UNCHANGED <<keyFile, config, override, key>>, db'.check = db.check
  PROVE  SourceHeld' /\ KeyChecked' /\ ConfigPromised'
<1> USE DEF KeyInv, TypeInv, TypeOK, Goto
<1>1. SourceHeld'
  BY DEF SourceHeld, LoadedKey
<1>2. KeyChecked'
  BY DEF KeyChecked
<1>3. ConfigPromised'
  BY DEF ConfigPromised, LoadedKey
<1> QED BY <1>1, <1>2, <1>3

LEMMA KeyStep == KeyInv /\ [Next]_vars => KeyInv'
<1> SUFFICES ASSUME KeyInv, [Next]_vars
             PROVE  DatabasesAgree' /\ SourceHeld' /\ KeyChecked' /\ ConfigPromised'
  BY TypeStep DEF KeyInv
<1> USE KeysAssumption
<1> DEFINE Goal == DatabasesAgree' /\ SourceHeld' /\ KeyChecked' /\ ConfigPromised'
<1>0. ASSUME UNCHANGED <<config, db, durable>> PROVE DatabasesAgree'
  BY <1>0 DEF KeyInv, DatabasesAgree, Agrees
<1>1. ASSUME NEW p \in Processes, Start(p) PROVE Goal
  <2>1. DatabasesAgree'
    BY <1>1, <1>0 DEF Start, disk
  <2>2. SourceHeld' /\ KeyChecked'
    BY <1>1 DEF Start, disk, Goto, KeyInv, TypeInv, TypeOK, SourceHeld, KeyChecked, AfterLoad,
                AfterMigrate, LoadedKey
  <2>3. ConfigPromised'
    BY <1>1 DEF Start, disk, Goto, KeyInv, TypeInv, TypeOK, ConfigPromised, LoadedKey
  <2> QED BY <2>1, <2>2, <2>3
<1>2. ASSUME NEW p \in Processes, Inspect(p) PROVE Goal
  BY <1>2, <1>0, MoveKeeps DEF Inspect, disk, Locations, AfterLoad, AfterMigrate
<1>3. ASSUME NEW p \in Processes, LoadKey(p) PROVE Goal
  <2>0. UNCHANGED <<disk, override>> /\ pc[p] = "load"
    BY <1>3 DEF LoadKey
  <2>1. DatabasesAgree'
    BY <2>0, <1>0 DEF disk
  <2>2. CASE LoadedKey(override[p]) # "none"
    <3>1. key' = [key EXCEPT ![p] = LoadedKey(override[p])] /\ Goto(p, "table")
      BY <1>3, <2>2 DEF LoadKey
    <3> QED BY <2>0, <2>1, <3>1 DEF Goto, KeyInv, TypeInv, TypeOK, SourceHeld, KeyChecked,
                ConfigPromised, AfterLoad, AfterMigrate, LoadedKey, disk
  <2>3. CASE LoadedKey(override[p]) = "none"
    <3>1. PICK k \in Keys : key' = [key EXCEPT ![p] = k] /\ Goto(p, "persist")
      BY <1>3, <2>3 DEF LoadKey
    <3>2. override[p] = "none"
      BY <2>3 DEF LoadedKey
    <3> QED BY <2>0, <2>1, <3>1, <3>2 DEF Goto, KeyInv, TypeInv, TypeOK, SourceHeld,
                KeyChecked, ConfigPromised, AfterLoad, AfterMigrate, LoadedKey, disk
  <2> QED BY <2>2, <2>3
<1>4. ASSUME NEW p \in Processes, PersistKey(p) PROVE Goal
  <2>0. UNCHANGED <<config, db, durable, override>> /\ pc[p] = "persist"
    BY <1>4 DEF PersistKey
  <2>1. DatabasesAgree'
    BY <2>0, <1>0
  <2>2. key[p] \in Keys /\ override[p] = "none"
    BY <2>0 DEF KeyInv, TypeInv, KeyHeld, WithKey, Locations, SourceHeld
  <2>3. CASE keyFile = "none"
    <3>1. keyFile' = key[p] /\ Goto(p, "sync") /\ UNCHANGED key
      BY <1>4, <2>3 DEF PersistKey
    <3>2. ASSUME NEW q \in Processes, pc[q] \in AfterLoad PROVE override[q] # "none"
      BY <2>3, <3>2 DEF KeyInv, TypeInv, KeyHeld, SourceHeld, LoadedKey, WithKey, AfterLoad
    <3>3. SourceHeld'
      BY <2>0, <2>2, <3>1, <3>2 DEF Goto, KeyInv, TypeInv, TypeOK, SourceHeld, LoadedKey,
                                    AfterLoad
    <3>4. KeyChecked'
      BY <2>0, <3>1 DEF Goto, KeyInv, TypeInv, TypeOK, KeyChecked, AfterMigrate, AfterLoad
    <3>5. ConfigPromised'
      BY <2>0, <2>2, <2>3, <3>1 DEF Goto, KeyInv, TypeInv, TypeOK, ConfigPromised, LoadedKey
    <3> QED BY <2>1, <3>3, <3>4, <3>5
  <2>4. CASE keyFile # "none"
    <3>1. key' = [key EXCEPT ![p] = keyFile] /\ Goto(p, "table") /\ UNCHANGED keyFile
      BY <1>4, <2>4 DEF PersistKey
    <3> QED BY <2>0, <2>1, <2>2, <3>1 DEF Goto, KeyInv, TypeInv, TypeOK, SourceHeld,
                KeyChecked, ConfigPromised, AfterLoad, AfterMigrate, LoadedKey
  <2> QED BY <2>3, <2>4
<1>5. ASSUME NEW p \in Processes, SyncKey(p) PROVE Goal
  BY <1>5, <1>0, MoveKeeps DEF SyncKey, Locations, AfterLoad, AfterMigrate
<1>6. ASSUME NEW p \in Processes, CreateTable(p) PROVE Goal
  <2> DEFINE d == [db EXCEPT !.table = TRUE]
  <2>1. d \in Database /\ d.check = db.check /\ d.rows = db.rows
    BY DEF KeyInv, TypeInv, TypeOK, Database
  <2>2. db' = d /\ durable' = durable \cup {d} /\ UNCHANGED config
    BY <1>6 DEF CreateTable, Commit
  <2> HIDE DEF d
  <2>3. DatabasesAgree'
    BY <2>1, <2>2, CommitAgrees
  <2> QED BY <1>6, <2>1, <2>2, <2>3, MoveKeeps DEF CreateTable, Locations, AfterLoad,
                                                AfterMigrate
<1>7. ASSUME NEW p \in Processes, Migrate(p) PROVE Goal
  <2> DEFINE k == key[p]
             d == Migrated(k)
  <2>0. /\ pc[p] = "migrate" /\ KeyAccepted(k) /\ Goto(p, "pending")
        /\ UNCHANGED <<keyFile, config, override, key>>
        /\ db' = d /\ durable' = durable \cup {d}
    BY <1>7 DEF Migrate, Commit
  <2>1. k \in Keys /\ LoadedKey(override[p]) = k
    BY <2>0 DEF KeyInv, TypeInv, KeyHeld, WithKey, SourceHeld, AfterLoad, Locations
  <2>2. d.check = k /\ \A r \in Rows : d.rows[r] \in Keys => d.rows[r] = k
    BY <2>0, <2>1 DEF Migrated, KeyAccepted, KeyInv, TypeInv, TypeOK, Database
  <2>3. db.check \in {"none", k}
    BY <2>0 DEF KeyAccepted
  <2>4. config \in Keys => config = k
    BY <2>0, <2>1, <2>3 DEF KeyInv, TypeInv, TypeOK, ConfigPromised, DatabasesAgree, Agrees
  <2> HIDE DEF d, k
  <2>5. ASSUME NEW e \in durable \cup {d} PROVE Agrees(e)'
    <3>1. CASE e = d
      BY <3>1, <2>0, <2>2, <2>4 DEF Agrees
    <3>2. CASE e \in durable
      <4>1. Agrees(e) /\ (e.check \in Keys => e.check = k)
        BY <3>2, <2>3, KeysAssumption DEF KeyInv, DatabasesAgree, Agrees
      <4> QED BY <4>1, <2>0, <2>2, <2>4 DEF Agrees
    <3> QED BY <2>5, <3>1, <3>2
  <2>7. DatabasesAgree'
    BY <2>0, <2>5 DEF DatabasesAgree
  <2>8. SourceHeld'
    BY <2>0 DEF Goto, KeyInv, TypeInv, TypeOK, SourceHeld, LoadedKey, AfterLoad, Locations
  <2>9. KeyChecked'
    <3>1. ASSUME NEW q \in Processes, pc[q] \in AfterMigrate PROVE key[q] = k
      BY <2>3, <3>1 DEF KeyInv, KeyChecked, TypeInv, KeyHeld, WithKey, AfterMigrate, AfterLoad
    <3> QED BY <2>0, <2>2, <3>1 DEF Goto, KeyInv, TypeInv, TypeOK, KeyChecked, k
  <2>10. ConfigPromised'
    BY <2>0, <2>1, <2>2 DEF ConfigPromised
  <2> QED BY <2>7, <2>8, <2>9, <2>10
<1>8. ASSUME NEW p \in Processes, ReadPending(p) PROVE Goal
  <2>1. PICK l \in {"checkpoint", "running", "config"} : Goto(p, l)
    BY <1>8 DEF ReadPending, AfterProtect
  <2> QED BY <1>8, <2>1, <1>0, MoveKeeps DEF ReadPending, disk, Locations, AfterLoad,
                                             AfterMigrate
<1>9. ASSUME NEW p \in Processes, Checkpoint(p) PROVE Goal
  <2> DEFINE d == [db EXCEPT !.residue = IF @ = "compacted" THEN "none" ELSE @]
  <2>1. d \in Database /\ d.check = db.check /\ d.rows = db.rows
    BY DEF KeyInv, TypeInv, TypeOK, Database
  <2>2. db' = d /\ durable' = {d} /\ UNCHANGED config
    BY <1>9 DEF Checkpoint
  <2>3. PICK l \in {"vacuum", "clear", "running", "config"} : Goto(p, l)
    BY <1>9 DEF Checkpoint, AfterCheckpoint, AfterProtect
  <2> HIDE DEF d
  <2>4. DatabasesAgree'
    BY <2>1, <2>2, CommitAgrees
  <2> QED BY <1>9, <2>1, <2>2, <2>3, <2>4, MoveKeeps DEF Checkpoint, Locations, AfterLoad,
                                                      AfterMigrate
<1>10. ASSUME NEW p \in Processes, Vacuum(p) PROVE Goal
  <2> DEFINE d == [db EXCEPT !.residue = IF @ = "pages" THEN "compacted" ELSE @]
  <2>1. d \in Database /\ d.check = db.check /\ d.rows = db.rows
    BY DEF KeyInv, TypeInv, TypeOK, Database
  <2>2. db' = d /\ durable' = durable \cup {d} /\ UNCHANGED config
    BY <1>10 DEF Vacuum, Commit
  <2> HIDE DEF d
  <2>3. DatabasesAgree'
    BY <2>1, <2>2, CommitAgrees
  <2> QED BY <1>10, <2>1, <2>2, <2>3, MoveKeeps DEF Vacuum, Locations, AfterLoad, AfterMigrate
<1>11. ASSUME NEW p \in Processes, ClearMarker(p) PROVE Goal
  <2> DEFINE d == [db EXCEPT !.pending = FALSE]
  <2>1. d \in Database /\ d.check = db.check /\ d.rows = db.rows
    BY DEF KeyInv, TypeInv, TypeOK, Database
  <2>2. db' = d /\ durable' = durable \cup {d} /\ UNCHANGED config
    BY <1>11 DEF ClearMarker, Commit
  <2> HIDE DEF d
  <2>3. DatabasesAgree'
    BY <2>1, <2>2, CommitAgrees
  <2> QED BY <1>11, <2>1, <2>2, <2>3, MoveKeeps DEF ClearMarker, Locations, AfterLoad,
                                                 AfterMigrate
<1>12. ASSUME NEW p \in Processes, ReadConfig(p) PROVE Goal
  <2>1. PICK l \in {"rewrite", "inspect"} : Goto(p, l)
    BY <1>12 DEF ReadConfig
  <2> QED BY <1>12, <2>1, <1>0, MoveKeeps DEF ReadConfig, disk, Locations, AfterLoad,
                                              AfterMigrate
<1>13. ASSUME NEW p \in Processes, pc[p] \in {"rewrite", "running"},
              config' = LoadedKey(override[p]), UNCHANGED <<db, durable>>
       PROVE  DatabasesAgree' /\ db.check \in Keys
  <2>1. key[p] \in Keys /\ config' = key[p] /\ db.check = key[p]
    BY <1>13 DEF KeyInv, TypeInv, KeyHeld, WithKey, SourceHeld, KeyChecked, AfterLoad,
                 AfterMigrate, Locations
  <2> QED BY <1>13, <2>1 DEF KeyInv, DatabasesAgree, Agrees
<1>14. ASSUME NEW p \in Processes, RewriteConfig(p) PROVE Goal
  <2>1. DatabasesAgree' /\ db.check # "none"
    BY <1>13, <1>14 DEF RewriteConfig, WriteConfig
  <2> QED BY <1>14, <2>1 DEF RewriteConfig, Goto, KeyInv, TypeInv, TypeOK, SourceHeld,
              KeyChecked, ConfigPromised, AfterLoad, AfterMigrate, LoadedKey
<1>15. ASSUME NEW p \in Processes, SaveDevice(p) PROVE Goal
  <2>1. PICK r \in Rows : Commit([db EXCEPT !.rows[r] = key[p]])
    BY <1>15 DEF SaveDevice
  <2> DEFINE d == [db EXCEPT !.rows[r] = key[p]]
  <2>2. key[p] \in Keys /\ db.check = key[p]
    BY <1>15 DEF SaveDevice, KeyInv, TypeInv, KeyHeld, WithKey, KeyChecked, AfterLoad,
                 AfterMigrate, Locations
  <2>3. /\ d \in Database /\ d.check = db.check
        /\ \A x \in Rows : d.rows[x] = db.rows[x] \/ d.rows[x] = d.check
    BY <2>2 DEF KeyInv, TypeInv, TypeOK, Database
  <2>4. db' = d /\ durable' = durable \cup {d} /\ UNCHANGED <<config, keyFile, locals>>
    BY <1>15, <2>1 DEF SaveDevice, Commit
  <2> HIDE DEF d
  <2>5. DatabasesAgree'
    BY <2>3, <2>4, CommitAgrees
  <2> QED BY <2>3, <2>4, <2>5 DEF locals, KeyInv, SourceHeld, KeyChecked, ConfigPromised,
                                  LoadedKey
<1>16. ASSUME NEW p \in Processes, RemoveDevice(p) PROVE Goal
  <2>1. PICK r \in Rows : Commit([db EXCEPT !.rows[r] = "absent"])
    BY <1>16 DEF RemoveDevice
  <2> DEFINE d == [db EXCEPT !.rows[r] = "absent"]
  <2>2. /\ d \in Database /\ d.check = db.check
        /\ \A x \in Rows : d.rows[x] \in Keys => d.rows[x] = db.rows[x]
    BY DEF KeyInv, TypeInv, TypeOK, Database
  <2>3. db' = d /\ durable' = durable \cup {d} /\ UNCHANGED <<config, keyFile, locals>>
    BY <1>16, <2>1 DEF RemoveDevice, Commit
  <2> HIDE DEF d
  <2>4. DatabasesAgree'
    BY <2>2, <2>3, CommitAgrees
  <2> QED BY <2>2, <2>3, <2>4 DEF locals, KeyInv, SourceHeld, KeyChecked, ConfigPromised,
                                  LoadedKey
<1>17. ASSUME NEW p \in Processes, SaveSettings(p) PROVE Goal
  <2>1. DatabasesAgree' /\ db.check # "none"
    BY <1>13, <1>17 DEF SaveSettings, WriteConfig
  <2> QED BY <1>17, <2>1 DEF SaveSettings, locals, KeyInv, SourceHeld, KeyChecked,
                             ConfigPromised, LoadedKey
<1>18. ASSUME NEW p \in Processes, Reopen(p) PROVE Goal
  BY <1>18, <1>0, MoveKeeps DEF Reopen, disk, Locations, AfterLoad, AfterMigrate
<1>19. ASSUME NEW p \in Processes, Stop(p) PROVE Goal
  BY <1>19, <1>0 DEF Stop, Forget, disk, KeyInv, TypeInv, TypeOK, SourceHeld, KeyChecked,
                     ConfigPromised, AfterLoad, AfterMigrate, LoadedKey
<1>23. ASSUME NEW p \in Processes, ConfigUnsynced(p) PROVE Goal
  <2>1. DatabasesAgree' /\ db.check # "none" /\ UNCHANGED <<keyFile, db>>
    BY <1>13, <1>23 DEF ConfigUnsynced
  <2>2. CASE UNCHANGED locals
    BY <2>1, <2>2 DEF locals, KeyInv, SourceHeld, KeyChecked, ConfigPromised, LoadedKey
  <2>3. CASE Forget({p})
    BY <2>1, <2>3 DEF Forget, KeyInv, TypeInv, TypeOK, SourceHeld, KeyChecked, ConfigPromised,
                      AfterLoad, AfterMigrate, LoadedKey
  <2> QED BY <1>23, <2>2, <2>3 DEF ConfigUnsynced
<1>20. CASE PowerLoss
  <2>1. PICK d \in durable : db' = d /\ durable' = {d}
    BY <1>20 DEF PowerLoss
  <2>2. DatabasesAgree'
    BY <1>20, <2>1 DEF PowerLoss, KeyInv, DatabasesAgree, Agrees
  <2>3. \A p \in Processes : pc'[p] = "off"
    BY <1>20 DEF PowerLoss, Forget
  <2> QED BY <2>2, <2>3 DEF SourceHeld, KeyChecked, ConfigPromised, AfterLoad, AfterMigrate
<1>21. CASE Operator
  <2>1. \A p \in Processes : pc'[p] = "off"
    BY <1>21 DEF Operator, AllOff, locals
  <2>2. DatabasesAgree'
    <3>1. CASE UNCHANGED <<config, db, durable>>
      BY <3>1, <1>0
    <3>2. CASE UNCHANGED config /\ db' = EmptyDatabase /\ durable' = {EmptyDatabase}
      BY <3>2 DEF DatabasesAgree, Agrees, EmptyDatabase
    <3>3. CASE config' = "plain" /\ UNCHANGED <<db, durable>>
      BY <3>3 DEF KeyInv, DatabasesAgree, Agrees
    <3> QED BY <1>21, <3>1, <3>2, <3>3 DEF Operator
  <2> QED BY <2>1, <2>2 DEF SourceHeld, KeyChecked, ConfigPromised, AfterLoad, AfterMigrate
<1>22. CASE UNCHANGED vars
  BY <1>22, <1>0 DEF vars, disk, locals, KeyInv, SourceHeld, KeyChecked, ConfigPromised,
                     LoadedKey
<1> QED
  BY <1>1, <1>2, <1>3, <1>4, <1>5, <1>6, <1>7, <1>8, <1>9, <1>10, <1>11, <1>12, <1>14, <1>15,
     <1>16, <1>17, <1>18, <1>19, <1>20, <1>21, <1>22, <1>23 DEF Next, Startup

\* Everything encrypted in the data directory is under one master key: rows, verification
\* value and configuration, whatever starts, races, crashes and losses of power there were.
THEOREM OneKeyForAll == Spec => []OneKey
<1>1. KeyInv => OneKey
  BY DEF KeyInv, TypeInv, TypeOK, DatabasesAgree, Agrees, OneKey, KeysInUse
<1> QED
  BY <1>1, TypeInit, KeyInit, KeyStep, PTL DEF Spec

-----------------------------------------------------------------------------
(* Old plaintext. *)

AfterFlush == {"clear", "final", "config", "rewrite", "running"}

\* In whatever a loss of power may leave, the marker stands while residue is left.
Marked == \A d \in durable : d.residue # "none" => d.pending

\* What a process that has come so far relies on.
CleanAt(p) ==
  /\ pc[p] \in AfterMigrate => \A r \in Rows : db.rows[r] # "plain"
  /\ pc[p] = "flush"        => db.residue # "pages"
  /\ pc[p] \in AfterFlush   => db.residue = "none"
  /\ pc[p] = "running"      => opened[p]
  /\ opened[p]              => config # "plain" /\ pc[p] # "off"

CleanInv == TypeInv /\ Marked /\ \A p \in Processes : CleanAt(p)

LEMMA CleanInit == Init => CleanInv
<1> SUFFICES ASSUME Init PROVE CleanInv
  OBVIOUS
<1>1. db.residue = "none"
  BY DEF Init, EmptyDatabase
<1> QED
  BY <1>1, TypeInit DEF Init, CleanInv, Marked, CleanAt, AfterMigrate, AfterLoad, AfterFlush

\* A change of the database that brings in no plaintext and no residue keeps what the
\* processes rely on, while one of them moves to where it may.
LEMMA MoveStaysClean ==
  ASSUME CleanInv, NEW p \in Processes, NEW l \in Locations \ {"off"},
         pc' = [pc EXCEPT ![p] = l], pc[p] # "off",
         UNCHANGED opened,
         config' = "plain" => config = "plain",
         \A r \in Rows : db'.rows[r] = "plain" => db.rows[r] = "plain",
         db'.residue = "pages" => db.residue = "pages",
         db.residue = "none" => db'.residue = "none",
         l \in AfterMigrate => \A r \in Rows : db'.rows[r] # "plain",
         l = "flush" => db'.residue # "pages",
         l \in AfterFlush => db'.residue = "none",
         l = "running" => opened[p]
  PROVE  \A q \in Processes : CleanAt(q)'
<1> SUFFICES ASSUME NEW q \in Processes PROVE CleanAt(q)'
  OBVIOUS
<1>1. CleanAt(q) /\ pc \in [Processes -> Locations]
  BY DEF CleanInv, TypeInv, TypeOK
<1>2. CASE q = p
  BY <1>1, <1>2 DEF CleanAt
<1>3. CASE q # p
  <2>1. pc'[q] = pc[q]
    BY <1>1, <1>3
  <2> QED BY <1>1, <2>1 DEF CleanAt
<1> QED BY <1>2, <1>3

LEMMA CleanStep == CleanInv /\ [Next]_vars => CleanInv'
<1> SUFFICES ASSUME CleanInv, [Next]_vars
             PROVE  Marked' /\ \A q \in Processes : CleanAt(q)'
  BY TypeStep DEF CleanInv
<1> USE KeysAssumption
<1> DEFINE Goal == Marked' /\ \A q \in Processes : CleanAt(q)'
<1>0. db \in durable /\ db \in Database /\ pc \in [Processes -> Locations]
  BY DEF CleanInv, TypeInv, TypeOK
<1>a. ASSUME UNCHANGED durable PROVE Marked'
  BY <1>a DEF CleanInv, Marked
\* A step that only moves one process within the stages.
<1>b. ASSUME NEW p \in Processes, NEW l \in Locations \ {"off", "flush", "running"}, Goto(p, l),
             pc[p] # "off", UNCHANGED <<config, db, durable, opened>>,
             l \in AfterMigrate => pc[p] \in AfterMigrate,
             l \in AfterFlush => db.residue = "none"
      PROVE  Goal
  <2>1. \A q \in Processes : CleanAt(q)'
    BY <1>b, MoveStaysClean DEF Goto, CleanInv, CleanAt
  <2> QED BY <1>a, <1>b, <2>1
<1>1. ASSUME NEW p \in Processes, Start(p) PROVE Goal
  <2>1. \A q \in Processes : CleanAt(q)'
    BY <1>1, <1>0 DEF Start, disk, Goto, CleanInv, CleanAt, AfterMigrate, AfterLoad, AfterFlush
  <2> QED BY <1>1, <1>a, <2>1 DEF Start, disk
<1>2. ASSUME NEW p \in Processes, Inspect(p) PROVE Goal
  BY <1>2, <1>b DEF Inspect, disk, Locations, AfterMigrate, AfterLoad, AfterFlush
<1>3. ASSUME NEW p \in Processes, LoadKey(p) PROVE Goal
  <2>1. PICK l \in {"table", "persist"} : Goto(p, l)
    BY <1>3 DEF LoadKey
  <2>2. pc[p] = "load" /\ UNCHANGED <<disk, opened>>
    BY <1>3 DEF LoadKey
  <2> QED BY <2>1, <2>2, <1>b DEF disk, Locations, AfterMigrate, AfterLoad, AfterFlush
<1>4. ASSUME NEW p \in Processes, PersistKey(p) PROVE Goal
  <2>1. PICK l \in {"sync", "table"} : Goto(p, l)
    BY <1>4 DEF PersistKey
  <2>2. pc[p] = "persist" /\ UNCHANGED <<config, db, durable, opened>>
    BY <1>4 DEF PersistKey
  <2> QED BY <2>1, <2>2, <1>b DEF Locations, AfterMigrate, AfterLoad, AfterFlush
<1>5. ASSUME NEW p \in Processes, SyncKey(p) PROVE Goal
  BY <1>5, <1>b DEF SyncKey, Locations, AfterMigrate, AfterLoad, AfterFlush
<1>6. ASSUME NEW p \in Processes, CreateTable(p) PROVE Goal
  <2>1. db'.rows = db.rows /\ db'.residue = db.residue /\ db'.pending = db.pending
    BY <1>6, <1>0 DEF CreateTable, Commit, Database
  <2>2. \A q \in Processes : CleanAt(q)'
    BY <1>6, <2>1, MoveStaysClean DEF CreateTable, Goto, Locations, AfterMigrate, AfterLoad,
                                      AfterFlush
  <2> QED BY <1>6, <1>0, <2>1, <2>2 DEF CreateTable, Commit, CleanInv, Marked
<1>7. ASSUME NEW p \in Processes, Migrate(p) PROVE Goal
  <2>0. key[p] \in Keys
    BY <1>7 DEF Migrate, CleanInv, TypeInv, KeyHeld, WithKey, Locations
  <2>1. /\ \A r \in Rows : db'.rows[r] # "plain"
        /\ db'.residue = IF HasPlaintext THEN "pages" ELSE db.residue
        /\ db'.pending = (db.pending \/ HasPlaintext)
        /\ durable' = durable \cup {db'}
    BY <1>7, <1>0, <2>0 DEF Migrate, Migrated, Commit, Database
  <2>2. Marked'
    BY <1>0, <2>1 DEF CleanInv, Marked
  <2>3. ASSUME NEW q \in Processes PROVE CleanAt(q)'
    <3>1. CASE HasPlaintext
      <4>1. pc[q] \notin AfterMigrate
        BY <3>1 DEF HasPlaintext, CleanInv, CleanAt
      <4> QED BY <4>1, <1>0, <1>7, <2>1 DEF Migrate, Goto, CleanInv, CleanAt, AfterMigrate,
                                            AfterLoad, AfterFlush, Locations
    <3>2. CASE ~HasPlaintext
      <4>1. \A r \in Rows : db.rows[r] # "plain"
        BY <3>2 DEF HasPlaintext
      <4>2. db'.residue = db.residue /\ UNCHANGED <<config, opened>>
        BY <3>2, <2>1, <1>7 DEF Migrate
      <4>3. pc' = [pc EXCEPT ![p] = "pending"] /\ pc[p] = "migrate"
        BY <1>7 DEF Migrate, Goto
      <4> QED BY <4>2, <4>3, <2>1, MoveStaysClean DEF Locations, AfterFlush
    <3> QED BY <3>1, <3>2
  <2> QED BY <2>2, <2>3
<1>8. ASSUME NEW p \in Processes, ReadPending(p) PROVE Goal
  <2>0. pc[p] = "pending" /\ UNCHANGED <<disk, opened>>
    BY <1>8 DEF ReadPending
  <2>1. CASE db.pending
    BY <1>8, <2>0, <2>1, <1>b DEF ReadPending, disk, Locations, AfterMigrate, AfterLoad,
                                  AfterFlush
  <2>2. CASE ~db.pending
    <3>1. db.residue = "none"
      BY <2>2, <1>0 DEF CleanInv, Marked
    <3>2. pc' = [pc EXCEPT ![p] = AfterProtect(p)]
      BY <1>8, <2>2 DEF ReadPending, Goto
    <3>3. \A r \in Rows : db.rows[r] # "plain"
      BY <2>0 DEF CleanInv, CleanAt, AfterMigrate, AfterLoad, Locations
    <3>4. /\ AfterProtect(p) \in Locations \ {"off", "flush"}
          /\ AfterProtect(p) = "running" => opened[p]
      BY DEF AfterProtect, Locations
    <3>5. \A q \in Processes : CleanAt(q)'
      BY <2>0, <3>1, <3>2, <3>3, <3>4, MoveStaysClean DEF disk
    <3> QED BY <2>0, <3>5, <1>a DEF disk
  <2> QED BY <2>1, <2>2
<1>9. ASSUME NEW p \in Processes, Checkpoint(p) PROVE Goal
  <2>1. /\ db'.rows = db.rows /\ db'.pending = db.pending /\ durable' = {db'}
        /\ db'.residue = IF db.residue = "compacted" THEN "none" ELSE db.residue
    BY <1>9, <1>0 DEF Checkpoint, Database
  <2>2. Marked'
    BY <1>0, <2>1 DEF CleanInv, Marked
  <2>3. \A r \in Rows : db.rows[r] # "plain"
    BY <1>9 DEF Checkpoint, CleanInv, CleanAt, AfterMigrate, AfterLoad, Locations
  <2>4. /\ AfterCheckpoint(p) \in {"vacuum", "clear", "running", "config"}
        /\ AfterCheckpoint(p) = "running" => opened[p]
        /\ AfterCheckpoint(p) = "vacuum" <=> pc[p] = "checkpoint"
    BY <1>9 DEF Checkpoint, AfterCheckpoint, AfterProtect
  <2>5. pc[p] # "checkpoint" => db'.residue = "none"
    BY <1>9, <1>0, <2>1 DEF Checkpoint, CleanInv, CleanAt, AfterFlush, Database
  <2>6. pc' = [pc EXCEPT ![p] = AfterCheckpoint(p)] /\ pc[p] # "off" /\ UNCHANGED <<config, opened>>
    BY <1>9 DEF Checkpoint, Goto
  <2>7. \A q \in Processes : CleanAt(q)'
    BY <2>1, <2>3, <2>4, <2>5, <2>6, MoveStaysClean DEF Locations, AfterFlush
  <2> QED BY <2>2, <2>7
<1>10. ASSUME NEW p \in Processes, Vacuum(p) PROVE Goal
  <2>1. /\ db'.rows = db.rows /\ db'.pending = db.pending /\ durable' = durable \cup {db'}
        /\ db'.residue = IF db.residue = "pages" THEN "compacted" ELSE db.residue
    BY <1>10, <1>0 DEF Vacuum, Commit, Database
  <2>2. Marked'
    BY <1>0, <2>1 DEF CleanInv, Marked
  <2>3. \A r \in Rows : db.rows[r] # "plain"
    BY <1>10 DEF Vacuum, CleanInv, CleanAt, AfterMigrate, AfterLoad, Locations
  <2>4. pc' = [pc EXCEPT ![p] = "flush"] /\ pc[p] # "off" /\ UNCHANGED <<config, opened>>
    BY <1>10 DEF Vacuum, Goto
  <2>5. \A q \in Processes : CleanAt(q)'
    BY <2>1, <2>3, <2>4, MoveStaysClean DEF Locations, AfterFlush
  <2> QED BY <2>2, <2>5
<1>11. ASSUME NEW p \in Processes, ClearMarker(p) PROVE Goal
  <2>1. /\ db'.rows = db.rows /\ db'.residue = db.residue /\ durable' = durable \cup {db'}
    BY <1>11, <1>0 DEF ClearMarker, Commit, Database
  <2>2. db.residue = "none" /\ \A r \in Rows : db.rows[r] # "plain"
    BY <1>11 DEF ClearMarker, CleanInv, CleanAt, AfterMigrate, AfterLoad, AfterFlush, Locations
  <2>3. Marked'
    BY <2>1, <2>2 DEF CleanInv, Marked
  <2>4. pc' = [pc EXCEPT ![p] = "final"] /\ pc[p] # "off" /\ UNCHANGED <<config, opened>>
    BY <1>11 DEF ClearMarker, Goto
  <2>5. \A q \in Processes : CleanAt(q)'
    BY <2>1, <2>2, <2>4, MoveStaysClean DEF Locations
  <2> QED BY <2>3, <2>5
<1>12. ASSUME NEW p \in Processes, ReadConfig(p) PROVE Goal
  <2>1. pc[p] = "config" /\ UNCHANGED <<config, db, durable>>
    BY <1>12 DEF ReadConfig, disk
  <2>2. CASE config = "plain"
    <3>1. Goto(p, "rewrite") /\ UNCHANGED opened
      BY <1>12, <2>2 DEF ReadConfig
    <3>2. db.residue = "none"
      BY <2>1 DEF CleanInv, CleanAt, AfterFlush
    <3> QED BY <2>1, <3>1, <3>2, <1>b DEF Locations, AfterMigrate, AfterLoad, AfterFlush
  <2>3. CASE config # "plain"
    <3>1. Goto(p, "inspect") /\ opened' = [opened EXCEPT ![p] = TRUE]
      BY <1>12, <2>3 DEF ReadConfig
    <3> QED BY <2>1, <2>3, <3>1, <1>0, <1>a DEF Goto, CleanInv, CleanAt, AfterMigrate,
                                                AfterLoad, AfterFlush
  <2> QED BY <2>2, <2>3
<1>13. ASSUME NEW p \in Processes PROVE LoadedKey(override[p]) # "plain"
  BY LoadedKeyType DEF CleanInv, TypeInv, KeyOrNone
<1>14. ASSUME NEW p \in Processes, RewriteConfig(p) PROVE Goal
  <2>1. /\ pc[p] = "rewrite" /\ UNCHANGED <<db, durable>>
        /\ Goto(p, "inspect") /\ opened' = [opened EXCEPT ![p] = TRUE] /\ config' # "plain"
    BY <1>13, <1>14 DEF RewriteConfig, WriteConfig
  <2> QED BY <2>1, <1>0, <1>a DEF Goto, CleanInv, CleanAt, AfterMigrate, AfterLoad, AfterFlush
<1>15. ASSUME NEW p \in Processes, SaveDevice(p) PROVE Goal
  <2>1. PICK r \in Rows : Commit([db EXCEPT !.rows[r] = key[p]])
    BY <1>15 DEF SaveDevice
  <2>2. key[p] \in Keys
    BY <1>15 DEF SaveDevice, CleanInv, TypeInv, KeyHeld, WithKey, Locations
  <2>3. /\ \A x \in Rows : db'.rows[x] = "plain" => db.rows[x] = "plain"
        /\ db'.residue = db.residue /\ db'.pending = db.pending
        /\ durable' = durable \cup {db'}
    BY <1>0, <2>1, <2>2 DEF Commit, Database
  <2> QED BY <1>0, <1>15, <2>3 DEF SaveDevice, locals, CleanInv, Marked, CleanAt
<1>16. ASSUME NEW p \in Processes, RemoveDevice(p) PROVE Goal
  <2>1. PICK r \in Rows : Commit([db EXCEPT !.rows[r] = "absent"])
    BY <1>16 DEF RemoveDevice
  <2>2. /\ \A x \in Rows : db'.rows[x] = "plain" => db.rows[x] = "plain"
        /\ db'.residue = db.residue /\ db'.pending = db.pending
        /\ durable' = durable \cup {db'}
    BY <1>0, <2>1 DEF Commit, Database
  <2> QED BY <1>0, <1>16, <2>2 DEF RemoveDevice, locals, CleanInv, Marked, CleanAt
<1>17. ASSUME NEW p \in Processes, SaveSettings(p) PROVE Goal
  BY <1>13, <1>17, <1>a DEF SaveSettings, WriteConfig, locals, CleanInv, CleanAt
<1>18. ASSUME NEW p \in Processes, Reopen(p) PROVE Goal
  BY <1>18, <1>b DEF Reopen, disk, Locations, AfterMigrate, AfterLoad, AfterFlush
<1>19. ASSUME NEW p \in Processes, Stop(p) PROVE Goal
  BY <1>19, <1>0, <1>a DEF Stop, Forget, disk, CleanInv, CleanAt, AfterMigrate, AfterLoad,
                           AfterFlush
<1>23. ASSUME NEW p \in Processes, ConfigUnsynced(p) PROVE Goal
  <2>1. config' # "plain" /\ UNCHANGED <<db, durable>>
    BY <1>13, <1>23 DEF ConfigUnsynced
  <2>2. CASE UNCHANGED locals
    BY <1>a, <2>1, <2>2 DEF locals, CleanInv, CleanAt
  <2>3. CASE Forget({p})
    BY <1>0, <1>a, <2>1, <2>3 DEF Forget, CleanInv, CleanAt, AfterMigrate, AfterLoad, AfterFlush
  <2> QED BY <1>23, <2>2, <2>3 DEF ConfigUnsynced
<1>20. CASE PowerLoss
  BY <1>20 DEF PowerLoss, Forget, CleanInv, Marked, CleanAt, AfterMigrate, AfterLoad,
               AfterFlush
<1>21. CASE Operator
  <2>1. \A q \in Processes : pc'[q] = "off" /\ ~opened'[q]
    BY <1>21 DEF Operator, AllOff, locals, CleanInv, CleanAt
  <2>2. durable' \in {durable, {EmptyDatabase}}
    BY <1>21 DEF Operator
  <2> QED BY <2>1, <2>2 DEF CleanInv, Marked, CleanAt, EmptyDatabase, AfterMigrate, AfterLoad,
                            AfterFlush
<1>22. CASE UNCHANGED vars
  BY <1>22, <1>a DEF vars, disk, locals, CleanInv, CleanAt
<1> QED
  BY <1>1, <1>2, <1>3, <1>4, <1>5, <1>6, <1>7, <1>8, <1>9, <1>10, <1>11, <1>12, <1>14, <1>15,
     <1>16, <1>17, <1>18, <1>19, <1>20, <1>21, <1>22, <1>23 DEF Next, Startup

\* Residue of old plaintext is marked for cleanup until it is gone, through every crash and
\* loss of power.
THEOREM ResidueRemembered == Spec => []CleanupRemembered
<1>1. CleanInv => CleanupRemembered
  BY DEF CleanInv, TypeInv, TypeOK, Marked, CleanupRemembered
<1> QED
  BY <1>1, CleanInit, CleanStep, PTL DEF Spec

\* Whoever has started works on a data directory without plaintext.
THEOREM CleanOnceOpened == Spec => []OpenedClean
<1>1. CleanInv => OpenedClean
  BY DEF CleanInv, CleanAt, OpenedClean, HasPlaintext, AfterMigrate, AfterLoad, AfterFlush,
         Locations
<1> QED
  BY <1>1, CleanInit, CleanStep, PTL DEF Spec

-----------------------------------------------------------------------------
(* The key is kept. *)

\* The keys the envelopes of the configuration and of a database need.
NeededBy(d) == Keys \cap ({config, d.check} \cup {d.rows[r] : r \in Rows})

Safe(k) == k \in Overrides \cup lost \cup exposed \/ keyFile = k

\* Whatever a loss of power leaves of the database, its key is there.
Kept == \A d \in durable : \A k \in NeededBy(d) : Safe(k)

\* A loss of power may take a key file only while its creator is about to synchronise it,
\* or when it ended there.
UnsyncedIsExposed ==
  ~synced => \A k \in Keys : keyFile = k =>
    k \in Overrides \cup lost \cup exposed \/ \E p \in Processes : pc[p] = "sync" /\ key[p] = k

KeptInv == KeyInv /\ Kept /\ UnsyncedIsExposed

LEMMA KeptInit == Init => KeptInv
<1> SUFFICES ASSUME Init PROVE KeptInv
  OBVIOUS
<1>1. PICK rows \in [Rows -> {"plain", "absent"}] : db = [EmptyDatabase EXCEPT !.rows = rows]
  BY DEF Init
<1>2. NeededBy(db) = {}
  BY <1>1, KeysAssumption DEF Init, NeededBy, EmptyDatabase
<1> QED
  BY <1>2, KeyInit DEF Init, KeptInv, Kept, UnsyncedIsExposed

\* A process that may use its key has it from the operator or from the file.
LEMMA UsedKeyIsKept ==
  ASSUME KeyInv, NEW p \in Processes, pc[p] \in AfterLoad
  PROVE  key[p] \in Keys /\ (key[p] \in Overrides \/ keyFile = key[p])
BY KeysAssumption
DEF KeyInv, TypeInv, TypeOK, KeyHeld, WithKey, SourceHeld, AfterLoad, Locations, LoadedKey

\* A key in the file is as safe when it is no longer exposed.
LEMMA SafeStays ==
  ASSUME NEW k, Safe(k), UNCHANGED <<keyFile, lost>>, exposed \ {keyFile} \subseteq exposed'
  PROVE  Safe(k)'
BY DEF Safe

\* A process writes nothing that needs another key than its own.
LEMMA WriteKeeps ==
  ASSUME KeptInv, NEW p \in Processes, pc[p] \in AfterLoad,
         NEW d \in Database, durable' \subseteq durable \cup {d},
         d.check \in {db.check, key[p]},
         \A r \in Rows : d.rows[r] \in Keys => d.rows[r] \in {db.rows[r], key[p]},
         config' \in Keys => config' \in {config, key[p]},
         UNCHANGED <<keyFile, lost>>, exposed \ {keyFile} \subseteq exposed'
  PROVE  Kept'
<1>1. db \in durable
  BY DEF KeptInv, KeyInv, TypeInv, TypeOK
<1>2. ASSUME NEW e \in durable', NEW k \in NeededBy(e)'
      PROVE  k = key[p] \/ k \in NeededBy(db) \/ (e \in durable /\ k \in NeededBy(e))
  BY <1>2 DEF NeededBy
<1>3. Safe(key[p])
  BY UsedKeyIsKept DEF KeptInv, Safe
<1>4. ASSUME NEW e \in durable', NEW k \in NeededBy(e)' PROVE Safe(k)
  BY <1>1, <1>2, <1>3 DEF KeptInv, Kept
<1> QED
  BY <1>4, SafeStays DEF Kept

\* Steps that write neither keys nor envelopes.
LEMMA ReadKeeps ==
  ASSUME KeptInv, UNCHANGED <<keyFile, config, lost>>, durable' \subseteq durable,
         exposed \ {keyFile} \subseteq exposed'
  PROVE  Kept'
<1>1. \A d \in durable : NeededBy(d)' = NeededBy(d)
  BY DEF NeededBy
<1> QED
  BY <1>1, SafeStays DEF KeptInv, Kept

\* The creator of a key file stays where it is while another process moves.
LEMMA CreatorStays ==
  ASSUME KeptInv, UNCHANGED <<keyFile, lost>>, exposed \subseteq exposed', synced' \/ synced' = synced,
         \A q \in Processes : pc[q] = "sync" => pc'[q] = "sync" /\ key'[q] = key[q]
  PROVE  UnsyncedIsExposed'
BY DEF KeptInv, UnsyncedIsExposed

LEMMA KeptStep == KeptInv /\ [Next]_vars => KeptInv'
<1> SUFFICES ASSUME KeptInv, [Next]_vars PROVE Kept' /\ UnsyncedIsExposed'
  BY KeyStep DEF KeptInv
<1> USE KeysAssumption
<1> DEFINE Goal == Kept' /\ UnsyncedIsExposed'
<1>0. /\ db \in Database /\ db \in durable /\ pc \in [Processes -> Locations]
      /\ key \in [Processes -> KeyOrNone] /\ lost \subseteq Keys
  BY DEF KeptInv, KeyInv, TypeInv, TypeOK
\* A process that is not at the synchronisation moves.
<1>a. ASSUME NEW p \in Processes, NEW l, Goto(p, l), pc[p] # "sync",
             \A q \in Processes \ {p} : key'[q] = key[q], UNCHANGED <<keyFile, lost>>,
             exposed \subseteq exposed', synced' \/ synced' = synced
      PROVE  UnsyncedIsExposed'
  <2>1. \A q \in Processes : pc[q] = "sync" => pc'[q] = "sync" /\ key'[q] = key[q]
    BY <1>0, <1>a DEF Goto
  <2> QED
    BY <1>a, <2>1, CreatorStays
<1>1. ASSUME NEW p \in Processes,
             Start(p) \/ Inspect(p) \/ LoadKey(p) \/ ReadPending(p) \/ ReadConfig(p) \/ Reopen(p)
      PROVE  Goal
  <2>1. /\ UNCHANGED <<keyFile, config, durable, lost, synced, exposed>>
        /\ pc[p] # "sync" /\ \E l \in Locations : Goto(p, l)
    BY <1>1 DEF Start, Inspect, LoadKey, ReadPending, AfterProtect, ReadConfig, Reopen, disk, Locations
  <2>2. \A q \in Processes \ {p} : key'[q] = key[q]
    BY <1>0, <1>1 DEF Start, Inspect, LoadKey, ReadPending, ReadConfig, Reopen
  <2>3. Kept'
    BY <2>1, ReadKeeps
  <2> QED
    BY <1>a, <2>1, <2>2, <2>3
<1>3. ASSUME NEW p \in Processes, PersistKey(p) PROVE Goal
  <2>0. pc[p] = "persist" /\ UNCHANGED <<config, durable, lost, exposed>>
    BY <1>3 DEF PersistKey
  <2>1. CASE keyFile # "none"
    <3>1. UNCHANGED <<keyFile, synced>> /\ Goto(p, "table") /\ key' = [key EXCEPT ![p] = keyFile]
      BY <1>3, <2>1 DEF PersistKey
    <3>2. Kept'
      BY <2>0, <3>1, ReadKeeps
    <3>3. UnsyncedIsExposed'
      BY <1>0, <1>a, <2>0, <3>1
    <3> QED
      BY <3>2, <3>3
  <2>2. CASE keyFile = "none"
    <3>1. keyFile' = key[p] /\ Goto(p, "sync") /\ UNCHANGED key
      BY <1>3, <2>2 DEF PersistKey
    <3>2. \A d \in durable : NeededBy(d)' = NeededBy(d)
      BY <2>0 DEF NeededBy
    <3>3. \A d \in durable : NeededBy(d) \subseteq Overrides \cup lost \cup exposed
      BY <2>2 DEF KeptInv, Kept, Safe, NeededBy
    <3>4. Kept'
      BY <2>0, <3>2, <3>3 DEF Kept, Safe
    <3>5. pc'[p] = "sync"
      BY <1>0, <3>1 DEF Goto
    <3>6. UnsyncedIsExposed'
      BY <3>1, <3>5 DEF UnsyncedIsExposed
    <3> QED
      BY <3>4, <3>6
  <2> QED
    BY <2>1, <2>2
<1>4. ASSUME NEW p \in Processes, SyncKey(p) PROVE Goal
  <2>1. synced' /\ UNCHANGED <<keyFile, config, durable, lost, exposed>>
    BY <1>4 DEF SyncKey
  <2> QED
    BY <2>1, ReadKeeps DEF UnsyncedIsExposed
<1>5. ASSUME NEW p \in Processes, CreateTable(p) PROVE Goal
  <2> DEFINE d == [db EXCEPT !.table = TRUE]
  <2>1. d \in Database /\ d.check = db.check /\ d.rows = db.rows
    BY <1>0 DEF Database
  <2>2. /\ durable' = durable \cup {d} /\ UNCHANGED <<keyFile, lost, synced, config, exposed, key>>
        /\ pc[p] = "table" /\ Goto(p, "migrate")
    BY <1>5 DEF CreateTable, Commit
  <2> HIDE DEF d
  <2>3. Kept'
    BY <2>1, <2>2, WriteKeeps DEF AfterLoad, Locations
  <2> QED
    BY <1>a, <2>2, <2>3
<1>6. ASSUME NEW p \in Processes, Migrate(p) PROVE Goal
  <2> DEFINE d == Migrated(key[p])
  <2>1. /\ pc[p] = "migrate" /\ durable' = durable \cup {d} /\ Goto(p, "pending")
        /\ UNCHANGED <<keyFile, lost, synced, config, exposed, key>>
    BY <1>6 DEF Migrate, Commit
  <2>2. key[p] \in Keys
    BY <2>1, UsedKeyIsKept DEF KeptInv, AfterLoad, Locations
  <2>3. /\ d \in Database /\ d.check = key[p]
        /\ \A r \in Rows : d.rows[r] \in {db.rows[r], key[p]}
    BY <1>0, <2>2 DEF Migrated, Database, KeyOrNone, HasPlaintext
  <2> HIDE DEF d
  <2>4. Kept'
    BY <2>1, <2>3, WriteKeeps DEF AfterLoad, Locations
  <2> QED
    BY <1>a, <2>1, <2>4
<1>7. ASSUME NEW p \in Processes, Checkpoint(p) PROVE Goal
  <2> DEFINE d == [db EXCEPT !.residue = IF @ = "compacted" THEN "none" ELSE @]
  <2>1. d \in Database /\ d.check = db.check /\ d.rows = db.rows
    BY <1>0 DEF Database
  <2>2. /\ durable' = {d} /\ UNCHANGED <<keyFile, lost, synced, config, exposed, key>>
        /\ pc[p] \in {"checkpoint", "flush", "final"} /\ Goto(p, AfterCheckpoint(p))
    BY <1>7 DEF Checkpoint
  <2> HIDE DEF d
  <2>3. Kept'
    BY <2>1, <2>2, WriteKeeps DEF AfterLoad, Locations
  <2> QED
    BY <1>a, <2>2, <2>3
<1>8. ASSUME NEW p \in Processes, Vacuum(p) PROVE Goal
  <2> DEFINE d == [db EXCEPT !.residue = IF @ = "pages" THEN "compacted" ELSE @]
  <2>1. d \in Database /\ d.check = db.check /\ d.rows = db.rows
    BY <1>0 DEF Database
  <2>2. /\ durable' = durable \cup {d} /\ UNCHANGED <<keyFile, lost, synced, config, exposed, key>>
        /\ pc[p] = "vacuum" /\ Goto(p, "flush")
    BY <1>8 DEF Vacuum, Commit
  <2> HIDE DEF d
  <2>3. Kept'
    BY <2>1, <2>2, WriteKeeps DEF AfterLoad, Locations
  <2> QED
    BY <1>a, <2>2, <2>3
<1>9. ASSUME NEW p \in Processes, ClearMarker(p) PROVE Goal
  <2> DEFINE d == [db EXCEPT !.pending = FALSE]
  <2>1. d \in Database /\ d.check = db.check /\ d.rows = db.rows
    BY <1>0 DEF Database
  <2>2. /\ durable' = durable \cup {d} /\ UNCHANGED <<keyFile, lost, synced, config, exposed, key>>
        /\ pc[p] = "clear" /\ Goto(p, "final")
    BY <1>9 DEF ClearMarker, Commit
  <2> HIDE DEF d
  <2>3. Kept'
    BY <2>1, <2>2, WriteKeeps DEF AfterLoad, Locations
  <2> QED
    BY <1>a, <2>2, <2>3
\* The configuration is written under the key the process holds.
<1>b. ASSUME NEW p \in Processes, pc[p] \in {"rewrite", "running"}, config' = LoadedKey(override[p]),
             UNCHANGED <<keyFile, lost, durable>>, exposed \ {keyFile} \subseteq exposed'
      PROVE  Kept'
  <2>1. config' = key[p]
    BY <1>b DEF KeptInv, KeyInv, SourceHeld, AfterLoad, Locations
  <2> QED
    BY <1>0, <1>b, <2>1, WriteKeeps DEF AfterLoad, Locations
<1>10. ASSUME NEW p \in Processes, RewriteConfig(p) \/ SaveSettings(p) PROVE Goal
  <2>1. /\ pc[p] \in {"rewrite", "running"} /\ config' = LoadedKey(override[p]) /\ synced'
        /\ UNCHANGED <<keyFile, lost, durable>> /\ exposed \ {keyFile} \subseteq exposed'
    BY <1>10 DEF RewriteConfig, SaveSettings, WriteConfig
  <2> QED
    BY <1>b, <2>1 DEF UnsyncedIsExposed
<1>11. ASSUME NEW p \in Processes, SaveDevice(p) PROVE Goal
  <2>1. PICK r \in Rows : Commit([db EXCEPT !.rows[r] = key[p]])
    BY <1>11 DEF SaveDevice
  <2> DEFINE d == [db EXCEPT !.rows[r] = key[p]]
  <2>2. /\ pc[p] = "running" /\ durable' = durable \cup {d}
        /\ UNCHANGED <<keyFile, lost, synced, config, exposed, pc, key>>
    BY <1>11, <2>1 DEF SaveDevice, Commit, locals
  <2>3. key[p] \in Keys
    BY <2>2, UsedKeyIsKept DEF KeptInv, AfterLoad, Locations
  <2>4. d \in Database /\ d.check = db.check /\ \A x \in Rows : d.rows[x] \in {db.rows[x], key[p]}
    BY <1>0, <2>3 DEF Database
  <2> HIDE DEF d
  <2>5. Kept'
    BY <2>2, <2>4, WriteKeeps DEF AfterLoad, Locations
  <2> QED
    BY <2>2, <2>5, CreatorStays
<1>12. ASSUME NEW p \in Processes, RemoveDevice(p) PROVE Goal
  <2>1. PICK r \in Rows : Commit([db EXCEPT !.rows[r] = "absent"])
    BY <1>12 DEF RemoveDevice
  <2> DEFINE d == [db EXCEPT !.rows[r] = "absent"]
  <2>2. /\ pc[p] = "running" /\ durable' = durable \cup {d}
        /\ UNCHANGED <<keyFile, lost, synced, config, exposed, pc, key>>
    BY <1>12, <2>1 DEF RemoveDevice, Commit, locals
  <2>3. d \in Database /\ d.check = db.check
        /\ \A x \in Rows : d.rows[x] \in Keys => d.rows[x] = db.rows[x]
    BY <1>0 DEF Database
  <2> HIDE DEF d
  <2>4. Kept'
    BY <2>2, <2>3, WriteKeeps DEF AfterLoad, Locations
  <2> QED
    BY <2>2, <2>4, CreatorStays
<1>13. ASSUME NEW p \in Processes, Stop(p) PROVE Goal
  <2>1. /\ UNCHANGED <<keyFile, config, durable, lost, synced>>
        /\ exposed' = exposed \cup {key[q] : q \in Unsynchronised \cap {p}}
        /\ \A q \in Processes \ {p} : pc'[q] = pc[q] /\ key'[q] = key[q]
    BY <1>13 DEF Stop, Forget, disk
  <2>2. Kept'
    BY <2>1, ReadKeeps
  <2>3. ~synced /\ pc[p] = "sync" => key[p] \in exposed'
    BY <2>1 DEF Unsynchronised
  <2>4. UnsyncedIsExposed'
    BY <2>1, <2>3 DEF KeptInv, UnsyncedIsExposed
  <2> QED
    BY <2>2, <2>4
<1>14. ASSUME NEW p \in Processes, ConfigUnsynced(p) PROVE Goal
  <2>1. /\ pc[p] \in {"rewrite", "running"} /\ config' = LoadedKey(override[p])
        /\ UNCHANGED <<keyFile, lost, durable, exposed, synced>>
    BY <1>14 DEF ConfigUnsynced
  <2>2. \A q \in Processes : pc[q] = "sync" => pc'[q] = "sync" /\ key'[q] = key[q]
    BY <1>14, <2>1 DEF ConfigUnsynced, Forget, locals
  <2> QED
    BY <1>b, <2>1, <2>2, CreatorStays
<1>15. CASE PowerLoss
  <2>1. PICK d \in durable : durable' = {d}
    BY <1>15 DEF PowerLoss
  <2>2. synced' /\ UNCHANGED <<config, lost>>
    BY <1>15 DEF PowerLoss
  <2>3. CASE keyFile' = keyFile /\ exposed' = exposed \ {keyFile}
    BY <2>1, <2>2, <2>3, ReadKeeps DEF UnsyncedIsExposed
  <2>4. CASE ~synced /\ exposed' = exposed \cup {key[p] : p \in Unsynchronised}
    <3>1. ASSUME NEW k \in Keys, Safe(k) PROVE Safe(k)'
      BY <2>2, <2>4, <3>1 DEF KeptInv, UnsyncedIsExposed, Safe, Unsynchronised
    <3>2. NeededBy(d)' = NeededBy(d) /\ NeededBy(d) \subseteq Keys
      BY <2>2 DEF NeededBy
    <3>3. Kept'
      BY <2>1, <3>1, <3>2 DEF KeptInv, Kept
    <3> QED
      BY <2>2, <3>3 DEF UnsyncedIsExposed
  <2> QED
    BY <1>15, <2>3, <2>4 DEF PowerLoss
<1>16. CASE Operator
  <2>0. UNCHANGED <<synced, pc, key, exposed>>
    BY <1>16 DEF Operator, locals
  <2>1. CASE UNCHANGED <<config, db, durable>>
    <3>1. \A d \in durable : NeededBy(d)' = NeededBy(d) /\ NeededBy(d) \subseteq Keys
      BY <2>1 DEF NeededBy
    <3>2. /\ lost \subseteq lost' /\ \A k \in Keys : keyFile = k => keyFile' = k \/ k \in lost'
          /\ keyFile' = keyFile \/ \A k \in Keys : keyFile' = k => k \in lost'
      BY <1>0, <1>16 DEF Operator
    <3>3. ASSUME NEW k \in Keys, Safe(k) PROVE Safe(k)'
      BY <2>0, <3>2, <3>3 DEF Safe
    <3>4. Kept'
      BY <2>1, <3>1, <3>3 DEF KeptInv, Kept
    <3>5. UnsyncedIsExposed'
      BY <2>0, <3>2 DEF KeptInv, UnsyncedIsExposed
    <3> QED
      BY <3>4, <3>5
  <2>2. CASE durable' = {EmptyDatabase} /\ UNCHANGED <<keyFile, config, lost>>
    <3>1. NeededBy(EmptyDatabase)' \subseteq NeededBy(db)
      BY <2>2 DEF NeededBy, EmptyDatabase
    <3>2. Kept'
      BY <1>0, <2>0, <2>2, <3>1, SafeStays DEF KeptInv, Kept
    <3> QED
      BY <2>0, <2>2, <3>2, CreatorStays
  <2>3. CASE config' = "plain" /\ UNCHANGED <<keyFile, db, durable, lost>>
    <3>1. \A d \in durable : NeededBy(d)' \subseteq NeededBy(d)
      BY <2>3 DEF NeededBy
    <3>2. Kept'
      BY <2>0, <2>3, <3>1, SafeStays DEF KeptInv, Kept
    <3> QED
      BY <2>0, <2>3, <3>2, CreatorStays
  <2> QED
    BY <1>16, <2>1, <2>2, <2>3 DEF Operator
<1>17. CASE UNCHANGED vars
  BY <1>17, ReadKeeps, CreatorStays DEF vars, disk, locals
<1> QED
  BY <1>1, <1>3, <1>4, <1>5, <1>6, <1>7, <1>8, <1>9, <1>10, <1>11, <1>12, <1>13, <1>14,
     <1>15, <1>16, <1>17 DEF Next, Startup

\* The key of what is stored is in the file or with the operator, for any number of
\* processes, races, crashes and losses of power, unless the process that created its file
\* ended before it had synchronised it.
THEOREM KeyNeverLost == Spec => []KeyKeptWithData
<1>1. KeptInv => KeyKeptWithData
  BY DEF KeptInv, KeyInv, TypeInv, TypeOK, Kept, Safe, NeededBy, KeyKeptWithData, KeysInUse
<1> QED
  BY <1>1, KeptInit, KeptStep, PTL DEF Spec

-----------------------------------------------------------------------------
(* The key is not recreated. *)

\* A verification value comes with its table, and the table before the transaction.
TableFirst ==
  /\ \A d \in durable : d.check # "none" => d.table
  /\ \A p \in Processes : pc[p] = "migrate" => db.table

\* The configuration is readable for whoever has started, and until a process writes its
\* new key nothing is encrypted.
CreationSafe ==
  \A p \in Processes :
    /\ pc[p] # "off" /\ config \in Keys => LoadedKey(override[p]) = config
    /\ pc[p] = "load" /\ mayCreate[p] => CreationAllowed
    /\ pc[p] = "persist" => KeysInUse = {}

CreateInv == KeyInv /\ TableFirst /\ CreationSafe

LEMMA CreateInit == Init => CreateInv
<1> SUFFICES ASSUME Init PROVE CreateInv
  OBVIOUS
<1>1. PICK rows \in [Rows -> {"plain", "absent"}] : db = [EmptyDatabase EXCEPT !.rows = rows]
  BY DEF Init
<1>2. db.check = "none"
  BY <1>1 DEF EmptyDatabase
<1> QED
  BY <1>2, KeyInit DEF Init, CreateInv, TableFirst, CreationSafe

\* A transaction that does not drop the table, and sets a verification value only beside it.
LEMMA CommitKeepsTable ==
  ASSUME CreateInv, NEW d, db' = d, durable' \subseteq durable \cup {d}, db.table => d.table,
         d.check # "none" => d.table,
         \A p \in Processes : pc'[p] = "migrate" => d.table
  PROVE  TableFirst'
BY DEF CreateInv, TableFirst

\* There is one process.
Alone == \A p, q \in Processes : p = q

\* Steps of a process that writes what it encrypts under its own key, or nothing.
LEMMA WriterCreatesNothing ==
  ASSUME CreateInv, Alone, NEW p \in Processes, pc[p] \in AfterLoad, NEW l \in Locations,
         Goto(p, l), l \notin {"load", "persist"}, UNCHANGED <<keyFile, override>>,
         config' \in {config, LoadedKey(override[p])}
  PROVE  CreationSafe'
<1> USE DEF CreateInv, KeyInv, TypeInv, TypeOK, Goto
<1>1. \A q \in Processes : q = p /\ pc'[q] = l /\ pc[q] # "off"
  BY DEF Alone, AfterLoad
<1>2. LoadedKey(override[p])' = LoadedKey(override[p])
  BY DEF LoadedKey
<1>3. config' \in Keys => LoadedKey(override[p])' = config'
  BY <1>1, <1>2 DEF CreationSafe
<1> QED
  BY <1>1, <1>3 DEF CreationSafe

LEMMA CreateStep == ASSUME Alone PROVE CreateInv /\ [Next]_vars => CreateInv'
<1> SUFFICES ASSUME CreateInv, [Next]_vars PROVE TableFirst' /\ CreationSafe'
  BY KeyStep DEF CreateInv
<1> USE KeysAssumption
<1> DEFINE Goal == TableFirst' /\ CreationSafe'
<1>0. /\ db \in Database /\ db \in durable /\ pc \in [Processes -> Locations]
      /\ mayCreate \in [Processes -> BOOLEAN] /\ override \in [Processes -> Overrides \cup {"none"}]
  BY DEF CreateInv, KeyInv, TypeInv, TypeOK
<1>a. ASSUME NEW p \in Processes PROVE \A q \in Processes : q = p
  BY DEF Alone
<1>b. ASSUME NEW p \in Processes, NEW l, Goto(p, l), l # "migrate", UNCHANGED <<db, durable>>
      PROVE  TableFirst'
  BY <1>0, <1>b DEF Goto, CreateInv, TableFirst
<1>1. ASSUME NEW p \in Processes, Start(p) PROVE Goal
  <2>1. TableFirst'
    BY <1>1, <1>b DEF Start, disk
  <2>2. PICK o \in Overrides \cup {"none"} : /\ config \in Keys => LoadedKey(o) = config
                                             /\ override' = [override EXCEPT ![p] = o]
    BY <1>1 DEF Start
  <2>3. pc' = [pc EXCEPT ![p] = "inspect"] /\ UNCHANGED <<keyFile, config>>
    BY <1>1 DEF Start, disk, Goto
  <2>4. CreationSafe'
    BY <1>0, <1>a, <2>2, <2>3 DEF CreationSafe, LoadedKey
  <2> QED
    BY <2>1, <2>4
<1>2. ASSUME NEW p \in Processes, Inspect(p) PROVE Goal
  <2>1. /\ Goto(p, "load") /\ pc[p] = "inspect" /\ UNCHANGED <<keyFile, config, db, durable, override>>
        /\ mayCreate' = [mayCreate EXCEPT ![p] = CreationAllowed]
    BY <1>2 DEF Inspect, disk
  <2>2. TableFirst'
    BY <1>b, <2>1
  <2>3. CreationAllowed' = CreationAllowed /\ LoadedKey(override[p])' = LoadedKey(override[p])
    BY <2>1 DEF CreationAllowed, LoadedKey
  <2>4. pc'[p] = "load" /\ mayCreate'[p] = CreationAllowed
    BY <1>0, <2>1 DEF Goto
  <2>5. CreationSafe'
    BY <1>a, <2>1, <2>3, <2>4 DEF CreationSafe, CreateInv
  <2> QED
    BY <2>2, <2>5
<1>3. ASSUME NEW p \in Processes, LoadKey(p) PROVE Goal
  <2>0. pc[p] = "load" /\ UNCHANGED <<keyFile, config, db, durable, override>>
    BY <1>3 DEF LoadKey, disk
  <2>1. LoadedKey(override[p])' = LoadedKey(override[p]) /\ KeysInUse' = KeysInUse
    BY <2>0 DEF LoadedKey, KeysInUse
  <2>2. CASE Goto(p, "table")
    BY <1>0, <1>a, <1>b, <2>0, <2>1, <2>2 DEF CreationSafe, CreateInv, Goto
  <2>3. CASE Goto(p, "persist") /\ LoadedKey(override[p]) = "none" /\ mayCreate[p]
    <3>1. config \notin Keys /\ CreationAllowed
      BY <2>0, <2>3 DEF CreateInv, CreationSafe
    <3>2. db.check = "none"
      BY <1>0, <3>1 DEF CreateInv, TableFirst, CreationAllowed
    <3>3. KeysInUse = {}
      BY <3>1, <3>2 DEF KeysInUse, CreationAllowed
    <3>4. pc'[p] = "persist"
      BY <1>0, <2>3 DEF Goto
    <3> QED
      BY <1>a, <1>b, <2>0, <2>1, <2>3, <3>1, <3>3, <3>4 DEF CreationSafe
  <2> QED
    BY <1>3, <2>2, <2>3 DEF LoadKey
<1>4. ASSUME NEW p \in Processes, PersistKey(p) PROVE Goal
  <2>0. pc[p] = "persist" /\ UNCHANGED <<config, db, durable, override>>
    BY <1>4 DEF PersistKey
  <2>1. config \notin Keys
    BY <2>0 DEF CreateInv, CreationSafe, KeysInUse
  <2>2. PICK l \in {"sync", "table"} : Goto(p, l)
    BY <1>4 DEF PersistKey
  <2>3. pc'[p] = l
    BY <1>0, <2>2 DEF Goto
  <2> QED
    BY <1>a, <1>b, <2>0, <2>1, <2>2, <2>3 DEF CreationSafe
<1>5. ASSUME NEW p \in Processes, SyncKey(p) PROVE Goal
  <2>1. /\ pc[p] = "sync" /\ Goto(p, "table")
        /\ UNCHANGED <<keyFile, config, db, durable, override>>
    BY <1>5 DEF SyncKey
  <2> QED
    BY <1>b, <2>1, WriterCreatesNothing DEF AfterLoad, Locations
<1>6. ASSUME NEW p \in Processes, CreateTable(p) PROVE Goal
  <2> DEFINE d == [db EXCEPT !.table = TRUE]
  <2>1. d.table
    BY <1>0 DEF Database
  <2>2. /\ db' = d /\ durable' = durable \cup {d} /\ pc[p] = "table" /\ Goto(p, "migrate")
        /\ UNCHANGED <<keyFile, config, override>>
    BY <1>6 DEF CreateTable, Commit
  <2> HIDE DEF d
  <2> QED
    BY <2>1, <2>2, CommitKeepsTable, WriterCreatesNothing DEF AfterLoad, Locations
<1>7. ASSUME NEW p \in Processes, Migrate(p) PROVE Goal
  <2> DEFINE d == Migrated(key[p])
  <2>1. d.table = db.table
    BY <1>0 DEF Database, Migrated
  <2>2. /\ db' = d /\ durable' = durable \cup {d} /\ pc[p] = "migrate" /\ Goto(p, "pending")
        /\ UNCHANGED <<keyFile, config, override>>
    BY <1>7 DEF Migrate, Commit
  <2>3. db.table
    BY <2>2 DEF CreateInv, TableFirst
  <2> HIDE DEF d
  <2> QED
    BY <2>1, <2>2, <2>3, CommitKeepsTable, WriterCreatesNothing DEF AfterLoad, Locations
<1>8. ASSUME NEW p \in Processes, ReadPending(p) \/ ReadConfig(p) \/ Reopen(p) PROVE Goal
  <2>1. PICK l \in {"checkpoint", "config", "running", "rewrite", "inspect"} : Goto(p, l)
    BY <1>8 DEF ReadPending, ReadConfig, Reopen, AfterProtect
  <2>2. /\ pc[p] \in {"pending", "config", "running"}
        /\ UNCHANGED <<keyFile, config, db, durable, override>>
    BY <1>8 DEF ReadPending, ReadConfig, Reopen, disk
  <2> QED
    BY <1>b, <2>1, <2>2, WriterCreatesNothing DEF AfterLoad, Locations
<1>9. ASSUME NEW p \in Processes, Checkpoint(p) PROVE Goal
  <2> DEFINE d == [db EXCEPT !.residue = IF @ = "compacted" THEN "none" ELSE @]
  <2>1. d.table = db.table /\ d.check = db.check
    BY <1>0 DEF Database
  <2>2. /\ db' = d /\ durable' = {d} /\ pc[p] \in {"checkpoint", "flush", "final"}
        /\ Goto(p, AfterCheckpoint(p)) /\ UNCHANGED <<keyFile, config, override>>
    BY <1>9 DEF Checkpoint
  <2>3. AfterCheckpoint(p) \in {"vacuum", "clear", "config", "running"}
    BY <2>2 DEF AfterCheckpoint, AfterProtect
  <2>4. db.check # "none" => db.table
    BY <1>0 DEF CreateInv, TableFirst
  <2>5. pc'[p] # "migrate"
    BY <1>0, <2>2, <2>3 DEF Goto
  <2> HIDE DEF d
  <2> QED
    BY <1>a, <2>1, <2>2, <2>3, <2>4, <2>5, CommitKeepsTable, WriterCreatesNothing DEF AfterLoad, Locations
<1>10. ASSUME NEW p \in Processes, Vacuum(p) \/ ClearMarker(p) PROVE Goal
  <2>1. PICK d : /\ db' = d /\ durable' = durable \cup {d} /\ d.table = db.table /\ d.check = db.check
    <3>1. CASE Vacuum(p)
      <4> DEFINE d == [db EXCEPT !.residue = IF @ = "pages" THEN "compacted" ELSE @]
      <4>1. d.table = db.table /\ d.check = db.check
        BY <1>0 DEF Database
      <4>2. db' = d /\ durable' = durable \cup {d}
        BY <3>1 DEF Vacuum, Commit
      <4> HIDE DEF d
      <4> QED
        BY <4>1, <4>2
    <3>2. CASE ClearMarker(p)
      <4> DEFINE d == [db EXCEPT !.pending = FALSE]
      <4>1. d.table = db.table /\ d.check = db.check
        BY <1>0 DEF Database
      <4>2. db' = d /\ durable' = durable \cup {d}
        BY <3>2 DEF ClearMarker, Commit
      <4> HIDE DEF d
      <4> QED
        BY <4>1, <4>2
    <3> QED
      BY <1>10, <3>1, <3>2
  <2>2. PICK l \in {"flush", "final"} : Goto(p, l)
    BY <1>10 DEF Vacuum, ClearMarker
  <2>3. pc[p] \in {"vacuum", "clear"} /\ UNCHANGED <<keyFile, config, override>>
    BY <1>10 DEF Vacuum, ClearMarker
  <2>4. db.check # "none" => db.table
    BY <1>0 DEF CreateInv, TableFirst
  <2>5. pc'[p] # "migrate"
    BY <1>0, <2>2 DEF Goto
  <2> QED
    BY <1>a, <2>1, <2>2, <2>3, <2>4, <2>5, CommitKeepsTable, WriterCreatesNothing DEF AfterLoad, Locations
<1>11. ASSUME NEW p \in Processes, RewriteConfig(p) PROVE Goal
  <2>1. /\ pc[p] = "rewrite" /\ config' = LoadedKey(override[p]) /\ Goto(p, "inspect")
        /\ UNCHANGED <<keyFile, db, durable, override>>
    BY <1>11 DEF RewriteConfig, WriteConfig
  <2> QED
    BY <1>b, <2>1, WriterCreatesNothing DEF AfterLoad, Locations
<1>12. ASSUME NEW p \in Processes, SaveDevice(p) \/ RemoveDevice(p) PROVE Goal
  <2>1. PICK d : /\ db' = d /\ durable' = durable \cup {d} /\ d.table = db.table /\ d.check = db.check
    BY <1>0, <1>12 DEF SaveDevice, RemoveDevice, Commit, Database
  <2>2. pc[p] = "running" /\ UNCHANGED <<keyFile, config, override, pc, mayCreate>>
    BY <1>12 DEF SaveDevice, RemoveDevice, locals
  <2>3. db.check # "none" => db.table
    BY <1>0 DEF CreateInv, TableFirst
  <2>4. Goto(p, "running")
    BY <1>0, <2>2 DEF Goto
  <2> QED
    BY <1>a, <2>1, <2>2, <2>3, <2>4, CommitKeepsTable, WriterCreatesNothing DEF AfterLoad, Locations
<1>13. ASSUME NEW p \in Processes, SaveSettings(p) PROVE Goal
  <2>1. /\ pc[p] = "running" /\ config' = LoadedKey(override[p])
        /\ UNCHANGED <<keyFile, db, durable, override, pc>>
    BY <1>13 DEF SaveSettings, WriteConfig, locals
  <2>2. Goto(p, "running")
    BY <1>0, <2>1 DEF Goto
  <2> QED
    BY <1>b, <2>1, <2>2, WriterCreatesNothing DEF AfterLoad, Locations
<1>14. ASSUME NEW p \in Processes, Stop(p) PROVE Goal
  <2>1. pc'[p] = "off" /\ UNCHANGED <<db, durable>>
    BY <1>14 DEF Stop, Forget, disk
  <2> QED
    BY <1>a, <2>1 DEF CreateInv, TableFirst, CreationSafe
<1>18. ASSUME NEW p \in Processes, ConfigUnsynced(p) PROVE Goal
  <2>1. /\ pc[p] \in {"rewrite", "running"} /\ config' = LoadedKey(override[p])
        /\ UNCHANGED <<keyFile, db, durable>>
    BY <1>18 DEF ConfigUnsynced
  <2>2. CASE pc[p] = "rewrite"
    <3>1. pc'[p] = "off"
      BY <1>18, <2>2 DEF ConfigUnsynced, Forget
    <3> QED
      BY <1>a, <2>1, <3>1 DEF CreateInv, TableFirst, CreationSafe
  <2>3. CASE pc[p] = "running"
    <3>1. UNCHANGED <<override, pc>>
      BY <1>18, <2>3 DEF ConfigUnsynced, locals
    <3>2. Goto(p, "running")
      BY <1>0, <2>3, <3>1 DEF Goto
    <3> QED
      BY <1>b, <2>1, <2>3, <3>1, <3>2, WriterCreatesNothing DEF AfterLoad, Locations
  <2> QED
    BY <2>1, <2>2, <2>3
<1>15. CASE PowerLoss
  <2>1. PICK d \in durable : db' = d /\ durable' = {d}
    BY <1>15 DEF PowerLoss
  <2>2. \A p \in Processes : pc'[p] = "off"
    BY <1>15 DEF PowerLoss, Forget
  <2> QED
    BY <2>1, <2>2 DEF CreateInv, TableFirst, CreationSafe
<1>16. CASE Operator
  <2>1. \A p \in Processes : pc'[p] = "off"
    BY <1>16 DEF Operator, AllOff, locals
  <2>2. UNCHANGED <<db, durable>> \/ durable' = {EmptyDatabase}
    BY <1>16 DEF Operator
  <2> QED
    BY <2>1, <2>2 DEF CreateInv, TableFirst, CreationSafe, EmptyDatabase
<1>17. CASE UNCHANGED vars
  BY <1>17 DEF vars, disk, locals, CreateInv, TableFirst, CreationSafe, LoadedKey, CreationAllowed,
               KeysInUse
<1> QED
  BY <1>1, <1>2, <1>3, <1>4, <1>5, <1>6, <1>7, <1>8, <1>9, <1>10, <1>11, <1>12, <1>13, <1>14,
     <1>15, <1>16, <1>17, <1>18 DEF Next, Startup

\* "Refuses silent key recreation": one process creates a key only where nothing is
\* encrypted yet, over every crash, loss of power and loss of the key.
THEOREM KeysNotRecreated == Alone /\ Spec => KeysAreNotRecreated
<1>1. SUFFICES ASSUME Alone PROVE Spec => KeysAreNotRecreated
  OBVIOUS
<1>2. CreateInv /\ [Next]_vars =>
        [keyFile = "none" /\ keyFile' # "none" /\ ~AllOff => KeysInUse = {}]_vars
  <2> SUFFICES ASSUME CreateInv, Next, keyFile = "none", keyFile' # "none", ~AllOff
               PROVE  KeysInUse = {}
    OBVIOUS
  <2>1. PICK p \in Processes : PersistKey(p)
    BY DEF Next, Startup, Start, Inspect, LoadKey, SyncKey, CreateTable, Migrate, ReadPending,
           Checkpoint, Vacuum, ClearMarker, ReadConfig, RewriteConfig, Stop, SaveDevice,
           RemoveDevice, SaveSettings, WriteConfig, Reopen, ConfigUnsynced, PowerLoss, Operator, disk
  <2> QED
    BY <2>1 DEF PersistKey, CreateInv, CreationSafe
<1>3. CreateInv /\ [Next]_vars => CreateInv'
  BY <1>1, CreateStep
<1> QED
  BY <1>2, <1>3, CreateInit, PTL DEF Spec, KeysAreNotRecreated
=============================================================================
