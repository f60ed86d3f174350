---------------------------- MODULE StoreSchema ----------------------------
(***************************************************************************)
(* ChatStore.open on a database of any age: statements that are committed  *)
(* one by one, until the version is written; from then on to the end they  *)
(* are one transaction.  A process may die between two of them.  The code  *)
(* assumes that one process at a time has the store; what is proved says   *)
(* so, and the model is of any number.                                     *)
(***************************************************************************)
EXTENDS Integers, Sequences

CONSTANTS
  Openers,       \* processes
  Nobody,
  SchemaVersion, \* SCHEMA_VERSION
  Ages           \* versions of the file at first; 0 is no file

ASSUME StoreSchemaAssumption ==
  /\ SchemaVersion \in Nat \ {0} /\ Ages \subseteq Nat /\ Nobody \notin Openers

VARIABLES
  disk,     \* what is committed: version (0: no row), parts, index, copies of one packet
  pending,  \* the open transaction: version and index
  holder,   \* the process in a transaction
  opening,  \* where each process is
  todo      \* columns that a process found missing: their places

schemaVars == <<disk, pending, holder, opening, todo>>

(* The tables in the order of the script, and the later columns in the     *)
(* order of the migration, with the first version that had each.           *)
Tables == <<"schema_version", "messages", "local_profiles", "node_encounters", "send_attempts">>
Columns == <<"origin_sent_at", "dm_node_id", "channel_key", "local_node_id", "profile_key",
             "pass_at">>
Since == [schema_version |-> 1, messages |-> 1, send_attempts |-> 1, origin_sent_at |-> 2,
          dm_node_id |-> 3, channel_key |-> 4, local_node_id |-> 5, profile_key |-> 6,
          local_profiles |-> 6, node_encounters |-> 7, pass_at |-> 8]
table_of(column) == IF column = "pass_at" THEN "node_encounters" ELSE "messages"
with_columns(table) == {table} \cup {c \in DOMAIN Since : c \notin {Tables[i] : i \in DOMAIN Tables}
                                                          /\ table_of(c) = table}

File(version, parts, index, copies) ==
  [version |-> version, parts |-> parts, index |-> index, copies |-> copies]
OfAge(v) == File(v, {x \in DOMAIN Since : Since[x] <= v}, v > 0, 0)
Stage(version, index) == [version |-> version, index |-> index]

SchemaInit ==
  /\ \E v \in Ages : disk = OfAge(v)
  /\ pending = Stage(0, FALSE) /\ holder = Nobody
  /\ opening = [p \in Openers |-> "out"]
  /\ todo = [p \in Openers |-> {}]

goes(p, where) == opening' = [opening EXCEPT ![p] = where]
may_write(p) == holder \in {Nobody, p}

-----------------------------------------------------------------------------
(* _create_schema.                                                         *)

Open(p) ==
  /\ opening[p] = "out"
  /\ goes(p, "script")
  /\ UNCHANGED <<disk, pending, holder, todo>>

(* CREATE TABLE IF NOT EXISTS, each on its own.                            *)
absent == {i \in DOMAIN Tables : Tables[i] \notin disk.parts}
CreateTable(p) ==
  /\ opening[p] = "script" /\ may_write(p)
  /\ \E i \in absent :
       /\ \A j \in absent : i <= j
       /\ disk' = [disk EXCEPT !.parts = @ \cup with_columns(Tables[i])]
  /\ UNCHANGED <<pending, holder, opening, todo>>

(* Bug: the versions are listed, and one was left out.                     *)
ListedVersion(v) == v \in {1, 2, 3, SchemaVersion}
supported(v) == 1 <= v /\ v <= SchemaVersion

(* Bug: each column is thought a version older.                            *)
LateColumn(column, v) == v < Since[column] - 1 /\ column \notin disk.parts
is_missing(column, v) == v < Since[column] /\ column \notin disk.parts

ReadVersion(p) ==
  /\ opening[p] = "script" /\ absent = {}
  /\ \/ /\ disk.version = 0 /\ holder = Nobody
        /\ holder' = p /\ pending' = Stage(SchemaVersion, disk.index)
        /\ goes(p, "index")
        /\ UNCHANGED todo
     \/ /\ disk.version # 0 /\ ~supported(disk.version)
        /\ goes(p, "refused")
        /\ UNCHANGED <<pending, holder, todo>>
     \/ /\ disk.version # 0 /\ supported(disk.version)
        /\ todo' = [todo EXCEPT ![p] =
             {i \in DOMAIN Columns : is_missing(Columns[i], disk.version)}]
        /\ goes(p, "columns")
        /\ UNCHANGED <<pending, holder>>
  /\ UNCHANGED disk

(* ALTER TABLE fails for a column that is there.                           *)
AddColumn(p) ==
  /\ opening[p] = "columns" /\ may_write(p)
  /\ \E i \in todo[p] :
       /\ \A j \in todo[p] : i <= j
       /\ IF Columns[i] \in disk.parts
          THEN goes(p, "refused") /\ UNCHANGED <<disk, todo>>
          ELSE /\ disk' = [disk EXCEPT !.parts = @ \cup {Columns[i]}]
               /\ todo' = [todo EXCEPT ![p] = @ \ {i}]
               /\ UNCHANGED opening
  /\ UNCHANGED <<pending, holder>>

(* The UPDATE opens a transaction; a current version needs none.           *)
WriteVersion(p) ==
  /\ opening[p] = "columns" /\ todo[p] = {}
  /\ \/ /\ disk.version # SchemaVersion /\ holder = Nobody
        /\ holder' = p /\ pending' = Stage(SchemaVersion, disk.index)
     \/ /\ disk.version = SchemaVersion
        /\ UNCHANGED <<holder, pending>>
  /\ goes(p, "index")
  /\ UNCHANGED <<disk, todo>>

set_index(p, there) ==
  IF holder = p THEN pending' = [pending EXCEPT !.index = there] /\ UNCHANGED disk
  ELSE disk' = [disk EXCEPT !.index = there] /\ UNCHANGED pending

DropIndex(p) ==
  /\ opening[p] = "index" /\ may_write(p)
  /\ set_index(p, FALSE)
  /\ goes(p, "unique")
  /\ UNCHANGED <<holder, todo>>

(* CREATE UNIQUE INDEX needs its columns, its name and rows that differ;   *)
(* what fails is rolled back.                                              *)
indexed(p) == IF holder = p THEN pending.index ELSE disk.index
can_index(p) ==
  /\ {"dm_node_id", "local_node_id", "profile_key"} \subseteq disk.parts
  /\ ~indexed(p) /\ disk.copies <= 1

(* Bug: the index is made again only where the version was written.        *)
IndexOfMigration(p) ==
  /\ opening[p] = "unique" /\ may_write(p)
  /\ IF holder = p THEN set_index(p, TRUE) ELSE UNCHANGED <<disk, pending>>
  /\ goes(p, "commit")
  /\ UNCHANGED <<holder, todo>>

CreateIndex(p) ==
  /\ opening[p] = "unique" /\ may_write(p)
  /\ IF can_index(p)
     THEN set_index(p, TRUE) /\ goes(p, "commit") /\ UNCHANGED holder
     ELSE /\ goes(p, "refused")
          /\ holder' = Nobody
          /\ UNCHANGED <<disk, pending>>
  /\ UNCHANGED todo

Commit(p) ==
  /\ opening[p] = "commit"
  /\ IF holder = p
     THEN disk' = [disk EXCEPT !.version = pending.version, !.index = pending.index]
     ELSE UNCHANGED disk
  /\ holder' = IF holder = p THEN Nobody ELSE holder
  /\ goes(p, "open")
  /\ UNCHANGED <<pending, todo>>

-----------------------------------------------------------------------------
(* Life and death.                                                         *)

(* add_incoming, INSERT OR IGNORE: a packet that may have come before.     *)
Insert(p) ==
  /\ opening[p] = "open" /\ holder = Nobody /\ disk.copies < 2
  /\ disk' = [disk EXCEPT !.copies = IF disk.index THEN 1 ELSE @ + 1]
  /\ UNCHANGED <<pending, holder, opening, todo>>

(* The process ends or dies, and what it has not committed is gone.        *)
Stop(p) ==
  /\ opening[p] # "out"
  /\ goes(p, "out")
  /\ holder' = IF holder = p THEN Nobody ELSE holder
  /\ todo' = [todo EXCEPT ![p] = {}]
  /\ UNCHANGED <<disk, pending>>

SchemaNext ==
  \E p \in Openers :
    \/ Open(p) \/ CreateTable(p) \/ ReadVersion(p) \/ AddColumn(p) \/ WriteVersion(p)
    \/ DropIndex(p) \/ CreateIndex(p) \/ Commit(p) \/ Insert(p) \/ Stop(p)

SchemaSpec == SchemaInit /\ [][SchemaNext]_schemaVars

-----------------------------------------------------------------------------
SchemaTypeOK ==
  /\ disk \in [version : Nat, parts : SUBSET DOMAIN Since, index : BOOLEAN, copies : 0..2]
  /\ pending \in [version : Nat, index : BOOLEAN]
  /\ holder \in Openers \cup {Nobody}
  /\ opening \in [Openers -> {"out", "script", "columns", "index", "unique", "commit", "open",
                         "refused"}]
  /\ todo \in [Openers -> SUBSET DOMAIN Columns]

(* However often earlier openings died, and wherever, a store that is open *)
(* has every table and column of this version, and says so; and only a     *)
(* file of a future version is refused.                                    *)
OpensAsCurrent ==
  \A p \in Openers :
    /\ opening[p] = "open" => disk.version = SchemaVersion /\ disk.parts = DOMAIN Since
    /\ opening[p] = "refused" => disk.version > SchemaVersion

(* A packet that comes again is stored once: wherever an opening died, a   *)
(* store that is open has the index that INSERT OR IGNORE goes by.         *)
PacketIsStoredOnce == disk.copies <= 1
=============================================================================
