---------------------------- MODULE Migrations ----------------------------
(***************************************************************************)
(* The migrations of the database: processes of an older and of a newer    *)
(* version that start at once, each applying the files it has, and the     *)
(* command that stamps a database set up by other means.                   *)
(*                                                                         *)
(* A file and its record are one transaction.  A file that is not          *)
(* rerunnable (CREATE INDEX without IF NOT EXISTS) fails on a schema that  *)
(* has it.                                                                 *)
(***************************************************************************)
EXTENDS Naturals, Sequences

CONSTANTS
  NFiles,       \* migration files, numbered in the order of their names
  Rerunnable,   \* the files whose SQL can be run on what it made
  Starters,     \* processes
  Has           \* how many of the files each process has

ASSUME MigrationAssumption ==
  /\ NFiles \in Nat \ {0}
  /\ Rerunnable \subseteq 1..NFiles
  /\ Has \in [Starters -> 1..NFiles]

VARIABLES
  schema,    \* the files whose SQL has been committed, in that order
  recorded,  \* schema_migrations
  byHand,    \* the database was set up by other means
  starter    \* the processes; one serves when RunMigrations has returned

migrationVars == <<schema, recorded, byHand, starter>>

-----------------------------------------------------------------------------
Files == 1..NFiles

Starter == [pc : {"down", "list", "loop", "record", "serving"},
            applied : SUBSET Files, at : Files]

Down == [pc |-> "down", applied |-> {}, at |-> 1]

Serving == [pc |-> "serving", applied |-> {}, at |-> 1]

InEffect == {schema[i] : i \in 1..Len(schema)}

MigrationInit ==
  /\ byHand \in BOOLEAN
  /\ schema = IF byHand THEN [i \in Files |-> i] ELSE <<>>
  /\ recorded = {}
  /\ starter = [p \in Starters |-> Down]

-----------------------------------------------------------------------------
\* RunMigrations connects and makes schema_migrations if it is not there.
Start(p) ==
  /\ starter[p].pc = "down"
  /\ starter' = [starter EXCEPT ![p].pc = "list"]
  /\ UNCHANGED <<schema, recorded, byHand>>

\* SELECT version, once, before the first file.
ListApplied(p) ==
  /\ starter[p].pc = "list"
  /\ starter' = [starter EXCEPT ![p] = [pc |-> "loop", applied |-> recorded, at |-> 1]]
  /\ UNCHANGED <<schema, recorded, byHand>>

\* The file after this one, or the server.
Onward(p) ==
  IF starter[p].at = Has[p] THEN Serving
  ELSE [pc |-> "loop", applied |-> starter[p].applied, at |-> starter[p].at + 1]

AfterFile(p) == [starter EXCEPT ![p] = Onward(p)]

SkipApplied(p) ==
  /\ starter[p].pc = "loop" /\ starter[p].at \in starter[p].applied
  /\ starter' = AfterFile(p)
  /\ UNCHANGED <<schema, recorded, byHand>>

\* The SQL of the file goes through, in a transaction nobody else sees.
ExecFile(p) ==
  /\ starter[p].pc = "loop" /\ starter[p].at \notin starter[p].applied
  /\ starter[p].at \in InEffect => starter[p].at \in Rerunnable
  /\ starter' = [starter EXCEPT ![p].pc = "record"]
  /\ UNCHANGED <<schema, recorded, byHand>>

\* Variant with a bug: INSERT ... ON CONFLICT DO NOTHING.
RecordAnyway(p) ==
  /\ starter[p].pc = "record"
  /\ schema' = Append(schema, starter[p].at)
  /\ recorded' = recorded \cup {starter[p].at}
  /\ starter' = AfterFile(p)
  /\ UNCHANGED byHand

\* The record is a primary key and the commit makes both visible; another
\* transaction with the same file is waited for and, if it committed, wins.
RecordAndCommit(p) ==
  /\ starter[p].pc = "record"
  /\ starter[p].at \notin recorded
  /\ starter[p].at \in InEffect => starter[p].at \in Rerunnable
  /\ schema' = Append(schema, starter[p].at)
  /\ recorded' = recorded \cup {starter[p].at}
  /\ starter' = AfterFile(p)
  /\ UNCHANGED byHand

\* Variant with a bug: a file that fails is logged and the next one tried.
GoOnAfterFailure(p) ==
  /\ starter[p].pc \in {"loop", "record"}
  /\ starter' = AfterFile(p)
  /\ UNCHANGED <<schema, recorded, byHand>>

\* Any error, a refused file or record too: log.Fatalf, and the transaction that
\* is open is rolled back.  So does a process that is killed.
MigrationFails(p) ==
  /\ starter[p].pc \in {"list", "loop", "record"}
  /\ starter' = [starter EXCEPT ![p] = Down]
  /\ UNCHANGED <<schema, recorded, byHand>>

StopServing(p) ==
  /\ starter[p].pc = "serving"
  /\ starter' = [starter EXCEPT ![p] = Down]
  /\ UNCHANGED <<schema, recorded, byHand>>

\* StampMigrations, file by file and outside a transaction, on a database that
\* was set up by other means.
StampFile(f) ==
  /\ byHand
  /\ recorded' = recorded \cup {f}
  /\ UNCHANGED <<schema, byHand, starter>>

MigrationNext ==
  \/ \E p \in Starters :
       \/ Start(p) \/ ListApplied(p) \/ SkipApplied(p) \/ ExecFile(p)
       \/ RecordAndCommit(p) \/ MigrationFails(p) \/ StopServing(p)
  \/ \E f \in Files : StampFile(f)

MigrationSpec == MigrationInit /\ [][MigrationNext]_migrationVars

-----------------------------------------------------------------------------
(* Properties.                                                             *)

MigrationTypeOK ==
  /\ schema \in Seq(Files)
  /\ recorded \subseteq Files
  /\ byHand \in BOOLEAN
  /\ starter \in [Starters -> Starter]

\* However many processes start at once, of whatever versions, and wherever they
\* are cut off, a database of their own gets each file once and in their order.
FilesTakeEffectInOrder == byHand \/ schema = [i \in 1..Len(schema) |-> i]

\* A process that serves has all its files in effect and in the record.
ServesOnItsSchema ==
  \A p \in Starters :
    starter[p].pc = "serving" => 1..Has[p] \subseteq InEffect \cap recorded
=============================================================================
