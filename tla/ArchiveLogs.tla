--------------------------- MODULE ArchiveLogs ----------------------------
(***************************************************************************)
(* The archive of one tenant with a policy: the hourly pass of each server *)
(* process, the log it writes, and the person who restores.                *)
(*                                                                         *)
(* The CHECK on invoices.status knows no 'archived': the UPDATE behind the *)
(* log is refused every time, and the log alone keeps an invoice from      *)
(* being found again.                                                      *)
(*                                                                         *)
(* The query that finds them hands a Go int to an operand that PostgreSQL  *)
(* types as text.  pgx refuses that whenever it has the query described    *)
(* first, which it does unless the connection string asks it not to.       *)
(***************************************************************************)
EXTENDS Naturals, Sequences

CONSTANTS
  Archivable,   \* invoices
  Schedulers,   \* server processes
  MaxLogs       \* bound: rows of archive_logs

ASSUME ArchiveAssumption == MaxLogs \in Nat

VARIABLES
  aged,      \* invoices that are processed and older than the policy allows
  logs,      \* archive_logs, with the process that wrote each
  pass,      \* the pass of each process; "log" is the loop over what was found
  execMode   \* default_query_exec_mode of the connection string

archiveVars == <<aged, logs, pass, execMode>>

-----------------------------------------------------------------------------
Log == [invoice : Archivable, status : {"archived", "restored"}, by : Schedulers]

Pass == [pc : {"idle", "find", "log"}, todo : SUBSET Archivable]

IdlePass == [pc |-> "idle", todo |-> {}]

\* The default, for the modes that describe a query first, and one that does not.
ExecModes == {"cache_statement", "simple_protocol"}

OpenLogs(i) == {k \in 1..Len(logs) : logs[k].invoice = i /\ logs[k].status = "archived"}

ArchiveInit ==
  /\ aged \in SUBSET Archivable
  /\ logs = <<>>
  /\ pass = [s \in Schedulers |-> IdlePass]
  /\ execMode \in ExecModes

-----------------------------------------------------------------------------
\* At the start of the process and every hour; ListArchivePolicies.
RunOnce(s) ==
  /\ pass[s].pc = "idle"
  /\ pass' = [pass EXCEPT ![s].pc = "find"]
  /\ UNCHANGED <<aged, logs, execMode>>

\* Variant with a bug: what is in the log is not left out.
FindEveryAged == aged

\* FindInvoicesToArchive.
FindInvoicesToArchive == {i \in aged : OpenLogs(i) = {}}

Find(s) ==
  /\ pass[s].pc = "find" /\ execMode = "simple_protocol"
  /\ pass' = [pass EXCEPT ![s] = [pc |-> "log", todo |-> FindInvoicesToArchive]]
  /\ UNCHANGED <<aged, logs, execMode>>

\* activeDays cannot be encoded as text: the error ends the pass of this tenant.
FindRefused(s) ==
  /\ pass[s].pc = "find" /\ execMode = "cache_statement"
  /\ pass' = [pass EXCEPT ![s] = IdlePass]
  /\ UNCHANGED <<aged, logs, execMode>>

\* CreateArchiveLog for the next invoice of the list.  MarkInvoiceArchived is
\* refused after it, the error is logged, and the pass goes on.
CreateArchiveLog(s, i) ==
  /\ pass[s].pc = "log" /\ i \in pass[s].todo
  /\ Len(logs) < MaxLogs
  /\ logs' = Append(logs, [invoice |-> i, status |-> "archived", by |-> s])
  /\ pass' = [pass EXCEPT ![s].todo = @ \ {i}]
  /\ UNCHANGED <<aged, execMode>>

\* The INSERT fails: this invoice is left to the next pass.
CreateArchiveLogFails(s, i) ==
  /\ pass[s].pc = "log" /\ i \in pass[s].todo
  /\ pass' = [pass EXCEPT ![s].todo = @ \ {i}]
  /\ UNCHANGED <<aged, logs, execMode>>

PassEnds(s) ==
  /\ pass[s].pc = "log" /\ pass[s].todo = {}
  /\ pass' = [pass EXCEPT ![s] = IdlePass]
  /\ UNCHANGED <<aged, logs, execMode>>

\* A SELECT fails, or the process dies and is started again.
PassCutOff(s) ==
  /\ pass[s].pc # "idle"
  /\ pass' = [pass EXCEPT ![s] = IdlePass]
  /\ UNCHANGED <<aged, logs, execMode>>

-----------------------------------------------------------------------------
\* restoreArchive: the status of the log, and nothing else.
RestoreArchive(k) ==
  /\ k \in 1..Len(logs)
  /\ logs' = [logs EXCEPT ![k].status = "restored"]
  /\ UNCHANGED <<aged, pass, execMode>>

\* Time goes by, a policy is changed, an invoice is processed or corrected.
AgesChange(i) ==
  /\ aged' = IF i \in aged THEN aged \ {i} ELSE aged \cup {i}
  /\ UNCHANGED <<logs, pass, execMode>>

-----------------------------------------------------------------------------
PassStep(s) ==
  \/ RunOnce(s) \/ Find(s) \/ FindRefused(s) \/ PassEnds(s) \/ PassCutOff(s)
  \/ \E i \in Archivable : CreateArchiveLog(s, i) \/ CreateArchiveLogFails(s, i)

ArchiveNext ==
  \/ \E s \in Schedulers : PassStep(s)
  \/ \E k \in 1..Len(logs) : RestoreArchive(k)
  \/ \E i \in Archivable : AgesChange(i)

\* The ticker starts the passes, and a statement that is tried every hour does
\* not fail every time, unless it is refused.
ArchiveSpec ==
  /\ ArchiveInit /\ [][ArchiveNext]_archiveVars
  /\ \A s \in Schedulers :
       /\ WF_archiveVars(RunOnce(s))
       /\ SF_archiveVars(Find(s)) /\ WF_archiveVars(FindRefused(s))
       /\ WF_archiveVars(PassEnds(s))
       /\ \A i \in Archivable : SF_archiveVars(CreateArchiveLog(s, i))

-----------------------------------------------------------------------------
(* Properties.                                                             *)

ArchiveTypeOK ==
  /\ aged \subseteq Archivable
  /\ logs \in Seq(Log)
  /\ pass \in [Schedulers -> Pass]
  /\ execMode \in ExecModes

\* One process never logs an invoice as archived twice, with passes that fail or
\* are cut off at any statement and restores in between: only the passes of two
\* processes that overlap can.
OneOpenLogPerProcess ==
  \A i \in Archivable : \A k, l \in OpenLogs(i) : logs[k].by = logs[l].by => k = l

\* "FindInvoicesToArchive returns invoice IDs whose created_at is older than
\* activeDays and have not yet been archived": an invoice that stays old gets a log.
OldInvoicesAreArchived ==
  \A i \in Archivable : <>[](i \in aged) => <>(OpenLogs(i) # {})
=============================================================================
