------------------------------ MODULE Recovery ------------------------------
(***************************************************************************)
(* The logical backup and restore of the platform's databases: backup.sh   *)
(* and restore.sh, run by operators at any time on one host, against the   *)
(* database clients (the other services of both Compose projects).         *)
(*                                                                         *)
(* Each command of the scripts that changes something is a step, and each  *)
(* may fail or be interrupted by INT or TERM: both run the exit trap.  A   *)
(* SIGKILL or a reboot runs no trap (Kill).  The five databases are dumped *)
(* and restored one by one, in any order here.  Contents are numbers: the  *)
(* n-th write of a client gives a database the content n.                  *)
(***************************************************************************)
EXTENDS Naturals, FiniteSets

CONSTANTS
    Database,       \* the databases that are dumped
    Client,         \* services that use them
    Id,             \* backup ids
    Operator,       \* processes of backup.sh and restore.sh
    MaxWrites,      \* bound: writes of the clients
    MaxKills,       \* bound: processes that die without running their trap
    TruncatedDumps, \* may pg_dump break off half-way?
    LateSignals,    \* may a signal arrive while the lock is being removed?
    OtherStages,    \* may another install stage start services meanwhile?
    Absent, Empty,  \* a dropped database, a created one without its content
    Truncated,      \* a dump whose table of contents is all there is
    NoDump, NoBackup, NoId

ASSUME RecoveryAssumption ==
    /\ MaxWrites \in Nat /\ MaxKills \in Nat
    /\ {TruncatedDumps, LateSignals, OtherStages} \subseteq BOOLEAN
    /\ {Absent, Empty, Truncated, NoDump} \cap (0..MaxWrites) = {}
    /\ Cardinality({Absent, Empty, Truncated, NoDump}) = 4
    /\ NoId \notin Id

VARIABLES
    data,       \* database -> its content
    running,    \* the clients that run
    writes,     \* writes so far
    lock,       \* does the directory .recovery.lock exist?
    backups,    \* id -> the dumps of the completed backup
    kept,       \* rollback directories that no process uses any more
    pc,         \* process -> where it is in its script
    job,        \* process -> its shell variables
    kills

vars == <<data, running, writes, lock, backups, kept, pc, job, kills>>

Content == 0..MaxWrites
Lost == {Absent, Empty}
Dump == Content \cup {Empty, Truncated, NoDump}
Dumps == [Database -> Dump]

Job ==
    [kind           : {"none", "backup", "restore"},
     id             : Id \cup {NoId},
     clients        : SUBSET Client,    \* captured before they are stopped
     quiesced       : BOOLEAN,          \* clients_quiesced
     todo           : SUBSET Database,  \* left over in the current loop
     dumps          : Dumps,            \* the stage or rollback directory
     mutated        : BOOLEAN,          \* mutation_started
     rollbackFailed : BOOLEAN,
     upFailed       : BOOLEAN,          \* the last restart_clients failed
     before         : [Database -> Content \cup Lost]]
                        \* history: data when the mutation began

NoDumps == [d \in Database |-> NoDump]

NoJob ==
    [kind |-> "none", id |-> NoId, clients |-> {}, quiesced |-> FALSE,
     todo |-> {}, dumps |-> NoDumps, mutated |-> FALSE,
     rollbackFailed |-> FALSE, upFailed |-> FALSE,
     before |-> [d \in Database |-> 0]]

PC == {"off", "lock", "preflight", "stop", "dump", "restore", "restart",
       "rollback", "recover", "end", "again"}

RecoveryTypeOK ==
    /\ data \in [Database -> Content \cup Lost]
    /\ running \in SUBSET Client
    /\ writes \in Content
    /\ lock \in BOOLEAN
    /\ backups \in [Id -> Dumps \cup {NoBackup}]
    /\ kept \in SUBSET Dumps
    /\ pc \in [Operator -> PC]
    /\ job \in [Operator -> Job]
    /\ kills \in 0..MaxKills

Init ==
    /\ data = [d \in Database |-> 0]
    /\ running \in SUBSET Client
    /\ writes = 0
    /\ lock = FALSE
    /\ backups = [i \in Id |-> NoBackup]
    /\ kept = {}
    /\ pc = [p \in Operator |-> "off"]
    /\ job = [p \in Operator |-> NoJob]
    /\ kills = 0

Goto(p, label, j) ==
    /\ pc' = [pc EXCEPT ![p] = label]
    /\ job' = [job EXCEPT ![p] = j]

\* Mutant: the exit trap does not restart clients.
Fail_WithoutRestart(p) ==
    IF job[p].mutated
    THEN Goto(p, "rollback", [job[p] EXCEPT !.todo = Database])
    ELSE Goto(p, "end", job[p])

\* The exit trap: roll back if the mutation has begun, then restart clients.
Fail(p) ==
    IF job[p].mutated
    THEN Goto(p, "rollback", [job[p] EXCEPT !.todo = Database])
    ELSE Goto(p, "recover", job[p])

-----------------------------------------------------------------------------
(* Up to the first dump the two scripts do the same.                       *)

\* A completed backup of the same id is returned as it is: no step.  The
\* test comes before the lock.
BeginBackup(p, i) ==
    /\ pc[p] = "off"
    /\ backups[i] = NoBackup
    /\ Goto(p, "lock", [NoJob EXCEPT !.kind = "backup", !.id = i])
    /\ UNCHANGED <<data, running, writes, lock, backups, kept, kills>>

BeginRestore(p, i) ==
    /\ pc[p] = "off"
    /\ Goto(p, "lock", [NoJob EXCEPT !.kind = "restore", !.id = i])
    /\ UNCHANGED <<data, running, writes, lock, backups, kept, kills>>

\* Mutant: mkdir -p.
Lock_Existing(p) ==
    /\ pc[p] = "lock"
    /\ lock' = TRUE
    /\ Goto(p, "preflight", job[p])
    /\ UNCHANGED <<data, running, writes, backups, kept, kills>>

\* mkdir is the test and the acquisition in one.
Lock(p) ==
    /\ pc[p] = "lock"
    /\ ~lock
    /\ lock' = TRUE
    /\ Goto(p, "preflight", job[p])
    /\ UNCHANGED <<data, running, writes, backups, kept, kills>>

Reject(p) ==
    /\ pc[p] = "lock"
    /\ lock
    /\ Goto(p, "off", NoJob)
    /\ UNCHANGED <<data, running, writes, lock, backups, kept, kills>>

\* Mutant: clients_quiesced is not set.
Captured_NotQuiesced(p) == [job[p] EXCEPT !.clients = running]

Captured(p) == [job[p] EXCEPT !.clients = running, !.quiesced = TRUE]

\* psql, pg_dump and clients connect to POSTGRES_DB.
Answers(d) == data[d] # Absent

\* Every database must answer, and a restore needs a complete backup; then
\* the running clients are captured.
Preflight(p) ==
    /\ pc[p] = "preflight"
    /\ \/ /\ \A d \in Database : Answers(d)
          /\ job[p].kind = "restore" => backups[job[p].id] # NoBackup
          /\ Goto(p, "stop", Captured(p))
       \/ Fail(p)
    /\ UNCHANGED <<data, running, writes, lock, backups, kept, kills>>

\* Mutant: a failing stop is ignored.
Stop_Ignored(p) ==
    /\ pc[p] = "stop"
    /\ \E some \in SUBSET job[p].clients : running' = running \ some
    /\ Goto(p, "dump", [job[p] EXCEPT !.todo = Database])
    /\ UNCHANGED <<data, writes, lock, backups, kept, kills>>

Stop(p) ==
    /\ pc[p] = "stop"
    /\ \/ /\ running' = running \ job[p].clients
          /\ Goto(p, "dump", [job[p] EXCEPT !.todo = Database])
       \/ /\ \E some \in SUBSET job[p].clients : running' = running \ some
          /\ Fail(p)
    /\ UNCHANGED <<data, writes, lock, backups, kept, kills>>

\* A dump is what the database holds.  backup.sh stops when pg_dump fails;
\* in restore.sh the function runs on the left of ||, where set -e does not
\* apply, and its last command, pg_restore --list, only reads the table of
\* contents, which pg_dump writes first.
DumpOne(p) ==
    /\ pc[p] = "dump"
    /\ \/ \E d \in job[p].todo :
             /\ Answers(d)
             /\ \E content \in {data[d]} \cup
                     (IF TruncatedDumps /\ job[p].kind = "restore"
                      THEN {Truncated} ELSE {}) :
                   Goto(p, "dump", [job[p] EXCEPT !.todo = @ \ {d},
                                                  !.dumps[d] = content])
       \/ job[p].todo # {} /\ Fail(p)
    /\ UNCHANGED <<data, running, writes, lock, backups, kept, kills>>

AllDumped(p) == pc[p] = "dump" /\ job[p].todo = {}

-----------------------------------------------------------------------------
(* The rest of backup.sh.                                                  *)

\* mv -T of the stage refuses a non-empty destination.
Publish(p) ==
    /\ AllDumped(p)
    /\ job[p].kind = "backup"
    /\ \/ /\ backups[job[p].id] = NoBackup
          /\ backups' = [backups EXCEPT ![job[p].id] = job[p].dumps]
          /\ Goto(p, "restart", job[p])
       \/ Fail(p) /\ UNCHANGED backups
    /\ UNCHANGED <<data, running, writes, lock, kept, kills>>

-----------------------------------------------------------------------------
(* The rest of restore.sh.                                                 *)

\* mutation_started=1
BeginMutation(p) ==
    /\ AllDumped(p)
    /\ job[p].kind = "restore"
    /\ \/ Goto(p, "restore", [job[p] EXCEPT !.mutated = TRUE, !.before = data,
                                            !.todo = Database])
       \/ Fail(p)
    /\ UNCHANGED <<data, running, writes, lock, backups, kept, kills>>

\* restore_database that fails: before dropdb, before createdb, or in the
\* single transaction of pg_restore.
HalfRestored(d) == \E rest \in {data[d]} \cup Lost : data' = [data EXCEPT ![d] = rest]

RestoreOne(p) ==
    /\ pc[p] = "restore"
    /\ \E d \in job[p].todo :
          \/ /\ data' = [data EXCEPT ![d] = backups[job[p].id][d]]
             /\ Goto(p, "restore", [job[p] EXCEPT !.todo = @ \ {d}])
          \/ HalfRestored(d) /\ Fail(p)
    /\ UNCHANGED <<running, writes, lock, backups, kept, kills>>

\* Every database answers: mutation_started=0.
EndMutation(p) ==
    /\ pc[p] = "restore"
    /\ job[p].todo = {}
    /\ \/ Goto(p, "restart", [job[p] EXCEPT !.mutated = FALSE])
       \/ Fail(p)
    /\ UNCHANGED <<data, running, writes, lock, backups, kept, kills>>

\* Mutant: the status of the last database alone counts.
NextRollback_LastStatus(p, d, failed) ==
    LET left == job[p].todo \ {d} IN
    Goto(p, IF left = {} THEN "recover" ELSE "rollback",
         [job[p] EXCEPT !.todo = left, !.rollbackFailed = failed])

\* rollback_databases goes on after a failure and remembers it.
NextRollback(p, d, failed) ==
    LET left == job[p].todo \ {d} IN
    Goto(p, IF left = {} THEN "recover" ELSE "rollback",
         [job[p] EXCEPT !.todo = left, !.rollbackFailed = @ \/ failed])

Rollback(p) ==
    /\ pc[p] = "rollback"
    /\ \E d \in job[p].todo :
          \/ /\ job[p].dumps[d] # Truncated
             /\ data' = [data EXCEPT ![d] = job[p].dumps[d]]
             /\ NextRollback(p, d, FALSE)
          \/ HalfRestored(d) /\ NextRollback(p, d, TRUE)
    /\ UNCHANGED <<running, writes, lock, backups, kept, kills>>

-----------------------------------------------------------------------------
(* The end of both.                                                        *)

\* restart_clients: compose up of the captured clients, if they were stopped
RestartClients(p) ==
    \/ /\ running' = running \cup IF job[p].quiesced THEN job[p].clients ELSE {}
       /\ Goto(p, "end", [job[p] EXCEPT !.quiesced = FALSE, !.upFailed = FALSE])
    \/ /\ job[p].quiesced
       /\ \E some \in SUBSET job[p].clients : running' = running \cup some
       /\ Goto(p, IF pc[p] = "restart" THEN "recover" ELSE "end",
               [job[p] EXCEPT !.upFailed = TRUE])

\* On success, and (a failure being retried there) in the exit trap.
Restart(p) ==
    /\ pc[p] \in {"restart", "recover"}
    /\ RestartClients(p)
    /\ UNCHANGED <<data, writes, lock, backups, kept, kills>>

\* Mutant: the rollback directory is always removed.
KeepRollback_Never(p) == kept' = kept

\* The rollback directory of a process that ends: a failed rollback keeps it.
KeepRollback(p) == kept' = IF job[p].rollbackFailed THEN kept \cup {job[p].dumps}
                                                    ELSE kept

\* The rollback directory and the lock are removed.  On success the exit trap
\* is disarmed only after that: a signal that arrives during rmdir runs it.
End(p) ==
    /\ pc[p] = "end"
    /\ lock' = FALSE
    /\ KeepRollback(p)
    /\ \/ Goto(p, "off", NoJob)
       \/ LateSignals /\ Goto(p, "again", NoJob)
    /\ UNCHANGED <<data, running, writes, backups, kills>>

RemoveLockAgain(p) ==
    /\ pc[p] = "again"
    /\ lock' = FALSE
    /\ Goto(p, "off", NoJob)
    /\ UNCHANGED <<data, running, writes, backups, kept, kills>>

-----------------------------------------------------------------------------
(* The environment.                                                        *)

Inside(p) == pc[p] \notin {"off", "lock", "again"}

\* No trap runs: the lock, the clients and the databases stay as they are.
Kill(p) ==
    /\ Inside(p)
    /\ kills < MaxKills
    /\ kills' = kills + 1
    /\ kept' = IF job[p].mutated THEN kept \cup {job[p].dumps} ELSE kept
    /\ Goto(p, "off", NoJob)
    /\ UNCHANGED <<data, running, writes, lock, backups>>

ClientWrite(d) ==
    /\ running # {}
    /\ writes < MaxWrites
    /\ Answers(d)
    /\ writes' = writes + 1
    /\ data' = [data EXCEPT ![d] = writes']
    /\ UNCHANGED <<running, lock, backups, kept, pc, job, kills>>

\* The compose stage looks at no recovery lock.
OtherStage ==
    /\ OtherStages
    /\ running # Client
    /\ running' = Client
    /\ UNCHANGED <<data, writes, lock, backups, kept, pc, job, kills>>

Step(p) ==
    \/ Lock(p) \/ Reject(p) \/ Preflight(p) \/ Stop(p) \/ DumpOne(p)
    \/ Publish(p) \/ BeginMutation(p) \/ RestoreOne(p) \/ EndMutation(p)
    \/ Rollback(p) \/ Restart(p) \/ End(p) \/ RemoveLockAgain(p)

Next ==
    \/ \E p \in Operator :
          \/ \E i \in Id : BeginBackup(p, i) \/ BeginRestore(p, i)
          \/ Step(p) \/ Kill(p)
    \/ \E d \in Database : ClientWrite(d)
    \/ OtherStage

Spec == Init /\ [][Next]_vars

\* A script that runs goes on.
FairSpec == Spec /\ \A p \in Operator : WF_vars(Step(p))

-----------------------------------------------------------------------------
(* Properties.                                                             *)

\* At most one backup or restore is between its mkdir and its rmdir ("A
\* global recovery lock rejects concurrent backup or restore",
\* backup-upgrade.md:41).
LockExclusive == \A p, q \in Operator : Inside(p) /\ Inside(q) => p = q

\* While a restore replaces databases, its rollback directory holds exactly
\* what all of them held when it began.
RollbackIsComplete ==
    \A p \in Operator : job[p].mutated => job[p].dumps = job[p].before

\* When the clients of a restore start again the databases are all from the
\* backup, or all as they were before, or the rollback is known to have failed.
RestoredOrRolledBack ==
    \A p \in Operator : job[p].kind = "restore" =>
        /\ pc[p] = "restart" => data = backups[job[p].id]
        /\ pc[p] = "recover" /\ job[p].mutated =>
               data = job[p].before \/ job[p].rollbackFailed

\* A database without its content (after a failed rollback or a SIGKILL, for
\* instance) can be restored: some rollback directory has it.
LostDataIsOnDisk ==
    \A d \in Database : data[d] \in Lost =>
        \E dumps \in kept \cup {job[p].dumps : p \in Operator} :
            dumps[d] \in Content

\* The dumps of a backup, taken one after the other, are what all databases
\* held at one moment, that of the backup's completion.
BackupIsCut ==
    [][\A i \in Id : backups'[i] # backups[i] => backups'[i] = data]_vars

\* A completed backup never changes, not even by one of the same id that was
\* begun before the first was complete.
BackupsAreImmutable ==
    [][\A i \in Id : backups[i] # NoBackup => backups'[i] = backups[i]]_vars

\* However a backup or a restore ends (unless it is killed, or compose up
\* fails twice), the clients that ran when it began run again.
ClientsComeBack ==
    [][\A p \in Operator :
          End(p) /\ ~job[p].upFailed => job[p].clients \subseteq running]_vars

\* The same without fail, even when two scripts run at once or other stages
\* start services: a client that a script stops does not wait for ever.
ClientsReturn ==
    \A p \in Operator, c \in Client :
        job[p].quiesced /\ c \in job[p].clients
            ~> c \in running \/ job[p].upFailed

=============================================================================
