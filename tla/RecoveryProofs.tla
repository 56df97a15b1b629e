--------------------------- MODULE RecoveryProofs ---------------------------
(***************************************************************************)
(* Exclusion, the consistent cut of a backup and the completeness of the   *)
(* rollback dumps; that a restore happens or is undone, that what a        *)
(* database has lost is in some rollback directory, and that the clients   *)
(* run again: for any number of databases, clients and operators.          *)
(*                                                                         *)
(* The argument: one process at a time is inside, so the clients it has    *)
(* stopped stay stopped until it starts them itself, so every database     *)
(* still holds what was dumped when the last dump is complete.             *)
(***************************************************************************)
EXTENDS Recovery, TLAPS

\* What the scripts rely on: no signal during the final rmdir, no other stage
\* that starts clients, no pg_dump that breaks off unnoticed.
Undisturbed == ~LateSignals /\ ~OtherStages /\ ~TruncatedDumps

Early == {"off", "lock", "preflight", "stop", "dump"}

\* The invariant, process by process.
Owner(p) ==
    /\ Inside(p) => lock
    /\ pc[p] # "again"

Quiet(p) ==
    /\ pc[p] = "stop" => running \subseteq job[p].clients
    /\ pc[p] \in {"dump", "restore", "rollback"} => running = {}

Matching(p) ==
    pc[p] = "dump" => \A d \in Database \ job[p].todo : job[p].dumps[d] = data[d]

Mutation(p) ==
    /\ pc[p] \in Early => ~job[p].mutated
    /\ job[p].mutated => job[p].dumps = job[p].before

\* A restore has a backup to restore from, a rollback a complete set of dumps.
Source(p) ==
    /\ pc[p] # "off" => job[p].id \in Id
    /\ pc[p] \in {"stop", "dump", "restore"} /\ job[p].kind = "restore" =>
           backups[job[p].id] # NoBackup
    /\ pc[p] = "restore" => job[p].kind = "restore"
    /\ pc[p] = "rollback" => job[p].mutated

Sound(p) == Owner(p) /\ Quiet(p) /\ Matching(p) /\ Mutation(p) /\ Source(p)

\* A completed backup has a dump of every database that pg_restore can read.
Restorable ==
    \A i \in Id : backups[i] # NoBackup => backups[i] \in [Database -> Content \cup Lost]

RecoveryInv ==
    /\ RecoveryTypeOK
    /\ LockExclusive
    /\ Restorable
    /\ \A p \in Operator : Sound(p)

LEMMA ConstantsApart ==
    /\ Absent \notin Content /\ Empty \notin Content
    /\ Truncated \notin Content /\ NoDump \notin Content
  BY RecoveryAssumption DEF RecoveryAssumption, Content

LEMMA InitialJob == NoJob \in Job /\ ~NoJob.mutated
  BY RecoveryAssumption DEF NoJob, Job, NoDumps, Dumps, Dump, Content, RecoveryAssumption

LEMMA RecoveryTypeInit == Init => RecoveryTypeOK
<1>. SUFFICES ASSUME Init PROVE RecoveryTypeOK
  OBVIOUS
<1>1. 0 \in Content /\ kills \in 0..MaxKills
  BY RecoveryAssumption DEF Init, Content, RecoveryAssumption
<1>2. pc \in [Operator -> PC] /\ job \in [Operator -> Job]
  BY InitialJob DEF Init, PC
<1>3. data \in [Database -> Content \cup Lost] /\ writes \in Content
  BY <1>1 DEF Init
<1>4. backups \in [Id -> Dumps \cup {NoBackup}] /\ kept \in SUBSET Dumps
  BY DEF Init
<1>5. running \in SUBSET Client /\ lock \in BOOLEAN
  BY DEF Init
<1>. QED BY <1>1, <1>2, <1>3, <1>4, <1>5 DEF RecoveryTypeOK

LEMMA RecoveryInit == Init => RecoveryInv
<1>. SUFFICES ASSUME Init PROVE RecoveryInv
  OBVIOUS
<1>1. RecoveryTypeOK
  BY RecoveryTypeInit
<1>2. LockExclusive
  BY DEF Init, LockExclusive, Inside
<1>3. ASSUME NEW p \in Operator PROVE Sound(p)
  <2>1. pc[p] = "off" /\ job[p] = NoJob
    BY DEF Init
  <2>. QED BY <2>1, InitialJob DEF Sound, Owner, Quiet, Matching, Mutation, Source, Inside
<1>4. Restorable
  BY DEF Init, Restorable
<1>. QED BY <1>1, <1>2, <1>3, <1>4 DEF RecoveryInv

-----------------------------------------------------------------------------
(* Jumps.                                                                  *)

LEMMA GotoEffect ==
    ASSUME RecoveryTypeOK, NEW p \in Operator, NEW label \in PC, NEW j \in Job,
           Goto(p, label, j)
    PROVE  /\ pc' \in [Operator -> PC] /\ job' \in [Operator -> Job]
           /\ pc'[p] = label /\ job'[p] = j
           /\ \A q \in Operator \ {p} : pc'[q] = pc[q] /\ job'[q] = job[q]
  BY DEF Goto, RecoveryTypeOK

\* What a step changes of a job is the field it names.
LEMMA TodoType ==
    ASSUME NEW j \in Job, NEW todo \in SUBSET Database
    PROVE  LET k == [j EXCEPT !.todo = todo] IN
           /\ k \in Job
           /\ k.clients = j.clients /\ k.todo = todo /\ k.dumps = j.dumps
           /\ k.mutated = j.mutated /\ k.before = j.before
           /\ k.id = j.id /\ k.kind = j.kind
  BY DEF Job

\* The exit trap of a process that fails.
LEMMA FailEffect ==
    ASSUME RecoveryTypeOK, NEW p \in Operator, Fail(p)
    PROVE  /\ pc' \in [Operator -> PC] /\ job' \in [Operator -> Job]
           /\ pc'[p] = IF job[p].mutated THEN "rollback" ELSE "recover"
           /\ job'[p].dumps = job[p].dumps /\ job'[p].before = job[p].before
           /\ job'[p].mutated = job[p].mutated /\ job'[p].id = job[p].id
           /\ \A q \in Operator \ {p} : pc'[q] = pc[q] /\ job'[q] = job[q]
<1>1. job[p] \in Job
  BY DEF RecoveryTypeOK
<1>2. CASE job[p].mutated
  <2>. DEFINE k == [job[p] EXCEPT !.todo = Database]
  <2>1. k \in Job /\ k.dumps = job[p].dumps /\ k.before = job[p].before
           /\ k.mutated = job[p].mutated /\ k.id = job[p].id
    BY <1>1, TodoType
  <2>2. Goto(p, "rollback", k)
    BY <1>2 DEF Fail
  <2>. HIDE DEF k
  <2>. QED BY <1>2, <2>1, <2>2, GotoEffect DEF PC
<1>3. CASE ~job[p].mutated
  BY <1>1, <1>3, GotoEffect DEF Fail, PC
<1>. QED BY <1>2, <1>3

-----------------------------------------------------------------------------
(* A step of one process leaves the rest of the invariant alone.           *)

\* If p is the only process that may be inside after its step, it is enough
\* to look at p.
LEMMA OneProcess ==
    ASSUME RecoveryInv, NEW p \in Operator, RecoveryTypeOK', Sound(p)',
           Inside(p) \/ ~lock \/ ~Inside(p)',
           \A q \in Operator \ {p} : pc'[q] = pc[q] /\ job'[q] = job[q],
           Inside(p) \/ (lock => lock'),
           Inside(p) \/ Inside(p)' \/ UNCHANGED <<data, running>>,
           Restorable',
           \A i \in Id : backups[i] # NoBackup => backups'[i] # NoBackup
    PROVE  RecoveryInv'
<1>1. ASSUME NEW q \in Operator, q # p, Inside(p) \/ ~lock
      PROVE  ~Inside(q) /\ ~Inside(q)'
  BY <1>1 DEF RecoveryInv, LockExclusive, Sound, Owner, Inside
<1>2. LockExclusive'
  <2>1. CASE Inside(p) \/ ~lock
    BY <1>1, <2>1 DEF LockExclusive
  <2>2. CASE ~Inside(p) /\ lock
    BY <2>2 DEF RecoveryInv, LockExclusive, Inside
  <2>. QED BY <2>1, <2>2
<1>3. ASSUME NEW q \in Operator, q # p PROVE Sound(q)'
  <2>1. Sound(q)
    BY DEF RecoveryInv
  <2>2. pc'[q] = pc[q] /\ job'[q] = job[q]
    BY <1>3
  <2>3. CASE Inside(p) \/ ~lock
    <3>1. pc[q] \in {"off", "lock"}
      BY <1>1, <1>3, <2>1, <2>3 DEF Inside, Sound, Owner
    <3>. QED BY <2>1, <2>2, <3>1 DEF Sound, Owner, Quiet, Matching, Mutation, Source, Inside
  <2>4. CASE ~Inside(p) /\ lock
    <3>1. lock' /\ data' = data /\ running' = running
      BY <2>4
    <3>2. Source(q)'
      BY <2>1, <2>2 DEF Sound, Source
    <3>. QED BY <2>1, <2>2, <3>1, <3>2 DEF Sound, Owner, Quiet, Matching, Mutation, Inside
  <2>. QED BY <2>3, <2>4
<1>. QED BY <1>2, <1>3 DEF RecoveryInv

\* The same for a step that changes nothing but the process and its job.
LEMMA Jump ==
    ASSUME RecoveryInv, NEW p \in Operator, Inside(p),
           pc' \in [Operator -> PC], job' \in [Operator -> Job],
           \A q \in Operator \ {p} : pc'[q] = pc[q] /\ job'[q] = job[q],
           UNCHANGED <<data, running, writes, lock, backups, kept, kills>>,
           Sound(p)'
    PROVE  RecoveryInv'
<1>1. RecoveryTypeOK'
  BY DEF RecoveryInv, RecoveryTypeOK
<1>2. Restorable'
  BY DEF RecoveryInv, Restorable
<1>. QED BY <1>1, <1>2, OneProcess

\* The rollback or the restart of a process that has failed finds what it needs.
LEMMA FailSound ==
    ASSUME RecoveryInv, NEW p \in Operator, Inside(p), Fail(p),
           lock' = lock, job[p].mutated => running' = {}
    PROVE  Sound(p)'
<1>1. Sound(p) /\ RecoveryTypeOK
  BY DEF RecoveryInv
<1>2. /\ pc'[p] = IF job[p].mutated THEN "rollback" ELSE "recover"
      /\ job'[p].dumps = job[p].dumps /\ job'[p].before = job[p].before
      /\ job'[p].mutated = job[p].mutated /\ job'[p].id = job[p].id
  BY <1>1, FailEffect
<1>3. Owner(p)' /\ Quiet(p)' /\ Matching(p)'
  BY <1>1, <1>2 DEF Sound, Owner, Quiet, Matching, Inside
<1>4. Mutation(p)'
  BY <1>1, <1>2 DEF Sound, Mutation, Early
<1>5. Source(p)'
  BY <1>1, <1>2 DEF Sound, Source, Inside
<1>. QED BY <1>3, <1>4, <1>5 DEF Sound

\* A failure that leaves everything but the process as it was.
LEMMA JustFails ==
    ASSUME RecoveryInv, NEW p \in Operator, Inside(p), Fail(p),
           job[p].mutated => running = {},
           UNCHANGED <<data, running, writes, lock, backups, kept, kills>>
    PROVE  RecoveryInv'
<1>1. Sound(p)'
  BY FailSound
<1>2. /\ pc' \in [Operator -> PC] /\ job' \in [Operator -> Job]
      /\ \A q \in Operator \ {p} : pc'[q] = pc[q] /\ job'[q] = job[q]
  BY FailEffect DEF RecoveryInv
<1>. QED BY <1>1, <1>2, Jump

-----------------------------------------------------------------------------
(* The actions, up to the first dump.                                      *)

\* A process that begins has an id and nothing else.
LEMMA BeginPreserves ==
    ASSUME RecoveryInv, NEW p \in Operator, NEW i \in Id,
           BeginBackup(p, i) \/ BeginRestore(p, i)
    PROVE  RecoveryInv'
<1>1. PICK k \in {"backup", "restore"} :
          Goto(p, "lock", [NoJob EXCEPT !.kind = k, !.id = i])
  BY DEF BeginBackup, BeginRestore
<1>. DEFINE j == [NoJob EXCEPT !.kind = k, !.id = i]
<1>2. j \in Job /\ ~j.mutated /\ j.id = i
  BY InitialJob DEF Job, NoJob
<1>3. Goto(p, "lock", j)
  BY <1>1
<1>. HIDE DEF j
<1>4. /\ pc' \in [Operator -> PC] /\ job' \in [Operator -> Job]
      /\ pc'[p] = "lock" /\ job'[p] = j
      /\ \A q \in Operator \ {p} : pc'[q] = pc[q] /\ job'[q] = job[q]
  BY <1>2, <1>3, GotoEffect DEF RecoveryInv, PC
<1>5. UNCHANGED <<data, running, writes, lock, backups, kept, kills>>
  BY DEF BeginBackup, BeginRestore
<1>6. RecoveryTypeOK' /\ Restorable'
  BY <1>4, <1>5 DEF RecoveryInv, RecoveryTypeOK, Restorable
<1>7. Sound(p)'
  BY <1>2, <1>4 DEF Sound, Owner, Quiet, Matching, Mutation, Source, Inside
<1>8. ~Inside(p)'
  BY <1>4 DEF Inside
<1>. QED BY <1>4, <1>5, <1>6, <1>7, <1>8, OneProcess

LEMMA LockPreserves ==
    ASSUME RecoveryInv, NEW p \in Operator, Lock(p)
    PROVE  RecoveryInv'
<1>1. RecoveryTypeOK /\ Sound(p) /\ job[p] \in Job
  BY DEF RecoveryInv, RecoveryTypeOK
<1>2. /\ pc' \in [Operator -> PC] /\ job' \in [Operator -> Job]
      /\ pc'[p] = "preflight" /\ job'[p] = job[p]
      /\ \A q \in Operator \ {p} : pc'[q] = pc[q] /\ job'[q] = job[q]
  BY <1>1, GotoEffect DEF Lock, PC
<1>3. ~lock /\ lock' /\ UNCHANGED <<data, running, writes, backups, kept, kills>>
  BY DEF Lock
<1>4. RecoveryTypeOK' /\ Restorable'
  BY <1>1, <1>2, <1>3 DEF RecoveryInv, RecoveryTypeOK, Restorable, Lock
<1>5. Sound(p)'
  BY <1>1, <1>2, <1>3 DEF Sound, Owner, Quiet, Matching, Mutation, Source, Inside, Early, Lock
<1>6. Inside(p)'
  BY <1>2 DEF Inside
<1>. QED BY <1>2, <1>3, <1>4, <1>5, <1>6, OneProcess

LEMMA RejectPreserves ==
    ASSUME RecoveryInv, NEW p \in Operator, Reject(p)
    PROVE  RecoveryInv'
<1>1. /\ pc' \in [Operator -> PC] /\ job' \in [Operator -> Job]
      /\ pc'[p] = "off" /\ job'[p] = NoJob
      /\ \A q \in Operator \ {p} : pc'[q] = pc[q] /\ job'[q] = job[q]
  BY InitialJob, GotoEffect DEF RecoveryInv, Reject, PC
<1>2. UNCHANGED <<data, running, writes, lock, backups, kept, kills>>
  BY DEF Reject
<1>3. RecoveryTypeOK' /\ Restorable'
  BY <1>1, <1>2 DEF RecoveryInv, RecoveryTypeOK, Restorable
<1>4. Sound(p)' /\ ~Inside(p)'
  BY <1>1, InitialJob DEF Sound, Owner, Quiet, Matching, Mutation, Source, Inside
<1>. QED BY <1>1, <1>2, <1>3, <1>4, OneProcess

LEMMA PreflightPreserves ==
    ASSUME RecoveryInv, NEW p \in Operator, Preflight(p)
    PROVE  RecoveryInv'
<1>1. RecoveryTypeOK /\ Sound(p) /\ job[p] \in Job /\ pc[p] = "preflight"
  BY DEF RecoveryInv, RecoveryTypeOK, Preflight
<1>2. Inside(p) /\ ~job[p].mutated
  BY <1>1 DEF Inside, Sound, Mutation, Early
<1>3. UNCHANGED <<data, running, writes, lock, backups, kept, kills>>
  BY DEF Preflight
<1>4. CASE Fail(p)
  BY <1>2, <1>3, <1>4, JustFails
<1>5. CASE /\ job[p].kind = "restore" => backups[job[p].id] # NoBackup
           /\ Goto(p, "stop", Captured(p))
  <2>. DEFINE j == Captured(p)
  <2>1. /\ j \in Job /\ j.clients = running /\ j.mutated = job[p].mutated
        /\ j.id = job[p].id /\ j.kind = job[p].kind
    BY <1>1 DEF Captured, Job, RecoveryTypeOK
  <2>2. Goto(p, "stop", j)
    BY <1>5
  <2>. HIDE DEF j
  <2>3. /\ pc' \in [Operator -> PC] /\ job' \in [Operator -> Job]
        /\ pc'[p] = "stop" /\ job'[p] = j
        /\ \A q \in Operator \ {p} : pc'[q] = pc[q] /\ job'[q] = job[q]
    BY <1>1, <2>1, <2>2, GotoEffect DEF PC
  <2>4. Owner(p)' /\ Quiet(p)' /\ Matching(p)' /\ Mutation(p)'
    BY <1>1, <1>2, <1>3, <2>1, <2>3 DEF Sound, Owner, Quiet, Matching, Mutation, Inside
  <2>5. Source(p)'
    BY <1>1, <1>3, <1>5, <2>1, <2>3 DEF Sound, Source
  <2>. QED BY <1>2, <1>3, <2>3, <2>4, <2>5, Jump DEF Sound
<1>. QED BY <1>4, <1>5 DEF Preflight

LEMMA StopPreserves ==
    ASSUME RecoveryInv, NEW p \in Operator, Stop(p)
    PROVE  RecoveryInv'
<1>1. RecoveryTypeOK /\ Sound(p) /\ job[p] \in Job /\ pc[p] = "stop"
  BY DEF RecoveryInv, RecoveryTypeOK, Stop
<1>2. Inside(p) /\ ~job[p].mutated /\ running \subseteq job[p].clients
  BY <1>1 DEF Inside, Sound, Mutation, Quiet, Early
<1>3. UNCHANGED <<data, writes, lock, backups, kept, kills>>
  BY DEF Stop
<1>4. Restorable'
  BY <1>3 DEF RecoveryInv, Restorable
<1>5. CASE Fail(p) /\ \E some \in SUBSET job[p].clients : running' = running \ some
  <2>1. Sound(p)'
    BY <1>2, <1>3, <1>5, FailSound
  <2>2. /\ pc' \in [Operator -> PC] /\ job' \in [Operator -> Job]
        /\ \A q \in Operator \ {p} : pc'[q] = pc[q] /\ job'[q] = job[q]
    BY <1>1, <1>5, FailEffect
  <2>3. RecoveryTypeOK'
    BY <1>1, <1>3, <1>5, <2>2 DEF RecoveryTypeOK
  <2>. QED BY <1>2, <1>3, <1>4, <2>1, <2>2, <2>3, OneProcess
<1>6. CASE /\ running' = running \ job[p].clients
           /\ Goto(p, "dump", [job[p] EXCEPT !.todo = Database])
  <2>. DEFINE j == [job[p] EXCEPT !.todo = Database]
  <2>1. /\ j \in Job /\ j.todo = Database /\ j.mutated = job[p].mutated
        /\ j.id = job[p].id /\ j.kind = job[p].kind
    BY <1>1, TodoType
  <2>2. Goto(p, "dump", j)
    BY <1>6
  <2>. HIDE DEF j
  <2>3. /\ pc' \in [Operator -> PC] /\ job' \in [Operator -> Job]
        /\ pc'[p] = "dump" /\ job'[p] = j
        /\ \A q \in Operator \ {p} : pc'[q] = pc[q] /\ job'[q] = job[q]
    BY <1>1, <2>1, <2>2, GotoEffect DEF PC
  <2>4. running' = {}
    BY <1>2, <1>6
  <2>5. RecoveryTypeOK'
    BY <1>1, <1>3, <2>3, <2>4 DEF RecoveryTypeOK
  <2>6. Sound(p)'
    BY <1>1, <1>2, <1>3, <2>1, <2>3, <2>4
       DEF Sound, Owner, Quiet, Matching, Mutation, Source, Inside
  <2>. QED BY <1>2, <1>3, <1>4, <2>3, <2>5, <2>6, OneProcess
<1>. QED BY <1>5, <1>6 DEF Stop

-----------------------------------------------------------------------------
(* The dumps, and the end of a backup.                                     *)

LEMMA DumpOnePreserves ==
    ASSUME RecoveryInv, Undisturbed, NEW p \in Operator, DumpOne(p)
    PROVE  RecoveryInv'
<1>1. RecoveryTypeOK /\ Sound(p) /\ job[p] \in Job /\ pc[p] = "dump"
  BY DEF RecoveryInv, RecoveryTypeOK, DumpOne
<1>2. Inside(p) /\ ~job[p].mutated /\ running = {}
  BY <1>1 DEF Inside, Sound, Mutation, Quiet, Early
<1>3. UNCHANGED <<data, running, writes, lock, backups, kept, kills>>
  BY DEF DumpOne
<1>4. CASE Fail(p)
  BY <1>2, <1>3, <1>4, JustFails
<1>5. ASSUME NEW d \in job[p].todo, Answers(d),
             Goto(p, "dump", [job[p] EXCEPT !.todo = @ \ {d}, !.dumps[d] = data[d]])
      PROVE  RecoveryInv'
  <2>. DEFINE j == [job[p] EXCEPT !.todo = @ \ {d}, !.dumps[d] = data[d]]
  <2>1. d \in Database /\ data[d] \in Dump
    BY <1>1, <1>5 DEF Job, RecoveryTypeOK, Answers, Dump, Lost
  <2>2. /\ j \in Job /\ j.todo = job[p].todo \ {d}
        /\ j.dumps = [job[p].dumps EXCEPT ![d] = data[d]]
        /\ j.mutated = job[p].mutated /\ j.id = job[p].id /\ j.kind = job[p].kind
    BY <1>1, <2>1 DEF Job, Dumps
  <2>3. Goto(p, "dump", j)
    BY <1>5
  <2>. HIDE DEF j
  <2>4. /\ pc' \in [Operator -> PC] /\ job' \in [Operator -> Job]
        /\ pc'[p] = "dump" /\ job'[p] = j
        /\ \A q \in Operator \ {p} : pc'[q] = pc[q] /\ job'[q] = job[q]
    BY <1>1, <2>2, <2>3, GotoEffect DEF PC
  <2>5. job[p].dumps \in [Database -> Dump]
    BY <1>1 DEF Job, Dumps
  <2>6. Matching(p)'
    BY <1>1, <1>3, <2>1, <2>2, <2>4, <2>5 DEF Sound, Matching
  <2>7. Owner(p)' /\ Quiet(p)' /\ Mutation(p)' /\ Source(p)'
    BY <1>1, <1>2, <1>3, <2>2, <2>4 DEF Sound, Owner, Quiet, Mutation, Source, Inside
  <2>. QED BY <1>2, <1>3, <2>4, <2>6, <2>7, Jump DEF Sound
<1>. QED BY <1>4, <1>5 DEF DumpOne, Undisturbed

\* When every database is dumped the dumps are the data.
LEMMA DumpedIsData ==
    ASSUME RecoveryInv, NEW p \in Operator, AllDumped(p)
    PROVE  job[p].dumps = data
<1>1. RecoveryTypeOK /\ Sound(p) /\ job[p] \in Job
  BY DEF RecoveryInv, RecoveryTypeOK
<1>2. job[p].dumps \in [Database -> Dump] /\ data \in [Database -> Content \cup Lost]
  BY <1>1 DEF Job, Dumps, RecoveryTypeOK
<1>3. \A d \in Database : job[p].dumps[d] = data[d]
  BY <1>1 DEF Sound, Matching, AllDumped
<1>. QED BY <1>2, <1>3

LEMMA PublishPreserves ==
    ASSUME RecoveryInv, NEW p \in Operator, Publish(p)
    PROVE  RecoveryInv'
<1>1. RecoveryTypeOK /\ Sound(p) /\ job[p] \in Job /\ pc[p] = "dump"
  BY DEF RecoveryInv, RecoveryTypeOK, Publish, AllDumped
<1>2. Inside(p) /\ ~job[p].mutated
  BY <1>1 DEF Inside, Sound, Mutation, Early
<1>3. UNCHANGED <<data, running, writes, lock, kept, kills>>
  BY DEF Publish
<1>4. CASE Fail(p) /\ UNCHANGED backups
  BY <1>2, <1>3, <1>4, JustFails
<1>5. CASE /\ backups[job[p].id] = NoBackup
           /\ backups' = [backups EXCEPT ![job[p].id] = job[p].dumps]
           /\ Goto(p, "restart", job[p])
  <2>1. /\ pc' \in [Operator -> PC] /\ job' \in [Operator -> Job]
        /\ pc'[p] = "restart" /\ job'[p] = job[p]
        /\ \A q \in Operator \ {p} : pc'[q] = pc[q] /\ job'[q] = job[q]
    BY <1>1, <1>5, GotoEffect DEF PC
  <2>2. job[p].dumps = data /\ job[p].dumps \in Dumps
    BY <1>1, DumpedIsData DEF Publish, Job
  <2>3. data \in [Database -> Content \cup Lost]
    BY <1>1 DEF RecoveryTypeOK
  <2>4. backups' \in [Id -> Dumps \cup {NoBackup}]
    BY <1>1, <1>5, <2>2 DEF RecoveryTypeOK
  <2>5. RecoveryTypeOK'
    BY <1>1, <1>3, <2>1, <2>4 DEF RecoveryTypeOK
  <2>6. \A i \in Id : backups'[i] = IF i = job[p].id THEN data ELSE backups[i]
    BY <1>1, <1>5, <2>2 DEF RecoveryTypeOK
  <2>7. Restorable'
    BY <2>3, <2>6 DEF RecoveryInv, Restorable, Content
  <2>8. \A i \in Id : backups[i] # NoBackup => backups'[i] # NoBackup
    BY <1>5, <2>6
  <2>9. Sound(p)'
    BY <1>1, <1>2, <1>3, <2>1
       DEF Sound, Owner, Quiet, Matching, Mutation, Source, Inside
  <2>. QED BY <1>2, <1>3, <2>1, <2>5, <2>7, <2>8, <2>9, OneProcess
<1>. QED BY <1>4, <1>5 DEF Publish

-----------------------------------------------------------------------------
(* The mutation of a restore and its rollback.                             *)

LEMMA BeginMutationPreserves ==
    ASSUME RecoveryInv, NEW p \in Operator, BeginMutation(p)
    PROVE  RecoveryInv'
<1>1. /\ RecoveryTypeOK /\ Sound(p) /\ job[p] \in Job
      /\ pc[p] = "dump" /\ job[p].kind = "restore"
  BY DEF RecoveryInv, RecoveryTypeOK, BeginMutation, AllDumped
<1>2. Inside(p) /\ ~job[p].mutated /\ running = {}
  BY <1>1 DEF Inside, Sound, Mutation, Quiet, Early
<1>3. UNCHANGED <<data, running, writes, lock, backups, kept, kills>>
  BY DEF BeginMutation
<1>4. CASE Fail(p)
  BY <1>2, <1>3, <1>4, JustFails
<1>5. CASE Goto(p, "restore", [job[p] EXCEPT !.mutated = TRUE, !.before = data,
                                             !.todo = Database])
  <2>. DEFINE j == [job[p] EXCEPT !.mutated = TRUE, !.before = data, !.todo = Database]
  <2>1. /\ j \in Job /\ j.before = data /\ j.dumps = job[p].dumps
        /\ j.id = job[p].id /\ j.kind = job[p].kind
    BY <1>1 DEF Job, RecoveryTypeOK
  <2>2. Goto(p, "restore", j)
    BY <1>5
  <2>. HIDE DEF j
  <2>3. /\ pc' \in [Operator -> PC] /\ job' \in [Operator -> Job]
        /\ pc'[p] = "restore" /\ job'[p] = j
        /\ \A q \in Operator \ {p} : pc'[q] = pc[q] /\ job'[q] = job[q]
    BY <1>1, <2>1, <2>2, GotoEffect DEF PC
  <2>4. job[p].dumps = data
    BY DumpedIsData DEF BeginMutation
  <2>5. Owner(p)' /\ Quiet(p)' /\ Matching(p)'
    BY <1>1, <1>2, <1>3, <2>3 DEF Sound, Owner, Quiet, Matching, Inside
  <2>6. Mutation(p)' /\ Source(p)'
    BY <1>1, <1>3, <2>1, <2>3, <2>4 DEF Sound, Mutation, Source, Early
  <2>. QED BY <1>2, <1>3, <2>3, <2>5, <2>6, Jump DEF Sound
<1>. QED BY <1>4, <1>5 DEF BeginMutation

\* A step of a process that replaces or loses one database.
LEMMA MutationStep ==
    ASSUME RecoveryInv, NEW p \in Operator, Inside(p), pc[p] # "dump",
           NEW d \in Database, NEW rest \in Content \cup Lost,
           data' = [data EXCEPT ![d] = rest],
           pc' \in [Operator -> PC], job' \in [Operator -> Job],
           \A q \in Operator \ {p} : pc'[q] = pc[q] /\ job'[q] = job[q],
           UNCHANGED <<running, writes, lock, backups, kept, kills>>,
           Sound(p)'
    PROVE  RecoveryInv'
<1>1. RecoveryTypeOK'
  BY DEF RecoveryInv, RecoveryTypeOK
<1>2. Restorable'
  BY DEF RecoveryInv, Restorable
<1>. QED BY <1>1, <1>2, OneProcess

LEMMA HalfRestoredType ==
    ASSUME RecoveryTypeOK, NEW d \in Database, HalfRestored(d)
    PROVE  \E rest \in Content \cup Lost : data' = [data EXCEPT ![d] = rest]
  BY DEF HalfRestored, RecoveryTypeOK

LEMMA RestoreOnePreserves ==
    ASSUME RecoveryInv, NEW p \in Operator, RestoreOne(p)
    PROVE  RecoveryInv'
<1>1. RecoveryTypeOK /\ Sound(p) /\ job[p] \in Job /\ pc[p] = "restore"
  BY DEF RecoveryInv, RecoveryTypeOK, RestoreOne
<1>2. Inside(p) /\ running = {} /\ pc[p] # "dump"
  BY <1>1 DEF Inside, Sound, Quiet
<1>3. UNCHANGED <<running, writes, lock, backups, kept, kills>>
  BY DEF RestoreOne
<1>4. PICK d \in job[p].todo :
          \/ /\ data' = [data EXCEPT ![d] = backups[job[p].id][d]]
             /\ Goto(p, "restore", [job[p] EXCEPT !.todo = @ \ {d}])
          \/ HalfRestored(d) /\ Fail(p)
  BY DEF RestoreOne
<1>5. d \in Database
  BY <1>1 DEF Job
<1>6. CASE /\ data' = [data EXCEPT ![d] = backups[job[p].id][d]]
           /\ Goto(p, "restore", [job[p] EXCEPT !.todo = @ \ {d}])
  <2>. DEFINE j == [job[p] EXCEPT !.todo = job[p].todo \ {d}]
  <2>1. /\ j \in Job /\ j.mutated = job[p].mutated /\ j.dumps = job[p].dumps
        /\ j.before = job[p].before /\ j.id = job[p].id /\ j.kind = job[p].kind
    <3>1. job[p].todo \ {d} \in SUBSET Database
      BY <1>1 DEF Job
    <3>. QED BY <1>1, <3>1, TodoType
  <2>2. Goto(p, "restore", j)
    BY <1>6
  <2>. HIDE DEF j
  <2>3. /\ pc' \in [Operator -> PC] /\ job' \in [Operator -> Job]
        /\ pc'[p] = "restore" /\ job'[p] = j
        /\ \A q \in Operator \ {p} : pc'[q] = pc[q] /\ job'[q] = job[q]
    BY <1>1, <2>1, <2>2, GotoEffect DEF PC
  <2>4. backups[job[p].id] \in [Database -> Content \cup Lost]
    BY <1>1 DEF Sound, Source, RecoveryInv, Restorable
  <2>5. backups[job[p].id][d] \in Content \cup Lost
    BY <1>5, <2>4
  <2>6. Sound(p)'
    BY <1>1, <1>2, <1>3, <2>1, <2>3
       DEF Sound, Owner, Quiet, Matching, Mutation, Source, Inside, Early
  <2>. QED BY <1>2, <1>3, <1>5, <1>6, <2>3, <2>5, <2>6, MutationStep
<1>7. CASE HalfRestored(d) /\ Fail(p)
  <2>1. Sound(p)'
    BY <1>2, <1>3, <1>7, FailSound
  <2>2. /\ pc' \in [Operator -> PC] /\ job' \in [Operator -> Job]
        /\ \A q \in Operator \ {p} : pc'[q] = pc[q] /\ job'[q] = job[q]
    BY <1>1, <1>7, FailEffect
  <2>3. PICK rest \in Content \cup Lost : data' = [data EXCEPT ![d] = rest]
    BY <1>1, <1>5, <1>7, HalfRestoredType
  <2>. QED BY <1>2, <1>3, <1>5, <2>1, <2>2, <2>3, MutationStep
<1>. QED BY <1>4, <1>6, <1>7

LEMMA EndMutationPreserves ==
    ASSUME RecoveryInv, NEW p \in Operator, EndMutation(p)
    PROVE  RecoveryInv'
<1>1. RecoveryTypeOK /\ Sound(p) /\ job[p] \in Job /\ pc[p] = "restore"
  BY DEF RecoveryInv, RecoveryTypeOK, EndMutation
<1>2. Inside(p) /\ running = {}
  BY <1>1 DEF Inside, Sound, Quiet
<1>3. UNCHANGED <<data, running, writes, lock, backups, kept, kills>>
  BY DEF EndMutation
<1>4. CASE Fail(p)
  BY <1>2, <1>3, <1>4, JustFails
<1>5. CASE Goto(p, "restart", [job[p] EXCEPT !.mutated = FALSE])
  <2>. DEFINE j == [job[p] EXCEPT !.mutated = FALSE]
  <2>1. j \in Job /\ ~j.mutated /\ j.id = job[p].id
    BY <1>1 DEF Job
  <2>2. Goto(p, "restart", j)
    BY <1>5
  <2>. HIDE DEF j
  <2>3. /\ pc' \in [Operator -> PC] /\ job' \in [Operator -> Job]
        /\ pc'[p] = "restart" /\ job'[p] = j
        /\ \A q \in Operator \ {p} : pc'[q] = pc[q] /\ job'[q] = job[q]
    BY <1>1, <2>1, <2>2, GotoEffect DEF PC
  <2>4. Sound(p)'
    BY <1>1, <1>2, <1>3, <2>1, <2>3
       DEF Sound, Owner, Quiet, Matching, Mutation, Source, Inside
  <2>. QED BY <1>2, <1>3, <2>3, <2>4, Jump
<1>. QED BY <1>4, <1>5 DEF EndMutation

LEMMA NextRollbackEffect ==
    ASSUME RecoveryTypeOK, NEW p \in Operator, NEW d \in Database, NEW failed \in BOOLEAN,
           NextRollback(p, d, failed)
    PROVE  /\ pc' \in [Operator -> PC] /\ job' \in [Operator -> Job]
           /\ pc'[p] \in {"rollback", "recover"}
           /\ job'[p].dumps = job[p].dumps /\ job'[p].before = job[p].before
           /\ job'[p].mutated = job[p].mutated /\ job'[p].id = job[p].id
           /\ \A q \in Operator \ {p} : pc'[q] = pc[q] /\ job'[q] = job[q]
<1>. DEFINE left == job[p].todo \ {d}
            j == [job[p] EXCEPT !.todo = left, !.rollbackFailed = @ \/ failed]
            label == IF left = {} THEN "recover" ELSE "rollback"
<1>1. job[p] \in Job
  BY DEF RecoveryTypeOK
<1>2. /\ j \in Job /\ j.dumps = job[p].dumps /\ j.before = job[p].before
      /\ j.mutated = job[p].mutated /\ j.id = job[p].id
  BY <1>1 DEF Job
<1>3. Goto(p, label, j)
  BY DEF NextRollback
<1>4. label \in {"rollback", "recover"} /\ label \in PC
  BY DEF PC
<1>. HIDE DEF j, label
<1>. QED BY <1>2, <1>3, <1>4, GotoEffect

LEMMA RollbackPreserves ==
    ASSUME RecoveryInv, NEW p \in Operator, Rollback(p)
    PROVE  RecoveryInv'
<1>1. RecoveryTypeOK /\ Sound(p) /\ job[p] \in Job /\ pc[p] = "rollback"
  BY DEF RecoveryInv, RecoveryTypeOK, Rollback
<1>2. Inside(p) /\ running = {} /\ pc[p] # "dump" /\ job[p].mutated
  BY <1>1 DEF Inside, Sound, Quiet, Source
<1>3. UNCHANGED <<running, writes, lock, backups, kept, kills>>
  BY DEF Rollback
<1>4. PICK d \in job[p].todo :
          \/ data' = [data EXCEPT ![d] = job[p].dumps[d]] /\ NextRollback(p, d, FALSE)
          \/ HalfRestored(d) /\ NextRollback(p, d, TRUE)
  BY DEF Rollback
<1>5. d \in Database
  BY <1>1 DEF Job
<1>6. /\ pc' \in [Operator -> PC] /\ job' \in [Operator -> Job]
      /\ pc'[p] \in {"rollback", "recover"}
      /\ job'[p].dumps = job[p].dumps /\ job'[p].before = job[p].before
      /\ job'[p].mutated = job[p].mutated /\ job'[p].id = job[p].id
      /\ \A q \in Operator \ {p} : pc'[q] = pc[q] /\ job'[q] = job[q]
  BY <1>1, <1>4, <1>5, NextRollbackEffect
<1>7. PICK rest \in Content \cup Lost : data' = [data EXCEPT ![d] = rest]
  <2>1. job[p].dumps[d] \in Content \cup Lost
    BY <1>1, <1>2, <1>5 DEF Sound, Mutation, Job
  <2>. QED BY <1>1, <1>4, <1>5, <2>1, HalfRestoredType
<1>8. Owner(p)' /\ Quiet(p)' /\ Matching(p)'
  BY <1>1, <1>2, <1>3, <1>6 DEF Sound, Owner, Quiet, Matching, Inside
<1>9. Mutation(p)' /\ Source(p)'
  BY <1>1, <1>2, <1>6 DEF Sound, Mutation, Source, Early
<1>. QED BY <1>2, <1>3, <1>5, <1>6, <1>7, <1>8, <1>9, MutationStep DEF Sound

-----------------------------------------------------------------------------
(* The end of a process, and the environment.                              *)

\* What restart_clients does to the process and the clients.
LEMMA RestartEffect ==
    ASSUME RecoveryTypeOK, NEW p \in Operator, RestartClients(p)
    PROVE  /\ pc' \in [Operator -> PC] /\ job' \in [Operator -> Job]
           /\ pc'[p] \in {"recover", "end"} /\ running' \in SUBSET Client
           /\ job'[p].dumps = job[p].dumps /\ job'[p].before = job[p].before
           /\ job'[p].mutated = job[p].mutated /\ job'[p].id = job[p].id
           /\ \A q \in Operator \ {p} : pc'[q] = pc[q] /\ job'[q] = job[q]
<1>1. job[p] \in Job /\ job[p].clients \subseteq Client /\ running \subseteq Client
  BY DEF RecoveryTypeOK, Job
<1>2. running' \in SUBSET Client
  BY <1>1 DEF RestartClients
<1>. DEFINE up == [job[p] EXCEPT !.quiesced = FALSE, !.upFailed = FALSE]
            down == [job[p] EXCEPT !.upFailed = TRUE]
            label == IF pc[p] = "restart" THEN "recover" ELSE "end"
<1>3. /\ up \in Job /\ up.dumps = job[p].dumps /\ up.before = job[p].before
      /\ up.mutated = job[p].mutated /\ up.id = job[p].id
  BY <1>1 DEF Job
<1>4. /\ down \in Job /\ down.dumps = job[p].dumps /\ down.before = job[p].before
      /\ down.mutated = job[p].mutated /\ down.id = job[p].id
  BY <1>1 DEF Job
<1>5. Goto(p, "end", up) \/ Goto(p, label, down)
  BY DEF RestartClients
<1>6. label \in {"recover", "end"} /\ label \in PC /\ "end" \in PC
  BY DEF PC
<1>. HIDE DEF up, down, label
<1>7. CASE Goto(p, "end", up)
  BY <1>2, <1>3, <1>6, <1>7, GotoEffect
<1>8. CASE Goto(p, label, down)
  BY <1>2, <1>4, <1>6, <1>8, GotoEffect
<1>. QED BY <1>5, <1>7, <1>8

LEMMA RestartPreserves ==
    ASSUME RecoveryInv, NEW p \in Operator, Restart(p)
    PROVE  RecoveryInv'
<1>1. /\ RecoveryTypeOK /\ Sound(p) /\ pc[p] \in {"restart", "recover"}
      /\ UNCHANGED <<data, writes, lock, backups, kept, kills>> /\ RestartClients(p)
  BY DEF RecoveryInv, Restart
<1>2. Inside(p)
  BY <1>1 DEF Inside
<1>3. /\ pc' \in [Operator -> PC] /\ job' \in [Operator -> Job]
      /\ pc'[p] \in {"recover", "end"} /\ running' \in SUBSET Client
      /\ job'[p].dumps = job[p].dumps /\ job'[p].before = job[p].before
      /\ job'[p].mutated = job[p].mutated /\ job'[p].id = job[p].id
      /\ \A q \in Operator \ {p} : pc'[q] = pc[q] /\ job'[q] = job[q]
  BY <1>1, RestartEffect
<1>4. RecoveryTypeOK'
  BY <1>1, <1>3 DEF RecoveryTypeOK
<1>5. Restorable'
  BY <1>1 DEF RecoveryInv, Restorable
<1>6. Owner(p)' /\ Quiet(p)' /\ Matching(p)'
  BY <1>1, <1>2, <1>3 DEF Sound, Owner, Quiet, Matching, Inside
<1>7. Mutation(p)' /\ Source(p)'
  BY <1>1, <1>2, <1>3 DEF Sound, Mutation, Source, Early
<1>. QED BY <1>1, <1>2, <1>3, <1>4, <1>5, <1>6, <1>7, OneProcess DEF Sound

\* A process that is gone.
LEMMA GonePreserves ==
    ASSUME RecoveryInv, NEW p \in Operator, Inside(p), Goto(p, "off", NoJob),
           lock' \in BOOLEAN, kept' \in SUBSET Dumps, kills' \in 0..MaxKills,
           UNCHANGED <<data, running, writes, backups>>
    PROVE  RecoveryInv'
<1>1. /\ pc' \in [Operator -> PC] /\ job' \in [Operator -> Job]
      /\ pc'[p] = "off" /\ job'[p] = NoJob
      /\ \A q \in Operator \ {p} : pc'[q] = pc[q] /\ job'[q] = job[q]
  BY InitialJob, GotoEffect DEF RecoveryInv, PC
<1>2. RecoveryTypeOK' /\ Restorable'
  BY <1>1 DEF RecoveryInv, RecoveryTypeOK, Restorable
<1>3. Sound(p)' /\ ~Inside(p)'
  BY <1>1, InitialJob DEF Sound, Owner, Quiet, Matching, Mutation, Source, Inside
<1>. QED BY <1>1, <1>2, <1>3, OneProcess

\* What a process leaves behind is a set of dumps.
LEMMA KeptType ==
    ASSUME RecoveryTypeOK, NEW p \in Operator
    PROVE  kept \subseteq Dumps /\ kept \cup {job[p].dumps} \subseteq Dumps
  BY DEF RecoveryTypeOK, Job

LEMMA EndPreserves ==
    ASSUME RecoveryInv, Undisturbed, NEW p \in Operator, End(p)
    PROVE  RecoveryInv'
<1>1. RecoveryTypeOK /\ Inside(p) /\ kills \in 0..MaxKills
  BY DEF RecoveryInv, RecoveryTypeOK, End, Inside
<1>2. kept' \in SUBSET Dumps
  BY <1>1, KeptType DEF End, KeepRollback
<1>. QED BY <1>1, <1>2, GonePreserves DEF End, Undisturbed

LEMMA KillPreserves ==
    ASSUME RecoveryInv, NEW p \in Operator, Kill(p)
    PROVE  RecoveryInv'
<1>1. RecoveryTypeOK /\ lock \in BOOLEAN /\ kills \in 0..MaxKills
  BY DEF RecoveryInv, RecoveryTypeOK
<1>2. kept' \in SUBSET Dumps
  BY <1>1, KeptType DEF Kill
<1>3. kills' \in 0..MaxKills
  BY <1>1, RecoveryAssumption DEF Kill, RecoveryAssumption
<1>. QED BY <1>1, <1>2, <1>3, GonePreserves DEF Kill

\* A client that writes runs, so no process dumps or replaces a database.
LEMMA ClientWritePreserves ==
    ASSUME RecoveryInv, NEW d \in Database, ClientWrite(d)
    PROVE  RecoveryInv'
<1>1. RecoveryTypeOK /\ running # {} /\ writes < MaxWrites
      /\ UNCHANGED <<running, lock, backups, kept, pc, job, kills>>
  BY DEF RecoveryInv, ClientWrite
<1>2. writes' \in Content
  BY <1>1, RecoveryAssumption DEF RecoveryTypeOK, Content, ClientWrite, RecoveryAssumption
<1>3. data' \in [Database -> Content \cup Lost]
  BY <1>1, <1>2 DEF RecoveryTypeOK, ClientWrite
<1>4. RecoveryTypeOK'
  BY <1>1, <1>2, <1>3 DEF RecoveryTypeOK
<1>5. LockExclusive' /\ Restorable'
  BY <1>1 DEF RecoveryInv, LockExclusive, Inside, Restorable
<1>6. ASSUME NEW p \in Operator PROVE Sound(p)'
  <2>1. Sound(p) /\ pc[p] # "dump"
    BY <1>1 DEF RecoveryInv, Sound, Quiet
  <2>2. Owner(p)' /\ Quiet(p)' /\ Matching(p)'
    BY <1>1, <2>1 DEF Sound, Owner, Quiet, Matching, Inside
  <2>3. Mutation(p)' /\ Source(p)'
    BY <1>1, <2>1 DEF Sound, Mutation, Source
  <2>. QED BY <2>2, <2>3 DEF Sound
<1>. QED BY <1>4, <1>5, <1>6 DEF RecoveryInv

-----------------------------------------------------------------------------
(* The theorems.                                                           *)

LEMMA RecoveryNext ==
    ASSUME RecoveryInv, Undisturbed, [Next]_vars
    PROVE  RecoveryInv'
<1>1. CASE UNCHANGED vars
  <2>1. UNCHANGED <<data, running, writes, lock, backups, kept, pc, job, kills>>
    BY <1>1 DEF vars
  <2>2. RecoveryTypeOK' /\ LockExclusive' /\ Restorable'
    BY <2>1 DEF RecoveryInv, RecoveryTypeOK, LockExclusive, Restorable, Inside
  <2>3. ASSUME NEW p \in Operator PROVE Sound(p)'
    <3>1. Sound(p)
      BY DEF RecoveryInv
    <3>. QED BY <2>1, <3>1 DEF Sound, Owner, Quiet, Matching, Mutation, Source, Inside
  <2>. QED BY <2>2, <2>3 DEF RecoveryInv
<1>2. ASSUME NEW p \in Operator, NEW i \in Id, BeginBackup(p, i) \/ BeginRestore(p, i)
      PROVE  RecoveryInv'
  BY <1>2, BeginPreserves
<1>3. ASSUME NEW p \in Operator, Step(p) PROVE RecoveryInv'
  <2>1. CASE Lock(p) \/ Reject(p) \/ Preflight(p) \/ Stop(p)
    BY <2>1, LockPreserves, RejectPreserves, PreflightPreserves, StopPreserves
  <2>2. CASE DumpOne(p) \/ Publish(p) \/ BeginMutation(p)
    BY <2>2, DumpOnePreserves, PublishPreserves, BeginMutationPreserves
  <2>3. CASE RestoreOne(p) \/ EndMutation(p) \/ Rollback(p)
    BY <2>3, RestoreOnePreserves, EndMutationPreserves, RollbackPreserves
  <2>4. CASE Restart(p) \/ End(p)
    BY <2>4, RestartPreserves, EndPreserves
  <2>5. CASE RemoveLockAgain(p)
    BY <2>5 DEF RemoveLockAgain, RecoveryInv, Sound, Owner
  <2>. QED BY <1>3, <2>1, <2>2, <2>3, <2>4, <2>5 DEF Step
<1>4. ASSUME NEW p \in Operator, Kill(p) PROVE RecoveryInv'
  BY <1>4, KillPreserves
<1>5. ASSUME NEW d \in Database, ClientWrite(d) PROVE RecoveryInv'
  BY <1>5, ClientWritePreserves
<1>6. ~OtherStage
  BY DEF OtherStage, Undisturbed
<1>. QED BY <1>1, <1>2, <1>3, <1>4, <1>5, <1>6 DEF Next

\* RecoveryInv is inductive.
THEOREM RecoveryInvariant ==
    ASSUME Undisturbed
    PROVE  Spec => []RecoveryInv
<1>1. RecoveryInv /\ [Next]_vars => RecoveryInv'
  BY RecoveryNext
<1>. QED BY <1>1, RecoveryInit, PTL DEF Spec

\* Variables keep their types: in particular what dropdb, createdb and
\* pg_restore put in a database is a content, never a dump that is missing or
\* unreadable.
THEOREM RecoveryTyped ==
    ASSUME Undisturbed
    PROVE  Spec => []RecoveryTypeOK
<1>1. RecoveryInv => RecoveryTypeOK
  BY DEF RecoveryInv
<1>. QED BY <1>1, RecoveryInvariant, PTL

\* mkdir and rmdir of .recovery.lock (backup.sh:90, :227) exclude any number of
\* concurrent backups and restores, even if some are killed.
THEOREM OneRecoveryAtATime ==
    ASSUME Undisturbed
    PROVE  Spec => []LockExclusive
<1>1. RecoveryInv => LockExclusive
  BY DEF RecoveryInv
<1>. QED BY <1>1, RecoveryInvariant, PTL

\* From mutation_started=1 (restore.sh:267) on the rollback directory holds
\* exactly what every database held at that moment.
THEOREM RollbackHoldsEverything ==
    ASSUME Undisturbed
    PROVE  Spec => []RollbackIsComplete
<1>1. RecoveryInv => RollbackIsComplete
  BY DEF RecoveryInv, Sound, Mutation, RollbackIsComplete
<1>. QED BY <1>1, RecoveryInvariant, PTL

\* Only the mv of a complete stage (backup.sh:220) changes the backups.
LEMMA OnlyPublish ==
    ASSUME [Next]_vars, backups' # backups
    PROVE  \E p \in Operator : Publish(p)
<1>1. CASE UNCHANGED vars
  BY <1>1 DEF vars
<1>2. ASSUME NEW p \in Operator, NEW k \in Id, BeginBackup(p, k) \/ BeginRestore(p, k)
      PROVE  FALSE
  BY <1>2 DEF BeginBackup, BeginRestore
<1>3. ASSUME NEW p \in Operator, Step(p), ~Publish(p) PROVE FALSE
  <2>1. CASE Lock(p) \/ Reject(p) \/ Preflight(p) \/ Stop(p) \/ DumpOne(p)
    BY <2>1 DEF Lock, Reject, Preflight, Stop, DumpOne
  <2>2. CASE BeginMutation(p) \/ RestoreOne(p) \/ EndMutation(p) \/ Rollback(p)
    BY <2>2 DEF BeginMutation, RestoreOne, EndMutation, Rollback
  <2>3. CASE Restart(p) \/ End(p) \/ RemoveLockAgain(p)
    BY <2>3 DEF Restart, End, RemoveLockAgain
  <2>. QED BY <1>3, <2>1, <2>2, <2>3 DEF Step
<1>4. ASSUME NEW p \in Operator, Kill(p) PROVE FALSE
  BY <1>4 DEF Kill
<1>5. ASSUME NEW d \in Database, ClientWrite(d) PROVE FALSE
  BY <1>5 DEF ClientWrite
<1>6. CASE OtherStage
  BY <1>6 DEF OtherStage
<1>. QED BY <1>1, <1>2, <1>3, <1>4, <1>5, <1>6 DEF Next

\* What Publish does to the backups.
LEMMA PublishEffect ==
    ASSUME RecoveryTypeOK, NEW p \in Operator, Publish(p), NEW i \in Id,
           backups'[i] # backups[i]
    PROVE  /\ i = job[p].id /\ backups[i] = NoBackup
           /\ backups'[i] = job[p].dumps
  BY DEF Publish, RecoveryTypeOK

\* The dumps of a backup, taken one database after the other, are one cut: what
\* all of them hold when the backup is published.
THEOREM BackupsAreCuts ==
    ASSUME Undisturbed
    PROVE  Spec => BackupIsCut
<1>1. ASSUME RecoveryInv, [Next]_vars, NEW i \in Id, backups'[i] # backups[i]
      PROVE  backups'[i] = data
  <2>1. PICK p \in Operator : Publish(p)
    BY <1>1, OnlyPublish
  <2>2. backups'[i] = job[p].dumps
    BY <1>1, <2>1, PublishEffect DEF RecoveryInv
  <2>. QED BY <1>1, <2>1, <2>2, DumpedIsData DEF Publish
<1>2. RecoveryInv /\ [Next]_vars =>
          [\A i \in Id : backups'[i] # backups[i] => backups'[i] = data]_vars
  BY <1>1
<1>. QED BY <1>2, RecoveryInvariant, PTL DEF Spec, BackupIsCut

\* No assumption is needed for the next theorem but that backups is a function.
BackupTable == backups = [i \in Id |-> backups[i]]

LEMMA PublishNeverReplaces ==
    ASSUME BackupTable, NEW p \in Operator, Publish(p)
    PROVE  /\ BackupTable'
           /\ \A i \in Id : backups[i] # NoBackup => backups'[i] = backups[i]
<1>1. CASE UNCHANGED backups
  BY <1>1 DEF BackupTable
<1>2. CASE /\ backups[job[p].id] = NoBackup
           /\ backups' = [backups EXCEPT ![job[p].id] = job[p].dumps]
  BY <1>2 DEF BackupTable
<1>. QED BY <1>1, <1>2 DEF Publish

\* A completed backup is never replaced, whatever signals, stages and broken
\* dumps do: mv -T is the test and the publication in one.
THEOREM BackupsNeverChange == Spec => BackupsAreImmutable
<1>1. Init => BackupTable
  BY DEF Init, BackupTable
<1>2. ASSUME BackupTable, [Next]_vars
      PROVE  /\ BackupTable'
             /\ \A i \in Id : backups[i] # NoBackup => backups'[i] = backups[i]
  <2>1. CASE \E p \in Operator : Publish(p)
    BY <1>2, <2>1, PublishNeverReplaces
  <2>2. CASE ~\E p \in Operator : Publish(p)
    <3>1. backups' = backups
      BY <1>2, <2>2, OnlyPublish
    <3>. QED BY <1>2, <3>1 DEF BackupTable
  <2>. QED BY <2>1, <2>2
<1>3. BackupTable /\ [Next]_vars =>
          BackupTable' /\ [\A i \in Id : backups[i] # NoBackup => backups'[i] = backups[i]]_vars
  BY <1>2
<1>. QED BY <1>1, <1>3, PTL DEF Spec, BackupsAreImmutable

-----------------------------------------------------------------------------
(* Restores.  The databases that a loop has handled are what they are      *)
(* meant to be, since nobody else writes before the clients start again;   *)
(* and a dump without content, of a database that was already lost, is     *)
(* only made when the content is in a directory that is never removed.     *)

\* Some directory that is kept for good has the content of d.
InKept(d) == \E k \in kept : k[d] \in Content

\* How far the restore or the rollback of a process has come.
Progress(p) ==
    /\ pc[p] = "restore" =>
           /\ job[p].mutated
           /\ \A d \in Database \ job[p].todo : data[d] = backups[job[p].id][d]
    /\ pc[p] = "restart" =>
           /\ ~job[p].mutated /\ running = {}
           /\ job[p].kind = "restore" => data = backups[job[p].id]
    /\ job[p].mutated =>
           /\ pc[p] \in {"restore", "rollback", "recover", "end"}
           /\ \A d \in Database : job[p].before[d] \in Lost => InKept(d)
    /\ pc[p] = "rollback" =>
           \/ job[p].rollbackFailed
           \/ \A d \in Database \ job[p].todo : data[d] = job[p].before[d]
    /\ pc[p] = "recover" /\ job[p].mutated =>
           running = {} /\ (job[p].rollbackFailed \/ data = job[p].before)
    /\ pc[p] = "end" /\ job[p].mutated /\ ~job[p].rollbackFailed =>
           \A d \in Database : data[d] \in Lost => InKept(d)

Saved ==
    \A d \in Database : data[d] \in Lost =>
        \/ InKept(d)
        \/ \E p \in Operator : job[p].mutated /\ job[p].dumps[d] \in Content

\* A backup of a lost database is no loss.
BackupsSaved ==
    \A i \in Id, d \in Database :
        backups[i] # NoBackup /\ backups[i][d] \in Lost => InKept(d)

RestoreInv == Saved /\ BackupsSaved /\ \A p \in Operator : Progress(p)

LEMMA RestoreInit == Init => RestoreInv
<1>. SUFFICES ASSUME Init PROVE RestoreInv
  OBVIOUS
<1>1. Saved
  BY RecoveryAssumption DEF Init, Saved, Lost, Content
<1>2. BackupsSaved
  BY DEF Init, BackupsSaved
<1>3. ASSUME NEW p \in Operator PROVE Progress(p)
  BY InitialJob DEF Init, Progress
<1>. QED BY <1>1, <1>2, <1>3 DEF RestoreInv

\* Beside a process that is inside, nobody is further than mkdir.
LEMMA Alone ==
    ASSUME RecoveryInv, NEW p \in Operator, Inside(p), NEW q \in Operator, q # p
    PROVE  pc[q] \in {"off", "lock"} /\ ~job[q].mutated
<1>1. pc[q] \in {"off", "lock"}
  BY DEF RecoveryInv, LockExclusive, Inside, Sound, Owner
<1>. QED BY <1>1 DEF RecoveryInv, Sound, Mutation, Early

\* What is lost while nobody mutates is in a directory that is kept.
LEMMA NobodyMutates ==
    ASSUME RecoveryInv, RestoreInv, NEW p \in Operator, Inside(p), ~job[p].mutated
    PROVE  \A d \in Database : data[d] \in Lost => InKept(d)
<1>1. \A q \in Operator : ~job[q].mutated
  BY Alone
<1>. QED BY <1>1 DEF RestoreInv, Saved

-----------------------------------------------------------------------------
(* Steps of one process.                                                   *)

LEMMA OneRestores ==
    ASSUME RecoveryInv, RestoreInv, RecoveryInv', NEW p \in Operator,
           \A q \in Operator \ {p} : pc'[q] = pc[q] /\ job'[q] = job[q],
           kept \subseteq kept',
           Inside(p) \/ UNCHANGED <<data, running, backups>>,
           Saved', BackupsSaved', Progress(p)'
    PROVE  RestoreInv'
<1>1. ASSUME NEW q \in Operator, q # p PROVE Progress(q)'
  <2>1. CASE Inside(p)
    <3>1. pc'[q] \in {"off", "lock"} /\ ~job'[q].mutated
      BY <1>1, <2>1, Alone
    <3>. QED BY <3>1 DEF Progress
  <2>2. CASE UNCHANGED <<data, running, backups>>
    <3>1. \A d \in Database : InKept(d) => InKept(d)'
      BY DEF InKept
    <3>2. Progress(q) /\ pc'[q] = pc[q] /\ job'[q] = job[q]
      BY <1>1 DEF RestoreInv
    <3>. QED BY <2>2, <3>1, <3>2 DEF Progress
  <2>. QED BY <2>1, <2>2
<1>. QED BY <1>1 DEF RestoreInv

\* A process that has not begun the mutation, and does not.
LEMMA IdleStep ==
    ASSUME RecoveryInv, RestoreInv, RecoveryInv', NEW p \in Operator,
           \A q \in Operator \ {p} : pc'[q] = pc[q] /\ job'[q] = job[q],
           ~job[p].mutated, ~job'[p].mutated,
           pc'[p] \notin {"restore", "rollback", "restart"},
           Inside(p) \/ UNCHANGED running,
           kept \subseteq kept', UNCHANGED <<data, backups>>
    PROVE  RestoreInv'
<1>1. \A d \in Database : InKept(d) => InKept(d)'
  BY DEF InKept
<1>2. Saved'
  <2>1. ASSUME NEW q \in Operator, job[q].mutated
        PROVE  job'[q].mutated /\ job'[q].dumps = job[q].dumps
    BY <2>1
  <2>. QED BY <1>1, <2>1 DEF RestoreInv, Saved
<1>3. BackupsSaved'
  BY <1>1 DEF RestoreInv, BackupsSaved
<1>4. Progress(p)'
  BY DEF Progress
<1>. QED BY <1>2, <1>3, <1>4, OneRestores

\* The exit trap of a process that has not begun the mutation.
LEMMA IdleFail ==
    ASSUME RecoveryInv, RestoreInv, RecoveryInv', NEW p \in Operator, Inside(p), Fail(p),
           ~job[p].mutated, UNCHANGED <<data, backups, kept>>
    PROVE  RestoreInv'
<1>1. RecoveryTypeOK
  BY DEF RecoveryInv
<1>2. /\ pc'[p] = "recover" /\ ~job'[p].mutated
      /\ \A q \in Operator \ {p} : pc'[q] = pc[q] /\ job'[q] = job[q]
  BY <1>1, FailEffect
<1>. QED BY <1>2, IdleStep

\* The exit trap of a process in its mutation: what a database has lost there
\* is in its own directory, or was lost before.
LEMMA MutatedFail ==
    ASSUME RecoveryInv, RestoreInv, RecoveryInv', NEW p \in Operator, pc[p] = "restore",
           Fail(p), UNCHANGED <<running, backups, kept>>
    PROVE  RestoreInv'
<1>1. RecoveryTypeOK /\ Inside(p) /\ Progress(p) /\ Sound(p) /\ job[p] \in Job
  BY DEF RecoveryInv, RecoveryTypeOK, RestoreInv, Inside
<1>2. job[p].mutated /\ job[p].dumps = job[p].before
  BY <1>1 DEF Progress, Sound, Mutation
<1>3. /\ pc'[p] = "rollback" /\ job'[p] = [job[p] EXCEPT !.todo = Database]
      /\ \A q \in Operator \ {p} : pc'[q] = pc[q] /\ job'[q] = job[q]
  <2>. DEFINE k == [job[p] EXCEPT !.todo = Database]
  <2>1. k \in Job
    BY <1>1, TodoType
  <2>2. Goto(p, "rollback", k)
    BY <1>2 DEF Fail
  <2>. HIDE DEF k
  <2>3. pc'[p] = "rollback" /\ job'[p] = k
        /\ \A q \in Operator \ {p} : pc'[q] = pc[q] /\ job'[q] = job[q]
    BY <1>1, <2>1, <2>2, GotoEffect DEF PC
  <2>. QED BY <2>3 DEF k
<1>4. /\ job'[p].todo = Database /\ job'[p].before = job[p].before
      /\ job'[p].dumps = job[p].dumps /\ job'[p].mutated = job[p].mutated
  BY <1>1, <1>3 DEF Job
<1>5. \A d \in Database : job[p].before[d] \in Lost => InKept(d)'
  BY <1>1, <1>2 DEF Progress, InKept
<1>6. \A d \in Database : job[p].before[d] \in Content \cup Lost
  BY <1>1 DEF Job
<1>7. Saved'
  BY <1>2, <1>4, <1>5, <1>6 DEF Saved
<1>8. BackupsSaved'
  BY DEF RestoreInv, BackupsSaved, InKept
<1>9. Progress(p)'
  BY <1>3, <1>4, <1>5 DEF Progress
<1>. QED BY <1>1, <1>3, <1>7, <1>8, <1>9, OneRestores

LEMMA EarlySteps ==
    ASSUME RecoveryInv, RestoreInv, RecoveryInv', NEW p \in Operator,
           \/ \E i \in Id : BeginBackup(p, i) \/ BeginRestore(p, i)
           \/ Lock(p) \/ Reject(p) \/ Preflight(p) \/ Stop(p) \/ DumpOne(p)
    PROVE  RestoreInv'
<1>1. /\ pc[p] \in Early /\ UNCHANGED <<data, backups, kept>>
      /\ Inside(p) \/ UNCHANGED running
  BY DEF BeginBackup, BeginRestore, Lock, Reject, Preflight, Stop, DumpOne, Early, Inside
<1>2. ~job[p].mutated /\ RecoveryTypeOK
  BY <1>1 DEF RecoveryInv, Sound, Mutation
<1>3. CASE Inside(p) /\ Fail(p)
  BY <1>1, <1>2, <1>3, IdleFail
<1>4. ASSUME NEW label \in Early, NEW j, Goto(p, label, j) PROVE RestoreInv'
  <2>1. pc'[p] = label /\ \A q \in Operator \ {p} : pc'[q] = pc[q] /\ job'[q] = job[q]
    BY <1>2, <1>4 DEF Goto, RecoveryTypeOK
  <2>2. ~job'[p].mutated
    BY <2>1 DEF RecoveryInv, Sound, Mutation
  <2>. QED BY <1>1, <1>2, <2>1, <2>2, IdleStep DEF Early
<1>5. \/ Inside(p) /\ Fail(p)
      \/ \E label \in Early : \E j : Goto(p, label, j)
  BY DEF BeginBackup, BeginRestore, Lock, Reject, Preflight, Stop, DumpOne, Early, Inside
<1>. QED BY <1>3, <1>4, <1>5

\* A backup of what the databases hold.
LEMMA PublishStep ==
    ASSUME RecoveryInv, RestoreInv, RecoveryInv', NEW p \in Operator, Publish(p)
    PROVE  RestoreInv'
<1>1. /\ RecoveryTypeOK /\ Sound(p) /\ job[p] \in Job
      /\ pc[p] = "dump" /\ job[p].kind = "backup" /\ UNCHANGED <<data, running, kept>>
  BY DEF RecoveryInv, RecoveryTypeOK, Publish, AllDumped
<1>2. Inside(p) /\ ~job[p].mutated /\ running = {}
  BY <1>1 DEF Inside, Sound, Mutation, Quiet, Early
<1>3. CASE Fail(p) /\ UNCHANGED backups
  BY <1>1, <1>2, <1>3, IdleFail
<1>4. CASE /\ backups' = [backups EXCEPT ![job[p].id] = job[p].dumps]
           /\ Goto(p, "restart", job[p])
  <2>1. /\ pc'[p] = "restart" /\ job'[p] = job[p]
        /\ \A q \in Operator \ {p} : pc'[q] = pc[q] /\ job'[q] = job[q]
    BY <1>1, <1>4, GotoEffect DEF PC
  <2>2. \A i \in Id : backups'[i] = IF i = job[p].id THEN data ELSE backups[i]
    BY <1>1, <1>4, DumpedIsData DEF RecoveryTypeOK, Publish
  <2>3. \A d \in Database : data[d] \in Lost => InKept(d)
    BY <1>2, NobodyMutates
  <2>4. \A d \in Database : InKept(d) => InKept(d)'
    BY <1>1 DEF InKept
  <2>5. BackupsSaved'
    BY <2>2, <2>3, <2>4 DEF RestoreInv, BackupsSaved
  <2>6. Saved'
    BY <1>1, <2>3, <2>4 DEF Saved
  <2>7. Progress(p)'
    BY <1>1, <1>2, <2>1 DEF Progress
  <2>. QED BY <1>1, <1>2, <2>1, <2>5, <2>6, <2>7, OneRestores
<1>. QED BY <1>3, <1>4 DEF Publish

LEMMA BeginMutationStep ==
    ASSUME RecoveryInv, RestoreInv, RecoveryInv', NEW p \in Operator, BeginMutation(p)
    PROVE  RestoreInv'
<1>1. /\ RecoveryTypeOK /\ Sound(p) /\ job[p] \in Job
      /\ pc[p] = "dump" /\ UNCHANGED <<data, running, backups, kept>>
  BY DEF RecoveryInv, RecoveryTypeOK, BeginMutation, AllDumped
<1>2. Inside(p) /\ ~job[p].mutated
  BY <1>1 DEF Inside, Sound, Mutation, Early
<1>3. CASE Fail(p)
  BY <1>1, <1>2, <1>3, IdleFail
<1>4. CASE Goto(p, "restore", [job[p] EXCEPT !.mutated = TRUE, !.before = data,
                                             !.todo = Database])
  <2>. DEFINE j == [job[p] EXCEPT !.mutated = TRUE, !.before = data, !.todo = Database]
  <2>1. j \in Job /\ j.mutated /\ j.before = data /\ j.todo = Database
    BY <1>1 DEF Job, RecoveryTypeOK
  <2>2. Goto(p, "restore", j)
    BY <1>4
  <2>. HIDE DEF j
  <2>3. /\ pc'[p] = "restore" /\ job'[p] = j
        /\ \A q \in Operator \ {p} : pc'[q] = pc[q] /\ job'[q] = job[q]
    BY <1>1, <2>1, <2>2, GotoEffect DEF PC
  <2>4. \A d \in Database : data[d] \in Lost => InKept(d)'
    BY <1>1, <1>2, NobodyMutates DEF InKept
  <2>5. Saved'
    BY <1>1, <2>4 DEF Saved
  <2>6. BackupsSaved'
    BY <1>1 DEF RestoreInv, BackupsSaved, InKept
  <2>7. Progress(p)'
    BY <2>1, <2>3, <2>4 DEF Progress
  <2>. QED BY <1>1, <1>2, <2>3, <2>5, <2>6, <2>7, OneRestores
<1>. QED BY <1>3, <1>4 DEF BeginMutation

LEMMA RestoreOneStep ==
    ASSUME RecoveryInv, RestoreInv, RecoveryInv', NEW p \in Operator, RestoreOne(p)
    PROVE  RestoreInv'
<1>1. /\ RecoveryTypeOK /\ Sound(p) /\ Progress(p) /\ job[p] \in Job
      /\ pc[p] = "restore" /\ Inside(p) /\ UNCHANGED <<running, backups, kept>>
  BY DEF RecoveryInv, RecoveryTypeOK, RestoreInv, RestoreOne, Inside
<1>2. job[p].id \in Id /\ backups[job[p].id] # NoBackup
  BY <1>1 DEF Sound, Source
<1>3. PICK d \in job[p].todo :
          \/ /\ data' = [data EXCEPT ![d] = backups[job[p].id][d]]
             /\ Goto(p, "restore", [job[p] EXCEPT !.todo = @ \ {d}])
          \/ HalfRestored(d) /\ Fail(p)
  BY DEF RestoreOne
<1>4. CASE HalfRestored(d) /\ Fail(p)
  BY <1>1, <1>4, MutatedFail
<1>5. CASE /\ data' = [data EXCEPT ![d] = backups[job[p].id][d]]
           /\ Goto(p, "restore", [job[p] EXCEPT !.todo = @ \ {d}])
  <2>. DEFINE j == [job[p] EXCEPT !.todo = job[p].todo \ {d}]
  <2>1. /\ j \in Job /\ j.mutated = job[p].mutated /\ j.dumps = job[p].dumps
        /\ j.before = job[p].before /\ j.id = job[p].id /\ j.todo = job[p].todo \ {d}
    <3>1. job[p].todo \ {d} \in SUBSET Database
      BY <1>1 DEF Job
    <3>. QED BY <1>1, <3>1, TodoType
  <2>2. Goto(p, "restore", j)
    BY <1>5
  <2>. HIDE DEF j
  <2>3. /\ pc'[p] = "restore" /\ job'[p] = j
        /\ \A q \in Operator \ {p} : pc'[q] = pc[q] /\ job'[q] = job[q]
    BY <1>1, <2>1, <2>2, GotoEffect DEF PC
  <2>4. \A e \in Database : data'[e] = IF e = d THEN backups[job[p].id][e] ELSE data[e]
    BY <1>1, <1>5 DEF RecoveryTypeOK
  <2>5. \A e \in Database : InKept(e) => InKept(e)'
    BY <1>1 DEF InKept
  <2>6. Saved'
    <3>1. ASSUME NEW q \in Operator
          PROVE  job'[q].mutated = job[q].mutated /\ job'[q].dumps = job[q].dumps
      BY <2>1, <2>3
    <3>2. ASSUME NEW e \in Database, data'[e] \in Lost, e # d
          PROVE  InKept(e) \/ \E q \in Operator : job[q].mutated /\ job[q].dumps[e] \in Content
      BY <2>4, <3>2 DEF RestoreInv, Saved
    <3>3. d \in Database /\ data'[d] \in Lost => InKept(d)
      BY <1>2, <2>4 DEF RestoreInv, BackupsSaved
    <3>. QED BY <2>5, <3>1, <3>2, <3>3 DEF Saved
  <2>7. BackupsSaved'
    BY <1>1, <2>5 DEF RestoreInv, BackupsSaved
  <2>8. Progress(p)'
    <3>1. \A e \in Database \ j.todo : data'[e] = backups[j.id][e]
      BY <1>1, <2>1, <2>4 DEF Progress
    <3>. QED BY <1>1, <2>1, <2>3, <2>5, <3>1 DEF Progress
  <2>. QED BY <1>1, <2>3, <2>6, <2>7, <2>8, OneRestores
<1>. QED BY <1>3, <1>4, <1>5

\* All databases are from the backup.
LEMMA EndMutationStep ==
    ASSUME RecoveryInv, RestoreInv, RecoveryInv', NEW p \in Operator, EndMutation(p)
    PROVE  RestoreInv'
<1>1. /\ RecoveryTypeOK /\ Sound(p) /\ Progress(p) /\ job[p] \in Job
      /\ pc[p] = "restore" /\ job[p].todo = {} /\ Inside(p)
      /\ UNCHANGED <<data, running, backups, kept>>
  BY DEF RecoveryInv, RecoveryTypeOK, RestoreInv, EndMutation, Inside
<1>2. CASE Fail(p)
  BY <1>1, <1>2, MutatedFail
<1>3. CASE Goto(p, "restart", [job[p] EXCEPT !.mutated = FALSE])
  <2>. DEFINE j == [job[p] EXCEPT !.mutated = FALSE]
  <2>1. j \in Job /\ ~j.mutated /\ j.id = job[p].id
    BY <1>1 DEF Job
  <2>2. Goto(p, "restart", j)
    BY <1>3
  <2>. HIDE DEF j
  <2>3. /\ pc'[p] = "restart" /\ job'[p] = j
        /\ \A q \in Operator \ {p} : pc'[q] = pc[q] /\ job'[q] = job[q]
    BY <1>1, <2>1, <2>2, GotoEffect DEF PC
  <2>4. job[p].id \in Id /\ backups[job[p].id] # NoBackup /\ running = {}
    BY <1>1 DEF Sound, Source, Quiet
  <2>5. data = backups[job[p].id]
    <3>1. backups[job[p].id] \in [Database -> Content \cup Lost]
      BY <2>4 DEF RecoveryInv, Restorable
    <3>2. data \in [Database -> Content \cup Lost]
      BY <1>1 DEF RecoveryTypeOK
    <3>3. \A d \in Database : data[d] = backups[job[p].id][d]
      BY <1>1 DEF Progress
    <3>. QED BY <3>1, <3>2, <3>3
  <2>6. \A d \in Database : InKept(d) => InKept(d)'
    BY <1>1 DEF InKept
  <2>7. BackupsSaved'
    BY <1>1, <2>6 DEF RestoreInv, BackupsSaved
  <2>8. Saved'
    BY <1>1, <2>4, <2>5, <2>6 DEF RestoreInv, BackupsSaved, Saved
  <2>9. Progress(p)'
    BY <1>1, <2>1, <2>3, <2>4, <2>5 DEF Progress
  <2>. QED BY <1>1, <2>3, <2>7, <2>8, <2>9, OneRestores
<1>. QED BY <1>2, <1>3 DEF EndMutation

-----------------------------------------------------------------------------
(* The rollback and the end.                                               *)

\* What the rollback of one database does to the process.
LEMMA RollbackEffect ==
    ASSUME RecoveryTypeOK, NEW p \in Operator, NEW d \in Database, NEW failed \in BOOLEAN,
           NextRollback(p, d, failed)
    PROVE  /\ job'[p].rollbackFailed = (job[p].rollbackFailed \/ failed)
           /\ job'[p].todo = job[p].todo \ {d}
           /\ pc'[p] = IF job'[p].todo = {} THEN "recover" ELSE "rollback"
<1>. DEFINE left == job[p].todo \ {d}
            either == job[p].rollbackFailed \/ failed
            j == [job[p] EXCEPT !.todo = left, !.rollbackFailed = either]
            label == IF left = {} THEN "recover" ELSE "rollback"
<1>1. job[p] \in Job /\ either \in BOOLEAN
  BY DEF RecoveryTypeOK
<1>2. Goto(p, label, j)
  BY DEF NextRollback
<1>3. label \in PC
  BY DEF PC
<1>4. left \subseteq Database
  BY <1>1 DEF Job
<1>. HIDE DEF either, left
<1>5. j \in Job /\ j.todo = left /\ j.rollbackFailed = either
  BY <1>1, <1>4 DEF Job
<1>. HIDE DEF j, label
<1>6. pc'[p] = label /\ job'[p] = j
  BY <1>2, <1>3, <1>5, GotoEffect
<1>. QED BY <1>5, <1>6 DEF left, either, label

LEMMA RollbackStep ==
    ASSUME RecoveryInv, RestoreInv, RecoveryInv', NEW p \in Operator, Rollback(p)
    PROVE  RestoreInv'
<1>1. /\ RecoveryTypeOK /\ Sound(p) /\ Progress(p) /\ job[p] \in Job
      /\ pc[p] = "rollback" /\ Inside(p) /\ UNCHANGED <<running, backups, kept>>
  BY DEF RecoveryInv, RecoveryTypeOK, RestoreInv, Rollback, Inside
<1>2. job[p].mutated /\ job[p].dumps = job[p].before /\ running = {}
  BY <1>1 DEF Sound, Source, Mutation, Quiet
<1>3. PICK d \in job[p].todo, failed \in BOOLEAN :
          /\ \/ data' = [data EXCEPT ![d] = job[p].dumps[d]]
             \/ failed /\ HalfRestored(d)
          /\ NextRollback(p, d, failed)
  BY DEF Rollback
<1>4. d \in Database
  BY <1>1 DEF Job
<1>5. /\ job'[p].dumps = job[p].dumps /\ job'[p].before = job[p].before
      /\ job'[p].mutated = job[p].mutated
      /\ \A q \in Operator \ {p} : pc'[q] = pc[q] /\ job'[q] = job[q]
  BY <1>1, <1>3, <1>4, NextRollbackEffect
<1>6. /\ job'[p].rollbackFailed = (job[p].rollbackFailed \/ failed)
      /\ job'[p].todo = job[p].todo \ {d}
      /\ pc'[p] = IF job'[p].todo = {} THEN "recover" ELSE "rollback"
  BY <1>1, <1>3, <1>4, RollbackEffect
<1>7. \A e \in Database : job[p].before[e] \in Lost => InKept(e)'
  BY <1>1, <1>2 DEF Progress, InKept
<1>8. \A e \in Database : job[p].before[e] \in Content \cup Lost
  BY <1>1 DEF Job
<1>9. Saved'
  BY <1>2, <1>5, <1>7, <1>8 DEF Saved
<1>10. BackupsSaved'
  BY <1>1 DEF RestoreInv, BackupsSaved, InKept
<1>11. job'[p].rollbackFailed
          \/ \A e \in Database \ job'[p].todo : data'[e] = job[p].before[e]
  <2>1. CASE job[p].rollbackFailed \/ failed
    BY <1>6, <2>1
  <2>2. CASE ~job[p].rollbackFailed /\ ~failed
    <3>1. \A e \in Database \ job[p].todo : data[e] = job[p].before[e]
      BY <1>1, <2>2 DEF Progress
    <3>2. data' = [data EXCEPT ![d] = job[p].before[d]]
      BY <1>2, <1>3, <2>2
    <3>3. \A e \in Database : data'[e] = IF e = d THEN job[p].before[e] ELSE data[e]
      BY <1>1, <3>2 DEF RecoveryTypeOK
    <3>. QED BY <1>6, <3>1, <3>3
  <2>. QED BY <2>1, <2>2
<1>12. pc'[p] = "recover" => job'[p].rollbackFailed \/ data' = job'[p].before
  <2>1. /\ data' \in [Database -> Content \cup Lost]
        /\ job[p].before \in [Database -> Content \cup Lost]
    BY <1>1 DEF RecoveryInv, RecoveryTypeOK, Job
  <2>. QED BY <1>5, <1>6, <1>11, <2>1
<1>13. Progress(p)'
  BY <1>1, <1>2, <1>5, <1>6, <1>7, <1>11, <1>12 DEF Progress
<1>. QED BY <1>1, <1>5, <1>9, <1>10, <1>13, OneRestores

LEMMA RestartStep ==
    ASSUME RecoveryInv, RestoreInv, RecoveryInv', NEW p \in Operator, Restart(p)
    PROVE  RestoreInv'
<1>1. /\ RecoveryTypeOK /\ Sound(p) /\ Progress(p) /\ job[p] \in Job
      /\ pc[p] \in {"restart", "recover"} /\ Inside(p) /\ UNCHANGED <<data, backups, kept>>
      /\ RestartClients(p)
  BY DEF RecoveryInv, RecoveryTypeOK, RestoreInv, Restart, Inside
<1>2. /\ pc'[p] \in {"recover", "end"}
      /\ job'[p].dumps = job[p].dumps /\ job'[p].before = job[p].before
      /\ job'[p].mutated = job[p].mutated
      /\ \A q \in Operator \ {p} : pc'[q] = pc[q] /\ job'[q] = job[q]
  BY <1>1, RestartEffect
<1>3. CASE ~job[p].mutated
  BY <1>1, <1>2, <1>3, IdleStep
<1>4. CASE job[p].mutated
  <2>1. pc[p] = "recover" /\ (job[p].rollbackFailed \/ data = job[p].before)
    BY <1>1, <1>4 DEF Progress
  <2>2. pc'[p] = "end" /\ job'[p].rollbackFailed = job[p].rollbackFailed
    <3>. DEFINE up == [job[p] EXCEPT !.quiesced = FALSE, !.upFailed = FALSE]
                down == [job[p] EXCEPT !.upFailed = TRUE]
    <3>1. /\ up \in Job /\ up.rollbackFailed = job[p].rollbackFailed
          /\ down \in Job /\ down.rollbackFailed = job[p].rollbackFailed
      BY <1>1 DEF Job
    <3>2. Goto(p, "end", up) \/ Goto(p, "end", down)
      BY <1>1, <2>1 DEF RestartClients
    <3>. HIDE DEF up, down
    <3>. QED BY <1>1, <3>1, <3>2, GotoEffect DEF PC
  <2>3. \A d \in Database : InKept(d) <=> InKept(d)'
    BY <1>1 DEF InKept
  <2>4. Saved'
    <3>1. \A q \in Operator : job'[q].mutated = job[q].mutated /\ job'[q].dumps = job[q].dumps
      BY <1>2
    <3>. QED BY <1>1, <2>3, <3>1 DEF RestoreInv, Saved
  <2>5. BackupsSaved'
    BY <1>1, <2>3 DEF RestoreInv, BackupsSaved
  <2>6. Progress(p)'
    BY <1>1, <1>2, <1>4, <2>1, <2>2, <2>3 DEF Progress
  <2>. QED BY <1>1, <1>2, <2>4, <2>5, <2>6, OneRestores
<1>. QED BY <1>3, <1>4

\* A process that ends leaves its directory, or has lost nothing.
LEMMA LeaveStep ==
    ASSUME RecoveryInv, RestoreInv, RecoveryInv', NEW p \in Operator, Inside(p),
           Goto(p, "off", NoJob), UNCHANGED <<data, backups>>, kept \subseteq kept',
           job[p].mutated => \/ job[p].dumps \in kept'
                             \/ \A d \in Database : data[d] \in Lost => InKept(d)
    PROVE  RestoreInv'
<1>1. /\ pc'[p] = "off" /\ job'[p] = NoJob
      /\ \A q \in Operator \ {p} : pc'[q] = pc[q] /\ job'[q] = job[q]
  BY InitialJob, GotoEffect DEF RecoveryInv, PC
<1>2. CASE ~job[p].mutated
  BY <1>1, <1>2, InitialJob, IdleStep
<1>3. CASE job[p].mutated
  <2>1. \A d \in Database : InKept(d) => InKept(d)'
    BY DEF InKept
  <2>2. ASSUME NEW d \in Database, data[d] \in Lost PROVE InKept(d)'
    <3>1. CASE job[p].dumps \in kept'
      <4>1. \A q \in Operator \ {p} : ~job[q].mutated
        BY Alone
      <4>2. InKept(d) \/ job[p].dumps[d] \in Content
        BY <2>2, <4>1 DEF RestoreInv, Saved
      <4>3. job[p].dumps[d] \in Content => InKept(d)'
        BY <3>1 DEF InKept, Content
      <4>. QED BY <2>1, <4>2, <4>3
    <3>2. CASE \A e \in Database : data[e] \in Lost => InKept(e)
      BY <2>1, <2>2, <3>2
    <3>. QED BY <1>3, <3>1, <3>2
  <2>3. Saved'
    BY <2>2 DEF Saved
  <2>4. BackupsSaved'
    BY <2>1 DEF RestoreInv, BackupsSaved
  <2>5. Progress(p)'
    BY <1>1, InitialJob DEF Progress
  <2>. QED BY <1>1, <2>3, <2>4, <2>5, OneRestores
<1>. QED BY <1>2, <1>3

LEMMA EndStep ==
    ASSUME RecoveryInv, RestoreInv, RecoveryInv', Undisturbed, NEW p \in Operator, End(p)
    PROVE  RestoreInv'
<1>1. /\ pc[p] = "end" /\ Inside(p) /\ Progress(p)
      /\ Goto(p, "off", NoJob) /\ UNCHANGED <<data, backups>>
  BY DEF End, Undisturbed, RestoreInv, Inside
<1>2. kept \subseteq kept' /\ (job[p].rollbackFailed => job[p].dumps \in kept')
  BY DEF End, KeepRollback
<1>3. job[p].mutated /\ ~job[p].rollbackFailed =>
          \A d \in Database : data[d] \in Lost => InKept(d)
  BY <1>1 DEF Progress
<1>. QED BY <1>1, <1>2, <1>3, LeaveStep

LEMMA KillStep ==
    ASSUME RecoveryInv, RestoreInv, RecoveryInv', NEW p \in Operator, Kill(p)
    PROVE  RestoreInv'
<1>1. /\ Inside(p) /\ Goto(p, "off", NoJob) /\ UNCHANGED <<data, backups>>
      /\ kept \subseteq kept' /\ (job[p].mutated => job[p].dumps \in kept')
  BY DEF Kill
<1>. QED BY <1>1, LeaveStep

\* Clients write only where nothing depends on it, and only contents.
LEMMA ClientWriteStep ==
    ASSUME RecoveryInv, RestoreInv, RecoveryInv', NEW d \in Database, ClientWrite(d)
    PROVE  RestoreInv'
<1>1. /\ RecoveryTypeOK /\ running # {}
      /\ UNCHANGED <<running, backups, kept, pc, job>>
  BY DEF RecoveryInv, ClientWrite
<1>2. \A e \in Database : data'[e] \in Lost => data[e] \in Lost
  <2>1. writes' \in Content
    BY DEF RecoveryInv, RecoveryTypeOK
  <2>2. writes' \notin Lost
    BY <2>1, ConstantsApart DEF Lost
  <2>3. \A e \in Database : data'[e] = IF e = d THEN writes' ELSE data[e]
    BY <1>1 DEF RecoveryTypeOK, ClientWrite
  <2>. QED BY <2>2, <2>3
<1>3. \A e \in Database : InKept(e) <=> InKept(e)'
  BY <1>1 DEF InKept
<1>4. Saved'
  BY <1>1, <1>2, <1>3 DEF RestoreInv, Saved
<1>5. BackupsSaved'
  BY <1>1, <1>3 DEF RestoreInv, BackupsSaved
<1>6. ASSUME NEW p \in Operator PROVE Progress(p)'
  <2>1. /\ Progress(p) /\ pc[p] \notin {"restore", "restart", "rollback"}
        /\ ~(pc[p] = "recover" /\ job[p].mutated)
    BY <1>1 DEF RestoreInv, Progress, RecoveryInv, Sound, Quiet
  <2>. QED BY <1>1, <1>2, <1>3, <2>1 DEF Progress
<1>. QED BY <1>4, <1>5, <1>6 DEF RestoreInv

LEMMA RestoreNext ==
    ASSUME RecoveryInv, RestoreInv, Undisturbed, [Next]_vars
    PROVE  RestoreInv'
<1>0. RecoveryInv'
  BY RecoveryNext
<1>1. CASE UNCHANGED vars
  BY <1>1 DEF vars, RestoreInv, Saved, BackupsSaved, Progress, InKept
<1>2. ASSUME NEW p \in Operator,
             \/ \E i \in Id : BeginBackup(p, i) \/ BeginRestore(p, i)
             \/ Lock(p) \/ Reject(p) \/ Preflight(p) \/ Stop(p) \/ DumpOne(p)
      PROVE  RestoreInv'
  BY <1>0, <1>2, EarlySteps
<1>3. ASSUME NEW p \in Operator, Publish(p) \/ BeginMutation(p) PROVE RestoreInv'
  BY <1>0, <1>3, PublishStep, BeginMutationStep
<1>4. ASSUME NEW p \in Operator, RestoreOne(p) \/ EndMutation(p) \/ Rollback(p)
      PROVE  RestoreInv'
  BY <1>0, <1>4, RestoreOneStep, EndMutationStep, RollbackStep
<1>5. ASSUME NEW p \in Operator, Restart(p) \/ End(p) \/ Kill(p) PROVE RestoreInv'
  BY <1>0, <1>5, RestartStep, EndStep, KillStep
<1>6. ASSUME NEW p \in Operator, RemoveLockAgain(p) PROVE RestoreInv'
  BY <1>6 DEF RemoveLockAgain, RecoveryInv, Sound, Owner
<1>7. ASSUME NEW d \in Database, ClientWrite(d) PROVE RestoreInv'
  BY <1>0, <1>7, ClientWriteStep
<1>8. ~OtherStage
  BY DEF OtherStage, Undisturbed
<1>. QED BY <1>1, <1>2, <1>3, <1>4, <1>5, <1>6, <1>7, <1>8 DEF Next, Step

-----------------------------------------------------------------------------
(* The clients.                                                            *)

\* Who has captured clients has them stopped, until they run again.
Back(p) ==
    /\ pc[p] # "end" /\ ~job[p].quiesced => job[p].clients = {}
    /\ pc[p] = "end" /\ ~job[p].upFailed => job[p].clients \subseteq running

LEMMA OneBack ==
    ASSUME RecoveryInv, \A q \in Operator : Back(q), NEW p \in Operator,
           \A q \in Operator \ {p} : pc'[q] = pc[q] /\ job'[q] = job[q],
           Inside(p) \/ UNCHANGED running, Back(p)'
    PROVE  \A q \in Operator : Back(q)'
<1>. SUFFICES ASSUME NEW q \in Operator, q # p PROVE Back(q)'
  OBVIOUS
<1>1. Back(q) /\ pc'[q] = pc[q] /\ job'[q] = job[q]
  OBVIOUS
<1>2. CASE Inside(p)
  <2>1. pc[q] # "end"
    BY <1>2, Alone
  <2>. QED BY <1>1, <2>1 DEF Back
<1>3. CASE UNCHANGED running
  BY <1>1, <1>3 DEF Back
<1>. QED BY <1>2, <1>3

\* A jump that leaves the clients of a process alone.
LEMMA JumpBack ==
    ASSUME RecoveryInv, \A q \in Operator : Back(q), NEW p \in Operator,
           Inside(p) \/ UNCHANGED running, NEW label \in PC \ {"end"}, pc[p] # "end",
           NEW j \in Job, Goto(p, label, j),
           j.clients = job[p].clients, j.quiesced = job[p].quiesced
    PROVE  \A q \in Operator : Back(q)'
<1>1. /\ pc'[p] = label /\ job'[p] = j
      /\ \A q \in Operator \ {p} : pc'[q] = pc[q] /\ job'[q] = job[q]
  BY GotoEffect DEF RecoveryInv
<1>2. Back(p)'
  BY <1>1 DEF Back
<1>. QED BY <1>1, <1>2, OneBack

LEMMA FailBack ==
    ASSUME RecoveryInv, \A q \in Operator : Back(q), NEW p \in Operator, Inside(p),
           pc[p] # "end", Fail(p)
    PROVE  \A q \in Operator : Back(q)'
<1>1. job[p] \in Job
  BY DEF RecoveryInv, RecoveryTypeOK
<1>. DEFINE k == [job[p] EXCEPT !.todo = Database]
<1>2. k \in Job /\ k.clients = job[p].clients /\ k.quiesced = job[p].quiesced
  BY <1>1 DEF Job
<1>3. Goto(p, "rollback", k) \/ Goto(p, "recover", job[p])
  BY DEF Fail
<1>4. {"rollback", "recover"} \subseteq PC \ {"end"}
  BY DEF PC
<1>. HIDE DEF k
<1>. QED BY <1>1, <1>2, <1>3, <1>4, JumpBack

\* A process that begins or is gone has captured nothing.
LEMMA NoneBack ==
    ASSUME RecoveryInv, \A q \in Operator : Back(q), NEW p \in Operator,
           Inside(p) \/ UNCHANGED running, NEW label \in {"off", "lock"},
           NEW j \in Job, j.clients = {}, Goto(p, label, j)
    PROVE  \A q \in Operator : Back(q)'
<1>1. /\ pc'[p] = label /\ job'[p] = j
      /\ \A q \in Operator \ {p} : pc'[q] = pc[q] /\ job'[q] = job[q]
  BY GotoEffect DEF RecoveryInv, PC
<1>2. Back(p)'
  BY <1>1 DEF Back
<1>. QED BY <1>1, <1>2, OneBack

LEMMA RestartBack ==
    ASSUME RecoveryInv, \A q \in Operator : Back(q), NEW p \in Operator, Restart(p)
    PROVE  \A q \in Operator : Back(q)'
<1>1. /\ Back(p) /\ job[p] \in Job /\ pc[p] \in {"restart", "recover"} /\ Inside(p)
  BY DEF RecoveryInv, RecoveryTypeOK, Restart, Inside
<1>2. CASE /\ running' = running \cup IF job[p].quiesced THEN job[p].clients ELSE {}
           /\ Goto(p, "end", [job[p] EXCEPT !.quiesced = FALSE, !.upFailed = FALSE])
  <2>. DEFINE j == [job[p] EXCEPT !.quiesced = FALSE, !.upFailed = FALSE]
  <2>1. j \in Job /\ j.clients = job[p].clients
    BY <1>1 DEF Job
  <2>2. Goto(p, "end", j)
    BY <1>2
  <2>. HIDE DEF j
  <2>3. /\ pc'[p] = "end" /\ job'[p] = j
        /\ \A q \in Operator \ {p} : pc'[q] = pc[q] /\ job'[q] = job[q]
    BY <2>1, <2>2, GotoEffect DEF RecoveryInv, PC
  <2>4. job[p].clients \subseteq running'
    BY <1>1, <1>2 DEF Back
  <2>5. Back(p)'
    BY <2>1, <2>3, <2>4 DEF Back
  <2>. QED BY <1>1, <2>3, <2>5, OneBack
<1>3. CASE /\ job[p].quiesced
           /\ Goto(p, IF pc[p] = "restart" THEN "recover" ELSE "end",
                   [job[p] EXCEPT !.upFailed = TRUE])
  <2>. DEFINE j == [job[p] EXCEPT !.upFailed = TRUE]
              label == IF pc[p] = "restart" THEN "recover" ELSE "end"
  <2>1. j \in Job /\ j.upFailed /\ j.quiesced = job[p].quiesced /\ label \in PC
    BY <1>1 DEF Job, PC
  <2>2. Goto(p, label, j)
    BY <1>3
  <2>. HIDE DEF j, label
  <2>3. /\ pc'[p] = label /\ job'[p] = j
        /\ \A q \in Operator \ {p} : pc'[q] = pc[q] /\ job'[q] = job[q]
    BY <2>1, <2>2, GotoEffect DEF RecoveryInv
  <2>4. Back(p)'
    BY <1>3, <2>1, <2>3 DEF Back
  <2>. QED BY <1>1, <2>3, <2>4, OneBack
<1>. QED BY <1>2, <1>3 DEF Restart, RestartClients

LEMMA BackStep ==
    ASSUME RecoveryInv, \A q \in Operator : Back(q), Undisturbed, [Next]_vars
    PROVE  \A q \in Operator : Back(q)'
<1>1. CASE UNCHANGED vars \/ \E d \in Database : ClientWrite(d)
  <2>1. UNCHANGED <<running, pc, job>>
    BY <1>1 DEF vars, ClientWrite
  <2>. QED BY <2>1 DEF Back
<1>2. ASSUME NEW p \in Operator,
             \/ \E i \in Id : BeginBackup(p, i) \/ BeginRestore(p, i)
             \/ Reject(p) \/ End(p) \/ Kill(p)
      PROVE  \A q \in Operator : Back(q)'
  <2>1. Inside(p) \/ UNCHANGED running
    BY <1>2 DEF BeginBackup, BeginRestore, Reject, End, Kill
  <2>2. ASSUME Goto(p, "off", NoJob) PROVE \A q \in Operator : Back(q)'
    <3>1. NoJob.clients = {}
      BY DEF NoJob
    <3>. QED BY <2>1, <2>2, <3>1, InitialJob, NoneBack
  <2>3. ASSUME NEW i \in Id, BeginBackup(p, i) \/ BeginRestore(p, i)
        PROVE  \A q \in Operator : Back(q)'
    <3>1. PICK k \in {"backup", "restore"} :
              Goto(p, "lock", [NoJob EXCEPT !.kind = k, !.id = i])
      BY <2>3 DEF BeginBackup, BeginRestore
    <3>. DEFINE j == [NoJob EXCEPT !.kind = k, !.id = i]
    <3>2. j \in Job /\ j.clients = {}
      BY InitialJob DEF Job, NoJob
    <3>3. Goto(p, "lock", j)
      BY <3>1
    <3>. HIDE DEF j
    <3>. QED BY <2>1, <3>2, <3>3, NoneBack
  <2>4. \/ Goto(p, "off", NoJob)
        \/ \E i \in Id : BeginBackup(p, i) \/ BeginRestore(p, i)
    BY <1>2 DEF Reject, End, Kill, Undisturbed
  <2>. QED BY <2>2, <2>3, <2>4
<1>3. ASSUME NEW p \in Operator, Restart(p) PROVE \A q \in Operator : Back(q)'
  BY <1>3, RestartBack
<1>4. ASSUME NEW p \in Operator,
             \/ Lock(p) \/ Preflight(p) \/ Stop(p) \/ DumpOne(p) \/ Publish(p)
             \/ BeginMutation(p) \/ RestoreOne(p) \/ EndMutation(p) \/ Rollback(p)
      PROVE  \A q \in Operator : Back(q)'
  <2>1. job[p] \in Job /\ pc[p] # "end" /\ (Inside(p) \/ UNCHANGED running)
    BY <1>4 DEF RecoveryInv, RecoveryTypeOK, Lock, Preflight, Stop, DumpOne, Publish, AllDumped,
       BeginMutation, RestoreOne, EndMutation, Rollback, Inside
  <2>2. {"preflight", "stop", "dump", "restart", "restore", "rollback", "recover"} \subseteq PC
    BY DEF PC
  <2>3. CASE Fail(p) /\ Inside(p)
    BY <2>1, <2>3, FailBack
  <2>4. CASE Lock(p)
    BY <2>1, <2>2, <2>4, JumpBack DEF Lock
  <2>5. CASE Goto(p, "stop", Captured(p))
    <3>. DEFINE j == Captured(p)
    <3>1. j \in Job /\ j.quiesced
      BY <2>1 DEF Captured, Job, RecoveryInv, RecoveryTypeOK
    <3>. HIDE DEF j
    <3>2. /\ pc'[p] = "stop" /\ job'[p] = j
          /\ \A q \in Operator \ {p} : pc'[q] = pc[q] /\ job'[q] = job[q]
      BY <2>2, <2>5, <3>1, GotoEffect DEF RecoveryInv, j
    <3>3. Back(p)'
      BY <3>1, <3>2 DEF Back
    <3>. QED BY <2>1, <3>2, <3>3, OneBack
  <2>6. ASSUME NEW todo \in SUBSET Database, NEW label \in {"dump", "restore"},
               Goto(p, label, [job[p] EXCEPT !.todo = todo])
        PROVE  \A q \in Operator : Back(q)'
    <3>. DEFINE j == [job[p] EXCEPT !.todo = todo]
    <3>1. j \in Job /\ j.clients = job[p].clients /\ j.quiesced = job[p].quiesced
      BY <2>1 DEF Job
    <3>2. Goto(p, label, j)
      BY <2>6
    <3>. HIDE DEF j
    <3>. QED BY <2>1, <2>2, <3>1, <3>2, JumpBack
  <2>7. ASSUME NEW d \in Database, data[d] \in Dump,
               Goto(p, "dump", [job[p] EXCEPT !.todo = @ \ {d}, !.dumps[d] = data[d]])
        PROVE  \A q \in Operator : Back(q)'
    <3>. DEFINE j == [job[p] EXCEPT !.todo = @ \ {d}, !.dumps[d] = data[d]]
    <3>1. j \in Job /\ j.clients = job[p].clients /\ j.quiesced = job[p].quiesced
      BY <2>1, <2>7 DEF Job, Dumps
    <3>2. Goto(p, "dump", j)
      BY <2>7
    <3>. HIDE DEF j
    <3>. QED BY <2>1, <2>2, <3>1, <3>2, JumpBack
  <2>8. CASE Goto(p, "restart", job[p])
    BY <2>1, <2>2, <2>8, JumpBack
  <2>9. CASE Goto(p, "restore", [job[p] EXCEPT !.mutated = TRUE, !.before = data,
                                               !.todo = Database])
    <3>. DEFINE j == [job[p] EXCEPT !.mutated = TRUE, !.before = data, !.todo = Database]
    <3>1. j \in Job /\ j.clients = job[p].clients /\ j.quiesced = job[p].quiesced
      BY <2>1 DEF Job, RecoveryInv, RecoveryTypeOK
    <3>2. Goto(p, "restore", j)
      BY <2>9
    <3>. HIDE DEF j
    <3>. QED BY <2>1, <2>2, <3>1, <3>2, JumpBack
  <2>10. CASE Goto(p, "restart", [job[p] EXCEPT !.mutated = FALSE])
    <3>. DEFINE j == [job[p] EXCEPT !.mutated = FALSE]
    <3>1. j \in Job /\ j.clients = job[p].clients /\ j.quiesced = job[p].quiesced
      BY <2>1 DEF Job
    <3>2. Goto(p, "restart", j)
      BY <2>10
    <3>. HIDE DEF j
    <3>. QED BY <2>1, <2>2, <3>1, <3>2, JumpBack
  <2>11. ASSUME NEW d \in Database, NEW failed \in BOOLEAN, NextRollback(p, d, failed)
         PROVE  \A q \in Operator : Back(q)'
    <3>. DEFINE j == [job[p] EXCEPT !.todo = job[p].todo \ {d}, !.rollbackFailed = @ \/ failed]
                label == IF job[p].todo \ {d} = {} THEN "recover" ELSE "rollback"
    <3>1. j \in Job /\ j.clients = job[p].clients /\ j.quiesced = job[p].quiesced
      BY <2>1 DEF Job
    <3>2. Goto(p, label, j) /\ label \in PC \ {"end"}
      BY <2>2, <2>11 DEF NextRollback
    <3>. HIDE DEF j, label
    <3>. QED BY <2>1, <3>1, <3>2, JumpBack
  <2>12. job[p].todo \subseteq Database /\ \A d \in Database : Answers(d) => data[d] \in Dump
    BY <2>1 DEF Job, RecoveryInv, RecoveryTypeOK, Answers, Dump, Lost
  <2>13. CASE Stop(p) \/ Preflight(p)
    BY <2>3, <2>5, <2>6, <2>13 DEF Stop, Preflight, Inside
  <2>14. CASE DumpOne(p)
    BY <2>3, <2>7, <2>12, <2>14 DEF DumpOne, Undisturbed, Inside
  <2>15. CASE Publish(p) \/ BeginMutation(p)
    BY <2>3, <2>8, <2>9, <2>15 DEF Publish, BeginMutation, AllDumped, Inside
  <2>16. CASE RestoreOne(p)
    <3>1. PICK d \in job[p].todo :
              Goto(p, "restore", [job[p] EXCEPT !.todo = @ \ {d}]) \/ Fail(p)
      BY <2>16 DEF RestoreOne
    <3>2. job[p].todo \ {d} \in SUBSET Database /\ Inside(p)
      BY <2>12, <2>16 DEF RestoreOne, Inside
    <3>. QED BY <2>3, <2>6, <3>1, <3>2
  <2>17. CASE EndMutation(p)
    BY <2>3, <2>10, <2>17 DEF EndMutation, Inside
  <2>18. CASE Rollback(p)
    BY <2>11, <2>12, <2>18 DEF Rollback
  <2>. QED BY <1>4, <2>4, <2>13, <2>14, <2>15, <2>16, <2>17, <2>18
<1>5. ASSUME NEW p \in Operator, RemoveLockAgain(p) PROVE FALSE
  BY <1>5 DEF RemoveLockAgain, RecoveryInv, Sound, Owner
<1>6. ~OtherStage
  BY DEF OtherStage, Undisturbed
<1>. QED BY <1>1, <1>2, <1>3, <1>4, <1>5, <1>6 DEF Next, Step

-----------------------------------------------------------------------------
(* The theorems.                                                           *)

LEMMA RestoreInvariant ==
    ASSUME Undisturbed
    PROVE  Spec => [](RecoveryInv /\ RestoreInv)
<1>1. RecoveryInv /\ RestoreInv /\ [Next]_vars => (RecoveryInv /\ RestoreInv)'
  BY RecoveryNext, RestoreNext
<1>. QED BY <1>1, RecoveryInit, RestoreInit, PTL DEF Spec

\* When clients start again, all databases are from the backup, or all as they
\* were before, or the rollback is known to have failed, wherever the restore
\* has failed.  (restore.sh, on_exit, rollback_databases)
THEOREM RestoresAreWhole ==
    ASSUME Undisturbed
    PROVE  Spec => []RestoredOrRolledBack
<1>1. RestoreInv => RestoredOrRolledBack
  BY DEF RestoreInv, Progress, RestoredOrRolledBack
<1>. QED BY <1>1, RestoreInvariant, PTL

\* The content of a database that has none is in some rollback directory,
\* however many restores failed, failed to roll back or were killed.
\* (restore.sh, on_exit: the directory is removed unless the rollback failed)
THEOREM NothingIsLost ==
    ASSUME Undisturbed
    PROVE  Spec => []LostDataIsOnDisk
<1>1. RestoreInv => LostDataIsOnDisk
  BY DEF RestoreInv, Saved, InKept, LostDataIsOnDisk
<1>. QED BY <1>1, RestoreInvariant, PTL

\* However a backup or a restore ends, unless it is killed or compose up fails
\* twice, the clients that ran when it began run again.  (restart_clients and
\* the exit traps of both scripts)
THEOREM ClientsRunAgain ==
    ASSUME Undisturbed
    PROVE  Spec => ClientsComeBack
<1>. DEFINE BackInv == RecoveryInv /\ \A p \in Operator : Back(p)
<1>1. Init => BackInv
  <2>. SUFFICES ASSUME Init PROVE BackInv
    OBVIOUS
  <2>1. \A p \in Operator : pc[p] = "off" /\ job[p].clients = {}
    BY DEF Init, NoJob
  <2>. QED BY <2>1, RecoveryInit DEF Back
<1>2. BackInv /\ [Next]_vars => BackInv'
  BY RecoveryNext, BackStep
<1>3. BackInv /\ [Next]_vars =>
          [\A p \in Operator :
              End(p) /\ ~job[p].upFailed => job[p].clients \subseteq running]_vars
  BY DEF Back, End
<1>. QED BY <1>1, <1>2, <1>3, PTL DEF Spec, ClientsComeBack

=============================================================================
