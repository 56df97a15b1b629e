-------------------------- MODULE ProjectionProofs --------------------------
(***************************************************************************)
(* Theorems about ProjectionConsumer and NotionProjection, for all         *)
(* objects, consumers, pages, revision bounds, attempt limits and batch    *)
(* sizes, with crashes and, where a theorem does not say otherwise, stalls.*)
(*                                                                         *)
(* First come lemmas that say, row by row, what each statement of          *)
(* ProviderOutbox does to the tables; the invariants use only those.  Then *)
(* leases, desires, the promise and the intents of ProjectionConsumer, and *)
(* last the pages of NotionProjection.                                     *)
(***************************************************************************)
EXTENDS NotionProjection, FiniteSetTheorems, WellFoundedInduction, TLAPS

-----------------------------------------------------------------------------
(* Rows.                                                                   *)

LEMMA EventKeyType ==
    ASSUME NEW e \in Event
    PROVE  EventKey(e) \in Key
BY DEF Event, EventKey, Key

\* A closed outbox row keeps its hash and attempts.
LEMMA ClosedRow ==
    ASSUME NEW row \in OutboxRow, NEW state \in {"delivered", "failed"}
    PROVE  /\ Closed(row, state) \in OutboxRow
           /\ Closed(row, state).state = state
           /\ Closed(row, state).owner = NoOne
           /\ Closed(row, state).hash = row.hash
BY DEF Closed, OutboxRow

\* Claiming, releasing or failing a sync row leaves what it desires and shows.
LEMMA ClaimedSyncRow ==
    ASSUME TablesTypeOK, NEW o \in Object, NEW c \in Consumer
    PROVE  LET new == ClaimedSync(c, o) IN
           /\ new \in SyncRow /\ new.status = "syncing" /\ new.owner = c
           /\ new.op = sync[o].op /\ new.rev = sync[o].rev
           /\ new.hash = sync[o].hash
           /\ new.page = sync[o].page /\ new.seen = sync[o].seen
<1>1. sync[o] \in SyncRow
  BY DEF TablesTypeOK
<1>. QED BY <1>1 DEF SyncRow, ClaimedSync

LEMMA ReleasedSyncRow ==
    ASSUME TablesTypeOK, NEW o \in Object
    PROVE  LET new == ReleasedSync(o) IN
           /\ new \in SyncRow /\ new.status = "pending" /\ new.owner = NoOne
           /\ new.op = sync[o].op /\ new.rev = sync[o].rev
           /\ new.hash = sync[o].hash
           /\ new.page = sync[o].page /\ new.seen = sync[o].seen
<1>1. sync[o] \in SyncRow
  BY DEF TablesTypeOK
<1>. QED BY <1>1 DEF SyncRow, ReleasedSync

LEMMA FailedSyncRow ==
    ASSUME TablesTypeOK, NEW o \in Object
    PROVE  LET new == FailedSync(o) IN
           /\ new \in SyncRow /\ new.status = "error" /\ new.owner = NoOne
           /\ new.op = sync[o].op /\ new.rev = sync[o].rev
           /\ new.hash = sync[o].hash
           /\ new.page = sync[o].page /\ new.seen = sync[o].seen
<1>1. sync[o] \in SyncRow
  BY DEF TablesTypeOK
<1>. QED BY <1>1 DEF SyncRow, FailedSync

LEMMA ProjectedSyncRow ==
    ASSUME TablesTypeOK, NEW e \in Event
    PROVE  LET new == ProjectedSync(e) IN
           /\ new \in SyncRow /\ new.status = "synced" /\ new.owner = NoOne
           /\ new.op = sync[e.obj].op /\ new.rev = sync[e.obj].rev
           /\ new.hash = sync[e.obj].hash
           /\ new.seen = [rev |-> e.rev, hash |-> e.hash]
<1> DEFINE seen == [rev |-> e.rev, hash |-> e.hash]
           page == IF e.page = NoPage THEN sync[e.obj].page ELSE e.page
<1>1. e.obj \in Object /\ seen \in Version /\ e.page \in Page \cup {NoPage}
  BY DEF Event, Version
<1>2. sync[e.obj] \in SyncRow
  BY <1>1 DEF TablesTypeOK
<1>3. page \in Page \cup {NoPage}
  BY <1>1, <1>2 DEF SyncRow
<1>4. ProjectedSync(e) = [sync[e.obj] EXCEPT !.status = "synced", !.owner = NoOne,
                                             !.seen = seen, !.page = page]
  BY DEF ProjectedSync
<1>. HIDE DEF page
<1>5. /\ ProjectedSync(e) \in SyncRow
      /\ ProjectedSync(e).status = "synced" /\ ProjectedSync(e).owner = NoOne
      /\ ProjectedSync(e).op = sync[e.obj].op
      /\ ProjectedSync(e).rev = sync[e.obj].rev
      /\ ProjectedSync(e).hash = sync[e.obj].hash
      /\ ProjectedSync(e).seen = seen
  <2>. HIDE DEF seen
  <2>. QED BY <1>1, <1>2, <1>3, <1>4 DEF SyncRow
<1>. QED BY <1>5

LEMMA VersionFields ==
    ASSUME NEW v \in Version
    PROVE  v.rev \in Rev /\ v.rev \in 0..MaxRev /\ v.hash \in Hash
BY OutboxAssumption DEF Version, Rev, OutboxAssumption

LEMMA NoVersionIsNone == NoVersion \notin Version
BY DEF NoVersion, Version, Rev

\* A sync row that desires a revision desires content.
LEMMA DesiredType ==
    ASSUME TablesTypeOK, NEW o \in Object, sync[o].rev \in Rev
    PROVE  Desired(o) \in Version /\ sync[o].hash \in Hash
<1>1. Desired(o) # NoVersion
  BY DEF Desired, NoVersion, Rev
<1>2. Desired(o) \in Version
  BY <1>1 DEF TablesTypeOK
<1>3. Desired(o).hash = sync[o].hash
  BY DEF Desired
<1>. QED BY <1>2, <1>3, VersionFields

-----------------------------------------------------------------------------
(* Statements.                                                             *)

LEMMA EnqueueEffect ==
    ASSUME TablesTypeOK, NEW o \in Object, NEW op \in Op, NEW v \in Version,
           Enqueue(o, op, v)
    PROVE  LET key == <<o, v.rev, op>> IN
           /\ sync' \in [Object -> SyncRow] /\ outbox' \in [Key -> OutboxRow]
           /\ key \in Key
           /\ \A p \in Object \ {o} : sync'[p] = sync[p]
           /\ sync'[o].op = op /\ sync'[o].rev = v.rev /\ sync'[o].hash = v.hash
           /\ sync'[o].status = IF LeasedSync(o) THEN "syncing" ELSE "pending"
           /\ sync'[o].owner = sync[o].owner
           /\ sync'[o].page = sync[o].page /\ sync'[o].seen = sync[o].seen
           /\ \A k \in Key : outbox[k].state # "absent" => outbox'[k] = outbox[k]
           /\ \A k \in Key : k # key => outbox'[k] = outbox[k]
           /\ outbox[key].state = "absent" =>
                 outbox'[key].state = "pending" /\ outbox'[key].hash = v.hash
<1> DEFINE key == <<o, v.rev, op>>
           row == [state |-> "pending", hash |-> v.hash, owner |-> NoOne,
                   attempts |-> 0]
           s == IF LeasedSync(o) THEN "syncing" ELSE "pending"
           new == [sync[o] EXCEPT !.op = op, !.rev = v.rev, !.hash = v.hash,
                                  !.status = s]
<1>1. key \in Key
  BY VersionFields DEF Key
<1>2. row \in OutboxRow /\ row.state = "pending" /\ row.hash = v.hash
  BY VersionFields, OutboxAssumption DEF OutboxRow, OutboxAssumption
<1>3. outbox' = IF outbox[key].state = "absent"
                THEN [outbox EXCEPT ![key] = row] ELSE outbox
  BY DEF Enqueue
<1>4. /\ outbox' \in [Key -> OutboxRow]
      /\ \A k \in Key : outbox[k].state # "absent" => outbox'[k] = outbox[k]
      /\ \A k \in Key : k # key => outbox'[k] = outbox[k]
      /\ outbox[key].state = "absent" =>
            outbox'[key].state = "pending" /\ outbox'[key].hash = v.hash
  <2>. HIDE DEF key, row
  <2>. QED BY <1>1, <1>2, <1>3 DEF TablesTypeOK
<1>5. s \in {"pending", "syncing"}
  OBVIOUS
<1>6. sync[o] \in SyncRow
  BY DEF TablesTypeOK
<1>7. /\ new \in SyncRow
      /\ new.op = op /\ new.rev = v.rev /\ new.hash = v.hash
      /\ new.status = s /\ new.owner = sync[o].owner
      /\ new.page = sync[o].page /\ new.seen = sync[o].seen
  <2>. HIDE DEF s
  <2>. QED BY <1>5, <1>6, VersionFields DEF SyncRow
<1>8. sync' = [sync EXCEPT ![o] = new]
  BY DEF Enqueue
<1>9. /\ sync' \in [Object -> SyncRow]
      /\ sync'[o] = new
      /\ \A p \in Object \ {o} : sync'[p] = sync[p]
  <2>. HIDE DEF new
  <2>. QED BY <1>7, <1>8 DEF TablesTypeOK
<1>. HIDE DEF new
<1>. QED BY <1>1, <1>4, <1>7, <1>9

LEMMA AckSupersededEffect ==
    ASSUME TablesTypeOK, AckSuperseded
    PROVE  /\ outbox' \in [Key -> OutboxRow]
           /\ canonical' = canonical /\ sync' = sync /\ expired' = expired
           /\ \A k \in Key :
                 \/ outbox'[k] = outbox[k]
                 \/ /\ Superseded(k)
                    /\ outbox'[k] = Closed(outbox[k], "delivered")
<1>1. \A k \in Key : outbox'[k] = IF Superseded(k)
                                  THEN Closed(outbox[k], "delivered")
                                  ELSE outbox[k]
  BY DEF AckSuperseded
<1>2. ASSUME NEW k \in Key PROVE outbox'[k] \in OutboxRow
  BY <1>1, ClosedRow DEF TablesTypeOK
<1>3. outbox' \in [Key -> OutboxRow]
  BY <1>2 DEF AckSuperseded
<1>. QED BY <1>1, <1>3 DEF AckSuperseded

LEMMA ReapExhaustedEffect ==
    ASSUME TablesTypeOK, ReapExhausted(BatchSize)
    PROVE  /\ sync' \in [Object -> SyncRow] /\ outbox' \in [Key -> OutboxRow]
           /\ canonical' = canonical /\ expired' = expired
           /\ \A k \in Key :
                 \/ outbox'[k] = outbox[k]
                 \/ /\ Exhausted(k)
                    /\ outbox'[k] = Closed(outbox[k], "failed")
           /\ \A o \in Object :
                 \/ sync'[o] = sync[o]
                 \/ /\ CurrentKey(o) \in Key /\ Exhausted(CurrentKey(o))
                    /\ outbox'[CurrentKey(o)] = Closed(outbox[CurrentKey(o)], "failed")
                    /\ outbox[CurrentKey(o)].hash = sync[o].hash
                    /\ sync[o].status = "syncing"
                    /\ sync[o].owner = outbox[CurrentKey(o)].owner
                    /\ sync'[o] = FailedSync(o)
<1>1. PICK batch \in SUBSET {k \in Key : Exhausted(k)} :
         /\ outbox' = [k \in Key |-> IF k \in batch
                                     THEN Closed(outbox[k], "failed")
                                     ELSE outbox[k]]
         /\ sync' = [o \in Object |->
                       IF ReapedSync(o, batch)
                       THEN FailedSync(o)
                       ELSE sync[o]]
         /\ UNCHANGED <<canonical, expired>>
  BY DEF ReapExhausted
<1>2. ASSUME NEW k \in Key PROVE outbox'[k] \in OutboxRow
  BY <1>1, ClosedRow DEF TablesTypeOK
<1>3. ASSUME NEW o \in Object PROVE sync'[o] \in SyncRow
  <2>1. FailedSync(o) \in SyncRow
    BY FailedSyncRow
  <2>. QED BY <1>1, <2>1 DEF TablesTypeOK
<1>4. sync' \in [Object -> SyncRow] /\ outbox' \in [Key -> OutboxRow]
  BY <1>1, <1>2, <1>3
<1>5. ASSUME NEW o \in Object, ReapedSync(o, batch)
      PROVE  /\ CurrentKey(o) \in Key /\ Exhausted(CurrentKey(o))
             /\ outbox'[CurrentKey(o)] = Closed(outbox[CurrentKey(o)], "failed")
             /\ outbox[CurrentKey(o)].hash = sync[o].hash
             /\ sync[o].status = "syncing"
             /\ sync[o].owner = outbox[CurrentKey(o)].owner
  BY <1>1, <1>5 DEF ReapedSync
<1>. QED BY <1>1, <1>4, <1>5

LEMMA ClaimNextEffect ==
    ASSUME TablesTypeOK, NEW c \in Consumer, NEW o \in Object, ClaimNext(c, o)
    PROVE  LET key == CurrentKey(o) IN
           /\ sync' \in [Object -> SyncRow] /\ outbox' \in [Key -> OutboxRow]
           /\ canonical' = canonical /\ expired' = expired \ {c}
           /\ key \in Key /\ sync[o].rev \in Rev
           /\ outbox[key].hash = sync[o].hash
           /\ outbox[key].state \in {"pending", "failed", "processing"}
           /\ outbox[key].state = "processing" => outbox[key].owner \in expired
           /\ \A p \in Object \ {o} : sync'[p] = sync[p]
           /\ sync'[o] = ClaimedSync(c, o)
           /\ \A k \in Key \ {key} : outbox'[k] = outbox[k]
           /\ outbox'[key].state = "processing" /\ outbox'[key].owner = c
           /\ outbox'[key].hash = sync[o].hash
           /\ ClaimedEvent(o) \in Event /\ EventKey(ClaimedEvent(o)) = key
<1> DEFINE key == CurrentKey(o)
           row == ClaimedRow(c, outbox[key])
<1>1. /\ key \in Key
      /\ outbox[key].hash = sync[o].hash
      /\ outbox[key].attempts < MaxAttempts
      /\ outbox[key].state \in {"pending", "failed", "processing"}
      /\ outbox[key].state = "processing" => outbox[key].owner \in expired
  BY DEF ClaimNext, Claimable, Lapsed
<1>2. sync[o].rev \in Rev
  BY <1>1 DEF CurrentKey, Key
<1>3. outbox[key] \in OutboxRow
  BY <1>1 DEF TablesTypeOK
<1>4. outbox[key].attempts + 1 \in 0..MaxAttempts
  BY <1>1, <1>3, OutboxAssumption DEF OutboxRow, OutboxAssumption
<1>5. /\ row \in OutboxRow
      /\ row.state = "processing" /\ row.owner = c /\ row.hash = outbox[key].hash
  <2>. HIDE DEF key
  <2>. QED BY <1>3, <1>4 DEF ClaimedRow, OutboxRow
<1>6. /\ outbox' = [outbox EXCEPT ![key] = row]
      /\ canonical' = canonical /\ expired' = expired \ {c}
      /\ sync' = [sync EXCEPT ![o] = ClaimedSync(c, o)]
  BY DEF ClaimNext
<1>7. ClaimedSync(c, o) \in SyncRow
  BY ClaimedSyncRow
<1>8. /\ sync' \in [Object -> SyncRow]
      /\ \A p \in Object \ {o} : sync'[p] = sync[p]
      /\ sync'[o] = ClaimedSync(c, o)
  BY <1>6, <1>7 DEF TablesTypeOK
<1>9. /\ outbox' \in [Key -> OutboxRow]
      /\ \A k \in Key \ {key} : outbox'[k] = outbox[k]
      /\ outbox'[key] = row
  <2>. HIDE DEF row, key
  <2>. QED BY <1>1, <1>5, <1>6 DEF TablesTypeOK
<1>10. sync[o].hash \in Hash
  BY <1>2, DesiredType
<1>11. ClaimedEvent(o) \in Event /\ EventKey(ClaimedEvent(o)) = key
  <2>1. sync[o].op \in Op /\ sync[o].page \in Page \cup {NoPage}
    BY DEF TablesTypeOK, SyncRow
  <2>2. ClaimedEvent(o) \in Event
    BY <1>2, <1>10, <2>1 DEF ClaimedEvent, Event
  <2>3. EventKey(ClaimedEvent(o)) = key
    BY DEF ClaimedEvent, EventKey, CurrentKey
  <2>. QED BY <2>2, <2>3
<1>. HIDE DEF row, key
<1>. QED BY <1>1, <1>2, <1>5, <1>6, <1>8, <1>9, <1>11 DEF key

LEMMA CloseRowEffect ==
    ASSUME TablesTypeOK, NEW c \in Consumer, NEW e \in Event,
           NEW state \in {"delivered", "failed"}, CloseRow(c, e, state)
    PROVE  /\ outbox' \in [Key -> OutboxRow]
           /\ \A k \in Key : k # EventKey(e) => outbox'[k] = outbox[k]
           /\ outbox'[EventKey(e)] = IF HoldsRow(c, e)
                                     THEN Closed(outbox[EventKey(e)], state)
                                     ELSE outbox[EventKey(e)]
<1> DEFINE key == EventKey(e)
           row == Closed(outbox[key], state)
<1>1. key \in Key
  BY EventKeyType
<1>2. row \in OutboxRow
  BY <1>1, ClosedRow DEF TablesTypeOK
<1>3. outbox' = IF HoldsRow(c, e) THEN [outbox EXCEPT ![key] = row] ELSE outbox
  BY DEF CloseRow
<1>. HIDE DEF row, key
<1>4. /\ outbox' \in [Key -> OutboxRow]
      /\ \A k \in Key : k # key => outbox'[k] = outbox[k]
      /\ outbox'[key] = IF HoldsRow(c, e) THEN row ELSE outbox[key]
  BY <1>1, <1>2, <1>3 DEF TablesTypeOK
<1>. QED BY <1>4 DEF row, key

\* What the three finalizing statements do to the sync row of their event.
LEMMA FinalizeSuccessEffect ==
    ASSUME TablesTypeOK, NEW c \in Consumer, NEW e \in Event,
           FinalizeSuccess(c, e)
    PROVE  /\ sync' \in [Object -> SyncRow]
           /\ CloseRow(c, e, "delivered")
           /\ canonical' = canonical /\ expired' = expired
           /\ \A o \in Object \ {e.obj} : sync'[o] = sync[o]
           /\ \/ ~FinalizeSuccessOK(c, e) /\ sync'[e.obj] = sync[e.obj]
              \/ RenewOK(c, e) /\ SyncIsAt(e) /\ sync'[e.obj] = ProjectedSync(e)
              \/ RenewOK(c, e) /\ SyncIsPast(e) /\ sync'[e.obj] = ReleasedSync(e.obj)
<1> DEFINE row == CASE RenewOK(c, e) /\ SyncIsAt(e)   -> ProjectedSync(e)
                    [] RenewOK(c, e) /\ SyncIsPast(e) -> ReleasedSync(e.obj)
                    [] OTHER -> sync[e.obj]
<1>1. e.obj \in Object
  BY DEF Event
<1>2. /\ sync[e.obj] \in SyncRow
      /\ ProjectedSync(e) \in SyncRow /\ ReleasedSync(e.obj) \in SyncRow
  BY <1>1, ProjectedSyncRow, ReleasedSyncRow DEF TablesTypeOK
<1>3. /\ sync' = [sync EXCEPT ![e.obj] = row]
      /\ CloseRow(c, e, "delivered")
      /\ canonical' = canonical /\ expired' = expired
  BY DEF FinalizeSuccess
<1>4. /\ row \in SyncRow
      /\ \/ ~FinalizeSuccessOK(c, e) /\ row = sync[e.obj]
         \/ RenewOK(c, e) /\ SyncIsAt(e) /\ row = ProjectedSync(e)
         \/ RenewOK(c, e) /\ SyncIsPast(e) /\ row = ReleasedSync(e.obj)
  <2>1. CASE RenewOK(c, e) /\ SyncIsAt(e)
    <3>1. ~SyncIsPast(e)
      BY <1>1, <2>1 DEF SyncIsAt, SyncIsPast, TablesTypeOK, SyncRow, Event, Rev
    <3>. QED BY <1>2, <2>1, <3>1
  <2>2. CASE RenewOK(c, e) /\ SyncIsPast(e) /\ ~SyncIsAt(e)
    BY <1>2, <2>2
  <2>3. CASE ~RenewOK(c, e) \/ (~SyncIsAt(e) /\ ~SyncIsPast(e))
    BY <1>2, <2>3 DEF FinalizeSuccessOK
  <2>. QED BY <2>1, <2>2, <2>3
<1>. HIDE DEF row
<1>5. /\ sync' \in [Object -> SyncRow]
      /\ sync'[e.obj] = row
      /\ \A o \in Object \ {e.obj} : sync'[o] = sync[o]
  BY <1>1, <1>3, <1>4 DEF TablesTypeOK
<1>. QED BY <1>3, <1>4, <1>5

LEMMA FinalizeSupersededEffect ==
    ASSUME TablesTypeOK, NEW c \in Consumer, NEW e \in Event,
           FinalizeSuperseded(c, e)
    PROVE  /\ sync' \in [Object -> SyncRow]
           /\ CloseRow(c, e, "delivered")
           /\ canonical' = canonical /\ expired' = expired
           /\ \A o \in Object \ {e.obj} : sync'[o] = sync[o]
           /\ \/ sync'[e.obj] = sync[e.obj] /\ ~(HoldsSync(c, e) /\ SyncIsPast(e))
              \/ HoldsSync(c, e) /\ SyncIsPast(e) /\ sync'[e.obj] = ReleasedSync(e.obj)
<1>1. e.obj \in Object
  BY DEF Event
<1>2. ReleasedSync(e.obj) \in SyncRow
  BY <1>1, ReleasedSyncRow
<1>3. /\ sync' = [sync EXCEPT ![e.obj] =
                    IF HoldsSync(c, e) /\ SyncIsPast(e)
                    THEN ReleasedSync(e.obj) ELSE sync[e.obj]]
      /\ CloseRow(c, e, "delivered")
      /\ canonical' = canonical /\ expired' = expired
  BY DEF FinalizeSuperseded
<1>. QED BY <1>1, <1>2, <1>3 DEF TablesTypeOK

LEMMA FinalizeErrorEffect ==
    ASSUME TablesTypeOK, NEW c \in Consumer, NEW e \in Event,
           FinalizeError(c, e)
    PROVE  /\ sync' \in [Object -> SyncRow]
           /\ CloseRow(c, e, "failed")
           /\ canonical' = canonical /\ expired' = expired
           /\ \A o \in Object \ {e.obj} : sync'[o] = sync[o]
           /\ \/ /\ sync'[e.obj] = sync[e.obj]
                 /\ ~(RenewOK(c, e) /\ (SyncIsAt(e) \/ SyncIsPast(e)))
              \/ RenewOK(c, e) /\ SyncIsAt(e) /\ sync'[e.obj] = FailedSync(e.obj)
              \/ RenewOK(c, e) /\ SyncIsPast(e) /\ sync'[e.obj] = ReleasedSync(e.obj)
<1> DEFINE row == CASE RenewOK(c, e) /\ SyncIsAt(e)   -> FailedSync(e.obj)
                    [] RenewOK(c, e) /\ SyncIsPast(e) -> ReleasedSync(e.obj)
                    [] OTHER -> sync[e.obj]
<1>1. e.obj \in Object
  BY DEF Event
<1>2. /\ sync[e.obj] \in SyncRow
      /\ FailedSync(e.obj) \in SyncRow /\ ReleasedSync(e.obj) \in SyncRow
  BY <1>1, FailedSyncRow, ReleasedSyncRow DEF TablesTypeOK
<1>3. /\ sync' = [sync EXCEPT ![e.obj] = row]
      /\ CloseRow(c, e, "failed")
      /\ canonical' = canonical /\ expired' = expired
  BY DEF FinalizeError
<1>4. /\ row \in SyncRow
      /\ \/ /\ row = sync[e.obj]
            /\ ~(RenewOK(c, e) /\ (SyncIsAt(e) \/ SyncIsPast(e)))
         \/ RenewOK(c, e) /\ SyncIsAt(e) /\ row = FailedSync(e.obj)
         \/ RenewOK(c, e) /\ SyncIsPast(e) /\ row = ReleasedSync(e.obj)
  <2>1. CASE RenewOK(c, e) /\ SyncIsAt(e)
    <3>1. ~SyncIsPast(e)
      BY <1>1, <2>1 DEF SyncIsAt, SyncIsPast, TablesTypeOK, SyncRow, Event, Rev
    <3>. QED BY <1>2, <2>1, <3>1
  <2>2. CASE RenewOK(c, e) /\ SyncIsPast(e) /\ ~SyncIsAt(e)
    BY <1>2, <2>2
  <2>3. CASE ~RenewOK(c, e) \/ (~SyncIsAt(e) /\ ~SyncIsPast(e))
    BY <1>2, <2>3
  <2>. QED BY <2>1, <2>2, <2>3
<1>. HIDE DEF row
<1>5. /\ sync' \in [Object -> SyncRow]
      /\ sync'[e.obj] = row
      /\ \A o \in Object \ {e.obj} : sync'[o] = sync[o]
  BY <1>1, <1>3, <1>4 DEF TablesTypeOK
<1>. QED BY <1>3, <1>4, <1>5

-----------------------------------------------------------------------------
(* Type correctness.  No statement of a drain changes what is desired.     *)

KeepsDesires ==
    /\ canonical' = canonical
    /\ \A o \in Object :
          /\ sync'[o].op = sync[o].op
          /\ sync'[o].rev = sync[o].rev
          /\ sync'[o].hash = sync[o].hash
          /\ sync'[o].status = "none" <=> sync[o].status = "none"

LEMMA TablesKept ==
    ASSUME TablesTypeOK, KeepsDesires, expired' \in SUBSET Consumer,
           sync' \in [Object -> SyncRow], outbox' \in [Key -> OutboxRow]
    PROVE  TablesTypeOK'
<1>1. ASSUME NEW o \in Object
      PROVE  Desired(o)' \in IF sync'[o].status = "none" THEN {NoVersion} ELSE Version
  <2>1. /\ sync'[o].rev = sync[o].rev /\ sync'[o].hash = sync[o].hash
        /\ sync'[o].status = "none" <=> sync[o].status = "none"
    BY DEF KeepsDesires
  <2>2. Desired(o)' = Desired(o)
    BY <2>1 DEF Desired
  <2>. QED BY <2>1, <2>2 DEF TablesTypeOK
<1>. QED BY <1>1 DEF TablesTypeOK, KeepsDesires

LEMMA AckSupersededType ==
    ASSUME TablesTypeOK, AckSuperseded
    PROVE  TablesTypeOK' /\ KeepsDesires
<1>1. KeepsDesires
  BY AckSupersededEffect DEF KeepsDesires
<1>. QED BY <1>1, AckSupersededEffect, TablesKept DEF TablesTypeOK

LEMMA ReapExhaustedType ==
    ASSUME TablesTypeOK, ReapExhausted(BatchSize)
    PROVE  TablesTypeOK' /\ KeepsDesires
<1>1. KeepsDesires
  BY ReapExhaustedEffect, FailedSyncRow DEF KeepsDesires
<1>. QED BY <1>1, ReapExhaustedEffect, TablesKept DEF TablesTypeOK

LEMMA ClaimNextType ==
    ASSUME TablesTypeOK, NEW c \in Consumer, NEW o \in Object, ClaimNext(c, o)
    PROVE  TablesTypeOK' /\ KeepsDesires
<1>1. KeepsDesires
  <2>1. sync'[o] = ClaimedSync(c, o)
    BY ClaimNextEffect
  <2>2. /\ sync'[o].op = sync[o].op
        /\ sync'[o].rev = sync[o].rev
        /\ sync'[o].hash = sync[o].hash
        /\ sync'[o].status # "none" /\ sync[o].status # "none"
    BY <2>1, ClaimedSyncRow DEF ClaimNext, Claimable
  <2>3. canonical' = canonical /\ \A p \in Object \ {o} : sync'[p] = sync[p]
    BY ClaimNextEffect
  <2>. QED BY <2>2, <2>3 DEF KeepsDesires
<1>. QED BY <1>1, ClaimNextEffect, TablesKept DEF TablesTypeOK

LEMMA FinalizeType ==
    ASSUME TablesTypeOK, NEW c \in Consumer, NEW e \in Event,
           \/ FinalizeSuccess(c, e)
           \/ FinalizeSuperseded(c, e)
           \/ FinalizeError(c, e)
    PROVE  TablesTypeOK' /\ KeepsDesires
<1>1. e.obj \in Object
  BY DEF Event
<1>2. /\ sync' \in [Object -> SyncRow]
      /\ canonical' = canonical /\ expired' = expired
      /\ \A o \in Object \ {e.obj} : sync'[o] = sync[o]
      /\ \/ sync'[e.obj] = sync[e.obj]
         \/ /\ sync[e.obj].status = "syncing"
            /\ sync'[e.obj] \in {ProjectedSync(e), ReleasedSync(e.obj),
                                 FailedSync(e.obj)}
  BY FinalizeSuccessEffect, FinalizeSupersededEffect, FinalizeErrorEffect
     DEF RenewOK, HoldsSync
<1>3. outbox' \in [Key -> OutboxRow]
  BY CloseRowEffect, FinalizeSuccessEffect, FinalizeSupersededEffect,
     FinalizeErrorEffect
<1>4. /\ sync'[e.obj].op = sync[e.obj].op
      /\ sync'[e.obj].rev = sync[e.obj].rev
      /\ sync'[e.obj].hash = sync[e.obj].hash
      /\ sync'[e.obj].status = "none" <=> sync[e.obj].status = "none"
  <2>. DEFINE same(row) == /\ row.op = sync[e.obj].op
                           /\ row.rev = sync[e.obj].rev
                           /\ row.hash = sync[e.obj].hash
                           /\ row.status # "none"
  <2>1. same(ProjectedSync(e))
    BY ProjectedSyncRow
  <2>2. same(ReleasedSync(e.obj)) /\ same(FailedSync(e.obj))
    BY <1>1, ReleasedSyncRow, FailedSyncRow
  <2>. QED BY <1>2, <2>1, <2>2
<1>5. KeepsDesires
  BY <1>2, <1>4 DEF KeepsDesires
<1>. QED BY <1>2, <1>3, <1>5, TablesKept DEF TablesTypeOK

LEMMA EnqueueType ==
    ASSUME TablesTypeOK, NEW o \in Object, NEW op \in Op, NEW v \in Version,
           Enqueue(o, op, v), expired' = expired,
           canonical' \in [Object -> Version \cup {NoVersion}]
    PROVE  /\ TablesTypeOK'
           /\ Desired(o)' = v
           /\ \A p \in Object \ {o} : Desired(p)' = Desired(p)
<1>1. v = [rev |-> v.rev, hash |-> v.hash]
  BY DEF Version
<1>2. sync'[o].rev = v.rev /\ sync'[o].hash = v.hash
  BY EnqueueEffect
<1>3. Desired(o)' = v
  BY <1>1, <1>2 DEF Desired
<1>4. \A p \in Object \ {o} : sync'[p] = sync[p]
  BY EnqueueEffect
<1>5. \A p \in Object \ {o} : Desired(p)' = Desired(p)
  BY <1>4 DEF Desired
<1>6. sync' \in [Object -> SyncRow] /\ outbox' \in [Key -> OutboxRow]
  BY EnqueueEffect
<1>7. ASSUME NEW p \in Object
      PROVE  Desired(p)' \in IF sync'[p].status = "none" THEN {NoVersion} ELSE Version
  <2>1. sync'[o].status \in {"syncing", "pending"}
    BY EnqueueEffect
  <2>. QED BY <1>3, <1>4, <1>5, <2>1 DEF TablesTypeOK
<1>. QED BY <1>3, <1>5, <1>6, <1>7 DEF TablesTypeOK

\* A client's write is one Enqueue.
LEMMA ClientWriteCases ==
    ASSUME TablesTypeOK, ClientWrite
    PROVE  \E o \in Object, op \in Op, v \in Version :
               /\ Enqueue(o, op, v) /\ expired' = expired
               /\ canonical' = [canonical EXCEPT ![o] =
                                  IF op = "upsert" THEN v ELSE NoVersion]
               /\ \/ /\ op = "upsert"
                     /\ \/ /\ canonical[o] = NoVersion
                           /\ FreshRevisions => v.rev > sync[o].rev
                        \/ canonical[o] # NoVersion /\ v.rev > canonical[o].rev
                  \/ op = "delete" /\ v = canonical[o]
<1>1. CASE \E o \in Object, v \in Version : InsertObject(o, v) \/ UpdateObject(o, v)
  <2>1. PICK o \in Object, v \in Version : InsertObject(o, v) \/ UpdateObject(o, v)
    BY <1>1
  <2>2. /\ Enqueue(o, "upsert", v) /\ expired' = expired
        /\ canonical' = [canonical EXCEPT ![o] = v]
        /\ \/ /\ canonical[o] = NoVersion
              /\ FreshRevisions => v.rev > sync[o].rev
           \/ canonical[o] # NoVersion /\ v.rev > canonical[o].rev
    <3>1. CASE InsertObject(o, v)
      BY <3>1, OutboxAssumption DEF InsertObject, OutboxAssumption
    <3>2. CASE UpdateObject(o, v)
      BY <3>2 DEF UpdateObject
    <3>. QED BY <2>1, <3>1, <3>2
  <2>3. "upsert" \in Op
    BY DEF Op
  <2>. QED BY <2>2, <2>3
<1>2. CASE \E o \in Object : DeleteObject(o)
  <2>1. PICK o \in Object : DeleteObject(o)
    BY <1>2
  <2>2. /\ canonical[o] \in Version
        /\ Enqueue(o, "delete", canonical[o]) /\ expired' = expired
        /\ canonical' = [canonical EXCEPT ![o] = NoVersion]
    BY <2>1 DEF DeleteObject, TablesTypeOK
  <2>3. "delete" \in Op /\ "delete" # "upsert"
    BY DEF Op
  <2>. QED BY <2>2, <2>3
<1>. QED BY <1>1, <1>2 DEF ClientWrite

LEMMA ClientWriteType ==
    ASSUME TablesTypeOK, ClientWrite
    PROVE  TablesTypeOK'
<1>1. PICK o \in Object, op \in Op, v \in Version :
         /\ Enqueue(o, op, v) /\ expired' = expired
         /\ canonical' = [canonical EXCEPT ![o] =
                            IF op = "upsert" THEN v ELSE NoVersion]
  BY ClientWriteCases
<1>2. canonical' \in [Object -> Version \cup {NoVersion}]
  <2>1. (IF op = "upsert" THEN v ELSE NoVersion) \in Version \cup {NoVersion}
    OBVIOUS
  <2>. QED BY <1>1, <2>1 DEF TablesTypeOK
<1>. QED BY <1>1, <1>2, EnqueueType

LEMMA TypeInit == Init => TypeOK
<1>. SUFFICES ASSUME Init PROVE TypeOK
  OBVIOUS
<1>1. \A o \in Object : Desired(o) = NoVersion
  BY DEF Init, TablesInit, Desired, NoVersion
<1>2. TablesTypeOK
  BY <1>1, OutboxAssumption
     DEF Init, TablesInit, TablesTypeOK, OutboxAssumption, SyncRow, OutboxRow, Op
<1>. QED BY <1>2, ConsumerAssumption
        DEF Init, TypeOK, PC, Working, ConsumerAssumption

\* The process variables, one step per action.
LEMMA ProcessType ==
    ASSUME TypeOK, [Next]_vars
    PROVE  /\ pc' \in [Consumer -> PC]
           /\ ev' \in [Consumer -> Event \cup {NoEvent}]
           /\ \A c \in Consumer :
                 pc'[c] \in Working \cup {"error"} => ev'[c] \in Event
           /\ quota' \in [Consumer -> 0..BatchSize]
           /\ crashes' \in 0..MaxCrashes
<1>. USE DEF TypeOK
<1> DEFINE Goal ==
             /\ pc' \in [Consumer -> PC]
             /\ ev' \in [Consumer -> Event \cup {NoEvent}]
             /\ \A c \in Consumer :
                   pc'[c] \in Working \cup {"error"} => ev'[c] \in Event
             /\ quota' \in [Consumer -> 0..BatchSize]
             /\ crashes' \in 0..MaxCrashes
<1>1. CASE ClientWrite
  BY <1>1 DEF ClientWrite
<1>2. ASSUME NEW c \in Consumer, Start(c) PROVE Goal
  BY <1>2, ConsumerAssumption DEF Start, Goto, PC, Working, ConsumerAssumption
<1>3. ASSUME NEW c \in Consumer, Acknowledge(c) \/ Reap(c) PROVE Goal
  BY <1>3 DEF Acknowledge, Reap, Goto, PC, Working
<1>4. ASSUME NEW c \in Consumer, NEW o \in Object, Claim(c, o) PROVE Goal
  <2>1. ClaimedEvent(o) \in Event
    BY <1>4, ClaimNextEffect DEF Claim
  <2>2. quota[c] - 1 \in 0..BatchSize
    BY <1>4, ConsumerAssumption DEF Claim, ConsumerAssumption
  <2>. QED BY <1>4, <2>1, <2>2 DEF Claim, Goto, PC, Working
<1>5. ASSUME NEW c \in Consumer, Exit(c), crashes' \in 0..MaxCrashes PROVE Goal
  BY <1>5, ConsumerAssumption DEF Exit, Goto, PC, Working, ConsumerAssumption
<1>6. ASSUME NEW c \in Consumer, EndDrain(c) PROVE Goal
  BY <1>5, <1>6 DEF EndDrain
<1>7. ASSUME NEW c \in Consumer, Validate(c) PROVE Goal
  <2>1. Verdict(ev[c]) \in Working \cup {"error"}
    BY DEF Verdict, Working
  <2>2. ev[c] \in Event
    BY <1>7 DEF Validate, Working
  <2>. QED BY <1>7, <2>1, <2>2 DEF Validate, Goto, PC
<1>8. ASSUME NEW c \in Consumer, Renew(c) PROVE Goal
  <2>1. ev[c] \in Event
    BY <1>8 DEF Renew, Working
  <2>2. \E label \in Working \cup {"error"} : Goto(c, label)
    BY <1>8 DEF Renew, AfterRenewal, Working
  <2>. QED BY <1>8, <2>1, <2>2 DEF Renew, Goto, PC
<1>9. ASSUME NEW c \in Consumer, Project(c) PROVE Goal
  <2>1. PICK p \in ProjectedPages(ev[c]) : ev' = [ev EXCEPT ![c].page = p]
    BY <1>9 DEF Project
  <2>2. ev[c] \in Event
    BY <1>9 DEF Project, Working
  <2>3. p \in Page \cup {NoPage}
    BY <2>2 DEF ProjectedPages, Event
  <2>4. [ev[c] EXCEPT !.page = p] \in Event
    BY <2>2, <2>3 DEF Event
  <2>5. ev' = [ev EXCEPT ![c] = [ev[c] EXCEPT !.page = p]]
    BY <2>1
  <2>. QED BY <1>9, <2>4, <2>5 DEF Project, Goto, PC, Working
<1>10. ASSUME NEW c \in Consumer, Finalize(c) \/ Supersede(c) PROVE Goal
  <2>1. ev[c] \in Event
    BY <1>10 DEF Finalize, Supersede, Working
  <2>. QED BY <1>10, <2>1 DEF Finalize, Supersede, Goto, PC, Working
<1>11. ASSUME NEW c \in Consumer, Fault(c) PROVE Goal
  BY <1>11 DEF Fault, Goto, PC
<1>12. ASSUME NEW c \in Consumer, RecordFailure(c) PROVE Goal
  <2>1. CASE FinalizeErrorOK(c, ev[c])
    BY <1>12, <2>1 DEF RecordFailure, Goto, PC, Working
  <2>2. CASE ~FinalizeErrorOK(c, ev[c])
    BY <1>5, <1>12, <2>2 DEF RecordFailure
  <2>. QED BY <2>1, <2>2
<1>13. ASSUME NEW c \in Consumer, Crash(c) PROVE Goal
  <2>1. crashes' \in 0..MaxCrashes
    BY <1>13, ConsumerAssumption DEF Crash, ConsumerAssumption
  <2>. QED BY <1>5, <1>13, <2>1 DEF Crash
<1>14. ASSUME NEW c \in Consumer, Expire(c) PROVE Goal
  BY <1>14 DEF Expire
<1>15. CASE UNCHANGED vars
  BY <1>15 DEF vars
<1>. QED BY <1>1, <1>2, <1>3, <1>4, <1>6, <1>7, <1>8, <1>9, <1>10, <1>11, <1>12,
            <1>13, <1>14, <1>15 DEF Next, Step

\* The tables: only a client's write changes what is canonical and desired.
LEMMA TablesStep ==
    ASSUME TypeOK, [Next]_vars
    PROVE  /\ TablesTypeOK'
           /\ ClientWrite \/ KeepsDesires
<1>. TablesTypeOK
  BY DEF TypeOK
<1> DEFINE Goal == TablesTypeOK' /\ KeepsDesires
<1>1. CASE ClientWrite
  BY <1>1, ClientWriteType
<1>2. ASSUME UNCHANGED <<canonical, sync, outbox>>, expired' \in SUBSET Consumer
      PROVE  Goal
  <2>1. KeepsDesires
    BY <1>2 DEF KeepsDesires
  <2>. QED BY <1>2, <2>1, TablesKept DEF TablesTypeOK
<1>3. ASSUME NEW c \in Consumer,
             \/ Start(c) \/ EndDrain(c) \/ Validate(c) \/ Renew(c) \/ Project(c)
             \/ Fault(c) \/ Crash(c) \/ Expire(c)
      PROVE  Goal
  <2>1. UNCHANGED <<canonical, sync, outbox>> /\ expired' \in SUBSET Consumer
    BY <1>3 DEF Start, EndDrain, Validate, Renew, RenewLease, Project, Fault,
                Crash, Expire, LeaseRunsOut, tables, TablesTypeOK
  <2>. QED BY <1>2, <2>1
<1>4. ASSUME NEW c \in Consumer, Acknowledge(c) \/ Reap(c) PROVE Goal
  BY <1>4, AckSupersededType, ReapExhaustedType DEF Acknowledge, Reap
<1>5. ASSUME NEW c \in Consumer, NEW o \in Object, Claim(c, o) PROVE Goal
  BY <1>5, ClaimNextType DEF Claim
<1>6. ASSUME NEW c \in Consumer, Finalize(c) \/ Supersede(c) \/ RecordFailure(c)
      PROVE  Goal
  <2>1. ev[c] \in Event
    BY <1>6 DEF Finalize, Supersede, RecordFailure, TypeOK, Working
  <2>. QED BY <1>6, <2>1, FinalizeType DEF Finalize, Supersede, RecordFailure
<1>7. CASE UNCHANGED vars
  BY <1>2, <1>7 DEF vars, TablesTypeOK
<1>. QED BY <1>1, <1>3, <1>4, <1>5, <1>6, <1>7 DEF Next, Step

\* Every reachable state is well-typed: attempts never exceed the limit, an
\* instance at work or in the except clause has an event.
THEOREM TypeCorrect == Spec => []TypeOK
<1>1. TypeOK /\ [Next]_vars => TypeOK'
  BY TablesStep, ProcessType DEF TypeOK
<1>. QED BY <1>1, TypeInit, PTL DEF Spec

-----------------------------------------------------------------------------
(* Leases.  LiveLeaseHoldsRows is inductive on top of TypeOK: a statement  *)
(* that takes a row away from an instance looks at the lease of that row,  *)
(* and a trigger leaves a leased sync row to its owner.                    *)

Live(d) == pc[d] \in Working /\ d \notin expired
Holds(d) == HoldsRow(d, ev[d]) /\ HoldsSync(d, ev[d])

\* Instances that keep both rows as they are keep them held.
LEMMA HoldsKept ==
    ASSUME NEW d \in Consumer, Holds(d),
           ev'[d] = ev[d],
           outbox'[EventKey(ev[d])] = outbox[EventKey(ev[d])],
           sync'[ev[d].obj] = sync[ev[d].obj]
    PROVE  Holds(d)'
BY DEF Holds, HoldsRow, HoldsSync, EventKey

\* A client's write takes nothing away from a live lease.
LEMMA LeaseClientWrite ==
    ASSUME TypeOK, ClientWrite, NEW d \in Consumer, Live(d), Holds(d)
    PROVE  Holds(d)'
<1> DEFINE e == ev[d]
<1>1. TablesTypeOK /\ e \in Event /\ ev' = ev
  BY DEF TypeOK, Live, ClientWrite
<1>2. EventKey(e) \in Key /\ e.obj \in Object
  BY <1>1, EventKeyType DEF Event
<1>3. PICK o \in Object, op \in Op, v \in Version : Enqueue(o, op, v)
  BY <1>1, ClientWriteCases
<1>4. outbox'[EventKey(e)] = outbox[EventKey(e)]
  BY <1>1, <1>2, <1>3, EnqueueEffect DEF Holds, HoldsRow
<1>5. CASE e.obj = o
  <2>1. LeasedSync(o)
    BY <1>5 DEF LeasedSync, Holds, HoldsSync, Live
  <2>2. sync'[o].status = "syncing" /\ sync'[o].owner = sync[o].owner
    BY <1>1, <1>3, <2>1, EnqueueEffect
  <2>. QED BY <1>1, <1>4, <1>5, <2>2 DEF Holds, HoldsRow, HoldsSync, EventKey
<1>6. CASE e.obj # o
  <2>1. sync'[e.obj] = sync[e.obj]
    BY <1>1, <1>2, <1>3, <1>6, EnqueueEffect
  <2>. QED BY <1>1, <1>4, <2>1, HoldsKept
<1>. QED BY <1>5, <1>6

\* Nor does a drain that acknowledges or reaps.
LEMMA LeaseSweep ==
    ASSUME TypeOK, NEW d \in Consumer, Live(d), Holds(d), ev' = ev,
           AckSuperseded \/ ReapExhausted(BatchSize)
    PROVE  Holds(d)'
<1> DEFINE e == ev[d]
<1>1. TablesTypeOK /\ e \in Event
  BY DEF TypeOK, Live
<1>2. EventKey(e) \in Key /\ e.obj \in Object
  BY <1>1, EventKeyType DEF Event
<1>3. ~Superseded(EventKey(e)) /\ ~Exhausted(EventKey(e))
  BY DEF Live, Holds, HoldsRow, Superseded, Exhausted, Lapsed
<1>4. outbox'[EventKey(e)] = outbox[EventKey(e)]
  BY <1>1, <1>2, <1>3, AckSupersededEffect, ReapExhaustedEffect
<1>5. sync'[e.obj] = sync[e.obj]
  <2>1. CASE AckSuperseded
    BY <1>1, <2>1, AckSupersededEffect
  <2>2. CASE ReapExhausted(BatchSize)
    <3>1. \/ sync'[e.obj] = sync[e.obj]
          \/ /\ Exhausted(CurrentKey(e.obj))
             /\ sync[e.obj].owner = outbox[CurrentKey(e.obj)].owner
      BY <1>1, <1>2, <2>2, ReapExhaustedEffect
    <3>. QED BY <3>1 DEF Live, Holds, HoldsSync, Exhausted, Lapsed
  <2>. QED BY <2>1, <2>2
<1>. QED BY <1>4, <1>5, HoldsKept

\* A claim leaves live leases of others alone: it needs the sync row free.
LEMMA LeaseClaim ==
    ASSUME TypeOK, NEW c \in Consumer, NEW o \in Object, ClaimNext(c, o),
           NEW d \in Consumer \ {c}, Live(d), Holds(d), ev'[d] = ev[d]
    PROVE  Holds(d)'
<1> DEFINE e == ev[d]
<1>1. TablesTypeOK /\ e \in Event
  BY DEF TypeOK, Live
<1>2. EventKey(e) \in Key /\ e.obj \in Object /\ EventKey(e)[1] = e.obj
  BY <1>1, EventKeyType DEF Event, EventKey
<1>3. e.obj # o
  BY DEF ClaimNext, Claimable, Live, Holds, HoldsSync
<1>4. EventKey(e) # CurrentKey(o)
  BY <1>2, <1>3 DEF CurrentKey, EventKey
<1>5. outbox'[EventKey(e)] = outbox[EventKey(e)] /\ sync'[e.obj] = sync[e.obj]
  BY <1>1, <1>2, <1>3, <1>4, ClaimNextEffect
<1>. QED BY <1>5, HoldsKept

\* Finalizing touches only rows of the caller.
LEMMA LeaseFinalize ==
    ASSUME TypeOK, NEW c \in Consumer, ev[c] \in Event,
           \/ FinalizeSuccess(c, ev[c])
           \/ FinalizeSuperseded(c, ev[c])
           \/ FinalizeError(c, ev[c]),
           NEW d \in Consumer \ {c}, Live(d), Holds(d), ev'[d] = ev[d]
    PROVE  Holds(d)'
<1> DEFINE e == ev[d]
<1>1. TablesTypeOK /\ e \in Event
  BY DEF TypeOK, Live
<1>2. EventKey(e) \in Key /\ e.obj \in Object
  BY <1>1, EventKeyType DEF Event
<1>3. \E state \in {"delivered", "failed"} : CloseRow(c, ev[c], state)
  BY DEF FinalizeSuccess, FinalizeSuperseded, FinalizeError
<1>4. outbox'[EventKey(e)] = outbox[EventKey(e)]
  <2>1. CASE EventKey(e) # EventKey(ev[c])
    BY <1>1, <1>2, <1>3, <2>1, CloseRowEffect
  <2>2. CASE EventKey(e) = EventKey(ev[c])
    <3>1. ~HoldsRow(c, ev[c])
      BY <2>2 DEF Holds, HoldsRow
    <3>. QED BY <1>1, <1>3, <2>2, <3>1, CloseRowEffect
  <2>. QED BY <2>1, <2>2
<1>5. sync'[e.obj] = sync[e.obj]
  <2>1. CASE e.obj # ev[c].obj
    BY <1>1, <1>2, <2>1, FinalizeSuccessEffect, FinalizeSupersededEffect,
       FinalizeErrorEffect
  <2>2. CASE e.obj = ev[c].obj
    <3>1. ~HoldsSync(c, ev[c]) /\ ~RenewOK(c, ev[c])
      BY <2>2 DEF Holds, HoldsSync, RenewOK
    <3>2. sync'[ev[c].obj] = sync[ev[c].obj]
      BY <1>1, <3>1, FinalizeSuccessEffect, FinalizeSupersededEffect,
         FinalizeErrorEffect
    <3>. QED BY <2>2, <3>2
  <2>. QED BY <2>1, <2>2
<1>. QED BY <1>4, <1>5, HoldsKept

LEMMA LeaseStep ==
    ASSUME TypeOK, LiveLeaseHoldsRows, [Next]_vars
    PROVE  LiveLeaseHoldsRows'
<1>. TablesTypeOK
  BY DEF TypeOK
<1>. SUFFICES ASSUME NEW d \in Consumer, Live(d)'
              PROVE  Holds(d)'
  BY DEF LiveLeaseHoldsRows, Live, Holds
<1>. Live(d) => Holds(d)
  BY DEF LiveLeaseHoldsRows, Live, Holds
<1>1. CASE ClientWrite
  <2>1. Live(d)
    BY <1>1 DEF ClientWrite, Live, InsertObject, UpdateObject, DeleteObject
  <2>. QED BY <1>1, <2>1, LeaseClientWrite
<1>2. ASSUME NEW c \in Consumer, Acknowledge(c) \/ Reap(c) PROVE Holds(d)'
  <2>1. /\ AckSuperseded \/ ReapExhausted(BatchSize)
        /\ ev' = ev /\ expired' = expired
    BY <1>2, AckSupersededEffect, ReapExhaustedEffect DEF Acknowledge, Reap
  <2>2. Live(d)
    <3>1. pc'[c] \notin Working
      BY <1>2 DEF Acknowledge, Reap, Goto, Working, TypeOK
    <3>2. d # c /\ pc'[d] = pc[d]
      BY <1>2, <3>1 DEF Acknowledge, Reap, Goto, TypeOK, Live
    <3>. QED BY <2>1, <3>2 DEF Live
  <2>. QED BY <2>1, <2>2, LeaseSweep
<1>3. ASSUME NEW c \in Consumer, NEW o \in Object, Claim(c, o) PROVE Holds(d)'
  <2>1. CASE d = c
    <3>1. ev'[c] = ClaimedEvent(o) /\ ClaimNext(c, o)
      BY <1>3 DEF Claim, TypeOK
    <3>2. EventKey(ClaimedEvent(o)) = CurrentKey(o) /\ ClaimedEvent(o).obj = o
      BY DEF ClaimedEvent, EventKey, CurrentKey
    <3>3. outbox'[CurrentKey(o)].state = "processing" /\ outbox'[CurrentKey(o)].owner = c
      BY <3>1, ClaimNextEffect
    <3>4. sync'[o].status = "syncing" /\ sync'[o].owner = c
      BY <3>1, ClaimNextEffect, ClaimedSyncRow
    <3>5. EventKey(ev[c])' = CurrentKey(o) /\ ev'[c].obj = o
      BY <3>1, <3>2 DEF EventKey
    <3>. QED BY <2>1, <3>3, <3>4, <3>5 DEF Holds, HoldsRow, HoldsSync
  <2>2. CASE d # c
    <3>1. Live(d) /\ ev'[d] = ev[d] /\ ClaimNext(c, o)
      BY <1>3, <2>2 DEF Claim, ClaimNext, Goto, TypeOK, Live
    <3>. QED BY <2>2, <3>1, LeaseClaim
  <2>. QED BY <2>1, <2>2
<1>4. ASSUME NEW c \in Consumer, Finalize(c) \/ Supersede(c) \/ RecordFailure(c)
      PROVE  Holds(d)'
  <2>1. /\ ev[c] \in Event
        /\ \/ FinalizeSuccess(c, ev[c])
           \/ FinalizeSuperseded(c, ev[c])
           \/ FinalizeError(c, ev[c])
    BY <1>4 DEF Finalize, Supersede, RecordFailure, TypeOK, Working
  <2>2. expired' = expired
    BY <2>1 DEF FinalizeSuccess, FinalizeSuperseded, FinalizeError
  <2>3. pc'[c] \notin Working /\ \A b \in Consumer \ {c} : pc'[b] = pc[b] /\ ev'[b] = ev[b]
    BY <1>4 DEF Finalize, Supersede, RecordFailure, Goto, Exit, Working, TypeOK
  <2>4. d # c /\ Live(d)
    BY <2>2, <2>3 DEF Live
  <2>. QED BY <2>1, <2>3, <2>4, LeaseFinalize
<1>5. ASSUME NEW c \in Consumer, Renew(c) PROVE Holds(d)'
  <2>1. UNCHANGED <<sync, outbox, ev>> /\ expired \subseteq expired' \cup {c}
    BY <1>5 DEF Renew, RenewLease
  <2>2. CASE d = c
    <3>1. pc'[c] # "error"
      BY <2>2 DEF Live, Working
    <3>2. RenewOK(c, ev[c])
      BY <1>5, <3>1 DEF Renew, Goto, TypeOK
    <3>. QED BY <2>1, <2>2, <3>2 DEF RenewOK, Holds, HoldsRow, HoldsSync, EventKey
  <2>3. CASE d # c
    <3>1. Live(d)
      BY <1>5, <2>1, <2>3 DEF Renew, Goto, TypeOK, Live
    <3>. QED BY <2>1, <3>1, HoldsKept
  <2>. QED BY <2>2, <2>3
<1>6. ASSUME NEW c \in Consumer, Project(c) PROVE Holds(d)'
  <2>1. UNCHANGED <<sync, outbox, expired>> /\ Live(d)
    BY <1>6 DEF Project, Goto, Live, tables, TypeOK, Working
  <2>2. EventKey(ev[d])' = EventKey(ev[d]) /\ ev'[d].obj = ev[d].obj
    <3>1. \E p : ev' = [ev EXCEPT ![c].page = p]
      BY <1>6 DEF Project
    <3>2. ev[d] \in Event
      BY <2>1 DEF Live, TypeOK
    <3>. QED BY <3>1, <3>2 DEF EventKey, TypeOK, Event
  <2>. QED BY <2>1, <2>2 DEF Holds, HoldsRow, HoldsSync
<1>7. ASSUME NEW c \in Consumer,
             Start(c) \/ EndDrain(c) \/ Validate(c) \/ Fault(c) \/ Crash(c) \/ Expire(c)
      PROVE  Holds(d)'
  <2>1. UNCHANGED <<sync, outbox>>
    BY <1>7 DEF Start, EndDrain, Validate, Fault, Crash, Expire, LeaseRunsOut, tables
  <2>2. Live(d) /\ ev'[d] = ev[d]
    BY <1>7 DEF Start, EndDrain, Validate, Fault, Crash, Expire, LeaseRunsOut,
                tables, Exit, Goto, Live, TypeOK, Working
  <2>. QED BY <2>1, <2>2, HoldsKept
<1>8. CASE UNCHANGED vars
  BY <1>8, HoldsKept DEF vars, Live
<1>. QED BY <1>1, <1>2, <1>3, <1>4, <1>5, <1>6, <1>7, <1>8 DEF Next, Step

\* While its lease is live, an instance at work owns both rows of its event.
THEOREM LeasesHold == Spec => []LiveLeaseHoldsRows
<1>1. Init => LiveLeaseHoldsRows
  BY DEF Init, LiveLeaseHoldsRows, Working
<1>2. TypeOK /\ LiveLeaseHoldsRows /\ [Next]_vars => LiveLeaseHoldsRows'
  BY LeaseStep
<1>. QED BY <1>1, <1>2, TypeCorrect, PTL DEF Spec

\* Hence no two instances with live leases ever work on one object.
THEOREM LeasesExclude == Spec => []LeaseExclusive
<1>1. LiveLeaseHoldsRows => LeaseExclusive
  BY DEF LiveLeaseHoldsRows, LeaseExclusive, HoldsSync
<1>. QED BY <1>1, LeasesHold, PTL

-----------------------------------------------------------------------------
(* What one step may do to a row, whoever takes it.                        *)

\* The ways a sync row changes without a client's write.
SyncRowStep(o) ==
    \/ sync'[o] = sync[o]
    \/ /\ sync[o].status \in {"pending", "error", "syncing"}
       /\ \E c \in Consumer : Claim(c, o) /\ sync'[o] = ClaimedSync(c, o)
    \/ /\ sync[o].status = "syncing"
       /\ sync'[o] \in {ReleasedSync(o), FailedSync(o)}
    \/ /\ sync[o].status = "syncing"
       /\ \E c \in Consumer :
             /\ Finalize(c) /\ ev[c] \in Event /\ ev[c].obj = o
             /\ RenewOK(c, ev[c]) /\ SyncIsAt(ev[c])
             /\ sync'[o] = ProjectedSync(ev[c])

LEMMA SyncRowSteps ==
    ASSUME TypeOK, [Next]_vars, ~ClientWrite, NEW o \in Object
    PROVE  SyncRowStep(o)
<1>. TablesTypeOK
  BY DEF TypeOK
<1>1. ASSUME sync' = sync PROVE SyncRowStep(o)
  BY <1>1 DEF SyncRowStep
<1>2. ASSUME NEW c \in Consumer,
             \/ Start(c) \/ EndDrain(c) \/ Validate(c) \/ Renew(c) \/ Project(c)
             \/ Fault(c) \/ Crash(c) \/ Expire(c) \/ Acknowledge(c)
      PROVE  SyncRowStep(o)
  BY <1>1, <1>2 DEF Start, EndDrain, Validate, Renew, RenewLease, Project, Fault,
                    Crash, Expire, LeaseRunsOut, Acknowledge, AckSuperseded, tables
<1>3. ASSUME NEW c \in Consumer, Reap(c) PROVE SyncRowStep(o)
  BY <1>3, ReapExhaustedEffect DEF Reap, SyncRowStep
<1>4. ASSUME NEW c \in Consumer, NEW p \in Object, Claim(c, p) PROVE SyncRowStep(o)
  <2>1. ClaimNext(c, p)
    BY <1>4 DEF Claim
  <2>2. CASE o = p
    BY <1>4, <2>1, <2>2, ClaimNextEffect DEF SyncRowStep, ClaimNext, Claimable
  <2>3. CASE o # p
    BY <2>1, <2>3, ClaimNextEffect DEF SyncRowStep
  <2>. QED BY <2>2, <2>3
<1>5. ASSUME NEW c \in Consumer, Finalize(c) PROVE SyncRowStep(o)
  <2>1. ev[c] \in Event /\ FinalizeSuccess(c, ev[c])
    BY <1>5 DEF Finalize, TypeOK, Working
  <2>2. CASE o = ev[c].obj
    <3>1. \/ sync'[o] = sync[o]
          \/ /\ RenewOK(c, ev[c])
             /\ \/ SyncIsAt(ev[c]) /\ sync'[o] = ProjectedSync(ev[c])
                \/ sync'[o] = ReleasedSync(o)
      BY <2>1, <2>2, FinalizeSuccessEffect
    <3>2. RenewOK(c, ev[c]) => sync[o].status = "syncing"
      BY <2>2 DEF RenewOK, HoldsSync
    <3>. QED BY <1>5, <2>1, <2>2, <3>1, <3>2 DEF SyncRowStep
  <2>3. CASE o # ev[c].obj
    BY <1>1, <2>1, <2>3, FinalizeSuccessEffect DEF SyncRowStep
  <2>. QED BY <2>2, <2>3
<1>6. ASSUME NEW c \in Consumer, Supersede(c) \/ RecordFailure(c) PROVE SyncRowStep(o)
  <2>1. ev[c] \in Event /\ (FinalizeSuperseded(c, ev[c]) \/ FinalizeError(c, ev[c]))
    BY <1>6 DEF Supersede, RecordFailure, TypeOK, Working
  <2>2. CASE o = ev[c].obj
    <3>1. \/ sync'[o] = sync[o]
          \/ /\ HoldsSync(c, ev[c])
             /\ sync'[o] \in {ReleasedSync(o), FailedSync(o)}
      BY <2>1, <2>2, FinalizeSupersededEffect, FinalizeErrorEffect DEF RenewOK
    <3>. QED BY <2>2, <3>1 DEF SyncRowStep, HoldsSync
  <2>3. CASE o # ev[c].obj
    BY <2>1, <2>3, FinalizeSupersededEffect, FinalizeErrorEffect DEF SyncRowStep
  <2>. QED BY <2>2, <2>3
<1>7. CASE UNCHANGED vars
  BY <1>1, <1>7 DEF vars
<1>. QED BY <1>2, <1>3, <1>4, <1>5, <1>6, <1>7 DEF Next, Step

\* Outbox rows are history: none disappears or changes its hash, and what is
\* delivered stays delivered.
OutboxRowStep(k) ==
    /\ outbox[k].state # "absent" =>
          outbox'[k].state # "absent" /\ outbox'[k].hash = outbox[k].hash
    /\ outbox[k].state = "delivered" => outbox'[k].state = "delivered"

LEMMA OutboxRowSteps ==
    ASSUME TypeOK, [Next]_vars, NEW k \in Key
    PROVE  OutboxRowStep(k)
<1>. TablesTypeOK /\ outbox[k] \in OutboxRow
  BY DEF TypeOK, TablesTypeOK
<1>1. ASSUME outbox'[k] = outbox[k] PROVE OutboxRowStep(k)
  BY <1>1 DEF OutboxRowStep
<1>2. ASSUME NEW state \in {"delivered", "failed"},
             outbox[k].state # "delivered", outbox'[k] = Closed(outbox[k], state)
      PROVE  OutboxRowStep(k)
  BY <1>2, ClosedRow DEF OutboxRowStep
<1>3. CASE ClientWrite
  <2>1. PICK o \in Object, op \in Op, v \in Version : Enqueue(o, op, v)
    BY <1>3, ClientWriteCases
  <2>2. outbox[k].state # "absent" => outbox'[k] = outbox[k]
    BY <2>1, EnqueueEffect
  <2>. QED BY <2>2 DEF OutboxRowStep
<1>4. ASSUME NEW c \in Consumer,
             \/ Start(c) \/ EndDrain(c) \/ Validate(c) \/ Renew(c) \/ Project(c)
             \/ Fault(c) \/ Crash(c) \/ Expire(c)
      PROVE  OutboxRowStep(k)
  BY <1>1, <1>4 DEF Start, EndDrain, Validate, Renew, RenewLease, Project, Fault,
                    Crash, Expire, LeaseRunsOut, tables
<1>5. ASSUME NEW c \in Consumer, Acknowledge(c) PROVE OutboxRowStep(k)
  BY <1>1, <1>2, <1>5, AckSupersededEffect DEF Acknowledge, Superseded, Lapsed
<1>6. ASSUME NEW c \in Consumer, Reap(c) PROVE OutboxRowStep(k)
  BY <1>1, <1>2, <1>6, ReapExhaustedEffect DEF Reap, Exhausted, Lapsed
<1>7. ASSUME NEW c \in Consumer, NEW o \in Object, Claim(c, o) PROVE OutboxRowStep(k)
  <2>1. ClaimNext(c, o)
    BY <1>7 DEF Claim
  <2>2. CASE k = CurrentKey(o)
    <3>1. /\ outbox[k].hash = sync[o].hash
          /\ outbox[k].state \in {"pending", "failed", "processing"}
          /\ outbox'[k].state = "processing"
          /\ outbox'[k].hash = sync[o].hash
      BY <2>1, <2>2, ClaimNextEffect
    <3>. QED BY <3>1 DEF OutboxRowStep
  <2>3. CASE k # CurrentKey(o)
    BY <1>1, <2>1, <2>3, ClaimNextEffect
  <2>. QED BY <2>2, <2>3
<1>8. ASSUME NEW c \in Consumer, Finalize(c) \/ Supersede(c) \/ RecordFailure(c)
      PROVE  OutboxRowStep(k)
  <2>1. PICK state \in {"delivered", "failed"} :
           ev[c] \in Event /\ CloseRow(c, ev[c], state)
    BY <1>8 DEF Finalize, Supersede, RecordFailure, FinalizeSuccess,
                FinalizeSuperseded, FinalizeError, TypeOK, Working
  <2>2. \/ outbox'[k] = outbox[k]
        \/ /\ outbox[k].state = "processing"
           /\ outbox'[k] = Closed(outbox[k], state)
    BY <2>1, CloseRowEffect DEF HoldsRow
  <2>. QED BY <1>1, <1>2, <2>2
<1>9. CASE UNCHANGED vars
  BY <1>1, <1>9 DEF vars
<1>. QED BY <1>3, <1>4, <1>5, <1>6, <1>7, <1>8, <1>9 DEF Next, Step

-----------------------------------------------------------------------------
(* The desired state is the canonical one: inductive by itself.            *)

LEMMA DesireStep ==
    ASSUME TypeOK, DesireIsCanonical, [Next]_vars
    PROVE  DesireIsCanonical'
<1>. TablesTypeOK
  BY DEF TypeOK
<1> DEFINE Canonical(o) ==
             IF canonical[o] = NoVersion
             THEN sync[o].status = "none" \/ sync[o].op = "delete"
             ELSE sync[o].op = "upsert" /\ Desired(o) = canonical[o]
<1>. SUFFICES ASSUME NEW o \in Object PROVE Canonical(o)'
  BY DEF DesireIsCanonical
<1>. Canonical(o)
  BY DEF DesireIsCanonical
<1>1. CASE ClientWrite
  <2>1. PICK p \in Object, op \in Op, v \in Version :
          /\ Enqueue(p, op, v) /\ expired' = expired
          /\ canonical' = [canonical EXCEPT ![p] =
                             IF op = "upsert" THEN v ELSE NoVersion]
    BY <1>1, ClientWriteCases
  <2>2. canonical'[p] = (IF op = "upsert" THEN v ELSE NoVersion)
        /\ \A q \in Object \ {p} : canonical'[q] = canonical[q]
    BY <2>1 DEF TablesTypeOK
  <2>3. CASE o = p
    <3>1. Desired(p)' = v
      <4>1. canonical' \in [Object -> Version \cup {NoVersion}]
        <5>1. (IF op = "upsert" THEN v ELSE NoVersion) \in Version \cup {NoVersion}
          OBVIOUS
        <5>. QED BY <2>1, <5>1 DEF TablesTypeOK
      <4>. QED BY <2>1, <4>1, EnqueueType
    <3>2. sync'[p].op = op
      BY <2>1, EnqueueEffect
    <3>. QED BY <2>2, <2>3, <3>1, <3>2, NoVersionIsNone DEF Op
  <2>4. CASE o # p
    <3>1. sync'[o] = sync[o]
      BY <2>1, <2>4, EnqueueEffect
    <3>. QED BY <2>2, <2>4, <3>1 DEF Desired
  <2>. QED BY <2>3, <2>4
<1>2. CASE ~ClientWrite
  <2>1. KeepsDesires
    BY <1>2, TablesStep
  <2>2. /\ sync'[o].rev = sync[o].rev /\ sync'[o].hash = sync[o].hash
        /\ sync'[o].op = sync[o].op /\ canonical'[o] = canonical[o]
        /\ sync'[o].status = "none" <=> sync[o].status = "none"
    BY <2>1 DEF KeepsDesires
  <2>3. Desired(o)' = Desired(o)
    BY <2>2 DEF Desired
  <2>. QED BY <2>2, <2>3
<1>. QED BY <1>1, <1>2

\* The sync row desires what the canonical tables hold.
THEOREM DesireCorrect == Spec => []DesireIsCanonical
<1>1. Init => DesireIsCanonical
  BY DEF Init, TablesInit, DesireIsCanonical
<1>2. TypeOK /\ DesireIsCanonical /\ [Next]_vars => DesireIsCanonical'
  BY DesireStep
<1>. QED BY <1>1, <1>2, TypeCorrect, PTL DEF Spec

-----------------------------------------------------------------------------
(* What "synced" means.  The strengthening: an instance carries the hash   *)
(* of the outbox row it claimed, which exists for good.                    *)

RowsAreEvents ==
    \A c \in Consumer : pc[c] \in Working \cup {"error"} =>
        /\ outbox[EventKey(ev[c])].state # "absent"
        /\ outbox[EventKey(ev[c])].hash = ev[c].hash

\* An instance gets an event by claiming it; later only its page changes.
LEMMA EventSteps ==
    ASSUME TypeOK, [Next]_vars, NEW c \in Consumer,
           pc'[c] \in Working \cup {"error"}
    PROVE  \/ \E o \in Object : Claim(c, o) /\ ev'[c] = ClaimedEvent(o)
           \/ /\ pc[c] \in Working \cup {"error"}
              /\ EventKey(ev[c])' = EventKey(ev[c]) /\ ev'[c].hash = ev[c].hash
<1> DEFINE Goal == \/ \E o \in Object : Claim(c, o) /\ ev'[c] = ClaimedEvent(o)
                   \/ /\ pc[c] \in Working \cup {"error"}
                      /\ EventKey(ev[c])' = EventKey(ev[c])
                      /\ ev'[c].hash = ev[c].hash
<1>1. ASSUME pc'[c] = pc[c], ev'[c] = ev[c] PROVE Goal
  BY <1>1 DEF EventKey
<1>2. CASE ClientWrite
  BY <1>1, <1>2 DEF ClientWrite
<1>3. ASSUME NEW d \in Consumer,
             \/ Start(d) \/ EndDrain(d) \/ Validate(d) \/ Renew(d)
             \/ Fault(d) \/ Crash(d) \/ Expire(d) \/ Acknowledge(d) \/ Reap(d)
             \/ Finalize(d) \/ Supersede(d) \/ RecordFailure(d)
      PROVE  Goal
  <2>1. CASE d = c
    <3>1. pc[c] \in Working \cup {"error"} /\ ev'[c] = ev[c]
      BY <1>3, <2>1
         DEF Start, EndDrain, Validate, Renew, Fault, Crash, Expire, Acknowledge,
             Reap, Finalize, Supersede, RecordFailure, Exit, Goto, Working, TypeOK
    <3>. QED BY <3>1 DEF EventKey
  <2>2. CASE d # c
    <3>1. pc'[c] = pc[c] /\ ev'[c] = ev[c]
      BY <1>3, <2>2
         DEF Start, EndDrain, Validate, Renew, Fault, Crash, Expire, Acknowledge,
             Reap, Finalize, Supersede, RecordFailure, Exit, Goto, Working, TypeOK
    <3>. QED BY <1>1, <3>1
  <2>. QED BY <2>1, <2>2
<1>4. ASSUME NEW d \in Consumer, NEW o \in Object, Claim(d, o) PROVE Goal
  BY <1>1, <1>4 DEF Claim, Goto, TypeOK
<1>5. ASSUME NEW d \in Consumer, Project(d) PROVE Goal
  <2>1. PICK p : ev' = [ev EXCEPT ![d].page = p]
    BY <1>5 DEF Project
  <2>2. CASE d = c
    <3>1. pc[c] \in Working /\ ev[c] \in Event
      BY <1>5, <2>2 DEF Project, Working, TypeOK
    <3>2. /\ ev'[c].obj = ev[c].obj /\ ev'[c].rev = ev[c].rev
          /\ ev'[c].op = ev[c].op /\ ev'[c].hash = ev[c].hash
      BY <2>1, <2>2, <3>1 DEF TypeOK, Event
    <3>. QED BY <3>1, <3>2 DEF EventKey
  <2>3. CASE d # c
    BY <1>1, <1>5, <2>1, <2>3 DEF Project, Goto, TypeOK
  <2>. QED BY <2>2, <2>3
<1>6. CASE UNCHANGED vars
  BY <1>1, <1>6 DEF vars
<1>. QED BY <1>2, <1>3, <1>4, <1>5, <1>6 DEF Next, Step

LEMMA RowsStep ==
    ASSUME TypeOK, RowsAreEvents, [Next]_vars
    PROVE  RowsAreEvents'
<1>. SUFFICES ASSUME NEW c \in Consumer, pc'[c] \in Working \cup {"error"}
              PROVE  /\ outbox'[EventKey(ev[c])'].state # "absent"
                     /\ outbox'[EventKey(ev[c])'].hash = ev'[c].hash
  BY DEF RowsAreEvents
<1>1. CASE \E o \in Object : Claim(c, o) /\ ev'[c] = ClaimedEvent(o)
  <2>1. PICK o \in Object : Claim(c, o) /\ ev'[c] = ClaimedEvent(o)
    BY <1>1
  <2>2. ClaimNext(c, o)
    BY <2>1 DEF Claim
  <2>3. EventKey(ev[c])' = CurrentKey(o) /\ ev'[c].hash = sync[o].hash
    BY <2>1 DEF ClaimedEvent, EventKey, CurrentKey
  <2>4. outbox'[CurrentKey(o)].state = "processing"
        /\ outbox'[CurrentKey(o)].hash = sync[o].hash
    BY <2>2, ClaimNextEffect DEF TypeOK
  <2>. QED BY <2>3, <2>4
<1>2. CASE /\ pc[c] \in Working \cup {"error"}
           /\ EventKey(ev[c])' = EventKey(ev[c]) /\ ev'[c].hash = ev[c].hash
  <2>1. EventKey(ev[c]) \in Key
    BY <1>2, EventKeyType DEF TypeOK
  <2>2. OutboxRowStep(EventKey(ev[c]))
    BY <2>1, OutboxRowSteps
  <2>. QED BY <1>2, <2>2 DEF OutboxRowStep, RowsAreEvents
<1>. QED BY <1>1, <1>2, EventSteps

LEMMA SyncedStep ==
    ASSUME TypeOK, RowsAreEvents, SyncedIsDelivered, [Next]_vars
    PROVE  SyncedIsDelivered'
<1>. TablesTypeOK
  BY DEF TypeOK
<1> DEFINE Good(o) == /\ sync[o].seen = Desired(o)
                      /\ outbox[CurrentKey(o)].state = "delivered"
                      /\ outbox[CurrentKey(o)].hash = sync[o].hash
<1>. SUFFICES ASSUME NEW o \in Object, sync'[o].status = "synced" PROVE Good(o)'
  BY DEF SyncedIsDelivered
<1>1. CASE sync'[o] = sync[o]
  <2>1. Good(o)
    BY <1>1 DEF SyncedIsDelivered
  <2>2. Desired(o)' = Desired(o) /\ CurrentKey(o)' = CurrentKey(o)
    BY <1>1 DEF Desired, CurrentKey
  <2>3. CurrentKey(o) \in Key
    <3>1. sync[o].op \in Op
      BY DEF TablesTypeOK, SyncRow
    <3>2. Desired(o) \in Version
      BY <1>1 DEF TablesTypeOK
    <3>3. sync[o].rev \in Rev
      BY <3>2, VersionFields DEF Desired
    <3>. QED BY <3>1, <3>3 DEF CurrentKey, Key
  <2>4. OutboxRowStep(CurrentKey(o))
    BY <2>3, OutboxRowSteps
  <2>. QED BY <1>1, <2>1, <2>2, <2>4 DEF OutboxRowStep
<1>2. CASE sync'[o] # sync[o]
  <2>1. ~ClientWrite
    <3>1. ASSUME ClientWrite PROVE FALSE
      <4>1. PICK p \in Object, op \in Op, v \in Version : Enqueue(p, op, v)
        BY <3>1, ClientWriteCases
      <4>2. p = o
        BY <1>2, <4>1, EnqueueEffect
      <4>3. sync'[o].status \in {"syncing", "pending"}
        BY <4>1, <4>2, EnqueueEffect
      <4>. QED BY <4>3
    <3>. QED BY <3>1
  <2>2. PICK c \in Consumer :
           /\ Finalize(c) /\ ev[c] \in Event /\ ev[c].obj = o
           /\ RenewOK(c, ev[c]) /\ SyncIsAt(ev[c])
           /\ sync'[o] = ProjectedSync(ev[c])
    <3>1. SyncRowStep(o)
      BY <2>1, SyncRowSteps
    <3>. QED BY <1>2, <3>1, ClaimedSyncRow, ReleasedSyncRow, FailedSyncRow
            DEF SyncRowStep
  <2>3. /\ sync'[o].op = sync[o].op /\ sync'[o].rev = sync[o].rev
        /\ sync'[o].hash = sync[o].hash
        /\ sync'[o].seen = [rev |-> ev[c].rev, hash |-> ev[c].hash]
    BY <2>2, ProjectedSyncRow
  <2>4. CurrentKey(o)' = EventKey(ev[c]) /\ sync[o].hash = ev[c].hash
        /\ sync'[o].seen = Desired(o)'
    BY <2>2, <2>3 DEF SyncIsAt, CurrentKey, EventKey, Desired
  <2>5. EventKey(ev[c]) \in Key
    BY <2>2, EventKeyType
  <2>6. outbox[EventKey(ev[c])].hash = ev[c].hash
    BY <2>2 DEF RowsAreEvents, Finalize, Working
  <2>7. outbox'[EventKey(ev[c])] = Closed(outbox[EventKey(ev[c])], "delivered")
    BY <2>2, FinalizeSuccessEffect, CloseRowEffect DEF Finalize, RenewOK
  <2>8. outbox'[EventKey(ev[c])].state = "delivered"
        /\ outbox'[EventKey(ev[c])].hash = ev[c].hash
    BY <2>5, <2>6, <2>7, ClosedRow DEF TablesTypeOK
  <2>. QED BY <2>3, <2>4, <2>8
<1>. QED BY <1>1, <1>2

\* "synced" names the desired version, whose intent is delivered.
THEOREM SyncedCorrect == Spec => []SyncedIsDelivered
<1>1. Init => RowsAreEvents /\ SyncedIsDelivered
  BY DEF Init, TablesInit, RowsAreEvents, SyncedIsDelivered, Working
<1>2. TypeOK /\ RowsAreEvents /\ SyncedIsDelivered /\ [Next]_vars
        => RowsAreEvents' /\ SyncedIsDelivered'
  BY RowsStep, SyncedStep
<1>. QED BY <1>1, <1>2, TypeCorrect, PTL DEF Spec

-----------------------------------------------------------------------------
(* The sync rows implement DeliveryPromise.                                *)

\* A step that only releases or fails leased sync rows withdraws grants.
LEMMA WithdrawStep ==
    ASSUME TypeOK,
           \A o \in Object :
              \/ sync'[o] = sync[o]
              \/ /\ sync[o].status = "syncing"
                 /\ sync'[o] \in {ReleasedSync(o), FailedSync(o)}
    PROVE  Promise!Next
<1> DEFINE gone == {o \in Object : sync'[o] # sync[o]}
<1>. TablesTypeOK
  BY DEF TypeOK
<1>1. ASSUME NEW o \in Object
      PROVE  /\ Desired(o)' = Desired(o)
             /\ sync'[o].seen = sync[o].seen
             /\ sync'[o].status = "synced" <=> sync[o].status = "synced"
             /\ Holder'[o] = IF o \in gone THEN NoOne ELSE Holder[o]
  <2>1. CASE sync'[o] = sync[o]
    BY <2>1 DEF Desired, Holder
  <2>2. CASE /\ sync[o].status = "syncing" /\ sync'[o] # sync[o]
             /\ sync'[o] \in {ReleasedSync(o), FailedSync(o)}
    <3>1. /\ sync'[o].status \in {"pending", "error"}
          /\ sync'[o].rev = sync[o].rev /\ sync'[o].hash = sync[o].hash
          /\ sync'[o].seen = sync[o].seen
      BY <2>2, ReleasedSyncRow, FailedSyncRow
    <3>2. Desired(o)' = Desired(o)
      BY <3>1 DEF Desired
    <3>. QED BY <2>2, <3>1, <3>2 DEF Holder
  <2>. QED BY <2>1, <2>2
<1>2. /\ Wanted' = Wanted /\ Recorded' = Recorded /\ Synced' = Synced
      /\ Holder' = [o \in Object |-> IF o \in gone THEN NoOne ELSE Holder[o]]
  <2>. HIDE DEF gone
  <2>1. Wanted' = Wanted
    BY <1>1 DEF Wanted
  <2>2. Recorded' = Recorded
    BY <1>1 DEF Recorded
  <2>3. Synced' = Synced
    BY <1>1 DEF Synced
  <2>4. Holder' = [o \in Object |-> Holder'[o]]
    BY DEF Holder
  <2>5. Holder' = [o \in Object |-> IF o \in gone THEN NoOne ELSE Holder[o]]
    BY <1>1, <2>4
  <2>. QED BY <2>1, <2>2, <2>3, <2>5
<1>3. gone \in SUBSET Object
  OBVIOUS
<1>4. Promise!Withdraw(gone)
  <2>. HIDE DEF gone
  <2>. QED BY <1>2 DEF Promise!Withdraw
<1>. HIDE DEF gone
<1>. QED BY <1>3, <1>4 DEF Promise!Next

LEMMA WantStep ==
    ASSUME TypeOK, ClientWrite
    PROVE  Promise!Next
<1>. TablesTypeOK
  BY DEF TypeOK
<1>1. PICK o \in Object, op \in Op, v \in Version :
         /\ Enqueue(o, op, v) /\ expired' = expired
         /\ canonical' = [canonical EXCEPT ![o] =
                            IF op = "upsert" THEN v ELSE NoVersion]
  BY ClientWriteCases
<1>2. canonical' \in [Object -> Version \cup {NoVersion}]
  <2>1. (IF op = "upsert" THEN v ELSE NoVersion) \in Version \cup {NoVersion}
    OBVIOUS
  <2>. QED BY <1>1, <2>1 DEF TablesTypeOK
<1>3. Desired(o)' = v /\ \A p \in Object \ {o} : Desired(p)' = Desired(p)
  BY <1>1, <1>2, EnqueueType
<1>4. /\ \A p \in Object \ {o} : sync'[p] = sync[p]
      /\ sync'[o].seen = sync[o].seen /\ sync'[o].owner = sync[o].owner
      /\ sync'[o].status = IF LeasedSync(o) THEN "syncing" ELSE "pending"
  BY <1>1, EnqueueEffect
<1>5. Wanted' = [Wanted EXCEPT ![o] = v]
  BY <1>3 DEF Wanted
<1>6. Recorded' = Recorded
  BY <1>4 DEF Recorded
<1>7. Synced' = Synced \ {o}
  BY <1>4 DEF Synced
<1>8. Holder' \in {Holder, [Holder EXCEPT ![o] = NoOne]}
  <2>1. CASE LeasedSync(o)
    BY <1>4, <2>1 DEF Holder, LeasedSync
  <2>2. CASE ~LeasedSync(o)
    BY <1>4, <2>2 DEF Holder
  <2>. QED BY <2>1, <2>2
<1>9. Promise!Want(o, v)
  BY <1>5, <1>6, <1>7, <1>8 DEF Promise!Want
<1>. QED BY <1>9 DEF Promise!Next

LEMMA GrantStep ==
    ASSUME TypeOK, NEW c \in Consumer, NEW o \in Object, ClaimNext(c, o)
    PROVE  Promise!Next
<1>. TablesTypeOK
  BY DEF TypeOK
<1>1. /\ \A p \in Object \ {o} : sync'[p] = sync[p]
      /\ sync'[o] = ClaimedSync(c, o) /\ sync[o].rev \in Rev
  BY ClaimNextEffect
<1>2. /\ sync'[o].status = "syncing" /\ sync'[o].owner = c
      /\ sync'[o].rev = sync[o].rev /\ sync'[o].hash = sync[o].hash
      /\ sync'[o].seen = sync[o].seen
  BY <1>1, ClaimedSyncRow
<1>3. sync[o].status # "synced"
  BY DEF ClaimNext, Claimable
<1>4. \A p \in Object : Desired(p)' = Desired(p)
  BY <1>1, <1>2 DEF Desired
<1>5. Wanted' = Wanted /\ Recorded' = Recorded /\ Synced' = Synced
  <2>1. Wanted' = Wanted
    BY <1>4 DEF Wanted
  <2>2. Recorded' = Recorded
    BY <1>1, <1>2 DEF Recorded
  <2>3. Synced' = Synced
    BY <1>1, <1>2, <1>3 DEF Synced
  <2>. QED BY <2>1, <2>2, <2>3
<1>6. Holder' = [Holder EXCEPT ![o] = c]
  BY <1>1, <1>2 DEF Holder
<1>7. Wanted[o] # NoVersion /\ o \notin Synced
  BY <1>1, <1>3, DesiredType, NoVersionIsNone DEF Wanted, Synced
<1>8. Promise!Grant(o, c)
  BY <1>5, <1>6, <1>7 DEF Promise!Grant
<1>. QED BY <1>8 DEF Promise!Next

LEMMA DeliverStep ==
    ASSUME TypeOK, NEW c \in Consumer, NEW e \in Event,
           RenewOK(c, e), SyncIsAt(e), sync'[e.obj] = ProjectedSync(e),
           \A p \in Object \ {e.obj} : sync'[p] = sync[p]
    PROVE  Promise!Next
<1> DEFINE o == e.obj
<1>. TablesTypeOK
  BY DEF TypeOK
<1>1. o \in Object
  BY DEF Event
<1>2. /\ sync'[o].status = "synced"
      /\ sync'[o].rev = sync[o].rev /\ sync'[o].hash = sync[o].hash
      /\ sync'[o].seen = [rev |-> e.rev, hash |-> e.hash]
  BY ProjectedSyncRow
<1>3. sync'[o].seen = Desired(o)
  BY <1>2 DEF SyncIsAt, Desired
<1>4. \A p \in Object : Desired(p)' = Desired(p)
  BY <1>2 DEF Desired
<1>5. sync[o].status = "syncing" /\ sync[o].owner = c
  BY DEF RenewOK, HoldsSync
<1>. HIDE DEF o
<1>6. Wanted' = Wanted
  BY <1>4 DEF Wanted
<1>7. Recorded' = [Recorded EXCEPT ![o] = Wanted[o]]
  BY <1>1, <1>3 DEF Recorded, Wanted, o
<1>8. Synced' = Synced \cup {o}
  BY <1>1, <1>2 DEF Synced, o
<1>9. Holder' = [Holder EXCEPT ![o] = NoOne]
  BY <1>1, <1>2 DEF Holder, o
<1>10. Holder[o] # NoOne
  BY <1>1, <1>5, OutboxAssumption DEF Holder, OutboxAssumption
<1>11. Promise!Deliver(o)
  BY <1>6, <1>7, <1>8, <1>9, <1>10 DEF Promise!Deliver
<1>. QED BY <1>1, <1>11 DEF Promise!Next

LEMMA PromiseStep ==
    ASSUME TypeOK, [Next]_vars
    PROVE  [Promise!Next]_(Promise!promise)
<1>. TablesTypeOK
  BY DEF TypeOK
<1>1. CASE ClientWrite
  BY <1>1, WantStep
<1>2. ASSUME NEW c \in Consumer, NEW o \in Object, Claim(c, o)
      PROVE  Promise!Next
  BY <1>2, GrantStep DEF Claim
<1>3. ASSUME NEW c \in Consumer, Finalize(c) PROVE Promise!Next
  <2>1. ev[c] \in Event /\ FinalizeSuccess(c, ev[c])
    BY <1>3 DEF Finalize, TypeOK, Working
  <2>2. /\ \A p \in Object \ {ev[c].obj} : sync'[p] = sync[p]
        /\ \/ sync'[ev[c].obj] = sync[ev[c].obj]
           \/ /\ RenewOK(c, ev[c]) /\ SyncIsAt(ev[c])
              /\ sync'[ev[c].obj] = ProjectedSync(ev[c])
           \/ RenewOK(c, ev[c]) /\ sync'[ev[c].obj] = ReleasedSync(ev[c].obj)
    BY <2>1, FinalizeSuccessEffect
  <2>3. CASE /\ RenewOK(c, ev[c]) /\ SyncIsAt(ev[c])
             /\ sync'[ev[c].obj] = ProjectedSync(ev[c])
    BY <2>1, <2>2, <2>3, DeliverStep
  <2>4. CASE \/ sync'[ev[c].obj] = sync[ev[c].obj]
             \/ RenewOK(c, ev[c]) /\ sync'[ev[c].obj] = ReleasedSync(ev[c].obj)
    BY <2>2, <2>4, WithdrawStep DEF RenewOK, HoldsSync
  <2>. QED BY <2>2, <2>3, <2>4
<1>4. ASSUME ~ClientWrite, ~\E c \in Consumer : Finalize(c),
             ~\E c \in Consumer, o \in Object : Claim(c, o)
      PROVE  Promise!Next
  <2>1. ASSUME NEW o \in Object
        PROVE  \/ sync'[o] = sync[o]
               \/ /\ sync[o].status = "syncing"
                  /\ sync'[o] \in {ReleasedSync(o), FailedSync(o)}
    <3>1. SyncRowStep(o)
      BY <1>4, SyncRowSteps
    <3>. QED BY <1>4, <3>1 DEF SyncRowStep
  <2>. QED BY <2>1, WithdrawStep
<1>. QED BY <1>1, <1>2, <1>3, <1>4

LEMMA PromiseInit == Init => Promise!Init
<1>. SUFFICES ASSUME Init PROVE Promise!Init
  OBVIOUS
<1>1. \A o \in Object : Desired(o) = NoVersion
  BY DEF Init, TablesInit, Desired, NoVersion
<1>2. Wanted = [o \in Object |-> NoVersion]
  BY <1>1 DEF Wanted
<1>3. Recorded = [o \in Object |-> NoVersion]
  BY DEF Init, TablesInit, Recorded
<1>4. Synced = {} /\ Holder = [o \in Object |-> NoOne]
  BY DEF Init, TablesInit, Synced, Holder
<1>. QED BY <1>2, <1>3, <1>4 DEF Promise!Init

\* Whatever crashes, stalls and races do, the sync rows behave like the
\* promise: only what is wanted at that moment is ever recorded as delivered.
THEOREM PromiseKept == Spec => KeepsPromise
<1>1. TypeOK /\ [Next]_vars => [Promise!Next]_(Promise!promise)
  BY PromiseStep
<1>. QED BY <1>1, PromiseInit, TypeCorrect, PTL
        DEF Spec, KeepsPromise, Promise!Spec

-----------------------------------------------------------------------------
(* No intent is lost, provided clients re-create objects only above their  *)
(* last revision (FreshRevisions).                                         *)
(*                                                                         *)
(* NoLostIntent alone is not inductive: a release turns a leased sync row  *)
(* into a pending one, so leased rows must have their intent too; a        *)
(* finalize may close the row of the current intent, so its owner must     *)
(* also own the sync row; and the trigger must really add a new row.       *)

CurrentIntent(o) ==
    sync[o].status \in {"pending", "error", "syncing"} =>
        /\ outbox[CurrentKey(o)].state \in {"pending", "processing", "failed"}
        /\ outbox[CurrentKey(o)].hash = sync[o].hash

\* An intent that is being processed is processed by the owner of the sync row.
ProcessingIsLeased(o) ==
    sync[o].status # "none" /\ outbox[CurrentKey(o)].state = "processing" =>
        sync[o].status = "syncing" /\ sync[o].owner = outbox[CurrentKey(o)].owner

\* No intent is ahead of the desired state.
NoFutureIntent(k) ==
    outbox[k].state # "absent" =>
        \/ k[2] < sync[k[1]].rev
        \/ k[2] = sync[k[1]].rev /\ (k[3] = "delete" => sync[k[1]].op = "delete")

\* A running instance owns no processing row but that of its event.
OneRow(c, k) ==
    pc[c] # "off" /\ outbox[k].state = "processing" /\ outbox[k].owner = c =>
        pc[c] \in Working \cup {"error"} /\ k = EventKey(ev[c])

SupersededIsPast(c) == pc[c] = "supersede" => SyncIsPast(ev[c])

IntentInv ==
    /\ TypeOK
    /\ DesireIsCanonical
    /\ RowsAreEvents
    /\ \A o \in Object : CurrentIntent(o) /\ ProcessingIsLeased(o)
    /\ \A k \in Key : NoFutureIntent(k)
    /\ \A c \in Consumer, k \in Key : OneRow(c, k)
    /\ \A c \in Consumer : SupersededIsPast(c)

LEMMA IntentInit == Init => IntentInv
<1>. SUFFICES ASSUME Init PROVE IntentInv
  OBVIOUS
<1>1. TypeOK
  BY TypeInit
<1>2. DesireIsCanonical /\ RowsAreEvents
  BY DEF Init, TablesInit, DesireIsCanonical, RowsAreEvents, Working
<1>3. \A o \in Object : CurrentIntent(o) /\ ProcessingIsLeased(o)
  BY DEF Init, TablesInit, CurrentIntent, ProcessingIsLeased
<1>4. \A k \in Key : NoFutureIntent(k)
  BY DEF Init, TablesInit, NoFutureIntent
<1>5. \A c \in Consumer, k \in Key : OneRow(c, k)
  BY DEF Init, OneRow
<1>6. \A c \in Consumer : SupersededIsPast(c)
  BY DEF Init, SupersededIsPast
<1>. QED BY <1>1, <1>2, <1>3, <1>4, <1>5, <1>6 DEF IntentInv

\* Given an object's desired version, its current key is a key.
LEMMA CurrentKeyType ==
    ASSUME TablesTypeOK, NEW o \in Object, sync[o].status # "none"
    PROVE  CurrentKey(o) \in Key /\ sync[o].rev \in Rev
<1>1. sync[o].op \in Op /\ Desired(o) \in Version
  BY DEF TablesTypeOK, SyncRow
<1>2. sync[o].rev \in Rev
  BY <1>1, VersionFields DEF Desired
<1>. QED BY <1>1, <1>2 DEF CurrentKey, Key

-----------------------------------------------------------------------------
(* A client's write desires a version for which there is no intent yet.    *)

LEMMA FreshWrite ==
    ASSUME FreshRevisions, IntentInv, ClientWrite
    PROVE  \E o \in Object, op \in Op, v \in Version :
              /\ Enqueue(o, op, v)
              /\ \/ v.rev > sync[o].rev
                 \/ /\ op = "delete" /\ v.rev = sync[o].rev
                    /\ sync[o].op = "upsert"
              /\ outbox[<<o, v.rev, op>>].state = "absent"
<1>. TablesTypeOK
  BY DEF IntentInv, TypeOK
<1>1. PICK o \in Object, op \in Op, v \in Version :
         /\ Enqueue(o, op, v)
         /\ \/ /\ op = "upsert"
               /\ \/ /\ canonical[o] = NoVersion
                     /\ FreshRevisions => v.rev > sync[o].rev
                  \/ canonical[o] # NoVersion /\ v.rev > canonical[o].rev
            \/ op = "delete" /\ v = canonical[o]
  BY ClientWriteCases
<1>2. canonical[o] # NoVersion =>
         canonical[o].rev = sync[o].rev /\ sync[o].op = "upsert"
  <2>1. canonical[o] # NoVersion => sync[o].op = "upsert" /\ Desired(o) = canonical[o]
    BY DEF IntentInv, DesireIsCanonical
  <2>2. Desired(o).rev = sync[o].rev
    BY DEF Desired
  <2>. QED BY <2>1, <2>2
<1>3. \/ v.rev > sync[o].rev
      \/ op = "delete" /\ v.rev = sync[o].rev /\ sync[o].op = "upsert"
  BY <1>1, <1>2, NoVersionIsNone
<1>4. outbox[<<o, v.rev, op>>].state = "absent"
  <2> DEFINE k == <<o, v.rev, op>>
  <2>1. k \in Key /\ k[1] = o /\ k[2] = v.rev /\ k[3] = op
    BY VersionFields DEF Key
  <2>2. NoFutureIntent(k)
    BY <2>1 DEF IntentInv
  <2>3. sync[o].rev \in Nat /\ v.rev \in Nat
    BY VersionFields, OutboxAssumption DEF TablesTypeOK, SyncRow, Rev, OutboxAssumption
  <2>. HIDE DEF k
  <2>4. outbox[k].state = "absent"
    BY <1>3, <2>1, <2>2, <2>3 DEF NoFutureIntent
  <2>. QED BY <2>4 DEF k
<1>. QED BY <1>1, <1>3, <1>4

\* The desired revision never falls.
LEMMA RevisionsGrow ==
    ASSUME FreshRevisions, IntentInv, [Next]_vars, NEW o \in Object
    PROVE  sync'[o].rev >= sync[o].rev /\ sync[o].rev \in Nat /\ sync'[o].rev \in Nat
<1>. TypeOK /\ TablesTypeOK
  BY DEF IntentInv, TypeOK
<1>1. sync[o].rev \in Nat /\ sync'[o].rev \in Nat
  BY TablesStep, OutboxAssumption DEF TablesTypeOK, SyncRow, OutboxAssumption
<1>2. CASE ClientWrite
  <2>1. PICK p \in Object, op \in Op, v \in Version :
           Enqueue(p, op, v) /\ (v.rev > sync[p].rev \/ v.rev = sync[p].rev)
    BY <1>2, FreshWrite
  <2>2. sync'[p].rev = v.rev /\ \A q \in Object \ {p} : sync'[q] = sync[q]
    BY <2>1, EnqueueEffect
  <2>. QED BY <1>1, <2>1, <2>2
<1>3. CASE ~ClientWrite
  <2>1. sync'[o].rev = sync[o].rev
    BY <1>3, TablesStep DEF KeepsDesires
  <2>. QED BY <1>1, <2>1
<1>. QED BY <1>2, <1>3

\* After a client's write the new intent is the current one.
LEMMA IntentClientWrite ==
    ASSUME FreshRevisions, IntentInv, ClientWrite
    PROVE  /\ \A o \in Object : CurrentIntent(o)' /\ ProcessingIsLeased(o)'
           /\ \A k \in Key : NoFutureIntent(k)'
<1>. TablesTypeOK
  BY DEF IntentInv, TypeOK
<1>1. PICK p \in Object, op \in Op, v \in Version :
          /\ Enqueue(p, op, v)
          /\ \/ v.rev > sync[p].rev
             \/ op = "delete" /\ v.rev = sync[p].rev /\ sync[p].op = "upsert"
          /\ outbox[<<p, v.rev, op>>].state = "absent"
  BY FreshWrite
<1>. DEFINE key == <<p, v.rev, op>>
<1>2. /\ key \in Key /\ key[1] = p /\ key[2] = v.rev /\ key[3] = op
      /\ \A o \in Object \ {p} : sync'[o] = sync[o]
      /\ sync'[p].op = op /\ sync'[p].rev = v.rev /\ sync'[p].hash = v.hash
      /\ \A k \in Key : k # key => outbox'[k] = outbox[k]
      /\ outbox'[key].state = "pending" /\ outbox'[key].hash = v.hash
  BY <1>1, EnqueueEffect
<1>3. v.rev \in Nat /\ sync[p].rev \in Nat
  BY VersionFields, OutboxAssumption DEF TablesTypeOK, SyncRow, Rev, OutboxAssumption
<1>. HIDE DEF key
<1>4. CurrentKey(p)' = key
  BY <1>2 DEF CurrentKey, key
<1>5. ASSUME NEW o \in Object, sync'[o].status # "none"
      PROVE  CurrentIntent(o)' /\ ProcessingIsLeased(o)'
  <2>1. CASE o = p
    BY <1>2, <1>4, <2>1 DEF CurrentIntent, ProcessingIsLeased
  <2>2. CASE o # p
    <3>1. CurrentKey(o)' = CurrentKey(o) /\ sync'[o] = sync[o]
      BY <1>2, <2>2 DEF CurrentKey
    <3>2. CurrentKey(o) \in Key /\ CurrentKey(o) # key
      BY <1>2, <1>5, <2>2, <3>1, CurrentKeyType DEF CurrentKey
    <3>3. outbox'[CurrentKey(o)] = outbox[CurrentKey(o)]
      BY <1>2, <3>2
    <3>4. CurrentIntent(o) /\ ProcessingIsLeased(o)
      BY DEF IntentInv
    <3>. QED BY <3>1, <3>3, <3>4 DEF CurrentIntent, ProcessingIsLeased
  <2>. QED BY <2>1, <2>2
<1>6. ASSUME NEW k \in Key PROVE NoFutureIntent(k)'
  <2>1. CASE k = key
    BY <1>2, <2>1 DEF NoFutureIntent
  <2>2. CASE k # key /\ k[1] # p
    <3>1. outbox'[k] = outbox[k] /\ sync'[k[1]] = sync[k[1]]
      BY <1>2, <2>2 DEF Key
    <3>2. NoFutureIntent(k)
      BY DEF IntentInv
    <3>. QED BY <3>1, <3>2 DEF NoFutureIntent
  <2>3. CASE k # key /\ k[1] = p
    <3>1. outbox'[k] = outbox[k] /\ k[2] \in Nat
      BY <1>2, <2>3, OutboxAssumption DEF Key, Rev, OutboxAssumption
    <3>2. NoFutureIntent(k)
      BY DEF IntentInv
    <3>. QED BY <1>1, <1>2, <1>3, <2>3, <3>1, <3>2 DEF NoFutureIntent
  <2>. QED BY <2>1, <2>2, <2>3
<1>7. ASSUME NEW o \in Object, sync'[o].status = "none"
      PROVE  CurrentIntent(o)' /\ ProcessingIsLeased(o)'
  BY <1>7 DEF CurrentIntent, ProcessingIsLeased
<1>. QED BY <1>5, <1>6, <1>7

-----------------------------------------------------------------------------
(* What the statements of a drain do to the current intents.               *)

\* A statement that changes no desire and takes care of the current intent of
\* every object keeps the three invariants of the tables.
LEMMA IntentKept ==
    ASSUME IntentInv, KeepsDesires,
           \A k \in Key : outbox'[k].state # "absent" => outbox[k].state # "absent",
           \A o \in Object : CurrentKey(o) \in Key =>
               CurrentIntent(o)' /\ ProcessingIsLeased(o)'
    PROVE  /\ \A o \in Object : CurrentIntent(o)' /\ ProcessingIsLeased(o)'
           /\ \A k \in Key : NoFutureIntent(k)'
<1>. TablesTypeOK
  BY DEF IntentInv, TypeOK
<1>1. ASSUME NEW o \in Object PROVE CurrentIntent(o)' /\ ProcessingIsLeased(o)'
  <2>1. CASE sync'[o].status = "none"
    BY <2>1 DEF CurrentIntent, ProcessingIsLeased
  <2>2. CASE sync'[o].status # "none"
    BY <2>2, CurrentKeyType DEF KeepsDesires
  <2>. QED BY <2>1, <2>2
<1>2. ASSUME NEW k \in Key PROVE NoFutureIntent(k)'
  <2>1. NoFutureIntent(k) /\ k[1] \in Object
    BY DEF IntentInv, Key
  <2>. QED BY <2>1 DEF NoFutureIntent, KeepsDesires
<1>. QED BY <1>1, <1>2

\* CurrentKey does not move while the desire stays.
LEMMA SameKey ==
    ASSUME KeepsDesires, NEW o \in Object
    PROVE  CurrentKey(o)' = CurrentKey(o)
  BY DEF KeepsDesires, CurrentKey

LEMMA IntentAck ==
    ASSUME IntentInv, AckSuperseded
    PROVE  /\ \A o \in Object : CurrentIntent(o)' /\ ProcessingIsLeased(o)'
           /\ \A k \in Key : NoFutureIntent(k)'
<1>. TablesTypeOK
  BY DEF IntentInv, TypeOK
<1>1. /\ sync' = sync /\ KeepsDesires
      /\ \A k \in Key : \/ outbox'[k] = outbox[k]
                        \/ /\ Superseded(k)
                           /\ outbox'[k] = Closed(outbox[k], "delivered")
  BY AckSupersededEffect, AckSupersededType
<1>2. \A k \in Key : outbox'[k].state # "absent" => outbox[k].state # "absent"
  BY <1>1 DEF Superseded, Lapsed
<1>3. ASSUME NEW o \in Object, CurrentKey(o) \in Key
      PROVE  CurrentIntent(o)' /\ ProcessingIsLeased(o)'
  <2>1. ~Superseded(CurrentKey(o))
    <3>1. sync[o].rev \in Nat
      BY OutboxAssumption DEF TablesTypeOK, SyncRow, OutboxAssumption
    <3>. QED BY <3>1 DEF Superseded, CurrentKey
  <2>2. outbox'[CurrentKey(o)] = outbox[CurrentKey(o)]
    BY <1>1, <1>3, <2>1
  <2>3. CurrentIntent(o) /\ ProcessingIsLeased(o)
    BY DEF IntentInv
  <2>. QED BY <1>1, <2>2, <2>3, SameKey DEF CurrentIntent, ProcessingIsLeased
<1>. QED BY <1>1, <1>2, <1>3, IntentKept

LEMMA IntentReap ==
    ASSUME IntentInv, ReapExhausted(BatchSize)
    PROVE  /\ \A o \in Object : CurrentIntent(o)' /\ ProcessingIsLeased(o)'
           /\ \A k \in Key : NoFutureIntent(k)'
<1>. TablesTypeOK
  BY DEF IntentInv, TypeOK
<1>1. KeepsDesires
  BY ReapExhaustedType
<1>2. \A k \in Key : \/ outbox'[k] = outbox[k]
                     \/ Exhausted(k) /\ outbox'[k] = Closed(outbox[k], "failed")
  BY ReapExhaustedEffect
<1>3. \A o \in Object : \/ sync'[o] = sync[o]
                        \/ /\ CurrentKey(o) \in Key
                           /\ outbox'[CurrentKey(o)] = Closed(outbox[CurrentKey(o)], "failed")
                           /\ sync[o].status = "syncing"
                           /\ sync'[o] = FailedSync(o)
  BY ReapExhaustedEffect
<1>4. \A k \in Key : /\ Closed(outbox[k], "failed").state = "failed"
                     /\ Closed(outbox[k], "failed").hash = outbox[k].hash
  BY ClosedRow DEF TablesTypeOK
<1>5. \A k \in Key : outbox'[k].state # "absent" => outbox[k].state # "absent"
  BY <1>2 DEF Exhausted, Lapsed
<1>6. ASSUME NEW o \in Object, CurrentKey(o) \in Key
      PROVE  CurrentIntent(o)' /\ ProcessingIsLeased(o)'
  <2>1. CurrentIntent(o) /\ ProcessingIsLeased(o) /\ CurrentKey(o)' = CurrentKey(o)
    BY <1>1, SameKey DEF IntentInv
  <2>2. sync'[o].hash = sync[o].hash
    BY <1>1 DEF KeepsDesires
  <2>3. CASE outbox'[CurrentKey(o)] = outbox[CurrentKey(o)] /\ sync'[o] = sync[o]
    BY <2>1, <2>3 DEF CurrentIntent, ProcessingIsLeased
  <2>4. CASE outbox'[CurrentKey(o)] = Closed(outbox[CurrentKey(o)], "failed")
    <3>1. outbox'[CurrentKey(o)].state = "failed"
          /\ outbox'[CurrentKey(o)].hash = outbox[CurrentKey(o)].hash
      BY <1>4, <1>6, <2>4
    <3>2. sync'[o].status \in {"pending", "error", "syncing"} =>
              sync[o].status \in {"pending", "error", "syncing"}
      BY <1>3
    <3>. QED BY <2>1, <2>2, <3>1, <3>2 DEF CurrentIntent, ProcessingIsLeased
  <2>. QED BY <1>2, <1>3, <1>6, <2>3, <2>4
<1>. QED BY <1>1, <1>5, <1>6, IntentKept

LEMMA IntentClaim ==
    ASSUME IntentInv, NEW c \in Consumer, NEW p \in Object, ClaimNext(c, p)
    PROVE  /\ \A o \in Object : CurrentIntent(o)' /\ ProcessingIsLeased(o)'
           /\ \A k \in Key : NoFutureIntent(k)'
<1>. TablesTypeOK
  BY DEF IntentInv, TypeOK
<1>1. KeepsDesires
  BY ClaimNextType
<1>. DEFINE key == CurrentKey(p)
<1>2. /\ key \in Key /\ key[1] = p
      /\ outbox[key].state \in {"pending", "failed", "processing"}
      /\ \A o \in Object \ {p} : sync'[o] = sync[o]
      /\ sync'[p] = ClaimedSync(c, p)
      /\ \A k \in Key \ {key} : outbox'[k] = outbox[k]
      /\ outbox'[key].state = "processing" /\ outbox'[key].owner = c
      /\ outbox'[key].hash = sync[p].hash
  BY ClaimNextEffect DEF CurrentKey
<1>3. \A o \in Object : CurrentKey(o)' = CurrentKey(o) /\ CurrentKey(o)[1] = o
  BY <1>1, SameKey DEF CurrentKey
<1>. HIDE DEF key
<1>4. \A k \in Key : outbox'[k].state # "absent" => outbox[k].state # "absent"
  BY <1>2
<1>5. ASSUME NEW o \in Object, CurrentKey(o) \in Key
      PROVE  CurrentIntent(o)' /\ ProcessingIsLeased(o)'
  <2>1. CASE o = p
    <3>1. sync'[p].hash = sync[p].hash /\ sync'[p].status = "syncing" /\ sync'[p].owner = c
      BY <1>2, ClaimedSyncRow
    <3>. QED BY <1>2, <1>3, <2>1, <3>1 DEF CurrentIntent, ProcessingIsLeased, key
  <2>2. CASE o # p
    <3>1. outbox'[CurrentKey(o)] = outbox[CurrentKey(o)] /\ sync'[o] = sync[o]
      BY <1>2, <1>3, <1>5, <2>2
    <3>2. CurrentIntent(o) /\ ProcessingIsLeased(o)
      BY DEF IntentInv
    <3>. QED BY <1>3, <3>1, <3>2 DEF CurrentIntent, ProcessingIsLeased
  <2>. QED BY <2>1, <2>2
<1>. QED BY <1>1, <1>4, <1>5, IntentKept

\* If an event is for the desired version of its object, the instance that
\* owns its row owns the sync row too, for exactly that version.
LEMMA CurrentEvent ==
    ASSUME IntentInv, NEW c \in Consumer, pc[c] \in Working \cup {"error"},
           EventKey(ev[c]) = CurrentKey(ev[c].obj)
    PROVE  /\ ~SyncIsPast(ev[c])
           /\ HoldsRow(c, ev[c]) => RenewOK(c, ev[c]) /\ SyncIsAt(ev[c])
<1>. DEFINE e == ev[c]
<1>1. e \in Event /\ TablesTypeOK
  BY DEF IntentInv, TypeOK
<1>2. e.obj \in Object /\ e.rev \in Rev /\ e.rev \in Nat
  BY <1>1, OutboxAssumption DEF Event, Rev, OutboxAssumption
<1>. HIDE DEF e
<1>3. sync[e.obj].rev = e.rev /\ sync[e.obj].op = e.op
  BY DEF EventKey, CurrentKey, e
<1>4. ~SyncIsPast(e)
  BY <1>2, <1>3 DEF SyncIsPast
<1>5. sync[e.obj].status # "none"
  <2>1. Desired(e.obj).rev # 0
    BY <1>2, <1>3, OutboxAssumption DEF Desired, Rev, OutboxAssumption
  <2>. QED BY <1>1, <1>2, <2>1 DEF TablesTypeOK, NoVersion
<1>6. ASSUME HoldsRow(c, e) PROVE RenewOK(c, e) /\ SyncIsAt(e)
  <2>1. CurrentIntent(e.obj) /\ ProcessingIsLeased(e.obj)
    BY <1>2 DEF IntentInv
  <2>2. HoldsSync(c, e)
    BY <1>5, <1>6, <2>1 DEF HoldsRow, HoldsSync, ProcessingIsLeased, e
  <2>3. outbox[CurrentKey(e.obj)].hash = sync[e.obj].hash
    BY <2>1, <2>2 DEF CurrentIntent, HoldsSync
  <2>4. outbox[EventKey(e)].hash = e.hash
    BY DEF IntentInv, RowsAreEvents, e
  <2>. QED BY <1>3, <1>6, <2>2, <2>3, <2>4 DEF RenewOK, SyncIsAt, e
<1>. QED BY <1>4, <1>6 DEF e

\* The statement that ends the work on the current intent under both leases
\* records the projection, or its failure.
LEMMA FinalizeReports ==
    ASSUME TablesTypeOK, NEW c \in Consumer, NEW e \in Event,
           RenewOK(c, e), SyncIsAt(e), ~SyncIsPast(e),
           FinalizeSuccess(c, e) \/ FinalizeError(c, e)
    PROVE  sync'[e.obj].status = "synced" \/ outbox'[EventKey(e)].state = "failed"
<1>1. CASE FinalizeSuccess(c, e)
  <2>1. sync'[e.obj] = ProjectedSync(e)
    BY <1>1, FinalizeSuccessEffect DEF FinalizeSuccessOK
  <2>. QED BY <2>1, ProjectedSyncRow
<1>2. CASE FinalizeError(c, e)
  <2>1. outbox'[EventKey(e)] = Closed(outbox[EventKey(e)], "failed")
    BY <1>2, FinalizeErrorEffect, CloseRowEffect DEF RenewOK
  <2>. QED BY <2>1, EventKeyType, ClosedRow DEF TablesTypeOK
<1>. QED BY <1>1, <1>2

\* The three statements that end the work on an event.
LEMMA IntentFinalize ==
    ASSUME IntentInv, NEW c \in Consumer, pc[c] \in Working \cup {"error"},
           \/ FinalizeSuccess(c, ev[c])
           \/ FinalizeSuperseded(c, ev[c]) /\ SyncIsPast(ev[c])
           \/ FinalizeError(c, ev[c])
    PROVE  /\ \A o \in Object : CurrentIntent(o)' /\ ProcessingIsLeased(o)'
           /\ \A k \in Key : NoFutureIntent(k)'
<1>. DEFINE e == ev[c]
            key == EventKey(e)
<1>1. e \in Event /\ TablesTypeOK /\ key \in Key /\ e.obj \in Object
  BY EventKeyType DEF IntentInv, TypeOK, Event
<1>2. KeepsDesires
  BY <1>1, FinalizeType
<1>3. PICK state \in {"delivered", "failed"} :
          /\ CloseRow(c, e, state)
          /\ FinalizeError(c, e) => state = "failed"
  <2>1. CASE FinalizeSuccess(c, e) /\ ~FinalizeError(c, e)
    BY <1>1, <2>1, FinalizeSuccessEffect
  <2>2. CASE FinalizeSuperseded(c, e) /\ ~FinalizeError(c, e)
    BY <1>1, <2>2, FinalizeSupersededEffect
  <2>3. CASE FinalizeError(c, e)
    BY <1>1, <2>3, FinalizeErrorEffect
  <2>. QED BY <2>1, <2>2, <2>3
<1>. HIDE DEF e
<1>4. /\ \A k \in Key : k # key => outbox'[k] = outbox[k]
      /\ ~HoldsRow(c, e) => outbox'[key] = outbox[key]
      /\ HoldsRow(c, e) => /\ outbox'[key].state = state
                           /\ outbox'[key].hash = outbox[key].hash
  BY <1>1, <1>3, CloseRowEffect, ClosedRow DEF TablesTypeOK
<1>5. \A o \in Object \ {e.obj} : sync'[o] = sync[o]
  BY <1>1, FinalizeSuccessEffect, FinalizeSupersededEffect, FinalizeErrorEffect DEF e
<1>6. \/ sync'[e.obj] = sync[e.obj]
      \/ RenewOK(c, e) /\ SyncIsAt(e) /\ sync'[e.obj].status = "synced"
      \/ /\ RenewOK(c, e) /\ SyncIsAt(e) /\ sync'[e.obj].status = "error"
         /\ state = "failed"
      \/ HoldsSync(c, e) /\ SyncIsPast(e) /\ sync'[e.obj].status = "pending"
  <2>1. ProjectedSync(e).status = "synced" /\ FailedSync(e.obj).status = "error"
        /\ ReleasedSync(e.obj).status = "pending"
    BY <1>1, ProjectedSyncRow, FailedSyncRow, ReleasedSyncRow
  <2>2. CASE FinalizeSuccess(c, e)
    BY <1>1, <2>1, <2>2, FinalizeSuccessEffect DEF RenewOK
  <2>3. CASE FinalizeSuperseded(c, e)
    BY <1>1, <2>1, <2>3, FinalizeSupersededEffect
  <2>4. CASE FinalizeError(c, e)
    BY <1>1, <1>3, <2>1, <2>4, FinalizeErrorEffect DEF RenewOK
  <2>. QED BY <2>2, <2>3, <2>4 DEF e
<1>7. \A k \in Key : outbox'[k].state # "absent" => outbox[k].state # "absent"
  BY <1>4 DEF HoldsRow, key
<1>8. ASSUME NEW o \in Object PROVE CurrentIntent(o)' /\ ProcessingIsLeased(o)'
  <2>1. CurrentIntent(o) /\ ProcessingIsLeased(o) /\ CurrentKey(o)' = CurrentKey(o)
    BY <1>2, SameKey DEF IntentInv
  <2>2. sync'[o].hash = sync[o].hash /\ sync'[o].rev = sync[o].rev
    BY <1>2 DEF KeepsDesires
  <2>3. CASE CurrentKey(o) \notin Key
    <3>1. sync'[o].status = "none"
      BY <1>1, <1>2, <2>3, CurrentKeyType DEF KeepsDesires
    <3>. QED BY <3>1 DEF CurrentIntent, ProcessingIsLeased
  <2>4. CASE o # e.obj /\ CurrentKey(o) \in Key
    <3>1. CurrentKey(o) # key
      BY <2>4 DEF CurrentKey, EventKey, key
    <3>2. outbox'[CurrentKey(o)] = outbox[CurrentKey(o)] /\ sync'[o] = sync[o]
      BY <1>4, <1>5, <2>4, <3>1
    <3>. QED BY <2>1, <3>2 DEF CurrentIntent, ProcessingIsLeased
  <2>5. CASE o = e.obj /\ CurrentKey(o) = key
    <3>1. /\ ~SyncIsPast(e)
          /\ HoldsRow(c, e) => RenewOK(c, e) /\ SyncIsAt(e)
      BY <2>5, CurrentEvent DEF e, key
    <3>2. CASE ~HoldsRow(c, e)
      <4>1. sync'[o] = sync[o] /\ outbox'[CurrentKey(o)] = outbox[CurrentKey(o)]
        BY <1>4, <1>6, <2>5, <3>1, <3>2 DEF RenewOK
      <4>. QED BY <2>1, <4>1 DEF CurrentIntent, ProcessingIsLeased
    <3>3. CASE HoldsRow(c, e)
      <4>1. outbox'[CurrentKey(o)].state \in {"delivered", "failed"}
        BY <1>4, <2>5, <3>3
      <4>2. sync[o].status = "syncing" /\ outbox[CurrentKey(o)].hash = sync[o].hash
        BY <2>1, <2>5, <3>1, <3>3 DEF RenewOK, HoldsSync, CurrentIntent
      <4>3. sync'[o].status = "synced" \/ outbox'[CurrentKey(o)].state = "failed"
        <5>1. FinalizeSuccess(c, e) \/ FinalizeError(c, e)
          BY <3>1 DEF e
        <5>. QED BY <1>1, <2>5, <3>1, <3>3, <5>1, FinalizeReports DEF key
      <4>4. outbox'[CurrentKey(o)].hash = sync'[o].hash
        BY <1>4, <2>2, <2>5, <3>3, <4>2
      <4>. QED BY <2>1, <4>1, <4>3, <4>4 DEF CurrentIntent, ProcessingIsLeased
    <3>. QED BY <3>2, <3>3
  <2>6. CASE o = e.obj /\ CurrentKey(o) # key /\ CurrentKey(o) \in Key
    <3>1. outbox'[CurrentKey(o)] = outbox[CurrentKey(o)]
      BY <1>4, <2>6
    <3>2. ~SyncIsAt(e)
      BY <2>6 DEF SyncIsAt, CurrentKey, EventKey, key
    <3>3. CASE sync'[o] = sync[o]
      BY <2>1, <3>1, <3>3 DEF CurrentIntent, ProcessingIsLeased
    <3>4. CASE HoldsSync(c, e) /\ sync'[o].status = "pending"
      <4>1. sync[o].status = "syncing" /\ sync[o].owner = c
        BY <2>6, <3>4 DEF HoldsSync
      <4>2. CurrentIntent(o)'
        BY <2>1, <2>2, <3>1, <4>1 DEF CurrentIntent
      <4>3. OneRow(c, CurrentKey(o))
        BY <2>6 DEF IntentInv
      <4>4. outbox[CurrentKey(o)].state # "processing"
        BY <2>1, <2>6, <4>1, <4>3 DEF ProcessingIsLeased, OneRow, Working, e, key
      <4>. QED BY <3>1, <2>1, <4>2, <4>4 DEF ProcessingIsLeased
    <3>. QED BY <1>6, <2>6, <3>2, <3>3, <3>4
  <2>. QED BY <1>1, <2>3, <2>4, <2>5, <2>6
<1>. QED BY <1>2, <1>7, <1>8, IntentKept

-----------------------------------------------------------------------------
(* The instances.                                                          *)

\* Only a claim makes a row "processing".
LEMMA ProcessingByClaim ==
    ASSUME IntentInv, [Next]_vars, NEW k \in Key, outbox'[k].state = "processing"
    PROVE  \/ outbox'[k] = outbox[k]
           \/ \E c \in Consumer, o \in Object :
                 Claim(c, o) /\ k = CurrentKey(o) /\ outbox'[k].owner = c
<1>. DEFINE Goal == \/ outbox'[k] = outbox[k]
                    \/ \E c \in Consumer, o \in Object :
                          Claim(c, o) /\ k = CurrentKey(o) /\ outbox'[k].owner = c
<1>. TypeOK /\ TablesTypeOK
  BY DEF IntentInv, TypeOK
<1>1. \A state \in {"delivered", "failed"} : Closed(outbox[k], state).state = state
  BY ClosedRow DEF TablesTypeOK
<1>2. CASE ClientWrite
  <2>1. PICK o \in Object, op \in Op, v \in Version : Enqueue(o, op, v)
    BY <1>2, ClientWriteCases
  <2>2. \/ outbox'[k] = outbox[k]
        \/ k = <<o, v.rev, op>> /\ outbox[k].state = "absent" /\ outbox'[k].state = "pending"
    <3>. DEFINE key == <<o, v.rev, op>>
    <3>1. /\ \A j \in Key : outbox[j].state # "absent" => outbox'[j] = outbox[j]
          /\ \A j \in Key : j # key => outbox'[j] = outbox[j]
          /\ outbox[key].state = "absent" => outbox'[key].state = "pending"
      BY <2>1, EnqueueEffect
    <3>. HIDE DEF key
    <3>2. \/ outbox'[k] = outbox[k]
          \/ k = key /\ outbox[k].state = "absent" /\ outbox'[k].state = "pending"
      BY <3>1
    <3>. QED BY <3>2 DEF key
  <2>. QED BY <2>2
<1>3. CASE UNCHANGED outbox
  BY <1>3
<1>4. ASSUME NEW c \in Consumer, Acknowledge(c) PROVE Goal
  BY <1>1, <1>4, AckSupersededEffect DEF Acknowledge
<1>5. ASSUME NEW c \in Consumer, Reap(c) PROVE Goal
  BY <1>1, <1>5, ReapExhaustedEffect DEF Reap
<1>6. ASSUME NEW c \in Consumer, NEW o \in Object, Claim(c, o) PROVE Goal
  <2>1. ClaimNext(c, o)
    BY <1>6 DEF Claim
  <2>. QED BY <1>6, <2>1, ClaimNextEffect
<1>7. ASSUME NEW c \in Consumer, Finalize(c) \/ Supersede(c) \/ RecordFailure(c)
      PROVE  Goal
  <2>1. ev[c] \in Event
    BY <1>7 DEF Finalize, Supersede, RecordFailure, TypeOK, Working
  <2>2. PICK state \in {"delivered", "failed"} : CloseRow(c, ev[c], state)
    BY <1>7, <2>1, FinalizeSuccessEffect, FinalizeSupersededEffect, FinalizeErrorEffect
       DEF Finalize, Supersede, RecordFailure
  <2>. QED BY <1>1, <2>1, <2>2, CloseRowEffect
<1>8. ASSUME NEW c \in Consumer,
             \/ Start(c) \/ EndDrain(c) \/ Validate(c) \/ Renew(c) \/ Project(c)
             \/ Fault(c) \/ Crash(c) \/ Expire(c)
      PROVE  Goal
  BY <1>3, <1>8 DEF Start, EndDrain, Validate, Renew, Project, Fault, Crash, Expire,
                    RenewLease, LeaseRunsOut, tables
<1>9. CASE UNCHANGED vars
  BY <1>3, <1>9 DEF vars
<1>. QED BY <1>2, <1>4, <1>5, <1>6, <1>7, <1>8, <1>9 DEF Next, Step

\* What a step makes of an instance that keeps a row it owned before.
LEMMA OwnerStep ==
    ASSUME IntentInv, [Next]_vars, NEW c \in Consumer, pc'[c] # "off",
           NEW k \in Key, outbox[k].state = "processing", outbox[k].owner = c,
           outbox'[k] = outbox[k]
    PROVE  pc'[c] \in Working \cup {"error"} /\ k = EventKey(ev[c])'
<1>. DEFINE Goal == pc'[c] \in Working \cup {"error"} /\ k = EventKey(ev[c])'
<1>. TypeOK /\ TablesTypeOK
  BY DEF IntentInv, TypeOK
<1>1. pc[c] # "off" => pc[c] \in Working \cup {"error"} /\ k = EventKey(ev[c])
  BY DEF IntentInv, OneRow
<1>2. CASE pc[c] = "off"
  <2>1. Owns(c)
    BY DEF Owns
  <2>2. pc'[c] = pc[c]
    <3>1. CASE ClientWrite \/ UNCHANGED vars
      BY <3>1 DEF ClientWrite, vars
    <3>2. ASSUME NEW d \in Consumer, Start(d) \/ Step(d) \/ Fault(d) \/ Crash(d) \/ Expire(d)
          PROVE  pc'[c] = pc[c]
      <4>1. CASE d = c
        BY <1>2, <2>1, <3>2, <4>1
           DEF Start, Step, Fault, Crash, Expire, Acknowledge, Reap, EndDrain, Claim,
               Validate, Renew, Project, Finalize, Supersede, RecordFailure, Working
      <4>2. CASE d # c
        BY <3>2, <4>2
           DEF TypeOK, Start, Step, Fault, Crash, Expire, Acknowledge, Reap, EndDrain, Claim,
               Validate, Renew, Project, Finalize, Supersede, RecordFailure, Goto, Exit
      <4>. QED BY <4>1, <4>2
    <3>. QED BY <3>1, <3>2 DEF Next
  <2>. QED BY <1>2, <2>2
<1>3. CASE pc[c] # "off" /\ pc'[c] \in Working \cup {"error"}
  <2>1. CASE EventKey(ev[c])' = EventKey(ev[c])
    BY <1>1, <1>3, <2>1
  <2>2. ASSUME NEW o \in Object, Claim(c, o) PROVE FALSE
    BY <1>1, <1>3, <2>2 DEF Claim, Working
  <2>. QED BY <1>3, <2>1, <2>2, EventSteps
<1>4. CASE pc[c] # "off" /\ pc'[c] \notin Working \cup {"error"}
  <2>1. pc[c] \in Working \cup {"error"} /\ k = EventKey(ev[c]) /\ ev[c] \in Event
    BY <1>1, <1>4 DEF TypeOK
  <2>2. HoldsRow(c, ev[c])
    BY <2>1 DEF HoldsRow
  <2>3. Finalize(c) \/ Supersede(c) \/ RecordFailure(c)
    <3>1. CASE ClientWrite \/ UNCHANGED vars
      BY <1>4, <2>1, <3>1 DEF ClientWrite, vars
    <3>2. ASSUME NEW d \in Consumer, Start(d) \/ Step(d) \/ Fault(d) \/ Crash(d) \/ Expire(d)
          PROVE  Finalize(c) \/ Supersede(c) \/ RecordFailure(c)
      <4>1. CASE d = c
        BY <1>4, <2>1, <3>2, <4>1
           DEF TypeOK, Start, Step, Fault, Crash, Expire, Acknowledge, Reap, EndDrain, Claim,
               Validate, Verdict, Renew, AfterRenewal, Project, Goto, Exit, Working
      <4>2. CASE d # c
        <5>1. pc'[c] = pc[c]
          BY <3>2, <4>2
             DEF TypeOK, Start, Step, Fault, Crash, Expire, Acknowledge, Reap, EndDrain, Claim,
                 Validate, Renew, Project, Finalize, Supersede, RecordFailure, Goto, Exit
        <5>. QED BY <1>4, <2>1, <5>1
      <4>. QED BY <4>1, <4>2
    <3>. QED BY <3>1, <3>2 DEF Next
  <2>4. PICK state \in {"delivered", "failed"} : CloseRow(c, ev[c], state)
    BY <2>1, <2>3, FinalizeSuccessEffect, FinalizeSupersededEffect, FinalizeErrorEffect
       DEF Finalize, Supersede, RecordFailure
  <2>5. outbox'[k].state = state
    BY <2>1, <2>2, <2>4, CloseRowEffect, ClosedRow DEF TablesTypeOK
  <2>. QED BY <2>5
<1>. QED BY <1>2, <1>3, <1>4

LEMMA OneRowStep ==
    ASSUME IntentInv, [Next]_vars, NEW c \in Consumer, NEW k \in Key
    PROVE  OneRow(c, k)'
<1>. SUFFICES ASSUME pc'[c] # "off", outbox'[k].state = "processing", outbox'[k].owner = c
              PROVE  pc'[c] \in Working \cup {"error"} /\ k = EventKey(ev[c])'
  BY DEF OneRow
<1>1. CASE outbox'[k] = outbox[k]
  BY <1>1, OwnerStep
<1>2. CASE \E d \in Consumer, o \in Object :
              Claim(d, o) /\ k = CurrentKey(o) /\ outbox'[k].owner = d
  <2>1. PICK o \in Object : Claim(c, o) /\ k = CurrentKey(o)
    BY <1>2
  <2>2. pc'[c] = "validate" /\ ev'[c] = ClaimedEvent(o)
    BY <2>1 DEF Claim, Goto, IntentInv, TypeOK
  <2>3. EventKey(ev[c])' = CurrentKey(o)
    BY <2>2 DEF EventKey, ClaimedEvent, CurrentKey
  <2>. QED BY <2>1, <2>2, <2>3 DEF Working
<1>. QED BY <1>1, <1>2, ProcessingByClaim

\* An event is superseded for good: the desired revision never falls.
LEMMA SupersededStep ==
    ASSUME FreshRevisions, IntentInv, [Next]_vars, NEW c \in Consumer
    PROVE  SupersededIsPast(c)'
<1>. SUFFICES ASSUME pc'[c] = "supersede" PROVE SyncIsPast(ev[c])'
  BY DEF SupersededIsPast
<1>. TypeOK /\ TablesTypeOK
  BY DEF IntentInv, TypeOK
<1>1. pc[c] \in Working /\ ev'[c] = ev[c] /\ (pc[c] = "supersede" \/ Validate(c))
  <2>1. CASE ClientWrite \/ UNCHANGED vars
    BY <2>1 DEF ClientWrite, vars, Working
  <2>2. ASSUME NEW d \in Consumer, Start(d) \/ Step(d) \/ Fault(d) \/ Crash(d) \/ Expire(d)
        PROVE  pc[c] \in Working /\ ev'[c] = ev[c] /\ (pc[c] = "supersede" \/ Validate(c))
    <3>1. CASE d = c
      BY <2>2, <3>1
         DEF TypeOK, Start, Step, Fault, Crash, Expire, Acknowledge, Reap, EndDrain, Claim,
             Validate, Renew, AfterRenewal, Project, Finalize, Supersede, RecordFailure,
             Goto, Exit, Working
    <3>2. CASE d # c
      <4>1. pc'[c] = pc[c] /\ ev'[c] = ev[c]
        BY <2>2, <3>2
           DEF TypeOK, Start, Step, Fault, Crash, Expire, Acknowledge, Reap, EndDrain, Claim,
               Validate, Renew, Project, Finalize, Supersede, RecordFailure, Goto, Exit
      <4>. QED BY <4>1 DEF Working
    <3>. QED BY <3>1, <3>2
  <2>. QED BY <2>1, <2>2 DEF Next
<1>2. ev[c] \in Event /\ ev[c].obj \in Object /\ ev[c].rev \in Nat
  BY <1>1, OutboxAssumption DEF TypeOK, Event, Rev, OutboxAssumption
<1>3. SyncIsPast(ev[c])
  <2>1. CASE pc[c] = "supersede"
    BY <2>1 DEF IntentInv, SupersededIsPast
  <2>2. CASE Validate(c) /\ pc[c] # "supersede"
    <3>1. Verdict(ev[c]) = "supersede"
      BY <2>2 DEF Validate, Goto, TypeOK
    <3>2. canonical[ev[c].obj].rev > ev[c].rev
      BY <3>1 DEF Verdict
    <3>3. canonical[ev[c].obj] # NoVersion
      BY <1>2, <3>2 DEF NoVersion
    <3>4. Desired(ev[c].obj) = canonical[ev[c].obj]
      BY <1>2, <3>3 DEF IntentInv, DesireIsCanonical
    <3>. QED BY <3>2, <3>4 DEF Desired, SyncIsPast
  <2>. QED BY <1>1, <2>1, <2>2
<1>4. sync'[ev[c].obj].rev >= sync[ev[c].obj].rev
      /\ sync[ev[c].obj].rev \in Nat /\ sync'[ev[c].obj].rev \in Nat
  BY <1>2, RevisionsGrow
<1>. QED BY <1>1, <1>2, <1>3, <1>4 DEF SyncIsPast

-----------------------------------------------------------------------------
(* The theorem.                                                            *)

LEMMA IntentStep ==
    ASSUME FreshRevisions, IntentInv, [Next]_vars
    PROVE  IntentInv'
<1>. DEFINE Goal == /\ \A o \in Object : CurrentIntent(o)' /\ ProcessingIsLeased(o)'
                    /\ \A k \in Key : NoFutureIntent(k)'
<1>. TypeOK /\ DesireIsCanonical /\ RowsAreEvents
  BY DEF IntentInv
<1>1. TypeOK' /\ DesireIsCanonical' /\ RowsAreEvents'
  <2>1. TypeOK'
    BY TablesStep, ProcessType DEF TypeOK
  <2>. QED BY <2>1, DesireStep, RowsStep
<1>2. \A c \in Consumer, k \in Key : OneRow(c, k)'
  BY OneRowStep
<1>3. \A c \in Consumer : SupersededIsPast(c)'
  BY SupersededStep
<1>4. Goal
  <2>1. CASE ClientWrite
    BY <2>1, IntentClientWrite
  <2>2. CASE UNCHANGED <<sync, outbox>>
    BY <2>2 DEF IntentInv, CurrentIntent, ProcessingIsLeased, NoFutureIntent, CurrentKey
  <2>3. ASSUME NEW c \in Consumer, Acknowledge(c) \/ Reap(c) PROVE Goal
    BY <2>3, IntentAck, IntentReap DEF Acknowledge, Reap
  <2>4. ASSUME NEW c \in Consumer, NEW o \in Object, Claim(c, o) PROVE Goal
    <3>1. ClaimNext(c, o)
      BY <2>4 DEF Claim
    <3>. QED BY <3>1, IntentClaim
  <2>5. ASSUME NEW c \in Consumer, Finalize(c) \/ Supersede(c) \/ RecordFailure(c)
        PROVE  Goal
    <3>1. pc[c] = "supersede" => SyncIsPast(ev[c])
      BY DEF IntentInv, SupersededIsPast
    <3>. QED BY <2>5, <3>1, IntentFinalize DEF Finalize, Supersede, RecordFailure, Working
  <2>6. ASSUME NEW c \in Consumer,
               \/ Start(c) \/ EndDrain(c) \/ Validate(c) \/ Renew(c) \/ Project(c)
               \/ Fault(c) \/ Crash(c) \/ Expire(c)
        PROVE  Goal
    <3>1. UNCHANGED <<sync, outbox>>
      BY <2>6 DEF Start, EndDrain, Validate, Renew, Project, Fault, Crash, Expire,
                  RenewLease, LeaseRunsOut, tables
    <3>. QED BY <2>2, <3>1
  <2>7. CASE UNCHANGED vars
    BY <2>2, <2>7 DEF vars
  <2>. QED BY <2>1, <2>3, <2>4, <2>5, <2>6, <2>7 DEF Next, Step
<1>. QED BY <1>1, <1>2, <1>3, <1>4 DEF IntentInv

\* No intent is lost: as long as clients re-create an object only above the
\* revisions it already had, an object that is not projected as desired has an
\* undelivered intent for exactly what it desires, which the next drains claim
\* (the trigger, server-postgrest.py:448; claim_next, server-notion-sync.py:339).
THEOREM NoIntentLost ==
    ASSUME FreshRevisions
    PROVE  Spec => []NoLostIntent
<1>1. Init => IntentInv
  BY IntentInit
<1>2. IntentInv /\ [Next]_vars => IntentInv'
  BY IntentStep
<1>3. IntentInv => NoLostIntent
  BY DEF IntentInv, CurrentIntent, NoLostIntent
<1>. QED BY <1>1, <1>2, <1>3, PTL DEF Spec

-----------------------------------------------------------------------------
(* What is recorded as delivered and as projected.                         *)

LEMMA DeliveredStep ==
    ASSUME IntentInv, [Next]_vars, NEW k \in Key,
           outbox[k].state # "delivered", outbox'[k].state = "delivered"
    PROVE  \/ sync[k[1]].rev > k[2]
           \/ \E c \in Consumer : pc[c] = "finalize" /\ EventKey(ev[c]) = k
<1>. DEFINE Goal == \/ sync[k[1]].rev > k[2]
                    \/ \E c \in Consumer : pc[c] = "finalize" /\ EventKey(ev[c]) = k
<1>. TypeOK /\ TablesTypeOK
  BY DEF IntentInv, TypeOK
<1>1. ASSUME NEW c \in Consumer, Acknowledge(c) PROVE Goal
  BY <1>1, AckSupersededEffect DEF Acknowledge, Superseded
<1>2. ASSUME NEW c \in Consumer, Reap(c) PROVE Goal
  <2>1. outbox'[k] = outbox[k] \/ outbox'[k] = Closed(outbox[k], "failed")
    BY <1>2, ReapExhaustedEffect DEF Reap
  <2>. QED BY <2>1, ClosedRow DEF TablesTypeOK
<1>3. ASSUME NEW c \in Consumer, Finalize(c) PROVE Goal
  <2>1. ev[c] \in Event /\ pc[c] = "finalize"
    BY <1>3 DEF Finalize, TypeOK, Working
  <2>2. CloseRow(c, ev[c], "delivered")
    BY <1>3, <2>1, FinalizeSuccessEffect DEF Finalize
  <2>. QED BY <2>1, <2>2, CloseRowEffect
<1>4. ASSUME NEW c \in Consumer, Supersede(c) PROVE Goal
  <2>1. ev[c] \in Event /\ SyncIsPast(ev[c])
    BY <1>4 DEF Supersede, TypeOK, Working, IntentInv, SupersededIsPast
  <2>2. CloseRow(c, ev[c], "delivered")
    BY <1>4, <2>1, FinalizeSupersededEffect DEF Supersede
  <2>3. k = EventKey(ev[c])
    BY <2>1, <2>2, CloseRowEffect
  <2>. QED BY <2>1, <2>3 DEF SyncIsPast, EventKey
<1>5. ASSUME NEW c \in Consumer, RecordFailure(c) PROVE Goal
  <2>1. ev[c] \in Event
    BY <1>5 DEF RecordFailure, TypeOK, Working
  <2>2. CloseRow(c, ev[c], "failed")
    BY <1>5, <2>1, FinalizeErrorEffect DEF RecordFailure
  <2>3. outbox'[k] = outbox[k] \/ outbox'[k] = Closed(outbox[k], "failed")
    BY <2>1, <2>2, CloseRowEffect
  <2>. QED BY <2>3, ClosedRow DEF TablesTypeOK
<1>6. ASSUME NEW c \in Consumer, NEW o \in Object, Claim(c, o) PROVE Goal
  <2>1. ClaimNext(c, o)
    BY <1>6 DEF Claim
  <2>. QED BY <2>1, ClaimNextEffect
<1>7. CASE ClientWrite
  <2>1. PICK o \in Object, op \in Op, v \in Version : Enqueue(o, op, v)
    BY <1>7, ClientWriteCases
  <2>2. OutboxRowStep(k)
    BY OutboxRowSteps
  <2>3. outbox'[k] = outbox[k] \/ outbox'[k].state = "pending"
    BY <2>1 DEF Enqueue, TablesTypeOK
  <2>. QED BY <2>3
<1>8. CASE UNCHANGED outbox
  BY <1>8
<1>9. ASSUME NEW c \in Consumer,
             \/ Start(c) \/ EndDrain(c) \/ Validate(c) \/ Renew(c) \/ Project(c)
             \/ Fault(c) \/ Crash(c) \/ Expire(c)
      PROVE  Goal
  BY <1>8, <1>9 DEF Start, EndDrain, Validate, Renew, Project, Fault, Crash, Expire,
                    RenewLease, LeaseRunsOut, tables
<1>10. CASE UNCHANGED vars
  BY <1>8, <1>10 DEF vars
<1>. QED BY <1>1, <1>2, <1>3, <1>4, <1>5, <1>6, <1>7, <1>9, <1>10 DEF Next, Step

\* An intent is closed as delivered only after a projection was read back, or
\* because a newer revision is desired.
THEOREM OnlyProjectionDelivers ==
    ASSUME FreshRevisions
    PROVE  Spec => DeliveredByProjection
<1>1. IntentInv /\ [Next]_vars =>
          [\A k \in Key :
             outbox[k].state # "delivered" /\ outbox'[k].state = "delivered" =>
                 \/ sync[k[1]].rev > k[2]
                 \/ \E c \in Consumer : pc[c] = "finalize" /\ EventKey(ev[c]) = k]_vars
  BY DeliveredStep
<1>2. Init => IntentInv
  BY IntentInit
<1>3. IntentInv /\ [Next]_vars => IntentInv'
  BY IntentStep
<1>. QED BY <1>1, <1>2, <1>3, PTL DEF Spec, DeliveredByProjection

\* What was projected is never ahead of what is desired.
SeenIsPast(o) == sync[o].seen.rev <= sync[o].rev

LEMMA SeenStep ==
    ASSUME FreshRevisions, IntentInv, [Next]_vars, NEW o \in Object, SeenIsPast(o)
    PROVE  SeenIsPast(o)' /\ sync'[o].seen.rev >= sync[o].seen.rev
<1>. TypeOK /\ TablesTypeOK
  BY DEF IntentInv, TypeOK
<1>1. sync[o].seen.rev \in Nat
  <2>1. sync[o].seen \in Version \cup {NoVersion}
    BY DEF TablesTypeOK, SyncRow
  <2>2. CASE sync[o].seen \in Version
    BY <2>2, VersionFields, OutboxAssumption DEF Rev, OutboxAssumption
  <2>3. CASE sync[o].seen = NoVersion
    BY <2>3 DEF NoVersion
  <2>. QED BY <2>1, <2>2, <2>3
<1>2. sync'[o].rev >= sync[o].rev /\ sync[o].rev \in Nat /\ sync'[o].rev \in Nat
  BY RevisionsGrow
<1>3. CASE sync'[o].seen = sync[o].seen
  BY <1>1, <1>2, <1>3 DEF SeenIsPast
<1>4. CASE ClientWrite
  <2>1. PICK p \in Object, op \in Op, v \in Version : Enqueue(p, op, v)
    BY <1>4, ClientWriteCases
  <2>2. sync'[o].seen = sync[o].seen
    BY <2>1, EnqueueEffect
  <2>. QED BY <1>3, <2>2
<1>5. CASE ~ClientWrite
  <2>1. SyncRowStep(o)
    BY <1>5, SyncRowSteps
  <2>2. ASSUME NEW c \in Consumer, ev[c] \in Event, ev[c].obj = o, SyncIsAt(ev[c]),
               sync'[o] = ProjectedSync(ev[c])
        PROVE  SeenIsPast(o)' /\ sync'[o].seen.rev >= sync[o].seen.rev
    <3>1. ProjectedSync(ev[c]).seen = [rev |-> ev[c].rev, hash |-> ev[c].hash]
      BY <2>2, ProjectedSyncRow
    <3>2. sync'[o].seen.rev = ev[c].rev
      BY <2>2, <3>1
    <3>3. ev[c].rev = sync[o].rev
      BY <2>2 DEF SyncIsAt, Desired
    <3>. QED BY <1>1, <1>2, <3>2, <3>3 DEF SeenIsPast
  <2>3. CASE sync'[o] \in {ReleasedSync(o), FailedSync(o)}
    BY <1>3, <2>3, ReleasedSyncRow, FailedSyncRow
  <2>4. ASSUME NEW c \in Consumer, sync'[o] = ClaimedSync(c, o)
        PROVE  SeenIsPast(o)' /\ sync'[o].seen.rev >= sync[o].seen.rev
    BY <1>3, <2>4, ClaimedSyncRow
  <2>. QED BY <1>3, <2>1, <2>2, <2>3, <2>4 DEF SyncRowStep
<1>. QED BY <1>4, <1>5

\* The recorded projection never goes back to an older revision, even when a
\* consumer whose lease ran out long ago finalizes late.
THEOREM RecordNeverRegresses ==
    ASSUME FreshRevisions
    PROVE  Spec => ProjectionNeverRegresses
<1>. DEFINE Inv == IntentInv /\ \A o \in Object : SeenIsPast(o)
<1>1. Init => Inv
  BY IntentInit DEF Init, TablesInit, SeenIsPast, NoVersion
<1>2. Inv /\ [Next]_vars => Inv'
  BY IntentStep, SeenStep
<1>3. Inv /\ [Next]_vars =>
          [\A o \in Object : sync'[o].seen.rev >= sync[o].seen.rev]_vars
  BY SeenStep
<1>. QED BY <1>1, <1>2, <1>3, PTL DEF Spec, ProjectionNeverRegresses

-----------------------------------------------------------------------------
(* Sequences: what is removed from one leaves one.                         *)

\* A set of positions has a first one.
LEMMA FirstPosition ==
    ASSUME NEW n \in Nat, NEW I \in SUBSET (1..n), I # {}
    PROVE  Min(I) \in I
<1> DEFINE Less == {p \in Nat \X Nat : p[1] < p[2]}
<1>1. OpToRel(<, Nat) = Less
  BY DEF OpToRel
<1>3. IsWellFoundedOn(Less, Nat)
  BY <1>1, NatLessThanWellFounded
<1> HIDE DEF Less
<1>4. \E x \in I : \A y \in I : ~(<<y, x>> \in Less)
  <2>1. I \subseteq Nat
    OBVIOUS
  <2>. QED BY <1>3, <2>1, WFMin, Zenon
<1>2. PICK x \in I : \A y \in I : x <= y
  <2>1. PICK x \in I : \A y \in I : ~(<<y, x>> \in Less)
    BY <1>4
  <2>2. ASSUME NEW y \in I PROVE x <= y
    <3>1. y < x => <<y, x>> \in Less
      BY DEF Less
    <3>. QED BY <2>1, <3>1
  <2>. QED BY <2>2
<1>. QED BY <1>2 DEF Min

\* Removing an element from a sequence leaves a sequence.
LEMMA RemoveFirstType ==
    ASSUME NEW S, NEW s \in Seq(S), NEW e
    PROVE  RemoveFirst(s, e) \in Seq(S)
<1>1. CASE \E i \in 1..Len(s) : s[i] = e
  <2> DEFINE I == {i \in 1..Len(s) : s[i] = e}
  <2>1. I # {} /\ I \in SUBSET (1..Len(s)) /\ Len(s) \in Nat
    BY <1>1
  <2>2. SelectInSeq(s, LAMBDA v : v = e) = Min(I)
    BY <2>1 DEF SelectInSeq
  <2>3. Min(I) \in 1..Len(s)
    BY <2>1, FirstPosition
  <2>4. RemoveFirst(s, e) = RemoveAt(s, Min(I))
    BY <1>1, <2>2 DEF RemoveFirst
  <2>5. SubSeq(s, 1, Min(I) - 1) \in Seq(S) /\ SubSeq(s, Min(I) + 1, Len(s)) \in Seq(S)
    <3> HIDE DEF I
    <3>. QED BY <2>3
  <2>. QED BY <2>4, <2>5 DEF RemoveAt
<1>2. CASE ~\E i \in 1..Len(s) : s[i] = e
  BY <1>2 DEF RemoveFirst
<1>. QED BY <1>1, <1>2

-----------------------------------------------------------------------------
(* The consumer that NotionProjection opens up.                            *)

UpsertSteps == {"create", "patch", "list", "renewDelete", "delete", "renewAppend",
                "append", "check"}
ArchiveSteps == {"renewArchive", "archive", "checkArchive"}

\* The steps that have settled on a page.
PageSteps == (UpsertSteps \ {"create"}) \cup {"archive", "checkArchive"}

\* What a step knows of its event: the operation, and the page if one is recorded;
\* and that a deletion has something to delete.
Fits(w, e) ==
    /\ w.step \in UpsertSteps => e.op = "upsert"
    /\ w.step \in ArchiveSteps => e.op = "delete"
    /\ w.step = "create" => e.page = NoPage
    /\ w.step \in PageSteps => w.page \in Page /\ (e.page # NoPage => w.page = e.page)
    /\ w.step \in {"renewDelete", "delete"} => w.listed # <<>>

WorkFits == \A c \in Consumer : pc[c] = "work" => Fits(work[c], ev[c])

\* A page that is found is the recorded one, or any.
LEMMA FoundIs ==
    ASSUME NotionTypeOK, NEW e \in Event
    PROVE  /\ Found(e) \subseteq Page
           /\ e.page # NoPage => Found(e) = {e.page}
           /\ e.page = NoPage => Found(e) = Shown(e.obj)
BY DEF Found, Shown, Event

\* At work an instance has an event.
LEMMA AtWork ==
    ASSUME TypeOK, NotionTypeOK, NEW c \in Consumer, pc[c] = "work"
    PROVE  /\ ev[c] \in Event /\ ev[c].obj \in Object /\ ev[c].op \in Op
           /\ ev[c].page \in Page \cup {NoPage}
           /\ work[c] \in Work /\ work[c].step # "none"
BY DEF TypeOK, Working, NotionTypeOK, Event

\* Only an instance at work sends requests.
LEMMA RequestAtWork ==
    ASSUME NotionTypeOK, NEW c \in Consumer, NotionStep(c)
    PROVE  pc[c] = "work"
<1>1. CASE RenewInWork(c)
  BY <1>1 DEF RenewInWork, NotionTypeOK
<1>2. CASE ~RenewInWork(c)
  BY <1>2 DEF NotionStep, Resolve, CreatePage, PatchProperties, ListChildren, DeleteBlock,
     AppendBatch, ReadBack, ArchivePage, ReadBackArchive, AtStep
<1>. QED BY <1>1, <1>2

\* To leave the projection with an error is a fault, with a page its end.
LEMMA RaiseIsFault ==
    ASSUME NEW c \in Consumer, pc[c] = "work", Raise(c)
    PROVE  Fault(c)
BY DEF Raise, Leave, Fault, Working

LEMMA ReturnIsProject ==
    ASSUME NEW c \in Consumer, NEW p \in ProjectedPages(ev[c]), pc[c] = "work", Return(c, p)
    PROVE  Project(c)
BY DEF Return, Leave, Project

\* Every request is a step of the consumer, or none.
LEMMA RequestIsStep ==
    ASSUME TypeOK, NotionTypeOK, WorkFits, NEW c \in Consumer, NotionStep(c)
    PROVE  UNCHANGED vars \/ Fault(c) \/ Project(c) \/ Renew(c)
<1> DEFINE Goal == UNCHANGED vars \/ Fault(c) \/ Project(c) \/ Renew(c)
<1>1. CASE RenewInWork(c)
  BY <1>1 DEF RenewInWork
<1>2. ASSUME pc[c] = "work", Raise(c) PROVE Goal
  BY <1>2, RaiseIsFault
<1>3. ASSUME NEW w, Continue(c, w) PROVE Goal
  BY <1>3 DEF Continue
<1>4. ASSUME pc[c] = "work", NEW p, NEW page, NEW w, Request(c, p, page, w) PROVE Goal
  BY <1>2, <1>3, <1>4 DEF Request
<1>5. CASE Resolve(c)
  <2>1. pc[c] = "work"
    BY <1>5 DEF Resolve, AtStep
  <2>2. ev[c] \in Event /\ ev[c].op \in Op
    BY <2>1, AtWork
  <2>3. ASSUME Found(ev[c]) = {}, ev[c].op = "delete", Return(c, ev[c].page) PROVE Goal
    <3>1. ev[c].page = NoPage
      BY <2>2, <2>3, FoundIs
    <3>2. ev[c].page \in ProjectedPages(ev[c])
      BY <2>3, <3>1 DEF ProjectedPages
    <3>. QED BY <2>1, <2>3, <3>2, ReturnIsProject
  <2>. QED BY <1>2, <1>3, <1>5, <2>1, <2>3 DEF Resolve
<1>6. CASE CreatePage(c) \/ PatchProperties(c)
  BY <1>4, <1>6 DEF CreatePage, PatchProperties, AtStep
<1>7. CASE ListChildren(c)
  BY <1>3, <1>7 DEF ListChildren
<1>8. CASE DeleteBlock(c) \/ AppendBatch(c)
  BY <1>2, <1>4, <1>8 DEF DeleteBlock, AppendBatch, AtStep
<1>9. CASE ReadBack(c) \/ ReadBackArchive(c)
  <2>1. pc[c] = "work" /\ work[c].step \in PageSteps
    BY <1>9 DEF ReadBack, ReadBackArchive, AtStep, PageSteps, UpsertSteps
  <2>2. ev[c] \in Event /\ ev[c].op \in Op
    BY <2>1, AtWork
  <2>3. work[c].page \in ProjectedPages(ev[c])
    BY <2>1, <2>2 DEF WorkFits, Fits, ProjectedPages
  <2>4. Return(c, work[c].page) => Goal
    BY <2>1, <2>3, ReturnIsProject
  <2>. QED BY <1>2, <1>9, <2>1, <2>4 DEF ReadBack, ReadBackArchive
<1>10. CASE ArchivePage(c)
  BY <1>4, <1>10 DEF ArchivePage, AtStep
<1>. QED BY <1>1, <1>5, <1>6, <1>7, <1>8, <1>9, <1>10 DEF NotionStep

\* So every step is one of the consumer's, or none.
LEMMA NotionStepIsStep ==
    ASSUME TypeOK, NotionTypeOK, WorkFits, [NotionNext]_notionVars
    PROVE  [Next]_vars
<1>1. ASSUME NEW c \in Consumer, NotionStep(c) PROVE [Next]_vars
  BY <1>1, RequestIsStep DEF Next, Step
<1>2. ASSUME NEW c \in Consumer, OutsideStep(c) PROVE [Next]_vars
  BY <1>2 DEF OutsideStep, Next, Step
<1>3. CASE UNCHANGED notionVars
  BY <1>3 DEF notionVars, vars
<1>. QED BY <1>1, <1>2, <1>3 DEF NotionNext, Next

-----------------------------------------------------------------------------
(* Types, and what a step knows.                                           *)

NotionTyped == TypeOK /\ NotionTypeOK /\ WorkFits

\* A step of one instance leaves where the others are, their events and their work.
LEMMA OthersStay ==
    ASSUME NotionTyped, NEW c \in Consumer, NotionStep(c) \/ OutsideStep(c),
           NEW d \in Consumer, d # c
    PROVE  pc'[d] = pc[d] /\ ev'[d] = ev[d] /\ work'[d] = work[d]
<1>. TypeOK /\ NotionTypeOK /\ WorkFits
  BY DEF NotionTyped
<1>1. CASE NotionStep(c)
  <2>1. pc'[d] = pc[d] /\ ev'[d] = ev[d]
    <3>1. UNCHANGED vars \/ Fault(c) \/ Project(c) \/ Renew(c)
      BY <1>1, RequestIsStep
    <3>. QED BY <3>1 DEF vars, Fault, Project, Renew, Goto, TypeOK
  <2>2. \E w : work' = [work EXCEPT ![c] = w]
    <3>1. CASE RenewInWork(c)
      BY <3>1, Zenon DEF RenewInWork
    <3>2. CASE ~RenewInWork(c)
      BY <1>1, <3>2 DEF NotionStep, Resolve, CreatePage, PatchProperties, ListChildren,
         DeleteBlock, AppendBatch, ReadBack, ArchivePage, ReadBackArchive, Request,
         Continue, Raise, Return, Leave
    <3>. QED BY <3>1, <3>2
  <2>. QED BY <2>1, <2>2 DEF NotionTypeOK
<1>2. CASE OutsideStep(c)
  <2>1. work'[d] = work[d]
    BY <1>2 DEF OutsideStep, NotionTypeOK
  <2>2. pc'[d] = pc[d] /\ ev'[d] = ev[d]
    BY <1>2 DEF OutsideStep, Start, Acknowledge, Reap, EndDrain, Claim, Validate, Renew,
       Finalize, Supersede, RecordFailure, Fault, Crash, Exit, Goto, TypeOK
  <2>. QED BY <2>1, <2>2
<1>. QED BY <1>1, <1>2

\* What holds of the work of the instance that steps holds of all.
LEMMA WorkStays ==
    ASSUME NotionTyped, NEW c \in Consumer, NotionStep(c) \/ OutsideStep(c),
           work'[c] \in Work, pc'[c] = "work" <=> work'[c].step # "none",
           pc'[c] = "work" => Fits(work'[c], ev'[c]),
           work' = [work EXCEPT ![c] = work'[c]],
           pages' \in [Page -> PageState]
    PROVE  NotionTypeOK' /\ WorkFits'
<1>1. \A d \in Consumer \ {c} : pc'[d] = pc[d] /\ ev'[d] = ev[d] /\ work'[d] = work[d]
  BY OthersStay
<1>2. work' \in [Consumer -> Work]
  BY DEF NotionTyped, NotionTypeOK
<1>3. \A d \in Consumer : pc'[d] = "work" <=> work'[d].step # "none"
  BY <1>1 DEF NotionTyped, NotionTypeOK
<1>4. \A d \in Consumer : pc'[d] = "work" => Fits(work'[d], ev'[d])
  BY <1>1 DEF NotionTyped, WorkFits
<1>. QED BY <1>2, <1>3, <1>4 DEF NotionTypeOK, WorkFits

LEMMA NoWorkType == NoWork \in Work /\ NoWork.step = "none"
BY NotionAssumption DEF NoWork, Work, WorkStep, NotionAssumption

\* To go on, with any work that fits, ...
LEMMA ContinueTyped ==
    ASSUME NotionTyped, NEW c \in Consumer, NotionStep(c), pc[c] = "work",
           NEW w \in Work, w.step # "none", Fits(w, ev[c]), Continue(c, w),
           pages' \in [Page -> PageState]
    PROVE  NotionTypeOK' /\ WorkFits'
<1>1. work' = [work EXCEPT ![c] = w] /\ pc' = pc /\ ev' = ev
  BY DEF Continue, vars
<1>2. work'[c] = w
  BY <1>1 DEF NotionTyped, NotionTypeOK
<1>. QED BY <1>1, <1>2, WorkStays

\* ... and to leave keep the types.
LEMMA LeaveTyped ==
    ASSUME NotionTyped, NEW c \in Consumer, NotionStep(c), NEW label, label # "work",
           Leave(c, label), pages' \in [Page -> PageState]
    PROVE  NotionTypeOK' /\ WorkFits'
<1>1. work' = [work EXCEPT ![c] = NoWork] /\ pc' = [pc EXCEPT ![c] = label]
  BY DEF Leave, Goto
<1>2. work'[c] = NoWork /\ pc'[c] = label
  BY <1>1 DEF NotionTyped, NotionTypeOK, TypeOK
<1>. QED BY <1>1, <1>2, NoWorkType, WorkStays

\* So does a request for a page of the right type.
LEMMA RequestTyped ==
    ASSUME NotionTyped, NEW c \in Consumer, NotionStep(c), pc[c] = "work",
           NEW p \in Page, NEW page \in PageState,
           NEW w \in Work, w.step # "none", Fits(w, ev[c]), Request(c, p, page, w)
    PROVE  NotionTypeOK' /\ WorkFits'
<1>1. pages' \in [Page -> PageState]
  BY DEF Request, NotionTyped, NotionTypeOK
<1>2. CASE Continue(c, w)
  BY <1>1, <1>2, ContinueTyped
<1>3. CASE Raise(c)
  BY <1>1, <1>3, LeaveTyped DEF Raise
<1>. QED BY <1>2, <1>3 DEF Request

\* What an event wants is typed.
LEMMA DesiredTypes ==
    ASSUME NEW e \in Event
    PROVE  /\ EventVersion(e) \in Version
           /\ DesiredProps(e) \in Version \cup {NoVersion}
           /\ \A i \in 1..Batches : DesiredBody(e)[i] \in Block
<1>1. EventVersion(e) \in Version
  BY DEF EventVersion, Version, Event
<1>. QED BY <1>1 DEF DesiredProps, DesiredBody, Block

LEMMA NotionInitTyped == NotionInit => NotionTyped
<1>. SUFFICES ASSUME NotionInit PROVE NotionTyped
  OBVIOUS
<1>1. TypeOK
  BY TypeInit DEF NotionInit
<1>2. pages \in [Page -> PageState]
  <2>1. <<>> \in Seq(Block)
    OBVIOUS
  <2>. QED BY <2>1 DEF NotionInit, PageState
<1>3. NotionTypeOK
  BY <1>2, NoWorkType DEF NotionInit, NotionTypeOK, Init
<1>4. WorkFits
  BY DEF NotionInit, Init, WorkFits
<1>. QED BY <1>1, <1>3, <1>4 DEF NotionTyped

\* Each request keeps the types.
LEMMA RequestsTyped ==
    ASSUME NotionTyped, NEW c \in Consumer, NotionStep(c)
    PROVE  NotionTypeOK' /\ WorkFits'
<1> DEFINE w == work[c]
           e == ev[c]
           Goal == NotionTypeOK' /\ WorkFits'
<1>. TypeOK /\ NotionTypeOK /\ WorkFits
  BY DEF NotionTyped
<1>0. ASSUME pc[c] = "work"
      PROVE  /\ e \in Event /\ w \in Work /\ Fits(w, e) /\ e.obj \in Object /\ e.op \in Op
             /\ e.page \in Page \cup {NoPage} /\ w.listed \in Seq(Block)
             /\ w.batch \in 1..Batches /\ w.page \in Page \cup {NoPage}
  BY <1>0, AtWork DEF WorkFits, Work
<1>1. ASSUME Raise(c), pages' = pages PROVE Goal
  BY <1>1, LeaveTyped DEF Raise, NotionTypeOK
<1>2. ASSUME NEW p, Return(c, p), pages' = pages PROVE Goal
  BY <1>2, LeaveTyped DEF Return, NotionTypeOK
<1>3. CASE Resolve(c)
  <2>1. pc[c] = "work" /\ pages' = pages
    BY <1>3 DEF Resolve, AtStep
  <2>2. ASSUME NEW p \in Page \cup {NoPage}, NEW step \in {"create", "patch", "archive"},
               Continue(c, [w EXCEPT !.step = step, !.page = p]),
               step = "create" => Found(e) = {} /\ e.op = "upsert",
               step = "patch" => e.op = "upsert", step = "archive" => e.op = "delete",
               step # "create" => p \in Found(e)
        PROVE  Goal
    <3> DEFINE x == [w EXCEPT !.step = step, !.page = p]
    <3>1. x \in Work /\ x.step = step /\ x.page = p
      BY <1>0, <2>1, <2>2 DEF Work, WorkStep
    <3>2. Fits(x, e)
      <4>1. step = "create" => e.page = NoPage
        BY <1>0, <2>1, <2>2, FoundIs
      <4>2. step # "create" => p \in Page /\ (e.page # NoPage => p = e.page)
        BY <1>0, <2>1, <2>2, FoundIs
      <4>. QED BY <2>2, <3>1, <4>1, <4>2 DEF Fits, UpsertSteps, ArchiveSteps, PageSteps
    <3>. HIDE DEF x
    <3>3. Continue(c, x)
      BY <2>2 DEF x
    <3>4. pages' \in [Page -> PageState]
      BY <2>1 DEF NotionTypeOK
    <3>. QED BY <2>1, <2>2, <3>1, <3>2, <3>3, <3>4, ContinueTyped
  <2>3. CASE Found(e) = {} /\ e.op = "upsert"
             /\ Continue(c, [w EXCEPT !.step = "create", !.page = NoPage])
    BY <2>2, <2>3
  <2>4. ASSUME NEW p \in Found(e),
               Continue(c, [w EXCEPT !.step = IF e.op = "upsert" THEN "patch" ELSE "archive",
                                     !.page = p])
        PROVE  Goal
    <3>1. p \in Page /\ e.op \in {"upsert", "delete"}
      BY <1>0, <2>1, FoundIs DEF Op
    <3>2. CASE e.op = "upsert"
      BY <2>2, <2>4, <3>1, <3>2
    <3>3. CASE e.op = "delete"
      BY <2>2, <2>4, <3>1, <3>3
    <3>. QED BY <3>1, <3>2, <3>3
  <2>. QED BY <1>1, <1>2, <1>3, <2>1, <2>3, <2>4 DEF Resolve
<1>4. CASE CreatePage(c)
  <2>1. pc[c] = "work" /\ w.step = "create"
    BY <1>4 DEF CreatePage, AtStep
  <2>2. PICK p \in Page :
          Request(c, p, [obj |-> e.obj, archived |-> FALSE, props |-> DesiredProps(e),
                         body |-> <<>>], [w EXCEPT !.step = "patch", !.page = p])
    BY <1>4 DEF CreatePage
  <2> DEFINE page == [obj |-> e.obj, archived |-> FALSE, props |-> DesiredProps(e),
                      body |-> <<>>]
             x == [w EXCEPT !.step = "patch", !.page = p]
  <2>3. page \in PageState
    BY <1>0, <2>1, DesiredTypes DEF PageState
  <2>4. x \in Work /\ x.step = "patch" /\ x.page = p
    BY <1>0, <2>1 DEF Work, WorkStep
  <2>5. Fits(x, e)
    BY <1>0, <2>1, <2>4 DEF Fits, UpsertSteps, ArchiveSteps, PageSteps
  <2>. HIDE DEF x, page
  <2>6. Request(c, p, page, x)
    BY <2>2 DEF x, page
  <2>. QED BY <2>1, <2>3, <2>4, <2>5, <2>6, RequestTyped
<1>5. CASE PatchProperties(c)
  <2>1. pc[c] = "work" /\ w.step = "patch" /\ w.page \in Page
    BY <1>0, <1>5 DEF PatchProperties, AtStep, Fits, PageSteps, UpsertSteps
  <2> DEFINE page == [pages[w.page] EXCEPT !.archived = FALSE, !.props = DesiredProps(e)]
             x == [w EXCEPT !.step = "list"]
  <2>2. Request(c, w.page, page, x)
    BY <1>5 DEF PatchProperties
  <2>3. page \in PageState
    BY <1>0, <2>1, DesiredTypes DEF PageState, NotionTypeOK
  <2>4. x \in Work /\ x.step = "list" /\ x.page = w.page
    BY <1>0, <2>1 DEF Work, WorkStep
  <2>5. Fits(x, e)
    BY <1>0, <2>1, <2>4 DEF Fits, UpsertSteps, ArchiveSteps, PageSteps
  <2>. HIDE DEF x, page
  <2>. QED BY <2>1, <2>2, <2>3, <2>4, <2>5, RequestTyped
<1>6. CASE ListChildren(c)
  <2>1. /\ pc[c] = "work" /\ w.step = "list" /\ w.page \in Page /\ pages' = pages
    BY <1>0, <1>6 DEF ListChildren, AtStep, Fits, PageSteps, UpsertSteps
  <2> DEFINE body == pages[w.page].body
             x == [w EXCEPT !.listed = body,
                            !.step = IF body = <<>> THEN "renewAppend" ELSE "renewDelete"]
  <2>2. Continue(c, x)
    BY <1>6 DEF ListChildren
  <2>3. body \in Seq(Block)
    BY <2>1 DEF PageState, NotionTypeOK
  <2>4. /\ x \in Work /\ x.step \in {"renewAppend", "renewDelete"} /\ x.page = w.page
        /\ x.step = "renewDelete" => x.listed # <<>>
    <3>. HIDE DEF body
    <3>. QED BY <1>0, <2>1, <2>3 DEF Work, WorkStep
  <2>5. Fits(x, e)
    BY <1>0, <2>1, <2>4 DEF Fits, UpsertSteps, ArchiveSteps, PageSteps
  <2>6. pages' \in [Page -> PageState]
    BY <2>1 DEF NotionTypeOK
  <2>. HIDE DEF x
  <2>. QED BY <2>1, <2>2, <2>4, <2>5, <2>6, ContinueTyped
<1>7. CASE DeleteBlock(c)
  <2>1. pc[c] = "work" /\ w.step = "delete" /\ w.page \in Page
    BY <1>0, <1>7 DEF DeleteBlock, AtStep, Fits, PageSteps, UpsertSteps
  <2> DEFINE block == Head(w.listed)
             rest == Tail(w.listed)
             page == [pages[w.page] EXCEPT !.body = RemoveFirst(@, block)]
             x == [w EXCEPT !.listed = rest,
                            !.step = IF rest = <<>> THEN "renewAppend" ELSE "delete"]
  <2>2. CASE Request(c, w.page, page, x) /\ Contains(pages[w.page].body, block)
    <3>1. page \in PageState
      <4>1. pages[w.page].body \in Seq(Block)
        BY <2>1 DEF PageState, NotionTypeOK
      <4>2. RemoveFirst(pages[w.page].body, block) \in Seq(Block)
        BY <4>1, RemoveFirstType
      <4>. QED BY <2>1, <4>2 DEF PageState, NotionTypeOK
    <3>2. rest \in Seq(Block)
      <4>1. w.listed # <<>> /\ w.listed \in Seq(Block)
        BY <1>0, <2>1 DEF Fits
      <4>. QED BY <4>1
    <3>3. /\ x \in Work /\ x.step \in {"renewAppend", "delete"} /\ x.page = w.page
          /\ x.step = "delete" => x.listed # <<>>
      <4>. HIDE DEF rest
      <4>. QED BY <1>0, <2>1, <3>2 DEF Work, WorkStep
    <3>4. Fits(x, e)
      BY <1>0, <2>1, <3>3 DEF Fits, UpsertSteps, ArchiveSteps, PageSteps
    <3>. HIDE DEF x, page
    <3>. QED BY <2>1, <2>2, <3>1, <3>3, <3>4, RequestTyped
  <2>. QED BY <1>1, <1>7, <2>2 DEF DeleteBlock
<1>8. CASE AppendBatch(c)
  <2>1. pc[c] = "work" /\ w.step = "append" /\ w.page \in Page
    BY <1>0, <1>8 DEF AppendBatch, AtStep, Fits, PageSteps, UpsertSteps
  <2> DEFINE page == [pages[w.page] EXCEPT !.body = Append(@, DesiredBody(e)[w.batch])]
             x == IF w.batch < Batches
                  THEN [w EXCEPT !.step = "renewAppend", !.batch = @ + 1]
                  ELSE [w EXCEPT !.step = "check"]
  <2>2. CASE Request(c, w.page, page, x)
    <3>1. page \in PageState
      <4>1. pages[w.page].body \in Seq(Block) /\ pages[w.page] \in PageState
        BY <2>1 DEF PageState, NotionTypeOK
      <4>2. DesiredBody(e)[w.batch] \in Block
        BY <1>0, <2>1, DesiredTypes
      <4> DEFINE block == DesiredBody(e)[w.batch]
      <4>. HIDE DEF block
      <4>3. Append(pages[w.page].body, block) \in Seq(Block)
        BY <4>1, <4>2 DEF block
      <4>4. page = [pages[w.page] EXCEPT !.body = Append(pages[w.page].body, block)]
        BY DEF block
      <4>. QED BY <4>1, <4>3, <4>4 DEF PageState
    <3>2. x \in Work /\ x.step \in {"renewAppend", "check"} /\ x.page = w.page
      <4>1. CASE w.batch < Batches
        <5>1. w.batch + 1 \in 1..Batches
          BY <1>0, <2>1, <4>1, NotionAssumption DEF NotionAssumption
        <5>. QED BY <1>0, <2>1, <4>1, <5>1 DEF Work, WorkStep
      <4>2. CASE ~(w.batch < Batches)
        BY <1>0, <2>1, <4>2 DEF Work, WorkStep
      <4>. QED BY <4>1, <4>2
    <3>3. Fits(x, e)
      <4>. HIDE DEF x
      <4>. QED BY <1>0, <2>1, <3>2 DEF Fits, UpsertSteps, ArchiveSteps, PageSteps
    <3>. HIDE DEF x, page
    <3>. QED BY <2>1, <2>2, <3>1, <3>2, <3>3, RequestTyped
  <2>. QED BY <1>1, <1>8, <2>2 DEF AppendBatch
<1>9. CASE ReadBack(c) \/ ReadBackArchive(c)
  BY <1>1, <1>2, <1>9 DEF ReadBack, ReadBackArchive
<1>10. CASE ArchivePage(c)
  <2>1. pc[c] = "work" /\ w.step = "archive" /\ w.page \in Page
    BY <1>0, <1>10 DEF ArchivePage, AtStep, Fits, PageSteps, UpsertSteps
  <2> DEFINE page == [pages[w.page] EXCEPT !.archived = TRUE]
             x == [w EXCEPT !.step = "checkArchive"]
  <2>2. Request(c, w.page, page, x)
    BY <1>10 DEF ArchivePage
  <2>3. page \in PageState
    BY <2>1 DEF PageState, NotionTypeOK
  <2>4. x \in Work /\ x.step = "checkArchive" /\ x.page = w.page
    BY <1>0, <2>1 DEF Work, WorkStep
  <2>5. Fits(x, e)
    BY <1>0, <2>1, <2>4 DEF Fits, UpsertSteps, ArchiveSteps, PageSteps
  <2>. HIDE DEF x, page
  <2>. QED BY <2>1, <2>2, <2>3, <2>4, <2>5, RequestTyped
<1>11. CASE RenewInWork(c)
  <2>1. /\ w.step \in {"renewDelete", "renewAppend", "renewArchive"} /\ pc[c] = "work"
        /\ pages' = pages /\ ev' = ev
    BY <1>11 DEF RenewInWork, Renew, NotionTypeOK
  <2>2. pages' \in [Page -> PageState]
    BY <2>1 DEF NotionTypeOK
  <2>3. CASE RenewOK(c, e)
    <3> DEFINE x == [w EXCEPT !.step = AfterWorkRenewal(@)]
    <3>0. work' = [work EXCEPT ![c] = x]
      BY <1>11, <2>3 DEF RenewInWork
    <3>1. pc'[c] = "work"
      BY <1>11, <2>1, <2>3 DEF RenewInWork, Renew, Goto, AfterRenewal, TypeOK
    <3>2. /\ x \in Work /\ x.step = AfterWorkRenewal(w.step) /\ x.page = w.page
          /\ x.step \in {"delete", "append", "resolve"} /\ x.listed = w.listed
      BY <1>0, <2>1 DEF Work, WorkStep, AfterWorkRenewal
    <3>3. Fits(x, e)
      BY <1>0, <2>1, <3>2 DEF Fits, UpsertSteps, ArchiveSteps, PageSteps, AfterWorkRenewal
    <3>. HIDE DEF x
    <3>4. work'[c] = x
      BY <3>0 DEF NotionTypeOK
    <3>. QED BY <2>1, <2>2, <3>0, <3>1, <3>2, <3>3, <3>4, WorkStays
  <2>4. CASE ~RenewOK(c, e)
    <3>1. work' = [work EXCEPT ![c] = NoWork] /\ pc'[c] = "error"
      BY <1>11, <2>1, <2>4 DEF RenewInWork, Renew, Goto, TypeOK
    <3>2. work'[c] = NoWork
      BY <3>1 DEF NotionTypeOK
    <3>. QED BY <2>2, <3>1, <3>2, NoWorkType, WorkStays
  <2>. QED BY <2>3, <2>4
<1>. QED BY <1>3, <1>4, <1>5, <1>6, <1>7, <1>8, <1>9, <1>10, <1>11 DEF NotionStep

\* Work begins with what fits its event.
LEMMA StartWorkFits ==
    ASSUME NEW e \in Event
    PROVE  StartWork(e) \in Work /\ StartWork(e).step # "none" /\ Fits(StartWork(e), e)
<1>1. e.op \in Op
  BY DEF Event
<1>2. /\ StartWork(e) \in Work
      /\ StartWork(e).step = IF e.op = "delete" THEN "renewArchive" ELSE "resolve"
  BY NoWorkType DEF StartWork, Work, WorkStep
<1>. QED BY <1>1, <1>2 DEF Fits, UpsertSteps, ArchiveSteps, PageSteps, Op

\* The types, and what a step knows of its event, are kept.
LEMMA NotionTypedStep ==
    ASSUME NotionTyped, [NotionNext]_notionVars
    PROVE  NotionTyped'
<1>. TypeOK /\ NotionTypeOK /\ WorkFits
  BY DEF NotionTyped
<1>1. [Next]_vars
  BY NotionStepIsStep
<1>2. TypeOK'
  BY <1>1, TablesStep, ProcessType DEF TypeOK
<1>3. ASSUME NEW c \in Consumer, NotionStep(c) PROVE NotionTypeOK' /\ WorkFits'
  BY <1>3, RequestsTyped
<1>4. ASSUME NEW c \in Consumer, OutsideStep(c) PROVE NotionTypeOK' /\ WorkFits'
  <2>1. work' = [work EXCEPT ![c] = IF pc'[c] = "work" THEN StartWork(ev[c]) ELSE NoWork]
        /\ pages' = pages
    BY <1>4 DEF OutsideStep
  <2>2. pages' \in [Page -> PageState]
    BY <2>1 DEF NotionTypeOK
  <2>3. CASE pc'[c] = "work"
    <3>1. ev'[c] = ev[c]
      BY <1>4, <2>3 DEF OutsideStep, Start, Acknowledge, Reap, EndDrain, Claim, Validate,
         Renew, Finalize, Supersede, RecordFailure, Fault, Crash, Exit, Goto, TypeOK
    <3>2. ev[c] \in Event
      BY <1>2, <2>3, <3>1 DEF TypeOK, Working
    <3>3. work'[c] = StartWork(ev[c]) /\ work' = [work EXCEPT ![c] = StartWork(ev[c])]
      BY <2>1, <2>3 DEF NotionTypeOK
    <3>. QED BY <1>4, <2>2, <2>3, <3>1, <3>2, <3>3, StartWorkFits, WorkStays
  <2>4. CASE pc'[c] # "work"
    <3>1. work'[c] = NoWork /\ work' = [work EXCEPT ![c] = NoWork]
      BY <2>1, <2>4 DEF NotionTypeOK
    <3>. QED BY <1>4, <2>2, <2>4, <3>1, NoWorkType, WorkStays
  <2>. QED BY <2>3, <2>4
<1>5. ASSUME pages' = pages, work' = work, pc' = pc, ev' = ev
      PROVE  NotionTypeOK' /\ WorkFits'
  BY <1>5 DEF NotionTypeOK, WorkFits
<1>6. ASSUME NEW c \in Consumer, Expire(c), UNCHANGED <<pages, work>>
      PROVE  NotionTypeOK' /\ WorkFits'
  BY <1>5, <1>6 DEF Expire
<1>7. ASSUME ClientWrite, UNCHANGED <<pages, work>>
      PROVE  NotionTypeOK' /\ WorkFits'
  BY <1>5, <1>7 DEF ClientWrite
<1>8. ASSUME UNCHANGED notionVars PROVE NotionTypeOK' /\ WorkFits'
  BY <1>5, <1>8 DEF notionVars, vars
<1>. QED BY <1>2, <1>3, <1>4, <1>6, <1>7, <1>8 DEF NotionNext, NotionTyped

\* Whatever stalls, the pages and the work of the consumers are typed.
THEOREM NotionIsTyped == NotionSpec => []NotionTypeOK
<1>1. NotionTyped => NotionTypeOK
  BY DEF NotionTyped
<1>. QED BY <1>1, NotionInitTyped, NotionTypedStep, PTL DEF NotionSpec

\* The requests implement the consumer's state "work".
THEOREM RequestsImplementWork == NotionSpec => ImplementsConsumer
<1>1. NotionTyped /\ [NotionNext]_notionVars => [Next]_vars
  BY NotionStepIsStep DEF NotionTyped
<1>2. NotionInit => Init
  BY DEF NotionInit
<1>. QED BY <1>1, <1>2, NotionInitTyped, NotionTypedStep, PTL
        DEF NotionSpec, ImplementsConsumer, Spec

-----------------------------------------------------------------------------
(* What Notion shows, provided no running consumer outlives its lease:     *)
(* the requests carry no lease, so a consumer that does may still write to *)
(* a page another one already works on.                                    *)
(*                                                                         *)
(* Neither property is inductive.  The page a consumer has settled on must *)
(* be the only one shown for its object (WorkHolds), and the recorded one  *)
(* if there is one (EventFits, PagesFit); what was read back must still be *)
(* there when it is finalized (Outcome); and all this survives the steps   *)
(* of the others because two consumers at work have different objects.     *)

AtMostOne(S) == \A x, y \in S : x = y

\* Notion shows exactly what an event wants.
Exact(e) ==
    IF e.op = "delete" THEN Shown(e.obj) = {}
    ELSE /\ Shown(e.obj) = {e.page}
         /\ pages[e.page].props = DesiredProps(e)
         /\ pages[e.page].body = DesiredBody(e)

\* The recorded page of an object is its only one.
PagesFit(o) ==
    /\ AtMostOne(Shown(o))
    /\ sync[o].page # NoPage =>
          pages[sync[o].page].obj = o /\ Shown(o) \subseteq {sync[o].page}

\* Before the projection an event carries the recorded page.
EventFits(c) ==
    pc[c] \in {"validate", "renew", "work"} => ev[c].page = sync[ev[c].obj].page

WorkHolds(c) ==
    pc[c] = "work" =>
        /\ work[c].step = "create" => Shown(ev[c].obj) = {}
        /\ work[c].step \in PageSteps =>
              /\ pages[work[c].page].obj = ev[c].obj
              /\ Shown(ev[c].obj) \subseteq {work[c].page}

Outcome(c) ==
    pc[c] \in {"last", "finalize"} =>
        /\ Exact(ev[c])
        /\ ev[c].page # NoPage => pages[ev[c].page].obj = ev[c].obj
        /\ sync[ev[c].obj].page # NoPage => ev[c].page = sync[ev[c].obj].page

Running == \A c \in Consumer : pc[c] # "off" => c \notin expired

PageInv ==
    /\ NotionTyped
    /\ Running
    /\ LiveLeaseHoldsRows
    /\ SyncedPageIsExact
    /\ \A o \in Object : PagesFit(o)
    /\ \A c \in Consumer : EventFits(c) /\ WorkHolds(c) /\ Outcome(c)

LEMMA PageInit == NotionInit => PageInv
<1>. SUFFICES ASSUME NotionInit PROVE PageInv
  OBVIOUS
<1>1. NotionTyped
  BY NotionInitTyped
<1>2. Init
  BY DEF NotionInit
<1>3. Running /\ LiveLeaseHoldsRows /\ SyncedPageIsExact
  BY <1>2 DEF Init, TablesInit, Running, LiveLeaseHoldsRows, Working, SyncedPageIsExact
<1>4. \A c \in Consumer : EventFits(c) /\ WorkHolds(c) /\ Outcome(c)
  BY <1>2 DEF Init, EventFits, WorkHolds, Outcome
<1>5. \A o \in Object : PagesFit(o)
  BY <1>2, NotionAssumption
     DEF NotionInit, Init, TablesInit, PagesFit, AtMostOne, Shown, NotionAssumption
<1>. QED BY <1>1, <1>3, <1>4, <1>5 DEF PageInv

\* SyncedPageIsExact in terms of the event a synced row stands for.
LEMMA SyncedIsExact ==
    SyncedPageIsExact <=>
        \A o \in Object : sync[o].status = "synced" => Exact(ClaimedEvent(o))
<1>1. ASSUME NEW o
      PROVE  /\ ClaimedEvent(o).obj = o /\ ClaimedEvent(o).op = sync[o].op
             /\ ClaimedEvent(o).page = sync[o].page
  BY DEF ClaimedEvent
<1>. QED BY <1>1 DEF SyncedPageIsExact, Exact

\* A consumer that cannot stall is never past its lease.
LEMMA RunningStep ==
    ASSUME Stalls = FALSE, TypeOK, Running, [Next]_vars
    PROVE  Running'
<1>. SUFFICES ASSUME NEW d \in Consumer, pc'[d] # "off" PROVE d \notin expired'
  BY DEF Running
<1>. TablesTypeOK
  BY DEF TypeOK
<1>1. ASSUME NEW c \in Consumer, Start(c) PROVE d \notin expired'
  BY <1>1 DEF Start, Goto, Running, TypeOK
<1>2. ASSUME pc[d] # "off", expired' \subseteq expired PROVE d \notin expired'
  BY <1>2 DEF Running
<1>3. ASSUME NEW c \in Consumer, Expire(c) PROVE d \notin expired'
  BY <1>3 DEF Expire, LeaseRunsOut, Running
<1>4. ASSUME NEW c \in Consumer, Step(c) \/ Fault(c) \/ Crash(c) PROVE d \notin expired'
  <2>1. pc[d] # "off"
    BY <1>4 DEF Step, Acknowledge, Reap, EndDrain, Claim, Validate, Renew, Project, Finalize,
       Supersede, RecordFailure, Fault, Crash, Exit, Goto, Working, TypeOK
  <2>2. expired' \subseteq expired
    BY <1>4, AckSupersededEffect, ReapExhaustedEffect
       DEF Step, Acknowledge, Reap, EndDrain, Claim, ClaimNext, Validate, Renew, RenewLease,
       Project, Finalize, FinalizeSuccess, Supersede, FinalizeSuperseded, RecordFailure,
       FinalizeError, Fault, Crash, tables
  <2>. QED BY <1>2, <2>1, <2>2
<1>5. CASE ClientWrite
  BY <1>5, <1>2 DEF ClientWrite, InsertObject, UpdateObject, DeleteObject
<1>6. CASE UNCHANGED vars
  BY <1>6, <1>2 DEF vars
<1>. QED BY <1>1, <1>3, <1>4, <1>5, <1>6 DEF Next

\* Consumers at work hold the sync row of their object, so each has its own.
LEMMA WorkersApart ==
    ASSUME PageInv, NEW c \in Consumer, pc[c] \in Working
    PROVE  /\ HoldsSync(c, ev[c]) /\ ev[c] \in Event /\ ev[c].obj \in Object
           /\ \A d \in Consumer \ {c} : pc[d] \in Working => ev[d].obj # ev[c].obj
<1>1. \A d \in Consumer : pc[d] \in Working => HoldsSync(d, ev[d])
  BY DEF PageInv, Running, LiveLeaseHoldsRows, Working
<1>2. ev[c] \in Event
  BY DEF PageInv, NotionTyped, TypeOK
<1>. QED BY <1>1, <1>2 DEF HoldsSync, Event

\* The recorded page of an object changes, and the object counts as synced,
\* only by a finalize.
FinalizedBy(c, o) ==
    /\ Finalize(c) /\ ev[c] \in Event /\ ev[c].obj = o
    /\ RenewOK(c, ev[c]) /\ SyncIsAt(ev[c])
    /\ sync'[o] = ProjectedSync(ev[c])

LEMMA RecordedPageSteps ==
    ASSUME TypeOK, [Next]_vars, NEW o \in Object
    PROVE  \/ /\ sync'[o].page = sync[o].page
              /\ sync'[o].status = "synced" => sync'[o] = sync[o]
           \/ \E c \in Consumer : FinalizedBy(c, o)
<1>. TablesTypeOK
  BY DEF TypeOK
<1>1. CASE ClientWrite
  <2>1. PICK p \in Object, op \in Op, v \in Version : Enqueue(p, op, v)
    BY <1>1, ClientWriteCases
  <2>. QED BY <2>1, EnqueueEffect
<1>2. CASE ~ClientWrite
  <2>1. SyncRowStep(o)
    BY <1>2, SyncRowSteps
  <2>2. CASE sync'[o] \in {ReleasedSync(o), FailedSync(o)}
    BY <2>2, ReleasedSyncRow, FailedSyncRow
  <2>3. ASSUME NEW c \in Consumer, sync'[o] = ClaimedSync(c, o)
        PROVE  sync'[o].page = sync[o].page /\ sync'[o].status # "synced"
    BY <2>3, ClaimedSyncRow
  <2>. QED BY <2>1, <2>2, <2>3 DEF SyncRowStep, FinalizedBy
<1>. QED BY <1>1, <1>2

\* The finalized page is the one that was read back.
LEMMA FinalizedRow ==
    ASSUME PageInv, NEW c \in Consumer, NEW o \in Object, FinalizedBy(c, o)
    PROVE  /\ Outcome(c) /\ pc[c] = "finalize"
           /\ ClaimedEvent(o)'.obj = o /\ ClaimedEvent(o)'.op = ev[c].op
           /\ EventVersion(ClaimedEvent(o)') = EventVersion(ev[c])
           /\ sync'[o].page = IF ev[c].page = NoPage THEN sync[o].page ELSE ev[c].page
<1>. DEFINE e == ev[c]
<1>1. pc[c] = "finalize" /\ e \in Event /\ e.obj = o /\ SyncIsAt(e)
      /\ sync'[o] = ProjectedSync(e)
  BY DEF FinalizedBy, Finalize
<1>2. sync[o] \in SyncRow /\ TablesTypeOK
  BY DEF PageInv, NotionTyped, TypeOK, TablesTypeOK
<1>3. /\ sync'[o].op = sync[o].op /\ sync'[o].rev = sync[o].rev
      /\ sync'[o].hash = sync[o].hash
  BY <1>1, <1>2, ProjectedSyncRow
<1>4. sync'[o].page = IF e.page = NoPage THEN sync[o].page ELSE e.page
  BY <1>1, <1>2 DEF ProjectedSync, SyncRow
<1>. QED BY <1>1, <1>3, <1>4 DEF PageInv, ClaimedEvent, EventVersion, SyncIsAt

-----------------------------------------------------------------------------
(* What does not concern an object or a consumer leaves it as it is.       *)

PagesKept(o) ==
    /\ Shown(o)' = Shown(o)
    /\ \A q \in Page : pages[q].obj = o => pages'[q] = pages[q]

LEMMA SamePagesKept ==
    ASSUME pages' = pages
    PROVE  /\ \A o : PagesKept(o)
           /\ \A e : Exact(e) => Exact(e)'
BY DEF PagesKept, Shown, Exact

LEMMA ExactKept ==
    ASSUME NEW e, PagesKept(e.obj), Exact(e)
    PROVE  IF e.op = "delete" THEN Shown(e.obj)' = {}
           ELSE /\ Shown(e.obj)' = {e.page}
                /\ pages'[e.page].props = DesiredProps(e)
                /\ pages'[e.page].body = DesiredBody(e)
<1>1. e.op # "delete" => e.page \in Page /\ pages[e.page].obj = e.obj
  BY DEF Exact, Shown
<1>. QED BY <1>1 DEF Exact, PagesKept

LEMMA FitKept ==
    ASSUME TypeOK, NEW o \in Object, PagesFit(o), PagesKept(o), sync'[o].page = sync[o].page
    PROVE  PagesFit(o)'
<1>1. sync[o].page \in Page \cup {NoPage}
  BY DEF TypeOK, TablesTypeOK, SyncRow
<1>. QED BY <1>1 DEF PagesFit, AtMostOne, PagesKept

\* A consumer that stays where it is, while the pages of its object do.
LEMMA ConsumerKept ==
    ASSUME NotionTyped, NEW d \in Consumer, EventFits(d), WorkHolds(d), Outcome(d),
           pc'[d] = pc[d], ev'[d] = ev[d], work'[d] = work[d],
           pc[d] \in Working => /\ PagesKept(ev[d].obj)
                                /\ sync'[ev[d].obj].page = sync[ev[d].obj].page
    PROVE  EventFits(d)' /\ WorkHolds(d)' /\ Outcome(d)'
<1> DEFINE e == ev[d]
           o == ev[d].obj
<1>1. EventFits(d)'
  BY DEF EventFits, Working
<1>2. WorkHolds(d)'
  <2>. SUFFICES ASSUME pc[d] = "work"
                PROVE  /\ work[d].step = "create" => Shown(o)' = {}
                       /\ work[d].step \in PageSteps =>
                             pages'[work[d].page].obj = o /\ Shown(o)' \subseteq {work[d].page}
    BY DEF WorkHolds, Shown
  <2>1. PagesKept(o)
    BY DEF Working
  <2>2. work[d].step \in PageSteps => work[d].page \in Page
    BY DEF NotionTyped, WorkFits, Fits
  <2>. QED BY <2>1, <2>2 DEF WorkHolds, PagesKept
<1>3. Outcome(d)'
  <2>. SUFFICES ASSUME pc[d] \in {"last", "finalize"}
                PROVE  /\ Exact(ev[d])'
                       /\ e.page # NoPage => pages'[e.page].obj = o
                       /\ sync'[o].page # NoPage => e.page = sync'[o].page
    BY DEF Outcome
  <2>1. PagesKept(o) /\ sync'[o].page = sync[o].page
    BY DEF Working
  <2>2. Exact(ev[d])'
    <3>1. Exact(e)
      BY DEF Outcome
    <3>. HIDE DEF e
    <3>2. IF e.op = "delete" THEN Shown(e.obj)' = {}
          ELSE /\ Shown(e.obj)' = {e.page}
               /\ pages'[e.page].props = DesiredProps(e)
               /\ pages'[e.page].body = DesiredBody(e)
      BY <2>1, <3>1, ExactKept DEF e
    <3>. QED BY <3>2 DEF Exact, e, Shown
  <2>3. e.page \in Page \cup {NoPage}
    BY DEF NotionTyped, TypeOK, Working, Event
  <2>. QED BY <2>1, <2>2, <2>3 DEF Outcome, PagesKept
<1>. QED BY <1>1, <1>2, <1>3

-----------------------------------------------------------------------------
(* The requests.                                                           *)

\* A change of one page, which is or becomes the object's only one, touches
\* no other object and leaves the recorded page where it is.
OnePageChanges(c, p) ==
    /\ p \in Page
    /\ \E x \in PageState : pages' = [pages EXCEPT ![p] = x] /\ x.obj = ev[c].obj
    /\ pages[p].obj \in {ev[c].obj, NoObject}
    /\ Shown(ev[c].obj) \subseteq {p}
    /\ ev[c].page # NoPage => p = ev[c].page

LEMMA ChangeKeeps ==
    ASSUME PageInv, NEW c \in Consumer, pc[c] = "work", NEW own \in Object, own = ev[c].obj,
           NEW p, OnePageChanges(c, p), sync' = sync
    PROVE  /\ \A o \in Object \ {own} : PagesKept(o)
           /\ pages'[p].obj = own /\ Shown(own)' \subseteq {p}
           /\ PagesFit(own)'
<1>1. PICK x \in PageState : pages' = [pages EXCEPT ![p] = x] /\ x.obj = own
  BY DEF OnePageChanges
<1>2. pages \in [Page -> PageState] /\ p \in Page
  BY DEF PageInv, NotionTyped, NotionTypeOK, OnePageChanges
<1>3. pages'[p] = x /\ \A q \in Page \ {p} : pages'[q] = pages[q]
  BY <1>1, <1>2
<1>4. ASSUME NEW o \in Object \ {own} PROVE PagesKept(o)
  <2>1. pages[p].obj # o /\ pages'[p].obj # o
    BY <1>1, <1>3, <1>4, NotionAssumption DEF OnePageChanges, NotionAssumption
  <2>. QED BY <1>3, <2>1 DEF PagesKept, Shown
<1>5. pages'[p].obj = own /\ Shown(own)' \subseteq {p}
  BY <1>1, <1>3 DEF OnePageChanges, Shown
<1>6. sync[own].page # NoPage => p = sync[own].page
  BY DEF OnePageChanges, PageInv, EventFits
<1>7. PagesFit(own)'
  BY <1>5, <1>6 DEF PagesFit, AtMostOne
<1>. QED BY <1>4, <1>5, <1>7

\* What a request, and the step after it, must see to.
OwnHolds(c) == EventFits(c)' /\ WorkHolds(c)' /\ Outcome(c)'

LEMMA ContinueHolds ==
    ASSUME PageInv, NEW c \in Consumer, pc[c] = "work", NEW own \in Object, own = ev[c].obj,
           NEW w, Continue(c, w),
           w.step = "create" => Shown(own)' = {},
           w.step \in PageSteps => pages'[w.page].obj = own /\ Shown(own)' \subseteq {w.page}
    PROVE  OwnHolds(c)
<1>1. pc' = pc /\ ev' = ev /\ sync' = sync /\ work'[c] = w
  BY DEF Continue, vars, PageInv, NotionTyped, NotionTypeOK
<1>2. EventFits(c)'
  BY <1>1 DEF EventFits, PageInv
<1>3. WorkHolds(c)'
  BY <1>1 DEF WorkHolds, Shown
<1>4. Outcome(c)'
  BY <1>1 DEF Outcome
<1>. QED BY <1>2, <1>3, <1>4 DEF OwnHolds

LEMMA RaiseHolds ==
    ASSUME PageInv, NEW c \in Consumer, Raise(c)
    PROVE  OwnHolds(c)
<1>1. pc'[c] = "error"
  BY DEF Raise, Leave, Goto, PageInv, NotionTyped, TypeOK
<1>. QED BY <1>1 DEF OwnHolds, EventFits, WorkHolds, Outcome

LEMMA ReturnHolds ==
    ASSUME PageInv, NEW c \in Consumer, pc[c] = "work",
           NEW p \in Page \cup {NoPage}, Return(c, p), pages' = pages,
           IF ev[c].op = "delete" THEN Shown(ev[c].obj) = {}
           ELSE /\ Shown(ev[c].obj) = {p}
                /\ pages[p].props = DesiredProps(ev[c])
                /\ pages[p].body = DesiredBody(ev[c]),
           p # NoPage => pages[p].obj = ev[c].obj,
           ev[c].page # NoPage => p = ev[c].page
    PROVE  OwnHolds(c)
<1> DEFINE e == ev[c]
<1>1. pc'[c] = "last" /\ ev'[c] = [e EXCEPT !.page = p] /\ sync' = sync
  BY DEF Return, Leave, Goto, PageInv, NotionTyped, TypeOK, tables
<1>2. /\ ev'[c].obj = e.obj /\ ev'[c].op = e.op /\ ev'[c].rev = e.rev
      /\ ev'[c].hash = e.hash /\ ev'[c].page = p
  <2>1. e \in Event
    BY WorkersApart DEF Working
  <2>. QED BY <1>1, <2>1 DEF Event
<1>3. EventVersion(ev'[c]) = EventVersion(e)
  BY <1>2 DEF EventVersion
<1>4. DesiredProps(ev'[c]) = DesiredProps(e) /\ DesiredBody(ev'[c]) = DesiredBody(e)
  BY <1>2, <1>3 DEF DesiredProps, DesiredBody
<1>5. Shown(ev'[c].obj) = Shown(e.obj)
  BY <1>2
<1>6. Exact(ev'[c])
  BY <1>2, <1>4, <1>5 DEF Exact
<1>7. Exact(ev[c])'
  BY <1>6 DEF Exact, Shown
<1>8. sync[e.obj].page = e.page
  BY DEF PageInv, EventFits
<1>9. Outcome(c)'
  BY <1>1, <1>2, <1>7, <1>8 DEF Outcome
<1>. QED BY <1>1, <1>9 DEF OwnHolds, EventFits, WorkHolds

\* A request for the object's only page, with the page still fitting after it.
LEMMA RequestHolds ==
    ASSUME PageInv, NEW c \in Consumer, pc[c] = "work", NEW own \in Object, own = ev[c].obj,
           NEW p, NEW x \in PageState, NEW w, Request(c, p, x, w),
           OnePageChanges(c, p), w.step # "create", w.step \in PageSteps => w.page = p
    PROVE  /\ OwnHolds(c) /\ sync' = sync
           /\ \A o \in Object \ {own} : PagesKept(o)
           /\ PagesFit(own)'
<1>1. sync' = sync
  BY DEF Request, Continue, Raise, Leave, vars, tables
<1>2. /\ \A o \in Object \ {own} : PagesKept(o)
      /\ pages'[p].obj = own /\ Shown(own)' \subseteq {p}
      /\ PagesFit(own)'
  <2>1. \A o \in Object \ {own} : PagesKept(o)
    BY <1>1, ChangeKeeps
  <2>2. pages'[p].obj = own 
    BY <1>1, ChangeKeeps
  <2>3. Shown(own)' \subseteq {p}
    BY <1>1, ChangeKeeps
  <2>4. PagesFit(own)'
    BY <1>1, ChangeKeeps
  <2>. QED BY <2>1, <2>2, <2>3, <2>4
<1>3. Continue(c, w) => OwnHolds(c)
  BY <1>2, ContinueHolds
<1>4. Raise(c) => OwnHolds(c)
  BY RaiseHolds
<1>. QED BY <1>1, <1>2, <1>3, <1>4 DEF Request

\* Each request keeps what holds of the object it is for.
LEMMA RequestsHold ==
    ASSUME PageInv, NEW c \in Consumer, NotionStep(c), NEW own \in Object, own = ev[c].obj
    PROVE  /\ OwnHolds(c) /\ sync' = sync
           /\ \A o \in Object \ {own} : PagesKept(o)
           /\ PagesFit(own)'
<1> DEFINE w == work[c]
           e == ev[c]
           Goal == /\ OwnHolds(c) /\ sync' = sync
                   /\ \A o \in Object \ {own} : PagesKept(o)
                   /\ PagesFit(own)'
<1>. TypeOK /\ NotionTypeOK /\ WorkFits
  BY DEF PageInv, NotionTyped
<1>1. pc[c] = "work"
  BY RequestAtWork
<1>2. /\ e \in Event /\ w \in Work /\ Fits(w, e) /\ e.op \in Op
      /\ e.page \in Page \cup {NoPage} /\ w.page \in Page \cup {NoPage}
      /\ e.page = sync[own].page /\ PagesFit(own) /\ WorkHolds(c)
  BY <1>1, AtWork DEF WorkFits, Work, PageInv, EventFits
<1>3. \A o \in Object : pages' = pages /\ sync' = sync => PagesKept(o) /\ PagesFit(o)'
  <2>1. ASSUME NEW o \in Object, pages' = pages, sync' = sync PROVE PagesKept(o) /\ PagesFit(o)'
    BY <2>1, SamePagesKept, FitKept DEF PageInv
  <2>. QED BY <2>1
<1>4. ASSUME pages' = pages, Raise(c) PROVE Goal
  BY <1>3, <1>4, RaiseHolds DEF Raise, Leave, tables
<1>5. ASSUME w.step \in PageSteps
      PROVE  /\ w.page \in Page /\ (e.page # NoPage => w.page = e.page)
             /\ pages[w.page].obj = own /\ Shown(own) \subseteq {w.page}
             /\ pages[w.page] \in PageState
  BY <1>1, <1>2, <1>5 DEF Fits, WorkHolds, NotionTypeOK
\* a page that only changes its content or is archived
<1>6. ASSUME NEW p, NEW x, NEW v, w.step \in PageSteps, p = w.page, Request(c, p, x, v),
             x.obj = own, x \in PageState, v.step # "create", v.page = p
      PROVE  Goal
  <2>1. OnePageChanges(c, p)
    BY <1>5, <1>6 DEF OnePageChanges, Request
  <2>. QED BY <1>1, <1>6, <2>1, RequestHolds
<1>7. CASE Resolve(c)
  <2>1. pages' = pages
    BY <1>7 DEF Resolve
  <2>2. Found(e) \subseteq Page /\ (e.page # NoPage => Found(e) = {e.page})
        /\ (e.page = NoPage => Found(e) = Shown(own))
    BY <1>2, FoundIs
  <2>3. ASSUME e.op = "delete", Found(e) = {}, Return(c, e.page) PROVE Goal
    <3>1. e.page = NoPage /\ Shown(own) = {}
      BY <2>2, <2>3
    <3>2. OwnHolds(c)
      BY <1>1, <1>2, <2>1, <2>3, <3>1, ReturnHolds
    <3>3. sync' = sync
      BY <2>3 DEF Return, Leave, tables
    <3>. QED BY <1>3, <2>1, <3>2, <3>3
  <2>4. ASSUME NEW v, Continue(c, v), v.step = "create" => Shown(own) = {},
               v.step \in PageSteps => pages[v.page].obj = own /\ Shown(own) \subseteq {v.page}
        PROVE  Goal
    <3>1. Shown(own)' = Shown(own)
      BY <2>1 DEF Shown
    <3>2. OwnHolds(c)
      BY <1>1, <2>1, <2>4, <3>1, ContinueHolds
    <3>3. sync' = sync
      BY <2>4 DEF Continue, vars
    <3>. QED BY <1>3, <2>1, <3>2, <3>3
  <2>5. ASSUME Found(e) = {}, e.op = "upsert",
               Continue(c, [w EXCEPT !.step = "create", !.page = NoPage])
        PROVE  Goal
    <3> DEFINE v == [w EXCEPT !.step = "create", !.page = NoPage]
    <3>1. v.step = "create"
      BY <1>2 DEF Work
    <3>2. Shown(own) = {}
      BY <2>2, <2>5
    <3>. HIDE DEF v
    <3>3. Continue(c, v)
      BY <2>5 DEF v
    <3>. QED BY <2>4, <3>1, <3>2, <3>3 DEF PageSteps, UpsertSteps
  <2>6. ASSUME NEW p \in Found(e), NEW step,
               Continue(c, [w EXCEPT !.step = step, !.page = p]), step \in {"patch", "archive"}
        PROVE  Goal
    <3> DEFINE v == [w EXCEPT !.step = step, !.page = p]
    <3>1. v.step = step /\ v.page = p
      BY <1>2 DEF Work
    <3>2. pages[p].obj = own /\ Shown(own) \subseteq {p}
      <4>1. CASE e.page = NoPage
        BY <1>2, <2>2, <2>6, <4>1 DEF Shown, PagesFit, AtMostOne
      <4>2. CASE e.page # NoPage
        BY <1>2, <2>2, <2>6, <4>2 DEF PagesFit
      <4>. QED BY <4>1, <4>2
    <3>. HIDE DEF v
    <3>3. Continue(c, v)
      BY <2>6 DEF v
    <3>. QED BY <2>4, <2>6, <3>1, <3>2, <3>3
  <2>7. ASSUME NEW p \in Found(e),
               Continue(c, [w EXCEPT !.step = IF e.op = "upsert" THEN "patch" ELSE "archive",
                                     !.page = p])
        PROVE  Goal
    BY <2>6, <2>7
  <2>. QED BY <1>4, <1>7, <2>1, <2>3, <2>5, <2>7 DEF Resolve
<1>8. CASE CreatePage(c)
  <2> DEFINE x == [obj |-> e.obj, archived |-> FALSE, props |-> DesiredProps(e),
                   body |-> <<>>]
             v(p) == [w EXCEPT !.step = "patch", !.page = p]
  <2>1. PICK p \in Page : pages[p].obj = NoObject /\ Request(c, p, x, v(p))
    BY <1>8 DEF CreatePage
  <2>2. w.step = "create"
    BY <1>8 DEF CreatePage, AtStep
  <2>3. x \in PageState /\ x.obj = own
    BY <1>2, DesiredTypes DEF PageState
  <2>4. v(p).step = "patch" /\ v(p).page = p
    BY <1>2 DEF Work
  <2>. HIDE DEF x, v
  <2>5. OnePageChanges(c, p)
    <3>1. e.page = NoPage /\ Shown(own) = {}
      BY <1>1, <1>2, <2>2 DEF Fits, WorkHolds
    <3>2. pages' = [pages EXCEPT ![p] = x]
      BY <2>1 DEF Request
    <3>. QED BY <2>1, <2>3, <3>1, <3>2 DEF OnePageChanges
  <2>. QED BY <1>1, <2>1, <2>3, <2>4, <2>5, RequestHolds
<1>9. CASE PatchProperties(c)
  <2> DEFINE x == [pages[w.page] EXCEPT !.archived = FALSE, !.props = DesiredProps(e)]
             v == [w EXCEPT !.step = "list"]
  <2>1. Request(c, w.page, x, v) /\ w.step \in PageSteps
    BY <1>9 DEF PatchProperties, AtStep, PageSteps, UpsertSteps
  <2>2. x \in PageState /\ x.obj = own
    BY <1>2, <1>5, <2>1, DesiredTypes DEF PageState
  <2>3. v.step = "list" /\ v.page = w.page
    BY <1>2 DEF Work
  <2>. HIDE DEF x, v
  <2>. QED BY <1>6, <2>1, <2>2, <2>3
<1>10. CASE ListChildren(c)
  <2> DEFINE body == pages[w.page].body
             v == [w EXCEPT !.listed = body,
                            !.step = IF body = <<>> THEN "renewAppend" ELSE "renewDelete"]
  <2>1. Continue(c, v) /\ w.step \in PageSteps /\ pages' = pages
    BY <1>10 DEF ListChildren, AtStep, PageSteps, UpsertSteps
  <2>2. v.step # "create" /\ v.page = w.page
    <3>. HIDE DEF body
    <3>. QED BY <1>2 DEF Work
  <2>. HIDE DEF v
  <2>3. Shown(own)' = Shown(own)
    BY <2>1 DEF Shown
  <2>4. OwnHolds(c)
    BY <1>1, <1>5, <2>1, <2>2, <2>3, ContinueHolds
  <2>5. sync' = sync
    BY <2>1 DEF Continue, vars
  <2>. QED BY <1>3, <2>1, <2>4, <2>5
<1>11. CASE DeleteBlock(c)
  <2> DEFINE block == Head(w.listed)
             rest == Tail(w.listed)
             x == [pages[w.page] EXCEPT !.body = RemoveFirst(@, block)]
             v == [w EXCEPT !.listed = rest,
                            !.step = IF rest = <<>> THEN "renewAppend" ELSE "delete"]
  <2>1. w.step \in PageSteps
    BY <1>11 DEF DeleteBlock, AtStep, PageSteps, UpsertSteps
  <2>2. CASE Request(c, w.page, x, v)
    <3>1. pages[w.page].body \in Seq(Block) /\ pages[w.page] \in PageState
      BY <1>5, <2>1 DEF PageState
    <3>2. RemoveFirst(pages[w.page].body, block) \in Seq(Block)
      BY <3>1, RemoveFirstType
    <3>3. x \in PageState /\ x.obj = own
      BY <1>5, <2>1, <3>1, <3>2 DEF PageState
    <3>4. v.step # "create" /\ v.page = w.page
      <4>. HIDE DEF rest
      <4>. QED BY <1>2 DEF Work
    <3>. HIDE DEF x, v
    <3>. QED BY <1>6, <2>1, <2>2, <3>3, <3>4
  <2>. QED BY <1>4, <1>11, <2>2 DEF DeleteBlock
<1>12. CASE AppendBatch(c)
  <2> DEFINE block == DesiredBody(e)[w.batch]
             x == [pages[w.page] EXCEPT !.body = Append(@, block)]
             v == IF w.batch < Batches
                  THEN [w EXCEPT !.step = "renewAppend", !.batch = @ + 1]
                  ELSE [w EXCEPT !.step = "check"]
  <2>1. w.step \in PageSteps
    BY <1>12 DEF AppendBatch, AtStep, PageSteps, UpsertSteps
  <2>2. CASE Request(c, w.page, x, v)
    <3>1. pages[w.page].body \in Seq(Block) /\ pages[w.page] \in PageState
      BY <1>5, <2>1 DEF PageState
    <3>2. block \in Block
      <4>1. w.batch \in 1..Batches
        BY <1>2 DEF Work
      <4>. QED BY <1>2, <4>1, DesiredTypes
    <3>3. x \in PageState /\ x.obj = own
      <4>. HIDE DEF block
      <4>1. Append(pages[w.page].body, block) \in Seq(Block)
        BY <3>1, <3>2
      <4>. QED BY <1>5, <2>1, <3>1, <4>1 DEF PageState
    <3>4. v.step # "create" /\ v.page = w.page
      BY <1>2 DEF Work
    <3>. HIDE DEF x, v
    <3>5. Request(c, w.page, x, v)
      BY <2>2
    <3>. QED BY <1>6, <2>1, <3>3, <3>4, <3>5
  <2>. QED BY <1>4, <1>12, <2>2 DEF AppendBatch
<1>13. CASE ReadBack(c)
  <2>1. pages' = pages /\ w.step \in PageSteps /\ w.step \in UpsertSteps
    BY <1>13 DEF ReadBack, AtStep, PageSteps, UpsertSteps
  <2>2. CASE /\ ~pages[w.page].archived
             /\ pages[w.page].props = DesiredProps(e)
             /\ pages[w.page].body = DesiredBody(e)
             /\ Return(c, w.page)
    <3>1. Shown(own) = {w.page}
      BY <1>5, <2>1, <2>2 DEF Shown
    <3>2. e.op = "upsert"
      BY <1>2, <2>1 DEF Fits
    <3>3. OwnHolds(c)
      BY <1>1, <1>5, <2>1, <2>2, <3>1, <3>2, ReturnHolds
    <3>4. sync' = sync
      BY <2>2 DEF Return, Leave, tables
    <3>. QED BY <1>3, <2>1, <3>3, <3>4
  <2>. QED BY <1>4, <1>13, <2>1, <2>2 DEF ReadBack
<1>14. CASE ArchivePage(c)
  <2> DEFINE x == [pages[w.page] EXCEPT !.archived = TRUE]
             v == [w EXCEPT !.step = "checkArchive"]
  <2>1. Request(c, w.page, x, v) /\ w.step \in PageSteps
    BY <1>14 DEF ArchivePage, AtStep, PageSteps
  <2>2. x \in PageState /\ x.obj = own
    BY <1>5, <2>1 DEF PageState
  <2>3. v.step # "create" /\ v.page = w.page
    BY <1>2 DEF Work
  <2>. HIDE DEF x, v
  <2>. QED BY <1>6, <2>1, <2>2, <2>3
<1>15. CASE ReadBackArchive(c)
  <2>1. pages' = pages /\ w.step \in PageSteps /\ w.step \in ArchiveSteps
    BY <1>15 DEF ReadBackArchive, AtStep, PageSteps, ArchiveSteps
  <2>2. CASE pages[w.page].archived /\ Return(c, w.page)
    <3>1. Shown(own) = {}
      BY <1>5, <2>1, <2>2 DEF Shown
    <3>2. e.op = "delete"
      BY <1>2, <2>1 DEF Fits
    <3>3. OwnHolds(c)
      BY <1>1, <1>5, <2>1, <2>2, <3>1, <3>2, ReturnHolds
    <3>4. sync' = sync
      BY <2>2 DEF Return, Leave, tables
    <3>. QED BY <1>3, <2>1, <3>3, <3>4
  <2>. QED BY <1>4, <1>15, <2>1, <2>2 DEF ReadBackArchive
<1>16. CASE RenewInWork(c)
  <2>1. /\ pages' = pages /\ sync' = sync /\ ev' = ev
        /\ w.step \in {"renewDelete", "renewAppend", "renewArchive"}
    BY <1>16 DEF RenewInWork, Renew, RenewLease
  <2>2. CASE RenewOK(c, e)
    <3> DEFINE x == [w EXCEPT !.step = AfterWorkRenewal(w.step)]
    <3>1. pc'[c] = "work"
      BY <1>1, <1>16, <2>2 DEF RenewInWork, Renew, Goto, AfterRenewal, TypeOK
    <3>2. work' = [work EXCEPT ![c] = x]
      BY <1>16, <2>2 DEF RenewInWork
    <3>3. /\ x.page = w.page /\ x.step # "create"
          /\ x.step \in PageSteps => w.step \in PageSteps
      BY <1>2, <2>1 DEF Work, AfterWorkRenewal, PageSteps, UpsertSteps
    <3>. HIDE DEF x
    <3>4. work'[c] = x
      BY <3>2 DEF NotionTypeOK
    <3>5. WorkHolds(c)'
      BY <1>5, <2>1, <3>1, <3>3, <3>4 DEF WorkHolds, Shown
    <3>6. EventFits(c)' /\ Outcome(c)'
      BY <1>2, <2>1, <3>1 DEF EventFits, Outcome
    <3>. QED BY <1>3, <2>1, <3>5, <3>6 DEF OwnHolds
  <2>3. CASE ~RenewOK(c, e)
    <3>1. pc'[c] = "error"
      BY <1>1, <1>16, <2>3 DEF RenewInWork, Renew, Goto, TypeOK
    <3>. QED BY <1>3, <2>1, <3>1 DEF OwnHolds, EventFits, WorkHolds, Outcome
  <2>. QED BY <2>2, <2>3
<1>. QED BY <1>7, <1>8, <1>9, <1>10, <1>11, <1>12, <1>13, <1>14, <1>15, <1>16 DEF NotionStep

-----------------------------------------------------------------------------
(* The steps outside the projection.                                       *)

\* How a consumer comes to be at work in such a step.
LEMMA OutsideEvents ==
    ASSUME NotionTyped, NEW c \in Consumer, OutsideStep(c),
           NEW d \in Consumer, pc'[d] \in Working
    PROVE  \/ \E o \in Object :
                 ClaimNext(d, o) /\ ev'[d] = ClaimedEvent(o) /\ pc'[d] = "validate"
           \/ /\ pc[d] \in Working /\ ev'[d] = ev[d]
              /\ \/ pc'[d] = pc[d] /\ work'[d] = work[d]
                 \/ pc'[d] \in {"supersede", "renew"} /\ pc[d] = "validate"
                 \/ pc'[d] = "work" /\ pc[d] = "renew" /\ work'[d] = StartWork(ev[d])
                 \/ pc'[d] = "finalize" /\ pc[d] = "last"
<1>. TypeOK /\ NotionTypeOK
  BY DEF NotionTyped
<1>1. CASE d # c
  BY <1>1, OthersStay
<1>2. CASE d = c
  <2>1. work'[c] = IF pc'[c] = "work" THEN StartWork(ev[c]) ELSE NoWork
    BY DEF OutsideStep, NotionTypeOK
  <2>2. ASSUME NEW o \in Object, Claim(c, o)
        PROVE  ClaimNext(c, o) /\ ev'[c] = ClaimedEvent(o) /\ pc'[c] = "validate"
    BY <2>2 DEF Claim, Goto, TypeOK
  <2>3. CASE Validate(c)
    BY <1>2, <2>3 DEF Validate, Goto, Verdict, Working, TypeOK
  <2>4. CASE pc[c] # "work" /\ Renew(c)
    BY <1>2, <2>1, <2>4 DEF Renew, Goto, AfterRenewal, Working, TypeOK
  <2>5. pc'[c] \in Working =>
            (\E o \in Object : Claim(c, o)) \/ Validate(c) \/ (pc[c] # "work" /\ Renew(c))
    BY DEF OutsideStep, Start, Acknowledge, Reap, EndDrain, Finalize, Supersede, RecordFailure,
       Fault, Crash, Exit, Goto, Working, TypeOK
  <2>. QED BY <1>2, <2>2, <2>3, <2>4, <2>5
<1>. QED BY <1>1, <1>2

\* Nobody finalizes the object of a consumer that is at work after the step.
LEMMA NotFinalized ==
    ASSUME PageInv, NEW c \in Consumer, NEW o \in Object, FinalizedBy(c, o),
           NEW d \in Consumer, pc[d] \in Working, pc'[d] \in Working
    PROVE  ev[d].obj # o
<1>1. pc[c] \in Working /\ pc'[c] \notin Working /\ ev[c].obj = o
  BY DEF FinalizedBy, Finalize, Goto, Working, PageInv, NotionTyped, TypeOK
<1>. QED BY <1>1, WorkersApart

LEMMA OutsideHolds ==
    ASSUME PageInv, NEW c \in Consumer, OutsideStep(c), NEW d \in Consumer
    PROVE  EventFits(d)' /\ WorkHolds(d)' /\ Outcome(d)'
<1>. NotionTyped /\ TypeOK /\ TablesTypeOK
  BY DEF PageInv, NotionTyped, TypeOK
<1>0. [Next]_vars /\ pages' = pages
  BY DEF OutsideStep, Next, Step
<1>1. CASE pc'[d] \notin Working
  BY <1>1 DEF EventFits, WorkHolds, Outcome, Working
<1>2. ASSUME NEW o \in Object, ClaimNext(d, o), ev'[d] = ClaimedEvent(o), pc'[d] = "validate"
      PROVE  EventFits(d)' /\ WorkHolds(d)' /\ Outcome(d)'
  <2>1. sync'[o].page = sync[o].page
    BY <1>2, ClaimNextEffect, ClaimedSyncRow
  <2>2. ev'[d].obj = o /\ ev'[d].page = sync[o].page
    BY <1>2 DEF ClaimedEvent
  <2>. QED BY <1>2, <2>1, <2>2 DEF EventFits, WorkHolds, Outcome
<1>3. ASSUME pc'[d] \in Working, pc[d] \in Working, ev'[d] = ev[d],
             \/ pc'[d] = pc[d] /\ work'[d] = work[d]
             \/ pc'[d] \in {"supersede", "renew"} /\ pc[d] = "validate"
             \/ pc'[d] = "work" /\ pc[d] = "renew" /\ work'[d] = StartWork(ev[d])
             \/ pc'[d] = "finalize" /\ pc[d] = "last"
      PROVE  EventFits(d)' /\ WorkHolds(d)' /\ Outcome(d)'
  <2>1. ev[d] \in Event /\ ev[d].obj \in Object
    BY <1>3, WorkersApart
  <2>2. sync'[ev[d].obj].page = sync[ev[d].obj].page
    BY <1>0, <1>3, <2>1, RecordedPageSteps, NotFinalized
  <2>3. EventFits(d) /\ WorkHolds(d) /\ Outcome(d) /\ PagesKept(ev[d].obj)
    BY <1>0, SamePagesKept DEF PageInv
  <2>4. CASE pc'[d] = pc[d] /\ work'[d] = work[d]
    BY <1>3, <2>2, <2>3, <2>4, ConsumerKept
  <2>5. CASE pc'[d] \in {"supersede", "renew"} /\ pc[d] = "validate"
    BY <1>3, <2>2, <2>3, <2>5 DEF EventFits, WorkHolds, Outcome
  <2>6. CASE pc'[d] = "work" /\ pc[d] = "renew" /\ work'[d] = StartWork(ev[d])
    <3>1. StartWork(ev[d]).step \notin PageSteps \cup {"create"}
      BY DEF StartWork, NoWork, PageSteps, UpsertSteps
    <3>. QED BY <1>3, <2>2, <2>3, <2>6, <3>1 DEF EventFits, WorkHolds, Outcome
  <2>7. CASE pc'[d] = "finalize" /\ pc[d] = "last"
    <3>1. Exact(ev[d])'
      BY <1>0, <1>3, <2>3, <2>7 DEF Outcome, Exact, Shown
    <3>. QED BY <1>0, <1>3, <2>2, <2>3, <2>7, <3>1 DEF EventFits, WorkHolds, Outcome
  <2>. QED BY <1>3, <2>4, <2>5, <2>6, <2>7
<1>. QED BY <1>1, <1>2, <1>3, OutsideEvents

\* While the pages stay, recorded and synced objects remain what they are.
LEMMA RecordsHold ==
    ASSUME PageInv, [Next]_vars, pages' = pages, NEW o \in Object
    PROVE  PagesFit(o)' /\ (sync'[o].status = "synced" => Exact(ClaimedEvent(o)'))
<1>. NotionTyped /\ TypeOK /\ PagesFit(o)
  BY DEF PageInv, NotionTyped
<1>0. PagesKept(o) /\ Shown(o)' = Shown(o)
  BY SamePagesKept DEF Shown
<1>1. ASSUME sync'[o].page = sync[o].page, sync'[o].status = "synced" => sync'[o] = sync[o]
      PROVE  PagesFit(o)' /\ (sync'[o].status = "synced" => Exact(ClaimedEvent(o)'))
  <2>1. PagesFit(o)'
    BY <1>0, <1>1, FitKept
  <2>2. ASSUME sync'[o].status = "synced" PROVE Exact(ClaimedEvent(o)')
    <3>1. Exact(ClaimedEvent(o))
      BY <1>1, <2>2, SyncedIsExact DEF PageInv
    <3>2. ClaimedEvent(o)' = ClaimedEvent(o)
      BY <1>1, <2>2 DEF ClaimedEvent
    <3>. QED BY <3>1, <3>2
  <2>. QED BY <2>1, <2>2
<1>2. ASSUME NEW c \in Consumer, FinalizedBy(c, o)
      PROVE  PagesFit(o)' /\ (sync'[o].status = "synced" => Exact(ClaimedEvent(o)'))
  <2> DEFINE e == ev[c]
             f == ClaimedEvent(o)'
  <2>1. /\ Outcome(c) /\ pc[c] = "finalize" /\ e.obj = o /\ e \in Event
        /\ f.obj = o /\ f.op = e.op /\ EventVersion(f) = EventVersion(e)
        /\ sync'[o].page = IF e.page = NoPage THEN sync[o].page ELSE e.page
    BY <1>2, FinalizedRow DEF FinalizedBy
  <2>2. f.page = sync'[o].page
    BY DEF ClaimedEvent
  <2>3. Exact(e) /\ (e.page # NoPage => pages[e.page].obj = o)
    BY <2>1 DEF Outcome
  <2>4. Shown(o) = {} \/ Shown(o) = {e.page}
    BY <2>1, <2>3 DEF Exact
  <2>5. PagesFit(o)'
    <3>1. e.page = NoPage => Shown(o) = {}
      <4>1. Shown(o) \subseteq Page
        BY DEF Shown
      <4>. QED BY <2>4, <4>1, OutboxAssumption DEF OutboxAssumption
    <3>2. AtMostOne(Shown(o))
      BY DEF PagesFit
    <3>3. sync'[o].page # NoPage =>
              pages[sync'[o].page].obj = o /\ Shown(o) \subseteq {sync'[o].page}
      BY <2>1, <2>3, <2>4, <3>1 DEF PagesFit
    <3>. QED BY <1>0, <3>2, <3>3 DEF PagesFit, AtMostOne
  <2>6. Exact(f)
    <3>1. DesiredProps(f) = DesiredProps(e) /\ DesiredBody(f) = DesiredBody(e)
      BY <2>1 DEF DesiredProps, DesiredBody
    <3>2. e.op # "delete" => f.page = e.page
      <4>1. Shown(o) \subseteq Page
        BY DEF Shown
      <4>. QED BY <2>1, <2>2, <2>3, <4>1, OutboxAssumption DEF Exact, OutboxAssumption
    <3>. HIDE DEF f
    <3>. QED BY <2>1, <2>3, <3>1, <3>2 DEF Exact
  <2>. QED BY <2>5, <2>6
<1>. QED BY <1>1, <1>2, RecordedPageSteps

-----------------------------------------------------------------------------
(* The whole system.                                                       *)

LEMMA PageStep ==
    ASSUME Stalls = FALSE, PageInv, [NotionNext]_notionVars
    PROVE  PageInv'
<1>. NotionTyped /\ TypeOK /\ NotionTypeOK /\ WorkFits
  BY DEF PageInv, NotionTyped
<1>1. [Next]_vars
  BY NotionStepIsStep
<1>2. NotionTyped' /\ Running' /\ LiveLeaseHoldsRows'
  BY <1>1, NotionTypedStep, RunningStep, LeaseStep DEF PageInv
<1> DEFINE Consumers == \A d \in Consumer : EventFits(d)' /\ WorkHolds(d)' /\ Outcome(d)'
           Records == \A o \in Object :
               PagesFit(o)' /\ (sync'[o].status = "synced" => Exact(ClaimedEvent(o))')
<1>3. ASSUME NEW c \in Consumer, NotionStep(c) PROVE Consumers /\ Records
  <2> DEFINE own == ev[c].obj
  <2>0. pc[c] \in Working
    BY <1>3, RequestAtWork DEF Working
  <2>1. /\ HoldsSync(c, ev[c]) /\ own \in Object
        /\ \A d \in Consumer \ {c} : pc[d] \in Working => ev[d].obj \in Object \ {own}
    BY <2>0, WorkersApart
  <2>. HIDE DEF own
  <2>2. /\ OwnHolds(c) /\ sync' = sync
        /\ \A o \in Object \ {own} : PagesKept(o)
        /\ \A o \in Object : o = own => PagesFit(o)'
    BY <1>3, <2>1, RequestsHold DEF own
  <2>3. ASSUME NEW d \in Consumer \ {c} PROVE EventFits(d)' /\ WorkHolds(d)' /\ Outcome(d)'
    <3>1. pc'[d] = pc[d] /\ ev'[d] = ev[d] /\ work'[d] = work[d]
      BY <1>3, OthersStay
    <3>2. EventFits(d) /\ WorkHolds(d) /\ Outcome(d)
      BY DEF PageInv
    <3>3. pc[d] \in Working => PagesKept(ev[d].obj)
      BY <2>1, <2>2
    <3>. QED BY <2>2, <3>1, <3>2, <3>3, ConsumerKept
  <2>4. Consumers
    BY <2>2, <2>3 DEF OwnHolds
  <2>5. ASSUME NEW o \in Object, o # own
        PROVE  PagesFit(o)' /\ (sync'[o].status = "synced" => Exact(ClaimedEvent(o))')
    <3>1. PagesFit(o)'
      BY <2>2, <2>5, FitKept DEF PageInv
    <3>2. ASSUME sync'[o].status = "synced" PROVE Exact(ClaimedEvent(o))'
      <4>0. PICK e : e = ClaimedEvent(o)
        OBVIOUS
      <4>1. e.obj = o /\ ClaimedEvent(o)' = e
        BY <2>2, <4>0 DEF ClaimedEvent
      <4>2. Exact(e)
        BY <2>2, <3>2, <4>0, SyncedIsExact DEF PageInv
      <4>3. PagesKept(e.obj)
        BY <2>2, <2>5, <4>1
      <4>4. IF e.op = "delete" THEN Shown(e.obj)' = {}
            ELSE /\ Shown(e.obj)' = {e.page}
                 /\ pages'[e.page].props = DesiredProps(e)
                 /\ pages'[e.page].body = DesiredBody(e)
        BY <4>2, <4>3, ExactKept
      <4>. QED BY <4>1, <4>4 DEF Exact
    <3>. QED BY <3>1, <3>2
  <2>6. sync'[own].status # "synced"
    BY <2>1, <2>2 DEF HoldsSync, own
  <2>. QED BY <2>1, <2>2, <2>4, <2>5, <2>6
<1>4. ASSUME pages' = pages PROVE Records
  BY <1>1, <1>4, RecordsHold DEF Exact, Shown
<1>5. ASSUME NEW c \in Consumer, OutsideStep(c) PROVE Consumers /\ Records
  BY <1>4, <1>5, OutsideHolds DEF OutsideStep
<1>6. ASSUME pages' = pages, work' = work, pc' = pc, ev' = ev,
             \A o \in Object : sync'[o].page = sync[o].page
      PROVE  Consumers /\ Records
  <2>1. ASSUME NEW d \in Consumer PROVE EventFits(d)' /\ WorkHolds(d)' /\ Outcome(d)'
    <3>1. pc[d] \in Working => ev[d].obj \in Object
      BY WorkersApart
    <3>2. \A o : PagesKept(o)
      BY <1>6, SamePagesKept
    <3>. QED BY <1>6, <3>1, <3>2, ConsumerKept DEF PageInv
  <2>. QED BY <1>4, <1>6, <2>1
<1>7. ASSUME NEW c \in Consumer, Expire(c), UNCHANGED <<pages, work>>
      PROVE  Consumers /\ Records
  BY <1>6, <1>7 DEF Expire, LeaseRunsOut
<1>8. ASSUME ClientWrite, UNCHANGED <<pages, work>> PROVE Consumers /\ Records
  <2>1. PICK p \in Object, op \in Op, v \in Version : Enqueue(p, op, v)
    BY <1>8, ClientWriteCases DEF TypeOK
  <2>2. \A o \in Object : sync'[o].page = sync[o].page
    BY <2>1, EnqueueEffect DEF TypeOK
  <2>. QED BY <1>6, <1>8, <2>2 DEF ClientWrite
<1>9. ASSUME UNCHANGED notionVars PROVE Consumers /\ Records
  BY <1>6, <1>9 DEF notionVars, vars
<1>10. Consumers /\ Records
  BY <1>3, <1>5, <1>7, <1>8, <1>9 DEF NotionNext
<1>11. SyncedPageIsExact'
  <2>1. ASSUME NEW o \in Object
        PROVE  /\ ClaimedEvent(o)'.obj = o /\ ClaimedEvent(o)'.op = sync'[o].op
               /\ ClaimedEvent(o)'.page = sync'[o].page
    BY DEF ClaimedEvent
  <2>2. \A o \in Object : sync'[o].status = "synced" => Exact(ClaimedEvent(o))'
    BY <1>10
  <2>. QED BY <2>1, <2>2 DEF SyncedPageIsExact, Exact
<1>. QED BY <1>2, <1>10, <1>11 DEF PageInv

\* Unless a running consumer outlives its lease, what the sync row of an object
\* calls synced is exactly what Notion shows.
THEOREM SyncedPagesAreExact ==
    ASSUME Stalls = FALSE
    PROVE  NotionSpec => []SyncedPageIsExact
<1>1. PageInv /\ [NotionNext]_notionVars => PageInv'
  BY PageStep
<1>2. PageInv => SyncedPageIsExact
  BY DEF PageInv
<1>. QED BY <1>1, <1>2, PageInit, PTL DEF NotionSpec

\* Nor does an object ever have two pages in the workspace.
THEOREM OnePageEach ==
    ASSUME Stalls = FALSE
    PROVE  NotionSpec => []OnePagePerObject
<1>1. PageInv /\ [NotionNext]_notionVars => PageInv'
  BY PageStep
<1>2. PageInv => OnePagePerObject
  <2>. SUFFICES ASSUME PageInv, NEW o \in Object PROVE Cardinality(Shown(o)) <= 1
    BY DEF OnePagePerObject
  <2>1. AtMostOne(Shown(o))
    BY DEF PageInv, PagesFit
  <2>2. CASE Shown(o) = {}
    BY <2>2, FS_EmptySet
  <2>3. CASE Shown(o) # {}
    <3>1. PICK p : p \in Shown(o)
      BY <2>3
    <3>2. Shown(o) = {p}
      BY <2>1, <3>1 DEF AtMostOne
    <3>. QED BY <3>2, FS_Singleton
  <2>. QED BY <2>2, <2>3
<1>. QED BY <1>1, <1>2, PageInit, PTL DEF NotionSpec

=============================================================================
