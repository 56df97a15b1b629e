--------------------------- MODULE ProviderOutbox ---------------------------
(***************************************************************************)
(* The delivery tables of the Notion projection and every SQL statement    *)
(* that touches them: the canonical tables (canonical_entities and         *)
(* canonical_documents, one map here: the two differ only in payload), the *)
(* triggers on them, provider_sync_state (one row per object: what the     *)
(* provider should show) and provider_outbox (one row per object, revision *)
(* and operation: the intents to get there).                               *)
(*                                                                         *)
(* Each statement runs through psql in a transaction of its own, so each   *)
(* is one step.  The statements are actions that leave the caller's        *)
(* program counter open; ProjectionConsumer supplies the callers.          *)
(*                                                                         *)
(* Time is abstract: `expired' holds the consumer instances whose lease    *)
(* has run out.  One set is enough because a claim and a renewal stamp the *)
(* two rows of an instance with the same now().  A retry back-off          *)
(* (available_at) may last any time, so a failed row may be retried at any *)
(* later step.                                                             *)
(***************************************************************************)
EXTENDS Naturals, FiniteSets

CONSTANTS
    Object,         \* canonical object ids (entities and documents alike)
    Hash,           \* content hashes
    MaxRev,         \* bound: the highest revision a client writes
    Consumer,       \* consumer instance ids
    Page,           \* provider object ids (Notion pages)
    MaxAttempts,    \* NOTION_SYNC_MAX_ATTEMPTS
    FreshRevisions, \* do clients re-create a deleted object only above its
                    \* last revision?  (the schema does not ask them to)
    NoOne, NoHash, NoPage   \* SQL NULLs

ASSUME OutboxAssumption ==
    /\ MaxRev \in Nat \ {0}
    /\ MaxAttempts \in Nat \ {0}
    /\ FreshRevisions \in BOOLEAN
    /\ NoOne \notin Consumer
    /\ NoHash \notin Hash
    /\ NoPage \notin Page

VARIABLES
    canonical,  \* object -> its canonical row (revision 0: no row)
    sync,       \* object -> its provider_sync_state row ("none": no row)
    outbox,     \* object, revision, operation -> row ("absent": no row)
    expired     \* instances whose lease is in the past

tables == <<canonical, sync, outbox, expired>>

Op == {"upsert", "delete"}
Rev == 1..MaxRev
Key == Object \X Rev \X Op      \* the UNIQUE constraint of provider_outbox
Version == [rev : Rev, hash : Hash]
NoVersion == [rev |-> 0, hash |-> NoHash]

SyncRow ==
    [op     : Op,                       \* desired_operation
     rev    : 0..MaxRev,                \* canonical_revision
     hash   : Hash \cup {NoHash},       \* canonical_content_hash
     status : {"none", "pending", "syncing", "synced", "error"},
     owner  : Consumer \cup {NoOne},    \* locked_by
     page   : Page \cup {NoPage},       \* provider_object_id
     seen   : Version \cup {NoVersion}] \* projected_revision and _hash

OutboxRow ==
    [state    : {"absent", "pending", "processing", "delivered", "failed"},
     hash     : Hash \cup {NoHash},
     owner    : Consumer \cup {NoOne},
     attempts : 0..MaxAttempts]

\* What claim_next returns and a consumer carries through the projection.
Event ==
    [obj : Object, rev : Rev, op : Op, hash : Hash, page : Page \cup {NoPage}]

Desired(o) == [rev |-> sync[o].rev, hash |-> sync[o].hash]

EventKey(e) == <<e.obj, e.rev, e.op>>
CurrentKey(o) == <<o, sync[o].rev, sync[o].op>>

TablesTypeOK ==
    /\ canonical \in [Object -> Version \cup {NoVersion}]
    /\ sync \in [Object -> SyncRow]
    /\ \A o \in Object :
          Desired(o) \in IF sync[o].status = "none" THEN {NoVersion} ELSE Version
    /\ outbox \in [Key -> OutboxRow]
    /\ expired \in SUBSET Consumer

TablesInit ==
    /\ canonical = [o \in Object |-> NoVersion]
    /\ sync = [o \in Object |->
                 [op |-> "upsert", rev |-> 0, hash |-> NoHash,
                  status |-> "none", owner |-> NoOne, page |-> NoPage,
                  seen |-> NoVersion]]
    /\ outbox = [k \in Key |->
                   [state |-> "absent", hash |-> NoHash, owner |-> NoOne,
                    attempts |-> 0]]
    /\ expired = {}

-----------------------------------------------------------------------------
(* The triggers.                                                           *)

\* Does a live lease protect the sync row?
LeasedSync(o) == sync[o].status = "syncing" /\ sync[o].owner \notin expired

\* mte_enqueue_provider_projection: the sync row takes the new desired state
\* (keeping its live lease, and always keeping locked_by); the intent is
\* added unless a row with the same object, revision and operation exists.
Enqueue(o, op, v) ==
    /\ sync' = [sync EXCEPT ![o] =
                  [@ EXCEPT !.op = op, !.rev = v.rev, !.hash = v.hash,
                            !.status = IF LeasedSync(o) THEN "syncing"
                                                        ELSE "pending"]]
    /\ outbox' = IF outbox[<<o, v.rev, op>>].state = "absent"
                 THEN [outbox EXCEPT ![<<o, v.rev, op>>] =
                         [state |-> "pending", hash |-> v.hash,
                          owner |-> NoOne, attempts |-> 0]]
                 ELSE outbox

\* A client inserts an object; re-creating a deleted one must reuse its id,
\* since the sync row of a deleted object keeps the UNIQUE external id.
InsertObject(o, v) ==
    /\ canonical[o] = NoVersion
    /\ FreshRevisions => v.rev > sync[o].rev
    /\ canonical' = [canonical EXCEPT ![o] = v]
    /\ Enqueue(o, "upsert", v)
    /\ UNCHANGED expired

\* Mutant: the revision guard of the canonical tables is missing.
UpdateObject_AnyRevision(o, v) ==
    /\ canonical[o] # NoVersion
    /\ v # canonical[o]
    /\ canonical' = [canonical EXCEPT ![o] = v]
    /\ Enqueue(o, "upsert", v)
    /\ UNCHANGED expired

\* A client updates an object.  mte_enforce_canonical_revision refuses a
\* lower revision and new content at the same one; an update that changes
\* neither revision nor hash enqueues nothing and is a stuttering step.
UpdateObject(o, v) ==
    /\ canonical[o] # NoVersion
    /\ v.rev > canonical[o].rev
    /\ canonical' = [canonical EXCEPT ![o] = v]
    /\ Enqueue(o, "upsert", v)
    /\ UNCHANGED expired

\* A client deletes an object: the intent carries the OLD revision and hash.
DeleteObject(o) ==
    /\ canonical[o] # NoVersion
    /\ canonical' = [canonical EXCEPT ![o] = NoVersion]
    /\ Enqueue(o, "delete", canonical[o])
    /\ UNCHANGED expired

-----------------------------------------------------------------------------
(* The statements of a drain.                                              *)

\* lease_expires_at <= now() on a processing row
Lapsed(row) == row.state = "processing" /\ row.owner \in expired

Closed(row, state) == [row EXCEPT !.state = state, !.owner = NoOne]

\* Mutants: the lease of a processing row is not looked at; an intent of the
\* desired revision itself counts as superseded.
Superseded_IgnoresLease(k) ==
    /\ outbox[k].state \in {"pending", "failed", "processing"}
    /\ sync[k[1]].rev > k[2]

Superseded_SameRevision(k) ==
    /\ outbox[k].state \in {"pending", "failed"} \/ Lapsed(outbox[k])
    /\ sync[k[1]].rev >= k[2]

\* ack_superseded: intents below the revision of the sync row are done.
Superseded(k) ==
    /\ outbox[k].state \in {"pending", "failed"} \/ Lapsed(outbox[k])
    /\ sync[k[1]].rev > k[2]

AckSuperseded ==
    /\ outbox' = [k \in Key |-> IF Superseded(k)
                                THEN Closed(outbox[k], "delivered")
                                ELSE outbox[k]]
    /\ UNCHANGED <<canonical, sync, expired>>

\* Mutant: the limit is off by one.
Exhausted_OffByOne(k) == Lapsed(outbox[k]) /\ outbox[k].attempts > MaxAttempts

\* reap_exhausted: a lease that ran out on the last attempt fails for good,
\* at most `limit' rows (LIMIT batch_size) of those that are not locked.
Exhausted(k) == Lapsed(outbox[k]) /\ outbox[k].attempts >= MaxAttempts

ReapedSync(o, batch) ==
    /\ CurrentKey(o) \in batch
    /\ outbox[CurrentKey(o)].hash = sync[o].hash
    /\ sync[o].status = "syncing"
    /\ sync[o].owner = outbox[CurrentKey(o)].owner

FailedSync(o) == [sync[o] EXCEPT !.status = "error", !.owner = NoOne]

ReapExhausted(limit) ==
    \E batch \in SUBSET {k \in Key : Exhausted(k)} :
        /\ \/ batch = {k \in Key : Exhausted(k)}
           \/ Cardinality(batch) = limit
        /\ Cardinality(batch) <= limit
        /\ outbox' = [k \in Key |-> IF k \in batch
                                    THEN Closed(outbox[k], "failed")
                                    ELSE outbox[k]]
        /\ sync' = [o \in Object |->
                      IF ReapedSync(o, batch)
                      THEN FailedSync(o)
                      ELSE sync[o]]
        /\ UNCHANGED <<canonical, expired>>

ClaimableRow(o, states) ==
    /\ outbox[CurrentKey(o)].hash = sync[o].hash
    /\ outbox[CurrentKey(o)].state \in states

\* The join of claim_next: the intent for exactly what the sync row desires,
\* with attempts left, and no live lease on either row.
Claimable(o) ==
    \E k \in Key :
        /\ k = CurrentKey(o)
        /\ outbox[k].hash = sync[o].hash
        /\ outbox[k].attempts < MaxAttempts
        /\ outbox[k].state \in {"pending", "failed"} \/ Lapsed(outbox[k])
        /\ \/ sync[o].status \in {"pending", "error"}
           \/ sync[o].status = "syncing" /\ sync[o].owner \in expired

ClaimedEvent(o) ==
    [obj |-> o, rev |-> sync[o].rev, op |-> sync[o].op,
     hash |-> sync[o].hash, page |-> sync[o].page]

ClaimedSync(c, o) == [sync[o] EXCEPT !.status = "syncing", !.owner = c]

ClaimedRow(c, row) ==
    [row EXCEPT !.state = "processing", !.owner = c, !.attempts = @ + 1]

\* claim_next on one claimable object.  ORDER BY id is not modelled: rows a
\* concurrent statement has locked are skipped, so any object may be next.
ClaimNext(c, o) ==
    /\ Claimable(o)
    /\ sync' = [sync EXCEPT ![o] = ClaimedSync(c, o)]
    /\ outbox' = [outbox EXCEPT ![CurrentKey(o)] = ClaimedRow(c, @)]
    /\ expired' = expired \ {c}
    /\ UNCHANGED canonical

-----------------------------------------------------------------------------
(* The statements on a claimed event.  Each updates the outbox row only if *)
(* the caller still owns it, the sync row only if the caller owns that, and *)
(* reports how many rows it touched.                                       *)

HoldsRow(c, e) ==
    LET row == outbox[EventKey(e)]
    IN  row.state = "processing" /\ row.owner = c

HoldsSync(c, e) == sync[e.obj].status = "syncing" /\ sync[e.obj].owner = c

\* Mutant: the revision is not compared.
SyncIsAt_AnyRevision(e) ==
    sync[e.obj].hash = e.hash /\ sync[e.obj].op = e.op

SyncIsAt(e) ==
    /\ sync[e.obj].rev = e.rev
    /\ sync[e.obj].hash = e.hash
    /\ sync[e.obj].op = e.op

SyncIsPast(e) == sync[e.obj].rev > e.rev

\* renew_lease: succeeds on both rows, or renews the outbox row alone (and
\* the caller raises), or touches nothing.  Expiry itself is not checked.
RenewOK(c, e) == HoldsRow(c, e) /\ HoldsSync(c, e)

RenewLease(c, e) ==
    /\ expired' = IF HoldsRow(c, e) THEN expired \ {c} ELSE expired
    /\ UNCHANGED <<canonical, sync, outbox>>

CloseRow(c, e, state) ==
    outbox' = IF HoldsRow(c, e)
              THEN [outbox EXCEPT ![EventKey(e)] = Closed(@, state)]
              ELSE outbox

ReleasedSync(o) == [sync[o] EXCEPT !.status = "pending", !.owner = NoOne]

\* finalize_success: "1|1|0" or "1|0|1", else projection_finalize_lost_lease
\* (with whatever part was done already committed).
FinalizeSuccessOK(c, e) == RenewOK(c, e) /\ (SyncIsAt(e) \/ SyncIsPast(e))

ProjectedSync(e) ==
    [sync[e.obj] EXCEPT
       !.status = "synced", !.owner = NoOne,
       !.seen = [rev |-> e.rev, hash |-> e.hash],
       !.page = IF e.page = NoPage THEN sync[e.obj].page ELSE e.page]

FinalizeSuccess(c, e) ==
    /\ CloseRow(c, e, "delivered")
    /\ sync' = [sync EXCEPT ![e.obj] =
           CASE RenewOK(c, e) /\ SyncIsAt(e) -> ProjectedSync(e)
             [] RenewOK(c, e) /\ SyncIsPast(e) -> ReleasedSync(e.obj)
             [] OTHER -> @]
    /\ UNCHANGED <<canonical, expired>>

\* finalize_superseded: "1|1", else projection_supersede_lost_lease.  Here
\* the release of the sync row does not depend on the outbox row.
FinalizeSupersededOK(c, e) == RenewOK(c, e) /\ SyncIsPast(e)

FinalizeSuperseded(c, e) ==
    /\ CloseRow(c, e, "delivered")
    /\ sync' = [sync EXCEPT ![e.obj] =
                  IF HoldsSync(c, e) /\ SyncIsPast(e)
                  THEN ReleasedSync(e.obj) ELSE @]
    /\ UNCHANGED <<canonical, expired>>

\* finalize_error: "1|1|0|0" is a recorded failure.  When a newer revision
\* arrived meanwhile the statement releases the sync row, and its last CTE
\* means to mark the outbox row delivered ("1|0|1|1"); but that row was just
\* updated by the first CTE, and PostgreSQL lets one statement update a row
\* only once: the row stays failed, the count is "1|0|1|0" and the caller
\* raises projection_failure_lost_lease.
FinalizeErrorOK(c, e) == RenewOK(c, e) /\ SyncIsAt(e)

FinalizeError(c, e) ==
    /\ CloseRow(c, e, "failed")
    /\ sync' = [sync EXCEPT ![e.obj] =
           CASE RenewOK(c, e) /\ SyncIsAt(e) -> FailedSync(e.obj)
             [] RenewOK(c, e) /\ SyncIsPast(e) -> ReleasedSync(e.obj)
             [] OTHER -> @]
    /\ UNCHANGED <<canonical, expired>>

\* A lease runs out.
Owns(c) ==
    \/ \E k \in Key : outbox[k].state = "processing" /\ outbox[k].owner = c
    \/ \E o \in Object : sync[o].status = "syncing" /\ sync[o].owner = c

LeaseRunsOut(c) ==
    /\ Owns(c)
    /\ c \notin expired
    /\ expired' = expired \cup {c}
    /\ UNCHANGED <<canonical, sync, outbox>>

=============================================================================
