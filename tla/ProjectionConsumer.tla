------------------------- MODULE ProjectionConsumer -------------------------
(***************************************************************************)
(* The consumer processes of the Notion projection (server-notion-sync.py) *)
(* over the tables of ProviderOutbox, with clients writing canonical rows  *)
(* at any moment.  The systemd timer, the provision step, the verifier and *)
(* the live canary all run the same drain loop, each as an instance of its *)
(* own.  What the consumer does to Notion between two lease renewals is    *)
(* one state, "work", here; NotionProjection refines it.                   *)
(***************************************************************************)
EXTENDS ProviderOutbox

CONSTANTS
    BatchSize,      \* events one drain may claim
    MaxRunning,     \* bound: drains that run at the same time
    MaxCrashes,     \* bound: processes killed outside their error handling
    Stalls,         \* may a running consumer outlive its lease?
    NoEvent         \* no event is being processed

ASSUME ConsumerAssumption ==
    /\ BatchSize \in Nat \ {0}
    /\ MaxRunning \in Nat
    /\ MaxCrashes \in Nat
    /\ Stalls \in BOOLEAN
    /\ NoEvent \notin Event

VARIABLES
    pc,         \* instance -> where it is in drain() and process()
    ev,         \* instance -> the event it processes
    quota,      \* instance -> claims its drain has left
    crashes     \* crashes so far

vars == <<canonical, sync, outbox, expired, pc, ev, quota, crashes>>

\* validate .. finalize are the body of process()'s try, "error" its except
Working == {"validate", "supersede", "renew", "work", "last", "finalize"}
PC == {"off", "ack", "reap", "claim", "error"} \cup Working

TypeOK ==
    /\ TablesTypeOK
    /\ pc \in [Consumer -> PC]
    /\ ev \in [Consumer -> Event \cup {NoEvent}]
    /\ \A c \in Consumer : pc[c] \in Working \cup {"error"} => ev[c] \in Event
    /\ quota \in [Consumer -> 0..BatchSize]
    /\ crashes \in 0..MaxCrashes

Init ==
    /\ TablesInit
    /\ pc = [c \in Consumer |-> "off"]
    /\ ev = [c \in Consumer |-> NoEvent]
    /\ quota = [c \in Consumer |-> 0]
    /\ crashes = 0

Goto(c, label) == pc' = [pc EXCEPT ![c] = label]

\* The process ends; its instance id is never used again (see Start).
Exit(c) ==
    /\ Goto(c, "off")
    /\ ev' = [ev EXCEPT ![c] = NoEvent]
    /\ quota' = [quota EXCEPT ![c] = 0]

-----------------------------------------------------------------------------
(* The drain loop.                                                         *)

\* A process starts with a fresh random instance id.  The model recycles an
\* id once no row carries it any more, which no statement can tell apart.
Start(c) ==
    /\ pc[c] = "off"
    /\ ~Owns(c)
    /\ Cardinality({d \in Consumer : pc[d] # "off"}) < MaxRunning
    /\ Goto(c, "ack")
    /\ quota' = [quota EXCEPT ![c] = BatchSize]
    /\ expired' = expired \ {c}
    /\ UNCHANGED <<canonical, sync, outbox, ev, crashes>>

Acknowledge(c) ==
    /\ pc[c] = "ack"
    /\ AckSuperseded
    /\ Goto(c, "reap")
    /\ UNCHANGED <<ev, quota, crashes>>

Reap(c) ==
    /\ pc[c] = "reap"
    /\ ReapExhausted(BatchSize)
    /\ Goto(c, "claim")
    /\ UNCHANGED <<ev, quota, crashes>>

Claim(c, o) ==
    /\ pc[c] = "claim"
    /\ quota[c] > 0
    /\ ClaimNext(c, o)
    /\ ev' = [ev EXCEPT ![c] = ClaimedEvent(o)]
    /\ quota' = [quota EXCEPT ![c] = @ - 1]
    /\ Goto(c, "validate")
    /\ UNCHANGED crashes

EndDrain(c) ==
    /\ pc[c] = "claim"
    /\ quota[c] = 0 \/ \A o \in Object : ~Claimable(o)
    /\ Exit(c)
    /\ UNCHANGED <<tables, crashes>>

-----------------------------------------------------------------------------
(* process(event).                                                         *)

\* validate_canonical's verdict on the canonical row it reads
Verdict(e) ==
    LET row == canonical[e.obj] IN
    CASE row.rev > e.rev -> "supersede"
      [] row = NoVersion -> IF e.op = "delete" THEN "renew" ELSE "error"
      [] OTHER -> IF e.op = "upsert" /\ row.rev = e.rev /\ row.hash = e.hash
                  THEN "renew" ELSE "error"

Validate(c) ==
    /\ pc[c] = "validate"
    /\ Goto(c, Verdict(ev[c]))
    /\ UNCHANGED <<tables, ev, quota, crashes>>

\* renew_lease before, during and after the projection
AfterRenewal(label) ==
    CASE label = "renew" -> "work"
      [] label = "work"  -> "work"
      [] label = "last"  -> "finalize"

Renew(c) ==
    /\ pc[c] \in {"renew", "work", "last"}
    /\ RenewLease(c, ev[c])
    /\ Goto(c, IF RenewOK(c, ev[c]) THEN AfterRenewal(pc[c]) ELSE "error")
    /\ UNCHANGED <<ev, quota, crashes>>

\* The projection is read back exact; it yields the provider object id: the
\* recorded one if there was one, else any (none only for an archived object
\* that was never created).
ProjectedPages(e) ==
    IF e.page # NoPage THEN {e.page}
    ELSE IF e.op = "upsert" THEN Page ELSE Page \cup {NoPage}

Project(c) ==
    /\ pc[c] = "work"
    /\ \E p \in ProjectedPages(ev[c]) : ev' = [ev EXCEPT ![c].page = p]
    /\ Goto(c, "last")
    /\ UNCHANGED <<tables, quota, crashes>>

\* The statement commits; the process sees its result, or loses the reply.
Finalize(c) ==
    /\ pc[c] = "finalize"
    /\ FinalizeSuccess(c, ev[c])
    /\ \/ /\ FinalizeSuccessOK(c, ev[c])
          /\ Goto(c, "claim")
          /\ ev' = [ev EXCEPT ![c] = NoEvent]
       \/ Goto(c, "error") /\ UNCHANGED ev
    /\ UNCHANGED <<quota, crashes>>

Supersede(c) ==
    /\ pc[c] = "supersede"
    /\ FinalizeSuperseded(c, ev[c])
    /\ \/ /\ FinalizeSupersededOK(c, ev[c])
          /\ Goto(c, "claim")
          /\ ev' = [ev EXCEPT ![c] = NoEvent]
       \/ Goto(c, "error") /\ UNCHANGED ev
    /\ UNCHANGED <<quota, crashes>>

\* Notion, psql or the network raises inside process()'s try
Fault(c) ==
    /\ pc[c] \in Working
    /\ Goto(c, "error")
    /\ UNCHANGED <<tables, ev, quota, crashes>>

\* process()'s except clause; if it raises itself the drain ends
RecordFailure(c) ==
    /\ pc[c] = "error"
    /\ FinalizeError(c, ev[c])
    /\ IF FinalizeErrorOK(c, ev[c])
       THEN /\ Goto(c, "claim")
            /\ ev' = [ev EXCEPT ![c] = NoEvent]
            /\ UNCHANGED quota
       ELSE Exit(c)
    /\ UNCHANGED crashes

-----------------------------------------------------------------------------
(* The environment.                                                        *)

\* kill -9, a reboot, or psql failing outside process()'s try
Crash(c) ==
    /\ pc[c] # "off"
    /\ crashes < MaxCrashes
    /\ crashes' = crashes + 1
    /\ Exit(c)
    /\ UNCHANGED tables

Expire(c) ==
    /\ pc[c] = "off" \/ Stalls
    /\ LeaseRunsOut(c)
    /\ UNCHANGED <<pc, ev, quota, crashes>>

ClientWrite ==
    /\ \E o \in Object :
          \/ \E v \in Version : InsertObject(o, v) \/ UpdateObject(o, v)
          \/ DeleteObject(o)
    /\ UNCHANGED <<pc, ev, quota, crashes>>

\* One step of a running consumer
Step(c) ==
    \/ Acknowledge(c) \/ Reap(c) \/ EndDrain(c)
    \/ \E o \in Object : Claim(c, o)
    \/ Validate(c) \/ Renew(c) \/ Project(c)
    \/ Finalize(c) \/ Supersede(c) \/ RecordFailure(c)

Next ==
    \/ ClientWrite
    \/ \E c \in Consumer : Start(c) \/ Step(c) \/ Fault(c) \/ Crash(c) \/ Expire(c)

Spec == Init /\ [][Next]_vars

\* systemd restarts the drain on a timer, a running drain goes on, every
\* projection ends, and the lease of a dead instance runs out.
FairSpec ==
    /\ Spec
    /\ \A c \in Consumer :
          /\ WF_vars(Start(c))
          /\ WF_vars(Step(c))
          /\ WF_vars(Project(c))
          /\ WF_vars(pc[c] = "off" /\ Expire(c))

-----------------------------------------------------------------------------
(* Properties.                                                             *)

\* While its lease has not run out, a consumer between claim and finalize
\* owns both its outbox row and the sync row of its object: whatever clients,
\* other drains, the reaper and stalled consumers do meanwhile.
LiveLeaseHoldsRows ==
    \A c \in Consumer :
        pc[c] \in Working /\ c \notin expired =>
            HoldsRow(c, ev[c]) /\ HoldsSync(c, ev[c])

\* Two consumers with live leases never work on the same object ("Lease-safe
\* PostgreSQL outbox consumer", server-notion-sync.py:2).
LeaseExclusive ==
    \A c, d \in Consumer :
        /\ c # d
        /\ pc[c] \in Working /\ c \notin expired
        /\ pc[d] \in Working /\ d \notin expired
        => ev[c].obj # ev[d].obj

\* A sync row that says "synced" names as projected exactly the version it
\* desires, and the intent for that version is delivered.
SyncedIsDelivered ==
    \A o \in Object : sync[o].status = "synced" =>
        /\ sync[o].seen = Desired(o)
        /\ outbox[CurrentKey(o)].state = "delivered"
        /\ outbox[CurrentKey(o)].hash = sync[o].hash

\* The sync row always desires what the canonical tables hold: the trigger
\* runs in the client's transaction and no drain ever changes the desire.
DesireIsCanonical ==
    \A o \in Object :
        IF canonical[o] = NoVersion
        THEN sync[o].status = "none" \/ sync[o].op = "delete"
        ELSE /\ sync[o].op = "upsert"
             /\ Desired(o) = canonical[o]

\* No intent is lost: an object that is not yet projected as desired has an
\* undelivered intent for exactly its desired version.
NoLostIntent ==
    \A o \in Object : sync[o].status \in {"pending", "error"} =>
        /\ outbox[CurrentKey(o)].state \in {"pending", "processing", "failed"}
        /\ outbox[CurrentKey(o)].hash = sync[o].hash

\* The recorded projection of an object never goes back to an older revision,
\* even when a stalled consumer finalizes late.
ProjectionNeverRegresses ==
    [][\A o \in Object : sync'[o].seen.rev >= sync[o].seen.rev]_vars

\* An intent is closed as delivered only by a projection that was read back
\* or because a newer revision is desired.
DeliveredByProjection ==
    [][\A k \in Key :
          outbox[k].state # "delivered" /\ outbox'[k].state = "delivered" =>
              \/ sync[k[1]].rev > k[2]
              \/ \E c \in Consumer : pc[c] = "finalize" /\ EventKey(ev[c]) = k]_vars

\* How the sync rows carry out DeliveryPromise.
Wanted == [o \in Object |-> Desired(o)]
Recorded == [o \in Object |-> sync[o].seen]
Synced == {o \in Object : sync[o].status = "synced"}
Holder == [o \in Object |-> IF sync[o].status = "syncing" THEN sync[o].owner
                                                         ELSE NoOne]

Promise == INSTANCE DeliveryPromise WITH
    Desire  <- Version,
    Nothing <- NoVersion,
    wanted  <- Wanted,
    shown   <- Recorded,
    settled <- Synced,
    holder  <- Holder

\* What is recorded as projected is always what was desired at that moment,
\* reported under a grant nobody has withdrawn, and it counts as settled
\* until something else is desired.
KeepsPromise == Promise!Spec

\* Every object ends up projected as desired, or its intent has failed
\* MaxAttempts times, once clients stop writing (revisions are bounded).
Settled(o) ==
    \/ sync[o].status \in {"none", "synced"}
    \/ /\ outbox[CurrentKey(o)].state = "failed"
       /\ outbox[CurrentKey(o)].attempts = MaxAttempts
       /\ sync[o].status = "error"

EventuallySettled == <>[](\A o \in Object : Settled(o))

=============================================================================
