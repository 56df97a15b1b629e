--------------------------- MODULE CanonicalConfig ---------------------------
(***************************************************************************)
(* The canonical file platform.env, the files rendered from it and the     *)
(* lock file .platform-env.lock that its writers share.                    *)
(*                                                                         *)
(* A dozen scripts rewrite platform.env: each takes the lock, reads the    *)
(* file, changes the keys it is responsible for and replaces the file by   *)
(* rename.  server-config.py also renders projections from the file and    *)
(* records in a manifest, written last, which content they came from.      *)
(* Acceptance producers bind what they observe to the hash of the file     *)
(* without taking the lock.                                                *)
(*                                                                         *)
(* A value is the number of the commit that wrote it and 0 an absent key,  *)
(* so that two contents are equal exactly when their hashes are.           *)
(***************************************************************************)
EXTENDS Naturals, Sequences

CONSTANTS
    Scripts,      \* the scripts that run, a subset of AllScripts
    Projections,  \* the projections are the files 1..Projections
    MaxCommits,   \* bound: fresh values written in a behaviour
    MaxStarts,    \* bound: scripts started
    MaxKills      \* bound: scripts that fail or are killed

Keys == {"operator",    \* values of the operator's dotenv
         "generated",   \* secrets created by whoever finds them missing
         "cloudflare",  \* credentials of the tunnel and of Access
         "postgrest",   \* the scoped tokens
         "notion",      \* identities of the managed Notion resources
         "mattermost",  \* MATTERMOST_TOKEN and its neighbours
         "router",      \* the 9Router keys
         "daytona"}     \* DAYTONA_API_KEY, and the current sandbox snapshots

Contents == [Keys -> Nat]
Blank == [k \in Keys |-> 0]
None == "none"

\* "config" is server-config.py init followed by render and audit, "key" and
\* "images" are two operations of daytona.sh, "acceptance" is a producer that
\* only reads the file.
AllScripts == {"config", "secrets", "host", "notion", "provision", "postgrest",
               "cloudflare", "token", "hermes", "key", "images",
               "acceptance"}

ASSUME ConfigAssumption ==
    /\ Scripts \subseteq AllScripts
    /\ {Projections, MaxCommits, MaxStarts, MaxKills} \subseteq Nat

VARIABLES
    env,        \* the content of platform.env
    proj,       \* the content each projection was rendered from
    manifest,   \* the content that the manifest names
    flock,      \* the script whose open file description has the flock
    ofd,        \* the script whose description has the OFD lock
    pc,         \* where each script is
    todo,       \* the sections that a script has not finished
    snap,       \* what a script read last for its current section
    seen,       \* what a script read earlier and still relies on
    written,    \* projections written by the render in progress
    committed,  \* ghost: per key, the last value that a script decided
    commits, starts, kills

scriptVars == <<pc, todo, snap, seen, written>>
lockVars == <<flock, ofd>>
counters == <<starts, kills>>
vars == <<env, proj, manifest, flock, ofd, pc, todo, snap, seen, written,
          committed, commits, starts, kills>>

-----------------------------------------------------------------------------
(* What a script makes of the content c that it read under the lock, when  *)
(* the value it decides is v; v = 0 says that it is what it was.           *)

Fresh == commits + 1
Set(c, k, v) == IF v = 0 THEN c ELSE [c EXCEPT ![k] = v]
\* MUTANT: a secret is created whether or not it is there.
Fill_Always(c, k) == [c EXCEPT ![k] = Fresh]

Fill(c, k) == IF c[k] = 0 THEN [c EXCEPT ![k] = Fresh] ELSE c

\* Values of the operator's dotenv replace the canonical ones; a generated
\* secret is created when it is missing and otherwise wins.
ConfigInit(c, v) == Fill(Set(c, "operator", v), "generated")

SecretsInit(c) == Fill(c, "generated")

HostSeed(c) == Fill(c, "operator")

MergeNotion(c) == Fill(c, "notion")

\* An adapter saves its snapshot, every key of the component's prefix as it
\* was when the pass began (old), together with the keys that it created.
ProvisionSave(c, old, v) ==
    Set(Set(c, "mattermost", old["mattermost"]), "router", v)

PostgrestTokens(c, v) == Set(c, "postgrest", v)

CloudflareCredentials(c, v) == Set(c, "cloudflare", v)

TokenBootstrap(c, v) == Set(c, "cloudflare", v)

HermesUpdate(c, v) == Set(c, "mattermost", v)

DaytonaInit(c) == Fill(c, "generated")

DaytonaKey(c, v) == Set(c, "daytona", v)

DaytonaImages(c, v) == Set(c, "daytona", v)

Update(p, c, old, v) ==
    CASE p = "config"     -> ConfigInit(c, v)
      [] p = "secrets"    -> SecretsInit(c)
      [] p = "host"       -> HostSeed(c)
      [] p = "notion"     -> MergeNotion(c)
      [] p = "provision"  -> ProvisionSave(c, old, v)
      [] p = "postgrest"  -> PostgrestTokens(c, v)
      [] p = "cloudflare" -> CloudflareCredentials(c, v)
      [] p = "token"      -> TokenBootstrap(c, v)
      [] p = "hermes"     -> HermesUpdate(c, v)
      [] p = "key"        -> IF Head(todo[p]) = "init" THEN DaytonaInit(c)
                                                       ELSE DaytonaKey(c, v)
      [] OTHER            -> DaytonaImages(c, v)

\* The keys whose value a script decides, as opposed to those it copies.
Decides(p) ==
    CASE p = "config"                  -> {"operator", "generated"}
      [] p = "secrets"                 -> {"generated"}
      [] p = "host"                    -> {"operator"}
      [] p = "notion"                  -> {"notion"}
      [] p = "provision"               -> {"router"}
      [] p = "postgrest"               -> {"postgrest"}
      [] p \in {"cloudflare", "token"} -> {"cloudflare"}
      [] p = "hermes"                  -> {"mattermost"}
      [] p = "key"                     -> {"generated", "daytona"}
      [] OTHER                         -> {"daytona"}

-----------------------------------------------------------------------------
(* The sections of a script, in order.  "init", "update" and "persist"     *)
(* rewrite the file, "render" writes the projections, "audit" compares     *)
(* them, "snapshot" keeps the content for a later comparison.              *)

Reconcile == <<"render", "audit">>

Sections(p) ==
    CASE p \in {"config", "secrets", "provision", "token"} -> <<"update">> \o Reconcile
      [] p = "key"      -> <<"init", "render", "snapshot", "persist">>
      [] p = "images"   -> <<"update", "render", "snapshot">>
      [] OTHER          -> <<"update">>

\* Scripts that run all their sections under one lock.
OneLock(p) == p \in {"token", "images"}

\* Scripts that take an OFD lock on the description that has the flock, and
\* render in a child process that inherits the description.
TakesOfd(p) == p \in {"key", "images"}

\* Scripts that rely on a read made before they asked for the lock.
ReadsFirst(p) == p \in {"provision", "notion", "acceptance"}

-----------------------------------------------------------------------------
Init ==
    /\ \E n \in {0, 1} :
        /\ env = [k \in Keys |-> n]
        /\ commits = n
        /\ proj = [i \in 1..Projections |-> env]
        /\ manifest = env
    /\ committed = env
    /\ flock = None /\ ofd = None
    /\ pc = [p \in Scripts |-> "idle"]
    /\ todo = [p \in Scripts |-> <<>>]
    /\ snap = [p \in Scripts |-> Blank]
    /\ seen = [p \in Scripts |-> Blank]
    /\ written = [p \in Scripts |-> 0]
    /\ starts = 0 /\ kills = 0

\* A script begins.
Start(p) ==
    /\ pc[p] = "idle" /\ starts < MaxStarts
    /\ pc' = [pc EXCEPT ![p] = IF p = "acceptance" THEN "before" ELSE "waiting"]
    /\ todo' = [todo EXCEPT ![p] = Sections(p)]
    /\ seen' = [seen EXCEPT ![p] = IF ReadsFirst(p) THEN env ELSE Blank]
    /\ starts' = starts + 1
    /\ UNCHANGED <<env, proj, manifest, flock, ofd, snap, written, committed, commits, kills>>

\* MUTANT: the lock is not awaited.
Acquire_Open(p) ==
    /\ pc[p] = "waiting"
    /\ flock' = p
    /\ pc' = [pc EXCEPT ![p] = IF TakesOfd(p) THEN "polling" ELSE "locked"]
    /\ UNCHANGED <<env, proj, manifest, ofd, todo, snap, seen, written, committed, commits, counters>>

\* flock(LOCK_EX), or the polling of daytona.sh, gets the lock.
Acquire(p) ==
    /\ pc[p] = "waiting" /\ flock = None
    /\ flock' = p
    /\ pc' = [pc EXCEPT ![p] = IF TakesOfd(p) THEN "polling" ELSE "locked"]
    /\ UNCHANGED <<env, proj, manifest, ofd, todo, snap, seen, written, committed, commits, counters>>

\* daytona.sh then polls for the OFD lock of the same description.
AcquireOfd(p) ==
    /\ pc[p] = "polling" /\ ofd = None
    /\ ofd' = p
    /\ pc' = [pc EXCEPT ![p] = "locked"]
    /\ UNCHANGED <<env, proj, manifest, flock, todo, snap, seen, written, committed, commits, counters>>

\* MUTANT: the flock outlives the script.
Close_Leaks(p) ==
    /\ flock' = flock
    /\ ofd' = IF ofd = p THEN None ELSE ofd

\* Closing the description releases both of its locks.
Close(p) ==
    /\ flock' = IF flock = p THEN None ELSE flock
    /\ ofd' = IF ofd = p THEN None ELSE ofd

Forget(p) ==
    /\ todo' = [todo EXCEPT ![p] = <<>>]
    /\ snap' = [snap EXCEPT ![p] = Blank]
    /\ seen' = [seen EXCEPT ![p] = Blank]
    /\ written' = [written EXCEPT ![p] = 0]

\* A script reads the file to rewrite it.
Load(p) ==
    /\ pc[p] = "locked" /\ Head(todo[p]) \in {"init", "update", "persist"}
    /\ snap' = [snap EXCEPT ![p] = env]
    /\ pc' = [pc EXCEPT ![p] = "loaded"]
    /\ UNCHANGED <<env, proj, manifest, lockVars, todo, seen, written, committed, commits, counters>>

\* merge-notion-provision refuses an update computed from another state of
\* its keys, and the Daytona key is stored only if the declared values that
\* it was provisioned with are still in force.
Refuses(p) ==
    \/ p = "notion" /\ (snap[p]["notion"] = 0) # (seen[p]["notion"] = 0)
    \/ Head(todo[p]) = "persist" /\ snap[p]["operator"] # seen[p]["operator"]

Decided(p, c, new) ==
    [k \in Keys |-> IF k \in Decides(p) /\ new[k] # c[k] THEN new[k] ELSE committed[k]]

\* The rename that replaces the file.
Commit(p) ==
    /\ pc[p] = "loaded" /\ ~Refuses(p)
    /\ Fresh <= MaxCommits
    /\ \E v \in {0, Fresh} :
        LET new == Update(p, snap[p], seen[p], v) IN
        /\ env' = new
        /\ committed' = Decided(p, snap[p], new)
        /\ commits' = IF \E k \in Keys : new[k] = Fresh THEN Fresh ELSE commits
    /\ pc' = [pc EXCEPT ![p] = "ended"]
    /\ snap' = [snap EXCEPT ![p] = Blank]
    /\ UNCHANGED <<proj, manifest, lockVars, todo, seen, written, counters>>

\* A render first reads the file to create the secrets that it owns.
RenderRead(p) ==
    /\ pc[p] = "locked" /\ Head(todo[p]) = "render"
    /\ snap' = [snap EXCEPT ![p] = env]
    /\ pc' = [pc EXCEPT ![p] = "generating"]
    /\ UNCHANGED <<env, proj, manifest, lockVars, todo, seen, written, committed, commits, counters>>

\* It writes them, reads the file again and checks that no required key is
\* missing; with one missing it ends here.
Generate(p) ==
    LET new == Fill(snap[p], "generated") IN
    /\ pc[p] = "generating" /\ Fresh <= MaxCommits
    /\ env' = IF new = snap[p] THEN env ELSE new
    /\ commits' = IF new = snap[p] THEN commits ELSE Fresh
    /\ committed' = IF new = snap[p] THEN committed
                    ELSE [committed EXCEPT !["generated"] = new["generated"]]
    /\ IF env'["operator"] = 0
       THEN /\ pc' = [pc EXCEPT ![p] = "idle"]
            /\ Close(p) /\ Forget(p)
       ELSE /\ pc' = [pc EXCEPT ![p] = "rendering"]
            /\ snap' = [snap EXCEPT ![p] = env']
            /\ UNCHANGED <<lockVars, todo, seen, written>>
    /\ UNCHANGED <<proj, manifest, counters>>

\* Each projection is replaced by one rename, in a fixed order.
Project(p) ==
    /\ pc[p] = "rendering" /\ written[p] < Projections
    /\ proj' = [proj EXCEPT ![written[p] + 1] = snap[p]]
    /\ written' = [written EXCEPT ![p] = @ + 1]
    /\ UNCHANGED <<env, manifest, lockVars, pc, todo, snap, seen, committed, commits, counters>>

\* MUTANT: the manifest is written before the last projection.
WriteManifest_Early(p) ==
    /\ pc[p] = "rendering" /\ written[p] >= Projections - 1
    /\ manifest' = snap[p]
    /\ pc' = [pc EXCEPT ![p] = "ended"]
    /\ snap' = [snap EXCEPT ![p] = Blank]
    /\ written' = [written EXCEPT ![p] = 0]
    /\ UNCHANGED <<env, proj, lockVars, todo, seen, committed, commits, counters>>

\* The manifest is written when all the projections are.
WriteManifest(p) ==
    /\ pc[p] = "rendering" /\ written[p] = Projections
    /\ manifest' = snap[p]
    /\ pc' = [pc EXCEPT ![p] = "ended"]
    /\ snap' = [snap EXCEPT ![p] = Blank]
    /\ written' = [written EXCEPT ![p] = 0]
    /\ UNCHANGED <<env, proj, lockVars, todo, seen, committed, commits, counters>>

\* What drift() reports: the manifest is of another source, or a projection
\* is not the file that the manifest describes.
Drift == manifest # env \/ \E i \in 1..Projections : proj[i] # manifest

Audit(p) ==
    /\ pc[p] = "locked" /\ Head(todo[p]) = "audit"
    /\ IF Drift
       THEN pc' = [pc EXCEPT ![p] = "idle"] /\ Close(p) /\ Forget(p)
       ELSE pc' = [pc EXCEPT ![p] = "ended"] /\ UNCHANGED <<lockVars, todo, snap, seen, written>>
    /\ UNCHANGED <<env, proj, manifest, committed, commits, counters>>

\* daytona.sh keeps the values that its services are deployed with.
Snapshot(p) ==
    /\ pc[p] = "locked" /\ Head(todo[p]) = "snapshot"
    /\ seen' = [seen EXCEPT ![p] = env]
    /\ pc' = [pc EXCEPT ![p] = "ended"]
    /\ UNCHANGED <<env, proj, manifest, lockVars, todo, snap, written, committed, commits, counters>>

\* The section is over: the next one runs under the same lock, or asks for
\* it again, or the script has ended.
NextSection(p) ==
    /\ pc[p] = "ended"
    /\ IF Len(todo[p]) <= 1
       THEN pc' = [pc EXCEPT ![p] = "idle"] /\ Close(p) /\ Forget(p)
       ELSE /\ todo' = [todo EXCEPT ![p] = Tail(@)]
            /\ IF OneLock(p)
               THEN pc' = [pc EXCEPT ![p] = "locked"] /\ UNCHANGED lockVars
               ELSE pc' = [pc EXCEPT ![p] = "waiting"] /\ Close(p)
            /\ UNCHANGED <<snap, seen, written>>
    /\ UNCHANGED <<env, proj, manifest, committed, commits, counters>>

-----------------------------------------------------------------------------
(* A producer whose evidence is bound to the hash of the file: the hash    *)
(* before, the reads of the producer, and the hash after.                  *)

Produce(p) ==
    /\ pc[p] = "before"
    /\ snap' = [snap EXCEPT ![p] = env]
    /\ pc' = [pc EXCEPT ![p] = "after"]
    /\ UNCHANGED <<env, proj, manifest, lockVars, todo, seen, written, committed, commits, counters>>

\* MUTANT: the second hash is not compared.
HashAfter_Unchecked(p) ==
    /\ pc[p] = "after"
    /\ pc' = [pc EXCEPT ![p] = "bound"]
    /\ UNCHANGED <<env, proj, manifest, lockVars, todo, snap, seen, written, committed, commits, counters>>

HashAfter(p) ==
    /\ pc[p] = "after"
    /\ IF env = seen[p]
       THEN pc' = [pc EXCEPT ![p] = "bound"] /\ UNCHANGED <<todo, snap, seen, written>>
       ELSE pc' = [pc EXCEPT ![p] = "idle"] /\ Forget(p)
    /\ UNCHANGED <<env, proj, manifest, lockVars, committed, commits, counters>>

-----------------------------------------------------------------------------
\* A script that refuses ends without writing; its descriptors are closed.
Refuse(p) ==
    /\ pc[p] = "loaded" /\ Refuses(p)
    /\ pc' = [pc EXCEPT ![p] = "idle"]
    /\ Close(p) /\ Forget(p)
    /\ UNCHANGED <<env, proj, manifest, committed, commits, counters>>

\* So are those of a script that fails or is killed anywhere.
Fail(p) ==
    /\ pc[p] # "idle" /\ kills < MaxKills
    /\ kills' = kills + 1
    /\ pc' = [pc EXCEPT ![p] = "idle"]
    /\ Close(p) /\ Forget(p)
    /\ UNCHANGED <<env, proj, manifest, committed, commits, starts>>

\* Only the shell is killed: the renderer that inherited the description
\* goes on, under the locks, and ends alone.
Orphan(p) ==
    /\ TakesOfd(p) /\ pc[p] \in {"generating", "rendering"}
    /\ Len(todo[p]) > 1 /\ kills < MaxKills
    /\ todo' = [todo EXCEPT ![p] = <<"render">>]
    /\ kills' = kills + 1
    /\ UNCHANGED <<env, proj, manifest, lockVars, pc, snap, seen, written, committed, commits, starts>>

\* The polling of daytona.sh reaches its deadline.
Timeout(p) ==
    /\ TakesOfd(p)
    /\ \/ pc[p] = "waiting" /\ flock # None
       \/ pc[p] = "polling" /\ ofd # None
    /\ pc' = [pc EXCEPT ![p] = "idle"]
    /\ Close(p) /\ Forget(p)
    /\ UNCHANGED <<env, proj, manifest, committed, commits, counters>>

\* The evidence is written and the producer ends.
Finish(p) ==
    /\ pc[p] = "bound"
    /\ pc' = [pc EXCEPT ![p] = "idle"]
    /\ Forget(p)
    /\ UNCHANGED <<env, proj, manifest, lockVars, committed, commits, counters>>

Step(p) ==
    \/ AcquireOfd(p) \/ Load(p) \/ Refuse(p) \/ Commit(p) \/ RenderRead(p) \/ Generate(p)
    \/ Project(p) \/ WriteManifest(p) \/ Audit(p) \/ Snapshot(p) \/ NextSection(p)
    \/ Produce(p) \/ HashAfter(p) \/ Finish(p)

Next ==
    \E p \in Scripts :
        Start(p) \/ Acquire(p) \/ Step(p) \/ Fail(p) \/ Orphan(p) \/ Timeout(p)

Spec == Init /\ [][Next]_vars

\* A script that can go on does.  Nothing is assumed of the order in which
\* flock(2) serves its waiters.
Fairness == \A p \in Scripts : WF_vars(Acquire(p) \/ Step(p))

FairSpec == Spec /\ Fairness

-----------------------------------------------------------------------------
(* Properties.                                                             *)

\* The values of the variables.  (server-config.py, every writer)
ConfigTypeOK ==
    /\ env \in Contents /\ committed \in Contents /\ manifest \in Contents
    /\ proj \in [1..Projections -> Contents]
    /\ {flock, ofd} \subseteq Scripts \cup {None}
    /\ pc \in [Scripts -> {"idle", "waiting", "polling", "locked", "loaded",
                           "generating", "rendering", "ended", "before", "after",
                           "bound"}]
    /\ snap \in [Scripts -> Contents] /\ seen \in [Scripts -> Contents]
    /\ written \in [Scripts -> 0..Projections]
    /\ {commits, starts, kills} \subseteq Nat

\* No update is lost: every key has the value that the last script to decide
\* it has written, whatever the others that rewrote the file meanwhile had
\* read, however they ended.  (the read-modify-write of every writer)
UpdatesSurvive == env = committed

\* A generated secret or a Notion identity, once issued, never changes,
\* however many scripts that create the missing ones overlap.  (init_source,
\* server-secrets.py init, reconcile_generated_canonical_secrets)
IssuedStays ==
    [][\A k \in {"generated", "notion"} : env[k] # 0 => env'[k] = env[k]]_vars

\* A manifest that names the current content is enough to trust every
\* projection, after any number of renders cut short.  (_render_locked)
ManifestMeansRendered ==
    manifest = env => \A i \in 1..Projections : proj[i] = env

\* Evidence whose two hashes agree was produced from that very content.
\* (platform.py, run_canonical_hash_bound)
HashBoundIsExact ==
    \A p \in Scripts : pc[p] = "bound" => snap[p] = seen[p]

\* Every script that is started ends: no order of flock and OFD locks, and no
\* descriptor that outlives its shell, makes the others wait for ever.  (A
\* behaviour starts finitely many.)
EveryScriptEnds == <>[](\A p \in Scripts : pc[p] = "idle")

=============================================================================
