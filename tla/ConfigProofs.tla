---------------------------- MODULE ConfigProofs ----------------------------
(***************************************************************************)
(* What the writers of the canonical file keep, for any set of scripts     *)
(* that leaves out the one pair which does not exclude itself, any number  *)
(* of projections and of overlapping runs, failures and kills.             *)
(***************************************************************************)
EXTENDS CanonicalConfig, TLAPS

\* A provisioning pass saves keys as it found them before it had the lock;
\* among them is a key that only the Hermes bootstrap decides.
NoStaleSave == ~({"provision", "hermes"} \subseteq Scripts)

-----------------------------------------------------------------------------
(* The invariant.                                                          *)

Inside == {"polling", "locked", "loaded", "generating", "rendering", "ended"}

\* Whoever works on the file has the flock.
Exclusive == \A p \in Scripts : pc[p] \in Inside => flock = p

\* What a script has read under the lock is still the content of the file.
SnapshotHolds ==
    \A p \in Scripts :
        pc[p] \in {"loaded", "generating", "rendering"} => snap[p] = env

\* The keys that a pass saves as they were are still what they were.
PassHolds ==
    "provision" \in Scripts /\ pc["provision"] # "idle" =>
        seen["provision"]["mattermost"] = env["mattermost"]

\* Values count the commits, so that a content never comes back.
AtMost(c, d) == \A k \in Keys : c[k] <= d[k]

Bounded == \A k \in Keys : env[k] <= commits

\* A producer's reads follow each other.
Ordered ==
    \A p \in Scripts :
        /\ pc[p] = "before" => AtMost(seen[p], env)
        /\ pc[p] = "after" => AtMost(seen[p], snap[p]) /\ AtMost(snap[p], env)

\* The projections that a render has replaced are of what it has read.
Rendered ==
    \A p \in Scripts :
        /\ pc[p] # "rendering" => written[p] = 0
        /\ pc[p] = "rendering" => \A i \in 1 .. written[p] : proj[i] = snap[p]

ConfigInv ==
    /\ ConfigTypeOK
    /\ Exclusive
    /\ SnapshotHolds
    /\ PassHolds
    /\ UpdatesSurvive
    /\ Bounded
    /\ AtMost(manifest, env)
    /\ Ordered
    /\ Rendered
    /\ ManifestMeansRendered
    /\ HashBoundIsExact

LEMMA NoneIsNoScript == None \notin Scripts
BY ConfigAssumption DEF None, AllScripts

-----------------------------------------------------------------------------
(* What a write does to the content.                                       *)

\* At most the keys K have changed, to the fresh value, and neither a generated
\* secret nor a Notion identity that was there.
Kept(c, new, K) ==
    /\ new \in Contents
    /\ \A k \in Keys : new[k] = c[k] \/ (new[k] = Fresh /\ k \in K)
    /\ \A k \in {"generated", "notion"} : c[k] # 0 => new[k] = c[k]

LEMMA FillKept ==
    ASSUME commits \in Nat, NEW c \in Contents, NEW k \in Keys
    PROVE  Kept(c, Fill(c, k), {k})
BY DEF Kept, Fill, Contents, Fresh, Keys

LEMMA SetKept ==
    ASSUME commits \in Nat, NEW c \in Contents, NEW k \in Keys \ {"generated", "notion"},
           NEW v \in {0, Fresh}
    PROVE  Kept(c, Set(c, k, v), {k})
BY DEF Kept, Set, Contents, Fresh, Keys

\* A writer changes nothing but the keys it decides, as long as what a pass
\* puts back is what is there.
LEMMA UpdateKept ==
    ASSUME commits \in Nat, NEW p \in AllScripts, NEW c \in Contents,
           NEW old \in Contents, NEW v \in {0, Fresh},
           p = "provision" => old["mattermost"] = c["mattermost"]
    PROVE  Kept(c, Update(p, c, old, v), Decides(p))
<1>1. CASE p = "config"
  <2>1. Kept(c, Set(c, "operator", v), {"operator"})
    BY SetKept DEF Keys
  <2>2. Set(c, "operator", v) \in Contents
    BY <2>1 DEF Kept
  <2>3. Kept(Set(c, "operator", v), Fill(Set(c, "operator", v), "generated"), {"generated"})
    BY <2>2, FillKept DEF Keys
  <2>4. Update(p, c, old, v) = Fill(Set(c, "operator", v), "generated")
    BY <1>1 DEF Update, ConfigInit
  <2>5. Decides(p) = {"operator", "generated"}
    BY <1>1 DEF Decides
  <2>. DEFINE m == Set(c, "operator", v)
              n == Fill(m, "generated")
  <2>6. \A j \in {"generated", "notion"} : m[j] = c[j]
    BY DEF Set, Contents, Keys
  <2>. HIDE DEF m, n
  <2>7. Kept(c, m, {"operator"}) /\ Kept(m, n, {"generated"})
    BY <2>1, <2>3 DEF m, n
  <2>8. Kept(c, n, {"operator", "generated"})
    BY <2>6, <2>7 DEF Kept
  <2>. QED BY <2>4, <2>5, <2>8 DEF m, n
<1>2. CASE p = "secrets" \/ (p = "key" /\ Head(todo[p]) = "init")
  <2>1. Update(p, c, old, v) = Fill(c, "generated")
    BY <1>2 DEF Update, SecretsInit, DaytonaInit
  <2>2. {"generated"} \subseteq Decides(p)
    BY <1>2 DEF Decides
  <2>3. Kept(c, Fill(c, "generated"), {"generated"})
    BY FillKept DEF Keys
  <2>. QED BY <2>1, <2>2, <2>3 DEF Kept
<1>3. CASE p = "host"
  <2>1. Update(p, c, old, v) = Fill(c, "operator") /\ Decides(p) = {"operator"}
    BY <1>3 DEF Update, HostSeed, Decides
  <2>. QED BY <2>1, FillKept DEF Keys
<1>4. CASE p = "notion"
  <2>1. Update(p, c, old, v) = Fill(c, "notion") /\ Decides(p) = {"notion"}
    BY <1>4 DEF Update, MergeNotion, Decides
  <2>. QED BY <2>1, FillKept DEF Keys
<1>5. CASE p = "provision"
  <2>1. Set(c, "mattermost", old["mattermost"]) = c
    BY <1>5 DEF Set, Contents
  <2>2. Update(p, c, old, v) = Set(c, "router", v)
    BY <1>5, <2>1 DEF Update, ProvisionSave
  <2>3. Decides(p) = {"router"}
    BY <1>5 DEF Decides
  <2>. QED BY <2>2, <2>3, SetKept DEF Keys
<1>6. CASE p = "postgrest"
  <2>1. Update(p, c, old, v) = Set(c, "postgrest", v) /\ Decides(p) = {"postgrest"}
    BY <1>6 DEF Update, PostgrestTokens, Decides
  <2>. QED BY <2>1, SetKept DEF Keys
<1>7. CASE p \in {"cloudflare", "token"}
  <2>1. Update(p, c, old, v) = Set(c, "cloudflare", v) /\ Decides(p) = {"cloudflare"}
    BY <1>7 DEF Update, CloudflareCredentials, TokenBootstrap, Decides
  <2>. QED BY <2>1, SetKept DEF Keys
<1>8. CASE p = "hermes"
  <2>1. Update(p, c, old, v) = Set(c, "mattermost", v) /\ Decides(p) = {"mattermost"}
    BY <1>8 DEF Update, HermesUpdate, Decides
  <2>. QED BY <2>1, SetKept DEF Keys
<1>9. CASE p \in {"images", "acceptance"} \/ (p = "key" /\ Head(todo[p]) # "init")
  <2>1. Update(p, c, old, v) = Set(c, "daytona", v)
    BY <1>9 DEF Update, DaytonaKey, DaytonaImages
  <2>2. {"daytona"} \subseteq Decides(p)
    BY <1>9 DEF Decides
  <2>3. Kept(c, Set(c, "daytona", v), {"daytona"})
    BY SetKept DEF Keys
  <2>. QED BY <2>1, <2>2, <2>3 DEF Kept
<1>. QED BY <1>1, <1>2, <1>3, <1>4, <1>5, <1>6, <1>7, <1>8, <1>9 DEF AllScripts

-----------------------------------------------------------------------------
(* What a step does to the file.                                           *)

\* A content is replaced by a later one: every value that differs is fresh.
Grows ==
    /\ env' \in Contents /\ commits' \in Nat /\ env' = committed'
    /\ \A k \in Keys : env[k] <= env'[k] /\ env'[k] <= commits'
    /\ env' # env => \E k \in Keys : env'[k] > commits
    /\ \A k \in {"generated", "notion"} : env[k] # 0 => env'[k] = env[k]
    /\ "provision" \in Scripts => env'["mattermost"] = env["mattermost"]

LEMMA SameContent ==
    ASSUME ConfigInv, UNCHANGED <<env, committed, commits>>
    PROVE  Grows
BY DEF ConfigInv, ConfigTypeOK, UpdatesSurvive, Bounded, Contents, Grows

\* A content in which the keys K are fresh or as they were is a later one.
LEMMA FreshGrows ==
    ASSUME ConfigInv, NEW K \in SUBSET Keys, Kept(env, env', K), env' = committed',
           commits' = IF \E k \in Keys : env'[k] = Fresh THEN Fresh ELSE commits,
           "provision" \in Scripts => "mattermost" \notin K
    PROVE  Grows
<1>1. env \in Contents /\ commits \in Nat /\ env' \in Contents
  BY DEF ConfigInv, ConfigTypeOK, Kept
<1>2. \A k \in Keys : env[k] \in Nat /\ env'[k] \in Nat /\ env[k] <= commits
  BY <1>1 DEF Contents, ConfigInv, Bounded
<1>3. \A k \in Keys : env'[k] = env[k] \/ env'[k] = commits + 1
  BY DEF Kept, Fresh
<1>4. env' # env => \E k \in Keys : env'[k] = commits + 1
  BY <1>1, <1>3 DEF Contents
<1>5. commits' \in Nat /\ commits <= commits'
      /\ \A k \in Keys : env'[k] = commits + 1 => commits' = commits + 1
  BY <1>1 DEF Fresh
<1>6. "provision" \in Scripts => env'["mattermost"] = env["mattermost"]
  BY DEF Kept, Keys
<1>7. \A k \in {"generated", "notion"} : env[k] # 0 => env'[k] = env[k]
  BY DEF Kept
<1>8. \A k \in Keys : env[k] <= env'[k] /\ env'[k] <= commits'
  BY <1>1, <1>2, <1>3, <1>5
<1>9. env' # env => \E k \in Keys : env'[k] > commits
  BY <1>1, <1>4
<1>. QED BY <1>1, <1>5, <1>6, <1>7, <1>8, <1>9 DEF Grows

LEMMA CommitGrows ==
    ASSUME NoStaleSave, ConfigInv, NEW p \in Scripts, Commit(p)
    PROVE  Grows
<1>1. snap[p] = env /\ seen[p] \in Contents /\ env \in Contents /\ commits \in Nat
  BY DEF Commit, ConfigInv, SnapshotHolds, ConfigTypeOK
<1>2. p = "provision" => seen[p]["mattermost"] = env["mattermost"]
  BY DEF Commit, ConfigInv, PassHolds
<1>3. PICK v \in {0, Fresh} :
          /\ env' = Update(p, env, seen[p], v)
          /\ committed' = Decided(p, env, env')
          /\ commits' = IF \E k \in Keys : env'[k] = Fresh THEN Fresh ELSE commits
  BY <1>1 DEF Commit
<1>4. p \in AllScripts
  BY ConfigAssumption
<1>5. Kept(env, env', Decides(p))
  BY <1>1, <1>2, <1>3, <1>4, UpdateKept
<1>6. Decides(p) \in SUBSET Keys
  BY <1>4 DEF Decides, Keys, AllScripts
<1>7. env' = committed'
  <2>1. env = committed
    BY DEF ConfigInv, UpdatesSurvive
  <2>2. \A k \in Keys : committed'[k] = env'[k]
    BY <1>3, <1>5, <2>1 DEF Decided, Kept
  <2>. QED BY <1>3, <1>5, <2>2 DEF Decided, Kept, Contents
<1>8. "provision" \in Scripts => "mattermost" \notin Decides(p)
  BY <1>4 DEF NoStaleSave, Decides, AllScripts
<1>. QED BY <1>3, <1>5, <1>6, <1>7, <1>8, FreshGrows

LEMMA GenerateGrows ==
    ASSUME ConfigInv, NEW p \in Scripts, Generate(p)
    PROVE  Grows
<1>1. snap[p] = env /\ env \in Contents /\ commits \in Nat /\ committed = env
  BY DEF Generate, ConfigInv, SnapshotHolds, ConfigTypeOK, UpdatesSurvive
<1>. DEFINE new == Fill(env, "generated")
<1>2. Kept(env, new, {"generated"})
  BY <1>1, FillKept DEF Keys
<1>3. /\ env' = IF new = env THEN env ELSE new
      /\ commits' = IF new = env THEN commits ELSE Fresh
      /\ committed' = IF new = env THEN committed
                      ELSE [committed EXCEPT !["generated"] = new["generated"]]
  BY <1>1 DEF Generate
<1>4. CASE new = env
  BY <1>3, <1>4, SameContent
<1>5. CASE new # env
  <2>1. env["generated"] = 0 /\ new = [env EXCEPT !["generated"] = Fresh]
    BY <1>1, <1>5 DEF Fill
  <2>2. new["generated"] = Fresh
    BY <1>1, <2>1 DEF Contents, Keys
  <2>3. env' = new /\ commits' = Fresh /\ committed' = new
    BY <1>1, <1>3, <1>5, <2>1, <2>2
  <2>4. \E k \in Keys : env'[k] = Fresh
    BY <2>2, <2>3 DEF Keys
  <2>5. {"generated"} \in SUBSET Keys
    BY DEF Keys
  <2>. HIDE DEF new
  <2>. QED BY <1>2, <2>3, <2>4, <2>5, FreshGrows
<1>. QED BY <1>4, <1>5

LEMMA FileGrows ==
    ASSUME NoStaleSave, ConfigInv, [Next]_vars
    PROVE  Grows
<1>1. CASE \E p \in Scripts : Commit(p)
  BY <1>1, CommitGrows
<1>2. CASE \E p \in Scripts : Generate(p)
  BY <1>2, GenerateGrows
<1>3. CASE UNCHANGED <<env, committed, commits>>
  BY <1>3, SameContent
<1>4. (\E p \in Scripts : Commit(p) \/ Generate(p)) \/ UNCHANGED <<env, committed, commits>>
  BY DEF Next, Step, Start, Acquire, AcquireOfd, Load, Refuse, RenderRead, Project,
         WriteManifest, Audit, Snapshot, NextSection, Produce, HashAfter, Finish,
         Fail, Orphan, Timeout, vars
<1>. QED BY <1>1, <1>2, <1>3, <1>4

\* The manifest names a content that has been; a content that replaces the
\* present one never was, so that an old manifest does not name it.
LEMMA ManifestStaysPast ==
    ASSUME ConfigInv, Grows, UNCHANGED <<manifest, proj>>
    PROVE  AtMost(manifest, env)' /\ ManifestMeansRendered'
<1>1. /\ manifest \in Contents /\ env \in Contents /\ env' \in Contents
      /\ commits \in Nat
      /\ AtMost(manifest, env) /\ Bounded
  BY DEF ConfigInv, ConfigTypeOK, Grows
<1>2. \A k \in Keys : manifest[k] <= env'[k]
  BY <1>1 DEF Grows, AtMost, Contents
<1>3. manifest = env' => env' = env
  BY <1>1 DEF Grows, AtMost, Bounded, Contents
<1>. QED BY <1>2, <1>3 DEF AtMost, ManifestMeansRendered, ConfigInv

-----------------------------------------------------------------------------
(* What a step does to the scripts.                                        *)

\* A script ends, well or not, and its locks go with its descriptors.
Quits(p) ==
    /\ pc' = [pc EXCEPT ![p] = "idle"]
    /\ Forget(p)
    /\ Close(p) \/ (UNCHANGED lockVars /\ pc[p] \notin Inside)
    /\ pc[p] \in Inside \/ UNCHANGED env
    /\ UNCHANGED <<proj, manifest>>

\* The steps after which the script goes on.
GoesOn(p) ==
    \/ Start(p) \/ Acquire(p) \/ AcquireOfd(p) \/ Load(p) \/ Commit(p) \/ RenderRead(p)
    \/ Project(p) \/ WriteManifest(p) \/ Snapshot(p) \/ Produce(p) \/ Orphan(p)
    \/ Generate(p) /\ pc' = [pc EXCEPT ![p] = "rendering"]
    \/ Audit(p) /\ pc' = [pc EXCEPT ![p] = "ended"]
    \/ NextSection(p) /\ pc' = [pc EXCEPT ![p] = "locked"]
    \/ NextSection(p) /\ pc' = [pc EXCEPT ![p] = "waiting"]
    \/ HashAfter(p) /\ pc' = [pc EXCEPT ![p] = "bound"]

LEMMA StepKinds ==
    ASSUME [Next]_vars
    PROVE  UNCHANGED vars \/ \E p \in Scripts : Quits(p) \/ GoesOn(p)
<1>1. ASSUME NEW p \in Scripts, Refuse(p) \/ Finish(p) \/ Fail(p) \/ Timeout(p)
      PROVE  Quits(p)
  BY <1>1 DEF Refuse, Finish, Fail, Timeout, Quits, Inside
<1>2. ASSUME NEW p \in Scripts, Generate(p)
      PROVE  Quits(p) \/ GoesOn(p)
  BY <1>2 DEF Generate, Quits, GoesOn, Inside
<1>3. ASSUME NEW p \in Scripts, Audit(p)
      PROVE  Quits(p) \/ GoesOn(p)
  BY <1>3 DEF Audit, Quits, GoesOn
<1>4. ASSUME NEW p \in Scripts, NextSection(p)
      PROVE  Quits(p) \/ GoesOn(p)
  BY <1>4 DEF NextSection, Quits, GoesOn
<1>5. ASSUME NEW p \in Scripts, HashAfter(p)
      PROVE  Quits(p) \/ GoesOn(p)
  BY <1>5 DEF HashAfter, Quits, GoesOn, Inside
<1>. QED BY <1>1, <1>2, <1>3, <1>4, <1>5 DEF Next, Step, GoesOn

\* The variables keep their types.
LEMMA TypeStep ==
    ASSUME NoStaleSave, ConfigInv, [Next]_vars
    PROVE  ConfigTypeOK'
<1>. USE NoneIsNoScript
<1>0. /\ ConfigTypeOK
      /\ env' \in Contents /\ committed' \in Contents /\ commits' \in Nat
      /\ {starts, kills}' \subseteq Nat
      /\ Blank \in Contents /\ Projections \in Nat
  <2>1. ConfigTypeOK /\ Grows
    BY FileGrows DEF ConfigInv
  <2>2. {starts, kills}' \subseteq Nat
    BY <2>1 DEF ConfigTypeOK, Next, Step, Start, Acquire, AcquireOfd, Load, Refuse, Commit,
                Generate, RenderRead, Project, WriteManifest, Audit, Snapshot, NextSection,
                Produce, HashAfter, Finish, Fail, Orphan, Timeout, vars, counters
  <2>. QED BY <2>1, <2>2, ConfigAssumption DEF Grows, Blank, Contents
<1>1. ASSUME NEW p \in Scripts, Quits(p) \/ GoesOn(p)
      PROVE  ConfigTypeOK'
  <2>1. CASE Quits(p)
    BY <2>1, <1>0 DEF Quits, Close, Forget, lockVars, ConfigTypeOK
  <2>2. CASE Start(p)
    BY <2>2, <1>0 DEF Start, lockVars, counters, ConfigTypeOK
  <2>3. CASE Acquire(p)
    BY <2>3, <1>0 DEF Acquire, lockVars, counters, ConfigTypeOK
  <2>4. CASE AcquireOfd(p)
    BY <2>4, <1>0 DEF AcquireOfd, lockVars, counters, ConfigTypeOK
  <2>5. CASE Load(p)
    BY <2>5, <1>0 DEF Load, lockVars, counters, ConfigTypeOK
  <2>6. CASE Commit(p)
    BY <2>6, <1>0 DEF Commit, lockVars, counters, ConfigTypeOK
  <2>7. CASE RenderRead(p)
    BY <2>7, <1>0 DEF RenderRead, lockVars, counters, ConfigTypeOK
  <2>8. CASE Project(p)
    BY <2>8, <1>0 DEF Project, lockVars, counters, ConfigTypeOK
  <2>9. CASE WriteManifest(p)
    BY <2>9, <1>0 DEF WriteManifest, lockVars, counters, ConfigTypeOK
  <2>10. CASE Snapshot(p)
    BY <2>10, <1>0 DEF Snapshot, lockVars, counters, ConfigTypeOK
  <2>11. CASE Produce(p)
    BY <2>11, <1>0 DEF Produce, lockVars, counters, ConfigTypeOK
  <2>12. CASE Orphan(p)
    BY <2>12, <1>0 DEF Orphan, lockVars, counters, ConfigTypeOK
  <2>13. CASE Generate(p) /\ pc' = [pc EXCEPT ![p] = "rendering"]
    BY <2>13, <1>0 DEF Generate, Forget, lockVars, counters, ConfigTypeOK
  <2>14. CASE Audit(p) /\ pc' = [pc EXCEPT ![p] = "ended"]
    BY <2>14, <1>0 DEF Audit, Forget, lockVars, counters, ConfigTypeOK
  <2>15. CASE NextSection(p) /\ pc' = [pc EXCEPT ![p] = "locked"]
    BY <2>15, <1>0 DEF NextSection, Close, Forget, lockVars, counters, ConfigTypeOK
  <2>16. CASE NextSection(p) /\ pc' = [pc EXCEPT ![p] = "waiting"]
    BY <2>16, <1>0 DEF NextSection, Close, Forget, lockVars, counters, ConfigTypeOK
  <2>17. CASE HashAfter(p) /\ pc' = [pc EXCEPT ![p] = "bound"]
    BY <2>17, <1>0 DEF HashAfter, Forget, lockVars, counters, ConfigTypeOK
  <2>. QED BY <1>1, <2>1, <2>2, <2>3, <2>4, <2>5, <2>6, <2>7, <2>8, <2>9, <2>10, <2>11,
           <2>12, <2>13, <2>14, <2>15, <2>16, <2>17 DEF GoesOn
<1>2. CASE UNCHANGED vars
  BY <1>2 DEF vars, ConfigTypeOK, ConfigInv
<1>. QED BY <1>1, <1>2, StepKinds

\* Nobody enters while another has the lock.
LEMMA ExclusiveStep ==
    ASSUME NoStaleSave, ConfigInv, [Next]_vars
    PROVE  Exclusive'
<1>0. ConfigTypeOK /\ Exclusive /\ None \notin Scripts
  BY NoneIsNoScript DEF ConfigInv
<1>1. ASSUME NEW p \in Scripts, Quits(p) \/ GoesOn(p)
      PROVE  Exclusive'
  <2>1. CASE Quits(p)
    BY <2>1, <1>0 DEF Quits, Close, Forget, lockVars, ConfigTypeOK, Exclusive, Inside
  <2>2. CASE Start(p)
    BY <2>2, <1>0 DEF Start, lockVars, counters, ConfigTypeOK, Exclusive, Inside
  <2>3. CASE Acquire(p)
    BY <2>3, <1>0 DEF Acquire, lockVars, counters, ConfigTypeOK, Exclusive, Inside
  <2>4. CASE AcquireOfd(p)
    BY <2>4, <1>0 DEF AcquireOfd, lockVars, counters, ConfigTypeOK, Exclusive, Inside
  <2>5. CASE Load(p)
    BY <2>5, <1>0 DEF Load, lockVars, counters, ConfigTypeOK, Exclusive, Inside
  <2>6. CASE Commit(p)
    BY <2>6, <1>0 DEF Commit, lockVars, counters, ConfigTypeOK, Exclusive, Inside
  <2>7. CASE RenderRead(p)
    BY <2>7, <1>0 DEF RenderRead, lockVars, counters, ConfigTypeOK, Exclusive, Inside
  <2>8. CASE Project(p)
    BY <2>8, <1>0 DEF Project, lockVars, counters, ConfigTypeOK, Exclusive, Inside
  <2>9. CASE WriteManifest(p)
    BY <2>9, <1>0 DEF WriteManifest, lockVars, counters, ConfigTypeOK, Exclusive, Inside
  <2>10. CASE Snapshot(p)
    BY <2>10, <1>0 DEF Snapshot, lockVars, counters, ConfigTypeOK, Exclusive, Inside
  <2>11. CASE Produce(p)
    BY <2>11, <1>0 DEF Produce, lockVars, counters, ConfigTypeOK, Exclusive, Inside
  <2>12. CASE Orphan(p)
    BY <2>12, <1>0 DEF Orphan, lockVars, counters, ConfigTypeOK, Exclusive, Inside
  <2>13. CASE Generate(p) /\ pc' = [pc EXCEPT ![p] = "rendering"]
    BY <2>13, <1>0 DEF Generate, Forget, lockVars, counters, ConfigTypeOK, Exclusive, Inside
  <2>14. CASE Audit(p) /\ pc' = [pc EXCEPT ![p] = "ended"]
    BY <2>14, <1>0 DEF Audit, Forget, lockVars, counters, ConfigTypeOK, Exclusive, Inside
  <2>15. CASE NextSection(p) /\ pc' = [pc EXCEPT ![p] = "locked"]
    BY <2>15, <1>0 DEF NextSection, Close, Forget, lockVars, counters, ConfigTypeOK, Exclusive, Inside
  <2>16. CASE NextSection(p) /\ pc' = [pc EXCEPT ![p] = "waiting"]
    BY <2>16, <1>0 DEF NextSection, Close, Forget, lockVars, counters, ConfigTypeOK, Exclusive, Inside
  <2>17. CASE HashAfter(p) /\ pc' = [pc EXCEPT ![p] = "bound"]
    BY <2>17, <1>0 DEF HashAfter, Forget, lockVars, counters, ConfigTypeOK, Exclusive, Inside
  <2>. QED BY <1>1, <2>1, <2>2, <2>3, <2>4, <2>5, <2>6, <2>7, <2>8, <2>9, <2>10, <2>11,
           <2>12, <2>13, <2>14, <2>15, <2>16, <2>17 DEF GoesOn
<1>2. CASE UNCHANGED vars
  BY <1>2 DEF vars, Exclusive, ConfigInv
<1>. QED BY <1>1, <1>2, StepKinds

\* While a script holds what it has read, nobody else replaces the file.
LEMMA SnapshotStep ==
    ASSUME NoStaleSave, ConfigInv, [Next]_vars
    PROVE  SnapshotHolds'
<1>0. ConfigTypeOK /\ Exclusive /\ SnapshotHolds
  BY DEF ConfigInv
<1>1. ASSUME NEW p \in Scripts, Quits(p) \/ GoesOn(p)
      PROVE  SnapshotHolds'
  <2>1. CASE Quits(p)
    BY <2>1, <1>0 DEF Quits, Close, Forget, lockVars, ConfigTypeOK, Exclusive, Inside, SnapshotHolds
  <2>2. CASE Start(p)
    BY <2>2, <1>0 DEF Start, lockVars, counters, ConfigTypeOK, Exclusive, Inside, SnapshotHolds
  <2>3. CASE Acquire(p)
    BY <2>3, <1>0 DEF Acquire, lockVars, counters, ConfigTypeOK, Exclusive, Inside, SnapshotHolds
  <2>4. CASE AcquireOfd(p)
    BY <2>4, <1>0 DEF AcquireOfd, lockVars, counters, ConfigTypeOK, Exclusive, Inside, SnapshotHolds
  <2>5. CASE Load(p)
    BY <2>5, <1>0 DEF Load, lockVars, counters, ConfigTypeOK, Exclusive, Inside, SnapshotHolds
  <2>6. CASE Commit(p)
    BY <2>6, <1>0 DEF Commit, lockVars, counters, ConfigTypeOK, Exclusive, Inside, SnapshotHolds
  <2>7. CASE RenderRead(p)
    BY <2>7, <1>0 DEF RenderRead, lockVars, counters, ConfigTypeOK, Exclusive, Inside, SnapshotHolds
  <2>8. CASE Project(p)
    BY <2>8, <1>0 DEF Project, lockVars, counters, ConfigTypeOK, Exclusive, Inside, SnapshotHolds
  <2>9. CASE WriteManifest(p)
    BY <2>9, <1>0 DEF WriteManifest, lockVars, counters, ConfigTypeOK, Exclusive, Inside, SnapshotHolds
  <2>10. CASE Snapshot(p)
    BY <2>10, <1>0 DEF Snapshot, lockVars, counters, ConfigTypeOK, Exclusive, Inside, SnapshotHolds
  <2>11. CASE Produce(p)
    BY <2>11, <1>0 DEF Produce, lockVars, counters, ConfigTypeOK, Exclusive, Inside, SnapshotHolds
  <2>12. CASE Orphan(p)
    BY <2>12, <1>0 DEF Orphan, lockVars, counters, ConfigTypeOK, Exclusive, Inside, SnapshotHolds
  <2>13. CASE Generate(p) /\ pc' = [pc EXCEPT ![p] = "rendering"]
    BY <2>13, <1>0 DEF Generate, Forget, lockVars, counters, ConfigTypeOK, Exclusive, Inside, SnapshotHolds
  <2>14. CASE Audit(p) /\ pc' = [pc EXCEPT ![p] = "ended"]
    BY <2>14, <1>0 DEF Audit, Forget, lockVars, counters, ConfigTypeOK, Exclusive, Inside, SnapshotHolds
  <2>15. CASE NextSection(p) /\ pc' = [pc EXCEPT ![p] = "locked"]
    BY <2>15, <1>0 DEF NextSection, Close, Forget, lockVars, counters, ConfigTypeOK, Exclusive, Inside, SnapshotHolds
  <2>16. CASE NextSection(p) /\ pc' = [pc EXCEPT ![p] = "waiting"]
    BY <2>16, <1>0 DEF NextSection, Close, Forget, lockVars, counters, ConfigTypeOK, Exclusive, Inside, SnapshotHolds
  <2>17. CASE HashAfter(p) /\ pc' = [pc EXCEPT ![p] = "bound"]
    BY <2>17, <1>0 DEF HashAfter, Forget, lockVars, counters, ConfigTypeOK, Exclusive, Inside, SnapshotHolds
  <2>. QED BY <1>1, <2>1, <2>2, <2>3, <2>4, <2>5, <2>6, <2>7, <2>8, <2>9, <2>10, <2>11,
           <2>12, <2>13, <2>14, <2>15, <2>16, <2>17 DEF GoesOn
<1>2. CASE UNCHANGED vars
  BY <1>2 DEF vars, SnapshotHolds, ConfigInv
<1>. QED BY <1>1, <1>2, StepKinds

\* A render replaces the projections in their order, and only one runs.
LEMMA RenderedStep ==
    ASSUME NoStaleSave, ConfigInv, [Next]_vars
    PROVE  Rendered'
<1>0. ConfigTypeOK /\ Exclusive /\ Rendered
  BY DEF ConfigInv
<1>1. ASSUME NEW p \in Scripts, Quits(p) \/ GoesOn(p)
      PROVE  Rendered'
  <2>1. CASE Quits(p)
    BY <2>1, <1>0 DEF Quits, Close, Forget, lockVars, ConfigTypeOK, Exclusive, Inside, Rendered
  <2>2. CASE Start(p)
    BY <2>2, <1>0 DEF Start, lockVars, counters, ConfigTypeOK, Exclusive, Inside, Rendered
  <2>3. CASE Acquire(p)
    BY <2>3, <1>0 DEF Acquire, lockVars, counters, ConfigTypeOK, Exclusive, Inside, Rendered
  <2>4. CASE AcquireOfd(p)
    BY <2>4, <1>0 DEF AcquireOfd, lockVars, counters, ConfigTypeOK, Exclusive, Inside, Rendered
  <2>5. CASE Load(p)
    BY <2>5, <1>0 DEF Load, lockVars, counters, ConfigTypeOK, Exclusive, Inside, Rendered
  <2>6. CASE Commit(p)
    BY <2>6, <1>0 DEF Commit, lockVars, counters, ConfigTypeOK, Exclusive, Inside, Rendered
  <2>7. CASE RenderRead(p)
    BY <2>7, <1>0 DEF RenderRead, lockVars, counters, ConfigTypeOK, Exclusive, Inside, Rendered
  <2>8. CASE Project(p)
    <3>1. /\ pc' = pc /\ snap' = snap
          /\ written' = [written EXCEPT ![p] = @ + 1]
          /\ proj' = [proj EXCEPT ![written[p] + 1] = snap[p]]
          /\ pc[p] = "rendering" /\ written[p] < Projections
      BY <2>8 DEF Project
    <3>2. written[p] \in Nat /\ written[p] + 1 \in 1 .. Projections
      BY <1>0, <3>1, ConfigAssumption DEF ConfigTypeOK
    <3>3. \A i \in 1 .. written[p] + 1 : proj'[i] = snap[p]
      BY <1>0, <3>1, <3>2, ConfigAssumption DEF ConfigTypeOK, Rendered
    <3>4. \A q \in Scripts \ {p} : pc[q] # "rendering"
      BY <1>0, <3>1 DEF Exclusive, Inside
    <3>. QED BY <1>0, <3>1, <3>2, <3>3, <3>4 DEF ConfigTypeOK, Rendered
  <2>9. CASE WriteManifest(p)
    BY <2>9, <1>0 DEF WriteManifest, lockVars, counters, ConfigTypeOK, Exclusive, Inside, Rendered
  <2>10. CASE Snapshot(p)
    BY <2>10, <1>0 DEF Snapshot, lockVars, counters, ConfigTypeOK, Exclusive, Inside, Rendered
  <2>11. CASE Produce(p)
    BY <2>11, <1>0 DEF Produce, lockVars, counters, ConfigTypeOK, Exclusive, Inside, Rendered
  <2>12. CASE Orphan(p)
    BY <2>12, <1>0 DEF Orphan, lockVars, counters, ConfigTypeOK, Exclusive, Inside, Rendered
  <2>13. CASE Generate(p) /\ pc' = [pc EXCEPT ![p] = "rendering"]
    BY <2>13, <1>0 DEF Generate, Forget, lockVars, counters, ConfigTypeOK, Exclusive, Inside, Rendered
  <2>14. CASE Audit(p) /\ pc' = [pc EXCEPT ![p] = "ended"]
    BY <2>14, <1>0 DEF Audit, Forget, lockVars, counters, ConfigTypeOK, Exclusive, Inside, Rendered
  <2>15. CASE NextSection(p) /\ pc' = [pc EXCEPT ![p] = "locked"]
    BY <2>15, <1>0 DEF NextSection, Close, Forget, lockVars, counters, ConfigTypeOK, Exclusive, Inside, Rendered
  <2>16. CASE NextSection(p) /\ pc' = [pc EXCEPT ![p] = "waiting"]
    BY <2>16, <1>0 DEF NextSection, Close, Forget, lockVars, counters, ConfigTypeOK, Exclusive, Inside, Rendered
  <2>17. CASE HashAfter(p) /\ pc' = [pc EXCEPT ![p] = "bound"]
    BY <2>17, <1>0 DEF HashAfter, Forget, lockVars, counters, ConfigTypeOK, Exclusive, Inside, Rendered
  <2>. QED BY <1>1, <2>1, <2>2, <2>3, <2>4, <2>5, <2>6, <2>7, <2>8, <2>9, <2>10, <2>11,
           <2>12, <2>13, <2>14, <2>15, <2>16, <2>17 DEF GoesOn
<1>2. CASE UNCHANGED vars
  BY <1>2 DEF vars, Rendered, ConfigInv
<1>. QED BY <1>1, <1>2, StepKinds

\* What a pass saves as it found it is what is there.
LEMMA PassStep ==
    ASSUME NoStaleSave, ConfigInv, [Next]_vars
    PROVE  PassHolds'
<1>0. PassHolds /\ ConfigTypeOK /\ Grows
  BY FileGrows DEF ConfigInv
<1>. SUFFICES ASSUME "provision" \in Scripts, pc'["provision"] # "idle"
              PROVE  seen'["provision"]["mattermost"] = env'["mattermost"]
  BY DEF PassHolds
<1>. DEFINE p == "provision"
<1>1. env'["mattermost"] = env["mattermost"]
  BY <1>0 DEF Grows
<1>2. CASE Start(p)
  BY <1>0, <1>1, <1>2 DEF Start, ReadsFirst, ConfigTypeOK
<1>3. CASE Snapshot(p)
  BY <1>0, <1>1, <1>3 DEF Snapshot, ConfigTypeOK
<1>4. CASE \E q \in Scripts \ {p} : Quits(q) \/ GoesOn(q)
  <2>1. seen'[p] = seen[p] /\ pc'[p] = pc[p]
    BY <1>0, <1>4 DEF Quits, GoesOn, Forget, ConfigTypeOK, Start, Acquire, AcquireOfd, Load,
          Commit, RenderRead, Project, WriteManifest, Snapshot, Produce, Orphan, Generate,
          Audit, NextSection, HashAfter
  <2>. QED BY <1>0, <1>1, <2>1 DEF PassHolds
<1>5. CASE GoesOn(p) /\ ~Start(p) /\ ~Snapshot(p)
  <2>1. pc[p] # "idle" /\ seen'[p] = seen[p]
    BY <1>0, <1>5 DEF GoesOn, Forget, ConfigTypeOK, Start, Acquire, AcquireOfd, Load,
          Commit, RenderRead, Project, WriteManifest, Snapshot, Produce, Orphan, Generate,
          Audit, NextSection, HashAfter, TakesOfd
  <2>. QED BY <1>0, <1>1, <2>1 DEF PassHolds
<1>6. CASE Quits(p)
  BY <1>0, <1>6 DEF Quits, ConfigTypeOK
<1>7. CASE UNCHANGED vars
  BY <1>0, <1>7 DEF PassHolds, vars
<1>. QED BY <1>2, <1>3, <1>4, <1>5, <1>6, <1>7, StepKinds

\* The reads of a producer follow each other, and contents only grow.
LEMMA OrderedStep ==
    ASSUME NoStaleSave, ConfigInv, [Next]_vars
    PROVE  Ordered' /\ HashBoundIsExact'
<1>0. Ordered /\ HashBoundIsExact /\ ConfigTypeOK /\ Grows /\ ConfigTypeOK'
  BY FileGrows, TypeStep DEF ConfigInv
<1>1. /\ env \in Contents /\ env' \in Contents /\ AtMost(env, env')
      /\ \A p \in Scripts : seen[p] \in Contents /\ snap[p] \in Contents
  BY <1>0 DEF ConfigTypeOK, Grows, AtMost
<1>2. \A c, d, e \in Contents : AtMost(c, d) /\ AtMost(d, e) => AtMost(c, e)
  BY DEF AtMost, Contents
<1>3. \A c, d \in Contents : AtMost(c, d) /\ AtMost(d, c) => c = d
  BY DEF AtMost, Contents
<1>4. \A c \in Contents : AtMost(c, c)
  BY DEF AtMost, Contents
<1>. DEFINE Reads(q) ==
       /\ pc[q] = "before" => AtMost(seen[q], env)
       /\ pc[q] = "after" => AtMost(seen[q], snap[q]) /\ AtMost(snap[q], env)
       /\ pc[q] = "bound" => snap[q] = seen[q]
<1>5. \A q \in Scripts : Reads(q)
  BY <1>0 DEF Ordered, HashBoundIsExact
<1>. SUFFICES ASSUME NEW q \in Scripts
              PROVE  /\ pc'[q] = "before" => AtMost(seen'[q], env')
                     /\ pc'[q] = "after" => AtMost(seen'[q], snap'[q]) /\ AtMost(snap'[q], env')
                     /\ pc'[q] = "bound" => snap'[q] = seen'[q]
  BY DEF Ordered, HashBoundIsExact, AtMost
<1>6. CASE UNCHANGED <<pc, seen, snap>> \/ UNCHANGED <<pc[q], seen[q], snap[q]>>
  BY <1>0, <1>1, <1>2, <1>5, <1>6
<1>7. CASE pc'[q] \notin {"before", "after", "bound"}
  BY <1>7
<1>8. CASE Start(q)
  BY <1>0, <1>1, <1>4, <1>8 DEF Start, ConfigTypeOK, ReadsFirst
<1>9. CASE Produce(q)
  BY <1>0, <1>1, <1>4, <1>5, <1>9 DEF Produce, ConfigTypeOK
<1>10. CASE HashAfter(q)
  BY <1>0, <1>1, <1>3, <1>5, <1>10 DEF HashAfter, ConfigTypeOK
<1>11. CASE \E p \in Scripts \ {q} : Quits(p) \/ GoesOn(p)
  <2>1. PICK p \in Scripts \ {q} : Quits(p) \/ GoesOn(p)
    BY <1>11
  <2>2. UNCHANGED <<pc[q], seen[q], snap[q]>>
    BY <1>0, <2>1 DEF Quits, GoesOn, Forget, ConfigTypeOK, Start, Acquire, AcquireOfd, Load,
          Commit, RenderRead, Project, WriteManifest, Snapshot, Produce, Orphan, Generate,
          Audit, NextSection, HashAfter
  <2>. QED BY <2>2, <1>6
<1>12. CASE GoesOn(q) /\ ~Start(q) /\ ~Produce(q) /\ ~HashAfter(q)
  <2>1. pc'[q] \notin {"before", "after", "bound"}
    BY <1>0, <1>12 DEF GoesOn, ConfigTypeOK, Acquire, AcquireOfd, Load,
          Commit, RenderRead, Project, WriteManifest, Snapshot, Orphan, Generate,
          Audit, NextSection
  <2>. QED BY <2>1
<1>13. CASE Quits(q)
  BY <1>0, <1>13 DEF Quits, ConfigTypeOK
<1>14. CASE UNCHANGED vars
  BY <1>6, <1>14 DEF vars
<1>. QED BY <1>7, <1>8, <1>9, <1>10, <1>11, <1>12, <1>13, <1>14, StepKinds

\* The manifest never names a content that a projection has not.
LEMMA ManifestStep ==
    ASSUME NoStaleSave, ConfigInv, [Next]_vars
    PROVE  AtMost(manifest, env)' /\ ManifestMeansRendered'
<1>0. ConfigTypeOK /\ SnapshotHolds /\ Rendered /\ ManifestMeansRendered /\ Grows
  BY FileGrows DEF ConfigInv
<1>1. ASSUME NEW p \in Scripts, Project(p)
      PROVE  AtMost(manifest, env)' /\ ManifestMeansRendered'
  <2>1. UNCHANGED <<env, manifest>> /\ proj' = [proj EXCEPT ![written[p] + 1] = env]
    BY <1>0, <1>1 DEF Project, SnapshotHolds
  <2>. QED BY <1>0, <2>1 DEF ConfigInv, ConfigTypeOK, AtMost, ManifestMeansRendered
<1>2. ASSUME NEW p \in Scripts, WriteManifest(p)
      PROVE  AtMost(manifest, env)' /\ ManifestMeansRendered'
  <2>1. manifest' = env /\ UNCHANGED <<env, proj>> /\ \A i \in 1 .. Projections : proj[i] = env
    BY <1>0, <1>2 DEF WriteManifest, SnapshotHolds, Rendered
  <2>. QED BY <1>0, <2>1 DEF ConfigTypeOK, Contents, AtMost, ManifestMeansRendered
<1>3. (\E p \in Scripts : Project(p) \/ WriteManifest(p)) \/ UNCHANGED <<manifest, proj>>
  BY DEF Next, Step, Start, Acquire, AcquireOfd, Load, Refuse, Commit, Generate, RenderRead,
         Audit, Snapshot, NextSection, Produce, HashAfter, Finish, Fail, Orphan, Timeout, vars
<1>. QED BY <1>0, <1>1, <1>2, <1>3, ManifestStaysPast

LEMMA InvInit == Init => ConfigInv
<1>. SUFFICES ASSUME Init PROVE ConfigInv
  OBVIOUS
<1>1. ConfigTypeOK
  BY ConfigAssumption DEF Init, ConfigTypeOK, Contents, Blank
<1>2. Exclusive /\ SnapshotHolds /\ PassHolds /\ Ordered /\ Rendered /\ HashBoundIsExact
  BY DEF Init, Exclusive, Inside, SnapshotHolds, PassHolds, Ordered, Rendered, HashBoundIsExact
<1>3. UpdatesSurvive /\ Bounded /\ AtMost(manifest, env) /\ ManifestMeansRendered
  BY DEF Init, UpdatesSurvive, Bounded, AtMost, ManifestMeansRendered
<1>. QED BY <1>1, <1>2, <1>3 DEF ConfigInv

LEMMA ConfigStep ==
    ASSUME NoStaleSave
    PROVE  ConfigInv /\ [Next]_vars => ConfigInv'
<1>. SUFFICES ASSUME ConfigInv, [Next]_vars PROVE ConfigInv'
  OBVIOUS
<1>1. UpdatesSurvive' /\ Bounded'
  BY FileGrows DEF Grows, UpdatesSurvive, Bounded
<1>. QED BY <1>1, TypeStep, ExclusiveStep, SnapshotStep, PassStep, OrderedStep, RenderedStep,
            ManifestStep DEF ConfigInv

-----------------------------------------------------------------------------
(* The theorems.                                                           *)

\* The variables keep their types.  (server-config.py, every writer)
THEOREM ConfigTyped ==
    ASSUME NoStaleSave
    PROVE  Spec => []ConfigTypeOK
<1>1. Init => ConfigInv
  BY InvInit
<1>2. ConfigInv /\ [Next]_vars => ConfigInv'
  BY ConfigStep
<1>3. ConfigInv => ConfigTypeOK
  BY DEF ConfigInv
<1>. QED BY <1>1, <1>2, <1>3, PTL DEF Spec

\* No update of the canonical file is lost, however many writers overlap, fail
\* or are killed, unless a provisioning pass overlaps the Hermes bootstrap.
\* (the read-modify-write of every writer)
THEOREM NoUpdateIsLost ==
    ASSUME NoStaleSave
    PROVE  Spec => []UpdatesSurvive
<1>1. Init => ConfigInv
  BY InvInit
<1>2. ConfigInv /\ [Next]_vars => ConfigInv'
  BY ConfigStep
<1>3. ConfigInv => UpdatesSurvive
  BY DEF ConfigInv
<1>. QED BY <1>1, <1>2, <1>3, PTL DEF Spec

\* A manifest that names the present content vouches for every projection,
\* after any number of renders cut short.  (server-config.py, _render_locked)
THEOREM ManifestVouches ==
    ASSUME NoStaleSave
    PROVE  Spec => []ManifestMeansRendered
<1>1. Init => ConfigInv
  BY InvInit
<1>2. ConfigInv /\ [Next]_vars => ConfigInv'
  BY ConfigStep
<1>3. ConfigInv => ManifestMeansRendered
  BY DEF ConfigInv
<1>. QED BY <1>1, <1>2, <1>3, PTL DEF Spec

\* Equal hashes before and after a producer mean that it has read that very
\* content: no content ever comes back.  (platform.py, run_canonical_hash_bound)
THEOREM HashesBind ==
    ASSUME NoStaleSave
    PROVE  Spec => []HashBoundIsExact
<1>1. Init => ConfigInv
  BY InvInit
<1>2. ConfigInv /\ [Next]_vars => ConfigInv'
  BY ConfigStep
<1>3. ConfigInv => HashBoundIsExact
  BY DEF ConfigInv
<1>. QED BY <1>1, <1>2, <1>3, PTL DEF Spec

\* A generated secret and a Notion identity never change once they are issued.
\* (server-config.py, init_source; server-secrets.py, init)
THEOREM SecretsStay ==
    ASSUME NoStaleSave
    PROVE  Spec => IssuedStays
<1>1. Init => ConfigInv
  BY InvInit
<1>2. ConfigInv /\ [Next]_vars => ConfigInv'
  BY ConfigStep
<1>3. ConfigInv /\ [Next]_vars =>
          [\A k \in {"generated", "notion"} : env[k] # 0 => env'[k] = env[k]]_vars
  BY FileGrows DEF Grows
<1>. QED BY <1>1, <1>2, <1>3, PTL DEF Spec, IssuedStays

=============================================================================
