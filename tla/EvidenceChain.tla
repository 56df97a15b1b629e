---------------------------- MODULE EvidenceChain ----------------------------
(***************************************************************************)
(* The evidence of a release.  Every producer on the host writes one JSON  *)
(* file: its status, the hash of the canonical file, and the hashes of the *)
(* evidence files it relied on.  What is accepted in the end, and the      *)
(* properties, are in ReleaseVerifier.                                     *)
(*                                                                         *)
(* A command of `platform` runs a sequence of such producers under `set    *)
(* -eu`; nothing serializes the commands of two operators.  A hash is the  *)
(* number of the write that made the content.  The ages of evidence are    *)
(* left out: they only make a reader refuse more.                          *)
(***************************************************************************)
EXTENDS Naturals, Sequences

CONSTANTS
    Operators,    \* those who run commands
    Commands,     \* the commands they run, a subset of AllCommands
    Selections,   \* the canaries named to `integration-canaries run`
    MaxCommands,  \* bound on the commands run
    MaxFaults,    \* bound on live tests that fail and commands that are killed
    MaxChanges    \* bound on changes to the canonical file by others

AllCommands == {"provision_verify", "tools_verify", "kestra_provision",
                "daytona_apply", "daytona_verify", "kestra_canary_apply",
                "kestra_canary_verify", "profile_acceptance", "profile_finalize",
                "observability_acceptance", "integration_canaries",
                "notion_canary", "notion_verify", "evidence_rebind",
                "hermes_acceptance", "cloudflare_acceptance"}

\* C024 stands for C023, C024 and C030, which rely on no other evidence.
Canaries == {"C024", "C027", "C029"}

ASSUME EvidenceAssumption ==
    /\ Commands \subseteq AllCommands
    /\ Selections \subseteq {s \in Seq(Canaries) : s # <<>>}
    /\ MaxCommands \in Nat /\ MaxFaults \in Nat /\ MaxChanges \in Nat

Files == {"images", "lifecycle", "control_plane", "paperclip_verify",
          "profile_reconcile", "profile_access", "kestra_reconcile",
          "kestra_verify", "e2e", "e2e_verify", "indexed", "postgrest",
          "canary", "consumer", "integration", "integration_C029", "account",
          "connector", "hermes", "observability", "cloudflare_semantic",
          "cloudflare_split", "cloudflare"}

\* "cloudflare_split" stands for the files of the single connections.
CloudflareConnections == {"C004", "C005", "C025", "C026", "C029", "C032", "C046",
                          "C060", "C065", "C066", "C067"}

VARIABLES
    ev,      \* the evidence files
    canon,   \* the version of the canonical file
    snapshot, \* the snapshots it names: 0 if none, else the number of the naming
    baked,   \* they are the ones that its own settings ask for
    todo,    \* per operator, what is left of the command
    mem,     \* per operator, what the running producer has read
    calm,    \* ghost: commands never overlapped each other or a change
    commands, faults, changes

vars == <<ev, canon, snapshot, baked, todo, mem, calm, commands, faults, changes>>

None == [f \in {} |-> 0]

\* What one function says, over what another says.
Only(x, v) == [y \in {x} |-> v]
Over(f, g) == [x \in DOMAIN f \cup DOMAIN g |-> IF x \in DOMAIN f THEN f[x] ELSE g[x]]

\* `label` is the canonical hash in the file and `pins` the hashes it records
\* of other files; `snapshot`, in the evidence of Daytona, the snapshots it is
\* about; `values` and `saw` are ghosts: the canonical version that the producer
\* used and the files it looked at without recording them.
Missing == [n |-> 0, ok |-> FALSE, label |-> 0, snapshot |-> 0, values |-> 0,
            pins |-> None, saw |-> None, rows |-> None]

\* What a producer has read: the canonical file and the snapshots it names, `pins`, and
\* `own`, the files its subprocesses wrote; in a run of canaries (`canaries`)
\* also those that are `left`, the rows so far, and that no step of the present
\* one failed (`good`).
Clear == [values |-> 0, snapshot |-> 0, pins |-> None, own |-> None, payload |-> Missing,
          canaries |-> FALSE, left |-> <<>>, good |-> TRUE, rows |-> None]

EvidenceInit ==
    /\ ev = [f \in Files |-> Missing]
    /\ canon = 1 /\ snapshot = 0 /\ baked = FALSE
    /\ todo = [o \in Operators |-> <<>>]
    /\ mem = [o \in Operators |-> Clear]
    /\ calm = TRUE /\ commands = 0 /\ faults = 0 /\ changes = 0

-----------------------------------------------------------------------------
(* What the commands run.                                                  *)

RequireDaytonaDependencies == <<"account", "prepare">>

Provision == <<"postgrest", "connector", "account">>

\* `server-paperclip-experimental.py daytona verify`
Reconcile == <<"reconcile", "probe", "emit">>

\* Mutant: nothing verifies the control plane again.
DaytonaApply_NoVerify ==
    <<"images", "switch", "apply", "lifecycle">> \o Reconcile
    \o RequireDaytonaDependencies

DaytonaApply ==
    <<"images", "switch", "apply", "lifecycle", "verify">> \o Reconcile
    \o RequireDaytonaDependencies

DaytonaVerify ==
    RequireDaytonaDependencies
    \o <<"images", "switch", "lifecycle", "verify">> \o Reconcile
    \o RequireDaytonaDependencies

KestraCanary == <<"e2e", "e2e_end">>

ProfileAcceptance == <<"kestra", "kestra_end", "access", "finalize">>

\* Mutant: each canary makes do with the file of the one before.
PostgrestReference_Reuse == <<"postgrest_check", "postgrest_pin">>

\* The steps of one canary end with its row.
PostgrestReference == <<"postgrest", "postgrest_check", "postgrest_pin">>

\* Mutant: the consumer is verified first.
ProjectionPayload_Swapped == <<"consumer", "canary", "compare", "projection_pin">>

ProjectionPayload == <<"canary", "consumer", "compare", "projection_pin">>

CanarySteps(c) ==
    CASE c = "C027" -> <<"crud">> \o PostgrestReference \o <<c>>
      [] c = "C029" -> ProjectionPayload \o PostgrestReference \o <<c>>
      [] OTHER      -> <<"search", c>>

\* "begin" is given canaries, "begin_all" takes all that are supported.
Integration == <<"begin", "aggregate", "split">>

Supported == <<"C024", "C027", "C029">>

HermesAcceptance == <<"hermes", "hermes_end">>

\* One remote command of four producers under a lock of its own.
ObservabilityAcceptance == <<"indexed">>

CloudflareAcceptance == <<"edge", "cloudflare">>

FinalEvidenceRebind ==
    Provision \o <<"prepare">>
    \o DaytonaApply \o DaytonaVerify \o KestraCanary \o <<"e2e_verify">>
    \o ProfileAcceptance \o <<"begin_all", "aggregate", "split">>
    \o HermesAcceptance
    \o ObservabilityAcceptance \o <<"canary">>

Plans(c) ==
    CASE c = "provision_verify"         -> {Provision \o <<"consumer">>}
      [] c = "tools_verify"             -> {<<"prepare">>}
      [] c = "kestra_provision"         -> {<<"kestra_reconcile">>}
      [] c = "daytona_apply"            -> {DaytonaApply}
      [] c = "daytona_verify"           -> {DaytonaVerify}
      [] c = "kestra_canary_apply"      -> {KestraCanary}
      [] c = "kestra_canary_verify"     -> {<<"e2e_verify">>}
      [] c = "profile_acceptance"       -> {ProfileAcceptance}
      [] c = "profile_finalize"         -> {<<"finalize">>}
      [] c = "observability_acceptance" -> {ObservabilityAcceptance}
      [] c = "integration_canaries"     -> {Integration}
      [] c = "notion_canary"            -> {<<"canary">>}
      [] c = "notion_verify"            -> {<<"consumer">>}
      [] c = "evidence_rebind"          -> {FinalEvidenceRebind}
      [] c = "hermes_acceptance"        -> {HermesAcceptance}
      [] c = "cloudflare_acceptance"    -> {CloudflareAcceptance}

-----------------------------------------------------------------------------
(* Reading and writing evidence.                                           *)

Current(f) == ev[f].n # 0 /\ ev[f].ok /\ ev[f].label = canon

Hash(fs) == [f \in fs |-> ev[f].n]
Holds(pins) == pins = Hash(DOMAIN pins)

Write(f, e) == ev' = [ev EXCEPT ![f] = [e EXCEPT !.n = ev[f].n + 1]]

WriteAll(fs, e) ==
    ev' = [f \in Files |-> IF f \in fs THEN [e EXCEPT !.n = ev[f].n + 1] ELSE ev[f]]

Document(ok) == [Missing EXCEPT !.ok = ok, !.label = canon, !.values = canon]

\* Evidence of a producer that read the canonical file when it began.
Begun(o, ok) ==
    [Document(ok) EXCEPT !.label = mem[o].values, !.values = mem[o].values,
                         !.pins = mem[o].pins]

\* A step of a command: it goes on to the next; or it fails, which in a run of
\* canaries makes a failed row, and otherwise ends the command.
At(o, step) == todo[o] # <<>> /\ Head(todo[o]) = step

Goes(o) == todo' = [todo EXCEPT ![o] = Tail(@)] /\ UNCHANGED faults
Stops(o) ==
    IF mem[o].canaries
    THEN /\ \E i \in DOMAIN todo[o] :
               /\ todo[o][i] \in Canaries
               /\ todo' = [todo EXCEPT ![o] = SubSeq(@, i, Len(@))]
         /\ mem' = [mem EXCEPT ![o].good = FALSE]
    ELSE todo' = [todo EXCEPT ![o] = <<>>] /\ mem' = [mem EXCEPT ![o] = Clear]
Refused(o) == Stops(o) /\ UNCHANGED faults
TestFails(o) == faults < MaxFaults /\ faults' = faults + 1 /\ Stops(o)

Elsewhere == UNCHANGED <<canon, snapshot, baked, calm, commands, changes>>

-----------------------------------------------------------------------------
(* The Daytona step and the native runtime that Paperclip runs in it.      *)

\* The images are built under the canonical lock, which is held until the
\* canonical file names them; then their evidence is labelled anew.
Locked == \E o \in Operators : At(o, "switch")

\* Evidence about the snapshots that the canonical file names.
Named(d) == [d EXCEPT !.snapshot = snapshot]

Images(o) ==
    /\ At(o, "images") /\ ~Locked
    /\ \/ Write("images", Document(TRUE)) /\ Goes(o) /\ UNCHANGED mem
       \/ UNCHANGED ev /\ TestFails(o)
    /\ Elsewhere

Switch(o) ==
    /\ At(o, "switch")
    /\ IF baked THEN UNCHANGED <<canon, snapshot>>
       ELSE canon' = canon + 1 /\ snapshot' = snapshot + 1
    /\ baked' = TRUE
    /\ Write("images", [Document(TRUE) EXCEPT !.label = canon', !.values = canon',
                                             !.snapshot = snapshot'])
    /\ Goes(o) /\ UNCHANGED <<mem, calm, commands, changes>>

Lifecycle(o) ==
    /\ At(o, "lifecycle")
    /\ \/ baked /\ Write("lifecycle", Named(Document(TRUE))) /\ Goes(o) /\ UNCHANGED mem
       \/ ~baked /\ UNCHANGED ev /\ Refused(o)
       \/ UNCHANGED ev /\ TestFails(o)
    /\ Elsewhere

\* The control plane's evidence names the two files it checked, not their hashes.
DaytonaStepVerify(o) ==
    LET ready == Current("images") /\ Current("lifecycle") IN
    /\ At(o, "verify")
    /\ \/ /\ ready /\ Goes(o) /\ UNCHANGED mem
          /\ Write("control_plane",
                   [Document(TRUE) EXCEPT !.saw = Hash({"images", "lifecycle"})])
       \/ ~ready /\ UNCHANGED ev /\ Refused(o)
       \/ UNCHANGED ev /\ TestFails(o)
    /\ Elsewhere

\* Paperclip is given its plugin, secret, environment and agents; the evidence of
\* that is in a file that nobody reads.
ReconcileApply(o) ==
    /\ At(o, "apply")
    /\ (snapshot # 0 /\ Goes(o) /\ UNCHANGED mem) \/ (snapshot = 0 /\ Refused(o)) \/ TestFails(o)
    /\ UNCHANGED ev /\ Elsewhere

\* It compares Paperclip with the canonical file as it is at this moment, if that
\* names a snapshot.  A failed reconciliation is evidence too.
Unreconciled(o) ==
    /\ Write("paperclip_verify", Document(FALSE))
    /\ TestFails(o)

ReconcileDaytona(o) ==
    /\ At(o, "reconcile")
    /\ \/ /\ snapshot # 0 /\ UNCHANGED ev /\ Goes(o)
          /\ mem' = [mem EXCEPT ![o].values = canon, ![o].snapshot = snapshot]
       \/ snapshot = 0 /\ Write("paperclip_verify", Document(FALSE)) /\ Refused(o)
       \/ Unreconciled(o)
    /\ Elsewhere

\* Each agent's environment is tried, in a sandbox that is removed again.
Probe(o) ==
    /\ At(o, "probe")
    /\ (UNCHANGED ev /\ Goes(o) /\ UNCHANGED mem) \/ Unreconciled(o)
    /\ Elsewhere

Runtime == {"control_plane", "images", "lifecycle"}

\* What the references are of is compared with the values read at the beginning.
EvidenceReferences(o) ==
    /\ \A f \in Runtime : Current(f)
    /\ \A f \in {"images", "lifecycle"} : ev[f].snapshot = mem[o].snapshot

\* No sandbox of the probes is left.  The hash is of the canonical file as it is now.
Emit(o) ==
    /\ At(o, "emit")
    /\ \/ /\ EvidenceReferences(o)
          /\ Write("paperclip_verify",
                   [Begun(o, TRUE) EXCEPT !.label = canon, !.snapshot = mem[o].snapshot,
                                          !.pins = Hash(Runtime)])
          /\ Goes(o) /\ mem' = [mem EXCEPT ![o] = Clear]
       \/ /\ ~EvidenceReferences(o)
          /\ Write("paperclip_verify", Document(FALSE)) /\ Refused(o)
       \/ Unreconciled(o)
    /\ Elsewhere

-----------------------------------------------------------------------------
(* The profiles: their reconciliation is only "prepared" until their use   *)
(* from a runner has been proved, by the end-to-end canary.                *)

Prepare(o) ==
    /\ At(o, "prepare")
    /\ Write("profile_reconcile", Document(FALSE))
    /\ (Goes(o) /\ UNCHANGED mem) \/ TestFails(o)
    /\ Elsewhere

KestraReconcile(o) ==
    /\ At(o, "kestra_reconcile")
    /\ \/ Write("kestra_reconcile", Document(TRUE)) /\ Goes(o) /\ UNCHANGED mem
       \/ UNCHANGED ev /\ TestFails(o)
    /\ Elsewhere

\* Mutant: the subject may be of any canonical file.
ReadProvisionSubject_AnyHash == ev["kestra_reconcile"].ok

ReadProvisionSubject == Current("kestra_reconcile")

KestraVerify(o) ==
    /\ At(o, "kestra")
    /\ \/ /\ ReadProvisionSubject /\ Goes(o)
          /\ mem' = [mem EXCEPT ![o].values = canon,
                                ![o].pins = Hash({"kestra_reconcile"})]
       \/ ~ReadProvisionSubject /\ Refused(o)
    /\ UNCHANGED ev /\ Elsewhere

KestraVerified(o) ==
    /\ At(o, "kestra_end")
    /\ \/ /\ Write("kestra_verify", Begun(o, TRUE)) /\ Goes(o) /\ mem' = [mem EXCEPT ![o] = Clear]
       \/ UNCHANGED ev /\ TestFails(o)
    /\ Elsewhere

\* The end-to-end evidence only has to say that it passed.
VerifyAccess(o) ==
    LET proved == ev["e2e"].ok IN
    /\ At(o, "access")
    /\ Write("profile_access",
             [Document(proved) EXCEPT !.pins = IF proved THEN Hash({"e2e"}) ELSE None])
    /\ IF proved THEN Goes(o) /\ UNCHANGED mem ELSE Refused(o)
    /\ Elsewhere

CompletionSubjects ==
    /\ Current("profile_access") /\ Holds(ev["profile_access"].pins)
    /\ Current("kestra_verify")

Finalize(o) ==
    LET subjects == {"profile_access", "kestra_verify"} IN
    /\ At(o, "finalize")
    /\ \/ /\ Write("profile_reconcile",
                   [Document(CompletionSubjects) EXCEPT
                      !.pins = IF CompletionSubjects THEN Hash(subjects) ELSE None])
          /\ IF CompletionSubjects THEN Goes(o) /\ UNCHANGED mem ELSE Refused(o)
       \/ Write("profile_reconcile", Document(FALSE)) /\ TestFails(o)
    /\ Elsewhere

\* An index pass of the observability canary begins with the inventory.
IndexedInventory == ev["profile_reconcile"].ok

\* Two index passes and their comparison, then the canary's own data paths: a
\* producer that fails leaves the files as they were and ends the command.
ObservabilityFiles == {{}, {"indexed"}, {"indexed", "observability"}}

IndexedPass(o) ==
    /\ At(o, "indexed")
    /\ IF IndexedInventory
       THEN \E fs \in ObservabilityFiles :
               /\ WriteAll(fs, Document(TRUE))
               /\ IF "observability" \in fs
                  THEN Goes(o) /\ UNCHANGED mem
                  ELSE TestFails(o)
       ELSE UNCHANGED ev /\ Refused(o)
    /\ Elsewhere

-----------------------------------------------------------------------------
(* The end-to-end canary.                                                  *)

Sources == Runtime \cup {"paperclip_verify"}

\* The images are those that the canonical file names and its settings ask for.
SnapshotsAreNamed ==
    baked /\ \A f \in {"images", "lifecycle"} : ev[f].snapshot = snapshot

ValidatedDaytonaRuntime ==
    /\ Current("paperclip_verify") /\ Holds(ev["paperclip_verify"].pins)
    /\ (\A f \in Runtime : Current(f)) /\ SnapshotsAreNamed

\* Mutant: the profiles need not be finalized.
ToolhiveGatewayAudit_PlaneOnly == Current("control_plane")

ToolhiveGatewayAudit == Current("control_plane") /\ Current("profile_reconcile")

Audited == {"control_plane", "profile_reconcile"}

\* The attestation is "running" until the three profiles have run; then the audit, last of all.
E2EApply(o) ==
    /\ At(o, "e2e")
    /\ \/ /\ ValidatedDaytonaRuntime /\ Goes(o)
          /\ Write("e2e", [Document(FALSE) EXCEPT !.pins = Hash(Sources)])
          /\ mem' = [mem EXCEPT ![o].values = canon, ![o].pins = Hash(Sources)]
       \/ ~ValidatedDaytonaRuntime /\ UNCHANGED ev /\ Refused(o)
       \/ UNCHANGED ev /\ TestFails(o)
    /\ Elsewhere

E2EFinish(o) ==
    LET Attestation(ok) == [Begun(o, ok) EXCEPT !.saw = Hash(Audited)] IN
    /\ At(o, "e2e_end")
    /\ \/ /\ Write("e2e", Attestation(ToolhiveGatewayAudit))
          /\ IF ToolhiveGatewayAudit
             THEN Goes(o) /\ mem' = [mem EXCEPT ![o] = Clear]
             ELSE Refused(o)
       \/ Write("e2e", Attestation(FALSE)) /\ TestFails(o)
    /\ Elsewhere

\* Only a run that ended is looked at; the attestation of one that did not pass
\* stays "running".
E2EVerify(o) ==
    LET proved == /\ Current("e2e") /\ Holds(ev["e2e"].pins)
                  /\ ValidatedDaytonaRuntime
                  /\ ToolhiveGatewayAudit /\ Holds(ev["e2e"].saw)
        ended == DOMAIN ev["e2e"].saw # {} IN
    /\ At(o, "e2e_verify")
    /\ IF ended
       THEN Write("e2e_verify", [Document(proved) EXCEPT !.pins = Hash({"e2e"})])
       ELSE UNCHANGED ev
    /\ IF ended /\ proved THEN Goes(o) /\ UNCHANGED mem ELSE Refused(o)
    /\ Elsewhere

-----------------------------------------------------------------------------
(* The integration canaries and what they are told to rely on.             *)

Postgrest(o) ==
    /\ At(o, "postgrest")
    /\ \/ Write("postgrest", Document(TRUE)) /\ Goes(o) /\ UNCHANGED mem
       \/ UNCHANGED ev /\ TestFails(o)
    /\ Elsewhere

\* A canary's subprocesses: their documents are compared with the files later.
Owns(o, f) ==
    IF mem[o].canaries
    THEN mem' = [mem EXCEPT ![o].own = Over(Only(f, ev'[f].n), @)]
    ELSE UNCHANGED mem

NotionCanary(o) ==
    /\ At(o, "canary")
    /\ \/ Write("canary", Document(TRUE)) /\ Goes(o) /\ Owns(o, "canary")
       \/ UNCHANGED ev /\ TestFails(o)
    /\ Elsewhere

NotionVerify(o) ==
    /\ At(o, "consumer")
    /\ \/ /\ Write("consumer", [Document(TRUE) EXCEPT !.saw = Hash({"canary"})])
          /\ Goes(o) /\ Owns(o, "consumer")
       \/ Write("consumer", Document(FALSE)) /\ TestFails(o)
    /\ Elsewhere

\* The canaries are run one after the other.
NextCanary(o, left) ==
    todo' = [todo EXCEPT ![o] =
               (IF left = <<>> THEN <<>> ELSE CanarySteps(Head(left))) \o Tail(@)]

Begin(o) ==
    /\ At(o, "begin") \/ At(o, "begin_all")
    /\ \E selected \in IF At(o, "begin") THEN Selections ELSE {Supported} :
          /\ NextCanary(o, selected)
          /\ mem' = [mem EXCEPT ![o] = [Clear EXCEPT !.values = canon, !.canaries = TRUE,
                                                     !.left = Tail(selected)]]
    /\ UNCHANGED <<ev, faults>> /\ Elsewhere

\* The live part of a canary that relies on no evidence.
LiveCanary(o) ==
    /\ At(o, "search") \/ At(o, "crud")
    /\ (Goes(o) /\ UNCHANGED mem) \/ TestFails(o)
    /\ UNCHANGED ev /\ Elsewhere

Compare(o) ==
    LET same == /\ Holds(mem[o].own)
                /\ Current("canary") /\ Current("consumer") IN
    /\ At(o, "compare")
    /\ (same /\ Goes(o) /\ UNCHANGED mem) \/ (~same /\ Refused(o))
    /\ UNCHANGED ev /\ Elsewhere

CheckPostgrest(o) ==
    /\ At(o, "postgrest_check")
    /\ \/ Current("postgrest") /\ Goes(o) /\ UNCHANGED mem
       \/ ~Current("postgrest") /\ Refused(o)
    /\ UNCHANGED ev /\ Elsewhere

\* The hashes are of the files as they are now, read once more.
Pin(o) ==
    LET fs == IF At(o, "projection_pin") THEN {"canary", "consumer"} ELSE {"postgrest"} IN
    /\ At(o, "projection_pin") \/ At(o, "postgrest_pin")
    /\ Goes(o) /\ mem' = [mem EXCEPT ![o].pins = Over(Hash(fs), @)]
    /\ UNCHANGED ev /\ Elsewhere

Row(o) ==
    LET m == mem[o]
        row == [ok   |-> m.good, pins |-> IF m.good THEN m.pins ELSE None,
                saw  |-> IF m.good THEN m.own ELSE None] IN
    /\ todo[o] # <<>> /\ Head(todo[o]) \in Canaries /\ NextCanary(o, m.left)
    /\ mem' = [mem EXCEPT ![o] =
                 [m EXCEPT !.rows = Over(Only(Head(todo[o]), row), @), !.good = TRUE,
                           !.pins = None, !.own = None,
                           !.left = IF @ = <<>> THEN @ ELSE Tail(@)]]
    /\ UNCHANGED <<ev, faults>> /\ Elsewhere

Payload(o) ==
    [Document(\A c \in DOMAIN mem[o].rows : mem[o].rows[c].ok) EXCEPT
        !.values = mem[o].values, !.rows = mem[o].rows]

Aggregate(o) ==
    /\ At(o, "aggregate") /\ Write("integration", Payload(o)) /\ Goes(o)
    /\ mem' = [mem EXCEPT ![o] = [Clear EXCEPT !.payload = Payload(o)]]
    /\ Elsewhere

\* One file per canary; only that of C029 has readers.
Split(o) ==
    LET payload == mem[o].payload
        rows == payload.rows IN
    /\ At(o, "split")
    /\ IF "C029" \in DOMAIN rows
       THEN Write("integration_C029",
                  [payload EXCEPT !.rows = Only("C029", rows["C029"])])
       ELSE UNCHANGED ev
    /\ UNCHANGED faults /\ Elsewhere
    /\ todo' = [todo EXCEPT ![o] = IF payload.ok THEN Tail(@) ELSE <<>>]
    /\ mem' = [mem EXCEPT ![o] = Clear]

-----------------------------------------------------------------------------
(* Provisioning, Hermes and the edge.                                      *)

\* The report of the accounts says whether they were complete.
ProvisionVerify(o) ==
    /\ At(o, "account")
    /\ \/ Write("account", Document(TRUE)) /\ Goes(o) /\ UNCHANGED mem
       \/ Write("account", Document(FALSE)) /\ TestFails(o)
    /\ Elsewhere

NotionConnector(o) ==
    /\ At(o, "connector")
    /\ \/ Write("connector", Document(TRUE)) /\ Goes(o) /\ UNCHANGED mem
       \/ UNCHANGED ev /\ TestFails(o)
    /\ Elsewhere

\* After the health check the evidence is "running" until Hermes has run; the
\* canonical file is compared with what it was only when the producer has ended.
HermesCanary(o) ==
    /\ At(o, "hermes")
    /\ \/ /\ Write("hermes", Document(FALSE)) /\ Goes(o)
          /\ mem' = [mem EXCEPT ![o].values = canon]
       \/ UNCHANGED ev /\ TestFails(o)
    /\ Elsewhere

\* A failure is written into the file of the run before.
HermesFinish(o) ==
    /\ At(o, "hermes_end")
    /\ \/ /\ Write("hermes", Begun(o, TRUE))
          /\ IF canon = mem[o].values
             THEN Goes(o) /\ mem' = [mem EXCEPT ![o] = Clear]
             ELSE Refused(o)
       \/ Write("hermes", [ev["hermes"] EXCEPT !.ok = FALSE]) /\ TestFails(o)
    /\ Elsewhere

\* Cloudflare's acceptance takes the canonical version that it began with.
FreshDependency(f, gate) == ev[f].n # 0 /\ ev[f].ok /\ ev[f].label = gate

\* It reads the canary's own file of C029 only.
C029PersistenceDependencies(gate) ==
    /\ \A f \in {"integration_C029", "canary", "consumer"} : FreshDependency(f, gate)
    /\ LET row == ev["integration_C029"].rows["C029"] IN
        /\ row.ok
        /\ \A f \in {"canary", "consumer"} : row.pins[f] = ev[f].n
        /\ row.saw["canary"] = ev["canary"].n

C046DatasourceDependency(gate) == FreshDependency("observability", gate)

FailurePayload == Missing

EdgeSemantic(o) ==
    /\ At(o, "edge")
    /\ \/ /\ Write("cloudflare_semantic", Document(TRUE)) /\ Goes(o)
          /\ mem' = [mem EXCEPT ![o].values = canon]
       \/ Write("cloudflare", FailurePayload) /\ TestFails(o)
    /\ Elsewhere

WriteConnectionEvidence(o) ==
    [Begun(o, TRUE) EXCEPT !.n = ev["cloudflare_split"].n + 1]

AcceptancePayload(o) ==
    [Begun(o, TRUE) EXCEPT
        !.n = ev["cloudflare"].n + 1,
        !.pins = Over(Only("cloudflare_split", ev["cloudflare_split"].n + 1),
                      Hash({"cloudflare_semantic", "observability"})),
        !.rows = [c \in CloudflareConnections |-> [ok |-> TRUE]]]

RunAcceptance(o) ==
    LET ready == /\ C029PersistenceDependencies(mem[o].values)
                 /\ C046DatasourceDependency(mem[o].values) IN
    /\ At(o, "cloudflare")
    /\ \/ IF ready
          THEN /\ ev' = [ev EXCEPT !["cloudflare_split"] = WriteConnectionEvidence(o),
                                   !["cloudflare"] = AcceptancePayload(o)]
               /\ Goes(o) /\ mem' = [mem EXCEPT ![o] = Clear]
          ELSE Write("cloudflare", FailurePayload) /\ Refused(o)
       \/ Write("cloudflare", FailurePayload) /\ TestFails(o)
    /\ Elsewhere

-----------------------------------------------------------------------------
(* The specification.                                                      *)

Idle(o) == todo[o] = <<>>

Start(o) ==
    /\ Idle(o) /\ commands < MaxCommands
    /\ \E c \in Commands : \E plan \in Plans(c) : todo' = [todo EXCEPT ![o] = plan]
    /\ commands' = commands + 1
    /\ calm' = (calm /\ \A p \in Operators : Idle(p))
    /\ UNCHANGED <<ev, canon, snapshot, baked, mem, faults, changes>>

\* The operator's connection breaks: the remote command is killed.
Kill(o) ==
    /\ ~Idle(o) /\ faults < MaxFaults /\ faults' = faults + 1
    /\ todo' = [todo EXCEPT ![o] = <<>>] /\ mem' = [mem EXCEPT ![o] = Clear]
    /\ UNCHANGED ev /\ Elsewhere

\* Any other writer of the canonical file: it holds the canonical lock.
Configure ==
    /\ changes < MaxChanges /\ changes' = changes + 1 /\ ~Locked
    /\ canon' = canon + 1 /\ baked' \in {baked, FALSE} /\ UNCHANGED snapshot
    /\ calm' = (calm /\ \A o \in Operators : Idle(o))
    /\ UNCHANGED <<ev, todo, mem, commands, faults>>

Daytona(o) ==
    \/ Images(o) \/ Switch(o) \/ Lifecycle(o) \/ DaytonaStepVerify(o)
    \/ ReconcileApply(o) \/ ReconcileDaytona(o) \/ Probe(o) \/ Emit(o)
Profiles(o) ==
    \/ Prepare(o) \/ KestraReconcile(o) \/ KestraVerify(o) \/ KestraVerified(o)
    \/ VerifyAccess(o) \/ Finalize(o) \/ IndexedPass(o)
EndToEnd(o) == E2EApply(o) \/ E2EFinish(o) \/ E2EVerify(o)
IntegrationRun(o) ==
    \/ Begin(o) \/ Postgrest(o) \/ NotionCanary(o) \/ NotionVerify(o)
    \/ LiveCanary(o) \/ Compare(o) \/ CheckPostgrest(o) \/ Pin(o) \/ Row(o)
    \/ Aggregate(o) \/ Split(o)

Acceptances(o) ==
    \/ ProvisionVerify(o) \/ NotionConnector(o) \/ HermesCanary(o) \/ HermesFinish(o)
    \/ EdgeSemantic(o) \/ RunAcceptance(o)

Next ==
    \/ \E o \in Operators :
          \/ Start(o) \/ Kill(o) \/ Daytona(o) \/ Profiles(o) \/ EndToEnd(o)
          \/ IntegrationRun(o) \/ Acceptances(o)
    \/ Configure

Spec == EvidenceInit /\ [][Next]_vars
=============================================================================
