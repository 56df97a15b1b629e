------------------------------ MODULE E2ECanary ------------------------------
(***************************************************************************)
(* The end-to-end canary: server-e2e-canary.py `apply` triggers a Kestra   *)
(* execution, which creates one Paperclip issue, for which an agent works  *)
(* in Daytona sandboxes, one per heartbeat, and pushes a branch and opens  *)
(* a pull request.  Whatever happens, `apply` then cleans up after its run *)
(* and records in a row of its evidence whether that was completed.        *)
(*                                                                         *)
(* Kestra, Paperclip, the agent and GitHub act on their own: the flow is   *)
(* workflows/kestra/paperclip-github-e2e.yaml, and of the services only    *)
(* what the canary and the flow rely on is assumed.  A request may be lost *)
(* or its answer, a wait may run out, and `apply` may be killed.           *)
(***************************************************************************)
EXTENDS Naturals, FiniteSets

CONSTANTS
    Operators,     \* those who run `kestra-canary apply`
    Profiles,      \* how many profiles one `apply` tries, one run for each
    MaxRuns,       \* bound on the runs triggered
    MaxBeats,      \* bound on the heartbeats of an issue (32 in the flow)
    MaxFaults,     \* bound on failed requests of `apply` and on kills of it
    LateTriggers   \* a trigger whose answer was lost may be carried out late

ASSUME E2EAssumption ==
    /\ Profiles \in Nat \ {0} /\ MaxRuns \in Nat /\ MaxBeats \in Nat /\ MaxFaults \in Nat
    /\ LateTriggers \in BOOLEAN

Runs == 1 .. MaxRuns

VARIABLES
    exec,       \* per run, the Kestra execution
    flow,       \* per run, how far the flow has come
    issue,      \* per run, the status of the Paperclip issue
    beat,       \* per run, the heartbeats of the issue: how many, the last one
    leases,     \* per run, the heartbeats whose environment lease is not cleaned
    boxes,      \* per run, the heartbeats whose sandbox exists
    workspace,  \* per run, the execution workspace with its worktree
    branch,     \* per run, the branch exists
    pull,       \* per run, a pull request is open
    c,          \* per operator, the process `apply`
    row,        \* per run, the row of cleanup in the evidence
    ended,      \* ghost: the runs that were over before their resources went
    recorded,   \* the runs the evidence records as proved
    evidence,   \* the status in the evidence file
    used, faults

world == <<exec, flow, issue, beat, leases, boxes, workspace, branch, pull>>
vars == <<world, c, row, ended, recorded, evidence, used, faults>>

Terminal == {"SUCCESS", "FAILED", "KILLED"}
NoBeat == [n |-> 0, now |-> "none"]

\* The process: its present run `r` and those before it; `eid`, the execution
\* is known; `raw`, poll_execution returned it; `err` and `cerr`, an error of
\* the run and of its cleanup; `absent`, no execution was found; the outcomes
\* of the four cleanups; `seen`, the leases whose sandboxes are removed.
Idle == [pc |-> "idle", r |-> 0, before |-> {}, eid |-> FALSE, raw |-> FALSE,
         err |-> FALSE, cerr |-> FALSE, absent |-> FALSE, kestra |-> FALSE,
         unsubmitted |-> FALSE, resources |-> FALSE, github |-> FALSE, seen |-> {}]

E2EInit ==
    /\ exec = [r \in Runs |-> "none"]
    /\ flow = [r \in Runs |-> "start"]
    /\ issue = [r \in Runs |-> "none"]
    /\ beat = [r \in Runs |-> NoBeat]
    /\ leases = [r \in Runs |-> {}] /\ boxes = [r \in Runs |-> {}]
    /\ workspace = [r \in Runs |-> "none"]
    /\ branch = [r \in Runs |-> FALSE]
    /\ pull = [r \in Runs |-> FALSE]
    /\ c = [o \in Operators |-> Idle]
    /\ row = [r \in Runs |-> "none"]
    /\ ended = {} /\ recorded = {} /\ evidence = "none"
    /\ used = 0 /\ faults = 0

-----------------------------------------------------------------------------
(* Kestra and the flow.                                                    *)

\* A trigger is carried out although its sender has given up on the answer.
TriggerArrives(r) ==
    /\ exec[r] = "requested"
    /\ exec' = [exec EXCEPT ![r] = "queued"]
    /\ UNCHANGED <<flow, issue, beat, leases, boxes, workspace, branch, pull>>

\* One execution of the flow at a time, the others are queued.
Start(r) ==
    /\ exec[r] = "queued"
    /\ \A s \in Runs : exec[s] # "running"
    /\ exec' = [exec EXCEPT ![r] = "running"]
    /\ UNCHANGED <<flow, issue, beat, leases, boxes, workspace, branch, pull>>

Submit(r) ==
    /\ exec[r] = "running" /\ flow[r] = "start"
    /\ flow' = [flow EXCEPT ![r] = "submitting"]
    /\ UNCHANGED <<exec, issue, beat, leases, boxes, workspace, branch, pull>>

\* A request on its way is carried out even if the execution has ended.
IssueIsCreated(r) ==
    /\ flow[r] = "submitting" /\ issue[r] = "none"
    /\ issue' = [issue EXCEPT ![r] = "todo"]
    /\ UNCHANGED <<exec, flow, beat, leases, boxes, workspace, branch, pull>>

\* Only now do the outputs of the execution name the issue.
IssuesAfter(r) ==
    /\ exec[r] = "running" /\ flow[r] = "submitting" /\ issue[r] # "none"
    /\ flow' = [flow EXCEPT ![r] = "known"]
    /\ UNCHANGED <<exec, issue, beat, leases, boxes, workspace, branch, pull>>

\* The last heartbeat succeeded, every lease expired, and the draft is there.
FlowSucceeds(r) ==
    /\ exec[r] = "running" /\ flow[r] = "known"
    /\ issue[r] = "done" /\ beat[r].now = "succeeded"
    /\ leases[r] = {} /\ branch[r] /\ pull[r]
    /\ exec' = [exec EXCEPT ![r] = "SUCCESS"]
    /\ UNCHANGED <<flow, issue, beat, leases, boxes, workspace, branch, pull>>

\* A task fails or runs out of time; the error handlers cancel the issue if
\* issues_after has named it, unless that request fails too.
FlowFails(r) ==
    /\ exec[r] = "running"
    /\ exec' = [exec EXCEPT ![r] = "FAILED"]
    /\ \/ /\ flow[r] = "known"
          /\ issue' = [issue EXCEPT ![r] = "cancelled"]
       \/ UNCHANGED issue
    /\ UNCHANGED <<flow, beat, leases, boxes, workspace, branch, pull>>

-----------------------------------------------------------------------------
(* Paperclip and the agent.                                                *)

\* An open issue gets heartbeat after heartbeat, each in an environment.
Heartbeat(r) ==
    LET n == beat[r].n + 1 IN
    /\ issue[r] = "todo" /\ beat[r].now # "running" /\ n <= MaxBeats
    /\ beat' = [beat EXCEPT ![r] = [n |-> n, now |-> "running"]]
    /\ leases' = [leases EXCEPT ![r] = @ \cup {n}]
    /\ boxes' = [boxes EXCEPT ![r] = @ \cup {n}]
    /\ workspace' = [workspace EXCEPT ![r] = "open"]
    /\ UNCHANGED <<exec, flow, issue, branch, pull>>

AgentWorks(r) ==
    /\ beat[r].now = "running" /\ beat[r].n \in boxes[r]
    /\ \/ /\ ~branch[r]
          /\ branch' = [branch EXCEPT ![r] = TRUE]
          /\ UNCHANGED <<issue, pull>>
       \/ /\ branch[r] /\ ~pull[r]
          /\ pull' = [pull EXCEPT ![r] = TRUE]
          /\ UNCHANGED <<issue, branch>>
       \/ /\ branch[r] /\ pull[r] /\ issue[r] = "todo"
          /\ issue' = [issue EXCEPT ![r] = "done"]
          /\ UNCHANGED <<branch, pull>>
    /\ UNCHANGED <<exec, flow, beat, leases, boxes, workspace>>

HeartbeatEnds(r) ==
    /\ beat[r].now = "running"
    /\ \E result \in {"succeeded", "failed"} :
          beat' = [beat EXCEPT ![r].now = result]
    /\ UNCHANGED <<exec, flow, issue, leases, boxes, workspace, branch, pull>>

\* Paperclip reports the lease as cleaned, but Daytona may not be done with it.
LeaseIsReleased(r) ==
    \E n \in leases[r] :
        /\ n = beat[r].n => beat[r].now # "running"
        /\ leases' = [leases EXCEPT ![r] = @ \ {n}]
        /\ boxes' \in {boxes, [boxes EXCEPT ![r] = @ \ {n}]}
        /\ UNCHANGED <<exec, flow, issue, beat, workspace, branch, pull>>

World(r) ==
    /\ \/ TriggerArrives(r) \/ Start(r) \/ Submit(r) \/ IssueIsCreated(r)
       \/ IssuesAfter(r) \/ FlowSucceeds(r) \/ FlowFails(r)
       \/ Heartbeat(r) \/ AgentWorks(r) \/ HeartbeatEnds(r) \/ LeaseIsReleased(r)
    /\ UNCHANGED <<c, row, ended, recorded, evidence, used, faults>>

-----------------------------------------------------------------------------
(* What `apply` reads.                                                     *)

\* The outputs of the execution name the issue.
IssueId(r) == flow[r] = "known"

\* The status of a run as the canary derives it from the issue and from its
\* latest heartbeat.
NativeState(r) ==
    CASE issue[r] = "cancelled" \/ beat[r].now = "cancelled" -> "cancelled"
      [] issue[r] = "done" -> "succeeded"
      [] beat[r].now = "none" -> "queued"
      [] OTHER -> beat[r].now

\* The heartbeats of the issue, each with the lease of an environment.
Heartbeats(r) == 1 .. beat[r].n

\* The lease expired, and Paperclip says that its sandbox is gone.
ValidProviderLeaseCleanup(r, n) == n \notin leases[r]

EnvironmentReleased(r) ==
    /\ Heartbeats(r) # {}
    /\ \A n \in Heartbeats(r) : ValidProviderLeaseCleanup(r, n)

\* What Paperclip says of the issue's workspace and environments.
ResourceState(r) ==
    [workspace |-> workspace[r], released |-> EnvironmentReleased(r),
     pathSource |-> "paperclip-native-workspace"]

Archived(r) ==
    ResourceState(r).workspace = "archived" /\ ResourceState(r).released

\* The open pull request of the run's branch.
FindPull(r) == pull[r]

\* Its head is the branch of the run, with the change that was asked for.
ArtifactIdentity(r) == FindPull(r) /\ branch[r]

GithubEvidence(r) == ArtifactIdentity(r)

HeartbeatSequence(r) == Heartbeats(r) # {} /\ beat[r].now = "succeeded"

ValidEvidence(r) ==
    /\ exec[r] = "SUCCESS" /\ NativeState(r) = "succeeded"
    /\ HeartbeatSequence(r) /\ GithubEvidence(r)

\* Mutant: neither the origin of the path nor the lease is looked at.
WorkspaceIdentity_PathOnly(r) == workspace[r] # "none"

\* The path must come from a "paperclip." source, the lease not be released.
WorkspaceIdentity(r) ==
    /\ workspace[r] # "none"
    /\ ResourceState(r).pathSource = "paperclip.execution-workspace"
    /\ ~ResourceState(r).released

\* The harness still answers in the sandbox.
WorkspaceOperation(r) == beat[r].n \in boxes[r]

\* At the end of `apply`: no sandbox, branch or pull request of these runs.
GlobalAbsence(rs) == \A r \in rs : boxes[r] = {} /\ ~branch[r] /\ ~pull[r]

Proved(r) == ValidEvidence(r) /\ WorkspaceIdentity(r) /\ WorkspaceOperation(r)

-----------------------------------------------------------------------------
(* `apply`.                                                                *)

At(o, pc) == c[o].pc = pc
Go(o, p) == c' = [c EXCEPT ![o] = p]
Fault == faults < MaxFaults /\ faults' = faults + 1
Fine == UNCHANGED faults

Others == <<row, recorded, evidence, used>>
Rest == <<Others, ended>>

\* The sandboxes of the environment that the coding agents share.
EnvironmentSandboxes == UNION {boxes[r] : r \in Runs}

\* preflight: no coding sandbox of the environment is there.  The flow is
\* deployed and the evidence says "running".
Admit(o) ==
    /\ At(o, "idle") /\ used < MaxRuns
    /\ EnvironmentSandboxes = {}
    /\ Go(o, [Idle EXCEPT !.pc = "trigger", !.r = used + 1])
    /\ used' = used + 1
    /\ evidence' = "running"
    /\ Fine /\ UNCHANGED <<world, row, ended, recorded>>

\* What becomes of a trigger without an answer.
Unanswered == {"none", "queued"} \cup IF LateTriggers THEN {"requested"} ELSE {}

Trigger(o) ==
    LET p == c[o] IN
    /\ At(o, "trigger")
    /\ \/ /\ exec' = [exec EXCEPT ![p.r] = "queued"]
          /\ Go(o, [p EXCEPT !.pc = "poll", !.eid = TRUE])
          /\ Fine
       \/ /\ Fault
          /\ exec' \in {[exec EXCEPT ![p.r] = s] : s \in Unanswered}
          /\ Go(o, [p EXCEPT !.pc = "discover", !.err = TRUE])
    /\ UNCHANGED <<flow, issue, beat, leases, boxes, workspace, branch, pull, Rest>>

\* A bounded search for the execution with the correlation of this trigger.
Discover(o) ==
    LET p == [c[o] EXCEPT !.pc = "kestra"]
        visible == exec[p.r] \notin {"none", "requested"} IN
    /\ At(o, "discover")
    /\ \/ Go(o, [p EXCEPT !.eid = visible, !.absent = ~visible]) /\ Fine
       \/ Go(o, [p EXCEPT !.cerr = TRUE]) /\ Fault
    /\ UNCHANGED <<world, Rest>>

\* After its deadline poll_execution kills the execution, and fails.
Poll(o) ==
    LET p == c[o]
        failed == [p EXCEPT !.pc = "kestra", !.err = TRUE] IN
    /\ At(o, "poll")
    /\ \/ /\ exec[p.r] = "SUCCESS"
          /\ Go(o, [p EXCEPT !.pc = "validate", !.raw = TRUE])
          /\ Fine /\ UNCHANGED exec
       \/ /\ exec[p.r] \in Terminal \ {"SUCCESS"}
          /\ Go(o, [failed EXCEPT !.raw = TRUE])
          /\ Fine /\ UNCHANGED exec
       \/ /\ exec[p.r] \notin Terminal
          /\ exec' = [exec EXCEPT ![p.r] = "KILLED"]
          /\ Go(o, failed) /\ Fine
       \/ Go(o, failed) /\ Fault /\ UNCHANGED exec
    /\ UNCHANGED <<flow, issue, beat, leases, boxes, workspace, branch, pull, Rest>>

\* A request fails, or what the router counted of the run or the agent called
\* through ToolHive is not as expected.
RuntimeTestsFail == Fault

Validate(o) ==
    LET p == c[o]
        failed == [p EXCEPT !.pc = "kestra", !.err = TRUE] IN
    /\ At(o, "validate")
    /\ \/ /\ Fine
          /\ IF Proved(p.r)
             THEN /\ recorded' = recorded \cup {p.r}
                  /\ Go(o, [p EXCEPT !.pc = "resources"])
             ELSE Go(o, failed) /\ UNCHANGED recorded
       \/ RuntimeTestsFail /\ Go(o, failed) /\ UNCHANGED recorded
    /\ UNCHANGED <<world, row, ended, evidence, used>>

-----------------------------------------------------------------------------
(* The cleanup of a run.                                                   *)

\* cleanup_kestra_execution, after an error
CleanupKestra(o) ==
    LET p == [c[o] EXCEPT !.pc = "paperclip"] IN
    /\ At(o, "kestra")
    /\ \/ /\ ~p.eid \/ p.raw \/ exec[p.r] \in Terminal
          /\ Go(o, [p EXCEPT !.kestra = p.eid])
          /\ Fine /\ UNCHANGED exec
       \/ /\ p.eid /\ ~p.raw /\ exec[p.r] \notin Terminal
          /\ exec' = [exec EXCEPT ![p.r] = "KILLED"]
          /\ Go(o, [p EXCEPT !.kestra = TRUE]) /\ Fine
       \/ /\ p.eid /\ ~p.raw
          /\ Go(o, [p EXCEPT !.cerr = TRUE])
          /\ Fault /\ UNCHANGED exec
    /\ UNCHANGED <<flow, issue, beat, leases, boxes, workspace, branch, pull, Rest>>

\* cleanup_nonterminal_paperclip_run, after an error; the issue is looked up
\* in the outputs of the execution.
CleanupPaperclip(o) ==
    LET p == [c[o] EXCEPT !.pc = "resources"]
        open == NativeState(p.r) \in {"queued", "running"}
        stopped == [beat EXCEPT ![p.r].now = IF @ = "none" THEN @ ELSE "cancelled"] IN
    /\ At(o, "paperclip")
    /\ \/ /\ ~p.eid
          /\ Go(o, p) /\ Fine /\ UNCHANGED <<issue, beat>>
       \/ /\ p.eid /\ ~IssueId(p.r)
          /\ Go(o, [p EXCEPT !.unsubmitted = TRUE]) /\ Fine
          /\ UNCHANGED <<issue, beat>>
       \/ /\ p.eid /\ IssueId(p.r) /\ ~open
          /\ Go(o, p) /\ Fine /\ UNCHANGED <<issue, beat>>
       \/ /\ p.eid /\ IssueId(p.r) /\ open
          /\ beat' = stopped
          /\ \/ issue' = [issue EXCEPT ![p.r] = "cancelled"] /\ Go(o, p) /\ Fine
             \/ Go(o, [p EXCEPT !.cerr = TRUE]) /\ Fault /\ UNCHANGED issue
       \/ /\ p.eid
          /\ Go(o, [p EXCEPT !.cerr = TRUE])
          /\ Fault /\ UNCHANGED <<issue, beat>>
    /\ UNCHANGED <<exec, flow, leases, boxes, workspace, branch, pull, Rest>>

\* The run is over: the execution, its request for an issue, the issue itself.
Settled(r) ==
    /\ exec[r] \in Terminal \cup {"none"}
    /\ flow[r] # "submitting"
    /\ issue[r] \in {"none", "done", "cancelled"}

\* What is to be done about the workspace and the sandboxes.
CleanupResources(o) ==
    LET p == c[o]
        iid == p.eid /\ IssueId(p.r)
        skip == p.absent \/ (~iid /\ p.unsubmitted /\ p.kestra)
        archived == [workspace EXCEPT ![p.r] = "archived"] IN
    /\ At(o, "resources")
    /\ \/ /\ skip
          /\ Go(o, [p EXCEPT !.pc = "github", !.resources = TRUE])
          /\ Fine /\ UNCHANGED workspace
       \/ /\ ~skip /\ (~iid \/ workspace[p.r] = "none")
          /\ Go(o, [p EXCEPT !.pc = "github", !.cerr = TRUE])
          /\ Fine /\ UNCHANGED workspace
       \/ /\ ~skip /\ iid /\ workspace[p.r] # "none"
          /\ \/ workspace' = archived /\ Go(o, [p EXCEPT !.pc = "release"]) /\ Fine
             \/ /\ Go(o, [p EXCEPT !.pc = "github", !.cerr = TRUE])
                /\ Fault /\ UNCHANGED workspace
    /\ ended' = IF Settled(p.r) THEN ended \cup {p.r} ELSE ended
    /\ UNCHANGED <<exec, flow, issue, beat, leases, boxes, branch, pull, Others>>

\* A bounded wait until the workspace is archived and every lease released.
AwaitRelease(o) ==
    LET p == c[o] IN
    /\ At(o, "release")
    /\ IF Archived(p.r)
       THEN Go(o, [p EXCEPT !.pc = "sandboxes", !.seen = Heartbeats(p.r)])
       ELSE Go(o, [p EXCEPT !.pc = "github", !.cerr = TRUE])
    /\ Fine /\ UNCHANGED <<world, Rest>>

\* Mutant: only the sandbox of the latest lease is removed.
DeleteSandboxes_Latest(o) ==
    LET p == c[o] IN
    /\ At(o, "sandboxes")
    /\ boxes' = [boxes EXCEPT ![p.r] = @ \ {beat[p.r].n}]
    /\ Go(o, [p EXCEPT !.pc = "absence"])
    /\ Fine
    /\ UNCHANGED <<exec, flow, issue, beat, leases, workspace, branch, pull, Rest>>

DeleteSandboxes(o) ==
    LET p == c[o] IN
    /\ At(o, "sandboxes")
    /\ \/ /\ boxes' = [boxes EXCEPT ![p.r] = @ \ p.seen]
          /\ Go(o, [p EXCEPT !.pc = "absence"])
          /\ Fine
       \/ /\ Go(o, [p EXCEPT !.pc = "github", !.cerr = TRUE])
          /\ Fault /\ UNCHANGED boxes
    /\ UNCHANGED <<exec, flow, issue, beat, leases, workspace, branch, pull, Rest>>

\* verify_resource_absence: still archived, released, and no other lease.
VerifyAbsence(o) ==
    LET p == c[o] IN
    /\ At(o, "absence")
    /\ IF Archived(p.r) /\ p.seen = Heartbeats(p.r)
       THEN Go(o, [p EXCEPT !.pc = "github", !.resources = TRUE])
       ELSE Go(o, [p EXCEPT !.pc = "github", !.cerr = TRUE])
    /\ Fine /\ UNCHANGED <<world, Rest>>

\* Without an execution id there is no name of a branch to look for.
CleanupGithub(o) ==
    LET p == [c[o] EXCEPT !.pc = "row"] IN
    /\ At(o, "github")
    /\ \/ /\ p.absent
          /\ Go(o, [p EXCEPT !.github = TRUE])
          /\ Fine /\ UNCHANGED <<branch, pull>>
       \/ /\ ~p.absent /\ p.eid
          /\ branch' = [branch EXCEPT ![p.r] = FALSE]
          /\ pull' = [pull EXCEPT ![p.r] = FALSE]
          /\ Go(o, [p EXCEPT !.github = TRUE])
          /\ Fine
       \/ /\ ~p.absent /\ ~p.eid
          /\ Go(o, p) /\ Fine /\ UNCHANGED <<branch, pull>>
       \/ /\ ~p.absent
          /\ \E e \in BOOLEAN : Go(o, [p EXCEPT !.cerr = p.cerr \/ e])
          /\ Fault /\ UNCHANGED <<branch, pull>>
    /\ UNCHANGED <<exec, flow, issue, beat, leases, boxes, workspace, Rest>>

\* The row is written.  An error of the run or of its cleanup ends `apply`;
\* otherwise the next profile is tried, or the evidence is completed.
EndRun(o) ==
    LET p == c[o]
        mine == p.before \cup {p.r}
        completed == p.github /\ p.resources /\ (p.err => p.kestra) IN
    /\ At(o, "row")
    /\ row' = [row EXCEPT ![p.r] = IF completed THEN "completed" ELSE "incomplete"]
    /\ IF ~p.err /\ ~p.cerr /\ Cardinality(mine) < Profiles /\ used < MaxRuns
       THEN /\ Go(o, [Idle EXCEPT !.pc = "trigger", !.r = used + 1, !.before = mine])
            /\ used' = used + 1
            /\ UNCHANGED evidence
       ELSE /\ Go(o, Idle)
            /\ evidence' = IF /\ ~p.err /\ ~p.cerr /\ mine \subseteq recorded
                              /\ Cardinality(mine) = Profiles
                              /\ \A r \in mine : row'[r] = "completed"
                              /\ GlobalAbsence(mine)
                           THEN "passed" ELSE "failed"
            /\ UNCHANGED used
    /\ Fine /\ UNCHANGED <<world, ended, recorded>>

\* `apply` is killed: its evidence goes on saying "running".
Die(o) ==
    /\ ~At(o, "idle")
    /\ Go(o, Idle)
    /\ Fault /\ UNCHANGED <<world, Rest>>

Apply(o) ==
    \/ Admit(o) \/ Trigger(o) \/ Discover(o) \/ Poll(o) \/ Validate(o)
    \/ CleanupKestra(o) \/ CleanupPaperclip(o) \/ CleanupResources(o)
    \/ AwaitRelease(o) \/ DeleteSandboxes(o) \/ VerifyAbsence(o)
    \/ CleanupGithub(o) \/ EndRun(o) \/ Die(o)

Next == (\E r \in Runs : World(r)) \/ (\E o \in Operators : Apply(o))

Spec == E2EInit /\ [][Next]_vars

-----------------------------------------------------------------------------

NothingIsLeft(r) ==
    /\ exec[r] \in Terminal \cup {"none"}
    /\ beat[r].now # "running"
    /\ leases[r] = {} /\ boxes[r] = {}
    /\ ~branch[r] /\ ~pull[r]

(***************************************************************************)
(* A row that says "completed" is true for good if the execution and the   *)
(* issue were over when the resources were cleaned up: although the last   *)
(* heartbeat may still run then, push and be released, no sandbox of any   *)
(* heartbeat, no lease, no branch and no open pull request is left.        *)
(***************************************************************************)
CompletedRowsAreTrue ==
    \A r \in ended : row[r] = "completed" => NothingIsLeft(r)

(***************************************************************************)
(* What the repository says of every run: the producer must "clean the     *)
(* branch, PR, workspace, and sandbox" (references/workflows.md).  A row   *)
(* that says "completed" is never followed by anything of its run.         *)
(***************************************************************************)
CompletedRowLeavesNothing ==
    \A r \in Runs : row[r] = "completed" => NothingIsLeft(r)

(***************************************************************************)
(* No run is ever recorded as proved: a flow succeeds only with every      *)
(* lease released, and the identity of the workspace is accepted only      *)
(* while one is not (and from a path source that nothing produces).        *)
(***************************************************************************)
NoRunIsRecorded == recorded = {} /\ evidence # "passed"
=============================================================================
