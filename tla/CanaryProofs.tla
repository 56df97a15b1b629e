------------------------------ MODULE CanaryProofs -----------------------------
(***************************************************************************)
(* What E2ECanary keeps, for any number of operators, profiles, runs,      *)
(* heartbeats and faults: a row of cleanup that says "completed" is true   *)
(* for good, if its run was over when its resources were cleaned up; and   *)
(* no run is ever recorded as proved.                                      *)
(***************************************************************************)
EXTENDS E2ECanary, TLAPS

Executions == {"none", "requested", "queued", "running"} \cup Terminal
Beats == [n : Nat, now : {"none", "running", "succeeded", "failed", "cancelled"}]

Early == {"trigger", "discover", "poll", "validate", "kestra", "paperclip", "resources"}
Late == {"release", "sandboxes", "absence", "github", "row"}

Processes ==
    [pc : Early \cup Late \cup {"idle"}, r : Nat, before : SUBSET Nat, eid : BOOLEAN,
     raw : BOOLEAN, err : BOOLEAN, cerr : BOOLEAN, absent : BOOLEAN, kestra : BOOLEAN,
     unsubmitted : BOOLEAN, resources : BOOLEAN, github : BOOLEAN, seen : SUBSET Nat]

CanaryTypeOK ==
    /\ exec \in [Runs -> Executions]
    /\ flow \in [Runs -> {"start", "submitting", "known"}]
    /\ issue \in [Runs -> {"none", "todo", "done", "cancelled"}]
    /\ beat \in [Runs -> Beats]
    /\ leases \in [Runs -> SUBSET Nat] /\ boxes \in [Runs -> SUBSET Nat]
    /\ workspace \in [Runs -> {"none", "open", "archived"}]
    /\ branch \in [Runs -> BOOLEAN] /\ pull \in [Runs -> BOOLEAN]
    /\ c \in [Operators -> Processes]
    /\ row \in [Runs -> {"none", "completed", "incomplete"}]
    /\ ended \subseteq Runs
    /\ used \in 0 .. MaxRuns

\* What a run, its issue and its agent leave comes one after the other.
RunOK(r) ==
    /\ flow[r] = "start" => issue[r] = "none"
    /\ issue[r] = "none" => beat[r].n = 0
    /\ leases[r] \subseteq 1 .. beat[r].n /\ boxes[r] \subseteq 1 .. beat[r].n
    /\ beat[r].now = "running" => beat[r].n \in leases[r]
    /\ branch[r] \/ pull[r] => beat[r].n # 0

\* A run that was over stays over.
EndedOK(r) == r \in ended => Settled(r)

\* A run that is not yet triggered.
Untouched(r) ==
    exec[r] = "none" /\ flow[r] = "start" /\ row[r] = "none" /\ r \notin ended

Quiet(r) == leases[r] = {} /\ boxes[r] = {} /\ beat[r].now # "running"
Bare(r) == ~branch[r] /\ ~pull[r]

\* A process has a run of its own, of which it has not written the row.
Owns(o) ==
    LET p == c[o] IN
    p.pc # "idle" =>
        /\ p.r \in 1 .. used /\ row[p.r] = "none"
        /\ p.pc \in Early => p.r \notin ended
        /\ \A other \in Operators \ {o} : c[other].pc # "idle" => c[other].r # p.r

\* What a process has found out about its run, and what it has removed.
Told(p) ==
    /\ p.pc \in {"trigger", "discover"} => ~p.absent /\ ~p.kestra /\ ~p.unsubmitted
    /\ p.pc = "discover" => p.err
    /\ p.absent => p.err /\ ~p.kestra /\ ~p.eid
    /\ p.unsubmitted => p.eid
    /\ p.pc \notin {"github", "row"} => ~p.resources
    /\ p.pc # "row" => ~p.github

Removed(p) ==
    p.r \in ended =>
        /\ p.pc = "absence" => boxes[p.r] \cap p.seen = {}
        /\ p.pc \in {"github", "row"} /\ p.resources /\ ~p.absent => Quiet(p.r)
        /\ p.pc = "row" /\ p.resources /\ p.github /\ ~p.absent => Bare(p.r)

Knows(o) == Told(c[o]) /\ Removed(c[o])

-----------------------------------------------------------------------------
(* Types.                                                                  *)

LEMMA TypeStep ==
    ASSUME CanaryTypeOK, \A o \in Operators : Owns(o), [Next]_vars
    PROVE  CanaryTypeOK'
<1>. USE E2EAssumption DEF CanaryTypeOK, Runs
<1>u. CASE UNCHANGED vars
  BY <1>u DEF vars, world
<1>w. ASSUME NEW r \in Runs, World(r) PROVE CanaryTypeOK'
  <2>. USE <1>w
  <2>0. UNCHANGED <<c, row, ended, used>>
    BY DEF World
  <2>1. CASE TriggerArrives(r)
    BY <2>0, <2>1 DEF TriggerArrives, Executions
  <2>2. CASE Start(r)
    BY <2>0, <2>2 DEF Start, Executions
  <2>3. CASE Submit(r)
    BY <2>0, <2>3 DEF Submit
  <2>4. CASE IssueIsCreated(r)
    BY <2>0, <2>4 DEF IssueIsCreated
  <2>5. CASE IssuesAfter(r)
    BY <2>0, <2>5 DEF IssuesAfter
  <2>6. CASE FlowSucceeds(r)
    BY <2>0, <2>6 DEF FlowSucceeds, Executions, Terminal
  <2>7. CASE FlowFails(r)
    BY <2>0, <2>7 DEF FlowFails, Executions, Terminal
  <2>8. CASE Heartbeat(r)
    <3>1. beat[r].n + 1 \in Nat
      BY DEF Beats
    <3>. QED BY <2>0, <2>8, <3>1 DEF Heartbeat, Beats
  <2>9. CASE AgentWorks(r)
    BY <2>0, <2>9 DEF AgentWorks
  <2>10. CASE HeartbeatEnds(r)
    <3>1. PICK result \in {"succeeded", "failed"} : beat' = [beat EXCEPT ![r].now = result]
      BY <2>10 DEF HeartbeatEnds
    <3>2. \A b \in Beats : [b EXCEPT !.now = result] \in Beats
      BY DEF Beats
    <3>3. beat' \in [Runs -> Beats]
      BY <3>1, <3>2
    <3>. QED BY <2>0, <2>10, <3>3 DEF HeartbeatEnds
  <2>11. CASE LeaseIsReleased(r)
    BY <2>0, <2>11 DEF LeaseIsReleased
  <2>. QED BY <2>1, <2>2, <2>3, <2>4, <2>5, <2>6, <2>7, <2>8, <2>9, <2>10, <2>11 DEF World
<1>a. ASSUME NEW o \in Operators, Apply(o) PROVE CanaryTypeOK'
  <2>. USE <1>a
  <2>0. c[o] \in Processes /\ used + 1 \in Nat /\ Idle \in Processes
    BY DEF Processes, Idle
  <2>r. c[o].pc # "idle" => c[o].r \in Runs /\ Heartbeats(c[o].r) \subseteq Nat
    BY DEF Owns, Heartbeats, Beats
  <2>g. ASSUME NEW p \in Processes, Go(o, p) PROVE c' \in [Operators -> Processes]
    BY <2>g DEF Go
  <2>1. CASE Admit(o)
    <3>1. c' \in [Operators -> Processes]
      BY <2>0, <2>g, <2>1 DEF Admit, Processes, Idle, Early, Late, Heartbeats
    <3>2. used' \in 0 .. MaxRuns
      BY <2>1 DEF Admit
    <3>. QED BY <2>1, <3>1, <3>2 DEF Admit, world
  <2>2. CASE Trigger(o)
    <3>1. c' \in [Operators -> Processes]
      BY <2>0, <2>g, <2>2 DEF Trigger, Processes, Idle, Early, Late, Heartbeats
    <3>2. \E x \in Executions : exec' = [exec EXCEPT ![c[o].r] = x]
      <4>1. "queued" \in Executions /\ Unanswered \subseteq Executions
        BY DEF Executions, Unanswered
      <4>. QED BY <2>2, <4>1 DEF Trigger
    <3>3. exec' \in [Runs -> Executions]
      BY <3>2
    <3>. QED BY <2>2, <3>1, <3>3 DEF Trigger, Rest, Others
  <2>3. CASE Discover(o)
    <3>1. c' \in [Operators -> Processes]
      BY ZenonT(60), <2>0, <2>g, <2>3 DEF Discover, Processes, Idle, Early, Late, Heartbeats
        <3>. QED BY <2>0, <2>3, <3>1 DEF Discover, world, Rest, Others, Executions,
                Terminal, Unanswered, Beats
  <2>4. CASE Poll(o)
    <3>1. c' \in [Operators -> Processes]
      BY <2>0, <2>g, <2>4 DEF Poll, Processes, Idle, Early, Late, Heartbeats
        <3>. QED BY <2>0, <2>4, <3>1 DEF Poll, world, Rest, Others, Executions, Terminal,
                Unanswered, Beats
  <2>5. CASE Validate(o)
    <3>1. c' \in [Operators -> Processes]
      BY <2>0, <2>g, <2>5 DEF Validate, Processes, Idle, Early, Late, Heartbeats
        <3>. QED BY <2>0, <2>5, <3>1 DEF Validate, world, Rest, Others, Executions,
                Terminal, Unanswered, Beats
  <2>6. CASE CleanupKestra(o)
    <3>1. c' \in [Operators -> Processes]
      BY <2>0, <2>g, <2>6 DEF CleanupKestra, Processes, Idle, Early, Late, Heartbeats
        <3>. QED BY <2>0, <2>6, <3>1 DEF CleanupKestra, world, Rest, Others, Executions,
                Terminal, Unanswered, Beats
  <2>7. CASE CleanupPaperclip(o)
    <3>0. c[o].r \in Runs
      BY <2>r, <2>7 DEF CleanupPaperclip, At
    <3>2. \A now \in {"none", "cancelled"} : [beat[c[o].r] EXCEPT !.now = now] \in Beats
      BY ZenonT(60), <3>0 DEF Beats
    <3>3. beat' = beat \/ \E now \in {"none", "cancelled"} :
                             beat' = [beat EXCEPT ![c[o].r].now = now]
      <4>1. PICK b \in {beat, [beat EXCEPT ![c[o].r].now =
                                   IF @ = "none" THEN @ ELSE "cancelled"]} : beat' = b
        BY <2>7 DEF CleanupPaperclip
      <4>. QED BY <4>1
    <3>4. beat' \in [Runs -> Beats]
      BY <3>2, <3>3
    <3>1. c' \in [Operators -> Processes]
      BY <2>0, <2>g, <2>7 DEF CleanupPaperclip, Processes, Idle, Early, Late, Heartbeats
    <3>. QED BY <2>0, <2>7, <3>0, <3>1, <3>4 DEF CleanupPaperclip, Rest, Others
  <2>8. CASE CleanupResources(o)
    <3>1. c' \in [Operators -> Processes]
      BY <2>0, <2>g, <2>8 DEF CleanupResources, Processes, Idle, Early, Late, Heartbeats
    <3>. QED BY <2>0, <2>r, <2>8, <3>1 DEF CleanupResources, At, Others
  <2>9. CASE AwaitRelease(o)
    <3>1. c' \in [Operators -> Processes]
      BY <2>0, <2>g, <2>r, <2>9 DEF AwaitRelease, At, Processes, Early, Late
        <3>. QED BY <2>0, <2>9, <3>1 DEF AwaitRelease, world, Rest, Others, Executions,
                Terminal, Unanswered, Beats
  <2>10. CASE DeleteSandboxes(o)
    <3>1. c' \in [Operators -> Processes]
      BY <2>0, <2>g, <2>10 DEF DeleteSandboxes, Processes, Idle, Early, Late, Heartbeats
    <3>2. boxes' = boxes \/ boxes' = [boxes EXCEPT ![c[o].r] = @ \ c[o].seen]
      BY <2>10 DEF DeleteSandboxes
    <3>3. \A r \in Runs : boxes[r] \ c[o].seen \in SUBSET Nat
      OBVIOUS
    <3>4. boxes' \in [Runs -> SUBSET Nat]
      <4>1. boxes \in [Runs -> SUBSET Nat]
        OBVIOUS
      <4>. HIDE DEF Runs
      <4>2. CASE boxes' = [boxes EXCEPT ![c[o].r] = @ \ c[o].seen]
        BY <3>3, <4>1, <4>2
      <4>. QED BY <3>2, <4>1, <4>2
    <3>. QED BY <2>10, <3>1, <3>4 DEF DeleteSandboxes, Rest, Others
  <2>11. CASE VerifyAbsence(o)
    <3>1. c' \in [Operators -> Processes]
      BY <2>0, <2>g, <2>11 DEF VerifyAbsence, Processes, Idle, Early, Late, Heartbeats
        <3>. QED BY <2>0, <2>11, <3>1 DEF VerifyAbsence, world, Rest, Others, Executions,
                Terminal, Unanswered, Beats
  <2>12. CASE CleanupGithub(o)
    <3>1. c' \in [Operators -> Processes]
            BY ZenonT(60), <2>0, <2>g, <2>12 DEF CleanupGithub, Processes, Idle, Early,
         Late, Heartbeats
        <3>. QED BY ZenonT(60), <2>0, <2>12, <3>1 DEF CleanupGithub, world, Rest, Others,
                Executions, Terminal, Unanswered, Beats
  <2>13. CASE EndRun(o)
    <3>1. c' \in [Operators -> Processes]
      BY ZenonT(60), <2>0, <2>g, <2>13 DEF EndRun, Processes, Idle, Early, Late, Heartbeats
    <3>2. used' \in 0 .. MaxRuns
      BY <2>13 DEF EndRun
    <3>3. row' \in [Runs -> {"none", "completed", "incomplete"}]
      BY <2>13 DEF EndRun
    <3>. QED BY <2>13, <3>1, <3>2, <3>3 DEF EndRun, world
  <2>14. CASE Die(o)
    <3>1. c' \in [Operators -> Processes]
      BY <2>0, <2>g, <2>14 DEF Die, Processes, Idle, Early, Late, Heartbeats
        <3>. QED BY <2>0, <2>14, <3>1 DEF Die, world, Rest, Others, Executions, Terminal,
                Unanswered, Beats
    <2>. QED BY <2>1, <2>2, <2>3, <2>4, <2>5, <2>6, <2>7, <2>8, <2>9, <2>10, <2>11, <2>12,
              <2>13, <2>14 DEF Apply
<1>. QED BY <1>u, <1>w, <1>a DEF Next

-----------------------------------------------------------------------------
(* What a step leaves of a run.                                            *)

\* If the run is over it stays over, nothing comes back that was removed.
Calm(r) ==
    r \in ended =>
        /\ Settled(r)'
        /\ boxes'[r] \subseteq boxes[r]
        /\ Quiet(r) => Quiet(r)'
        /\ Quiet(r) /\ Bare(r) => Bare(r)'

RunInv(r) == RunOK(r) /\ EndedOK(r) /\ (r > used => Untouched(r))

Frame(r) ==
    /\ exec'[r] = exec[r] /\ flow'[r] = flow[r] /\ issue'[r] = issue[r]
    /\ beat'[r] = beat[r] /\ leases'[r] = leases[r] /\ boxes'[r] = boxes[r]
    /\ branch'[r] = branch[r] /\ pull'[r] = pull[r]

\* The type of a run's part of the state.
LEMMA RunTyped ==
    ASSUME CanaryTypeOK, NEW r \in Runs
    PROVE  /\ exec[r] \in Executions /\ flow[r] \in {"start", "submitting", "known"}
           /\ issue[r] \in {"none", "todo", "done", "cancelled"}
           /\ beat[r] \in Beats /\ beat[r].n \in Nat
           /\ leases[r] \subseteq Nat /\ boxes[r] \subseteq Nat
           /\ branch[r] \in BOOLEAN /\ pull[r] \in BOOLEAN
BY DEF CanaryTypeOK, Beats

LEMMA FrameStep ==
    ASSUME NEW r, RunOK(r), EndedOK(r), Frame(r)
    PROVE  RunOK(r)' /\ Calm(r)
BY DEF RunOK, EndedOK, Frame, Calm, Settled, Quiet, Bare

LEMMA WorldStep ==
    ASSUME CanaryTypeOK, NEW w \in Runs, World(w), NEW r \in Runs, RunInv(r)
    PROVE  RunOK(r)' /\ Calm(r) /\ (Untouched(r) => Untouched(r)')
<1>. USE DEF CanaryTypeOK
<1>0. UNCHANGED <<c, row, ended, used>>
  BY DEF World
<1>t. /\ exec[r] \in Executions /\ flow[r] \in {"start", "submitting", "known"}
      /\ issue[r] \in {"none", "todo", "done", "cancelled"}
      /\ beat[r] \in Beats /\ beat[r].n \in Nat
      /\ leases[r] \subseteq Nat /\ boxes[r] \subseteq Nat
  BY RunTyped
<1>i. RunOK(r) /\ EndedOK(r)
  BY DEF RunInv
<1>o. CASE r # w
  <2>1. Frame(r)
    <3>1. CASE TriggerArrives(w)
      BY <1>o, <3>1 DEF TriggerArrives, Frame
    <3>2. CASE Start(w)
      BY <1>o, <3>2 DEF Start, Frame
    <3>3. CASE Submit(w)
      BY <1>o, <3>3 DEF Submit, Frame
    <3>4. CASE IssueIsCreated(w)
      BY <1>o, <3>4 DEF IssueIsCreated, Frame
    <3>5. CASE IssuesAfter(w)
      BY <1>o, <3>5 DEF IssuesAfter, Frame
    <3>6. CASE FlowSucceeds(w)
      BY <1>o, <3>6 DEF FlowSucceeds, Frame
    <3>7. CASE FlowFails(w)
      BY <1>o, <3>7 DEF FlowFails, Frame
    <3>8. CASE Heartbeat(w)
      BY <1>o, <3>8 DEF Heartbeat, Frame
    <3>9. CASE AgentWorks(w)
      BY <1>o, <3>9 DEF AgentWorks, Frame
    <3>10. CASE HeartbeatEnds(w)
      BY <1>o, <3>10 DEF HeartbeatEnds, Frame
    <3>11. CASE LeaseIsReleased(w)
      BY <1>o, <3>11 DEF LeaseIsReleased, Frame
    <3>. QED BY <3>1, <3>2, <3>3, <3>4, <3>5, <3>6, <3>7, <3>8, <3>9, <3>10, <3>11 DEF World
  <2>2. UNCHANGED <<exec[r], flow[r]>>
    BY <2>1 DEF Frame
  <2>. QED BY <1>0, <1>i, <2>1, <2>2, FrameStep DEF Untouched
<1>s. CASE r = w
  <2>1. CASE TriggerArrives(w)
    <3>1. exec[r] = "requested" /\ exec'[r] = "queued"
        /\ UNCHANGED <<flow, issue, beat, leases, boxes, branch, pull>>
      BY <1>s, <2>1 DEF TriggerArrives
        <3>. QED BY <1>0, <1>t, <1>i, <3>1 DEF RunOK, EndedOK, Calm, Settled, Quiet, Bare,
                Untouched, Terminal
  <2>2. CASE Start(w)
    <3>1. exec[r] = "queued" /\ exec'[r] = "running"
        /\ UNCHANGED <<flow, issue, beat, leases, boxes, branch, pull>>
      BY <1>s, <2>2 DEF Start
        <3>. QED BY <1>0, <1>t, <1>i, <3>1 DEF RunOK, EndedOK, Calm, Settled, Quiet, Bare,
                Untouched, Terminal
  <2>3. CASE Submit(w)
    <3>1. exec[r] = "running" /\ flow[r] = "start" /\ flow'[r] = "submitting"
        /\ UNCHANGED <<exec, issue, beat, leases, boxes, branch, pull>>
      BY <1>s, <2>3 DEF Submit
        <3>. QED BY <1>0, <1>t, <1>i, <3>1 DEF RunOK, EndedOK, Calm, Settled, Quiet, Bare,
                Untouched, Terminal
  <2>4. CASE IssueIsCreated(w)
    <3>1. flow[r] = "submitting" /\ issue[r] = "none" /\ issue'[r] = "todo"
        /\ UNCHANGED <<exec, flow, beat, leases, boxes, branch, pull>>
      BY <1>s, <2>4 DEF IssueIsCreated
        <3>. QED BY <1>0, <1>t, <1>i, <3>1 DEF RunOK, EndedOK, Calm, Settled, Quiet, Bare,
                Untouched, Terminal
  <2>5. CASE IssuesAfter(w)
    <3>1. exec[r] = "running" /\ issue[r] # "none" /\ flow'[r] = "known"
        /\ UNCHANGED <<exec, issue, beat, leases, boxes, branch, pull>>
      BY <1>s, <2>5 DEF IssuesAfter
        <3>. QED BY <1>0, <1>t, <1>i, <3>1 DEF RunOK, EndedOK, Calm, Settled, Quiet, Bare,
                Untouched, Terminal
  <2>6. CASE FlowSucceeds(w)
    <3>1. exec[r] = "running" /\ exec'[r] = "SUCCESS"
        /\ UNCHANGED <<flow, issue, beat, leases, boxes, branch, pull>>
      BY <1>s, <2>6 DEF FlowSucceeds
        <3>. QED BY <1>0, <1>t, <1>i, <3>1 DEF RunOK, EndedOK, Calm, Settled, Quiet, Bare,
                Untouched, Terminal
  <2>7. CASE FlowFails(w)
    <3>1. /\ exec[r] = "running" /\ exec'[r] = "FAILED"
          /\ UNCHANGED <<flow, beat, leases, boxes, branch, pull>>
      BY <1>s, <2>7 DEF FlowFails
    <3>2. \/ flow[r] = "known" /\ issue'[r] = "cancelled"
          \/ issue'[r] = issue[r]
      BY <1>s, <2>7 DEF FlowFails
    <3>. QED BY <1>0, <1>t, <1>i, <3>1, <3>2 DEF RunOK, EndedOK, Calm, Settled, Quiet, Bare,
             Untouched, Terminal
  <2>8. CASE Heartbeat(w)
    <3>1. issue[r] = "todo" /\ beat'[r] = [n |-> beat[r].n + 1, now |-> "running"]
        /\ leases'[r] = leases[r] \cup {beat[r].n + 1}
        /\ boxes'[r] = boxes[r] \cup {beat[r].n + 1}
        /\ UNCHANGED <<exec, flow, issue, branch, pull>>
      BY <1>s, <2>8 DEF Heartbeat
        <3>. QED BY <1>0, <1>t, <1>i, <3>1 DEF RunOK, EndedOK, Calm, Settled, Quiet, Bare,
                Untouched, Terminal
  <2>9. CASE AgentWorks(w)
    <3>1. beat[r].now = "running" /\ UNCHANGED <<exec, flow, beat, leases, boxes>>
      BY <1>s, <2>9 DEF AgentWorks
    <3>2. \/ issue[r] = "todo" /\ issue'[r] = "done"
          \/ issue'[r] = issue[r]
      BY <1>s, <2>9 DEF AgentWorks
    <3>. QED BY <1>0, <1>t, <1>i, <3>1, <3>2 DEF RunOK, EndedOK, Calm, Settled, Quiet, Bare,
             Untouched, Terminal
  <2>10. CASE HeartbeatEnds(w)
    <3>1. beat[r].now = "running" /\ beat'[r].n = beat[r].n
        /\ beat'[r].now # "running"
        /\ UNCHANGED <<exec, flow, issue, leases, boxes, branch, pull>>
      BY <1>s, <2>10 DEF HeartbeatEnds, Beats
        <3>. QED BY <1>0, <1>t, <1>i, <3>1 DEF RunOK, EndedOK, Calm, Settled, Quiet, Bare,
                Untouched, Terminal
  <2>11. CASE LeaseIsReleased(w)
    <3>1. (\E n \in leases[r] : (n = beat[r].n => beat[r].now # "running")
        /\ leases'[r] = leases[r] \ {n}) /\ boxes'[r] \subseteq boxes[r]
        /\ UNCHANGED <<exec, flow, issue, beat, branch, pull>>
      BY <1>s, <2>11 DEF LeaseIsReleased
        <3>. QED BY <1>0, <1>t, <1>i, <3>1 DEF RunOK, EndedOK, Calm, Settled, Quiet, Bare,
                Untouched, Terminal
  <2>. QED BY <2>1, <2>2, <2>3, <2>4, <2>5, <2>6, <2>7, <2>8, <2>9, <2>10, <2>11 DEF World
<1>. QED BY <1>o, <1>s

Owners == \A o \in Operators : Owns(o)

\* `apply` touches its own run only, which nobody else has.
LEMMA ApplyStep ==
    ASSUME CanaryTypeOK, Owners, NEW o \in Operators, Apply(o), NEW r \in Runs, RunInv(r)
    PROVE  /\ RunOK(r)' /\ Calm(r) /\ EndedOK(r)'
           /\ r > used' => Untouched(r)'
<1>. USE E2EAssumption DEF CanaryTypeOK
<1>p. c[o] \in Processes /\ used \in Nat
  BY DEF Runs
<1>t. /\ exec[r] \in Executions /\ flow[r] \in {"start", "submitting", "known"}
      /\ issue[r] \in {"none", "todo", "done", "cancelled"}
      /\ beat[r] \in Beats /\ beat[r].n \in Nat
      /\ leases[r] \subseteq Nat /\ boxes[r] \subseteq Nat
  BY RunTyped
<1>i. RunOK(r) /\ EndedOK(r) /\ (r > used => Untouched(r))
  BY DEF RunInv
<1>n. c[o].pc # "idle" => c[o].r \in 1 .. used
  BY DEF Owners, Owns
<1>e. c[o].pc \in Early => c[o].r \notin ended
  <2>1. c[o].pc \in Early => c[o].pc # "idle"
    BY DEF Early
  <2>. QED BY <2>1 DEF Owners, Owns
<1>1. \/ ended' = ended
      \/ ended' = ended \cup {c[o].r} /\ c[o].pc # "idle" /\ Settled(c[o].r) /\ CleanupResources(o)
    BY Zenon DEF Apply, Admit, Trigger, Discover, Poll, Validate, CleanupKestra,
     CleanupPaperclip, CleanupResources, AwaitRelease, DeleteSandboxes, VerifyAbsence,
     CleanupGithub, EndRun, Die, Rest,
     At
<1>2. used' = used \/ used' = used + 1
  BY Zenon DEF Apply, Admit, Trigger, Discover, Poll, Validate, CleanupKestra,
     CleanupPaperclip, CleanupResources, AwaitRelease, DeleteSandboxes, VerifyAbsence,
     CleanupGithub, EndRun, Die, Rest, Others
<1>3. (c[o].pc # "idle" => r # c[o].r) => row'[r] = row[r]
  <2>1. CASE Admit(o)
    BY <2>1 DEF Admit, Rest, Others
  <2>2. CASE Trigger(o)
    BY <2>2 DEF Trigger, Rest, Others
  <2>3. CASE Discover(o)
    BY <2>3 DEF Discover, Rest, Others
  <2>4. CASE Poll(o)
    BY <2>4 DEF Poll, Rest, Others
  <2>5. CASE Validate(o)
    BY <2>5 DEF Validate, Rest, Others
  <2>6. CASE CleanupKestra(o)
    BY <2>6 DEF CleanupKestra, Rest, Others
  <2>7. CASE CleanupPaperclip(o)
    BY <2>7 DEF CleanupPaperclip, Rest, Others
  <2>8. CASE CleanupResources(o)
    BY <2>8 DEF CleanupResources, Rest, Others
  <2>9. CASE AwaitRelease(o)
    BY <2>9 DEF AwaitRelease, Rest, Others
  <2>10. CASE DeleteSandboxes(o)
    BY <2>10 DEF DeleteSandboxes, Rest, Others
  <2>11. CASE VerifyAbsence(o)
    BY <2>11 DEF VerifyAbsence, Rest, Others
  <2>12. CASE CleanupGithub(o)
    BY <2>12 DEF CleanupGithub, Rest, Others
  <2>13. CASE Die(o)
    BY <2>13 DEF Die, Rest, Others
  <2>14. CASE EndRun(o)
    <3>1. c[o].pc # "idle"
      BY <2>14 DEF EndRun, At
    <3>2. \E x : row' = [row EXCEPT ![c[o].r] = x]
      BY <2>14 DEF EndRun
    <3>. QED BY <3>1, <3>2
    <2>. QED BY <2>1, <2>2, <2>3, <2>4, <2>5, <2>6, <2>7, <2>8, <2>9, <2>10, <2>11, <2>12,
              <2>13, <2>14 DEF Apply
<1>4. CASE r # c[o].r \/ Admit(o) \/ Discover(o) \/ Validate(o) \/ CleanupResources(o)
           \/ AwaitRelease(o) \/ VerifyAbsence(o) \/ EndRun(o) \/ Die(o)
  <2>1. Frame(r)
    <3>1. CASE Admit(o)
      BY <1>4, <3>1 DEF Admit, At, world, Frame
    <3>2. CASE Trigger(o) /\ r # c[o].r
      BY <3>2 DEF Trigger, Frame
    <3>3. CASE Discover(o)
      BY <1>4, <3>3 DEF Discover, At, world, Frame
    <3>4. CASE Poll(o) /\ r # c[o].r
      BY <3>4 DEF Poll, Frame
    <3>5. CASE Validate(o)
      BY <1>4, <3>5 DEF Validate, At, world, Frame
    <3>6. CASE CleanupKestra(o) /\ r # c[o].r
      BY <3>6 DEF CleanupKestra, Frame
    <3>7. CASE CleanupPaperclip(o) /\ r # c[o].r
      BY <3>7 DEF CleanupPaperclip, Frame
    <3>8. CASE CleanupResources(o)
      BY <1>4, <3>8 DEF CleanupResources, At, world, Frame
    <3>9. CASE AwaitRelease(o)
      BY <1>4, <3>9 DEF AwaitRelease, At, world, Frame
    <3>10. CASE DeleteSandboxes(o) /\ r # c[o].r
      BY <3>10 DEF DeleteSandboxes, Frame
    <3>11. CASE VerifyAbsence(o)
      BY <1>4, <3>11 DEF VerifyAbsence, At, world, Frame
    <3>12. CASE CleanupGithub(o) /\ r # c[o].r
      <4>1. /\ branch' = branch \/ branch' = [branch EXCEPT ![c[o].r] = FALSE]
            /\ pull' = pull \/ pull' = [pull EXCEPT ![c[o].r] = FALSE]
        <5>1. [c[o] EXCEPT !.pc = "row"].r = c[o].r
          BY <1>p DEF Processes
        <5>. QED BY <3>12, <5>1, Zenon DEF CleanupGithub
      <4>2. UNCHANGED <<exec, flow, issue, beat, leases, boxes>>
        BY <3>12 DEF CleanupGithub
      <4>. QED BY <3>12, <4>1, <4>2 DEF Frame
    <3>13. CASE EndRun(o)
      BY <1>4, <3>13 DEF EndRun, At, world, Frame
    <3>14. CASE Die(o)
      BY <1>4, <3>14 DEF Die, At, world, Frame
        <3>. QED BY <1>4, <3>1, <3>2, <3>3, <3>4, <3>5, <3>6, <3>7, <3>8, <3>9, <3>10,
                <3>11, <3>12, <3>13, <3>14 DEF Apply
  <2>2. RunOK(r)' /\ Calm(r)
    BY <1>i, <2>1, FrameStep
  <2>3. EndedOK(r)'
    BY <1>1, <2>1, <2>2 DEF EndedOK, Calm, Settled, Frame
  <2>4. r > used' => Untouched(r)'
    <3>. SUFFICES ASSUME r > used' PROVE Untouched(r)'
      OBVIOUS
    <3>1. r > used
      BY <1>p, <1>2, <1>n DEF Runs
    <3>2. ~(c[o].pc # "idle" /\ r = c[o].r)
      BY <1>p, <1>n, <3>1 DEF Runs
    <3>. QED BY <1>1, <1>3, <1>i, <2>1, <3>1, <3>2 DEF Untouched, Frame
  <2>. QED BY <2>2, <2>3, <2>4
<1>5. CASE r = c[o].r /\ (Trigger(o) \/ Poll(o) \/ CleanupKestra(o) \/ CleanupPaperclip(o)
                          \/ DeleteSandboxes(o) \/ CleanupGithub(o))
  <2>1. ended' = ended /\ c[o].pc # "idle"
        BY <1>5 DEF Trigger, Poll, CleanupKestra, CleanupPaperclip, DeleteSandboxes,
       CleanupGithub,
       Rest, At
  <2>2. ~(r > used')
    BY <1>p, <1>n, <1>2, <1>5, <2>1 DEF Runs
  <2>3. CASE Trigger(o) \/ Poll(o) \/ CleanupKestra(o)
    <3>1. r \notin ended
      BY <1>e, <1>5, <2>3 DEF Trigger, Poll, CleanupKestra, At, Early
    <3>2. UNCHANGED <<flow, issue, beat, leases, boxes, branch, pull>>
      BY <2>3 DEF Trigger, Poll, CleanupKestra
    <3>. QED BY <1>i, <2>1, <2>2, <3>1, <3>2 DEF RunOK, Calm, EndedOK
  <2>4. CASE CleanupPaperclip(o)
    <3>1. r \notin ended
      BY <1>e, <1>5, <2>4 DEF CleanupPaperclip, At, Early
    <3>2. UNCHANGED <<flow, leases, boxes, branch, pull>>
      BY <2>4 DEF CleanupPaperclip
    <3>3. \/ issue'[r] = issue[r]
          \/ flow[r] = "known" /\ issue'[r] = "cancelled"
      BY <1>5, <2>4 DEF CleanupPaperclip, IssueId
    <3>4. beat'[r].n = beat[r].n /\ (beat'[r].now = "running" => beat[r].now = "running")
      BY <1>t, <1>5, <2>4 DEF CleanupPaperclip, Beats
    <3>. QED BY <1>i, <1>t, <2>1, <2>2, <3>1, <3>2, <3>3, <3>4 DEF RunOK, Calm, EndedOK
  <2>5. CASE DeleteSandboxes(o)
    <3>1. UNCHANGED <<exec, flow, issue, beat, leases, branch, pull>>
      BY <2>5 DEF DeleteSandboxes
    <3>2. boxes'[r] \subseteq boxes[r]
      BY <1>5, <2>5 DEF DeleteSandboxes
    <3>. QED BY <1>i, <2>1, <2>2, <3>1, <3>2 DEF RunOK, Calm, EndedOK, Settled, Quiet, Bare
  <2>6. CASE CleanupGithub(o)
    <3>1. UNCHANGED <<exec, flow, issue, beat, leases, boxes>>
      BY <2>6 DEF CleanupGithub
    <3>2. (branch'[r] => branch[r]) /\ (pull'[r] => pull[r])
      BY <1>5, <2>6 DEF CleanupGithub
    <3>. QED BY <1>i, <2>1, <2>2, <3>1, <3>2 DEF RunOK, Calm, EndedOK, Settled, Quiet, Bare
  <2>. QED BY <1>5, <2>3, <2>4, <2>5, <2>6
<1>. QED BY <1>4, <1>5 DEF Apply

-----------------------------------------------------------------------------
(* The processes.                                                          *)

LEMMA WorldOwners ==
    ASSUME Owners, NEW w \in Runs, World(w)
    PROVE  Owners'
BY DEF World, Owners, Owns

\* A process goes on with its run, is idle, or has a run that is new.
Moves(o) ==
    \/ /\ c[o].pc # "idle" /\ c'[o].pc # "idle" /\ c'[o].r = c[o].r
       /\ row' = row
       /\ c'[o].pc \in Early => c[o].pc \in Early \ {"resources"}
    \/ c'[o].pc = "idle"
    \/ c'[o].r = used + 1 /\ used' = used + 1 /\ c'[o].pc = "trigger" /\ used + 1 \in Runs

LEMMA MovesStep ==
    ASSUME CanaryTypeOK, Owners, NEW o \in Operators, Apply(o)
    PROVE  /\ Moves(o)
           /\ used' = used \/ used' = used + 1
           /\ \A other \in Operators \ {o} : c'[other] = c[other]
           /\ \/ row' = row
              \/ c[o].pc = "row" /\ \E x : row' = [row EXCEPT ![c[o].r] = x]
           /\ \/ ended' = ended
              \/ /\ ended' = ended \cup {c[o].r} /\ c[o].pc = "resources"
                 /\ row' = row /\ Settled(c[o].r)
           /\ Idle.pc = "idle"
<1>. USE E2EAssumption DEF CanaryTypeOK
<1>p. c[o] \in Processes /\ used \in 0 .. MaxRuns /\ Idle.pc = "idle"
  BY DEF Idle
<1>f. \A p : Go(o, p) => c'[o] = p /\ \A other \in Operators \ {o} : c'[other] = c[other]
  BY DEF Go
<1>h. c[o].pc # "idle" => Heartbeats(c[o].r) \subseteq Nat
  BY DEF Owners, Owns, Heartbeats, Beats, Runs
<1>2. CASE Trigger(o)
  <2>1. \E p : Go(o, p)
    BY <1>2 DEF Trigger
  <2>2. UNCHANGED <<row, used>>
    BY <1>2 DEF Trigger, Rest, Others
  <2>3. UNCHANGED ended
    BY <1>2 DEF Trigger, Rest, Others
  <2>4. /\ c[o].pc = "trigger" /\ c'[o].pc \in {"poll", "discover"}
        /\ c'[o].r = c[o].r
    <3>1. ASSUME NEW p \in Processes, p.pc \in {"poll", "discover"}, p.r = c[o].r, Go(o, p)
          PROVE  c'[o].pc \in {"poll", "discover"} /\ c'[o].r = c[o].r
      BY <3>1 DEF Go
    <3>2. c[o].pc = "trigger"
      BY <1>2 DEF Trigger, At
    <3>. QED BY <1>p, <1>h, <1>2, <3>1, <3>2 DEF Trigger, Processes, Early, Late
  <2>. QED BY <1>p, <1>f, <2>1, <2>2, <2>3, <2>4 DEF Moves, Early
<1>3. CASE Discover(o)
  <2>1. \E p : Go(o, p)
    BY <1>3 DEF Discover
  <2>2. UNCHANGED <<row, used>>
    BY <1>3 DEF Discover, Rest, Others
  <2>3. UNCHANGED ended
    BY <1>3 DEF Discover, Rest, Others
  <2>4. /\ c[o].pc = "discover" /\ c'[o].pc \in {"kestra"}
        /\ c'[o].r = c[o].r
    <3>1. ASSUME NEW p \in Processes, p.pc \in {"kestra"}, p.r = c[o].r, Go(o, p)
          PROVE  c'[o].pc \in {"kestra"} /\ c'[o].r = c[o].r
      BY <3>1 DEF Go
    <3>2. c[o].pc = "discover"
      BY <1>3 DEF Discover, At
    <3>. QED BY <1>p, <1>h, <1>3, <3>1, <3>2 DEF Discover, Processes, Early, Late
  <2>. QED BY <1>p, <1>f, <2>1, <2>2, <2>3, <2>4 DEF Moves, Early
<1>4. CASE Poll(o)
  <2>1. \E p : Go(o, p)
    BY <1>4 DEF Poll
  <2>2. UNCHANGED <<row, used>>
    BY <1>4 DEF Poll, Rest, Others
  <2>3. UNCHANGED ended
    BY <1>4 DEF Poll, Rest, Others
  <2>4. /\ c[o].pc = "poll" /\ c'[o].pc \in {"validate", "kestra"}
        /\ c'[o].r = c[o].r
    <3>1. ASSUME NEW p \in Processes, p.pc \in {"validate", "kestra"}, p.r = c[o].r, Go(o, p)
          PROVE  c'[o].pc \in {"validate", "kestra"} /\ c'[o].r = c[o].r
      BY <3>1 DEF Go
    <3>2. c[o].pc = "poll"
      BY <1>4 DEF Poll, At
    <3>. QED BY <1>p, <1>h, <1>4, <3>1, <3>2 DEF Poll, Processes, Early, Late
  <2>. QED BY <1>p, <1>f, <2>1, <2>2, <2>3, <2>4 DEF Moves, Early
<1>5. CASE Validate(o)
  <2>1. \E p : Go(o, p)
    BY <1>5 DEF Validate
  <2>2. UNCHANGED <<row, used>>
    BY <1>5 DEF Validate, Rest, Others
  <2>3. UNCHANGED ended
    BY <1>5 DEF Validate, Rest, Others
  <2>4. /\ c[o].pc = "validate" /\ c'[o].pc \in {"resources", "kestra"}
        /\ c'[o].r = c[o].r
    <3>1. ASSUME NEW p \in Processes, p.pc \in {"resources", "kestra"}, p.r = c[o].r, Go(o, p)
          PROVE  c'[o].pc \in {"resources", "kestra"} /\ c'[o].r = c[o].r
      BY <3>1 DEF Go
    <3>2. c[o].pc = "validate"
      BY <1>5 DEF Validate, At
    <3>. QED BY <1>p, <1>h, <1>5, <3>1, <3>2 DEF Validate, Processes, Early, Late
  <2>. QED BY <1>p, <1>f, <2>1, <2>2, <2>3, <2>4 DEF Moves, Early
<1>6. CASE CleanupKestra(o)
  <2>1. \E p : Go(o, p)
    BY <1>6 DEF CleanupKestra
  <2>2. UNCHANGED <<row, used>>
    BY <1>6 DEF CleanupKestra, Rest, Others
  <2>3. UNCHANGED ended
    BY <1>6 DEF CleanupKestra, Rest, Others
  <2>4. /\ c[o].pc = "kestra" /\ c'[o].pc \in {"paperclip"}
        /\ c'[o].r = c[o].r
    <3>1. ASSUME NEW p \in Processes, p.pc \in {"paperclip"}, p.r = c[o].r, Go(o, p)
          PROVE  c'[o].pc \in {"paperclip"} /\ c'[o].r = c[o].r
      BY <3>1 DEF Go
    <3>2. c[o].pc = "kestra"
      BY <1>6 DEF CleanupKestra, At
    <3>. QED BY <1>p, <1>h, <1>6, <3>1, <3>2 DEF CleanupKestra, Processes, Early, Late
  <2>. QED BY <1>p, <1>f, <2>1, <2>2, <2>3, <2>4 DEF Moves, Early
<1>7. CASE CleanupPaperclip(o)
  <2>1. \E p : Go(o, p)
    BY <1>7 DEF CleanupPaperclip
  <2>2. UNCHANGED <<row, used>>
    BY <1>7 DEF CleanupPaperclip, Rest, Others
  <2>3. UNCHANGED ended
    BY <1>7 DEF CleanupPaperclip, Rest, Others
  <2>4. /\ c[o].pc = "paperclip" /\ c'[o].pc \in {"resources"}
        /\ c'[o].r = c[o].r
    <3>1. ASSUME NEW p \in Processes, p.pc \in {"resources"}, p.r = c[o].r, Go(o, p)
          PROVE  c'[o].pc \in {"resources"} /\ c'[o].r = c[o].r
      BY <3>1 DEF Go
    <3>2. c[o].pc = "paperclip"
      BY <1>7 DEF CleanupPaperclip, At
    <3>. QED BY <1>p, <1>h, <1>7, <3>1, <3>2 DEF CleanupPaperclip, Processes, Early, Late
  <2>. QED BY <1>p, <1>f, <2>1, <2>2, <2>3, <2>4 DEF Moves, Early
<1>8. CASE CleanupResources(o)
  <2>1. \E p : Go(o, p)
    BY <1>8 DEF CleanupResources
  <2>2. UNCHANGED <<row, used>>
    BY <1>8 DEF CleanupResources, Rest, Others
  <2>3. /\ c[o].pc = "resources"
        /\ \/ ended' = ended
           \/ ended' = ended \cup {c[o].r} /\ Settled(c[o].r)
    BY <1>8 DEF CleanupResources, At
  <2>4. /\ c[o].pc = "resources" /\ c'[o].pc \in {"release", "github"}
        /\ c'[o].r = c[o].r
    <3>1. ASSUME NEW p \in Processes, p.pc \in {"release", "github"}, p.r = c[o].r, Go(o, p)
          PROVE  c'[o].pc \in {"release", "github"} /\ c'[o].r = c[o].r
      BY <3>1 DEF Go
    <3>2. c[o].pc = "resources"
      BY <1>8 DEF CleanupResources, At
        <3>. QED BY ZenonT(60), <1>p, <1>h, <1>8, <3>1, <3>2 DEF CleanupResources,
                Processes, Early, Late
  <2>. QED BY <1>p, <1>f, <2>1, <2>2, <2>3, <2>4 DEF Moves, Early
<1>9. CASE AwaitRelease(o)
  <2>1. \E p : Go(o, p)
    BY <1>9 DEF AwaitRelease
  <2>2. UNCHANGED <<row, used>>
    BY <1>9 DEF AwaitRelease, Rest, Others
  <2>3. UNCHANGED ended
    BY <1>9 DEF AwaitRelease, Rest, Others
  <2>4. /\ c[o].pc = "release" /\ c'[o].pc \in {"sandboxes", "github"}
        /\ c'[o].r = c[o].r
    <3>1. ASSUME NEW p \in Processes, p.pc \in {"sandboxes", "github"}, p.r = c[o].r, Go(o, p)
          PROVE  c'[o].pc \in {"sandboxes", "github"} /\ c'[o].r = c[o].r
      BY <3>1 DEF Go
    <3>2. c[o].pc = "release"
      BY <1>9 DEF AwaitRelease, At
    <3>. QED BY <1>p, <1>h, <1>9, <3>1, <3>2 DEF AwaitRelease, Processes, Early, Late
  <2>. QED BY <1>p, <1>f, <2>1, <2>2, <2>3, <2>4 DEF Moves, Early
<1>10. CASE DeleteSandboxes(o)
  <2>1. \E p : Go(o, p)
    BY <1>10 DEF DeleteSandboxes
  <2>2. UNCHANGED <<row, used>>
    BY <1>10 DEF DeleteSandboxes, Rest, Others
  <2>3. UNCHANGED ended
    BY <1>10 DEF DeleteSandboxes, Rest, Others
  <2>4. /\ c[o].pc = "sandboxes" /\ c'[o].pc \in {"absence", "github"}
        /\ c'[o].r = c[o].r
    <3>1. ASSUME NEW p \in Processes, p.pc \in {"absence", "github"}, p.r = c[o].r, Go(o, p)
          PROVE  c'[o].pc \in {"absence", "github"} /\ c'[o].r = c[o].r
      BY <3>1 DEF Go
    <3>2. c[o].pc = "sandboxes"
      BY <1>10 DEF DeleteSandboxes, At
    <3>. QED BY <1>p, <1>h, <1>10, <3>1, <3>2 DEF DeleteSandboxes, Processes, Early, Late
  <2>. QED BY <1>p, <1>f, <2>1, <2>2, <2>3, <2>4 DEF Moves, Early
<1>11. CASE VerifyAbsence(o)
  <2>1. \E p : Go(o, p)
    BY <1>11 DEF VerifyAbsence
  <2>2. UNCHANGED <<row, used>>
    BY <1>11 DEF VerifyAbsence, Rest, Others
  <2>3. UNCHANGED ended
    BY <1>11 DEF VerifyAbsence, Rest, Others
  <2>4. /\ c[o].pc = "absence" /\ c'[o].pc \in {"github"}
        /\ c'[o].r = c[o].r
    <3>1. ASSUME NEW p \in Processes, p.pc \in {"github"}, p.r = c[o].r, Go(o, p)
          PROVE  c'[o].pc \in {"github"} /\ c'[o].r = c[o].r
      BY <3>1 DEF Go
    <3>2. c[o].pc = "absence"
      BY <1>11 DEF VerifyAbsence, At
    <3>. QED BY <1>p, <1>h, <1>11, <3>1, <3>2 DEF VerifyAbsence, Processes, Early, Late
  <2>. QED BY <1>p, <1>f, <2>1, <2>2, <2>3, <2>4 DEF Moves, Early
<1>12. CASE CleanupGithub(o)
  <2>1. \E p : Go(o, p)
    BY <1>12 DEF CleanupGithub
  <2>2. UNCHANGED <<row, used>>
    BY <1>12 DEF CleanupGithub, Rest, Others
  <2>3. UNCHANGED ended
    BY <1>12 DEF CleanupGithub, Rest, Others
  <2>4. /\ c[o].pc = "github" /\ c'[o].pc \in {"row"}
        /\ c'[o].r = c[o].r
    <3>1. ASSUME NEW p \in Processes, p.pc \in {"row"}, p.r = c[o].r, Go(o, p)
          PROVE  c'[o].pc \in {"row"} /\ c'[o].r = c[o].r
      BY <3>1 DEF Go
    <3>2. c[o].pc = "github"
      BY <1>12 DEF CleanupGithub, At
    <3>. QED BY <1>p, <1>h, <1>12, <3>1, <3>2 DEF CleanupGithub, Processes, Early, Late
  <2>. QED BY <1>p, <1>f, <2>1, <2>2, <2>3, <2>4 DEF Moves, Early
<1>14. CASE Die(o)
  <2>1. \E p : Go(o, p)
    BY <1>14 DEF Die
  <2>2. UNCHANGED <<row, used>>
    BY <1>14 DEF Die, Rest, Others
  <2>3. UNCHANGED ended
    BY <1>14 DEF Die, Rest, Others
  <2>4. c'[o].pc = "idle"
    BY <1>p, <1>f, <1>14 DEF Die
  <2>. QED BY <1>p, <1>f, <2>1, <2>2, <2>3, <2>4 DEF Moves
<1>1. CASE Admit(o)
  <2>1. Go(o, [Idle EXCEPT !.pc = "trigger", !.r = used + 1]) /\ used' = used + 1 /\ used < MaxRuns
    BY <1>1 DEF Admit
  <2>2. c'[o].r = used + 1 /\ c'[o].pc = "trigger"
    BY <2>1 DEF Idle, Go
  <2>3. used + 1 \in Runs
    BY <1>p, <2>1 DEF Runs
  <2>4. UNCHANGED <<row, ended>>
    BY <1>1 DEF Admit
  <2>. QED BY <1>p, <1>f, <2>1, <2>2, <2>3, <2>4 DEF Moves
<1>13. CASE EndRun(o)
  <2>1. c[o].pc = "row" /\ UNCHANGED ended
    BY <1>13 DEF EndRun, At
  <2>2. \E x : row' = [row EXCEPT ![c[o].r] = x]
    BY <1>13 DEF EndRun
  <2>3. \/ Go(o, Idle) /\ used' = used
        \/ /\ Go(o, [Idle EXCEPT !.pc = "trigger", !.r = used + 1,
                                 !.before = c[o].before \cup {c[o].r}])
           /\ used' = used + 1 /\ used < MaxRuns
    BY <1>13 DEF EndRun
  <2>4. CASE Go(o, Idle) /\ used' = used
    BY <1>p, <1>f, <2>1, <2>2, <2>4 DEF Moves
  <2>5. CASE /\ Go(o, [Idle EXCEPT !.pc = "trigger", !.r = used + 1,
                                   !.before = c[o].before \cup {c[o].r}])
             /\ used' = used + 1 /\ used < MaxRuns
    <3>1. c'[o].r = used + 1 /\ c'[o].pc = "trigger"
      BY <2>5 DEF Idle, Go
    <3>2. used + 1 \in Runs
      BY <1>p, <2>5 DEF Runs
    <3>. QED BY <1>p, <1>f, <2>1, <2>2, <2>5, <3>1, <3>2 DEF Moves
  <2>. QED BY <2>3, <2>4, <2>5
<1>. QED BY <1>1, <1>2, <1>3, <1>4, <1>5, <1>6, <1>7, <1>8, <1>9, <1>10, <1>11, <1>12,
            <1>13, <1>14 DEF Apply

LEMMA OwnersStep ==
    ASSUME CanaryTypeOK, Owners, \A r \in Runs : RunInv(r), NEW o \in Operators, Apply(o)
    PROVE  Owners'
<1>0. /\ used \in Nat /\ c[o] \in Processes /\ used' \in {used, used + 1}
  BY MovesStep DEF CanaryTypeOK
<1>1. \A q \in Operators : c[q].pc # "idle" => c[q].r \in 1 .. used /\ row[c[q].r] = "none"
  BY DEF Owners, Owns
<1>2. ASSUME NEW q \in Operators, c'[q].pc # "idle" PROVE Owns(q)'
  <2>1. CASE q = o /\ c'[o].r = used + 1 /\ used' = used + 1 /\ c'[o].pc = "trigger" /\ used + 1 \in Runs
    <3>1. row[used + 1] = "none" /\ used + 1 \notin ended
      BY <1>0, <2>1 DEF RunInv, Untouched
    <3>2. row'[used + 1] = "none"
      <4>1. c[o].pc # "idle" => c[o].r # used + 1
        BY <1>0, <1>1
      <4>2. c[o].pc = "row" => c[o].pc # "idle"
        OBVIOUS
      <4>3. row' = row \/ (c[o].pc = "row" /\ \E x : row' = [row EXCEPT ![c[o].r] = x])
        BY MovesStep
      <4>4. CASE c[o].pc = "row"
        <5>1. PICK x : row' = row \/ row' = [row EXCEPT ![c[o].r] = x]
          BY <4>3
        <5>. QED BY <2>1, <3>1, <4>1, <4>2, <4>4, <5>1 DEF CanaryTypeOK
      <4>. QED BY <3>1, <4>3, <4>4
    <3>3. used + 1 \notin ended'
      <4>1. c[o].pc = "resources" => c[o].r # used + 1
        BY <1>0, <1>1
      <4>. QED BY <3>1, <4>1, MovesStep
    <3>4. \A other \in Operators \ {o} : c'[other].pc # "idle" => c'[other].r # used + 1
      BY <1>0, <1>1, MovesStep
    <3>. QED BY <1>0, <2>1, <3>2, <3>3, <3>4 DEF Owns
  <2>2. CASE q = o /\ c[o].pc # "idle" /\ c'[o].r = c[o].r /\ row' = row
             /\ (c'[o].pc \in Early => c[o].pc \in Early \ {"resources"})
    <3>1. c'[o].pc \in Early => c[o].r \notin ended'
      BY <2>2, MovesStep DEF Owners, Owns
    <3>2. \A other \in Operators \ {o} : c'[other].pc # "idle" => c'[other].r # c[o].r
      BY <2>2, MovesStep DEF Owners, Owns
    <3>. QED BY <1>0, <1>1, <2>2, <3>1, <3>2 DEF Owns
  <2>3. CASE q # o
    <3>1. c'[q] = c[q] /\ c[q].pc # "idle"
      BY <1>2, <2>3, MovesStep
    <3>2. c[o].pc # "idle" => c[o].r # c[q].r
      BY <2>3, <3>1 DEF Owners, Owns
    <3>3. row'[c[q].r] = "none"
      <4>1. row' = row \/ (c[o].pc = "row" /\ \E x : row' = [row EXCEPT ![c[o].r] = x])
        BY MovesStep
      <4>2. row[c[q].r] = "none"
        BY <1>1, <3>1
      <4>3. CASE c[o].pc = "row"
        <5>1. PICK x : row' = row \/ row' = [row EXCEPT ![c[o].r] = x]
          BY <4>1
        <5>2. c[q].r \in Runs
          BY <1>1, <3>1, E2EAssumption DEF CanaryTypeOK, Runs
        <5>. QED BY <3>2, <4>2, <4>3, <5>1, <5>2 DEF CanaryTypeOK
      <4>. QED BY <4>1, <4>2, <4>3
    <3>4. c[q].pc \in Early => c[q].r \notin ended'
      BY <3>1, <3>2, MovesStep DEF Owners, Owns
    <3>5. \A other \in Operators \ {q} : c'[other].pc # "idle" => c'[other].r # c[q].r
      <4>1. \A other \in Operators \ {q, o} : c'[other] = c[other]
        BY MovesStep
      <4>2. c'[o].pc # "idle" => c'[o].r # c[q].r
        <5>1. c[q].r \in 1 .. used
          BY <1>1, <3>1
        <5>2. Moves(o)
          BY MovesStep
        <5>. QED BY <1>0, <3>2, <5>1, <5>2 DEF Moves
      <4>. QED BY <3>1, <4>1, <4>2 DEF Owners, Owns
    <3>. QED BY <1>0, <1>1, <3>1, <3>3, <3>4, <3>5 DEF Owns
  <2>. QED BY <1>2, <2>1, <2>2, <2>3, MovesStep DEF Moves
<1>. QED BY <1>2 DEF Owners, Owns

-----------------------------------------------------------------------------
(* What the processes know.                                                *)

Knowledge == \A o \in Operators : Knows(o)

LEMMA KeepsKnowing ==
    ASSUME CanaryTypeOK, NEW q \in Operators, Knows(q), c'[q] = c[q],
           NEW r, r = c[q].r,
           c[q].pc # "idle" => (r \in ended' => r \in ended) /\ Calm(r)
    PROVE  Knows(q)'
<1>1. Told(c[q])'
  BY DEF Knows, Told
<1>2. Removed(c[q])'
  <2>. SUFFICES ASSUME r \in ended',
                       c[q].pc \in {"absence", "github", "row"}
                PROVE  Removed(c[q])'
    BY DEF Removed
  <2>1. r \in ended /\ Calm(r) /\ Removed(c[q])
    BY DEF Knows
  <2>2. /\ boxes'[r] \subseteq boxes[r]
        /\ Quiet(r) => Quiet(r)'
        /\ Quiet(r) /\ Bare(r) => Bare(r)'
    BY <2>1 DEF Calm
  <2>3. c[q].pc = "absence" => boxes'[r] \cap c[q].seen = {}
    BY <2>1, <2>2 DEF Removed
  <2>4. c[q].pc \in {"github", "row"} /\ c[q].resources /\ ~c[q].absent => Quiet(r) /\ Quiet(r)'
    BY <2>1, <2>2 DEF Removed
  <2>5. c[q].pc = "row" /\ c[q].resources /\ c[q].github /\ ~c[q].absent => Bare(r)'
    BY <2>1, <2>2, <2>4 DEF Removed
  <2>6. c'[q].r = r
    OBVIOUS
  <2>. QED BY <2>3, <2>4, <2>5, <2>6 DEF Removed, Quiet, Bare
<1>. QED BY <1>1, <1>2 DEF Knows

LEMMA WorldKnows ==
    ASSUME CanaryTypeOK, Owners, \A r \in Runs : RunInv(r), Knowledge, NEW w \in Runs, World(w)
    PROVE  Knowledge'
<1>. SUFFICES ASSUME NEW q \in Operators PROVE Knows(q)'
  BY DEF Knowledge
<1>1. UNCHANGED <<c, ended>>
  BY DEF World
<1>2. PICK r : r = c[q].r
  OBVIOUS
<1>3. c[q].pc # "idle" => r \in Runs
  BY <1>2, E2EAssumption DEF CanaryTypeOK, Owners, Owns, Runs
<1>4. c[q].pc # "idle" => Calm(r)
  BY <1>3, WorldStep
<1>. QED BY <1>1, <1>2, <1>4, KeepsKnowing DEF Knowledge

\* What a process finds out.
LEMMA ToldStep ==
    ASSUME CanaryTypeOK, Owners, NEW o \in Operators, Apply(o), Told(c[o])
    PROVE  Told(c[o])'
<1>. USE E2EAssumption DEF CanaryTypeOK
<1>p. c[o] \in Processes /\ used \in 0 .. MaxRuns /\ Idle \in Processes /\ used + 1 \in Nat
  BY DEF Idle, Processes
<1>h. c[o].pc # "idle" => Heartbeats(c[o].r) \subseteq Nat
  BY DEF Owners, Owns, Heartbeats, Beats, Runs
<1>g. ASSUME NEW p \in Processes, Go(o, p), Told(p) PROVE Told(c[o])'
  <2>1. c'[o] = p
    BY <1>g DEF Go
  <2>. QED BY <1>g, <2>1 DEF Told
<1>b. ASSUME NEW n \in Nat, NEW b \in SUBSET Nat,
             Go(o, [Idle EXCEPT !.pc = "trigger", !.r = n])
                 \/ Go(o, [Idle EXCEPT !.pc = "trigger", !.r = n, !.before = b])
                 \/ Go(o, Idle)
      PROVE  Told(c[o])'
  <2>1. CASE Go(o, Idle)
    BY <1>p, <1>g, <2>1 DEF Told, Idle
  <2>2. CASE Go(o, [Idle EXCEPT !.pc = "trigger", !.r = n])
    BY <1>g, <2>2 DEF Told, Idle, Processes, Early
  <2>3. CASE Go(o, [Idle EXCEPT !.pc = "trigger", !.r = n, !.before = b])
    BY <1>g, <2>3 DEF Told, Idle, Processes, Early
  <2>. QED BY <1>b, <2>1, <2>2, <2>3
<1>1. CASE Admit(o)
  BY <1>p, <1>b, <1>1 DEF Admit, Processes
<1>2. CASE Trigger(o)
  BY <1>p, <1>h, <1>g, <1>2 DEF Trigger, At, Told, Processes, Early, Late
<1>3. CASE Discover(o)
  <2>. DEFINE p == [c[o] EXCEPT !.pc = "kestra"]
  <2>1. c[o].pc = "discover"
    BY <1>3 DEF Discover, At
  <2>2. p \in Processes /\ p.err /\ ~p.kestra /\ ~p.unsubmitted /\ Told(p)
    BY <1>p, <2>1 DEF Processes, Told, Early, Late
  <2>3. p.pc = "kestra"
    BY <1>p DEF Processes
  <2>4. PICK v \in BOOLEAN : \/ Go(o, [p EXCEPT !.eid = v, !.absent = ~v])
                             \/ Go(o, [p EXCEPT !.cerr = TRUE])
    BY <1>3 DEF Discover
  <2>. HIDE DEF p
  <2>5. CASE Go(o, [p EXCEPT !.eid = v, !.absent = ~v])
    <3>1. /\ [p EXCEPT !.eid = v, !.absent = ~v] \in Processes
          /\ Told([p EXCEPT !.eid = v, !.absent = ~v])
      BY <2>2, <2>3 DEF Told, Processes
    <3>. QED BY <1>g, <2>5, <3>1
  <2>6. CASE Go(o, [p EXCEPT !.cerr = TRUE])
    <3>1. [p EXCEPT !.cerr = TRUE] \in Processes /\ Told([p EXCEPT !.cerr = TRUE])
      BY <2>2, <2>3 DEF Told, Processes
    <3>. QED BY <1>g, <2>6, <3>1
  <2>. QED BY <2>4, <2>5, <2>6
<1>4. CASE Poll(o)
  BY ZenonT(60), <1>p, <1>h, <1>g, <1>4 DEF Poll, At, Told, Processes, Early, Late
<1>5. CASE Validate(o)
  BY ZenonT(60), <1>p, <1>h, <1>g, <1>5 DEF Validate, At, Told, Processes, Early, Late
<1>6. CASE CleanupKestra(o)
  <2>. DEFINE p == [c[o] EXCEPT !.pc = "paperclip"]
  <2>1. c[o].pc = "kestra"
    BY <1>6 DEF CleanupKestra, At
  <2>2. p \in Processes /\ p.eid = c[o].eid /\ p.absent = c[o].absent /\ Told(p)
    BY <1>p, <2>1 DEF Processes, Told, Early, Late
  <2>3. \/ Go(o, [p EXCEPT !.kestra = p.eid])
        \/ p.eid /\ Go(o, [p EXCEPT !.kestra = TRUE])
        \/ Go(o, [p EXCEPT !.cerr = TRUE])
    BY <1>6 DEF CleanupKestra
  <2>4. p.pc = "paperclip"
    BY <1>p DEF Processes
  <2>. HIDE DEF p
  <2>5. CASE Go(o, [p EXCEPT !.kestra = p.eid])
    <3>1. [p EXCEPT !.kestra = p.eid] \in Processes
      BY <2>2 DEF Processes
    <3>2. Told([p EXCEPT !.kestra = p.eid])
      BY <2>2, <2>4 DEF Told, Processes
    <3>. QED BY <1>g, <2>5, <3>1, <3>2
  <2>6. CASE p.eid /\ Go(o, [p EXCEPT !.kestra = TRUE])
    <3>1. [p EXCEPT !.kestra = TRUE] \in Processes /\ Told([p EXCEPT !.kestra = TRUE])
      BY <2>2, <2>4, <2>6 DEF Told, Processes
    <3>. QED BY <1>g, <2>6, <3>1
  <2>7. CASE Go(o, [p EXCEPT !.cerr = TRUE])
    <3>1. [p EXCEPT !.cerr = TRUE] \in Processes /\ Told([p EXCEPT !.cerr = TRUE])
      BY <2>2, <2>4 DEF Told, Processes
    <3>. QED BY <1>g, <2>7, <3>1
  <2>. QED BY <2>3, <2>5, <2>6, <2>7
<1>7. CASE CleanupPaperclip(o)
    BY ZenonT(60), <1>p, <1>h, <1>g, <1>7 DEF CleanupPaperclip, At, Told, Processes,
     Early, Late
<1>8. CASE CleanupResources(o)
    BY ZenonT(60), <1>p, <1>h, <1>g, <1>8 DEF CleanupResources, At, Told, Processes,
     Early, Late
<1>9. CASE AwaitRelease(o)
  BY ZenonT(60), <1>p, <1>h, <1>g, <1>9 DEF AwaitRelease, At, Told, Processes, Early, Late
<1>10. CASE DeleteSandboxes(o)
    BY ZenonT(60), <1>p, <1>h, <1>g, <1>10 DEF DeleteSandboxes, At, Told, Processes,
     Early, Late
<1>11. CASE VerifyAbsence(o)
  BY ZenonT(60), <1>p, <1>h, <1>g, <1>11 DEF VerifyAbsence, At, Told, Processes, Early, Late
<1>12. CASE CleanupGithub(o)
  <2>. DEFINE p == [c[o] EXCEPT !.pc = "row"]
  <2>1. c[o].pc = "github"
    BY <1>12 DEF CleanupGithub, At
  <2>2. p \in Processes /\ Told(p) /\ p.pc = "row"
    BY <1>p, <2>1 DEF Processes, Told, Early, Late
  <2>3. \/ Go(o, [p EXCEPT !.github = TRUE]) \/ Go(o, p)
        \/ \E e \in BOOLEAN : Go(o, [p EXCEPT !.cerr = p.cerr \/ e])
    BY <1>12 DEF CleanupGithub
  <2>. HIDE DEF p
  <2>4. CASE Go(o, [p EXCEPT !.github = TRUE])
    <3>1. [p EXCEPT !.github = TRUE] \in Processes /\ Told([p EXCEPT !.github = TRUE])
      BY <2>2 DEF Told, Processes
    <3>. QED BY <1>g, <2>4, <3>1
  <2>5. CASE Go(o, p)
    BY <1>g, <2>2, <2>5
  <2>6. CASE \E e \in BOOLEAN : Go(o, [p EXCEPT !.cerr = p.cerr \/ e])
    <3>1. PICK e \in BOOLEAN : Go(o, [p EXCEPT !.cerr = p.cerr \/ e])
      BY <2>6
    <3>. DEFINE v == p.cerr \/ e
    <3>2. v \in BOOLEAN /\ Go(o, [p EXCEPT !.cerr = v])
      BY <3>1
    <3>. HIDE DEF v
    <3>3. [p EXCEPT !.cerr = v] \in Processes /\ Told([p EXCEPT !.cerr = v])
      BY <2>2, <3>2 DEF Told, Processes
    <3>. QED BY <1>g, <3>2, <3>3
  <2>. QED BY <2>3, <2>4, <2>5, <2>6
<1>13. CASE EndRun(o)
  <2>1. c[o].before \cup {c[o].r} \in SUBSET Nat
    BY <1>p DEF Processes
  <2>2. \/ Go(o, Idle)
        \/ Go(o, [Idle EXCEPT !.pc = "trigger", !.r = used + 1,
                              !.before = c[o].before \cup {c[o].r}])
    BY <1>13 DEF EndRun
  <2>. QED BY <1>p, <1>b, <2>1, <2>2
<1>14. CASE Die(o)
  BY <1>p, <1>b, <1>14 DEF Die, Processes
<1>. QED BY <1>1, <1>2, <1>3, <1>4, <1>5, <1>6, <1>7, <1>8, <1>9, <1>10, <1>11, <1>12,
            <1>13, <1>14 DEF Apply

\* A step of cleanup that does not do its work has no evidence of resources.
LEMMA NoEvidence ==
    ASSUME NEW o \in Operators, CanaryTypeOK, ~c[o].resources,
           Go(o, [c[o] EXCEPT !.pc = "github", !.cerr = TRUE])
    PROVE  Removed(c[o])'
<1>. DEFINE p == [c[o] EXCEPT !.pc = "github", !.cerr = TRUE]
<1>1. c[o] \in Processes /\ c \in [Operators -> Processes]
  BY DEF CanaryTypeOK
<1>2. p.pc = "github"
  BY <1>1 DEF Processes
<1>3. p.resources = c[o].resources
  BY <1>1 DEF Processes
<1>4. c'[o] = p
  BY <1>1 DEF Go
<1>5. c'[o].pc = "github" /\ ~c'[o].resources
  <2>. HIDE DEF p
  <2>. QED BY <1>2, <1>3, <1>4
<1>. QED BY <1>5 DEF Removed

\* What a process has removed.
LEMMA RemovedStep ==
    ASSUME CanaryTypeOK, Owners, \A r \in Runs : RunInv(r), NEW o \in Operators, Apply(o),
           Knows(o)
    PROVE  Removed(c[o])'
<1>. USE E2EAssumption DEF CanaryTypeOK
<1>p. c[o] \in Processes /\ used \in Nat
  BY DEF Runs
<1>k. Told(c[o]) /\ Removed(c[o])
  BY DEF Knows
<1>0. PICK r : r = c[o].r
  OBVIOUS
<1>r. c[o].pc # "idle" => r \in Runs
  BY <1>0 DEF Owners, Owns, Runs
<1>g. ASSUME NEW p \in Processes, Go(o, p), p.pc \notin {"absence", "github", "row"}
      PROVE  Removed(c[o])'
  BY <1>g DEF Go, Removed
<1>1. CASE Admit(o) \/ EndRun(o) \/ Die(o)
  <2>1. \/ Go(o, Idle) \/ Go(o, [Idle EXCEPT !.pc = "trigger", !.r = used + 1])
        \/ Go(o, [Idle EXCEPT !.pc = "trigger", !.r = used + 1,
                              !.before = c[o].before \cup {c[o].r}])
    BY <1>1 DEF Admit, EndRun, Die
  <2>2. Idle \in Processes /\ Idle.pc = "idle" /\ used + 1 \in Nat
        /\ c[o].before \cup {c[o].r} \in SUBSET Nat
    BY <1>p DEF Idle, Processes
  <2>3. CASE Go(o, Idle)
    BY <1>g, <2>2, <2>3
  <2>4. CASE Go(o, [Idle EXCEPT !.pc = "trigger", !.r = used + 1])
    BY <1>g, <2>2, <2>4 DEF Processes, Early
  <2>5. CASE Go(o, [Idle EXCEPT !.pc = "trigger", !.r = used + 1,
                                !.before = c[o].before \cup {c[o].r}])
    BY <1>g, <2>2, <2>5 DEF Processes, Early
  <2>. QED BY <2>1, <2>3, <2>4, <2>5
<1>2. CASE Trigger(o)
  BY <1>p, <1>g, <1>2 DEF Trigger, Processes, Early, Late
<1>3. CASE Discover(o)
  BY <1>p, <1>g, <1>3 DEF Discover, Processes, Early, Late
<1>4. CASE Poll(o)
  BY <1>p, <1>g, <1>4 DEF Poll, Processes, Early, Late
<1>5. CASE Validate(o)
  BY <1>p, <1>g, <1>5 DEF Validate, Processes, Early, Late
<1>6. CASE CleanupKestra(o)
  BY <1>p, <1>g, <1>6 DEF CleanupKestra, Processes, Early, Late
<1>7. CASE CleanupPaperclip(o)
  BY <1>p, <1>g, <1>7 DEF CleanupPaperclip, Processes, Early, Late
<1>8. CASE CleanupResources(o)
  <2>1. c[o].pc = "resources" /\ r \in Runs /\ r \notin ended /\ ~c[o].resources
    <3>1. c[o].pc = "resources"
      BY <1>8 DEF CleanupResources, At
    <3>. QED BY <1>0, <1>k, <1>r, <3>1 DEF Told, Owners, Owns, Early
  <2>2. UNCHANGED <<exec, flow, issue, beat, leases, boxes, branch, pull>>
    BY <1>8 DEF CleanupResources
  <2>3. CASE r \notin ended'
    <3>1. c'[o].r = r
      <4>1. ASSUME NEW p \in Processes, p.r = r, Go(o, p) PROVE c'[o].r = r
        BY <4>1 DEF Go
      <4>. QED BY <1>0, <1>p, <1>8, <4>1 DEF CleanupResources, Processes, Late
    <3>. QED BY <2>3, <3>1 DEF Removed
  <2>4. CASE r \in ended'
    <3>1. Settled(r)
      BY <1>0, <2>1, <2>4, <1>8 DEF CleanupResources
    <3>2. CASE ~c[o].absent /\ ~(c[o].eid /\ IssueId(r)) /\ c[o].unsubmitted
      <4>1. flow[r] = "start"
        BY <1>k, <2>1, <3>1, <3>2 DEF Told, Settled, IssueId
      <4>2. Quiet(r)
        <5>1. RunOK(r) /\ beat[r].n = 0
          BY <2>1, <4>1 DEF RunInv, RunOK
        <5>. QED BY <5>1 DEF RunOK, Quiet
      <4>3. Quiet(r)'
        BY <2>2, <4>2 DEF Quiet
      <4>4. c'[o].r = r /\ c'[o].pc \in {"github", "release"}
        <5>1. ASSUME NEW p \in Processes, p.pc \in {"github", "release"}, p.r = r, Go(o, p)
              PROVE  c'[o].r = r /\ c'[o].pc \in {"github", "release"}
          BY <5>1 DEF Go
        <5>. QED BY <1>0, <1>p, <1>8, <5>1 DEF CleanupResources, Processes, Late
      <4>. QED BY <4>3, <4>4 DEF Removed
    <3>3. CASE c[o].absent \/ (c[o].eid /\ IssueId(r)) \/ ~c[o].unsubmitted
      <4>1. ASSUME NEW p \in Processes, p.pc \in {"github", "release"}, Go(o, p),
                   p.absent \/ ~p.resources
            PROVE  Removed(c[o])'
        BY <4>1 DEF Go, Removed
      <4>2. CASE c[o].absent
        BY <1>p, <1>8, <4>1, <4>2 DEF CleanupResources, Processes, Late
      <4>3. CASE ~c[o].absent
        <5>1. ~(c[o].absent \/ (~(c[o].eid /\ IssueId(r)) /\ c[o].unsubmitted /\ c[o].kestra))
          BY <3>3, <4>3
        <5>. QED BY <1>0, <1>p, <1>8, <2>1, <4>1, <5>1 DEF CleanupResources, Processes, Late
      <4>. QED BY <4>2, <4>3
    <3>. QED BY <3>2, <3>3
  <2>. QED BY <2>3, <2>4
<1>9. CASE AwaitRelease(o)
  <2>1. c[o].pc = "release" /\ ~c[o].resources
    BY <1>9, <1>k DEF AwaitRelease, At, Told
  <2>3. Heartbeats(c[o].r) \subseteq Nat
    BY <1>0, <1>r, <2>1 DEF Heartbeats, Beats
  <2>4. \/ Go(o, [c[o] EXCEPT !.pc = "sandboxes", !.seen = Heartbeats(c[o].r)])
        \/ Go(o, [c[o] EXCEPT !.pc = "github", !.cerr = TRUE])
    BY <1>9 DEF AwaitRelease
  <2>5. CASE Go(o, [c[o] EXCEPT !.pc = "sandboxes", !.seen = Heartbeats(c[o].r)])
    BY <1>p, <1>g, <2>3, <2>5 DEF Processes, Late
  <2>6. CASE Go(o, [c[o] EXCEPT !.pc = "github", !.cerr = TRUE])
    BY <1>0, <2>1, <2>6, NoEvidence
  <2>. QED BY <2>4, <2>5, <2>6
<1>10. CASE DeleteSandboxes(o)
  <2>1. c[o].pc = "sandboxes" /\ ~c[o].resources /\ r \in Runs
    BY <1>10, <1>0, <1>k, <1>r DEF DeleteSandboxes, At, Told
  <2>3. ASSUME NEW p \in Processes, p.pc = "absence", Go(o, p), p.r = r, p.seen = c[o].seen,
               boxes' = [boxes EXCEPT ![r] = @ \ c[o].seen]
        PROVE  Removed(c[o])'
    <3>1. c'[o] = p
      BY <2>3 DEF Go
    <3>2. boxes'[r] \cap c[o].seen = {}
      BY <2>1, <2>3
    <3>. QED BY <2>3, <3>1, <3>2 DEF Removed
  <2>4. \/ /\ boxes' = [boxes EXCEPT ![r] = @ \ c[o].seen]
           /\ Go(o, [c[o] EXCEPT !.pc = "absence"])
        \/ Go(o, [c[o] EXCEPT !.pc = "github", !.cerr = TRUE])
    BY <1>0, <1>10 DEF DeleteSandboxes
  <2>5. CASE /\ boxes' = [boxes EXCEPT ![r] = @ \ c[o].seen]
             /\ Go(o, [c[o] EXCEPT !.pc = "absence"])
    BY <1>0, <1>p, <2>3, <2>5 DEF Processes, Late
  <2>6. CASE Go(o, [c[o] EXCEPT !.pc = "github", !.cerr = TRUE])
    BY <1>0, <2>1, <2>6, NoEvidence
  <2>. QED BY <2>4, <2>5, <2>6
<1>11. CASE VerifyAbsence(o)
  <2>1. c[o].pc = "absence" /\ ~c[o].resources /\ r \in Runs
    BY <1>0, <1>11, <1>k, <1>r DEF VerifyAbsence, At, Told
  <2>2. UNCHANGED <<exec, flow, issue, beat, leases, boxes, branch, pull, ended>>
    BY <1>11 DEF VerifyAbsence, world, Rest
  <2>4. CASE Archived(r) /\ c[o].seen = Heartbeats(r)
    <3>1. RunOK(r) /\ leases[r] \cap Heartbeats(r) = {}
      BY <2>1, <2>4 DEF RunInv, Archived, ResourceState, EnvironmentReleased,
         ValidProviderLeaseCleanup
    <3>2. r \in ended => Quiet(r)
      BY <1>0, <1>k, <2>1, <2>4, <3>1 DEF Removed, RunOK, Heartbeats, Quiet
    <3>3. r \in ended' => Quiet(r)'
      BY <2>2, <3>2 DEF Quiet
    <3>4. c'[o].r = r /\ c'[o].pc = "github"
      <4>1. ASSUME NEW p \in Processes, p.pc = "github", p.r = r, Go(o, p)
            PROVE  c'[o].r = r /\ c'[o].pc = "github"
        BY <4>1 DEF Go
      <4>. QED BY <1>0, <1>p, <1>11, <2>4, <4>1 DEF VerifyAbsence, Processes, Late
    <3>. QED BY <3>3, <3>4 DEF Removed
  <2>5. CASE ~(Archived(r) /\ c[o].seen = Heartbeats(r))
    <3>1. Go(o, [c[o] EXCEPT !.pc = "github", !.cerr = TRUE])
      BY <1>0, <1>11, <2>5 DEF VerifyAbsence
    <3>. QED BY <1>0, <2>1, <3>1, NoEvidence
  <2>. QED BY <2>4, <2>5
<1>12. CASE CleanupGithub(o)
  <2>. DEFINE p == [c[o] EXCEPT !.pc = "row"]
  <2>1. c[o].pc = "github" /\ ~c[o].github /\ r \in Runs
    BY <1>0, <1>12, <1>k, <1>r DEF CleanupGithub, At, Told
  <2>2. UNCHANGED <<exec, flow, issue, beat, leases, boxes, ended>>
    BY <1>12 DEF CleanupGithub, Rest
  <2>3. c[o].resources /\ ~c[o].absent /\ r \in ended => Quiet(r)'
    BY <1>0, <1>k, <2>1, <2>2 DEF Removed, Quiet
  <2>4. /\ p \in Processes /\ p.pc = "row" /\ p.r = r /\ ~p.github
        /\ p.resources = c[o].resources /\ p.absent = c[o].absent
    BY <1>0, <1>p, <2>1 DEF Processes, Late
  <2>5. ASSUME NEW q \in Processes, Go(o, q), q.pc = "row", q.r = r,
               q.resources = c[o].resources, q.absent = c[o].absent,
               q.absent \/ ~q.github \/ Bare(r)'
        PROVE  Removed(c[o])'
    <3>1. c'[o] = q
      BY <2>5 DEF Go
    <3>. QED BY <2>2, <2>3, <2>5, <3>1 DEF Removed
  <2>6. \/ p.absent /\ Go(o, [p EXCEPT !.github = TRUE])
        \/ /\ branch' = [branch EXCEPT ![r] = FALSE] /\ pull' = [pull EXCEPT ![r] = FALSE]
           /\ Go(o, [p EXCEPT !.github = TRUE])
        \/ Go(o, p)
        \/ \E e \in BOOLEAN : Go(o, [p EXCEPT !.cerr = p.cerr \/ e])
    BY <1>12, <2>4 DEF CleanupGithub
  <2>. HIDE DEF p
  <2>7. CASE p.absent /\ Go(o, [p EXCEPT !.github = TRUE])
    BY <2>4, <2>5, <2>7 DEF Processes
  <2>8. CASE /\ branch' = [branch EXCEPT ![r] = FALSE] /\ pull' = [pull EXCEPT ![r] = FALSE]
             /\ Go(o, [p EXCEPT !.github = TRUE])
    <3>1. Bare(r)'
      BY <2>1, <2>4, <2>8 DEF Bare
    <3>. QED BY <2>4, <2>5, <2>8, <3>1 DEF Processes
  <2>9. CASE Go(o, p)
    BY <2>4, <2>5, <2>9
  <2>10. CASE \E e \in BOOLEAN : Go(o, [p EXCEPT !.cerr = p.cerr \/ e])
    <3>1. PICK e \in BOOLEAN : Go(o, [p EXCEPT !.cerr = p.cerr \/ e])
      BY <2>10
    <3>. DEFINE v == p.cerr \/ e
    <3>2. v \in BOOLEAN /\ Go(o, [p EXCEPT !.cerr = v])
      BY <3>1
    <3>. HIDE DEF v
    <3>. QED BY <2>4, <2>5, <3>2 DEF Processes
  <2>. QED BY <2>6, <2>7, <2>8, <2>9, <2>10
<1>. QED BY <1>1, <1>2, <1>3, <1>4, <1>5, <1>6, <1>7, <1>8, <1>9, <1>10, <1>11, <1>12
         DEF Apply

LEMMA ApplyKnows ==
    ASSUME CanaryTypeOK, Owners, \A r \in Runs : RunInv(r), Knowledge,
           NEW o \in Operators, Apply(o)
    PROVE  Knowledge'
<1>. SUFFICES ASSUME NEW q \in Operators PROVE Knows(q)'
  BY DEF Knowledge
<1>0. Knows(o) /\ Knows(q)
  BY DEF Knowledge
<1>1. CASE q = o
  BY <1>0, <1>1, ToldStep, RemovedStep DEF Knows
<1>2. CASE q # o
  <2>1. c'[q] = c[q]
    BY <1>2, MovesStep
  <2>2. PICK r : r = c[q].r
    OBVIOUS
  <2>3. c[q].pc # "idle" => r \in Runs
    BY <2>2, E2EAssumption DEF CanaryTypeOK, Owners, Owns, Runs
  <2>4. c[q].pc # "idle" => Calm(r)
    BY <2>3, ApplyStep
  <2>5. c[q].pc # "idle" /\ r \in ended' => r \in ended
    BY <1>2, <2>2, MovesStep DEF Owners, Owns
  <2>. QED BY <1>0, <2>1, <2>2, <2>4, <2>5, KeepsKnowing
<1>. QED BY <1>1, <1>2

-----------------------------------------------------------------------------
(* The rows.                                                               *)

\* Only the end of a run writes a row.
LEMMA RowIsWritten ==
    ASSUME NEW o \in Operators, Apply(o), row' # row
    PROVE  EndRun(o)
<1>1. Admit(o) => row' = row
  BY DEF Admit, Rest, Others
<1>2. Trigger(o) => row' = row
  BY DEF Trigger, Rest, Others
<1>3. Discover(o) => row' = row
  BY DEF Discover, Rest, Others
<1>4. Poll(o) => row' = row
  BY DEF Poll, Rest, Others
<1>5. Validate(o) => row' = row
  BY DEF Validate, Rest, Others
<1>6. CleanupKestra(o) => row' = row
  BY DEF CleanupKestra, Rest, Others
<1>7. CleanupPaperclip(o) => row' = row
  BY DEF CleanupPaperclip, Rest, Others
<1>8. CleanupResources(o) => row' = row
  BY DEF CleanupResources, Rest, Others
<1>9. AwaitRelease(o) => row' = row
  BY DEF AwaitRelease, Rest, Others
<1>10. DeleteSandboxes(o) => row' = row
  BY DEF DeleteSandboxes, Rest, Others
<1>11. VerifyAbsence(o) => row' = row
  BY DEF VerifyAbsence, Rest, Others
<1>12. CleanupGithub(o) => row' = row
  BY DEF CleanupGithub, Rest, Others
<1>13. Die(o) => row' = row
  BY DEF Die, Rest, Others
<1>. QED BY <1>1, <1>2, <1>3, <1>4, <1>5, <1>6, <1>7, <1>8, <1>9, <1>10, <1>11, <1>12,
            <1>13 DEF Apply

LEMMA RowsStep ==
    ASSUME CanaryTypeOK, Owners, \A r \in Runs : RunInv(r), Knowledge, CompletedRowsAreTrue,
           [Next]_vars
    PROVE  CompletedRowsAreTrue'
<1>. SUFFICES ASSUME NEW r \in ended', row'[r] = "completed" PROVE NothingIsLeft(r)'
  BY DEF CompletedRowsAreTrue
<1>e. ended \subseteq Runs
  BY DEF CanaryTypeOK
<1>1. ASSUME r \in ended, Calm(r), NothingIsLeft(r) PROVE NothingIsLeft(r)'
  BY <1>1 DEF Calm, NothingIsLeft, Quiet, Bare, Settled
<1>2. CASE UNCHANGED vars
  BY <1>2 DEF vars, world, CompletedRowsAreTrue, NothingIsLeft
<1>3. ASSUME NEW w \in Runs, World(w) PROVE NothingIsLeft(r)'
  <2>1. r \in ended /\ row[r] = "completed"
    BY <1>3 DEF World
  <2>2. Calm(r)
    BY <1>e, <1>3, <2>1, WorldStep
  <2>. QED BY <1>1, <2>1, <2>2 DEF CompletedRowsAreTrue
<1>4. ASSUME NEW o \in Operators, Apply(o) PROVE NothingIsLeft(r)'
  <2>0. /\ row' = row \/ (c[o].pc = "row" /\ \E x : row' = [row EXCEPT ![c[o].r] = x])
        /\ \/ ended' = ended
           \/ /\ ended' = ended \cup {c[o].r} /\ c[o].pc = "resources"
              /\ row' = row /\ Settled(c[o].r)
    BY <1>4, MovesStep
  <2>1. r \in ended
    <3>1. c[o].pc # "idle" => row[c[o].r] = "none"
      BY DEF Owners, Owns
    <3>. QED BY <2>0, <3>1
  <2>2. r \in Runs /\ Calm(r) /\ EndedOK(r)
    BY <1>e, <1>4, <2>1, ApplyStep DEF RunInv
  <2>3. CASE row[r] = "completed"
    BY <1>1, <2>1, <2>2, <2>3 DEF CompletedRowsAreTrue
  <2>4. CASE row[r] # "completed"
    <3>1. c[o].pc = "row" /\ r = c[o].r
      <4>1. PICK x : row' = row \/ row' = [row EXCEPT ![c[o].r] = x]
        BY <2>0
      <4>. QED BY <2>0, <2>2, <2>4, <4>1 DEF CanaryTypeOK
    <3>2. EndRun(o)
      <4>1. row' # row
        BY <2>4
      <4>. QED BY <1>4, <4>1, RowIsWritten
    <3>3. c[o].github /\ c[o].resources /\ (c[o].err => c[o].kestra)
      BY <2>2, <3>1, <3>2 DEF EndRun, CanaryTypeOK
    <3>4. Told(c[o]) /\ Removed(c[o])
      BY DEF Knowledge, Knows
    <3>5. Quiet(r) /\ Bare(r)
      BY <2>1, <3>1, <3>3, <3>4 DEF Told, Removed
    <3>6. NothingIsLeft(r)
      BY <2>1, <2>2, <3>5 DEF EndedOK, Settled, Quiet, Bare, NothingIsLeft
    <3>. QED BY <1>1, <2>1, <2>2, <3>6
  <2>. QED BY <2>3, <2>4
<1>. QED BY <1>2, <1>3, <1>4 DEF Next

CanaryInv ==
    /\ CanaryTypeOK /\ Owners /\ Knowledge /\ CompletedRowsAreTrue
    /\ \A r \in Runs : RunInv(r)

LEMMA CanaryInit ==
    E2EInit => CanaryInv
<1>. SUFFICES ASSUME E2EInit PROVE CanaryInv
  OBVIOUS
<1>1. Idle \in Processes /\ Idle.pc = "idle"
  BY DEF Idle, Processes
<1>2. CanaryTypeOK
  <2>1. NoBeat \in Beats /\ "none" \in Executions
    BY DEF NoBeat, Beats, Executions
  <2>. QED BY <1>1, <2>1, E2EAssumption DEF E2EInit, CanaryTypeOK
<1>3. Owners
  BY <1>1 DEF E2EInit, Owners, Owns
<1>4. Knowledge
  BY DEF E2EInit, Knowledge, Knows, Told, Removed, Idle
<1>5. \A r \in Runs : RunInv(r)
  BY DEF E2EInit, RunInv, RunOK, EndedOK, Untouched, NoBeat
<1>. QED BY <1>2, <1>3, <1>4, <1>5 DEF CanaryInv, CompletedRowsAreTrue, E2EInit

LEMMA CanaryStep ==
    ASSUME CanaryInv, [Next]_vars
    PROVE  CanaryInv'
<1>. USE DEF CanaryInv
<1>1. CanaryTypeOK'
  BY TypeStep DEF Owners
<1>2. CompletedRowsAreTrue'
  BY RowsStep
<1>3. CASE UNCHANGED vars
    BY <1>1, <1>2, <1>3 DEF vars, world, Owners, Owns, Knowledge, Knows, Told, Removed,
     RunInv,
     RunOK, EndedOK, Untouched, Settled, Quiet, Bare
<1>4. ASSUME NEW w \in Runs, World(w) PROVE CanaryInv'
  <2>1. Owners' /\ Knowledge'
    BY <1>4, WorldOwners, WorldKnows
  <2>2. UNCHANGED <<ended, used>>
    BY <1>4 DEF World
  <2>3. ASSUME NEW r \in Runs PROVE RunInv(r)'
    <3>1. RunOK(r)' /\ Calm(r) /\ (Untouched(r) => Untouched(r)')
      BY <1>4, WorldStep
    <3>. QED BY <2>2, <3>1 DEF RunInv, EndedOK, Calm
  <2>. QED BY <1>1, <1>2, <2>1, <2>3
<1>5. ASSUME NEW o \in Operators, Apply(o) PROVE CanaryInv'
  <2>1. Owners' /\ Knowledge'
    BY <1>5, OwnersStep, ApplyKnows
  <2>2. \A r \in Runs : RunInv(r)'
    BY <1>5, ApplyStep DEF RunInv
  <2>. QED BY <1>1, <1>2, <2>1, <2>2
<1>. QED BY <1>3, <1>4, <1>5 DEF Next

\* A row that says "completed" is true for good, if the execution and the issue
\* were over when the resources were cleaned up: nothing is left of the run,
\* whatever its last heartbeat still did.  (cleanup_run, verify_resource_absence)
THEOREM CompletedIsTrue == Spec => []CompletedRowsAreTrue
<1>1. CanaryInv => CompletedRowsAreTrue
  BY DEF CanaryInv
<1>. QED BY <1>1, CanaryInit, CanaryStep, PTL DEF Spec

\* The inductive invariant types the state: what the actions leave of a process,
\* of a run and of its heartbeats is what the next action expects.
\* (apply, and the flow paperclip-github-e2e.yaml)
THEOREM CanaryTyped == Spec => []CanaryTypeOK
<1>1. CanaryInv => CanaryTypeOK
  BY DEF CanaryInv
<1>. QED BY <1>1, CanaryInit, CanaryStep, PTL DEF Spec

-----------------------------------------------------------------------------
(* What a successful execution leaves.                                     *)

\* The issue of a successful execution is not open any more, so that no
\* heartbeat takes a lease again.
Succeeded(r) ==
    exec[r] = "SUCCESS" =>
        /\ issue[r] \in {"done", "cancelled"}
        /\ leases[r] = {} /\ beat[r].n # 0

Begun(r) == beat[r].now # "none" => beat[r].n # 0

Successes == \A r \in Runs : Succeeded(r) /\ Begun(r)

\* A step that keeps the number of heartbeats, adds no lease, and opens no issue.
LEMMA SuccessKept ==
    ASSUME NEW r, Succeeded(r), Begun(r),
           exec'[r] = "SUCCESS" => exec[r] = "SUCCESS",
           issue'[r] = issue[r] \/ issue'[r] \in {"done", "cancelled"},
           leases'[r] \subseteq leases[r], beat'[r].n = beat[r].n,
           beat'[r].now = "none" \/ beat[r].now # "none"
    PROVE  Succeeded(r)' /\ Begun(r)'
BY DEF Succeeded, Begun

LEMMA SuccessWorld ==
    ASSUME CanaryTypeOK, Successes, NEW w \in Runs, World(w), NEW r \in Runs
    PROVE  Succeeded(r)' /\ Begun(r)'
<1>. USE DEF CanaryTypeOK
<1>t. beat[r] \in Beats /\ beat[r].n \in Nat /\ Succeeded(r) /\ Begun(r)
  BY DEF Beats, Successes
<1>1. CASE TriggerArrives(w)
  BY <1>t, <1>1, SuccessKept DEF TriggerArrives
<1>2. CASE Start(w)
  BY <1>t, <1>2, SuccessKept DEF Start
<1>3. CASE Submit(w)
  BY <1>t, <1>3, SuccessKept DEF Submit
<1>4. CASE IssueIsCreated(w)
  <2>1. UNCHANGED <<exec, beat, leases>> /\ (r # w => issue'[r] = issue[r])
    BY <1>4 DEF IssueIsCreated
  <2>2. r = w => exec[r] # "SUCCESS"
    BY <1>t, <1>4 DEF IssueIsCreated, Succeeded
  <2>. QED BY <1>t, <2>1, <2>2 DEF Succeeded, Begun
<1>5. CASE IssuesAfter(w)
  BY <1>t, <1>5, SuccessKept DEF IssuesAfter
<1>6. CASE FlowSucceeds(w)
  <2>1. UNCHANGED <<issue, beat, leases>> /\ (r # w => exec'[r] = exec[r])
    BY <1>6 DEF FlowSucceeds
  <2>2. issue[w] = "done" /\ beat[w].now = "succeeded" /\ leases[w] = {}
    BY <1>6 DEF FlowSucceeds
  <2>. QED BY <1>t, <2>1, <2>2 DEF Succeeded, Begun
<1>7. CASE FlowFails(w)
  <2>1. UNCHANGED <<beat, leases>> /\ exec'[r] \in {exec[r], "FAILED"}
        /\ issue'[r] \in {issue[r], "cancelled"}
    BY <1>7 DEF FlowFails
  <2>. QED BY <1>t, <2>1, SuccessKept
<1>8. CASE Heartbeat(w)
  <2>1. UNCHANGED <<exec, issue>> /\ issue[w] = "todo"
    BY <1>8 DEF Heartbeat
  <2>2. CASE r # w
    <3>1. beat'[r] = beat[r] /\ leases'[r] = leases[r]
      BY <1>8, <2>2 DEF Heartbeat
    <3>. QED BY <1>t, <2>1, <3>1 DEF Succeeded, Begun
  <2>3. CASE r = w
    <3>1. beat'[r].n = beat[r].n + 1
      BY <1>8, <2>3 DEF Heartbeat
    <3>2. beat'[r].n # 0
      BY <1>t, <3>1
    <3>. QED BY <1>t, <2>1, <2>3, <3>2 DEF Succeeded, Begun
  <2>. QED BY <2>2, <2>3
<1>9. CASE AgentWorks(w)
  <2>1. UNCHANGED <<exec, beat, leases>> /\ issue'[r] \in {issue[r], "done"}
    BY <1>9 DEF AgentWorks
  <2>. QED BY <1>t, <2>1, SuccessKept
<1>10. CASE HeartbeatEnds(w)
  <2>1. PICK result \in {"succeeded", "failed"} : beat' = [beat EXCEPT ![w].now = result]
    BY <1>10 DEF HeartbeatEnds
  <2>2. beat'[r].n = beat[r].n /\ (r # w => beat'[r] = beat[r])
    BY <2>1 DEF Beats
  <2>3. beat[w].now = "running" /\ UNCHANGED <<exec, issue, leases>>
    BY <1>10 DEF HeartbeatEnds
  <2>. QED BY <1>t, <2>2, <2>3, SuccessKept
<1>11. CASE LeaseIsReleased(w)
  <2>1. leases'[r] \subseteq leases[r] /\ UNCHANGED <<exec, issue, beat>>
    BY <1>11 DEF LeaseIsReleased
  <2>. QED BY <1>t, <2>1, SuccessKept
<1>. QED BY <1>1, <1>2, <1>3, <1>4, <1>5, <1>6, <1>7, <1>8, <1>9, <1>10, <1>11 DEF World

LEMMA SuccessApply ==
    ASSUME CanaryTypeOK, Owners, Successes, NEW o \in Operators, Apply(o), NEW r \in Runs
    PROVE  Succeeded(r)' /\ Begun(r)'
<1>. USE DEF CanaryTypeOK
<1>t. beat[r] \in Beats /\ beat[r].n \in Nat /\ Succeeded(r) /\ Begun(r)
  BY DEF Beats, Successes
<1>s. SUFFICES /\ exec'[r] = "SUCCESS" => exec[r] = "SUCCESS"
               /\ issue'[r] = issue[r] \/ issue'[r] \in {"done", "cancelled"}
               /\ leases' = leases /\ beat'[r].n = beat[r].n
               /\ beat'[r].now = "none" \/ beat[r].now # "none"
  BY <1>t, SuccessKept
<1>1. CASE Admit(o)
  BY <1>1 DEF Admit, world
<1>2. CASE Trigger(o)
  <2>1. UNCHANGED <<issue, beat, leases>>
    BY <1>2 DEF Trigger
  <2>2. \E x \in {"none", "queued", "requested"} : exec' = [exec EXCEPT ![c[o].r] = x]
    BY <1>2 DEF Trigger, Unanswered
  <2>. QED BY <2>1, <2>2
<1>3. CASE Discover(o)
  BY <1>3 DEF Discover, world
<1>4. CASE Poll(o)
  <2>1. UNCHANGED <<issue, beat, leases>>
    BY <1>4 DEF Poll
  <2>2. exec' = exec \/ exec' = [exec EXCEPT ![c[o].r] = "KILLED"]
    BY <1>4 DEF Poll
  <2>. QED BY <2>1, <2>2
<1>5. CASE Validate(o)
  BY <1>5 DEF Validate, world
<1>6. CASE CleanupKestra(o)
  <2>1. UNCHANGED <<issue, beat, leases>>
    BY <1>6 DEF CleanupKestra
  <2>2. exec' = exec \/ exec' = [exec EXCEPT ![c[o].r] = "KILLED"]
    BY <1>6 DEF CleanupKestra
  <2>. QED BY <2>1, <2>2
<1>7. CASE CleanupPaperclip(o)
  <2>1. UNCHANGED <<exec, leases>>
    BY <1>7 DEF CleanupPaperclip
  <2>2. issue'[r] \in {issue[r], "cancelled"}
    BY <1>7 DEF CleanupPaperclip
  <2>3. PICK b \in {beat, [beat EXCEPT ![c[o].r].now =
                               IF @ = "none" THEN @ ELSE "cancelled"]} : beat' = b
    BY <1>7 DEF CleanupPaperclip
  <2>4. beat'[r].n = beat[r].n /\ (beat[r].now = "none" => beat'[r].now = "none")
    BY <1>t, <2>3 DEF Beats
  <2>. QED BY <2>1, <2>2, <2>4
<1>8. CASE CleanupResources(o)
  BY <1>8 DEF CleanupResources
<1>9. CASE AwaitRelease(o)
  BY <1>9 DEF AwaitRelease, world
<1>10. CASE DeleteSandboxes(o)
  BY <1>10 DEF DeleteSandboxes
<1>11. CASE VerifyAbsence(o)
  BY <1>11 DEF VerifyAbsence, world
<1>12. CASE CleanupGithub(o)
  BY <1>12 DEF CleanupGithub
<1>13. CASE EndRun(o)
  BY <1>13 DEF EndRun, world
<1>14. CASE Die(o)
  BY <1>14 DEF Die, world
<1>. QED BY <1>1, <1>2, <1>3, <1>4, <1>5, <1>6, <1>7, <1>8, <1>9, <1>10, <1>11, <1>12,
            <1>13, <1>14 DEF Apply

\* Every lease of a successful execution is released, so that the workspace of
\* one has no identity: whatever the source of its path, `WorkspaceIdentity` asks
\* for a lease that is not.
LEMMA SuccessIsNotProved ==
    ASSUME CanaryTypeOK, Successes, NEW r \in Runs
    PROVE  (exec[r] = "SUCCESS" => EnvironmentReleased(r)) /\ ~Proved(r)
<1>1. exec[r] = "SUCCESS" => EnvironmentReleased(r)
  <2>. SUFFICES ASSUME exec[r] = "SUCCESS" PROVE EnvironmentReleased(r)
    OBVIOUS
  <2>1. leases[r] = {} /\ beat[r].n # 0 /\ beat[r].n \in Nat
    BY DEF Successes, Succeeded, CanaryTypeOK, Beats
  <2>2. 1 \in 1 .. beat[r].n
    BY <2>1
  <2>. QED BY <2>1, <2>2 DEF EnvironmentReleased, Heartbeats, ValidProviderLeaseCleanup
<1>2. ResourceState(r).released = EnvironmentReleased(r)
  BY DEF ResourceState
<1>. QED BY <1>1, <1>2 DEF Proved, ValidEvidence, WorkspaceIdentity

RecordInv == CanaryInv /\ Successes /\ NoRunIsRecorded

LEMMA RecordInit ==
    E2EInit => RecordInv
BY CanaryInit DEF E2EInit, RecordInv, Successes, Succeeded, Begun, NoBeat, NoRunIsRecorded

LEMMA RecordStep ==
    ASSUME RecordInv, [Next]_vars
    PROVE  RecordInv'
<1>. USE DEF RecordInv
<1>1. CanaryInv' /\ CanaryTypeOK /\ Owners
  BY CanaryStep DEF CanaryInv
<1>2. CASE UNCHANGED vars
  BY <1>1, <1>2 DEF vars, world, Successes, Succeeded, Begun, NoRunIsRecorded
<1>3. ASSUME NEW w \in Runs, World(w) PROVE RecordInv'
  BY <1>1, <1>3, SuccessWorld DEF Successes, World, NoRunIsRecorded
<1>4. ASSUME NEW o \in Operators, Apply(o) PROVE RecordInv'
  <2>1. Successes'
    BY <1>1, <1>4, SuccessApply DEF Successes
  <2>2. recorded' = recorded
    <3>1. CASE Validate(o)
      <4>1. c[o].r \in Runs
        BY <1>1, <3>1, E2EAssumption DEF Validate, At, Owners, Owns, CanaryTypeOK, Runs
      <4>2. ~Proved(c[o].r)
        BY <1>1, <4>1, SuccessIsNotProved
      <4>. QED BY <3>1, <4>2 DEF Validate
    <3>2. CASE ~Validate(o)
      BY <1>4, <3>2 DEF Apply, Admit, Trigger, Discover, Poll, CleanupKestra,
         CleanupPaperclip, CleanupResources, AwaitRelease, DeleteSandboxes, VerifyAbsence,
         CleanupGithub, EndRun, Die, Rest, Others
    <3>. QED BY <3>1, <3>2
  <2>3. evidence' # "passed"
    <3>1. CASE EndRun(o)
      BY <3>1 DEF EndRun, NoRunIsRecorded
    <3>2. CASE ~EndRun(o)
      BY <1>4, <3>2 DEF Apply, Admit, Trigger, Discover, Poll, Validate, CleanupKestra,
         CleanupPaperclip, CleanupResources, AwaitRelease, DeleteSandboxes, VerifyAbsence,
         CleanupGithub, Die, Rest, Others, NoRunIsRecorded
    <3>. QED BY <3>1, <3>2
  <2>. QED BY <1>1, <2>1, <2>2, <2>3 DEF NoRunIsRecorded
<1>. QED BY <1>2, <1>3, <1>4 DEF Next

\* No execution succeeds before every lease of its heartbeats is released, and no
\* later step takes one: the identity of a workspace, which wants a lease that is
\* not released, cannot be had of a run that succeeded.
\* (paperclip-github-e2e.yaml; apply; workspace_identity)
THEOREM SuccessIsReleased ==
    Spec => [](\A r \in Runs : exec[r] = "SUCCESS" => EnvironmentReleased(r))
<1>1. RecordInv => \A r \in Runs : exec[r] = "SUCCESS" => EnvironmentReleased(r)
  BY SuccessIsNotProved DEF RecordInv, CanaryInv
<1>. QED BY <1>1, RecordInit, RecordStep, PTL DEF Spec

\* No run is ever recorded as proved and the evidence never says "passed".  The
\* proof uses what SuccessIsReleased says of the leases, not that the source of
\* the path is one that nothing produces.  (apply, workspace_identity)
THEOREM NothingIsRecorded == Spec => []NoRunIsRecorded
<1>1. RecordInv => NoRunIsRecorded
  BY DEF RecordInv
<1>. QED BY <1>1, RecordInit, RecordStep, PTL DEF Spec

==============================================================================
