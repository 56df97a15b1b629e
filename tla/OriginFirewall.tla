--------------------------- MODULE OriginFirewall ---------------------------
(***************************************************************************)
(* The origin firewall (deployment/steps/origin-firewall.sh): how a policy *)
(* (the public interface and the operators' SSH networks) is put in force  *)
(* by replacing iptables chains, one command at a time, for IPv4 and then  *)
(* for IPv6.  Operators apply and remove it, a systemd service enforces it *)
(* at boot and after Docker restarts, a timer recovers it.  Each takes one *)
(* flock, which the kernel releases however its holder ends.               *)
(*                                                                         *)
(* A base chain (INPUT, DOCKER-USER) is a sequence of rules: jumps to      *)
(* managed chains and rules of others.  Of FORWARD only matters whether    *)
(* its first rule is the jump to DOCKER-USER.                              *)
(***************************************************************************)
EXTENDS Naturals, Sequences, SequencesExt

CONSTANTS
    Operator,           \* processes of `apply' and `remove'
    Service, Recover,   \* the process of each systemd unit
    Chain,              \* names of managed chains
    Rules,              \* rules of a complete chain
    MaxPolicy,          \* bound: policies the operators configure in turn
    MaxRuns,            \* bound: runs of operators and changes of the policy, together
    MaxMishaps,         \* bound: failing commands, kills, reboots, intrusions
    Nobody, NoChain, Foreign, Absent

Process == Operator \cup {Service, Recover}

ASSUME FirewallAssumption ==
    /\ Rules \in Nat \ {0} /\ MaxPolicy \in Nat \ {0}
    /\ MaxRuns \in Nat /\ MaxMishaps \in Nat
    /\ Service # Recover /\ {Service, Recover} \cap Operator = {}
    /\ Nobody \notin Process
    /\ {NoChain, Foreign} \cap Chain = {}
    /\ Absent \notin [policy : 1..MaxPolicy, rules : 0..Rules]

VARIABLES
    config,     \* the configured policy, numbered in the order of the changes
    top,        \* family, hook -> the rules of its base chain
    toDocker,   \* family -> does FORWARD begin with the jump to DOCKER-USER?
    chains,     \* family, hook, name -> its managed chain
    lock,       \* the holder of the flock
    installed,  \* are the units installed and the timer enabled?
    active,     \* did the service's last run succeed?
    pc,         \* process -> where it is in the script
    job,        \* process -> its shell variables
    runs, mishaps

tables == <<top, toDocker, chains>>
units == <<installed, active>>
counters == <<runs, mishaps>>
vars == <<config, tables, lock, units, pc, job, counters>>

Family == {"v4", "v6"}
Hook == {"input", "forward"}    \* chains at INPUT and at DOCKER-USER
Policy == 1..MaxPolicy

\* A managed chain: the policy it is built for, and how much of it is there.
ChainState == [policy : Policy, rules : 0..Rules] \cup {Absent}

Kind == {"none", "apply", "enforce", "recover", "remove"}

Job ==
    [kind    : Kind,
     policy  : 0..MaxPolicy,            \* what load_cidrs read
     family  : Family,
     hook    : Hook,
     new     : [Hook -> Chain \cup {NoChain}],
     stale   : SUBSET Chain,            \* still to be removed at this hook
     target  : Chain \cup {NoChain},    \* its jump was deleted
     skipped : BOOLEAN]                 \* history: a failure was ignored

NoJob ==
    [kind |-> "none", policy |-> 0, family |-> "v4", hook |-> "input",
     new |-> [h \in Hook |-> NoChain], stale |-> {}, target |-> NoChain,
     skipped |-> FALSE]

\* The labels at which the process holds the lock.
Locked == {"load", "check", "create", "build", "attach", "docker", "list",
           "unhook", "drop", "orphans", "sweep", "install", "unlock",
           "status", "uninstall"}
PC == {"off", "flock", "restart", "wait", "relock"} \cup Locked

FirewallTypeOK ==
    /\ config \in Policy
    /\ top \in [Family -> [Hook -> Seq(Chain \cup {Foreign})]]
    /\ toDocker \in [Family -> BOOLEAN]
    /\ chains \in [Family -> [Hook -> [Chain -> ChainState]]]
    /\ lock \in Process \cup {Nobody}
    /\ installed \in BOOLEAN /\ active \in BOOLEAN
    /\ pc \in [Process -> PC]
    /\ job \in [Process -> Job]
    /\ \A p \in Process : pc[p] \in Locked <=> lock = p
    /\ runs \in 0..MaxRuns /\ mishaps \in 0..MaxMishaps

Init ==
    /\ config = 1
    /\ top = [f \in Family |-> [h \in Hook |-> <<>>]]
    /\ toDocker = [f \in Family |-> FALSE]
    /\ chains = [f \in Family |-> [h \in Hook |-> [c \in Chain |-> Absent]]]
    /\ lock = Nobody
    /\ installed = FALSE /\ active = FALSE
    /\ pc = [p \in Process |-> "off"]
    /\ job = [p \in Process |-> NoJob]
    /\ runs = 0 /\ mishaps = 0

-----------------------------------------------------------------------------
(* Chains and jumps.                                                       *)

Exists(f, h, c) == chains[f][h][c] # Absent
Hooked(f, h) == {c \in Chain : Contains(top[f][h], c)}

\* The chain c of family f enforces the policy q at hook h.
Complete(f, h, c, q) == chains[f][h][c] = [policy |-> q, rules |-> Rules]

\* Mutant: the place of the jumps is not looked at.
Matches_AnyPlace(f, q) ==
    /\ toDocker[f]
    /\ \A h \in Hook :
          \E c \in Chain : Hooked(f, h) = {c} /\ Complete(f, h, c, q)

\* family_status: one managed jump at each base chain, it is the first rule,
\* and the chain has exactly the rules of the policy.
Matches(f, q) ==
    /\ toDocker[f]
    /\ \A h \in Hook :
          \E c \in Chain :
              /\ Hooked(f, h) = {c}
              /\ Head(top[f][h]) = c
              /\ Complete(f, h, c, q)

\* iptables -F and -X of a chain: one that is still jumped to is only emptied.
Dropped(f, h, c) ==
    CASE chains[f][h][c] = Absent -> Absent
      [] c \in Hooked(f, h) -> [chains[f][h][c] EXCEPT !.rules = 0]
      [] OTHER -> Absent

-----------------------------------------------------------------------------
(* Processes.                                                              *)

Mishap == mishaps < MaxMishaps /\ mishaps' = mishaps + 1

Goto(p, label, j) ==
    /\ pc' = [pc EXCEPT ![p] = label]
    /\ job' = [job EXCEPT ![p] = j]

\* The process ends, and with it its hold on the lock.
Exit(p) ==
    /\ Goto(p, "off", NoJob)
    /\ lock' = IF lock = p THEN Nobody ELSE lock

\* ExecStart of a oneshot service ends: RemainAfterExit keeps it active.
ExitWith(p, success) ==
    /\ Exit(p)
    /\ active' = IF p = Service THEN success ELSE active
    /\ UNCHANGED installed

Begin(p, kind) ==
    /\ pc[p] = "off"
    /\ Goto(p, "flock", [NoJob EXCEPT !.kind = kind])

OperatorRuns(p) ==
    /\ runs + config <= MaxRuns
    /\ runs' = runs + 1
    /\ \E kind \in {"apply", "remove"} : Begin(p, kind)
    /\ UNCHANGED <<config, tables, lock, units, mishaps>>

\* At boot, and with every restart of docker.service.  A start while `apply'
\* waits for its restart joins that job.
StartService ==
    /\ installed
    /\ \A p \in Operator : pc[p] # "wait"
    /\ Begin(Service, "enforce")
    /\ active' = FALSE
    /\ UNCHANGED <<config, tables, lock, installed, counters>>

\* The timer, 15 seconds after the last recovery ended
StartRecover ==
    /\ installed
    /\ Begin(Recover, "recover")
    /\ UNCHANGED <<config, tables, lock, units, counters>>

\* The labels after flock, load_cidrs and a family_status that says all is well.
AfterLock(kind) == IF kind = "remove" THEN "list" ELSE "load"

\* flock -x 9
Acquire(p) ==
    /\ pc[p] \in {"flock", "relock"}
    /\ lock = Nobody
    /\ lock' = p
    /\ Goto(p, IF pc[p] = "flock" THEN AfterLock(job[p].kind) ELSE "status",
            job[p])
    /\ UNCHANGED <<config, tables, units, counters>>

-----------------------------------------------------------------------------
(* enforce.                                                                *)

Load(p) ==
    /\ pc[p] = "load"
    /\ Goto(p, "check", [job[p] EXCEPT !.policy = config])
    /\ UNCHANGED <<config, tables, lock, units, counters>>

\* enforce has returned: the units are installed, or the process ends.
Enforced(p) ==
    IF job[p].kind = "apply"
    THEN Goto(p, "install", job[p]) /\ UNCHANGED <<lock, units>>
    ELSE ExitWith(p, TRUE)

Check(p) ==
    /\ pc[p] = "check"
    /\ IF \A f \in Family : Matches(f, job[p].policy)
       THEN Enforced(p)
       ELSE Goto(p, "create", job[p]) /\ UNCHANGED <<lock, units>>
    /\ UNCHANGED <<config, tables, counters>>

\* create_chain: a name that is not taken
NewChain(f, h) == CHOOSE c \in Chain : ~Exists(f, h, c)

Create(p) ==
    LET f == job[p].family
        h == job[p].hook
        c == NewChain(f, h)
    IN  /\ pc[p] = "create"
        /\ \E name \in Chain : ~Exists(f, h, name)
        /\ chains' = [chains EXCEPT ![f][h][c] =
                        [policy |-> job[p].policy, rules |-> 0]]
        /\ IF h = "input"
           THEN Goto(p, "create", [job[p] EXCEPT !.new[h] = c, !.hook = "forward"])
           ELSE Goto(p, "build", [job[p] EXCEPT !.new[h] = c, !.hook = "input"])
        /\ UNCHANGED <<config, top, toDocker, lock, units, counters>>

\* build_input_chain, then build_forward_chain, rule by rule
Build(p) ==
    LET f == job[p].family
        h == job[p].hook
        n == chains[f][h][job[p].new[h]].rules + 1
    IN  /\ pc[p] = "build"
        /\ chains' = [chains EXCEPT ![f][h][job[p].new[h]].rules = n]
        /\ CASE n < Rules -> Goto(p, "build", job[p])
             [] n = Rules /\ h = "input" ->
                  Goto(p, "build", [job[p] EXCEPT !.hook = "forward"])
             [] OTHER -> Goto(p, "attach", [job[p] EXCEPT !.hook = "input"])
        /\ UNCHANGED <<config, top, toDocker, lock, units, counters>>

\* A rule is refused: discard_new_chains, and the script ends.
Discard(p) ==
    LET f == job[p].family IN
    /\ pc[p] = "build"
    /\ Mishap
    /\ chains' = [chains EXCEPT ![f] =
                    [h \in Hook |->
                       [chains[f][h] EXCEPT ![job[p].new[h]] = Absent]]]
    /\ ExitWith(p, FALSE)
    /\ UNCHANGED <<config, top, toDocker, runs>>

\* -I INPUT 1, -I DOCKER-USER 1
Attach(p) ==
    LET f == job[p].family
        h == job[p].hook
    IN  /\ pc[p] = "attach"
        /\ top' = [top EXCEPT ![f][h] = <<job[p].new[h]>> \o @]
        /\ IF h = "input"
           THEN Goto(p, "docker", job[p])
           ELSE Goto(p, "list", [job[p] EXCEPT !.hook = "input"])
        /\ UNCHANGED <<config, toDocker, chains, lock, units, counters>>

\* ensure_docker_user_first
EnsureDocker(p) ==
    /\ pc[p] = "docker"
    /\ toDocker' = [toDocker EXCEPT ![job[p].family] = TRUE]
    /\ Goto(p, "attach", [job[p] EXCEPT !.hook = "forward"])
    /\ UNCHANGED <<config, top, chains, lock, units, counters>>

-----------------------------------------------------------------------------
(* Cleaning up, of a reconciliation and of a removal.                      *)

\* Mutant: the new chain counts as stale.
Stale_All(p) == Hooked(job[p].family, job[p].hook)

\* The managed jumps other than the new one
Stale(p) == Hooked(job[p].family, job[p].hook) \ {job[p].new[job[p].hook]}

\* iptables -F and -X of c: a failure is ignored.
DropChain(f, h, c, fails) ==
    IF fails
    THEN Mishap /\ UNCHANGED chains
    ELSE chains' = [chains EXCEPT ![f][h][c] = Dropped(f, h, c)] /\ UNCHANGED mishaps

\* The loop over the jumps of a hook goes on with j, or ends.
NextJump(p, j) ==
    CASE j.stale # {} -> Goto(p, "unhook", j)
      [] j.stale = {} /\ j.hook = "input" ->
           Goto(p, "list", [j EXCEPT !.hook = "forward"])
      [] OTHER -> Goto(p, "orphans", [j EXCEPT !.hook = "input"])

\* mapfile < <(iptables -S ...): a listing that fails is an empty one.
List(p) ==
    /\ pc[p] = "list"
    /\ \E fails \in BOOLEAN :
          /\ IF fails THEN Mishap ELSE UNCHANGED mishaps
          /\ NextJump(p, [job[p] EXCEPT !.stale = IF fails THEN {} ELSE Stale(p),
                                        !.skipped = @ \/ fails])
    /\ UNCHANGED <<config, tables, lock, units, runs>>

\* delete_jump_line; a removal goes on if it fails.
Unhook(p) ==
    LET f == job[p].family
        h == job[p].hook
    IN  /\ pc[p] = "unhook"
        /\ \/ \E i \in DOMAIN top[f][h] :
                 /\ top[f][h][i] \in job[p].stale
                 /\ top' = [top EXCEPT ![f][h] = RemoveAt(@, i)]
                 /\ Goto(p, "drop", [job[p] EXCEPT !.target = top[f][h][i],
                                                   !.stale = @ \ {top[f][h][i]}])
                 /\ UNCHANGED mishaps
           \/ /\ job[p].kind = "remove"
              /\ Mishap
              /\ \E c \in job[p].stale :
                    Goto(p, "drop", [job[p] EXCEPT !.target = c, !.skipped = TRUE,
                                                   !.stale = @ \ {c}])
              /\ UNCHANGED top
        /\ UNCHANGED <<config, toDocker, chains, lock, units, runs>>

Drop(p) ==
    /\ pc[p] = "drop"
    /\ \E fails \in BOOLEAN :
          /\ DropChain(job[p].family, job[p].hook, job[p].target, fails)
          /\ NextJump(p, [job[p] EXCEPT !.target = NoChain, !.skipped = @ \/ fails])
    /\ UNCHANGED <<config, top, toDocker, lock, units, runs>>

\* Mutant: only chains that were jumped to are removed.
Orphans_None(p) == {}

\* cleanup_orphan_chains: every managed chain but the new ones
Orphans(p) ==
    {c \in Chain : Exists(job[p].family, job[p].hook, c)}
        \ {job[p].new[job[p].hook]}

ListOrphans(p) ==
    /\ pc[p] = "orphans"
    /\ \E fails \in BOOLEAN :
          /\ IF fails THEN Mishap ELSE UNCHANGED mishaps
          /\ Goto(p, "sweep", [job[p] EXCEPT !.stale = IF fails THEN {} ELSE Orphans(p),
                                             !.skipped = @ \/ fails])
    /\ UNCHANGED <<config, tables, lock, units, runs>>

Sweep(p) ==
    /\ pc[p] = "sweep"
    /\ \E c \in job[p].stale, fails \in BOOLEAN :
          /\ DropChain(job[p].family, job[p].hook, c, fails)
          /\ Goto(p, "sweep", [job[p] EXCEPT !.stale = @ \ {c}, !.skipped = @ \/ fails])
    /\ UNCHANGED <<config, top, toDocker, lock, units, runs>>

\* Both hooks, then the other family, then what follows.
EndSweep(p) ==
    LET j == [job[p] EXCEPT !.hook = "input",
                            !.new = [h \in Hook |-> NoChain]]
    IN  /\ pc[p] = "sweep"
        /\ job[p].stale = {}
        /\ CASE job[p].hook = "input" ->
                  /\ Goto(p, "orphans", [job[p] EXCEPT !.hook = "forward"])
                  /\ UNCHANGED <<lock, units>>
             [] job[p].hook = "forward" /\ job[p].family = "v4" ->
                  /\ Goto(p, IF job[p].kind = "remove" THEN "list" ELSE "create",
                          [j EXCEPT !.family = "v6", !.skipped = FALSE])
                  /\ UNCHANGED <<lock, units>>
             [] OTHER ->
                  IF job[p].kind = "remove"
                  THEN Goto(p, "uninstall", j) /\ UNCHANGED <<lock, units>>
                  ELSE Enforced(p)
        /\ UNCHANGED <<config, tables, counters>>

-----------------------------------------------------------------------------
(* The rest of apply and of remove.                                        *)

Install(p) ==
    /\ pc[p] = "install"
    /\ installed' = TRUE
    /\ Goto(p, "unlock", job[p])
    /\ UNCHANGED <<config, tables, lock, active, counters>>

\* Mutant: the lock is kept while systemd restarts the service.
Unlock_Kept(p) ==
    /\ pc[p] = "unlock"
    /\ Goto(p, "restart", job[p])
    /\ UNCHANGED <<config, tables, lock, units, counters>>

Unlock(p) ==
    /\ pc[p] = "unlock"
    /\ lock' = Nobody
    /\ Goto(p, "restart", job[p])
    /\ UNCHANGED <<config, tables, units, counters>>

\* systemctl restart kills a run of the service that is under way, starts
\* another and waits for its end.
Restart(p) ==
    /\ pc[p] = "restart"
    /\ IF installed
       THEN /\ pc' = [pc EXCEPT ![p] = "wait", ![Service] = "flock"]
            /\ job' = [job EXCEPT ![Service] = [NoJob EXCEPT !.kind = "enforce"]]
            /\ lock' = IF lock = Service THEN Nobody ELSE lock
            /\ active' = FALSE
            /\ UNCHANGED installed
       ELSE ExitWith(p, FALSE)
    /\ UNCHANGED <<config, tables, counters>>

Wait(p) ==
    /\ pc[p] = "wait"
    /\ pc[Service] = "off"
    /\ IF active THEN Goto(p, "relock", job[p]) /\ UNCHANGED <<lock, units>>
                 ELSE ExitWith(p, FALSE)
    /\ UNCHANGED <<config, tables, counters>>

\* status_rules only reads.
Status(p) ==
    /\ pc[p] = "status"
    /\ ExitWith(p, TRUE)
    /\ UNCHANGED <<config, tables, counters>>

\* The timer and the service are disabled and stopped, the units and the
\* script removed.  A recovery that the timer has started is not stopped.
Uninstall(p) ==
    /\ pc[p] = "uninstall"
    /\ installed' = FALSE /\ active' = FALSE
    /\ pc' = [pc EXCEPT ![p] = "off", ![Service] = "off"]
    /\ job' = [job EXCEPT ![p] = NoJob, ![Service] = NoJob]
    /\ lock' = Nobody
    /\ UNCHANGED <<config, tables, counters>>

-----------------------------------------------------------------------------
(* The environment.                                                        *)

\* A command fails under set -e, or the process is killed.
Die(p) ==
    /\ pc[p] # "off"
    /\ Mishap
    /\ ExitWith(p, FALSE)
    /\ UNCHANGED <<config, tables, runs>>

Configure ==
    /\ config < MaxPolicy /\ runs + config <= MaxRuns
    /\ config' = config + 1
    /\ UNCHANGED <<tables, lock, units, pc, job, counters>>

\* Others put a rule before ours.
Intrude ==
    /\ Mishap
    /\ \E f \in Family :
          \/ /\ \E h \in Hook : top' = [top EXCEPT ![f][h] = <<Foreign>> \o @]
             /\ UNCHANGED toDocker
          \/ toDocker[f] /\ toDocker' = [toDocker EXCEPT ![f] = FALSE] /\ UNCHANGED top
    /\ UNCHANGED <<config, chains, lock, units, pc, job, runs>>

Reboot ==
    /\ Mishap
    /\ top' = [f \in Family |-> [h \in Hook |-> <<>>]]
    /\ toDocker' = [f \in Family |-> FALSE]
    /\ chains' = [f \in Family |-> [h \in Hook |-> [c \in Chain |-> Absent]]]
    /\ lock' = Nobody
    /\ active' = FALSE
    /\ pc' = [p \in Process |-> "off"]
    /\ job' = [p \in Process |-> NoJob]
    /\ UNCHANGED <<config, installed, runs>>

\* A step of the script outside flock
Step(p) ==
    \/ Load(p) \/ Check(p) \/ Create(p) \/ Build(p)
    \/ Attach(p) \/ EnsureDocker(p)
    \/ List(p) \/ Unhook(p) \/ Drop(p)
    \/ ListOrphans(p) \/ Sweep(p) \/ EndSweep(p)
    \/ Install(p) \/ Unlock(p) \/ Restart(p) \/ Wait(p) \/ Status(p)
    \/ Uninstall(p)

Next ==
    \/ \E p \in Operator : OperatorRuns(p)
    \/ StartService \/ StartRecover
    \/ \E p \in Process : Acquire(p) \/ Step(p) \/ Discard(p) \/ Die(p)
    \/ Configure \/ Intrude \/ Reboot

Spec == Init /\ [][Next]_vars

\* The timer fires, a script goes on, and flock serves everyone who waits
\* (the kernel wakes them in turn).
FairSpec ==
    /\ Spec
    /\ WF_vars(StartRecover)
    /\ \A p \in Process : WF_vars(Step(p)) /\ SF_vars(Acquire(p))

-----------------------------------------------------------------------------
(* Properties.                                                             *)

\* The policy in force at a hook: its first rule jumps to a complete chain.
InForce(f, h) ==
    {q \in Policy :
        /\ top[f][h] # <<>>
        /\ \E c \in Chain : Head(top[f][h]) = c /\ Complete(f, h, c, q)
        /\ h = "forward" => toDocker[f]}

Removing == \E p \in Process : lock = p /\ job[p].kind = "remove"

\* Once a policy is in force the origin is never open again and never gets
\* half a policy: whatever fails or is killed, the old policy stays until the
\* new one is complete ("this hand-off never opens the origin",
\* origin-firewall.sh:498).  Only others, a reboot or a removal can open it.
SwitchIsSeamless ==
    [][\A f \in Family, h \in Hook :
          \/ InForce(f, h) = {} \/ InForce(f, h)' = InForce(f, h)
          \/ Removing
          \/ Intrude \/ Reboot
          \/ \E p \in Process : lock = p /\ InForce(f, h)' = {job[p].policy}]_vars

\* Who cleans up a family leaves its own chains and no others, also those that
\* earlier scripts left behind, unless a command failed.
CleansUp(p, f) ==
    \A h \in Hook :
        /\ Hooked(f, h) = {job[p].new[h]} \ {NoChain}
        /\ {c \in Chain : Exists(f, h, c)} = {job[p].new[h]} \ {NoChain}

NothingIsLeft ==
    [][\A p \in Process :
          EndSweep(p) /\ job[p].hook = "forward" /\ ~job[p].skipped =>
              CleansUp(p, job[p].family)]_vars

\* While the units are installed, the configured policy ends up in force for
\* both families, whatever disturbed it.
PolicyReturns ==
    <>[](installed => \A f \in Family, h \in Hook : InForce(f, h) = {config})

\* No run waits for ever, for the lock or for the service ("holding it across
\* a synchronous restart deadlocks the first deployment", :495).
EveryoneEnds == \A p \in Operator : pc[p] # "off" ~> pc[p] = "off"

=============================================================================
