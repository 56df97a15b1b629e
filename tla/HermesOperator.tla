---------------------------- MODULE HermesOperator ----------------------------
(***************************************************************************)
(* server-hermes.py: `install`, `reconcile` and `remove` of the native     *)
(* Hermes agent on the host.  The agent runs under systemd, either as a    *)
(* hardened service or, if the canonical file says so and `install` was    *)
(* given the flag for it, with a policy that lets it use sudo.             *)
(*                                                                         *)
(* A command is a sequence of steps.  It may fail at any of them or be     *)
(* killed, the canonical file may be edited meanwhile and the service may  *)
(* crash; the next command finds what the last one has left.  Commands are *)
(* run one after the other.  A secret is the number of its creation, 0 is  *)
(* none; the hash of the canonical file is the number of its edition.      *)
(***************************************************************************)
EXTENDS Naturals, Sequences

CONSTANTS
    Releases,   \* 1 .. Releases are the bundles' pinned versions of Hermes
    MaxEdits,   \* bound on the operator's changes of the canonical file
    MaxEvents,  \* bound on new bundles, drifts, crashes and other commands
    MaxFaults   \* bound on failed steps and kills

ASSUME HermesAssumption ==
    /\ Releases \in Nat \ {0}
    /\ MaxEdits \in Nat /\ MaxEvents \in Nat /\ MaxFaults \in Nat

Modes == {"public", "admin", "malformed"}

VARIABLES
    canon,    \* the canonical file: edition, mode, operator's password, token
    bundle,   \* the release that the synchronised bundle pins
    matter,   \* Mattermost: the operator's password, the bot's tokens
    account,  \* the service account exists
    venv,     \* per release, its virtual environment
    current,  \* the release that the link `current` points to, 0 without it
    proj,     \* the edition of which hermes.env is the projection
    conf,     \* the edition from which config.yaml was rendered
    skill,    \* the bundle of which the platform skill is installed
    sudoers,  \* the policy that grants sudo is in place
    unit,     \* the unit file: "none", "hardened" or "open"
    loaded,   \* the unit as systemd has loaded it
    enabled, legacy,  \* the unit is enabled; the former service is
    service,  \* the service process and what it was started with
    proc,     \* the running command
    report,   \* the last command: its kind, whether it succeeded, its edition
    modeOf,   \* ghost: the mode that each edition demands
    revoked,  \* ghost: the last command took the privileges away
    made, edits, events, faults

host == <<account, venv, current, conf, skill, sudoers, unit, loaded, enabled, legacy, service>>
counters == <<made, edits, events, faults>>
vars == <<canon, bundle, matter, host, proj, proc, report, modeOf, revoked, counters>>

Off == [state |-> "off", unit |-> "none", rel |-> 0, conf |-> 0, proj |-> 0]
NoReport == [kind |-> "none", ok |-> FALSE, n |-> 0]
NoCommand == [kind |-> "none", grant |-> FALSE, i |-> 0, mode |-> "none", n |-> 0,
              pw |-> 0, token |-> 0]

HermesInit ==
    \E m \in Modes \ {"malformed"}, old \in BOOLEAN :
        /\ canon = [n |-> 1, mode |-> m, pw |-> 0, token |-> 0]
        /\ bundle = 1 /\ matter = [password |-> 0, tokens |-> {}]
        /\ account = FALSE /\ venv = [r \in 1 .. Releases |-> "none"]
        /\ current = 0 /\ proj = 0 /\ conf = 0 /\ skill = 0 /\ sudoers = FALSE
        /\ unit = "none" /\ loaded = "none" /\ enabled = FALSE /\ legacy = old
        /\ service = Off /\ proc = NoCommand /\ report = NoReport
        /\ modeOf = <<m>> /\ revoked = FALSE
        /\ made = 0 /\ edits = 0 /\ events = 0 /\ faults = 0

-----------------------------------------------------------------------------
(* Commands and their steps.                                               *)

Steps(kind) ==
    CASE kind = "install" ->
           <<"revoke", "operator", "token", "save", "project", "authorize", "packages",
             "fetch", "venv", "build", "evidence", "config", "unit", "link", "skill_out",
             "skill_in", "policy", "bound", "reload", "restart", "status">>
      [] kind = "reconcile" ->
           <<"revoke", "mode", "project", "evidence", "config", "skill_out",
             "skill_in", "unit", "link", "restart", "status">>
      [] OTHER -> <<"disable", "unlink", "policy", "unload", "rmtree", "purge">>

At(s) == proc.kind # "none" /\ Steps(proc.kind)[proc.i] = s

\* The command goes on with `p`, or is over.
Ends(ok) ==
    /\ proc' = NoCommand
    /\ report' = [kind |-> proc.kind, ok |-> ok, n |-> proc.n]
Goes(p) ==
    IF proc.i = Len(Steps(proc.kind)) THEN Ends(TRUE)
    ELSE proc' = [p EXCEPT !.i = @ + 1] /\ UNCHANGED report
Ok == Goes(proc) /\ UNCHANGED faults
Fault == faults < MaxFaults /\ faults' = faults + 1
Fails == Ends(FALSE) /\ UNCHANGED faults

Quiet == UNCHANGED <<bundle, modeOf, revoked, made, edits, events>>
Host(changed) == UNCHANGED <<canon, matter, proj>> /\ Quiet /\ changed

\* A step fails before it has done anything, or the command is killed.
StepFails ==
    /\ proc.kind # "none" /\ Ends(FALSE) /\ Fault
    /\ UNCHANGED <<canon, matter, proj, host>> /\ Quiet

-----------------------------------------------------------------------------
(* Privileges.                                                             *)

\* What the command takes for public mode before it validates anything.
PublicRequested ==
    IF proc.kind = "install" THEN ~proc.grant ELSE canon.mode # "admin"

\* Mutant: the policy is left to the end of the installation.
Revoke_AtTheEnd ==
    /\ At("revoke") /\ Ok
    /\ revoked' = PublicRequested
    /\ UNCHANGED <<canon, bundle, matter, proj, host, modeOf, made, edits, events>>

Revoke ==
    /\ At("revoke") /\ Ok
    /\ revoked' = PublicRequested
    /\ sudoers' = (sudoers /\ ~PublicRequested)
    /\ UNCHANGED <<canon, bundle, matter, proj, account, venv, current, conf, skill,
                   unit, loaded, enabled, legacy, service, modeOf, made, edits, events>>

\* validate_env_file
ValidEnv == canon.mode # "malformed"

\* Install demands the mode and the flag, and the file that was projected.
\* (validate_env_file, authorize_operator_mode)
Authorize ==
    /\ At("authorize")
    /\ IF ValidEnv /\ proc.n = canon.n /\ (proc.grant <=> canon.mode = "admin")
       THEN Ok ELSE Fails
    /\ Host(UNCHANGED host)

\* reconcile takes the mode that the file has now.
ReadMode ==
    /\ At("mode")
    /\ IF ValidEnv THEN Goes([proc EXCEPT !.mode = canon.mode]) /\ UNCHANGED faults
       ELSE Fails
    /\ Host(UNCHANGED host)

\* reconcile_admin_policy at the end of install; remove unlinks the policy.
AdminPolicy ==
    /\ At("policy") /\ Ok
    /\ sudoers' = proc.grant
    /\ Host(UNCHANGED <<account, venv, current, conf, skill, unit, loaded, enabled,
                        legacy, service>>)

-----------------------------------------------------------------------------
(* The bootstrap of Mattermost: the operator's account, and a bot.         *)

Mattermost ==
    UNCHANGED <<canon, proj, host, bundle, modeOf, revoked, edits, events>>

\* Mutant: an account that exists is not given another password.
EnsureOperator_Keeps ==
    /\ At("operator")
    /\ IF matter.password # 0
       THEN /\ IF matter.password = canon.pw
               THEN Goes([proc EXCEPT !.pw = canon.pw]) /\ UNCHANGED faults
               ELSE Fails
            /\ UNCHANGED <<matter, made>>
       ELSE /\ made' = made + 1
            /\ matter' = [matter EXCEPT !.password = made']
            /\ \/ Goes([proc EXCEPT !.pw = made']) /\ UNCHANGED faults
               \/ Ends(FALSE) /\ Fault
    /\ Mattermost

\* A password that is not known is replaced; the account is then logged in.
\* (ensure_user, admin_login)
EnsureOperator ==
    /\ At("operator")
    /\ IF matter.password # 0 /\ canon.pw # 0
       THEN /\ IF matter.password = canon.pw
               THEN Goes([proc EXCEPT !.pw = canon.pw]) /\ UNCHANGED faults
               ELSE Fails
            /\ UNCHANGED <<matter, made>>
       ELSE /\ made' = made + 1
            /\ matter' = [matter EXCEPT !.password = made']
            /\ \/ Goes([proc EXCEPT !.pw = made']) /\ UNCHANGED faults
               \/ Ends(FALSE) /\ Fault
    /\ Mattermost

\* A bot whose token is not known gets another one.  (ensure_bot)
EnsureToken ==
    /\ At("token")
    /\ IF canon.token # 0
       THEN /\ Goes([proc EXCEPT !.token = canon.token])
            /\ UNCHANGED <<faults, matter, made>>
       ELSE /\ made' = made + 1
            /\ matter' = [matter EXCEPT !.tokens = @ \cup {made'}]
            /\ \/ Goes([proc EXCEPT !.token = made']) /\ UNCHANGED faults
               \/ Ends(FALSE) /\ Fault
    /\ Mattermost

\* Both are stored in the canonical file, with what others wrote meanwhile.
SaveCredentials ==
    LET same == proc.pw = canon.pw /\ proc.token = canon.token
        n == IF same THEN canon.n ELSE canon.n + 1 IN
    /\ At("save") /\ Ok
    /\ canon' = [canon EXCEPT !.n = n, !.pw = proc.pw, !.token = proc.token]
    /\ modeOf' = IF same THEN modeOf ELSE Append(modeOf, canon.mode)
    /\ UNCHANGED <<matter, proj, host, bundle, revoked, made, edits, events>>

-----------------------------------------------------------------------------
(* What the service runs.                                                  *)

\* reconcile_platform_projections: rendered and audited by server-config.py.
Project ==
    /\ At("project")
    /\ proj' = canon.n
    /\ Goes([proc EXCEPT !.n = canon.n]) /\ UNCHANGED faults
    /\ UNCHANGED <<canon, matter, host>> /\ Quiet

\* ensure_packages, ensure_supported_python, ensure_user
Packages ==
    /\ At("packages") /\ Ok
    /\ account' = TRUE
    /\ Host(UNCHANGED <<venv, current, conf, skill, sudoers, unit, loaded, enabled,
                        legacy, service>>)

OnlyVenv == Host(UNCHANGED <<account, current, conf, skill, sudoers, unit, loaded,
                             enabled, legacy, service>>)

\* venv_supply_chain_evidence, installed_version
VenvIsValid == venv[bundle] = "valid"

\* install_venv keeps an environment that is as locked.  Else it downloads
\* the wheel, of which hash, signature and provenance must be the locked ones ...
FetchArtifacts ==
    /\ At("fetch")
    /\ \/ Ok
       \/ ~VenvIsValid /\ Ends(FALSE) /\ Fault
    /\ Host(UNCHANGED host)

\* ... removes the environment ...
RemoveVenv ==
    /\ At("venv") /\ Ok
    /\ venv' = IF VenvIsValid THEN venv ELSE [venv EXCEPT ![bundle] = "none"]
    /\ OnlyVenv

\* ... and builds it anew in its place.
BuildVenv ==
    /\ At("build")
    /\ \/ venv' = [venv EXCEPT ![bundle] = "valid"] /\ Ok
       \/ ~VenvIsValid /\ venv' = [venv EXCEPT ![bundle] = "partial"] /\ Ends(FALSE) /\ Fault
    /\ OnlyVenv

\* runtime_credential_projection_evidence
Evidence ==
    /\ At("evidence")
    /\ IF proj = canon.n /\ proc.n = canon.n THEN Ok ELSE Fails
    /\ Host(UNCHANGED host)

\* render_native_config reads the canonical file once more.
RenderConfig ==
    /\ At("config")
    /\ IF account THEN conf' = canon.n /\ Ok ELSE Fails /\ UNCHANGED conf
    /\ Host(UNCHANGED <<account, venv, current, skill, sudoers, unit, loaded, enabled,
                        legacy, service>>)

\* operator_mode_ready
ModeReady(m) ==
    \/ m = "public" /\ ~sudoers /\ unit = "hardened"
    \/ m = "admin" /\ sudoers /\ unit = "open"

\* reconcile writes the files of a public service only.
WritesFiles == proc.kind = "install" \/ proc.mode = "public"

\* install_runtime_files: the unit file ...
WriteUnit ==
    /\ At("unit")
    /\ IF WritesFiles
       THEN unit' = (IF proc.grant THEN "open" ELSE "hardened") /\ Ok
       ELSE /\ UNCHANGED unit
            /\ IF ModeReady(proc.mode) THEN Ok ELSE Fails
    /\ Host(UNCHANGED <<account, venv, current, conf, skill, sudoers, loaded, enabled,
                        legacy, service>>)

\* ... and the link, removed and made anew.
Link ==
    /\ At("link")
    /\ IF WritesFiles /\ current # bundle
       THEN \/ current' = bundle /\ Ok
            \/ current' = 0 /\ Ends(FALSE) /\ Fault
       ELSE UNCHANGED current /\ Ok
    /\ Host(UNCHANGED <<account, venv, conf, skill, sudoers, unit, loaded, enabled,
                        legacy, service>>)

OnlySkill == Host(UNCHANGED <<account, venv, current, conf, sudoers, unit, loaded, enabled,
                              legacy, service>>)

\* install_platform_skill: the verified copy replaces the installed tree,
\* which is renamed first.
SkillOut == At("skill_out") /\ Ok /\ skill' = 0 /\ OnlySkill
SkillIn == At("skill_in") /\ Ok /\ skill' = bundle /\ OnlySkill

-----------------------------------------------------------------------------
(* systemd.                                                                *)

Startable ==
    /\ loaded # "none" /\ proj # 0 /\ account
    /\ current # 0 /\ venv[IF current = 0 THEN 1 ELSE current] = "valid"

Started == [state |-> "on", unit |-> loaded, rel |-> current, conf |-> conf, proj |-> proj]

\* The canonical file is still the one that was projected.
HashBound ==
    /\ At("bound")
    /\ IF proc.n = canon.n THEN Ok ELSE Fails
    /\ Host(UNCHANGED host)

\* Mutant: systemd is told of a new unit only, as in reconcile.
Reload_New ==
    /\ At("reload") /\ Ok
    /\ legacy' = FALSE /\ enabled' = TRUE
    /\ loaded' = (IF loaded = "none" THEN unit ELSE loaded)
    /\ Host(UNCHANGED <<account, venv, current, conf, skill, sudoers, unit, service>>)

\* The former service is disabled, the units are loaded anew, ours is enabled.
Reload ==
    /\ At("reload") /\ Ok
    /\ legacy' = FALSE /\ loaded' = unit /\ enabled' = TRUE
    /\ Host(UNCHANGED <<account, venv, current, conf, skill, sudoers, unit, service>>)

\* systemctl restart starts the unit that systemd has loaded, and goes on
\* trying; then the API is waited for.
Restart ==
    /\ At("restart")
    /\ IF unit = "none" THEN Ok /\ UNCHANGED service
       ELSE IF Startable THEN service' = Started /\ Ok
       ELSE service' = [Off EXCEPT !.state = "retry"] /\ Fails
    /\ Host(UNCHANGED <<account, venv, current, conf, skill, sudoers, unit, loaded,
                        enabled, legacy>>)

\* The checks of status_payload on the host and on the canonical file.
Healthy ==
    /\ account /\ ValidEnv /\ VenvIsValid
    /\ unit # "none" /\ enabled /\ service.state = "on"
    /\ ModeReady(canon.mode) /\ proj = canon.n /\ skill = bundle

\* What Mattermost, the gateway and the other services answer.
ExternallyReady == canon.token \in matter.tokens

\* Only install demands them.
Status ==
    /\ At("status")
    /\ IF proc.kind = "install" => Healthy /\ ExternallyReady THEN Ok ELSE Fails
    /\ Host(UNCHANGED host)

-----------------------------------------------------------------------------
(* remove                                                                  *)

Disable ==
    /\ At("disable") /\ Ok
    /\ service' = Off /\ enabled' = FALSE /\ legacy' = FALSE
    /\ Host(UNCHANGED <<account, venv, current, conf, skill, sudoers, unit, loaded>>)

Unlink ==
    /\ At("unlink") /\ Ok
    /\ unit' = "none"
    /\ Host(UNCHANGED <<account, venv, current, conf, skill, sudoers, loaded, enabled,
                        legacy, service>>)

Unload ==
    /\ At("unload") /\ Ok
    /\ loaded' = unit
    /\ Host(UNCHANGED <<account, venv, current, conf, skill, sudoers, unit, enabled,
                        legacy, service>>)

RemoveRoot ==
    /\ At("rmtree") /\ Ok
    /\ venv' = [r \in DOMAIN venv |-> "none"] /\ current' = 0
    /\ Host(UNCHANGED <<account, conf, skill, sudoers, unit, loaded, enabled, legacy,
                        service>>)

\* with --purge-data
Purge ==
    /\ At("purge") /\ Ok
    /\ \/ account' = FALSE /\ conf' = 0 /\ skill' = 0
       \/ UNCHANGED <<account, conf, skill>>
    /\ Host(UNCHANGED <<venv, current, sudoers, unit, loaded, enabled, legacy, service>>)

-----------------------------------------------------------------------------
(* The commands of the operator, and what else happens.                    *)

Event == events < MaxEvents /\ events' = events + 1

Start(kind, grant) ==
    /\ proc.kind = "none"
    /\ proc' = [NoCommand EXCEPT !.kind = kind, !.grant = grant, !.i = 1]
    /\ report' = NoReport
    /\ revoked' = FALSE
    /\ UNCHANGED <<canon, bundle, matter, proj, host, modeOf, made, edits, faults>>

\* The operator's usual command: install, with the flag that the mode needs.
Install == Start("install", canon.mode = "admin") /\ UNCHANGED events

OtherCommand ==
    /\ Event
    /\ \/ Start("install", canon.mode # "admin")
       \/ \E kind \in {"reconcile", "remove"} : Start(kind, FALSE)

\* The operator edits the canonical file, at any moment.
Edit ==
    /\ edits < MaxEdits /\ edits' = edits + 1
    /\ \E m \in Modes :
          /\ canon' = [canon EXCEPT !.n = @ + 1, !.mode = m]
          /\ modeOf' = Append(modeOf, m)
    /\ report' = NoReport
    /\ UNCHANGED <<bundle, matter, proj, host, proc, revoked, made, events, faults>>

\* A bundle that pins another release is synchronised.
NewBundle ==
    /\ proc.kind = "none" /\ bundle < Releases /\ Event
    /\ bundle' = bundle + 1
    /\ report' = NoReport
    /\ UNCHANGED <<canon, matter, proj, host, proc, modeOf, revoked, made, edits, faults>>

\* The packages of an environment are no longer the locked ones.
Drift ==
    /\ proc.kind = "none" /\ VenvIsValid /\ Event
    /\ venv' = [venv EXCEPT ![bundle] = "partial"]
    /\ report' = NoReport
    /\ UNCHANGED <<canon, bundle, matter, proj, account, current, conf, skill, sudoers, unit,
                   loaded, enabled, legacy, service, proc, modeOf, revoked, made, edits, faults>>

\* The service fails; systemd starts it again, for as long as it takes.
Crash ==
    /\ service.state = "on" /\ Event
    /\ service' = [Off EXCEPT !.state = "retry"]
    /\ report' = NoReport
    /\ UNCHANGED <<canon, bundle, matter, proj, account, venv, current, conf, skill, sudoers,
                   unit, loaded, enabled, legacy, proc, modeOf, revoked, made, edits, faults>>

AutoRestart ==
    /\ service.state = "retry" /\ Startable
    /\ service' = Started
    /\ UNCHANGED <<canon, bundle, matter, proj, account, venv, current, conf, skill, sudoers,
                   unit, loaded, enabled, legacy, proc, report, modeOf, revoked, counters>>

Step ==
    \/ Revoke \/ Authorize \/ ReadMode \/ AdminPolicy
    \/ EnsureOperator \/ EnsureToken \/ SaveCredentials
    \/ Project \/ Packages \/ FetchArtifacts \/ RemoveVenv \/ BuildVenv \/ Evidence \/ RenderConfig
    \/ WriteUnit \/ Link \/ SkillOut \/ SkillIn
    \/ HashBound \/ Reload \/ Restart \/ Status
    \/ Disable \/ Unlink \/ Unload \/ RemoveRoot \/ Purge

Next ==
    \/ Step \/ StepFails \/ Install \/ OtherCommand
    \/ Edit \/ NewBundle \/ Drift \/ Crash \/ AutoRestart

Spec == HermesInit /\ [][Next]_vars

\* A command goes on, the operator repeats the installation, systemd restarts.
FairSpec == Spec /\ WF_vars(Step) /\ WF_vars(Install) /\ WF_vars(AutoRestart)

-----------------------------------------------------------------------------
(* Properties.                                                             *)

(***************************************************************************)
(* "This mode peek fails toward public mode": after a command that was     *)
(* asked for the public mode has begun, the agent has no sudo, however the *)
(* command ended, until another one begins.  (install, reconcile)          *)
(***************************************************************************)
RevokedAtOnce == revoked => ~sudoers

\* The running service, its files and its credentials are those of the
\* canonical edition `n`.
Operational(n) ==
    /\ service = [state |-> "on", rel |-> bundle, conf |-> n, proj |-> n,
                  unit |-> IF modeOf[n] = "admin" THEN "open" ELSE "hardened"]
    /\ sudoers <=> modeOf[n] = "admin"
    /\ venv[bundle] = "valid" /\ skill = bundle /\ enabled /\ ~legacy
    /\ canon.pw = matter.password /\ canon.token \in matter.tokens

(***************************************************************************)
(* An installation that reports success has left a service that runs what  *)
(* the edition it read demands: unit, privileges, configuration, release   *)
(* and skill, whatever the commands before it had left half done.          *)
(***************************************************************************)
InstalledMeansOperational ==
    report.kind = "install" /\ report.ok => Operational(report.n)

(***************************************************************************)
(* When the edits and the mishaps are over, repeating the installation     *)
(* makes the service what the canonical file demands, and every later one  *)
(* leaves it so, unless the file is malformed.  (install, install_venv,    *)
(* bootstrap_mattermost, systemd's Restart=)                               *)
(***************************************************************************)
InstallRecovers ==
    <>[](proc.kind = "none" /\ canon.mode # "malformed" => Operational(canon.n))

(***************************************************************************)
(* What the documentation says of the public mode: "Its unit is hardened   *)
(* and any stale [...] file is removed" (references/hermes.md).  After a   *)
(* reconciliation that found the public mode from its first step on has    *)
(* succeeded, the running service is a hardened one.  (reconcile)          *)
(***************************************************************************)
PublicIsHardened ==
    /\ report.kind = "reconcile" /\ report.ok
    /\ revoked /\ modeOf[report.n] = "public" /\ service.state = "on"
    => service.unit = "hardened" /\ ~sudoers
=============================================================================
