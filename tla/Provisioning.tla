---------------------------- MODULE Provisioning ----------------------------
(***************************************************************************)
(* `platform provision apply`, that is server-provision.py: one pass of    *)
(* adapters over Mattermost, 9Router and Paperclip, which create managed   *)
(* objects and credentials there, keep the credentials in the canonical    *)
(* file and copy some of them into other services.                         *)
(*                                                                         *)
(* A pass reads before it creates, so that it can be repeated after any    *)
(* request failed, took effect without an answer, or the pass was killed.  *)
(* `bootstrap-router-keys` is a short pass of its own.  A secret is the    *)
(* number of its creation; 0 is none.                                      *)
(***************************************************************************)
EXTENDS Naturals, FiniteSets

CONSTANTS
    Modes,      \* how Paperclip's owner may be found, a subset of AllModes
    MaxFaults,  \* bound: requests that fail or lose their answer, and kills
    MaxEvents   \* bound: resets of services and changes by the operator

\* The operator's dotenv holds a board key; or the flag of the unattended
\* bootstrap is set and Paperclip offers the machine type; or neither.
AllModes == {"given", "machine", "human"}

ASSUME ProvisioningAssumption ==
    /\ Modes \subseteq AllModes
    /\ MaxFaults \in Nat /\ MaxEvents \in Nat

\* Credentials: the password of the Mattermost administrator, the token of the
\* Mattermost bot, a 9Router key, the key "mte-tools" of the Paperclip service
\* agent and the Paperclip board key.
Creds == {"admin", "bot", "client", "agent", "board"}

\* Secrets of the operator: the MiniMax key and the GitHub token.
OperatorKeys == {"minimax", "github"}

\* Secrets that another service holds a copy of, with a fingerprint of what
\* was copied in the canonical file: the MiniMax key in 9Router's connection,
\* the bot token and the 9Router key in Paperclip's company secrets, and the
\* GitHub token in the user secret of the owner.
Copies == {"minimax", "bot", "client", "github"}

\* Objects found by name.
Named == {"admin", "team", "bot_user", "webhook", "company", "project", "workspace",
          "definition", "skill", "profile_agent", "service_agent"}

\* Fields of Paperclip and its objects that are set when they differ: the
\* encryption of secrets, the responsible user of the company, the workspace
\* policy of the project, the environment of the profile agent and what makes
\* the service agent the gateway to Hermes.
Fields == {"runtime", "responsible", "policy", "place", "gateway"}

\* Paperclip objects whose environment refers to company secrets.
Refers == [profile_agent |-> {"client"},
           project       |-> {"bot"},
           service_agent |-> {"bot", "client"}]

VARIABLES
    live,    \* per credential, the active ones under the managed name
    objs,    \* per name, how many objects carry it
    vault,   \* per copy, the value that the other service holds
    refs,    \* the company secrets that each of these refers to
    fields,  \* the fields that have the desired value
    sandbox, \* the Daytona reconciler has made the environment in Paperclip
    model,   \* the records of the custom model in 9Router
    boot,    \* the ownership of Paperclip: "pending", "signed_up", "complete"
    mode,    \* how the owner is found
    env,     \* canonical values of the credentials and of the operator's keys
    mark,    \* canonical fingerprints of the copies
    invite,  \* canonical: the owner invite has been issued
    machine, \* canonical: the invite is redeemed by the machine identity
    pc, mem, \* where the pass is; a credential created and not yet saved
    plan,    \* the fingerprints that this pass may write
    failed,  \* an adapter of this pass was not ready
    faulty,  \* ghost: this pass met a fault
    report,  \* what the last pass reported
    made, faults, events

links == <<refs, fields, sandbox>>
services == <<live, objs, vault, links, model, boot>>
canonical == <<mode, env, mark, invite, machine>>
pass == <<pc, mem, plan, failed, faulty, report>>
vars == <<services, canonical, pass, made, faults, events>>

Fresh == made + 1
CopyOf(s) == env[s]

ProvisioningInit ==
    /\ mode \in Modes
    /\ live = [c \in Creds |-> IF c = "board" /\ mode = "given" THEN {1} ELSE {}]
    /\ env = [k \in Creds \cup OperatorKeys |->
                IF k \in OperatorKeys \/ (k = "board" /\ mode = "given") THEN 1 ELSE 0]
    /\ objs = [o \in Named |-> 0]
    /\ refs = [h \in DOMAIN Refers |-> {}]
    /\ fields = {} /\ sandbox = FALSE
    /\ vault = [s \in Copies |-> 0] /\ mark = [s \in Copies |-> 0]
    /\ model \in {"none", "conflict"}
    /\ boot = IF mode = "given" THEN "complete" ELSE "pending"
    /\ invite = FALSE /\ machine = FALSE
    /\ pc = "idle" /\ mem = 0 /\ plan = {}
    /\ failed = FALSE /\ faulty = FALSE /\ report = "none"
    /\ made = 1 /\ faults = 0 /\ events = 0

-----------------------------------------------------------------------------
(* A request and its failures.                                             *)

\* An adapter turns an exception into a row that is not ready and the pass
\* goes on with the next adapter; the bootstrap of the board identity is not
\* guarded and ends the pass.
Mattermost == {"admin", "admin_post", "team", "user", "token", "recover", "save_bot", "hook", "bot_check"}
Router == {"key", "save_key", "minimax", "mark_minimax", "model", "model_add", "route",
           "router_row"}
Bootstrap == {"boot_key", "boot_try", "boot_save"}
Board == {"board", "sign_up", "accept", "board_key", "save_board"}
Paperclip == {"runtime", "company", "responsible", "project", "workspace", "policy",
              "secrets", "mark_secret", "definition", "user_secret", "mark_user", "skill",
              "profile_agent", "bind_profile", "place", "bind_project", "service_agent",
              "bind_service", "agent_key", "agent_renew", "agent_mint",
              "save_agent", "paperclip_row"}

NextAdapter ==
    CASE pc \in Mattermost -> "kestra"
      [] pc = "kestra"     -> "key"
      [] pc \in Router     -> "board"
      [] pc \in Paperclip  -> "render"
      [] OTHER             -> "idle"

EndIfIdle == report' = IF pc' = "idle" THEN "incomplete" ELSE report

Answered(next) ==
    pc' = next /\ UNCHANGED <<plan, failed, faulty, report, faults>>

Unanswered ==
    /\ faults < MaxFaults /\ faults' = faults + 1
    /\ faulty' = TRUE /\ failed' = TRUE
    /\ pc' = NextAdapter /\ EndIfIdle
    /\ UNCHANGED plan

\* A request that took effect: its answer arrives, or is lost.
Sent(next) == Answered(next) \/ Unanswered

Issue(c) == live' = [live EXCEPT ![c] = @ \cup {Fresh}] /\ made' = Fresh

\* POST of a credential: its value is known only from the answer.
Mint(c, next) ==
    /\ Issue(c)
    /\ \/ Answered(next) /\ mem' = Fresh
       \/ Unanswered /\ mem' = 0
    /\ UNCHANGED <<objs, vault, links, model, boot, canonical, events>>

Revoke(c, next) ==
    /\ \E t \in live[c] : live' = [live EXCEPT ![c] = @ \ {t}]
    /\ Sent(next)
    /\ UNCHANGED <<objs, vault, links, model, boot, canonical, mem, made, events>>

Save(c, next) ==
    /\ env' = [env EXCEPT ![c] = mem]
    /\ mem' = 0
    /\ Answered(next)
    /\ UNCHANGED <<services, mode, mark, invite, machine, made, events>>

GoTo(next) == Answered(next) /\ UNCHANGED <<services, canonical, mem, made, events>>

\* What an adapter finds is only reported.
Reported(ok, next) ==
    /\ pc' = next
    /\ failed' = (failed \/ ~ok)
    /\ UNCHANGED <<services, canonical, mem, plan, faulty, report, made, faults, events>>

\* The pass ends with an error.
Ended ==
    /\ pc' = "idle" /\ failed' = TRUE /\ report' = "incomplete" /\ mem' = 0
    /\ UNCHANGED <<services, canonical, plan, faulty, made, faults, events>>

\* MUTANT: an object is created without looking for it.
Ensure_Blind(o, next) ==
    /\ objs' = [objs EXCEPT ![o] = @ + 1] /\ objs[o] < 2
    /\ Sent(next)
    /\ UNCHANGED <<live, vault, links, model, boot, canonical, mem, made, events>>

\* Find an object by its name or create it.
Ensure(o, next) ==
    \/ objs[o] # 0 /\ GoTo(next)
    \/ /\ objs[o] = 0
       /\ objs' = [objs EXCEPT ![o] = 1]
       /\ Sent(next)
       /\ UNCHANGED <<live, vault, links, model, boot, canonical, mem, made, events>>

Stale(s) == vault[s] = 0 \/ mark[s] # CopyOf(s)

\* The copy is created or replaced when it is missing or its fingerprint is
\* of another value.
Copy(s, next) ==
    /\ vault' = [vault EXCEPT ![s] = CopyOf(s)]
    /\ Sent(next)
    /\ UNCHANGED <<live, objs, links, model, boot, canonical, mem, made, events>>

SaveMark(s, next) ==
    /\ mark' = [mark EXCEPT ![s] = CopyOf(s)]
    /\ Answered(next)
    /\ UNCHANGED <<services, mode, env, invite, machine, mem, made, events>>

\* A field is set when it differs.
Set(f, next) ==
    IF f \in fields THEN GoTo(next)
    ELSE /\ fields' = fields \cup {f}
         /\ Sent(next)
         /\ UNCHANGED <<live, objs, vault, refs, sandbox, model, boot, canonical, mem,
                        made, events>>

\* The fingerprints that a pass may write: of secrets that had a value when it
\* began, or that the file has already.
CanonicalMutationPlan == {"minimax"} \cup {s \in Copies : env[s] # 0 \/ mark[s] # 0}

-----------------------------------------------------------------------------
(* A pass.  The prerequisites of the Paperclip group are called with the   *)
(* board key, so that the whole stage does not reach the pass without it;  *)
(* another group of the stage begins with the pass.                        *)

Begin(group) ==
    /\ pc = "idle"
    /\ group = "all" => env["board"] # 0
    /\ pc' = "admin" /\ mem' = 0
    /\ plan' = CanonicalMutationPlan
    /\ failed' = FALSE /\ faulty' = FALSE /\ report' = "none"
    /\ UNCHANGED <<services, canonical, made, faults, events>>

\* The keys of 9Router alone, when the operator asks for it.
BeginBootstrap ==
    /\ pc = "idle"
    /\ pc' = "boot_key" /\ mem' = 0
    /\ plan' = CanonicalMutationPlan
    /\ failed' = FALSE /\ faulty' = FALSE /\ report' = "none"
    /\ UNCHANGED <<services, canonical, made, faults, events>>

\* A key that is there keeps the value that is saved for it.
BootstrapKey ==
    /\ pc = "boot_key"
    /\ IF live["client"] = {} THEN Mint("client", "boot_try")
       ELSE /\ mem' \in IF env["client"] # 0 THEN {env["client"]} ELSE live["client"]
            /\ Answered("boot_try")
            /\ UNCHANGED <<services, canonical, made, events>>

\* The value is tried before it is saved.
BootstrapTry ==
    /\ pc = "boot_try"
    /\ IF mem \in live["client"] THEN GoTo("boot_save") ELSE Ended

BootstrapSave ==
    /\ pc = "boot_save"
    /\ env' = [env EXCEPT !["client"] = mem]
    /\ pc' = "idle" /\ mem' = 0 /\ report' = "keys"
    /\ UNCHANGED <<services, mode, mark, invite, machine, plan, failed, faulty, made,
                   faults, events>>

\* Mattermost.  The password of the first user is saved before it is used.
AdminPassword ==
    /\ pc = "admin"
    /\ IF objs["admin"] # 0 THEN GoTo("team")
       ELSE IF env["admin"] # 0 THEN GoTo("admin_post")
       ELSE /\ env' = [env EXCEPT !["admin"] = Fresh] /\ made' = Fresh
            /\ Answered("admin_post")
            /\ UNCHANGED <<services, mode, mark, invite, machine, mem, events>>

AdminUser ==
    /\ pc = "admin_post"
    /\ objs' = [objs EXCEPT !["admin"] = 1]
    /\ live' = [live EXCEPT !["admin"] = {env["admin"]}]
    /\ Sent("team")
    /\ UNCHANGED <<vault, links, model, boot, canonical, mem, made, events>>

Team == pc = "team" /\ Ensure("team", "user")

\* A bot that was just created gets a token.
BotUser ==
    /\ pc = "user"
    /\ IF objs["bot_user"] = 0 THEN Ensure("bot_user", "token") ELSE GoTo("recover")

\* MUTANT: only a token that is listed is replaced.
RecoverToken_OnlyListed ==
    /\ pc = "recover"
    /\ IF env["bot"] = 0 /\ live["bot"] # {} THEN Revoke("bot", "token") ELSE GoTo("hook")

\* A bot whose token is not known loses it and gets another.
RecoverToken ==
    /\ pc = "recover"
    /\ IF env["bot"] # 0 THEN GoTo("hook")
       ELSE IF live["bot"] # {} THEN Revoke("bot", "token") ELSE GoTo("token")

MintBot == pc = "token" /\ Mint("bot", "save_bot")

SaveBot == pc = "save_bot" /\ Save("bot", "hook")

Webhook == pc = "hook" /\ Ensure("webhook", "bot_check")

\* MUTANT: a token is taken for good.
BotCheck_Trusting ==
    /\ pc = "bot_check"
    /\ GoTo("kestra")

\* The token is tried; a bad one is only reported.
BotCheck == pc = "bot_check" /\ Reported(env["bot"] \in live["bot"], "kestra")

\* Kestra's shared principal is only tried.
KestraRow == pc = "kestra" /\ GoTo("key")

\* 9Router shows the value of a key that it lists.
RouterKey ==
    /\ pc = "key"
    /\ IF live["client"] = {} THEN Mint("client", "save_key")
       ELSE /\ mem' \in live["client"]
            /\ Answered("save_key")
            /\ UNCHANGED <<services, canonical, made, events>>

SaveKey == pc = "save_key" /\ Save("client", "minimax")

\* MUTANT: a connection that is there is taken to hold the current key.
Minimax_OnlyMissing ==
    /\ pc = "minimax"
    /\ IF vault["minimax"] = 0 THEN Copy("minimax", "mark_minimax")
       ELSE GoTo("mark_minimax")

Minimax ==
    /\ pc = "minimax"
    /\ IF Stale("minimax") THEN Copy("minimax", "mark_minimax") ELSE GoTo("model")

MarkMinimax == pc = "mark_minimax" /\ SaveMark("minimax", "model")

\* Conflicting records are deleted before the exact one is added.
DeleteModels ==
    /\ pc = "model"
    /\ IF model = "exact" THEN GoTo("route")
       ELSE /\ model' = "none"
            /\ Sent("model_add")
            /\ UNCHANGED <<live, objs, vault, links, boot, canonical, mem, made, events>>

AddModel ==
    /\ pc = "model_add"
    /\ model' = "exact"
    /\ Sent("route")
    /\ UNCHANGED <<live, objs, vault, links, boot, canonical, mem, made, events>>

\* The key, the connection and the route are tried.
Route == pc = "route" /\ GoTo("router_row")

RouterReady == env["client"] \in live["client"] /\ ~Stale("minimax") /\ model = "exact"

RouterRow == pc = "router_row" /\ Reported(RouterReady, "board")

-----------------------------------------------------------------------------
(* The board identity of Paperclip.                                        *)

\* The owner is asked to authorise in a browser.
Handoff == Reported(FALSE, "render")

BoardIdentity ==
    /\ pc = "board"
    /\ CASE env["board"] # 0 -> GoTo("runtime")
         [] env["board"] = 0 /\ boot # "complete" /\ ~invite ->
              /\ invite' = TRUE
              /\ Answered("board")
              /\ UNCHANGED <<services, mode, env, mark, machine, mem, made, events>>
         [] env["board"] = 0 /\ boot # "complete" /\ invite ->
              IF mode = "machine"
              THEN /\ machine' = TRUE
                   /\ Answered("sign_up")
                   /\ UNCHANGED <<services, mode, env, mark, invite, mem, made, events>>
              ELSE Handoff
         [] OTHER ->
              IF mode = "machine" /\ machine THEN GoTo("board_key") ELSE Handoff

\* The address can be signed up once.
SignUp ==
    /\ pc = "sign_up"
    /\ IF boot = "pending"
       THEN /\ boot' = "signed_up"
            /\ Sent("accept")
            /\ UNCHANGED <<live, objs, vault, links, model, canonical, mem, made, events>>
       ELSE Ended

Accept ==
    /\ pc = "accept"
    /\ boot' = "complete"
    /\ Sent("board_key")
    /\ UNCHANGED <<live, objs, vault, links, model, canonical, mem, made, events>>

BoardKey == pc = "board_key" /\ Mint("board", "save_board")

SaveBoard == pc = "save_board" /\ Save("board", "runtime")

-----------------------------------------------------------------------------
(* The other Paperclip objects.                                            *)

\* Secrets are encrypted in strict mode, or Paperclip is restarted with it.
RuntimeSecurity == pc = "runtime" /\ Set("runtime", "company")

Company == pc = "company" /\ Ensure("company", "responsible")

\* Somebody must be responsible for what agents of the company do.
ResponsibleUser == pc = "responsible" /\ Set("responsible", "project")

Project == pc = "project" /\ Ensure("project", "workspace")
Workspace == pc = "workspace" /\ Ensure("workspace", "policy")
WorkspacePolicy == pc = "policy" /\ Set("policy", "secrets")

\* The company secrets are gone through in order.
Bound(s) == s \notin OperatorKeys /\ env[s] # 0 /\ Stale(s)
Due(s) == Bound(s) /\ (s = "client" => ~Bound("bot"))

CompanySecret(s) == pc = "secrets" /\ Due(s) /\ Copy(s, "mark_secret")

\* The canonical file refuses the fingerprint of a secret that this pass made.
SecretMark(s) ==
    /\ pc = "mark_secret" /\ Due(s)
    /\ IF s \in plan THEN SaveMark(s, "secrets") ELSE Reported(FALSE, "render")

SecretsDone ==
    pc = "secrets" /\ (\A s \in Copies : ~Bound(s)) /\ GoTo("definition")

\* The user secret of the owner.
Definition == pc = "definition" /\ Ensure("definition", "user_secret")

UserSecret ==
    /\ pc = "user_secret"
    /\ IF Stale("github") THEN Copy("github", "mark_user") ELSE GoTo("skill")

UserSecretMark == pc = "mark_user" /\ SaveMark("github", "skill")

Skill == pc = "skill" /\ Ensure("skill", "profile_agent")

\* The references that an object should have: those to the secrets there are.
Wanted(h) == {s \in Refers[h] : env[s] # 0 /\ vault[s] # 0}

Bind(h, next) ==
    IF refs[h] = Wanted(h) THEN GoTo(next)
    ELSE /\ refs' = [refs EXCEPT ![h] = Wanted(h)]
         /\ Sent(next)
         /\ UNCHANGED <<live, objs, vault, fields, sandbox, model, boot, canonical, mem, made, events>>

ProfileAgent == pc = "profile_agent" /\ Ensure("profile_agent", "bind_profile")
BindProfile == pc = "bind_profile" /\ Bind("profile_agent", "place")

\* The agent is placed in the environment if its reconciler has made that.
PlaceAgent ==
    /\ pc = "place"
    /\ IF sandbox THEN Set("place", "bind_project") ELSE GoTo("bind_project")

BindProject == pc = "bind_project" /\ Bind("project", "service_agent")

\* It is created as the gateway to Hermes, or made one.
ServiceAgent ==
    /\ pc = "service_agent"
    /\ IF objs["service_agent"] # 0 THEN Set("gateway", "bind_service")
       ELSE /\ objs' = [objs EXCEPT !["service_agent"] = 1]
            /\ fields' = fields \cup {"gateway"}
            /\ Sent("bind_service")
            /\ UNCHANGED <<live, vault, refs, sandbox, model, boot, canonical, mem, made,
                           events>>

BindService == pc = "bind_service" /\ Bind("service_agent", "agent_key")

\* The saved key is tried; when that fails, for whatever reason, it is no
\* longer relied on.
AgentKey ==
    /\ pc = "agent_key"
    /\ \/ env["agent"] \in live["agent"] /\ GoTo("paperclip_row")
       \/ env["agent"] \notin live["agent"] /\ GoTo("agent_renew")
       \/ /\ faults < MaxFaults /\ faults' = faults + 1 /\ faulty' = TRUE
          /\ pc' = "agent_renew"
          /\ UNCHANGED <<services, canonical, mem, plan, failed, report, made, events>>

\* MUTANT: the key of that name is left active.
AgentRenew_Keeps == pc = "agent_renew" /\ GoTo("agent_mint")

\* The active key of that name is revoked before another is created.
AgentRenew ==
    /\ pc = "agent_renew"
    /\ IF live["agent"] # {} THEN Revoke("agent", "agent_mint") ELSE GoTo("agent_mint")

AgentMint == pc = "agent_mint" /\ Mint("agent", "save_agent")

SaveAgent == pc = "save_agent" /\ Save("agent", "paperclip_row")

\* What the status of Paperclip is made of.
PaperclipReady ==
    /\ env["agent"] # 0
    /\ {"responsible", "policy", "place"} \subseteq fields /\ sandbox
    /\ \A s \in Copies : env[s] # 0 => vault[s] # 0
    /\ refs["profile_agent"] = Refers["profile_agent"]
    /\ vault["github"] # 0

PaperclipRow == pc = "paperclip_row" /\ Reported(PaperclipReady, "render")

\* The projections are rendered and the rows summed up.
Render ==
    /\ pc = "render"
    /\ pc' = "idle"
    /\ report' = IF failed THEN "incomplete" ELSE "ok"
    /\ UNCHANGED <<services, canonical, mem, plan, failed, faulty, made, faults, events>>

-----------------------------------------------------------------------------
\* A request fails, or a read does.
NoAnswer ==
    /\ pc # "idle"
    /\ Unanswered
    /\ mem' = 0
    /\ UNCHANGED <<services, canonical, made, events>>

Kill ==
    /\ pc # "idle" /\ faults < MaxFaults /\ faults' = faults + 1
    /\ pc' = "idle" /\ mem' = 0
    /\ failed' = TRUE /\ faulty' = TRUE /\ report' = "incomplete"
    /\ UNCHANGED <<services, canonical, plan, made, events>>

\* Between two passes a service is installed anew.
MattermostReset ==
    /\ live' = [live EXCEPT !["admin"] = {}, !["bot"] = {}]
    /\ objs' = [o \in Named |->
                  IF o \in {"admin", "team", "bot_user", "webhook"} THEN 0 ELSE objs[o]]
    /\ UNCHANGED <<vault, links, model, boot, canonical, made>>

RouterReset ==
    /\ live' = [live EXCEPT !["client"] = {}]
    /\ vault' = [vault EXCEPT !["minimax"] = 0]
    /\ model' = "none"
    /\ UNCHANGED <<objs, links, boot, canonical, made>>

\* The owner revokes the service agent's key.
KeyRevoked ==
    /\ live' = [live EXCEPT !["agent"] = {}]
    /\ UNCHANGED <<objs, vault, links, model, boot, canonical, made>>

\* Somebody changes a field in Paperclip.
FieldChanged ==
    /\ \E f \in fields : fields' = fields \ {f}
    /\ UNCHANGED <<live, objs, vault, refs, sandbox, model, boot, canonical, made>>

\* The operator replaces the MiniMax key or the GitHub token.
KeyChanged ==
    /\ \E k \in OperatorKeys : env' = [env EXCEPT ![k] = Fresh]
    /\ made' = Fresh
    /\ UNCHANGED <<services, mode, mark, invite, machine>>

Event ==
    /\ pc = "idle" /\ events < MaxEvents /\ events' = events + 1
    /\ MattermostReset \/ RouterReset \/ KeyRevoked \/ FieldChanged \/ KeyChanged
    /\ report' = "none"
    /\ UNCHANGED <<pc, mem, plan, failed, faulty, faults>>

\* The Daytona reconciler makes the environment in Paperclip.
EnvironmentMade ==
    /\ pc = "idle" /\ ~sandbox
    /\ sandbox' = TRUE
    /\ UNCHANGED <<live, objs, vault, refs, fields, model, boot, canonical, pass, made,
                   faults, events>>

\* The intended owner redeems the invite.
Redeem ==
    /\ pc = "idle" /\ invite /\ mode = "human" /\ boot = "pending"
    /\ boot' = "complete"
    /\ UNCHANGED <<live, objs, vault, links, model, canonical, pass, made, faults, events>>

Step ==
    \/ BootstrapKey \/ BootstrapTry \/ BootstrapSave \/ AdminPassword \/ AdminUser \/ Team
    \/ BotUser \/ RecoverToken \/ MintBot \/ SaveBot \/ Webhook \/ BotCheck \/ KestraRow
    \/ RouterKey \/ SaveKey \/ Minimax \/ MarkMinimax \/ DeleteModels \/ AddModel \/ Route
    \/ RouterRow
    \/ BoardIdentity \/ SignUp \/ Accept \/ BoardKey \/ SaveBoard
    \/ RuntimeSecurity \/ Company \/ ResponsibleUser \/ Project \/ Workspace \/ WorkspacePolicy
    \/ \E s \in Copies : CompanySecret(s) \/ SecretMark(s)
    \/ SecretsDone \/ Definition \/ UserSecret \/ UserSecretMark \/ Skill
    \/ ProfileAgent \/ BindProfile \/ PlaceAgent \/ BindProject
    \/ ServiceAgent \/ BindService
    \/ AgentKey \/ AgentRenew \/ AgentMint \/ SaveAgent \/ PaperclipRow \/ Render

Groups == {"all", "kestra"}

ProvisioningNext ==
    \/ \E g \in Groups : Begin(g)
    \/ BeginBootstrap \/ Step \/ NoAnswer \/ Kill \/ Event \/ EnvironmentMade \/ Redeem

ProvisioningSpec == ProvisioningInit /\ [][ProvisioningNext]_vars

\* A pass that can go on does, and the operator repeats the stage, whatever
\* passes for the keys of 9Router come between.
ProvisioningFairSpec ==
    /\ ProvisioningSpec
    /\ WF_vars(Step)
    /\ []<><<\E g \in Groups : Begin(g)>>_vars

-----------------------------------------------------------------------------
(* Properties.                                                             *)

\* The values of the variables.  (server-provision.py)
ProvisioningTypeOK ==
    /\ live \in [Creds -> SUBSET Nat] /\ objs \in [Named -> Nat]
    /\ vault \in [Copies -> Nat] /\ mark \in [Copies -> Nat]
    /\ refs \in [DOMAIN Refers -> SUBSET Copies]
    /\ model \in {"none", "exact", "conflict"}
    /\ boot \in {"pending", "signed_up", "complete"}
    /\ mode \in Modes
    /\ fields \subseteq Fields /\ plan \subseteq Copies
    /\ env \in [Creds \cup OperatorKeys -> Nat]
    /\ {sandbox, invite, machine, failed, faulty} \subseteq BOOLEAN
    /\ pc \in Bootstrap \cup Mattermost \cup Router \cup Board \cup Paperclip
              \cup {"idle", "kestra", "render"}
    /\ mem \in Nat /\ report \in {"none", "ok", "keys", "incomplete"}
    /\ {made, faults, events} \subseteq Nat

\* Everything that the pass is responsible for works: the canonical
\* credentials are active, the copies hold what they are copies of, the
\* objects are there and refer to the secrets.
Usable ==
    /\ \A c \in Creds : env[c] \in live[c]
    /\ \A s \in Copies : vault[s] = CopyOf(s)
    /\ \A o \in Named : objs[o] # 0
    /\ refs = Refers /\ fields = Fields /\ sandbox
    /\ model = "exact"

\* A pass that reports success has left everything usable, whatever the
\* passes before it had left half done; one that bootstraps the keys of 9Router
\* has saved a key that works.  (execute, bootstrap_ninerouter_keys)
ReadyMeansUsable ==
    /\ report = "ok" => Usable
    /\ report = "keys" => env["client"] \in live["client"]

\* However often a creation was repeated because its answer was lost, a
\* managed name never has two active credentials or two objects; the board
\* key is the exception.  (mattermost, ensure_ninerouter_key, paperclip:
\* "never leave a duplicate unknown credential active")
OneOfEachName ==
    /\ \A c \in Creds \ {"board"} : Cardinality(live[c]) <= 1
    /\ \A o \in Named : objs[o] <= 1

\* The fingerprint that decides whether a value is copied again is never that
\* of a value which the other service does not hold.  (ensure_minimax_upstream,
\* ensure_paperclip_company_secret)
MarkIsTruthful ==
    \A s \in Copies : vault[s] # 0 /\ mark[s] = CopyOf(s) => vault[s] = CopyOf(s)

\* When everything is usable, a pass that meets no fault changes no service.
\* (every adapter's read before create)
RepeatChangesNothing ==
    [][pc # "idle" /\ Usable /\ ~faulty => services' = services]_vars

\* What a pass only reports, for ever: a bot token that is saved and not
\* active, a machine identity that was signed up and has not redeemed the
\* invite, a board that only a person can open, and an environment that its
\* reconciler has not made.
NeedsOperator ==
    \/ mode = "human" \/ ~sandbox
    \/ env["bot"] # 0 /\ env["bot"] \notin live["bot"]
    \/ boot = "signed_up"

\* When the faults and events are over, repeating the stage makes everything
\* usable, unless it ends in one of those states.  (execute, provision.sh)
PassesConverge == <>[](Usable \/ NeedsOperator)

=============================================================================
