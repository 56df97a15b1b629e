------------------------ MODULE ProvisioningProofs ------------------------
(***************************************************************************)
(* Proofs about Provisioning.                                              *)
(*                                                                         *)
(* A name has one credential and one object because a pass creates one     *)
(* only where it has just seen none.  A mark tells the truth because       *)
(* values are numbered in the order of their creation and are copied       *)
(* before they are marked, so that a mark which has caught up with the     *)
(* canonical value leaves the copy no other value.  A pass that reports    *)
(* success has gone through every adapter without a failure, and each      *)
(* step leaves what the ones before it achieved.                           *)
(***************************************************************************)
EXTENDS Provisioning, FiniteSetTheorems, TLAPS

-----------------------------------------------------------------------------
(* Types, and what a lost answer does to a pass.                           *)

\* Where a pass can be.
Pcs == Bootstrap \cup Mattermost \cup Router \cup Board \cup Paperclip
              \cup {"idle", "kestra", "render"}

\* The types of what a pass keeps about itself.
ControlTyped ==
    /\ pc \in Pcs /\ plan \subseteq Copies /\ failed \in BOOLEAN /\ faulty \in BOOLEAN
    /\ report \in {"none", "ok", "keys", "incomplete"}
    /\ faults \in Nat /\ events \in Nat

\* Where a pass goes on after a request without an answer: at the next adapter,
\* or nowhere.
Resumes == {"kestra", "key", "board", "render", "idle"}

\* What a request without an answer does to the pass.
Lost ==
    /\ failed' = TRUE /\ faulty' = TRUE /\ plan' = plan /\ faults' = faults + 1
    /\ pc' \in Resumes
    /\ report' = report \/ report' = "incomplete"

\* A lost answer leaves the adapter.
LEMMA UnansweredIs == Unanswered => Lost
BY DEF Unanswered, Lost, NextAdapter, EndIfIdle, Resumes

\* Each of these is a place in a pass.
LEMMA ResumesArePcs == Resumes \subseteq Pcs
BY DEF Resumes, Pcs, Router, Board

\* The control stays typed when an answer is lost, ...
LEMMA LostTyped ==
    ASSUME ControlTyped, Unanswered, events' = events
    PROVE  ControlTyped'
BY UnansweredIs, ResumesArePcs DEF Lost, ControlTyped

\* ... when a request takes effect, answered or not, ...
LEMMA SentTyped ==
    ASSUME ControlTyped, NEW next \in Pcs, Sent(next), events' = events
    PROVE  ControlTyped'
<1>1. CASE Answered(next)
  BY <1>1 DEF Answered, ControlTyped
<1>2. CASE Unanswered
  BY <1>2, UnansweredIs, ResumesArePcs DEF Lost, ControlTyped
<1> QED  BY <1>1, <1>2 DEF Sent

\* ... and when it is answered.
LEMMA AnsweredTyped ==
    ASSUME ControlTyped, NEW next \in Pcs, Answered(next), events' = events
    PROVE  ControlTyped'
BY DEF Answered, ControlTyped

\* The types of the services and the canonical file.
DataTyped ==
    /\ live \in [Creds -> SUBSET Nat] /\ objs \in [Named -> Nat]
    /\ vault \in [Copies -> Nat] /\ mark \in [Copies -> Nat]
    /\ refs \in [DOMAIN Refers -> SUBSET Copies]
    /\ model \in {"none", "exact", "conflict"}
    /\ boot \in {"pending", "signed_up", "complete"}
    /\ mode \in Modes
    /\ fields \subseteq Fields
    /\ env \in [Creds \cup OperatorKeys -> Nat]
    /\ {sandbox, invite, machine} \subseteq BOOLEAN
    /\ mem \in Nat /\ made \in Nat

\* The plan of a pass names copies.
LEMMA PlanIsOfCopies == CanonicalMutationPlan \subseteq Copies
BY DEF CanonicalMutationPlan, Copies

-----------------------------------------------------------------------------
(* The steps by adapter.                                                   *)

\* The steps of a pass, adapter by adapter: the bootstrap of the keys of 9Router, ...
BootstrapStep ==
    \/ BootstrapKey
    \/ BootstrapTry
    \/ BootstrapSave

\* ... Mattermost and Kestra, ...
MattermostStep ==
    \/ AdminPassword
    \/ AdminUser
    \/ Team
    \/ BotUser
    \/ RecoverToken
    \/ MintBot
    \/ SaveBot
    \/ Webhook
    \/ BotCheck
    \/ KestraRow

\* ... 9Router, ...
RouterStep ==
    \/ RouterKey
    \/ SaveKey
    \/ Minimax
    \/ MarkMinimax
    \/ DeleteModels
    \/ AddModel
    \/ Route
    \/ RouterRow

\* ... the board identity of Paperclip, ...
BoardStep ==
    \/ BoardIdentity
    \/ SignUp
    \/ Accept
    \/ BoardKey
    \/ SaveBoard

\* ... its company and secrets, ...
CompanyStep ==
    \/ RuntimeSecurity
    \/ Company
    \/ ResponsibleUser
    \/ Project
    \/ Workspace
    \/ WorkspacePolicy
    \/ \E s \in Copies : CompanySecret(s) \/ SecretMark(s)
    \/ SecretsDone
    \/ Definition
    \/ UserSecret
    \/ UserSecretMark
    \/ Skill

\* ... and its agents, with the end of the pass.
AgentStep ==
    \/ ProfileAgent
    \/ BindProfile
    \/ PlaceAgent
    \/ BindProject
    \/ ServiceAgent
    \/ BindService
    \/ AgentKey
    \/ AgentRenew
    \/ AgentMint
    \/ SaveAgent
    \/ PaperclipRow
    \/ Render

\* There are no other steps.
LEMMA StepIsOf ==
    Step => \/ BootstrapStep \/ MattermostStep \/ RouterStep \/ BoardStep
            \/ CompanyStep \/ AgentStep
BY Zenon DEF Step, BootstrapStep, MattermostStep, RouterStep, BoardStep, CompanyStep, AgentStep
-----------------------------------------------------------------------------
(* What the operations that the adapters are made of do.                   *)

\* A request went on to the next one, or its adapter was left.
Moved(next) ==
    \/ pc' = next /\ UNCHANGED <<plan, failed, faulty, report, faults>>
    \/ Lost

\* Where the pass goes then.
Reaches(next) == pc' = next \/ pc' \in Resumes

\* A lost answer leads to where the pass goes on.
LEMMA LostReaches == Lost => pc' \in Resumes
BY DEF Lost

\* A request leads to the next one or to where the pass goes on.
LEMMA MovedReaches == ASSUME NEW next, Moved(next) PROVE Reaches(next)
BY DEF Moved, Lost, Reaches

\* A request that took effect moves the pass, ...
LEMMA SentIs == ASSUME NEW next, Sent(next) PROVE Moved(next)
BY UnansweredIs DEF Sent, Answered, Moved

\* ... as does a step that changes nothing else.
LEMMA GoToIs ==
    ASSUME NEW next, GoTo(next)
    PROVE  Moved(next) /\ UNCHANGED <<services, canonical, mem, made>>
BY DEF GoTo, Answered, Moved

\* An object that is looked for is there afterwards; nothing else changes.
LEMMA EnsureIs ==
    ASSUME DataTyped, NEW o \in Named, NEW next, Ensure(o, next)
    PROVE  /\ Moved(next)
           /\ objs' \in [Named -> Nat]
           /\ objs[o] # 0 => objs' = objs
           /\ objs[o] = 0 => objs'[o] = 1
           /\ \A p \in Named : p # o => objs'[p] = objs[p]
           /\ UNCHANGED <<live, vault, links, model, boot, canonical, mem, made>>
<1>1. CASE objs[o] # 0
  BY <1>1, GoToIs DEF Ensure, services, DataTyped
<1>2. CASE objs[o] = 0
  <2>1. /\ objs' = [objs EXCEPT ![o] = 1] /\ Sent(next)
        /\ UNCHANGED <<live, vault, links, model, boot, canonical, mem, made>>
    BY <1>2 DEF Ensure
  <2> QED  BY <1>2, <2>1, SentIs DEF DataTyped
<1> QED  BY <1>1, <1>2 DEF DataTyped

\* A credential that is created is active, and known if the answer arrives.
LEMMA MintIs ==
    ASSUME DataTyped, NEW c \in Creds, NEW next, Mint(c, next)
    PROVE  /\ \/ pc' = next /\ mem' = Fresh /\ UNCHANGED <<plan, failed, faulty, report, faults>>
              \/ Lost /\ mem' = 0
           /\ made' = Fresh /\ live' \in [Creds -> SUBSET Nat]
           /\ live'[c] = live[c] \cup {Fresh}
           /\ \A d \in Creds : d # c => live'[d] = live[d]
           /\ UNCHANGED <<objs, vault, links, model, boot, canonical>>
BY UnansweredIs DEF Mint, Answered, Issue, DataTyped, Fresh

\* One credential that is revoked is active no more.
LEMMA RevokeIs ==
    ASSUME DataTyped, NEW c \in Creds, NEW next, Revoke(c, next)
    PROVE  /\ Moved(next)
           /\ live' \in [Creds -> SUBSET Nat]
           /\ \E t \in live[c] : live'[c] = live[c] \ {t}
           /\ \A d \in Creds : d # c => live'[d] = live[d]
           /\ UNCHANGED <<objs, vault, links, model, boot, canonical, mem, made>>
<1>1. PICK t \in live[c] : live' = [live EXCEPT ![c] = @ \ {t}]
  BY DEF Revoke
<1> QED  BY <1>1, SentIs DEF Revoke, DataTyped

\* What is saved is what the answer brought.
LEMMA SaveIs ==
    ASSUME DataTyped, NEW c \in Creds, NEW next, Save(c, next)
    PROVE  /\ Moved(next)
           /\ env' \in [Creds \cup OperatorKeys -> Nat]
           /\ env'[c] = mem /\ mem' = 0
           /\ \A d \in Creds \cup OperatorKeys : d # c => env'[d] = env[d]
           /\ UNCHANGED <<services, mode, mark, invite, machine, made>>
BY DEF Save, Answered, Moved, DataTyped

\* A copy holds the canonical value.
LEMMA CopyIs ==
    ASSUME DataTyped, NEW s \in Copies, NEW next, Copy(s, next)
    PROVE  /\ Moved(next)
           /\ vault' \in [Copies -> Nat]
           /\ vault'[s] = env[s]
           /\ \A d \in Copies : d # s => vault'[d] = vault[d]
           /\ UNCHANGED <<live, objs, links, model, boot, canonical, mem, made>>
BY SentIs DEF Copy, CopyOf, DataTyped, Copies, Creds, OperatorKeys

\* A mark is of the canonical value.
LEMMA SaveMarkIs ==
    ASSUME DataTyped, NEW s \in Copies, NEW next, SaveMark(s, next)
    PROVE  /\ Moved(next)
           /\ mark' \in [Copies -> Nat]
           /\ mark'[s] = env[s]
           /\ \A d \in Copies : d # s => mark'[d] = mark[d]
           /\ UNCHANGED <<services, mode, env, invite, machine, mem, made>>
BY DEF SaveMark, CopyOf, Answered, Moved, DataTyped, Copies, Creds, OperatorKeys

\* A field that is set has the desired value.
LEMMA SetIs ==
    ASSUME DataTyped, NEW f \in Fields, NEW next, Set(f, next)
    PROVE  /\ Moved(next)
           /\ fields' = fields \cup {f}
           /\ UNCHANGED <<live, objs, vault, refs, sandbox, model, boot, canonical, mem, made>>
<1>1. CASE f \in fields
  BY <1>1, GoToIs DEF Set, services, links
<1>2. CASE f \notin fields
  BY <1>2, SentIs DEF Set
<1> QED  BY <1>1, <1>2

\* What refers to company secrets.
LEMMA HoldersAre == DOMAIN Refers = {"profile_agent", "project", "service_agent"}
BY DEF Refers

\* An object that is bound has the references that it should have.
LEMMA BindIs ==
    ASSUME DataTyped, NEW h \in DOMAIN Refers, NEW next, Bind(h, next)
    PROVE  /\ Moved(next)
           /\ refs' \in [DOMAIN Refers -> SUBSET Copies]
           /\ refs'[h] = Wanted(h)
           /\ \A d \in DOMAIN Refers : d # h => refs'[d] = refs[d]
           /\ UNCHANGED <<live, objs, vault, fields, sandbox, model, boot, canonical, mem, made>>
<1>1. CASE refs[h] = Wanted(h)
  BY <1>1, GoToIs DEF Bind, services, links, DataTyped
<1>2. CASE refs[h] # Wanted(h)
  <2>1. /\ refs' = [refs EXCEPT ![h] = Wanted(h)] /\ Sent(next)
        /\ UNCHANGED <<live, objs, vault, fields, sandbox, model, boot, canonical, mem, made>>
    BY <1>2 DEF Bind
  <2>2. Wanted(h) \subseteq Copies
    BY DEF Wanted, Refers, Copies
  <2> QED  BY <2>1, <2>2, SentIs DEF DataTyped
<1> QED  BY <1>1, <1>2

\* The service agent is there, and is the gateway, when the step is over.
LEMMA ServiceAgentIs ==
    ASSUME DataTyped, ServiceAgent
    PROVE  /\ pc = "service_agent" /\ Moved("bind_service")
           /\ objs' \in [Named -> Nat]
           /\ objs["service_agent"] # 0 => objs' = objs
           /\ objs["service_agent"] = 0 => objs'["service_agent"] = 1
           /\ \A p \in Named : p # "service_agent" => objs'[p] = objs[p]
           /\ fields' = fields \cup {"gateway"}
           /\ UNCHANGED <<live, vault, refs, sandbox, model, boot, canonical, mem, made>>
<1>1. CASE objs["service_agent"] # 0
  BY <1>1, SetIs DEF ServiceAgent, Fields, DataTyped
<1>2. CASE objs["service_agent"] = 0
  <2>1. /\ objs' = [objs EXCEPT !["service_agent"] = 1]
        /\ fields' = fields \cup {"gateway"} /\ Sent("bind_service")
        /\ UNCHANGED <<live, vault, refs, sandbox, model, boot, canonical, mem, made>>
    BY <1>2 DEF ServiceAgent
  <2> QED  BY <1>2, <2>1, SentIs DEF ServiceAgent, DataTyped, Named
<1> QED  BY <1>1, <1>2

\* A new Mattermost has no accounts.
LEMMA MattermostResetIs ==
    ASSUME DataTyped, MattermostReset
    PROVE  /\ live' \in [Creds -> SUBSET Nat]
           /\ live'["admin"] = {} /\ live'["bot"] = {}
           /\ \A c \in Creds : c \notin {"admin", "bot"} => live'[c] = live[c]
           /\ objs' \in [Named -> Nat]
           /\ \A o \in {"admin", "team", "bot_user", "webhook"} : objs'[o] = 0
           /\ \A o \in Named \ {"admin", "team", "bot_user", "webhook"} : objs'[o] = objs[o]
           /\ UNCHANGED <<vault, links, model, boot, canonical, made>>
BY DEF MattermostReset, DataTyped, Creds, Named

-----------------------------------------------------------------------------
(* The parts of the invariant.                                             *)

\* Numbers are given out in order; 0 is given to nothing.
Numbers ==
    /\ \A c \in Creds : \A t \in live[c] : t # 0 /\ t <= made
    /\ \A k \in Creds \cup OperatorKeys : env[k] <= made
    /\ \A k \in OperatorKeys : env[k] # 0
    /\ mem <= made

\* A set that does not have two members.
AtMostOne(S) == \A x, y \in S : x = y

\* One of each name.  A credential is only created where none is active: the
\* steps on the way to it say so.
Singles ==
    /\ \A c \in Creds \ {"board"} : AtMostOne(live[c])
    /\ \A o \in Named : objs[o] <= 1
    /\ objs["bot_user"] = 0 => live["bot"] = {}
    /\ pc \in {"token", "recover", "save_bot"} => objs["bot_user"] # 0
    /\ pc = "token" => live["bot"] = {}
    /\ pc = "agent_mint" => live["agent"] = {}

\* What is saved works: the canonical file has the password that the
\* administrator was created with and a board key that is active, and what a step
\* is about to save is active.
Saved ==
    /\ objs["admin"] # 0 => env["admin"] \in live["admin"]
    /\ pc = "admin_post" => objs["admin"] = 0 /\ env["admin"] # 0
    /\ env["board"] # 0 => env["board"] \in live["board"]
    /\ pc \in {"sign_up", "accept", "board_key", "save_board"} => env["board"] = 0
    /\ pc = "save_bot" => mem \in live["bot"]
    /\ pc \in {"save_key", "boot_save"} => mem \in live["client"]
    /\ pc = "save_board" => mem \in live["board"]
    /\ pc = "save_agent" => mem \in live["agent"]
    /\ pc = "agent_renew" /\ ~faulty => env["agent"] \notin live["agent"]

\* Values only get newer, and the mark of a copy is never newer than the copy.
Ordered ==
    /\ \A t \in live["client"] : env["client"] <= t
    /\ pc = "save_bot" => env["bot"] <= mem
    /\ \A s \in Copies : mark[s] <= env[s] /\ vault[s] <= env[s]
    /\ \A s \in Copies : vault[s] = 0 \/ mark[s] <= vault[s]
    /\ vault["bot"] = 0 => mark["bot"] = 0
    /\ vault["client"] = 0 => mark["client"] = 0

\* What a step is about to mark has been copied.
Copied ==
    /\ pc = "mark_minimax" => vault["minimax"] = env["minimax"]
    /\ pc = "mark_user" => vault["github"] = env["github"]
    /\ pc = "mark_secret" => \A s \in Copies : Due(s) => vault[s] = env[s]

\* What a pass has achieved, one thing after the other, up to the readiness of
\* Paperclip.
AdminDone == objs["admin"] # 0
TeamDone == AdminDone /\ objs["team"] # 0
BotDone == TeamDone /\ objs["bot_user"] # 0
HookDone == BotDone /\ objs["webhook"] # 0
MattermostDone == HookDone /\ env["bot"] \in live["bot"]
RouterDone == MattermostDone /\ RouterReady
BoardDone == RouterDone /\ env["board"] # 0
RuntimeDone == BoardDone /\ "runtime" \in fields
CompanyDone == RuntimeDone /\ objs["company"] # 0
ProjectDone == CompanyDone /\ objs["project"] # 0
WorkspaceDone == ProjectDone /\ objs["workspace"] # 0
SecretsCopied == WorkspaceDone /\ vault["bot"] = env["bot"] /\ vault["client"] = env["client"]
DefinitionDone == SecretsCopied /\ objs["definition"] # 0
UserSecretDone == DefinitionDone /\ vault["github"] = env["github"]
SkillDone == UserSecretDone /\ objs["skill"] # 0
ProfileDone == SkillDone /\ objs["profile_agent"] # 0
ProjectBound == ProfileDone /\ refs["project"] = Refers["project"]
ServiceDone == ProjectBound /\ objs["service_agent"] # 0 /\ "gateway" \in fields
ServiceBound == ServiceDone /\ refs["service_agent"] = Refers["service_agent"]
AgentDone == ServiceBound /\ env["agent"] \in live["agent"]
PaperclipDone == AgentDone /\ PaperclipReady

\* What a pass in which no adapter has failed has achieved when it gets to a step.
Progress ==
    ~failed =>
      /\ pc = "team" => AdminDone
      /\ pc = "user" => TeamDone
      /\ pc \in {"token", "recover", "save_bot", "hook"} => BotDone
      /\ pc = "bot_check" => HookDone
      /\ pc \in {"kestra"} \cup Router => MattermostDone
      /\ pc \in Board => RouterDone
      /\ pc = "runtime" => BoardDone
      /\ pc = "company" => RuntimeDone
      /\ pc \in {"responsible", "project"} => CompanyDone
      /\ pc = "workspace" => ProjectDone
      /\ pc \in {"policy", "secrets", "mark_secret"} => WorkspaceDone
      /\ pc = "definition" => SecretsCopied
      /\ pc \in {"user_secret", "mark_user"} => DefinitionDone
      /\ pc = "skill" => UserSecretDone
      /\ pc = "profile_agent" => SkillDone
      /\ pc \in {"bind_profile", "place", "bind_project"} => ProfileDone
      /\ pc = "service_agent" => ProjectBound
      /\ pc = "bind_service" => ServiceDone
      /\ pc \in {"agent_key", "agent_renew", "agent_mint", "save_agent"} => ServiceBound
      /\ pc = "paperclip_row" => AgentDone
      /\ pc = "render" => PaperclipDone

\* What a report says.
Reports ==
    /\ report = "ok" => pc = "idle" /\ Usable
    /\ report = "keys" => pc = "idle" /\ env["client"] \in live["client"]

-----------------------------------------------------------------------------
(* The types are kept.                                                     *)

\* The types are kept: the data, ...
LEMMA DataTypedStep ==
    ASSUME DataTyped, [ProvisioningNext]_vars
    PROVE  DataTyped'
<1> USE DEF DataTyped, services, links, canonical, pass, Fresh, Creds, OperatorKeys, Copies
<1>1. CASE BootstrapKey
  BY <1>1 DEF BootstrapKey, Mint, Issue
<1>2. CASE BootstrapTry
  BY <1>2 DEF BootstrapTry, Ended, GoTo
<1>3. CASE BootstrapSave
  BY <1>3 DEF BootstrapSave
<1>4. CASE AdminPassword
  BY <1>4 DEF AdminPassword, GoTo
<1>5. CASE AdminUser
  <2>1. objs' \in [Named -> Nat]
    BY <1>5 DEF AdminUser
  <2>2. env["admin"] \in Nat
    OBVIOUS
  <2>3. live' = [live EXCEPT !["admin"] = {env["admin"]}]
    BY <1>5 DEF AdminUser
  <2>4. live' \in [Creds -> SUBSET Nat]
    BY <2>2, <2>3
  <2> QED  BY <1>5, <2>1, <2>4 DEF AdminUser
<1>6. CASE Team
  BY <1>6 DEF Team, Ensure, GoTo
<1>7. CASE BotUser
  BY <1>7 DEF BotUser, Ensure, GoTo
<1>8. CASE RecoverToken
  BY <1>8 DEF RecoverToken, Revoke, GoTo
<1>9. CASE MintBot
  BY <1>9 DEF MintBot, Mint, Issue
<1>10. CASE SaveBot
  BY <1>10 DEF SaveBot, Save
<1>11. CASE Webhook
  BY <1>11 DEF Webhook, Ensure, GoTo
<1>12. CASE BotCheck
  BY <1>12 DEF BotCheck, Reported
<1>13. CASE KestraRow
  BY <1>13 DEF KestraRow, GoTo
<1>14. CASE RouterKey
  BY <1>14 DEF RouterKey, Mint, Issue
<1>15. CASE SaveKey
  BY <1>15 DEF SaveKey, Save
<1>16. CASE Minimax
  BY <1>16 DEF Minimax, Copy, GoTo, Stale, CopyOf
<1>17. CASE MarkMinimax
  BY <1>17 DEF MarkMinimax, SaveMark, CopyOf
<1>18. CASE DeleteModels
  BY <1>18 DEF DeleteModels, GoTo
<1>19. CASE AddModel
  BY <1>19 DEF AddModel
<1>20. CASE Route
  BY <1>20 DEF Route, GoTo
<1>21. CASE RouterRow
  BY <1>21 DEF RouterRow, Reported, Stale, CopyOf, RouterReady
<1>22. CASE BoardIdentity
  BY <1>22 DEF BoardIdentity, Handoff, Reported, GoTo
<1>23. CASE SignUp
  BY <1>23 DEF SignUp, Ended
<1>24. CASE Accept
  BY <1>24 DEF Accept
<1>25. CASE BoardKey
  BY <1>25 DEF BoardKey, Mint, Issue
<1>26. CASE SaveBoard
  BY <1>26 DEF SaveBoard, Save
<1>27. CASE RuntimeSecurity
  BY <1>27 DEF RuntimeSecurity, Set, GoTo, Fields
<1>28. CASE Company
  BY <1>28 DEF Company, Ensure, GoTo
<1>29. CASE ResponsibleUser
  BY <1>29 DEF ResponsibleUser, Set, GoTo, Fields
<1>30. CASE Project
  BY <1>30 DEF Project, Ensure, GoTo
<1>31. CASE Workspace
  BY <1>31 DEF Workspace, Ensure, GoTo
<1>32. CASE WorkspacePolicy
  BY <1>32 DEF WorkspacePolicy, Set, GoTo, Fields
<1>33. ASSUME NEW s \in Copies, CompanySecret(s) PROVE DataTyped'
  BY <1>33 DEF CompanySecret, Copy, Bound, Due, Stale, CopyOf
<1>34. ASSUME NEW s \in Copies, SecretMark(s) PROVE DataTyped'
  BY <1>34 DEF SecretMark, SaveMark, Reported, Bound, Due, Stale, CopyOf
<1>35. CASE SecretsDone
  BY <1>35 DEF SecretsDone, GoTo, Bound, Stale, CopyOf
<1>36. CASE Definition
  BY <1>36 DEF Definition, Ensure, GoTo
<1>37. CASE UserSecret
  BY <1>37 DEF UserSecret, Copy, GoTo, Stale, CopyOf
<1>38. CASE UserSecretMark
  BY <1>38 DEF UserSecretMark, SaveMark, CopyOf
<1>39. CASE Skill
  BY <1>39 DEF Skill, Ensure, GoTo
<1>40. CASE ProfileAgent
  BY <1>40 DEF ProfileAgent, Ensure, GoTo
<1>41. CASE BindProfile
  BY <1>41 DEF BindProfile, Bind, Wanted, GoTo, Refers
<1>42. CASE PlaceAgent
  BY <1>42 DEF PlaceAgent, Set, GoTo, Fields
<1>43. CASE BindProject
  BY <1>43 DEF BindProject, Bind, Wanted, GoTo, Refers
<1>44. CASE ServiceAgent
  <2>1. CASE objs["service_agent"] # 0
    BY <1>44, <2>1 DEF ServiceAgent, Set, GoTo, Fields
  <2>2. CASE objs["service_agent"] = 0
    <3>1. objs' \in [Named -> Nat]
      BY <1>44, <2>2 DEF ServiceAgent
    <3>2. fields' \subseteq Fields
      BY <1>44, <2>2 DEF ServiceAgent, Fields
    <3> QED  BY <1>44, <2>2, <3>1, <3>2 DEF ServiceAgent
  <2> QED  BY <2>1, <2>2
<1>45. CASE BindService
  BY <1>45 DEF BindService, Bind, Wanted, GoTo, Refers
<1>46. CASE AgentKey
  BY <1>46 DEF AgentKey, GoTo
<1>47. CASE AgentRenew
  BY <1>47 DEF AgentRenew, Revoke, GoTo
<1>48. CASE AgentMint
  BY <1>48 DEF AgentMint, Mint, Issue
<1>49. CASE SaveAgent
  BY <1>49 DEF SaveAgent, Save
<1>50. CASE PaperclipRow
  BY <1>50 DEF PaperclipRow, Reported, PaperclipReady
<1>51. CASE Render
  BY <1>51 DEF Render
<1>52. CASE BootstrapStep
  BY <1>1, <1>2, <1>3, <1>52, Zenon DEF BootstrapStep
<1>53. CASE MattermostStep
  BY <1>4, <1>5, <1>6, <1>7, <1>8, <1>9, <1>10, <1>11, <1>12, <1>13, <1>53, Zenon DEF
     MattermostStep
<1>54. CASE RouterStep
  BY <1>14, <1>15, <1>16, <1>17, <1>18, <1>19, <1>20, <1>21, <1>54, Zenon DEF RouterStep
<1>55. CASE BoardStep
  BY <1>22, <1>23, <1>24, <1>25, <1>26, <1>55, Zenon DEF BoardStep
<1>56. CASE CompanyStep
  BY <1>27, <1>28, <1>29, <1>30, <1>31, <1>32, <1>33, <1>34, <1>35, <1>36, <1>37, <1>38, <1>39,
     <1>56, Zenon DEF CompanyStep
<1>57. CASE AgentStep
  BY <1>40, <1>41, <1>42, <1>43, <1>44, <1>45, <1>46, <1>47, <1>48, <1>49, <1>50, <1>51, <1>57,
     Zenon DEF AgentStep
<1>58. CASE Step
  BY <1>52, <1>53, <1>54, <1>55, <1>56, <1>57, <1>58, StepIsOf, Zenon
<1>59. CASE \E g \in Groups : Begin(g)
  BY <1>59 DEF Begin, CanonicalMutationPlan
<1>60. CASE BeginBootstrap
  BY <1>60 DEF BeginBootstrap, CanonicalMutationPlan
<1>61. CASE NoAnswer
  BY <1>61 DEF NoAnswer
<1>62. CASE Kill
  BY <1>62 DEF Kill
<1>63. CASE Event
  BY <1>63 DEF Event, MattermostReset, RouterReset, KeyRevoked, FieldChanged, KeyChanged
<1>64. CASE EnvironmentMade
  BY <1>64 DEF EnvironmentMade
<1>65. CASE Redeem
  BY <1>65 DEF Redeem
<1>66. CASE UNCHANGED vars
  BY <1>66 DEF vars
<1> QED  BY <1>58, <1>59, <1>60, <1>61, <1>62, <1>63, <1>64, <1>65, <1>66 DEF ProvisioningNext

\* ... and the control.
LEMMA ControlTypedStep ==
      ASSUME ControlTyped, [ProvisioningNext]_vars
    PROVE  ControlTyped'
<1> USE DEF Pcs
<1>1. CASE BootstrapKey
  BY <1>1, AnsweredTyped, LostTyped DEF BootstrapKey, Mint, Bootstrap
<1>2. CASE BootstrapTry
  BY <1>2, AnsweredTyped DEF BootstrapTry, Ended, GoTo, ControlTyped, pass, services, Bootstrap
<1>3. CASE BootstrapSave
  BY <1>3 DEF BootstrapSave, ControlTyped, pass, Bootstrap
<1>4. CASE AdminPassword
  BY <1>4, AnsweredTyped DEF AdminPassword, GoTo, Mattermost
<1>5. CASE AdminUser
  BY <1>5, SentTyped DEF AdminUser, Mattermost
<1>6. CASE Team
  BY <1>6, SentTyped, AnsweredTyped DEF Team, Ensure, GoTo, Mattermost
<1>7. CASE BotUser
  BY <1>7, SentTyped, AnsweredTyped DEF BotUser, Ensure, GoTo, Mattermost
<1>8. CASE RecoverToken
  BY <1>8, SentTyped, AnsweredTyped DEF RecoverToken, Revoke, GoTo, Mattermost
<1>9. CASE MintBot
  BY <1>9, AnsweredTyped, LostTyped DEF MintBot, Mint, Mattermost
<1>10. CASE SaveBot
  BY <1>10, AnsweredTyped DEF SaveBot, Save, Mattermost
<1>11. CASE Webhook
  BY <1>11, SentTyped, AnsweredTyped DEF Webhook, Ensure, GoTo, Mattermost
<1>12. CASE BotCheck
  BY <1>12 DEF BotCheck, Reported, ControlTyped, pass, Mattermost
<1>13. CASE KestraRow
  BY <1>13, AnsweredTyped DEF KestraRow, GoTo, Router
<1>14. CASE RouterKey
  BY <1>14, AnsweredTyped, LostTyped DEF RouterKey, Mint, Router
<1>15. CASE SaveKey
  BY <1>15, AnsweredTyped DEF SaveKey, Save, Router
<1>16. CASE Minimax
  BY <1>16, SentTyped, AnsweredTyped DEF Minimax, Copy, GoTo, Router
<1>17. CASE MarkMinimax
  BY <1>17, AnsweredTyped DEF MarkMinimax, SaveMark, Router
<1>18. CASE DeleteModels
  BY <1>18, SentTyped, AnsweredTyped DEF DeleteModels, GoTo, Router
<1>19. CASE AddModel
  BY <1>19, SentTyped DEF AddModel, Router
<1>20. CASE Route
  BY <1>20, AnsweredTyped DEF Route, GoTo, Router
<1>21. CASE RouterRow
  BY <1>21 DEF RouterRow, Reported, ControlTyped, pass, Board, Router
<1>22. CASE BoardIdentity
  BY <1>22, AnsweredTyped DEF BoardIdentity, Handoff, Reported, GoTo, ControlTyped, pass, Board,
     Paperclip
<1>23. CASE SignUp
  BY <1>23, SentTyped DEF SignUp, Ended, ControlTyped, pass, Board
<1>24. CASE Accept
  BY <1>24, SentTyped DEF Accept, Board
<1>25. CASE BoardKey
  BY <1>25, AnsweredTyped, LostTyped DEF BoardKey, Mint, Board
<1>26. CASE SaveBoard
  BY <1>26, AnsweredTyped DEF SaveBoard, Save, Board, Paperclip
<1>27. CASE RuntimeSecurity
  BY <1>27, SentTyped, AnsweredTyped DEF RuntimeSecurity, Set, GoTo, Paperclip
<1>28. CASE Company
  BY <1>28, SentTyped, AnsweredTyped DEF Company, Ensure, GoTo, Paperclip
<1>29. CASE ResponsibleUser
  BY <1>29, SentTyped, AnsweredTyped DEF ResponsibleUser, Set, GoTo, Paperclip
<1>30. CASE Project
  BY <1>30, SentTyped, AnsweredTyped DEF Project, Ensure, GoTo, Paperclip
<1>31. CASE Workspace
  BY <1>31, SentTyped, AnsweredTyped DEF Workspace, Ensure, GoTo, Paperclip
<1>32. CASE WorkspacePolicy
  BY <1>32, SentTyped, AnsweredTyped DEF WorkspacePolicy, Set, GoTo, Paperclip
<1>33. ASSUME NEW s \in Copies, CompanySecret(s) PROVE ControlTyped'
  BY <1>33, SentTyped DEF CompanySecret, Copy, Paperclip
<1>34. ASSUME NEW s \in Copies, SecretMark(s) PROVE ControlTyped'
  BY <1>34, AnsweredTyped DEF SecretMark, SaveMark, Reported, ControlTyped, pass, Paperclip
<1>35. CASE SecretsDone
  BY <1>35, AnsweredTyped DEF SecretsDone, GoTo, Paperclip
<1>36. CASE Definition
  BY <1>36, SentTyped, AnsweredTyped DEF Definition, Ensure, GoTo, Paperclip
<1>37. CASE UserSecret
  BY <1>37, SentTyped, AnsweredTyped DEF UserSecret, Copy, GoTo, Paperclip
<1>38. CASE UserSecretMark
  BY <1>38, AnsweredTyped DEF UserSecretMark, SaveMark, Paperclip
<1>39. CASE Skill
  BY <1>39, SentTyped, AnsweredTyped DEF Skill, Ensure, GoTo, Paperclip
<1>40. CASE ProfileAgent
  BY <1>40, SentTyped, AnsweredTyped DEF ProfileAgent, Ensure, GoTo, Paperclip
<1>41. CASE BindProfile
  BY <1>41, SentTyped, AnsweredTyped DEF BindProfile, Bind, GoTo, Paperclip
<1>42. CASE PlaceAgent
  BY <1>42, SentTyped, AnsweredTyped DEF PlaceAgent, Set, GoTo, Paperclip
<1>43. CASE BindProject
  BY <1>43, SentTyped, AnsweredTyped DEF BindProject, Bind, GoTo, Paperclip
<1>44. CASE ServiceAgent
  BY <1>44, SentTyped, AnsweredTyped DEF ServiceAgent, Set, GoTo, Paperclip
<1>45. CASE BindService
  BY <1>45, SentTyped, AnsweredTyped DEF BindService, Bind, GoTo, Paperclip
<1>46. CASE AgentKey
  <2>1. CASE env["agent"] \in live["agent"] /\ GoTo("paperclip_row")
    BY <2>1, AnsweredTyped DEF GoTo, Paperclip
  <2>2. CASE env["agent"] \notin live["agent"] /\ GoTo("agent_renew")
    BY <2>2, AnsweredTyped DEF GoTo, Paperclip
  <2>3. CASE faulty' = TRUE
    BY <1>46, <2>1, <2>2, <2>3 DEF AgentKey, ControlTyped, pass, Paperclip
  <2> QED  BY <1>46, <2>1, <2>2, <2>3 DEF AgentKey
<1>47. CASE AgentRenew
  BY <1>47, SentTyped, AnsweredTyped DEF AgentRenew, Revoke, GoTo, Paperclip
<1>48. CASE AgentMint
  BY <1>48, AnsweredTyped, LostTyped DEF AgentMint, Mint, Paperclip
<1>49. CASE SaveAgent
  BY <1>49, AnsweredTyped DEF SaveAgent, Save, Paperclip
<1>50. CASE PaperclipRow
  BY <1>50 DEF PaperclipRow, Reported, ControlTyped, pass, Paperclip
<1>51. CASE Render
  BY <1>51 DEF Render, ControlTyped, pass
<1>52. CASE BootstrapStep
  BY <1>1, <1>2, <1>3, <1>52, Zenon DEF BootstrapStep
<1>53. CASE MattermostStep
  BY <1>4, <1>5, <1>6, <1>7, <1>8, <1>9, <1>10, <1>11, <1>12, <1>13, <1>53, Zenon DEF
     MattermostStep
<1>54. CASE RouterStep
  BY <1>14, <1>15, <1>16, <1>17, <1>18, <1>19, <1>20, <1>21, <1>54, Zenon DEF RouterStep
<1>55. CASE BoardStep
  BY <1>22, <1>23, <1>24, <1>25, <1>26, <1>55, Zenon DEF BoardStep
<1>56. CASE CompanyStep
  BY <1>27, <1>28, <1>29, <1>30, <1>31, <1>32, <1>33, <1>34, <1>35, <1>36, <1>37, <1>38, <1>39,
     <1>56, Zenon DEF CompanyStep
<1>57. CASE AgentStep
  BY <1>40, <1>41, <1>42, <1>43, <1>44, <1>45, <1>46, <1>47, <1>48, <1>49, <1>50, <1>51, <1>57,
     Zenon DEF AgentStep
<1>58. CASE Step
  BY <1>52, <1>53, <1>54, <1>55, <1>56, <1>57, <1>58, StepIsOf, Zenon
<1>59. CASE \E g \in Groups : Begin(g)
  BY <1>59, PlanIsOfCopies DEF Begin, ControlTyped, canonical, Mattermost
<1>60. CASE BeginBootstrap
  BY <1>60, PlanIsOfCopies DEF BeginBootstrap, ControlTyped, Bootstrap
<1>61. CASE NoAnswer
  BY <1>61, LostTyped DEF NoAnswer
<1>62. CASE Kill
  BY <1>62 DEF Kill, ControlTyped, pass
<1>63. CASE Event
  BY <1>63 DEF Event, MattermostReset, RouterReset, KeyRevoked, FieldChanged, KeyChanged,
     ControlTyped, pass
<1>64. CASE EnvironmentMade
  BY <1>64 DEF EnvironmentMade, ControlTyped, pass
<1>65. CASE Redeem
  BY <1>65 DEF Redeem, ControlTyped, pass
<1>66. CASE UNCHANGED vars
  BY <1>66 DEF vars, ControlTyped, pass
<1> QED  BY <1>58, <1>59, <1>60, <1>61, <1>62, <1>63, <1>64, <1>65, <1>66 DEF ProvisioningNext

-----------------------------------------------------------------------------
(* Numbers, names and what is saved.                                       *)

\* Numbers are kept.  The password of the administrator is used only when there
\* is one.
LEMMA NumbersStep ==
    ASSUME DataTyped, Numbers, Saved, [ProvisioningNext]_vars
    PROVE  Numbers'
<1> USE DEF DataTyped, Numbers, services, links, canonical, pass, Fresh, Creds, OperatorKeys
<1>1. CASE BootstrapKey
  BY <1>1 DEF BootstrapKey, Mint, Issue
<1>2. CASE BootstrapTry
  BY <1>2 DEF BootstrapTry, Ended, GoTo
<1>3. CASE BootstrapSave
  BY <1>3 DEF BootstrapSave
<1>4. CASE AdminPassword
  BY <1>4 DEF AdminPassword, GoTo
<1>5. CASE AdminUser
  BY <1>5 DEF AdminUser, Saved
<1>6. CASE Team
  BY <1>6 DEF Team, Ensure, GoTo
<1>7. CASE BotUser
  BY <1>7 DEF BotUser, Ensure, GoTo
<1>8. CASE RecoverToken
  BY <1>8 DEF RecoverToken, Revoke, GoTo
<1>9. CASE MintBot
  BY <1>9 DEF MintBot, Mint, Issue
<1>10. CASE SaveBot
  BY <1>10 DEF SaveBot, Save
<1>11. CASE Webhook
  BY <1>11 DEF Webhook, Ensure, GoTo
<1>12. CASE BotCheck
  BY <1>12 DEF BotCheck, Reported
<1>13. CASE KestraRow
  BY <1>13 DEF KestraRow, GoTo
<1>14. CASE RouterKey
  BY <1>14 DEF RouterKey, Mint, Issue
<1>15. CASE SaveKey
  BY <1>15 DEF SaveKey, Save
<1>16. CASE Minimax
  BY <1>16 DEF Minimax, Copy, GoTo, Stale, CopyOf
<1>17. CASE MarkMinimax
  BY <1>17 DEF MarkMinimax, SaveMark, CopyOf
<1>18. CASE DeleteModels
  BY <1>18 DEF DeleteModels, GoTo
<1>19. CASE AddModel
  BY <1>19 DEF AddModel
<1>20. CASE Route
  BY <1>20 DEF Route, GoTo
<1>21. CASE RouterRow
  BY <1>21 DEF RouterRow, Reported, Stale, CopyOf, RouterReady
<1>22. CASE BoardIdentity
  BY <1>22 DEF BoardIdentity, Handoff, Reported, GoTo
<1>23. CASE SignUp
  BY <1>23 DEF SignUp, Ended
<1>24. CASE Accept
  BY <1>24 DEF Accept
<1>25. CASE BoardKey
  BY <1>25 DEF BoardKey, Mint, Issue
<1>26. CASE SaveBoard
  BY <1>26 DEF SaveBoard, Save
<1>27. CASE RuntimeSecurity
  BY <1>27 DEF RuntimeSecurity, Set, GoTo
<1>28. CASE Company
  BY <1>28 DEF Company, Ensure, GoTo
<1>29. CASE ResponsibleUser
  BY <1>29 DEF ResponsibleUser, Set, GoTo
<1>30. CASE Project
  BY <1>30 DEF Project, Ensure, GoTo
<1>31. CASE Workspace
  BY <1>31 DEF Workspace, Ensure, GoTo
<1>32. CASE WorkspacePolicy
  BY <1>32 DEF WorkspacePolicy, Set, GoTo
<1>33. ASSUME NEW s \in Copies, CompanySecret(s) PROVE Numbers'
  BY <1>33 DEF CompanySecret, Copy, Bound, Due, Stale, CopyOf
<1>34. ASSUME NEW s \in Copies, SecretMark(s) PROVE Numbers'
  BY <1>34 DEF SecretMark, SaveMark, Reported, Bound, Due, Stale, CopyOf
<1>35. CASE SecretsDone
  BY <1>35 DEF SecretsDone, GoTo, Bound, Stale, CopyOf
<1>36. CASE Definition
  BY <1>36 DEF Definition, Ensure, GoTo
<1>37. CASE UserSecret
  BY <1>37 DEF UserSecret, Copy, GoTo, Stale, CopyOf
<1>38. CASE UserSecretMark
  BY <1>38 DEF UserSecretMark, SaveMark, CopyOf
<1>39. CASE Skill
  BY <1>39 DEF Skill, Ensure, GoTo
<1>40. CASE ProfileAgent
  BY <1>40 DEF ProfileAgent, Ensure, GoTo
<1>41. CASE BindProfile
  BY <1>41 DEF BindProfile, Bind, Wanted, GoTo
<1>42. CASE PlaceAgent
  BY <1>42 DEF PlaceAgent, Set, GoTo
<1>43. CASE BindProject
  BY <1>43 DEF BindProject, Bind, Wanted, GoTo
<1>44. CASE ServiceAgent
  BY <1>44 DEF ServiceAgent, Set, GoTo
<1>45. CASE BindService
  BY <1>45 DEF BindService, Bind, Wanted, GoTo
<1>46. CASE AgentKey
  BY <1>46 DEF AgentKey, GoTo
<1>47. CASE AgentRenew
  BY <1>47 DEF AgentRenew, Revoke, GoTo
<1>48. CASE AgentMint
  BY <1>48 DEF AgentMint, Mint, Issue
<1>49. CASE SaveAgent
  BY <1>49 DEF SaveAgent, Save
<1>50. CASE PaperclipRow
  BY <1>50 DEF PaperclipRow, Reported, PaperclipReady
<1>51. CASE Render
  BY <1>51 DEF Render
<1>52. CASE BootstrapStep
  BY <1>1, <1>2, <1>3, <1>52, Zenon DEF BootstrapStep
<1>53. CASE MattermostStep
  BY <1>4, <1>5, <1>6, <1>7, <1>8, <1>9, <1>10, <1>11, <1>12, <1>13, <1>53, Zenon DEF
     MattermostStep
<1>54. CASE RouterStep
  BY <1>14, <1>15, <1>16, <1>17, <1>18, <1>19, <1>20, <1>21, <1>54, Zenon DEF RouterStep
<1>55. CASE BoardStep
  BY <1>22, <1>23, <1>24, <1>25, <1>26, <1>55, Zenon DEF BoardStep
<1>56. CASE CompanyStep
  BY <1>27, <1>28, <1>29, <1>30, <1>31, <1>32, <1>33, <1>34, <1>35, <1>36, <1>37, <1>38, <1>39,
     <1>56, Zenon DEF CompanyStep
<1>57. CASE AgentStep
  BY <1>40, <1>41, <1>42, <1>43, <1>44, <1>45, <1>46, <1>47, <1>48, <1>49, <1>50, <1>51, <1>57,
     Zenon DEF AgentStep
<1>58. CASE Step
  BY <1>52, <1>53, <1>54, <1>55, <1>56, <1>57, <1>58, StepIsOf, Zenon
<1>59. CASE \E g \in Groups : Begin(g)
  BY <1>59 DEF Begin, CanonicalMutationPlan
<1>60. CASE BeginBootstrap
  BY <1>60 DEF BeginBootstrap, CanonicalMutationPlan
<1>61. CASE NoAnswer
  BY <1>61 DEF NoAnswer
<1>62. CASE Kill
  BY <1>62 DEF Kill
<1>63. CASE Event
  BY <1>63 DEF Event, MattermostReset, RouterReset, KeyRevoked, FieldChanged, KeyChanged
<1>64. CASE EnvironmentMade
  BY <1>64 DEF EnvironmentMade
<1>65. CASE Redeem
  BY <1>65 DEF Redeem
<1>66. CASE UNCHANGED vars
  BY <1>66 DEF vars
<1> QED  BY <1>58, <1>59, <1>60, <1>61, <1>62, <1>63, <1>64, <1>65, <1>66 DEF ProvisioningNext

\* A name is kept from having two of anything.
LEMMA SinglesStep ==
    ASSUME DataTyped, Singles, [ProvisioningNext]_vars
    PROVE  Singles'
<1> USE DEF Singles, AtMostOne, services, links, canonical, pass, Fresh, Creds, Named, Reaches,
   Resumes
<1>1. CASE BootstrapKey
  BY <1>1, MintIs, LostReaches DEF BootstrapKey, Answered
<1>2. CASE BootstrapTry
  BY <1>2, GoToIs, MovedReaches DEF BootstrapTry, Ended
<1>3. CASE BootstrapSave
  BY <1>3 DEF BootstrapSave
<1>4. CASE AdminPassword
  BY <1>4, GoToIs, MovedReaches DEF AdminPassword, Answered
<1>5. CASE AdminUser
  BY <1>5, SentIs, MovedReaches DEF AdminUser
<1>6. CASE Team
  BY <1>6, EnsureIs, MovedReaches DEF Team
<1>7. CASE BotUser
  BY <1>7, EnsureIs, GoToIs, MovedReaches DEF BotUser
<1>8. CASE RecoverToken
  BY <1>8, GoToIs, RevokeIs, MovedReaches DEF RecoverToken
<1>9. CASE MintBot
  BY <1>9, MintIs, LostReaches DEF MintBot
<1>10. CASE SaveBot
  BY <1>10, SaveIs, MovedReaches DEF SaveBot
<1>11. CASE Webhook
  BY <1>11, EnsureIs, MovedReaches DEF Webhook
<1>12. CASE BotCheck
  BY <1>12 DEF BotCheck, Reported
<1>13. CASE KestraRow
  BY <1>13, GoToIs, MovedReaches DEF KestraRow
<1>14. CASE RouterKey
  BY <1>14, MintIs, LostReaches DEF RouterKey, Answered
<1>15. CASE SaveKey
  BY <1>15, SaveIs, MovedReaches DEF SaveKey
<1>16. CASE Minimax
  BY <1>16, CopyIs, GoToIs, MovedReaches DEF Minimax, Copies
<1>17. CASE MarkMinimax
  BY <1>17, SaveMarkIs, MovedReaches DEF MarkMinimax, Copies
<1>18. CASE DeleteModels
  BY <1>18, GoToIs, SentIs, MovedReaches DEF DeleteModels
<1>19. CASE AddModel
  BY <1>19, SentIs, MovedReaches DEF AddModel
<1>20. CASE Route
  BY <1>20, GoToIs, MovedReaches DEF Route
<1>21. CASE RouterRow
  BY <1>21 DEF RouterRow, Reported, RouterReady
<1>22. CASE BoardIdentity
  BY <1>22, GoToIs, MovedReaches DEF BoardIdentity, Handoff, Reported, Answered
<1>23. CASE SignUp
  BY <1>23, SentIs, MovedReaches DEF SignUp, Ended
<1>24. CASE Accept
  BY <1>24, SentIs, MovedReaches DEF Accept
<1>25. CASE BoardKey
  BY <1>25, MintIs, LostReaches DEF BoardKey
<1>26. CASE SaveBoard
  BY <1>26, SaveIs, MovedReaches DEF SaveBoard
<1>27. CASE RuntimeSecurity
  BY <1>27, SetIs, MovedReaches DEF RuntimeSecurity, Fields
<1>28. CASE Company
  BY <1>28, EnsureIs, MovedReaches DEF Company
<1>29. CASE ResponsibleUser
  BY <1>29, SetIs, MovedReaches DEF ResponsibleUser, Fields
<1>30. CASE Project
  BY <1>30, EnsureIs, MovedReaches DEF Project
<1>31. CASE Workspace
  BY <1>31, EnsureIs, MovedReaches DEF Workspace
<1>32. CASE WorkspacePolicy
  BY <1>32, SetIs, MovedReaches DEF WorkspacePolicy, Fields
<1>33. ASSUME NEW s \in Copies, CompanySecret(s) PROVE Singles'
  BY <1>33, CopyIs, MovedReaches DEF CompanySecret, Copies
<1>34. ASSUME NEW s \in Copies, SecretMark(s) PROVE Singles'
  BY <1>34, SaveMarkIs, MovedReaches DEF SecretMark, Reported, Copies
<1>35. CASE SecretsDone
  BY <1>35, GoToIs, MovedReaches DEF SecretsDone
<1>36. CASE Definition
  BY <1>36, EnsureIs, MovedReaches DEF Definition
<1>37. CASE UserSecret
  BY <1>37, CopyIs, GoToIs, MovedReaches DEF UserSecret, Copies
<1>38. CASE UserSecretMark
  BY <1>38, SaveMarkIs, MovedReaches DEF UserSecretMark, Copies
<1>39. CASE Skill
  BY <1>39, EnsureIs, MovedReaches DEF Skill
<1>40. CASE ProfileAgent
  BY <1>40, EnsureIs, MovedReaches DEF ProfileAgent
<1>41. CASE BindProfile
  BY <1>41, BindIs, HoldersAre, MovedReaches DEF BindProfile
<1>42. CASE PlaceAgent
  BY <1>42, SetIs, GoToIs, MovedReaches DEF PlaceAgent, Fields
<1>43. CASE BindProject
  BY <1>43, BindIs, HoldersAre, MovedReaches DEF BindProject
<1>44. CASE ServiceAgent
  BY <1>44, ServiceAgentIs, MovedReaches, MovedReaches
<1>45. CASE BindService
  BY <1>45, BindIs, HoldersAre, MovedReaches DEF BindService
<1>46. CASE AgentKey
  BY <1>46, GoToIs, MovedReaches DEF AgentKey
<1>47. CASE AgentRenew
  BY <1>47, RevokeIs, GoToIs, MovedReaches DEF AgentRenew
<1>48. CASE AgentMint
  BY <1>48, MintIs, LostReaches DEF AgentMint
<1>49. CASE SaveAgent
  BY <1>49, SaveIs, MovedReaches DEF SaveAgent
<1>50. CASE PaperclipRow
  BY <1>50 DEF PaperclipRow, Reported, PaperclipReady
<1>51. CASE Render
  BY <1>51 DEF Render
<1>52. CASE BootstrapStep
  BY <1>1, <1>2, <1>3, <1>52, Zenon DEF BootstrapStep
<1>53. CASE MattermostStep
  BY <1>4, <1>5, <1>6, <1>7, <1>8, <1>9, <1>10, <1>11, <1>12, <1>13, <1>53, Zenon DEF
     MattermostStep
<1>54. CASE RouterStep
  BY <1>14, <1>15, <1>16, <1>17, <1>18, <1>19, <1>20, <1>21, <1>54, Zenon DEF RouterStep
<1>55. CASE BoardStep
  BY <1>22, <1>23, <1>24, <1>25, <1>26, <1>55, Zenon DEF BoardStep
<1>56. CASE CompanyStep
  BY <1>27, <1>28, <1>29, <1>30, <1>31, <1>32, <1>33, <1>34, <1>35, <1>36, <1>37, <1>38, <1>39,
     <1>56, Zenon DEF CompanyStep
<1>57. CASE AgentStep
  BY <1>40, <1>41, <1>42, <1>43, <1>44, <1>45, <1>46, <1>47, <1>48, <1>49, <1>50, <1>51, <1>57,
     Zenon DEF AgentStep
<1>58. CASE Step
  BY <1>52, <1>53, <1>54, <1>55, <1>56, <1>57, <1>58, StepIsOf, Zenon
<1>59. CASE \E g \in Groups : Begin(g)
  BY <1>59 DEF Begin, CanonicalMutationPlan
<1>60. CASE BeginBootstrap
  BY <1>60 DEF BeginBootstrap, CanonicalMutationPlan
<1>61. CASE NoAnswer
  BY <1>61, UnansweredIs, LostReaches DEF NoAnswer
<1>62. CASE Kill
  BY <1>62 DEF Kill
<1>63. CASE Event
  <2>1. CASE MattermostReset
    BY <1>63, <2>1, MattermostResetIs DEF Event
  <2>2. CASE RouterReset
    BY <1>63, <2>2 DEF RouterReset, Event
  <2>3. CASE KeyRevoked
    BY <1>63, <2>3 DEF KeyRevoked, Event
  <2>4. CASE FieldChanged
    BY <1>63, <2>4 DEF FieldChanged, Event
  <2>5. CASE KeyChanged
    BY <1>63, <2>5 DEF KeyChanged, Event
  <2> QED  BY <1>63, <2>1, <2>2, <2>3, <2>4, <2>5 DEF Event
<1>64. CASE EnvironmentMade
  BY <1>64 DEF EnvironmentMade
<1>65. CASE Redeem
  BY <1>65 DEF Redeem
<1>66. CASE UNCHANGED vars
  BY <1>66 DEF vars
<1> QED  BY <1>58, <1>59, <1>60, <1>61, <1>62, <1>63, <1>64, <1>65, <1>66 DEF ProvisioningNext

\* What is saved stays what works.
LEMMA SavedStep ==
    ASSUME DataTyped, Numbers, Saved, [ProvisioningNext]_vars
    PROVE  Saved'
<1> USE DEF Saved, services, links, canonical, pass, Fresh, Creds, OperatorKeys, Named, Reaches,
   Resumes
<1>1. CASE BootstrapKey
  BY <1>1, MintIs, LostReaches DEF BootstrapKey, Answered
<1>2. CASE BootstrapTry
  BY <1>2, GoToIs, MovedReaches DEF BootstrapTry, Ended
<1>3. CASE BootstrapSave
  BY <1>3 DEF BootstrapSave, DataTyped
<1>4. CASE AdminPassword
  BY <1>4, GoToIs, MovedReaches DEF AdminPassword, Answered, DataTyped, Numbers
<1>5. CASE AdminUser
  BY <1>5, SentIs, MovedReaches DEF AdminUser, DataTyped
<1>6. CASE Team
  BY <1>6, EnsureIs, MovedReaches DEF Team
<1>7. CASE BotUser
  BY <1>7, EnsureIs, GoToIs, MovedReaches DEF BotUser
<1>8. CASE RecoverToken
  BY <1>8, GoToIs, RevokeIs, MovedReaches DEF RecoverToken
<1>9. CASE MintBot
  BY <1>9, MintIs, LostReaches DEF MintBot
<1>10. CASE SaveBot
  BY <1>10, SaveIs, MovedReaches DEF SaveBot
<1>11. CASE Webhook
  BY <1>11, EnsureIs, MovedReaches DEF Webhook
<1>12. CASE BotCheck
  BY <1>12 DEF BotCheck, Reported
<1>13. CASE KestraRow
  BY <1>13, GoToIs, MovedReaches DEF KestraRow
<1>14. CASE RouterKey
  BY <1>14, MintIs, LostReaches DEF RouterKey, Answered
<1>15. CASE SaveKey
  BY <1>15, SaveIs, MovedReaches DEF SaveKey
<1>16. CASE Minimax
  BY <1>16, CopyIs, GoToIs, MovedReaches DEF Minimax, Copies
<1>17. CASE MarkMinimax
  BY <1>17, SaveMarkIs, MovedReaches DEF MarkMinimax, Copies
<1>18. CASE DeleteModels
  BY <1>18, GoToIs, SentIs, MovedReaches DEF DeleteModels
<1>19. CASE AddModel
  BY <1>19, SentIs, MovedReaches DEF AddModel
<1>20. CASE Route
  BY <1>20, GoToIs, MovedReaches DEF Route
<1>21. CASE RouterRow
  BY <1>21 DEF RouterRow, Reported, RouterReady
<1>22. CASE BoardIdentity
  BY <1>22, GoToIs, MovedReaches DEF BoardIdentity, Handoff, Reported, Answered
<1>23. CASE SignUp
  BY <1>23, SentIs, MovedReaches DEF SignUp, Ended
<1>24. CASE Accept
  BY <1>24, SentIs, MovedReaches DEF Accept
<1>25. CASE BoardKey
  BY <1>25, MintIs, LostReaches DEF BoardKey
<1>26. CASE SaveBoard
  BY <1>26, SaveIs, MovedReaches DEF SaveBoard
<1>27. CASE RuntimeSecurity
  BY <1>27, SetIs, MovedReaches DEF RuntimeSecurity, Fields
<1>28. CASE Company
  BY <1>28, EnsureIs, MovedReaches DEF Company
<1>29. CASE ResponsibleUser
  BY <1>29, SetIs, MovedReaches DEF ResponsibleUser, Fields
<1>30. CASE Project
  BY <1>30, EnsureIs, MovedReaches DEF Project
<1>31. CASE Workspace
  BY <1>31, EnsureIs, MovedReaches DEF Workspace
<1>32. CASE WorkspacePolicy
  BY <1>32, SetIs, MovedReaches DEF WorkspacePolicy, Fields
<1>33. ASSUME NEW s \in Copies, CompanySecret(s) PROVE Saved'
  BY <1>33, CopyIs, MovedReaches DEF CompanySecret, Copies
<1>34. ASSUME NEW s \in Copies, SecretMark(s) PROVE Saved'
  BY <1>34, SaveMarkIs, MovedReaches DEF SecretMark, Reported, Copies
<1>35. CASE SecretsDone
  BY <1>35, GoToIs, MovedReaches DEF SecretsDone
<1>36. CASE Definition
  BY <1>36, EnsureIs, MovedReaches DEF Definition
<1>37. CASE UserSecret
  BY <1>37, CopyIs, GoToIs, MovedReaches DEF UserSecret, Copies
<1>38. CASE UserSecretMark
  BY <1>38, SaveMarkIs, MovedReaches DEF UserSecretMark, Copies
<1>39. CASE Skill
  BY <1>39, EnsureIs, MovedReaches DEF Skill
<1>40. CASE ProfileAgent
  BY <1>40, EnsureIs, MovedReaches DEF ProfileAgent
<1>41. CASE BindProfile
  BY <1>41, BindIs, HoldersAre, MovedReaches DEF BindProfile
<1>42. CASE PlaceAgent
  BY <1>42, SetIs, GoToIs, MovedReaches DEF PlaceAgent, Fields
<1>43. CASE BindProject
  BY <1>43, BindIs, HoldersAre, MovedReaches DEF BindProject
<1>44. CASE ServiceAgent
  BY <1>44, ServiceAgentIs, MovedReaches, MovedReaches
<1>45. CASE BindService
  BY <1>45, BindIs, HoldersAre, MovedReaches DEF BindService
<1>46. CASE AgentKey
  BY <1>46, GoToIs, MovedReaches DEF AgentKey
<1>47. CASE AgentRenew
  BY <1>47, RevokeIs, GoToIs, MovedReaches DEF AgentRenew
<1>48. CASE AgentMint
  BY <1>48, MintIs, LostReaches DEF AgentMint
<1>49. CASE SaveAgent
  BY <1>49, SaveIs, MovedReaches DEF SaveAgent
<1>50. CASE PaperclipRow
  BY <1>50 DEF PaperclipRow, Reported, PaperclipReady
<1>51. CASE Render
  BY <1>51 DEF Render
<1>52. CASE BootstrapStep
  BY <1>1, <1>2, <1>3, <1>52, Zenon DEF BootstrapStep
<1>53. CASE MattermostStep
  BY <1>4, <1>5, <1>6, <1>7, <1>8, <1>9, <1>10, <1>11, <1>12, <1>13, <1>53, Zenon DEF
     MattermostStep
<1>54. CASE RouterStep
  BY <1>14, <1>15, <1>16, <1>17, <1>18, <1>19, <1>20, <1>21, <1>54, Zenon DEF RouterStep
<1>55. CASE BoardStep
  BY <1>22, <1>23, <1>24, <1>25, <1>26, <1>55, Zenon DEF BoardStep
<1>56. CASE CompanyStep
  BY <1>27, <1>28, <1>29, <1>30, <1>31, <1>32, <1>33, <1>34, <1>35, <1>36, <1>37, <1>38, <1>39,
     <1>56, Zenon DEF CompanyStep
<1>57. CASE AgentStep
  BY <1>40, <1>41, <1>42, <1>43, <1>44, <1>45, <1>46, <1>47, <1>48, <1>49, <1>50, <1>51, <1>57,
     Zenon DEF AgentStep
<1>58. CASE Step
  BY <1>52, <1>53, <1>54, <1>55, <1>56, <1>57, <1>58, StepIsOf, Zenon
<1>59. CASE \E g \in Groups : Begin(g)
  BY <1>59 DEF Begin, CanonicalMutationPlan
<1>60. CASE BeginBootstrap
  BY <1>60 DEF BeginBootstrap, CanonicalMutationPlan
<1>61. CASE NoAnswer
  BY <1>61, UnansweredIs, LostReaches DEF NoAnswer
<1>62. CASE Kill
  BY <1>62 DEF Kill
<1>63. CASE Event
  <2>1. CASE MattermostReset
    BY <1>63, <2>1, MattermostResetIs DEF Event
  <2>2. CASE RouterReset
    BY <1>63, <2>2 DEF RouterReset, Event
  <2>3. CASE KeyRevoked
    BY <1>63, <2>3 DEF KeyRevoked, Event
  <2>4. CASE FieldChanged
    BY <1>63, <2>4 DEF FieldChanged, Event
  <2>5. CASE KeyChanged
    BY <1>63, <2>5 DEF KeyChanged, Event
  <2> QED  BY <1>63, <2>1, <2>2, <2>3, <2>4, <2>5 DEF Event
<1>64. CASE EnvironmentMade
  BY <1>64 DEF EnvironmentMade
<1>65. CASE Redeem
  BY <1>65 DEF Redeem
<1>66. CASE UNCHANGED vars
  BY <1>66 DEF vars
<1> QED  BY <1>58, <1>59, <1>60, <1>61, <1>62, <1>63, <1>64, <1>65, <1>66 DEF ProvisioningNext

-----------------------------------------------------------------------------
(* The order of the values, their copies and marks.                        *)

\* What the order of the values depends on: a value is only replaced by a
\* later one, ...
LEMMA OrderedRaised ==
    ASSUME DataTyped, DataTyped', Ordered, mark' = mark, vault' = vault,
           \A s \in Copies : env[s] <= env'[s],
           \A t \in live'["client"] : env'["client"] <= t,
           pc' = "save_bot" => env'["bot"] <= mem'
    PROVE  Ordered'
<1>1. \A s \in Copies : env[s] \in Nat /\ env'[s] \in Nat /\ mark[s] \in Nat /\ vault[s] \in Nat
  BY DEF DataTyped, Copies, Creds, OperatorKeys
<1>2. \A s \in Copies : mark[s] <= env'[s] /\ vault[s] <= env'[s]
  BY <1>1 DEF Ordered
<1> QED  BY <1>2 DEF Ordered

\* ... kept, ...
LEMMA OrderedKept ==
    ASSUME DataTyped, Ordered, live'["client"] = live["client"], mark' = mark, vault' = vault,
           \A s \in Copies : env'[s] = env[s], pc' # "save_bot"
    PROVE  Ordered'
BY DEF Ordered, Copies

\* ... copied as it is ...
LEMMA OrderedCopied ==
    ASSUME DataTyped, Ordered, NEW s \in Copies, live' = live, mark' = mark, env' = env,
           vault'[s] = env[s], \A d \in Copies : d # s => vault'[d] = vault[d],
           pc' # "save_bot"
    PROVE  Ordered'
<1>1. \A d \in Copies : env[d] \in Nat /\ mark[d] \in Nat /\ vault[d] \in Nat
  BY DEF DataTyped, Copies, Creds, OperatorKeys
<1>2. \A d \in Copies : vault'[d] <= env[d] /\ (vault'[d] = 0 \/ mark[d] <= vault'[d])
  <2> TAKE d \in Copies
  <2>1. CASE d = s
    BY <1>1, <2>1 DEF Ordered
  <2> QED  BY <1>1, <2>1 DEF Ordered
<1>3. \A d \in {"bot", "client"} : vault'[d] = 0 => mark[d] = 0
  <2> TAKE d \in {"bot", "client"}
  <2>1. d \in Copies
    BY DEF Copies
  <2>2. CASE d = s
    <3>1. mark[s] <= env[s] /\ env[s] \in Nat /\ mark[s] \in Nat
      BY <1>1 DEF Ordered
    <3> QED  BY <2>2, <3>1
  <2> QED  BY <1>1, <2>1, <2>2 DEF Ordered
<1> QED  BY <1>2, <1>3 DEF Ordered

\* ... and marked when it has been copied.
LEMMA OrderedMarked ==
    ASSUME DataTyped, Ordered, NEW s \in Copies, live' = live, vault' = vault, env' = env,
           mark'[s] = env[s], vault[s] = env[s],
           \A d \in Copies : d # s => mark'[d] = mark[d], pc' # "save_bot"
    PROVE  Ordered'
<1>1. \A d \in Copies : env[d] \in Nat /\ mark[d] \in Nat /\ vault[d] \in Nat
  BY DEF DataTyped, Copies, Creds, OperatorKeys
<1>2. \A d \in Copies : mark'[d] <= env[d] /\ (vault[d] = 0 \/ mark'[d] <= vault[d])
  <2> TAKE d \in Copies
  <2>1. CASE d = s
    BY <1>1, <2>1
  <2> QED  BY <1>1, <2>1 DEF Ordered
<1>3. \A d \in {"bot", "client"} : vault[d] = 0 => mark'[d] = 0
  <2> TAKE d \in {"bot", "client"}
  <2>1. d \in Copies
    BY DEF Copies
  <2>2. CASE d = s
    BY <2>2
  <2> QED  BY <1>1, <2>1, <2>2 DEF Ordered
<1> QED  BY <1>2, <1>3 DEF Ordered

\* The values that are copied are numbers.
LEMMA CopiesAre == DataTyped => \A s \in Copies : env[s] \in Nat
BY DEF DataTyped, Copies, Creds, OperatorKeys

\* Where nothing happens the order stays.
LEMMA OrderedIdle == ASSUME Ordered, UNCHANGED <<live, mark, vault, env, pc, mem>> PROVE Ordered'
BY DEF Ordered

\* The order of the values is kept by every step.
LEMMA OrderedStep ==
    ASSUME DataTyped, DataTyped', Numbers, Singles, Saved, Ordered, Copied, [ProvisioningNext]_vars
    PROVE  Ordered'
<1> USE DEF services, links, canonical, pass
<1>1. CASE BootstrapKey
  <2>1. CASE live["client"] = {}
    <3>1. /\ UNCHANGED <<mark, vault, env>> /\ live'["client"] = {Fresh}
          /\ pc' # "save_bot"
      BY <1>1, <2>1, MintIs, LostReaches, OrderedKept DEF BootstrapKey, Creds, canonical, Resumes
    <3>2. env["client"] <= Fresh
      BY CopiesAre, OrderedKept DEF Numbers, Creds, Fresh, DataTyped, Copies
    <3> QED  BY <3>1, <3>2, OrderedRaised, CopiesAre
  <2>2. CASE live["client"] # {}
    BY <1>1, <2>2, OrderedKept, OrderedKept DEF BootstrapKey, Answered, services, canonical
  <2> QED  BY <2>1, <2>2
<1>2. CASE BootstrapTry
  BY <1>2, GoToIs, MovedReaches, OrderedKept DEF BootstrapTry, Ended, Reaches, Resumes, Creds
<1>3. CASE BootstrapSave
  <2>1. /\ env'["client"] = mem /\ \A s \in Copies \ {"client"} : env'[s] = env[s]
        /\ UNCHANGED <<live, mark, vault>> /\ pc' # "save_bot"
    BY <1>3 DEF BootstrapSave, Creds, OperatorKeys, Copies, services, DataTyped
  <2>2. live["client"] = {mem}
    BY <1>3 DEF BootstrapSave, Singles, AtMostOne, Saved, Creds
  <2>3. \A s \in Copies : env[s] <= env'[s]
    BY <2>1, <2>2, CopiesAre DEF Ordered
  <2>4. mem <= mem
    BY DEF DataTyped
  <2> QED  BY <2>1, <2>2, <2>3, <2>4, OrderedRaised
<1>4. CASE AdminPassword
  <2>1. /\ \A s \in Copies : env'[s] = env[s] /\ pc' # "save_bot"
        /\ UNCHANGED <<live, mark, vault>>
    BY <1>4, GoToIs, MovedReaches DEF AdminPassword, Answered, DataTyped, Copies, Creds,
       OperatorKeys,
         services, canonical, Reaches, Resumes
  <2> QED  BY <2>1, OrderedKept DEF Copies
<1>5. CASE AdminUser
  BY <1>5, SentIs, MovedReaches, OrderedKept DEF AdminUser, Reaches, Resumes, Creds, DataTyped
<1>6. CASE Team
  BY <1>6, EnsureIs, MovedReaches, OrderedKept DEF Team, Reaches, Resumes, Named
<1>7. CASE BotUser
  BY <1>7, EnsureIs, GoToIs, MovedReaches, OrderedKept DEF BotUser, Reaches, Resumes, Named
<1>8. CASE RecoverToken
  BY <1>8, GoToIs, RevokeIs, MovedReaches, OrderedKept DEF RecoverToken, Reaches, Resumes, Creds
<1>9. CASE MintBot
  <2>1. pc' = "save_bot" => mem' = Fresh
    BY <1>9, MintIs, LostReaches DEF MintBot, Creds, Resumes
  <2>2. UNCHANGED <<mark, vault, env>> /\ live'["client"] = live["client"]
    BY <1>9, MintIs DEF MintBot, Creds, canonical
  <2>3. env["bot"] <= Fresh
    BY CopiesAre DEF Numbers, Creds, Fresh, DataTyped, Copies
  <2> QED  BY <2>1, <2>2, <2>3, CopiesAre DEF Ordered
<1>10. CASE SaveBot
  <2>1. /\ env'["bot"] = mem /\ \A s \in Copies \ {"bot"} : env'[s] = env[s]
        /\ UNCHANGED <<live, mark, vault>> /\ pc' # "save_bot"
    BY <1>10, SaveIs, MovedReaches DEF SaveBot, Creds, OperatorKeys, Copies, services, Reaches,
       Resumes
  <2>2. env["bot"] <= mem
    BY <1>10 DEF SaveBot, Ordered
  <2>3. \A s \in Copies : env[s] <= env'[s]
    BY <2>1, <2>2, CopiesAre
  <2> QED  BY <2>1, <2>3, OrderedRaised DEF Ordered, Copies
<1>11. CASE Webhook
  BY <1>11, EnsureIs, MovedReaches, OrderedKept DEF Webhook, Reaches, Resumes, Named
<1>12. CASE BotCheck
  BY <1>12, OrderedKept DEF BotCheck, Reported, Reaches, Resumes, Creds
<1>13. CASE KestraRow
  BY <1>13, GoToIs, MovedReaches, OrderedKept DEF KestraRow, Reaches, Resumes
<1>14. CASE RouterKey
  <2>1. CASE live["client"] = {}
    <3>1. /\ UNCHANGED <<mark, vault, env>> /\ live'["client"] = {Fresh}
          /\ pc' # "save_bot"
      BY <1>14, <2>1, MintIs, LostReaches, OrderedKept DEF RouterKey, Creds, canonical, Resumes
    <3>2. env["client"] <= Fresh
      BY CopiesAre, OrderedKept DEF Numbers, Creds, Fresh, DataTyped, Copies
    <3> QED  BY <3>1, <3>2, OrderedRaised, CopiesAre
  <2>2. CASE live["client"] # {}
    BY <1>14, <2>2, OrderedKept, OrderedKept DEF RouterKey, Answered, services, canonical
  <2> QED  BY <2>1, <2>2
<1>15. CASE SaveKey
  <2>1. /\ env'["client"] = mem /\ \A s \in Copies \ {"client"} : env'[s] = env[s]
        /\ UNCHANGED <<live, mark, vault>> /\ pc' # "save_bot"
    BY <1>15, SaveIs, MovedReaches DEF SaveKey, Creds, OperatorKeys, Copies, services, Reaches,
       Resumes
  <2>2. live["client"] = {mem}
    BY <1>15 DEF SaveKey, Singles, AtMostOne, Saved, Creds
  <2>3. \A s \in Copies : env[s] <= env'[s]
    BY <2>1, <2>2, CopiesAre DEF Ordered
  <2>4. mem <= mem
    BY DEF DataTyped
  <2> QED  BY <2>1, <2>2, <2>3, <2>4, OrderedRaised
<1>16. CASE Minimax
  <2>1. pc' # "save_bot"
    BY <1>16, CopyIs, GoToIs, MovedReaches DEF Minimax, Reaches, Resumes, Copies
  <2>2. CASE Stale("minimax")
    BY <1>16, <2>1, <2>2, CopyIs, OrderedCopied, OrderedKept DEF Minimax, Copies, canonical
  <2>3. CASE ~Stale("minimax")
    BY <1>16, <2>1, <2>3, GoToIs, OrderedKept, OrderedKept DEF Minimax, canonical, services
  <2> QED  BY <2>2, <2>3
<1>17. CASE MarkMinimax
  BY <1>17, SaveMarkIs, MovedReaches, OrderedMarked DEF MarkMinimax, Copied, Copies, services,
     Reaches, Resumes
<1>18. CASE DeleteModels
  BY <1>18, GoToIs, SentIs, MovedReaches, OrderedKept DEF DeleteModels, Reaches, Resumes, Creds
<1>19. CASE AddModel
  BY <1>19, SentIs, MovedReaches, OrderedKept DEF AddModel, Reaches, Resumes, Creds
<1>20. CASE Route
  BY <1>20, GoToIs, MovedReaches, OrderedKept DEF Route, Reaches, Resumes
<1>21. CASE RouterRow
  BY <1>21, OrderedKept DEF RouterRow, Reported, RouterReady, Reaches, Resumes
<1>22. CASE BoardIdentity
  BY <1>22, GoToIs, MovedReaches, OrderedKept DEF BoardIdentity, Handoff, Reported, Answered,
     Reaches, Resumes
<1>23. CASE SignUp
  BY <1>23, SentIs, MovedReaches, OrderedKept DEF SignUp, Ended, Reaches, Resumes, Creds
<1>24. CASE Accept
  BY <1>24, SentIs, MovedReaches, OrderedKept DEF Accept, Reaches, Resumes, Creds
<1>25. CASE BoardKey
  BY <1>25, MintIs, LostReaches, OrderedKept DEF BoardKey, Reaches, Resumes, Creds
<1>26. CASE SaveBoard
  BY <1>26, SaveIs, MovedReaches, OrderedKept DEF SaveBoard, Reaches, Resumes, Copies,
     OperatorKeys, Creds
<1>27. CASE RuntimeSecurity
  BY <1>27, SetIs, MovedReaches, OrderedKept DEF RuntimeSecurity, Reaches, Resumes, Fields
<1>28. CASE Company
  BY <1>28, EnsureIs, MovedReaches, OrderedKept DEF Company, Reaches, Resumes, Named
<1>29. CASE ResponsibleUser
  BY <1>29, SetIs, MovedReaches, OrderedKept DEF ResponsibleUser, Reaches, Resumes, Fields
<1>30. CASE Project
  BY <1>30, EnsureIs, MovedReaches, OrderedKept DEF Project, Reaches, Resumes, Named
<1>31. CASE Workspace
  BY <1>31, EnsureIs, MovedReaches, OrderedKept DEF Workspace, Reaches, Resumes, Named
<1>32. CASE WorkspacePolicy
  BY <1>32, SetIs, MovedReaches, OrderedKept DEF WorkspacePolicy, Reaches, Resumes, Fields
<1>33. ASSUME NEW s \in Copies, CompanySecret(s) PROVE Ordered'
  BY <1>33, CopyIs, MovedReaches, OrderedCopied DEF CompanySecret, canonical, Reaches, Resumes
<1>34. ASSUME NEW s \in Copies, SecretMark(s) PROVE Ordered'
  <2>1. vault[s] = env[s]
    BY <1>34 DEF SecretMark, Copied
  <2>2. pc' # "save_bot"
    BY <1>34, SaveMarkIs, MovedReaches DEF SecretMark, Reported, Reaches, Resumes
  <2>3. CASE s \in plan
    BY <1>34, <2>1, <2>2, <2>3, SaveMarkIs, OrderedMarked, OrderedKept DEF SecretMark, services
  <2>4. CASE s \notin plan
    BY <1>34, <2>2, <2>4, OrderedKept, OrderedKept DEF SecretMark, Reported, services, canonical
  <2> QED  BY <2>3, <2>4
<1>35. CASE SecretsDone
  BY <1>35, GoToIs, MovedReaches, OrderedKept DEF SecretsDone, Reaches, Resumes
<1>36. CASE Definition
  BY <1>36, EnsureIs, MovedReaches, OrderedKept DEF Definition, Reaches, Resumes, Named
<1>37. CASE UserSecret
  <2>1. pc' # "save_bot"
    BY <1>37, CopyIs, GoToIs, MovedReaches DEF UserSecret, Reaches, Resumes, Copies
  <2>2. CASE Stale("github")
    BY <1>37, <2>1, <2>2, CopyIs, OrderedCopied, OrderedKept DEF UserSecret, Copies, canonical
  <2>3. CASE ~Stale("github")
    BY <1>37, <2>1, <2>3, GoToIs, OrderedKept, OrderedKept DEF UserSecret, canonical, services
  <2> QED  BY <2>2, <2>3
<1>38. CASE UserSecretMark
  BY <1>38, SaveMarkIs, MovedReaches, OrderedMarked DEF UserSecretMark, Copied, Copies,
     services, Reaches, Resumes
<1>39. CASE Skill
  BY <1>39, EnsureIs, MovedReaches, OrderedKept DEF Skill, Reaches, Resumes, Named
<1>40. CASE ProfileAgent
  BY <1>40, EnsureIs, MovedReaches, OrderedKept DEF ProfileAgent, Reaches, Resumes, Named
<1>41. CASE BindProfile
  BY <1>41, BindIs, HoldersAre, MovedReaches, OrderedKept DEF BindProfile, Reaches, Resumes
<1>42. CASE PlaceAgent
  BY <1>42, SetIs, GoToIs, MovedReaches, OrderedKept DEF PlaceAgent, Reaches, Resumes, Fields
<1>43. CASE BindProject
  BY <1>43, BindIs, HoldersAre, MovedReaches, OrderedKept DEF BindProject, Reaches, Resumes
<1>44. CASE ServiceAgent
  BY <1>44, ServiceAgentIs, MovedReaches, MovedReaches, OrderedKept DEF Reaches, Resumes, Creds
<1>45. CASE BindService
  BY <1>45, BindIs, HoldersAre, MovedReaches, OrderedKept DEF BindService, Reaches, Resumes
<1>46. CASE AgentKey
  BY <1>46, GoToIs, MovedReaches, OrderedKept DEF AgentKey, Reaches, Resumes, Creds
<1>47. CASE AgentRenew
  BY <1>47, RevokeIs, GoToIs, MovedReaches, OrderedKept DEF AgentRenew, Reaches, Resumes, Creds
<1>48. CASE AgentMint
  BY <1>48, MintIs, LostReaches, OrderedKept DEF AgentMint, Reaches, Resumes, Creds
<1>49. CASE SaveAgent
  BY <1>49, SaveIs, MovedReaches, OrderedKept DEF SaveAgent, Reaches, Resumes, Copies,
     OperatorKeys, Creds
<1>50. CASE PaperclipRow
  BY <1>50, OrderedKept DEF PaperclipRow, Reported, PaperclipReady, Reaches, Resumes
<1>51. CASE Render
  BY <1>51, OrderedKept DEF Render, Reaches, Resumes
<1>52. CASE BootstrapStep
  BY <1>1, <1>2, <1>3, <1>52, Zenon DEF BootstrapStep
<1>53. CASE MattermostStep
  BY <1>4, <1>5, <1>6, <1>7, <1>8, <1>9, <1>10, <1>11, <1>12, <1>13, <1>53, Zenon DEF
     MattermostStep
<1>54. CASE RouterStep
  BY <1>14, <1>15, <1>16, <1>17, <1>18, <1>19, <1>20, <1>21, <1>54, Zenon DEF RouterStep
<1>55. CASE BoardStep
  BY <1>22, <1>23, <1>24, <1>25, <1>26, <1>55, Zenon DEF BoardStep
<1>56. CASE CompanyStep
  BY <1>27, <1>28, <1>29, <1>30, <1>31, <1>32, <1>33, <1>34, <1>35, <1>36, <1>37, <1>38, <1>39,
     <1>56, Zenon DEF CompanyStep
<1>57. CASE AgentStep
  BY <1>40, <1>41, <1>42, <1>43, <1>44, <1>45, <1>46, <1>47, <1>48, <1>49, <1>50, <1>51, <1>57,
     Zenon DEF AgentStep
<1>58. CASE Step
  BY <1>52, <1>53, <1>54, <1>55, <1>56, <1>57, <1>58, StepIsOf, Zenon
<1>59. CASE \E g \in Groups : Begin(g)
  BY <1>59, OrderedKept DEF Begin, CanonicalMutationPlan
<1>60. CASE BeginBootstrap
  BY <1>60, OrderedKept DEF BeginBootstrap, CanonicalMutationPlan
<1>61. CASE NoAnswer
  BY <1>61, UnansweredIs, LostReaches, OrderedKept DEF NoAnswer, Resumes
<1>62. CASE Kill
  BY <1>62, OrderedKept DEF Kill
<1>63. CASE Event
  <2>1. CASE MattermostReset
    BY <1>63, <2>1, MattermostResetIs, OrderedKept DEF Event, Creds
  <2>2. CASE RouterReset
    <3>1. /\ live'["client"] = {} /\ vault'["minimax"] = 0 /\ env' = env /\ mark' = mark
          /\ \A s \in Copies : s # "minimax" => vault'[s] = vault[s]
          /\ pc' # "save_bot"
      BY <1>63, <2>2 DEF RouterReset, Event, DataTyped, Creds, Copies, canonical
    <3>2. \A s \in Copies : vault'[s] <= env[s] /\ (vault'[s] = 0 \/ mark[s] <= vault'[s])
      BY <3>1, CopiesAre DEF Ordered, Copies
    <3> QED  BY <3>1, <3>2 DEF Ordered, Copies
  <2>3. CASE KeyRevoked
    BY <1>63, <2>3, OrderedKept DEF KeyRevoked, Event, DataTyped, Creds
  <2>4. CASE FieldChanged
    BY <1>63, <2>4, OrderedKept DEF FieldChanged, Event
  <2>5. CASE KeyChanged
    <3>1. PICK k \in OperatorKeys : env' = [env EXCEPT ![k] = Fresh]
      BY <1>63, <2>5 DEF KeyChanged
    <3>2. /\ env'[k] = Fresh /\ \A s \in Copies : s # k => env'[s] = env[s]
          /\ env'["client"] = env["client"] /\ UNCHANGED <<live, mark, vault>> /\ pc' # "save_bot"
      BY <1>63, <2>5, <3>1 DEF KeyChanged, Event, DataTyped, Creds, Copies, OperatorKeys, services
    <3>3. \A s \in Copies : env[s] <= env'[s]
      BY <3>2, CopiesAre DEF Numbers, Creds, Copies, OperatorKeys, Fresh, DataTyped
    <3> QED  BY <3>2, <3>3, OrderedRaised DEF Ordered
  <2> QED  BY <1>63, <2>1, <2>2, <2>3, <2>4, <2>5 DEF Event
<1>64. CASE EnvironmentMade
  BY <1>64, OrderedKept DEF EnvironmentMade
<1>65. CASE Redeem
  BY <1>65, OrderedKept DEF Redeem
<1>66. CASE UNCHANGED vars
  BY <1>66, OrderedIdle DEF vars
<1> QED  BY <1>58, <1>59, <1>60, <1>61, <1>62, <1>63, <1>64, <1>65, <1>66 DEF ProvisioningNext

-----------------------------------------------------------------------------
(* What is about to be marked.                                             *)

\* The copies are only looked at where they are marked.
LEMMA CopiedElsewhere ==
    ASSUME pc' \notin {"mark_minimax", "mark_user", "mark_secret"}
    PROVE  Copied'
BY DEF Copied

\* What is about to be marked has been copied.  Of the two company secrets one is
\* due at a time.
LEMMA CopiedStep ==
    ASSUME DataTyped, Ordered, Copied, [ProvisioningNext]_vars
    PROVE  Copied'
<1> USE DEF pass
<1>1. CASE BootstrapKey
  BY <1>1, MintIs, LostReaches, CopiedElsewhere DEF BootstrapKey, Answered, Reaches, Resumes,
     Creds
<1>2. CASE BootstrapTry
  BY <1>2, GoToIs, MovedReaches, CopiedElsewhere DEF BootstrapTry, Ended, Reaches, Resumes
<1>3. CASE BootstrapSave
  BY <1>3, CopiedElsewhere DEF BootstrapSave, Reaches, Resumes
<1>4. CASE AdminPassword
  BY <1>4, GoToIs, MovedReaches, CopiedElsewhere DEF AdminPassword, Answered, Reaches, Resumes
<1>5. CASE AdminUser
  BY <1>5, SentIs, MovedReaches, CopiedElsewhere DEF AdminUser, Reaches, Resumes
<1>6. CASE Team
  BY <1>6, EnsureIs, MovedReaches, CopiedElsewhere DEF Team, Reaches, Resumes, Named
<1>7. CASE BotUser
  BY <1>7, EnsureIs, GoToIs, MovedReaches, CopiedElsewhere DEF BotUser, Reaches, Resumes, Named
<1>8. CASE RecoverToken
  BY <1>8, GoToIs, RevokeIs, MovedReaches, CopiedElsewhere DEF RecoverToken, Reaches, Resumes,
     Creds
<1>9. CASE MintBot
  BY <1>9, MintIs, LostReaches, CopiedElsewhere DEF MintBot, Reaches, Resumes, Creds
<1>10. CASE SaveBot
  BY <1>10, SaveIs, MovedReaches, CopiedElsewhere DEF SaveBot, Reaches, Resumes, Creds
<1>11. CASE Webhook
  BY <1>11, EnsureIs, MovedReaches, CopiedElsewhere DEF Webhook, Reaches, Resumes, Named
<1>12. CASE BotCheck
  BY <1>12, CopiedElsewhere DEF BotCheck, Reported, Reaches, Resumes
<1>13. CASE KestraRow
  BY <1>13, GoToIs, MovedReaches, CopiedElsewhere DEF KestraRow, Reaches, Resumes
<1>14. CASE RouterKey
  BY <1>14, MintIs, LostReaches, CopiedElsewhere DEF RouterKey, Answered, Reaches, Resumes, Creds
<1>15. CASE SaveKey
  BY <1>15, SaveIs, MovedReaches, CopiedElsewhere DEF SaveKey, Reaches, Resumes, Creds
<1>16. CASE Minimax
  <2>1. CASE Stale("minimax")
    BY <1>16, <2>1, CopyIs, MovedReaches, CopiedElsewhere DEF Minimax, Copies, Copied,
       canonical, Reaches, Resumes
  <2>2. CASE ~Stale("minimax")
    BY <1>16, <2>2, GoToIs, MovedReaches, CopiedElsewhere, CopiedElsewhere DEF Minimax, Reaches,
       Resumes
  <2> QED  BY <2>1, <2>2
<1>17. CASE MarkMinimax
  BY <1>17, SaveMarkIs, MovedReaches, CopiedElsewhere DEF MarkMinimax, Reaches, Resumes, Copies
<1>18. CASE DeleteModels
  BY <1>18, GoToIs, SentIs, MovedReaches, CopiedElsewhere DEF DeleteModels, Reaches, Resumes
<1>19. CASE AddModel
  BY <1>19, SentIs, MovedReaches, CopiedElsewhere DEF AddModel, Reaches, Resumes
<1>20. CASE Route
  BY <1>20, GoToIs, MovedReaches, CopiedElsewhere DEF Route, Reaches, Resumes
<1>21. CASE RouterRow
  BY <1>21, CopiedElsewhere DEF RouterRow, Reported, RouterReady, Reaches, Resumes
<1>22. CASE BoardIdentity
  BY <1>22, GoToIs, MovedReaches, CopiedElsewhere DEF BoardIdentity, Handoff, Reported,
     Answered, Reaches, Resumes
<1>23. CASE SignUp
  BY <1>23, SentIs, MovedReaches, CopiedElsewhere DEF SignUp, Ended, Reaches, Resumes
<1>24. CASE Accept
  BY <1>24, SentIs, MovedReaches, CopiedElsewhere DEF Accept, Reaches, Resumes
<1>25. CASE BoardKey
  BY <1>25, MintIs, LostReaches, CopiedElsewhere DEF BoardKey, Reaches, Resumes, Creds
<1>26. CASE SaveBoard
  BY <1>26, SaveIs, MovedReaches, CopiedElsewhere DEF SaveBoard, Reaches, Resumes, Creds
<1>27. CASE RuntimeSecurity
  BY <1>27, SetIs, MovedReaches, CopiedElsewhere DEF RuntimeSecurity, Reaches, Resumes, Fields
<1>28. CASE Company
  BY <1>28, EnsureIs, MovedReaches, CopiedElsewhere DEF Company, Reaches, Resumes, Named
<1>29. CASE ResponsibleUser
  BY <1>29, SetIs, MovedReaches, CopiedElsewhere DEF ResponsibleUser, Reaches, Resumes, Fields
<1>30. CASE Project
  BY <1>30, EnsureIs, MovedReaches, CopiedElsewhere DEF Project, Reaches, Resumes, Named
<1>31. CASE Workspace
  BY <1>31, EnsureIs, MovedReaches, CopiedElsewhere DEF Workspace, Reaches, Resumes, Named
<1>32. CASE WorkspacePolicy
  BY <1>32, SetIs, MovedReaches, CopiedElsewhere DEF WorkspacePolicy, Reaches, Resumes, Fields
<1>33. ASSUME NEW s \in Copies, CompanySecret(s) PROVE Copied'
  <2>1. /\ vault'[s] = env[s] /\ \A d \in Copies : d # s => vault'[d] = vault[d]
        /\ env' = env /\ mark' = mark
        /\ pc' \notin {"mark_minimax", "mark_user"}
    BY <1>33, CopyIs, MovedReaches DEF CompanySecret, canonical, Reaches, Resumes
  <2>2. s \in {"bot", "client"} /\ Due(s) /\ vault' \in [Copies -> Nat]
    BY <1>33, CopyIs DEF CompanySecret, Due, Bound, Copies, OperatorKeys
  <2>3. ASSUME NEW d \in Copies, d # s, Due(d)' PROVE FALSE
    <3>1. d \in {"bot", "client"} /\ Bound(d)
      BY <2>1, <2>3 DEF Due, Bound, Stale, CopyOf, Copies, OperatorKeys
    <3>2. CASE d = "bot"
      BY <2>2, <2>3, <3>1, <3>2, CopiedElsewhere DEF Due
    <3>3. CASE d = "client"
      <4>1. s = "bot" /\ ~Bound("bot")'
        BY <2>2, <2>3, <3>3, CopiedElsewhere DEF Due
      <4>2. mark["bot"] = env["bot"] /\ env["bot"] # 0
        BY <2>1, <2>2, <4>1, CopiedElsewhere DEF Bound, Stale, CopyOf, Due, Copies, OperatorKeys
      <4>3. vault["bot"] = 0
        BY <2>2, <4>1, <4>2, CopiedElsewhere DEF Due, Bound, Stale, CopyOf
      <4> QED  BY <4>2, <4>3 DEF Ordered
    <3> QED  BY <3>1, <3>2, <3>3
  <2> QED  BY <2>1, <2>3 DEF Copied
<1>34. ASSUME NEW s \in Copies, SecretMark(s) PROVE Copied'
  BY <1>34, SaveMarkIs, MovedReaches, CopiedElsewhere DEF SecretMark, Reported, Reaches,
     Resumes, Copies
<1>35. CASE SecretsDone
  BY <1>35, GoToIs, MovedReaches, CopiedElsewhere DEF SecretsDone, Reaches, Resumes
<1>36. CASE Definition
  BY <1>36, EnsureIs, MovedReaches, CopiedElsewhere DEF Definition, Reaches, Resumes, Named
<1>37. CASE UserSecret
  <2>1. CASE Stale("github")
    BY <1>37, <2>1, CopyIs, MovedReaches, CopiedElsewhere DEF UserSecret, Copies, Copied,
       canonical, Reaches, Resumes
  <2>2. CASE ~Stale("github")
    BY <1>37, <2>2, GoToIs, MovedReaches, CopiedElsewhere, CopiedElsewhere DEF UserSecret,
       Reaches, Resumes
  <2> QED  BY <2>1, <2>2
<1>38. CASE UserSecretMark
  BY <1>38, SaveMarkIs, MovedReaches, CopiedElsewhere DEF UserSecretMark, Reaches, Resumes, Copies
<1>39. CASE Skill
  BY <1>39, EnsureIs, MovedReaches, CopiedElsewhere DEF Skill, Reaches, Resumes, Named
<1>40. CASE ProfileAgent
  BY <1>40, EnsureIs, MovedReaches, CopiedElsewhere DEF ProfileAgent, Reaches, Resumes, Named
<1>41. CASE BindProfile
  BY <1>41, BindIs, HoldersAre, MovedReaches, CopiedElsewhere DEF BindProfile, Reaches, Resumes
<1>42. CASE PlaceAgent
  BY <1>42, SetIs, GoToIs, MovedReaches, CopiedElsewhere DEF PlaceAgent, Reaches, Resumes, Fields
<1>43. CASE BindProject
  BY <1>43, BindIs, HoldersAre, MovedReaches, CopiedElsewhere DEF BindProject, Reaches, Resumes
<1>44. CASE ServiceAgent
  BY <1>44, ServiceAgentIs, MovedReaches, MovedReaches, CopiedElsewhere DEF Reaches, Resumes
<1>45. CASE BindService
  BY <1>45, BindIs, HoldersAre, MovedReaches, CopiedElsewhere DEF BindService, Reaches, Resumes
<1>46. CASE AgentKey
  BY <1>46, GoToIs, MovedReaches, CopiedElsewhere DEF AgentKey, Reaches, Resumes
<1>47. CASE AgentRenew
  BY <1>47, RevokeIs, GoToIs, MovedReaches, CopiedElsewhere DEF AgentRenew, Reaches, Resumes,
     Creds
<1>48. CASE AgentMint
  BY <1>48, MintIs, LostReaches, CopiedElsewhere DEF AgentMint, Reaches, Resumes, Creds
<1>49. CASE SaveAgent
  BY <1>49, SaveIs, MovedReaches, CopiedElsewhere DEF SaveAgent, Reaches, Resumes, Creds
<1>50. CASE PaperclipRow
  BY <1>50, CopiedElsewhere DEF PaperclipRow, Reported, PaperclipReady, Reaches, Resumes
<1>51. CASE Render
  BY <1>51, CopiedElsewhere DEF Render, Reaches, Resumes
<1>52. CASE BootstrapStep
  BY <1>1, <1>2, <1>3, <1>52, Zenon DEF BootstrapStep
<1>53. CASE MattermostStep
  BY <1>4, <1>5, <1>6, <1>7, <1>8, <1>9, <1>10, <1>11, <1>12, <1>13, <1>53, Zenon DEF
     MattermostStep
<1>54. CASE RouterStep
  BY <1>14, <1>15, <1>16, <1>17, <1>18, <1>19, <1>20, <1>21, <1>54, Zenon DEF RouterStep
<1>55. CASE BoardStep
  BY <1>22, <1>23, <1>24, <1>25, <1>26, <1>55, Zenon DEF BoardStep
<1>56. CASE CompanyStep
  BY <1>27, <1>28, <1>29, <1>30, <1>31, <1>32, <1>33, <1>34, <1>35, <1>36, <1>37, <1>38, <1>39,
     <1>56, Zenon DEF CompanyStep
<1>57. CASE AgentStep
  BY <1>40, <1>41, <1>42, <1>43, <1>44, <1>45, <1>46, <1>47, <1>48, <1>49, <1>50, <1>51, <1>57,
     Zenon DEF AgentStep
<1>58. CASE Step
  BY <1>52, <1>53, <1>54, <1>55, <1>56, <1>57, <1>58, StepIsOf, Zenon
<1>59. CASE \E g \in Groups : Begin(g)
  BY <1>59, CopiedElsewhere DEF Begin, CanonicalMutationPlan
<1>60. CASE BeginBootstrap
  BY <1>60, CopiedElsewhere DEF BeginBootstrap, CanonicalMutationPlan
<1>61. CASE NoAnswer
  BY <1>61, UnansweredIs, LostReaches, CopiedElsewhere DEF NoAnswer, Resumes
<1>62. CASE Kill
  BY <1>62, CopiedElsewhere DEF Kill
<1>63. CASE Event
  <2>1. CASE MattermostReset
    BY <1>63, <2>1, MattermostResetIs, CopiedElsewhere DEF Event
  <2>2. CASE RouterReset
    BY <1>63, <2>2, CopiedElsewhere DEF RouterReset, Event
  <2>3. CASE KeyRevoked
    BY <1>63, <2>3, CopiedElsewhere DEF KeyRevoked, Event
  <2>4. CASE FieldChanged
    BY <1>63, <2>4, CopiedElsewhere DEF FieldChanged, Event
  <2>5. CASE KeyChanged
    BY <1>63, <2>5, CopiedElsewhere DEF KeyChanged, Event
  <2> QED  BY <1>63, <2>1, <2>2, <2>3, <2>4, <2>5 DEF Event
<1>64. CASE EnvironmentMade
  BY <1>64, CopiedElsewhere DEF EnvironmentMade
<1>65. CASE Redeem
  BY <1>65, CopiedElsewhere DEF Redeem
<1>66. CASE UNCHANGED vars
  BY <1>66 DEF vars, services, canonical, Copied, Due, Bound, Stale, CopyOf
<1> QED  BY <1>58, <1>59, <1>60, <1>61, <1>62, <1>63, <1>64, <1>65, <1>66 DEF ProvisioningNext

-----------------------------------------------------------------------------
(* What a pass achieves.                                                   *)

\* What a step of the pass leaves: the objects that are there, the state of
\* Mattermost, of 9Router and of Paperclip.
KeepsObjects == \A o \in Named : objs[o] # 0 => objs'[o] # 0

\* The token of the bot.
KeepsBot == env'["bot"] = env["bot"] /\ live'["bot"] = live["bot"]

\* The key, the connection and the model of 9Router.
KeepsRouter ==
    /\ env'["client"] = env["client"] /\ live'["client"] = live["client"]
    /\ env'["minimax"] = env["minimax"] /\ mark'["minimax"] = mark["minimax"]
    /\ vault'["minimax"] = vault["minimax"] /\ model' = model

\* The board key, the fields and the copies.
KeepsPaperclip ==
    /\ env["board"] # 0 => env'["board"] # 0
    /\ fields \subseteq fields'
    /\ \A s \in {"bot", "client", "github"} :
          env'[s] = env[s] /\ (vault[s] = env[s] => vault'[s] = env[s])

\* All of that.
Keeps == KeepsObjects /\ KeepsBot /\ KeepsRouter /\ KeepsPaperclip

\* What was achieved with objects stands while these are there, ...
LEMMA ObjectsStand ==
    ASSUME KeepsObjects
    PROVE  /\ AdminDone => AdminDone'
           /\ TeamDone => TeamDone'
           /\ BotDone => BotDone'
           /\ HookDone => HookDone'
BY DEF KeepsObjects, Named, AdminDone, TeamDone, BotDone, HookDone

\* ... what was achieved in Mattermost while the token stays, ...
LEMMA MattermostStands ==
    ASSUME KeepsObjects, KeepsBot
    PROVE  MattermostDone => MattermostDone'
BY ObjectsStand DEF KeepsBot, MattermostDone

\* ... and the rest while the copies and the fields do.
LEMMA Stands ==
    ASSUME Keeps
    PROVE  /\ MattermostDone => MattermostDone'
           /\ RouterDone => RouterDone'
           /\ BoardDone => BoardDone'
           /\ RuntimeDone => RuntimeDone'
           /\ CompanyDone => CompanyDone'
           /\ ProjectDone => ProjectDone'
           /\ WorkspaceDone => WorkspaceDone'
           /\ SecretsCopied => SecretsCopied'
           /\ DefinitionDone => DefinitionDone'
           /\ UserSecretDone => UserSecretDone'
           /\ SkillDone => SkillDone'
           /\ ProfileDone => ProfileDone'
<1>1. MattermostDone => MattermostDone'
  BY MattermostStands DEF Keeps
<1>2. RouterDone => RouterDone'
  BY <1>1 DEF Keeps, KeepsRouter, RouterDone, RouterReady, Stale, CopyOf
<1>3. BoardDone => BoardDone'
  BY <1>2 DEF Keeps, KeepsPaperclip, BoardDone
<1>4. RuntimeDone => RuntimeDone'
  BY <1>3 DEF Keeps, KeepsPaperclip, RuntimeDone
<1>5. CompanyDone => CompanyDone'
  BY <1>4 DEF Keeps, KeepsObjects, Named, CompanyDone
<1>6. ProjectDone => ProjectDone'
  BY <1>5 DEF Keeps, KeepsObjects, Named, ProjectDone
<1>7. WorkspaceDone => WorkspaceDone'
  BY <1>6 DEF Keeps, KeepsObjects, Named, WorkspaceDone
<1>8. SecretsCopied => SecretsCopied'
  BY <1>7 DEF Keeps, KeepsPaperclip, SecretsCopied
<1>9. DefinitionDone => DefinitionDone'
  BY <1>8 DEF Keeps, KeepsObjects, Named, DefinitionDone
<1>10. UserSecretDone => UserSecretDone'
  BY <1>9 DEF Keeps, KeepsPaperclip, UserSecretDone
<1>11. SkillDone => SkillDone'
  BY <1>10 DEF Keeps, KeepsObjects, Named, SkillDone
<1>12. ProfileDone => ProfileDone'
  BY <1>11 DEF Keeps, KeepsObjects, Named, ProfileDone
<1> QED  BY <1>1, <1>2, <1>3, <1>4, <1>5, <1>6, <1>7, <1>8, <1>9, <1>10, <1>11, <1>12

\* References stand until they are set again.
LEMMA BindingsStand ==
    ASSUME Keeps
    PROVE  /\ ProjectBound /\ refs'["project"] = refs["project"] => ProjectBound'
           /\ ServiceDone /\ refs'["project"] = refs["project"] => ServiceDone'
           /\ ServiceBound /\ UNCHANGED refs => ServiceBound'
<1>1. ProjectBound /\ refs'["project"] = refs["project"] => ProjectBound'
  BY Stands DEF ProjectBound
<1>2. ServiceDone /\ refs'["project"] = refs["project"] => ServiceDone'
  BY <1>1 DEF Keeps, KeepsObjects, KeepsPaperclip, Named, ServiceDone
<1> QED  BY <1>1, <1>2 DEF ServiceBound

\* A pass in which no adapter has failed got every answer.
LEMMA MovedReady ==
    ASSUME NEW next, Moved(next), ~failed'
    PROVE  pc' = next /\ ~failed
BY DEF Moved, Lost

\* A lost answer makes the adapter fail.
LEMMA LostFails == Lost => failed'
BY DEF Lost

\* A mark that is current says that the copy is.
LEMMA NotStale ==
    ASSUME DataTyped, Ordered, NEW s \in Copies, ~Stale(s)
    PROVE  vault[s] = env[s]
BY DEF DataTyped, Ordered, Stale, CopyOf, Copies, Creds, OperatorKeys

\* An active credential has a number.
LEMMA LiveIsNotZero ==
    ASSUME Numbers, NEW c \in Creds, env[c] \in live[c]
    PROVE  env[c] # 0
BY DEF Numbers

\* When the secrets have been copied, an object should refer to all of its own.
LEMMA WantedIsAll ==
    ASSUME DataTyped, Numbers, SecretsCopied
    PROVE  \A h \in {"project", "service_agent"} : Wanted(h) = Refers[h]
<1>1. env["bot"] # 0 /\ env["client"] # 0
  BY LiveIsNotZero DEF SecretsCopied, WorkspaceDone, ProjectDone, CompanyDone, RuntimeDone,
     BoardDone, RouterDone, MattermostDone, RouterReady, Creds
<1>2. vault["bot"] # 0 /\ vault["client"] # 0
  BY <1>1 DEF SecretsCopied
<1> QED  BY <1>1, <1>2 DEF Wanted, Refers

\* A pass that goes on without a failure achieves one thing after the other.
LEMMA ProgressStep ==
    ASSUME DataTyped, Numbers, Saved, Ordered, Copied, Progress, [ProvisioningNext]_vars
    PROVE  Progress'
<1> SUFFICES ASSUME ~failed' PROVE Progress'
  BY DEF Progress
<1>1. CASE BootstrapKey
  <2>1. pc' \in {"idle", "admin", "boot_key", "boot_try", "boot_save"}
    BY <1>1, MintIs, LostFails DEF BootstrapKey, Answered, Creds
  <2> QED  BY <2>1 DEF Progress, Router, Board
<1>2. CASE BootstrapTry
  <2>1. pc' \in {"idle", "admin", "boot_key", "boot_try", "boot_save"}
    BY <1>2, GoToIs, MovedReady DEF BootstrapTry, Ended
  <2> QED  BY <2>1 DEF Progress, Router, Board
<1>3. CASE BootstrapSave
  <2>1. pc' \in {"idle", "admin", "boot_key", "boot_try", "boot_save"}
    BY <1>3 DEF BootstrapSave
  <2> QED  BY <2>1 DEF Progress, Router, Board
<1>4. CASE AdminPassword
  <2>1. CASE objs["admin"] # 0
    BY <1>4, <2>1, GoToIs, MovedReady DEF AdminPassword, Progress, Router, Board, AdminDone,
       services
  <2>2. CASE objs["admin"] = 0
    <3>1. pc' = "admin_post"
      BY <1>4, <2>2, GoToIs, MovedReady DEF AdminPassword, Answered
    <3> QED  BY <3>1 DEF Progress, Router, Board
  <2> QED  BY <2>1, <2>2 DEF DataTyped, Named
<1>5. CASE AdminUser
  <2>1. pc' = "team" /\ objs'["admin"] # 0
    BY <1>5, SentIs, MovedReady DEF AdminUser, DataTyped, Named
  <2> QED  BY <2>1 DEF Progress, Router, Board, AdminDone
<1>6. CASE Team
  <2>1. /\ pc' = "user" /\ ~failed /\ KeepsObjects
        /\ objs'["team"] # 0
    BY <1>6, EnsureIs, MovedReady DEF Team, Named, KeepsObjects, services, links, canonical
  <2>2. AdminDone
    BY <1>6, <2>1 DEF Team, Progress, Router, Board
  <2> QED  BY <2>1, <2>2, ObjectsStand DEF Progress, Router, Board, TeamDone
<1>7. CASE BotUser
  <2>1. /\ pc' \in {"token", "recover"} /\ ~failed /\ KeepsObjects
        /\ objs'["bot_user"] # 0
    BY <1>7, EnsureIs, GoToIs, MovedReady DEF BotUser, Named, KeepsObjects, services
  <2>2. TeamDone
    BY <1>7, <2>1 DEF BotUser, Progress, Router, Board
  <2> QED  BY <2>1, <2>2, ObjectsStand DEF Progress, Router, Board, BotDone
<1>8. CASE RecoverToken
  <2>1. /\ pc' \in {"token", "hook"} /\ ~failed /\ KeepsObjects
    BY <1>8, GoToIs, RevokeIs, MovedReady DEF RecoverToken, Creds, KeepsObjects, services,
       links, canonical
  <2>2. BotDone
    BY <1>8, <2>1 DEF RecoverToken, Progress, Router, Board
  <2> QED  BY <2>1, <2>2, ObjectsStand DEF Progress, Router, Board
<1>9. CASE MintBot
  <2>1. /\ pc' = "save_bot" /\ ~failed /\ KeepsObjects
    BY <1>9, MintIs, LostFails DEF MintBot, Creds, KeepsObjects, services, links, canonical
  <2>2. BotDone
    BY <1>9, <2>1 DEF MintBot, Progress, Router, Board
  <2> QED  BY <2>1, <2>2, ObjectsStand DEF Progress, Router, Board
<1>10. CASE SaveBot
  <2>1. /\ pc' = "hook" /\ ~failed /\ KeepsObjects
    BY <1>10, SaveIs, MovedReady DEF SaveBot, Creds, KeepsObjects, services, links, canonical
  <2>2. BotDone
    BY <1>10, <2>1 DEF SaveBot, Progress, Router, Board
  <2> QED  BY <2>1, <2>2, ObjectsStand DEF Progress, Router, Board
<1>11. CASE Webhook
  <2>1. /\ pc' = "bot_check" /\ ~failed /\ KeepsObjects
        /\ objs'["webhook"] # 0
    BY <1>11, EnsureIs, MovedReady DEF Webhook, Named, KeepsObjects, services, links, canonical
  <2>2. BotDone
    BY <1>11, <2>1 DEF Webhook, Progress, Router, Board
  <2> QED  BY <2>1, <2>2, ObjectsStand DEF Progress, Router, Board, HookDone
<1>12. CASE BotCheck
  <2>1. /\ pc' = "kestra" /\ ~failed /\ KeepsObjects
        /\ (env["bot"] \in live["bot"])'
    BY <1>12 DEF BotCheck, Reported, KeepsObjects, services, links, canonical
  <2>2. HookDone
    BY <1>12, <2>1 DEF BotCheck, Progress, Router, Board
  <2> QED  BY <2>1, <2>2, ObjectsStand DEF Progress, Router, Board, MattermostDone
<1>13. CASE KestraRow
  <2>1. /\ pc' = "key" /\ ~failed /\ KeepsObjects /\ KeepsBot
    BY <1>13, GoToIs, MovedReady DEF KestraRow, Named, KeepsObjects, KeepsBot, services, links,
       canonical
  <2>2. MattermostDone
    BY <1>13, <2>1 DEF KestraRow, Progress, Router, Board
  <2> QED  BY <2>1, <2>2, MattermostStands DEF Progress, Router, Board
<1>14. CASE RouterKey
  <2>1. /\ pc' = "save_key" /\ ~failed /\ KeepsObjects /\ KeepsBot
    BY <1>14, MintIs, LostFails DEF RouterKey, Answered, Creds, KeepsObjects, KeepsBot,
       services, links, canonical
  <2>2. MattermostDone
    BY <1>14, <2>1 DEF RouterKey, Progress, Router, Board
  <2> QED  BY <2>1, <2>2, MattermostStands DEF Progress, Router, Board
<1>15. CASE SaveKey
  <2>1. /\ pc' = "minimax" /\ ~failed /\ KeepsObjects /\ KeepsBot
    BY <1>15, SaveIs, MovedReady DEF SaveKey, Creds, OperatorKeys, KeepsObjects, KeepsBot,
       services, links, canonical
  <2>2. MattermostDone
    BY <1>15, <2>1 DEF SaveKey, Progress, Router, Board
  <2> QED  BY <2>1, <2>2, MattermostStands DEF Progress, Router, Board
<1>16. CASE Minimax
  <2>1. /\ pc' \in {"mark_minimax", "model"} /\ ~failed /\ KeepsObjects /\ KeepsBot
    BY <1>16, CopyIs, GoToIs, MovedReady DEF Minimax, Copies, KeepsObjects, KeepsBot, services,
       links, canonical
  <2>2. MattermostDone
    BY <1>16, <2>1 DEF Minimax, Progress, Router, Board
  <2> QED  BY <2>1, <2>2, MattermostStands DEF Progress, Router, Board
<1>17. CASE MarkMinimax
  <2>1. /\ pc' = "model" /\ ~failed /\ KeepsObjects /\ KeepsBot
    BY <1>17, SaveMarkIs, MovedReady DEF MarkMinimax, Copies, KeepsObjects, KeepsBot, services,
       links, canonical
  <2>2. MattermostDone
    BY <1>17, <2>1 DEF MarkMinimax, Progress, Router, Board
  <2> QED  BY <2>1, <2>2, MattermostStands DEF Progress, Router, Board
<1>18. CASE DeleteModels
  <2>1. /\ pc' \in {"model_add", "route"} /\ ~failed /\ KeepsObjects /\ KeepsBot
    BY <1>18, GoToIs, SentIs, MovedReady DEF DeleteModels, Named, KeepsObjects, KeepsBot,
       services, links, canonical
  <2>2. MattermostDone
    BY <1>18, <2>1 DEF DeleteModels, Progress, Router, Board
  <2> QED  BY <2>1, <2>2, MattermostStands DEF Progress, Router, Board
<1>19. CASE AddModel
  <2>1. /\ pc' = "route" /\ ~failed /\ KeepsObjects /\ KeepsBot
    BY <1>19, SentIs, MovedReady DEF AddModel, Named, KeepsObjects, KeepsBot, services, links,
       canonical
  <2>2. MattermostDone
    BY <1>19, <2>1 DEF AddModel, Progress, Router, Board
  <2> QED  BY <2>1, <2>2, MattermostStands DEF Progress, Router, Board
<1>20. CASE Route
  <2>1. /\ pc' = "router_row" /\ ~failed /\ KeepsObjects /\ KeepsBot
    BY <1>20, GoToIs, MovedReady DEF Route, Named, KeepsObjects, KeepsBot, services, links,
       canonical
  <2>2. MattermostDone
    BY <1>20, <2>1 DEF Route, Progress, Router, Board
  <2> QED  BY <2>1, <2>2, MattermostStands DEF Progress, Router, Board
<1>21. CASE RouterRow
  <2>1. /\ pc' = "board" /\ ~failed /\ KeepsObjects /\ KeepsBot
        /\ RouterReady'
    BY <1>21 DEF RouterRow, Reported, RouterReady, Stale, CopyOf, KeepsObjects, KeepsBot,
       services, links, canonical
  <2>2. MattermostDone
    BY <1>21, <2>1 DEF RouterRow, Progress, Router, Board
  <2> QED  BY <2>1, <2>2, MattermostStands DEF Progress, Router, Board, RouterDone
<1>22. CASE BoardIdentity
  <2>1. /\ pc' \in {"board", "sign_up", "board_key", "runtime"} /\ ~failed /\ Keeps
        /\ pc' = "runtime" => env'["board"] # 0
    <3>1. CASE env["board"] # 0
      BY <1>22, <3>1, GoToIs, MovedReady DEF BoardIdentity, Keeps, KeepsObjects, KeepsBot,
         KeepsRouter, KeepsPaperclip, services, links, canonical
    <3>2. CASE env["board"] = 0 /\ boot # "complete" /\ ~invite
      BY <1>22, <3>2 DEF BoardIdentity, Answered, Keeps, KeepsObjects, KeepsBot, KeepsRouter,
         KeepsPaperclip, services, links, canonical
    <3>3. CASE env["board"] = 0 /\ boot # "complete" /\ invite
      BY <1>22, <3>3 DEF BoardIdentity, Answered, Handoff, Reported, Keeps, KeepsObjects,
         KeepsBot, KeepsRouter, KeepsPaperclip, services, links, canonical
    <3>4. CASE env["board"] = 0 /\ boot = "complete"
      <4>1. IF mode = "machine" /\ machine THEN GoTo("board_key") ELSE Handoff
        BY <1>22, <3>4 DEF BoardIdentity
      <4>2. ~Handoff
        BY DEF Handoff, Reported
      <4>3. GoTo("board_key")
        BY <4>1, <4>2
      <4> QED  BY <4>3, <3>4, GoToIs, MovedReady DEF Keeps, KeepsObjects, KeepsBot, KeepsRouter,
         KeepsPaperclip, services, links, canonical
    <3> QED  BY <3>1, <3>2, <3>3, <3>4
  <2>2. RouterDone
    BY <1>22, <2>1 DEF BoardIdentity, Progress, Router, Board
  <2> QED  BY <2>1, <2>2, Stands DEF Progress, Router, Board, BoardDone
<1>23. CASE SignUp
  <2>1. /\ pc' = "accept" /\ ~failed /\ Keeps
    BY <1>23, SentIs, MovedReady DEF SignUp, Ended, Keeps, KeepsObjects, KeepsBot, KeepsRouter,
       KeepsPaperclip, services, links, canonical
  <2>2. RouterDone
    BY <1>23, <2>1 DEF SignUp, Progress, Router, Board
  <2> QED  BY <2>1, <2>2, Stands DEF Progress, Router, Board
<1>24. CASE Accept
  <2>1. /\ pc' = "board_key" /\ ~failed /\ Keeps
    BY <1>24, SentIs, MovedReady DEF Accept, Named, Keeps, KeepsObjects, KeepsBot, KeepsRouter,
       KeepsPaperclip, services, links, canonical
  <2>2. RouterDone
    BY <1>24, <2>1 DEF Accept, Progress, Router, Board
  <2> QED  BY <2>1, <2>2, Stands DEF Progress, Router, Board
<1>25. CASE BoardKey
  <2>1. /\ pc' = "save_board" /\ ~failed /\ Keeps
    BY <1>25, MintIs, LostFails DEF BoardKey, Creds, Keeps, KeepsObjects, KeepsBot, KeepsRouter,
       KeepsPaperclip, services, links, canonical
  <2>2. RouterDone
    BY <1>25, <2>1 DEF BoardKey, Progress, Router, Board
  <2> QED  BY <2>1, <2>2, Stands DEF Progress, Router, Board
<1>26. CASE SaveBoard
  <2>1. /\ pc' = "runtime" /\ ~failed /\ Keeps
        /\ env'["board"] # 0
    BY <1>26, SaveIs, MovedReady DEF SaveBoard, Creds, OperatorKeys, Numbers, Saved, Keeps,
       KeepsObjects, KeepsBot, KeepsRouter, KeepsPaperclip, services, links, canonical
  <2>2. RouterDone
    BY <1>26, <2>1 DEF SaveBoard, Progress, Router, Board
  <2> QED  BY <2>1, <2>2, Stands DEF Progress, Router, Board, BoardDone
<1>27. CASE RuntimeSecurity
  <2>1. /\ pc' = "company" /\ ~failed /\ Keeps
        /\ "runtime" \in fields'
    BY <1>27, SetIs, MovedReady DEF RuntimeSecurity, Fields, Keeps, KeepsObjects, KeepsBot,
       KeepsRouter, KeepsPaperclip, services, links, canonical
  <2>2. BoardDone
    BY <1>27, <2>1 DEF RuntimeSecurity, Progress, Router, Board
  <2> QED  BY <2>1, <2>2, Stands DEF Progress, Router, Board, RuntimeDone
<1>28. CASE Company
  <2>1. /\ pc' = "responsible" /\ ~failed /\ Keeps
        /\ objs'["company"] # 0
    BY <1>28, EnsureIs, MovedReady DEF Company, Named, Keeps, KeepsObjects, KeepsBot,
       KeepsRouter, KeepsPaperclip, services, links, canonical
  <2>2. RuntimeDone
    BY <1>28, <2>1 DEF Company, Progress, Router, Board
  <2> QED  BY <2>1, <2>2, Stands DEF Progress, Router, Board, CompanyDone
<1>29. CASE ResponsibleUser
  <2>1. /\ pc' = "project" /\ ~failed /\ Keeps
    BY <1>29, SetIs, MovedReady DEF ResponsibleUser, Fields, Keeps, KeepsObjects, KeepsBot,
       KeepsRouter, KeepsPaperclip, services, links, canonical
  <2>2. CompanyDone
    BY <1>29, <2>1 DEF ResponsibleUser, Progress, Router, Board
  <2> QED  BY <2>1, <2>2, Stands DEF Progress, Router, Board
<1>30. CASE Project
  <2>1. /\ pc' = "workspace" /\ ~failed /\ Keeps
        /\ objs'["project"] # 0
    BY <1>30, EnsureIs, MovedReady DEF Project, Named, Keeps, KeepsObjects, KeepsBot,
       KeepsRouter, KeepsPaperclip, services, links, canonical
  <2>2. CompanyDone
    BY <1>30, <2>1 DEF Project, Progress, Router, Board
  <2> QED  BY <2>1, <2>2, Stands DEF Progress, Router, Board, ProjectDone
<1>31. CASE Workspace
  <2>1. /\ pc' = "policy" /\ ~failed /\ Keeps
        /\ objs'["workspace"] # 0
    BY <1>31, EnsureIs, MovedReady DEF Workspace, Named, Keeps, KeepsObjects, KeepsBot,
       KeepsRouter, KeepsPaperclip, services, links, canonical
  <2>2. ProjectDone
    BY <1>31, <2>1 DEF Workspace, Progress, Router, Board
  <2> QED  BY <2>1, <2>2, Stands DEF Progress, Router, Board, WorkspaceDone
<1>32. CASE WorkspacePolicy
  <2>1. /\ pc' = "secrets" /\ ~failed /\ Keeps
    BY <1>32, SetIs, MovedReady DEF WorkspacePolicy, Fields, Keeps, KeepsObjects, KeepsBot,
       KeepsRouter, KeepsPaperclip, services, links, canonical
  <2>2. WorkspaceDone
    BY <1>32, <2>1 DEF WorkspacePolicy, Progress, Router, Board
  <2> QED  BY <2>1, <2>2, Stands DEF Progress, Router, Board
<1>33. ASSUME NEW s \in Copies, CompanySecret(s) PROVE Progress'
  <2>1. /\ pc' = "mark_secret" /\ ~failed /\ Keeps
    BY <1>33, CopyIs, MovedReady DEF CompanySecret, Due, Bound, Copies, OperatorKeys, Keeps,
       KeepsObjects, KeepsBot, KeepsRouter, KeepsPaperclip, services, links, canonical
  <2>2. WorkspaceDone
    BY <1>33, <2>1 DEF CompanySecret, Progress, Router, Board
  <2> QED  BY <2>1, <2>2, Stands DEF Progress, Router, Board
<1>34. ASSUME NEW s \in Copies, SecretMark(s) PROVE Progress'
  <2>1. /\ pc' = "secrets" /\ ~failed /\ Keeps
    BY <1>34, SaveMarkIs, MovedReady DEF SecretMark, Due, Bound, Reported, Copies, OperatorKeys,
       Keeps, KeepsObjects, KeepsBot, KeepsRouter, KeepsPaperclip, services, links, canonical
  <2>2. WorkspaceDone
    BY <1>34, <2>1 DEF SecretMark, Progress, Router, Board
  <2> QED  BY <2>1, <2>2, Stands DEF Progress, Router, Board
<1>35. CASE SecretsDone
  <2>1. pc' = "definition" /\ ~failed /\ Keeps /\ UNCHANGED <<vault, env>>
    BY <1>35, GoToIs, MovedReady DEF SecretsDone, Keeps, KeepsObjects, KeepsBot, KeepsRouter,
       KeepsPaperclip, services, links, canonical
  <2>2. WorkspaceDone
    BY <1>35, <2>1 DEF SecretsDone, Progress
  <2>3. env["bot"] # 0 /\ env["client"] # 0
    BY <2>2, LiveIsNotZero DEF WorkspaceDone, ProjectDone, CompanyDone, RuntimeDone, BoardDone,
       RouterDone, MattermostDone, RouterReady, Creds
  <2>4. vault["bot"] = env["bot"] /\ vault["client"] = env["client"]
    BY <1>35, <2>3, NotStale DEF SecretsDone, Bound, Copies, OperatorKeys
  <2> QED  BY <2>1, <2>2, <2>4, Stands DEF Progress, Router, Board, SecretsCopied
<1>36. CASE Definition
  <2>1. /\ pc' = "user_secret" /\ ~failed /\ Keeps
        /\ objs'["definition"] # 0
    BY <1>36, EnsureIs, MovedReady DEF Definition, Named, Keeps, KeepsObjects, KeepsBot,
       KeepsRouter, KeepsPaperclip, services, links, canonical
  <2>2. SecretsCopied
    BY <1>36, <2>1 DEF Definition, Progress, Router, Board
  <2> QED  BY <2>1, <2>2, Stands DEF Progress, Router, Board, DefinitionDone
<1>37. CASE UserSecret
  <2>1. /\ pc' \in {"mark_user", "skill"} /\ ~failed /\ Keeps
        /\ pc' = "skill" => vault'["github"] = env'["github"]
    BY <1>37, CopyIs, GoToIs, MovedReady, NotStale DEF UserSecret, Copies, Keeps, KeepsObjects,
       KeepsBot, KeepsRouter, KeepsPaperclip, services, links, canonical
  <2>2. DefinitionDone
    BY <1>37, <2>1 DEF UserSecret, Progress
  <2> QED  BY <2>1, <2>2, Stands DEF Progress, Router, Board, UserSecretDone
<1>38. CASE UserSecretMark
  <2>1. /\ pc' = "skill" /\ ~failed /\ Keeps
        /\ vault'["github"] = env'["github"]
    BY <1>38, SaveMarkIs, MovedReady DEF UserSecretMark, Copied, Copies, Keeps, KeepsObjects,
       KeepsBot, KeepsRouter, KeepsPaperclip, services, links, canonical
  <2>2. DefinitionDone
    BY <1>38, <2>1 DEF UserSecretMark, Progress, Router, Board
  <2> QED  BY <2>1, <2>2, Stands DEF Progress, Router, Board, UserSecretDone
<1>39. CASE Skill
  <2>1. /\ pc' = "profile_agent" /\ ~failed /\ Keeps
        /\ objs'["skill"] # 0
    BY <1>39, EnsureIs, MovedReady DEF Skill, Named, Keeps, KeepsObjects, KeepsBot, KeepsRouter,
       KeepsPaperclip, services, links, canonical
  <2>2. UserSecretDone
    BY <1>39, <2>1 DEF Skill, Progress, Router, Board
  <2> QED  BY <2>1, <2>2, Stands DEF Progress, Router, Board, SkillDone
<1>40. CASE ProfileAgent
  <2>1. /\ pc' = "bind_profile" /\ ~failed /\ Keeps
        /\ objs'["profile_agent"] # 0
    BY <1>40, EnsureIs, MovedReady DEF ProfileAgent, Named, Keeps, KeepsObjects, KeepsBot,
       KeepsRouter, KeepsPaperclip, services, links, canonical
  <2>2. SkillDone
    BY <1>40, <2>1 DEF ProfileAgent, Progress, Router, Board
  <2> QED  BY <2>1, <2>2, Stands DEF Progress, Router, Board, ProfileDone
<1>41. CASE BindProfile
  <2>1. /\ pc' = "place" /\ ~failed /\ Keeps
    BY <1>41, BindIs, MovedReady, HoldersAre DEF BindProfile, Named, Keeps, KeepsObjects,
       KeepsBot, KeepsRouter, KeepsPaperclip, services, links, canonical
  <2>2. ProfileDone
    BY <1>41, <2>1 DEF BindProfile, Progress, Router, Board
  <2> QED  BY <2>1, <2>2, Stands DEF Progress, Router, Board
<1>42. CASE PlaceAgent
  <2>1. /\ pc' = "bind_project" /\ ~failed /\ Keeps
    BY <1>42, SetIs, GoToIs, MovedReady DEF PlaceAgent, Fields, Keeps, KeepsObjects, KeepsBot,
       KeepsRouter, KeepsPaperclip, services, links, canonical
  <2>2. ProfileDone
    BY <1>42, <2>1 DEF PlaceAgent, Progress, Router, Board
  <2> QED  BY <2>1, <2>2, Stands DEF Progress, Router, Board
<1>43. CASE BindProject
  <2>1. pc' = "service_agent" /\ ~failed /\ Keeps /\ refs'["project"] = Wanted("project")
    BY <1>43, BindIs, MovedReady, HoldersAre DEF BindProject, Keeps, KeepsObjects, KeepsBot,
       KeepsRouter, KeepsPaperclip, services, links, canonical
  <2>2. ProfileDone
    BY <1>43, <2>1 DEF BindProject, Progress
  <2>3. Wanted("project") = Refers["project"]
    BY <2>2, WantedIsAll DEF ProfileDone, SkillDone, UserSecretDone, DefinitionDone
  <2> QED  BY <2>1, <2>2, <2>3, Stands DEF Progress, Router, Board, ProjectBound
<1>44. CASE ServiceAgent
  <2>1. /\ pc' = "bind_service" /\ ~failed /\ Keeps /\ UNCHANGED refs
        /\ objs'["service_agent"] # 0 /\ "gateway" \in fields'
    BY <1>44, ServiceAgentIs, MovedReady DEF Named, Keeps, KeepsObjects, KeepsBot, KeepsRouter,
       KeepsPaperclip, services, links, canonical
  <2>2. ProjectBound
    BY <1>44, <2>1, ServiceAgentIs DEF Progress
  <2> QED  BY <2>1, <2>2, BindingsStand DEF Progress, Router, Board, ServiceDone
<1>45. CASE BindService
  <2>1. /\ pc' = "agent_key" /\ ~failed /\ Keeps /\ refs'["project"] = refs["project"]
        /\ refs'["service_agent"] = Wanted("service_agent")
    BY <1>45, BindIs, MovedReady, HoldersAre DEF BindService, Keeps, KeepsObjects, KeepsBot,
       KeepsRouter, KeepsPaperclip, services, links, canonical
  <2>2. ServiceDone
    BY <1>45, <2>1 DEF BindService, Progress
  <2>3. Wanted("service_agent") = Refers["service_agent"]
    BY <2>2, WantedIsAll DEF ServiceDone, ProjectBound, ProfileDone, SkillDone, UserSecretDone,
       DefinitionDone
  <2> QED  BY <2>1, <2>2, <2>3, BindingsStand DEF Progress, Router, Board, ServiceBound
<1>46. CASE AgentKey
  <2>1. /\ pc' \in {"agent_renew", "paperclip_row"} /\ ~failed /\ Keeps
        /\ UNCHANGED refs
        /\ pc' = "paperclip_row" => (env["agent"] \in live["agent"])'
    BY <1>46, GoToIs, MovedReady DEF AgentKey, Named, Keeps, KeepsObjects, KeepsBot,
       KeepsRouter, KeepsPaperclip, services, links, canonical
  <2>2. ServiceBound
    BY <1>46, <2>1 DEF AgentKey, Progress, Router, Board
  <2> QED  BY <2>1, <2>2, BindingsStand DEF Progress, Router, Board, AgentDone
<1>47. CASE AgentRenew
  <2>1. /\ pc' = "agent_mint" /\ ~failed /\ Keeps
        /\ UNCHANGED refs
    BY <1>47, GoToIs, RevokeIs, MovedReady DEF AgentRenew, Creds, Keeps, KeepsObjects, KeepsBot,
       KeepsRouter, KeepsPaperclip, services, links, canonical
  <2>2. ServiceBound
    BY <1>47, <2>1 DEF AgentRenew, Progress, Router, Board
  <2> QED  BY <2>1, <2>2, BindingsStand DEF Progress, Router, Board
<1>48. CASE AgentMint
  <2>1. /\ pc' = "save_agent" /\ ~failed /\ Keeps
        /\ UNCHANGED refs
    BY <1>48, MintIs, LostFails DEF AgentMint, Creds, Keeps, KeepsObjects, KeepsBot,
       KeepsRouter, KeepsPaperclip, services, links, canonical
  <2>2. ServiceBound
    BY <1>48, <2>1 DEF AgentMint, Progress, Router, Board
  <2> QED  BY <2>1, <2>2, BindingsStand DEF Progress, Router, Board
<1>49. CASE SaveAgent
  <2>1. /\ pc' = "paperclip_row" /\ ~failed /\ Keeps
        /\ UNCHANGED refs
        /\ (env["agent"] \in live["agent"])'
    BY <1>49, SaveIs, MovedReady DEF SaveAgent, Creds, OperatorKeys, Saved, Keeps, KeepsObjects,
       KeepsBot, KeepsRouter, KeepsPaperclip, services, links, canonical
  <2>2. ServiceBound
    BY <1>49, <2>1 DEF SaveAgent, Progress, Router, Board
  <2> QED  BY <2>1, <2>2, BindingsStand DEF Progress, Router, Board, AgentDone
<1>50. CASE PaperclipRow
  <2>1. pc' = "render" /\ ~failed /\ Keeps /\ UNCHANGED <<refs, env, live>> /\ PaperclipReady'
    BY <1>50 DEF PaperclipRow, Reported, PaperclipReady, Keeps, KeepsObjects, KeepsBot,
       KeepsRouter, KeepsPaperclip, services, links, canonical
  <2>2. AgentDone
    BY <1>50, <2>1 DEF PaperclipRow, Progress
  <2>3. AgentDone'
    BY <2>1, <2>2, BindingsStand DEF AgentDone
  <2> QED  BY <2>1, <2>3 DEF Progress, Router, Board, PaperclipDone
<1>51. CASE Render
  <2>1. pc' \in {"idle", "admin", "boot_key", "boot_try", "boot_save"}
    BY <1>51 DEF Render
  <2> QED  BY <2>1 DEF Progress, Router, Board
<1>52. CASE BootstrapStep
  BY <1>1, <1>2, <1>3, <1>52, Zenon DEF BootstrapStep
<1>53. CASE MattermostStep
  BY <1>4, <1>5, <1>6, <1>7, <1>8, <1>9, <1>10, <1>11, <1>12, <1>13, <1>53, Zenon DEF
     MattermostStep
<1>54. CASE RouterStep
  BY <1>14, <1>15, <1>16, <1>17, <1>18, <1>19, <1>20, <1>21, <1>54, Zenon DEF RouterStep
<1>55. CASE BoardStep
  BY <1>22, <1>23, <1>24, <1>25, <1>26, <1>55, Zenon DEF BoardStep
<1>56. CASE CompanyStep
  BY <1>27, <1>28, <1>29, <1>30, <1>31, <1>32, <1>33, <1>34, <1>35, <1>36, <1>37, <1>38, <1>39,
     <1>56, Zenon DEF CompanyStep
<1>57. CASE AgentStep
  BY <1>40, <1>41, <1>42, <1>43, <1>44, <1>45, <1>46, <1>47, <1>48, <1>49, <1>50, <1>51, <1>57,
     Zenon DEF AgentStep
<1>58. CASE Step
  BY <1>52, <1>53, <1>54, <1>55, <1>56, <1>57, <1>58, StepIsOf, Zenon
<1>59. CASE \E g \in Groups : Begin(g)
  <2>1. pc' \in {"idle", "admin", "boot_key", "boot_try", "boot_save"}
    BY <1>59 DEF Begin
  <2> QED  BY <2>1 DEF Progress, Router, Board
<1>60. CASE BeginBootstrap
  <2>1. pc' \in {"idle", "admin", "boot_key", "boot_try", "boot_save"}
    BY <1>60 DEF BeginBootstrap
  <2> QED  BY <2>1 DEF Progress, Router, Board
<1>61. CASE NoAnswer
  BY <1>61, UnansweredIs, LostFails DEF NoAnswer
<1>62. CASE Kill
  BY <1>62 DEF Kill
<1>63. CASE Event
  <2>1. pc' \in {"idle", "admin", "boot_key", "boot_try", "boot_save"}
    BY <1>63 DEF Event
  <2> QED  BY <2>1 DEF Progress, Router, Board
<1>64. CASE EnvironmentMade
  <2>1. pc' \in {"idle", "admin", "boot_key", "boot_try", "boot_save"}
    BY <1>64 DEF EnvironmentMade, pass
  <2> QED  BY <2>1 DEF Progress, Router, Board
<1>65. CASE Redeem
  <2>1. pc' \in {"idle", "admin", "boot_key", "boot_try", "boot_save"}
    BY <1>65 DEF Redeem, pass
  <2> QED  BY <2>1 DEF Progress, Router, Board
<1>66. CASE UNCHANGED vars
  BY <1>66 DEF vars, services, links, canonical, pass, Progress, RouterReady,
     PaperclipReady, Stale, CopyOf,
     AdminDone, TeamDone, BotDone, HookDone, MattermostDone, RouterDone, BoardDone, RuntimeDone, CompanyDone, ProjectDone, WorkspaceDone, SecretsCopied, DefinitionDone, UserSecretDone, SkillDone, ProfileDone, ProjectBound, ServiceDone, ServiceBound, AgentDone, PaperclipDone
<1> QED  BY <1>58, <1>59, <1>60, <1>61, <1>62, <1>63, <1>64, <1>65, <1>66 DEF ProvisioningNext

-----------------------------------------------------------------------------
(* What it reports.                                                        *)

\* Everything is usable when the last adapter is done.
LEMMA DoneIsUsable ==
    ASSUME DataTyped, Numbers, Saved, Ordered, PaperclipDone
    PROVE  Usable
<1>1. AdminDone /\ HookDone /\ MattermostDone /\ RouterDone /\ BoardDone
  BY DEF PaperclipDone, AgentDone, ServiceBound, ServiceDone, ProjectBound, ProfileDone,
     SkillDone,
     UserSecretDone, DefinitionDone, SecretsCopied, WorkspaceDone, ProjectDone, CompanyDone,
     RuntimeDone, BoardDone, RouterDone, MattermostDone, HookDone, BotDone, TeamDone
<1>2. \A c \in Creds : env[c] \in live[c]
  BY <1>1 DEF Saved, AdminDone, MattermostDone, RouterDone, RouterReady, BoardDone, PaperclipDone,
     AgentDone, Creds
<1>3. \A s \in Copies : vault[s] = CopyOf(s)
  <2>1. SecretsCopied /\ UserSecretDone
    BY DEF PaperclipDone, AgentDone, ServiceBound, ServiceDone, ProjectBound, ProfileDone,
       SkillDone,
       UserSecretDone, DefinitionDone
  <2>2. vault["minimax"] = env["minimax"]
    BY <1>1, NotStale DEF RouterDone, RouterReady, Copies
  <2> QED  BY <2>1, <2>2 DEF SecretsCopied, UserSecretDone, CopyOf, Copies
<1>4. \A o \in Named : objs[o] # 0
  <2>1. /\ objs["admin"] # 0 /\ objs["team"] # 0 /\ objs["bot_user"] # 0 /\ objs["webhook"] # 0
    BY <1>1 DEF HookDone, BotDone, TeamDone, AdminDone
  <2>2. /\ objs["company"] # 0 /\ objs["project"] # 0 /\ objs["workspace"] # 0
        /\ objs["definition"] # 0 /\ objs["skill"] # 0 /\ objs["profile_agent"] # 0
        /\ objs["service_agent"] # 0
    BY DEF PaperclipDone, AgentDone, ServiceBound, ServiceDone, ProjectBound, ProfileDone,
       SkillDone,
       UserSecretDone, DefinitionDone, SecretsCopied, WorkspaceDone, ProjectDone, CompanyDone
  <2> QED  BY <2>1, <2>2 DEF Named
<1>5. refs = Refers
  <2>1. \A h \in DOMAIN Refers : refs[h] = Refers[h]
    BY HoldersAre DEF PaperclipDone, PaperclipReady, AgentDone, ServiceBound, ServiceDone,
       ProjectBound
  <2>2. refs \in [DOMAIN Refers -> SUBSET Copies]
    BY DEF DataTyped
  <2>3. Refers = [h \in DOMAIN Refers |-> Refers[h]]
    BY DEF Refers
  <2> QED  BY <2>1, <2>2, <2>3
<1>6. fields = Fields
  BY DEF DataTyped, Fields, PaperclipDone, PaperclipReady, AgentDone, ServiceBound, ServiceDone,
     ProjectBound, ProfileDone, SkillDone, UserSecretDone, DefinitionDone, SecretsCopied,
     WorkspaceDone, ProjectDone, CompanyDone, RuntimeDone
<1>7. sandbox /\ model = "exact"
  BY <1>1 DEF PaperclipDone, PaperclipReady, RouterDone, RouterReady
<1> QED  BY <1>2, <1>3, <1>4, <1>5, <1>6, <1>7 DEF Usable

\* A report is not made on the way.
LEMMA LostReports == Lost => report' \notin {"ok", "keys"} \/ report' = report
BY DEF Lost

\* Neither does a request that moves the pass.
LEMMA MovedReports ==
    ASSUME NEW next, Moved(next)
    PROVE  report' \notin {"ok", "keys"} \/ report' = report
BY LostReports DEF Moved

\* A step in the middle of a pass has nothing to report.
LEMMA NotReported ==
    ASSUME Reports, pc # "idle", report' \notin {"ok", "keys"} \/ report' = report
    PROVE  Reports'
BY DEF Reports

\* A report is true when it is made, and what it says stays true until the next
\* pass or event.
LEMMA ReportsStep ==
    ASSUME DataTyped, Numbers, Saved, Ordered, Progress, Reports, [ProvisioningNext]_vars
    PROVE  Reports'
<1>1. CASE BootstrapKey
  BY <1>1, MintIs, LostReports, NotReported DEF BootstrapKey, Answered, Creds
<1>2. CASE BootstrapTry
  BY <1>2, GoToIs, MovedReports, NotReported DEF BootstrapTry, Ended
<1>3. CASE BootstrapSave
  <2>1. (env["client"] \in live["client"])'
    BY <1>3 DEF BootstrapSave, Saved, DataTyped, Creds, services
  <2> QED  BY <1>3, <2>1 DEF BootstrapSave, Reports
<1>4. CASE AdminPassword
  BY <1>4, GoToIs, MovedReports, NotReported DEF AdminPassword, Answered
<1>5. CASE AdminUser
  BY <1>5, SentIs, MovedReports, NotReported DEF AdminUser
<1>6. CASE Team
  BY <1>6, EnsureIs, MovedReports, NotReported DEF Team, Named
<1>7. CASE BotUser
  BY <1>7, EnsureIs, GoToIs, MovedReports, NotReported DEF BotUser, Named
<1>8. CASE RecoverToken
  BY <1>8, GoToIs, RevokeIs, MovedReports, NotReported DEF RecoverToken, Creds
<1>9. CASE MintBot
  BY <1>9, MintIs, LostReports, NotReported DEF MintBot, Creds
<1>10. CASE SaveBot
  BY <1>10, SaveIs, MovedReports, NotReported DEF SaveBot, Creds
<1>11. CASE Webhook
  BY <1>11, EnsureIs, MovedReports, NotReported DEF Webhook, Named
<1>12. CASE BotCheck
  BY <1>12, NotReported DEF BotCheck, Reported
<1>13. CASE KestraRow
  BY <1>13, GoToIs, MovedReports, NotReported DEF KestraRow
<1>14. CASE RouterKey
  BY <1>14, MintIs, LostReports, NotReported DEF RouterKey, Answered, Creds
<1>15. CASE SaveKey
  BY <1>15, SaveIs, MovedReports, NotReported DEF SaveKey, Creds
<1>16. CASE Minimax
  BY <1>16, CopyIs, GoToIs, MovedReports, NotReported DEF Minimax, Copies
<1>17. CASE MarkMinimax
  BY <1>17, SaveMarkIs, MovedReports, NotReported DEF MarkMinimax, Copies
<1>18. CASE DeleteModels
  BY <1>18, GoToIs, SentIs, MovedReports, NotReported DEF DeleteModels
<1>19. CASE AddModel
  BY <1>19, SentIs, MovedReports, NotReported DEF AddModel
<1>20. CASE Route
  BY <1>20, GoToIs, MovedReports, NotReported DEF Route
<1>21. CASE RouterRow
  BY <1>21, NotReported DEF RouterRow, Reported, RouterReady
<1>22. CASE BoardIdentity
  BY <1>22, GoToIs, MovedReports, NotReported DEF BoardIdentity, Handoff, Reported, Answered
<1>23. CASE SignUp
  BY <1>23, SentIs, MovedReports, NotReported DEF SignUp, Ended
<1>24. CASE Accept
  BY <1>24, SentIs, MovedReports, NotReported DEF Accept
<1>25. CASE BoardKey
  BY <1>25, MintIs, LostReports, NotReported DEF BoardKey, Creds
<1>26. CASE SaveBoard
  BY <1>26, SaveIs, MovedReports, NotReported DEF SaveBoard, Creds
<1>27. CASE RuntimeSecurity
  BY <1>27, SetIs, MovedReports, NotReported DEF RuntimeSecurity, Fields
<1>28. CASE Company
  BY <1>28, EnsureIs, MovedReports, NotReported DEF Company, Named
<1>29. CASE ResponsibleUser
  BY <1>29, SetIs, MovedReports, NotReported DEF ResponsibleUser, Fields
<1>30. CASE Project
  BY <1>30, EnsureIs, MovedReports, NotReported DEF Project, Named
<1>31. CASE Workspace
  BY <1>31, EnsureIs, MovedReports, NotReported DEF Workspace, Named
<1>32. CASE WorkspacePolicy
  BY <1>32, SetIs, MovedReports, NotReported DEF WorkspacePolicy, Fields
<1>33. ASSUME NEW s \in Copies, CompanySecret(s) PROVE Reports'
  BY <1>33, CopyIs, MovedReports, NotReported DEF CompanySecret, Copies
<1>34. ASSUME NEW s \in Copies, SecretMark(s) PROVE Reports'
  BY <1>34, SaveMarkIs, MovedReports, NotReported DEF SecretMark, Reported, Copies
<1>35. CASE SecretsDone
  BY <1>35, GoToIs, MovedReports, NotReported DEF SecretsDone
<1>36. CASE Definition
  BY <1>36, EnsureIs, MovedReports, NotReported DEF Definition, Named
<1>37. CASE UserSecret
  BY <1>37, CopyIs, GoToIs, MovedReports, NotReported DEF UserSecret, Copies
<1>38. CASE UserSecretMark
  BY <1>38, SaveMarkIs, MovedReports, NotReported DEF UserSecretMark, Copies
<1>39. CASE Skill
  BY <1>39, EnsureIs, MovedReports, NotReported DEF Skill, Named
<1>40. CASE ProfileAgent
  BY <1>40, EnsureIs, MovedReports, NotReported DEF ProfileAgent, Named
<1>41. CASE BindProfile
  BY <1>41, BindIs, HoldersAre, MovedReports, NotReported DEF BindProfile
<1>42. CASE PlaceAgent
  BY <1>42, SetIs, GoToIs, MovedReports, NotReported DEF PlaceAgent, Fields
<1>43. CASE BindProject
  BY <1>43, BindIs, HoldersAre, MovedReports, NotReported DEF BindProject
<1>44. CASE ServiceAgent
  BY <1>44, ServiceAgentIs, MovedReports, MovedReports, NotReported
<1>45. CASE BindService
  BY <1>45, BindIs, HoldersAre, MovedReports, NotReported DEF BindService
<1>46. CASE AgentKey
  BY <1>46, GoToIs, MovedReports, NotReported DEF AgentKey
<1>47. CASE AgentRenew
  BY <1>47, RevokeIs, GoToIs, MovedReports, NotReported DEF AgentRenew, Creds
<1>48. CASE AgentMint
  BY <1>48, MintIs, LostReports, NotReported DEF AgentMint, Creds
<1>49. CASE SaveAgent
  BY <1>49, SaveIs, MovedReports, NotReported DEF SaveAgent, Creds
<1>50. CASE PaperclipRow
  BY <1>50, NotReported DEF PaperclipRow, Reported, PaperclipReady
<1>51. CASE Render
  <2>1. CASE failed
    BY <1>51, <2>1, NotReported DEF Render, Reports
  <2>2. CASE ~failed
    <3>1. Usable
      BY <1>51, <2>2, DoneIsUsable, NotReported DEF Render, Progress
    <3>2. Usable'
      BY <1>51, <3>1, NotReported DEF Render, Usable, CopyOf, services, links, canonical
    <3> QED  BY <1>51, <2>2, <3>2 DEF Render, Reports
  <2> QED  BY <2>1, <2>2
<1>52. CASE BootstrapStep
  BY <1>1, <1>2, <1>3, <1>52, Zenon DEF BootstrapStep
<1>53. CASE MattermostStep
  BY <1>4, <1>5, <1>6, <1>7, <1>8, <1>9, <1>10, <1>11, <1>12, <1>13, <1>53, Zenon DEF
     MattermostStep
<1>54. CASE RouterStep
  BY <1>14, <1>15, <1>16, <1>17, <1>18, <1>19, <1>20, <1>21, <1>54, Zenon DEF RouterStep
<1>55. CASE BoardStep
  BY <1>22, <1>23, <1>24, <1>25, <1>26, <1>55, Zenon DEF BoardStep
<1>56. CASE CompanyStep
  BY <1>27, <1>28, <1>29, <1>30, <1>31, <1>32, <1>33, <1>34, <1>35, <1>36, <1>37, <1>38, <1>39,
     <1>56, Zenon DEF CompanyStep
<1>57. CASE AgentStep
  BY <1>40, <1>41, <1>42, <1>43, <1>44, <1>45, <1>46, <1>47, <1>48, <1>49, <1>50, <1>51, <1>57,
     Zenon DEF AgentStep
<1>58. CASE Step
  BY <1>52, <1>53, <1>54, <1>55, <1>56, <1>57, <1>58, StepIsOf, Zenon
<1>59. CASE \E g \in Groups : Begin(g)
  BY <1>59, NotReported DEF Begin, Reports
<1>60. CASE BeginBootstrap
  BY <1>60 DEF BeginBootstrap, Reports
<1>61. CASE NoAnswer
  BY <1>61, UnansweredIs, LostReports, NotReported DEF NoAnswer
<1>62. CASE Kill
  BY <1>62 DEF Kill, Reports
<1>63. CASE Event
  BY <1>63 DEF Event, Reports
<1>64. CASE EnvironmentMade
  BY <1>64 DEF EnvironmentMade, Reports, Usable, canonical, pass
<1>65. CASE Redeem
  BY <1>65 DEF Redeem, Reports, Usable, CopyOf, links, canonical, pass
<1>66. CASE UNCHANGED vars
  BY <1>66 DEF vars, services, links, canonical, pass, Reports, Usable, CopyOf
<1> QED  BY <1>58, <1>59, <1>60, <1>61, <1>62, <1>63, <1>64, <1>65, <1>66 DEF ProvisioningNext

-----------------------------------------------------------------------------
(* A pass over what is usable.                                             *)

\* When everything is usable, an object should refer to all of its secrets.
LEMMA UsableWanted ==
    ASSUME DataTyped, Numbers, Usable
    PROVE  \A h \in DOMAIN Refers : Wanted(h) = Refers[h]
<1>1. env["bot"] # 0 /\ env["client"] # 0
  BY LiveIsNotZero DEF Usable, Creds
<1>2. vault["bot"] # 0 /\ vault["client"] # 0
  BY <1>1 DEF Usable, CopyOf, Copies
<1> QED  BY <1>1, <1>2 DEF Wanted, Refers

\* Copying what is there, setting a field and binding what is bound change
\* nothing.
LEMMA CopiedAgain ==
    ASSUME DataTyped, Usable, NEW s \in Copies, NEW next, Copy(s, next)
    PROVE  services' = services
<1>1. \A d \in Copies : vault'[d] = vault[d]
  BY CopyIs DEF Usable, CopyOf
<1>2. vault \in [Copies -> Nat] /\ vault' \in [Copies -> Nat]
  BY CopyIs DEF DataTyped
<1>3. vault' = vault
  BY <1>1, <1>2
<1> QED  BY <1>3, CopyIs DEF services

\* Setting a field again.
LEMMA SetAgain ==
    ASSUME DataTyped, Usable, NEW f \in Fields, NEW next, Set(f, next)
    PROVE  services' = services
BY SetIs DEF Usable, services, links

\* Binding an object again.
LEMMA BoundAgain ==
    ASSUME DataTyped, Numbers, Usable, NEW h \in DOMAIN Refers, NEW next, Bind(h, next)
    PROVE  services' = services
<1>1. \A d \in DOMAIN Refers : refs'[d] = refs[d]
  BY BindIs, UsableWanted DEF Usable
<1>2. refs \in [DOMAIN Refers -> SUBSET Copies] /\ refs' \in [DOMAIN Refers -> SUBSET Copies]
  BY BindIs DEF DataTyped
<1>3. refs' = refs
  BY <1>1, <1>2
<1> QED  BY <1>3, BindIs DEF services, links

\* Looking for an object that is there.
LEMMA EnsuredAgain ==
    ASSUME DataTyped, Usable, NEW o \in Named, NEW next, Ensure(o, next)
    PROVE  services' = services
BY EnsureIs DEF Usable, services

\* When everything is usable, there is one of each credential, and it is saved.
LEMMA UsableEnv ==
    ASSUME Numbers, Usable
    PROVE  \A c \in Creds : env[c] # 0 /\ live[c] # {}
BY LiveIsNotZero DEF Usable

\* A pass over what is usable, before any fault.
LEMMA RepeatStep ==
    ASSUME DataTyped, Numbers, Singles, Saved, [ProvisioningNext]_vars,
           pc # "idle", Usable, ~faulty
    PROVE  services' = services
<1>1. CASE BootstrapKey
  BY <1>1, UsableEnv DEF BootstrapKey, Creds
<1>2. CASE BootstrapTry
  BY <1>2, GoToIs DEF BootstrapTry, Ended
<1>3. CASE BootstrapSave
  BY <1>3 DEF BootstrapSave
<1>4. CASE AdminPassword
  BY <1>4, GoToIs DEF AdminPassword
<1>5. CASE AdminUser
  BY <1>5 DEF AdminUser, Saved, Usable, Named
<1>6. CASE Team
  BY <1>6, EnsuredAgain DEF Team, Named
<1>7. CASE BotUser
  BY <1>7, GoToIs DEF BotUser, Usable, Named
<1>8. CASE RecoverToken
  BY <1>8, UsableEnv, GoToIs DEF RecoverToken, Creds
<1>9. CASE MintBot
  BY <1>9, UsableEnv DEF MintBot, Singles, Creds
<1>10. CASE SaveBot
  BY <1>10 DEF SaveBot, Save
<1>11. CASE Webhook
  BY <1>11, EnsuredAgain DEF Webhook, Named
<1>12. CASE BotCheck
  BY <1>12 DEF BotCheck, Reported
<1>13. CASE KestraRow
  BY <1>13, GoToIs DEF KestraRow
<1>14. CASE RouterKey
  BY <1>14, UsableEnv DEF RouterKey, Creds
<1>15. CASE SaveKey
  BY <1>15 DEF SaveKey, Save
<1>16. CASE Minimax
  BY <1>16, CopiedAgain, GoToIs DEF Minimax, Copies
<1>17. CASE MarkMinimax
  BY <1>17 DEF MarkMinimax, SaveMark
<1>18. CASE DeleteModels
  BY <1>18, GoToIs DEF DeleteModels, Usable
<1>19. CASE AddModel
  BY <1>19 DEF AddModel, Usable, services
<1>20. CASE Route
  BY <1>20, GoToIs DEF Route
<1>21. CASE RouterRow
  BY <1>21 DEF RouterRow, Reported
<1>22. CASE BoardIdentity
  BY <1>22, GoToIs DEF BoardIdentity, Answered, Handoff, Reported
<1>23. CASE SignUp
  BY <1>23, UsableEnv DEF SignUp, Saved, Creds
<1>24. CASE Accept
  BY <1>24, UsableEnv DEF Accept, Saved, Creds
<1>25. CASE BoardKey
  BY <1>25, UsableEnv DEF BoardKey, Saved, Creds
<1>26. CASE SaveBoard
  BY <1>26 DEF SaveBoard, Save
<1>27. CASE RuntimeSecurity
  BY <1>27, SetAgain DEF RuntimeSecurity, Fields
<1>28. CASE Company
  BY <1>28, EnsuredAgain DEF Company, Named
<1>29. CASE ResponsibleUser
  BY <1>29, SetAgain DEF ResponsibleUser, Fields
<1>30. CASE Project
  BY <1>30, EnsuredAgain DEF Project, Named
<1>31. CASE Workspace
  BY <1>31, EnsuredAgain DEF Workspace, Named
<1>32. CASE WorkspacePolicy
  BY <1>32, SetAgain DEF WorkspacePolicy, Fields
<1>33. ASSUME NEW s \in Copies, CompanySecret(s) PROVE services' = services
  BY <1>33, CopiedAgain DEF CompanySecret, Copies
<1>34. ASSUME NEW s \in Copies, SecretMark(s) PROVE services' = services
  BY <1>34 DEF SecretMark, Reported, SaveMark
<1>35. CASE SecretsDone
  BY <1>35, GoToIs DEF SecretsDone
<1>36. CASE Definition
  BY <1>36, EnsuredAgain DEF Definition, Named
<1>37. CASE UserSecret
  BY <1>37, CopiedAgain, GoToIs DEF UserSecret, Copies
<1>38. CASE UserSecretMark
  BY <1>38 DEF UserSecretMark, SaveMark
<1>39. CASE Skill
  BY <1>39, EnsuredAgain DEF Skill, Named
<1>40. CASE ProfileAgent
  BY <1>40, EnsuredAgain DEF ProfileAgent, Named
<1>41. CASE BindProfile
  BY <1>41, BoundAgain, HoldersAre DEF BindProfile
<1>42. CASE PlaceAgent
  BY <1>42, SetAgain, GoToIs DEF PlaceAgent, Fields
<1>43. CASE BindProject
  BY <1>43, BoundAgain, HoldersAre DEF BindProject
<1>44. CASE ServiceAgent
  BY <1>44, SetAgain DEF ServiceAgent, Usable, Named, Fields
<1>45. CASE BindService
  BY <1>45, BoundAgain, HoldersAre DEF BindService
<1>46. CASE AgentKey
  BY <1>46, GoToIs DEF AgentKey
<1>47. CASE AgentRenew
  BY <1>47 DEF AgentRenew, Saved, Usable, Creds
<1>48. CASE AgentMint
  BY <1>48, UsableEnv DEF AgentMint, Singles, Creds
<1>49. CASE SaveAgent
  BY <1>49 DEF SaveAgent, Save
<1>50. CASE PaperclipRow
  BY <1>50 DEF PaperclipRow, Reported
<1>51. CASE Render
  BY <1>51 DEF Render
<1>52. CASE BootstrapStep
  BY <1>1, <1>2, <1>3, <1>52, Zenon DEF BootstrapStep
<1>53. CASE MattermostStep
  BY <1>4, <1>5, <1>6, <1>7, <1>8, <1>9, <1>10, <1>11, <1>12, <1>13, <1>53, Zenon DEF
     MattermostStep
<1>54. CASE RouterStep
  BY <1>14, <1>15, <1>16, <1>17, <1>18, <1>19, <1>20, <1>21, <1>54, Zenon DEF RouterStep
<1>55. CASE BoardStep
  BY <1>22, <1>23, <1>24, <1>25, <1>26, <1>55, Zenon DEF BoardStep
<1>56. CASE CompanyStep
  BY <1>27, <1>28, <1>29, <1>30, <1>31, <1>32, <1>33, <1>34, <1>35, <1>36, <1>37, <1>38, <1>39,
     <1>56, Zenon DEF CompanyStep
<1>57. CASE AgentStep
  BY <1>40, <1>41, <1>42, <1>43, <1>44, <1>45, <1>46, <1>47, <1>48, <1>49, <1>50, <1>51, <1>57,
     Zenon DEF AgentStep
<1>58. CASE Step
  BY <1>52, <1>53, <1>54, <1>55, <1>56, <1>57, <1>58, StepIsOf, Zenon
<1>59. CASE \E g \in Groups : Begin(g)
  BY <1>59 DEF Begin
<1>60. CASE BeginBootstrap
  BY <1>60 DEF BeginBootstrap
<1>61. CASE NoAnswer
  BY <1>61 DEF NoAnswer
<1>62. CASE Kill
  BY <1>62 DEF Kill
<1>63. CASE Event
  BY <1>63 DEF Event
<1>64. CASE EnvironmentMade
  BY <1>64 DEF EnvironmentMade
<1>65. CASE Redeem
  BY <1>65 DEF Redeem
<1>66. CASE UNCHANGED vars
  BY <1>66 DEF vars
<1> QED  BY <1>58, <1>59, <1>60, <1>61, <1>62, <1>63, <1>64, <1>65, <1>66 DEF ProvisioningNext

-----------------------------------------------------------------------------
(* The invariant and the theorems.                                         *)

\* The inductive invariant.
ProvisioningInv ==
    /\ DataTyped /\ ControlTyped
    /\ Numbers /\ Singles /\ Saved /\ Ordered /\ Copied /\ Progress /\ Reports

\* It holds when nothing has been provisioned, ...
LEMMA ProvisioningInitially == ProvisioningInit => ProvisioningInv
<1> SUFFICES ASSUME ProvisioningInit PROVE ProvisioningInv
  OBVIOUS
<1> USE DEF ProvisioningInit
<1>1. DataTyped
  <2>1. live \in [Creds -> SUBSET Nat] /\ objs \in [Named -> Nat]
    BY DEF Creds
  <2>2. env \in [Creds \cup OperatorKeys -> Nat]
    OBVIOUS
  <2>3. vault \in [Copies -> Nat] /\ mark \in [Copies -> Nat]
    OBVIOUS
  <2>4. refs \in [DOMAIN Refers -> SUBSET Copies] /\ fields \subseteq Fields
    OBVIOUS
  <2>5. /\ model \in {"none", "exact", "conflict"} /\ boot \in {"pending", "signed_up", "complete"}
        /\ mode \in Modes /\ {sandbox, invite, machine} \subseteq BOOLEAN
        /\ mem \in Nat /\ made \in Nat
    OBVIOUS
  <2> QED  BY <2>1, <2>2, <2>3, <2>4, <2>5 DEF DataTyped
<1>2. ControlTyped
  BY DEF ControlTyped, Pcs, Copies
<1>3. Numbers
  BY DEF Numbers, Creds, OperatorKeys
<1>4. Singles
  BY DEF Singles, AtMostOne, Creds, Named
<1>5. Saved
  BY DEF Saved, Creds, OperatorKeys, Named
<1>6. Ordered
  BY DEF Ordered, Creds, OperatorKeys, Copies
<1>7. Copied
  BY DEF Copied
<1>8. Progress
  BY DEF Progress, Router, Board
<1>9. Reports
  BY DEF Reports
<1> QED
  BY <1>1, <1>2, <1>3, <1>4, <1>5, <1>6, <1>7, <1>8, <1>9 DEF ProvisioningInv

\* ... every step keeps it, ...
LEMMA ProvisioningKept == ProvisioningInv /\ [ProvisioningNext]_vars => ProvisioningInv'
<1> SUFFICES ASSUME ProvisioningInv, [ProvisioningNext]_vars PROVE ProvisioningInv'
  OBVIOUS
<1>1. DataTyped'
  BY DataTypedStep DEF ProvisioningInv
<1>2. ControlTyped'
  BY ControlTypedStep DEF ProvisioningInv
<1>3. Numbers'
  BY NumbersStep DEF ProvisioningInv
<1>4. Singles'
  BY SinglesStep DEF ProvisioningInv
<1>5. Saved'
  BY SavedStep DEF ProvisioningInv
<1>6. Ordered'
  BY <1>1, OrderedStep DEF ProvisioningInv
<1>7. Copied'
  BY CopiedStep DEF ProvisioningInv
<1>8. Progress'
  BY ProgressStep DEF ProvisioningInv
<1>9. Reports'
  BY ReportsStep DEF ProvisioningInv
<1> QED
  BY <1>1, <1>2, <1>3, <1>4, <1>5, <1>6, <1>7, <1>8, <1>9 DEF ProvisioningInv

\* ... and so it holds always.
LEMMA ProvisioningInvariant == ProvisioningSpec => []ProvisioningInv
BY ProvisioningInitially, ProvisioningKept, PTL DEF ProvisioningSpec

\* Every variable keeps to its values.  (server-provision.py)
THEOREM ProvisioningTyped == ProvisioningSpec => []ProvisioningTypeOK
<1>1. ProvisioningInv => ProvisioningTypeOK
  BY DEF ProvisioningInv, DataTyped, ControlTyped, Pcs, ProvisioningTypeOK
<1> QED  BY <1>1, ProvisioningInvariant, PTL

\* However often a creation whose answer was lost is repeated, a managed name
\* has at most one active credential and one object.
\* (mattermost, ensure_ninerouter_key, paperclip)
THEOREM OneOfEach == ProvisioningSpec => []OneOfEachName
<1>1. ProvisioningInv => OneOfEachName
  <2> SUFFICES ASSUME ProvisioningInv PROVE OneOfEachName
    OBVIOUS
  <2>1. ASSUME NEW c \in Creds \ {"board"} PROVE Cardinality(live[c]) <= 1
    <3>1. CASE live[c] = {}
      BY <3>1, FS_EmptySet
    <3>2. CASE live[c] # {}
      <4>1. PICK t \in live[c] : TRUE
        BY <3>2
      <4>2. live[c] = {t}
        BY <4>1 DEF ProvisioningInv, Singles, AtMostOne
      <4>3. Cardinality({t}) = 1
        BY FS_Singleton
      <4> QED  BY <4>2, <4>3
    <3> QED  BY <3>1, <3>2
  <2> QED  BY <2>1 DEF OneOfEachName, ProvisioningInv, Singles
<1> QED  BY <1>1, ProvisioningInvariant, PTL

\* A fingerprint that is current tells the truth about the copy.
\* (ensure_minimax_upstream, ensure_paperclip_company_secret)
THEOREM MarksAreTruthful == ProvisioningSpec => []MarkIsTruthful
<1>1. ProvisioningInv => MarkIsTruthful
  <2> SUFFICES ASSUME ProvisioningInv, NEW s \in Copies, vault[s] # 0, mark[s] = CopyOf(s)
               PROVE  vault[s] = CopyOf(s)
    BY DEF MarkIsTruthful
  <2> QED  BY NotStale DEF ProvisioningInv, Stale, CopyOf
<1> QED  BY <1>1, ProvisioningInvariant, PTL

\* A pass that reports success has left everything usable, from whatever the
\* passes before it had left half done.  (execute, bootstrap_ninerouter_keys)
THEOREM ReadyIsUsable == ProvisioningSpec => []ReadyMeansUsable
<1>1. ProvisioningInv => ReadyMeansUsable
  BY DEF ProvisioningInv, Reports, ReadyMeansUsable
<1> QED  BY <1>1, ProvisioningInvariant, PTL

\* A pass over services where everything is usable, and that meets no fault,
\* changes none of them.  (every adapter's read before create)
THEOREM RepeatsChangeNothing == ProvisioningSpec => RepeatChangesNothing
<1>1. ProvisioningInv /\ [ProvisioningNext]_vars =>
        [pc # "idle" /\ Usable /\ ~faulty => services' = services]_vars
  BY RepeatStep DEF ProvisioningInv
<1> QED  BY <1>1, ProvisioningInvariant, PTL DEF ProvisioningSpec, RepeatChangesNothing

=============================================================================
