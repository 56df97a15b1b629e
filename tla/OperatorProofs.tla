---------------------------- MODULE OperatorProofs -----------------------------
(***************************************************************************)
(* What the commands of HermesOperator keep, for any number of releases,   *)
(* edits, events and faults: privileges go at once, and an installation    *)
(* that reports success has left what it says.                             *)
(***************************************************************************)
EXTENDS HermesOperator, TLAPS

Kinds == {"install", "reconcile", "remove"}
Units == {"none", "hardened", "open"}
Commands == [kind : Kinds \cup {"none"}, grant : BOOLEAN, i : Nat,
             mode : Modes \cup {"none"}, n : Nat, pw : Nat, token : Nat]
Services == [state : {"on", "off", "retry"}, unit : Units, rel : Nat, conf : Nat,
             proj : Nat]

\* The types of the variables, as far as the proofs need them.
HermesTypeOK ==
    /\ canon \in [n : Nat \ {0}, mode : Modes, pw : Nat, token : Nat]
    /\ bundle \in 1 .. Releases
    /\ matter \in [password : Nat, tokens : SUBSET Nat]
    /\ venv \in [1 .. Releases -> {"none", "partial", "valid"}]
    /\ current \in Nat /\ conf \in Nat /\ proj \in Nat /\ made \in Nat
    /\ unit \in Units /\ loaded \in Units
    /\ service \in Services
    /\ proc \in Commands
    /\ report \in [kind : Kinds \cup {"none"}, ok : BOOLEAN, n : Nat]

\* The mode that an edition demands is recorded when it is made.
EditionsHold ==
    /\ modeOf \in Seq(Modes)
    /\ Len(modeOf) = canon.n /\ modeOf[canon.n] = canon.mode

\* A command is at one of its steps, and has reported nothing.
CommandsHold ==
    proc.kind # "none" =>
        proc.i \in 1 .. Len(Steps(proc.kind)) /\ report = NoReport

\* Only a command that was asked for the administrator's mode grants anything.
GrantsHold ==
    /\ proc.kind # "install" => ~proc.grant
    /\ revoked => ~proc.grant

\* The step at which an installation is.
LEMMA InstallSteps ==
    /\ Len(Steps("install")) = 21
    /\ Steps("install")[1] = "revoke"
    /\ Steps("install")[2] = "operator"
    /\ Steps("install")[3] = "token"
    /\ Steps("install")[4] = "save"
    /\ Steps("install")[5] = "project"
    /\ Steps("install")[6] = "authorize"
    /\ Steps("install")[7] = "packages"
    /\ Steps("install")[8] = "fetch"
    /\ Steps("install")[9] = "venv"
    /\ Steps("install")[10] = "build"
    /\ Steps("install")[11] = "evidence"
    /\ Steps("install")[12] = "config"
    /\ Steps("install")[13] = "unit"
    /\ Steps("install")[14] = "link"
    /\ Steps("install")[15] = "skill_out"
    /\ Steps("install")[16] = "skill_in"
    /\ Steps("install")[17] = "policy"
    /\ Steps("install")[18] = "bound"
    /\ Steps("install")[19] = "reload"
    /\ Steps("install")[20] = "restart"
    /\ Steps("install")[21] = "status"
BY DEF Steps

LEMMA OtherSteps ==
    /\ Len(Steps("reconcile")) = 11 /\ Len(Steps("remove")) = 6
    /\ Steps("reconcile")[1] = "revoke"
    /\ \A i \in 2 .. 11 : Steps("reconcile")[i] # "revoke"
    /\ \A i \in 1 .. 6 : Steps("remove")[i] # "revoke"
BY DEF Steps

-----------------------------------------------------------------------------
(* Types.                                                                  *)

Reports == [kind : Kinds \cup {"none"}, ok : BOOLEAN, n : Nat]

LEMMA EndsTyped ==
    ASSUME HermesTypeOK, NEW ok \in BOOLEAN, Ends(ok)
    PROVE  proc' \in Commands /\ report' \in Reports
BY DEF HermesTypeOK, Ends, NoCommand, Commands, Kinds, Modes, Reports

LEMMA GoesTyped ==
    ASSUME HermesTypeOK, NEW p \in Commands, Goes(p)
    PROVE  proc' \in Commands /\ report' \in Reports
<1>1. CASE Ends(TRUE)
  BY <1>1, EndsTyped
<1>2. CASE proc' = [p EXCEPT !.i = @ + 1] /\ UNCHANGED report
  <2>1. p.i + 1 \in Nat
    BY DEF Commands
  <2>2. proc' \in Commands
    BY <1>2, <2>1 DEF Commands
  <2>. QED BY <1>2, <2>2 DEF HermesTypeOK, Reports
<1>. QED BY <1>1, <1>2 DEF Goes

LEMMA TypeStep ==
    ASSUME HermesTypeOK, [Next]_vars
    PROVE  HermesTypeOK'
<1>. DEFINE Same == UNCHANGED <<canon, bundle, matter, venv, account, sudoers, enabled,
                                legacy, revoked, current, conf, skill, proj, made, unit,
                                loaded, service>>
            Typed == proc' \in Commands /\ report' \in Reports
<1>. USE DEF HermesTypeOK
<1>0. proc \in Commands /\ canon.pw \in Nat /\ canon.token \in Nat /\ canon.n \in Nat
      /\ canon.mode \in Modes /\ made + 1 \in Nat /\ bundle \in Nat
  BY HermesAssumption
<1>c. canon.n \in Nat \ {0} /\ canon.n + 1 \in Nat \ {0}
  OBVIOUS
<1>a. (Ok => Typed) /\ (Fails => Typed) /\ (\A ok \in BOOLEAN : Ends(ok) => Typed)
  BY <1>0, EndsTyped, GoesTyped DEF Ok, Fails
<1>b. \A p \in Commands : Goes(p) => Typed
  BY GoesTyped
<1>. HIDE DEF Typed
<1>1. CASE Revoke
  <2>1. Typed
    BY <1>1, <1>a DEF Revoke, Fault, Fails, Host, Quiet
  <2>. QED BY <1>1, <2>1 DEF Revoke, Quiet, Host, host, counters, Typed, Reports, Units, Services
<1>2. CASE Authorize
  <2>1. Typed
    BY <1>2, <1>a DEF Authorize, Fault, Fails, Host, Quiet
  <2>. QED BY <1>2, <2>1 DEF Authorize, Quiet, Host, host, counters, Typed, Reports, Units, Services
<1>3. CASE ReadMode
  <2>1. \A x \in Modes : [proc EXCEPT !.mode = x] \in Commands
    BY <1>0 DEF Commands
  <2>2. Typed
    BY <1>3, <1>0, <1>a, <1>b, <2>1 DEF ReadMode, Fails, Fault, Host, Quiet
  <2>. QED BY <1>3, <2>2 DEF ReadMode, Quiet, Host, host, counters, Typed, Reports
<1>4. CASE AdminPolicy
  <2>1. Typed
    BY <1>4, <1>a DEF AdminPolicy, Fault, Fails, Host, Quiet
  <2>. QED BY <1>4, <2>1 DEF AdminPolicy, Quiet, Host, host, counters, Typed, Reports, Units, Services
<1>5. CASE EnsureOperator
  <2>1. \A x \in Nat : [proc EXCEPT !.pw = x] \in Commands
    BY <1>0 DEF Commands
  <2>2. UNCHANGED <<canon, proj, host, bundle>>
    BY <1>5 DEF EnsureOperator, Mattermost
  <2>3. CASE matter.password # 0 /\ canon.pw # 0
    <3>1. UNCHANGED <<matter, made>>
          /\ (Goes([proc EXCEPT !.pw = canon.pw]) \/ Fails)
      BY <1>5, <2>3 DEF EnsureOperator
    <3>2. Typed
      BY <1>0, <1>a, <1>b, <2>1, <3>1
    <3>. QED BY <2>2, <3>1, <3>2 DEF host, Typed, Reports
  <2>4. CASE ~(matter.password # 0 /\ canon.pw # 0)
    <3>1. /\ made' = made + 1 /\ matter' = [matter EXCEPT !.password = made']
          /\ Goes([proc EXCEPT !.pw = made']) \/ Ends(FALSE)
      BY <1>5, <2>4 DEF EnsureOperator
    <3>2. Typed
      BY <1>0, <1>a, <1>b, <2>1, <3>1
    <3>. QED BY <1>0, <2>2, <3>1, <3>2 DEF host, Typed, Reports
  <2>. QED BY <2>3, <2>4
<1>6. CASE EnsureToken
  <2>1. \A x \in Nat : [proc EXCEPT !.token = x] \in Commands
    BY <1>0 DEF Commands
  <2>2. UNCHANGED <<canon, proj, host, bundle>>
    BY <1>6 DEF EnsureToken, Mattermost
  <2>3. CASE canon.token # 0
    <3>1. UNCHANGED <<matter, made>>
          /\ (Goes([proc EXCEPT !.token = canon.token]))
      BY <1>6, <2>3 DEF EnsureToken
    <3>2. Typed
      BY <1>0, <1>a, <1>b, <2>1, <3>1
    <3>. QED BY <2>2, <3>1, <3>2 DEF host, Typed, Reports
  <2>4. CASE canon.token = 0
    <3>1. /\ made' = made + 1 /\ matter' = [matter EXCEPT !.tokens = @ \cup {made'}]
          /\ Goes([proc EXCEPT !.token = made']) \/ Ends(FALSE)
      BY <1>6, <2>4 DEF EnsureToken
    <3>2. Typed
      BY <1>0, <1>a, <1>b, <2>1, <3>1
    <3>. QED BY <1>0, <2>2, <3>1, <3>2 DEF host, Typed, Reports
  <2>. QED BY <2>3, <2>4
<1>7. CASE SaveCredentials
  <2>1. Typed
    BY <1>7, <1>a DEF SaveCredentials, Fault, Fails, Host, Quiet
  <2>2. PICK n \in {canon.n, canon.n + 1} :
            canon' = [canon EXCEPT !.n = n, !.pw = proc.pw, !.token = proc.token]
    BY <1>7 DEF SaveCredentials
  <2>3. proc.pw \in Nat /\ proc.token \in Nat /\ n \in Nat \ {0}
    BY <1>0, <1>c DEF Commands
  <2>4. canon' \in [n : Nat \ {0}, mode : Modes, pw : Nat, token : Nat]
    BY <2>2, <2>3
  <2>5. UNCHANGED <<matter, proj, host, bundle, made>>
    BY <1>7 DEF SaveCredentials
  <2>. QED BY <2>1, <2>4, <2>5 DEF Typed, Reports, host
<1>8. CASE Project
  <2>1. \A x \in Nat : [proc EXCEPT !.n = x] \in Commands
    BY <1>0 DEF Commands
  <2>2. Typed
    BY <1>8, <1>0, <1>a, <1>b, <2>1 DEF Project, Fails, Fault, Host, Quiet
  <2>. QED BY <1>8, <2>2 DEF Project, Quiet, Host, host, counters, Typed, Reports
<1>9. CASE Packages
  <2>1. Typed
    BY <1>9, <1>a DEF Packages, Fault, Fails, Host, Quiet
  <2>. QED BY <1>9, <2>1 DEF Packages, Quiet, Host, host, counters, Typed, Reports, Units, Services
<1>10. CASE FetchArtifacts
  <2>1. Typed
    BY <1>10, <1>a DEF FetchArtifacts, Fault, Fails, Host, Quiet
  <2>. QED BY <1>10, <2>1 DEF FetchArtifacts, Quiet, Host, host, counters, Typed, Reports, Units, Services
<1>11. CASE RemoveVenv
  <2>1. Typed
    BY <1>11, <1>a DEF RemoveVenv, OnlyVenv, Fault, Fails, Host, Quiet
  <2>. QED BY <1>11, <2>1 DEF RemoveVenv, OnlyVenv, Quiet, Host, host, counters, Typed, Reports, Units, Services
<1>12. CASE BuildVenv
  <2>1. Typed
    BY <1>12, <1>a DEF BuildVenv, OnlyVenv, Fault, Fails, Host, Quiet
  <2>. QED BY <1>12, <2>1 DEF BuildVenv, OnlyVenv, Quiet, Host, host, counters, Typed, Reports, Units, Services
<1>13. CASE Evidence
  <2>1. Typed
    BY <1>13, <1>a DEF Evidence, Fault, Fails, Host, Quiet
  <2>. QED BY <1>13, <2>1 DEF Evidence, Quiet, Host, host, counters, Typed, Reports, Units, Services
<1>14. CASE RenderConfig
  <2>1. Typed
    BY <1>14, <1>a DEF RenderConfig, Fault, Fails, Host, Quiet
  <2>. QED BY <1>14, <2>1 DEF RenderConfig, Quiet, Host, host, counters, Typed, Reports, Units, Services
<1>15. CASE WriteUnit
  <2>1. Typed
    BY <1>15, <1>a DEF WriteUnit, Fault, Fails, Host, Quiet
  <2>. QED BY <1>15, <2>1 DEF WriteUnit, Quiet, Host, host, counters, Typed, Reports, Units, Services
<1>16. CASE Link
  <2>1. Typed
    BY <1>16, <1>a DEF Link, Fault, Fails, Host, Quiet
  <2>2. current' = bundle \/ current' = 0 \/ current' = current
    BY <1>16, Zenon DEF Link
  <2>3. UNCHANGED <<canon, matter, proj, bundle, made, account, venv, conf, skill, sudoers, unit,
                    loaded, enabled, legacy, service>>
    BY <1>16 DEF Link, Host, Quiet
  <2>. QED BY <1>0, <2>1, <2>2, <2>3 DEF Typed, Reports
<1>17. CASE SkillOut
  <2>1. Typed
    BY <1>17, <1>a DEF SkillOut, OnlySkill, Fault, Fails, Host, Quiet
  <2>. QED BY <1>17, <2>1 DEF SkillOut, OnlySkill, Quiet, Host, host, counters, Typed, Reports, Units, Services
<1>18. CASE SkillIn
  <2>1. Typed
    BY <1>18, <1>a DEF SkillIn, OnlySkill, Fault, Fails, Host, Quiet
  <2>. QED BY <1>18, <2>1 DEF SkillIn, OnlySkill, Quiet, Host, host, counters, Typed, Reports, Units, Services
<1>19. CASE HashBound
  <2>1. Typed
    BY <1>19, <1>a DEF HashBound, Fault, Fails, Host, Quiet
  <2>. QED BY <1>19, <2>1 DEF HashBound, Quiet, Host, host, counters, Typed, Reports, Units, Services
<1>20. CASE Reload
  <2>1. Typed
    BY <1>20, <1>a DEF Reload, Fault, Fails, Host, Quiet
  <2>. QED BY <1>20, <2>1 DEF Reload, Quiet, Host, host, counters, Typed, Reports, Units, Services
<1>21. CASE Restart
  <2>1. Typed
    BY <1>21, <1>a DEF Restart, Started, Off, Fault, Fails, Host, Quiet
  <2>. QED BY <1>21, <2>1 DEF Restart, Started, Off, Quiet, Host, host, counters, Typed, Reports, Units, Services
<1>22. CASE Status
  <2>1. Typed
    BY <1>22, <1>a DEF Status, Fault, Fails, Host, Quiet
  <2>. QED BY <1>22, <2>1 DEF Status, Quiet, Host, host, counters, Typed, Reports, Units, Services
<1>23. CASE Disable
  <2>1. Typed
    BY <1>23, <1>a DEF Disable, Off, Fault, Fails, Host, Quiet
  <2>. QED BY <1>23, <2>1 DEF Disable, Off, Quiet, Host, host, counters, Typed, Reports, Units, Services
<1>24. CASE Unlink
  <2>1. Typed
    BY <1>24, <1>a DEF Unlink, Fault, Fails, Host, Quiet
  <2>. QED BY <1>24, <2>1 DEF Unlink, Quiet, Host, host, counters, Typed, Reports, Units, Services
<1>25. CASE Unload
  <2>1. Typed
    BY <1>25, <1>a DEF Unload, Fault, Fails, Host, Quiet
  <2>. QED BY <1>25, <2>1 DEF Unload, Quiet, Host, host, counters, Typed, Reports, Units, Services
<1>26. CASE RemoveRoot
  <2>1. Typed
    BY <1>26, <1>a DEF RemoveRoot, Fault, Fails, Host, Quiet
  <2>. QED BY <1>26, <2>1 DEF RemoveRoot, Quiet, Host, host, counters, Typed, Reports, Units, Services
<1>27. CASE Purge
  <2>1. Typed
    BY <1>27, <1>a DEF Purge, Fault, Fails, Host, Quiet
  <2>. QED BY <1>27, <2>1 DEF Purge, Quiet, Host, host, counters, Typed, Reports, Units, Services
<1>28. CASE StepFails
  <2>1. Typed
    BY <1>28, <1>a DEF StepFails, Fault, Fails, Host, Quiet
  <2>. QED BY <1>28, <2>1 DEF StepFails, Quiet, Host, host, counters, Typed, Reports, Units, Services
<1>29. CASE Install
  BY <1>29 DEF Install, Start, NoCommand, NoReport, host, Commands, Kinds, Modes
<1>30. CASE OtherCommand
  <2>1. PICK kind \in Kinds, grant \in BOOLEAN : Start(kind, grant)
    BY <1>30 DEF OtherCommand, Kinds
  <2>. QED BY <2>1 DEF Start, NoCommand, NoReport, host, Commands, Kinds, Modes
<1>31. CASE Edit
  <2>1. PICK m \in Modes : canon' = [canon EXCEPT !.n = @ + 1, !.mode = m]
    BY <1>31 DEF Edit
  <2>2. canon' \in [n : Nat \ {0}, mode : Modes, pw : Nat, token : Nat]
    BY <1>c, <2>1
  <2>3. report' = NoReport /\ UNCHANGED <<bundle, matter, proj, host, proc, made>>
    BY <1>31 DEF Edit
  <2>. QED BY <2>2, <2>3 DEF NoReport, host, Kinds
<1>32. CASE NewBundle
  <2>1. bundle' = bundle + 1 /\ bundle < Releases /\ report' = NoReport
        /\ UNCHANGED <<canon, matter, proj, host, proc, made>>
    BY <1>32 DEF NewBundle
  <2>2. bundle' \in 1 .. Releases
    BY <1>0, <2>1, HermesAssumption
  <2>. QED BY <2>1, <2>2 DEF NoReport, host, Kinds
<1>33. CASE Drift
  BY <1>33 DEF Drift, Event, NoReport, Quiet, Host, host, counters, Services, Units, Modes, Kinds, VenvIsValid
<1>34. CASE Crash
  BY <1>34 DEF Crash, Event, NoReport, Off, Quiet, Host, host, counters, Services, Units, Modes, Kinds, VenvIsValid
<1>35. CASE AutoRestart
  BY <1>35 DEF AutoRestart, Started, Quiet, Host, host, counters, Services, Units
<1>36. CASE UNCHANGED vars
  BY <1>36 DEF vars, host, counters
<1>. QED BY <1>1, <1>2, <1>3, <1>4, <1>5, <1>6, <1>7, <1>8, <1>9, <1>10, <1>11,
           <1>12, <1>13, <1>14, <1>15, <1>16, <1>17, <1>18, <1>19, <1>20, <1>21,
           <1>22, <1>23, <1>24, <1>25, <1>26, <1>27, <1>28, <1>29, <1>30, <1>31,
           <1>32, <1>33, <1>34, <1>35, <1>36 DEF Next, Step

-----------------------------------------------------------------------------
(* How a command goes on.                                                  *)

Idles == (AutoRestart \/ UNCHANGED vars) /\ UNCHANGED <<proc, report>>

Disturbed == (Edit \/ NewBundle \/ Drift \/ Crash) /\ proc' = proc /\ report' = NoReport

Begins ==
    \E kind \in Kinds, grant \in BOOLEAN : Start(kind, grant) /\ (kind # "install" => ~grant)

Stops == proc.kind # "none" /\ \E ok \in BOOLEAN : Ends(ok)

Advances ==
    /\ proc.kind # "none" /\ proc.i < Len(Steps(proc.kind))
    /\ proc'.kind = proc.kind /\ proc'.grant = proc.grant /\ proc'.i = proc.i + 1
    /\ UNCHANGED report

LEMMA GoesWays ==
    ASSUME HermesTypeOK, CommandsHold, proc.kind # "none",
           NEW p \in Commands, p.kind = proc.kind, p.grant = proc.grant, p.i = proc.i,
           Goes(p)
    PROVE  Stops \/ Advances
<1>1. Len(Steps(proc.kind)) \in Nat
  <2>1. proc.kind \in Kinds
    BY DEF HermesTypeOK, Commands
  <2>2. \A kind \in Kinds : Len(Steps(kind)) \in Nat
    BY DEF Kinds, Steps
  <2>. QED BY <2>1, <2>2
<1>2. proc.i \in 1 .. Len(Steps(proc.kind))
  BY DEF CommandsHold
<1>3. CASE Ends(TRUE)
  BY <1>3 DEF Stops
<1>4. CASE proc.i # Len(Steps(proc.kind)) /\ proc' = [p EXCEPT !.i = @ + 1] /\ UNCHANGED report
  <2>1. proc.i < Len(Steps(proc.kind))
    BY <1>1, <1>2, <1>4
  <2>2. proc'.kind = p.kind /\ proc'.grant = p.grant /\ proc'.i = p.i + 1
    BY <1>4 DEF Commands
  <2>. QED BY <1>4, <2>1, <2>2 DEF Advances
<1>. QED BY <1>3, <1>4 DEF Goes

LEMMA StepWays ==
    ASSUME HermesTypeOK, CommandsHold, Step \/ StepFails
    PROVE  Stops \/ Advances
<1>. DEFINE On == Stops \/ Advances
<1>0. proc \in Commands /\ canon.pw \in Nat /\ canon.token \in Nat /\ canon.n \in Nat
      /\ canon.mode \in Modes /\ made + 1 \in Nat
  BY DEF HermesTypeOK
<1>1. \A s \in STRING : At(s) => proc.kind # "none"
  BY DEF At
<1>2. proc.kind # "none" /\ (Ok \/ Fails \/ Ends(FALSE) \/ Ends(TRUE)) => On
  <2>1. proc.kind # "none" /\ Goes(proc) => On
    BY <1>0, GoesWays
  <2>. QED BY <2>1 DEF Ok, Fails, Stops
<1>3. ASSUME Revoke \/ Authorize \/ AdminPolicy \/ SaveCredentials \/ Packages
             \/ FetchArtifacts \/ RemoveVenv \/ BuildVenv \/ Evidence \/ RenderConfig
             \/ WriteUnit \/ Link \/ SkillOut \/ SkillIn \/ HashBound \/ Reload \/ Restart
             \/ Status \/ Disable \/ Unlink \/ Unload \/ RemoveRoot \/ Purge \/ StepFails
      PROVE  On
  <2>1. proc.kind # "none" /\ (Ok \/ Fails \/ Ends(FALSE) \/ Ends(TRUE))
    BY <1>1, <1>3, Zenon DEF Revoke, Authorize, AdminPolicy, SaveCredentials, Packages,
       FetchArtifacts, RemoveVenv, BuildVenv, Evidence, RenderConfig, WriteUnit, Link,
       SkillOut, SkillIn, HashBound, Reload, Restart, Status, Disable, Unlink, Unload,
       RemoveRoot, Purge, StepFails, At
  <2>. QED BY <1>2, <2>1
<1>4. ASSUME NEW x \in Nat, proc.kind # "none",
             Goes([proc EXCEPT !.pw = x]) \/ Goes([proc EXCEPT !.token = x])
                 \/ Goes([proc EXCEPT !.n = x])
      PROVE  On
  <2>1. /\ [proc EXCEPT !.pw = x] \in Commands /\ [proc EXCEPT !.token = x] \in Commands
        /\ [proc EXCEPT !.n = x] \in Commands
    BY <1>0 DEF Commands
  <2>. QED BY <1>0, <1>4, <2>1, GoesWays DEF Commands
<1>5. CASE EnsureOperator
  <2>1. proc.kind # "none" /\ made' = made' 
    BY <1>5 DEF EnsureOperator, At
  <2>2. \/ Goes([proc EXCEPT !.pw = canon.pw]) \/ Fails \/ Ends(FALSE)
        \/ made' = made + 1 /\ Goes([proc EXCEPT !.pw = made'])
    BY <1>5 DEF EnsureOperator
  <2>. QED BY <1>0, <1>2, <1>4, <2>1, <2>2
<1>6. CASE EnsureToken
  <2>1. proc.kind # "none"
    BY <1>6 DEF EnsureToken, At
  <2>2. \/ Goes([proc EXCEPT !.token = canon.token]) \/ Ends(FALSE)
        \/ made' = made + 1 /\ Goes([proc EXCEPT !.token = made'])
    BY <1>6 DEF EnsureToken
  <2>. QED BY <1>0, <1>2, <1>4, <2>1, <2>2
<1>7. CASE Project
  BY <1>0, <1>4, <1>7 DEF Project, At
<1>8. CASE ReadMode
  <2>1. proc.kind # "none" /\ (Fails \/ Goes([proc EXCEPT !.mode = canon.mode]))
    BY <1>8 DEF ReadMode, At
  <2>2. [proc EXCEPT !.mode = canon.mode] \in Commands
    BY <1>0 DEF Commands
  <2>. QED BY <1>0, <1>2, <2>1, <2>2, GoesWays DEF Commands
<1>9. CASE Step
  BY <1>3, <1>5, <1>6, <1>7, <1>8, <1>9, Zenon DEF Step
<1>10. CASE StepFails
  BY <1>3, <1>10
<1>. QED BY <1>9, <1>10

LEMMA Ways ==
    ASSUME HermesTypeOK, CommandsHold, [Next]_vars
    PROVE  \/ Idles \/ Disturbed \/ Begins
           \/ (Step \/ StepFails) /\ (Stops \/ Advances)
<1>1. CASE Install
  <2>1. Start("install", canon.mode = "admin")
    BY <1>1 DEF Install
  <2>. QED BY <2>1 DEF Begins, Kinds
<1>2. CASE OtherCommand
  <2>1. \/ Start("install", canon.mode # "admin")
        \/ Start("reconcile", FALSE) \/ Start("remove", FALSE)
    BY <1>2 DEF OtherCommand
  <2>. QED BY <2>1 DEF Begins, Kinds
<1>3. CASE Edit \/ NewBundle \/ Drift \/ Crash
  BY <1>3 DEF Edit, NewBundle, Drift, Crash, Disturbed
<1>4. CASE AutoRestart \/ UNCHANGED vars
  BY <1>4 DEF AutoRestart, vars, counters, Idles
<1>. QED BY <1>1, <1>2, <1>3, <1>4, StepWays DEF Next

LEMMA CommandStep ==
    ASSUME HermesTypeOK, CommandsHold, GrantsHold, [Next]_vars
    PROVE  CommandsHold'
<1>1. \A kind \in Kinds : Len(Steps(kind)) \in Nat \ {0}
  BY DEF Kinds, Steps
<1>2. proc \in Commands
  BY DEF HermesTypeOK
<1>3. CASE Idles
  BY <1>3 DEF Idles, CommandsHold
<1>4. CASE Disturbed
  BY <1>4 DEF Disturbed, CommandsHold, NoReport
<1>5. CASE Begins
  <2>1. PICK kind \in Kinds, grant \in BOOLEAN : Start(kind, grant)
    BY <1>5 DEF Begins
  <2>2. proc'.kind = kind /\ proc'.i = 1 /\ report' = NoReport
    BY <2>1 DEF Start, NoCommand
  <2>. QED BY <1>1, <2>2 DEF CommandsHold, NoReport
<1>6. CASE Stops
  BY <1>6 DEF Stops, Ends, CommandsHold, NoCommand
<1>7. CASE Advances
  BY <1>1, <1>2, <1>7 DEF Advances, CommandsHold, NoReport, Commands
<1>. QED BY <1>3, <1>4, <1>5, <1>6, <1>7, Ways

-----------------------------------------------------------------------------
(* Privileges.                                                             *)

PrivilegesHold == CommandsHold /\ GrantsHold /\ RevokedAtOnce

LEMMA PrivilegeStep ==
    ASSUME HermesTypeOK, PrivilegesHold, [Next]_vars
    PROVE  PrivilegesHold'
<1>0. HermesTypeOK /\ CommandsHold /\ GrantsHold /\ RevokedAtOnce
  BY DEF PrivilegesHold
<1>1. CommandsHold'
  BY <1>0, CommandStep
<1>2. proc'.kind # "install" => ~proc'.grant
  <2>1. CASE Idles \/ Disturbed
    BY <1>0, <2>1 DEF GrantsHold, Idles, Disturbed
  <2>2. CASE Begins
    <3>1. PICK kind \in Kinds, grant \in BOOLEAN :
              Start(kind, grant) /\ (kind # "install" => ~grant)
      BY <2>2 DEF Begins
    <3>2. proc'.kind = kind /\ proc'.grant = grant
      BY <3>1 DEF Start, NoCommand
    <3>. QED BY <3>1, <3>2
  <2>3. CASE Stops
    BY <2>3 DEF Stops, Ends, NoCommand
  <2>4. CASE Advances
    BY <1>0, <2>4 DEF GrantsHold, Advances
  <2>. QED BY <1>0, <2>1, <2>2, <2>3, <2>4, Ways
<1>3. CASE Revoke
  <2>1. Stops \/ Advances
    <3>1. proc.kind # "none" /\ Goes(proc)
      BY <1>3 DEF Revoke, At, Ok
    <3>. QED BY <1>0, <3>1, GoesWays DEF HermesTypeOK
  <2>2. proc'.grant = FALSE \/ proc'.grant = proc.grant
    BY <2>1 DEF Stops, Ends, Advances, NoCommand
  <2>3. PublicRequested => ~proc.grant
    BY <1>0 DEF PublicRequested, GrantsHold
  <2>4. revoked' = PublicRequested /\ sudoers' = (sudoers /\ ~PublicRequested)
    BY <1>3 DEF Revoke
  <2>5. revoked' => ~sudoers' /\ ~proc'.grant
    BY <2>2, <2>3, <2>4
  <2>. QED BY <1>1, <1>2, <2>5 DEF PrivilegesHold, GrantsHold, RevokedAtOnce
<1>4. CASE AdminPolicy
  <2>1. sudoers' = proc.grant /\ revoked' = revoked
    BY <1>4 DEF AdminPolicy, Host, Quiet
  <2>2. Stops \/ Advances
    <3>1. proc.kind # "none" /\ Goes(proc)
      BY <1>4 DEF AdminPolicy, At, Ok
    <3>. QED BY <1>0, <3>1, GoesWays DEF HermesTypeOK
  <2>3. proc'.grant = FALSE \/ proc'.grant = proc.grant
    BY <2>2 DEF Stops, Ends, Advances, NoCommand
  <2>. QED BY <1>0, <1>1, <1>2, <2>1, <2>3 DEF PrivilegesHold, GrantsHold, RevokedAtOnce
<1>5. CASE Begins
  <2>1. revoked' = FALSE
    BY <1>5 DEF Begins, Start
  <2>. QED BY <1>1, <1>2, <2>1 DEF PrivilegesHold, GrantsHold, RevokedAtOnce
<1>6. CASE UNCHANGED <<revoked, sudoers>> /\ ~Begins
  <2>1. proc'.grant = FALSE \/ proc'.grant = proc.grant
    BY <1>0, <1>6, Ways DEF Idles, Disturbed, Stops, Ends, Advances, NoCommand
  <2>. QED BY <1>0, <1>1, <1>2, <1>6, <2>1 DEF PrivilegesHold, GrantsHold, RevokedAtOnce
<1>7. Revoke \/ AdminPolicy \/ Begins \/ UNCHANGED <<revoked, sudoers>>
  <2>1. Install \/ OtherCommand => Begins
    <3>1. Install => Start("install", canon.mode = "admin")
      BY DEF Install
    <3>2. OtherCommand => \/ Start("install", canon.mode # "admin")
                          \/ Start("reconcile", FALSE) \/ Start("remove", FALSE)
      BY DEF OtherCommand
    <3>. QED BY <3>1, <3>2 DEF Begins, Kinds
  <2>2. Install \/ OtherCommand \/ Revoke \/ AdminPolicy \/ UNCHANGED <<revoked, sudoers>>
    BY Zenon DEF Next, Step, StepFails, Edit, NewBundle, Drift, Crash, AutoRestart, vars, host,
       Host, Quiet, Authorize, ReadMode, EnsureOperator, EnsureToken, SaveCredentials,
       Project, Packages, FetchArtifacts, RemoveVenv, BuildVenv, Evidence, RenderConfig,
       WriteUnit, Link, SkillOut, SkillIn, HashBound, Reload, Restart, Status, Disable,
       Unlink, Unload, RemoveRoot, Purge, OnlyVenv, OnlySkill, Mattermost
  <2>. QED BY <2>1, <2>2
<1>. QED BY <1>3, <1>4, <1>5, <1>6, <1>7

LEMMA OperatorInit ==
    HermesInit => HermesTypeOK /\ PrivilegesHold
<1>. SUFFICES ASSUME HermesInit PROVE HermesTypeOK /\ PrivilegesHold
  OBVIOUS
<1>1. PICK m \in Modes \ {"malformed"} :
          canon = [n |-> 1, mode |-> m, pw |-> 0, token |-> 0]
  BY DEF HermesInit
<1>2. canon \in [n : Nat \ {0}, mode : Modes, pw : Nat, token : Nat]
  BY <1>1 DEF Modes
<1>3. bundle \in 1 .. Releases
  BY HermesAssumption DEF HermesInit
<1>4. venv \in [1 .. Releases -> {"none", "partial", "valid"}]
  BY DEF HermesInit
<1>5. matter \in [password : Nat, tokens : SUBSET Nat]
  BY DEF HermesInit
<1>6. proc \in Commands /\ proc.kind = "none" /\ ~proc.grant
  BY DEF HermesInit, NoCommand, Commands
<1>7. service \in Services /\ unit \in Units /\ loaded \in Units
  BY DEF HermesInit, Off, Services, Units
<1>8. report \in [kind : Kinds \cup {"none"}, ok : BOOLEAN, n : Nat]
  BY DEF HermesInit, NoReport
<1>9. HermesTypeOK
  BY <1>2, <1>3, <1>4, <1>5, <1>6, <1>7, <1>8 DEF HermesInit, HermesTypeOK
<1>10. PrivilegesHold
  BY <1>6 DEF HermesInit, PrivilegesHold, CommandsHold, GrantsHold, RevokedAtOnce
<1>. QED BY <1>9, <1>10

\* The variables keep their types.
THEOREM HermesTyped == Spec => []HermesTypeOK
<1>1. HermesInit => HermesTypeOK
  BY OperatorInit
<1>2. HermesTypeOK /\ [Next]_vars => HermesTypeOK'
  BY TypeStep
<1>. QED BY <1>1, <1>2, PTL DEF Spec

\* After a command that was asked for the public mode has begun, the agent has
\* no sudo, however the command ended, until another one begins.  (install,
\* reconcile: "This mode peek fails toward public mode")
THEOREM PrivilegesGoAtOnce == Spec => []RevokedAtOnce
<1>1. HermesInit => PrivilegesHold
  BY OperatorInit
<1>2. HermesTypeOK /\ PrivilegesHold /\ [Next]_vars => PrivilegesHold'
  BY PrivilegeStep
<1>3. PrivilegesHold => RevokedAtOnce
  BY DEF PrivilegesHold
<1>. QED BY <1>1, <1>2, <1>3, HermesTyped, PTL DEF Spec

-----------------------------------------------------------------------------
(* Installations.                                                          *)

\* What the steps of an installation before `proc.i` have left.
InstallHolds ==
    proc.kind = "install" =>
        /\ proc.i > 2 => proc.pw = matter.password
        /\ proc.i > 4 => canon.pw = proc.pw
        /\ proc.i > 5 => proj = proc.n /\ proc.n <= canon.n
        /\ proc.i > 12 => proc.n <= conf /\ conf <= canon.n
        /\ proc.i > 13 => unit # "none"
        /\ proc.i > 14 => current = bundle
        /\ proc.i > 19 => loaded = unit /\ ~legacy
        /\ proc.i > 20 /\ service.state = "on" => service = Started

\* An installation is at its one step of each name.
LEMMA InstallAt ==
    ASSUME HermesTypeOK, CommandsHold, proc.kind = "install"
    PROVE  /\ proc.i \in 1 .. 21 /\ Len(Steps(proc.kind)) = 21
           /\ At("revoke") => proc.i = 1
           /\ At("operator") => proc.i = 2
           /\ At("token") => proc.i = 3
           /\ At("save") => proc.i = 4
           /\ At("project") => proc.i = 5
           /\ At("authorize") => proc.i = 6
           /\ At("packages") => proc.i = 7
           /\ At("fetch") => proc.i = 8
           /\ At("venv") => proc.i = 9
           /\ At("build") => proc.i = 10
           /\ At("evidence") => proc.i = 11
           /\ At("config") => proc.i = 12
           /\ At("unit") => proc.i = 13
           /\ At("link") => proc.i = 14
           /\ At("skill_out") => proc.i = 15
           /\ At("skill_in") => proc.i = 16
           /\ At("policy") => proc.i = 17
           /\ At("bound") => proc.i = 18
           /\ At("reload") => proc.i = 19
           /\ At("restart") => proc.i = 20
           /\ At("status") => proc.i = 21
           /\ ~At("mode") /\ ~At("disable") /\ ~At("unlink") /\ ~At("unload")
           /\ ~At("rmtree") /\ ~At("purge")
<1>1. proc.i \in 1 .. 21 /\ Len(Steps(proc.kind)) = 21
  BY InstallSteps DEF CommandsHold
<1>2. \/ proc.i = 1 \/ proc.i = 2 \/ proc.i = 3 \/ proc.i = 4 \/ proc.i = 5
      \/ proc.i = 6 \/ proc.i = 7 \/ proc.i = 8 \/ proc.i = 9 \/ proc.i = 10
      \/ proc.i = 11 \/ proc.i = 12 \/ proc.i = 13 \/ proc.i = 14 \/ proc.i = 15
      \/ proc.i = 16 \/ proc.i = 17 \/ proc.i = 18 \/ proc.i = 19 \/ proc.i = 20
      \/ proc.i = 21
  BY <1>1
<1>. QED BY <1>1, <1>2, InstallSteps DEF At

\* A step of an installation that is not the last.
LEMMA InstallGoes ==
    ASSUME proc.kind = "install", Len(Steps(proc.kind)) = 21, proc.i # 21,
           NEW p \in Commands, p.kind = "install", p.i = proc.i, Goes(p)
    PROVE  /\ proc' = [p EXCEPT !.i = @ + 1] /\ UNCHANGED report
           /\ proc'.kind = "install" /\ proc'.i = proc.i + 1
           /\ proc'.pw = p.pw /\ proc'.n = p.n
BY DEF Goes, Commands

LEMMA InstallOk ==
    ASSUME proc \in Commands, proc.kind = "install", Len(Steps(proc.kind)) = 21,
           proc.i # 21, Ok
    PROVE  /\ UNCHANGED report
           /\ proc'.kind = "install" /\ proc'.i = proc.i + 1
           /\ proc'.pw = proc.pw /\ proc'.n = proc.n
<1>1. Goes(proc)
  BY DEF Ok
<1>. QED BY <1>1, InstallGoes

LEMMA EditionsStep ==
    ASSUME HermesTypeOK, EditionsHold, [Next]_vars
    PROVE  EditionsHold'
<1>0. canon \in [n : Nat \ {0}, mode : Modes, pw : Nat, token : Nat]
  BY DEF HermesTypeOK
<1>1. CASE UNCHANGED <<canon, modeOf>>
  BY <1>1 DEF EditionsHold
<1>2. CASE Edit
  <2>1. PICK m \in Modes : /\ canon' = [canon EXCEPT !.n = @ + 1, !.mode = m]
                           /\ modeOf' = Append(modeOf, m)
    BY <1>2, Zenon DEF Edit
  <2>2. canon'.n = canon.n + 1 /\ canon'.mode = m
    BY <1>0, <2>1
  <2>. QED BY <1>0, <2>1, <2>2 DEF EditionsHold
<1>3. CASE SaveCredentials
  <2>1. canon'.mode = canon.mode
        /\ \/ canon'.n = canon.n /\ modeOf' = modeOf
           \/ canon'.n = canon.n + 1 /\ modeOf' = Append(modeOf, canon.mode)
    BY <1>0, <1>3 DEF SaveCredentials
  <2>2. CASE canon'.n = canon.n /\ modeOf' = modeOf
    BY <2>1, <2>2 DEF EditionsHold
  <2>3. CASE canon'.n = canon.n + 1 /\ modeOf' = Append(modeOf, canon.mode)
    BY <1>0, <2>1, <2>3 DEF EditionsHold
  <2>. QED BY <2>1, <2>2, <2>3
<1>4. Edit \/ SaveCredentials \/ UNCHANGED <<canon, modeOf>>
  BY Zenon DEF Next, Step, StepFails, NewBundle, Drift, Crash, AutoRestart, vars, host,
     Host, Quiet, Authorize, ReadMode, EnsureOperator, EnsureToken, Revoke, AdminPolicy,
     Project, Packages, FetchArtifacts, RemoveVenv, BuildVenv, Evidence, RenderConfig,
     WriteUnit, Link, SkillOut, SkillIn, HashBound, Reload, Restart, Status, Disable,
     Unlink, Unload, RemoveRoot, Purge, OnlyVenv, OnlySkill, Mattermost, Install,
     OtherCommand, Start
<1>. QED BY <1>1, <1>2, <1>3, <1>4

\* While an installation runs nothing is reported.
LEMMA InstallQuiet ==
    ASSUME HermesTypeOK, CommandsHold, proc.kind = "install"
    PROVE  report = NoReport /\ proc \in Commands
BY DEF HermesTypeOK, CommandsHold

\* A step of an installation relies on what the steps before it have left.
LEMMA InstallStep ==
    ASSUME HermesTypeOK, CommandsHold, InstallHolds, proc.kind = "install",
           Step, ~Status
    PROVE  proc'.kind = "install" => InstallHolds' /\ proc'.i = proc.i + 1
<1>. SUFFICES ASSUME proc'.kind = "install" PROVE InstallHolds' /\ proc'.i = proc.i + 1
  OBVIOUS
<1>. USE InstallAt, InstallQuiet
<1>t. /\ canon \in [n : Nat \ {0}, mode : Modes, pw : Nat, token : Nat]
      /\ conf \in Nat /\ proj \in Nat /\ made \in Nat /\ matter \in [password : Nat, tokens : SUBSET Nat]
      /\ proc \in Commands
  BY DEF HermesTypeOK
<1>n. ~Ends(TRUE) /\ ~Ends(FALSE) /\ ~Fails
  BY DEF Ends, Fails, NoCommand
<1>o. Ok => proc.i # 21 /\ proc'.i = proc.i + 1 /\ proc'.pw = proc.pw /\ proc'.n = proc.n
  <2>1. Ok => proc.i # 21
    BY <1>n DEF Ok, Goes
  <2>. QED BY <2>1, InstallOk
<1>1. CASE Revoke
  <2>1. At("revoke") /\ (Ok \/ Fails \/ Ends(FALSE))
    BY <1>1, Zenon DEF Revoke
  <2>2. UNCHANGED <<canon, matter, proj, conf, bundle, current, loaded, unit, legacy, service>>
    BY <1>1, Zenon DEF Revoke, host
  <2>3. proc.i = 1 /\ Ok
    BY <1>n, <2>1
  <2>. QED BY <1>o, <1>t, <2>2, <2>3 DEF InstallHolds
<1>2. CASE Authorize
  <2>1. At("authorize") /\ (Ok \/ Fails \/ Ends(FALSE))
    BY <1>2, Zenon DEF Authorize
  <2>2. UNCHANGED <<canon, matter, proj, conf, bundle, current, loaded, unit, legacy, service>>
    BY <1>2, Zenon DEF Authorize, Host, host, Quiet
  <2>3. proc.i = 6 /\ Ok
    BY <1>n, <2>1
  <2>. QED BY <1>o, <1>t, <2>2, <2>3 DEF InstallHolds
<1>3. CASE AdminPolicy
  <2>1. At("policy") /\ (Ok \/ Fails \/ Ends(FALSE))
    BY <1>3, Zenon DEF AdminPolicy
  <2>2. UNCHANGED <<canon, matter, proj, conf, bundle, current, loaded, unit, legacy, service>>
    BY <1>3, Zenon DEF AdminPolicy, Host, Quiet
  <2>3. proc.i = 17 /\ Ok
    BY <1>n, <2>1
  <2>. QED BY <1>o, <1>t, <2>2, <2>3 DEF InstallHolds
<1>4. CASE Packages
  <2>1. At("packages") /\ (Ok \/ Fails \/ Ends(FALSE))
    BY <1>4, Zenon DEF Packages
  <2>2. UNCHANGED <<canon, matter, proj, conf, bundle, current, loaded, unit, legacy, service>>
    BY <1>4, Zenon DEF Packages, Host, Quiet
  <2>3. proc.i = 7 /\ Ok
    BY <1>n, <2>1
  <2>. QED BY <1>o, <1>t, <2>2, <2>3 DEF InstallHolds
<1>5. CASE FetchArtifacts
  <2>1. At("fetch") /\ (Ok \/ Fails \/ Ends(FALSE))
    BY <1>5, Zenon DEF FetchArtifacts
  <2>2. UNCHANGED <<canon, matter, proj, conf, bundle, current, loaded, unit, legacy, service>>
    BY <1>5, Zenon DEF FetchArtifacts, Host, host, Quiet
  <2>3. proc.i = 8 /\ Ok
    BY <1>n, <2>1
  <2>. QED BY <1>o, <1>t, <2>2, <2>3 DEF InstallHolds
<1>6. CASE RemoveVenv
  <2>1. At("venv") /\ (Ok \/ Fails \/ Ends(FALSE))
    BY <1>6, Zenon DEF RemoveVenv
  <2>2. UNCHANGED <<canon, matter, proj, conf, bundle, current, loaded, unit, legacy, service>>
    BY <1>6, Zenon DEF RemoveVenv, OnlyVenv, Host, Quiet
  <2>3. proc.i = 9 /\ Ok
    BY <1>n, <2>1
  <2>. QED BY <1>o, <1>t, <2>2, <2>3 DEF InstallHolds
<1>7. CASE BuildVenv
  <2>1. At("build") /\ (Ok \/ Fails \/ Ends(FALSE))
    BY <1>7, Zenon DEF BuildVenv
  <2>2. UNCHANGED <<canon, matter, proj, conf, bundle, current, loaded, unit, legacy, service>>
    BY <1>7, Zenon DEF BuildVenv, OnlyVenv, Host, Quiet
  <2>3. proc.i = 10 /\ Ok
    BY <1>n, <2>1
  <2>. QED BY <1>o, <1>t, <2>2, <2>3 DEF InstallHolds
<1>8. CASE Evidence
  <2>1. At("evidence") /\ (Ok \/ Fails \/ Ends(FALSE))
    BY <1>8, Zenon DEF Evidence
  <2>2. UNCHANGED <<canon, matter, proj, conf, bundle, current, loaded, unit, legacy, service>>
    BY <1>8, Zenon DEF Evidence, Host, host, Quiet
  <2>3. proc.i = 11 /\ Ok
    BY <1>n, <2>1
  <2>. QED BY <1>o, <1>t, <2>2, <2>3 DEF InstallHolds
<1>9. CASE SkillOut
  <2>1. At("skill_out") /\ (Ok \/ Fails \/ Ends(FALSE))
    BY <1>9, Zenon DEF SkillOut
  <2>2. UNCHANGED <<canon, matter, proj, conf, bundle, current, loaded, unit, legacy, service>>
    BY <1>9, Zenon DEF SkillOut, OnlySkill, Host, Quiet
  <2>3. proc.i = 15 /\ Ok
    BY <1>n, <2>1
  <2>. QED BY <1>o, <1>t, <2>2, <2>3 DEF InstallHolds
<1>10. CASE SkillIn
  <2>1. At("skill_in") /\ (Ok \/ Fails \/ Ends(FALSE))
    BY <1>10, Zenon DEF SkillIn
  <2>2. UNCHANGED <<canon, matter, proj, conf, bundle, current, loaded, unit, legacy, service>>
    BY <1>10, Zenon DEF SkillIn, OnlySkill, Host, Quiet
  <2>3. proc.i = 16 /\ Ok
    BY <1>n, <2>1
  <2>. QED BY <1>o, <1>t, <2>2, <2>3 DEF InstallHolds
<1>11. CASE HashBound
  <2>1. At("bound") /\ (Ok \/ Fails \/ Ends(FALSE))
    BY <1>11, Zenon DEF HashBound
  <2>2. UNCHANGED <<canon, matter, proj, conf, bundle, current, loaded, unit, legacy, service>>
    BY <1>11, Zenon DEF HashBound, Host, host, Quiet
  <2>3. proc.i = 18 /\ Ok
    BY <1>n, <2>1
  <2>. QED BY <1>o, <1>t, <2>2, <2>3 DEF InstallHolds
<1>12. CASE EnsureOperator
  <2>1. proc.i = 2 /\ UNCHANGED canon
    BY <1>12 DEF EnsureOperator, Mattermost
  <2>2. CASE matter.password # 0 /\ canon.pw # 0
    <3>1. UNCHANGED matter /\ matter.password = canon.pw /\ Goes([proc EXCEPT !.pw = canon.pw])
      BY <1>12, <1>n, <2>2 DEF EnsureOperator
    <3>2. [proc EXCEPT !.pw = canon.pw] \in Commands
      BY <1>t DEF Commands
    <3>3. proc'.i = 3 /\ proc'.pw = canon.pw
      BY <1>t, <2>1, <3>1, <3>2, InstallGoes DEF Commands
    <3>. QED BY <2>1, <3>1, <3>3 DEF InstallHolds
  <2>3. CASE ~(matter.password # 0 /\ canon.pw # 0)
    <3>1. made' = made + 1 /\ matter' = [matter EXCEPT !.password = made']
          /\ Goes([proc EXCEPT !.pw = made'])
      BY <1>12, <1>n, <2>3 DEF EnsureOperator
    <3>2. [proc EXCEPT !.pw = made'] \in Commands
      BY <1>t, <3>1 DEF Commands
    <3>3. proc'.i = 3 /\ proc'.pw = made'
      BY <1>t, <2>1, <3>1, <3>2, InstallGoes DEF Commands
    <3>. QED BY <1>t, <2>1, <3>1, <3>3 DEF InstallHolds
  <2>. QED BY <2>2, <2>3
<1>13. CASE EnsureToken
  <2>1. proc.i = 3
    BY <1>13 DEF EnsureToken
  <2>2. PICK x \in Nat : Goes([proc EXCEPT !.token = x])
    <3>1. \/ Goes([proc EXCEPT !.token = canon.token])
          \/ made' = made + 1 /\ Goes([proc EXCEPT !.token = made'])
      BY <1>13, <1>n DEF EnsureToken
    <3>2. canon.token \in Nat /\ made + 1 \in Nat
      BY <1>t
    <3>. QED BY <3>1, <3>2
  <2>3. matter'.password = matter.password
    BY <1>13, <1>t DEF EnsureToken
  <2>4. [proc EXCEPT !.token = x] \in Commands
    BY <1>t DEF Commands
  <2>5. proc'.i = 4 /\ proc'.pw = proc.pw
    BY <1>t, <2>1, <2>2, <2>4, InstallGoes DEF Commands
  <2>. QED BY <2>1, <2>3, <2>5 DEF InstallHolds
<1>14. CASE SaveCredentials
  <2>1. proc.i = 4 /\ Ok /\ UNCHANGED matter
    BY <1>14 DEF SaveCredentials
  <2>2. canon'.pw = proc.pw
    BY <1>14, <1>t DEF SaveCredentials
  <2>. QED BY <1>o, <2>1, <2>2 DEF InstallHolds
<1>15. CASE Project
  <2>1. proc.i = 5 /\ Goes([proc EXCEPT !.n = canon.n]) /\ proj' = canon.n
        /\ UNCHANGED <<canon, matter>>
    BY <1>15 DEF Project
  <2>2. [proc EXCEPT !.n = canon.n] \in Commands
    BY <1>t DEF Commands
  <2>3. proc'.i = 6 /\ proc'.pw = proc.pw /\ proc'.n = canon.n
    BY <1>t, <2>1, <2>2, InstallGoes DEF Commands
  <2>. QED BY <1>t, <2>1, <2>3 DEF InstallHolds
<1>16. CASE RenderConfig
  <2>1. proc.i = 12 /\ Ok /\ conf' = canon.n
    BY <1>16, <1>n DEF RenderConfig
  <2>2. UNCHANGED <<canon, matter, proj>>
    BY <1>16 DEF RenderConfig, Host
  <2>. QED BY <1>o, <1>t, <2>1, <2>2 DEF InstallHolds
<1>17. CASE WriteUnit
  <2>1. proc.i = 13 /\ Ok
    BY <1>17, <1>n DEF WriteUnit
  <2>2. UNCHANGED <<canon, matter, proj, conf>>
    BY <1>17 DEF WriteUnit, Host
  <2>3. unit' # "none"
    BY <1>17, <1>n DEF WriteUnit, WritesFiles
  <2>. QED BY <1>o, <1>t, <2>1, <2>2, <2>3 DEF InstallHolds
<1>18. CASE Link
  <2>1. proc.i = 14 /\ Ok /\ current' = bundle
    BY <1>18, <1>n DEF Link, WritesFiles
  <2>2. UNCHANGED <<canon, matter, proj, conf, bundle, unit>>
    BY <1>18 DEF Link, Host, Quiet
  <2>. QED BY <1>o, <1>t, <2>1, <2>2 DEF InstallHolds
<1>19. CASE Reload
  <2>1. proc.i = 19 /\ Ok /\ loaded' = unit /\ legacy' = FALSE
    BY <1>19 DEF Reload
  <2>2. UNCHANGED <<canon, matter, proj, conf, bundle, current, unit>>
    BY <1>19 DEF Reload, Host, Quiet
  <2>. QED BY <1>o, <1>t, <2>1, <2>2 DEF InstallHolds
<1>20. CASE Restart
  <2>1. proc.i = 20 /\ Ok
    BY <1>20, <1>n DEF Restart
  <2>2. UNCHANGED <<canon, matter, proj, conf, bundle, current, unit, loaded, legacy>>
    BY <1>20 DEF Restart, Host, Quiet
  <2>3. unit # "none" => service' = Started
    BY <1>20, <1>n DEF Restart
  <2>. QED BY <1>o, <1>t, <2>1, <2>2, <2>3 DEF InstallHolds, Started
<1>21. ~ReadMode /\ ~Disable /\ ~Unlink /\ ~Unload /\ ~RemoveRoot /\ ~Purge
  BY DEF ReadMode, Disable, Unlink, Unload, RemoveRoot, Purge
<1>. QED
  BY <1>1, <1>2, <1>3, <1>4, <1>5, <1>6, <1>7, <1>8, <1>9, <1>10, <1>11, <1>12, <1>13, <1>14, <1>15, <1>16, <1>17, <1>18, <1>19, <1>20, <1>21, Zenon DEF Step

\* What holds of every command, and what its report means.
InstallInv ==
    EditionsHold /\ PrivilegesHold /\ InstallHolds /\ InstalledMeansOperational

LEMMA StatusStep ==
    ASSUME HermesTypeOK, EditionsHold, CommandsHold, InstallHolds, Status,
           proc.kind = "install"
    PROVE  InstallHolds' /\ InstalledMeansOperational'
<1>1. proc.i = 21 /\ Len(Steps(proc.kind)) = 21
  BY InstallAt DEF Status
<1>2. /\ UNCHANGED <<canon, matter, proj, bundle, modeOf>>
      /\ UNCHANGED <<venv, current, conf, skill, sudoers, unit, loaded, enabled, legacy,
                     service>>
  BY DEF Status, Host, Quiet, host
<1>3. Ends(TRUE) \/ Ends(FALSE)
  BY <1>1 DEF Status, Ok, Goes, Fails
<1>4. proc'.kind = "none"
  BY <1>3 DEF Ends, NoCommand
<1>5. CASE Healthy /\ ExternallyReady
  <2>1. report' = [kind |-> "install", ok |-> TRUE, n |-> proc.n] \/ report'.ok = FALSE
    BY <1>3 DEF Ends
  <2>2. /\ proc.n = canon.n /\ conf = canon.n /\ proj = canon.n
        /\ current = bundle /\ loaded = unit /\ ~legacy /\ canon.pw = matter.password
    <3>1. proj = canon.n
      BY <1>5 DEF Healthy
    <3>. QED BY <1>1, <3>1 DEF InstallHolds, HermesTypeOK
  <2>3. service = Started
    BY <1>1, <1>5 DEF InstallHolds, Healthy
  <2>4. modeOf[canon.n] = canon.mode
    BY DEF EditionsHold
  <2>5. /\ sudoers <=> canon.mode = "admin"
        /\ unit = IF canon.mode = "admin" THEN "open" ELSE "hardened"
    BY <1>5 DEF Healthy, ModeReady
  <2>6. service = [state |-> "on", rel |-> bundle, conf |-> canon.n, proj |-> canon.n,
                   unit |-> IF modeOf[canon.n] = "admin" THEN "open" ELSE "hardened"]
    BY <2>2, <2>3, <2>4, <2>5 DEF Started
  <2>7. Operational(canon.n)
    BY <1>5, <2>2, <2>4, <2>5, <2>6 DEF Operational, Healthy, VenvIsValid, ExternallyReady
  <2>8. report'.n = proc.n \/ report'.ok = FALSE
    BY <2>1
  <2>9. Operational(canon.n)'
    BY <1>2, <2>7 DEF Operational
  <2>. QED BY <1>2, <1>4, <2>2, <2>8, <2>9 DEF InstallHolds, InstalledMeansOperational, Operational
<1>6. CASE ~(Healthy /\ ExternallyReady)
  <2>1. Ends(FALSE)
    BY <1>6 DEF Status, Fails
  <2>2. ~report'.ok
    BY <2>1 DEF Ends
  <2>. QED BY <1>4, <2>2 DEF InstallHolds, InstalledMeansOperational
<1>. QED BY <1>5, <1>6

\* An installation succeeds by its last step only.
LEMMA OnlyStatusSucceeds ==
    ASSUME HermesTypeOK, CommandsHold, proc.kind = "install", Step, ~Status
    PROVE  ~report'.ok
<1>. USE InstallAt, InstallQuiet
<1>1. ASSUME Ends(FALSE) \/ Fails PROVE ~report'.ok
  BY <1>1 DEF Fails, Ends
<1>2. ASSUME NEW p \in Commands, p.kind = "install", p.i = proc.i, proc.i # 21, Goes(p)
      PROVE  ~report'.ok
  BY <1>2, InstallGoes DEF NoReport
<1>3. ASSUME proc.i # 21, Ok PROVE ~report'.ok
  BY <1>2, <1>3 DEF Ok
<1>4. ASSUME NEW x \in Nat, proc.i # 21,
             Goes([proc EXCEPT !.pw = x]) \/ Goes([proc EXCEPT !.token = x])
                 \/ Goes([proc EXCEPT !.n = x])
      PROVE  ~report'.ok
  <2>1. /\ [proc EXCEPT !.pw = x] \in Commands /\ [proc EXCEPT !.token = x] \in Commands
        /\ [proc EXCEPT !.n = x] \in Commands
    BY DEF Commands
  <2>2. CASE Goes([proc EXCEPT !.pw = x])
    BY <1>2, <1>4, <2>1, <2>2 DEF Commands
  <2>3. CASE Goes([proc EXCEPT !.token = x])
    BY <1>2, <1>4, <2>1, <2>3 DEF Commands
  <2>4. CASE Goes([proc EXCEPT !.n = x])
    BY <1>2, <1>4, <2>1, <2>4 DEF Commands
  <2>. QED BY <1>4, <2>2, <2>3, <2>4
<1>5. CASE Revoke \/ Authorize \/ AdminPolicy \/ SaveCredentials \/ Packages
           \/ FetchArtifacts \/ RemoveVenv \/ BuildVenv \/ Evidence \/ RenderConfig
           \/ WriteUnit \/ Link \/ SkillOut \/ SkillIn \/ HashBound \/ Reload \/ Restart
  <2>1. Ok \/ Fails \/ Ends(FALSE)
    BY <1>5, Zenon DEF Revoke, Authorize, AdminPolicy, SaveCredentials, Packages,
       FetchArtifacts, RemoveVenv, BuildVenv, Evidence, RenderConfig, WriteUnit, Link,
       SkillOut, SkillIn, HashBound, Reload, Restart
  <2>2. \/ At("revoke") \/ At("authorize") \/ At("policy") \/ At("save") \/ At("packages")
        \/ At("fetch") \/ At("venv") \/ At("build") \/ At("evidence") \/ At("config")
        \/ At("unit") \/ At("link") \/ At("skill_out") \/ At("skill_in") \/ At("bound")
        \/ At("reload") \/ At("restart")
    BY <1>5, Zenon DEF Revoke, Authorize, AdminPolicy, SaveCredentials, Packages,
       FetchArtifacts, RemoveVenv, BuildVenv, Evidence, RenderConfig, WriteUnit, Link,
       SkillOut, SkillIn, HashBound, Reload, Restart
  <2>3. proc.i # 21
    BY <2>2
  <2>. QED BY <1>1, <1>3, <2>1, <2>3
<1>6. canon.pw \in Nat /\ canon.token \in Nat /\ canon.n \in Nat /\ made + 1 \in Nat
  BY DEF HermesTypeOK
<1>7. CASE EnsureOperator
  <2>1. \/ Goes([proc EXCEPT !.pw = canon.pw]) \/ Fails \/ Ends(FALSE)
        \/ made' = made + 1 /\ Goes([proc EXCEPT !.pw = made'])
    BY <1>7 DEF EnsureOperator
  <2>2. proc.i # 21
    BY <1>7 DEF EnsureOperator
  <2>. QED BY <1>1, <1>4, <1>6, <2>1, <2>2
<1>8. CASE EnsureToken
  <2>1. \/ Goes([proc EXCEPT !.token = canon.token]) \/ Ends(FALSE)
        \/ made' = made + 1 /\ Goes([proc EXCEPT !.token = made'])
    BY <1>8 DEF EnsureToken
  <2>2. proc.i # 21
    BY <1>8 DEF EnsureToken
  <2>. QED BY <1>1, <1>4, <1>6, <2>1, <2>2
<1>9. CASE Project
  <2>1. proc.i # 21 /\ Goes([proc EXCEPT !.n = canon.n])
    BY <1>9 DEF Project
  <2>. QED BY <1>4, <1>6, <2>1
<1>10. ~ReadMode /\ ~Disable /\ ~Unlink /\ ~Unload /\ ~RemoveRoot /\ ~Purge
  BY DEF ReadMode, Disable, Unlink, Unload, RemoveRoot, Purge
<1>. QED BY <1>5, <1>7, <1>8, <1>9, <1>10, Zenon DEF Step

LEMMA InstallInvStep ==
    ASSUME HermesTypeOK, InstallInv, [Next]_vars
    PROVE  InstallInv'
<1>0. EditionsHold /\ CommandsHold /\ InstallHolds /\ InstalledMeansOperational
  BY DEF InstallInv, PrivilegesHold
<1>1. EditionsHold'
  BY <1>0, EditionsStep
<1>2. PrivilegesHold'
  BY PrivilegeStep DEF InstallInv
<1>3. CASE Begins
  <2>1. proc'.i = 1 /\ report' = NoReport
    BY <1>3 DEF Begins, Start, NoCommand
  <2>. QED BY <1>1, <1>2, <2>1 DEF InstallInv, InstallHolds, InstalledMeansOperational, NoReport
<1>4. CASE Disturbed
  <2>1. ~report'.ok
    BY <1>4 DEF Disturbed, NoReport
  <2>2. InstallHolds'
    <3>1. CASE Edit
      <4>1. PICK m \in Modes : canon' = [canon EXCEPT !.n = @ + 1, !.mode = m]
        BY <3>1 DEF Edit
      <4>2. canon'.n = canon.n + 1 /\ canon'.pw = canon.pw
        BY <4>1 DEF HermesTypeOK
      <4>3. UNCHANGED <<bundle, matter, proj, host, proc>>
        BY <3>1 DEF Edit
      <4>. QED BY <1>0, <4>2, <4>3 DEF InstallHolds, HermesTypeOK, host, Started
    <3>2. CASE NewBundle \/ Drift
      <4>1. proc'.kind = "none"
        BY <3>2 DEF NewBundle, Drift
      <4>. QED BY <4>1 DEF InstallHolds
    <3>3. CASE Crash
      <4>1. service'.state = "retry"
        BY <3>3 DEF Crash, Off
      <4>. QED BY <1>0, <3>3, <4>1 DEF Crash, InstallHolds
    <3>. QED BY <1>4, <3>1, <3>2, <3>3 DEF Disturbed
  <2>. QED BY <1>1, <1>2, <2>1, <2>2 DEF InstallInv, InstalledMeansOperational
<1>5. CASE Idles
  <2>1. CASE UNCHANGED vars
    BY <1>0, <1>1, <1>2, <2>1 DEF InstallInv, InstallHolds, InstalledMeansOperational, Operational,
       vars, host, Started
  <2>2. CASE AutoRestart
    <3>1. service.state = "retry" /\ service' = Started
      BY <2>2 DEF AutoRestart
    <3>2. UNCHANGED <<canon, bundle, matter, proj, proc, report, current, conf, unit, loaded,
                      legacy>>
      BY <2>2 DEF AutoRestart
    <3>3. InstallHolds'
      BY <1>0, <3>1, <3>2 DEF InstallHolds, Started
    <3>4. ~(report.kind = "install" /\ report.ok)
      BY <1>0, <3>1 DEF InstalledMeansOperational, Operational
    <3>. QED BY <1>1, <1>2, <3>2, <3>3, <3>4 DEF InstallInv, InstalledMeansOperational
  <2>. QED BY <1>5, <2>1, <2>2 DEF Idles
<1>6. CASE (Step \/ StepFails) /\ proc.kind # "install" /\ (Stops \/ Advances)
  <2>1. proc'.kind # "install"
    BY <1>6 DEF Stops, Ends, Advances, NoCommand
  <2>2. report'.kind # "install"
    BY <1>0, <1>6 DEF Stops, Ends, Advances, CommandsHold, NoReport
  <2>. QED BY <1>1, <1>2, <2>1, <2>2 DEF InstallInv, InstallHolds, InstalledMeansOperational
<1>7. CASE StepFails
  <2>1. ~report'.ok /\ proc'.kind = "none"
    BY <1>7 DEF StepFails, Ends, NoCommand
  <2>. QED BY <1>1, <1>2, <2>1 DEF InstallInv, InstallHolds, InstalledMeansOperational
<1>8. CASE Step /\ ~Status /\ proc.kind = "install" /\ (Stops \/ Advances)
  <2>1. InstallHolds'
    <3>1. CASE proc'.kind = "install"
      BY <1>0, <1>8, <3>1, InstallStep
    <3>2. CASE proc'.kind # "install"
      BY <3>2 DEF InstallHolds
    <3>. QED BY <3>1, <3>2
  <2>2. ~report'.ok
    BY <1>0, <1>8, OnlyStatusSucceeds
  <2>. QED BY <1>1, <1>2, <2>1, <2>2 DEF InstallInv, InstalledMeansOperational
<1>9. CASE Status /\ proc.kind = "install"
  BY <1>0, <1>1, <1>2, <1>9, StatusStep DEF InstallInv
<1>. QED BY <1>0, <1>3, <1>4, <1>5, <1>6, <1>7, <1>8, <1>9, Ways

\* An installation that reports success has left a service that runs what the
\* edition it read demands: unit, privileges, configuration, release and skill,
\* whatever the commands before it had left half done.  (install, status_payload)
THEOREM InstallationsAreOperational == Spec => []InstalledMeansOperational
<1>1. HermesInit => InstallInv
  <2>. SUFFICES ASSUME HermesInit PROVE InstallInv
    OBVIOUS
  <2>1. EditionsHold
    BY DEF HermesInit, EditionsHold
  <2>2. proc.kind = "none" /\ report.kind = "none"
    BY DEF HermesInit, NoCommand, NoReport
  <2>. QED BY <2>1, <2>2, OperatorInit DEF InstallInv, InstallHolds, InstalledMeansOperational
<1>2. HermesTypeOK /\ InstallInv /\ [Next]_vars => InstallInv'
  BY InstallInvStep
<1>3. InstallInv => InstalledMeansOperational
  BY DEF InstallInv
<1>. QED BY <1>1, <1>2, <1>3, HermesTyped, PTL DEF Spec

=============================================================================
