---------------------------- MODULE EvidenceProofs ----------------------------
(***************************************************************************)
(* What is proved of the evidence of a release.                            *)
(*                                                                         *)
(* First the circle: whatever the commands, their number, their            *)
(* overlapping, their failures and the changes to the canonical file, none *)
(* of the files that rest on each other ever passes.                       *)
(*                                                                         *)
(* Then the types: what a command has left to do is in order (Shape), and  *)
(* what every group of steps does to it, to what the operator has read and *)
(* to the files.  On them rest the invariants of what is accepted: that    *)
(* evidence is labelled with the version it was made from (Present), that  *)
(* what is accepted together was observed together (RuntimeInv,            *)
(* ProjectionInv), and that C027 and C029 never name one evidence of       *)
(* PostgREST (TableInv).                                                   *)
(***************************************************************************)
EXTENDS ReleaseVerifier, TLAPS

-----------------------------------------------------------------------------
(* The circle.                                                             *)

\* No file of the circle has passed.
CircleInv ==
    /\ ev = [f \in Files |-> ev[f]]
    /\ \A f \in Circle : ~ev[f].ok

\* A file outside of the circle changes nothing in it.
LEMMA WriteOutside ==
    ASSUME CircleInv, NEW f \in Files \ Circle, NEW e, Write(f, e)
    PROVE  CircleInv'
BY DEF CircleInv, Write, Circle, Files

\* A file of the circle that is written without passing keeps it closed.
LEMMA WriteFailed ==
    ASSUME CircleInv, NEW f \in Circle, NEW e, Write(f, e),
           "ok" \in DOMAIN e, ~e.ok
    PROVE  CircleInv'
<1>1. ev'[f].ok = e.ok
  BY DEF CircleInv, Write, Circle, Files
<1>2. ev' = [g \in Files |-> ev'[g]]
  BY DEF CircleInv, Write
<1>3. \A g \in Circle \ {f} : ev'[g] = ev[g]
  BY DEF CircleInv, Write, Circle, Files
<1> QED  BY <1>1, <1>2, <1>3 DEF CircleInv

\* What the producers put into a document does not change whether it passes.
LEMMA DocumentPasses ==
    ASSUME NEW b
    PROVE  /\ "ok" \in DOMAIN Document(b) /\ Document(b).ok = b
           /\ \A p : LET d == [Document(b) EXCEPT !.pins = p]
                     IN  "ok" \in DOMAIN d /\ d.ok = b
           /\ \A o : "ok" \in DOMAIN Begun(o, b) /\ Begun(o, b).ok = b
           /\ \A o, s : LET d == [Begun(o, b) EXCEPT !.saw = s]
                         IN  "ok" \in DOMAIN d /\ d.ok = b
           /\ "ok" \in DOMAIN FailurePayload /\ ~FailurePayload.ok
BY DEF Document, Missing, Begun, FailurePayload

\* In the circle nobody finds what he waits for.
LEMMA NobodyIsServed ==
    ASSUME CircleInv
    PROVE  /\ ~IndexedInventory /\ ~ToolhiveGatewayAudit /\ ~CompletionSubjects
           /\ ~Current("e2e") /\ ~ev["e2e"].ok
           /\ \A gate : ~C046DatasourceDependency(gate)
BY DEF CircleInv, Circle, IndexedInventory, ToolhiveGatewayAudit, CompletionSubjects,
       Current, C046DatasourceDependency, FreshDependency

\* Nothing has passed where no evidence is.
LEMMA CircleInit == EvidenceInit => CircleInv
BY DEF EvidenceInit, CircleInv, Circle, Files, Missing

\* The profiles wait for the end-to-end canary, the index passes for the
\* profiles.
LEMMA ProfilesKeepCircle ==
    ASSUME CircleInv, NEW o \in Operators, Profiles(o)
    PROVE  CircleInv'
<1>1. CASE Prepare(o)
  <2>1. Write("profile_reconcile", Document(FALSE))
    BY <1>1 DEF Prepare
  <2> QED  BY <2>1, WriteFailed, DocumentPasses DEF Circle
<1>2. CASE KestraReconcile(o)
  <2>1. Write("kestra_reconcile", Document(TRUE)) \/ UNCHANGED ev
    BY <1>2 DEF KestraReconcile
  <2> QED  BY <2>1, WriteOutside DEF Files, Circle, CircleInv
<1>3. CASE KestraVerify(o)
  BY <1>3 DEF KestraVerify, CircleInv
<1>4. CASE KestraVerified(o)
  <2>1. (\E e : Write("kestra_verify", e)) \/ UNCHANGED ev
    BY <1>4, Zenon DEF KestraVerified
  <2> QED  BY <2>1, WriteOutside DEF Files, Circle, CircleInv
<1>5. CASE VerifyAccess(o)
  <2>1. \E p : Write("profile_access", [Document(ev["e2e"].ok) EXCEPT !.pins = p])
    BY <1>5, Zenon DEF VerifyAccess
  <2>2. PICK p : Write("profile_access", [Document(ev["e2e"].ok) EXCEPT !.pins = p])
    BY <2>1
  <2> DEFINE d == [Document(ev["e2e"].ok) EXCEPT !.pins = p]
  <2>3. "ok" \in DOMAIN d /\ ~d.ok
    BY DocumentPasses, NobodyIsServed, Zenon
  <2> HIDE DEF d
  <2> QED  BY <2>2, <2>3, WriteFailed, Zenon DEF Circle, d
<1>6. CASE Finalize(o)
  <2>1. CompletionSubjects = FALSE
    BY NobodyIsServed
  <2>2. CASE Write("profile_reconcile", Document(FALSE))
    BY <2>2, WriteFailed, DocumentPasses DEF Circle
  <2>3. ASSUME NEW p, Write("profile_reconcile", [Document(FALSE) EXCEPT !.pins = p])
        PROVE  CircleInv'
    <3> DEFINE d == [Document(FALSE) EXCEPT !.pins = p]
    <3>1. "ok" \in DOMAIN d /\ ~d.ok
      BY DocumentPasses, Zenon
    <3> QED  BY <2>3, <3>1, WriteFailed, Zenon DEF Circle, d
  <2>4. \/ Write("profile_reconcile", Document(FALSE))
        \/ \E p : Write("profile_reconcile", [Document(CompletionSubjects) EXCEPT !.pins = p])
    BY <1>6, Zenon DEF Finalize
  <2>5. \/ Write("profile_reconcile", Document(FALSE))
        \/ \E p : Write("profile_reconcile", [Document(FALSE) EXCEPT !.pins = p])
    BY <2>1, <2>4
  <2> QED  BY <2>2, <2>3, <2>5, Zenon
<1>7. CASE IndexedPass(o)
  BY <1>7, NobodyIsServed DEF IndexedPass, CircleInv
<1> QED  BY <1>1, <1>2, <1>3, <1>4, <1>5, <1>6, <1>7 DEF Profiles

\* The runtime is outside of the circle.
LEMMA DaytonaKeepsCircle ==
    ASSUME CircleInv, NEW o \in Operators, Daytona(o)
    PROVE  CircleInv'
<1>1. \/ UNCHANGED ev
      \/ \E f \in Runtime \cup {"paperclip_verify"} : \E e : Write(f, e)
  <2>1. CASE Images(o)
    BY <2>1, Zenon DEF Images, Runtime
  <2>2. CASE Switch(o)
    BY <2>2, Zenon DEF Switch, Runtime
  <2>3. CASE Lifecycle(o)
    BY <2>3, Zenon DEF Lifecycle, Runtime
  <2>4. CASE DaytonaStepVerify(o)
    BY <2>4, Zenon DEF DaytonaStepVerify, Runtime
  <2>5. CASE ReconcileApply(o)
    BY <2>5, Zenon DEF ReconcileApply
  <2>6. CASE ReconcileDaytona(o)
    BY <2>6, Zenon DEF ReconcileDaytona, Unreconciled
  <2>7. CASE Probe(o)
    BY <2>7, Zenon DEF Probe, Unreconciled
  <2>8. CASE Emit(o)
    BY <2>8, Zenon DEF Emit, Unreconciled
  <2> QED  BY <2>1, <2>2, <2>3, <2>4, <2>5, <2>6, <2>7, <2>8 DEF Daytona
<1>2. Runtime \cup {"paperclip_verify"} \subseteq Files \ Circle
  BY DEF Runtime, Files, Circle
<1>3. CASE UNCHANGED ev
  BY <1>3 DEF CircleInv
<1>4. CASE \E f \in Runtime \cup {"paperclip_verify"} : \E e : Write(f, e)
  BY <1>2, <1>4, WriteOutside, Zenon
<1> QED  BY <1>1, <1>3, <1>4

\* The end-to-end canary waits for a finalized reconciliation.
LEMMA EndToEndKeepsCircle ==
    ASSUME CircleInv, NEW o \in Operators, EndToEnd(o)
    PROVE  CircleInv'
<1> USE DEF Circle
<1>1. CASE E2EApply(o)
  <2>1. UNCHANGED ev \/ \E p : Write("e2e", [Document(FALSE) EXCEPT !.pins = p])
    BY <1>1, Zenon DEF E2EApply
  <2>2. CASE UNCHANGED ev
    BY <2>2 DEF CircleInv
  <2>3. ASSUME NEW p, Write("e2e", [Document(FALSE) EXCEPT !.pins = p])
        PROVE  CircleInv'
    <3> DEFINE d == [Document(FALSE) EXCEPT !.pins = p]
    <3>1. "ok" \in DOMAIN d /\ ~d.ok
      BY DocumentPasses, Zenon
    <3> QED  BY <2>3, <3>1, WriteFailed, Zenon DEF d
  <2> QED  BY <2>1, <2>2, <2>3, Zenon
<1>2. CASE E2EFinish(o)
  <2> DEFINE Attestation(ok) == [Begun(o, ok) EXCEPT !.saw = Hash(Audited)]
  <2>1. Write("e2e", Attestation(ToolhiveGatewayAudit)) \/ Write("e2e", Attestation(FALSE))
    BY <1>2, Zenon DEF E2EFinish
  <2>2. ToolhiveGatewayAudit = FALSE
    BY NobodyIsServed
  <2>3. Write("e2e", Attestation(FALSE))
    BY <2>1, <2>2
  <2> DEFINE d == Attestation(FALSE)
  <2>4. "ok" \in DOMAIN d /\ ~d.ok
    BY DocumentPasses, Zenon
  <2> HIDE DEF d
  <2> QED  BY <2>3, <2>4, WriteFailed, Zenon DEF d
<1>3. CASE E2EVerify(o)
  <2> DEFINE proved == /\ Current("e2e") /\ Holds(ev["e2e"].pins)
                       /\ ValidatedDaytonaRuntime
                       /\ ToolhiveGatewayAudit /\ Holds(ev["e2e"].saw)
  <2>1. proved = FALSE
    BY NobodyIsServed
  <2>2. UNCHANGED ev \/ \E p : Write("e2e_verify", [Document(proved) EXCEPT !.pins = p])
    BY <1>3, Zenon DEF E2EVerify
  <2> HIDE DEF proved
  <2>3. UNCHANGED ev \/ \E p : Write("e2e_verify", [Document(FALSE) EXCEPT !.pins = p])
    BY <2>1, <2>2
  <2>4. CASE UNCHANGED ev
    BY <2>4 DEF CircleInv
  <2>5. ASSUME NEW p, Write("e2e_verify", [Document(FALSE) EXCEPT !.pins = p])
        PROVE  CircleInv'
    <3> DEFINE d == [Document(FALSE) EXCEPT !.pins = p]
    <3>1. "ok" \in DOMAIN d /\ ~d.ok
      BY DocumentPasses, Zenon
    <3> QED  BY <2>5, <3>1, WriteFailed, Zenon DEF d
  <2> QED  BY <2>3, <2>4, <2>5, Zenon
<1> QED  BY <1>1, <1>2, <1>3 DEF EndToEnd

\* A run of canaries writes files outside of the circle.
LEMMA IntegrationKeepsCircle ==
    ASSUME CircleInv, NEW o \in Operators, IntegrationRun(o)
    PROVE  CircleInv'
<1> DEFINE fs == {"postgrest", "canary", "consumer", "integration", "integration_C029"}
<1>1. UNCHANGED ev \/ \E f \in fs : \E e : Write(f, e)
  <2>1. CASE Begin(o)
    BY <2>1, Zenon DEF Begin
  <2>2. CASE Postgrest(o)
    BY <2>2, Zenon DEF Postgrest
  <2>3. CASE NotionCanary(o)
    BY <2>3, Zenon DEF NotionCanary
  <2>4. CASE NotionVerify(o)
    BY <2>4, Zenon DEF NotionVerify
  <2>5. CASE LiveCanary(o) \/ Compare(o) \/ CheckPostgrest(o) \/ Pin(o) \/ Row(o)
    BY <2>5, Zenon DEF LiveCanary, Compare, CheckPostgrest, Pin, Row
  <2>6. CASE Aggregate(o)
    BY <2>6, Zenon DEF Aggregate
  <2>7. CASE Split(o)
    BY <2>7, Zenon DEF Split
  <2> QED  BY <2>1, <2>2, <2>3, <2>4, <2>5, <2>6, <2>7 DEF IntegrationRun
<1>2. fs \subseteq Files \ Circle
  BY DEF Files, Circle
<1>3. CASE UNCHANGED ev
  BY <1>3 DEF CircleInv
<1>4. CASE \E f \in fs : \E e : Write(f, e)
  BY <1>2, <1>4, WriteOutside, Zenon
<1> QED  BY <1>1, <1>3, <1>4

\* The acceptance of the edge waits for the canary of observability.
LEMMA AcceptancesKeepCircle ==
    ASSUME CircleInv, NEW o \in Operators, Acceptances(o)
    PROVE  CircleInv'
<1> DEFINE fs == {"account", "connector", "hermes", "cloudflare_semantic"}
<1>1. \/ UNCHANGED ev \/ Write("cloudflare", FailurePayload)
      \/ \E f \in fs : \E e : Write(f, e)
  <2>1. CASE ProvisionVerify(o)
    BY <2>1, Zenon DEF ProvisionVerify
  <2>2. CASE NotionConnector(o)
    BY <2>2, Zenon DEF NotionConnector
  <2>3. CASE HermesCanary(o)
    BY <2>3, Zenon DEF HermesCanary
  <2>4. CASE HermesFinish(o)
    BY <2>4, Zenon DEF HermesFinish
  <2>5. CASE EdgeSemantic(o)
    BY <2>5, Zenon DEF EdgeSemantic
  <2>6. CASE RunAcceptance(o)
    BY <2>6, NobodyIsServed, Zenon DEF RunAcceptance
  <2> QED  BY <2>1, <2>2, <2>3, <2>4, <2>5, <2>6 DEF Acceptances
<1>2. fs \subseteq Files \ Circle
  BY DEF Files, Circle
<1>3. CASE UNCHANGED ev
  BY <1>3 DEF CircleInv
<1>4. CASE Write("cloudflare", FailurePayload)
  BY <1>4, WriteFailed, DocumentPasses DEF Circle
<1>5. CASE \E f \in fs : \E e : Write(f, e)
  BY <1>2, <1>5, WriteOutside, Zenon
<1> QED  BY <1>1, <1>3, <1>4, <1>5

\* Whatever is done, the circle stays closed.
LEMMA CircleStep == CircleInv /\ [Next]_vars => CircleInv'
<1> SUFFICES ASSUME CircleInv, [Next]_vars PROVE CircleInv'
  OBVIOUS
<1>1. CASE UNCHANGED ev
  BY <1>1 DEF CircleInv
<1>2. ASSUME NEW o \in Operators, Start(o) \/ Kill(o) PROVE CircleInv'
  BY <1>1, <1>2 DEF Start, Kill
<1>3. CASE Configure
  BY <1>1, <1>3 DEF Configure
<1>4. CASE UNCHANGED vars
  BY <1>1, <1>4 DEF vars
<1>5. ASSUME NEW o \in Operators,
             \/ Daytona(o) \/ Profiles(o) \/ EndToEnd(o)
             \/ IntegrationRun(o) \/ Acceptances(o)
      PROVE  CircleInv'
  BY <1>5, DaytonaKeepsCircle, ProfilesKeepCircle, EndToEndKeepsCircle,
     IntegrationKeepsCircle, AcceptancesKeepCircle
<1> QED  BY <1>2, <1>3, <1>4, <1>5 DEF Next

\* What is accepted of it needs one of its files.
LEMMA CircleCloses == CircleInv => EndToEndNeverPasses
<1> SUFFICES ASSUME CircleInv PROVE EndToEndNeverPasses
  OBVIOUS
<1>1. \A f \in Circle : ~ev[f].ok /\ ~Current(f)
  BY DEF CircleInv, Current
<1>2. ~ProvesE2E
  BY <1>1 DEF Circle, ProvesE2E, E2EDocument
<1>3. ~Acceptance
  <2>1. "C001" \in Required /\ (ConnectionEvidence("C001") => ProvesE2E)
    BY DEF Required, ConnectionEvidence
  <2> QED  BY <1>2, <2>1 DEF Acceptance
<1> QED
  BY <1>1, <1>2, <1>3
     DEF EndToEndNeverPasses, Circle, ProvesAccess, ProvesProfiles, ProvesProvisioning,
         IndexedEvidence, ProvesAccounts, ProvesObservability, ProvesCloudflare

\* The end-to-end canary, the proof of access and the finalized reconciliation
\* wait for each other, and the index passes, the canary of observability and the
\* acceptance of the edge for them: from an empty evidence directory none of them
\* passes and no release is accepted, whatever is run, as often and in whatever
\* order (toolhive_gateway_audit, completion_subjects,
\* profile_access_from_subject, indexed_inventory, c046_datasource_dependency).
THEOREM CircleIsClosed == Spec => []EndToEndNeverPasses
<1>1. EvidenceInit => CircleInv
  BY CircleInit
<1>2. CircleInv /\ [Next]_vars => CircleInv'
  BY CircleStep
<1>3. CircleInv => EndToEndNeverPasses
  BY CircleCloses
<1> QED  BY <1>1, <1>2, <1>3, PTL DEF Spec

-----------------------------------------------------------------------------
(* What a command has left to do.                                          *)

\* Every step of every command.
Steps ==
    {"images", "switch", "apply", "lifecycle", "verify", "reconcile", "probe", "emit",
     "account", "prepare", "postgrest", "connector", "e2e", "e2e_end", "e2e_verify",
     "kestra_reconcile", "kestra", "kestra_end", "access", "finalize", "indexed",
     "begin", "begin_all", "aggregate", "split", "search", "crud", "canary", "consumer",
     "compare", "projection_pin", "postgrest_check", "postgrest_pin", "hermes",
     "hermes_end", "edge", "cloudflare"} \cup Canaries

\* Documents, and what a producer has read, are records of these fields.
DocFields == {"n", "ok", "label", "snapshot", "values", "pins", "saw", "rows"}
IsDoc(e) == e = [x \in DocFields |-> e[x]]

MemFields == {"values", "snapshot", "pins", "own", "payload", "canaries", "left", "good", "rows"}
IsMem(m) == m = [x \in MemFields |-> m[x]]

\* Every file is a document, numbered by its writes.
EvidenceTyped ==
    /\ ev = [f \in Files |-> ev[f]]
    /\ \A f \in Files : IsDoc(ev[f]) /\ ev[f].n \in Nat

\* The operators have sequences of steps, and records.
CommandsTyped ==
    /\ canon \in Nat
    /\ todo \in [Operators -> Seq(Steps)]
    /\ mem = [o \in Operators |-> mem[o]]
    /\ \A o \in Operators :
          /\ IsMem(mem[o]) /\ mem[o].left \in Seq(Canaries)
          /\ mem[o].canaries \in BOOLEAN /\ mem[o].good \in BOOLEAN

\* The two beginnings of a run of canaries.
Begins == {"begin", "begin_all"}

\* Steps that only ever follow these ones.
Before == [reconcile  |-> {"verify"}, probe |-> {"reconcile"}, emit |-> {"probe"},
           kestra_end |-> {"kestra"}, aggregate |-> Begins \cup Canaries,
           split      |-> {"aggregate"}]

\* No step without the one it follows, no run without its end.
Ordered(s) ==
    /\ \A i \in 2 .. Len(s) : s[i] \in DOMAIN Before => s[i - 1] \in Before[s[i]]
    /\ \A i \in 1 .. Len(s) : s[i] \in Begins => i < Len(s) /\ s[i + 1] = "aggregate"

\* The steps before the row of a canary that relies on PostgREST, backwards.
Tables == {"C027", "C029"}

\* What precedes the row of such a canary, from the row backwards.
Chain == [C029 |-> <<"postgrest_pin", "postgrest_check", "postgrest", "projection_pin",
                     "compare", "consumer", "canary">>,
          C027 |-> <<"postgrest_pin", "postgrest_check", "postgrest", "crud">>]

\* As far as it has not been done yet, it is that.
Chained(s) ==
    \A i \in 1 .. Len(s) : s[i] \in Tables =>
        \A k \in 1 .. i - 1 : k \in DOMAIN Chain[s[i]] /\ s[i - k] = Chain[s[i]][k]

\* The steps of canaries.
Inside == {"search", "crud", "canary", "consumer", "compare", "projection_pin",
           "postgrest", "postgrest_check", "postgrest_pin"} \cup Canaries

\* Outside of a run nobody has a row to make.
NoRow(s) == \A i \in 1 .. Len(s) : s[i] \notin Canaries

\* In a run of canaries: at most one of them, and then the aggregate.
InRun(s) ==
    \E k \in 1 .. Len(s) :
        /\ s[k] = "aggregate"
        /\ \A j \in 1 .. k - 1 : s[j] \in Inside
        /\ \A j \in 1 .. Len(s) : s[j] \in Canaries => j = k - 1

\* What a command has left, in a run of canaries and outside.
WellFormed(s, running) ==
    /\ Ordered(s) /\ Chained(s)
    /\ running => InRun(s)
    /\ ~running => NoRow(s) /\ (s = <<>> \/ Head(s) # "aggregate")

\* So is what every operator has left.
Shape == CommandsTyped /\ \A o \in Operators : WellFormed(todo[o], mem[o].canaries)

\* What precedes a row of the two tables is known from its place.
LEMMA ChainHeads ==
    ASSUME NEW s \in Seq(Steps), Chained(s)
    PROVE  /\ Len(s) >= 2 /\ s[2] \in Tables => s[1] = "postgrest_pin"
           /\ Len(s) >= 3 /\ s[3] \in Tables => s[1] = "postgrest_check"
           /\ Len(s) >= 4 /\ s[4] \in Tables => s[1] = "postgrest"
           /\ Len(s) >= 5 /\ s[5] = "C029" => s[1] = "projection_pin"
           /\ Len(s) >= 6 /\ s[6] = "C029" => s[1] = "compare"
           /\ Len(s) >= 7 /\ s[7] = "C029" => s[1] = "consumer"
           /\ Len(s) >= 8 /\ s[8] = "C029" => s[1] = "canary"
           /\ \A i \in 1 .. Len(s) : s[i] = "C029" => i <= 8
<1> USE DEF Tables, Chain
<1>1. ASSUME NEW i \in 1 .. Len(s), s[i] \in Tables
      PROVE  /\ i > 1 => i - 1 \in DOMAIN Chain[s[i]] /\ s[1] = Chain[s[i]][i - 1]
  <2>1. ASSUME i > 1 PROVE i - 1 \in DOMAIN Chain[s[i]] /\ s[i - (i - 1)] = Chain[s[i]][i - 1]
    BY <1>1, <2>1 DEF Chained
  <2> QED  BY <2>1
<1>2. ASSUME NEW i \in 1 .. Len(s), s[i] = "C029"
      PROVE  /\ i <= 8
             /\ i = 5 => s[1] = "projection_pin"
             /\ i = 6 => s[1] = "compare"
             /\ i = 7 => s[1] = "consumer"
             /\ i = 8 => s[1] = "canary"
  <2> DEFINE q == Chain["C029"]
  <2>1. q = <<"postgrest_pin", "postgrest_check", "postgrest", "projection_pin",
              "compare", "consumer", "canary">>
    OBVIOUS
  <2>2. DOMAIN q = 1 .. 7
    BY <2>1
  <2>3. q[4] = "projection_pin" /\ q[5] = "compare" /\ q[6] = "consumer" /\ q[7] = "canary"
    BY <2>1
  <2>4. i > 1 => i - 1 \in DOMAIN q /\ s[1] = q[i - 1]
    BY <1>1, <1>2
  <2> HIDE DEF q, Chain, Tables
  <2> QED  BY <2>2, <2>3, <2>4
<1>3. ASSUME NEW i \in 2 .. 4, i <= Len(s), s[i] \in Tables
      PROVE  /\ i = 2 => s[1] = "postgrest_pin"
             /\ i = 3 => s[1] = "postgrest_check"
             /\ i = 4 => s[1] = "postgrest"
  <2>1. CASE s[i] = "C029"
    BY <1>1, <1>3, <2>1
  <2>2. CASE s[i] = "C027"
    BY <1>1, <1>3, <2>2
  <2> QED  BY <1>3, <2>1, <2>2
<1> HIDE DEF Tables, Chain
<1> QED  BY <1>2, <1>3

\* A step done leaves the rest as it was.
LEMMA TailKeeps ==
    ASSUME NEW s \in Seq(Steps), s # <<>>, Ordered(s), Chained(s)
    PROVE  /\ Tail(s) \in Seq(Steps) /\ Len(Tail(s)) = Len(s) - 1
           /\ \A i \in 1 .. Len(s) - 1 : Tail(s)[i] = s[i + 1]
           /\ Ordered(Tail(s)) /\ Chained(Tail(s))
           /\ Tail(s) # <<>> => Head(Tail(s)) = s[2] /\ Len(s) >= 2
<1>1. /\ Tail(s) \in Seq(Steps) /\ Len(Tail(s)) = Len(s) - 1
      /\ \A i \in 1 .. Len(s) - 1 : Tail(s)[i] = s[i + 1]
      /\ Tail(s) # <<>> => Head(Tail(s)) = s[2] /\ Len(s) >= 2
  OBVIOUS
<1> DEFINE t == Tail(s)
<1> HIDE DEF t
<1>2. t \in Seq(Steps) /\ Len(t) = Len(s) - 1 /\ Len(s) \in Nat
  BY <1>1 DEF t
<1>3. \A i \in 1 .. Len(s) - 1 : t[i] = s[i + 1]
  BY <1>1 DEF t
<1>4. Ordered(t)
  <2>1. ASSUME NEW i \in 2 .. Len(t), t[i] \in DOMAIN Before
        PROVE  t[i - 1] \in Before[t[i]]
    <3>1. t[i] = s[i + 1] /\ t[i - 1] = s[(i + 1) - 1] /\ i + 1 \in 2 .. Len(s)
      BY <1>2, <1>3
    <3> QED  BY <2>1, <3>1 DEF Ordered
  <2>2. ASSUME NEW i \in 1 .. Len(t), t[i] \in Begins
        PROVE  i < Len(t) /\ t[i + 1] = "aggregate"
    <3>1. t[i] = s[i + 1] /\ i + 1 \in 1 .. Len(s)
      BY <1>2, <1>3
    <3>2. i + 1 < Len(s) /\ s[(i + 1) + 1] = "aggregate"
      BY <2>2, <3>1 DEF Ordered
    <3> QED  BY <1>2, <1>3, <3>2
  <2> QED  BY <2>1, <2>2 DEF Ordered
<1>5. Chained(t)
  <2> SUFFICES ASSUME NEW i \in 1 .. Len(t), t[i] \in Tables, NEW k \in 1 .. i - 1
               PROVE  k \in DOMAIN Chain[t[i]] /\ t[i - k] = Chain[t[i]][k]
    BY DEF Chained
  <2>1. t[i] = s[i + 1] /\ i + 1 \in 1 .. Len(s) /\ k \in 1 .. (i + 1) - 1
    BY <1>2, <1>3
  <2>2. t[i - k] = s[(i + 1) - k]
    BY <1>2, <1>3
  <2> QED  BY <2>1, <2>2 DEF Chained
<1> QED  BY <1>1, <1>4, <1>5 DEF t

\* A failed step of a canary goes on with its row.
LEMMA RowKeeps ==
    ASSUME NEW s \in Seq(Steps), Ordered(s), Chained(s), InRun(s),
           NEW i \in 1 .. Len(s), s[i] \in Canaries
    PROVE  LET t == SubSeq(s, i, Len(s))
           IN  /\ t \in Seq(Steps) /\ t # <<>> /\ Head(t) = s[i]
               /\ Ordered(t) /\ Chained(t) /\ InRun(t)
               /\ \A j \in 1 .. Len(t) : t[j] \in Tables => j = 1
<1> DEFINE t == SubSeq(s, i, Len(s))
<1>1. t \in Seq(Steps) /\ Len(t) = Len(s) - i + 1 /\ Len(s) \in Nat /\ i \in Nat /\ i >= 1 /\ i <= Len(s)
  OBVIOUS
<1>2. \A j \in 1 .. Len(s) - i + 1 : t[j] = s[i + j - 1]
  OBVIOUS
<1> HIDE DEF t
<1>3. PICK k \in 1 .. Len(s) :
         /\ s[k] = "aggregate"
         /\ \A j \in 1 .. k - 1 : s[j] \in Inside
         /\ \A j \in 1 .. Len(s) : s[j] \in Canaries => j = k - 1
  BY DEF InRun
<1>4. i = k - 1
  BY <1>3
<1>5. ASSUME NEW j \in 1 .. Len(t), t[j] \in Canaries PROVE j = 1
  <2>1. t[j] = s[i + j - 1] /\ i + j - 1 \in 1 .. Len(s)
    BY <1>1, <1>2
  <2>2. i + j - 1 = k - 1
    BY <1>3, <1>5, <2>1
  <2> QED  BY <1>1, <1>4, <2>2
<1>6. Ordered(t)
  <2>1. ASSUME NEW j \in 2 .. Len(t), t[j] \in DOMAIN Before
        PROVE  t[j - 1] \in Before[t[j]]
    <3> DEFINE l == i + j - 1
    <3>1. t[j] = s[l] /\ t[j - 1] = s[l - 1] /\ l \in 2 .. Len(s)
      BY <1>1, <1>2
    <3> QED  BY <2>1, <3>1 DEF Ordered
  <2>2. ASSUME NEW j \in 1 .. Len(t), t[j] \in Begins
        PROVE  j < Len(t) /\ t[j + 1] = "aggregate"
    <3> DEFINE l == i + j - 1
    <3>1. t[j] = s[l] /\ l \in 1 .. Len(s)
      BY <1>1, <1>2
    <3>2. l < Len(s) /\ s[l + 1] = "aggregate"
      BY <2>2, <3>1 DEF Ordered
    <3>3. j + 1 \in 1 .. Len(t) /\ i + (j + 1) - 1 = l + 1
      BY <1>1, <3>2
    <3>4. t[j + 1] = s[i + (j + 1) - 1]
      BY <1>1, <1>2, <3>3
    <3> QED  BY <3>2, <3>3, <3>4
  <2> QED  BY <2>1, <2>2 DEF Ordered
<1>7. Chained(t)
  BY <1>1, <1>5 DEF Chained, Tables, Canaries
<1>8. InRun(t)
  <2>1. 2 \in 1 .. Len(t) /\ t[2] = "aggregate" /\ t[1] \in Inside
    <3>1. 2 \in 1 .. Len(t) /\ t[2] = s[i + 2 - 1] /\ t[1] = s[i + 1 - 1]
      BY <1>1, <1>2, <1>4
    <3> QED  BY <1>1, <1>3, <1>4, <3>1 DEF Inside
  <2> QED  BY <1>5, <2>1 DEF InRun
<1>9. t # <<>> /\ Head(t) = s[i]
  BY <1>1, <1>2
<1> QED  BY <1>1, <1>5, <1>6, <1>7, <1>8, <1>9 DEF t, Tables, Canaries

\* The elements of a concatenation.
LEMMA Joined ==
    ASSUME NEW s \in Seq(Steps), NEW t \in Seq(Steps)
    PROVE  /\ s \o t \in Seq(Steps) /\ Len(s \o t) = Len(s) + Len(t)
           /\ Len(s) \in Nat /\ Len(t) \in Nat
           /\ \A i \in 1 .. Len(s) : (s \o t)[i] = s[i]
           /\ \A i \in 1 .. Len(t) : (s \o t)[Len(s) + i] = t[i]
           /\ s # <<>> => s \o t # <<>> /\ Head(s \o t) = Head(s)
           /\ t # <<>> => s \o t # <<>>
OBVIOUS

\* Two plans one after the other.
LEMMA OrderedJoins ==
    ASSUME NEW s \in Seq(Steps), NEW t \in Seq(Steps), Ordered(s), Ordered(t),
           t # <<>> /\ Head(t) \in DOMAIN Before =>
              s # <<>> /\ s[Len(s)] \in Before[Head(t)]
    PROVE  Ordered(s \o t)
<1> DEFINE u == s \o t
           m == Len(s)
           n == Len(t)
<1>1. /\ Len(u) = m + n /\ m \in Nat /\ n \in Nat
      /\ \A i \in 1 .. m : u[i] = s[i]
      /\ \A i \in 1 .. n : u[m + i] = t[i]
  BY Joined
<1>2. n >= 1 /\ t[1] \in DOMAIN Before => m >= 1 /\ s[m] \in Before[t[1]]
  OBVIOUS
<1>3. /\ \A i \in 2 .. m : s[i] \in DOMAIN Before => s[i - 1] \in Before[s[i]]
      /\ \A i \in 2 .. n : t[i] \in DOMAIN Before => t[i - 1] \in Before[t[i]]
      /\ \A i \in 1 .. m : s[i] \in Begins => i < m /\ s[i + 1] = "aggregate"
      /\ \A i \in 1 .. n : t[i] \in Begins => i < n /\ t[i + 1] = "aggregate"
  BY DEF Ordered
<1> HIDE DEF u, m, n
<1>4. ASSUME NEW i \in 2 .. m + n, u[i] \in DOMAIN Before PROVE u[i - 1] \in Before[u[i]]
  <2>1. CASE i <= m
    <3>1. u[i] = s[i] /\ u[i - 1] = s[i - 1] /\ i \in 2 .. m
      BY <1>1, <2>1
    <3> QED  BY <1>3, <1>4, <3>1
  <2>2. CASE i > m + 1
    <3> DEFINE j == i - m
    <3>1. j \in 2 .. n /\ i = m + j /\ i - 1 = m + (j - 1) /\ j - 1 \in 1 .. n /\ j \in 1 .. n
      BY <1>1, <2>2
    <3> HIDE DEF j
    <3>2. u[i] = t[j] /\ u[i - 1] = t[j - 1]
      BY <1>1, <3>1
    <3> QED  BY <1>3, <1>4, <3>1, <3>2
  <2>3. CASE i = m + 1
    <3>1. u[i] = t[1] /\ i - 1 = m /\ m >= 1 /\ u[m] = s[m]
      BY <1>1, <2>3
    <3> QED  BY <1>1, <1>2, <1>4, <2>3, <3>1
  <2> QED  BY <1>1, <2>1, <2>2, <2>3
<1>5. ASSUME NEW i \in 1 .. m + n, u[i] \in Begins PROVE i < m + n /\ u[i + 1] = "aggregate"
  <2>1. CASE i <= m
    <3>1. i \in 1 .. m /\ u[i] = s[i]
      BY <1>1, <2>1
    <3>2. i < m /\ s[i + 1] = "aggregate"
      BY <1>3, <1>5, <3>1
    <3> QED  BY <1>1, <3>2
  <2>2. CASE i > m
    <3> DEFINE j == i - m
    <3>1. j \in 1 .. n /\ i = m + j /\ i + 1 = m + (j + 1)
      BY <1>1, <2>2
    <3> HIDE DEF j
    <3>2. j < n /\ t[j + 1] = "aggregate"
      BY <1>1, <1>3, <1>5, <3>1
    <3>3. j + 1 \in 1 .. n
      BY <1>1, <3>1, <3>2
    <3> QED  BY <1>1, <3>1, <3>2, <3>3
  <2> QED  BY <1>1, <2>1, <2>2
<1> QED  BY <1>1, <1>4, <1>5 DEF Ordered, u

\* Two sequences without rows have none together.
LEMMA NoRowJoins ==
    ASSUME NEW s \in Seq(Steps), NEW t \in Seq(Steps), NoRow(s), NoRow(t)
    PROVE  NoRow(s \o t)
<1> DEFINE u == s \o t
<1>1. /\ Len(u) = Len(s) + Len(t) /\ Len(s) \in Nat /\ Len(t) \in Nat
      /\ \A i \in 1 .. Len(s) : u[i] = s[i]
      /\ \A i \in 1 .. Len(t) : u[Len(s) + i] = t[i]
  BY Joined
<1> HIDE DEF u
<1>2. ASSUME NEW i \in 1 .. Len(u) PROVE u[i] \notin Canaries
  <2>1. CASE i <= Len(s)
    BY <1>1, <2>1 DEF NoRow
  <2>2. CASE i > Len(s)
    <3> DEFINE j == i - Len(s)
    <3>1. j \in 1 .. Len(t) /\ i = Len(s) + j
      BY <1>1, <2>2
    <3> HIDE DEF j
    <3> QED  BY <1>1, <3>1 DEF NoRow
  <2> QED  BY <1>1, <2>1, <2>2
<1> QED  BY <1>2 DEF NoRow, u

\* The steps of a canary end with its row and come before the rest.
LEMMA CanaryShape ==
    ASSUME NEW c \in Canaries, NEW r \in Seq(Steps), Ordered(r), NoRow(r),
           r # <<>>, Head(r) = "aggregate"
    PROVE  LET u == CanarySteps(c)
               t == u \o r
           IN  /\ t \in Seq(Steps) /\ t # <<>>
               /\ Head(t) \in {"search", "crud", "canary"}
               /\ Ordered(t) /\ Chained(t) /\ InRun(t)
               /\ \A i \in 1 .. Len(t) : t[i] \in Tables => i >= 5
               /\ \A i \in 1 .. Len(t) : t[i] = "C029" => i >= 8
<1> DEFINE u == CanarySteps(c)
           n == Len(u)
<1>1. /\ u \in Seq(Steps) /\ n \in {2, 5, 8} /\ u # <<>>
      /\ Head(u) \in {"search", "crud", "canary"} /\ u[n] = c
      /\ \A i \in 1 .. n : u[i] \in Inside /\ (u[i] \in Canaries => i = n)
      /\ c = "C027" => n = 5
      /\ c = "C029" => n = 8
      /\ c \in Tables => \A k \in 1 .. n - 1 : k \in DOMAIN Chain[c] /\ u[n - k] = Chain[c][k]
  <2>1. CASE c = "C024"
    <3>1. u = <<"search", "C024">>
      BY <2>1 DEF CanarySteps
    <3>2. u \in Seq(Steps) /\ n = 2 /\ u[1] = "search" /\ u[2] = "C024"
      BY <3>1 DEF Steps, Canaries
    <3>3. u # <<>>
      BY <3>1
    <3> HIDE DEF u
    <3>4. \A i \in 1 .. n : u[i] \in Inside /\ (u[i] \in Canaries => i = n)
      BY <3>2 DEF Inside, Canaries
    <3> QED  BY <2>1, <3>2, <3>3, <3>4 DEF Tables
  <2>2. CASE c = "C027"
    <3> DEFINE p == <<"crud">>
               q == PostgrestReference
               r1 == <<c>>
    <3>1. /\ p \in Seq(Steps) /\ Len(p) = 1 /\ p[1] = "crud"
          /\ q \in Seq(Steps) /\ Len(q) = 3 /\ q[1] = "postgrest"
          /\ q[2] = "postgrest_check" /\ q[3] = "postgrest_pin"
          /\ r1 \in Seq(Steps) /\ Len(r1) = 1 /\ r1[1] = "C027"
      BY <2>2 DEF PostgrestReference, Steps, Canaries
    <3>2. u = (p \o q) \o r1
      BY <2>2 DEF CanarySteps
    <3> HIDE DEF u, p, q, r1
    <3>3. /\ p \o q \in Seq(Steps) /\ Len(p \o q) = 4 /\ (p \o q)[1] = p[1]
          /\ (p \o q)[1 + 1] = q[1] /\ (p \o q)[1 + 2] = q[2] /\ (p \o q)[1 + 3] = q[3]
      <4>1. /\ p \o q \in Seq(Steps) /\ Len(p \o q) = Len(p) + Len(q)
            /\ \A i \in 1 .. Len(p) : (p \o q)[i] = p[i]
            /\ \A i \in 1 .. Len(q) : (p \o q)[Len(p) + i] = q[i]
        BY <3>1, Joined, Zenon
      <4> QED  BY <3>1, <4>1
    <3> DEFINE v == p \o q
    <3> HIDE DEF v
    <3>4. /\ u \in Seq(Steps) /\ n = 5 /\ u[1] = v[1] /\ u[2] = v[2]
          /\ u[3] = v[3] /\ u[4] = v[4] /\ u[4 + 1] = r1[1]
      <4>1. /\ v \o r1 \in Seq(Steps) /\ Len(v \o r1) = Len(v) + Len(r1)
            /\ \A i \in 1 .. Len(v) : (v \o r1)[i] = v[i]
            /\ \A i \in 1 .. Len(r1) : (v \o r1)[Len(v) + i] = r1[i]
        BY <3>1, <3>3, Joined, Zenon DEF v
      <4>2. u = v \o r1
        BY <3>2 DEF v
      <4> QED  BY <3>1, <3>3, <4>1, <4>2 DEF v
    <3>5. /\ u[1] = "crud" /\ u[2] = "postgrest" /\ u[3] = "postgrest_check"
          /\ u[4] = "postgrest_pin" /\ u[5] = "C027"
      BY <3>1, <3>3, <3>4 DEF v
    <3>6. \A i \in 1 .. n : u[i] \in Inside /\ (u[i] \in Canaries => i = n)
      BY <3>4, <3>5 DEF Inside, Canaries
    <3>7. \A k \in 1 .. n - 1 : k \in DOMAIN Chain[c] /\ u[n - k] = Chain[c][k]
      <4>1. Chain[c] = <<"postgrest_pin", "postgrest_check", "postgrest", "crud">>
        BY <2>2 DEF Chain
      <4> DEFINE d == Chain[c]
      <4>2. /\ DOMAIN d = 1 .. 4 /\ d[1] = "postgrest_pin" /\ d[2] = "postgrest_check"
            /\ d[3] = "postgrest" /\ d[4] = "crud"
        BY <4>1
      <4> HIDE DEF d
      <4> QED  BY <3>4, <3>5, <4>2 DEF d
    <3>8. u # <<>> /\ Head(u) = "crud"
      <4>1. Len(u) >= 1 /\ u \in Seq(Steps) /\ u[1] = "crud"
        BY <3>4, <3>5
      <4> QED  BY <4>1
    <3> HIDE DEF n
    <3> QED  BY <2>2, <3>4, <3>5, <3>6, <3>7, <3>8
  <2>3. CASE c = "C029"
    <3> DEFINE p == ProjectionPayload
               q == PostgrestReference
               r1 == <<c>>
    <3>1. /\ p \in Seq(Steps) /\ Len(p) = 4 /\ p[1] = "canary" /\ p[2] = "consumer"
          /\ p[3] = "compare" /\ p[4] = "projection_pin"
          /\ q \in Seq(Steps) /\ Len(q) = 3 /\ q[1] = "postgrest"
          /\ q[2] = "postgrest_check" /\ q[3] = "postgrest_pin"
          /\ r1 \in Seq(Steps) /\ Len(r1) = 1 /\ r1[1] = "C029"
      BY <2>3 DEF PostgrestReference, ProjectionPayload, Steps, Canaries
    <3>2. u = (p \o q) \o r1
      BY <2>3 DEF CanarySteps
    <3> HIDE DEF u, p, q, r1
    <3> DEFINE v == p \o q
    <3>3. /\ v \in Seq(Steps) /\ Len(v) = 7
          /\ v[1] = p[1] /\ v[2] = p[2] /\ v[3] = p[3] /\ v[4] = p[4]
          /\ v[4 + 1] = q[1] /\ v[4 + 2] = q[2] /\ v[4 + 3] = q[3]
      <4>1. /\ p \o q \in Seq(Steps) /\ Len(p \o q) = Len(p) + Len(q)
            /\ \A i \in 1 .. Len(p) : (p \o q)[i] = p[i]
            /\ \A i \in 1 .. Len(q) : (p \o q)[Len(p) + i] = q[i]
        BY <3>1, Joined, Zenon
      <4> QED  BY <3>1, <4>1, SMTT(30)
    <3> HIDE DEF v
    <3>4. /\ u \in Seq(Steps) /\ n = 8 /\ \A i \in 1 .. 7 : u[i] = v[i]
          /\ u[7 + 1] = r1[1]
      <4>1. /\ v \o r1 \in Seq(Steps) /\ Len(v \o r1) = Len(v) + Len(r1)
            /\ \A i \in 1 .. Len(v) : (v \o r1)[i] = v[i]
            /\ \A i \in 1 .. Len(r1) : (v \o r1)[Len(v) + i] = r1[i]
        BY <3>1, <3>3, Joined, Zenon
      <4> QED  BY <3>1, <3>2, <3>3, <4>1, SMTT(30) DEF v
    <3>5. /\ u[1] = "canary" /\ u[2] = "consumer" /\ u[3] = "compare"
          /\ u[4] = "projection_pin" /\ u[5] = "postgrest" /\ u[6] = "postgrest_check"
          /\ u[7] = "postgrest_pin" /\ u[8] = "C029"
      BY <3>1, <3>3, <3>4
    <3>6. \A i \in 1 .. n : u[i] \in Inside /\ (u[i] \in Canaries => i = n)
      BY <3>4, <3>5 DEF Inside, Canaries
    <3>7. \A k \in 1 .. n - 1 : k \in DOMAIN Chain[c] /\ u[n - k] = Chain[c][k]
      <4>1. Chain[c] = <<"postgrest_pin", "postgrest_check", "postgrest", "projection_pin",
                         "compare", "consumer", "canary">>
        BY <2>3 DEF Chain
      <4> DEFINE d == Chain[c]
      <4>2. /\ DOMAIN d = 1 .. 7 /\ d[1] = "postgrest_pin" /\ d[2] = "postgrest_check"
            /\ d[3] = "postgrest" /\ d[4] = "projection_pin" /\ d[5] = "compare"
            /\ d[6] = "consumer" /\ d[7] = "canary"
        BY <4>1
      <4> HIDE DEF d
      <4> QED  BY <3>4, <3>5, <4>2 DEF d
    <3>8. u # <<>> /\ Head(u) = "canary"
      <4>1. Len(u) >= 1 /\ u \in Seq(Steps) /\ u[1] = "canary"
        BY <3>4, <3>5
      <4> QED  BY <4>1
    <3> HIDE DEF n
    <3> QED  BY <2>3, <3>4, <3>5, <3>6, <3>7, <3>8
  <2> QED  BY <2>1, <2>2, <2>3 DEF Canaries
<1>2. \A i \in 1 .. n : u[i] \notin DOMAIN Before /\ u[i] \notin Begins
  <2>1. \A x \in Inside : x \notin DOMAIN Before /\ x \notin Begins
    BY DEF Inside, Before, Begins, Canaries
  <2> QED  BY <1>1, <2>1
<1> HIDE DEF u, n
<1>3. Ordered(u)
  BY <1>2 DEF Ordered, n
<1> DEFINE t == u \o r
<1>4. c \in Before["aggregate"] /\ u[Len(u)] = c
  BY <1>1 DEF Before, n
<1>5. Ordered(t)
  BY <1>1, <1>3, <1>4, OrderedJoins
<1>6. /\ t \in Seq(Steps) /\ t # <<>> /\ Head(t) = Head(u)
      /\ Len(t) = n + Len(r) /\ n \in Nat /\ Len(r) \in Nat /\ Len(r) >= 1
      /\ \A i \in 1 .. n : t[i] = u[i]
      /\ \A i \in 1 .. Len(r) : t[n + i] = r[i]
      /\ r[1] = "aggregate"
  BY <1>1, Joined DEF n
<1> HIDE DEF t
<1>7. ASSUME NEW i \in 1 .. Len(t), t[i] \in Canaries PROVE i = n /\ t[i] = c
  <2>1. CASE i <= n
    BY <1>1, <1>4, <1>6, <1>7, <2>1 DEF n
  <2>2. CASE i > n
    <3> DEFINE j == i - n
    <3>1. j \in 1 .. Len(r) /\ i = n + j
      BY <1>6, <2>2
    <3> HIDE DEF j
    <3> QED  BY <1>6, <1>7, <3>1 DEF NoRow
  <2> QED  BY <1>6, <2>1, <2>2
<1>8. Chained(t)
  <2> SUFFICES ASSUME NEW i \in 1 .. Len(t), t[i] \in Tables, NEW k \in 1 .. i - 1
               PROVE  k \in DOMAIN Chain[t[i]] /\ t[i - k] = Chain[t[i]][k]
    BY DEF Chained
  <2>1. i = n /\ t[i] = c
    BY <1>7 DEF Tables, Canaries
  <2>2. t[i - k] = u[n - k]
    BY <1>6, <2>1
  <2> QED  BY <1>1, <2>1, <2>2
<1>9. InRun(t)
  <2>1. n + 1 \in 1 .. Len(t) /\ t[n + 1] = "aggregate"
    BY <1>6
  <2>2. \A j \in 1 .. n : t[j] \in Inside
    BY <1>1, <1>6
  <2>3. (n + 1) - 1 = n
    BY <1>6
  <2> QED  BY <1>7, <2>1, <2>2, <2>3 DEF InRun
<1>10. /\ \A i \in 1 .. Len(t) : t[i] \in Tables => i >= 5
       /\ \A i \in 1 .. Len(t) : t[i] = "C029" => i >= 8
  BY <1>1, <1>7 DEF Tables, Canaries
<1> QED  BY <1>1, <1>5, <1>6, <1>8, <1>9, <1>10 DEF t, u

\* The steps that only follow others, spelled out for the provers.
LEMMA BeforeIs ==
    /\ DOMAIN Before = {"reconcile", "probe", "emit", "kestra_end", "aggregate", "split"}
    /\ Before["reconcile"] = {"verify"} /\ Before["probe"] = {"reconcile"}
    /\ Before["emit"] = {"probe"} /\ Before["kestra_end"] = {"kestra"}
    /\ Before["aggregate"] = Begins \cup Canaries /\ Before["split"] = {"aggregate"}
BY DEF Before

\* Every command begins in order, and outside of a run of canaries.
StartsWell(s) ==
    /\ s \in Seq(Steps) /\ s # <<>> /\ Ordered(s) /\ NoRow(s)
    /\ Head(s) \notin DOMAIN Before

\* Steps that may begin a command.
Plain == Steps \ (DOMAIN Before \cup Begins \cup Canaries)

\* Such steps are in order in any order.
LEMMA PlainStarts ==
    ASSUME NEW s \in Seq(Plain), s # <<>>
    PROVE  StartsWell(s)
<1>1. \A i \in 1 .. Len(s) : s[i] \in Plain
  OBVIOUS
<1>2. s \in Seq(Steps) /\ Head(s) \in Plain
  BY DEF Plain
<1> QED  BY <1>1, <1>2 DEF StartsWell, Ordered, NoRow, Plain

\* Commands of commands are in order.
LEMMA PlansJoin ==
    ASSUME NEW s, NEW t, StartsWell(s), StartsWell(t)
    PROVE  StartsWell(s \o t)
<1>1. Ordered(s \o t)
  BY OrderedJoins DEF StartsWell
<1>2. s \o t \in Seq(Steps) /\ s \o t # <<>> /\ Head(s \o t) = Head(s)
  BY Joined DEF StartsWell
<1>3. NoRow(s \o t)
  BY NoRowJoins DEF StartsWell
<1> QED  BY <1>1, <1>2, <1>3 DEF StartsWell

\* The verification of Daytona follows that of its control plane.
LEMMA RuntimeJoins ==
    ASSUME NEW s, StartsWell(s), s[Len(s)] = "verify"
    PROVE  StartsWell(s \o Reconcile)
<1>1. /\ Reconcile \in Seq(Steps) /\ Len(Reconcile) = 3 /\ Reconcile[1] = "reconcile"
      /\ Reconcile[2] = "probe" /\ Reconcile[3] = "emit"
  BY DEF Reconcile, Steps
<1>2. Ordered(Reconcile) /\ NoRow(Reconcile) /\ Head(Reconcile) = "reconcile"
  BY <1>1, BeforeIs DEF Ordered, NoRow, Begins, Canaries
<1>3. Ordered(s \o Reconcile)
  BY <1>1, <1>2, BeforeIs, OrderedJoins DEF StartsWell
<1>4. s \o Reconcile \in Seq(Steps) /\ s \o Reconcile # <<>> /\ Head(s \o Reconcile) = Head(s)
  BY <1>1, Joined DEF StartsWell
<1>5. NoRow(s \o Reconcile)
  BY <1>1, <1>2, NoRowJoins DEF StartsWell
<1> QED  BY <1>3, <1>4, <1>5 DEF StartsWell

\* So is every command of `platform`.
LEMMA PlansStart ==
    ASSUME NEW c \in AllCommands, NEW plan \in Plans(c)
    PROVE  StartsWell(plan)
<1>1. Plain = {"images", "switch", "apply", "lifecycle", "verify", "account", "prepare",
              "postgrest", "connector", "e2e", "e2e_end", "e2e_verify",
              "kestra_reconcile", "kestra", "access", "finalize", "indexed", "search",
              "crud", "canary", "consumer", "compare", "projection_pin",
              "postgrest_check", "postgrest_pin", "hermes", "hermes_end", "edge",
              "cloudflare"}
  BY BeforeIs DEF Plain, Steps, Begins, Canaries
<1>2. StartsWell(Provision)
  <2>1. Provision \in Seq(Plain) /\ Provision # <<>>
    BY <1>1 DEF Provision
  <2> QED  BY <2>1, PlainStarts
<1>3. StartsWell(RequireDaytonaDependencies)
  <2>1. RequireDaytonaDependencies \in Seq(Plain) /\ RequireDaytonaDependencies # <<>>
    BY <1>1 DEF RequireDaytonaDependencies
  <2> QED  BY <2>1, PlainStarts
<1>4. StartsWell(KestraCanary)
  <2>1. KestraCanary \in Seq(Plain) /\ KestraCanary # <<>>
    BY <1>1 DEF KestraCanary
  <2> QED  BY <2>1, PlainStarts
<1>5. StartsWell(HermesAcceptance) /\ StartsWell(CloudflareAcceptance)
  <2>1. HermesAcceptance \in Seq(Plain) /\ HermesAcceptance # <<>>
    BY <1>1 DEF HermesAcceptance
  <2>2. CloudflareAcceptance \in Seq(Plain) /\ CloudflareAcceptance # <<>>
    BY <1>1 DEF CloudflareAcceptance
  <2> QED  BY <2>1, <2>2, PlainStarts
<1>6. StartsWell(ObservabilityAcceptance)
  <2>1. ObservabilityAcceptance \in Seq(Plain) /\ ObservabilityAcceptance # <<>>
    BY <1>1 DEF ObservabilityAcceptance
  <2> QED  BY <2>1, PlainStarts
<1>7. \A x \in Plain : StartsWell(<<x>>)
  <2>1. \A x \in Plain : <<x>> \in Seq(Plain) /\ <<x>> # <<>>
    OBVIOUS
  <2> QED  BY <2>1, PlainStarts
<1>8. StartsWell(ProfileAcceptance)
  <2> DEFINE s == ProfileAcceptance
  <2>1. /\ s \in Seq(Steps) /\ s # <<>> /\ Len(s) = 4 /\ s[1] = "kestra"
        /\ s[2] = "kestra_end" /\ s[3] = "access" /\ s[4] = "finalize"
    BY DEF ProfileAcceptance, Steps
  <2> HIDE DEF s
  <2>2. Head(s) = "kestra"
    BY <2>1
  <2> QED
    BY <2>1, <2>2, BeforeIs DEF StartsWell, Ordered, NoRow, Begins, Canaries, s
<1>9. \A x \in Begins : StartsWell(<<x, "aggregate", "split">>)
  <2> SUFFICES ASSUME NEW x \in Begins PROVE StartsWell(<<x, "aggregate", "split">>)
    OBVIOUS
  <2> DEFINE s == <<x, "aggregate", "split">>
  <2>1. /\ s \in Seq(Steps) /\ s # <<>> /\ Len(s) = 3 /\ s[1] = x
        /\ s[2] = "aggregate" /\ s[3] = "split"
    BY DEF Begins, Steps
  <2> HIDE DEF s
  <2>2. Head(s) = x
    BY <2>1
  <2>3. StartsWell(s)
    BY <2>1, <2>2, BeforeIs DEF StartsWell, Ordered, NoRow, Begins, Canaries
  <2> QED  BY <2>3 DEF s
<1>10. StartsWell(<<"images", "switch", "apply", "lifecycle", "verify">> \o Reconcile)
  <2> DEFINE s == <<"images", "switch", "apply", "lifecycle", "verify">>
  <2>1. s \in Seq(Plain) /\ s # <<>> /\ s[Len(s)] = "verify"
    BY <1>1
  <2> QED  BY <2>1, PlainStarts, RuntimeJoins
<1>11. StartsWell(RequireDaytonaDependencies
                  \o <<"images", "switch", "lifecycle", "verify">> \o Reconcile)
  <2> DEFINE s == <<"images", "switch", "lifecycle", "verify">>
             d == RequireDaytonaDependencies
  <2>1. s \in Seq(Plain) /\ s # <<>> /\ Len(s) = 4 /\ s[4] = "verify"
    BY <1>1
  <2>2. StartsWell(d \o s)
    BY <1>3, <2>1, PlainStarts, PlansJoin
  <2>3. d \in Seq(Steps) /\ Len(d) = 2 /\ s \in Seq(Steps)
    BY <1>1, <2>1 DEF RequireDaytonaDependencies, Steps
  <2> HIDE DEF d, s
  <2>4. /\ Len(d \o s) = Len(d) + Len(s)
        /\ \A i \in 1 .. Len(s) : (d \o s)[Len(d) + i] = s[i]
    BY <2>3, Joined, Zenon
  <2>5. (d \o s)[Len(d \o s)] = "verify"
    BY <2>1, <2>3, <2>4
  <2> QED  BY <2>2, <2>5, RuntimeJoins DEF d, s
<1>12. StartsWell(DaytonaApply)
  BY <1>3, <1>10, PlansJoin, Zenon DEF DaytonaApply
<1>13. StartsWell(DaytonaVerify)
  BY <1>3, <1>11, PlansJoin, Zenon DEF DaytonaVerify
<1>14. /\ StartsWell(<<"prepare">>) /\ StartsWell(<<"consumer">>) /\ StartsWell(<<"canary">>)
       /\ StartsWell(<<"kestra_reconcile">>) /\ StartsWell(<<"e2e_verify">>)
       /\ StartsWell(<<"finalize">>)
  BY <1>1, <1>7
<1>15. StartsWell(Integration) /\ StartsWell(<<"begin_all", "aggregate", "split">>)
  BY <1>9 DEF Integration, Begins
<1>16. StartsWell(FinalEvidenceRebind)
  BY <1>2, <1>4, <1>5, <1>6, <1>8, <1>12, <1>13, <1>14, <1>15, PlansJoin, ZenonT(60)
     DEF FinalEvidenceRebind
<1>17. StartsWell(Provision \o <<"consumer">>)
  BY <1>2, <1>14, PlansJoin
<1> QED
  BY <1>4, <1>5, <1>6, <1>8, <1>12, <1>13, <1>14, <1>15, <1>16, <1>17
     DEF AllCommands, Plans

-----------------------------------------------------------------------------
(* What a step does to it.                                                 *)

\* A run always has something left: a step of a canary or the aggregate.
LEMMA HeadInRun ==
    ASSUME NEW s \in Seq(Steps), WellFormed(s, TRUE)
    PROVE  s # <<>> /\ Head(s) \in Inside \cup {"aggregate"}
<1>1. PICK k \in 1 .. Len(s) : s[k] = "aggregate" /\ \A j \in 1 .. k - 1 : s[j] \in Inside
  BY DEF WellFormed, InRun
<1> QED  BY <1>1

\* Any step but the ends of runs and rows leaves the rest in order.
LEMMA TailFits ==
    ASSUME NEW s \in Seq(Steps), NEW running \in BOOLEAN, WellFormed(s, running), s # <<>>,
           Head(s) \notin Begins \cup Canaries \cup {"aggregate"}
    PROVE  WellFormed(Tail(s), running)
<1> DEFINE t == Tail(s)
<1>1. /\ t \in Seq(Steps) /\ Len(t) = Len(s) - 1 /\ Len(s) \in Nat /\ Head(s) = s[1]
      /\ \A i \in 1 .. Len(s) - 1 : t[i] = s[i + 1]
      /\ Ordered(t) /\ Chained(t)
      /\ t # <<>> => Head(t) = s[2] /\ Len(s) >= 2
  BY TailKeeps DEF WellFormed
<1> HIDE DEF t
<1>2. ASSUME running PROVE InRun(t)
  <2>1. PICK k \in 1 .. Len(s) :
           /\ s[k] = "aggregate"
           /\ \A j \in 1 .. k - 1 : s[j] \in Inside
           /\ \A j \in 1 .. Len(s) : s[j] \in Canaries => j = k - 1
    BY <1>2 DEF WellFormed, InRun
  <2> DEFINE l == k - 1
  <2>2. l \in 1 .. Len(t) /\ k = l + 1
    BY <1>1, <2>1
  <2> HIDE DEF l
  <2>3. t[l] = "aggregate" /\ \A j \in 1 .. l - 1 : t[j] \in Inside
    BY <1>1, <2>1, <2>2, SMTT(30)
  <2>4. ASSUME NEW j \in 1 .. Len(t), t[j] \in Canaries PROVE j = l - 1
    <3>1. t[j] = s[j + 1] /\ j + 1 \in 1 .. Len(s)
      BY <1>1
    <3>2. j + 1 = k - 1
      BY <2>1, <2>4, <3>1
    <3> QED  BY <2>2, <3>2
  <2> QED  BY <2>2, <2>3, <2>4 DEF InRun
<1>3. ASSUME ~running PROVE NoRow(t) /\ (t = <<>> \/ Head(t) # "aggregate")
  <2>1. NoRow(t)
    BY <1>1, <1>3 DEF WellFormed, NoRow
  <2>2. ASSUME t # <<>>, s[2] = "aggregate" PROVE FALSE
    <3>1. s[2 - 1] \in Begins \cup Canaries
      BY <1>1, <2>2, BeforeIs DEF WellFormed, Ordered
    <3> QED  BY <1>1, <3>1
  <2> QED  BY <1>1, <2>1, <2>2
<1> QED  BY <1>1, <1>2, <1>3 DEF WellFormed, t

\* The aggregate ends the run.
LEMMA AggregateFits ==
    ASSUME NEW s \in Seq(Steps), WellFormed(s, TRUE), Head(s) = "aggregate"
    PROVE  WellFormed(Tail(s), FALSE)
<1> DEFINE t == Tail(s)
<1>0. s # <<>>
  BY HeadInRun
<1>1. /\ t \in Seq(Steps) /\ Len(t) = Len(s) - 1 /\ Len(s) \in Nat /\ Head(s) = s[1]
      /\ \A i \in 1 .. Len(s) - 1 : t[i] = s[i + 1]
      /\ Ordered(t) /\ Chained(t)
      /\ t # <<>> => Head(t) = s[2] /\ Len(s) >= 2
  BY <1>0, TailKeeps DEF WellFormed
<1> HIDE DEF t
<1>2. PICK k \in 1 .. Len(s) :
         /\ s[k] = "aggregate"
         /\ \A j \in 1 .. k - 1 : s[j] \in Inside
         /\ \A j \in 1 .. Len(s) : s[j] \in Canaries => j = k - 1
  BY DEF WellFormed, InRun
<1>3. k = 1
  BY <1>1, <1>2 DEF Inside, Canaries
<1>4. ASSUME NEW j \in 1 .. Len(t), t[j] \in Canaries PROVE FALSE
  <2>1. t[j] = s[j + 1] /\ j + 1 \in 1 .. Len(s)
    BY <1>1
  <2> QED  BY <1>2, <1>3, <1>4, <2>1
<1>5. ASSUME t # <<>>, s[2] = "aggregate" PROVE FALSE
  <2>1. s[2 - 1] \in Begins \cup Canaries
    BY <1>1, <1>5, BeforeIs DEF WellFormed, Ordered
  <2> QED  BY <1>1, <2>1 DEF Begins, Canaries
<1> QED  BY <1>1, <1>4, <1>5 DEF WellFormed, NoRow, t

\* After the row of a canary, or the beginning of a run, comes the aggregate.
LEMMA RowFits ==
    ASSUME NEW s \in Seq(Steps), NEW running \in BOOLEAN, WellFormed(s, running), s # <<>>,
           Head(s) \in Canaries \/ (Head(s) \in Begins /\ ~running)
    PROVE  /\ Head(s) \in Canaries => running
           /\ Tail(s) \in Seq(Steps) /\ Tail(s) # <<>> /\ Head(Tail(s)) = "aggregate"
           /\ Ordered(Tail(s)) /\ NoRow(Tail(s)) /\ WellFormed(Tail(s), TRUE)
<1> DEFINE t == Tail(s)
<1>1. /\ t \in Seq(Steps) /\ Len(t) = Len(s) - 1 /\ Len(s) \in Nat /\ Head(s) = s[1]
      /\ 1 \in 1 .. Len(s)
      /\ \A i \in 1 .. Len(s) - 1 : t[i] = s[i + 1]
      /\ Ordered(t) /\ Chained(t)
      /\ t # <<>> => Head(t) = s[2] /\ Len(s) >= 2
  BY TailKeeps DEF WellFormed
<1> HIDE DEF t
<1>2. Head(s) \in Canaries => running
  BY <1>1 DEF WellFormed, NoRow
<1>3. Len(s) >= 2 /\ s[2] = "aggregate" /\ NoRow(t)
  <2>1. CASE Head(s) \in Canaries
    <3>1. PICK k \in 1 .. Len(s) :
             /\ s[k] = "aggregate"
             /\ \A j \in 1 .. Len(s) : s[j] \in Canaries => j = k - 1
      BY <1>2, <2>1 DEF WellFormed, InRun
    <3>2. k = 2
      BY <1>1, <2>1, <3>1
    <3>3. ASSUME NEW j \in 1 .. Len(t), t[j] \in Canaries PROVE FALSE
      <4>1. t[j] = s[j + 1] /\ j + 1 \in 1 .. Len(s)
        BY <1>1
      <4> QED  BY <3>1, <3>2, <3>3, <4>1
    <3> QED  BY <3>1, <3>2, <3>3 DEF NoRow
  <2>2. CASE Head(s) \in Begins /\ ~running
    <3>1. 1 < Len(s) /\ s[1 + 1] = "aggregate"
      BY <1>1, <2>2 DEF WellFormed, Ordered
    <3>2. NoRow(s)
      BY <2>2 DEF WellFormed
    <3> QED  BY <1>1, <3>1, <3>2 DEF NoRow
  <2> QED  BY <2>1, <2>2
<1>4. t # <<>> /\ Head(t) = "aggregate" /\ t[1] = "aggregate" /\ Len(t) >= 1
  BY <1>1, <1>3
<1>5. InRun(t)
  <2>1. 1 \in 1 .. Len(t) /\ t[1] = "aggregate"
    BY <1>1, <1>4
  <2> QED  BY <1>3, <2>1 DEF InRun, NoRow
<1> QED  BY <1>1, <1>2, <1>3, <1>4, <1>5 DEF WellFormed, t

\* A failed canary goes on with its row.
LEMMA StopFits ==
    ASSUME NEW s \in Seq(Steps), WellFormed(s, TRUE), NEW i \in 1 .. Len(s), s[i] \in Canaries
    PROVE  LET t == SubSeq(s, i, Len(s))
           IN  /\ t \in Seq(Steps) /\ WellFormed(t, TRUE) /\ t # <<>> /\ Head(t) = s[i]
               /\ \A j \in 1 .. Len(t) : t[j] \in Tables => j = 1
BY RowKeeps DEF WellFormed

\* A command that is over is in order.
LEMMA NothingFits == WellFormed(<<>>, FALSE)
BY DEF WellFormed, Ordered, Chained, NoRow

\* A new command is in order.
LEMMA PlanFits ==
    ASSUME NEW c \in AllCommands, NEW plan \in Plans(c)
    PROVE  plan \in Seq(Steps) /\ WellFormed(plan, FALSE) /\ plan # <<>> /\ Head(plan) \notin DOMAIN Before
<1>1. StartsWell(plan)
  BY PlansStart
<1>2. Chained(plan)
  BY <1>1 DEF StartsWell, NoRow, Chained, Tables, Canaries
<1>3. Head(plan) # "aggregate"
  BY <1>1, BeforeIs DEF StartsWell
<1> QED  BY <1>1, <1>2, <1>3 DEF StartsWell, WellFormed

\* The steps of one canary, or nothing more, before the aggregate.
LEMMA NextFits ==
    ASSUME NEW r \in Seq(Steps), Ordered(r), NoRow(r), WellFormed(r, TRUE), r # <<>>,
           Head(r) = "aggregate", NEW left \in Seq(Canaries)
    PROVE  LET t == (IF left = <<>> THEN <<>> ELSE CanarySteps(Head(left))) \o r
           IN  /\ t \in Seq(Steps) /\ WellFormed(t, TRUE)
               /\ Head(t) \in {"search", "crud", "canary", "aggregate"}
               /\ \A i \in 1 .. Len(t) : t[i] \in Tables => i >= 5
               /\ \A i \in 1 .. Len(t) : t[i] = "C029" => i >= 8
<1>1. CASE left = <<>>
  <2>1. <<>> \o r = r
    OBVIOUS
  <2> QED  BY <1>1, <2>1 DEF NoRow, Tables, Canaries
<1>2. CASE left # <<>>
  <2>1. Head(left) \in Canaries
    BY <1>2
  <2> DEFINE t == CanarySteps(Head(left)) \o r
  <2>2. /\ t \in Seq(Steps) /\ t # <<>>
        /\ Head(t) \in {"search", "crud", "canary"}
        /\ Ordered(t) /\ Chained(t) /\ InRun(t)
        /\ \A i \in 1 .. Len(t) : t[i] \in Tables => i >= 5
        /\ \A i \in 1 .. Len(t) : t[i] = "C029" => i >= 8
    BY <2>1, CanaryShape, Zenon
  <2> HIDE DEF t
  <2>3. WellFormed(t, TRUE) /\ Head(t) \in {"search", "crud", "canary", "aggregate"}
    BY <2>2 DEF WellFormed
  <2> QED  BY <1>2, <2>2, <2>3 DEF t
<1> QED  BY <1>1, <1>2

-----------------------------------------------------------------------------
(* What the groups of steps do to the command and to what was read.        *)

\* What a step of one operator leaves to the others.
Others(o) == \A p \in Operators \ {o} : todo'[p] = todo[p] /\ mem'[p] = mem[p]

\* So only his own command can lose its order.
LEMMA ShapeMoves ==
    ASSUME Shape, NEW o \in Operators, CommandsTyped', Others(o),
           WellFormed(todo'[o], mem'[o].canaries)
    PROVE  Shape'
BY DEF Shape, Others

\* How a step leaves what is left of the command.
LEMMA GoesOn ==
    ASSUME Shape, NEW o \in Operators, todo[o] # <<>>, Goes(o)
    PROVE  /\ todo' \in [Operators -> Seq(Steps)] /\ todo'[o] = Tail(todo[o])
           /\ \A p \in Operators \ {o} : todo'[p] = todo[p]
<1>1. todo \in [Operators -> Seq(Steps)]
  BY DEF Shape, CommandsTyped
<1>2. Tail(todo[o]) \in Seq(Steps)
  BY <1>1
<1> QED  BY <1>1, <1>2 DEF Goes

\* What is known of one operator.
LEMMA MemTyped ==
    ASSUME Shape, NEW o \in Operators
    PROVE  /\ mem = [p \in Operators |-> mem[p]] /\ IsMem(mem[o])
           /\ mem[o].left \in Seq(Canaries) /\ mem[o].canaries \in BOOLEAN
           /\ mem[o].good \in BOOLEAN /\ todo[o] \in Seq(Steps)
           /\ WellFormed(todo[o], mem[o].canaries)
BY DEF Shape, CommandsTyped

\* What an operator keeps in mind when he writes something down there.
Keeps(o) ==
    /\ mem' = [p \in Operators |-> mem'[p]]
    /\ \A p \in Operators \ {o} : mem'[p] = mem[p]
    /\ IsMem(mem'[o]) /\ mem'[o].left \in Seq(Canaries)
    /\ mem'[o].canaries \in BOOLEAN /\ mem'[o].good \in BOOLEAN

\* A step may leave what was read alone,
LEMMA Kept ==
    ASSUME Shape, NEW o \in Operators, UNCHANGED mem
    PROVE  Keeps(o) /\ mem'[o] = mem[o]
BY MemTyped DEF Keeps, Shape, CommandsTyped

\* or forget it,
LEMMA Cleared ==
    ASSUME Shape, NEW o \in Operators, mem' = [mem EXCEPT ![o] = Clear]
    PROVE  Keeps(o) /\ ~mem'[o].canaries /\ mem'[o] = Clear
<1>1. mem'[o] = Clear /\ \A p \in Operators \ {o} : mem'[p] = mem[p]
  BY MemTyped
<1>2. mem' = [p \in Operators |-> mem'[p]]
  BY MemTyped
<1>3. IsMem(Clear) /\ Clear.left = <<>> /\ Clear.canaries = FALSE /\ Clear.good = TRUE
  BY DEF Clear, IsMem, MemFields
<1>4. <<>> \in Seq(Canaries)
  OBVIOUS
<1> QED  BY <1>1, <1>2, <1>3, <1>4, Zenon DEF Keeps

\* or read the canonical file,
LEMMA ValuesRead ==
    ASSUME Shape, NEW o \in Operators, NEW v,
           mem' = [mem EXCEPT ![o].values = v]
    PROVE  /\ Keeps(o) /\ mem'[o].canaries = mem[o].canaries
           /\ mem'[o].values = v
<1> DEFINE m == mem[o]
           n == [m EXCEPT !.values = v]
<1>1. mem'[o] = n /\ \A p \in Operators \ {o} : mem'[p] = mem[p]
  BY MemTyped
<1>2. mem' = [p \in Operators |-> mem'[p]]
  BY MemTyped
<1>3. IsMem(m) /\ m.left \in Seq(Canaries) /\ m.canaries \in BOOLEAN /\ m.good \in BOOLEAN
  BY MemTyped
<1> HIDE DEF m
<1>4. /\ IsMem(n) /\ n.left = m.left /\ n.canaries = m.canaries /\ n.good = m.good
      /\ n.values = v
  BY <1>3 DEF IsMem, MemFields
<1> HIDE DEF n
<1>5. /\ IsMem(mem'[o]) /\ mem'[o].left = m.left /\ mem'[o].canaries = m.canaries
      /\ mem'[o].good = m.good
      /\ mem'[o].values = v
  BY <1>1, <1>4
<1> QED  BY <1>1, <1>2, <1>3, <1>5, Zenon DEF Keeps, m

\* or other evidence as well,
LEMMA PinsRead ==
    ASSUME Shape, NEW o \in Operators, NEW v, NEW q,
           mem' = [mem EXCEPT ![o].values = v, ![o].pins = q]
    PROVE  /\ Keeps(o) /\ mem'[o].canaries = mem[o].canaries
           /\ mem'[o].values = v /\ mem'[o].pins = q
<1> DEFINE m == mem[o]
           n == [m EXCEPT !.values = v, !.pins = q]
<1>1. mem'[o] = n /\ \A p \in Operators \ {o} : mem'[p] = mem[p]
  BY MemTyped
<1>2. mem' = [p \in Operators |-> mem'[p]]
  BY MemTyped
<1>3. IsMem(m) /\ m.left \in Seq(Canaries) /\ m.canaries \in BOOLEAN /\ m.good \in BOOLEAN
  BY MemTyped
<1> HIDE DEF m
<1>4. /\ IsMem(n) /\ n.left = m.left /\ n.canaries = m.canaries /\ n.good = m.good
      /\ n.values = v /\ n.pins = q
  BY <1>3 DEF IsMem, MemFields
<1> HIDE DEF n
<1>5. /\ IsMem(mem'[o]) /\ mem'[o].left = m.left /\ mem'[o].canaries = m.canaries
      /\ mem'[o].good = m.good
      /\ mem'[o].values = v /\ mem'[o].pins = q
  BY <1>1, <1>4
<1> QED  BY <1>1, <1>2, <1>3, <1>5, Zenon DEF Keeps, m

\* or the snapshots as well.
LEMMA SnapshotRead ==
    ASSUME Shape, NEW o \in Operators, NEW v, NEW s,
           mem' = [mem EXCEPT ![o].values = v, ![o].snapshot = s]
    PROVE  /\ Keeps(o) /\ mem'[o].canaries = mem[o].canaries
           /\ mem'[o].values = v /\ mem'[o].snapshot = s
<1> DEFINE m == mem[o]
           n == [m EXCEPT !.values = v, !.snapshot = s]
<1>1. mem'[o] = n /\ \A p \in Operators \ {o} : mem'[p] = mem[p]
  BY MemTyped
<1>2. mem' = [p \in Operators |-> mem'[p]]
  BY MemTyped
<1>3. IsMem(m) /\ m.left \in Seq(Canaries) /\ m.canaries \in BOOLEAN /\ m.good \in BOOLEAN
  BY MemTyped
<1> HIDE DEF m
<1>4. /\ IsMem(n) /\ n.left = m.left /\ n.canaries = m.canaries /\ n.good = m.good
      /\ n.values = v /\ n.snapshot = s
  BY <1>3 DEF IsMem, MemFields
<1> HIDE DEF n
<1>5. /\ IsMem(mem'[o]) /\ mem'[o].left = m.left /\ mem'[o].canaries = m.canaries
      /\ mem'[o].good = m.good
      /\ mem'[o].values = v /\ mem'[o].snapshot = s
  BY <1>1, <1>4
<1> QED  BY <1>1, <1>2, <1>3, <1>5, Zenon DEF Keeps, m

\* The steps outside of a run of canaries.
Outer == {"images", "switch", "apply", "lifecycle", "verify", "reconcile", "probe",
          "emit", "account", "prepare", "connector", "e2e", "e2e_end", "e2e_verify",
          "kestra_reconcile", "kestra", "kestra_end", "access", "finalize", "indexed",
          "hermes", "hermes_end", "edge", "cloudflare", "split"}

\* Whoever has such a step next is in no run.
LEMMA OuterAlone ==
    ASSUME Shape, NEW o \in Operators, todo[o] # <<>>,
           Head(todo[o]) \in Outer \cup Begins
    PROVE  ~mem[o].canaries
<1>1. Head(todo[o]) \notin Inside \cup {"aggregate"}
  BY DEF Outer, Begins, Inside, Canaries
<1> QED  BY <1>1, MemTyped, HeadInRun

\* A step outside of a run goes on, or ends the command.
Outside(o) ==
    /\ CommandsTyped' /\ Others(o) /\ ~mem[o].canaries /\ ~mem'[o].canaries
    /\ todo[o] # <<>> /\ Head(todo[o]) \in Outer
    /\ todo'[o] = Tail(todo[o]) \/ todo'[o] = <<>>

\* A step outside of runs keeps what is left in order.
LEMMA OutsideFits ==
    ASSUME Shape, NEW o \in Operators, Outside(o)
    PROVE  Shape'
<1>1. Head(todo[o]) \notin Begins \cup Canaries \cup {"aggregate"}
  BY DEF Outside, Outer, Begins, Canaries
<1>2. WellFormed(todo'[o], FALSE)
  <2>1. mem[o].canaries = FALSE /\ todo[o] \in Seq(Steps) /\ WellFormed(todo[o], FALSE)
    BY MemTyped DEF Outside
  <2>2. WellFormed(Tail(todo[o]), FALSE)
    BY <1>1, <2>1, TailFits DEF Outside
  <2> QED  BY <2>2, NothingFits DEF Outside
<1>3. mem'[o].canaries = FALSE
  BY DEF Outside, CommandsTyped
<1>4. WellFormed(todo'[o], mem'[o].canaries)
  BY <1>2, <1>3
<1> QED  BY <1>4, ShapeMoves DEF Outside

\* To go on is such a step,
LEMMA GoesOutside ==
    ASSUME Shape, NEW o \in Operators, todo[o] # <<>>, Head(todo[o]) \in Outer,
           Goes(o), Keeps(o), mem'[o].canaries => mem[o].canaries, canon' \in Nat
    PROVE  Outside(o) /\ todo'[o] = Tail(todo[o])
<1>1. ~mem'[o].canaries /\ ~mem[o].canaries
  BY OuterAlone
<1> QED  BY <1>1, GoesOn DEF Outside, Others, Keeps, CommandsTyped, Shape

\* and so is to end the command.
LEMMA StopsOutside ==
    ASSUME Shape, NEW o \in Operators, todo[o] # <<>>, Head(todo[o]) \in Outer,
           Stops(o), canon' \in Nat
    PROVE  Outside(o) /\ todo'[o] = <<>> /\ mem'[o] = Clear
<1>1. ~mem[o].canaries
  BY OuterAlone
<1>2. todo' = [todo EXCEPT ![o] = <<>>] /\ mem' = [mem EXCEPT ![o] = Clear]
  BY <1>1 DEF Stops
<1>3. Keeps(o) /\ ~mem'[o].canaries /\ mem'[o] = Clear
  BY <1>2, Cleared
<1>4. /\ todo' \in [Operators -> Seq(Steps)] /\ todo'[o] = <<>>
      /\ \A p \in Operators \ {o} : todo'[p] = todo[p]
  BY <1>2 DEF Shape, CommandsTyped
<1> QED  BY <1>1, <1>3, <1>4 DEF Outside, Others, Keeps, CommandsTyped, Shape

\* A step that leaves the canonical file alone.
LEMMA OuterStep ==
    ASSUME Shape, NEW o \in Operators, todo[o] # <<>>, Head(todo[o]) \in Outer,
           UNCHANGED canon,
           \/ Stops(o)
           \/ Goes(o) /\ UNCHANGED mem
           \/ Goes(o) /\ mem' = [mem EXCEPT ![o] = Clear]
    PROVE  Outside(o)
<1>1. canon' \in Nat
  BY DEF Shape, CommandsTyped
<1> QED  BY <1>1, StopsOutside, GoesOutside, Kept, Cleared, OuterAlone

\* The same of steps that read and perhaps stop.
LEMMA OuterReads ==
    ASSUME Shape, NEW o \in Operators, todo[o] # <<>>, Head(todo[o]) \in Outer,
           UNCHANGED canon,
           \/ Stops(o)
           \/ Goes(o) /\ Keeps(o) /\ mem'[o].canaries = mem[o].canaries
    PROVE  Outside(o)
<1>1. canon' \in Nat
  BY DEF Shape, CommandsTyped
<1> QED  BY <1>1, StopsOutside, GoesOutside

\* The steps of the runtime are outside of runs.
DaytonaSteps == {"images", "switch", "apply", "lifecycle", "verify", "reconcile", "probe", "emit"}

LEMMA DaytonaMoves ==
    ASSUME Shape, NEW o \in Operators, Daytona(o)
    PROVE  Outside(o) /\ Head(todo[o]) \in DaytonaSteps /\ calm' = calm
<1> USE DEF At
<1>0. canon \in Nat
  BY DEF Shape, CommandsTyped
<1>1. CASE Images(o)
  <2>1. /\ todo[o] # <<>> /\ Head(todo[o]) = "images" /\ UNCHANGED canon /\ calm' = calm
        /\ Stops(o) \/ (Goes(o) /\ UNCHANGED mem)
    BY <1>1, Zenon DEF Images, TestFails, Elsewhere
  <2> QED  BY <2>1, OuterStep DEF Outer, DaytonaSteps
<1>2. CASE Switch(o)
  <2>1. /\ todo[o] # <<>> /\ Head(todo[o]) = "switch" /\ canon' \in {canon, canon + 1}
        /\ calm' = calm /\ Goes(o) /\ UNCHANGED mem
    BY <1>2 DEF Switch
  <2> QED  BY <1>0, <2>1, GoesOutside, Kept DEF Outer, DaytonaSteps
<1>3. CASE Lifecycle(o)
  <2>1. /\ todo[o] # <<>> /\ Head(todo[o]) = "lifecycle" /\ UNCHANGED canon /\ calm' = calm
        /\ Stops(o) \/ (Goes(o) /\ UNCHANGED mem)
    BY <1>3, Zenon DEF Lifecycle, TestFails, Refused, Elsewhere
  <2> QED  BY <2>1, OuterStep DEF Outer, DaytonaSteps
<1>4. CASE DaytonaStepVerify(o)
  <2>1. /\ todo[o] # <<>> /\ Head(todo[o]) = "verify" /\ UNCHANGED canon /\ calm' = calm
        /\ Stops(o) \/ (Goes(o) /\ UNCHANGED mem)
    BY <1>4, Zenon DEF DaytonaStepVerify, TestFails, Refused, Elsewhere
  <2> QED  BY <2>1, OuterStep DEF Outer, DaytonaSteps
<1>5. CASE ReconcileApply(o)
  <2>1. /\ todo[o] # <<>> /\ Head(todo[o]) = "apply" /\ UNCHANGED canon /\ calm' = calm
        /\ Stops(o) \/ (Goes(o) /\ UNCHANGED mem)
    BY <1>5, Zenon DEF ReconcileApply, TestFails, Refused, Elsewhere
  <2> QED  BY <2>1, OuterStep DEF Outer, DaytonaSteps
<1>6. CASE ReconcileDaytona(o)
  <2>1. /\ todo[o] # <<>> /\ Head(todo[o]) = "reconcile" /\ UNCHANGED canon /\ calm' = calm
        /\ \/ Stops(o)
           \/ /\ Goes(o)
              /\ mem' = [mem EXCEPT ![o].values = canon, ![o].snapshot = snapshot]
    BY <1>6, Zenon DEF ReconcileDaytona, Unreconciled, TestFails, Refused, Elsewhere
  <2>2. Stops(o) \/ (Goes(o) /\ Keeps(o) /\ mem'[o].canaries = mem[o].canaries)
    BY <2>1, SnapshotRead
  <2> QED  BY <2>1, <2>2, OuterReads DEF Outer, DaytonaSteps
<1>7. CASE Probe(o)
  <2>1. /\ todo[o] # <<>> /\ Head(todo[o]) = "probe" /\ UNCHANGED canon /\ calm' = calm
        /\ Stops(o) \/ (Goes(o) /\ UNCHANGED mem)
    BY <1>7, Zenon DEF Probe, Unreconciled, TestFails, Elsewhere
  <2> QED  BY <2>1, OuterStep DEF Outer, DaytonaSteps
<1>8. CASE Emit(o)
  <2>1. /\ todo[o] # <<>> /\ Head(todo[o]) = "emit" /\ UNCHANGED canon /\ calm' = calm
        /\ Stops(o) \/ (Goes(o) /\ mem' = [mem EXCEPT ![o] = Clear])
    BY <1>8, Zenon DEF Emit, Unreconciled, TestFails, Refused, Elsewhere
  <2> QED  BY <2>1, OuterStep DEF Outer, DaytonaSteps
<1> QED  BY <1>1, <1>2, <1>3, <1>4, <1>5, <1>6, <1>7, <1>8 DEF Daytona

\* The steps of the profiles and of Kestra are.
ProfileSteps == {"prepare", "kestra_reconcile", "kestra", "kestra_end", "access", "finalize", "indexed"}

LEMMA ProfilesMove ==
    ASSUME Shape, NEW o \in Operators, Profiles(o)
    PROVE  Outside(o) /\ Head(todo[o]) \in ProfileSteps /\ calm' = calm /\ canon' = canon
<1> USE DEF At
<1>0. canon \in Nat
  BY DEF Shape, CommandsTyped
<1>1. CASE Prepare(o)
  <2>1. /\ todo[o] # <<>> /\ Head(todo[o]) = "prepare" /\ UNCHANGED canon /\ calm' = calm
        /\ Stops(o) \/ (Goes(o) /\ UNCHANGED mem)
    BY <1>1, Zenon DEF Prepare, TestFails, Elsewhere
  <2> QED  BY <2>1, OuterStep DEF Outer, ProfileSteps
<1>2. CASE KestraReconcile(o)
  <2>1. /\ todo[o] # <<>> /\ Head(todo[o]) = "kestra_reconcile" /\ UNCHANGED canon
        /\ calm' = calm
        /\ Stops(o) \/ (Goes(o) /\ UNCHANGED mem)
    BY <1>2, Zenon DEF KestraReconcile, TestFails, Elsewhere
  <2> QED  BY <2>1, OuterStep DEF Outer, ProfileSteps
<1>3. CASE KestraVerify(o)
  <2>1. /\ todo[o] # <<>> /\ Head(todo[o]) = "kestra" /\ UNCHANGED canon /\ calm' = calm
        /\ \/ Stops(o)
           \/ /\ Goes(o)
              /\ mem' = [mem EXCEPT ![o].values = canon, ![o].pins = Hash({"kestra_reconcile"})]
    BY <1>3, Zenon DEF KestraVerify, Refused, Elsewhere
  <2>2. Stops(o) \/ (Goes(o) /\ Keeps(o) /\ mem'[o].canaries = mem[o].canaries)
    BY <2>1, PinsRead
  <2> QED  BY <2>1, <2>2, OuterReads DEF Outer, ProfileSteps
<1>4. CASE KestraVerified(o)
  <2>1. /\ todo[o] # <<>> /\ Head(todo[o]) = "kestra_end" /\ UNCHANGED canon /\ calm' = calm
        /\ Stops(o) \/ (Goes(o) /\ mem' = [mem EXCEPT ![o] = Clear])
    BY <1>4, Zenon DEF KestraVerified, TestFails, Elsewhere
  <2> QED  BY <2>1, OuterStep DEF Outer, ProfileSteps
<1>5. CASE VerifyAccess(o)
  <2>1. /\ todo[o] # <<>> /\ Head(todo[o]) = "access" /\ UNCHANGED canon /\ calm' = calm
        /\ Stops(o) \/ (Goes(o) /\ UNCHANGED mem)
    BY <1>5, Zenon DEF VerifyAccess, Refused, Elsewhere
  <2> QED  BY <2>1, OuterStep DEF Outer, ProfileSteps
<1>6. CASE Finalize(o)
  <2>1. /\ todo[o] # <<>> /\ Head(todo[o]) = "finalize" /\ UNCHANGED canon /\ calm' = calm
        /\ Stops(o) \/ (Goes(o) /\ UNCHANGED mem)
    BY <1>6, Zenon DEF Finalize, TestFails, Refused, Elsewhere
  <2> QED  BY <2>1, OuterStep DEF Outer, ProfileSteps
<1>7. CASE IndexedPass(o)
  <2>1. /\ todo[o] # <<>> /\ Head(todo[o]) = "indexed" /\ UNCHANGED canon /\ calm' = calm
        /\ Stops(o) \/ (Goes(o) /\ UNCHANGED mem)
    BY <1>7, Zenon DEF IndexedPass, TestFails, Refused, Elsewhere
  <2> QED  BY <2>1, OuterStep DEF Outer, ProfileSteps
<1> QED  BY <1>1, <1>2, <1>3, <1>4, <1>5, <1>6, <1>7 DEF Profiles, Elsewhere,
            Prepare, KestraReconcile, KestraVerify, KestraVerified, VerifyAccess,
            Finalize, IndexedPass

\* The steps of the end-to-end canary are.
EndToEndSteps == {"e2e", "e2e_end", "e2e_verify"}

LEMMA EndToEndMoves ==
    ASSUME Shape, NEW o \in Operators, EndToEnd(o)
    PROVE  Outside(o) /\ Head(todo[o]) \in EndToEndSteps /\ calm' = calm /\ canon' = canon
<1> USE DEF At
<1>0. canon \in Nat
  BY DEF Shape, CommandsTyped
<1>1. CASE E2EApply(o)
  <2>1. /\ todo[o] # <<>> /\ Head(todo[o]) = "e2e" /\ canon' = canon /\ calm' = calm
        /\ \/ Stops(o)
           \/ /\ Goes(o)
              /\ mem' = [mem EXCEPT ![o].values = canon, ![o].pins = Hash(Sources)]
    BY <1>1, Zenon DEF E2EApply, TestFails, Refused, Elsewhere
  <2>2. Stops(o) \/ (Goes(o) /\ Keeps(o) /\ mem'[o].canaries = mem[o].canaries)
    BY <2>1, PinsRead, SMTT(30)
  <2> QED  BY <2>1, <2>2, OuterReads DEF Outer, EndToEndSteps
<1>2. CASE E2EFinish(o)
  <2>1. /\ todo[o] # <<>> /\ Head(todo[o]) = "e2e_end" /\ canon' = canon /\ calm' = calm
        /\ Stops(o) \/ (Goes(o) /\ mem' = [mem EXCEPT ![o] = Clear])
    BY <1>2, Zenon DEF E2EFinish, TestFails, Refused, Elsewhere
  <2> QED  BY <2>1, OuterStep DEF Outer, EndToEndSteps
<1>3. CASE E2EVerify(o)
  <2>1. /\ todo[o] # <<>> /\ Head(todo[o]) = "e2e_verify" /\ canon' = canon /\ calm' = calm
        /\ Stops(o) \/ (Goes(o) /\ UNCHANGED mem)
    BY <1>3, Zenon DEF E2EVerify, Refused, Elsewhere
  <2> QED  BY <2>1, OuterStep DEF Outer, EndToEndSteps
<1> QED  BY <1>1, <1>2, <1>3 DEF EndToEnd

\* The steps of provisioning, Hermes and the edge are.
AcceptanceSteps == {"account", "connector", "hermes", "hermes_end", "edge", "cloudflare"}

LEMMA AcceptancesMove ==
    ASSUME Shape, NEW o \in Operators, Acceptances(o)
    PROVE  Outside(o) /\ Head(todo[o]) \in AcceptanceSteps /\ calm' = calm /\ canon' = canon
<1> USE DEF At
<1>0. canon \in Nat
  BY DEF Shape, CommandsTyped
<1>1. CASE ProvisionVerify(o)
  <2>1. /\ todo[o] # <<>> /\ Head(todo[o]) = "account" /\ canon' = canon /\ calm' = calm
        /\ Stops(o) \/ (Goes(o) /\ UNCHANGED mem)
    BY <1>1, Zenon DEF ProvisionVerify, TestFails, Elsewhere
  <2> QED  BY <2>1, OuterStep DEF Outer, AcceptanceSteps
<1>2. CASE NotionConnector(o)
  <2>1. /\ todo[o] # <<>> /\ Head(todo[o]) = "connector" /\ canon' = canon /\ calm' = calm
        /\ Stops(o) \/ (Goes(o) /\ UNCHANGED mem)
    BY <1>2, Zenon DEF NotionConnector, TestFails, Elsewhere
  <2> QED  BY <2>1, OuterStep DEF Outer, AcceptanceSteps
<1>3. CASE HermesCanary(o)
  <2>1. /\ todo[o] # <<>> /\ Head(todo[o]) = "hermes" /\ canon' = canon /\ calm' = calm
        /\ Stops(o) \/ (Goes(o) /\ mem' = [mem EXCEPT ![o].values = canon])
    BY <1>3, Zenon DEF HermesCanary, TestFails, Elsewhere
  <2>2. Stops(o) \/ (Goes(o) /\ Keeps(o) /\ mem'[o].canaries = mem[o].canaries)
    BY <2>1, ValuesRead, Zenon
  <2> QED  BY <2>1, <2>2, OuterReads DEF Outer, AcceptanceSteps
<1>4. CASE HermesFinish(o)
  <2>1. /\ todo[o] # <<>> /\ Head(todo[o]) = "hermes_end" /\ canon' = canon /\ calm' = calm
        /\ Stops(o) \/ (Goes(o) /\ mem' = [mem EXCEPT ![o] = Clear])
    BY <1>4, Zenon DEF HermesFinish, TestFails, Refused, Elsewhere
  <2> QED  BY <2>1, OuterStep DEF Outer, AcceptanceSteps
<1>5. CASE EdgeSemantic(o)
  <2>1. /\ todo[o] # <<>> /\ Head(todo[o]) = "edge" /\ canon' = canon /\ calm' = calm
        /\ Stops(o) \/ (Goes(o) /\ mem' = [mem EXCEPT ![o].values = canon])
    BY <1>5, Zenon DEF EdgeSemantic, TestFails, Elsewhere
  <2>2. Stops(o) \/ (Goes(o) /\ Keeps(o) /\ mem'[o].canaries = mem[o].canaries)
    BY <2>1, ValuesRead, Zenon
  <2> QED  BY <2>1, <2>2, OuterReads DEF Outer, AcceptanceSteps
<1>6. CASE RunAcceptance(o)
  <2>1. /\ todo[o] # <<>> /\ Head(todo[o]) = "cloudflare" /\ canon' = canon /\ calm' = calm
        /\ Stops(o) \/ (Goes(o) /\ mem' = [mem EXCEPT ![o] = Clear])
    BY <1>6, Zenon DEF RunAcceptance, TestFails, Refused, Elsewhere
  <2> QED  BY <2>1, OuterStep DEF Outer, AcceptanceSteps
<1> QED  BY <1>1, <1>2, <1>3, <1>4, <1>5, <1>6 DEF Acceptances

-----------------------------------------------------------------------------
(* The steps of a run of canaries.                                         *)

\* What a step of a run leaves as it was.
SameRun(o) ==
    /\ mem'[o].canaries = mem[o].canaries /\ mem'[o].values = mem[o].values
    /\ mem'[o].rows = mem[o].rows /\ mem'[o].left = mem[o].left

\* A run notes a file of its own,
LEMMA OwnNoted ==
    ASSUME Shape, NEW o \in Operators, NEW w,
           mem' = [mem EXCEPT ![o].own = w]
    PROVE  /\ Keeps(o) /\ SameRun(o) /\ mem'[o].good = mem[o].good
           /\ mem'[o].own = w /\ mem'[o].pins = mem[o].pins
<1> DEFINE m == mem[o]
           n == [m EXCEPT !.own = w]
<1>1. mem'[o] = n /\ \A p \in Operators \ {o} : mem'[p] = mem[p]
  BY MemTyped
<1>2. mem' = [p \in Operators |-> mem'[p]]
  BY MemTyped
<1>3. IsMem(m) /\ m.left \in Seq(Canaries) /\ m.canaries \in BOOLEAN /\ m.good \in BOOLEAN
  BY MemTyped
<1> HIDE DEF m
<1>4. /\ IsMem(n) /\ n.left = m.left /\ n.canaries = m.canaries /\ n.good = m.good
      /\ n.values = m.values /\ n.rows = m.rows /\ n.own = w /\ n.pins = m.pins
  BY <1>3 DEF IsMem, MemFields
<1> HIDE DEF n
<1> QED  BY <1>1, <1>2, <1>3, <1>4 DEF Keeps, SameRun, m

\* or the hash of a file it relies on,
LEMMA PinsNoted ==
    ASSUME Shape, NEW o \in Operators, NEW w,
           mem' = [mem EXCEPT ![o].pins = w]
    PROVE  /\ Keeps(o) /\ SameRun(o) /\ mem'[o].good = mem[o].good
           /\ mem'[o].pins = w /\ mem'[o].own = mem[o].own
<1> DEFINE m == mem[o]
           n == [m EXCEPT !.pins = w]
<1>1. mem'[o] = n /\ \A p \in Operators \ {o} : mem'[p] = mem[p]
  BY MemTyped
<1>2. mem' = [p \in Operators |-> mem'[p]]
  BY MemTyped
<1>3. IsMem(m) /\ m.left \in Seq(Canaries) /\ m.canaries \in BOOLEAN /\ m.good \in BOOLEAN
  BY MemTyped
<1> HIDE DEF m
<1>4. /\ IsMem(n) /\ n.left = m.left /\ n.canaries = m.canaries /\ n.good = m.good
      /\ n.values = m.values /\ n.rows = m.rows /\ n.pins = w /\ n.own = m.own
  BY <1>3 DEF IsMem, MemFields
<1> HIDE DEF n
<1> QED  BY <1>1, <1>2, <1>3, <1>4 DEF Keeps, SameRun, m

\* or that one of its steps failed.
LEMMA Spoiled ==
    ASSUME Shape, NEW o \in Operators, mem' = [mem EXCEPT ![o].good = FALSE]
    PROVE  Keeps(o) /\ SameRun(o) /\ mem'[o].good = FALSE
<1> DEFINE m == mem[o]
           n == [m EXCEPT !.good = FALSE]
<1>1. mem'[o] = n /\ \A p \in Operators \ {o} : mem'[p] = mem[p]
  BY MemTyped
<1>2. mem' = [p \in Operators |-> mem'[p]]
  BY MemTyped
<1>3. IsMem(m) /\ m.left \in Seq(Canaries) /\ m.canaries \in BOOLEAN /\ m.good \in BOOLEAN
  BY MemTyped
<1> HIDE DEF m
<1>4. /\ IsMem(n) /\ n.left = m.left /\ n.canaries = m.canaries /\ n.good = FALSE
      /\ n.values = m.values /\ n.rows = m.rows
  BY <1>3 DEF IsMem, MemFields
<1> HIDE DEF n
<1> QED  BY <1>1, <1>2, <1>3, <1>4 DEF Keeps, SameRun, m

\* Nothing but these follows a step of a run, or begins a command.
Quiet(o) ==
    todo'[o] = <<>> \/ Head(todo'[o]) \notin {"reconcile", "probe", "emit", "kestra_end", "split"}

\* A failed step of a run goes on with the row, and is remembered.
Fails(o) ==
    /\ CommandsTyped' /\ Shape' /\ Others(o) /\ Quiet(o)
    /\ mem[o].canaries = TRUE =>
          /\ SameRun(o) /\ mem'[o].good = FALSE
          /\ todo'[o] # <<>> /\ Head(todo'[o]) \in Canaries
    /\ mem[o].canaries = FALSE => todo'[o] = <<>> /\ mem'[o] = Clear /\ mem'[o].canaries = FALSE

\* A failed step of a run goes on with the row and spoils it.
LEMMA StopsInside ==
    ASSUME Shape, NEW o \in Operators, Stops(o), UNCHANGED canon
    PROVE  Fails(o)
<1>1. CASE mem[o].canaries = FALSE
  <2>1. todo' = [todo EXCEPT ![o] = <<>>] /\ mem' = [mem EXCEPT ![o] = Clear]
    BY <1>1 DEF Stops
  <2>2. Keeps(o) /\ mem'[o] = Clear /\ mem'[o].canaries = FALSE
    <3>1. Keeps(o) /\ mem'[o] = Clear
      BY <2>1, Cleared
    <3>2. Clear.canaries = FALSE
      BY DEF Clear
    <3> QED  BY <3>1, <3>2
  <2>3. /\ todo' \in [Operators -> Seq(Steps)] /\ todo'[o] = <<>>
        /\ \A p \in Operators \ {o} : todo'[p] = todo[p]
    BY <2>1 DEF Shape, CommandsTyped
  <2>4. CommandsTyped' /\ Others(o)
    BY <2>2, <2>3 DEF Others, Keeps, CommandsTyped, Shape
  <2>5. WellFormed(todo'[o], mem'[o].canaries)
    BY <2>2, <2>3, NothingFits
  <2> QED  BY <1>1, <2>2, <2>3, <2>4, <2>5, ShapeMoves DEF Fails, Quiet
<1>2. CASE mem[o].canaries = TRUE
  <2>1. PICK i \in DOMAIN todo[o] :
           /\ todo[o][i] \in Canaries
           /\ todo' = [todo EXCEPT ![o] = SubSeq(@, i, Len(@))]
    BY <1>2 DEF Stops
  <2>2. mem' = [mem EXCEPT ![o].good = FALSE]
    BY <1>2 DEF Stops
  <2>3. Keeps(o) /\ SameRun(o) /\ mem'[o].good = FALSE
    BY <2>2, Spoiled
  <2> DEFINE t == SubSeq(todo[o], i, Len(todo[o]))
  <2>4. todo[o] \in Seq(Steps) /\ WellFormed(todo[o], TRUE) /\ i \in 1 .. Len(todo[o])
    <3>1. todo[o] \in Seq(Steps) /\ WellFormed(todo[o], mem[o].canaries)
      BY MemTyped
    <3>2. DOMAIN todo[o] = 1 .. Len(todo[o])
      BY <3>1
    <3>3. WellFormed(todo[o], TRUE)
      BY <1>2, <3>1
    <3> QED  BY <3>1, <3>2, <3>3
  <2>5. t \in Seq(Steps) /\ WellFormed(t, TRUE) /\ t # <<>> /\ Head(t) = todo[o][i]
    BY <2>1, <2>4, StopFits
  <2>6. /\ todo' = [todo EXCEPT ![o] = t] /\ todo \in [Operators -> Seq(Steps)]
    BY <2>1 DEF Shape, CommandsTyped
  <2> HIDE DEF t
  <2>7. /\ todo' \in [Operators -> Seq(Steps)] /\ todo'[o] = t
        /\ \A p \in Operators \ {o} : todo'[p] = todo[p]
    BY <2>5, <2>6
  <2>8. CommandsTyped' /\ Others(o)
    BY <2>3, <2>7 DEF Others, Keeps, CommandsTyped, Shape
  <2>9. mem'[o].canaries = TRUE
    BY <1>2, <2>3 DEF SameRun
  <2>10. WellFormed(todo'[o], mem'[o].canaries)
    BY <2>5, <2>7, <2>9
  <2>11. Quiet(o) /\ Head(todo'[o]) \in Canaries /\ todo'[o] # <<>>
    BY <2>1, <2>5, <2>7 DEF Quiet, Canaries
  <2> QED  BY <1>2, <2>3, <2>8, <2>10, <2>11, ShapeMoves DEF Fails
<1> QED  BY <1>1, <1>2, MemTyped

\* A step of a run that succeeds.
LEMMA GoesInside ==
    ASSUME Shape, NEW o \in Operators, todo[o] # <<>>, Head(todo[o]) \in Inside \ Canaries,
           Goes(o), Keeps(o), mem'[o].canaries = mem[o].canaries, UNCHANGED canon
    PROVE  Shape' /\ Others(o) /\ Quiet(o) /\ todo'[o] = Tail(todo[o])
<1>1. /\ todo' \in [Operators -> Seq(Steps)] /\ todo'[o] = Tail(todo[o])
      /\ \A p \in Operators \ {o} : todo'[p] = todo[p]
  BY GoesOn
<1>2. CommandsTyped' /\ Others(o)
  BY <1>1 DEF Others, Keeps, CommandsTyped, Shape
<1>3. /\ todo[o] \in Seq(Steps) /\ WellFormed(todo[o], mem[o].canaries)
      /\ mem[o].canaries \in BOOLEAN
  BY MemTyped
<1>4. Head(todo[o]) \notin Begins \cup Canaries \cup {"aggregate"}
  BY DEF Inside, Begins, Canaries
<1>5. WellFormed(todo'[o], mem'[o].canaries)
  BY <1>1, <1>3, <1>4, TailFits
<1>6. Quiet(o)
  <2>1. SUFFICES ASSUME todo'[o] # <<>>, Head(todo'[o]) \in DOMAIN Before
                 PROVE  Head(todo[o]) \in Before[Head(todo'[o])]
    BY BeforeIs DEF Quiet, Inside, Canaries
  <2>2. Head(todo'[o]) = todo[o][2] /\ Len(todo[o]) >= 2 /\ Head(todo[o]) = todo[o][2 - 1]
    BY <1>1, <1>3, <2>1, TailKeeps DEF WellFormed
  <2> QED  BY <1>3, <2>1, <2>2 DEF WellFormed, Ordered
<1> QED  BY <1>1, <1>2, <1>5, <1>6, ShapeMoves

\* The next canary of a run, after its beginning or a row.
LEMMA NextInside ==
    ASSUME Shape, NEW o \in Operators, todo[o] # <<>>,
           Head(todo[o]) \in Canaries \/ Head(todo[o]) \in Begins,
           NEW left \in Seq(Canaries), NextCanary(o, left), Keeps(o),
           mem'[o].canaries = TRUE, UNCHANGED canon
    PROVE  /\ Shape' /\ Others(o) /\ Quiet(o)
           /\ Head(todo[o]) \in Canaries => mem[o].canaries = TRUE
           /\ todo'[o] \in Seq(Steps)
           /\ Head(todo'[o]) \in {"search", "crud", "canary", "aggregate"}
           /\ \A i \in 1 .. Len(todo'[o]) : todo'[o][i] \in Tables => i >= 5
           /\ \A i \in 1 .. Len(todo'[o]) : todo'[o][i] = "C029" => i >= 8
<1>1. /\ todo[o] \in Seq(Steps) /\ WellFormed(todo[o], mem[o].canaries)
      /\ mem[o].canaries \in BOOLEAN
  BY MemTyped
<1>2. Head(todo[o]) \in Begins => ~mem[o].canaries
  BY OuterAlone
<1> DEFINE r == Tail(todo[o])
           t == (IF left = <<>> THEN <<>> ELSE CanarySteps(Head(left))) \o r
<1>3. /\ Head(todo[o]) \in Canaries => mem[o].canaries
      /\ r \in Seq(Steps) /\ r # <<>> /\ Head(r) = "aggregate"
      /\ Ordered(r) /\ NoRow(r) /\ WellFormed(r, TRUE)
  BY <1>1, <1>2, RowFits
<1>4. /\ t \in Seq(Steps) /\ WellFormed(t, TRUE)
      /\ Head(t) \in {"search", "crud", "canary", "aggregate"}
      /\ \A i \in 1 .. Len(t) : t[i] \in Tables => i >= 5
      /\ \A i \in 1 .. Len(t) : t[i] = "C029" => i >= 8
  <2> HIDE DEF r
  <2> QED  BY <1>3, NextFits
<1>5. todo' = [todo EXCEPT ![o] = t] /\ todo \in [Operators -> Seq(Steps)]
  BY DEF NextCanary, Shape, CommandsTyped
<1> HIDE DEF t, r
<1>6. /\ todo' \in [Operators -> Seq(Steps)] /\ todo'[o] = t
      /\ \A p \in Operators \ {o} : todo'[p] = todo[p]
  BY <1>4, <1>5
<1>7. CommandsTyped' /\ Others(o)
  BY <1>6 DEF Others, Keeps, CommandsTyped, Shape
<1>8. WellFormed(todo'[o], mem'[o].canaries) /\ Quiet(o)
  BY <1>4, <1>6 DEF Quiet
<1> QED  BY <1>1, <1>3, <1>4, <1>6, <1>7, <1>8, ShapeMoves

-----------------------------------------------------------------------------
(* What the steps write.                                                   *)

\* A file that is written has its new content under the next number.
LEMMA Written ==
    ASSUME EvidenceTyped, NEW f \in Files, NEW e, IsDoc(e), Write(f, e)
    PROVE  /\ EvidenceTyped' /\ \A g \in Files \ {f} : ev'[g] = ev[g]
           /\ ev'[f].n = ev[f].n + 1 /\ ev'[f].ok = e.ok /\ ev'[f].label = e.label
           /\ ev'[f].snapshot = e.snapshot /\ ev'[f].values = e.values
           /\ ev'[f].pins = e.pins /\ ev'[f].saw = e.saw /\ ev'[f].rows = e.rows
<1> DEFINE d == [e EXCEPT !.n = ev[f].n + 1]
<1>1. /\ IsDoc(d) /\ d.n = ev[f].n + 1 /\ d.ok = e.ok /\ d.label = e.label
      /\ d.snapshot = e.snapshot /\ d.values = e.values
      /\ d.pins = e.pins /\ d.saw = e.saw /\ d.rows = e.rows
  BY DEF IsDoc, DocFields
<1>2. ev' = [ev EXCEPT ![f] = d]
  BY DEF Write
<1> HIDE DEF d
<1>3. ev'[f] = d /\ \A g \in Files \ {f} : ev'[g] = ev[g]
  BY <1>2 DEF EvidenceTyped
<1>4. ev' = [g \in Files |-> ev'[g]]
  BY <1>2 DEF EvidenceTyped
<1>5. d.n \in Nat
  BY <1>1 DEF EvidenceTyped
<1>6. EvidenceTyped'
  BY <1>1, <1>3, <1>4, <1>5 DEF EvidenceTyped
<1> QED  BY <1>1, <1>3, <1>6

\* The fields of a missing file.
LEMMA MissingIs ==
    /\ IsDoc(Missing) /\ Missing.n = 0 /\ Missing.ok = FALSE /\ Missing.label = 0
    /\ Missing.snapshot = 0 /\ Missing.values = 0 /\ Missing.pins = None
    /\ Missing.saw = None /\ Missing.rows = None
BY DEF Missing, IsDoc, DocFields

\* The fields of a document that is made at once,
LEMMA DocumentIs ==
    ASSUME NEW b
    PROVE  LET d == Document(b)
           IN  /\ IsDoc(d) /\ d.ok = b /\ d.label = canon /\ d.values = canon
               /\ d.snapshot = 0 /\ d.pins = None /\ d.saw = None /\ d.rows = None
<1> DEFINE m == Missing
           d == [m EXCEPT !.ok = b, !.label = canon, !.values = canon]
<1>1. /\ IsDoc(m) /\ m.snapshot = 0 /\ m.pins = None /\ m.saw = None /\ m.rows = None
  BY MissingIs
<1> HIDE DEF m
<1>2. /\ IsDoc(d) /\ d.ok = b /\ d.label = canon /\ d.values = canon
      /\ d.snapshot = 0 /\ d.pins = None /\ d.saw = None /\ d.rows = None
  BY <1>1 DEF IsDoc, DocFields
<1> QED  BY <1>2 DEF Document, m

\* of one whose producer read the canonical file when it began,
LEMMA BegunIs ==
    ASSUME NEW o, NEW b
    PROVE  LET d == Begun(o, b)
           IN  /\ IsDoc(d) /\ d.ok = b /\ d.label = mem[o].values
               /\ d.values = mem[o].values /\ d.pins = mem[o].pins
<1> DEFINE m == Document(b)
           d == [m EXCEPT !.label = mem[o].values, !.values = mem[o].values, !.pins = mem[o].pins]
<1>1. IsDoc(m) /\ m.ok = b
  BY DocumentIs
<1> HIDE DEF m
<1>2. /\ IsDoc(d) /\ d.ok = b /\ d.label = mem[o].values
      /\ d.values = mem[o].values /\ d.pins = mem[o].pins
  BY <1>1 DEF IsDoc, DocFields
<1> QED  BY <1>2 DEF Begun, m

\* of one that names the snapshots,
LEMMA NamedIs ==
    ASSUME NEW d, IsDoc(d)
    PROVE  IsDoc(Named(d)) /\ Named(d).label = d.label /\ Named(d).values = d.values
BY DEF IsDoc, DocFields, Named

\* and of an aggregate.
LEMMA PayloadIs ==
    ASSUME NEW o
    PROVE  LET d == Payload(o)
           IN  /\ IsDoc(d) /\ d.label = canon /\ d.values = mem[o].values
               /\ d.rows = mem[o].rows
<1> DEFINE b == \A c \in DOMAIN mem[o].rows : mem[o].rows[c].ok
           m == Document(b)
           d == [m EXCEPT !.values = mem[o].values, !.rows = mem[o].rows]
<1>1. IsDoc(m) /\ m.label = canon
  BY DocumentIs
<1> HIDE DEF m
<1>2. IsDoc(d) /\ d.label = canon /\ d.values = mem[o].values /\ d.rows = mem[o].rows
  BY <1>1 DEF IsDoc, DocFields
<1> QED  BY <1>2 DEF Payload, m

\* The files and what an operator has read are of the present canonical file.
Timely(o) ==
    /\ \A f \in Files : ev[f].values = ev[f].label
    /\ At(o, "emit") \/ At(o, "aggregate") => mem[o].values = canon
    /\ At(o, "split") => mem[o].payload.values = mem[o].payload.label

\* A step writes one of some files, and what it writes is what it says.
Wrote(o, fs) ==
    \/ UNCHANGED ev
    \/ \E f \in fs : \E e :
          IsDoc(e) /\ Write(f, e) /\ (Timely(o) /\ UNCHANGED canon => e.values = e.label)

\* The runtime writes its files,
DaytonaFiles == Runtime \cup {"paperclip_verify"}

LEMMA DaytonaWrites ==
    ASSUME EvidenceTyped, NEW o \in Operators, Daytona(o)
    PROVE  \/ Wrote(o, DaytonaFiles)
           \/ /\ Switch(o)
              /\ \E e : IsDoc(e) /\ Write("images", e) /\ e.values = e.label
<1>0. /\ "images" \in DaytonaFiles /\ "lifecycle" \in DaytonaFiles
      /\ "control_plane" \in DaytonaFiles /\ "paperclip_verify" \in DaytonaFiles
  BY DEF DaytonaFiles, Runtime
<1>1. \A b : IsDoc(Document(b)) /\ Document(b).values = Document(b).label
  BY DocumentIs
<1>2. CASE Images(o)
  <2>1. UNCHANGED ev \/ Write("images", Document(TRUE))
    BY <1>2, Zenon DEF Images
  <2> QED  BY <1>0, <1>1, <2>1, Zenon DEF Wrote
<1>3. CASE Switch(o)
  <2> DEFINE m == Document(TRUE)
             e == [m EXCEPT !.label = canon', !.values = canon', !.snapshot = snapshot']
  <2>1. Write("images", e)
    BY <1>3, Zenon DEF Switch
  <2>2. IsDoc(m)
    BY <1>1
  <2> HIDE DEF m
  <2>3. IsDoc(e) /\ e.values = e.label
    BY <2>2 DEF IsDoc, DocFields
  <2> QED  BY <1>3, <2>1, <2>3, Zenon
<1>4. CASE Lifecycle(o)
  <2>1. UNCHANGED ev \/ Write("lifecycle", Named(Document(TRUE)))
    BY <1>4, Zenon DEF Lifecycle
  <2>2. IsDoc(Named(Document(TRUE))) /\ Named(Document(TRUE)).values = Named(Document(TRUE)).label
    BY <1>1, NamedIs
  <2> QED  BY <1>0, <2>1, <2>2, Zenon DEF Wrote
<1>5. CASE DaytonaStepVerify(o)
  <2> DEFINE m == Document(TRUE)
             e == [m EXCEPT !.saw = Hash({"images", "lifecycle"})]
  <2>1. UNCHANGED ev \/ Write("control_plane", e)
    BY <1>5, Zenon DEF DaytonaStepVerify
  <2>2. IsDoc(m) /\ m.values = m.label
    BY <1>1
  <2> HIDE DEF m
  <2>3. IsDoc(e) /\ e.values = e.label
    BY <2>2 DEF IsDoc, DocFields
  <2> HIDE DEF e
  <2> QED  BY <1>0, <2>1, <2>3, Zenon DEF Wrote
<1>6. CASE ReconcileApply(o)
  BY <1>6, Zenon DEF ReconcileApply, Wrote
<1>7. CASE ReconcileDaytona(o)
  <2>1. UNCHANGED ev \/ Write("paperclip_verify", Document(FALSE))
    BY <1>7, Zenon DEF ReconcileDaytona, Unreconciled
  <2> QED  BY <1>0, <1>1, <2>1, Zenon DEF Wrote
<1>8. CASE Probe(o)
  <2>1. UNCHANGED ev \/ Write("paperclip_verify", Document(FALSE))
    BY <1>8, Zenon DEF Probe, Unreconciled
  <2> QED  BY <1>0, <1>1, <2>1, Zenon DEF Wrote
<1>9. CASE Emit(o)
  <2> DEFINE m == Begun(o, TRUE)
             e == [m EXCEPT !.label = canon, !.snapshot = mem[o].snapshot,
                            !.pins = Hash(Runtime)]
  <2>1. Write("paperclip_verify", e) \/ Write("paperclip_verify", Document(FALSE))
    BY <1>9, Zenon DEF Emit, Unreconciled
  <2>2. At(o, "emit")
    BY <1>9, Zenon DEF Emit
  <2>3. IsDoc(m) /\ m.values = mem[o].values
    BY BegunIs
  <2> HIDE DEF m
  <2>4. IsDoc(e) /\ (Timely(o) => e.values = e.label)
    BY <2>2, <2>3 DEF IsDoc, DocFields, Timely
  <2> HIDE DEF e
  <2> QED  BY <1>0, <1>1, <2>1, <2>4, Zenon DEF Wrote
<1> QED
  BY <1>2, <1>3, <1>4, <1>5, <1>6, <1>7, <1>8, <1>9 DEF Daytona

\* the profiles and Kestra write theirs,
ProfileFiles == {"profile_reconcile", "kestra_reconcile", "kestra_verify", "profile_access"}

LEMMA ProfilesWrite ==
    ASSUME EvidenceTyped, CircleInv, NEW o \in Operators, Profiles(o)
    PROVE  Wrote(o, ProfileFiles)
<1>0. /\ "profile_reconcile" \in ProfileFiles /\ "kestra_reconcile" \in ProfileFiles
      /\ "kestra_verify" \in ProfileFiles /\ "profile_access" \in ProfileFiles
  BY DEF ProfileFiles
<1>1. \A b : IsDoc(Document(b)) /\ Document(b).values = Document(b).label
  BY DocumentIs
<1>2. ASSUME NEW b, NEW q, NEW f \in ProfileFiles, Write(f, [Document(b) EXCEPT !.pins = q])
      PROVE  Wrote(o, ProfileFiles)
  <2> DEFINE m == Document(b)
             e == [m EXCEPT !.pins = q]
  <2>1. IsDoc(m) /\ m.values = m.label
    BY <1>1
  <2> HIDE DEF m
  <2>2. IsDoc(e) /\ e.values = e.label
    BY <2>1 DEF IsDoc, DocFields
  <2>3. Write(f, e)
    BY <1>2 DEF m
  <2> HIDE DEF e
  <2> QED  BY <2>2, <2>3, Zenon DEF Wrote
<1>3. CASE Prepare(o)
  <2>1. Write("profile_reconcile", Document(FALSE))
    BY <1>3 DEF Prepare
  <2> QED  BY <1>0, <1>1, <2>1, Zenon DEF Wrote
<1>4. CASE KestraReconcile(o)
  <2>1. UNCHANGED ev \/ Write("kestra_reconcile", Document(TRUE))
    BY <1>4, Zenon DEF KestraReconcile
  <2> QED  BY <1>0, <1>1, <2>1, Zenon DEF Wrote
<1>5. CASE KestraVerify(o)
  BY <1>5, Zenon DEF KestraVerify, Wrote
<1>6. CASE KestraVerified(o)
  <2>1. UNCHANGED ev \/ Write("kestra_verify", Begun(o, TRUE))
    BY <1>6, Zenon DEF KestraVerified
  <2>2. \A b : IsDoc(Begun(o, b)) /\ Begun(o, b).values = Begun(o, b).label
    BY BegunIs
  <2> QED  BY <1>0, <2>1, <2>2, Zenon DEF Wrote
<1>7. CASE VerifyAccess(o)
  <2>1. \E b, q : Write("profile_access", [Document(b) EXCEPT !.pins = q])
    BY <1>7, Zenon DEF VerifyAccess
  <2> QED  BY <1>0, <1>2, <2>1, Zenon
<1>8. CASE Finalize(o)
  <2>1. \/ Write("profile_reconcile", Document(FALSE))
        \/ \E b, q : Write("profile_reconcile", [Document(b) EXCEPT !.pins = q])
    BY <1>8, Zenon DEF Finalize
  <2>2. CASE Write("profile_reconcile", Document(FALSE))
    BY <1>0, <1>1, <2>2, Zenon DEF Wrote
  <2> QED  BY <1>0, <1>2, <2>1, <2>2, Zenon
<1>9. CASE IndexedPass(o)
  BY <1>9, NobodyIsServed DEF IndexedPass, Wrote
<1> QED  BY <1>3, <1>4, <1>5, <1>6, <1>7, <1>8, <1>9 DEF Profiles

\* the end-to-end canary its two,
EndToEndFiles == {"e2e", "e2e_verify"}

LEMMA EndToEndWrites ==
    ASSUME EvidenceTyped, NEW o \in Operators, EndToEnd(o)
    PROVE  Wrote(o, EndToEndFiles)
<1>0. "e2e" \in EndToEndFiles /\ "e2e_verify" \in EndToEndFiles
  BY DEF EndToEndFiles
<1>1. ASSUME NEW b, NEW q, NEW f \in EndToEndFiles, Write(f, [Document(b) EXCEPT !.pins = q])
      PROVE  Wrote(o, EndToEndFiles)
  <2> DEFINE m == Document(b)
             e == [m EXCEPT !.pins = q]
  <2>1. IsDoc(m) /\ m.values = m.label
    BY DocumentIs
  <2> HIDE DEF m
  <2>2. IsDoc(e) /\ e.values = e.label
    BY <2>1 DEF IsDoc, DocFields
  <2>3. Write(f, e)
    BY <1>1 DEF m
  <2> HIDE DEF e
  <2> QED  BY <2>2, <2>3, Zenon DEF Wrote
<1>2. CASE E2EApply(o)
  <2>1. UNCHANGED ev \/ \E b, q : Write("e2e", [Document(b) EXCEPT !.pins = q])
    BY <1>2, Zenon DEF E2EApply
  <2>2. CASE UNCHANGED ev
    BY <2>2 DEF Wrote
  <2> QED  BY <1>0, <1>1, <2>1, <2>2, Zenon
<1>3. CASE E2EFinish(o)
  <2>1. \E b, q : Write("e2e", [Begun(o, b) EXCEPT !.saw = q])
    BY <1>3, Zenon DEF E2EFinish
  <2>2. PICK b, q : Write("e2e", [Begun(o, b) EXCEPT !.saw = q])
    BY <2>1, Zenon
  <2> DEFINE m == Begun(o, b)
             e == [m EXCEPT !.saw = q]
  <2>3. IsDoc(m) /\ m.values = m.label
    BY BegunIs
  <2> HIDE DEF m
  <2>4. IsDoc(e) /\ e.values = e.label
    BY <2>3 DEF IsDoc, DocFields
  <2>5. Write("e2e", e)
    BY <2>2 DEF m
  <2> HIDE DEF e
  <2> QED  BY <1>0, <2>4, <2>5, Zenon DEF Wrote
<1>4. CASE E2EVerify(o)
  <2>1. UNCHANGED ev \/ \E b, q : Write("e2e_verify", [Document(b) EXCEPT !.pins = q])
    BY <1>4, Zenon DEF E2EVerify
  <2>2. CASE UNCHANGED ev
    BY <2>2 DEF Wrote
  <2> QED  BY <1>0, <1>1, <2>1, <2>2, Zenon
<1> QED  BY <1>2, <1>3, <1>4 DEF EndToEnd

\* and provisioning, Hermes and the edge write theirs.
AcceptanceFiles == {"account", "connector", "hermes", "cloudflare_semantic", "cloudflare"}

LEMMA AcceptancesWrite ==
    ASSUME EvidenceTyped, CircleInv, NEW o \in Operators, Acceptances(o)
    PROVE  Wrote(o, AcceptanceFiles)
<1>0. /\ "account" \in AcceptanceFiles /\ "connector" \in AcceptanceFiles
      /\ "hermes" \in AcceptanceFiles /\ "cloudflare_semantic" \in AcceptanceFiles
      /\ "cloudflare" \in AcceptanceFiles
  BY DEF AcceptanceFiles
<1>1. \A b : IsDoc(Document(b)) /\ Document(b).values = Document(b).label
  BY DocumentIs
<1>2. IsDoc(FailurePayload) /\ FailurePayload.values = FailurePayload.label
  BY MissingIs DEF FailurePayload
<1>3. CASE ProvisionVerify(o)
  <2>1. Write("account", Document(TRUE)) \/ Write("account", Document(FALSE))
    BY <1>3, Zenon DEF ProvisionVerify
  <2> QED  BY <1>0, <1>1, <2>1, Zenon DEF Wrote
<1>4. CASE NotionConnector(o)
  <2>1. UNCHANGED ev \/ Write("connector", Document(TRUE))
    BY <1>4, Zenon DEF NotionConnector
  <2> QED  BY <1>0, <1>1, <2>1, Zenon DEF Wrote
<1>5. CASE HermesCanary(o)
  <2>1. UNCHANGED ev \/ Write("hermes", Document(FALSE))
    BY <1>5, Zenon DEF HermesCanary
  <2> QED  BY <1>0, <1>1, <2>1, Zenon DEF Wrote
<1>6. CASE HermesFinish(o)
  <2> DEFINE m == ev["hermes"]
             e == [m EXCEPT !.ok = FALSE]
  <2>1. Write("hermes", Begun(o, TRUE)) \/ Write("hermes", e)
    BY <1>6, Zenon DEF HermesFinish
  <2>2. \A b : IsDoc(Begun(o, b)) /\ Begun(o, b).values = Begun(o, b).label
    BY BegunIs
  <2>3. IsDoc(m) /\ (Timely(o) => m.values = m.label)
    BY DEF EvidenceTyped, Timely, Files
  <2> HIDE DEF m
  <2>4. IsDoc(e) /\ (Timely(o) => e.values = e.label)
    BY <2>3 DEF IsDoc, DocFields
  <2> HIDE DEF e
  <2> QED  BY <1>0, <2>1, <2>2, <2>4, Zenon DEF Wrote
<1>7. CASE EdgeSemantic(o)
  <2>1. Write("cloudflare_semantic", Document(TRUE)) \/ Write("cloudflare", FailurePayload)
    BY <1>7, Zenon DEF EdgeSemantic
  <2> QED  BY <1>0, <1>1, <1>2, <2>1, Zenon DEF Wrote
<1>8. CASE RunAcceptance(o)
  <2>1. Write("cloudflare", FailurePayload)
    BY <1>8, NobodyIsServed, Zenon DEF RunAcceptance
  <2> QED  BY <1>0, <1>2, <2>1, Zenon DEF Wrote
<1> QED  BY <1>3, <1>4, <1>5, <1>6, <1>7, <1>8 DEF Acceptances

-----------------------------------------------------------------------------
(* What each step of a run, and each end of a command, does.               *)

\* A step of a run that succeeds.
Passes(o) ==
    /\ Shape' /\ Others(o) /\ Quiet(o) /\ todo'[o] = Tail(todo[o])
    /\ SameRun(o) /\ mem'[o].good = mem[o].good

\* Nobody else changes the canonical file in a step of a command.
Steady == canon' = canon /\ calm' = calm

\* What an operator does next.
Doing(o, step) == todo[o] # <<>> /\ Head(todo[o]) = step

\* To pass without reading is to pass.
LEMMA PassesSame ==
    ASSUME Shape, NEW o \in Operators, todo[o] # <<>>, Head(todo[o]) \in Inside \ Canaries,
           Goes(o), UNCHANGED mem, UNCHANGED canon
    PROVE  Passes(o) /\ mem'[o] = mem[o]
<1>1. Keeps(o) /\ mem'[o] = mem[o]
  BY Kept
<1> QED  BY <1>1, GoesInside DEF Passes, SameRun

\* PostgREST is verified: its evidence has the next number,
LEMMA PostgrestEffect ==
    ASSUME Shape, NEW o \in Operators, Postgrest(o)
    PROVE  /\ Doing(o, "postgrest") /\ Steady
           /\ \/ UNCHANGED ev /\ Fails(o)
              \/ Write("postgrest", Document(TRUE)) /\ Passes(o) /\ mem'[o] = mem[o]
<1>1. /\ Doing(o, "postgrest") /\ Steady
      /\ \/ UNCHANGED ev /\ Stops(o)
         \/ Write("postgrest", Document(TRUE)) /\ Goes(o) /\ UNCHANGED mem
  BY Zenon DEF Postgrest, At, Doing, Steady, TestFails, Elsewhere
<1> QED  BY <1>1, StopsInside, PassesSame DEF Doing, Steady, Inside, Canaries

\* Who notes a file of his own passes too.
LEMMA OwnsEffect ==
    ASSUME Shape, NEW o \in Operators, NEW f, Owns(o, f)
    PROVE  /\ Keeps(o) /\ SameRun(o) /\ mem'[o].good = mem[o].good
           /\ mem'[o].pins = mem[o].pins
           /\ mem[o].canaries => mem'[o].own = Over(Only(f, ev'[f].n), mem[o].own)
<1>1. CASE mem[o].canaries
  <2>1. mem' = [mem EXCEPT ![o].own = Over(Only(f, ev'[f].n), @)]
    BY <1>1 DEF Owns
  <2> DEFINE w == Over(Only(f, ev'[f].n), mem[o].own)
  <2>2. mem' = [mem EXCEPT ![o].own = w]
    BY <2>1
  <2> HIDE DEF w
  <2>3. /\ Keeps(o) /\ SameRun(o) /\ mem'[o].good = mem[o].good
        /\ mem'[o].own = w /\ mem'[o].pins = mem[o].pins
    BY <2>2, OwnNoted
  <2> QED  BY <2>3 DEF w
<1>2. CASE ~mem[o].canaries
  BY <1>2, Kept DEF Owns, SameRun
<1> QED  BY <1>1, <1>2

\* The canary of Notion runs: its evidence has the next number,
LEMMA NotionCanaryEffect ==
    ASSUME Shape, NEW o \in Operators, NotionCanary(o)
    PROVE  /\ Doing(o, "canary") /\ Steady
           /\ \/ UNCHANGED ev /\ Fails(o)
              \/ /\ Write("canary", Document(TRUE)) /\ Passes(o)
                 /\ mem'[o].pins = mem[o].pins
                 /\ mem[o].canaries =>
                      mem'[o].own = Over(Only("canary", ev'["canary"].n), mem[o].own)
<1>1. /\ Doing(o, "canary") /\ Steady
      /\ \/ UNCHANGED ev /\ Stops(o)
         \/ Write("canary", Document(TRUE)) /\ Goes(o) /\ Owns(o, "canary")
  BY Zenon DEF NotionCanary, At, Doing, Steady, TestFails, Elsewhere
<1>2. CASE UNCHANGED ev /\ Stops(o)
  BY <1>1, <1>2, StopsInside DEF Steady
<1>3. CASE Write("canary", Document(TRUE)) /\ Goes(o) /\ Owns(o, "canary")
  <2>1. /\ Keeps(o) /\ SameRun(o) /\ mem'[o].good = mem[o].good
        /\ mem'[o].pins = mem[o].pins
        /\ mem[o].canaries => mem'[o].own = Over(Only("canary", ev'["canary"].n), mem[o].own)
    BY <1>3, OwnsEffect
  <2>2. Passes(o)
    BY <1>1, <1>3, <2>1, GoesInside DEF Passes, SameRun, Doing, Steady, Inside, Canaries
  <2> QED  BY <1>1, <1>3, <2>1, <2>2
<1> QED  BY <1>1, <1>2, <1>3

\* The consumer is verified, and says which canary it saw.
LEMMA NotionVerifyEffect ==
    ASSUME Shape, NEW o \in Operators, NotionVerify(o)
    PROVE  /\ Doing(o, "consumer") /\ Steady
           /\ \/ Write("consumer", Document(FALSE)) /\ Fails(o)
              \/ /\ Write("consumer", [Document(TRUE) EXCEPT !.saw = Hash({"canary"})])
                 /\ Passes(o) /\ mem'[o].pins = mem[o].pins
                 /\ mem[o].canaries =>
                      mem'[o].own = Over(Only("consumer", ev'["consumer"].n), mem[o].own)
<1> DEFINE d == [Document(TRUE) EXCEPT !.saw = Hash({"canary"})]
<1>1. /\ Doing(o, "consumer") /\ Steady
      /\ \/ Write("consumer", Document(FALSE)) /\ Stops(o)
         \/ Write("consumer", d) /\ Goes(o) /\ Owns(o, "consumer")
  BY Zenon DEF NotionVerify, At, Doing, Steady, TestFails, Elsewhere
<1> HIDE DEF d
<1>2. CASE Write("consumer", Document(FALSE)) /\ Stops(o)
  BY <1>1, <1>2, StopsInside DEF Steady
<1>3. CASE Write("consumer", d) /\ Goes(o) /\ Owns(o, "consumer")
  <2>1. /\ Keeps(o) /\ SameRun(o) /\ mem'[o].good = mem[o].good
        /\ mem'[o].pins = mem[o].pins
        /\ mem[o].canaries => mem'[o].own = Over(Only("consumer", ev'["consumer"].n), mem[o].own)
    BY <1>3, OwnsEffect
  <2>2. Passes(o)
    BY <1>1, <1>3, <2>1, GoesInside DEF Passes, SameRun, Doing, Steady, Inside, Canaries
  <2> QED  BY <1>1, <1>3, <2>1, <2>2 DEF d
<1> QED  BY <1>1, <1>2, <1>3

\* The steps that only look.
Looks(o) == LiveCanary(o) \/ Compare(o) \/ CheckPostgrest(o)

\* Such a step changes nothing but perhaps the row.
LEMMA LooksEffect ==
    ASSUME Shape, NEW o \in Operators, Looks(o)
    PROVE  /\ todo[o] # <<>> /\ UNCHANGED ev /\ Steady
           /\ Head(todo[o]) \in {"search", "crud", "compare", "postgrest_check"}
           /\ \/ Fails(o)
              \/ /\ Passes(o) /\ mem'[o] = mem[o]
                 /\ Head(todo[o]) = "compare" => Holds(mem[o].own)
<1>1. /\ todo[o] # <<>> /\ UNCHANGED ev /\ Steady
      /\ Head(todo[o]) \in {"search", "crud", "compare", "postgrest_check"}
      /\ \/ Stops(o)
         \/ /\ Goes(o) /\ UNCHANGED mem
            /\ Head(todo[o]) = "compare" => Holds(mem[o].own)
  <2>1. CASE LiveCanary(o)
    BY <2>1 DEF LiveCanary, At, Steady, TestFails, Elsewhere
  <2>2. CASE Compare(o)
    BY <2>2 DEF Compare, At, Steady, Refused, Elsewhere
  <2>3. CASE CheckPostgrest(o)
    BY <2>3 DEF CheckPostgrest, At, Steady, Refused, Elsewhere
  <2> QED  BY <2>1, <2>2, <2>3 DEF Looks
<1>2. Head(todo[o]) \in Inside \ Canaries
  BY <1>1 DEF Inside, Canaries
<1> QED  BY <1>1, <1>2, StopsInside, PassesSame DEF Steady

\* The hashes of the present files are noted.
LEMMA PinEffect ==
    ASSUME Shape, NEW o \in Operators, Pin(o)
    PROVE  /\ UNCHANGED ev /\ Steady /\ Passes(o) /\ mem'[o].own = mem[o].own
           /\ \/ /\ Doing(o, "projection_pin")
                 /\ mem'[o].pins = Over(Hash({"canary", "consumer"}), mem[o].pins)
              \/ /\ Doing(o, "postgrest_pin")
                 /\ mem'[o].pins = Over(Hash({"postgrest"}), mem[o].pins)
<1>1. /\ UNCHANGED ev /\ Steady /\ Goes(o)
      /\ \/ /\ Doing(o, "projection_pin")
            /\ mem' = [mem EXCEPT ![o].pins = Over(Hash({"canary", "consumer"}), @)]
         \/ /\ Doing(o, "postgrest_pin")
            /\ mem' = [mem EXCEPT ![o].pins = Over(Hash({"postgrest"}), @)]
  BY DEF Pin, At, Doing, Steady, Elsewhere
<1>2. ASSUME NEW fs, mem' = [mem EXCEPT ![o].pins = Over(Hash(fs), @)],
             todo[o] # <<>>, Head(todo[o]) \in Inside \ Canaries
      PROVE  /\ Passes(o) /\ mem'[o].own = mem[o].own
             /\ mem'[o].pins = Over(Hash(fs), mem[o].pins)
  <2> DEFINE w == Over(Hash(fs), mem[o].pins)
  <2>1. mem' = [mem EXCEPT ![o].pins = w]
    BY <1>2
  <2> HIDE DEF w
  <2>2. /\ Keeps(o) /\ SameRun(o) /\ mem'[o].good = mem[o].good
        /\ mem'[o].pins = w /\ mem'[o].own = mem[o].own
    BY <2>1, PinsNoted
  <2>3. Passes(o)
    BY <1>1, <1>2, <2>2, GoesInside DEF Passes, SameRun, Steady
  <2> QED  BY <2>2, <2>3 DEF w
<1> QED  BY <1>1, <1>2 DEF Doing, Inside, Canaries

\* The beginning of a run, and the row that ends a canary.
Continues(o) ==
    /\ Shape' /\ Others(o) /\ Quiet(o) /\ todo'[o] \in Seq(Steps)
    /\ mem'[o].canaries = TRUE
    /\ Head(todo'[o]) \in {"search", "crud", "canary", "aggregate"}
    /\ \A i \in 1 .. Len(todo'[o]) : todo'[o][i] \in Tables => i >= 5
    /\ \A i \in 1 .. Len(todo'[o]) : todo'[o][i] = "C029" => i >= 8

\* A run begins with no rows and nothing read.
LEMMA BeginEffect ==
    ASSUME Shape, NEW o \in Operators, Begin(o)
    PROVE  /\ UNCHANGED ev /\ Steady /\ Continues(o) /\ mem'[o].rows = None /\ mem'[o].own = None
           /\ mem'[o].values = canon /\ todo[o] # <<>> /\ Head(todo[o]) \in Begins
<1>1. /\ UNCHANGED ev /\ Steady /\ todo[o] # <<>> /\ Head(todo[o]) \in Begins
  BY DEF Begin, At, Steady, Elsewhere, Begins
<1>2. PICK selected \in Selections \cup {Supported} :
         /\ NextCanary(o, selected)
         /\ mem' = [mem EXCEPT ![o] = [Clear EXCEPT !.values = canon, !.canaries = TRUE,
                                                    !.left = Tail(selected)]]
  BY DEF Begin
<1>3. selected \in Seq(Canaries) /\ selected # <<>>
  <2>1. Supported \in Seq(Canaries) /\ Supported # <<>>
    BY DEF Supported, Canaries
  <2>2. \A s \in Selections : s \in Seq(Canaries) /\ s # <<>>
    BY EvidenceAssumption, Zenon
  <2> QED  BY <1>2, <2>1, <2>2, Zenon
<1> DEFINE m == Clear
           n == [m EXCEPT !.values = canon, !.canaries = TRUE, !.left = Tail(selected)]
<1>4. IsMem(m) /\ m.good = TRUE /\ m.rows = None /\ m.own = None
  BY DEF Clear, IsMem, MemFields
<1>5. Tail(selected) \in Seq(Canaries)
  BY <1>3
<1> HIDE DEF m
<1>6. /\ IsMem(n) /\ n.left = Tail(selected) /\ n.canaries = TRUE /\ n.good = TRUE
      /\ n.rows = None /\ n.values = canon /\ n.own = None
  BY <1>4 DEF IsMem, MemFields
<1>7. mem' = [mem EXCEPT ![o] = n]
  BY <1>2 DEF m
<1> HIDE DEF n
<1>8. mem'[o] = n /\ Keeps(o)
  BY <1>5, <1>6, <1>7, MemTyped DEF Keeps
<1>9. mem'[o].canaries = TRUE
  BY <1>6, <1>8
<1>10. Continues(o)
  BY <1>1, <1>2, <1>3, <1>8, <1>9, NextInside DEF Continues, Steady
<1> QED  BY <1>1, <1>6, <1>8, <1>10

\* A canary ends: its row is added to those of the run.
LEMMA RowEffect ==
    ASSUME Shape, NEW o \in Operators, Row(o)
    PROVE  LET c == Head(todo[o])
               row == [ok   |-> mem[o].good, pins |-> IF mem[o].good THEN mem[o].pins ELSE None,
                       saw  |-> IF mem[o].good THEN mem[o].own ELSE None]
           IN  /\ UNCHANGED ev /\ Steady /\ Continues(o) /\ mem[o].canaries = TRUE
               /\ todo[o] # <<>> /\ c \in Canaries
               /\ mem'[o].rows = Over(Only(c, row), mem[o].rows)
               /\ mem'[o].values = mem[o].values /\ mem'[o].own = None
<1> DEFINE c == Head(todo[o])
           m == mem[o]
           row == [ok   |-> m.good, pins |-> IF m.good THEN m.pins ELSE None,
                   saw  |-> IF m.good THEN m.own ELSE None]
           r == Over(Only(c, row), m.rows)
           l == IF m.left = <<>> THEN m.left ELSE Tail(m.left)
           n == [m EXCEPT !.rows = r, !.good = TRUE, !.pins = None, !.own = None, !.left = l]
<1>1. /\ UNCHANGED ev /\ Steady /\ todo[o] # <<>> /\ c \in Canaries
      /\ NextCanary(o, m.left)
  BY DEF Row, Steady, Elsewhere
<1>2. mem' = [mem EXCEPT ![o] = n]
  BY Zenon DEF Row
<1>3. /\ IsMem(m) /\ m.left \in Seq(Canaries) /\ m.canaries \in BOOLEAN
      /\ mem = [p \in Operators |-> mem[p]]
  BY MemTyped
<1> HIDE DEF row
<1>4. l \in Seq(Canaries)
  BY <1>3
<1> HIDE DEF r, l, m
<1>5. /\ IsMem(n) /\ n.left = l /\ n.canaries = m.canaries /\ n.good = TRUE
      /\ n.rows = r /\ n.values = m.values /\ n.own = None
  BY <1>3 DEF IsMem, MemFields
<1> HIDE DEF n
<1>6. mem'[o] = n /\ Keeps(o)
  BY <1>2, <1>3, <1>4, <1>5 DEF Keeps
<1>7. WellFormed(todo[o], mem[o].canaries) /\ todo[o] \in Seq(Steps)
  BY MemTyped
<1>8. mem[o].canaries = TRUE
  BY <1>1, <1>3, <1>7, RowFits DEF m
<1>9. mem'[o].canaries = TRUE
  BY <1>5, <1>6, <1>8 DEF m
<1>10. Continues(o)
  BY <1>1, <1>3, <1>6, <1>9, NextInside DEF Continues, Steady, m
<1> QED  BY <1>1, <1>5, <1>6, <1>8, <1>10 DEF r, m, row

\* The rows of the run are written and handed to the split.
LEMMA AggregateEffect ==
    ASSUME Shape, NEW o \in Operators, Aggregate(o)
    PROVE  /\ Write("integration", Payload(o)) /\ Steady /\ Doing(o, "aggregate")
           /\ Shape' /\ Others(o) /\ mem[o].canaries = TRUE /\ mem'[o].canaries = FALSE
           /\ todo'[o] = Tail(todo[o]) /\ mem'[o].payload = Payload(o)
<1>1. /\ Write("integration", Payload(o)) /\ Steady /\ Doing(o, "aggregate") /\ Goes(o)
      /\ mem' = [mem EXCEPT ![o] = [Clear EXCEPT !.payload = Payload(o)]]
  BY DEF Aggregate, At, Doing, Steady, Elsewhere
<1> DEFINE m == Clear
           p == Payload(o)
           n == [m EXCEPT !.payload = p]
<1>2. IsMem(m) /\ m.good = TRUE /\ m.canaries = FALSE /\ m.left = <<>>
  BY DEF Clear, IsMem, MemFields
<1> HIDE DEF m, p
<1>3. /\ IsMem(n) /\ n.left = <<>> /\ n.canaries = FALSE /\ n.good = TRUE /\ n.payload = p
  BY <1>2 DEF IsMem, MemFields
<1>4. mem' = [mem EXCEPT ![o] = n]
  BY <1>1 DEF m, p
<1> HIDE DEF n
<1>5. mem'[o] = n /\ Keeps(o)
  <2>1. <<>> \in Seq(Canaries)
    OBVIOUS
  <2> QED  BY <1>3, <1>4, <2>1, MemTyped DEF Keeps
<1>6. /\ todo[o] \in Seq(Steps) /\ WellFormed(todo[o], mem[o].canaries)
      /\ mem[o].canaries \in BOOLEAN
  BY MemTyped
<1>7. mem[o].canaries = TRUE
  BY <1>1, <1>6 DEF Doing, WellFormed
<1>8. WellFormed(Tail(todo[o]), FALSE)
  BY <1>1, <1>6, <1>7, AggregateFits DEF Doing
<1>9. /\ todo' \in [Operators -> Seq(Steps)] /\ todo'[o] = Tail(todo[o])
      /\ \A q \in Operators \ {o} : todo'[q] = todo[q]
  BY <1>1, GoesOn DEF Doing
<1>10. CommandsTyped' /\ Others(o)
  BY <1>1, <1>5, <1>9 DEF Others, Keeps, CommandsTyped, Shape, Steady
<1>11. mem'[o].canaries = FALSE
  BY <1>3, <1>5
<1>12. WellFormed(todo'[o], mem'[o].canaries)
  BY <1>8, <1>9, <1>11
<1>13. Shape'
  BY <1>10, <1>12, ShapeMoves
<1> QED  BY <1>1, <1>3, <1>5, <1>7, <1>9, <1>10, <1>11, <1>13 DEF p

\* Only a row of C029 is split off, and is the one of the aggregate.
LEMMA SplitEffect ==
    ASSUME Shape, NEW o \in Operators, Split(o)
    PROVE  /\ Steady /\ Outside(o) /\ Doing(o, "split")
           /\ LET payload == mem[o].payload
                  rows == payload.rows IN
              IF "C029" \in DOMAIN rows
              THEN Write("integration_C029", [payload EXCEPT !.rows = Only("C029", rows["C029"])])
              ELSE UNCHANGED ev
<1>1. /\ Steady /\ Doing(o, "split")
      /\ mem' = [mem EXCEPT ![o] = Clear]
  BY DEF Split, At, Steady, Doing, Elsewhere
<1>2. todo' = [todo EXCEPT ![o] = Tail(@)] \/ todo' = [todo EXCEPT ![o] = <<>>]
  BY DEF Split
<1>3. Keeps(o) /\ ~mem'[o].canaries
  BY <1>1, Cleared
<1>4. ~mem[o].canaries
  BY <1>1, OuterAlone DEF Doing, Outer
<1>5. todo \in [Operators -> Seq(Steps)] /\ todo[o] # <<>>
  BY <1>1 DEF Shape, CommandsTyped, Doing
<1>6. Tail(todo[o]) \in Seq(Steps) /\ <<>> \in Seq(Steps)
  BY <1>5
<1>7. /\ todo' \in [Operators -> Seq(Steps)] /\ (todo'[o] = Tail(todo[o]) \/ todo'[o] = <<>>)
      /\ \A q \in Operators \ {o} : todo'[q] = todo[q]
  BY <1>2, <1>5, <1>6
<1>8. CommandsTyped' /\ Others(o)
  BY <1>1, <1>3, <1>7 DEF Others, Keeps, CommandsTyped, Shape, Steady
<1>9. Outside(o)
  BY <1>1, <1>3, <1>4, <1>5, <1>7, <1>8 DEF Outside, Doing, Outer
<1> QED  BY <1>1, <1>9 DEF Split

\* A command begins.
LEMMA StartEffect ==
    ASSUME Shape, NEW o \in Operators, Start(o)
    PROVE  /\ UNCHANGED ev /\ canon' = canon /\ calm' = (calm /\ \A p \in Operators : Idle(p))
           /\ todo[o] = <<>> /\ Shape' /\ Others(o) /\ mem'[o] = mem[o]
           /\ mem[o].canaries = FALSE /\ Head(todo'[o]) \notin DOMAIN Before
<1>1. PICK c \in Commands : \E plan \in Plans(c) : todo' = [todo EXCEPT ![o] = plan]
  BY DEF Start
<1>2. PICK plan \in Plans(c) : todo' = [todo EXCEPT ![o] = plan]
  BY <1>1
<1>3. c \in AllCommands
  BY EvidenceAssumption
<1>4. plan \in Seq(Steps) /\ WellFormed(plan, FALSE) /\ Head(plan) \notin DOMAIN Before
  BY <1>2, <1>3, PlanFits
<1>5. /\ UNCHANGED <<ev, canon, mem>> /\ todo[o] = <<>>
      /\ calm' = (calm /\ \A p \in Operators : Idle(p))
  BY DEF Start, Idle
<1>6. Keeps(o) /\ mem'[o] = mem[o]
  BY <1>5, Kept
<1>7. /\ todo' \in [Operators -> Seq(Steps)] /\ todo'[o] = plan
      /\ \A q \in Operators \ {o} : todo'[q] = todo[q]
  BY <1>2, <1>4 DEF Shape, CommandsTyped
<1>8. mem[o].canaries = FALSE
  <2>1. /\ todo[o] \in Seq(Steps) /\ WellFormed(todo[o], mem[o].canaries)
        /\ mem[o].canaries \in BOOLEAN
    BY MemTyped
  <2> QED  BY <1>5, <2>1, HeadInRun
<1>9. CommandsTyped' /\ Others(o)
  BY <1>5, <1>6, <1>7 DEF Others, Keeps, CommandsTyped, Shape
<1>10. WellFormed(todo'[o], mem'[o].canaries)
  BY <1>4, <1>6, <1>7, <1>8
<1>11. Shape'
  BY <1>9, <1>10, ShapeMoves
<1> QED  BY <1>4, <1>5, <1>6, <1>7, <1>8, <1>9, <1>11

\* A command is killed.
LEMMA KillEffect ==
    ASSUME Shape, NEW o \in Operators, Kill(o)
    PROVE  /\ UNCHANGED ev /\ Steady /\ Shape' /\ Others(o) /\ todo'[o] = <<>>
           /\ mem'[o].canaries = FALSE
<1>1. /\ UNCHANGED ev /\ Steady /\ todo' = [todo EXCEPT ![o] = <<>>]
      /\ mem' = [mem EXCEPT ![o] = Clear]
  BY DEF Kill, Elsewhere, Steady
<1>2. Keeps(o) /\ mem'[o].canaries = FALSE
  <2>1. Keeps(o) /\ mem'[o] = Clear
    BY <1>1, Cleared
  <2>2. Clear.canaries = FALSE
    BY DEF Clear
  <2> QED  BY <2>1, <2>2
<1>3. /\ todo' \in [Operators -> Seq(Steps)] /\ todo'[o] = <<>>
      /\ \A q \in Operators \ {o} : todo'[q] = todo[q]
  BY <1>1 DEF Shape, CommandsTyped
<1>4. CommandsTyped' /\ Others(o)
  BY <1>1, <1>2, <1>3 DEF Others, Keeps, CommandsTyped, Shape, Steady
<1>5. WellFormed(todo'[o], mem'[o].canaries)
  BY <1>2, <1>3, NothingFits
<1> QED  BY <1>1, <1>2, <1>3, <1>4, <1>5, ShapeMoves

\* Another writer changes the canonical file.
LEMMA ConfigureEffect ==
    ASSUME Shape, Configure
    PROVE  /\ UNCHANGED <<ev, todo, mem>> /\ Shape'
           /\ calm' = (calm /\ \A o \in Operators : Idle(o))
<1>1. UNCHANGED <<ev, todo, mem>> /\ canon' = canon + 1
  BY DEF Configure
<1>2. Shape'
  BY <1>1 DEF Shape, CommandsTyped
<1> QED  BY <1>1, <1>2 DEF Configure

-----------------------------------------------------------------------------
(* The types.                                                              *)

\* What is handed to the split is a document.
SplitTyped == \A o \in Operators : Doing(o, "split") => IsDoc(mem[o].payload)

\* The types of the state.
Typed == CircleInv /\ EvidenceTyped /\ Shape /\ SplitTyped

\* What follows a step outside of a run.
LEMMA Followed ==
    ASSUME Shape, NEW o \in Operators, Outside(o), todo'[o] # <<>>,
           Head(todo'[o]) \in DOMAIN Before
    PROVE  Head(todo[o]) \in Before[Head(todo'[o])]
<1>1. /\ todo[o] \in Seq(Steps) /\ WellFormed(todo[o], mem[o].canaries)
  BY MemTyped
<1>2. todo'[o] = Tail(todo[o]) /\ todo[o] # <<>>
  BY DEF Outside
<1>3. Head(todo'[o]) = todo[o][2] /\ Len(todo[o]) >= 2 /\ Head(todo[o]) = todo[o][2 - 1]
  BY <1>1, <1>2, TailKeeps DEF WellFormed
<1> QED  BY <1>1, <1>3 DEF WellFormed, Ordered

\* The same, said of the next step.
LEMMA FollowedBy ==
    ASSUME Shape, NEW o \in Operators, Outside(o)
    PROVE  /\ Doing(o, "reconcile")' => Doing(o, "verify")
           /\ Doing(o, "probe")' => Doing(o, "reconcile")
           /\ Doing(o, "emit")' => Doing(o, "probe")
           /\ Doing(o, "kestra_end")' => Doing(o, "kestra")
           /\ ~Doing(o, "split")'
<1>1. todo[o] # <<>> /\ Head(todo[o]) # "aggregate"
  BY DEF Outside, Outer
<1> QED  BY <1>1, Followed, BeforeIs DEF Doing

\* The group of a step outside of a run, the files it may write, and what it
\* never is.
LEMMA GroupsMove ==
    ASSUME Typed, NEW o \in Operators,
           Daytona(o) \/ Profiles(o) \/ EndToEnd(o) \/ Acceptances(o)
    PROVE  /\ Outside(o) /\ calm' = calm
           /\ ~Daytona(o) => Head(todo[o]) \notin DaytonaSteps /\ canon' = canon
           /\ ~Profiles(o) => Head(todo[o]) \notin ProfileSteps
           /\ \/ Daytona(o) /\ Wrote(o, DaytonaFiles)
              \/ /\ Switch(o)
                 /\ \E e : IsDoc(e) /\ Write("images", e) /\ e.values = e.label
              \/ Profiles(o) /\ Wrote(o, ProfileFiles)
              \/ EndToEnd(o) /\ Wrote(o, EndToEndFiles)
              \/ Acceptances(o) /\ Wrote(o, AcceptanceFiles)
<1> USE DEF Typed
<1>1. CASE Daytona(o)
  <2>1. Head(todo[o]) \in DaytonaSteps /\ Outside(o) /\ calm' = calm
    BY <1>1, DaytonaMoves
  <2>2. Head(todo[o]) \notin ProfileSteps
    BY <2>1 DEF DaytonaSteps, ProfileSteps
  <2> QED  BY <1>1, <2>1, <2>2, DaytonaWrites, Zenon
<1>2. CASE Profiles(o)
  <2>1. Head(todo[o]) \in ProfileSteps /\ Outside(o) /\ calm' = calm /\ canon' = canon
    BY <1>2, ProfilesMove
  <2>2. Head(todo[o]) \notin DaytonaSteps
    BY <2>1 DEF DaytonaSteps, ProfileSteps
  <2> QED  BY <1>2, <2>1, <2>2, ProfilesWrite, Zenon
<1>3. CASE EndToEnd(o)
  <2>1. Head(todo[o]) \in EndToEndSteps /\ Outside(o) /\ calm' = calm /\ canon' = canon
    BY <1>3, EndToEndMoves
  <2>2. Head(todo[o]) \notin DaytonaSteps /\ Head(todo[o]) \notin ProfileSteps
    BY <2>1 DEF DaytonaSteps, ProfileSteps, EndToEndSteps
  <2> QED  BY <1>3, <2>1, <2>2, EndToEndWrites, Zenon
<1>4. CASE Acceptances(o)
  <2>1. Head(todo[o]) \in AcceptanceSteps /\ Outside(o) /\ calm' = calm /\ canon' = canon
    BY <1>4, AcceptancesMove
  <2>2. Head(todo[o]) \notin DaytonaSteps /\ Head(todo[o]) \notin ProfileSteps
    BY <2>1 DEF DaytonaSteps, ProfileSteps, AcceptanceSteps
  <2> QED  BY <1>4, <2>1, <2>2, AcceptancesWrite, Zenon
<1> QED  BY <1>1, <1>2, <1>3, <1>4

\* A step of a run writes one of these, if any.
RunFiles == {"postgrest", "canary", "consumer", "integration", "integration_C029"}

\* A run of canaries writes these.
LEMMA RunWrites ==
    ASSUME Typed, NEW o \in Operators, IntegrationRun(o)
    PROVE  Wrote(o, RunFiles)
<1> USE DEF Typed
<1>0. /\ "postgrest" \in RunFiles /\ "canary" \in RunFiles /\ "consumer" \in RunFiles
      /\ "integration" \in RunFiles /\ "integration_C029" \in RunFiles
  BY DEF RunFiles
<1>1. \A b : IsDoc(Document(b)) /\ Document(b).values = Document(b).label
  BY DocumentIs
<1>2. CASE Begin(o)
  BY <1>2, BeginEffect DEF Wrote
<1>3. CASE Postgrest(o)
  <2>1. UNCHANGED ev \/ Write("postgrest", Document(TRUE))
    BY <1>3, Zenon DEF Postgrest
  <2> QED  BY <1>0, <1>1, <2>1, Zenon DEF Wrote
<1>4. CASE NotionCanary(o)
  <2>1. UNCHANGED ev \/ Write("canary", Document(TRUE))
    BY <1>4, Zenon DEF NotionCanary
  <2> QED  BY <1>0, <1>1, <2>1, Zenon DEF Wrote
<1>5. CASE NotionVerify(o)
  <2> DEFINE m == Document(TRUE)
             e == [m EXCEPT !.saw = Hash({"canary"})]
  <2>1. Write("consumer", Document(FALSE)) \/ Write("consumer", e)
    BY <1>5, Zenon DEF NotionVerify
  <2>2. IsDoc(m) /\ m.values = m.label
    BY <1>1
  <2> HIDE DEF m
  <2>3. IsDoc(e) /\ e.values = e.label
    BY <2>2 DEF IsDoc, DocFields
  <2> HIDE DEF e
  <2> QED  BY <1>0, <1>1, <2>1, <2>3, Zenon DEF Wrote
<1>6. CASE LiveCanary(o) \/ Compare(o) \/ CheckPostgrest(o)
  BY <1>6, LooksEffect DEF Wrote, Looks
<1>7. CASE Pin(o)
  BY <1>7, PinEffect DEF Wrote
<1>8. CASE Row(o)
  BY <1>8, RowEffect DEF Wrote
<1>9. CASE Aggregate(o)
  <2>1. Write("integration", Payload(o)) /\ At(o, "aggregate")
    BY <1>9 DEF Aggregate
  <2>2. IsDoc(Payload(o)) /\ (Timely(o) => Payload(o).values = Payload(o).label)
    BY <2>1, PayloadIs DEF Timely
  <2> QED  BY <1>0, <2>1, <2>2, Zenon DEF Wrote
<1>10. CASE Split(o)
  <2> DEFINE m == mem[o].payload
             e == [m EXCEPT !.rows = Only("C029", m.rows["C029"])]
  <2>1. /\ At(o, "split") /\ Doing(o, "split")
        /\ UNCHANGED ev \/ Write("integration_C029", e)
    BY <1>10 DEF Split, At, Doing
  <2>2. IsDoc(m) /\ (Timely(o) => m.values = m.label)
    BY <2>1 DEF SplitTyped, Timely
  <2> HIDE DEF m
  <2>3. IsDoc(e) /\ (Timely(o) => e.values = e.label)
    BY <2>2 DEF IsDoc, DocFields
  <2> HIDE DEF e
  <2> QED  BY <1>0, <2>1, <2>3, Zenon DEF Wrote
<1> QED
  BY <1>2, <1>3, <1>4, <1>5, <1>6, <1>7, <1>8, <1>9, <1>10 DEF IntegrationRun

\* What a step of a run does to the rest.
LEMMA RunMoves ==
    ASSUME Typed, NEW o \in Operators, IntegrationRun(o)
    PROVE  /\ Shape' /\ Others(o) /\ Steady /\ todo[o] # <<>>
           /\ \A x \in {"reconcile", "probe", "emit", "kestra_end"} : ~Doing(o, x)'
           /\ Doing(o, "split")' => Aggregate(o)
           /\ mem'[o].canaries =>
                \/ mem[o].canaries /\ mem'[o].values = mem[o].values
                \/ mem'[o].values = canon
<1> USE DEF Typed
<1>1. ASSUME Quiet(o), NEW x \in {"reconcile", "probe", "emit", "kestra_end", "split"}
      PROVE  ~Doing(o, x)'
  BY <1>1 DEF Quiet, Doing
<1>2. ASSUME Fails(o)
      PROVE  /\ Shape' /\ Others(o) /\ Quiet(o)
             /\ mem'[o].canaries => mem[o].canaries /\ mem'[o].values = mem[o].values
  <2>1. mem[o].canaries \in BOOLEAN
    BY MemTyped
  <2> QED  BY <1>2, <2>1 DEF Fails, SameRun
<1>3. ASSUME Passes(o)
      PROVE  /\ Shape' /\ Others(o) /\ Quiet(o)
             /\ mem'[o].canaries => mem[o].canaries /\ mem'[o].values = mem[o].values
  BY <1>3 DEF Passes, SameRun
<1>4. CASE Begin(o)
  BY <1>1, <1>4, BeginEffect DEF Continues
<1>5. CASE Postgrest(o)
  BY <1>1, <1>2, <1>3, <1>5, PostgrestEffect DEF Doing
<1>6. CASE NotionCanary(o)
  BY <1>1, <1>2, <1>3, <1>6, NotionCanaryEffect DEF Doing
<1>7. CASE NotionVerify(o)
  BY <1>1, <1>2, <1>3, <1>7, NotionVerifyEffect DEF Doing
<1>8. CASE LiveCanary(o) \/ Compare(o) \/ CheckPostgrest(o)
  BY <1>1, <1>2, <1>3, <1>8, LooksEffect DEF Looks
<1>9. CASE Pin(o)
  BY <1>1, <1>3, <1>9, PinEffect DEF Doing
<1>10. CASE Row(o)
  BY <1>1, <1>10, RowEffect DEF Continues
<1>11. CASE Aggregate(o)
  <2>1. /\ Steady /\ Doing(o, "aggregate") /\ Shape' /\ Others(o)
        /\ mem'[o].canaries = FALSE /\ todo'[o] = Tail(todo[o])
    BY <1>11, AggregateEffect
  <2>2. todo[o] \in Seq(Steps) /\ WellFormed(todo[o], mem[o].canaries) /\ todo[o] # <<>>
    BY <2>1, MemTyped DEF Doing
  <2>3. todo'[o] # <<>> => /\ Head(todo'[o]) = todo[o][2] /\ Len(todo[o]) >= 2
                           /\ Head(todo[o]) = todo[o][2 - 1]
    BY <2>1, <2>2, TailKeeps DEF WellFormed
  <2>4. todo'[o] # <<>> => Head(todo'[o]) \notin {"reconcile", "probe", "emit", "kestra_end"}
    BY <2>1, <2>2, <2>3, BeforeIs DEF WellFormed, Ordered, Doing
  <2> QED  BY <1>11, <2>1, <2>2, <2>4 DEF Doing
<1>12. CASE Split(o)
  <2>1. Steady /\ Outside(o) /\ Doing(o, "split")
    BY <1>12, SplitEffect
  <2>2. Shape'
    BY <2>1, OutsideFits
  <2> QED  BY <2>1, <2>2, FollowedBy DEF Outside, Doing
<1> QED
  BY <1>4, <1>5, <1>6, <1>7, <1>8, <1>9, <1>10, <1>11, <1>12 DEF IntegrationRun

\* What a step writes, for every file.
LEMMA WroteTyped ==
    ASSUME EvidenceTyped, NEW o, NEW fs \in SUBSET Files, Wrote(o, fs)
    PROVE  /\ EvidenceTyped' /\ \A g \in Files \ fs : ev'[g] = ev[g]
           /\ \A g \in Files : ev'[g] = ev[g] \/ ev'[g].n = ev[g].n + 1
           /\ Timely(o) /\ UNCHANGED canon => \A g \in Files : ev'[g].values = ev'[g].label
<1>1. CASE UNCHANGED ev
  BY <1>1 DEF EvidenceTyped, Timely
<1>2. ASSUME NEW f \in fs, NEW e, IsDoc(e), Write(f, e),
             Timely(o) /\ UNCHANGED canon => e.values = e.label
      PROVE  /\ EvidenceTyped' /\ \A g \in Files \ fs : ev'[g] = ev[g]
             /\ \A g \in Files : ev'[g] = ev[g] \/ ev'[g].n = ev[g].n + 1
             /\ Timely(o) /\ UNCHANGED canon => \A g \in Files : ev'[g].values = ev'[g].label
  <2>1. f \in Files
    OBVIOUS
  <2>2. /\ EvidenceTyped' /\ \A g \in Files \ {f} : ev'[g] = ev[g]
        /\ ev'[f].n = ev[f].n + 1 /\ ev'[f].label = e.label /\ ev'[f].values = e.values
    BY <1>2, <2>1, Written
  <2> QED  BY <1>2, <2>1, <2>2 DEF Timely
<1> QED  BY <1>1, <1>2, Zenon DEF Wrote

\* The types hold at the beginning.
LEMMA TypedInit == EvidenceInit => Typed
<1> SUFFICES ASSUME EvidenceInit PROVE Typed
  OBVIOUS
<1>1. CircleInv
  BY CircleInit
<1>2. EvidenceTyped
  <2>1. IsDoc(Missing) /\ Missing.n = 0
    BY MissingIs
  <2> QED  BY <2>1 DEF EvidenceInit, EvidenceTyped
<1>3. CommandsTyped
  <2>1. /\ IsMem(Clear) /\ Clear.left = <<>> /\ Clear.canaries = FALSE /\ Clear.good = TRUE
    BY DEF Clear, IsMem, MemFields
  <2>2. <<>> \in Seq(Canaries) /\ <<>> \in Seq(Steps)
    OBVIOUS
  <2>3. mem = [o \in Operators |-> Clear] /\ todo = [o \in Operators |-> <<>>] /\ canon = 1
    BY DEF EvidenceInit
  <2> QED  BY <2>1, <2>2, <2>3 DEF CommandsTyped
<1>4. Shape
  <2>1. \A o \in Operators : todo[o] = <<>> /\ mem[o].canaries = FALSE
    BY DEF EvidenceInit, Clear
  <2> QED  BY <1>3, <2>1, NothingFits DEF Shape
<1>5. SplitTyped
  BY DEF EvidenceInit, SplitTyped, Doing
<1> QED  BY <1>1, <1>2, <1>4, <1>5 DEF Typed

\* One operator's step: the rest of the proof has him, and what is true of the
\* others stays true of them.
LEMMA TypedMoves ==
    ASSUME Typed, CircleInv', NEW o \in Operators,
           \/ Daytona(o) \/ Profiles(o) \/ EndToEnd(o) \/ Acceptances(o)
           \/ IntegrationRun(o)
    PROVE  Typed'
<1> USE DEF Typed
<1>1. ASSUME Others(o), Doing(o, "split")' => IsDoc(mem'[o].payload)
      PROVE  SplitTyped'
  BY <1>1 DEF SplitTyped, Others, Doing
<1>2. CASE IntegrationRun(o)
  <2>1. /\ Shape' /\ Others(o) /\ (Doing(o, "split")' => Aggregate(o))
    BY <1>2, RunMoves
  <2>2. EvidenceTyped'
    BY <1>2, RunWrites, WroteTyped DEF RunFiles, Files
  <2>3. Aggregate(o) => mem'[o].payload = Payload(o)
    BY AggregateEffect
  <2>4. Aggregate(o) => IsDoc(mem'[o].payload)
    BY <2>3, PayloadIs
  <2> QED  BY <1>1, <2>1, <2>2, <2>4
<1>3. CASE Daytona(o) \/ Profiles(o) \/ EndToEnd(o) \/ Acceptances(o)
  <2>1. Outside(o)
    BY <1>3, GroupsMove
  <2>2. Shape'
    BY <2>1, OutsideFits
  <2>3. SplitTyped'
    BY <1>1, <2>1, FollowedBy DEF Outside
  <2>4. ASSUME NEW fs \in SUBSET Files, Wrote(o, fs) PROVE EvidenceTyped'
    BY <2>4, WroteTyped
  <2>5. /\ DaytonaFiles \subseteq Files /\ ProfileFiles \subseteq Files
        /\ EndToEndFiles \subseteq Files /\ AcceptanceFiles \subseteq Files
    BY DEF DaytonaFiles, Runtime, ProfileFiles, EndToEndFiles, AcceptanceFiles, Files
  <2>6. ASSUME NEW e, IsDoc(e), Write("images", e) PROVE EvidenceTyped'
    BY <2>6, Written DEF Files
  <2>7. EvidenceTyped'
    BY <1>3, <2>4, <2>5, <2>6, GroupsMove
  <2> QED  BY <2>2, <2>3, <2>7
<1> QED  BY <1>2, <1>3

\* Every step keeps them.
LEMMA TypedStep == Typed /\ [Next]_vars => Typed'
<1> SUFFICES ASSUME Typed, [Next]_vars PROVE Typed'
  OBVIOUS
<1>0. CircleInv'
  BY CircleStep DEF Typed
<1>1. ASSUME UNCHANGED ev PROVE EvidenceTyped'
  BY <1>1 DEF EvidenceTyped, Typed
<1>2. CASE UNCHANGED vars
  BY <1>0, <1>1, <1>2 DEF vars, Typed, Shape, CommandsTyped, SplitTyped, Doing
<1>3. CASE Configure
  BY <1>0, <1>1, <1>3, ConfigureEffect DEF Typed, SplitTyped, Doing
<1>4. ASSUME NEW o \in Operators, Start(o) PROVE Typed'
  <2>1. /\ UNCHANGED ev /\ Shape' /\ Others(o) /\ Head(todo'[o]) \notin DOMAIN Before
    BY <1>4, StartEffect DEF Typed
  <2>2. SplitTyped'
    BY <2>1, BeforeIs DEF Typed, SplitTyped, Others, Doing
  <2> QED  BY <1>0, <1>1, <2>1, <2>2 DEF Typed
<1>5. ASSUME NEW o \in Operators, Kill(o) PROVE Typed'
  <2>1. /\ UNCHANGED ev /\ Shape' /\ Others(o) /\ todo'[o] = <<>>
    BY <1>5, KillEffect DEF Typed
  <2>2. SplitTyped'
    BY <2>1 DEF Typed, SplitTyped, Others, Doing
  <2> QED  BY <1>0, <1>1, <2>1, <2>2 DEF Typed
<1>6. ASSUME NEW o \in Operators,
             \/ Daytona(o) \/ Profiles(o) \/ EndToEnd(o) \/ Acceptances(o)
             \/ IntegrationRun(o)
      PROVE  Typed'
  BY <1>0, <1>6, TypedMoves
<1> QED  BY <1>2, <1>3, <1>4, <1>5, <1>6 DEF Next

\* As long as commands do not overlap, at most one operator has one.
OneAtATime == calm => \A o, p \in Operators : o # p => Idle(o) \/ Idle(p)

\* Whoever has no command has no run.
LEMMA IdleHasNoRun ==
    ASSUME Shape, NEW o \in Operators, Idle(o)
    PROVE  mem[o].canaries = FALSE /\ \A x : ~Doing(o, x)
<1>1. /\ todo[o] \in Seq(Steps) /\ WellFormed(todo[o], mem[o].canaries)
      /\ mem[o].canaries \in BOOLEAN /\ todo[o] = <<>>
  BY MemTyped DEF Idle
<1> QED  BY <1>1, HeadInRun DEF Doing

\* A step of one operator's command leaves the others where they are.
Works(o) ==
    \/ Daytona(o) \/ Profiles(o) \/ EndToEnd(o) \/ Acceptances(o)
    \/ IntegrationRun(o)

\* Only who has a command works, and he changes his own.
LEMMA WorkMoves ==
    ASSUME Typed, NEW o \in Operators, Works(o)
    PROVE  todo[o] # <<>> /\ Others(o) /\ calm' = calm
BY GroupsMove, RunMoves DEF Works, Outside, Steady

\* The ghost `calm` is what it says.
LEMMA AloneStep ==
    ASSUME Typed, OneAtATime, [Next]_vars
    PROVE  OneAtATime'
<1>1. CASE UNCHANGED vars
  BY <1>1 DEF vars, OneAtATime, Idle
<1>2. CASE Configure
  BY <1>2, ConfigureEffect DEF Typed, OneAtATime, Idle
<1>3. ASSUME NEW o \in Operators, Start(o) PROVE OneAtATime'
  BY <1>3, StartEffect DEF Typed, OneAtATime, Idle, Others
<1>4. ASSUME NEW o \in Operators, Kill(o) PROVE OneAtATime'
  BY <1>4, KillEffect DEF Typed, OneAtATime, Idle, Others, Steady
<1>5. ASSUME NEW o \in Operators, Works(o) PROVE OneAtATime'
  BY <1>5, WorkMoves DEF OneAtATime, Idle, Others
<1> QED  BY <1>1, <1>2, <1>3, <1>4, <1>5 DEF Next, Works

-----------------------------------------------------------------------------
(* If commands do not overlap, what is written is of the present.          *)

\* What an operator has read of the canonical file is what it is now.
PresentAt(o) ==
    /\ mem[o].canaries => mem[o].values = canon
    /\ Doing(o, "probe") \/ Doing(o, "emit") => mem[o].values = canon
    /\ Doing(o, "split") => mem[o].payload.values = mem[o].payload.label

\* All evidence is labelled with the version that it was made from.
Present ==
    calm => /\ \A f \in Files : ev[f].values = ev[f].label
            /\ \A o \in Operators : PresentAt(o)

\* That is what the writers of evidence rely on.
LEMMA PresentIsTimely ==
    ASSUME Typed, Present, calm, NEW o \in Operators
    PROVE  Timely(o)
<1>1. At(o, "aggregate") => mem[o].canaries
  <2>1. WellFormed(todo[o], mem[o].canaries)
    BY DEF Typed, Shape
  <2> QED  BY <2>1 DEF WellFormed, At
<1> QED  BY <1>1 DEF Present, PresentAt, Timely, Doing, At

\* The values that a reconciliation reads at its beginning stay those of now.
LEMMA ReconcileReads ==
    ASSUME Typed, NEW o \in Operators, Daytona(o)
    PROVE  /\ Doing(o, "reconcile") /\ todo'[o] # <<>> =>
                mem'[o].values = canon /\ canon' = canon /\ UNCHANGED ev
           /\ Doing(o, "probe") /\ todo'[o] # <<>> =>
                mem'[o] = mem[o] /\ canon' = canon /\ UNCHANGED ev
<1>0. /\ Shape /\ Outside(o)
  BY GroupsMove DEF Typed
<1>1. ASSUME Doing(o, "reconcile"), todo'[o] # <<>>
      PROVE  mem'[o].values = canon /\ canon' = canon /\ UNCHANGED ev
  <2>1. ReconcileDaytona(o)
    BY <1>1 DEF Daytona, Doing, At, Images, Switch, Lifecycle, DaytonaStepVerify,
                ReconcileApply, Probe, Emit
  <2>2. ~mem[o].canaries
    BY <1>0 DEF Outside
  <2>3. todo \in [Operators -> Seq(Steps)]
    BY <1>0 DEF Shape, CommandsTyped
  <2>4. ~Stops(o)
    BY <1>1, <2>2, <2>3 DEF Stops
  <2>5. /\ mem' = [mem EXCEPT ![o].values = canon, ![o].snapshot = snapshot]
        /\ canon' = canon /\ UNCHANGED ev
    BY <2>1, <2>4 DEF ReconcileDaytona, Refused, Unreconciled, TestFails, Elsewhere
  <2>6. mem'[o].values = canon
    BY <1>0, <2>5, SnapshotRead
  <2> QED  BY <2>5, <2>6
<1>2. ASSUME Doing(o, "probe"), todo'[o] # <<>>
      PROVE  mem'[o] = mem[o] /\ canon' = canon /\ UNCHANGED ev
  <2>1. Probe(o)
    BY <1>2 DEF Daytona, Doing, At, Images, Switch, Lifecycle, DaytonaStepVerify,
                ReconcileApply, ReconcileDaytona, Emit
  <2>2. ~mem[o].canaries
    BY <1>0 DEF Outside
  <2>3. todo \in [Operators -> Seq(Steps)]
    BY <1>0 DEF Shape, CommandsTyped
  <2>4. ~Stops(o)
    BY <1>2, <2>2, <2>3 DEF Stops
  <2> QED  BY <2>1, <2>4 DEF Probe, Unreconciled, TestFails, Elsewhere
<1> QED  BY <1>1, <1>2

\* The canonical file is only switched in its own step.
LEMMA SwitchOnly ==
    ASSUME NEW o \in Operators, Daytona(o), ~Switch(o)
    PROVE  canon' = canon
BY DEF Daytona, Images, Lifecycle, DaytonaStepVerify, ReconcileApply, ReconcileDaytona,
       Probe, Emit, Elsewhere

\* A step of a command keeps it.
LEMMA PresentWorks ==
    ASSUME Typed, OneAtATime, Present, NEW o \in Operators, Works(o)
    PROVE  Present'
<1> SUFFICES ASSUME calm' PROVE Present'
  BY DEF Present
<1>0. /\ calm /\ todo[o] # <<>> /\ Others(o) /\ Shape /\ EvidenceTyped
      /\ \A p \in Operators \ {o} : Idle(p)
  BY WorkMoves DEF Typed, OneAtATime, Idle
<1>1. Timely(o)
  BY <1>0, PresentIsTimely
<1>2. \A p \in Operators \ {o} : PresentAt(p)'
  <2>1. \A p \in Operators \ {o} : mem[p].canaries = FALSE /\ \A x : ~Doing(p, x)
    BY <1>0, IdleHasNoRun
  <2> QED  BY <1>0, <2>1 DEF PresentAt, Others, Doing
<1>3. CASE IntegrationRun(o)
  <2>1. \A f \in Files : ev'[f].values = ev'[f].label
    BY <1>0, <1>1, <1>3, RunWrites, RunMoves, WroteTyped DEF RunFiles, Files, Steady
  <2>2. mem'[o].canaries => mem'[o].values = canon'
    BY <1>0, <1>3, RunMoves DEF Present, PresentAt, Steady
  <2>3. ~Doing(o, "probe")' /\ ~Doing(o, "emit")'
    BY <1>3, RunMoves
  <2>4. ASSUME Doing(o, "split")'
        PROVE  mem'[o].payload.values = mem'[o].payload.label
    <3>1. Aggregate(o)
      BY <1>3, <2>4, RunMoves
    <3>2. mem'[o].payload = Payload(o) /\ Doing(o, "aggregate")
      BY <1>0, <3>1, AggregateEffect
    <3>3. Payload(o).label = canon /\ Payload(o).values = mem[o].values
      BY PayloadIs
    <3>4. mem[o].values = canon
      BY <1>1, <3>2 DEF Timely, Doing, At
    <3> QED  BY <3>2, <3>3, <3>4
  <2> QED  BY <1>2, <2>1, <2>2, <2>3, <2>4 DEF Present, PresentAt
<1>4. CASE ~IntegrationRun(o)
  <2>1. Outside(o) /\ (~Daytona(o) => Head(todo[o]) \notin DaytonaSteps /\ canon' = canon)
    BY <1>4, GroupsMove DEF Works
  <2>2. PresentAt(o)'
    <3>1. ~mem'[o].canaries /\ ~Doing(o, "split")'
      BY <1>0, <2>1, FollowedBy DEF Outside
    <3>2. ASSUME Doing(o, "probe")' PROVE mem'[o].values = canon'
      <4>1. Doing(o, "reconcile") /\ todo'[o] # <<>>
        BY <1>0, <2>1, <3>2, FollowedBy DEF Doing
      <4>2. Daytona(o)
        BY <2>1, <4>1 DEF Doing, DaytonaSteps
      <4> QED  BY <4>1, <4>2, ReconcileReads
    <3>3. ASSUME Doing(o, "emit")' PROVE mem'[o].values = canon'
      <4>1. Doing(o, "probe") /\ todo'[o] # <<>>
        BY <1>0, <2>1, <3>3, FollowedBy DEF Doing
      <4>2. Daytona(o)
        BY <2>1, <4>1 DEF Doing, DaytonaSteps
      <4> QED  BY <1>0, <4>1, <4>2, ReconcileReads DEF Present, PresentAt
    <3> QED  BY <3>1, <3>2, <3>3 DEF PresentAt
  <2>3. ASSUME NEW fs \in SUBSET Files, Wrote(o, fs), canon' = canon
        PROVE  \A f \in Files : ev'[f].values = ev'[f].label
    BY <1>0, <1>1, <2>3, WroteTyped
  <2>4. /\ DaytonaFiles \subseteq Files /\ ProfileFiles \subseteq Files
        /\ EndToEndFiles \subseteq Files /\ AcceptanceFiles \subseteq Files
    BY DEF DaytonaFiles, Runtime, ProfileFiles, EndToEndFiles, AcceptanceFiles, Files
  <2>5. ASSUME Switch(o) PROVE \A f \in Files : ev'[f].values = ev'[f].label
    <3>1. Daytona(o) /\ At(o, "switch")
      BY <2>5 DEF Daytona, Switch
    <3> DEFINE m == Document(TRUE)
               e == [m EXCEPT !.label = canon', !.values = canon', !.snapshot = snapshot']
    <3>2. Write("images", e)
      BY <2>5, Zenon DEF Switch
    <3>3. IsDoc(m)
      BY DocumentIs
    <3> HIDE DEF m
    <3>4. IsDoc(e) /\ e.values = e.label
      BY <3>3 DEF IsDoc, DocFields
    <3> HIDE DEF e
    <3>5. /\ \A g \in Files \ {"images"} : ev'[g] = ev[g]
          /\ ev'["images"].label = e.label /\ ev'["images"].values = e.values
      BY <1>0, <3>2, <3>4, Written DEF Files
    <3> QED  BY <1>1, <3>4, <3>5 DEF Timely
  <2>6. \A f \in Files : ev'[f].values = ev'[f].label
    BY <1>4, <2>1, <2>3, <2>4, <2>5, GroupsMove, SwitchOnly DEF Works
  <2> QED  BY <1>2, <2>2, <2>6 DEF Present
<1> QED  BY <1>3, <1>4

\* Every step keeps it.
LEMMA PresentStep ==
    ASSUME Typed, OneAtATime, Present, [Next]_vars
    PROVE  Present'
<1>1. CASE UNCHANGED vars
  BY <1>1 DEF vars, Present, PresentAt, Doing
<1>2. CASE Configure
  <2> SUFFICES ASSUME calm' PROVE Present'
    BY DEF Present
  <2>1. UNCHANGED <<ev, todo, mem>> /\ calm /\ \A o \in Operators : Idle(o)
    BY <1>2, ConfigureEffect DEF Typed
  <2>2. \A o \in Operators : mem[o].canaries = FALSE /\ \A x : ~Doing(o, x)
    BY <2>1, IdleHasNoRun DEF Typed
  <2> QED  BY <2>1, <2>2 DEF Present, PresentAt, Doing
<1>3. ASSUME NEW o \in Operators, Start(o) PROVE Present'
  <2>1. /\ UNCHANGED ev /\ canon' = canon /\ (calm' => calm) /\ Others(o)
        /\ mem'[o] = mem[o] /\ mem[o].canaries = FALSE /\ Head(todo'[o]) \notin DOMAIN Before
    BY <1>3, StartEffect DEF Typed
  <2>2. ~Doing(o, "probe")' /\ ~Doing(o, "emit")' /\ ~Doing(o, "split")'
    BY <2>1, BeforeIs DEF Doing
  <2> QED  BY <2>1, <2>2 DEF Present, PresentAt, Others, Doing
<1>4. ASSUME NEW o \in Operators, Kill(o) PROVE Present'
  BY <1>4, KillEffect DEF Typed, Present, PresentAt, Others, Doing, Steady
<1>5. ASSUME NEW o \in Operators, Works(o) PROVE Present'
  BY <1>5, PresentWorks
<1> QED  BY <1>1, <1>2, <1>3, <1>4, <1>5 DEF Next, Works

-----------------------------------------------------------------------------
(* The reconciliation that the verification of Kestra names.               *)

\* What somebody read of the reconciliation, for these values.
PinsSubject(pins, v) ==
    /\ DOMAIN pins = {"kestra_reconcile"} /\ pins["kestra_reconcile"] \in Nat
    /\ pins["kestra_reconcile"] <= ev["kestra_reconcile"].n
    /\ pins["kestra_reconcile"] = ev["kestra_reconcile"].n =>
          ev["kestra_reconcile"].label = v

\* The verification, and one that is being made, name such a reconciliation.
KestraInv ==
    /\ ev["kestra_verify"].ok => PinsSubject(ev["kestra_verify"].pins, ev["kestra_verify"].label)
    /\ \A o \in Operators :
          Doing(o, "kestra_end") => PinsSubject(mem[o].pins, mem[o].values)

\* A new reconciliation is no longer the one that was named.
LEMMA SubjectStays ==
    ASSUME EvidenceTyped, NEW q, NEW v, PinsSubject(q, v),
           \/ ev'["kestra_reconcile"] = ev["kestra_reconcile"]
           \/ ev'["kestra_reconcile"].n = ev["kestra_reconcile"].n + 1
    PROVE  /\ DOMAIN q = {"kestra_reconcile"} /\ q["kestra_reconcile"] \in Nat
           /\ q["kestra_reconcile"] <= ev'["kestra_reconcile"].n
           /\ q["kestra_reconcile"] = ev'["kestra_reconcile"].n =>
                 ev'["kestra_reconcile"].label = v
BY DEF PinsSubject, EvidenceTyped, Files

\* A step that leaves the verification alone and is not the one that reads.
LEMMA KestraKept ==
    ASSUME EvidenceTyped, KestraInv, NEW o \in Operators, Others(o),
           \/ ev'["kestra_reconcile"] = ev["kestra_reconcile"]
           \/ ev'["kestra_reconcile"].n = ev["kestra_reconcile"].n + 1,
           \/ ev'["kestra_verify"] = ev["kestra_verify"]
           \/ /\ Doing(o, "kestra_end")
              /\ ev'["kestra_verify"].pins = mem[o].pins
              /\ ev'["kestra_verify"].label = mem[o].values,
           Doing(o, "kestra_end")' => PinsSubject(mem[o].pins, mem[o].values)'
    PROVE  KestraInv'
<1>1. \A p \in Operators \ {o} :
         Doing(p, "kestra_end")' => PinsSubject(mem[p].pins, mem[p].values)
  BY DEF KestraInv, Others, Doing
<1>2. ASSUME NEW p \in Operators \ {o}, Doing(p, "kestra_end")'
      PROVE  PinsSubject(mem[p].pins, mem[p].values)'
  <2>1. PinsSubject(mem[p].pins, mem[p].values)
    BY <1>1, <1>2
  <2>2. mem'[p] = mem[p]
    BY DEF Others
  <2> DEFINE q == mem[p].pins
             v == mem[p].values
  <2>3. PinsSubject(q, v)
    BY <2>1
  <2> HIDE DEF q, v
  <2>4. /\ DOMAIN q = {"kestra_reconcile"} /\ q["kestra_reconcile"] \in Nat
        /\ q["kestra_reconcile"] <= ev'["kestra_reconcile"].n
        /\ q["kestra_reconcile"] = ev'["kestra_reconcile"].n =>
              ev'["kestra_reconcile"].label = v
    BY <2>3, SubjectStays
  <2> QED  BY <2>2, <2>4 DEF PinsSubject, q, v
<1>3. ev'["kestra_verify"].ok =>
         PinsSubject(ev["kestra_verify"].pins, ev["kestra_verify"].label)'
  BY SubjectStays DEF KestraInv, PinsSubject
<1> QED  BY <1>2, <1>3 DEF KestraInv

\* A step of a command keeps it.
LEMMA KestraWorks ==
    ASSUME Typed, KestraInv, NEW o \in Operators, Works(o)
    PROVE  KestraInv'
<1>0. EvidenceTyped /\ Others(o) /\ Shape
  BY WorkMoves DEF Typed
<1>1. ASSUME NEW fs \in SUBSET Files, Wrote(o, fs)
      PROVE  /\ \A g \in Files \ fs : ev'[g] = ev[g]
             /\ \A g \in Files : ev'[g] = ev[g] \/ ev'[g].n = ev[g].n + 1
  BY <1>0, <1>1, WroteTyped
<1>2. CASE IntegrationRun(o)
  <2>1. Wrote(o, RunFiles) /\ ~Doing(o, "kestra_end")'
    BY <1>2, RunWrites, RunMoves
  <2>2. RunFiles \subseteq Files \ {"kestra_reconcile", "kestra_verify"}
    BY DEF RunFiles, Files
  <2>3. ev'["kestra_reconcile"] = ev["kestra_reconcile"]
        /\ ev'["kestra_verify"] = ev["kestra_verify"]
    BY <1>1, <2>1, <2>2 DEF Files
  <2> QED  BY <1>0, <2>1, <2>3, KestraKept
<1>3. CASE ~IntegrationRun(o) /\ ~Profiles(o)
  <2>1. /\ Outside(o) /\ Head(todo[o]) \notin ProfileSteps
    BY <1>3, GroupsMove DEF Works
  <2>2. ~Doing(o, "kestra_end")'
    BY <1>0, <2>1, FollowedBy DEF Doing, ProfileSteps
  <2>3. /\ DaytonaFiles \subseteq Files \ {"kestra_reconcile", "kestra_verify"}
        /\ EndToEndFiles \subseteq Files \ {"kestra_reconcile", "kestra_verify"}
        /\ AcceptanceFiles \subseteq Files \ {"kestra_reconcile", "kestra_verify"}
        /\ {"kestra_reconcile", "kestra_verify"} \subseteq Files
    BY DEF DaytonaFiles, Runtime, EndToEndFiles, AcceptanceFiles, Files
  <2>4. ASSUME NEW e, IsDoc(e), Write("images", e)
        PROVE  \A g \in Files \ {"images"} : ev'[g] = ev[g]
    BY <1>0, <2>4, Written DEF Files
  <2>5. ev'["kestra_reconcile"] = ev["kestra_reconcile"]
        /\ ev'["kestra_verify"] = ev["kestra_verify"]
    BY <1>1, <1>3, <2>3, <2>4, GroupsMove DEF Works
  <2> QED  BY <1>0, <2>2, <2>5, KestraKept
<1>4. CASE Profiles(o)
  <2>1. Outside(o) /\ Wrote(o, ProfileFiles)
    BY <1>0, <1>4, ProfilesMove, ProfilesWrite DEF Typed
  <2>2. ProfileFiles \subseteq Files /\ "kestra_reconcile" \in Files
    BY DEF ProfileFiles, Files
  <2>3. \/ ev'["kestra_reconcile"] = ev["kestra_reconcile"]
        \/ ev'["kestra_reconcile"].n = ev["kestra_reconcile"].n + 1
    BY <1>1, <2>1, <2>2
  <2>4. \/ ev'["kestra_verify"] = ev["kestra_verify"]
        \/ /\ Doing(o, "kestra_end")
           /\ ev'["kestra_verify"].pins = mem[o].pins
           /\ ev'["kestra_verify"].label = mem[o].values
    <3>1. ASSUME NEW f \in Files \ {"kestra_verify"}, NEW e, Write(f, e)
          PROVE  ev'["kestra_verify"] = ev["kestra_verify"]
      BY <1>0, <3>1 DEF Write, EvidenceTyped, Files
    <3>2. "profile_reconcile" \in Files \ {"kestra_verify"}
          /\ "kestra_reconcile" \in Files \ {"kestra_verify"}
          /\ "profile_access" \in Files \ {"kestra_verify"}
      BY DEF Files
    <3>3. CASE KestraVerified(o)
      <4>1. UNCHANGED ev \/ (Write("kestra_verify", Begun(o, TRUE)) /\ Doing(o, "kestra_end"))
        BY <3>3, Zenon DEF KestraVerified, At, Doing
      <4>2. IsDoc(Begun(o, TRUE)) /\ Begun(o, TRUE).pins = mem[o].pins
            /\ Begun(o, TRUE).label = mem[o].values
        BY BegunIs
      <4>3. "kestra_verify" \in Files
        BY DEF Files
      <4> QED  BY <1>0, <4>1, <4>2, <4>3, Written
    <3>4. CASE UNCHANGED ev
      BY <3>4
    <3>5. ~KestraVerified(o) =>
             UNCHANGED ev \/ \E f \in {"profile_reconcile", "kestra_reconcile", "profile_access"} :
                                \E e : Write(f, e)
      <4>1. CASE Prepare(o)
        BY <4>1, Zenon DEF Prepare
      <4>2. CASE KestraReconcile(o)
        BY <4>2, Zenon DEF KestraReconcile
      <4>3. CASE KestraVerify(o)
        BY <4>3, Zenon DEF KestraVerify
      <4>4. CASE VerifyAccess(o)
        BY <4>4, Zenon DEF VerifyAccess
      <4>5. CASE Finalize(o)
        BY <4>5, Zenon DEF Finalize
      <4>6. CASE IndexedPass(o)
        BY <4>6, NobodyIsServed, Zenon DEF IndexedPass, Typed
      <4> QED  BY <1>4, <4>1, <4>2, <4>3, <4>4, <4>5, <4>6 DEF Profiles
    <3> QED  BY <3>1, <3>2, <3>3, <3>4, <3>5
  <2>5. ASSUME Doing(o, "kestra_end")' PROVE PinsSubject(mem[o].pins, mem[o].values)'
    <3>1. Doing(o, "kestra") /\ todo'[o] # <<>>
      BY <1>0, <2>1, <2>5, FollowedBy DEF Doing
    <3>2. KestraVerify(o)
      BY <1>4, <3>1 DEF Profiles, Doing, At, Prepare, KestraReconcile, KestraVerified,
                        VerifyAccess, Finalize, IndexedPass
    <3>3. ~Stops(o)
      <4>1. ~mem[o].canaries
        BY <2>1 DEF Outside
      <4>2. todo \in [Operators -> Seq(Steps)]
        BY <1>0 DEF Shape, CommandsTyped
      <4> QED  BY <3>1, <4>1, <4>2 DEF Stops
    <3>4. /\ Current("kestra_reconcile") /\ UNCHANGED ev
          /\ mem' = [mem EXCEPT ![o].values = canon, ![o].pins = Hash({"kestra_reconcile"})]
      BY <3>2, <3>3 DEF KestraVerify, Refused, ReadProvisionSubject
    <3>5. mem'[o].values = canon /\ mem'[o].pins = Hash({"kestra_reconcile"})
      BY <1>0, <3>4, PinsRead
    <3>6. ev["kestra_reconcile"].n \in Nat
      BY <1>0 DEF EvidenceTyped, Files
    <3> QED  BY <3>4, <3>5, <3>6 DEF PinsSubject, Hash, Current
  <2> QED  BY <1>0, <2>3, <2>4, <2>5, KestraKept
<1> QED  BY <1>2, <1>3, <1>4

\* Every step keeps it.
LEMMA KestraStep ==
    ASSUME Typed, KestraInv, [Next]_vars
    PROVE  KestraInv'
<1>0. EvidenceTyped
  BY DEF Typed
<1>1. CASE UNCHANGED vars
  BY <1>1 DEF vars, KestraInv, PinsSubject, Doing
<1>2. CASE Configure
  BY <1>2, ConfigureEffect DEF Typed, KestraInv, PinsSubject, Doing
<1>3. ASSUME NEW o \in Operators, Start(o) PROVE KestraInv'
  <2>1. UNCHANGED ev /\ Others(o) /\ Head(todo'[o]) \notin DOMAIN Before
    BY <1>3, StartEffect DEF Typed
  <2> QED  BY <1>0, <2>1, KestraKept, BeforeIs DEF Doing
<1>4. ASSUME NEW o \in Operators, Kill(o) PROVE KestraInv'
  <2>1. UNCHANGED ev /\ Others(o) /\ todo'[o] = <<>>
    BY <1>4, KillEffect DEF Typed
  <2> QED  BY <1>0, <2>1, KestraKept DEF Doing
<1>5. ASSUME NEW o \in Operators, Works(o) PROVE KestraInv'
  BY <1>5, KestraWorks
<1> QED  BY <1>1, <1>2, <1>3, <1>4, <1>5 DEF Next, Works

-----------------------------------------------------------------------------
(* What is accepted is of now.                                             *)

\* Then all that is accepted is of the present.
LEMMA PresentAccepted ==
    ASSUME EvidenceTyped, Present, KestraInv
    PROVE  AcceptedIsOfNow
<1> SUFFICES ASSUME calm, NEW f \in Supports PROVE ev[f].values = canon
  BY DEF AcceptedIsOfNow
<1>1. Supports \subseteq Files
  BY DEF Supports, Runtime, Files
<1>2. ev[f].label = canon
  <2>1. CASE ProvesDaytona /\ f \in Runtime \cup {"paperclip_verify"}
    BY <2>1 DEF ProvesDaytona, Current
  <2>2. CASE ProvesKestra /\ f = "kestra_verify"
    BY <2>2 DEF ProvesKestra, Current
  <2>3. CASE ProvesKestra /\ f = "kestra_reconcile"
    <3>1. /\ ev["kestra_verify"].ok /\ ev["kestra_verify"].label = canon
          /\ Holds(ev["kestra_verify"].pins)
      BY <2>3 DEF ProvesKestra, Current
    <3>2. PinsSubject(ev["kestra_verify"].pins, canon)
      BY <3>1 DEF KestraInv
    <3> QED  BY <2>3, <3>1, <3>2 DEF PinsSubject, Holds, Hash
  <2>4. CASE (ProvesC024 \/ ProvesC027) /\ f = "integration"
    BY <2>4 DEF ProvesC024, ProvesC027, IntegrationRow
  <2>5. CASE (ProvesC027 \/ ProvesC036) /\ f = "postgrest"
    BY <2>5 DEF ProvesC027, ProvesC036, PostgrestVerified, Current
  <2>6. CASE ProvesC036 /\ f = "connector"
    BY <2>6 DEF ProvesC036, NotionConnectorEvidence, Current
  <2>7. CASE ProvesHermes /\ f = "hermes"
    BY <2>7 DEF ProvesHermes, Current
  <2>8. CASE C029PersistenceDependencies(canon) /\ f \in {"integration_C029", "canary", "consumer"}
    BY <2>8 DEF C029PersistenceDependencies, FreshDependency
  <2> QED
    BY <2>1, <2>2, <2>3, <2>4, <2>5, <2>6, <2>7, <2>8 DEF Supports
<1> QED  BY <1>1, <1>2 DEF Present

-----------------------------------------------------------------------------
(* The runtime that is accepted together was verified together.            *)

\* The control plane was verified with the images and the lifecycle of now.
SawPresent == ev["control_plane"].saw = Hash({"images", "lifecycle"})

\* Between the verification of the control plane and the evidence of Paperclip.
Reconciling(o) == Doing(o, "reconcile") \/ Doing(o, "probe") \/ Doing(o, "emit")

\* What the evidence of Paperclip names was verified together.
RuntimeInv ==
    LET paperclip == ev["paperclip_verify"] IN
    /\ paperclip.ok =>
          /\ DOMAIN paperclip.pins = Runtime
          /\ \A f \in Runtime : paperclip.pins[f] \in Nat /\ paperclip.pins[f] <= ev[f].n
    /\ calm /\ paperclip.ok /\ Holds(paperclip.pins) => SawPresent
    /\ calm => \A o \in Operators : Reconciling(o) => SawPresent

\* A step that leaves the four files alone, or only fails the last of them.
LEMMA RuntimeUntouched ==
    ASSUME RuntimeInv, NEW o \in Operators, Others(o), calm' = calm,
           \A f \in Runtime : ev'[f] = ev[f],
           \/ ev'["paperclip_verify"] = ev["paperclip_verify"]
           \/ ~ev'["paperclip_verify"].ok
           \/ /\ ev'["paperclip_verify"].pins = Hash(Runtime) /\ Reconciling(o)
              /\ \A f \in Runtime : ev[f].n \in Nat,
           Reconciling(o)' => Reconciling(o)
    PROVE  RuntimeInv'
<1>1. SawPresent' = SawPresent
  BY DEF SawPresent, Hash, Runtime
<1>2. \A q : DOMAIN q = Runtime => Holds(q)' = Holds(q)
  BY DEF Holds, Hash
<1>3. calm' => \A p \in Operators : Reconciling(p)' => SawPresent'
  BY <1>1 DEF RuntimeInv, Others, Reconciling, Doing
<1>4. CASE ev'["paperclip_verify"] = ev["paperclip_verify"]
  BY <1>1, <1>2, <1>3, <1>4 DEF RuntimeInv
<1>5. CASE ~ev'["paperclip_verify"].ok
  BY <1>3, <1>5 DEF RuntimeInv
<1>6. CASE /\ ev'["paperclip_verify"].pins = Hash(Runtime) /\ Reconciling(o)
           /\ \A f \in Runtime : ev[f].n \in Nat
  <2>1. calm' => SawPresent'
    BY <1>1, <1>6 DEF RuntimeInv
  <2>2. /\ DOMAIN ev'["paperclip_verify"].pins = Runtime
        /\ \A f \in Runtime : /\ ev'["paperclip_verify"].pins[f] \in Nat
                              /\ ev'["paperclip_verify"].pins[f] <= ev'[f].n
    BY <1>6 DEF Hash
  <2> QED  BY <1>3, <2>1, <2>2 DEF RuntimeInv
<1> QED  BY <1>4, <1>5, <1>6

\* Images or a lifecycle of their own age what the evidence of Paperclip names.
LEMMA RuntimeAges ==
    ASSUME EvidenceTyped, OneAtATime, RuntimeInv, NEW o \in Operators, Others(o), calm' = calm,
           todo[o] # <<>>, ~Reconciling(o)',
           NEW f \in {"images", "lifecycle"}, ev'[f].n = ev[f].n + 1,
           \A g \in Files \ {f} : ev'[g] = ev[g]
    PROVE  RuntimeInv'
<1>1. ev'["paperclip_verify"] = ev["paperclip_verify"] /\ f \in Runtime
      /\ \A g \in Runtime : ev[g].n \in Nat /\ (ev'[g] = ev[g] \/ ev'[g].n = ev[g].n + 1)
  BY DEF Files, Runtime, EvidenceTyped
<1>2. ev["paperclip_verify"].ok =>
         /\ DOMAIN ev["paperclip_verify"].pins = Runtime
         /\ \A g \in Runtime : /\ ev["paperclip_verify"].pins[g] \in Nat
                               /\ ev["paperclip_verify"].pins[g] <= ev'[g].n
         /\ ev["paperclip_verify"].pins[f] # ev'[f].n
  BY <1>1 DEF RuntimeInv
<1>3. ev["paperclip_verify"].ok => ~Holds(ev["paperclip_verify"].pins)'
  BY <1>1, <1>2 DEF Holds, Hash
<1>4. calm' => \A p \in Operators : ~Reconciling(p)'
  BY DEF OneAtATime, Idle, Others, Reconciling, Doing
<1> QED  BY <1>1, <1>2, <1>3, <1>4 DEF RuntimeInv

\* A step of a command keeps it.
LEMMA RuntimeWorks ==
    ASSUME Typed, OneAtATime, RuntimeInv, NEW o \in Operators, Works(o)
    PROVE  RuntimeInv'
<1>0. EvidenceTyped /\ Others(o) /\ Shape /\ calm' = calm /\ todo[o] # <<>>
  BY WorkMoves DEF Typed
<1>1. ASSUME NEW fs \in SUBSET (Files \ DaytonaFiles), Wrote(o, fs)
      PROVE  \A g \in DaytonaFiles : ev'[g] = ev[g]
  <2>1. fs \in SUBSET Files /\ DaytonaFiles \subseteq Files \ fs
    BY DEF DaytonaFiles, Runtime, Files
  <2> QED  BY <1>0, <1>1, <2>1, WroteTyped
<1>2. CASE ~Daytona(o)
  <2>1. \A g \in DaytonaFiles : ev'[g] = ev[g]
    <3>1. /\ RunFiles \in SUBSET (Files \ DaytonaFiles)
          /\ ProfileFiles \in SUBSET (Files \ DaytonaFiles)
          /\ EndToEndFiles \in SUBSET (Files \ DaytonaFiles)
          /\ AcceptanceFiles \in SUBSET (Files \ DaytonaFiles)
      BY DEF RunFiles, ProfileFiles, EndToEndFiles, AcceptanceFiles, DaytonaFiles, Runtime, Files
    <3>2. ~Switch(o)
      BY <1>2 DEF Daytona
    <3> QED  BY <1>1, <1>2, <3>1, <3>2, GroupsMove, RunWrites DEF Works
  <2>2. ~Reconciling(o)'
    <3>1. CASE IntegrationRun(o)
      BY <3>1, RunMoves DEF Reconciling
    <3>2. CASE ~IntegrationRun(o)
      <4>1. Outside(o) /\ Head(todo[o]) \notin DaytonaSteps
        BY <1>2, <3>2, GroupsMove DEF Works
      <4> QED  BY <1>0, <4>1, FollowedBy DEF Reconciling, Doing, DaytonaSteps
    <3> QED  BY <3>1, <3>2
  <2> QED  BY <1>0, <2>1, <2>2, RuntimeUntouched DEF DaytonaFiles
<1>3. CASE Daytona(o)
  <2>1. Outside(o)
    BY <1>0, <1>3, DaytonaMoves
  <2>2. /\ "images" \in Files /\ "lifecycle" \in Files /\ "control_plane" \in Files
        /\ "paperclip_verify" \in Files /\ Runtime \subseteq Files \ {"paperclip_verify"}
        /\ Runtime = {"control_plane", "images", "lifecycle"}
    BY DEF Files, Runtime
  <2>3. \A b : IsDoc(Document(b)) /\ Document(b).ok = b
    BY DocumentIs
  <2>4. \A f \in Files : \A e : IsDoc(e) /\ Write(f, e) =>
           /\ \A g \in Files \ {f} : ev'[g] = ev[g]
           /\ ev'[f].n = ev[f].n + 1 /\ ev'[f].ok = e.ok
           /\ ev'[f].pins = e.pins /\ ev'[f].saw = e.saw
    BY <1>0, Written
  <2>5. ASSUME NEW x, Doing(o, x), x \notin {"verify", "reconcile", "probe"}
        PROVE  ~Reconciling(o)'
    BY <1>0, <2>1, <2>5, FollowedBy DEF Reconciling, Doing
  <2>6. CASE UNCHANGED ev /\ (Reconciling(o)' => Reconciling(o))
    BY <1>0, <2>6, RuntimeUntouched
  <2>7. ASSUME Write("paperclip_verify", Document(FALSE)), Reconciling(o)' => Reconciling(o)
        PROVE  RuntimeInv'
    <3>1. ev'["paperclip_verify"].ok = FALSE /\ \A f \in Runtime : ev'[f] = ev[f]
      BY <2>2, <2>3, <2>4, <2>7
    <3> QED  BY <1>0, <2>7, <3>1, RuntimeUntouched
  <2>8. ASSUME NEW f \in {"images", "lifecycle"}, NEW e, IsDoc(e), Write(f, e),
               Doing(o, "images") \/ Doing(o, "switch") \/ Doing(o, "lifecycle")
        PROVE  RuntimeInv'
    <3>1. ev'[f].n = ev[f].n + 1 /\ \A g \in Files \ {f} : ev'[g] = ev[g]
      BY <2>2, <2>4, <2>8
    <3>2. ~Reconciling(o)'
      BY <2>5, <2>8
    <3> QED  BY <1>0, <3>1, <3>2, RuntimeAges
  <2>9. CASE Images(o)
    <3>1. Doing(o, "images") /\ (UNCHANGED ev \/ Write("images", Document(TRUE)))
      BY <2>9, Zenon DEF Images, At, Doing
    <3> QED  BY <2>3, <2>5, <2>6, <2>8, <3>1
  <2>10. CASE Switch(o)
    <3>1. Doing(o, "switch")
      BY <2>10 DEF Switch, At, Doing
    <3> DEFINE m == Document(TRUE)
               e == [m EXCEPT !.label = canon', !.values = canon', !.snapshot = snapshot']
    <3>2. Write("images", e)
      BY <2>10, Zenon DEF Switch
    <3>3. IsDoc(m)
      BY <2>3
    <3> HIDE DEF m
    <3>4. IsDoc(e)
      BY <3>3 DEF IsDoc, DocFields
    <3> HIDE DEF e
    <3> QED  BY <2>8, <3>1, <3>2, <3>4
  <2>11. CASE Lifecycle(o)
    <3>1. Doing(o, "lifecycle") /\ (UNCHANGED ev \/ Write("lifecycle", Named(Document(TRUE))))
      BY <2>11, Zenon DEF Lifecycle, At, Doing
    <3>2. IsDoc(Named(Document(TRUE)))
      BY <2>3, NamedIs
    <3> QED  BY <2>5, <2>6, <2>8, <3>1, <3>2
  <2>12. CASE DaytonaStepVerify(o)
    <3> DEFINE m == Document(TRUE)
               e == [m EXCEPT !.saw = Hash({"images", "lifecycle"})]
    <3>1. /\ Doing(o, "verify")
          /\ Write("control_plane", e) \/ (UNCHANGED ev /\ Stops(o))
      BY <2>12, Zenon DEF DaytonaStepVerify, At, Doing, Refused, TestFails
    <3>2. IsDoc(m)
      BY <2>3
    <3> HIDE DEF m
    <3>3. IsDoc(e) /\ e.saw = Hash({"images", "lifecycle"})
      BY <3>2 DEF IsDoc, DocFields
    <3> HIDE DEF e
    <3>4. CASE Write("control_plane", e)
      <4>1. /\ ev'["control_plane"].saw = Hash({"images", "lifecycle"})
            /\ ev'["control_plane"].n = ev["control_plane"].n + 1
            /\ \A g \in Files \ {"control_plane"} : ev'[g] = ev[g]
        BY <2>2, <2>4, <3>3, <3>4
      <4>2. SawPresent'
        BY <2>2, <4>1 DEF SawPresent, Hash
      <4>3. \A f \in Runtime : ev[f].n \in Nat /\ ev[f].n <= ev'[f].n
        BY <1>0, <2>2, <4>1 DEF EvidenceTyped
      <4>4. ev'["paperclip_verify"] = ev["paperclip_verify"] /\ \A f \in Runtime : ev'[f].n \in Nat
        BY <1>0, <2>2, <4>1 DEF EvidenceTyped
      <4>5. ASSUME ev'["paperclip_verify"].ok
            PROVE  /\ DOMAIN ev'["paperclip_verify"].pins = Runtime
                   /\ \A f \in Runtime : /\ ev'["paperclip_verify"].pins[f] \in Nat
                                         /\ ev'["paperclip_verify"].pins[f] <= ev'[f].n
        <5>1. /\ DOMAIN ev["paperclip_verify"].pins = Runtime
              /\ \A f \in Runtime : /\ ev["paperclip_verify"].pins[f] \in Nat
                                    /\ ev["paperclip_verify"].pins[f] <= ev[f].n
          BY <4>4, <4>5 DEF RuntimeInv
        <5>2. \A a, b, c \in Nat : a <= b /\ b <= c => a <= c
          OBVIOUS
        <5> QED  BY <4>3, <4>4, <5>1, <5>2
      <4> QED  BY <4>2, <4>5 DEF RuntimeInv
    <3>5. CASE UNCHANGED ev /\ Stops(o)
      <4>1. ~Reconciling(o)'
        BY <1>0, <2>1, <3>1, <3>5, StopsOutside DEF Outside, Reconciling, Doing, Shape, CommandsTyped
      <4> QED  BY <2>6, <3>5, <4>1
    <3> QED  BY <3>1, <3>4, <3>5
  <2>13. CASE ReconcileApply(o)
    <3>1. Doing(o, "apply") /\ UNCHANGED ev
      BY <2>13, Zenon DEF ReconcileApply, At, Doing
    <3> QED  BY <2>5, <2>6, <3>1
  <2>14. CASE ReconcileDaytona(o)
    <3>1. Doing(o, "reconcile") /\ (UNCHANGED ev \/ Write("paperclip_verify", Document(FALSE)))
      BY <2>14, Zenon DEF ReconcileDaytona, Unreconciled, At, Doing
    <3> QED  BY <2>6, <2>7, <3>1 DEF Reconciling
  <2>15. CASE Probe(o)
    <3>1. Doing(o, "probe") /\ (UNCHANGED ev \/ Write("paperclip_verify", Document(FALSE)))
      BY <2>15, Zenon DEF Probe, Unreconciled, At, Doing
    <3> QED  BY <2>6, <2>7, <3>1 DEF Reconciling
  <2>16. CASE Emit(o)
    <3> DEFINE m == Begun(o, TRUE)
               e == [m EXCEPT !.label = canon, !.snapshot = mem[o].snapshot,
                              !.pins = Hash(Runtime)]
    <3>1. Write("paperclip_verify", e) \/ Write("paperclip_verify", Document(FALSE))
      BY <2>16, Zenon DEF Emit, Unreconciled
    <3>2. Doing(o, "emit") /\ Reconciling(o)
      BY <2>16, Zenon DEF Emit, At, Doing, Reconciling
    <3>3. IsDoc(m)
      BY BegunIs
    <3> HIDE DEF m
    <3>4. IsDoc(e) /\ e.pins = Hash(Runtime)
      BY <3>3 DEF IsDoc, DocFields
    <3> HIDE DEF e
    <3>5. CASE Write("paperclip_verify", e)
      <4>1. ev'["paperclip_verify"].pins = Hash(Runtime) /\ \A f \in Runtime : ev'[f] = ev[f]
        BY <2>2, <2>4, <3>4, <3>5
      <4>2. \A f \in Runtime : ev[f].n \in Nat
        BY <1>0, <2>2 DEF EvidenceTyped
      <4> QED  BY <1>0, <3>2, <4>1, <4>2, RuntimeUntouched
    <3> QED  BY <2>7, <3>1, <3>2, <3>5
  <2> QED
    BY <1>3, <2>9, <2>10, <2>11, <2>12, <2>13, <2>14, <2>15, <2>16 DEF Daytona
<1> QED  BY <1>2, <1>3

\* Every step keeps it.
LEMMA RuntimeStep ==
    ASSUME Typed, OneAtATime, RuntimeInv, [Next]_vars
    PROVE  RuntimeInv'
<1>1. CASE UNCHANGED vars
  BY <1>1 DEF vars, RuntimeInv, Holds, Hash, SawPresent, Reconciling, Doing
<1>2. CASE Configure
  BY <1>2, ConfigureEffect DEF Typed, RuntimeInv, Holds, Hash, SawPresent, Reconciling, Doing
<1>3. ASSUME NEW o \in Operators, Start(o) PROVE RuntimeInv'
  <2>1. UNCHANGED ev /\ Others(o) /\ Head(todo'[o]) \notin DOMAIN Before /\ (calm' => calm)
    BY <1>3, StartEffect DEF Typed
  <2>2. ~Reconciling(o)'
    BY <2>1, BeforeIs DEF Reconciling, Doing
  <2> QED  BY <2>1, <2>2 DEF RuntimeInv, Holds, Hash, SawPresent, Reconciling, Doing, Others
<1>4. ASSUME NEW o \in Operators, Kill(o) PROVE RuntimeInv'
  <2>1. UNCHANGED ev /\ Others(o) /\ todo'[o] = <<>> /\ calm' = calm
    BY <1>4, KillEffect DEF Typed, Steady
  <2> QED  BY <2>1, RuntimeUntouched DEF Reconciling, Doing
<1>5. ASSUME NEW o \in Operators, Works(o) PROVE RuntimeInv'
  BY <1>5, RuntimeWorks
<1> QED  BY <1>1, <1>2, <1>3, <1>4, <1>5 DEF Next, Works

\* Then what is accepted of the runtime was observed once.
LEMMA RuntimeObserved == RuntimeInv => RuntimeIsOneObservation
<1>1. SawPresent => Holds(ev["control_plane"].saw)
  BY DEF SawPresent, Holds, Hash
<1> QED
  BY <1>1 DEF RuntimeInv, RuntimeIsOneObservation, ProvesDaytona, Current

-----------------------------------------------------------------------------
(* The tables: the second canary of a run makes the evidence of PostgREST  *)
(* anew that the first one's row names.                                    *)

\* The evidence of PostgREST that a row names.
TablePin(rows, c) == rows[c].pins["postgrest"]

\* A row that passed.
Proved(rows, c) == c \in DOMAIN rows /\ rows[c].ok

\* Two rows that passed name different evidence of PostgREST.
TableRows(rows) ==
    /\ \A c \in Tables : Proved(rows, c) =>
          "postgrest" \in DOMAIN rows[c].pins /\ TablePin(rows, c) \in Nat
    /\ Proved(rows, "C027") /\ Proved(rows, "C029") =>
          TablePin(rows, "C027") # TablePin(rows, "C029")

\* They name evidence that is older than this.
RowsBelow(rows, k) == \A c \in Tables : Proved(rows, c) => TablePin(rows, c) < k

\* As the row comes nearer: the evidence has been made, and then been read.
TableRun(s, m, n) ==
    /\ TableRows(m.rows) /\ RowsBelow(m.rows, n + 1)
    /\ m.good => \A i \in 1 .. Len(s) : s[i] \in Tables =>
         /\ i = 2 \/ i = 3 => RowsBelow(m.rows, n)
         /\ i = 1 => /\ "postgrest" \in DOMAIN m.pins /\ m.pins["postgrest"] \in Nat
                     /\ m.pins["postgrest"] <= n
                     /\ RowsBelow(m.rows, m.pins["postgrest"])

\* So do the rows of the aggregate and of the runs.
TableInv ==
    /\ TableRows(ev["integration"].rows)
    /\ \A o \in Operators : mem[o].canaries => TableRun(todo[o], mem[o], ev["postgrest"].n)

\* What is older than this is older than anything later.
LEMMA BelowGrows ==
    ASSUME NEW rows, TableRows(rows), NEW k \in Nat, NEW l \in Nat, k <= l, RowsBelow(rows, k)
    PROVE  RowsBelow(rows, l)
<1> SUFFICES ASSUME NEW c \in Tables, Proved(rows, c) PROVE TablePin(rows, c) < l
  BY DEF RowsBelow
<1>1. TablePin(rows, c) \in Nat /\ TablePin(rows, c) < k
  BY DEF TableRows, RowsBelow
<1> QED  BY <1>1

\* Evidence made by others only makes what is below lower.
LEMMA RunGrows ==
    ASSUME NEW s, NEW m, NEW n \in Nat, NEW l \in Nat, n <= l, TableRun(s, m, n)
    PROVE  TableRun(s, m, l)
<1>1. TableRows(m.rows) /\ RowsBelow(m.rows, n + 1)
  BY DEF TableRun
<1>2. n + 1 \in Nat /\ l + 1 \in Nat /\ n + 1 <= l + 1
  OBVIOUS
<1>3. RowsBelow(m.rows, l + 1)
  BY <1>1, <1>2, BelowGrows
<1>4. RowsBelow(m.rows, n) => RowsBelow(m.rows, l)
  BY <1>1, BelowGrows
<1>5. \A i \in Nat : i <= n => i <= l
  OBVIOUS
<1> QED  BY <1>1, <1>3, <1>4, <1>5 DEF TableRun

\* A step of a run that is no row and reads nothing of PostgREST, or does.
LEMMA RunPasses ==
    ASSUME NEW s \in Seq(Steps), s # <<>>, Chained(s), NEW m, NEW q, NEW n \in Nat, NEW l \in Nat,
           TableRun(s, m, n), q.rows = m.rows, q.good = m.good,
           \/ s[1] = "postgrest" /\ l = n + 1
           \/ s[1] = "postgrest_pin" /\ l = n /\ q.pins = Over(Only("postgrest", n), m.pins)
           \/ s[1] # "postgrest" /\ s[1] # "postgrest_pin" /\ l = n
    PROVE  TableRun(Tail(s), q, l)
<1> DEFINE t == Tail(s)
<1>1. /\ Len(s) \in Nat /\ Len(t) = Len(s) - 1
      /\ \A i \in 1 .. Len(t) : t[i] = s[i + 1]
  OBVIOUS
<1> HIDE DEF t
<1>2. TableRows(m.rows) /\ RowsBelow(m.rows, n + 1)
  BY DEF TableRun
<1>3. TableRows(q.rows) /\ RowsBelow(q.rows, l + 1)
  <2>1. n + 1 \in Nat /\ l + 1 \in Nat /\ n + 1 <= l + 1
    OBVIOUS
  <2> QED  BY <1>2, <2>1, BelowGrows
<1>4. ASSUME q.good, NEW i \in 1 .. Len(t), t[i] \in Tables
      PROVE  /\ i = 2 \/ i = 3 => RowsBelow(q.rows, l)
             /\ i = 1 => /\ "postgrest" \in DOMAIN q.pins /\ q.pins["postgrest"] \in Nat
                         /\ q.pins["postgrest"] <= l
                         /\ RowsBelow(q.rows, q.pins["postgrest"])
  <2>1. i + 1 \in 1 .. Len(s) /\ s[i + 1] \in Tables
    BY <1>1, <1>4
  <2>2. CASE i = 1
    <3>1. s[2] \in Tables /\ Len(s) >= 2
      BY <1>1, <2>1, <2>2
    <3>2. s[1] = "postgrest_pin"
      BY <3>1, ChainHeads
    <3>3. l = n /\ q.pins = Over(Only("postgrest", n), m.pins)
      BY <3>2
    <3>4. "postgrest" \in DOMAIN q.pins /\ q.pins["postgrest"] = n
      BY <3>3 DEF Over, Only
    <3>5. 2 \in 1 .. Len(s) /\ m.good
      BY <1>1, <1>4, <3>1
    <3>6. RowsBelow(m.rows, n)
      BY <3>1, <3>5 DEF TableRun
    <3> QED  BY <2>2, <3>3, <3>4, <3>6
  <2>3. CASE i = 2
    <3>1. s[3] \in Tables /\ Len(s) >= 3 /\ 3 \in 1 .. Len(s)
      BY <1>1, <2>1, <2>3
    <3>2. s[1] = "postgrest_check"
      BY <3>1, ChainHeads
    <3>3. RowsBelow(m.rows, n)
      BY <1>4, <3>1 DEF TableRun
    <3> QED  BY <2>3, <3>2, <3>3
  <2>4. CASE i = 3
    <3>1. s[4] \in Tables /\ Len(s) >= 4
      BY <1>1, <2>1, <2>4
    <3>2. s[1] = "postgrest"
      BY <3>1, ChainHeads
    <3> QED  BY <1>2, <2>4, <3>2
  <2> QED  BY <2>2, <2>3, <2>4
<1> QED  BY <1>3, <1>4 DEF TableRun, t

\* The row of one table is above that of the other.
LEMMA RowJoinsTables ==
    ASSUME NEW rows, NEW c \in Canaries, NEW row, NEW n \in Nat,
           TableRows(rows), RowsBelow(rows, n + 1),
           c \in Tables /\ row.ok =>
              /\ "postgrest" \in DOMAIN row.pins /\ row.pins["postgrest"] \in Nat
              /\ row.pins["postgrest"] <= n /\ RowsBelow(rows, row.pins["postgrest"])
    PROVE  LET all == Over(Only(c, row), rows)
           IN  TableRows(all) /\ RowsBelow(all, n + 1)
<1> DEFINE all == Over(Only(c, row), rows)
<1>1. /\ DOMAIN all = DOMAIN rows \cup {c} /\ all[c] = row
      /\ \A d \in DOMAIN rows : d # c => all[d] = rows[d]
  BY DEF Over, Only
<1> HIDE DEF all
<1>2. \A d \in Tables : d # c => /\ Proved(all, d) <=> Proved(rows, d)
                                 /\ Proved(rows, d) => all[d] = rows[d]
  BY <1>1 DEF Proved
<1>3. Proved(all, c) => row.ok
  BY <1>1 DEF Proved
<1>4. \A d \in Tables : Proved(all, d) => /\ "postgrest" \in DOMAIN all[d].pins
                                          /\ TablePin(all, d) \in Nat
                                          /\ TablePin(all, d) < n + 1
  <2> SUFFICES ASSUME NEW d \in Tables, Proved(all, d)
               PROVE  /\ "postgrest" \in DOMAIN all[d].pins
                      /\ TablePin(all, d) \in Nat
                      /\ TablePin(all, d) < n + 1
    OBVIOUS
  <2>1. CASE d = c
    BY <1>1, <1>3, <2>1 DEF TablePin
  <2>2. CASE d # c
    BY <1>2, <2>2 DEF TablePin, TableRows, RowsBelow
  <2> QED  BY <2>1, <2>2
<1>5. ASSUME Proved(all, "C027"), Proved(all, "C029")
      PROVE  TablePin(all, "C027") # TablePin(all, "C029")
  <2>1. CASE c \notin Tables
    BY <1>2, <1>5, <2>1 DEF TableRows, Tables, TablePin
  <2>2. ASSUME NEW d \in Tables, d # c, c \in Tables, Proved(all, d), Proved(all, c)
        PROVE  TablePin(all, d) # TablePin(all, c)
    <3>1. TablePin(all, d) = TablePin(rows, d) /\ Proved(rows, d) /\ TablePin(rows, d) \in Nat
      BY <1>2, <2>2 DEF TablePin, TableRows
    <3>2. row.pins["postgrest"] \in Nat /\ TablePin(all, c) = row.pins["postgrest"]
          /\ TablePin(rows, d) < row.pins["postgrest"]
      BY <1>1, <1>3, <2>2, <3>1 DEF TablePin, RowsBelow
    <3> QED  BY <3>1, <3>2
  <2> QED  BY <1>5, <2>1, <2>2 DEF Tables
<1> QED  BY <1>4, <1>5 DEF TableRows, RowsBelow, all

\* What a step of a run may do to the two files, and to what is read of them.
LEMMA TableWorks ==
    ASSUME Typed, TableInv, NEW o \in Operators, Works(o)
    PROVE  TableInv'
<1> DEFINE n == ev["postgrest"].n
           l == ev'["postgrest"].n
<1>0. EvidenceTyped /\ Others(o) /\ Shape /\ todo[o] # <<>>
  BY WorkMoves DEF Typed
<1>1. /\ todo[o] \in Seq(Steps) /\ Chained(todo[o]) /\ Head(todo[o]) = todo[o][1]
      /\ mem[o].canaries \in BOOLEAN
  BY <1>0, MemTyped DEF WellFormed
<1>2. /\ \A g \in Files : ev'[g] = ev[g] \/ ev'[g].n = ev[g].n + 1
      /\ ~IntegrationRun(o) => \A g \in RunFiles : ev'[g] = ev[g]
  <2>1. /\ DaytonaFiles \subseteq Files \ RunFiles /\ ProfileFiles \subseteq Files \ RunFiles
        /\ EndToEndFiles \subseteq Files \ RunFiles /\ AcceptanceFiles \subseteq Files \ RunFiles
        /\ RunFiles \subseteq Files /\ "images" \in Files \ RunFiles
    BY DEF DaytonaFiles, Runtime, ProfileFiles, EndToEndFiles, AcceptanceFiles, RunFiles, Files
  <2>2. ASSUME NEW fs \in SUBSET (Files \ RunFiles), Wrote(o, fs)
        PROVE  /\ \A g \in Files : ev'[g] = ev[g] \/ ev'[g].n = ev[g].n + 1
               /\ \A g \in RunFiles : ev'[g] = ev[g]
    <3>1. fs \in SUBSET Files /\ RunFiles \subseteq Files \ fs
      BY <2>1
    <3> QED  BY <1>0, <2>2, <3>1, WroteTyped
  <2>3. ASSUME NEW e, IsDoc(e), Write("images", e)
        PROVE  /\ \A g \in Files : ev'[g] = ev[g] \/ ev'[g].n = ev[g].n + 1
               /\ \A g \in RunFiles : ev'[g] = ev[g]
    BY <1>0, <2>1, <2>3, Written
  <2>4. CASE IntegrationRun(o)
    BY <1>0, <2>1, <2>4, RunWrites, WroteTyped
  <2>5. CASE ~IntegrationRun(o)
    <3>1. Daytona(o) \/ Profiles(o) \/ EndToEnd(o) \/ Acceptances(o)
      BY <2>5 DEF Works
    <3>2. \/ Wrote(o, DaytonaFiles) \/ Wrote(o, ProfileFiles) \/ Wrote(o, EndToEndFiles)
          \/ Wrote(o, AcceptanceFiles) \/ \E e : IsDoc(e) /\ Write("images", e)
      BY <3>1, GroupsMove
    <3> QED  BY <2>1, <2>2, <2>3, <2>5, <3>2
  <2> QED  BY <2>4, <2>5
<1>3. n \in Nat /\ l \in Nat /\ n <= l
  BY <1>0, <1>2 DEF EvidenceTyped, Files
<1>4. \A p \in Operators \ {o} : mem'[p].canaries => TableRun(todo'[p], mem'[p], l)
  BY <1>0, <1>3, RunGrows DEF TableInv, Others
<1>5. mem[o].canaries => TableRun(todo[o], mem[o], n)
  BY DEF TableInv
<1>6. ASSUME Fails(o) PROVE mem'[o].canaries => TableRun(todo'[o], mem'[o], l)
  <2>1. CASE mem[o].canaries = TRUE
    <3>1. SameRun(o) /\ mem'[o].good = FALSE
      BY <1>6, <2>1 DEF Fails
    <3>2. TableRun(todo[o], mem[o], l)
      BY <1>3, <1>5, <2>1, RunGrows
    <3>3. mem'[o].rows = mem[o].rows
      BY <3>1 DEF SameRun
    <3> QED  BY <3>1, <3>2, <3>3 DEF TableRun
  <2>2. CASE mem[o].canaries = FALSE
    BY <1>6, <2>2 DEF Fails
  <2> QED  BY <1>1, <2>1, <2>2
<1>7. ASSUME Passes(o),
             \/ todo[o][1] = "postgrest" /\ l = n + 1
             \/ /\ todo[o][1] = "postgrest_pin" /\ l = n
                /\ mem'[o].pins = Over(Only("postgrest", n), mem[o].pins)
             \/ todo[o][1] # "postgrest" /\ todo[o][1] # "postgrest_pin" /\ l = n
      PROVE  mem'[o].canaries => TableRun(todo'[o], mem'[o], l)
  <2>1. /\ todo'[o] = Tail(todo[o]) /\ mem'[o].rows = mem[o].rows
        /\ mem'[o].good = mem[o].good /\ mem'[o].canaries = mem[o].canaries
    BY <1>7 DEF Passes, SameRun
  <2> SUFFICES ASSUME mem'[o].canaries PROVE TableRun(Tail(todo[o]), mem'[o], l)
    BY <2>1
  <2>2. TableRun(todo[o], mem[o], n)
    BY <1>5, <2>1
  <2> HIDE DEF n, l
  <2> QED  BY <1>0, <1>1, <1>3, <1>7, <2>1, <2>2, RunPasses
<1>8. ASSUME mem'[o].canaries => TableRun(todo'[o], mem'[o], l),
             TableRows(ev'["integration"].rows)
      PROVE  TableInv'
  BY <1>4, <1>8 DEF TableInv
<1>9. TableRows(ev["integration"].rows)
  BY DEF TableInv
<1> HIDE DEF TableInv
<1>10. CASE ~IntegrationRun(o)
  <2>1. ev'["integration"] = ev["integration"]
    BY <1>2, <1>10 DEF RunFiles
  <2>2. Outside(o)
    BY <1>10, GroupsMove DEF Works
  <2> QED  BY <1>8, <1>9, <2>1, <2>2 DEF Outside
<1>11. \A f \in Files : \A e : IsDoc(e) /\ Write(f, e) =>
          /\ \A g \in Files \ {f} : ev'[g] = ev[g]
          /\ ev'[f].n = ev[f].n + 1 /\ ev'[f].rows = e.rows
  BY <1>0, Written
<1>12. /\ "postgrest" \in Files /\ "canary" \in Files /\ "consumer" \in Files
       /\ "integration" \in Files /\ "integration_C029" \in Files
  BY DEF Files
<1>13. \A b : IsDoc(Document(b))
  BY DocumentIs
<1>14. ASSUME UNCHANGED ev PROVE l = n /\ TableRows(ev'["integration"].rows)
  BY <1>9, <1>14
<1>15. ASSUME NEW f \in {"canary", "consumer", "integration_C029"}, NEW e, IsDoc(e), Write(f, e)
       PROVE  l = n /\ TableRows(ev'["integration"].rows)
  BY <1>9, <1>11, <1>12, <1>15
<1>16. CASE Begin(o)
  <2>1. UNCHANGED ev /\ Continues(o) /\ mem'[o].rows = None
    BY <1>0, <1>16, BeginEffect
  <2>2. TableRun(todo'[o], mem'[o], l)
    BY <2>1 DEF Continues, TableRun, TableRows, RowsBelow, Proved, None
  <2> QED  BY <1>8, <1>14, <2>1, <2>2
<1>17. CASE Postgrest(o)
  <2>1. /\ todo[o][1] = "postgrest"
        /\ \/ UNCHANGED ev /\ Fails(o)
           \/ Write("postgrest", Document(TRUE)) /\ Passes(o)
    BY <1>0, <1>1, <1>17, PostgrestEffect DEF Doing
  <2>2. CASE UNCHANGED ev /\ Fails(o)
    BY <1>6, <1>8, <1>14, <2>2
  <2>3. CASE Write("postgrest", Document(TRUE)) /\ Passes(o)
    <3>1. l = n + 1 /\ TableRows(ev'["integration"].rows)
      BY <1>9, <1>11, <1>12, <1>13, <2>3
    <3> QED  BY <1>7, <1>8, <2>1, <2>3, <3>1
  <2> QED  BY <2>1, <2>2, <2>3
<1>18. CASE NotionCanary(o)
  <2>1. /\ todo[o][1] = "canary"
        /\ \/ UNCHANGED ev /\ Fails(o)
           \/ Write("canary", Document(TRUE)) /\ Passes(o)
    BY <1>0, <1>1, <1>18, NotionCanaryEffect DEF Doing
  <2>2. CASE UNCHANGED ev /\ Fails(o)
    BY <1>6, <1>8, <1>14, <2>2
  <2>3. CASE Write("canary", Document(TRUE)) /\ Passes(o)
    BY <1>7, <1>8, <1>13, <1>15, <2>1, <2>3
  <2> QED  BY <2>1, <2>2, <2>3
<1>19. CASE NotionVerify(o)
  <2> DEFINE m == Document(TRUE)
             e == [m EXCEPT !.saw = Hash({"canary"})]
  <2>1. /\ todo[o][1] = "consumer"
        /\ \/ Write("consumer", Document(FALSE)) /\ Fails(o)
           \/ Write("consumer", e) /\ Passes(o)
    BY <1>0, <1>1, <1>19, NotionVerifyEffect DEF Doing
  <2>2. IsDoc(m)
    BY <1>13
  <2> HIDE DEF m
  <2>3. IsDoc(e)
    BY <2>2 DEF IsDoc, DocFields
  <2> HIDE DEF e
  <2>4. CASE Write("consumer", Document(FALSE)) /\ Fails(o)
    BY <1>6, <1>8, <1>13, <1>15, <2>4
  <2>5. CASE Write("consumer", e) /\ Passes(o)
    BY <1>7, <1>8, <1>15, <2>1, <2>3, <2>5
  <2> QED  BY <2>1, <2>4, <2>5
<1>20. CASE Looks(o)
  <2>1. /\ UNCHANGED ev /\ todo[o][1] \in {"search", "crud", "compare", "postgrest_check"}
        /\ Fails(o) \/ Passes(o)
    BY <1>0, <1>1, <1>20, LooksEffect
  <2> QED  BY <1>6, <1>7, <1>8, <1>14, <2>1
<1>21. CASE Pin(o)
  <2>1. /\ UNCHANGED ev /\ Passes(o)
        /\ \/ todo[o][1] = "projection_pin"
           \/ /\ todo[o][1] = "postgrest_pin"
              /\ mem'[o].pins = Over(Hash({"postgrest"}), mem[o].pins)
    BY <1>0, <1>1, <1>21, PinEffect DEF Doing
  <2>2. Hash({"postgrest"}) = Only("postgrest", n)
    BY DEF Hash, Only
  <2> QED  BY <1>7, <1>8, <1>14, <2>1, <2>2
<1>22. CASE Row(o)
  <2> DEFINE c == Head(todo[o])
             row == [ok   |-> mem[o].good, pins |-> IF mem[o].good THEN mem[o].pins ELSE None,
                     saw  |-> IF mem[o].good THEN mem[o].own ELSE None]
             all == Over(Only(c, row), mem[o].rows)
  <2>1. /\ UNCHANGED ev /\ Continues(o) /\ mem[o].canaries = TRUE /\ c \in Canaries
        /\ mem'[o].rows = all
    BY <1>0, <1>22, RowEffect
  <2>2. TableRun(todo[o], mem[o], n)
    BY <1>5, <2>1
  <2>3. /\ row.ok = mem[o].good /\ (mem[o].good => row.pins = mem[o].pins)
    OBVIOUS
  <2> HIDE DEF row
  <2>4. 1 \in 1 .. Len(todo[o]) /\ todo[o][1] = c
    BY <1>0, <1>1
  <2>5. TableRows(mem[o].rows) /\ RowsBelow(mem[o].rows, n + 1)
    BY <2>2 DEF TableRun
  <2>6. c \in Tables /\ row.ok =>
              /\ "postgrest" \in DOMAIN row.pins /\ row.pins["postgrest"] \in Nat
              /\ row.pins["postgrest"] <= n /\ RowsBelow(mem[o].rows, row.pins["postgrest"])
    BY <2>2, <2>3, <2>4 DEF TableRun
  <2> HIDE DEF c, n
  <2>7. TableRows(all) /\ RowsBelow(all, n + 1)
    BY <1>3, <2>1, <2>5, <2>6, RowJoinsTables
  <2> HIDE DEF all
  <2>8. l = n
    BY <2>1 DEF n
  <2>9. TableRun(todo'[o], mem'[o], l)
    BY <2>1, <2>7, <2>8 DEF Continues, TableRun
  <2> QED  BY <1>8, <1>14, <2>1, <2>9
<1>23. CASE Aggregate(o)
  <2>1. /\ Write("integration", Payload(o)) /\ mem[o].canaries = TRUE
        /\ mem'[o].canaries = FALSE
    BY <1>0, <1>23, AggregateEffect
  <2>2. IsDoc(Payload(o)) /\ Payload(o).rows = mem[o].rows
    BY PayloadIs
  <2>3. ev'["integration"].rows = mem[o].rows
    BY <1>11, <1>12, <2>1, <2>2
  <2> QED  BY <1>5, <1>8, <2>1, <2>3 DEF TableRun
<1>24. CASE Split(o)
  <2> DEFINE m == mem[o].payload
             e == [m EXCEPT !.rows = Only("C029", m.rows["C029"])]
  <2>1. Outside(o) /\ Doing(o, "split")
    BY <1>0, <1>24, SplitEffect
  <2>2. UNCHANGED ev \/ Write("integration_C029", e)
    BY <1>24 DEF Split
  <2>3. IsDoc(m)
    BY <2>1 DEF Typed, SplitTyped
  <2> HIDE DEF m
  <2>4. IsDoc(e)
    BY <2>3 DEF IsDoc, DocFields
  <2> HIDE DEF e
  <2>5. TableRows(ev'["integration"].rows)
    BY <1>14, <1>15, <2>2, <2>4
  <2> QED  BY <1>8, <2>1, <2>5 DEF Outside
<1> QED
  BY <1>10, <1>16, <1>17, <1>18, <1>19, <1>20, <1>21, <1>22, <1>23, <1>24
     DEF IntegrationRun, Looks

\* Every step keeps the tables apart.
LEMMA TableStep ==
    ASSUME Typed, TableInv, [Next]_vars
    PROVE  TableInv'
<1>1. CASE UNCHANGED vars
  BY <1>1 DEF vars, TableInv
<1>2. CASE Configure
  BY <1>2, ConfigureEffect DEF Typed, TableInv
<1>3. ASSUME NEW o \in Operators, Start(o) PROVE TableInv'
  BY <1>3, StartEffect DEF Typed, TableInv, Others
<1>4. ASSUME NEW o \in Operators, Kill(o) PROVE TableInv'
  BY <1>4, KillEffect DEF Typed, TableInv, Others
<1>5. ASSUME NEW o \in Operators, Works(o) PROVE TableInv'
  BY <1>5, TableWorks
<1> QED  BY <1>1, <1>2, <1>3, <1>4, <1>5 DEF Next, Works

\* Then never both rows name the evidence of now.
LEMMA TablesExclude == TableInv => NeverBothTables
<1> SUFFICES ASSUME TableInv, ProvesC027, ProvesC029 PROVE FALSE
  BY DEF NeverBothTables
<1> DEFINE rows == ev["integration"].rows
           n == ev["postgrest"].n
<1>1. /\ TableRows(rows) /\ Proved(rows, "C027") /\ Proved(rows, "C029")
      /\ Holds(rows["C027"].pins) /\ Holds(rows["C029"].pins)
  BY DEF TableInv, ProvesC027, ProvesC029, IntegrationRow, C029Integration, Proved
<1>2. "postgrest" \in DOMAIN rows["C027"].pins /\ "postgrest" \in DOMAIN rows["C029"].pins
  BY <1>1 DEF TableRows, Tables
<1>3. TablePin(rows, "C027") = n /\ TablePin(rows, "C029") = n
  BY <1>1, <1>2 DEF Holds, Hash, TablePin
<1> QED  BY <1>1, <1>3 DEF TableRows

-----------------------------------------------------------------------------
(* The projection: what a row of C029 names was observed once.             *)

\* What is named of the canary and its verification, if both are still those of
\* now, was verified after the canary.
Projected(pins, own) ==
    /\ \A f \in {"canary", "consumer"} :
          f \in DOMAIN pins /\ pins[f] \in Nat /\ pins[f] <= ev[f].n
    /\ pins["canary"] = ev["canary"].n /\ pins["consumer"] = ev["consumer"].n =>
          /\ ev["consumer"].saw = Hash({"canary"})
          /\ own = Hash({"canary", "consumer"})

\* So was what a row of C029 names.
GoodRows(rows) == Proved(rows, "C029") => Projected(rows["C029"].pins, rows["C029"].saw)

\* As the row comes nearer: the canary, its verification, the comparison and the
\* hashes of both.
ProjectionRun(s, m) ==
    /\ GoodRows(m.rows)
    /\ m.good => \A i \in 1 .. Len(s) : s[i] = "C029" =>
         /\ i = 8 => m.own = None
         /\ i = 7 => m.own = Hash({"canary"})
         /\ i = 5 \/ i = 6 => /\ m.own = Hash({"canary", "consumer"})
                              /\ ev["consumer"].saw = Hash({"canary"})
         /\ i <= 4 => Projected(m.pins, m.own)

\* So do the rows that are written, or are going to be.
ProjectionInv ==
    /\ ev["integration_C029"].n # 0 => "C029" \in DOMAIN ev["integration_C029"].rows
    /\ calm =>
         /\ GoodRows(ev["integration_C029"].rows)
         /\ \A o \in Operators :
              /\ mem[o].canaries => ProjectionRun(todo[o], mem[o])
              /\ Doing(o, "split") => GoodRows(mem[o].payload.rows)

\* A file that is written again is no longer the one that was named.
Ages ==
    \A f \in {"canary", "consumer"} : ev'[f] = ev[f] \/ ev'[f].n = ev[f].n + 1

\* It stays true when either file is written again,
LEMMA ProjectedStays ==
    ASSUME EvidenceTyped, Ages, NEW q, NEW w, Projected(q, w)
    PROVE  /\ \A f \in {"canary", "consumer"} :
                 f \in DOMAIN q /\ q[f] \in Nat /\ q[f] <= ev'[f].n
           /\ q["canary"] = ev'["canary"].n /\ q["consumer"] = ev'["consumer"].n =>
                 /\ ev'["consumer"].saw = Hash({"canary"})'
                 /\ w = Hash({"canary", "consumer"})'
<1>1. \A f \in {"canary", "consumer"} : ev[f].n \in Nat
  BY DEF EvidenceTyped, Files
<1>2. \A f \in {"canary", "consumer"} : f \in DOMAIN q /\ q[f] \in Nat /\ q[f] <= ev[f].n
  BY DEF Projected
<1>3. ASSUME NEW f \in {"canary", "consumer"}
      PROVE  q[f] <= ev'[f].n /\ (q[f] = ev'[f].n => ev'[f] = ev[f])
  BY <1>1, <1>2, <1>3 DEF Ages
<1>4. ASSUME q["canary"] = ev'["canary"].n, q["consumer"] = ev'["consumer"].n
      PROVE  /\ ev'["consumer"].saw = Hash({"canary"})'
             /\ w = Hash({"canary", "consumer"})'
  <2>1. ev'["canary"] = ev["canary"] /\ ev'["consumer"] = ev["consumer"]
    BY <1>3, <1>4
  <2>2. Hash({"canary"})' = Hash({"canary"})
        /\ Hash({"canary", "consumer"})' = Hash({"canary", "consumer"})
    BY <2>1 DEF Hash
  <2> QED  BY <1>4, <2>1, <2>2 DEF Projected
<1> QED  BY <1>2, <1>3, <1>4

\* and so it does of the rows.
LEMMA GoodRowsStay ==
    ASSUME EvidenceTyped, Ages, NEW rows, GoodRows(rows)
    PROVE  Proved(rows, "C029") =>
             /\ \A f \in {"canary", "consumer"} :
                   /\ f \in DOMAIN rows["C029"].pins /\ rows["C029"].pins[f] \in Nat
                   /\ rows["C029"].pins[f] <= ev'[f].n
             /\ rows["C029"].pins["canary"] = ev'["canary"].n
                /\ rows["C029"].pins["consumer"] = ev'["consumer"].n =>
                  /\ ev'["consumer"].saw = Hash({"canary"})'
                  /\ rows["C029"].saw = Hash({"canary", "consumer"})'
BY ProjectedStays DEF GoodRows

\* A step of a run that is no row.
LEMMA ProjectionPasses ==
    ASSUME Typed, NEW o \in Operators, Passes(o), Ages, todo[o] # <<>>, mem[o].canaries,
           ProjectionRun(todo[o], mem[o]),
           \/ /\ Doing(o, "canary")
              /\ mem'[o].own = Over(Only("canary", ev'["canary"].n), mem[o].own)
           \/ /\ Doing(o, "consumer")
              /\ ev'["canary"] = ev["canary"] /\ ev'["consumer"].saw = Hash({"canary"})
              /\ mem'[o].own = Over(Only("consumer", ev'["consumer"].n), mem[o].own)
           \/ /\ UNCHANGED ev /\ mem'[o].own = mem[o].own
              /\ Doing(o, "projection_pin")
              /\ mem'[o].pins = Over(Hash({"canary", "consumer"}), mem[o].pins)
           \/ /\ UNCHANGED ev /\ mem'[o].own = mem[o].own
              /\ Doing(o, "postgrest_pin")
              /\ mem'[o].pins = Over(Hash({"postgrest"}), mem[o].pins)
           \/ /\ ~Doing(o, "canary") /\ ~Doing(o, "consumer") /\ ~Doing(o, "projection_pin")
              /\ ev'["canary"] = ev["canary"] /\ ev'["consumer"] = ev["consumer"]
              /\ mem'[o] = mem[o]
    PROVE  ProjectionRun(todo[o], mem[o])'
<1> DEFINE s == todo[o]
           t == todo'[o]
<1>0. EvidenceTyped /\ Shape
  BY DEF Typed
<1>1. /\ s \in Seq(Steps) /\ Chained(s) /\ Head(s) = s[1] /\ Len(s) \in Nat
      /\ t = Tail(s) /\ Len(t) = Len(s) - 1
      /\ \A i \in 1 .. Len(t) : t[i] = s[i + 1]
  <2>1. s \in Seq(Steps) /\ WellFormed(s, mem[o].canaries) /\ t = Tail(s)
    BY <1>0, MemTyped DEF Passes
  <2> QED  BY <2>1 DEF WellFormed
<1>2. mem'[o].rows = mem[o].rows /\ mem'[o].good = mem[o].good
  BY DEF Passes, SameRun
<1>3. GoodRows(mem[o].rows)'
  <2>1. GoodRows(mem[o].rows)
    BY DEF ProjectionRun
  <2> QED  BY <1>0, <1>2, <2>1, GoodRowsStay DEF GoodRows, Projected, Proved
<1>4. ASSUME mem'[o].good, NEW i \in 1 .. Len(t), t[i] = "C029"
      PROVE  /\ i = 8 => mem'[o].own = None
             /\ i = 7 => mem'[o].own = Hash({"canary"})'
             /\ i = 5 \/ i = 6 => /\ mem'[o].own = Hash({"canary", "consumer"})'
                                  /\ ev'["consumer"].saw = Hash({"canary"})'
             /\ i <= 4 => Projected(mem[o].pins, mem[o].own)'
  <2>1. i \in Nat /\ i >= 1 /\ i + 1 \in 1 .. Len(s) /\ s[i + 1] = "C029" /\ Len(s) >= i + 1
    BY <1>1, <1>4
  <2>2. i + 1 <= 8
    BY <1>1, <2>1, ChainHeads
  <2>3. /\ i + 1 = 8 => mem[o].own = None
        /\ i + 1 = 7 => mem[o].own = Hash({"canary"})
        /\ i + 1 = 5 \/ i + 1 = 6 => /\ mem[o].own = Hash({"canary", "consumer"})
                                     /\ ev["consumer"].saw = Hash({"canary"})
        /\ i + 1 <= 4 => Projected(mem[o].pins, mem[o].own)
    BY <1>2, <1>4, <2>1 DEF ProjectionRun
  <2> HIDE DEF s, t
  <2>4. CASE i = 7
    <3>1. s[1] = "canary"
      BY <1>1, <2>1, <2>4, ChainHeads
    <3>2. mem'[o].own = Over(Only("canary", ev'["canary"].n), None)
      BY <1>1, <2>3, <2>4, <3>1 DEF s, Doing
    <3>3. Over(Only("canary", ev'["canary"].n), None) = Hash({"canary"})'
      BY DEF Over, Only, None, Hash
    <3> QED  BY <2>4, <3>2, <3>3
  <2>5. CASE i = 6
    <3>1. s[1] = "consumer"
      BY <1>1, <2>1, <2>5, ChainHeads
    <3>2. /\ mem'[o].own = Over(Only("consumer", ev'["consumer"].n), Hash({"canary"}))
          /\ ev'["canary"] = ev["canary"] /\ ev'["consumer"].saw = Hash({"canary"})
      BY <1>1, <2>3, <2>5, <3>1 DEF s, Doing
    <3>3. /\ Hash({"canary"})' = Hash({"canary"})
          /\ Over(Only("consumer", ev'["consumer"].n), Hash({"canary"}))
             = Hash({"canary", "consumer"})'
      BY <3>2 DEF Over, Only, Hash
    <3> QED  BY <2>5, <3>2, <3>3
  <2>6. CASE i = 5
    <3>1. s[1] = "compare"
      BY <1>1, <2>1, <2>6, ChainHeads
    <3>2. mem'[o] = mem[o] /\ ev'["canary"] = ev["canary"] /\ ev'["consumer"] = ev["consumer"]
      BY <1>1, <3>1 DEF s, Doing
    <3>3. Hash({"canary"})' = Hash({"canary"})
          /\ Hash({"canary", "consumer"})' = Hash({"canary", "consumer"})
      BY <3>2 DEF Hash
    <3> QED  BY <2>3, <2>6, <3>2, <3>3
  <2>7. CASE i = 4
    <3>1. s[1] = "projection_pin"
      BY <1>1, <2>1, <2>7, ChainHeads
    <3>2. /\ UNCHANGED ev /\ mem'[o].own = mem[o].own
          /\ mem'[o].pins = Over(Hash({"canary", "consumer"}), mem[o].pins)
      BY <1>1, <3>1 DEF s, Doing
    <3>3. \A f \in {"canary", "consumer"} : f \in DOMAIN mem'[o].pins /\ mem'[o].pins[f] = ev[f].n
      BY <3>2 DEF Over, Hash
    <3>4. \A f \in {"canary", "consumer"} : ev[f].n \in Nat
      BY <1>0 DEF EvidenceTyped, Files
    <3>5. Projected(mem[o].pins, mem[o].own)'
      BY <2>3, <2>7, <3>2, <3>3, <3>4 DEF Projected, Hash
    <3> QED  BY <2>7, <3>5
  <2>8. CASE i <= 3
    <3>1. Projected(mem[o].pins, mem[o].own)
      BY <2>1, <2>3, <2>8
    <3>2. s[1] \in {"postgrest", "postgrest_check", "postgrest_pin"}
      <4>1. i = 1 \/ i = 2 \/ i = 3
        BY <2>1, <2>8
      <4> QED  BY <1>1, <2>1, <4>1, ChainHeads DEF Tables
    <3>3. /\ ev'["canary"] = ev["canary"] /\ ev'["consumer"] = ev["consumer"]
          /\ mem'[o].own = mem[o].own
          /\ \/ mem'[o].pins = mem[o].pins
             \/ mem'[o].pins = Over(Hash({"postgrest"}), mem[o].pins)
      BY <1>1, <3>2 DEF s, Doing
    <3>4. \A f \in {"canary", "consumer"} : f \in DOMAIN mem[o].pins
      BY <3>1 DEF Projected
    <3>5. \A f \in {"canary", "consumer"} :
             f \in DOMAIN mem'[o].pins /\ mem'[o].pins[f] = mem[o].pins[f]
      BY <3>3, <3>4 DEF Over, Hash
    <3>6. Hash({"canary"})' = Hash({"canary"})
          /\ Hash({"canary", "consumer"})' = Hash({"canary", "consumer"})
      BY <3>3 DEF Hash
    <3>7. Projected(mem[o].pins, mem[o].own)'
      BY <3>1, <3>3, <3>5, <3>6 DEF Projected
    <3> QED  BY <2>8, <3>7
  <2> QED  BY <2>1, <2>2, <2>4, <2>5, <2>6, <2>7, <2>8
<1> QED  BY <1>3, <1>4 DEF ProjectionRun

\* Nobody else has a run; the operator's own is what has to be looked at.
LEMMA ProjectionMoves ==
    ASSUME Typed, OneAtATime, ProjectionInv, NEW o \in Operators, todo[o] # <<>>, Others(o),
           calm' = calm, Ages,
           \/ ev'["integration_C029"] = ev["integration_C029"]
           \/ /\ "C029" \in DOMAIN ev'["integration_C029"].rows
              /\ calm => GoodRows(ev["integration_C029"].rows)',
           calm /\ mem'[o].canaries => ProjectionRun(todo[o], mem[o])',
           calm /\ Doing(o, "split")' => GoodRows(mem[o].payload.rows)'
    PROVE  ProjectionInv'
<1>0. EvidenceTyped /\ Shape
  BY DEF Typed
<1>1. calm => GoodRows(ev["integration_C029"].rows)'
  <2>1. ASSUME calm, ev'["integration_C029"] = ev["integration_C029"]
        PROVE  GoodRows(ev["integration_C029"].rows)'
    <3>1. GoodRows(ev["integration_C029"].rows)
      BY <2>1 DEF ProjectionInv
    <3> QED  BY <1>0, <2>1, <3>1, GoodRowsStay DEF GoodRows, Projected, Proved
  <2> QED  BY <2>1
<1>2. ASSUME calm, NEW p \in Operators \ {o}
      PROVE  ~mem'[p].canaries /\ ~Doing(p, "split")'
  <2>1. Idle(p)
    BY <1>2 DEF OneAtATime, Idle
  <2> QED  BY <1>0, <1>2, <2>1, IdleHasNoRun DEF Others, Doing
<1>3. ev'["integration_C029"].n # 0 => "C029" \in DOMAIN ev'["integration_C029"].rows
  BY DEF ProjectionInv
<1> QED  BY <1>1, <1>2, <1>3 DEF ProjectionInv

\* A step of a command keeps it.
LEMMA ProjectionWorks ==
    ASSUME Typed, OneAtATime, ProjectionInv, NEW o \in Operators, Works(o)
    PROVE  ProjectionInv'
<1>0. EvidenceTyped /\ Others(o) /\ Shape /\ todo[o] # <<>> /\ calm' = calm
  BY WorkMoves DEF Typed
<1>1. CASE ~IntegrationRun(o)
  <2>1. /\ DaytonaFiles \subseteq Files \ RunFiles /\ ProfileFiles \subseteq Files \ RunFiles
        /\ EndToEndFiles \subseteq Files \ RunFiles /\ AcceptanceFiles \subseteq Files \ RunFiles
        /\ RunFiles \subseteq Files /\ "images" \in Files \ RunFiles
    BY DEF DaytonaFiles, Runtime, ProfileFiles, EndToEndFiles, AcceptanceFiles, RunFiles, Files
  <2>2. ASSUME NEW fs \in SUBSET (Files \ RunFiles), Wrote(o, fs)
        PROVE  \A g \in RunFiles : ev'[g] = ev[g]
    <3>1. fs \in SUBSET Files /\ RunFiles \subseteq Files \ fs
      BY <2>1
    <3> QED  BY <1>0, <2>2, <3>1, WroteTyped
  <2>3. ASSUME NEW e, IsDoc(e), Write("images", e)
        PROVE  \A g \in RunFiles : ev'[g] = ev[g]
    BY <1>0, <2>1, <2>3, Written
  <2>4. /\ Outside(o)
        /\ \/ Wrote(o, DaytonaFiles) \/ Wrote(o, ProfileFiles) \/ Wrote(o, EndToEndFiles)
           \/ Wrote(o, AcceptanceFiles) \/ \E e : IsDoc(e) /\ Write("images", e)
    BY <1>1, GroupsMove DEF Works
  <2>5. \A g \in RunFiles : ev'[g] = ev[g]
    BY <2>1, <2>2, <2>3, <2>4
  <2>6. Ages /\ ev'["integration_C029"] = ev["integration_C029"]
    BY <2>5 DEF Ages, RunFiles
  <2>7. ~mem'[o].canaries /\ ~Doing(o, "split")'
    BY <1>0, <2>4, FollowedBy DEF Outside
  <2> QED  BY <1>0, <2>6, <2>7, ProjectionMoves
<1>2. CASE IntegrationRun(o)
  <2>0. /\ Doing(o, "split")' => Aggregate(o)
        /\ \A f \in {"postgrest", "canary", "consumer", "integration", "integration_C029"} : f \in Files
    BY <1>2, RunMoves DEF Files
  <2>1. \A f \in Files : \A e : IsDoc(e) /\ Write(f, e) =>
           /\ \A g \in Files \ {f} : ev'[g] = ev[g]
           /\ ev'[f].n = ev[f].n + 1 /\ ev'[f].rows = e.rows /\ ev'[f].saw = e.saw
    BY <1>0, Written
  <2>2. \A b : IsDoc(Document(b))
    BY DocumentIs
  <2>3. ASSUME NEW f \in {"postgrest", "canary", "consumer", "integration"}, NEW e,
               IsDoc(e), Write(f, e)
        PROVE  Ages /\ ev'["integration_C029"] = ev["integration_C029"]
    BY <2>0, <2>1, <2>3 DEF Ages
  <2>4. ASSUME UNCHANGED ev
        PROVE  Ages /\ ev'["integration_C029"] = ev["integration_C029"]
    BY <2>4 DEF Ages
  <2>5. calm => /\ mem[o].canaries => ProjectionRun(todo[o], mem[o])
                /\ Doing(o, "split") => GoodRows(mem[o].payload.rows)
    BY DEF ProjectionInv
  <2>6. ASSUME Fails(o), Ages PROVE calm /\ mem'[o].canaries => ProjectionRun(todo[o], mem[o])'
    <3>1. SUFFICES ASSUME calm, mem'[o].canaries PROVE ProjectionRun(todo[o], mem[o])'
      OBVIOUS
    <3>2. mem[o].canaries = TRUE
      BY <1>0, <2>6, <3>1, MemTyped DEF Fails
    <3>3. mem'[o].rows = mem[o].rows /\ mem'[o].good = FALSE
      BY <2>6, <3>2 DEF Fails, SameRun
    <3>4. GoodRows(mem[o].rows)
      BY <2>5, <3>1, <3>2 DEF ProjectionRun
    <3>5. GoodRows(mem[o].rows)'
      BY <1>0, <2>6, <3>3, <3>4, GoodRowsStay DEF GoodRows, Projected, Proved
    <3> QED  BY <3>3, <3>5 DEF ProjectionRun
  <2>7. ASSUME Passes(o), Ages,
           \/ /\ Doing(o, "canary")
              /\ mem[o].canaries =>
                   mem'[o].own = Over(Only("canary", ev'["canary"].n), mem[o].own)
           \/ /\ Doing(o, "consumer")
              /\ ev'["canary"] = ev["canary"] /\ ev'["consumer"].saw = Hash({"canary"})
              /\ mem[o].canaries =>
                   mem'[o].own = Over(Only("consumer", ev'["consumer"].n), mem[o].own)
           \/ /\ UNCHANGED ev /\ mem'[o].own = mem[o].own
              /\ Doing(o, "projection_pin")
              /\ mem'[o].pins = Over(Hash({"canary", "consumer"}), mem[o].pins)
           \/ /\ UNCHANGED ev /\ mem'[o].own = mem[o].own
              /\ Doing(o, "postgrest_pin")
              /\ mem'[o].pins = Over(Hash({"postgrest"}), mem[o].pins)
           \/ /\ ~Doing(o, "canary") /\ ~Doing(o, "consumer") /\ ~Doing(o, "projection_pin")
              /\ ev'["canary"] = ev["canary"] /\ ev'["consumer"] = ev["consumer"]
              /\ mem'[o] = mem[o]
        PROVE  calm /\ mem'[o].canaries => ProjectionRun(todo[o], mem[o])'
    <3>1. SUFFICES ASSUME calm, mem'[o].canaries PROVE ProjectionRun(todo[o], mem[o])'
      OBVIOUS
    <3>2. mem[o].canaries
      BY <2>7, <3>1 DEF Passes, SameRun
    <3>3. ProjectionRun(todo[o], mem[o])
      BY <2>5, <3>1, <3>2
    <3> QED  BY <1>0, <2>7, <3>2, <3>3, ProjectionPasses
  <2>8. ASSUME Ages, ev'["integration_C029"] = ev["integration_C029"], ~Aggregate(o),
               calm /\ mem'[o].canaries => ProjectionRun(todo[o], mem[o])'
        PROVE  ProjectionInv'
    BY <1>0, <2>0, <2>8, ProjectionMoves
  <2>9. ASSUME NEW x, Doing(o, x), x # "aggregate" PROVE ~Aggregate(o)
    BY <2>9 DEF Doing, Aggregate, At
  <2>10. CASE Begin(o)
    <3>1. /\ UNCHANGED ev /\ Continues(o) /\ mem'[o].rows = None /\ mem'[o].own = None
          /\ Head(todo[o]) \in Begins
      BY <1>0, <2>10, BeginEffect
    <3>2. \A i \in 1 .. Len(todo'[o]) : todo'[o][i] = "C029" => i >= 8 /\ i \in Nat
      BY <3>1 DEF Continues
    <3>3. ProjectionRun(todo[o], mem[o])'
      BY <3>1, <3>2 DEF ProjectionRun, GoodRows, Proved, None
    <3>4. ~Aggregate(o)
      BY <3>1 DEF Aggregate, At, Begins
    <3> QED  BY <2>4, <2>8, <3>1, <3>3, <3>4
  <2>11. CASE Postgrest(o)
    <3>1. /\ Doing(o, "postgrest")
          /\ \/ UNCHANGED ev /\ Fails(o)
             \/ Write("postgrest", Document(TRUE)) /\ Passes(o) /\ mem'[o] = mem[o]
      BY <1>0, <2>11, PostgrestEffect
    <3>2. CASE UNCHANGED ev /\ Fails(o)
      BY <2>4, <2>6, <2>8, <2>9, <3>1, <3>2
    <3>3. CASE Write("postgrest", Document(TRUE)) /\ Passes(o) /\ mem'[o] = mem[o]
      <4>1. /\ Ages /\ ev'["integration_C029"] = ev["integration_C029"]
            /\ ev'["canary"] = ev["canary"] /\ ev'["consumer"] = ev["consumer"]
        BY <2>0, <2>1, <2>2, <2>3, <3>3
      <4> QED  BY <2>7, <2>8, <2>9, <3>1, <3>3, <4>1 DEF Doing
    <3> QED  BY <3>1, <3>2, <3>3
  <2>12. CASE NotionCanary(o)
    <3>1. /\ Doing(o, "canary")
          /\ \/ UNCHANGED ev /\ Fails(o)
             \/ /\ Write("canary", Document(TRUE)) /\ Passes(o)
                /\ mem[o].canaries =>
                     mem'[o].own = Over(Only("canary", ev'["canary"].n), mem[o].own)
      BY <1>0, <2>12, NotionCanaryEffect
    <3>2. CASE UNCHANGED ev /\ Fails(o)
      BY <2>4, <2>6, <2>8, <2>9, <3>1, <3>2
    <3>3. CASE Write("canary", Document(TRUE)) /\ Passes(o)
      <4>1. Ages /\ ev'["integration_C029"] = ev["integration_C029"]
        BY <2>2, <2>3, <3>3
      <4> QED  BY <2>7, <2>8, <2>9, <2>6, <2>4, <3>1, <3>3, <4>1
    <3> QED  BY <3>1, <3>2, <3>3
  <2>13. CASE NotionVerify(o)
    <3> DEFINE m == Document(TRUE)
               e == [m EXCEPT !.saw = Hash({"canary"})]
    <3>1. /\ Doing(o, "consumer")
          /\ \/ Write("consumer", Document(FALSE)) /\ Fails(o)
             \/ /\ Write("consumer", e) /\ Passes(o)
                /\ mem[o].canaries =>
                     mem'[o].own = Over(Only("consumer", ev'["consumer"].n), mem[o].own)
      BY <1>0, <2>13, NotionVerifyEffect
    <3>2. IsDoc(m)
      BY <2>2
    <3> HIDE DEF m
    <3>3. IsDoc(e) /\ e.saw = Hash({"canary"})
      BY <3>2 DEF IsDoc, DocFields
    <3> HIDE DEF e
    <3>4. CASE Write("consumer", Document(FALSE)) /\ Fails(o)
      <4>1. Ages /\ ev'["integration_C029"] = ev["integration_C029"]
        BY <2>2, <2>3, <3>4
      <4> QED  BY <2>6, <2>8, <2>9, <3>1, <3>4, <4>1
    <3>5. CASE /\ Write("consumer", e) /\ Passes(o)
               /\ mem[o].canaries =>
                    mem'[o].own = Over(Only("consumer", ev'["consumer"].n), mem[o].own)
      <4>1. /\ Ages /\ ev'["integration_C029"] = ev["integration_C029"]
            /\ ev'["canary"] = ev["canary"] /\ ev'["consumer"].saw = Hash({"canary"})
        BY <2>0, <2>1, <2>3, <3>3, <3>5
      <4> QED  BY <2>7, <2>8, <2>9, <3>1, <3>5, <4>1
    <3> QED  BY <3>1, <3>4, <3>5
  <2>14. CASE Looks(o)
    <3>1. /\ UNCHANGED ev
          /\ Head(todo[o]) \in {"search", "crud", "compare", "postgrest_check"}
          /\ Fails(o) \/ (Passes(o) /\ mem'[o] = mem[o])
      BY <1>0, <2>14, LooksEffect
    <3>2. ~Aggregate(o) /\ ~Doing(o, "canary") /\ ~Doing(o, "consumer") /\ ~Doing(o, "projection_pin")
      BY <3>1 DEF Doing, Aggregate, At
    <3> QED  BY <2>4, <2>6, <2>7, <2>8, <3>1, <3>2
  <2>15. CASE Pin(o)
    <3>1. /\ UNCHANGED ev /\ Passes(o) /\ mem'[o].own = mem[o].own
          /\ \/ /\ Doing(o, "projection_pin")
                /\ mem'[o].pins = Over(Hash({"canary", "consumer"}), mem[o].pins)
             \/ /\ Doing(o, "postgrest_pin")
                /\ mem'[o].pins = Over(Hash({"postgrest"}), mem[o].pins)
      BY <1>0, <2>15, PinEffect
    <3> QED  BY <2>4, <2>7, <2>8, <2>9, <3>1
  <2>16. CASE Row(o)
    <3> DEFINE c == Head(todo[o])
               row == [ok   |-> mem[o].good, pins |-> IF mem[o].good THEN mem[o].pins ELSE None,
                       saw  |-> IF mem[o].good THEN mem[o].own ELSE None]
               all == Over(Only(c, row), mem[o].rows)
    <3>1. /\ UNCHANGED ev /\ Continues(o) /\ mem[o].canaries = TRUE /\ c \in Canaries
          /\ mem'[o].rows = all /\ mem'[o].own = None
      BY <1>0, <2>16, RowEffect
    <3>2. ~Aggregate(o)
      BY <3>1 DEF Aggregate, At, Canaries
    <3>3. \A i \in 1 .. Len(todo'[o]) : todo'[o][i] = "C029" => i >= 8 /\ i \in Nat
      BY <3>1 DEF Continues
    <3>4. ASSUME calm PROVE GoodRows(all)
      <4>1. ProjectionRun(todo[o], mem[o])
        BY <2>5, <3>1, <3>4
      <4>2. 1 \in 1 .. Len(todo[o]) /\ todo[o][1] = c
        BY <1>0, MemTyped
      <4>3. /\ row.ok = mem[o].good
            /\ mem[o].good => row.pins = mem[o].pins /\ row.saw = mem[o].own
        OBVIOUS
      <4>4. c = "C029" /\ row.ok => Projected(row.pins, row.saw)
        BY <4>1, <4>2, <4>3 DEF ProjectionRun
      <4>5. GoodRows(mem[o].rows)
        BY <4>1 DEF ProjectionRun
      <4> HIDE DEF row, c
      <4>6. /\ c = "C029" => all["C029"] = row
            /\ c # "C029" /\ "C029" \in DOMAIN all =>
                 "C029" \in DOMAIN mem[o].rows /\ all["C029"] = mem[o].rows["C029"]
        BY DEF Over, Only
      <4> QED  BY <4>4, <4>5, <4>6 DEF GoodRows, Proved
    <3> HIDE DEF all
    <3>5. calm => GoodRows(mem[o].rows)'
      BY <3>1, <3>4 DEF GoodRows, Proved, Projected, Hash
    <3>6. calm => ProjectionRun(todo[o], mem[o])'
      BY <3>1, <3>3, <3>5 DEF ProjectionRun
    <3> QED  BY <2>4, <2>8, <3>1, <3>2, <3>6
  <2>17. CASE Aggregate(o)
    <3>1. /\ Write("integration", Payload(o)) /\ mem[o].canaries = TRUE
          /\ mem'[o].canaries = FALSE /\ mem'[o].payload = Payload(o)
      BY <1>0, <2>17, AggregateEffect
    <3>2. IsDoc(Payload(o)) /\ Payload(o).rows = mem[o].rows
      BY PayloadIs
    <3>3. Ages /\ ev'["integration_C029"] = ev["integration_C029"]
      BY <2>3, <3>1, <3>2
    <3>4. calm => GoodRows(mem[o].rows)
      BY <2>5, <3>1 DEF ProjectionRun
    <3>5. mem'[o].payload.rows = mem[o].rows
      BY <3>1, <3>2
    <3>6. calm => GoodRows(mem[o].payload.rows)'
      BY <1>0, <3>3, <3>4, <3>5, GoodRowsStay DEF GoodRows, Projected, Proved
    <3> QED  BY <1>0, <3>1, <3>3, <3>6, ProjectionMoves
  <2>18. CASE Split(o)
    <3> DEFINE m == mem[o].payload
               e == [m EXCEPT !.rows = Only("C029", m.rows["C029"])]
    <3>1. /\ Outside(o) /\ Doing(o, "split")
          /\ \/ UNCHANGED ev
             \/ "C029" \in DOMAIN m.rows /\ Write("integration_C029", e)
      BY <1>0, <2>18, SplitEffect
    <3>2. ~Aggregate(o) /\ ~mem'[o].canaries
      BY <2>9, <3>1 DEF Outside
    <3>3. IsDoc(m) /\ (calm => GoodRows(m.rows))
      BY <2>5, <3>1 DEF Typed, SplitTyped
    <3> HIDE DEF m
    <3>4. IsDoc(e) /\ e.rows = Only("C029", m.rows["C029"])
      BY <3>3 DEF IsDoc, DocFields
    <3> HIDE DEF e
    <3>5. CASE UNCHANGED ev
      BY <2>4, <2>8, <3>2, <3>5
    <3>6. CASE "C029" \in DOMAIN m.rows /\ Write("integration_C029", e)
      <4>1. /\ ev'["canary"] = ev["canary"] /\ ev'["consumer"] = ev["consumer"]
            /\ ev'["integration_C029"].rows = Only("C029", m.rows["C029"])
        BY <2>0, <2>1, <3>4, <3>6
      <4>2. Ages
        BY <4>1 DEF Ages
      <4>3. /\ "C029" \in DOMAIN ev'["integration_C029"].rows
            /\ ev'["integration_C029"].rows["C029"] = m.rows["C029"]
        BY <4>1 DEF Only
      <4>4. Hash({"canary"})' = Hash({"canary"})
            /\ Hash({"canary", "consumer"})' = Hash({"canary", "consumer"})
        BY <4>1 DEF Hash
      <4>5. calm => GoodRows(ev["integration_C029"].rows)'
        BY <3>3, <3>6, <4>1, <4>3, <4>4 DEF GoodRows, Projected, Proved
      <4> QED  BY <1>0, <2>0, <3>2, <4>2, <4>3, <4>5, ProjectionMoves
    <3> QED  BY <3>1, <3>5, <3>6
  <2> QED
    BY <1>2, <2>10, <2>11, <2>12, <2>13, <2>14, <2>15, <2>16, <2>17, <2>18
       DEF IntegrationRun, Looks
<1> QED  BY <1>1, <1>2

\* No evidence is made, and nobody's run goes on.
LEMMA ProjectionRests ==
    ASSUME ProjectionInv, UNCHANGED ev, calm' => calm,
           \A p \in Operators : \/ todo'[p] = todo[p] /\ mem'[p] = mem[p]
                                \/ ~mem'[p].canaries /\ ~Doing(p, "split")'
    PROVE  ProjectionInv'
<1>1. Hash({"canary"})' = Hash({"canary"})
      /\ Hash({"canary", "consumer"})' = Hash({"canary", "consumer"})
  BY DEF Hash
<1>2. calm' => GoodRows(ev["integration_C029"].rows)'
  BY <1>1 DEF ProjectionInv, GoodRows, Proved, Projected
<1>3. ASSUME calm', NEW p \in Operators, todo'[p] = todo[p], mem'[p] = mem[p]
      PROVE  /\ mem'[p].canaries => ProjectionRun(todo[p], mem[p])'
             /\ Doing(p, "split")' => GoodRows(mem[p].payload.rows)'
  <2>1. /\ mem[p].canaries => ProjectionRun(todo[p], mem[p])
        /\ Doing(p, "split") => GoodRows(mem[p].payload.rows)
    BY <1>3 DEF ProjectionInv
  <2>2. ProjectionRun(todo[p], mem[p]) => ProjectionRun(todo[p], mem[p])'
    BY <1>1, <1>3 DEF ProjectionRun, GoodRows, Proved, Projected
  <2>3. GoodRows(mem[p].payload.rows) => GoodRows(mem[p].payload.rows)'
    BY <1>1, <1>3 DEF GoodRows, Proved, Projected
  <2> QED  BY <1>3, <2>1, <2>2, <2>3 DEF Doing
<1> QED  BY <1>2, <1>3 DEF ProjectionInv

\* Every step keeps it.
LEMMA ProjectionStep ==
    ASSUME Typed, OneAtATime, ProjectionInv, [Next]_vars
    PROVE  ProjectionInv'
<1>1. CASE UNCHANGED vars
  BY <1>1, ProjectionRests DEF vars
<1>2. CASE Configure
  <2>1. UNCHANGED <<ev, todo, mem>> /\ (calm' => calm)
    BY <1>2, ConfigureEffect DEF Typed
  <2> QED  BY <2>1, ProjectionRests
<1>3. ASSUME NEW o \in Operators, Start(o) PROVE ProjectionInv'
  <2>1. /\ UNCHANGED ev /\ (calm' => calm) /\ Others(o) /\ mem'[o] = mem[o]
        /\ mem[o].canaries = FALSE /\ Head(todo'[o]) \notin DOMAIN Before
    BY <1>3, StartEffect DEF Typed
  <2>2. ~Doing(o, "split")'
    BY <2>1, BeforeIs DEF Doing
  <2> QED  BY <2>1, <2>2, ProjectionRests DEF Others
<1>4. ASSUME NEW o \in Operators, Kill(o) PROVE ProjectionInv'
  <2>1. /\ UNCHANGED ev /\ calm' = calm /\ Others(o) /\ todo'[o] = <<>>
        /\ mem'[o].canaries = FALSE
    BY <1>4, KillEffect DEF Typed, Steady
  <2> QED  BY <2>1, ProjectionRests DEF Others, Doing
<1>5. ASSUME NEW o \in Operators, Works(o) PROVE ProjectionInv'
  BY <1>5, ProjectionWorks
<1> QED  BY <1>1, <1>2, <1>3, <1>4, <1>5 DEF Next, Works

\* Then an accepted projection was observed once.
LEMMA ProjectionObserved == ProjectionInv => ProjectionIsOneObservation
<1> SUFFICES ASSUME ProjectionInv, calm,
                    ProvesC029 \/ C029PersistenceDependencies(canon)
             PROVE  /\ ev["consumer"].saw["canary"] = ev["canary"].n
                    /\ Holds(ev["integration_C029"].rows["C029"].saw)
  BY DEF ProjectionIsOneObservation
<1> DEFINE rows == ev["integration_C029"].rows
           row == rows["C029"]
<1>1. ASSUME ProvesC029 PROVE ev["integration_C029"].n # 0 /\ row.ok
      /\ row.pins["canary"] = ev["canary"].n /\ row.pins["consumer"] = ev["consumer"].n
  <2>1. /\ ev["integration_C029"].n # 0 /\ row.ok
        /\ "canary" \in DOMAIN row.pins /\ "consumer" \in DOMAIN row.pins
        /\ Holds(row.pins)
    BY <1>1 DEF ProvesC029, C029Integration, NotionC029RowValid, Current
  <2>2. row.pins["canary"] = ev["canary"].n /\ row.pins["consumer"] = ev["consumer"].n
    BY <2>1 DEF Holds, Hash
  <2> QED  BY <2>1, <2>2
<1>2. ASSUME C029PersistenceDependencies(canon)
      PROVE  /\ ev["integration_C029"].n # 0 /\ row.ok
             /\ row.pins["canary"] = ev["canary"].n /\ row.pins["consumer"] = ev["consumer"].n
  BY <1>2 DEF C029PersistenceDependencies, FreshDependency
<1>3. Projected(row.pins, row.saw)
  BY <1>1, <1>2 DEF ProjectionInv, GoodRows, Proved
<1> QED  BY <1>1, <1>2, <1>3 DEF Projected, Holds, Hash

-----------------------------------------------------------------------------
(* What is accepted.                                                       *)

\* What is true of the evidence of commands that do not overlap, and of the
\* tables whether they overlap or not.
Observed == OneAtATime /\ Present /\ KestraInv /\ RuntimeInv /\ TableInv /\ ProjectionInv

\* It holds at the beginning.
LEMMA ObservedInit == EvidenceInit => Observed
<1> SUFFICES ASSUME EvidenceInit PROVE Observed
  OBVIOUS
<1>1. /\ IsDoc(Missing) /\ Missing.n = 0 /\ Missing.ok = FALSE
      /\ Missing.values = Missing.label /\ Missing.rows = None
  BY MissingIs DEF Missing
<1>2. \A f \in Files : ev[f] = Missing
  BY DEF EvidenceInit
<1>3. \A o \in Operators :
         Idle(o) /\ mem[o].canaries = FALSE /\ \A x : ~Doing(o, x)
  BY DEF EvidenceInit, Idle, Doing, Clear
<1>4. DOMAIN None = {}
  BY DEF None
<1>5. OneAtATime
  BY <1>3 DEF OneAtATime
<1>6. Present
  BY <1>1, <1>2, <1>3 DEF Present, PresentAt
<1>7. KestraInv
  <2>1. ~ev["kestra_verify"].ok
    BY <1>1, <1>2 DEF Files
  <2> QED  BY <1>3, <2>1 DEF KestraInv
<1>8. RuntimeInv
  <2>1. ~ev["paperclip_verify"].ok
    BY <1>1, <1>2 DEF Files
  <2> QED  BY <1>3, <2>1 DEF RuntimeInv, Reconciling
<1>9. TableInv
  <2>1. ev["integration"].rows = None
    BY <1>1, <1>2 DEF Files
  <2> QED  BY <1>3, <1>4, <2>1 DEF TableInv, TableRows, Proved
<1>10. ProjectionInv
  <2>1. ev["integration_C029"].rows = None /\ ev["integration_C029"].n = 0
    BY <1>1, <1>2 DEF Files
  <2> QED  BY <1>3, <1>4, <2>1 DEF ProjectionInv, GoodRows, Proved
<1> QED  BY <1>5, <1>6, <1>7, <1>8, <1>9, <1>10 DEF Observed

\* Every step keeps it.
LEMMA ObservedStep == Typed /\ Observed /\ [Next]_vars => Observed'
BY AloneStep, PresentStep, KestraStep, RuntimeStep, TableStep, ProjectionStep DEF Observed

\* Every evidence file is always a document, and what every operator has left
\* to do is in order, a run of canaries with its rows and its aggregate:
\* whatever fails, overlaps or is killed.  (run_final_evidence_rebind and the
\* commands in it; execute and error_result of the integration canaries)
THEOREM EvidenceIsTyped == Spec => []Typed
BY TypedInit, TypedStep, PTL DEF Spec

\* So it always holds.
LEMMA IsObserved == Spec => [](Typed /\ Observed)
<1>1. Spec => []Typed
  BY EvidenceIsTyped
<1> QED  BY <1>1, ObservedInit, ObservedStep, PTL DEF Spec

\* Without overlapping, everything the verifier accepts was produced with the
\* values of the canonical file as it is now, though the producers read it once
\* and label what they write at the end.  (reconcile_daytona, execute,
\* _bound_evidence)
THEOREM AcceptedIsPresent == Spec => []AcceptedIsOfNow
<1>1. Typed /\ Observed => AcceptedIsOfNow
  BY PresentAccepted DEF Typed, Observed
<1> QED  BY <1>1, IsObserved, PTL

\* Without overlapping, an accepted control plane was verified with the very
\* images and lifecycle that are accepted with it, though its evidence names them
\* without their hashes.  (validate_daytona_runtime_evidence)
THEOREM RuntimeIsObservedOnce == Spec => []RuntimeIsOneObservation
<1>1. Typed /\ Observed => RuntimeIsOneObservation
  BY RuntimeObserved DEF Observed
<1> QED  BY <1>1, IsObserved, PTL

\* C027 and C029 are never proved together, with overlapping commands neither:
\* each run of a canary makes the evidence of PostgREST anew, and a row names the
\* one of its own run.  (_postgrest_dependency_reference)
THEOREM TablesAreNeverBoth == Spec => []NeverBothTables
<1>1. Typed /\ Observed => NeverBothTables
  BY TablesExclude DEF Observed
<1> QED  BY <1>1, IsObserved, PTL

\* Without overlapping, a projection that is accepted, by the verifier or at the
\* edge, was verified after the canary, and the canary is the one whose objects
\* the row names.  (_projection_runtime_payload, c029_persistence_dependencies)
THEOREM ProjectionIsObservedOnce == Spec => []ProjectionIsOneObservation
<1>1. Typed /\ Observed => ProjectionIsOneObservation
  BY ProjectionObserved DEF Observed
<1> QED  BY <1>1, IsObserved, PTL
===============================================================================
