--------------------------- MODULE ReleaseVerifier ---------------------------
(***************************************************************************)
(* server-verify.py: what is accepted of a release, given the evidence of  *)
(* the producers (EvidenceChain).  A connection is proved if the files it  *)
(* rests on passed, carry the hash of the present canonical file and still *)
(* have the hashes that others recorded of them; the release is accepted   *)
(* if every required connection is proved.                                 *)
(*                                                                         *)
(* What a passed document has to contain besides is taken as given.        *)
(***************************************************************************)
EXTENDS EvidenceChain

-----------------------------------------------------------------------------
(* The data plane and its projection.                                      *)

PostgrestVerified == Current("postgrest")

NotionConnectorEvidence == Current("connector")

ProvesC036 == PostgrestVerified /\ NotionConnectorEvidence

NotionProjectionConsumer == Current("consumer")

NotionProjectionCanary == Current("canary")

\* The row names the files that hold the two halves of the observation.
NotionC029RowValid(row) ==
    row.ok /\ {"canary", "consumer", "postgrest"} \subseteq DOMAIN row.pins

C029Integration ==
    /\ Current("integration_C029")
    /\ NotionProjectionCanary /\ NotionProjectionConsumer /\ PostgrestVerified
    /\ LET row == ev["integration_C029"].rows["C029"] IN
        NotionC029RowValid(row) /\ Holds(row.pins)

\* The aggregate counts row by row: it need not have passed as a whole.
IntegrationRow(c) ==
    /\ ev["integration"].n # 0 /\ ev["integration"].label = canon
    /\ c \in DOMAIN ev["integration"].rows
    /\ ev["integration"].rows[c].ok

ProvesC024 == IntegrationRow("C024")

ProvesC027 ==
    /\ IntegrationRow("C027") /\ PostgrestVerified
    /\ Holds(ev["integration"].rows["C027"].pins)

ProvesC029 ==
    /\ IntegrationRow("C029") /\ C029Integration
    /\ ev["integration"].rows["C029"] = ev["integration_C029"].rows["C029"]

-----------------------------------------------------------------------------
(* The runtime, the profiles and the end-to-end canary.                    *)

DaytonaImageContractValid == baked /\ ev["images"].snapshot = snapshot

ProvesDaytona ==
    /\ Current("paperclip_verify") /\ \A f \in Runtime : Current(f)
    /\ Holds(ev["paperclip_verify"].pins) /\ DaytonaImageContractValid

\* The provider in Paperclip is configured as the canonical file says.
ProvesC072 == ProvesDaytona /\ ev["paperclip_verify"].snapshot = snapshot

\* The snapshots exist as it says, and the coding one has been used.
ProvesC074 ==
    ProvesDaytona /\ \A f \in {"images", "lifecycle"} : ev[f].snapshot = snapshot

DaytonaControlPlane == Current("control_plane")

\* The audited profiles and control plane must be the ones of now.
ToolhiveGatewayAuditFindings ==
    /\ DaytonaControlPlane /\ Current("profile_reconcile")
    /\ Holds(ev["e2e"].saw)

E2EDocument ==
    /\ Current("e2e") /\ Holds(ev["e2e"].pins)
    /\ ToolhiveGatewayAuditFindings
    /\ Current("e2e_verify") /\ Holds(ev["e2e_verify"].pins)

ProvesE2E == E2EDocument

\* Read once more, without the verification and the canonical hash.
HarnessScopedRouterAuth == ev["e2e"].ok /\ Holds(ev["e2e"].pins)

ProvesAccess ==
    Current("profile_access") /\ Holds(ev["profile_access"].pins) /\ ProvesE2E

ProvesKestra == Current("kestra_verify") /\ Holds(ev["kestra_verify"].pins)

ProvesProfiles ==
    Current("profile_reconcile") /\ Holds(ev["profile_reconcile"].pins)

\* The isolation of the accounts is proved in both places.
ProvesAccounts == ProvesE2E /\ Current("account")

-----------------------------------------------------------------------------
(* The index passes, observability, Hermes and the edge.                   *)

IndexedEvidence == Current("indexed")

ProvesProvisioning == IndexedEvidence

ProvesObservability == Current("observability")

ProvesHermes == Current("hermes")

CloudflareSplit ==
    /\ Current("cloudflare_split")
    /\ ev["cloudflare"].pins["cloudflare_split"] = ev["cloudflare_split"].n

\* Notion has no application at the edge, so C029 must not be among the rows.
ExpectedEdge == CloudflareConnections \ {"C029"}

ProvesCloudflare ==
    /\ Current("cloudflare") /\ DOMAIN ev["cloudflare"].rows = ExpectedEdge
    /\ CloudflareSplit /\ Holds(ev["cloudflare"].pins)

-----------------------------------------------------------------------------
(* The acceptance.                                                         *)

\* The required connections that depend on no condition.
Required ==
    {"C001", "C002", "C003", "C004", "C005", "C006", "C007", "C008", "C009", "C010",
     "C011", "C012", "C014", "C015", "C016", "C017", "C018", "C019", "C023", "C024",
     "C025", "C026", "C027", "C029", "C030", "C031", "C032", "C034", "C035", "C036",
     "C037", "C039", "C040", "C041", "C042", "C043", "C044", "C045", "C046", "C047",
     "C048", "C049", "C050", "C060", "C063", "C064", "C065", "C066", "C067", "C069",
     "C070", "C071", "C072", "C073", "C074", "C075", "C076", "C077", "C078", "C079",
     "C080"}

\* Where two producers know a connection the later one of the list counts.
\* C070 and C071 are audits of the canonical file itself.
ConnectionEvidence(c) ==
    /\ c \in {"C001", "C002", "C003", "C008", "C017", "C018", "C073",
              "C076", "C077", "C078", "C079", "C080"} => ProvesE2E
    /\ c = "C018" => HarnessScopedRouterAuth
    /\ c = "C010" => ProvesAccess
    /\ c \in {"C012", "C023", "C024", "C030"} => ProvesC024
    /\ c = "C027" => ProvesC027
    /\ c = "C029" => ProvesC029
    /\ c \in {"C006", "C007", "C009", "C011", "C031", "C034", "C035"} => ProvesHermes
    /\ c \in {"C040", "C041", "C042", "C043", "C044", "C045", "C047", "C048",
              "C049", "C050", "C063", "C064", "C069"} => ProvesObservability
    /\ c \in {"C014", "C015", "C037"} => ProvesProvisioning
    /\ c = "C039" => ProvesKestra
    /\ c \in {"C016", "C019"} => ProvesProfiles
    /\ c = "C075" => ProvesAccounts
    /\ c \in ExpectedEdge => ProvesCloudflare
    /\ c = "C072" => ProvesC072
    /\ c = "C074" => ProvesC074
    /\ c = "C036" => ProvesC036

Acceptance == \A c \in Required : ConnectionEvidence(c)

-----------------------------------------------------------------------------
(* Properties.                                                             *)

\* The end-to-end canary demands a finalized profile reconciliation, which
\* demands proved access, which demands a passed end-to-end canary; the index
\* passes demand the reconciliation, the canary of observability those passes,
\* and the acceptance of the edge that canary.  From an empty evidence directory
\* none of them ever passes, so that no release is ever accepted.
Circle == {"e2e", "e2e_verify", "profile_access", "profile_reconcile", "indexed",
           "observability", "cloudflare_split", "cloudflare"}

EndToEndNeverPasses ==
    /\ \A f \in Circle : ~ev[f].ok
    /\ ~ProvesE2E /\ ~ProvesAccess /\ ~ProvesProfiles /\ ~ProvesProvisioning
    /\ ~ProvesAccounts /\ ~ProvesObservability /\ ~ProvesCloudflare
    /\ ~Acceptance

\* C027 and C029 rely on one evidence file of PostgREST and each makes it
\* anew, so that no run of the canaries proves both, though both are required.
NeverBothTables == ~(ProvesC027 /\ ProvesC029)

\* If commands do not overlap, an accepted projection was verified after the
\* canary, and the canary is the one whose objects the accepted row names.
ProjectionIsOneObservation ==
    calm /\ (ProvesC029 \/ C029PersistenceDependencies(canon)) =>
        /\ ev["consumer"].saw["canary"] = ev["canary"].n
        /\ Holds(ev["integration_C029"].rows["C029"].saw)

\* If commands do not overlap, the control plane that is accepted was verified
\* with the very images and the very lifecycle that are accepted with it.
RuntimeIsOneObservation ==
    calm /\ ProvesDaytona => Holds(ev["control_plane"].saw)

\* If commands do not overlap, what is accepted, and the files that it rests
\* on, were produced with the values of the canonical file as it is now.
Supports ==
    (IF ProvesDaytona THEN Runtime \cup {"paperclip_verify"} ELSE {})
    \cup (IF ProvesKestra THEN {"kestra_verify", "kestra_reconcile"} ELSE {})
    \cup (IF ProvesC024 THEN {"integration"} ELSE {})
    \cup (IF ProvesC027 THEN {"integration", "postgrest"} ELSE {})
    \cup (IF ProvesC036 THEN {"postgrest", "connector"} ELSE {})
    \cup (IF ProvesHermes THEN {"hermes"} ELSE {})
    \cup (IF C029PersistenceDependencies(canon)
             THEN {"integration_C029", "canary", "consumer"} ELSE {})

AcceptedIsOfNow == calm => \A f \in Supports : ev[f].values = canon
=============================================================================
