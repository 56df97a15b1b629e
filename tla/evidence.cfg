SPECIFICATION Spec
CONSTANTS
    Operators = {o1, o2}
    Commands = {"provision_verify", "tools_verify", "kestra_provision",
                "daytona_apply", "daytona_verify", "kestra_canary_apply",
                "kestra_canary_verify", "profile_acceptance", "profile_finalize",
                "observability_acceptance", "integration_canaries",
                "notion_canary", "notion_verify", "evidence_rebind",
                "hermes_acceptance", "cloudflare_acceptance"}
    Selections <- MCSelections
    MaxCommands = 2
    MaxFaults = 1
    MaxChanges = 1
SYMMETRY Interchangeable
INVARIANTS
    EndToEndNeverPasses
    NeverBothTables
    ProjectionIsOneObservation
    RuntimeIsOneObservation
    AcceptedIsOfNow
CHECK_DEADLOCK FALSE
