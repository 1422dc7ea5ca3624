SPECIFICATION Spec
CONSTANTS
    NoAccount = NoAccount
    NoToken = NoToken
    NoRecord = NoRecord
    Unbound = Unbound
    NotEnrolled = NotEnrolled
    NoRows = NoRows
    NotBuilt = NotBuilt
    NoPid = 0
    Unfilled = Unfilled
    NewSecret = NewSecret
    OldSecret = OldSecret
    Emptied = Emptied
    NoFile = NoFile
    MaxChanges = 2
    Hosts = {{},
             {"backend", "upstream", "hostname", "known_hosts", "replace_response", "cache",
              "rate_limit", "dns_provider"},
             {"upstream", "hostname", "replace_response", "rate_limit"},
             {"backend", "known_hosts", "cache", "dns_provider"}}
CONSTRAINT Bounds
INVARIANTS TypeOK OnceOnly  ListsHold
PROPERTIES SiteIsAsConfigured TokensAreEntitled SignedOutStaysOut SetupHolds
\* The clocks are bounded.
CHECK_DEADLOCK FALSE
