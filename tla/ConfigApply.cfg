SPECIFICATION FairConfigSpec
CONSTANTS
    good1 = good1
    good2 = good2
    garbled = garbled
    badSources = badSources
    badProfiles = badProfiles
    ticker = ticker
    None = None
    Seed = Seed
    Manifests = {good1, good2, garbled, badSources, badProfiles}
    Unparsed = {garbled}
    BadSources = {badSources}
    BadProfiles = {badProfiles}
    Reloaders = {ticker}
    MaxPublish = 3
    MaxCrashes = 1
    MaxFaults = 1
CHECK_DEADLOCK FALSE
INVARIANTS
    ServesGenerations
    RestartSame
    HonestReport
PROPERTIES
    Converges
    FreshInTheEnd
