\* Up to two engine errors that cost the transaction, beside constraint
\* violations, generator and curated-data failures, a failing COMMIT and a
\* crash at every point.  Three records of a generator, so that two calls with
\* leftovers come before the last one.
CONSTANTS
    c1 = c1
    c2 = c2
    twin = twin
    Cities <- ThreeCities
    Identity <- TwinIdentity
    MaxRecords = 3
    MaxFaults = 2
    ContextSizes <- SomeSizes
    MaxBatchSize = 3
    InitialMaxTokens <- FewTokens
    MaxPromptTokens = 5
    MaxAsked = 3
SPECIFICATION PipelineSpec
INVARIANTS
    AllOrNothing
    SuccessIsComplete
    CachesAreRight
    DecodeFits
    HearsOnlyItself
    FirstValidAnswer
PROPERTIES
    ImplementsAtomicExport
