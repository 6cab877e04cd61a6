SPECIFICATION SourcesSpec
CONSTANTS
  FullTrees = FALSE
  Globs <- MCGlobs
  Begins <- MCBegins
  NameContains <- MCNameContains
INVARIANTS
    LanguageAsPMS
    SortsOrFindsCycle
    HighestVisibleTaken
    USEAsConfigured
    WorldIsOne
    HostServesWhatWasPublished
    AidsTellTruth
    CommandsDoAsTold
    EclassesAsPMS
    SourcesAsPMS
