SPECIFICATION Spec
CONSTANTS
  None = None
  Blank = 0
  Overhead <- MCOverhead
  SuffixChars = 15
  SeparatorChars = 2
  CharsPerToken = 4
  MaxDecisions = 10
  MaxPrereqDepth = 5
  MaxShown = 2
  MaxHits = 3
  Lines <- MCLines
  Timetables <- MCTimetables
  CodeLists <- MCCodeLists
  Profiles <- MCProfiles
  Summaries <- MCSummaries
  Graphs <- MCGraphs
  Intents <- MCIntents
  Budgets <- MCBudgets
  Programs <- MCPrograms
  PrerequisiteTexts <- MCPrerequisiteTexts
  Scrapes <- MCScrapes
  Catalogues <- MCCatalogues
  Filters <- MCFilters
  Limits = {1, 2, 3}
  PrerequisiteGraphs <- MCPrerequisiteGraphs
  RequirementSets <- MCRequirementSets
  Records <- MCRecords
INVARIANTS
  ConflictsExact
  ContextFits
  CatalogueRead
  QueriesExact
