SPECIFICATION Spec
CONSTANTS
  Watches <- MCWatches
  Sheets <- MCSheets
  Shown = {"dead", "live", "rules"}
  Titles = {"Charter", "Rules"}
  Listing <- MCListing
  TitleOf <- MCTitleOf
  Dead = {"dead"}
  Known = {"Rules"}
  Loads <- MCLoads
  WalkPages = {1, 2, 3}
  WalkLimits = {2, 3}
  MaxRows = 2
  ListLimits = {0, 1}
  PageLimit = 1
  Matching = {1, 2, 3, 4}
  PerPage = 1
  Window = 3
  MaxTouches = 2
  Migrations = 2
  OnDocuments = {2}
  Shipped = {1}
  StartFaults = 1
  MaxStarts = 3
  MaxReleases = 1
  Editions = {1, 2}
  MaxPublished = 2
  VersionFaults = 2
  Lines = {"a", "b"}
  MaxLines = 4
  Statuses = {"active", "liquidating", "liquidated", "bankrupt", "reorganizing"}
  MaxNode = 2
  Trees <- MCTrees
  Dims <- MCDims
  ScrollSize = 1
  NavFaults = 1
INVARIANT NoDuplicates
CHECK_DEADLOCK FALSE
