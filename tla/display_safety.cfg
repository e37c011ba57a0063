SPECIFICATION DisplaySpec
CONSTANTS
  NodeCount = 5
  LinkSets <- SomeGraphs
  MaxIterations = 3
  MaxLevels = 4
  TypeFilters = {"none", "some", "all"}
  Answer <- TwoAnswers
  Loads = {1, 2}
  BatchSize = 1
  YieldAbove = 2
  Texts = {"", " ", "a", "b", "c"}
  Blank = {"", " "}
  Found = {"a", "b"}
  Requests = {1, 2, 3}
  Rates = {10, 40, 60}
  Gaps = {0, 1, 3}
  Window = 2
  DowngradeBelow = 24
  UpgradeAbove = 50
  DowngradeDelay = 2
  UpgradeDelay = 3
  TransitionTime = 1
  MaxOverrides = 2
  Order <- FourLayouts
  Placed = {"B"}
  MaxChanges = 3
  MaxPosts = 2
  N = 3
  MaxVal = 1
  Type <- SomeTypes
  PageSizes = {1, 2}
  Filters <- AllOrUsers
  NoCursor = NoCursor
INVARIANTS DetectionTypeOK WithinComponents LevelsNested MetaWeightsExact FrontendTypeOK LinksAreWhole RestingPageIsCurrent ListIsWanted StableOnce EndIsComplete
PROPERTIES DetectionEnds BrowserSettles WalkEnds
CHECK_DEADLOCK FALSE
