CONSTANTS
  Files <- Directory
  Statements <- StatementsOf
  Rerunnable = {1, 2, 3, 5, 9}
  Needs <- NeedsOf
  Images <- Releases
  Processes = {p1, p2}
  MaxCrashes = 1
SPECIFICATION FairSpec
INVARIANTS
  TypeOK
  RecordedInEffect
  ServesWholeSchema
  CutOnlyByCrash
PROPERTIES
  CutForGood
  StartsUnlessWedged
