SPECIFICATION Spec
CONSTANTS
  FileNames <- MCFileNames
  Contents = {x, y}
  NoFile = NoFile
  Factory = Factory
  Current <- MCCurrent
  NonNumber = NonNumber
  MaxChanges = 3
INVARIANTS
  TypeOK
  RunsAttested
PROPERTIES
  OnlyUpgrades
  OfferIsNewest
  PollersResume
