CONSTANTS
  alone = alone
  group = group
  Runs = {alone, group}
  KeysOf <- MCKeys
  Published = {alone}
  Touched = {alone}
  Moving = {"app"}
  MaxBase = 1
  MaxEdits = 2
  MaxRefresh = 1
SPECIFICATION Spec
INVARIANTS NamedIsWhole PublishedIsTested CarriesWhatWasTested
CHECK_DEADLOCK FALSE
