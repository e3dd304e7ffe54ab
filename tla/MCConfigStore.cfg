SPECIFICATION LiveSpec
CONSTANTS
  KeyGroups <- Messages
  ValuesOf <- FewValues
  Subs = {0}
  Regions = {0, 1}
  Areas = {0}
  Failures = TRUE
INVARIANTS Saved TargetsFollow AddressKept ResetTakes
PROPERTY MessageEnds
