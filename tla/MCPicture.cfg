SPECIFICATION FairSpec
CONSTANTS
  Messages <- FewPairs
  Factory <- Delivered
  PowerOn = 128
  Lights = {1, 2, 4}
  MaxFails = 1
  MaxCuts = 1
INVARIANTS SettingsApplied SwitchedTogether
PROPERTIES RestartKeepsPicture LightFollowed
