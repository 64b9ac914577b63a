SPECIFICATION FairSpec
CONSTANTS
  Configs <- MCConfigs
  Requests = {r1, r2}
  MaxClicks = 2
INVARIANT TypeOK
INVARIANT KeysReachTheirTarget
INVARIANT OneSession
INVARIANT OffersOnlyReady
PROPERTY PickerSettles
