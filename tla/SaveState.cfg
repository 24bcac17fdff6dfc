SPECIFICATION Spec
CONSTANTS
  Values = {0, 1}
  Configs <- TwoConfigs
  SessionCfg <- Stock
  FileConfigs <- ThreeConfigs
INVARIANTS FailedLoadKeepsParts LoadedIsTheFile ValidatedLoads
