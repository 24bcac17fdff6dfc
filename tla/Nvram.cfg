SPECIFICATION NvramSpec
CONSTANTS
  Games <- TwoGames
  Gens = {2}
  OldFiles = {1, 2, 3}
  Environments <- AnyInstallation
INVARIANTS SaveGoesHome SavedSurvives
