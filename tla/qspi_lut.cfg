CONSTANTS
  Programs <- MCPrograms
  Sizes <- MCSizes
  Watermarks = {1, 16, 17, 128}
  Builds = {"volatile", "merged"}
SPECIFICATION Spec
INVARIANT TypeOK
INVARIANT SequencesInstalled
PROPERTY OnlySetupChangesLut
