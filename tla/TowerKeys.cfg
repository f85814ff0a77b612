SPECIFICATION FairSpec
CONSTANTS
  Attempts = 2 MaxGenerated = 7 MaxStops = 2 MaxLosses = 1
  Losable <- IdentityCert None = None
INVARIANTS
  TypeOK
  ChainsVerify
  RootsCertify
PROPERTY
  StartupEnds
