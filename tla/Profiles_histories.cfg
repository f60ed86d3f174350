SPECIFICATION ProfilesSpec
CONSTANTS
  ra = ra
  rb = rb
  t1 = t1
  t2 = t2
  spaces = spaces
  poly = poly
  POLY = POLY
  soho = soho
  Radios <- MCRadios
  FirstRadio = rb
  Spellings <- MCSpellings
  Canonical <- MCCanonical
  FirstName <- MCFirstName
  Blank = Blank
  Texts <- MCTexts
  HeardBy <- MCHeardBy
  NoKey = NoKey
  MaxRenames = 2
  MaxLinks = 3
  MaxTroubles = 1
SYMMETRY TextSymmetry
INVARIANTS
  ProfilesTypeOK
  RowKeepsItsRadio
PROPERTIES
  HistoriesNeverMerge
  
