CONSTANTS
  NoName = NoName
  Names <- MCNames
  CodeBases <- MCCodeBases
  BuiltIn <- MCBuiltIn
  UriHash <- MCUriHash
  Bases = {"cycle", "promotion", "placeholders", "signature"}
  MaxEdits = 3
  MaxCount = 4
SPECIFICATION Spec
INVARIANTS
  GraphTypeOK
  IndexExact
  NothingForgotten
  OwnersKnowMembers
  ReferencesRecorded
  AncestorsKnowDescendants
PROPERTY
  ImplementsGraph
