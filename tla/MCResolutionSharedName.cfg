CONSTANTS
  NoName = NoName
  Names <- MCNames
  CodeBases <- MCCodeBases
  BuiltIn <- MCBuiltIn
  UriHash <- MCUriHash
  Bases = {"shared_name"}
  MaxEdits = 3
  MaxCount = 4
SPECIFICATION Spec
INVARIANTS
  NothingForgotten
