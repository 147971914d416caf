CONSTANTS
  NoName = NoName
  Names <- MCMemberNames
  CodeBases <- MCMemberBases
  BuiltIn <- MCBuiltIn
  UriHash <- MCUriHash
  Bases = {"family"}
  MaxEdits = 3
  MaxCount = 4
SPECIFICATION Spec
INVARIANT
  ProtectedStaysInFamily
