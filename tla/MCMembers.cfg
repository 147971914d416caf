CONSTANTS
  NoName = NoName
  Names <- MCMemberNames
  CodeBases <- MCMemberBases
  BuiltIn <- MCBuiltIn
  UriHash <- MCUriHash
  Bases = {"inherit", "mixins", "nested", "alias", "singleton", "eigenclass", "variables", "receiver", "visibility", "extend", "superclass", "alias_owner", "promotable", "lookup"}
  MaxEdits = 3
  MaxCount = 4
SPECIFICATION Spec
INVARIANTS
  EveryReadAnswers
  LookupLeavesNoTrace
  ResolutionIsCurrent
  IncrementalIsFresh
  SingletonsAttached
  MembersPlaced
  VisibilityApplied
  SingletonsFollowClasses
  CompletionAgreesWithLookup
  ProtectedReachesFamily
  ScopeReachesWhatResolves
  NamespaceOffersWhatResolves
  AliasesFollowed
PROPERTY
  ResolveIsIdempotent
