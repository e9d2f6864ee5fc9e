SPECIFICATION Spec
CONSTANTS
  Requests <- AllRequests
  Spelling <- Spellings
  Offers <- SomeOffers
  RenderKinds <- SomeKinds
  Codes <- SomeCodes
  Sizes <- OneSize
  MapForm <- MapFormByTag
  MapPtr <- MappingByPtr
  Validates <- Valid
  MaxCalls = 3
INVARIANTS
  WriterInv
  BadInputIs400
  BindsRepeat
  BoundAsGiven
  NegotiatedIsAccepted
PROPERTIES
  RenderNeverPanics
