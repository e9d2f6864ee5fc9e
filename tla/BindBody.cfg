SPECIFICATION Spec
CONSTANTS
  Requests <- PostRequests
  Spelling <- Spellings
  Offers <- SomeOffers
  RenderKinds <- SomeKinds
  Codes <- SomeCodes
  Sizes <- OneSize
  MapForm <- MapFormByTag
  MapPtr <- MappingByPtr
  Validates <- Valid
  MaxCalls = 1
INVARIANTS
  BindDecodesBody
