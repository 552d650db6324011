CONSTANTS
  Requests = {q1}
  Commands = {m1}
  Files = {f1}
  MaxProducts = 2
  MaxSkus = 1
  MaxOptions = 2
  ImageForms <- MCImageForms
  ProductForms <- MCProductForms
  SkuForms <- MCSkuForms
  OptionForms <- MCOptionForms
  Fixtures <- MCFixtures
  Signage <- MCSignage
  FoldOf <- MCFoldOf
SPECIFICATION CatalogSpec
INVARIANTS CatalogTypeOK AppliedAsListed ImagesExist
PROPERTIES UnlistedUntouched Idempotent
