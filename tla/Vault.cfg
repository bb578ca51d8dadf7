\* Four headings in all, three in one document at most.
CONSTANTS
  Order <- MCOrder
  Texts <- MCTexts
  Slug <- MCSlug
  Targets <- MCTargets
  SourceLike <- MCSourceLike
  RepositoryFiles <- MCFiles
  Symbols <- MCSymbols
  None = None
  MaxHeadings <- MCMax
  MaxTotal = 4
SPECIFICATION Spec
INVARIANTS LinksMeanTheSame
PROPERTIES NewDocumentsRedirectNothing
