\* The smallest cut-off for which the scratch memory suffices.
SPECIFICATION Spec
CONSTANTS
  Base = 2
  karatsuba_cutoff = 9
  Types <- PartsTypes
  Factors <- PartsFactors
INVARIANTS
  ScratchIsPrivate
  ProductExact
