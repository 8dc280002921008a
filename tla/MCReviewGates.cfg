SPECIFICATION ReviewSpec
CONSTANTS
  Segs = {1, 2}
  Risky = {2}
  Pytests = {1}
  Gates = {g, h}
  Deliveries = {x, y}
  Waivable = {2}
  Prompts = {1}
  MaxReviews = 1
  MaxBaselines = 2
SYMMETRY HookSymmetry
INVARIANTS
  ReviewTypeOK
  OneReviewPerCall
  ComparedWithBaseline
PROPERTIES
  RedeliveryReplayed
