SPECIFICATION Spec
CONSTANTS
  Codes = {c1}
  Restaurants = {Trattoria, Diner}
  Users = {Olga, Omar}
  Handlers = {h1, h2}
  NULL = NULL
  Olga = Olga
  Omar = Omar
  Trattoria = Trattoria
  Diner = Diner
  ownerOf <- MCOwnerOf
  Amounts <- MCAmounts
  Offers <- MCOffers
  Changes <- MCChanges
  MaxNow = 1
SYMMETRY HandlerSymmetry
INVARIANTS
  QuoteIsSound
  MoreNeverCostsLess
PROPERTIES
  CouponStaysItself
