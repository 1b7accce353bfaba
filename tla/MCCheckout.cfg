SPECIFICATION Spec
CONSTANTS
  Pizza = Pizza
  Sushi = Sushi
  Napoli = Napoli
  Osaka = Osaka
  MenuItems = {Pizza, Sushi}
  Restaurants = {Napoli, Osaka}
  restaurantOf <- MCRestaurantOf
  Categories <- MCCategories
  Prices = {1}
  MaxQuantity = 1
  RowIds = {r1, r2}
  OrderNumbers = {n1, n2}
  Handlers = {h1, h2}
  NULL = NULL
SYMMETRY RequestSymmetry
INVARIANTS
  TypeOK
PROPERTIES
  OneRestaurantKept
  OrderedOnceKept
  PurchaseKept
