SPECIFICATION Spec
CONSTANTS
  Restaurants = {r1}
  Profiles = {p1}
  Statuses = {"PENDING_APPROVAL", "ACTIVE"}
  Queries = {"PENDING_APPROVAL"}
  Orders = {o1}
  restaurantOf <- MCRestaurantOf
  Stars = {five}
  Handlers = {h1, h2}
  Reviewers = {v1, v2}
  NULL = NULL
SYMMETRY Symmetry
INVARIANTS
  TypeOK
  EntriesAreTrue
  RatingFollowsReviews
