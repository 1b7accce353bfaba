SPECIFICATION Spec
CONSTANTS
  Orders = {o1}
  Users = {Alice, Olga}
  Handlers = {h1}
  Keys = {k1}
  NULL = NULL
  Alice = Alice
  Olga = Olga
  Rita = Rita
  Rob = Rob
  customer <- MCCustomer
  owner <- MCOwner
  staff <- MCStaff
  Total = 2
  RefundAmounts = {1, 2}
  RefundIds = {r1, r2}
PROPERTY WebhookIdempotent
