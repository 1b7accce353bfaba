SPECIFICATION Spec
CONSTANTS
  root = root
  ann = ann
  Users = {root, ann}
  Root = root
  Roles = {"SUPER_ADMIN", "RESTAURANT_OWNER"}
  SystemRoles = {"SUPER_ADMIN"}
  Permissions = {"roles.assign"}
  Seeded <- MCSeeded
  Asked <- MCAsked
  Handlers = {h1, h2}
  NULL = NULL
SYMMETRY Symmetry
INVARIANTS
  TypeOK
  CacheTellsTheTruth
PROPERTIES
  SuperAdminRemains
  AdmittedIsEntitled
