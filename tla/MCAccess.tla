------------------------------- MODULE MCAccess -------------------------------
(* A small instance of Access: the provisioned administrator, a user, and the  *)
(* owner role, which createRole has yet to make.  Two requests overlap.        *)
EXTENDS Access, TLC

CONSTANTS root, ann

MCSeeded == [r \in Roles |-> {}]

assign(a, u, r) == [op |-> "assignRole", actor |-> a, user |-> u, role |-> r]
remove(a, u, r) == [op |-> "removeRole", actor |-> a, user |-> u, role |-> r]
permit(a, r, ps) ==
  [op |-> "updateRolePermissions", actor |-> a, role |-> r, permissions |-> ps]
create(a, r, ps) == [op |-> "createRole", actor |-> a, role |-> r, permissions |-> ps]
open(a) == [op |-> "createRestaurant", actor |-> a]

MCAsked ==
  {assign(root, ann, "SUPER_ADMIN"), remove(root, ann, "SUPER_ADMIN"),
   remove(ann, root, "SUPER_ADMIN"), remove(root, ann, "RESTAURANT_OWNER"),
   permit(root, "RESTAURANT_OWNER", {"roles.assign"}),
   permit(root, "RESTAURANT_OWNER", {}),
   create(root, "RESTAURANT_OWNER", {"roles.assign"}), open(ann)}

Symmetry == Permutations(Handlers)
=============================================================================
