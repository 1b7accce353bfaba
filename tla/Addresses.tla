------------------------------- MODULE Addresses -------------------------------
(***************************************************************************)
(* addresses.service.ts: the delivery addresses of one user, of which one  *)
(* is the default.  Every method reads before its transaction, and the     *)
(* transactions are READ COMMITTED: updateMany takes the rows that match   *)
(* when it starts and checks each again once it has its lock.              *)
(***************************************************************************)
EXTENDS Naturals

CONSTANTS
  MaxAddresses,   \* bound for TLC: addresses the user ever creates
  Handlers,       \* requests of the user in flight at the same time
  NULL            \* no row found

AddressIds == 1..MaxAddresses

ASSUME AddressesAreCounted == MaxAddresses \in Nat
ASSUME NullIsNoAddress == NULL \notin AddressIds

VARIABLES
  created,        \* how many addresses were created: ids are in createdAt order
  addresses,      \* ids of the Address rows
  defaults,       \* those with isDefault
  req             \* what each request has read

rows == <<created, addresses, defaults>>
vars == <<rows, req>>

Idle == [kind |-> "idle"]

AddressRequest ==
  [kind : {"insert"}, isDefault : BOOLEAN]
  \cup
  [kind : {"insertDefault"}, seen : SUBSET AddressIds]
  \cup
  [kind : {"setDefault"}, id : AddressIds]
  \cup
  [kind : {"makeDefault"}, id : AddressIds, seen : SUBSET AddressIds]
  \cup
  [kind : {"update"}, id : AddressIds, isDefault : BOOLEAN, kept : {TRUE}]
  \cup
  [kind : {"update"}, id : AddressIds, isDefault : {FALSE}, kept : {FALSE}]
  \cup
  [kind : {"delete"}, id : AddressIds, wasDefault : BOOLEAN]
  \cup
  [kind : {"promote"}, id : AddressIds, newest : AddressIds \cup {NULL}]

Init ==
  /\ created = 0 /\ addresses = {} /\ defaults = {}
  /\ req = [h \in Handlers |-> Idle]

Proceed(h, state) == req' = [req EXCEPT ![h] = state]
Finish(h) == Proceed(h, Idle)

\* The request dies, or the database rolls its transaction back (a deadlock).
Abandon(h) == req[h] # Idle /\ Finish(h) /\ UNCHANGED rows

\* An uncommitted delete holds its row's lock: whoever writes the row waits.
isFree(h, S) ==
  \A g \in Handlers \ {h} : req[g].kind = "promote" => req[g].id \notin S

\* Mutant of cleared: updateMany is forgotten.
uncleared(seen) == defaults

\* updateMany over the rows it saw; those no longer default do not match.
cleared(seen) == defaults \ seen

-----------------------------------------------------------------------------
\* createAddress counts; the first address is the default ...
CreateAddress(h, isDefault) ==
  /\ req[h] = Idle
  /\ Proceed(h, [kind |-> "insert", isDefault |-> isDefault \/ addresses = {}])
  /\ UNCHANGED rows

\* ... and its transaction creates the row, after an updateMany for a default.
insertRow ==
  /\ created < MaxAddresses
  /\ created' = created + 1
  /\ addresses' = addresses \cup {created'}

Insert(h) ==
  /\ req[h].kind = "insert" /\ ~req[h].isDefault
  /\ insertRow
  /\ Finish(h)
  /\ UNCHANGED defaults

InsertDefault(h) ==
  /\ req[h].kind = "insertDefault"
  /\ isFree(h, req[h].seen)
  /\ insertRow
  /\ defaults' = cleared(req[h].seen) \cup {created'}
  /\ Finish(h)

-----------------------------------------------------------------------------
\* setDefaultAddress, and updateAddress with isDefault, find the row ...
SetDefaultAddress(h, id) ==
  /\ req[h] = Idle /\ id \in addresses
  /\ Proceed(h, [kind |-> "setDefault", id |-> id])
  /\ UNCHANGED rows

\* ... updateMany starts, here or for createAddress ...
ClearDefaults(h) ==
  /\ \/ /\ req[h].kind = "insert" /\ req[h].isDefault
        /\ Proceed(h, [kind |-> "insertDefault", seen |-> defaults])
     \/ /\ req[h].kind = "setDefault"
        /\ Proceed(h, [kind |-> "makeDefault", id |-> req[h].id, seen |-> defaults])
  /\ UNCHANGED rows

\* ... and the row is updated; a missing one rolls back.
MakeDefault(h) ==
  /\ req[h].kind = "makeDefault"
  /\ isFree(h, req[h].seen \cup {req[h].id})
  /\ \/ req[h].id \in addresses /\ defaults' = cleared(req[h].seen) \cup {req[h].id}
     \/ req[h].id \notin addresses /\ UNCHANGED defaults
  /\ Finish(h)
  /\ UNCHANGED <<created, addresses>>

\* updateAddress otherwise writes isDefault = false, or the value it has read.
UpdateAddress(h, id, kept) ==
  /\ req[h] = Idle /\ id \in addresses
  /\ Proceed(h, [kind |-> "update", id |-> id, kept |-> kept,
                 isDefault |-> kept /\ id \in defaults])
  /\ UNCHANGED rows

UpdateRow(h) ==
  /\ req[h].kind = "update"
  /\ isFree(h, {req[h].id})
  /\ defaults' = IF req[h].isDefault THEN defaults \cup ({req[h].id} \cap addresses)
                                     ELSE defaults \ {req[h].id}
  /\ Finish(h)
  /\ UNCHANGED <<created, addresses>>

-----------------------------------------------------------------------------
\* deleteAddress finds the row ...
DeleteAddress(h, id) ==
  /\ req[h] = Idle /\ id \in addresses
  /\ Proceed(h, [kind |-> "delete", id |-> id, wasDefault |-> id \in defaults])
  /\ UNCHANGED rows

deleteRow(id) == addresses' = addresses \ {id}

\* Mutant of remaining: the newest is looked up before the delete.
remainingBefore(id) == addresses

remaining(id) == addresses \ {id}

\* Mutant of needsDefault: a deleted default has no successor.
needsNone(r) == FALSE

needsDefault(r) == r.wasDefault

\* ... deletes it, and for a default looks the newest remaining one up ...
DeleteRow(h) ==
  /\ req[h].kind = "delete"
  /\ isFree(h, {req[h].id})
  /\ \/ /\ req[h].id \notin addresses \/ ~needsDefault(req[h])
        /\ deleteRow(req[h].id)
        /\ defaults' = defaults \ {req[h].id}
        /\ Finish(h)
     \/ /\ req[h].id \in addresses /\ needsDefault(req[h])
        /\ \E newest \in AddressIds \cup {NULL} :
             /\ \/ newest = NULL /\ remaining(req[h].id) = {}
                \/ /\ newest \in remaining(req[h].id)
                   /\ \A other \in remaining(req[h].id) : other <= newest
             /\ Proceed(h, [kind |-> "promote", id |-> req[h].id, newest |-> newest])
        /\ UNCHANGED <<addresses, defaults>>
  /\ UNCHANGED created

\* ... which becomes the default; if it is gone by now, all is rolled back.
Promote(h) ==
  /\ req[h].kind = "promote"
  /\ isFree(h, {req[h].newest})
  /\ \/ /\ req[h].newest \in addresses \cup {NULL}
        /\ deleteRow(req[h].id)
        /\ defaults' = (defaults \cup ({req[h].newest} \cap addresses)) \ {req[h].id}
     \/ /\ req[h].newest \notin addresses \cup {NULL}
        /\ UNCHANGED <<addresses, defaults>>
  /\ Finish(h)
  /\ UNCHANGED created

Next ==
  \E h \in Handlers :
    \/ \E isDefault \in BOOLEAN : CreateAddress(h, isDefault)
    \/ Insert(h) \/ InsertDefault(h) \/ ClearDefaults(h)
    \/ \E id \in addresses :
         \/ SetDefaultAddress(h, id) \/ DeleteAddress(h, id)
         \/ \E kept \in BOOLEAN : UpdateAddress(h, id, kept)
    \/ MakeDefault(h) \/ UpdateRow(h) \/ DeleteRow(h) \/ Promote(h)
    \/ Abandon(h)

Spec == Init /\ [][Next]_vars

-----------------------------------------------------------------------------
\* Rows exist, requests have their shapes; no address succeeds itself.
TypeOK ==
  /\ created \in 0..MaxAddresses
  /\ addresses \subseteq 1..created
  /\ defaults \subseteq addresses
  /\ req \in [Handlers -> {Idle} \cup AddressRequest]
  /\ \A h \in Handlers : req[h].kind = "promote" => req[h].newest # req[h].id

\* What request r has read still holds.
isFreshRead(r) ==
  /\ r.kind = "insert" => r.isDefault \/ addresses # {}
  /\ r.kind \in {"insertDefault", "makeDefault"} => defaults \subseteq r.seen
  /\ r.kind = "update" /\ r.kept => r.isDefault = (r.id \in defaults)
  /\ r.kind = "delete" => r.wasDefault = (r.id \in defaults)
  /\ r.kind = "promote" =>
       /\ r.id \in defaults
       /\ r.newest = NULL => addresses \subseteq {r.id}

\* Another request committed between what h read and what it does now.
isOvertaken(h) == req'[h] # req[h] /\ ~isFreshRead(req[h])

\* A request's own steps do not make its reads untrue.
ReadsHold ==
  \A h \in Handlers : isFreshRead(req[h]) /\ req'[h] # req[h] => isFreshRead(req[h])'

AtMostOneDefault == \A x, y \in defaults : x = y
HasDefault == addresses # {} => defaults # {}

(***************************************************************************)
(* Two addresses are the default only by a request that another overtook,  *)
(* between its reads and its commit (addresses.service.ts:17-25, :75-95,   *)
(* :133-140): updateMany does not see the default the other has just made, *)
(* updateAddress writes an isDefault back that it read before.  A request   *)
(* never does so to itself.                                                *)
(***************************************************************************)
OneDefault ==
  [][/\ AtMostOneDefault => AtMostOneDefault' \/ \E h \in Handlers : isOvertaken(h)
     /\ ReadsHold]_vars

(***************************************************************************)
(* A user with addresses keeps a default one, through every deletion       *)
(* (addresses.service.ts:132-143): it is lost only by an update that takes *)
(* isDefault away or by a request that another overtook.                   *)
(***************************************************************************)
DefaultStays ==
  [][HasDefault =>
       \/ HasDefault'
       \/ \E h \in Handlers :
            /\ req'[h] # req[h]
            /\ \/ req[h].kind = "update" /\ ~req[h].kept
               \/ ~isFreshRead(req[h])]_vars

-----------------------------------------------------------------------------
\* No two requests of the user are ever in flight together.
OneAtATime ==
  \A g, h \in Handlers : req[g] # Idle /\ req[h] # Idle => g = h

ReadsFresh == \A h \in Handlers : isFreshRead(req[h])

(***************************************************************************)
(* A default is given up only on purpose: by an update that takes          *)
(* isDefault away (addresses.service.ts:81-95).                            *)
(***************************************************************************)
DefaultOnlyGivenUp ==
  [][HasDefault =>
       \/ HasDefault'
       \/ \E h \in Handlers :
            req'[h] # req[h] /\ req[h].kind = "update" /\ ~req[h].kept]_vars
=============================================================================
