---------------------------- MODULE AddressesProofs ----------------------------
(***************************************************************************)
(* Proofs about Addresses: its types, and who may break the rule of one    *)
(* default address, for any number of addresses and overlapping requests.  *)
(***************************************************************************)
EXTENDS Addresses, TLAPS

\* What a request of each kind carries.
LEMMA RequestShapes ==
  ASSUME NEW r \in {Idle} \cup AddressRequest
  PROVE  /\ r.kind = "insert" => r \in [kind : {"insert"}, isDefault : BOOLEAN]
         /\ r.kind = "insertDefault" => r.seen \subseteq AddressIds
         /\ r.kind = "setDefault" => r.id \in AddressIds
         /\ r.kind = "makeDefault" => r.id \in AddressIds /\ r.seen \subseteq AddressIds
         /\ r.kind = "update" => /\ r.id \in AddressIds
                                 /\ r.isDefault \in BOOLEAN /\ r.kept \in BOOLEAN
                                 /\ r.isDefault => r.kept
         /\ r.kind = "delete" => r.id \in AddressIds /\ r.wasDefault \in BOOLEAN
         /\ r.kind = "promote" => r.id \in AddressIds /\ r.newest \in AddressIds \cup {NULL}
  <1>1. CASE r = Idle
    BY <1>1 DEF Idle
  <1>2. CASE \/ r \in [kind : {"insert"}, isDefault : BOOLEAN]
             \/ r \in [kind : {"insertDefault"}, seen : SUBSET AddressIds]
             \/ r \in [kind : {"setDefault"}, id : AddressIds]
             \/ r \in [kind : {"makeDefault"}, id : AddressIds, seen : SUBSET AddressIds]
    BY <1>2
  <1>3. CASE \/ r \in [kind : {"update"}, id : AddressIds, isDefault : BOOLEAN, kept : {TRUE}]
             \/ r \in [kind : {"update"}, id : AddressIds, isDefault : {FALSE}, kept : {FALSE}]
    BY <1>3
  <1>4. CASE \/ r \in [kind : {"delete"}, id : AddressIds, wasDefault : BOOLEAN]
             \/ r \in [kind : {"promote"}, id : AddressIds, newest : AddressIds \cup {NULL}]
    BY <1>4
  <1> QED BY <1>1, <1>2, <1>3, <1>4, Zenon DEF AddressRequest

\* A request that becomes one of its own shape keeps the types of all.
LEMMA ProceedKeepsTypes ==
  ASSUME NEW h \in Handlers, NEW r \in {Idle} \cup AddressRequest,
         req \in [Handlers -> {Idle} \cup AddressRequest],
         \A g \in Handlers : req[g].kind = "promote" => req[g].newest # req[g].id,
         r.kind = "promote" => r.newest # r.id,
         Proceed(h, r)
  PROVE  /\ req' \in [Handlers -> {Idle} \cup AddressRequest]
         /\ \A g \in Handlers : req'[g].kind = "promote" => req'[g].newest # req'[g].id
  BY DEF Proceed

LEMMA IdleIsNoPromotion == Idle.kind # "promote"
  BY DEF Idle

LEMMA FinishKeepsTypes ==
  ASSUME NEW h \in Handlers, Finish(h),
         req \in [Handlers -> {Idle} \cup AddressRequest],
         \A g \in Handlers : req[g].kind = "promote" => req[g].newest # req[g].id
  PROVE  /\ req' \in [Handlers -> {Idle} \cup AddressRequest]
         /\ \A g \in Handlers : req'[g].kind = "promote" => req'[g].newest # req'[g].id
  BY ProceedKeepsTypes, IdleIsNoPromotion DEF Finish

\* A new row has the next id.
LEMMA InsertRowKeepsTypes ==
  ASSUME TypeOK, insertRow
  PROVE  /\ created' \in 0..MaxAddresses
         /\ addresses' \subseteq 1..created'
         /\ addresses \subseteq addresses'
         /\ created' \in addresses'
  <1>1. MaxAddresses \in Nat /\ created \in Nat
    BY AddressesAreCounted DEF TypeOK
  <1>2. created' = created + 1 /\ addresses' = addresses \cup {created'}
        /\ addresses \subseteq 1..created /\ created < MaxAddresses
    BY DEF insertRow, TypeOK
  <1>3. 1..created \subseteq 1..created' /\ created' \in 1..created' /\ created' \in 0..MaxAddresses
    BY <1>1, <1>2
  <1> QED BY <1>2, <1>3

LEMMA AddressesAreIds ==
  ASSUME TypeOK
  PROVE  addresses \subseteq AddressIds /\ defaults \subseteq AddressIds
  <1>1. MaxAddresses \in Nat /\ created \in 0..MaxAddresses
    BY AddressesAreCounted DEF TypeOK
  <1>2. 1..created \subseteq 1..MaxAddresses
    BY <1>1
  <1> QED BY <1>2 DEF TypeOK, AddressIds

-----------------------------------------------------------------------------
(***************************************************************************)
(* Types are kept (addresses.service.ts): in particular the successor of a *)
(* deleted default is another address.                                     *)
(***************************************************************************)
THEOREM TypeCorrect == Spec => []TypeOK
<1>1. Init => TypeOK
  <2> SUFFICES ASSUME Init PROVE TypeOK
    OBVIOUS
  <2>1. 0 \in 0..MaxAddresses
    BY AddressesAreCounted
  <2> QED BY <2>1, IdleIsNoPromotion DEF Init, TypeOK
<1>2. TypeOK /\ [Next]_vars => TypeOK'
  <2> SUFFICES ASSUME TypeOK, [Next]_vars PROVE TypeOK'
    OBVIOUS
  <2>t. /\ req \in [Handlers -> {Idle} \cup AddressRequest]
        /\ \A g \in Handlers : req[g].kind = "promote" => req[g].newest # req[g].id
        /\ defaults \subseteq addresses /\ addresses \subseteq 1..created
        /\ created \in 0..MaxAddresses
    BY DEF TypeOK
  <2>a. addresses \subseteq AddressIds /\ defaults \subseteq AddressIds
    BY AddressesAreIds
  <2>q. ASSUME NEW h \in Handlers,
               \/ Finish(h)
               \/ \E r \in AddressRequest : /\ Proceed(h, r)
                                            /\ r.kind = "promote" => r.newest # r.id
        PROVE  /\ req' \in [Handlers -> {Idle} \cup AddressRequest]
               /\ \A g \in Handlers : req'[g].kind = "promote" => req'[g].newest # req'[g].id
    BY <2>t, <2>q, FinishKeepsTypes, ProceedKeepsTypes
  <2>k. ASSUME UNCHANGED rows,
               /\ req' \in [Handlers -> {Idle} \cup AddressRequest]
               /\ \A g \in Handlers : req'[g].kind = "promote" => req'[g].newest # req'[g].id
        PROVE  TypeOK'
    BY <2>t, <2>k DEF TypeOK, rows
  <2>1. CASE UNCHANGED vars
    BY <2>1, <2>t DEF TypeOK, vars, rows
  <2>2. ASSUME NEW h \in Handlers, NEW d \in BOOLEAN, CreateAddress(h, d) PROVE TypeOK'
    <3> DEFINE r == [kind |-> "insert", isDefault |-> d \/ addresses = {}]
    <3>1. r \in AddressRequest /\ r.kind # "promote"
      BY DEF AddressRequest
    <3>2. Proceed(h, r) /\ UNCHANGED rows
      BY <2>2 DEF CreateAddress
    <3> QED BY <3>1, <3>2, <2>q, <2>k
  <2>3. ASSUME NEW h \in Handlers, Insert(h) PROVE TypeOK'
    <3>1. insertRow /\ Finish(h) /\ UNCHANGED defaults
      BY <2>3 DEF Insert
    <3> QED BY <3>1, <2>t, <2>q, InsertRowKeepsTypes DEF TypeOK
  <2>4. ASSUME NEW h \in Handlers, InsertDefault(h) PROVE TypeOK'
    <3>1. insertRow /\ Finish(h) /\ defaults' = cleared(req[h].seen) \cup {created'}
      BY <2>4 DEF InsertDefault
    <3> QED BY <3>1, <2>t, <2>q, InsertRowKeepsTypes DEF TypeOK, cleared
  <2>5. ASSUME NEW h \in Handlers, NEW id \in addresses, SetDefaultAddress(h, id) PROVE TypeOK'
    <3> DEFINE r == [kind |-> "setDefault", id |-> id]
    <3>1. r \in AddressRequest /\ r.kind # "promote"
      BY <2>a DEF AddressRequest
    <3>2. Proceed(h, r) /\ UNCHANGED rows
      BY <2>5 DEF SetDefaultAddress
    <3> QED BY <3>1, <3>2, <2>q, <2>k
  <2>6. ASSUME NEW h \in Handlers, ClearDefaults(h) PROVE TypeOK'
    <3> DEFINE i == [kind |-> "insertDefault", seen |-> defaults]
               m == [kind |-> "makeDefault", id |-> req[h].id, seen |-> defaults]
    <3>1. i \in AddressRequest /\ i.kind # "promote"
      BY <2>a DEF AddressRequest
    <3>2. req[h].kind = "setDefault" => m \in AddressRequest /\ m.kind # "promote"
      <4> SUFFICES ASSUME req[h].kind = "setDefault"
                   PROVE  m \in AddressRequest /\ m.kind # "promote"
        OBVIOUS
      <4>1. req[h].id \in AddressIds
        BY <2>t, RequestShapes
      <4> QED BY <4>1, <2>a DEF AddressRequest
    <3>3. UNCHANGED rows /\ (Proceed(h, i) \/ (req[h].kind = "setDefault" /\ Proceed(h, m)))
      BY <2>6 DEF ClearDefaults
    <3> HIDE DEF i, m
    <3> QED BY <3>1, <3>2, <3>3, <2>q, <2>k
  <2>7. ASSUME NEW h \in Handlers, MakeDefault(h) PROVE TypeOK'
    <3>1. Finish(h) /\ UNCHANGED <<created, addresses>>
      BY <2>7 DEF MakeDefault
    <3>2. defaults' \subseteq addresses
      BY <2>7, <2>t DEF MakeDefault, cleared
    <3> QED BY <3>1, <3>2, <2>t, <2>q DEF TypeOK
  <2>8. ASSUME NEW h \in Handlers, NEW id \in addresses, NEW kept \in BOOLEAN,
               UpdateAddress(h, id, kept)
        PROVE  TypeOK'
    <3> DEFINE r == [kind |-> "update", id |-> id, kept |-> kept,
                     isDefault |-> kept /\ id \in defaults]
    <3>1. r \in AddressRequest /\ r.kind # "promote"
      BY <2>a DEF AddressRequest
    <3>2. Proceed(h, r) /\ UNCHANGED rows
      BY <2>8 DEF UpdateAddress
    <3> QED BY <3>1, <3>2, <2>q, <2>k
  <2>9. ASSUME NEW h \in Handlers, UpdateRow(h) PROVE TypeOK'
    <3>1. Finish(h) /\ UNCHANGED <<created, addresses>>
      BY <2>9 DEF UpdateRow
    <3>2. defaults' \subseteq addresses
      BY <2>9, <2>t DEF UpdateRow
    <3> QED BY <3>1, <3>2, <2>t, <2>q DEF TypeOK
  <2>10. ASSUME NEW h \in Handlers, NEW id \in addresses, DeleteAddress(h, id) PROVE TypeOK'
    <3> DEFINE r == [kind |-> "delete", id |-> id, wasDefault |-> id \in defaults]
    <3>1. r \in AddressRequest /\ r.kind # "promote"
      <4>1. r \in [kind : {"delete"}, id : AddressIds, wasDefault : BOOLEAN]
        BY <2>a
      <4> QED BY <4>1 DEF AddressRequest
    <3>2. Proceed(h, r) /\ UNCHANGED rows
      BY <2>10 DEF DeleteAddress
    <3> QED BY <3>1, <3>2, <2>q, <2>k
  <2>11. ASSUME NEW h \in Handlers, DeleteRow(h) PROVE TypeOK'
    <3>1. CASE /\ deleteRow(req[h].id) /\ defaults' = defaults \ {req[h].id}
               /\ Finish(h) /\ UNCHANGED created
      BY <3>1, <2>t, <2>q DEF TypeOK, deleteRow
    <3>2. CASE /\ req[h].id \in addresses /\ UNCHANGED <<addresses, defaults, created>>
               /\ \E newest \in AddressIds \cup {NULL} :
                    /\ newest # req[h].id
                    /\ Proceed(h, [kind |-> "promote", id |-> req[h].id, newest |-> newest])
      <4>1. PICK newest \in AddressIds \cup {NULL} :
               /\ newest # req[h].id
               /\ Proceed(h, [kind |-> "promote", id |-> req[h].id, newest |-> newest])
        BY <3>2
      <4> DEFINE r == [kind |-> "promote", id |-> req[h].id, newest |-> newest]
      <4>2. r \in AddressRequest /\ r.newest # r.id
        BY <3>2, <4>1, <2>a DEF AddressRequest
      <4> QED BY <4>1, <4>2, <3>2, <2>q, <2>k DEF rows
    <3>3. req[h].id \in addresses => req[h].id # NULL
      BY <2>a, NullIsNoAddress
    <3> QED BY <3>1, <3>2, <3>3, <2>11 DEF DeleteRow, remaining
  <2>12. ASSUME NEW h \in Handlers, Promote(h) PROVE TypeOK'
    <3>1. Finish(h) /\ UNCHANGED created
      BY <2>12 DEF Promote
    <3>2. defaults' \subseteq addresses' /\ addresses' \subseteq addresses
      BY <2>12, <2>t DEF Promote, deleteRow
    <3> QED BY <3>1, <3>2, <2>t, <2>q DEF TypeOK
  <2>13. ASSUME NEW h \in Handlers, Abandon(h) PROVE TypeOK'
    BY <2>13, <2>q, <2>k DEF Abandon
  <2> QED BY <2>1, <2>2, <2>3, <2>4, <2>5, <2>6, <2>7, <2>8, <2>9, <2>10, <2>11, <2>12,
            <2>13 DEF Next
<1> QED BY <1>1, <1>2, PTL DEF Spec

-----------------------------------------------------------------------------
\* A step that writes the rows changes the request of one handler.
LEMMA StepChangesRequest ==
  ASSUME TypeOK, NEW h \in Handlers, req[h].kind # "idle", Finish(h)
  PROVE  req'[h] # req[h]
  BY DEF Finish, Proceed, Idle, TypeOK

(***************************************************************************)
(* Which steps write defaults, and what they make of it.                   *)
(***************************************************************************)
LEMMA DefaultsWrites ==
  ASSUME TypeOK, [Next]_vars
  PROVE  \/ UNCHANGED <<addresses, defaults>>
         \/ \E h \in Handlers :
              /\ req'[h] # req[h]
              /\ \/ Insert(h) \/ InsertDefault(h) \/ MakeDefault(h)
                 \/ UpdateRow(h) \/ DeleteRow(h) \/ Promote(h)
<1>1. CASE UNCHANGED vars
  BY <1>1 DEF vars, rows
<1>2. CASE Next
  <2>1. PICK h \in Handlers :
          \/ UNCHANGED rows
          \/ Insert(h) \/ InsertDefault(h) \/ MakeDefault(h)
          \/ UpdateRow(h) \/ DeleteRow(h) \/ Promote(h)
    BY <1>2 DEF Next, CreateAddress, ClearDefaults, SetDefaultAddress, DeleteAddress,
       UpdateAddress, Abandon
  <2>2. CASE UNCHANGED rows
    BY <2>2 DEF rows
  <2>3. CASE Insert(h) \/ InsertDefault(h) \/ MakeDefault(h) \/ UpdateRow(h) \/ Promote(h)
    <3>1. Finish(h) /\ req[h].kind # "idle"
      BY <2>3 DEF Insert, InsertDefault, MakeDefault, UpdateRow, Promote
    <3> QED BY <3>1, <2>3, StepChangesRequest
  <2>4. CASE DeleteRow(h)
    <3>1. req[h].kind # "idle" /\ (Finish(h) \/ UNCHANGED <<addresses, defaults>>)
      BY <2>4 DEF DeleteRow
    <3> QED BY <3>1, <2>4, StepChangesRequest
  <2> QED BY <2>1, <2>2, <2>3, <2>4
<1> QED BY <1>1, <1>2

\* What a request becomes, it has just read.
LEMMA ReadsAreTrue ==
  ASSUME TypeOK, [Next]_vars
  PROVE  ReadsHold
<1> SUFFICES ASSUME NEW g \in Handlers, isFreshRead(req[g]), req'[g] # req[g]
             PROVE  isFreshRead(req[g])'
  BY DEF ReadsHold
<1>t. req \in [Handlers -> {Idle} \cup AddressRequest]
  BY DEF TypeOK
<1>1. ASSUME NEW h \in Handlers, Finish(h) PROVE isFreshRead(req[g])'
  <2>1. req'[g] = Idle
    BY <1>1, <1>t DEF Finish, Proceed
  <2> QED BY <2>1 DEF isFreshRead, Idle
<1>2. ASSUME NEW h \in Handlers, NEW r, Proceed(h, r),
             UNCHANGED <<addresses, defaults>>, isFreshRead(r)
      PROVE  isFreshRead(req[g])'
  <2>1. req'[g] = r
    BY <1>2, <1>t DEF Proceed
  <2> QED BY <1>2, <2>1 DEF isFreshRead
<1>3. CASE UNCHANGED vars
  BY <1>3 DEF vars
<1>4. ASSUME NEW h \in Handlers, NEW d \in BOOLEAN, CreateAddress(h, d)
      PROVE  isFreshRead(req[g])'
  <2> DEFINE r == [kind |-> "insert", isDefault |-> d \/ addresses = {}]
  <2>1. isFreshRead(r)
    BY DEF isFreshRead
  <2> QED BY <1>2, <1>4, <2>1 DEF CreateAddress, rows
<1>5. ASSUME NEW h \in Handlers, NEW id \in addresses,
             \/ SetDefaultAddress(h, id) \/ DeleteAddress(h, id)
             \/ \E kept \in BOOLEAN : UpdateAddress(h, id, kept)
      PROVE  isFreshRead(req[g])'
  <2>1. CASE SetDefaultAddress(h, id)
    BY <1>2, <2>1 DEF SetDefaultAddress, rows, isFreshRead
  <2>2. CASE DeleteAddress(h, id)
    <3> DEFINE r == [kind |-> "delete", id |-> id, wasDefault |-> id \in defaults]
    <3>1. isFreshRead(r)
      BY DEF isFreshRead
    <3> QED BY <1>2, <2>2, <3>1 DEF DeleteAddress, rows
  <2>3. ASSUME NEW kept \in BOOLEAN, UpdateAddress(h, id, kept)
        PROVE  isFreshRead(req[g])'
    <3> DEFINE r == [kind |-> "update", id |-> id, kept |-> kept,
                     isDefault |-> kept /\ id \in defaults]
    <3>1. isFreshRead(r)
      BY DEF isFreshRead
    <3> QED BY <1>2, <2>3, <3>1 DEF UpdateAddress, rows
  <2> QED BY <1>5, <2>1, <2>2, <2>3
<1>6. ASSUME NEW h \in Handlers, ClearDefaults(h)
      PROVE  isFreshRead(req[g])'
  <2>1. isFreshRead([kind |-> "insertDefault", seen |-> defaults])
    BY DEF isFreshRead
  <2>2. isFreshRead([kind |-> "makeDefault", id |-> req[h].id, seen |-> defaults])
    BY DEF isFreshRead
  <2> QED BY <1>2, <1>6, <2>1, <2>2 DEF ClearDefaults, rows
<1>7. ASSUME NEW h \in Handlers, DeleteRow(h)
      PROVE  isFreshRead(req[g])'
  <2>1. CASE Finish(h)
    BY <1>1, <2>1
  <2>2. CASE ~Finish(h)
    <3>1. PICK newest \in AddressIds \cup {NULL} :
            /\ newest = NULL => remaining(req[h].id) = {}
            /\ Proceed(h, [kind |-> "promote", id |-> req[h].id, newest |-> newest])
            /\ req[h].wasDefault /\ UNCHANGED <<addresses, defaults>>
      <4>1. NULL \notin remaining(req[h].id)
        BY AddressesAreIds, NullIsNoAddress DEF remaining
      <4> QED BY <1>7, <2>2, <4>1 DEF DeleteRow, needsDefault
    <3>2. g = h /\ req[h].kind = "delete"
      BY <1>7, <3>1, <1>t DEF DeleteRow, Proceed
    <3>3. isFreshRead([kind |-> "promote", id |-> req[h].id, newest |-> newest])
      BY <3>1, <3>2 DEF isFreshRead, remaining
    <3> QED BY <1>2, <3>1, <3>3
  <2> QED BY <2>1, <2>2
<1>8. CASE Next
  BY <1>1, <1>4, <1>5, <1>6, <1>7, <1>8 DEF Next, Insert, InsertDefault, MakeDefault, UpdateRow,
     Promote, Abandon
<1> QED BY <1>3, <1>8

(***************************************************************************)
(* Two addresses are the default only by a request that another overtook   *)
(* (addresses.service.ts:17-25, :75-95, :133-140).                         *)
(***************************************************************************)
THEOREM OneDefaultHolds == Spec => OneDefault
<1>1. TypeOK /\ [Next]_vars =>
        [AtMostOneDefault => AtMostOneDefault' \/ \E h \in Handlers : isOvertaken(h)]_vars
        /\ ReadsHold
  <2>r. TypeOK /\ [Next]_vars => ReadsHold
    BY ReadsAreTrue
  <2> SUFFICES ASSUME TypeOK, [Next]_vars, AtMostOneDefault,
                      \A h \in Handlers : ~isOvertaken(h)
               PROVE  AtMostOneDefault'
    BY <2>r
  <2>1. CASE UNCHANGED <<addresses, defaults>>
    BY <2>1 DEF AtMostOneDefault
  <2>2. ASSUME NEW h \in Handlers, req'[h] # req[h],
               \/ Insert(h) \/ InsertDefault(h) \/ MakeDefault(h)
               \/ UpdateRow(h) \/ DeleteRow(h) \/ Promote(h)
        PROVE  AtMostOneDefault'
    <3>f. isFreshRead(req[h])
      BY <2>2 DEF isOvertaken
    <3>t. req[h] \in {Idle} \cup AddressRequest
      BY DEF TypeOK
    <3>1. CASE Insert(h)
      BY <3>1 DEF Insert, AtMostOneDefault
    <3>2. CASE InsertDefault(h)
      <4>1. cleared(req[h].seen) = {}
        BY <3>2, <3>f DEF InsertDefault, isFreshRead, cleared
      <4> QED BY <4>1, <3>2 DEF InsertDefault, AtMostOneDefault
    <3>3. CASE MakeDefault(h)
      <4>1. cleared(req[h].seen) = {}
        BY <3>3, <3>f DEF MakeDefault, isFreshRead, cleared
      <4> QED BY <4>1, <3>3 DEF MakeDefault, AtMostOneDefault
    <3>4. CASE UpdateRow(h)
      <4>1. req[h].kind = "update" /\ (req[h].isDefault => req[h].kept)
        BY <3>4, <3>t, RequestShapes DEF UpdateRow
      <4>2. defaults' \subseteq defaults
        BY <4>1, <3>4, <3>f DEF UpdateRow, isFreshRead
      <4> QED BY <4>2 DEF AtMostOneDefault
    <3>5. CASE DeleteRow(h)
      <4>1. defaults' \subseteq defaults
        BY <3>5 DEF DeleteRow
      <4> QED BY <4>1 DEF AtMostOneDefault
    <3>6. CASE Promote(h)
      <4>1. defaults \subseteq {req[h].id}
        BY <3>6, <3>f DEF Promote, isFreshRead, AtMostOneDefault
      <4>2. defaults' \subseteq {req[h].newest} \/ defaults' = defaults
        BY <4>1, <3>6 DEF Promote
      <4> QED BY <4>2 DEF AtMostOneDefault
    <3> QED BY <2>2, <3>1, <3>2, <3>3, <3>4, <3>5, <3>6
  <2> QED BY <2>1, <2>2, DefaultsWrites
<1> QED BY <1>1, TypeCorrect, PTL DEF Spec, OneDefault

(***************************************************************************)
(* A user with addresses keeps a default one, but for an update that takes *)
(* isDefault away and requests that another overtook                       *)
(* (addresses.service.ts:132-143).                                         *)
(***************************************************************************)
THEOREM DefaultStaysHolds == Spec => DefaultStays
<1> DEFINE Excused ==
      \E h \in Handlers :
        /\ req'[h] # req[h]
        /\ \/ req[h].kind = "update" /\ ~req[h].kept
           \/ ~isFreshRead(req[h])
<1>1. TypeOK /\ [Next]_vars => [HasDefault => HasDefault' \/ Excused]_vars
  <2> SUFFICES ASSUME TypeOK, [Next]_vars, HasDefault, ~Excused
               PROVE  HasDefault'
    OBVIOUS
  <2>1. CASE UNCHANGED <<addresses, defaults>>
    BY <2>1 DEF HasDefault
  <2>2. ASSUME NEW h \in Handlers, req'[h] # req[h],
               \/ Insert(h) \/ InsertDefault(h) \/ MakeDefault(h)
               \/ UpdateRow(h) \/ DeleteRow(h) \/ Promote(h)
        PROVE  HasDefault'
    <3>f. isFreshRead(req[h]) /\ (req[h].kind = "update" => req[h].kept)
      BY <2>2
    <3>t. /\ req[h] \in {Idle} \cup AddressRequest
          /\ req[h].kind = "promote" => req[h].newest # req[h].id
          /\ defaults \subseteq addresses /\ NULL \notin addresses
      BY AddressesAreIds, NullIsNoAddress DEF TypeOK
    <3>1. CASE Insert(h)
      BY <3>1, <3>f DEF Insert, insertRow, isFreshRead, HasDefault
    <3>2. CASE InsertDefault(h)
      BY <3>2 DEF InsertDefault, HasDefault
    <3>3. CASE MakeDefault(h)
      BY <3>3 DEF MakeDefault, HasDefault
    <3>4. CASE UpdateRow(h)
      <4>1. req[h].isDefault = (req[h].id \in defaults)
        BY <3>4, <3>f DEF UpdateRow, isFreshRead
      <4>2. defaults \subseteq defaults' /\ UNCHANGED addresses
        BY <4>1, <3>4 DEF UpdateRow
      <4> QED BY <4>2 DEF HasDefault
    <3>5. CASE DeleteRow(h)
      <4>1. req[h].wasDefault = (req[h].id \in defaults)
        BY <3>5, <3>f DEF DeleteRow, isFreshRead
      <4>2. CASE UNCHANGED <<addresses, defaults>>
        BY <4>2 DEF HasDefault
      <4>3. CASE /\ req[h].id \notin defaults
                 /\ addresses' = addresses \ {req[h].id}
                 /\ defaults' = defaults \ {req[h].id}
        BY <4>3 DEF HasDefault
      <4> QED BY <4>1, <4>2, <4>3, <3>5, <3>t DEF DeleteRow, deleteRow, needsDefault
    <3>6. CASE Promote(h)
      <4>1. CASE UNCHANGED <<addresses, defaults>>
        BY <4>1 DEF HasDefault
      <4>2. CASE /\ req[h].newest \in addresses
                 /\ defaults' = (defaults \cup ({req[h].newest} \cap addresses)) \ {req[h].id}
        BY <4>2, <3>6, <3>t DEF Promote, HasDefault
      <4>3. CASE req[h].newest = NULL /\ addresses' = addresses \ {req[h].id}
        BY <4>3, <3>6, <3>f DEF Promote, isFreshRead, HasDefault
      <4> QED BY <4>1, <4>2, <4>3, <3>6 DEF Promote, deleteRow
    <3> QED BY <2>2, <3>1, <3>2, <3>3, <3>4, <3>5, <3>6
  <2> QED BY <2>1, <2>2, DefaultsWrites
<1> QED BY <1>1, TypeCorrect, PTL DEF Spec, DefaultStays

-----------------------------------------------------------------------------
\* Of requests that do not overlap, none is overtaken.
LEMMA AloneReadsFresh ==
  ASSUME TypeOK, [Next]_vars, OneAtATime, ReadsFresh
  PROVE  ReadsFresh'
<1> SUFFICES ASSUME NEW g \in Handlers PROVE isFreshRead(req[g])'
  BY DEF ReadsFresh
<1>1. CASE req'[g] # req[g]
  BY <1>1, ReadsAreTrue DEF ReadsHold, ReadsFresh
<1>2. CASE req'[g] = req[g] /\ UNCHANGED <<addresses, defaults>>
  BY <1>2 DEF ReadsFresh, isFreshRead
<1>3. ASSUME NEW h \in Handlers, req'[h] # req[h], req'[g] = req[g],
             \/ Insert(h) \/ InsertDefault(h) \/ MakeDefault(h)
             \/ UpdateRow(h) \/ DeleteRow(h) \/ Promote(h)
      PROVE  isFreshRead(req[g])'
  <2>1. req[h] # Idle
    BY <1>3 DEF Insert, InsertDefault, MakeDefault, UpdateRow, DeleteRow, Promote, Idle
  <2>2. req'[g] = Idle
    BY <1>3, <2>1 DEF OneAtATime
  <2> QED BY <2>2 DEF isFreshRead, Idle
<1> QED BY <1>1, <1>2, <1>3, DefaultsWrites

LEMMA InitReadsFresh == Init => ReadsFresh /\ AtMostOneDefault
  BY DEF Init, ReadsFresh, isFreshRead, AtMostOneDefault, Idle

(***************************************************************************)
(* While the user's requests come one at a time, no two addresses are the  *)
(* default, and one stays the default until an update takes it away: no    *)
(* handler breaks the rule by itself (addresses.service.ts:17-143).        *)
(***************************************************************************)
THEOREM AloneOneDefault ==
  Spec /\ []OneAtATime => []AtMostOneDefault /\ DefaultOnlyGivenUp
<1> DEFINE Kept == AtMostOneDefault => AtMostOneDefault' \/ \E h \in Handlers : isOvertaken(h)
           Stays == HasDefault =>
             \/ HasDefault'
             \/ \E h \in Handlers :
                  /\ req'[h] # req[h]
                  /\ \/ req[h].kind = "update" /\ ~req[h].kept
                     \/ ~isFreshRead(req[h])
           GivenUp == HasDefault =>
             \/ HasDefault'
             \/ \E h \in Handlers :
                  req'[h] # req[h] /\ req[h].kind = "update" /\ ~req[h].kept
<1>1. TypeOK /\ [Next]_vars /\ OneAtATime /\ ReadsFresh => ReadsFresh'
  BY AloneReadsFresh
<1>2. ReadsFresh /\ AtMostOneDefault /\ [Kept /\ ReadsHold]_vars => AtMostOneDefault'
  <2>1. ASSUME ReadsFresh, AtMostOneDefault, Kept PROVE AtMostOneDefault'
    BY <2>1 DEF ReadsFresh, isOvertaken
  <2>2. ASSUME AtMostOneDefault, UNCHANGED vars PROVE AtMostOneDefault'
    BY <2>2 DEF AtMostOneDefault, vars, rows
  <2> QED BY <2>1, <2>2
<1>3. ReadsFresh /\ [Stays]_vars => [GivenUp]_vars
  <2>1. ASSUME ReadsFresh, Stays PROVE GivenUp
    BY <2>1 DEF ReadsFresh
  <2> QED BY <2>1
<1>4. Spec => [][Kept /\ ReadsHold]_vars
  BY OneDefaultHolds, PTL DEF OneDefault
<1>5. Spec => [][Stays]_vars
  BY DefaultStaysHolds, PTL DEF DefaultStays
<1> QED
  BY <1>1, <1>2, <1>3, <1>4, <1>5, InitReadsFresh, TypeCorrect, PTL
     DEF Spec, DefaultOnlyGivenUp
=============================================================================
