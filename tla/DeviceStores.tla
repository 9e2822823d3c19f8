---------------------------- MODULE DeviceStores ----------------------------
(***************************************************************************)
(* The stores behind the EndDevice resource: the EndDevice records with    *)
(* their LFDI and SFDI indexes, the Registrations, everything else that is *)
(* keyed by a device's store key, the management pairs and the operator's  *)
(* device profiles, with their snapshot files.                             *)
(*                                                                         *)
(* A certificate identity is a member of LFDI; Sfdi gives its short form,  *)
(* which two identities may share.  A store key is a number: the opaque    *)
(* index POST /edev allocates, or the SFDI prefix the admin form uses.     *)
(* Letter case is abstracted: two spellings of an LFDI are one member.     *)
(***************************************************************************)
EXTENDS Integers, FiniteSets

CONSTANTS LFDI,         \* certificate identities
          Sfdi,         \* [LFDI -> short identities]
          Prefix,       \* [LFDI -> Keys], the key the admin form derives
          Provisioned,  \* the identities RegistrationPolicy.PIN resolves
          MaxKey,       \* bound: store keys are 1..MaxKey
          Budgets,      \* bound: requests of each kind, and failed writes
          NoOne         \* no identity

Keys == 1..MaxKey

\* What is stored per device: flow reservation requests and responses, the
\* DER and other device-keyed families, log events, subscriptions.
Families == {"frq", "frp", "der", "log", "sub"}

\* The families whose stores survive a restart.
Durable == {"frq", "frp", "sub"}

ASSUME DeviceConstants ==
    /\ Sfdi \in [LFDI -> Nat]
    /\ Prefix \in [LFDI -> Keys]
    /\ Provisioned \subseteq LFDI
    /\ NoOne \notin LFDI
    /\ Budgets \subseteq [{"client", "admin", "form", "fault"} -> Nat]

VARIABLES
    devs,       \* key -> identity of the EndDevice record there, or NoOne
    devsDisk,   \* the EndDevice snapshot file
    lfdiIndex,  \* identity -> key, 0 for none
    sfdiIndex,  \* short identity -> key, 0 for none
    regs,       \* key -> identity the stored pIN was provisioned for
    regsDisk,   \* the Registration snapshot file
    keyed,      \* key -> family -> identity whose data is there, or NoOne
    byKey,      \* EndDeviceIndex: identity -> allocated key, 0 for none
    nextKey,    \* EndDeviceIndex.next
    managerOf,  \* managed identity -> its manager, or NoOne
    managedBy,  \* manager -> the identities it manages
    profile,    \* identity -> the kind the operator stored
    faults,     \* failed writes so far
    left        \* requests of each kind still to come, and the bound of faults

storeVars == <<devs, devsDisk, lfdiIndex, sfdiIndex, regs, regsDisk, keyed,
               byKey, nextKey>>
pairVars == <<managerOf, managedBy, profile>>

Kinds == {"none", "aggregator", "device"}

InitStores ==
    /\ devs = [k \in Keys |-> NoOne] /\ devsDisk = devs
    /\ lfdiIndex = [l \in LFDI |-> 0]
    /\ sfdiIndex = [s \in {Sfdi[l] : l \in LFDI} |-> 0]
    /\ regs = [k \in Keys |-> NoOne] /\ regsDisk = regs
    /\ keyed = [k \in Keys |-> [f \in Families |-> NoOne]]
    /\ byKey = [l \in LFDI |-> 0] /\ nextKey = 1
    /\ managerOf = [l \in LFDI |-> NoOne]
    /\ managedBy = [l \in LFDI |-> {}]
    /\ profile = [l \in LFDI |-> "none"]
    /\ faults = 0
    /\ left \in Budgets

\* A request of this kind arrives.
Arrive(kind) == left[kind] > 0 /\ left' = [left EXCEPT ![kind] = @ - 1]

\* n writes fail in this step.
Fail(n) == faults + n <= left.fault /\ faults' = faults + n

\* A write that may fail: ok says whether it did not.
Attempt(ok) == Fail(IF ok THEN 0 ELSE 1)

-----------------------------------------------------------------------------
(* EndDeviceStore *)

GetByLFDI(l) == IF lfdiIndex[l] = 0 THEN NoOne ELSE devs[lfdiIndex[l]]

GetBySFDI(l) == IF sfdiIndex[Sfdi[l]] = 0 THEN NoOne ELSE devs[sfdiIndex[Sfdi[l]]]

indexDevice(k, l) ==
    /\ lfdiIndex' = [lfdiIndex EXCEPT ![l] = k]
    /\ sfdiIndex' = [sfdiIndex EXCEPT ![Sfdi[l]] = k]

removeIndex(k, l) ==
    /\ lfdiIndex' = [lfdiIndex EXCEPT ![l] = IF @ = k THEN 0 ELSE @]
    /\ sfdiIndex' = [sfdiIndex EXCEPT ![Sfdi[l]] = IF @ = k THEN 0 ELSE @]

\* EndDeviceStore.Create at a vacant key; a snapshot that cannot be written
\* restores the indexes and takes the record out again.
CreateDevice(k, l, ok) ==
    IF ok
    THEN /\ devs' = [devs EXCEPT ![k] = l]
         /\ indexDevice(k, l)
         /\ devsDisk' = devs'
    ELSE UNCHANGED <<devs, devsDisk, lfdiIndex, sfdiIndex>>

\* EndDeviceStore.Update: the record changes in memory whatever becomes of
\* the snapshot.
UpdateDevice(k, l, ok) ==
    /\ devs' = [devs EXCEPT ![k] = l]
    /\ indexDevice(k, l)
    /\ devsDisk' = IF ok THEN devs' ELSE devsDisk

\* EndDeviceStore.Delete: likewise.
DeleteDevice(k, ok) ==
    /\ devs' = [devs EXCEPT ![k] = NoOne]
    /\ removeIndex(k, devs[k])
    /\ devsDisk' = IF ok THEN devs' ELSE devsDisk

(* RegistrationStore: every write changes memory first, then the snapshot. *)
PutRegistration(k, l, ok) ==
    /\ regs' = [regs EXCEPT ![k] = l]
    /\ regsDisk' = IF ok THEN regs' ELSE regsDisk

\* A delete of an absent registration writes nothing.
DeleteRegistration(k, ok) ==
    /\ regs' = [regs EXCEPT ![k] = NoOne]
    /\ regsDisk' = IF regs[k] # NoOne /\ ok THEN regs' ELSE regsDisk

(* EndDeviceIndex.Allocate, over an index without a file of its own. *)
Allocated(l) == IF byKey[l] # 0 THEN byKey[l] ELSE nextKey

Allocate(l) ==
    /\ byKey' = [byKey EXCEPT ![l] = Allocated(l)]
    /\ nextKey' = IF byKey[l] # 0 THEN nextKey ELSE nextKey + 1

\* NewEndDeviceIndexFromStore: one key per identity, the first in key order,
\* and the next number past the highest key in use.
SeededKey(d, l) ==
    LET at == {k \in Keys : d[k] = l}
    IN IF at = {} THEN 0 ELSE CHOOSE k \in at : \A j \in at : k <= j

SeededNext(d) ==
    LET used == {k \in Keys : d[k] # NoOne}
    IN IF used = {} THEN 1 ELSE 1 + CHOOSE k \in used : \A j \in used : j <= k

\* The load order of the snapshot decides an identity two records share.
LoadedIndex(d, owners) ==
    LET at == {k \in Keys : d[k] \in owners}
    IN IF at = {} THEN 0 ELSE CHOOSE k \in at : \A j \in at : j <= k

\* A restart: the snapshot files are loaded, the index is seeded from the
\* records, DER is seeded per record, the rest of memory is gone.
Reload ==
    /\ devs' = devsDisk /\ UNCHANGED devsDisk
    /\ lfdiIndex' = [l \in LFDI |-> LoadedIndex(devsDisk, {l})]
    /\ sfdiIndex' = [s \in DOMAIN sfdiIndex |-> LoadedIndex(devsDisk, {m \in LFDI : Sfdi[m] = s})]
    /\ regs' = regsDisk /\ UNCHANGED regsDisk
    /\ keyed' = [k \in Keys |-> [f \in Families |->
                    IF f \in Durable THEN keyed[k][f]
                    ELSE IF f = "der" THEN devsDisk[k] ELSE NoOne]]
    /\ byKey' = [l \in LFDI |-> SeededKey(devsDisk, l)]
    /\ nextKey' = SeededNext(devsDisk)

-----------------------------------------------------------------------------
(* EndDeviceManagementStore.  Every change is written to the file before   *)
(* it is applied and one mutex holds both, so a change is one step and a   *)
(* failed one leaves nothing: the pairs on disk are the pairs in memory.   *)

Assignable(m, d) == m # d /\ managerOf[d] \in {NoOne, m}

Assign(m, d) ==
    /\ managerOf' = [managerOf EXCEPT ![d] = m]
    /\ managedBy' = [managedBy EXCEPT ![m] = @ \cup {d}]

\* Unassign, and Release when only is a manager.
Removable(d, only) == managerOf[d] # NoOne /\ only \in {NoOne, managerOf[d]}

RemovePair(d) ==
    /\ managerOf' = [managerOf EXCEPT ![d] = NoOne]
    /\ managedBy' = [managedBy EXCEPT ![managerOf[d]] = @ \ {d}]

RekeyableManager(from, to) ==
    /\ managedBy[from] # {}
    /\ from = to \/ (to \notin managedBy[from] /\ managedBy[to] = {})

\* A rekey that moves the list of managed identities and not their manager.
RekeyManagerHalf(from, to) ==
    /\ managedBy' = [managedBy EXCEPT ![to] = managedBy[from], ![from] = {}]
    /\ UNCHANGED managerOf

RekeyManager(from, to) ==
    IF from = to THEN UNCHANGED <<managerOf, managedBy>>
    ELSE /\ managerOf' = [d \in LFDI |->
                            IF d \in managedBy[from] THEN to ELSE managerOf[d]]
         /\ managedBy' = [managedBy EXCEPT ![to] = managedBy[from], ![from] = {}]

RekeyableManaged(from, to) ==
    /\ managerOf[from] # NoOne
    /\ from = to \/ (to # managerOf[from] /\ managerOf[to] = NoOne)

RekeyManaged(from, to) ==
    LET m == managerOf[from]
    IN IF from = to THEN UNCHANGED <<managerOf, managedBy>>
       ELSE /\ managerOf' = [managerOf EXCEPT ![from] = NoOne, ![to] = m]
            /\ managedBy' = [managedBy EXCEPT ![m] = (@ \ {from}) \cup {to}]
-----------------------------------------------------------------------------
(***************************************************************************)
(* The admin plane's writes of management pairs and device profiles.  Each *)
(* handler first asks the kind gate, which reads the profiles and the      *)
(* pairs, and only then writes: the questions and the write are separate   *)
(* steps, and other requests run between them.                             *)
(***************************************************************************)

CONSTANTS Operators, \* concurrent admin requests
          NewKinds   \* the kinds a profile write may store

VARIABLE admin  \* operator -> the admin request in progress

adminVars == <<admin>>

NoAdmin == [do |-> "idle", pc |-> "idle", from |-> NoOne, to |-> NoOne, kind |-> "none"]

InitManagement == admin = [o \in Operators |-> NoAdmin]

-----------------------------------------------------------------------------
(* The kind gate *)

effectiveKind(l) ==
    IF profile[l] # "none" THEN profile[l]
    ELSE IF managedBy[l] # {} THEN "aggregator" ELSE "device"

\* A manager stored as a device, or itself managed, may not manage.
managerRefusal(l) == profile[l] = "device" \/ managerOf[l] # NoOne

managedRefusal(l) == effectiveKind(l) = "aggregator"

profileKindRefusal(l, kind) ==
    \/ kind = "aggregator" /\ managerOf[l] # NoOne
    \/ kind = "device" /\ managedBy[l] # {}

\* What an old identity still owns: its EndDevice record, or its mirrors.
remainingState(l, mirrors) == GetByLFDI(l) # NoOne \/ mirrors

-----------------------------------------------------------------------------
Goto(o, pc) == admin' = [admin EXCEPT ![o].pc = pc]
Answer(o) == admin' = [admin EXCEPT ![o] = NoAdmin]
AskOrRefuse(o, refused, pc) == IF refused THEN Answer(o) ELSE Goto(o, pc)

\* POST /api/management/pairs: from is to manage to.
HandleCreateManagementPair(o, m, d) ==
    /\ Arrive("admin")
    /\ admin[o].pc = "idle" /\ m # d
    /\ admin' = [admin EXCEPT ![o] = [do |-> "pair", pc |-> "askManager",
                                      from |-> m, to |-> d, kind |-> "none"]]
    /\ UNCHANGED <<storeVars, pairVars, faults>>

\* POST /api/management/rekey.  A managed-side rekey onto itself, or of an
\* identity with no manager, is refused before anything else is read.
HandleRekeyManagementPair(o, role, from, to) ==
    /\ Arrive("admin")
    /\ admin[o].pc = "idle"
    /\ role = "managed" => from # to /\ managerOf[from] # NoOne
    /\ admin' = [admin EXCEPT ![o] =
                    [do |-> role, from |-> from, to |-> to, kind |-> "none",
                     pc |-> IF role = "manager" THEN "askManager" ELSE "askManaged"]]
    /\ UNCHANGED <<storeVars, pairVars, faults>>

\* PUT /api/devices/{lfdi}/profile.
HandlePutDeviceProfile(o, l, kind) ==
    /\ Arrive("admin")
    /\ admin[o].pc = "idle"
    /\ admin' = [admin EXCEPT ![o] = [do |-> "profile", pc |-> "ask",
                                      from |-> l, to |-> l, kind |-> kind]]
    /\ UNCHANGED <<storeVars, pairVars, faults>>

\* The identity that is about to manage: a new pair's manager, or the one a
\* manager's pairs move to.
kindAllowedManager(o) ==
    /\ admin[o].pc = "askManager"
    /\ LET pair == admin[o].do = "pair"
           l == IF pair THEN admin[o].from ELSE admin[o].to
       IN AskOrRefuse(o, managerRefusal(l), IF pair THEN "askManaged" ELSE "write")
    /\ UNCHANGED <<left, storeVars, pairVars, faults>>

\* The identity that is about to be managed.
kindAllowedManaged(o) ==
    /\ admin[o].pc = "askManaged"
    /\ AskOrRefuse(o, managedRefusal(admin[o].to),
                   IF admin[o].do = "managed" THEN "health" ELSE "write")
    /\ UNCHANGED <<left, storeVars, pairVars, faults>>

\* A managed-side rekey is refused while the old identity owns anything.
askRemaining(o) ==
    /\ admin[o].pc = "health"
    /\ \E mirrors \in BOOLEAN :
          AskOrRefuse(o, remainingState(admin[o].from, mirrors), "write")
    /\ UNCHANGED <<left, storeVars, pairVars, faults>>

askProfile(o) ==
    /\ admin[o].pc = "ask"
    /\ AskOrRefuse(o, profileKindRefusal(admin[o].from, admin[o].kind), "write")
    /\ UNCHANGED <<left, storeVars, pairVars, faults>>

\* The store's own check and the write, one step under its mutex; a failed
\* file write changes nothing.
WritePair(o) ==
    LET a == admin[o]
        ready == CASE a.do = "pair" -> Assignable(a.from, a.to)
                   [] a.do = "manager" -> RekeyableManager(a.from, a.to)
                   [] a.do = "managed" -> RekeyableManaged(a.from, a.to)
    IN /\ a.pc = "write" /\ a.do \in {"pair", "manager", "managed"}
       /\ \E ok \in BOOLEAN :
            /\ Attempt(ok)
            /\ IF ready /\ ok
               THEN CASE a.do = "pair" -> Assign(a.from, a.to)
                      [] a.do = "manager" -> RekeyManager(a.from, a.to)
                      [] a.do = "managed" -> RekeyManaged(a.from, a.to)
               ELSE UNCHANGED <<managerOf, managedBy>>
       /\ Answer(o)
       /\ UNCHANGED <<left, storeVars, profile>>

\* DeviceProfileStore.Put: the file first, then the map.
WriteProfile(o) ==
    /\ admin[o].pc = "write" /\ admin[o].do = "profile"
    /\ \E ok \in BOOLEAN :
         /\ Attempt(ok)
         /\ profile' = IF ok THEN [profile EXCEPT ![admin[o].from] = admin[o].kind]
                       ELSE profile
    /\ Answer(o)
    /\ UNCHANGED <<left, storeVars, managerOf, managedBy>>

\* DELETE /api/management/pairs.
HandleRemoveManagementPair(d) ==
    /\ Arrive("admin")
    /\ Removable(d, NoOne)
    /\ \E ok \in BOOLEAN :
         /\ Attempt(ok)
         /\ IF ok THEN RemovePair(d) ELSE UNCHANGED <<managerOf, managedBy>>
    /\ UNCHANGED <<storeVars, profile, adminVars>>

ManagementNext ==
    \/ \E o \in Operators, m, d \in LFDI :
          HandleCreateManagementPair(o, m, d)
    \/ \E o \in Operators, role \in {"manager", "managed"}, from, to \in LFDI :
          HandleRekeyManagementPair(o, role, from, to)
    \/ \E o \in Operators, l \in LFDI, kind \in NewKinds :
          HandlePutDeviceProfile(o, l, kind)
    \/ \E o \in Operators :
          \/ kindAllowedManager(o) \/ kindAllowedManaged(o)
          \/ askRemaining(o) \/ askProfile(o)
          \/ WritePair(o) \/ WriteProfile(o)
    \/ \E d \in LFDI : HandleRemoveManagementPair(d)

-----------------------------------------------------------------------------
\* The two maps of the management store describe the same pairs, through
\* every assign, release, removal and rekey: managerOf answers the ownership
\* gate and managedBy the device list, and a pair known to only one of them
\* is access that cannot be listed or a listing that cannot be used.
PairMapsAgree ==
    \A m, d \in LFDI : managerOf[d] = m <=> d \in managedBy[m]
=============================================================================
