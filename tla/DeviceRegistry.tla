---------------------------- MODULE DeviceRegistry ----------------------------
(***************************************************************************)
(* The EndDevice handlers over the device stores: POST, PUT and DELETE     *)
(* /edev with the ownership gate in front, the writes a device or its      *)
(* manager makes under /edev/{id}, and the admin form that adds a device.  *)
(* A handler reads, then writes one store after another; each store write  *)
(* is a step, any of them may fail, and requests interleave between them.  *)
(***************************************************************************)
EXTENDS DeviceStores

CONSTANTS Clients,     \* the identities that send requests
          Added,       \* the identities the admin form adds
          Written,     \* the families their requests below /edev/{id} write
          InBandOff,   \* the server option that refuses manager requests
          MaxRestarts  \* bound: restarts

VARIABLES req,      \* client -> its request in progress
          form,     \* the admin add in progress
          postMu,   \* HandleCreateEndDevice's mutex: who holds it, or NoOne
          restarts

regVars == <<req, form, postMu, restarts>>

FR == {"frq", "frp"}

\* had: what a delete has taken out of the flow reservation stores and can
\* still put back, lost: what it could not put back; who: the identity a POST
\* stores, or a PUT keeps; mgr: the delegated manager the gate recorded on a
\* DELETE.
Idle == [op |-> "idle", pc |-> "idle", key |-> 0, who |-> NoOne, mgr |-> NoOne,
         had |-> [f \in FR |-> NoOne], lost |-> {}, taken |-> {}]
NoForm == [pc |-> "idle", who |-> NoOne, kind |-> "none"]

InitRegistry ==
    /\ req = [c \in Clients |-> Idle]
    /\ form = NoForm
    /\ postMu = NoOne
    /\ restarts = 0

End(c) == req' = [req EXCEPT ![c] = Idle]

-----------------------------------------------------------------------------
(* The ownership gate *)

\* delegable(pattern): reads, the four DER puts, log events and the DELETE of
\* the device are open to its manager; its subscriptions and flow
\* reservations, its PUT and its pIN are not.
Delegable(op, f) == op = "delete" \/ (op = "write" /\ f \in {"der", "log"})

CurrentManagerOwns(d, c) == managerOf[d] = c

\* exclusive: a managed identity is refused everywhere while its pair lasts.
Exclusive(c) == managerOf[c] = NoOne

\* decideFor: the record's own identity, or its manager on an open route.
DecideFor(c, k, op, f) ==
    /\ devs[k] # NoOne
    /\ \/ devs[k] = c
       \/ Delegable(op, f) /\ CurrentManagerOwns(devs[k], c)

Admit(c, k, op, f) ==
    /\ req[c].op = "idle"
    /\ Exclusive(c)
    /\ DecideFor(c, k, op, f)

-----------------------------------------------------------------------------
(* POST /edev *)

\* resolveTarget, before the lock: the caller itself, or an identity it
\* manages while in-band management is on.
resolveTarget(c, l) ==
    /\ Arrive("client")
    /\ req[c].op = "idle" /\ Exclusive(c)
    /\ l = c \/ (~InBandOff /\ CurrentManagerOwns(l, c))
    /\ req' = [req EXCEPT ![c] = [Idle EXCEPT !.op = "post", !.pc = "lookup", !.who = l]]
    /\ UNCHANGED <<storeVars, pairVars, adminVars, faults, form, postMu, restarts>>

\* The lookup done before the lock is taken.
lookupUnlocked(c) ==
    LET l == req[c].who
        k == Allocated(l)
    IN /\ req[c].op = "post" /\ req[c].pc = "lookup"
       /\ k \in Keys /\ GetBySFDI(l) = NoOne
       /\ Allocate(l)
       /\ req' = [req EXCEPT ![c].pc = "create", ![c].key = k]
       /\ UNCHANGED <<left, devs, devsDisk, lfdiIndex, sfdiIndex, regs, regsDisk, keyed,
                      faults, pairVars, adminVars, form, postMu, restarts>>

\* Under the lock: an identity or short identity already held ends the
\* request; otherwise a key is allocated and, when vacant, swept of the
\* subscriptions a failed delete left there.
postLookup(c) ==
    LET l == req[c].who
        managed == l # c
        held == \/ managed /\ GetByLFDI(l) # NoOne
                \/ GetBySFDI(l) # NoOne
        k == Allocated(l)
    IN /\ req[c].op = "post" /\ req[c].pc = "lookup" /\ postMu = NoOne
       /\ IF held
          THEN End(c) /\ UNCHANGED <<byKey, nextKey, keyed, postMu, faults>>
          ELSE /\ k \in Keys
               /\ Allocate(l)
               /\ \E swept \in BOOLEAN :
                    /\ Attempt(swept)
                    /\ IF swept
                       THEN /\ req' = [req EXCEPT ![c].pc = "create", ![c].key = k]
                            /\ keyed' = IF devs[k] = NoOne
                                        THEN [keyed EXCEPT ![k]["sub"] = NoOne] ELSE keyed
                            /\ postMu' = c
                       ELSE End(c) /\ UNCHANGED <<keyed, postMu>>
       /\ UNCHANGED <<left, devs, devsDisk, lfdiIndex, sfdiIndex, regs, regsDisk,
                      pairVars, adminVars, form, restarts>>

\* RegisteredEndDeviceStore.Create, first half: the record.  A key another
\* writer took meanwhile answers a conflict, or the record already there.
postCreate(c) ==
    LET k == req[c].key
        l == req[c].who
    IN /\ req[c].op = "post" /\ req[c].pc = "create"
       /\ IF devs[k] # NoOne
          THEN /\ End(c) /\ postMu' = NoOne
               /\ UNCHANGED <<devs, devsDisk, lfdiIndex, sfdiIndex, faults>>
          ELSE \E ok \in BOOLEAN :
               /\ Attempt(ok)
               /\ CreateDevice(k, l, ok)
               /\ IF ok THEN req' = [req EXCEPT ![c].pc = "register"] /\ UNCHANGED postMu
                  ELSE End(c) /\ postMu' = NoOne
       /\ UNCHANGED <<left, regs, regsDisk, keyed, byKey, nextKey, pairVars, adminVars,
                      form, restarts>>

\* A create that leaves the Registration it finds under the key of an
\* unprovisioned device.
SettleProvisionedOnly(k, l) ==
    /\ keyed' = [keyed EXCEPT ![k]["der"] = IF @ = NoOne THEN l ELSE @]
    /\ IF l \in Provisioned THEN PutRegistration(k, l, TRUE) ELSE UNCHANGED <<regs, regsDisk>>
    /\ UNCHANGED <<devs, devsDisk, lfdiIndex, sfdiIndex, faults>>

\* The second half: the pIN of a provisioned identity replaces whatever is
\* under the key, and an unprovisioned one clears it.  A failure takes the
\* record out again.  Then the default DER is seeded.
SettleRegistration(k, l) ==
    \E ok, undone \in BOOLEAN :
      /\ Fail(Cardinality({i \in {1, 2} : ~<<ok, undone>>[i]}))
      /\ IF l \in Provisioned THEN PutRegistration(k, l, ok)
         ELSE DeleteRegistration(k, ok)
      /\ IF ok \/ (l \notin Provisioned /\ regs[k] = NoOne)
         THEN /\ undone
              /\ keyed' = [keyed EXCEPT ![k]["der"] = IF @ = NoOne THEN l ELSE @]
              /\ UNCHANGED <<devs, devsDisk, lfdiIndex, sfdiIndex>>
         ELSE /\ IF devs[k] = NoOne THEN UNCHANGED <<devs, devsDisk, lfdiIndex, sfdiIndex>>
                 ELSE DeleteDevice(k, undone)
              /\ UNCHANGED keyed

postRegister(c) ==
    LET k == req[c].key
        l == req[c].who
    IN /\ req[c].op = "post" /\ req[c].pc = "register"
       /\ SettleRegistration(k, l)
       /\ End(c) /\ postMu' = NoOne
       /\ UNCHANGED <<left, byKey, nextKey, pairVars, adminVars, form, restarts>>

-----------------------------------------------------------------------------
(* PUT /edev/{id}, and the writes below it *)

\* The record is read, its identity kept, and the body stored: two steps.
putRead(c, k) ==
    /\ Arrive("client")
    /\ Admit(c, k, "put", "")
    /\ req' = [req EXCEPT ![c] = [Idle EXCEPT !.op = "put", !.pc = "write",
                                              !.key = k, !.who = devs[k]]]
    /\ UNCHANGED <<storeVars, pairVars, adminVars, faults, form, postMu, restarts>>

putWrite(c) ==
    /\ req[c].op = "put"
    /\ IF devs[req[c].key] = NoOne
       THEN UNCHANGED <<devs, devsDisk, lfdiIndex, sfdiIndex, faults>>
       ELSE \E ok \in BOOLEAN :
              Attempt(ok) /\ UpdateDevice(req[c].key, req[c].who, ok)
    /\ End(c)
    /\ UNCHANGED <<left, regs, regsDisk, keyed, byKey, nextKey, pairVars, adminVars,
                   form, postMu, restarts>>

\* A device, or its manager where the gate allows, posts below the record:
\* the gate answers first, the write follows.
writeAdmitted(c, k, f) ==
    /\ Arrive("client")
    /\ Admit(c, k, "write", f)
    /\ req' = [req EXCEPT ![c] = [Idle EXCEPT !.op = "write", !.pc = f, !.key = k,
                                              !.who = devs[k]]]
    /\ UNCHANGED <<storeVars, pairVars, adminVars, faults, form, postMu, restarts>>

writeBelow(c) ==
    /\ req[c].op = "write"
    /\ keyed' = [keyed EXCEPT ![req[c].key][req[c].pc] = req[c].who]
    /\ End(c)
    /\ UNCHANGED <<left, devs, devsDisk, lfdiIndex, sfdiIndex, regs, regsDisk, byKey,
                   nextKey, pairVars, adminVars, faults, form, postMu, restarts>>

-----------------------------------------------------------------------------
(* DELETE /edev/{id} *)

deleteAdmitted(c, k) ==
    /\ Arrive("client")
    /\ Admit(c, k, "delete", "")
    /\ req' = [req EXCEPT ![c] =
                 [Idle EXCEPT !.op = "delete", !.key = k, !.who = devs[k],
                              !.mgr = IF devs[k] = c THEN NoOne ELSE c,
                              !.pc = IF devs[k] = c THEN "take" ELSE "release"]]
    /\ UNCHANGED <<storeVars, pairVars, adminVars, faults, form, postMu, restarts>>

\* releaseManagedPair: a manager gives up its pair before anything is
\* deleted; a pair that is gone, or cannot be written, stops the delete.
releaseManagedPair(c) ==
    LET k == req[c].key
        d == devs[k]
    IN /\ req[c].op = "delete" /\ req[c].pc = "release"
       /\ IF InBandOff \/ d = NoOne \/ ~Removable(d, c)
          THEN End(c) /\ UNCHANGED <<managerOf, managedBy, faults>>
          ELSE \E ok \in BOOLEAN :
               /\ Attempt(ok)
               /\ IF ok THEN RemovePair(d) /\ req' = [req EXCEPT ![c].pc = "take"]
                  ELSE UNCHANGED <<managerOf, managedBy>> /\ End(c)
       /\ UNCHANGED <<left, storeVars, profile, adminVars, form, postMu, restarts>>

\* FlowReservationLinkedEndDeviceStore.Delete: the whole chain is probed,
\* then the requests are taken out; a failure so far has changed nothing.
takeRequests(c) ==
    LET k == req[c].key
    IN /\ req[c].op = "delete" /\ req[c].pc = "take"
       /\ \E ok \in BOOLEAN :
            /\ Attempt(ok)
            /\ IF ok
               THEN /\ keyed' = [keyed EXCEPT ![k]["frq"] = NoOne]
                    /\ req' = [req EXCEPT ![c].pc = "responses", ![c].had["frq"] = keyed[k]["frq"]]
               ELSE UNCHANGED keyed /\ End(c)
       /\ UNCHANGED <<left, devs, devsDisk, lfdiIndex, sfdiIndex, regs, regsDisk, byKey,
                      nextKey, pairVars, adminVars, form, postMu, restarts>>

\* A failed delete that forgets the undo functions.
failDeleteWithoutUndo(c, from, lost) ==
    req' = [req EXCEPT ![c].pc = "failed", ![c].lost = lost]

\* fail: the undo functions so far run, the last one first.
failDelete(c, from, lost) ==
    req' = [req EXCEPT ![c].pc = from, ![c].lost = lost]

\* Then the responses with their lifecycle records.  When the second of these
\* two stores fails, the first puts its records back at once (undone), or
\* loses them; either way the requests follow.
takeResponses(c) ==
    LET k == req[c].key
    IN /\ req[c].op = "delete" /\ req[c].pc = "responses"
       /\ \E ok, undone \in BOOLEAN :
            /\ Fail(Cardinality({i \in {1, 2} : ~<<ok, undone>>[i]}))
            /\ (ok => undone)
            /\ keyed' = IF ok \/ ~undone THEN [keyed EXCEPT ![k]["frp"] = NoOne] ELSE keyed
            /\ IF ok
               THEN req' = [req EXCEPT ![c].pc = "cascade", ![c].had["frp"] = keyed[k]["frp"]]
               ELSE failDelete(c, "undoRequests", IF undone THEN {} ELSE {"frp"})
       /\ UNCHANGED <<left, devs, devsDisk, lfdiIndex, sfdiIndex, regs, regsDisk, byKey,
                      nextKey, pairVars, adminVars, form, postMu, restarts>>

\* One undo function: Create writes the record back under its key, beside
\* what was written there meanwhile.  A write that fails loses the record,
\* and the DELETE's answer and the log say so.
undo(c, pc, f, next) ==
    LET k == req[c].key
        was == req[c].had[f]
    IN /\ req[c].op = "delete" /\ req[c].pc = pc
       /\ \E ok \in BOOLEAN :
            /\ Attempt(ok)
            /\ (was = NoOne => ok)
            /\ keyed' = [keyed EXCEPT ![k][f] = IF ok /\ @ = NoOne THEN was ELSE @]
            /\ req' = [req EXCEPT ![c].pc = next, ![c].lost = IF ok THEN @ ELSE @ \cup {f}]
       /\ UNCHANGED <<left, devs, devsDisk, lfdiIndex, sfdiIndex, regs, regsDisk, byKey,
                      nextKey, pairVars, adminVars, form, postMu, restarts>>

undoResponses(c) == undo(c, "undoResponses", "frp", "undoRequests")
undoRequests(c) == undo(c, "undoRequests", "frq", "failed")

\* DeviceKeyedCascadeEndDeviceStore and LogEventLinkedEndDeviceStore: the
\* device-keyed families, then the log events, one after the other.
cascade(c) ==
    LET k == req[c].key
    IN /\ req[c].op = "delete" /\ req[c].pc = "cascade"
       /\ \E ok \in BOOLEAN :
            /\ Attempt(ok)
            /\ IF ok
               THEN LET next == IF "der" \in req[c].taken THEN "log" ELSE "der"
                    IN /\ keyed' = [keyed EXCEPT ![k][next] = NoOne]
                       /\ req' = [req EXCEPT ![c].taken = @ \cup {next},
                                    ![c].pc = IF next = "log" THEN "registration" ELSE @]
               ELSE failDelete(c, "undoResponses", {}) /\ UNCHANGED keyed
       /\ UNCHANGED <<left, devs, devsDisk, lfdiIndex, sfdiIndex, regs, regsDisk, byKey,
                      nextKey, pairVars, adminVars, form, postMu, restarts>>

\* RegisteredEndDeviceStore.Delete: the Registration first, so that a
\* failure leaves the record for a retry to find.
deleteRegistration(c) ==
    LET k == req[c].key
    IN /\ req[c].op = "delete" /\ req[c].pc = "registration"
       /\ \E ok \in BOOLEAN :
            /\ Attempt(ok)
            /\ DeleteRegistration(k, ok)
            /\ IF ok \/ regs[k] = NoOne
               THEN req' = [req EXCEPT ![c].pc = "record",
                         ![c].taken = IF regs[k] # NoOne THEN @ \cup {"reg"} ELSE @]
               ELSE failDelete(c, "undoResponses", {})
       /\ UNCHANGED <<left, devs, devsDisk, lfdiIndex, sfdiIndex, keyed, byKey, nextKey,
                      pairVars, adminVars, form, postMu, restarts>>

\* A record already gone is not found, unless this call removed the
\* Registration; a failed snapshot has removed the record from memory.
deleteRecord(c) ==
    LET k == req[c].key
    IN /\ req[c].op = "delete" /\ req[c].pc = "record"
       /\ IF devs[k] = NoOne
          THEN /\ IF "reg" \in req[c].taken
                  THEN req' = [req EXCEPT ![c].pc = "notify"]
                  ELSE failDelete(c, "undoResponses", {})
               /\ UNCHANGED <<devs, devsDisk, lfdiIndex, sfdiIndex, faults>>
          ELSE \E ok \in BOOLEAN :
               /\ Attempt(ok)
               /\ DeleteDevice(k, ok)
               /\ IF ok THEN req' = [req EXCEPT ![c].pc = "notify"]
                  ELSE failDelete(c, "undoResponses", {})
       /\ UNCHANGED <<left, regs, regsDisk, keyed, byKey, nextKey, pairVars, adminVars,
                      form, postMu, restarts>>

\* The list and record notices are queued, then the device's subscriptions
\* are removed; a failure there leaves them for the next POST to sweep.
afterNotify(c) ==
    /\ req[c].op = "delete" /\ req[c].pc = "notify"
    /\ \E ok \in BOOLEAN :
         /\ Attempt(ok)
         /\ keyed' = IF ok THEN [keyed EXCEPT ![req[c].key]["sub"] = NoOne] ELSE keyed
    /\ End(c)
    /\ UNCHANGED <<left, devs, devsDisk, lfdiIndex, sfdiIndex, regs, regsDisk, byKey,
                   nextKey, pairVars, adminVars, form, postMu, restarts>>

\* The failed DELETE's answer.
answerFailed(c) ==
    /\ req[c].op = "delete" /\ req[c].pc = "failed"
    /\ End(c)
    /\ UNCHANGED <<left, storeVars, pairVars, adminVars, faults, form, postMu, restarts>>

\* An operator's answer to the device's request, as these stores see it: a
\* response under its key.
answerReservation(k) ==
    /\ Arrive("admin")
    /\ devs[k] # NoOne /\ keyed[k]["frq"] # NoOne
    /\ keyed' = [keyed EXCEPT ![k]["frp"] = keyed[k]["frq"]]
    /\ UNCHANGED <<devs, devsDisk, lfdiIndex, sfdiIndex, regs, regsDisk, byKey, nextKey,
                   pairVars, adminVars, faults, regVars>>

-----------------------------------------------------------------------------
(* POST /api/devices: the admin form writes the undecorated stores. *)

\* The kind gate and the identity lookup.
HandleAddEndDevice(l, kind) ==
    /\ Arrive("form")
    /\ form.pc = "idle"
    /\ ~profileKindRefusal(l, kind)
    /\ GetByLFDI(l) = NoOne
    /\ form' = [pc |-> "create", who |-> l, kind |-> kind]
    /\ UNCHANGED <<storeVars, pairVars, adminVars, faults, req, postMu, restarts>>

\* The record at the SFDI prefix, unless one is there.
addRecord ==
    LET k == Prefix[form.who]
    IN /\ form.pc = "create"
       /\ \E ok \in BOOLEAN :
            /\ Attempt(ok)
            /\ CreateDevice(k, form.who, ok /\ devs[k] = NoOne)
            /\ form' = IF ok /\ devs[k] = NoOne
                       THEN [form EXCEPT !.pc = "register"] ELSE NoForm
       /\ UNCHANGED <<left, regs, regsDisk, keyed, byKey, nextKey, pairVars, adminVars,
                      req, postMu, restarts>>

\* rollbackAddedDevice: both halves are tried, and a failure of either is
\* only logged.
rollbackAddedDevice(k, undone) ==
    /\ DeleteRegistration(k, undone)
    /\ IF devs[k] = NoOne THEN UNCHANGED <<devs, devsDisk, lfdiIndex, sfdiIndex>>
       ELSE DeleteDevice(k, undone)

\* The Registration; one already under the key, or a failed write, rolls
\* both back.
addRegistration ==
    LET k == Prefix[form.who]
    IN /\ form.pc = "register"
       /\ \E ok, undone \in BOOLEAN :
            /\ Fail(Cardinality({i \in {1, 2} : ~<<ok, undone>>[i]}))
            /\ IF ok /\ regs[k] = NoOne
               THEN /\ undone
                    /\ PutRegistration(k, form.who, TRUE)
                    /\ form' = IF form.kind = "none" THEN NoForm
                               ELSE [form EXCEPT !.pc = "profile"]
                    /\ UNCHANGED <<devs, devsDisk, lfdiIndex, sfdiIndex>>
               ELSE rollbackAddedDevice(k, undone) /\ form' = NoForm
       /\ UNCHANGED <<left, keyed, byKey, nextKey, pairVars, adminVars, req, postMu, restarts>>

\* The profile, when the form named a kind; its failure rolls back too.
addProfile ==
    /\ form.pc = "profile"
    /\ \E ok, undone \in BOOLEAN :
         /\ Fail(Cardinality({i \in {1, 2} : ~<<ok, undone>>[i]}))
         /\ IF ok
            THEN /\ undone
                 /\ profile' = [profile EXCEPT ![form.who] = form.kind]
                 /\ UNCHANGED <<devs, devsDisk, lfdiIndex, sfdiIndex, regs, regsDisk>>
            ELSE rollbackAddedDevice(Prefix[form.who], undone) /\ UNCHANGED profile
    /\ form' = NoForm
    /\ UNCHANGED <<left, keyed, byKey, nextKey, managerOf, managedBy, adminVars, req,
                   postMu, restarts>>

\* A clean restart: no request is in progress.
Restart ==
    /\ restarts < MaxRestarts
    /\ \A c \in Clients : req[c] = Idle
    /\ \A o \in Operators : admin[o] = NoAdmin
    /\ form = NoForm
    /\ Reload
    /\ restarts' = restarts + 1
    /\ UNCHANGED <<left, pairVars, adminVars, faults, req, form, postMu>>

ClientNext(c) ==
    \/ \E l \in LFDI : resolveTarget(c, l)
    \/ postLookup(c) \/ postCreate(c) \/ postRegister(c)
    \/ \E k \in Keys : putRead(c, k)
    \/ putWrite(c)
    \/ \E k \in Keys, f \in Written : writeAdmitted(c, k, f)
    \/ writeBelow(c)
    \/ \E k \in Keys : deleteAdmitted(c, k)
    \/ releaseManagedPair(c) \/ takeRequests(c) \/ takeResponses(c) \/ cascade(c)
    \/ undoResponses(c) \/ undoRequests(c)
    \/ deleteRegistration(c) \/ deleteRecord(c) \/ afterNotify(c) \/ answerFailed(c)

InitDevices == InitStores /\ InitManagement /\ InitRegistry

DevicesNext ==
    \/ ManagementNext /\ UNCHANGED regVars
    \/ \E c \in Clients : ClientNext(c)
    \/ \E k \in Keys : answerReservation(k)
    \/ \E l \in Added, kind \in NewKinds \cup {"none"} : HandleAddEndDevice(l, kind)
    \/ addRecord \/ addRegistration \/ addProfile
    \/ Restart

deviceVars == <<storeVars, pairVars, adminVars, faults, left, regVars>>
DevicesSpec == InitDevices /\ [][DevicesNext]_deviceVars

-----------------------------------------------------------------------------
Registering(k) ==
    \/ \E c \in Clients : req[c].op = "post" /\ req[c].pc = "register" /\ req[c].key = k
    \/ form.pc = "register" /\ Prefix[form.who] = k

\* The pIN stored under a record's key was provisioned for that record's
\* identity.  Keys are reused (the index is seeded from the records at every
\* start, so a deleted device's number goes to the next one), a delete may
\* fail half way and a Registration may outlive its device on disk; Create
\* must then replace or clear what it finds (registrationbinding.go:231).
OwnRegistration ==
    \A k \in Keys : devs[k] # NoOne /\ regs[k] # NoOne /\ ~Registering(k)
                      => regs[k] = devs[k]

Holding(c) == /\ req[c].op = "delete"
              /\ req[c].pc \in {"responses", "cascade", "registration", "record",
                                "undoResponses", "undoRequests"}

\* A delete that has taken a device's flow reservations out gives them back
\* unless the device is gone: whatever fails after the take, and whichever
\* requests run in between, a device that survives its own DELETE keeps its
\* requests and responses (FlowReservationLinkedEndDeviceStore.Delete), but
\* for a record whose own restore failed in its turn.  So one failed write
\* loses nothing, and two lose only what the answer names.
HeldOrRestored ==
    [][\A c \in Clients, f \in FR :
         Holding(c) /\ req[c].had[f] # NoOne /\ ~Holding(c)'
           => \/ keyed'[req[c].key][f] # NoOne
              \/ devs'[req[c].key] = NoOne
              \/ f \in req'[c].lost]_deviceVars

\* Two POST /edev never leave two records for one identity, or for two
\* identities with one SFDI: a device registering itself, its manager
\* registering it, and a certificate whose SFDI collides all race the
\* lookups, and the lookups and the create are one critical section.  (The
\* admin form is outside it, and indexes what it adds by SFDI as well: the
\* statement is about identities whose SFDI the form does not add.)
PostsDoNotDuplicate ==
    LET indexed == {k \in Keys : k \notin {Prefix[l] : l \in LFDI} /\ devs[k] # NoOne}
        formed == {Sfdi[l] : l \in Added}
    IN \A j, k \in indexed :
         Sfdi[devs[j]] = Sfdi[devs[k]] /\ Sfdi[devs[j]] \notin formed => j = k

\* The registry tells devices apart: OwnRegistration, PostsDoNotDuplicate and
\* PairMapsAgree at every state, HeldOrRestored at every step.
RegistryIsTrue == [](OwnRegistration /\ PostsDoNotDuplicate /\ PairMapsAgree) /\ HeldOrRestored
=============================================================================
