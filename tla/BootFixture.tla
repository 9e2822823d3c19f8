---------------------------- MODULE BootFixture -----------------------------
(***************************************************************************)
(* The boot fixture (internal/bootfixture): records named in a file and    *)
(* created at boot.  With a data directory the stores outlive the process, *)
(* so a boot reconciles: a record is created once, and what an operator    *)
(* has removed since is not brought back.  A process may stop between any  *)
(* two writes.  Device ids double as the identities the fixture gives.     *)
(***************************************************************************)
EXTENDS Integers, FiniteSets

CONSTANTS
    Ids,           \* EndDevice ids, each also an identity
    Stranger,      \* an identity of no fixture
    MaxEdits,      \* bound: changes an operator makes
    MaxBoots       \* bound: starts of the process

ASSUME FixtureConstants == Stranger \notin Ids /\ MaxEdits \in Nat /\ MaxBoots \in Nat

Kinds == <<"EndDevice", "FSA", "DERProgram", "DefaultDERControl", "DERControl", "DERCurve">>

FixtureKeys == {<<Kinds[i], d>> : i \in DOMAIN Kinds, d \in Ids}

\* What is kept in memory only, and created by every boot.
Volatile(k) == k[1] \in {"FSA", "DERCurve"}

Absent == "absent"

VARIABLES
    dataDir,       \* there is a data directory
    fixture,       \* keys of the fixture file
    holder,        \* EndDevice id -> identity stored there, or Absent
    present,       \* other keys stored
    bareHref,      \* device ids whose stored program has an href without an FSA
    seedFile,      \* the seed record, a set of keys
    bootAt,        \* where the process is
    plan,          \* keys still to create, programs to migrate, seed to write
    gone,          \* fixture keys an operator has removed, or whose parent they have
    editsLeft, bootsLeft

fixtureVars == <<dataDir, fixture, holder, present, bareHref, seedFile, bootAt, plan, gone, editsLeft, bootsLeft>>

NoPlan == [create |-> {}, migrate |-> {}, seeded |-> {}, changed |-> FALSE]

\* A new directory, or one an earlier release has left: a program whose href
\* names no FSA, with no seed record.
InitFixture ==
    /\ dataDir \in BOOLEAN
    /\ fixture \in {{k \in FixtureKeys : k[2] = d} : d \in Ids} \cup {{k \in FixtureKeys : k[1] \in {"EndDevice", "FSA"}}}
    /\ \E old \in (IF dataDir THEN SUBSET Ids ELSE {{}}) :
          /\ Cardinality(old) <= 1
          /\ holder = [d \in Ids |-> IF d \in old THEN d ELSE Absent]
          /\ present = {<<"DERProgram", d>> : d \in old} /\ bareHref = old
    /\ seedFile = {} /\ bootAt = "down" /\ plan = NoPlan /\ gone = {}
    /\ editsLeft = MaxEdits /\ bootsLeft = MaxBoots

Stored(k) == IF k[1] = "EndDevice" THEN holder[k[2]] = k[2] ELSE k \in present

-----------------------------------------------------------------------------
\* Reading.

\* The file decodes, and its records name parents that it holds.
readSpec(f) == f \subseteq FixtureKeys
applySpec(f) ==
    \A k \in f : /\ k[1] \in {"FSA", "DERProgram"} => <<"EndDevice", k[2]>> \in f
                 /\ k[1] = "DERProgram" => <<"FSA", k[2]>> \in f

Start ==
    /\ bootAt = "down" /\ bootsLeft > 0 /\ bootsLeft' = bootsLeft - 1
    /\ IF readSpec(fixture) /\ applySpec(fixture) THEN bootAt' = "plan" ELSE UNCHANGED bootAt
    /\ UNCHANGED <<dataDir, fixture, holder, present, bareHref, seedFile, plan, gone, editsLeft>>

\* Without a data directory there is nothing to reconcile with.
Load ==
    /\ bootAt = "plan" /\ ~ dataDir
    /\ plan' = [NoPlan EXCEPT !.create = fixture] /\ bootAt' = "apply"
    /\ UNCHANGED <<dataDir, fixture, holder, present, bareHref, seedFile, gone, editsLeft, bootsLeft>>

-----------------------------------------------------------------------------
\* The plan.

\* A second EndDevice that holds an identity of the fixture.
endDeviceHoldingIdentifier(d) == {e \in Ids \ {d} : holder[e] = d}
checkIdentifiersFree(d) == endDeviceHoldingIdentifier(d) = {}

\* An EndDevice that has not been seeded must be able to take its id.
identityConflict(seeded) ==
    \E d \in Ids : /\ <<"EndDevice", d>> \in fixture \ seeded
                   /\ holder[d] \notin {Absent, d} \/ ~ checkIdentifiersFree(d)

\* EndDevices that are gone, or whose id another identity now holds.
skippedEndDevices(seeded) == {d \in Ids : <<"EndDevice", d>> \in fixture \cap seeded /\ holder[d] # d}

skippedPrograms(seeded) ==
    {d \in Ids : /\ <<"DERProgram", d>> \in fixture
                 /\ \/ d \in skippedEndDevices(seeded)
                    \/ <<"DERProgram", d>> \in seeded \ present}

\* A record with a parent that is skipped is passed over.
underSkipped(k, seeded) ==
    \/ k[1] \in {"FSA", "DERProgram"} /\ k[2] \in skippedEndDevices(seeded)
    \/ k[1] \in {"DefaultDERControl", "DERControl"} /\ k[2] \in skippedEndDevices(seeded) \cup skippedPrograms(seeded)

toCreate(seeded) ==
    {k \in fixture : ~ underSkipped(k, seeded) /\ (Volatile(k) \/ (~ Stored(k) /\ k \notin seeded))}

\* Programs with an old href, which are moved to their FSA.
toMigrate(seeded) ==
    {d \in bareHref : <<"DERProgram", d>> \in fixture \cap present /\ ~ underSkipped(<<"DERProgram", d>>, seeded)}

\* Everything in the fixture counts as seeded from here on.
recorded(seeded) == seeded \cup {k \in fixture : ~ Volatile(k)}

planReconcile ==
    /\ bootAt = "plan" /\ dataDir
    /\ IF identityConflict(seedFile) THEN bootAt' = "down" /\ UNCHANGED <<plan, gone>>
       ELSE /\ plan' = [create |-> toCreate(seedFile), migrate |-> toMigrate(seedFile),
                        seeded |-> recorded(seedFile), changed |-> recorded(seedFile) # seedFile]
            /\ gone' = gone \cup {k \in fixture : underSkipped(k, seedFile) /\ ~ Stored(k) /\ ~ Volatile(k)}
            /\ bootAt' = "apply"
    /\ UNCHANGED <<dataDir, fixture, holder, present, bareHref, seedFile, editsLeft, bootsLeft>>

-----------------------------------------------------------------------------
\* Carrying it out, one write at a time: kind by kind, migrations after the
\* programs.

Rank(kind) == CHOOSE i \in DOMAIN Kinds : Kinds[i] = kind
Turn(k) == \A j \in plan.create : Rank(k[1]) <= Rank(j[1])

createEndDevice(k) == k[1] = "EndDevice" /\ holder' = [holder EXCEPT ![k[2]] = k[2]] /\ UNCHANGED <<present, bareHref>>
Keep(k) == present' = present \cup {k} /\ UNCHANGED <<holder, bareHref>>
createFSA(k) == k[1] = "FSA" /\ Keep(k)
createDERProgram(k) == k[1] = "DERProgram" /\ Keep(k)
createDefaultDERControl(k) == k[1] = "DefaultDERControl" /\ plan.migrate = {} /\ Keep(k)
createDERControl(k) == k[1] = "DERControl" /\ plan.migrate = {} /\ Keep(k)
createDERCurve(k) == k[1] = "DERCurve" /\ plan.migrate = {} /\ Keep(k)

apply ==
    /\ bootAt = "apply"
    /\ \E k \in plan.create :
          /\ Turn(k)
          /\ \/ createEndDevice(k) \/ createFSA(k) \/ createDERProgram(k)
             \/ createDefaultDERControl(k) \/ createDERControl(k) \/ createDERCurve(k)
          /\ plan' = [plan EXCEPT !.create = @ \ {k}]
    /\ UNCHANGED <<dataDir, fixture, seedFile, bootAt, gone, editsLeft, bootsLeft>>

migratedProgram(d) ==
    /\ bootAt = "apply" /\ d \in plan.migrate
    /\ \A k \in plan.create : Rank(k[1]) > Rank("DERProgram")
    /\ plan' = [plan EXCEPT !.migrate = @ \ {d}]
    /\ bareHref' = bareHref \ {d}
    /\ UNCHANGED <<dataDir, fixture, holder, present, seedFile, bootAt, gone, editsLeft, bootsLeft>>

writeSeedRecordFirst ==
    /\ bootAt = "apply"
    /\ seedFile' = IF plan.changed THEN plan.seeded ELSE seedFile
    /\ IF plan.create = {} /\ plan.migrate = {} THEN bootAt' = "check" /\ plan' = NoPlan ELSE plan' = [plan EXCEPT !.changed = FALSE] /\ UNCHANGED bootAt
    /\ UNCHANGED <<dataDir, fixture, holder, present, bareHref, gone, editsLeft, bootsLeft>>

\* The record is replaced as a whole, after everything it names.
writeSeedRecord ==
    /\ bootAt = "apply" /\ plan.create = {} /\ plan.migrate = {}
    /\ seedFile' = IF plan.changed THEN plan.seeded ELSE seedFile
    /\ bootAt' = "check" /\ plan' = NoPlan
    /\ UNCHANGED <<dataDir, fixture, holder, present, bareHref, gone, editsLeft, bootsLeft>>

\* A server with a program that has an old href does not start.
CheckDERProgramHrefs ==
    /\ bootAt = "check"
    /\ bootAt' = IF \E d \in bareHref : <<"DERProgram", d>> \in present THEN "down" ELSE "serving"
    /\ UNCHANGED <<dataDir, fixture, holder, present, bareHref, seedFile, plan, gone, editsLeft, bootsLeft>>

\* The process stops: at a failed write, at a crash, or from serving.
Stop ==
    /\ bootAt # "down" /\ bootAt' = "down" /\ plan' = NoPlan
    /\ IF dataDir THEN present' = {k \in present : ~ Volatile(k)} /\ UNCHANGED <<holder, gone>>
       ELSE present' = {} /\ holder' = [d \in Ids |-> Absent] /\ gone' = {}
    /\ UNCHANGED <<dataDir, fixture, bareHref, seedFile, editsLeft, bootsLeft>>

-----------------------------------------------------------------------------
\* Operators.

Edit == editsLeft > 0 /\ editsLeft' = editsLeft - 1

OperatorRemoves(k) ==
    /\ bootAt = "serving" /\ Edit /\ ~ Volatile(k)
    /\ IF k[1] = "EndDevice" THEN holder[k[2]] # Absent /\ holder' = [holder EXCEPT ![k[2]] = Absent] /\ UNCHANGED present
       ELSE k \in present /\ present' = present \ {k} /\ UNCHANGED holder
    /\ gone' = IF k \in fixture /\ Stored(k) THEN gone \cup {k} ELSE gone
    /\ UNCHANGED <<dataDir, fixture, bareHref, seedFile, bootAt, plan, bootsLeft>>

\* A device is added at a free id, under any identity nobody holds.
OperatorAdds(d, id) ==
    /\ bootAt = "serving" /\ Edit /\ holder[d] = Absent /\ \A e \in Ids : holder[e] # id
    /\ holder' = [holder EXCEPT ![d] = id]
    /\ gone' = IF id = d THEN gone \ {<<"EndDevice", d>>} ELSE gone
    /\ UNCHANGED <<dataDir, fixture, present, bareHref, seedFile, bootAt, plan, bootsLeft>>

\* The fixture file is extended.
FixtureGrows(k) ==
    /\ bootAt = "down" /\ Edit /\ k \notin fixture /\ fixture' = fixture \cup {k}
    /\ UNCHANGED <<dataDir, holder, present, bareHref, seedFile, bootAt, plan, gone, bootsLeft>>

FixtureNext ==
    \/ Start \/ Load \/ planReconcile \/ apply \/ writeSeedRecord \/ CheckDERProgramHrefs \/ Stop
    \/ \E d \in Ids : migratedProgram(d) \/ (\E id \in Ids \cup {Stranger} : OperatorAdds(d, id))
    \/ \E k \in FixtureKeys : OperatorRemoves(k) \/ FixtureGrows(k)

-----------------------------------------------------------------------------
\* What an operator has removed stays removed over every boot, complete or
\* cut short (planReconcile, "deleted since seeded").
RemovedStaysRemoved == \A k \in gone : ~ Stored(k)

\* A server that serves holds every record of its fixture that no operator
\* has removed, whatever boots were cut short before: a seed record never
\* vouches for a record that was not written.
FixtureIsServed == bootAt = "serving" => \A k \in fixture : Volatile(k) \/ Stored(k) \/ k \in gone

\* Boots and operators, in any order and however boots end, neither bring back
\* what was removed nor forget what is to be served.
FixtureIsKept == RemovedStaysRemoved /\ FixtureIsServed
=============================================================================
