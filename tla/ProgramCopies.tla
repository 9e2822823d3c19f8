---------------------------- MODULE ProgramCopies ----------------------------
(***************************************************************************)
(* DER programs on the operator's function set assignments (FSAs): the     *)
(* program templates of an FSA, the copy of each template every assigned   *)
(* device holds, and the programs a device has of its own.                 *)
(*                                                                         *)
(* A copy is three records in three stores, written in the order origin,   *)
(* default control, program and removed in the reverse order; a handler    *)
(* writes them device by device, one store write at a time, and undoes or  *)
(* keeps what it wrote when a write fails.  A restart completes and        *)
(* updates every copy.  programMu admits one such handler at a time.  The  *)
(* deletion of an FSA and of an EndDevice do not take it.                  *)
(*                                                                         *)
(* The FSA snapshot, origins and default controls undo a write whose file  *)
(* cannot be replaced; the program store keeps it in memory and returns    *)
(* the error (see SnapshotStores).  The device's own FSA list is in memory *)
(* only.  A body stands for a program's description and primacy, a base    *)
(* for a default control's content; 0 is no default control.               *)
(***************************************************************************)
EXTENDS Integers, SequencesExt

CONSTANTS
    CopyDevices,    \* EndDevice keys
    CopyTemplates,  \* ids mintTemplateIDs can draw
    OwnPrograms,    \* ids of programs a device has of its own
    ProgramBodies,         \* program contents
    OnlyPrograms,   \* ids of programs of a device-only FSA
    Bases,          \* default control contents, positive numbers
    CopyBudgets     \* bound: how often each thing happens in a scenario

ASSUME CopyConstants ==
    /\ CopyTemplates \cap (OwnPrograms \cup OnlyPrograms) = {}
    /\ OwnPrograms \cap OnlyPrograms = {}
    /\ Bases \subseteq Nat \ {0}
    /\ \A b \in CopyBudgets :
         DOMAIN b = {"fsa", "template", "assign", "own", "edit", "delete", "fault", "boot", "vacate"}

OwnOrOnly == OwnPrograms \cup OnlyPrograms
Programs == CopyTemplates \cup OwnOrOnly

VARIABLES
    fsaThere,     \* the admin FSA exists
    attached,     \* a program link is attached to it
    template,     \* template id -> its current revision, or NoTemplate
    revisions,    \* template id -> every revision it has had
    assigned,     \* devices assigned to the FSA
    deviceFSA,    \* devices whose own FSA list shows it
    ownFSA,       \* device -> whether its device-only FSA exists and is assigned
    origin,       \* device -> program id -> "none", "template" or "device"
    default,      \* device -> program id -> [ver, base], or NoPart
    program,      \* device -> program id -> [ver, body, link], or NoPart
    programDisk,  \* the program store's snapshot file
    change,       \* the handler holding programMu, or NoChange
    told,         \* pairs an answer, or a lost answer, left in doubt
    unsaved,      \* pairs with a program write that failed
    vacated,      \* devices deleted while the server ran
    copyLeft      \* what the scenario has left

copyVars == <<fsaThere, attached, template, revisions, assigned, deviceFSA, ownFSA, origin, default,
              program, programDisk, change, told, unsaved, vacated, copyLeft>>

NoTemplate == [ver |-> -1]
NoPart == [ver |-> -1]
Keep == -1
NoChange == [op |-> "none"]
NoOwn == [fsa |-> FALSE, assigned |-> FALSE]

SpendCopy(what) == copyLeft[what] > 0 /\ copyLeft' = [copyLeft EXCEPT ![what] = @ - 1]

InitCopies ==
    /\ fsaThere = FALSE /\ attached = FALSE
    /\ template = [t \in CopyTemplates |-> NoTemplate]
    /\ revisions = [t \in CopyTemplates |-> {}]
    /\ assigned = {} /\ deviceFSA = {}
    /\ ownFSA = [d \in CopyDevices |-> NoOwn]
    /\ origin = [d \in CopyDevices |-> [p \in Programs |-> "none"]]
    /\ default = [d \in CopyDevices |-> [p \in Programs |-> NoPart]]
    /\ program = default /\ programDisk = default
    /\ change = NoChange
    /\ told = {} /\ unsaved = {} /\ vacated = {}
    /\ copyLeft \in CopyBudgets

LiveTemplates == {t \in CopyTemplates : template[t] # NoTemplate}
DeviceOrder == SetToSeq(CopyDevices)
InOrder(S) == SelectSeq(DeviceOrder, LAMBDA d : d \in S)
TemplateOrder == SelectSeq(SetToSeq(CopyTemplates), LAMBDA t : t \in LiveTemplates)

-----------------------------------------------------------------------------
\* What a revision of a template says a device's copy is.

CopyProgram(r) == [ver |-> r.ver, body |-> r.body, link |-> r.base # 0]
CopyDefault(r) == [ver |-> r.dver, base |-> r.base]

\* Copies.Check: a program without an origin entry was never a copy.
CopyConflict(d, p) == origin[d][p] = "none" /\ program[d][p] # NoPart

\* copyHolders: the assigned devices that hold a copy of t, whole or not.
copyHolders(t) == {d \in assigned : origin[d][t] = "template"}

-----------------------------------------------------------------------------
\* One write of a handler: its store, the record and the value.

PartStep(store, d, p, val) == [in |-> store, d |-> d, p |-> p, val |-> val]

\* The record as it is.
PartHeld(s) ==
    CASE s.in \in {"issue", "unread"} -> FALSE
      [] s.in = "template" -> template[s.p]
      [] s.in = "assign" -> s.d \in assigned
      [] s.in = "scoped" -> s.d \in deviceFSA
      [] s.in = "own" -> ownFSA[s.d]
      [] s.in = "origin" -> origin[s.d][s.p]
      [] s.in = "default" -> default[s.d][s.p]
      [] s.in = "program" -> program[s.d][s.p]

\* What the record is when it is not there.
Absent(s) == IF s.in = "origin" THEN "none" ELSE NoPart

WithMember(set, x, in) == IF in THEN set \cup {x} ELSE set \ {x}

\* The write is stored.  A program write replaces the file with everything
\* the program store holds, what an earlier failure left unwritten included.
PartStored(s) ==
    /\ template' = IF s.in = "template" THEN [template EXCEPT ![s.p] = s.val] ELSE template
    /\ revisions' = IF s.in = "template" /\ s.val # NoTemplate
                    THEN [revisions EXCEPT ![s.p] = @ \cup {s.val}] ELSE revisions
    /\ assigned' = IF s.in = "assign" THEN WithMember(assigned, s.d, s.val) ELSE assigned
    /\ deviceFSA' = IF s.in = "scoped" THEN WithMember(deviceFSA, s.d, s.val) ELSE deviceFSA
    /\ ownFSA' = IF s.in = "own" THEN [ownFSA EXCEPT ![s.d] = s.val] ELSE ownFSA
    /\ origin' = IF s.in = "origin" THEN [origin EXCEPT ![s.d][s.p] = s.val] ELSE origin
    /\ default' = IF s.in = "default" THEN [default EXCEPT ![s.d][s.p] = s.val] ELSE default
    /\ program' = IF s.in = "program" THEN [program EXCEPT ![s.d][s.p] = s.val] ELSE program
    /\ programDisk' = IF s.in = "program" THEN program' ELSE programDisk
    /\ UNCHANGED <<fsaThere, attached, unsaved, vacated, copyLeft>>

\* The write fails.  Only the program store keeps it in memory.  The device's
\* FSA list has no file to fail on.
PartNotStored(s) ==
    /\ s.in # "scoped" /\ SpendCopy("fault")
    /\ program' = IF s.in = "program" THEN [program EXCEPT ![s.d][s.p] = s.val] ELSE program
    /\ unsaved' = IF s.in = "program" THEN unsaved \cup {<<s.d, s.p>>} ELSE unsaved
    /\ UNCHANGED <<fsaThere, attached, template, revisions, assigned, deviceFSA, ownFSA, origin, default,
                   programDisk, vacated>>

\* The admin store refuses a write on an FSA that is gone.
Refused(s) ==
    CASE s.in = "template" -> ~ fsaThere /\ s.val # NoTemplate
      [] s.in = "assign" -> ~ fsaThere /\ s.val
      [] OTHER -> s.in = "unread"

-----------------------------------------------------------------------------
\* The writes of each handler, in its order.

\* Copies.ensure: the parts that are missing.
ensure(d, p, kind, r) ==
    SelectSeq(<<PartStep("origin", d, p, kind)>>
                \o (IF r.base = 0 THEN <<>> ELSE <<PartStep("default", d, p, CopyDefault(r))>>)
                \o <<PartStep("program", d, p, CopyProgram(r))>>,
              LAMBDA s : PartHeld(s) = Absent(s))

\* Copies.Remove: program, default control, origin; nothing when the device
\* has no copy.  A part already gone counts as deleted.
RemoveCopy(d, t) ==
    IF origin[d][t] # "template" THEN <<>>
    ELSE SelectSeq(<<PartStep("program", d, t, NoPart), PartStep("default", d, t, NoPart),
                     PartStep("origin", d, t, "none")>>,
                   LAMBDA s : PartHeld(s) # s.val)

\* Copies.RemoveProgram: default control, program, origin.
RemoveProgram(d, p) ==
    SelectSeq(<<PartStep("default", d, p, NoPart), PartStep("program", d, p, NoPart),
                PartStep("origin", d, p, "none")>>,
              LAMBDA s : PartHeld(s) # s.val)

\* Copies.Sync: the default control, then the program; a default the template
\* no longer has goes after the program stops linking to it.  Without its
\* program the copy cannot be read and the sync fails.
Sync(d, t, r) ==
    LET prog == PartStep("program", d, t, CopyProgram(r))
        def == PartStep("default", d, t, IF r.base = 0 THEN NoPart ELSE CopyDefault(r))
    IN IF program[d][t] = NoPart THEN <<PartStep("unread", d, t, NoPart)>>
       ELSE SelectSeq(IF r.base = 0 THEN <<prog, def>> ELSE <<def, prog>>, LAMBDA s : PartHeld(s) # s.val)

\* Assign, then a copy of every template.
AssignSteps(d) ==
    <<PartStep("assign", d, "", TRUE), PartStep("scoped", d, "", TRUE)>>
        \o FlattenSeq([n \in 1..Len(TemplateOrder) |->
                         ensure(d, TemplateOrder[n], "template", template[TemplateOrder[n]])])

UnassignSteps(d) ==
    FlattenSeq([n \in 1..Len(TemplateOrder) |-> RemoveCopy(d, TemplateOrder[n])])
        \o <<PartStep("assign", d, "", FALSE), PartStep("scoped", d, "", FALSE)>>

\* buildTemplate: a template's first revision.
First(body, base) == [ver |-> 0, dver |-> 0, body |-> body, base |-> base]

RevisedReusing(r, body, base) ==
    [ver |-> IF body # r.body \/ base # r.base THEN r.ver + 1 ELSE r.ver,
     dver |-> IF base = 0 THEN 0 ELSE IF base # r.base THEN r.dver + 1 ELSE r.dver,
     body |-> body, base |-> base]

\* writeTemplate: the template, then a copy on every assigned device.
writeTemplate(t, r) ==
    LET devices == InOrder(assigned)
    IN <<<<PartStep("template", "", t, r)>>>>
         \o [n \in 1..Len(devices) |-> ensure(devices[n], t, "template", r)]

\* A program edit's next revision: versions rise by one where the content
\* changed, and a removed default keeps its version.
Revised(r, body, base) ==
    [ver |-> IF body # r.body \/ base # r.base THEN r.ver + 1 ELSE r.ver,
     dver |-> IF base # 0 /\ base # r.base THEN r.dver + 1 ELSE r.dver,
     body |-> body, base |-> base]

\* The default control an edit puts: the next revision of the one the program
\* links (EditWithDefault), or a new one with the program's new version, or one
\* above a stored default nothing links (EditCreatingDefault).
DefaultAfter(d, p, base) ==
    LET old == program[d][p]
        def == default[d][p]
        higher == IF def.ver > old.ver THEN def.ver ELSE old.ver
    IN IF old.link /\ def # NoPart
       THEN IF def.base = base THEN def ELSE [ver |-> def.ver + 1, base |-> base]
       ELSE [ver |-> higher + 1, base |-> base]

\* editLocked: base is the new default control, 0 to remove it and Keep to
\* leave it.  A default goes before the program that links it and is removed
\* after the program that no longer does.
EditSteps(d, p, body, base) ==
    LET old == program[d][p]
        def == default[d][p]
        clears == base = 0 /\ def # NoPart
        sets == base \notin {0, Keep}
        after == DefaultAfter(d, p, base)
        link == IF clears THEN FALSE ELSE sets \/ old.link
        same == body = old.body /\ ~ clears /\ (sets => after = def /\ old.link)
        put == IF sets /\ after # def THEN <<PartStep("default", d, p, after)>> ELSE <<>>
        prog == <<PartStep("program", d, p, [ver |-> old.ver + 1, body |-> body, link |-> link])>>
        clear == IF clears THEN <<PartStep("default", d, p, NoPart)>> ELSE <<>>
    IN IF same THEN <<>> ELSE put \o prog \o clear

-----------------------------------------------------------------------------
\* Handlers.  todo is the rest of the work, in groups that fail together; on
\* a failure "undo" takes back every write, "keep" leaves what was written and
\* "next" takes back the group and goes on with the next one.

BeginChange(op, onFailure, todo, doubt) ==
    /\ change = NoChange
    /\ change' = [op |-> op, onFailure |-> onFailure, todo |-> todo, undo |-> <<>>,
                  back |-> FALSE, inner |-> FALSE, failed |-> FALSE, doubt |-> doubt]
    /\ UNCHANGED <<fsaThere, attached, template, revisions, assigned, deviceFSA, ownFSA, origin, default,
                   program, programDisk, told, unsaved, vacated>>

\* What keeps the store from deleting an FSA.
FsaInUse == LiveTemplates # {} \/ assigned # {} \/ attached

\* POST /api/fsas, DELETE, and attaching or detaching a program link.
CreateAdminFSA ==
    /\ ~ fsaThere /\ SpendCopy("fsa") /\ fsaThere' = TRUE
    /\ UNCHANGED <<attached, template, revisions, assigned, deviceFSA, ownFSA, origin, default, program,
                   programDisk, change, told, unsaved, vacated>>

DeleteAdminFSA ==
    /\ fsaThere /\ SpendCopy("fsa")
    /\ ~ FsaInUse
    /\ fsaThere' = FALSE
    /\ UNCHANGED <<attached, template, revisions, assigned, deviceFSA, ownFSA, origin, default, program,
                   programDisk, change, told, unsaved, vacated>>

AttachProgram ==
    /\ fsaThere /\ ~ attached /\ SpendCopy("fsa")
    /\ attached' = TRUE
    /\ UNCHANGED <<fsaThere, template, revisions, assigned, deviceFSA, ownFSA, origin, default, program,
                   programDisk, change, told, unsaved, vacated>>

DetachProgram ==
    /\ fsaThere /\ attached /\ SpendCopy("fsa")
    /\ attached' = FALSE
    /\ UNCHANGED <<fsaThere, template, revisions, assigned, deviceFSA, ownFSA, origin, default, program,
                   programDisk, change, told, unsaved, vacated>>

\* POST .../der-programs: every copy is checked, the template is written, then
\* a copy on every assigned device.
HandleCreateProgramTemplate(t, body, base) ==
    /\ SpendCopy("template")
    /\ revisions[t] = {}
    /\ \A d \in assigned : ~ CopyConflict(d, t)
    /\ BeginChange("template", "undo", writeTemplate(t, First(body, base)), {<<d, t>> : d \in assigned})

\* PUT .../der-programs/{id}: the template is written first and stays; each
\* copy is synced, and a copy that fails does not stop the others.
HandleUpdateProgramTemplate(t, body, base) ==
    LET r == Revised(template[t], body, base)
        devices == InOrder(copyHolders(t))
    IN /\ t \in LiveTemplates /\ SpendCopy("edit")
       /\ BeginChange("update", "next",
                (IF r = template[t] THEN <<>> ELSE <<<<PartStep("template", "", t, r)>>>>)
                    \o [n \in 1..Len(devices) |-> Sync(devices[n], t, r)],
                {<<d, t>> : d \in copyHolders(t)})

\* DELETE .../der-programs/{id}: the copies go first, then the template.
HandleDeleteProgramTemplate(t) ==
    LET devices == InOrder(copyHolders(t))
    IN /\ t \in LiveTemplates /\ SpendCopy("delete")
       /\ BeginChange("retire", "keep",
                [n \in 1..Len(devices) |-> RemoveCopy(devices[n], t)]
                    \o <<<<PartStep("template", "", t, NoTemplate)>>>>,
                {<<d, t>> : d \in CopyDevices})

\* PUT /api/devices/{id}/fsas: assignLocked; every copy is checked before anything is written.
HandleAssignDeviceFSA(d) ==
    /\ fsaThere /\ d \notin assigned /\ SpendCopy("assign")
    /\ \A t \in LiveTemplates : ~ CopyConflict(d, t)
    /\ BeginChange("assign", "undo", <<AssignSteps(d)>>, {d} \X CopyTemplates)

\* DELETE of it: unassignLocked; refused while the device has a program of its own here.
HandleUnassignDeviceFSA(d) ==
    /\ d \in assigned /\ SpendCopy("assign")
    /\ \A p \in OwnPrograms : ~ (origin[d][p] = "device" /\ program[d][p] # NoPart)
    /\ BeginChange("unassign", "keep", <<UnassignSteps(d)>>, {d} \X CopyTemplates)

\* POST /api/devices/{id}/.../der-programs: a program of the device's own.
HandleCreateDeviceProgram(d, p, body, base) ==
    /\ SpendCopy("own") /\ d \in deviceFSA
    /\ origin[d][p] = "none" /\ program[d][p] = NoPart
    /\ BeginChange("own", "undo",
             <<ensure(d, p, "device", First(body, base))>>, {<<d, p>>})

\* lookupDeviceProgram: a template's copy is edited through its template.
lookupDeviceProgram(d, p) == program[d][p] # NoPart /\ origin[d][p] # "template"

\* PUT of a device's own program.
HandleUpdateDeviceProgram(d, p, body, base) ==
    /\ lookupDeviceProgram(d, p) /\ SpendCopy("edit")
    /\ BeginChange("edit", IF base = 0 THEN "keep" ELSE "undo", <<EditSteps(d, p, body, base)>>, {<<d, p>>})

\* DELETE of a device's own program.
HandleDeleteDeviceProgram(d, p) ==
    /\ lookupDeviceProgram(d, p) /\ SpendCopy("delete")
    /\ BeginChange("remove", "keep", <<RemoveProgram(d, p)>>, {<<d, p>>})

\* The steps that make the device-only FSA and assign it.
ensureDeviceOnlyFSA(d) ==
    (IF ownFSA[d].fsa THEN <<>> ELSE <<PartStep("own", d, "", [NoOwn EXCEPT !.fsa = TRUE])>>)
        \o (IF ownFSA[d].assigned THEN <<>>
            ELSE <<PartStep("own", d, "", [fsa |-> TRUE, assigned |-> TRUE])>>)

\* deviceOwnProgram: the program the device-only FSA has on the device.
deviceOwnProgram(d, p) == origin[d][p] = "device" /\ program[d][p] # NoPart

createDeviceOnlyProgram(d, p, body, base) == ensure(d, p, "device", First(body, base))

\* updateDeviceOnlyProgram: an event changes the primacy at most; a default
\* needs a stored one to replace.
updateDeviceOnlyProgram(d, p, event, body, base) == EditSteps(d, p, body, IF event THEN Keep ELSE base)

\* POST /api/devices/{id}/controls: the device-only FSA and its one program
\* are made or edited, and for an event the control is issued last; a failed
\* issue takes all of it back.  Without an event the body is a new default.
HandleDeviceControl(d, p, event, body, base) ==
    LET there == deviceOwnProgram(d, p)
        write == IF there THEN updateDeviceOnlyProgram(d, p, event, body, base)
                 ELSE createDeviceOnlyProgram(d, p, body, base)
        issue == IF event THEN <<PartStep("issue", d, p, TRUE)>> ELSE <<>>
    IN /\ SpendCopy("own")
       /\ IF there THEN event \/ default[d][p] # NoPart
          ELSE origin[d][p] = "none" /\ program[d][p] = NoPart
       /\ BeginChange("control", "undo", <<ensureDeviceOnlyFSA(d) \o write \o issue>>, {<<d, p>>})

\* The handler answers: a pair is in doubt when the answer says so, and a
\* finished edit or delete settles the pairs it covers.
FinishChange(doubtful, settled) ==
    /\ change' = NoChange
    /\ told' = CASE doubtful -> told \cup change.doubt
                [] ~ doubtful /\ settled -> told \ change.doubt
                [] OTHER -> told

\* What takes a write back.  The rollback of a device control restores the
\* default control before the program; only a default is put back by Sync.
Pushed(s) ==
    LET u == [s EXCEPT !.val = PartHeld(s)]
    IN CASE change.onFailure = "next" /\ s.in # "default" -> change.undo
         [] change.op = "control" /\ s.in = "program" /\ PartHeld(s) # NoPart
            /\ change.undo # <<>> /\ Head(change.undo).in = "default"
              -> <<Head(change.undo), u>> \o Tail(change.undo)
         [] OTHER -> <<u>> \o change.undo

\* The next write of the handler succeeds.
WritePart ==
    /\ change # NoChange /\ ~ change.back /\ change.todo # <<>>
    /\ LET group == Head(change.todo)
       IN IF group = <<>>
          THEN /\ change' = [change EXCEPT !.todo = Tail(@),
                                           !.undo = IF change.onFailure = "next" THEN <<>> ELSE @]
               /\ UNCHANGED <<fsaThere, attached, template, revisions, assigned, deviceFSA, ownFSA, origin,
                              default, program, programDisk, told, unsaved, vacated, copyLeft>>
          ELSE LET s == Head(group)
               IN /\ ~ Refused(s)
                  /\ PartStored(s)
                  /\ change' = [change EXCEPT !.todo[1] = Tail(group),
                                              !.undo = Pushed(s)]
                  /\ UNCHANGED told

\* The next write fails: Copies.ensure, applyDefaultAndProgram and
\* rollbackAfter take back the writes that succeeded, newest first.
PartFails ==
    /\ change # NoChange /\ ~ change.back
    /\ change.todo # <<>> /\ Head(change.todo) # <<>>
    /\ LET s == Head(Head(change.todo))
       IN /\ IF Refused(s)
             THEN UNCHANGED <<fsaThere, attached, template, revisions, assigned, deviceFSA, ownFSA, origin,
                              default, program, programDisk, unsaved, vacated, copyLeft>>
             ELSE PartNotStored(s)
          /\ IF change.onFailure = "keep" \/ (s.in = "template" /\ change.op = "update")
             THEN FinishChange(change.onFailure = "keep", FALSE)
             ELSE /\ change' = [change EXCEPT !.back = TRUE, !.failed = TRUE, !.todo = Tail(@),
                                              !.inner = change.op = "control" /\ s.in # "issue"]
                  /\ told' = IF change.onFailure = "next" THEN told \cup change.doubt ELSE told

\* rollbackAfter: one write is taken back.
UndoPart ==
    /\ change # NoChange /\ change.back
    /\ IF change.undo = <<>>
       THEN /\ IF change.onFailure = "next"
               THEN change' = [change EXCEPT !.back = FALSE] /\ UNCHANGED told
               ELSE FinishChange(FALSE, FALSE)
            /\ UNCHANGED <<fsaThere, attached, template, revisions, assigned, deviceFSA, ownFSA, origin,
                           default, program, programDisk, unsaved, vacated, copyLeft>>
       ELSE /\ PartStored(Head(change.undo))
            /\ change' = [change EXCEPT !.undo = Tail(@)]
            /\ UNCHANGED told

\* An undo that fails stops there; the answer says what is left.  A device
\* control still takes back the FSA it made when undoing the program fails.
UndoPartFails ==
    /\ change # NoChange /\ change.back /\ change.undo # <<>>
    /\ PartNotStored(Head(change.undo))
    /\ CASE change.onFailure = "next" ->
              change' = [change EXCEPT !.back = FALSE, !.undo = <<>>] /\ UNCHANGED told
         [] change.inner ->
              /\ change' = [change EXCEPT !.undo = SelectSeq(Tail(@), LAMBDA u : u.in = "own"),
                                          !.inner = FALSE]
              /\ told' = told \cup change.doubt
         [] OTHER -> FinishChange(TRUE, FALSE)

AnswerChange ==
    /\ change # NoChange /\ ~ change.back /\ change.todo = <<>>
    /\ FinishChange(FALSE, ~ change.failed /\ change.op \in {"update", "retire", "remove"})
    /\ UNCHANGED <<fsaThere, attached, template, revisions, assigned, deviceFSA, ownFSA, origin, default,
                   program, programDisk, unsaved, vacated, copyLeft>>

-----------------------------------------------------------------------------
\* DELETE /edev/{id}: the cascade clears the assignment and the device's FSA
\* list, at any moment, and leaves the program stores alone.
DeleteEndDevice(d) ==
    /\ SpendCopy("vacate")
    /\ assigned' = assigned \ {d} /\ deviceFSA' = deviceFSA \ {d}
    /\ ownFSA' = [ownFSA EXCEPT ![d].assigned = FALSE]
    /\ vacated' = vacated \cup {d}
    /\ UNCHANGED <<fsaThere, attached, template, revisions, origin, default, program, programDisk, change,
                   told, unsaved>>

RebuiltIfMissing(d, t) == t \in LiveTemplates /\ d \in assigned /\ programDisk[d][t] = NoPart

PartialProgramNever(d, p) == FALSE

\* What ReconcileCopies makes of a pair at a start: Ensure and Sync for the
\* template copies of assigned devices, and the removal of a device program's
\* parts when its program is gone.
Rebuilt(d, t) == t \in LiveTemplates /\ d \in assigned /\ ~ (origin[d][t] = "none" /\ programDisk[d][t] # NoPart)

PartialProgram(d, p) == origin[d][p] = "device" /\ programDisk[d][p] = NoPart

\* The process stops and starts again: seedStores runs Reconcile and
\* ReconcileCopies before anything listens.
RestartCopies ==
    /\ SpendCopy("boot")
    /\ change' = NoChange
    /\ deviceFSA' = assigned
    /\ origin' = [d \in CopyDevices |-> [p \in Programs |->
                    IF p \in CopyTemplates /\ Rebuilt(d, p) THEN "template"
                    ELSE IF PartialProgram(d, p) THEN "none" ELSE origin[d][p]]]
    /\ default' = [d \in CopyDevices |-> [p \in Programs |->
                    IF p \in CopyTemplates /\ Rebuilt(d, p)
                    THEN IF template[p].base = 0 THEN NoPart ELSE CopyDefault(template[p])
                    ELSE IF PartialProgram(d, p) THEN NoPart ELSE default[d][p]]]
    /\ program' = [d \in CopyDevices |-> [p \in Programs |->
                    IF p \in CopyTemplates /\ Rebuilt(d, p) THEN CopyProgram(template[p])
                    ELSE programDisk[d][p]]]
    /\ programDisk' = program'
    /\ told' = IF change # NoChange /\ change.op = "remove" THEN change.doubt
               ELSE {k \in told : k[2] \in OwnOrOnly /\ programDisk[k[1]][k[2]] # NoPart}
    /\ UNCHANGED <<fsaThere, attached, template, revisions, assigned, ownFSA, unsaved, vacated>>

CopiesNext ==
    \/ CreateAdminFSA \/ DeleteAdminFSA \/ AttachProgram \/ DetachProgram
    \/ \E t \in CopyTemplates, body \in ProgramBodies, base \in Bases \cup {0} :
         HandleCreateProgramTemplate(t, body, base) \/ HandleUpdateProgramTemplate(t, body, base)
    \/ \E d \in CopyDevices, p \in OwnPrograms, body \in ProgramBodies, base \in Bases \cup {0} :
         HandleCreateDeviceProgram(d, p, body, base)
    \/ \E d \in CopyDevices, p \in OwnOrOnly, body \in ProgramBodies, base \in Bases \cup {0, Keep} :
         HandleUpdateDeviceProgram(d, p, body, base)
    \/ \E d \in CopyDevices, p \in OnlyPrograms, event \in BOOLEAN, body \in ProgramBodies, base \in Bases :
         HandleDeviceControl(d, p, event, body, base)
    \/ \E t \in CopyTemplates : HandleDeleteProgramTemplate(t)
    \/ \E d \in CopyDevices, p \in OwnOrOnly : HandleDeleteDeviceProgram(d, p)
    \/ \E d \in CopyDevices : HandleAssignDeviceFSA(d) \/ HandleUnassignDeviceFSA(d) \/ DeleteEndDevice(d)
    \/ WritePart \/ PartFails \/ UndoPart \/ UndoPartFails \/ AnswerChange
    \/ RestartCopies

-----------------------------------------------------------------------------
\* The device's copy of t is whole and at the template's revision.
WholeCopy(d, t) ==
    /\ origin[d][t] = "template"
    /\ program[d][t] = CopyProgram(template[t])
    /\ default[d][t] = IF template[t].base = 0 THEN NoPart ELSE CopyDefault(template[t])

NothingOf(d, p) == origin[d][p] = "none" /\ default[d][p] = NoPart /\ program[d][p] = NoPart

\* What holds between handlers of the pairs no answer left in doubt, X apart.
FollowBut(X) ==
    change = NoChange =>
        \A d \in CopyDevices, t \in CopyTemplates :
            <<d, t>> \notin told \cup X =>
                IF t \in LiveTemplates /\ d \in assigned THEN WholeCopy(d, t) ELSE NothingOf(d, t)

\* Between handlers, every assigned device holds every template whole and at
\* its revision and every other device nothing of it, unless an answer said
\* otherwise: a handler that fails has undone its writes, and what a crash or
\* a failed undo left is put right by the next start or by repeating the edit.
\* Excepted are the copies a deleted EndDevice left and those with a program
\* write that failed; an FSA with templates or devices is never gone.
CopiesFollowTemplates ==
    /\ FollowBut(unsaved \cup (vacated \X CopyTemplates))
    /\ (LiveTemplates # {} \/ assigned # {}) => fsaThere

\* Every part of a copy holds a version and a content that one revision of its
\* template had, and no two revisions give one version to different contents.
VersionNamesContent ==
    /\ \A t \in CopyTemplates : \A q, r \in revisions[t] :
         /\ q.ver = r.ver => CopyProgram(q) = CopyProgram(r)
         /\ (q.base # 0 /\ r.base # 0 /\ q.dver = r.dver) => q.base = r.base
    /\ \A d \in CopyDevices, t \in CopyTemplates :
         /\ program[d][t] # NoPart => \E r \in revisions[t] : program[d][t] = CopyProgram(r)
         /\ default[d][t] # NoPart => \E r \in revisions[t] : r.base # 0 /\ default[d][t] = CopyDefault(r)

\* Between handlers a device's own program is whole: it has its origin, a
\* default control it links is stored, and no part outlives the program; the
\* pairs in doubt and those with a failed program write apart.
OwnProgramsWhole ==
    change = NoChange =>
        \A k \in (CopyDevices \X OwnOrOnly) \ (told \cup unsaved) :
            LET d == k[1] p == k[2]
            IN IF program[d][p] = NoPart THEN NothingOf(d, p)
               ELSE origin[d][p] = "device" /\ (program[d][p].link => default[d][p] # NoPart)

\* What the desk answered about programs is so: CopiesFollowTemplates,
\* VersionNamesContent and OwnProgramsWhole.
CopiesAccounted == CopiesFollowTemplates /\ VersionNamesContent /\ OwnProgramsWhole

=============================================================================
