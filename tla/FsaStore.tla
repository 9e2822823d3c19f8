----------------------------- MODULE FsaStore -----------------------------
(***************************************************************************)
(* The store of the operator's function set assignments, with the program  *)
(* templates and the control records each of them holds                    *)
(* (pkg/store/memory/admin_fsa*.go).  A mutation changes the maps under    *)
(* the reader lock, writes the snapshot file, and takes its change back    *)
(* when that fails; persistMu lets one mutation through at a time, and     *)
(* readers see the maps throughout.                                        *)
(***************************************************************************)
EXTENDS Integers, FiniteSets

CONSTANTS
  Fsas, FsaDevices, Aggregators, ProgramHrefs,
  TemplateIds, ControlIds, MRIDs,
  FsaBudgets      \* bounds: [shape, member, template, control, fault, crash]

NoOne == "none"

VARIABLES
  fsas,       \* the FSAs in memory, by id
  fsaFile,    \* the FSAs in the snapshot file
  held,       \* the control records held back from replication, in memory only
  writing,    \* the mutation that holds persistMu, or NoWrite
  beforeIt,   \* the maps before that mutation, and after the last one (history)
  loaded,     \* whether the store has been opened
  fsaLeft

fsaVars == <<fsas, fsaFile, held, writing, beforeIt, loaded, fsaLeft>>

NoFsa == [has |-> FALSE, bound |-> NoOne, fleet |-> NoOne, programs |-> {}, devices |-> {}, templates |-> {}, controls |-> {}]
NoWrite == [op |-> "none"]

InitFsaStore ==
  /\ fsas = [f \in Fsas |-> NoFsa] /\ fsaFile = fsas /\ held = {} /\ writing = NoWrite
  /\ beforeIt = fsas /\ loaded = TRUE /\ fsaLeft \in FsaBudgets

FsaSpend(what) == fsaLeft[what] > 0 /\ fsaLeft' = [fsaLeft EXCEPT ![what] = @ - 1]

\* A template is [id, mrid, version]; a control record [template, id, mrid, made, cancelled].
TemplateOf(f, id) == {t \in fsas[f].templates : t.id = id}
ControlOf(f, tmpl, id) == {c \in fsas[f].controls : c.template = tmpl /\ c.id = id}

checkTemplateAdd(tmpls, t) == \A o \in tmpls : o.id # t.id /\ o.mrid # t.mrid
checkFSAControlAdd(ctrls, c) == \A o \in ctrls : ~(o.template = c.template /\ o.id = c.id) /\ o.mrid # c.mrid

\* A mutation: it takes persistMu and changes the maps.
MutateFsa(kind, w, f, rec) ==
  /\ loaded /\ writing = NoWrite /\ FsaSpend(kind)
  /\ writing' = w /\ beforeIt' = fsas /\ fsas' = [fsas EXCEPT ![f] = rec]
  /\ UNCHANGED <<fsaFile, held, loaded>>
-----------------------------------------------------------------------------
(* The mutations, each followed by what takes it back. *)

create(f, d, a) ==
  /\ ~fsas[f].has
  /\ (d # NoOne => \A g \in Fsas : fsas[g].bound # d) /\ (a # NoOne => \A g \in Fsas : fsas[g].fleet # a)
  /\ MutateFsa("shape", [op |-> "create", f |-> f], f, [NoFsa EXCEPT !.has = TRUE, !.bound = d, !.fleet = a])

undoCreate(w) == [fsas EXCEPT ![w.f] = NoFsa]

CreateFsa(f) == create(f, NoOne, NoOne)
CreateDeviceOnly(f, d) == d # NoOne /\ create(f, d, NoOne)
CreateFleet(f, a) == a # NoOne /\ create(f, NoOne, a)

DeleteFsa(f) ==
  /\ fsas[f].has /\ fsas[f].templates = {} /\ fsas[f].programs = {} /\ fsas[f].devices = {}
  /\ MutateFsa("shape", [op |-> "delete", f |-> f, was |-> fsas[f]], f, NoFsa)

undoDelete(w) == [fsas EXCEPT ![w.f] = [NoFsa EXCEPT !.has = TRUE, !.bound = w.was.bound, !.fleet = w.was.fleet]]

AttachFsaProgram(f, p) ==
  /\ fsas[f].has /\ p \notin fsas[f].programs
  /\ MutateFsa("member", [op |-> "attach", f |-> f, x |-> p], f, [fsas[f] EXCEPT !.programs = @ \cup {p}])

undoAttach(w) == [fsas EXCEPT ![w.f].programs = @ \ {w.x}]

DetachFsaProgram(f, p) ==
  /\ fsas[f].has /\ p \in fsas[f].programs
  /\ MutateFsa("member", [op |-> "detach", f |-> f, x |-> p], f, [fsas[f] EXCEPT !.programs = @ \ {p}])

undoDetach(w) == [fsas EXCEPT ![w.f].programs = @ \cup {w.x}]

AssignDevice(f, d) ==
  /\ fsas[f].has /\ fsas[f].bound \in {NoOne, d} /\ d \notin fsas[f].devices
  /\ MutateFsa("member", [op |-> "assign", f |-> f, x |-> d], f, [fsas[f] EXCEPT !.devices = @ \cup {d}])

undoAssign(w) == [fsas EXCEPT ![w.f].devices = @ \ {w.x}]

UnassignDevice(f, d) ==
  /\ fsas[f].has /\ d \in fsas[f].devices
  /\ MutateFsa("member", [op |-> "unassign", f |-> f, x |-> d], f, [fsas[f] EXCEPT !.devices = @ \ {d}])

undoUnassign(w) == [fsas EXCEPT ![w.f].devices = @ \cup {w.x}]

CreateTemplate(f, id, m) ==
  LET t == [id |-> id, mrid |-> m, version |-> 0] IN
  /\ fsas[f].has /\ checkTemplateAdd(fsas[f].templates, t)
  /\ MutateFsa("template", [op |-> "template", f |-> f, x |-> id], f, [fsas[f] EXCEPT !.templates = @ \cup {t}])

undoCreateTemplate(w) == [fsas EXCEPT ![w.f].templates = @ \ TemplateOf(w.f, w.x)]

\* The mRID of a template never changes.
UpdateTemplate(f, id) ==
  \E t \in TemplateOf(f, id) :
    MutateFsa("template", [op |-> "edit", f |-> f, x |-> id, was |-> t], f,
           [fsas[f] EXCEPT !.templates = (@ \ {t}) \cup {[t EXCEPT !.version = 1 - @]}])

undoUpdateTemplate(w) == [fsas EXCEPT ![w.f].templates = (@ \ TemplateOf(w.f, w.x)) \cup {w.was}]

\* A template takes its control records with it.  Mutant: it leaves them.
DeleteTemplateOnly(f, id) ==
  \E t \in TemplateOf(f, id) :
    MutateFsa("template", [op |-> "drop", f |-> f, was |-> t, ctrls |-> fsas[f].controls], f,
           [fsas[f] EXCEPT !.templates = @ \ {t}])

DeleteTemplate(f, id) ==
  \E t \in TemplateOf(f, id) :
    MutateFsa("template", [op |-> "drop", f |-> f, was |-> t, ctrls |-> fsas[f].controls], f,
           [fsas[f] EXCEPT !.templates = @ \ {t}, !.controls = {c \in @ : c.template # id}])

undoDeleteTemplate(w) == [fsas EXCEPT ![w.f].templates = @ \cup {w.was}, ![w.f].controls = w.ctrls]

CreateFSAControl(f, tmpl, id, m) ==
  LET c == [template |-> tmpl, id |-> id, mrid |-> m, cancelled |-> FALSE] IN
  /\ TemplateOf(f, tmpl) # {} /\ checkFSAControlAdd(fsas[f].controls, c)
  /\ MutateFsa("control", [op |-> "control", f |-> f, x |-> <<tmpl, id>>], f, [fsas[f] EXCEPT !.controls = @ \cup {c}])

undoCreateFSAControl(w) == [fsas EXCEPT ![w.f].controls = @ \ ControlOf(w.f, w.x[1], w.x[2])]

\* A cancel, as the record keeps it.
UpdateFSAControl(f, tmpl, id) ==
  \E c \in ControlOf(f, tmpl, id) :
    MutateFsa("control", [op |-> "cancel", f |-> f, x |-> <<tmpl, id>>, was |-> c], f,
           [fsas[f] EXCEPT !.controls = (@ \ {c}) \cup {[c EXCEPT !.cancelled = TRUE]}])

undoUpdateFSAControl(w) == [fsas EXCEPT ![w.f].controls = (@ \ ControlOf(w.f, w.x[1], w.x[2])) \cup {w.was}]

DeleteFSAControl(f, tmpl, id) ==
  \E c \in ControlOf(f, tmpl, id) :
    MutateFsa("control", [op |-> "uncontrol", f |-> f, x |-> <<tmpl, id>>, was |-> c], f, [fsas[f] EXCEPT !.controls = @ \ {c}])

undoDeleteFSAControl(w) == [fsas EXCEPT ![w.f].controls = @ \cup {w.was}]

undoOf(w) ==
  CASE w.op = "create" -> undoCreate(w) [] w.op = "delete" -> undoDelete(w)
    [] w.op = "attach" -> undoAttach(w) [] w.op = "detach" -> undoDetach(w)
    [] w.op = "assign" -> undoAssign(w) [] w.op = "unassign" -> undoUnassign(w)
    [] w.op = "template" -> undoCreateTemplate(w) [] w.op = "edit" -> undoUpdateTemplate(w)
    [] w.op = "drop" -> undoDeleteTemplate(w) [] w.op = "control" -> undoCreateFSAControl(w)
    [] w.op = "cancel" -> undoUpdateFSAControl(w) [] w.op = "uncontrol" -> undoDeleteFSAControl(w)

\* Holding a record back, and the update or removal that releases it.
HoldFSAControl(f, tmpl, id) ==
  /\ loaded /\ ControlOf(f, tmpl, id) # {} /\ <<f, tmpl, id>> \notin held
  /\ held' = held \cup {<<f, tmpl, id>>}
  /\ UNCHANGED <<fsas, fsaFile, writing, beforeIt, loaded, fsaLeft>>

release(w, ok) == IF ok /\ w.op \in {"cancel", "uncontrol"} THEN held \ {<<w.f, w.x[1], w.x[2]>>} ELSE held
-----------------------------------------------------------------------------
(* The snapshot file. *)

snapshotFsaRecords == [f \in Fsas |-> IF fsas[f].has THEN fsas[f] ELSE NoFsa]

persistLocked ==
  /\ writing # NoWrite
  /\ fsaFile' = snapshotFsaRecords /\ held' = release(writing, TRUE)
  /\ writing' = NoWrite /\ beforeIt' = fsas
  /\ UNCHANGED <<fsas, loaded, fsaLeft>>

\* The write fails before the file is replaced, or its directory entry cannot
\* be synced after.
persistOrRollback(replaced) ==
  /\ writing # NoWrite /\ FsaSpend("fault")
  /\ fsaFile' = IF replaced THEN snapshotFsaRecords ELSE fsaFile
  /\ fsas' = undoOf(writing) /\ held' = release(writing, FALSE) /\ writing' = NoWrite
  /\ UNCHANGED <<beforeIt, loaded>>

CrashFsaStore ==
  /\ loaded /\ FsaSpend("crash") /\ loaded' = FALSE
  /\ fsas' = [f \in Fsas |-> NoFsa] /\ held' = {} /\ writing' = NoWrite
  /\ UNCHANGED <<fsaFile, beforeIt>>

\* What the file must be for the store to open.
loadFsasFromFile(file) ==
  /\ \A f, g \in Fsas : f # g /\ file[f].bound # NoOne => file[f].bound # file[g].bound
  /\ \A f, g \in Fsas : f # g /\ file[f].fleet # NoOne => file[f].fleet # file[g].fleet
  /\ \A f \in Fsas :
       /\ file[f].bound # NoOne => file[f].devices \subseteq {file[f].bound} /\ file[f].fleet = NoOne
       /\ \A t \in file[f].templates : checkTemplateAdd(file[f].templates \ {t}, t)
       /\ \A c \in file[f].controls : (\E t \in file[f].templates : t.id = c.template) /\ checkFSAControlAdd(file[f].controls \ {c}, c)

NewAdminFSAStoreWithPersistence ==
  /\ ~loaded /\ loadFsasFromFile(fsaFile)
  /\ fsas' = fsaFile /\ beforeIt' = fsaFile /\ loaded' = TRUE
  /\ UNCHANGED <<fsaFile, held, writing, fsaLeft>>

FsaStoreNext ==
  \/ \E f \in Fsas : \/ CreateFsa(f) \/ DeleteFsa(f)
                     \/ \E d \in FsaDevices : CreateDeviceOnly(f, d) \/ AssignDevice(f, d) \/ UnassignDevice(f, d)
                     \/ \E a \in Aggregators : CreateFleet(f, a)
                     \/ \E p \in ProgramHrefs : AttachFsaProgram(f, p) \/ DetachFsaProgram(f, p)
                     \/ \E t \in TemplateIds : \/ \E m \in MRIDs : CreateTemplate(f, t, m)
                                               \/ UpdateTemplate(f, t) \/ DeleteTemplate(f, t)
                                               \/ \E c \in ControlIds : \/ \E m \in MRIDs : CreateFSAControl(f, t, c, m)
                                                                        \/ UpdateFSAControl(f, t, c) \/ DeleteFSAControl(f, t, c)
                                                                        \/ HoldFSAControl(f, t, c)
  \/ persistLocked \/ (\E r \in BOOLEAN : persistOrRollback(r)) \/ CrashFsaStore \/ NewAdminFSAStoreWithPersistence
-----------------------------------------------------------------------------
(* The store can be opened from any file that it wrote, also from one that a *)
(* failed or a half-done mutation left: no mutation stores what loadFsasFromFile *)
(* refuses, which would keep the server from starting.                       *)
FileCanBeLoaded == loadFsasFromFile(fsaFile)

(* A mutation that reports a failure has changed nothing in memory: its undo *)
(* gives back every map the mutation touched (persistOrRollback).            *)
FailureChangesNothing == writing = NoWrite /\ loaded => fsas = beforeIt

(* A record held back from replication stays held back until a write that    *)
(* names it is stored, its template goes, or the process ends: a failed      *)
(* cancel does not let it out (UpdateFSAControl, release).                   *)
HeldUntilWritten ==
  [][\A h \in held \ held' : loaded' => writing.op \in {"cancel", "uncontrol"} /\ fsas' = fsas /\ fsaFile' = fsas]_fsaVars

\* The three promises of the store: what it wrote it can open, what it refused
\* it did not do, and what it holds back stays held back.
FsaStoreKept == [](FileCanBeLoaded /\ FailureChangesNothing) /\ HeldUntilWritten
=============================================================================
