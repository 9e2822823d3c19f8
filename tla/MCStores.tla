------------------------------- MODULE MCStores -------------------------------
(***************************************************************************)
(* The stores for TLC: in each behaviour the journal of readings runs, with *)
(* two readings of one mirror or one each of two, or one of the snapshot   *)
(* stores, or the store of FSAs, or the store of DER status; the others    *)
(* rest.                                                                   *)
(***************************************************************************)
EXTENDS JournaledStore, SnapshotStores, FsaStore, StatusSince

VARIABLE acting

TheKeys == {<<"p", "i">>, <<"p", "j">>, <<"q", "i">>}

NoSnaps == [k \in {"write", "fault", "crash", "read"} |-> 0]
TheSnapBudgets == {NoSnaps,
    [NoSnaps EXCEPT !.write = 3, !.fault = 1, !.read = 1],
    [NoSnaps EXCEPT !.write = 2, !.fault = 2, !.crash = 1]}

NoFsaWork == [k \in {"shape", "member", "template", "control", "fault", "crash"} |-> 0]
TheFsaBudgets == {NoFsaWork,
    [NoFsaWork EXCEPT !.shape = 2, !.member = 2, !.fault = 1, !.crash = 1],
    [NoFsaWork EXCEPT !.shape = 1, !.template = 3, !.control = 2, !.fault = 1, !.crash = 1],
    [NoFsaWork EXCEPT !.shape = 1, !.template = 2, !.control = 3, !.fault = 1]}

NoReports == [k \in {"write", "delete", "cascade", "tick", "read", "fault"} |-> 0]
TheSinceBudgets == {NoReports,
    [NoReports EXCEPT !.write = 3, !.tick = 2],
    [NoReports EXCEPT !.write = 2, !.cascade = 1, !.tick = 1, !.fault = 1],
    [NoReports EXCEPT !.write = 2, !.delete = 1, !.tick = 1, !.read = 1],
    [NoReports EXCEPT !.write = 1, !.tick = 1, !.read = 1, !.fault = 2]}
TheDerKeys == {<<"x1", "status">>, <<"x2", "status">>, <<"x1", "availability">>}
TheContents == {[e1 |-> 1], [e1 |-> 2], [e1 |-> 1, e2 |-> 1]}

Init ==
    /\ acting \in {"batches", "mirrors", "snapshot", "fsas", "since"}
    /\ InitJournal /\ now = (IF acting = "mirrors" THEN MaxTime ELSE 1)
    /\ InitSnapshots /\ (acting = "snapshot") = (snapLeft # NoSnaps)
    /\ acting # "snapshot" => snapKind = "scoped"
    /\ InitFsaStore /\ (acting = "fsas") = (fsaLeft # NoFsaWork)
    /\ InitSince /\ (acting = "since") = (sinceLeft # NoReports)

Next ==
    /\ UNCHANGED acting
    /\ \/ /\ acting = "batches" /\ JournalNext({<<"p", "i">>, <<"p", "j">>}, {})
          /\ UNCHANGED <<snapVars, fsaVars, sinceVars>>
       \/ /\ acting = "mirrors" /\ JournalNext({<<"p", "i">>, <<"q", "i">>}, {<<"p", "i">>})
          /\ UNCHANGED <<snapVars, fsaVars, sinceVars>>
       \/ acting = "snapshot" /\ SnapshotNext /\ UNCHANGED <<journalVars, fsaVars, sinceVars>>
       \/ acting = "fsas" /\ FsaStoreNext /\ UNCHANGED <<journalVars, snapVars, sinceVars>>
       \/ acting = "since" /\ SinceNext /\ UNCHANGED <<journalVars, snapVars, fsaVars>>

Interchangeable == Permutations(SnapWriters) \cup Permutations(FsaDevices)

Spec == Init /\ [][Next]_<<acting, journalVars, snapVars, fsaVars, sinceVars>>
=============================================================================
