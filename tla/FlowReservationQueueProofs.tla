--------------------- MODULE FlowReservationQueueProofs ---------------------
(* Proofs about FlowReservationQueue, for any number of admin threads and   *)
(* any bound on faults, deletes, restarts and attempts.                     *)
EXTENDS FlowReservationQueue, TLAPS

USE DEF Nobody

LEMMA MutexIsProc ==
    ASSUME TypeOK PROVE FreshMutex \in Procs
<1> DEFINE Pick(m) == (\E n \in Procs : Unused(n)) => Unused(m)
<1>1. \E m \in Procs : Pick(m)
    <2>1. CASE \E n \in Procs : Unused(n)
        BY <2>1
    <2>2. CASE ~\E n \in Procs : Unused(n)
        BY <2>2, "client" \in Procs DEF Procs
    <2> QED BY <2>1, <2>2
<1> QED BY <1>1 DEF FreshMutex

(* The locals and the step of one thread stay typed when it alone moves. *)
LEMMA GotoWithTyped ==
    ASSUME TypeOK, NEW p \in Procs, NEW s \in Steps, NEW l \in Locals, GotoWith(p, s, l)
    PROVE  pc' \in [Procs -> Steps] /\ loc' \in [Procs -> Locals]
BY SMTT(60) DEF TypeOK, GotoWith

(* Each update a step makes to a thread's locals keeps their type. *)
LEMMA LocalsClosed ==
    ASSUME NEW l \in Locals
    PROVE  /\ IdleLocals \in Locals
           /\ \A d \in {"grant", "deny"} : [IdleLocals EXCEPT !.dec = d] \in Locals
           /\ \A r \in Results : [l EXCEPT !.result = r] \in Locals
           /\ \A r \in Results : [l EXCEPT !.result = r, !.prev = "none"] \in Locals
           /\ \A m \in Procs \cup {Nobody} : [l EXCEPT !.mutex = m] \in Locals
           /\ \A k \in Kinds \cup {"none"} : [l EXCEPT !.prev = k] \in Locals
<1>1. IdleLocals \in Locals
    BY DEF Locals, IdleLocals, Results
<1>2. \A d \in {"grant", "deny"} : [IdleLocals EXCEPT !.dec = d] \in Locals
    BY <1>1 DEF Locals
<1>3. \A r \in Results : [l EXCEPT !.result = r] \in Locals
    BY DEF Locals
<1>4. \A r \in Results : [l EXCEPT !.result = r, !.prev = "none"] \in Locals
    BY ZenonT(60) DEF Locals
<1>5. \A m \in Procs \cup {Nobody} : [l EXCEPT !.mutex = m] \in Locals
    BY DEF Locals
<1>6. \A k \in Kinds \cup {"none"} : [l EXCEPT !.prev = k] \in Locals
    BY DEF Locals
<1> QED BY <1>1, <1>2, <1>3, <1>4, <1>5, <1>6, ZenonT(60)

LEMMA KindTyped == ASSUME NEW p \in Procs PROVE Kind(p) \in Kinds
BY DEF Kind, Kinds, Procs

LEMMA GotoTyped ==
    ASSUME TypeOK, NEW p \in Procs, NEW s \in Steps, Goto(p, s)
    PROVE  pc' \in [Procs -> Steps] /\ loc' \in [Procs -> Locals]
BY DEF TypeOK, Goto

LEMMA FaultTyped ==
    ASSUME TypeOK, Fault \/ NoFault PROVE faults' \in 0..MaxFaults
BY QueueAssumption DEF TypeOK, Fault, NoFault

LEMMA BuildTyped ==
    ASSUME TypeOK, NEW p \in Procs, Build(p) PROVE TypeOK'
<1> USE DEF stored, ghost, KeepRest, Return, ReleaseFleet
<1>0. loc[p] \in Locals
    BY DEF TypeOK
<1>a. \A s \in BuildSteps \cup {"built"} : s \in Steps
    BY DEF Steps
<1> HIDE DEF TypeOK
<1>1. ASSUME Lookup(p) PROVE TypeOK'
    <2>1. pc' \in [Procs -> Steps] /\ loc' \in [Procs -> Locals]
        BY <1>0, <1>a, <1>1, LocalsClosed, GotoTyped, GotoWithTyped, MutexIsProc, ZenonT(60) DEF Lookup, BuildSteps, Results, TypeOK
    <2>2. faults' \in 0..MaxFaults
        BY <1>1, FaultTyped DEF Lookup, NoFault
    <2> QED BY <1>1, <2>1, <2>2, <1>0, KindTyped, MutexIsProc DEF Lookup, TypeOK, Responses, NoResponse, Locals
<1>2. ASSUME Lock(p) PROVE TypeOK'
    <2>1. pc' \in [Procs -> Steps] /\ loc' \in [Procs -> Locals]
        BY <1>0, <1>a, <1>2, LocalsClosed, GotoTyped, GotoWithTyped, ZenonT(60) DEF Lock, BuildSteps, Results, TypeOK
    <2>2. faults' \in 0..MaxFaults
        BY <1>2, FaultTyped DEF Lock, NoFault
    <2>3. holder' \in [Procs -> Procs \cup {Nobody}]
        BY <1>2, ZenonT(60) DEF Lock, TypeOK
    <2> QED BY <1>2, <2>1, <2>2, <2>3, SMTT(60) DEF Lock, TypeOK
<1>3. ASSUME Check(p) PROVE TypeOK'
    <2>1. pc' \in [Procs -> Steps] /\ loc' \in [Procs -> Locals]
        BY <1>0, <1>a, <1>3, LocalsClosed, GotoTyped, GotoWithTyped, ZenonT(60) DEF Check, BuildSteps, Results, TypeOK
    <2>2. faults' \in 0..MaxFaults
        BY <1>3, FaultTyped DEF Check, NoFault
    <2> QED BY <1>3, <2>1, <2>2, <1>0, KindTyped DEF Check, TypeOK, Responses, NoResponse, Locals
<1>4. ASSUME Request(p) PROVE TypeOK'
    <2>1. pc' \in [Procs -> Steps] /\ loc' \in [Procs -> Locals]
        BY <1>0, <1>a, <1>4, LocalsClosed, GotoTyped, GotoWithTyped, ZenonT(60) DEF Request, BuildSteps, Results, TypeOK
    <2>2. faults' \in 0..MaxFaults
        BY <1>4, FaultTyped DEF Request, NoFault
    <2> QED BY <1>4, <2>1, <2>2, <1>0, KindTyped, SMTT(60) DEF Request, TypeOK, Responses, NoResponse, Locals
<1>5. ASSUME Gate(p) PROVE TypeOK'
    <2>1. pc' \in [Procs -> Steps] /\ loc' \in [Procs -> Locals]
        BY <1>0, <1>a, <1>5, LocalsClosed, GotoTyped, GotoWithTyped, ZenonT(60) DEF Gate, BuildSteps, Results, TypeOK
    <2>2. faults' \in 0..MaxFaults
        BY <1>5, FaultTyped DEF Gate, NoFault
    <2> QED BY <1>5, <2>1, <2>2, <1>0, KindTyped, SMTT(60) DEF Gate, TypeOK, Responses, NoResponse, Locals
<1>6. ASSUME Intend(p) PROVE TypeOK'
    <2>1. pc' \in [Procs -> Steps] /\ loc' \in [Procs -> Locals]
        BY <1>0, <1>a, <1>6, LocalsClosed, GotoTyped, GotoWithTyped, ZenonT(60) DEF Intend, BuildSteps, Results, TypeOK
    <2>2. faults' \in 0..MaxFaults
        BY <1>6, FaultTyped DEF Intend, NoFault
    <2> QED BY <1>6, <2>1, <2>2, <1>0, KindTyped, SMTT(60) DEF Intend, TypeOK, Responses, NoResponse, Locals
<1>7. ASSUME Record(p) PROVE TypeOK'
    <2>1. pc' \in [Procs -> Steps] /\ loc' \in [Procs -> Locals]
        BY <1>0, <1>a, <1>7, LocalsClosed, GotoTyped, GotoWithTyped, ZenonT(60) DEF Record, BuildSteps, Results, TypeOK
    <2>2. faults' \in 0..MaxFaults
        BY <1>7, FaultTyped DEF Record, NoFault
    <2> QED BY <1>7, <2>1, <2>2, <1>0, KindTyped, SMTT(60) DEF Record, TypeOK, Responses, NoResponse, Locals
<1>8. ASSUME Create(p) PROVE TypeOK'
    <2>1. pc' \in [Procs -> Steps] /\ loc' \in [Procs -> Locals]
        BY <1>0, <1>a, <1>8, LocalsClosed, GotoTyped, GotoWithTyped, ZenonT(60) DEF Create, BuildSteps, Results, TypeOK
    <2>2. faults' \in 0..MaxFaults
        BY <1>8, FaultTyped DEF Create, NoFault
    <2>3. loc[p].dec \in {"grant", "deny"}
        BY <1>0 DEF Locals
    <2>4. [kind |-> loc[p].dec, by |-> Kind(p), cancelled |-> FALSE] \in Responses
        BY <2>3, KindTyped DEF Responses
    <2>5. frp' \in Responses
        BY <1>8, <2>4, ZenonT(60) DEF Create, TypeOK
    <2> QED BY <1>8, <2>1, <2>2, <2>5, SMTT(60) DEF Create, TypeOK
<1>9. ASSUME Undo(p) PROVE TypeOK'
    <2>1. pc' \in [Procs -> Steps] /\ loc' \in [Procs -> Locals]
        <3>1. loc[p].result \in Results
            BY <1>0 DEF Locals
        <3> QED BY <1>0, <1>a, <1>9, <3>1, LocalsClosed, GotoWithTyped, ZenonT(60) DEF Undo, BuildSteps
    <2>2. faults' \in 0..MaxFaults
        BY <1>9, FaultTyped DEF Undo, NoFault
    <2> QED BY <1>9, <2>1, <2>2, <1>0, KindTyped DEF Undo, TypeOK, Responses, NoResponse, Locals
<1>10. ASSUME StopTimer(p) PROVE TypeOK'
    <2>1. pc' \in [Procs -> Steps] /\ loc' \in [Procs -> Locals]
        BY <1>0, <1>a, <1>10, LocalsClosed, GotoTyped, GotoWithTyped, ZenonT(60) DEF StopTimer, BuildSteps, Results, TypeOK
    <2>2. faults' \in 0..MaxFaults
        BY <1>10, FaultTyped DEF StopTimer, NoFault
    <2> QED BY <1>10, <2>1, <2>2, <1>0, KindTyped, SMTT(60) DEF StopTimer, TypeOK, Responses, NoResponse, Locals
<1>11. ASSUME Unlock(p) PROVE TypeOK'
    <2>1. pc' \in [Procs -> Steps] /\ loc' \in [Procs -> Locals]
        BY <1>0, <1>a, <1>11, LocalsClosed, GotoTyped, GotoWithTyped, ZenonT(60) DEF Unlock, BuildSteps, Results, TypeOK
    <2>2. faults' \in 0..MaxFaults
        BY <1>11, FaultTyped DEF Unlock, NoFault
    <2>3. holder' \in [Procs -> Procs \cup {Nobody}]
        BY <1>11, ZenonT(60) DEF Unlock, TypeOK
    <2> QED BY <1>11, <2>1, <2>2, <2>3, SMTT(60) DEF Unlock, TypeOK
<1> QED BY <1>1, <1>2, <1>3, <1>4, <1>5, <1>6, <1>7, <1>8, <1>9, <1>10, <1>11 DEF Build

LEMMA ResponseTyped ==
    ASSUME TypeOK
    PROVE  /\ NoResponse \in Responses
           /\ \A b \in BOOLEAN : Answered => [frp EXCEPT !.cancelled = b] \in Responses
BY DEF TypeOK, Responses, NoResponse, Answered

(* Setting the cancel mark of a live grant keeps the response typed. *)
LEMMA CancelMarkTyped ==
    ASSUME TypeOK PROVE Cancelled \in Responses
<1>1. CASE LiveGrant
    <2>1. frp \in [kind : {"grant", "deny"}, by : Kinds, cancelled : BOOLEAN]
        BY <1>1 DEF LiveGrant, TypeOK, Responses, NoResponse
    <2> QED BY <1>1, <2>1, ZenonT(60) DEF Cancelled, Responses
<1>2. CASE ~LiveGrant
    BY <1>2 DEF Cancelled, TypeOK
<1> QED BY <1>1, <1>2

LEMMA RetryTyped ==
    ASSUME TypeOK, RetryOrGiveUp
    PROVE  /\ timer' \in {"none", "pending", "fired"}
           /\ attempt' \in 0..RetryAttempts
           /\ givenUp' \in BOOLEAN
<1>1. attempt \in 0..RetryAttempts /\ RetryAttempts \in Nat
    BY QueueAssumption DEF TypeOK
<1>2. CASE attempt >= RetryAttempts
    BY <1>1, <1>2 DEF TypeOK, RetryOrGiveUp
<1>3. CASE ~(attempt >= RetryAttempts)
    <2>1. attempt' = attempt + 1 /\ UNCHANGED givenUp /\ timer' \in {timer, "pending"}
        BY <1>3 DEF RetryOrGiveUp
    <2>2. attempt' \in 0..RetryAttempts
        BY <1>1, <1>3, <2>1
    <2> QED BY <2>1, <2>2 DEF TypeOK
<1> QED BY <1>2, <1>3

LEMMA NextTyped ==
    ASSUME TypeOK, [Next]_vars PROVE TypeOK'
<1> USE DEF stored, volatile, ghost, KeepRest
<1>a. /\ "client" \in Procs /\ "fallback" \in Procs /\ "recovery" \in Procs
      /\ Operators \subseteq Procs
    BY DEF Procs
<1>b. \A p \in Procs : loc[p] \in Locals
    BY SMTT(60) DEF TypeOK
<1>c. IdleLocals \in Locals
    BY <1>a, <1>b, LocalsClosed, ZenonT(60)
<1> DEFINE Threads == pc' \in [Procs -> Steps] /\ loc' \in [Procs -> Locals]
<1>1. ASSUME NEW p \in Operators, OperatorStep(p) PROVE TypeOK'
    <2>1. CASE AnswerReturns(p)
        <3>1. Threads
            BY <1>a, <1>c, <2>1, GotoWithTyped DEF AnswerReturns, Steps
        <3> QED BY <2>1, <3>1 DEF AnswerReturns, TypeOK
    <2> QED BY <1>1, <2>1, <1>a, BuildTyped DEF OperatorStep
<1>2. ASSUME NEW p \in Operators, NEW d \in {"grant", "deny"}, Answer(p, d) PROVE TypeOK'
    <2>1. Threads
        BY <1>a, <1>b, <1>2, LocalsClosed, GotoWithTyped, ZenonT(60) DEF Answer, Call, Steps, BuildSteps
    <2> QED BY <1>2, <2>1, SMTT(60) DEF Answer, TypeOK
<1>3. ASSUME Post PROVE TypeOK'
    <2>1. Threads
        BY <1>a, <1>b, <1>c, <1>3, LocalsClosed, GotoTyped, GotoWithTyped, ZenonT(60) DEF Post, Call, Steps, BuildSteps, TypeOK
    <2>2. faults' \in 0..MaxFaults
        BY <1>3, FaultTyped DEF Post, NoFault
    <2> QED BY <1>3, <2>1, <2>2, ResponseTyped, RetryTyped, QueueAssumption, SMTT(60) DEF Post, TypeOK
<1>4. ASSUME Submit PROVE TypeOK'
    <2>1. Threads
        BY <1>a, <1>b, <1>c, <1>4, LocalsClosed, GotoTyped, GotoWithTyped, ZenonT(60) DEF Submit, Arm, Call, Steps, BuildSteps, TypeOK
    <2>2. faults' \in 0..MaxFaults
        BY <1>4, FaultTyped DEF Submit, NoFault
    <2> QED BY <1>4, <2>1, <2>2, ResponseTyped, RetryTyped, QueueAssumption, SMTT(60) DEF Submit, Arm, TypeOK
<1>5. ASSUME Cancel PROVE TypeOK'
    <2>1. Threads
        BY <1>a, <1>b, <1>c, <1>5, LocalsClosed, GotoTyped, GotoWithTyped, ZenonT(60) DEF Cancel, Call, Steps, BuildSteps, TypeOK
    <2>2. faults' \in 0..MaxFaults
        BY <1>5, FaultTyped DEF Cancel, NoFault
    <2> QED BY <1>5, <2>1, <2>2, ResponseTyped, RetryTyped, QueueAssumption, SMTT(60) DEF Cancel, TypeOK
<1>6. ASSUME MarkRequest PROVE TypeOK'
    <2>1. Threads
        BY <1>a, <1>b, <1>c, <1>6, LocalsClosed, GotoTyped, GotoWithTyped, ZenonT(60) DEF MarkRequest, Call, Steps, BuildSteps, TypeOK
    <2>2. faults' \in 0..MaxFaults
        BY <1>6, FaultTyped DEF MarkRequest, NoFault
    <2> QED BY <1>6, <2>1, <2>2, ResponseTyped, RetryTyped, QueueAssumption, SMTT(60) DEF MarkRequest, TypeOK
<1>7. ASSUME CancelBuilt PROVE TypeOK'
    <2>1. Threads
        BY <1>a, <1>b, <1>c, <1>7, LocalsClosed, GotoTyped, GotoWithTyped, ZenonT(60) DEF CancelBuilt, Call, Steps, BuildSteps, TypeOK
    <2>2. faults' \in 0..MaxFaults
        BY <1>7, FaultTyped DEF CancelBuilt, NoFault
    <2>3. settled' \in BOOLEAN
        BY <1>7, ZenonT(60) DEF CancelBuilt, TypeOK
    <2> QED BY <1>7, <2>1, <2>2, <2>3, SMTT(60) DEF CancelBuilt, TypeOK
<1>8. ASSUME CancelGrants PROVE TypeOK'
    <2>1. Threads
        BY <1>a, <1>b, <1>c, <1>8, LocalsClosed, GotoTyped, GotoWithTyped, ZenonT(60) DEF CancelGrants, Call, Steps, BuildSteps, TypeOK
    <2>2. faults' \in 0..MaxFaults
        BY <1>8, FaultTyped DEF CancelGrants, NoFault
    <2>3. frp' \in Responses /\ settled' \in BOOLEAN
        BY <1>8, CancelMarkTyped, ZenonT(60) DEF CancelGrants, TypeOK
    <2> QED BY <1>8, <2>1, <2>2, <2>3 DEF CancelGrants, TypeOK
<1>9. ASSUME Fire PROVE TypeOK'
    <2>1. Threads
        BY <1>a, <1>b, <1>c, <1>9, LocalsClosed, GotoTyped, GotoWithTyped, ZenonT(60) DEF Fire, Call, Steps, BuildSteps, TypeOK
    <2>2. faults' \in 0..MaxFaults
        BY <1>9, FaultTyped DEF Fire, NoFault
    <2> QED BY <1>9, <2>1, <2>2, ResponseTyped, RetryTyped, QueueAssumption DEF Fire, TypeOK
<1>10. ASSUME FallbackRead PROVE TypeOK'
    <2>1. Threads
        BY <1>a, <1>b, <1>c, <1>10, LocalsClosed, GotoTyped, GotoWithTyped, ZenonT(60) DEF FallbackRead, ForgetTimer, FallbackDone, Call, Steps, BuildSteps, TypeOK
    <2>2. faults' \in 0..MaxFaults
        BY <1>10, FaultTyped DEF FallbackRead, NoFault
    <2> QED BY <1>10, <2>1, <2>2, ResponseTyped, RetryTyped, QueueAssumption, SMTT(60) DEF FallbackRead, ForgetTimer, FallbackDone, TypeOK
<1>11. ASSUME FallbackBuilt PROVE TypeOK'
    <2>1. Threads
        BY <1>a, <1>b, <1>c, <1>11, LocalsClosed, GotoTyped, GotoWithTyped, ZenonT(60) DEF FallbackBuilt, ForgetTimer, FallbackDone, Call, Steps, BuildSteps, TypeOK
    <2>2. faults' \in 0..MaxFaults
        BY <1>11, FaultTyped DEF FallbackBuilt, NoFault
    <2> QED BY <1>11, <2>1, <2>2, ResponseTyped, RetryTyped, QueueAssumption, SMTT(60) DEF FallbackBuilt, ForgetTimer, FallbackDone, TypeOK
<1>12. ASSUME Recover PROVE TypeOK'
    <2>1. Threads
        BY <1>a, <1>b, <1>c, <1>12, LocalsClosed, GotoTyped, GotoWithTyped, ZenonT(60) DEF Recover, Arm, Serve, Call, Steps, BuildSteps, TypeOK
    <2>2. faults' \in 0..MaxFaults
        BY <1>12, FaultTyped DEF Recover, NoFault
    <2> QED BY <1>12, <2>1, <2>2, ResponseTyped, RetryTyped, QueueAssumption, SMTT(60) DEF Recover, Arm, Serve, TypeOK
<1>13. ASSUME RecoverBuilt PROVE TypeOK'
    <2>1. Threads
        BY <1>a, <1>b, <1>c, <1>13, LocalsClosed, GotoTyped, GotoWithTyped, ZenonT(60) DEF RecoverBuilt, Serve, Call, Steps, BuildSteps, TypeOK
    <2>2. faults' \in 0..MaxFaults
        BY <1>13, FaultTyped DEF RecoverBuilt, NoFault
    <2> QED BY <1>13, <2>1, <2>2, ResponseTyped, RetryTyped, QueueAssumption, SMTT(60) DEF RecoverBuilt, Serve, TypeOK
<1>14. ASSUME RecoverGrant PROVE TypeOK'
    <2>1. Threads
        BY <1>a, <1>b, <1>c, <1>14, LocalsClosed, GotoTyped, GotoWithTyped, ZenonT(60) DEF RecoverGrant, Serve, Call, Steps, BuildSteps, TypeOK
    <2>2. faults' \in 0..MaxFaults
        BY <1>14, FaultTyped DEF RecoverGrant, NoFault
    <2>3. frp' \in Responses /\ unrepaired' \in BOOLEAN
        BY <1>14, CancelMarkTyped, ZenonT(60) DEF RecoverGrant, TypeOK
    <2> QED BY <1>14, <2>1, <2>2, <2>3, SMTT(60) DEF RecoverGrant, Serve, TypeOK
<1>15. ASSUME DeleteRequests PROVE TypeOK'
    BY <1>c, <1>15, ResponseTyped, QueueAssumption DEF DeleteRequests, Fault, NoFault, TypeOK, Steps, NothingTaken
<1>16. ASSUME DeleteResponses PROVE TypeOK'
    <2> DEFINE Taken == [frq : {"none", "requested", "cancelled"}, frp : Responses, rec : Kinds \cup {"none"}]
    <2>1. taken \in Taken /\ NothingTaken \in Taken
        BY ResponseTyped DEF TypeOK, NothingTaken
    <2>2. [taken EXCEPT !.frp = frp, !.rec = rec] \in Taken
        BY <2>1, ZenonT(60) DEF TypeOK
    <2>3. taken.frq \in {"none", "requested", "cancelled"}
        BY <2>1
    <2>4. faults' \in 0..MaxFaults
        BY <1>16, FaultTyped DEF DeleteResponses
    <2>5. frq' \in {"none", "requested", "cancelled", "deleted"} /\ frp' \in Responses /\ rec' \in Kinds \cup {"none"}
        BY <1>16, <2>1, ResponseTyped DEF DeleteResponses, TypeOK
    <2>6. undeleted' \in BOOLEAN /\ del' \in {"idle", "requests", "responses"}
        BY <1>16, ZenonT(60) DEF DeleteResponses, TypeOK
    <2>7. taken' \in [frq : {"none", "requested", "cancelled"}, frp : Responses, rec : Kinds \cup {"none"}]
        BY <1>16, <2>1, <2>2, ZenonT(60) DEF DeleteResponses
    <2> QED BY <1>16, <2>4, <2>5, <2>6, <2>7 DEF DeleteResponses, TypeOK
<1>17. ASSUME DeleteDevice PROVE TypeOK'
    <2>1. /\ taken.frq \in {"none", "requested", "cancelled"}
          /\ taken.frp \in Responses
          /\ taken.rec \in Kinds \cup {"none"}
        BY DEF TypeOK
    <2>2. NothingTaken \in [frq : {"none", "requested", "cancelled"}, frp : Responses, rec : Kinds \cup {"none"}]
        BY ResponseTyped DEF NothingTaken
    <2>3. faults' \in 0..MaxFaults
        BY <1>17, FaultTyped DEF DeleteDevice
    <2>5. frq' \in {"none", "requested", "cancelled", "deleted"} /\ frp' \in Responses /\ rec' \in Kinds \cup {"none"}
        BY <1>17, <2>1, ResponseTyped DEF DeleteDevice, TypeOK
    <2>6. undeleted' \in BOOLEAN /\ del' \in {"idle", "requests", "responses"}
        BY <1>17, ZenonT(60) DEF DeleteDevice, TypeOK
    <2>7. taken' \in [frq : {"none", "requested", "cancelled"}, frp : Responses, rec : Kinds \cup {"none"}]
        BY <1>17, <2>1, <2>2 DEF DeleteDevice
    <2> QED BY <1>17, <2>3, <2>5, <2>6, <2>7 DEF DeleteDevice, TypeOK
<1>18. ASSUME Close PROVE TypeOK'
    BY <1>c, <1>18, ResponseTyped, QueueAssumption DEF Close, Fault, NoFault, TypeOK, Steps, NothingTaken
<1>19. ASSUME CloseReturns PROVE TypeOK'
    BY <1>c, <1>19, ResponseTyped, QueueAssumption DEF CloseReturns, Fault, NoFault, TypeOK, Steps, NothingTaken
<1>20. ASSUME Restart PROVE TypeOK'
    <2>1. pc' \in [Procs -> Steps] /\ loc' \in [Procs -> Locals] /\ holder' \in [Procs -> Procs \cup {Nobody}]
        BY <1>c, <1>20 DEF Restart, Steps
    <2>2. taken' \in [frq : {"none", "requested", "cancelled"}, frp : Responses, rec : Kinds \cup {"none"}]
        BY <1>20, ResponseTyped DEF Restart, NothingTaken
    <2>3. restarts' \in 0..MaxRestarts /\ attempt' \in 0..RetryAttempts
        BY <1>20, QueueAssumption DEF Restart, TypeOK
    <2> QED BY <1>20, <2>1, <2>2, <2>3, ZenonT(60) DEF Restart, TypeOK
<1>21. CASE UNCHANGED vars
    BY <1>21 DEF vars, TypeOK
<1> QED
    BY <1>1, <1>2, <1>3, <1>4, <1>5, <1>6, <1>7, <1>8, <1>9, <1>10, <1>11, <1>12, <1>13, <1>14, <1>15, <1>16, <1>17, <1>18, <1>19, <1>20, <1>21, <1>a, BuildTyped
       DEF Next, ClientStep, FallbackStep, RecoveryStep, DeleteStep

LEMMA InitTyped == Init => TypeOK
<1> SUFFICES ASSUME Init PROVE TypeOK
    OBVIOUS
<1>1. IdleLocals \in Locals
    BY DEF IdleLocals, Locals, Results
<1>2. NoResponse \in Responses
    BY DEF Responses
<1>3. NothingTaken \in [frq : {"none", "requested", "cancelled"}, frp : Responses, rec : Kinds \cup {"none"}]
    BY <1>2 DEF NothingTaken
<1>4. "idle" \in Steps
    BY DEF Steps
<1>5. holder \in [Procs -> Procs \cup {Nobody}] /\ pc \in [Procs -> Steps] /\ loc \in [Procs -> Locals]
    BY <1>1, <1>4 DEF Init
<1>6. frp \in Responses /\ taken \in [frq : {"none", "requested", "cancelled"}, frp : Responses, rec : Kinds \cup {"none"}]
    BY <1>2, <1>3 DEF Init
<1>7. /\ attempt \in 0..RetryAttempts
      /\ faults \in 0..MaxFaults /\ deletes \in 0..MaxDeletes /\ restarts \in 0..MaxRestarts
    BY QueueAssumption DEF Init
<1>8. givenUp \in BOOLEAN /\ undeleted \in BOOLEAN /\ unrepaired \in BOOLEAN /\ settled \in BOOLEAN
    BY ZenonT(60) DEF Init
<1> QED BY <1>5, <1>6, <1>7, <1>8 DEF Init, TypeOK

(* Every reachable state is typed: in particular the fallback never makes   *)
(* more than RetryAttempts attempts (retryOrGiveUp).                        *)
THEOREM TypeCorrect == Spec => []TypeOK
<1>1. TypeOK /\ [Next]_vars => TypeOK'
    BY NextTyped
<1> QED BY InitTyped, <1>1, PTL DEF Spec
----------------------------------------------------------------------------
(* Between its first and its last removal a delete of the EndDevice leaves  *)
(* no request stored.                                                       *)
DeleteHidesRequest == del # "idle" => frq = "deleted"

LEMMA DeleteInductive == Spec => []DeleteHidesRequest
<1>1. Init => DeleteHidesRequest
    BY DEF Init, DeleteHidesRequest
<1>2. DeleteHidesRequest /\ [Next]_vars => DeleteHidesRequest'
    <2> SUFFICES ASSUME DeleteHidesRequest, [Next]_vars PROVE DeleteHidesRequest'
        OBVIOUS
    <2> USE DEF DeleteHidesRequest, stored, volatile, ghost, KeepRest
    <2>1. ASSUME NEW p \in Procs, Build(p) PROVE DeleteHidesRequest'
        BY <2>1 DEF Build, Lookup, Lock, Check, Request, Gate, Intend, Record, Create, Undo, StopTimer, Unlock
    <2>2. CASE Post \/ Cancel \/ Submit \/ MarkRequest \/ CancelBuilt \/ CancelGrants
        BY <2>2 DEF Post, Cancel, Submit, MarkRequest, CancelBuilt, CancelGrants
    <2>3. CASE Fire \/ FallbackRead \/ FallbackBuilt \/ Recover \/ RecoverBuilt \/ RecoverGrant
        BY <2>3 DEF Fire, FallbackRead, FallbackBuilt, Recover, RecoverBuilt, RecoverGrant
    <2>4. CASE DeleteRequests \/ DeleteResponses \/ DeleteDevice
        BY <2>4 DEF DeleteRequests, DeleteResponses, DeleteDevice
    <2>5. CASE Close \/ CloseReturns \/ Restart
        BY <2>5 DEF Close, CloseReturns, Restart
    <2>6. ASSUME NEW p \in Operators, AnswerReturns(p) \/ \E d \in {"grant", "deny"} : Answer(p, d)
          PROVE DeleteHidesRequest'
        BY <2>6 DEF AnswerReturns, Answer
    <2>7. CASE UNCHANGED vars
        BY <2>7 DEF vars
    <2> QED
        BY <2>1, <2>2, <2>3, <2>4, <2>5, <2>6, <2>7
           DEF Next, OperatorStep, ClientStep, FallbackStep, RecoveryStep, DeleteStep, Procs
<1> QED BY <1>1, <1>2, PTL DEF Spec

(* Exactly one answer, for any number of racing threads: a stored response  *)
(* is never replaced (Queue.build over a response store that refuses a      *)
(* duplicate).                                                              *)
THEOREM AnsweredOnce == Spec => ResponseNeverReplaced
<1> DEFINE Kept == Answered => \/ frp' = frp
                               \/ frp' = [frp EXCEPT !.cancelled = TRUE]
                               \/ frq = "deleted" /\ frp' = NoResponse
<1>1. DeleteHidesRequest /\ [Next]_vars => [Kept]_vars
    <2> SUFFICES ASSUME DeleteHidesRequest, [Next]_vars, Answered PROVE Kept
        OBVIOUS
    <2> USE DEF stored, volatile, ghost, KeepRest
    <2>1. ASSUME NEW p \in Procs, Build(p) PROVE frp' = frp
        BY <2>1 DEF Build, Lookup, Lock, Check, Request, Gate, Intend, Record, Create, Undo, StopTimer, Unlock
    <2>2. CASE Post \/ Cancel \/ Submit \/ MarkRequest \/ CancelBuilt
        BY <2>2 DEF Post, Cancel, Submit, MarkRequest, CancelBuilt
    <2>3. CASE CancelGrants \/ RecoverGrant
        BY <2>3 DEF CancelGrants, RecoverGrant, Cancelled
    <2>4. CASE Fire \/ FallbackRead \/ FallbackBuilt \/ Recover \/ RecoverBuilt
        BY <2>4 DEF Fire, FallbackRead, FallbackBuilt, Recover, RecoverBuilt
    <2>5. CASE DeleteRequests \/ DeleteResponses \/ DeleteDevice
        BY <2>5 DEF DeleteRequests, DeleteResponses, DeleteDevice, DeleteHidesRequest
    <2>6. CASE Close \/ CloseReturns \/ Restart
        BY <2>6 DEF Close, CloseReturns, Restart
    <2>7. ASSUME NEW p \in Operators, AnswerReturns(p) \/ \E d \in {"grant", "deny"} : Answer(p, d)
          PROVE frp' = frp
        BY <2>7 DEF AnswerReturns, Answer
    <2>8. CASE UNCHANGED vars
        BY <2>8 DEF vars
    <2> QED
        BY <2>1, <2>2, <2>3, <2>4, <2>5, <2>6, <2>7, <2>8
           DEF Next, OperatorStep, ClientStep, FallbackStep, RecoveryStep, DeleteStep, Procs
<1> QED BY <1>1, DeleteInductive, PTL DEF Spec, ResponseNeverReplaced
----------------------------------------------------------------------------
(* The strengthening CancelSettles needs: the client only ever denies, and  *)
(* once its denial is stored, or it has found the answer and cancelled it,  *)
(* a response is there that commits nothing.                                *)
Harmless == Answered /\ ~LiveGrant
SettleInv ==
    /\ loc["client"].dec = "deny"
    /\ pc["client"] = "undo" => loc["client"].result # "ok"
    /\ (frq # "deleted" /\ ~undeleted) =>
          /\ settled => Harmless
          /\ (pc["client"] \in {"stopTimer", "unlock", "built"} /\ loc["client"].result = "ok") => Harmless

(* No step but a delete's turns a harmless answer into a commitment. *)
LEMMA HarmlessStable ==
    ASSUME TypeOK, DeleteHidesRequest, [Next]_vars, Harmless, frq' # "deleted", ~undeleted'
    PROVE  Harmless' /\ frq # "deleted" /\ ~undeleted
<1> USE DEF stored, volatile, ghost, KeepRest, DeleteHidesRequest, Harmless
<1>1. CASE UNCHANGED <<frp, ask, frq, undeleted>>
    BY <1>1 DEF Answered, LiveGrant
<1>2. ASSUME NEW p \in Procs, Build(p) PROVE UNCHANGED <<frp, ask, frq, undeleted>>
    BY <1>2 DEF Build, Lookup, Lock, Check, Request, Gate, Intend, Record, Create, Undo, StopTimer, Unlock
<1>3. CASE Cancel \/ Submit \/ CancelBuilt
    BY <1>1, <1>3 DEF Cancel, Submit, CancelBuilt
<1>4. CASE CancelGrants \/ RecoverGrant
    BY <1>4, SMTT(60) DEF CancelGrants, RecoverGrant, Cancelled, Answered, LiveGrant
<1>5. CASE Fire \/ FallbackRead \/ FallbackBuilt \/ Recover \/ RecoverBuilt
    BY <1>1, <1>5 DEF Fire, FallbackRead, FallbackBuilt, Recover, RecoverBuilt
<1>6. CASE DeleteRequests \/ DeleteResponses \/ DeleteDevice
    BY <1>6 DEF DeleteRequests, DeleteResponses, DeleteDevice
<1>7. CASE Close \/ CloseReturns \/ Restart
    BY <1>1, <1>7 DEF Close, CloseReturns, Restart
<1>8. ASSUME NEW p \in Operators, AnswerReturns(p) \/ \E d \in {"grant", "deny"} : Answer(p, d)
      PROVE UNCHANGED <<frp, ask, frq, undeleted>>
    BY <1>8 DEF AnswerReturns, Answer
<1>9. CASE Post \/ MarkRequest
    BY <1>9 DEF Post, MarkRequest, Answered, LiveGrant
<1>10. CASE UNCHANGED vars
    BY <1>1, <1>10, SMTT(60) DEF vars
<1> QED
    BY <1>1, <1>2, <1>3, <1>4, <1>5, <1>6, <1>7, <1>8, <1>9, <1>10
       DEF Next, OperatorStep, ClientStep, FallbackStep, RecoveryStep, DeleteStep, Procs

(* A step of the client's own build or cancel keeps the invariant. *)
LEMMA SettleClient ==
    ASSUME TypeOK, SettleInv, Build("client") \/ Cancel \/ MarkRequest \/ CancelBuilt \/ CancelGrants \/ Submit \/ Post
    PROVE  /\ loc'["client"].dec = "deny"
           /\ pc'["client"] = "undo" => loc'["client"].result # "ok"
           /\ (frq # "deleted" /\ ~undeleted /\ ~(settled /\ Harmless)) =>
                 /\ settled' => Harmless'
                 /\ (pc'["client"] \in {"stopTimer", "unlock", "built"} /\ loc'["client"].result = "ok") => Harmless'
<1> USE DEF stored, volatile, ghost, KeepRest, Harmless, SettleInv
<1>0. /\ "client" \in Procs /\ pc \in [Procs -> Steps] /\ loc \in [Procs -> Locals]
      /\ loc["client"] \in Locals
    BY DEF TypeOK, Procs
<1>l. /\ \A x \in Locals, r, q \in {"x"} \cup Results \cup Kinds \cup {"none"} :
            [x EXCEPT !.result = r, !.prev = q].dec = x.dec /\ [x EXCEPT !.result = r, !.prev = q].result = r
      /\ IdleLocals.dec = "deny" /\ IdleLocals.result = "ok" /\ [IdleLocals EXCEPT !.dec = "deny"].dec = "deny"
    BY DEF Locals, IdleLocals
<1> DEFINE Moves(l) ==
        /\ UNCHANGED <<frq, frp, ask, settled>>
        /\ loc'["client"] = l /\ l.dec = loc["client"].dec
        /\ \/ pc'["client"] = "unlock" /\ l.result # "ok"
           \/ pc'["client"] \notin {"undo", "stopTimer", "unlock", "built"}
<1>m. ASSUME NEW l \in Locals, Moves(l)
      PROVE  /\ loc'["client"].dec = "deny"
             /\ pc'["client"] = "undo" => loc'["client"].result # "ok"
             /\ (frq # "deleted" /\ ~undeleted /\ ~(settled /\ Harmless)) =>
                   /\ settled' => Harmless'
                   /\ (pc'["client"] \in {"stopTimer", "unlock", "built"} /\ loc'["client"].result = "ok") => Harmless'
    BY <1>m DEF Answered, LiveGrant
<1>r. ASSUME NEW r \in Results, r # "ok", Return("client", r), UNCHANGED <<frq, frp, ask, settled>>
      PROVE  \E l \in Locals : Moves(l)
    <2> DEFINE l == [loc["client"] EXCEPT !.result = r, !.prev = "none"]
    <2>1. l \in Locals /\ l.dec = loc["client"].dec /\ l.result = r
        BY <1>0, ZenonT(60) DEF Locals
    <2>2. loc'["client"] = l /\ pc'["client"] = "unlock"
        BY <1>0, <1>r DEF Return, GotoWith
    <2> QED BY <2>1, <2>2, <1>r, ZenonT(60)
<1>g. ASSUME NEW t, Goto("client", t), t \notin {"undo", "stopTimer", "unlock", "built"},
             UNCHANGED <<frq, frp, ask, settled>>
      PROVE  \E l \in Locals : Moves(l)
    <2>1. loc'["client"] = loc["client"] /\ pc'["client"] = t
        BY <1>0, <1>g DEF Goto
    <2> QED BY <2>1, <1>0, <1>g
<1>x. {"answered", "gone", "cancelled", "refused", "conflict", "failed"} \subseteq Results
    BY DEF Results
<1>1. CASE Lookup("client")
    <2>1. PICK m : /\ GotoWith("client", "lock", [loc["client"] EXCEPT !.mutex = m])
                   /\ UNCHANGED <<frq, frp, ask, settled>>
        BY <1>1, ZenonT(60) DEF Lookup
    <2>2. /\ loc'["client"] = [loc["client"] EXCEPT !.mutex = m] /\ pc'["client"] = "lock"
          /\ loc'["client"].dec = loc["client"].dec
        BY <1>0, <2>1 DEF GotoWith, Locals
    <2> QED BY <2>1, <2>2 DEF Answered, LiveGrant
<1>2. CASE Lock("client") \/ Check("client")
    <2>1. \/ Goto("client", "check") \/ Goto("client", "request")
          \/ Return("client", "answered") \/ Return("client", "failed")
        BY <1>2 DEF Lock, Check
    <2>2. UNCHANGED <<frq, frp, ask, settled>>
        BY <1>2 DEF Lock, Check
    <2> QED BY <2>1, <2>2, <1>g, <1>r, <1>x, <1>m
<1>3. CASE Request("client") \/ Gate("client")
    <2>1. \/ Goto("client", "gate") \/ Goto("client", "intend")
          \/ \E r \in {"gone", "cancelled", "refused", "conflict", "failed"} : Return("client", r)
        BY <1>3 DEF Request, Gate
    <2>2. UNCHANGED <<frq, frp, ask, settled>>
        BY <1>3 DEF Request, Gate
    <2> QED BY <2>1, <2>2, <1>g, <1>r, <1>x, <1>m
<1>4. CASE Intend("client")
    <2>1. UNCHANGED <<frq, frp, ask, settled>>
        BY <1>4 DEF Intend
    <2>2. CASE Return("client", "failed")
        BY <2>1, <2>2, <1>r, <1>x, <1>m
    <2>3. CASE GotoWith("client", "record", [loc["client"] EXCEPT !.prev = rec])
        <3>1. loc'["client"] = [loc["client"] EXCEPT !.prev = rec] /\ pc'["client"] = "record"
            BY <2>3, <1>0 DEF GotoWith
        <3>2. loc'["client"].dec = loc["client"].dec
            BY <3>1, <1>0 DEF Locals
        <3> QED BY <3>1, <3>2, <2>1 DEF Answered, LiveGrant
    <2> QED BY <1>4, <2>2, <2>3 DEF Intend
<1>8. CASE Record("client")
    <2>1. Goto("client", "create") \/ Return("client", "failed")
        BY <1>8 DEF Record
    <2>2. UNCHANGED <<frq, frp, ask, settled>>
        BY <1>8 DEF Record
    <2> QED BY <2>1, <2>2, <1>g, <1>r, <1>x, <1>m
<1>9. CASE Create("client")
    <2>1. CASE /\ frp' = [kind |-> loc["client"].dec, by |-> Kind("client"), cancelled |-> FALSE]
               /\ GotoWith("client", "stopTimer", [loc["client"] EXCEPT !.result = "ok", !.prev = "none"])
        <3>1. loc'["client"] = [loc["client"] EXCEPT !.result = "ok", !.prev = "none"] /\ pc'["client"] = "stopTimer"
            BY <2>1, <1>0 DEF GotoWith
        <3>2. loc'["client"].dec = loc["client"].dec
            BY <3>1, <1>0 DEF Locals
        <3>3. frp'.kind = "deny"
            BY <2>1
        <3> QED BY <3>1, <3>2, <3>3 DEF Answered, LiveGrant, NoResponse
    <2>2. ASSUME NEW r \in {"answered", "failed"}, frp' = frp,
                 GotoWith("client", "undo", [loc["client"] EXCEPT !.result = r])
          PROVE  /\ loc'["client"].dec = "deny"
                 /\ pc'["client"] = "undo" /\ loc'["client"].result # "ok"
        <3>1. loc'["client"] = [loc["client"] EXCEPT !.result = r] /\ pc'["client"] = "undo"
            BY <2>2, <1>0 DEF GotoWith
        <3> QED BY <3>1, <1>0 DEF Locals
    <2>3. UNCHANGED <<ask, settled>>
        BY <1>9 DEF Create
    <2> QED BY <1>9, <2>1, <2>2, <2>3 DEF Create, Answered, LiveGrant
<1>10. CASE Undo("client")
    <2>1. loc["client"].result \in Results /\ loc["client"].result # "ok"
        BY <1>0, <1>10, SMTT(60) DEF Undo, Locals
    <2>2. Return("client", loc["client"].result) /\ UNCHANGED <<frq, frp, ask, settled>>
        BY <1>10, SMTT(60) DEF Undo
    <2> QED BY <2>1, <2>2, <1>r, <1>m
<1>11. CASE StopTimer("client")
    <2>1. loc' = loc /\ pc["client"] = "stopTimer" /\ pc'["client"] = "unlock" /\ UNCHANGED <<frq, frp, ask, settled>>
        BY <1>0, <1>11 DEF StopTimer, Goto
    <2> QED BY <2>1 DEF Answered, LiveGrant
<1>12. CASE Unlock("client")
    <2>1. /\ loc'["client"] = [loc["client"] EXCEPT !.mutex = Nobody]
          /\ pc["client"] = "unlock" /\ pc'["client"] = "built" /\ UNCHANGED <<frq, frp, ask, settled>>
        BY <1>0, <1>12 DEF Unlock, GotoWith
    <2>2. loc'["client"].dec = loc["client"].dec /\ loc'["client"].result = loc["client"].result
        BY <2>1, <1>0 DEF Locals
    <2> QED BY <2>1, <2>2 DEF Answered, LiveGrant
<1>5. CASE Cancel \/ MarkRequest \/ Submit \/ Post
    BY <1>0, <1>5, <1>l DEF Cancel, MarkRequest, Submit, Post, Call, GotoWith, Goto, IdleLocals, Answered, LiveGrant
<1>6. CASE CancelBuilt
    <2>1. UNCHANGED <<frq, frp, ask>> /\ pc["client"] = "built"
        BY <1>6 DEF CancelBuilt
    <2>2. CASE loc["client"].result = "answered"
        <3>1. loc' = loc /\ pc'["client"] = "cancelGrants" /\ settled' = settled
            BY <1>0, <1>6, <2>2 DEF CancelBuilt, Goto
        <3> QED BY <3>1, <2>1 DEF Answered, LiveGrant
    <2>3. CASE loc["client"].result # "answered"
        <3>1. loc'["client"] = IdleLocals /\ pc'["client"] = "idle" /\ settled' = (settled \/ loc["client"].result = "ok")
            BY <1>0, <1>6, <2>3 DEF CancelBuilt, GotoWith
        <3> QED BY <3>1, <2>1, <1>l, ZenonT(60) DEF Answered, LiveGrant
    <2> QED BY <2>2, <2>3
<1>7. CASE CancelGrants
    BY <1>0, <1>7, <1>l DEF CancelGrants, Cancelled, GotoWith, Answered, LiveGrant, IdleLocals, TypeOK, Responses, NoResponse
<1> QED BY <1>1, <1>2, <1>3, <1>4, <1>5, <1>6, <1>7, <1>8, <1>9, <1>10, <1>11, <1>12, SMTT(60) DEF Build

(* A step of another thread leaves the client's locals alone. *)
LEMMA SettleOthers ==
    ASSUME NEW p \in Operators \cup {"fallback", "recovery"}, TypeOK,
           \/ Build(p) \/ AnswerReturns(p) \/ \E d \in {"grant", "deny"} : Answer(p, d)
           \/ p = "fallback" /\ (Fire \/ FallbackRead \/ FallbackBuilt)
           \/ p = "recovery" /\ (Recover \/ RecoverBuilt \/ RecoverGrant)
    PROVE  pc'["client"] = pc["client"] /\ loc'["client"] = loc["client"] /\ settled' = settled
<1> USE DEF stored, volatile, ghost, KeepRest, Goto, GotoWith, Return, Call
<1>0. "client" \in Procs /\ p \in Procs /\ p # "client" /\ pc \in [Procs -> Steps] /\ loc \in [Procs -> Locals]
    BY QueueAssumption DEF TypeOK, Procs
<1>1. CASE Lookup(p) \/ Lock(p) \/ Check(p) \/ Request(p) \/ Gate(p) \/ Intend(p)
    BY <1>0, <1>1 DEF Lookup, Lock, Check, Request, Gate, Intend
<1>2. CASE Record(p) \/ Create(p) \/ Undo(p) \/ StopTimer(p) \/ Unlock(p)
    BY <1>0, <1>2 DEF Record, Create, Undo, StopTimer, Unlock
<1>3. CASE AnswerReturns(p) \/ \E d \in {"grant", "deny"} : Answer(p, d)
    BY <1>0, <1>3 DEF AnswerReturns, Answer
<1>4. CASE p = "fallback" /\ (Fire \/ FallbackRead \/ FallbackBuilt)
    BY <1>0, <1>4 DEF Fire, FallbackRead, FallbackBuilt, FallbackDone
<1>5. CASE p = "recovery" /\ (Recover \/ RecoverBuilt \/ RecoverGrant)
    BY <1>0, <1>5 DEF Recover, RecoverBuilt, RecoverGrant, Serve
<1> QED BY <1>1, <1>2, <1>3, <1>4, <1>5 DEF Build

LEMMA SettleStep == TypeOK /\ DeleteHidesRequest /\ SettleInv /\ [Next]_vars => SettleInv'
<1> SUFFICES ASSUME TypeOK, DeleteHidesRequest, SettleInv, [Next]_vars PROVE SettleInv'
    OBVIOUS
<1> DEFINE Aside == pc'["client"] = pc["client"] /\ loc'["client"] = loc["client"] /\ settled' = settled
<1>1. CASE Aside
    <2>1. ASSUME frq' # "deleted", ~undeleted' PROVE frq # "deleted" /\ ~undeleted
        <3>1. CASE DeleteStep
            BY <3>1, <2>1 DEF DeleteStep, DeleteResponses, DeleteDevice, DeleteHidesRequest
        <3>2. CASE DeleteRequests \/ Post \/ MarkRequest
            BY <3>2, <2>1 DEF DeleteRequests, Post, MarkRequest, stored, KeepRest
        <3>3. ASSUME NEW p \in Procs, Build(p) PROVE UNCHANGED <<frq, undeleted>>
            BY <3>3 DEF Build, Lookup, Lock, Check, Request, Gate, Intend, Record, Create, Undo, StopTimer, Unlock, stored, ghost, KeepRest
        <3>4. CASE Cancel \/ Submit \/ CancelBuilt \/ CancelGrants
            BY <3>4, <2>1, SMTT(60) DEF Cancel, Submit, CancelBuilt, CancelGrants, stored, ghost
        <3>5. CASE Fire \/ FallbackRead \/ FallbackBuilt \/ Recover \/ RecoverBuilt \/ RecoverGrant
            BY <3>5, <2>1 DEF Fire, FallbackRead, FallbackBuilt, Recover, RecoverBuilt, RecoverGrant, stored, ghost
        <3>6. CASE Close \/ CloseReturns \/ Restart \/ UNCHANGED vars
            BY <3>6, <2>1 DEF Close, CloseReturns, Restart, stored, ghost, vars
        <3>7. ASSUME NEW p \in Operators, AnswerReturns(p) \/ \E d \in {"grant", "deny"} : Answer(p, d)
              PROVE UNCHANGED <<frq, undeleted>>
            BY <3>7 DEF AnswerReturns, Answer, stored, ghost
        <3> QED BY <2>1, <3>1, <3>2, <3>3, <3>4, <3>5, <3>6, <3>7
               DEF Next, OperatorStep, ClientStep, FallbackStep, RecoveryStep, Procs
    <2> QED BY <1>1, <2>1, HarmlessStable DEF SettleInv
<1>2. CASE Build("client") \/ Cancel \/ MarkRequest \/ CancelBuilt \/ CancelGrants \/ Submit \/ Post
    <2>1. frq' # "deleted" => frq # "deleted"
        BY <1>2, SMTT(60) DEF Build, Lookup, Lock, Check, Request, Gate, Intend, Record, Create, Undo, StopTimer, Unlock,
                    Cancel, MarkRequest, CancelBuilt, CancelGrants, Submit, Post, stored
    <2>2. undeleted' = undeleted
        BY <1>2 DEF Build, Lookup, Lock, Check, Request, Gate, Intend, Record, Create, Undo, StopTimer, Unlock,
                    Cancel, MarkRequest, CancelBuilt, CancelGrants, Submit, Post, KeepRest, ghost
    <2>3. (settled /\ Harmless /\ frq' # "deleted" /\ ~undeleted') => Harmless'
        BY HarmlessStable
    <2> QED BY <1>2, <2>1, <2>2, <2>3, SettleClient, SMTT(60) DEF SettleInv
<1>3. CASE DeleteRequests \/ DeleteStep \/ Close \/ CloseReturns \/ UNCHANGED vars
    BY <1>1, <1>3 DEF DeleteRequests, DeleteStep, DeleteResponses, DeleteDevice, Close, CloseReturns, vars, volatile, ghost
<1>4. CASE Restart
    <2>1. /\ pc'["client"] = "idle" /\ loc'["client"] = IdleLocals /\ UNCHANGED <<settled, frp, ask, frq, undeleted>>
        BY <1>4 DEF Restart, Procs, stored
    <2> QED BY <2>1 DEF SettleInv, Harmless, Answered, LiveGrant, IdleLocals
<1>5. ASSUME NEW p \in Operators \cup {"fallback", "recovery"},
           \/ Build(p) \/ AnswerReturns(p) \/ \E d \in {"grant", "deny"} : Answer(p, d)
           \/ p = "fallback" /\ (Fire \/ FallbackRead \/ FallbackBuilt)
           \/ p = "recovery" /\ (Recover \/ RecoverBuilt \/ RecoverGrant)
      PROVE SettleInv'
    BY <1>1, <1>5, SettleOthers
<1> QED BY <1>2, <1>3, <1>4, <1>5
       DEF Next, OperatorStep, ClientStep, FallbackStep, RecoveryStep

(* A client cancel that returned success leaves nothing committed, for any  *)
(* number of operators, faults and restarts (Canceller.Cancel).             *)
THEOREM CancelSettled == Spec => []CancelSettles
<1>1. Init => SettleInv
    BY DEF Init, SettleInv, IdleLocals, Procs
<1>2. SettleInv => CancelSettles
    BY DEF SettleInv, CancelSettles, Harmless
<1> QED BY <1>1, <1>2, SettleStep, TypeCorrect, DeleteInductive, PTL DEF Spec
----------------------------------------------------------------------------
(* The request needs no answer any more. *)
Over == Answered \/ frq = "deleted" \/ undeleted

(* A build that knows the request needs no answer any more. *)
Reported(p) ==
    \/ pc[p] = "stopTimer"
    \/ pc[p] \in {"undo", "unlock", "built"} /\ loc[p].result \in {"ok", "answered", "gone"}

(* The strengthening NoRequestForgotten needs: whoever takes the request out *)
(* of the queue's hands knows that it is over.                               *)
KeepInv ==
    /\ pc["client"] = "mark" => frq # "none"
    /\ del # "idle" => taken.frq # "none"
    /\ pc["recovery"] = "repair" => Over
    /\ \A p \in Procs : /\ pc[p] = "undo" => loc[p].result \in {"answered", "failed"}
                        /\ Reported(p) => Over
    /\ NoRequestForgotten

(* What one thread does. *)
ThreadStep(p) ==
    \/ Build(p)
    \/ p \in Operators /\ (AnswerReturns(p) \/ \E d \in {"grant", "deny"} : Answer(p, d))
    \/ p = "client" /\ (Post \/ Submit \/ Cancel \/ MarkRequest \/ CancelBuilt \/ CancelGrants)
    \/ p = "fallback" /\ (Fire \/ FallbackRead \/ FallbackBuilt)
    \/ p = "recovery" /\ (Recover \/ RecoverBuilt \/ RecoverGrant)

LEMMA StepsOfThreads ==
    ASSUME [Next]_vars
    PROVE  \/ \E p \in Procs : ThreadStep(p)
           \/ DeleteRequests \/ DeleteResponses \/ DeleteDevice
           \/ Close \/ CloseReturns \/ Restart \/ UNCHANGED vars
<1>1. {"client", "fallback", "recovery"} \subseteq Procs /\ Operators \subseteq Procs BY DEF Procs
<1>2. CASE \E p \in Operators : OperatorStep(p) \/ \E d \in {"grant", "deny"} : Answer(p, d)
    BY <1>1, <1>2 DEF OperatorStep, ThreadStep
<1>3. CASE Post \/ Cancel \/ ClientStep BY <1>1, <1>3, Zenon DEF ClientStep, ThreadStep
<1>4. CASE Fire \/ FallbackStep BY <1>1, <1>4, Zenon DEF FallbackStep, ThreadStep
<1>5. CASE RecoveryStep BY <1>1, <1>5, Zenon DEF RecoveryStep, ThreadStep
<1> QED BY <1>2, <1>3, <1>4, <1>5, Zenon DEF Next, DeleteStep

(* A step of one thread leaves the other threads alone. *)
LEMMA OthersStay ==
    ASSUME TypeOK, NEW p \in Procs, ThreadStep(p), NEW q \in Procs \ {p}
    PROVE  pc'[q] = pc[q] /\ loc'[q] = loc[q]
<1> USE DEF Goto, GotoWith, Return, Call
<1>0. pc \in [Procs -> Steps] /\ loc \in [Procs -> Locals] BY DEF TypeOK
<1>1. CASE Lookup(p) \/ Lock(p) \/ Check(p) \/ Request(p) \/ Gate(p) \/ Intend(p)
    BY <1>0, <1>1 DEF Lookup, Lock, Check, Request, Gate, Intend
<1>2. CASE Record(p) \/ Create(p) \/ Undo(p) \/ StopTimer(p) \/ Unlock(p)
    BY <1>0, <1>2 DEF Record, Create, Undo, StopTimer, Unlock
<1>3. CASE AnswerReturns(p) \/ \E d \in {"grant", "deny"} : Answer(p, d)
    BY <1>0, <1>3 DEF AnswerReturns, Answer
<1>4. CASE p = "fallback" /\ (Fire \/ FallbackRead \/ FallbackBuilt)
    BY <1>0, <1>4 DEF Fire, FallbackRead, FallbackBuilt, FallbackDone
<1>5. CASE p = "recovery" /\ (Recover \/ RecoverBuilt \/ RecoverGrant)
    BY <1>0, <1>5 DEF Recover, RecoverBuilt, RecoverGrant, Serve
<1>6. CASE p = "client" /\ (Post \/ Submit \/ Cancel \/ MarkRequest \/ CancelBuilt \/ CancelGrants)
    BY <1>0, <1>6 DEF Post, Submit, Cancel, MarkRequest, CancelBuilt, CancelGrants
<1> QED BY <1>1, <1>2, <1>3, <1>4, <1>5, <1>6 DEF ThreadStep, Build

LEMMA CancelledAnswers == ASSUME TypeOK, Answered PROVE Cancelled # NoResponse
<1>1. CASE LiveGrant
    <2>1. frp \in [kind : {"grant", "deny"}, by : Kinds, cancelled : BOOLEAN] BY DEF TypeOK, Responses, Answered
    <2>2. [frp EXCEPT !.cancelled = TRUE].cancelled = TRUE BY <2>1
    <2> QED BY <1>1, <2>2 DEF Cancelled, NoResponse
<1> QED BY <1>1 DEF Cancelled, Answered

(* A deleted request returns only by a delete that failed, and that is not   *)
(* forgotten.                                                                *)
LEMMA DeletedStays ==
    ASSUME [Next]_vars
    PROVE  (undeleted => undeleted') /\ (frq = "deleted" => frq' = "deleted" \/ (Fault /\ undeleted'))
<1> USE DEF stored, volatile, ghost, KeepRest
<1>1. ASSUME NEW p \in Procs, ThreadStep(p) PROVE undeleted' = undeleted /\ (frq = "deleted" => frq' = "deleted")
    <2>1. CASE Build(p)
        BY <2>1, Zenon DEF Build, Lookup, Lock, Check, Request, Gate, Intend, Record, Create, Undo, StopTimer, Unlock
    <2>2. CASE Post \/ Submit \/ Cancel \/ MarkRequest \/ CancelBuilt \/ CancelGrants
        BY <2>2 DEF Post, Submit, Cancel, MarkRequest, CancelBuilt, CancelGrants
    <2>3. CASE Fire \/ FallbackRead \/ FallbackBuilt \/ Recover \/ RecoverBuilt \/ RecoverGrant
        BY <2>3 DEF Fire, FallbackRead, FallbackBuilt, Recover, RecoverBuilt, RecoverGrant
    <2>4. CASE AnswerReturns(p) \/ \E d \in {"grant", "deny"} : Answer(p, d)
        BY <2>4 DEF AnswerReturns, Answer
    <2> QED BY <1>1, <2>1, <2>2, <2>3, <2>4 DEF ThreadStep
<1>2. CASE DeleteRequests \/ DeleteResponses \/ DeleteDevice
    BY <1>2 DEF DeleteRequests, DeleteResponses, DeleteDevice
<1>3. CASE Close \/ CloseReturns \/ Restart \/ UNCHANGED vars BY <1>3 DEF Close, CloseReturns, Restart, vars
<1> QED BY <1>1, <1>2, <1>3, StepsOfThreads

(* An answer goes only with a deleted request. *)
LEMMA StillAnswered ==
    ASSUME TypeOK, DeleteHidesRequest, Answered, frq # "deleted", [Next]_vars PROVE Answered'
<1> USE DEF stored, volatile, ghost, KeepRest
<1>1. CASE frp' = frp BY <1>1 DEF Answered
<1>2. ASSUME NEW p \in Procs, ThreadStep(p) PROVE frp' \in {frp, Cancelled}
    <2>1. CASE Build(p)
        BY <2>1, Zenon DEF Build, Lookup, Lock, Check, Request, Gate, Intend, Record, Create, Undo, StopTimer, Unlock
    <2>2. CASE Post \/ Submit \/ Cancel \/ MarkRequest \/ CancelBuilt \/ CancelGrants
        BY <2>2 DEF Post, Submit, Cancel, MarkRequest, CancelBuilt, CancelGrants
    <2>3. CASE Fire \/ FallbackRead \/ FallbackBuilt \/ Recover \/ RecoverBuilt \/ RecoverGrant
        BY <2>3 DEF Fire, FallbackRead, FallbackBuilt, Recover, RecoverBuilt, RecoverGrant
    <2>4. CASE AnswerReturns(p) \/ \E d \in {"grant", "deny"} : Answer(p, d)
        BY <2>4 DEF AnswerReturns, Answer
    <2> QED BY <1>2, <2>1, <2>2, <2>3, <2>4 DEF ThreadStep
<1>3. CASE DeleteRequests \/ DeleteResponses \/ DeleteDevice
    BY <1>1, <1>3 DEF DeleteRequests, DeleteResponses, DeleteDevice, DeleteHidesRequest
<1>4. CASE Close \/ CloseReturns \/ Restart \/ UNCHANGED vars BY <1>1, <1>4 DEF Close, CloseReturns, Restart, vars
<1> QED BY <1>1, <1>2, <1>3, <1>4, CancelledAnswers, StepsOfThreads DEF Answered

LEMMA OverStable == ASSUME TypeOK, DeleteHidesRequest, Over, [Next]_vars PROVE Over'
BY DeletedStays, StillAnswered DEF Over

LEMMA Moves ==
    ASSUME TypeOK, NEW p \in Procs
    PROVE  /\ \A t : Goto(p, t) => pc'[p] = t /\ loc'[p] = loc[p]
           /\ \A t, l : GotoWith(p, t, l) => pc'[p] = t /\ loc'[p] = l
           /\ \A r : Return(p, r) => pc'[p] = "unlock" /\ loc'[p].result = r
<1>0. pc \in [Procs -> Steps] /\ loc \in [Procs -> Locals] /\ loc[p] \in Locals BY DEF TypeOK
<1>1. \A t : Goto(p, t) => pc'[p] = t /\ loc'[p] = loc[p] BY <1>0 DEF Goto
<1>2. \A t, l : GotoWith(p, t, l) => pc'[p] = t /\ loc'[p] = l BY <1>0 DEF GotoWith
<1>3. ASSUME NEW r, Return(p, r) PROVE pc'[p] = "unlock" /\ loc'[p].result = r
    <2>1. PICK l : l = [loc[p] EXCEPT !.result = r, !.prev = "none"] BY Zenon
    <2>2. l.result = r BY <1>0, <2>1 DEF Locals
    <2>3. GotoWith(p, "unlock", l) BY <1>3, <2>1 DEF Return
    <2> QED BY <1>2, <2>2, <2>3
<1> QED BY <1>1, <1>2, <1>3

(* What a step of a build tells of the request. *)
LEMMA BuildTells ==
    ASSUME TypeOK, DeleteHidesRequest, KeepInv, NEW p \in Procs, Build(p), Over => Over'
    PROVE  /\ pc'[p] = "undo" => loc'[p].result \in {"answered", "failed"}
           /\ Reported(p)' => Over'
           /\ timer' = timer \/ Over
           /\ pc[p] \in BuildSteps /\ pc'[p] \in BuildSteps \cup {"built"}
           /\ UNCHANGED <<phase, frq, undeleted, unrepaired, givenUp, del, taken>>
<1> USE DEF stored, volatile, ghost, KeepRest, Reported
<1>0. loc[p] \in Locals BY DEF TypeOK
<1>1. UNCHANGED <<phase, frq, undeleted, unrepaired, givenUp, del, taken>>
    <2>1. CASE Lookup(p) \/ Lock(p) \/ Check(p) \/ Request(p) \/ Gate(p) \/ Intend(p)
        BY <2>1 DEF Lookup, Lock, Check, Request, Gate, Intend
    <2>2. CASE Record(p) \/ Create(p) \/ Undo(p) \/ StopTimer(p) \/ Unlock(p)
        BY <2>2 DEF Record, Create, Undo, StopTimer, Unlock
    <2> QED BY <2>1, <2>2 DEF Build
<1> USE DEF BuildSteps
<1>2. CASE Lookup(p)
    <2>1. pc[p] = "lookup" /\ timer' = timer /\ \E l : GotoWith(p, "lock", l) BY <1>2, Zenon DEF Lookup
    <2> QED BY <1>1, <2>1, Moves, SMTT(60), Z3T(60)
<1>3. CASE Lock(p) BY <1>1, <1>3, Moves, SMTT(60), Z3T(60) DEF Lock
<1>4. CASE Check(p) BY <1>1, <1>4, Moves, SMTT(60), Z3T(60) DEF Check, Over
<1>5. CASE Request(p)
    <2>1. /\ pc[p] = "request" /\ timer' = timer
          /\ \/ Goto(p, "gate") \/ Goto(p, "intend")
             \/ frq = "deleted" /\ Return(p, "gone")
             \/ \E r \in {"cancelled", "refused", "failed"} : Return(p, r)
        BY <1>5, Zenon DEF Request
    <2> QED BY <1>1, <2>1, Moves, SMTT(60), Z3T(60) DEF Over
<1>6. CASE Gate(p) BY <1>1, <1>6, Moves, SMTT(60), Z3T(60) DEF Gate
<1>7. CASE Intend(p)
    <2>1. pc[p] = "intend" /\ timer' = timer /\ (Return(p, "failed") \/ \E l : GotoWith(p, "record", l))
        BY <1>7, Zenon DEF Intend
    <2> QED BY <1>1, <2>1, Moves, SMTT(60), Z3T(60)
<1>8. CASE Record(p)
    <2>1. pc[p] = "record" /\ timer' = timer /\ (Return(p, "failed") \/ Goto(p, "create"))
        BY <1>8, Zenon DEF Record
    <2> QED BY <1>1, <2>1, Moves, SMTT(60), Z3T(60)
<1>9. CASE Create(p)
    <2>0. pc[p] = "create" /\ timer' = timer BY <1>9 DEF Create
    <2>1. CASE /\ frp' = [kind |-> loc[p].dec, by |-> Kind(p), cancelled |-> FALSE]
               /\ GotoWith(p, "stopTimer", [loc[p] EXCEPT !.result = "ok", !.prev = "none"])
        <3>1. frp'.kind # "none" BY <1>0, <2>1 DEF Locals
        <3>2. \E l : GotoWith(p, "stopTimer", l) BY <2>1
        <3> QED BY <1>1, <2>0, <3>1, <3>2, Moves, SMTT(60), Z3T(60) DEF Over, Answered, NoResponse
    <2>2. ASSUME NEW r \in {"answered", "failed"}, r = "answered" => Answered, frp' = frp,
                 GotoWith(p, "undo", [loc[p] EXCEPT !.result = r])
          PROVE  pc'[p] = "undo" /\ loc'[p].result = r /\ (Reported(p)' => Over')
        <3>1. PICK l : l = [loc[p] EXCEPT !.result = r] BY Zenon
        <3>2. l.result = r BY <1>0, <3>1 DEF Locals
        <3>3. GotoWith(p, "undo", l) BY <2>2, <3>1
        <3> QED BY <2>2, <3>2, <3>3, Moves, SMTT(60), Z3T(60) DEF Over
    <2>3. \/ /\ frp' = [kind |-> loc[p].dec, by |-> Kind(p), cancelled |-> FALSE]
             /\ GotoWith(p, "stopTimer", [loc[p] EXCEPT !.result = "ok", !.prev = "none"])
          \/ Answered /\ frp' = frp /\ GotoWith(p, "undo", [loc[p] EXCEPT !.result = "answered"])
          \/ frp' = frp /\ GotoWith(p, "undo", [loc[p] EXCEPT !.result = "failed"])
        BY <1>9, Zenon DEF Create
    <2> QED BY <1>1, <2>0, <2>1, <2>2, <2>3
<1>10. CASE Undo(p)
    <2>1. pc[p] = "undo" /\ timer' = timer /\ Return(p, loc[p].result) BY <1>10, Zenon DEF Undo
    <2> QED BY <1>1, <2>1, Moves, Zenon DEF KeepInv
<1>11. CASE StopTimer(p)
    <2>1. pc[p] = "stopTimer" /\ Goto(p, "unlock") BY <1>11, Zenon DEF StopTimer
    <2> QED BY <1>1, <2>1, Moves, SMTT(60), Z3T(60) DEF KeepInv
<1>12. CASE Unlock(p)
    <2>1. pc[p] = "unlock" /\ timer' = timer BY <1>12, Zenon DEF Unlock
    <2>2. PICK l : l = [loc[p] EXCEPT !.mutex = Nobody] BY Zenon
    <2>3. l.result = loc[p].result BY <1>0, <2>2 DEF Locals
    <2>4. GotoWith(p, "built", l) BY <1>12, <2>2 DEF Unlock
    <2> QED BY <1>1, <2>1, <2>3, <2>4, Moves, SMTT(60), Z3T(60) DEF KeepInv
<1> QED BY <1>2, <1>3, <1>4, <1>5, <1>6, <1>7, <1>8, <1>9, <1>10, <1>11, <1>12, Zenon DEF Build

(* How a step of one thread keeps the invariant. *)
LEMMA KeptBy ==
    ASSUME TypeOK, KeepInv, NEW p \in Procs, ThreadStep(p), Over => Over',
           pc'[p] = "mark" => frq' # "none", frq # "none" => frq' # "none", UNCHANGED <<del, taken>>,
           pc'[p] = "repair" => Over',
           pc'[p] = "undo" => loc'[p].result \in {"answered", "failed"},
           Reported(p)' => Over',
           NoRequestForgotten'
    PROVE  KeepInv'
<1>1. \A q \in Procs \ {p} : pc'[q] = pc[q] /\ loc'[q] = loc[q] BY OthersStay, ZenonT(20)
<1>2. {"client", "recovery"} \subseteq Procs BY DEF Procs
<1>3. ASSUME NEW q \in Procs
      PROVE  (pc'[q] = "undo" => loc'[q].result \in {"answered", "failed"}) /\ (Reported(q)' => Over')
    BY <1>1 DEF KeepInv, Reported
<1>4. (pc'["client"] = "mark" => frq' # "none") /\ (pc'["recovery"] = "repair" => Over')
    BY <1>1, <1>2 DEF KeepInv
<1> QED BY <1>3, <1>4 DEF KeepInv

LEMMA KeepBuild ==
    ASSUME TypeOK, DeleteHidesRequest, KeepInv, NEW p \in Procs, Build(p), Over => Over'
    PROVE  KeepInv'
<1>0. ThreadStep(p) BY DEF ThreadStep
<1>1. \A q \in Procs \ {p} : pc'[q] = pc[q] BY <1>0, OthersStay, ZenonT(20)
<1>2. {"client", "fallback"} \subseteq Procs BY DEF Procs
<1>3. pc'[p] \notin {"idle", "mark", "repair"} /\ pc[p] # "submit" BY BuildTells, ZenonT(20) DEF BuildSteps
<1>4. NoRequestForgotten'
    <2> SUFFICES ASSUME phase' = "serving", frq' \in {"requested", "cancelled"}, ~Answered', ~undeleted'
                 PROVE  InHand'
        BY DEF NoRequestForgotten
    <2>1. ~Over BY DEF Over
    <2>2. InHand BY <2>1, BuildTells, ZenonT(20) DEF KeepInv, NoRequestForgotten, Over
    <2> QED BY <1>1, <1>2, <1>3, <2>1, <2>2, BuildTells, ZenonT(20) DEF InHand
<1> QED BY <1>0, <1>3, <1>4, BuildTells, KeptBy, ZenonT(20)

LEMMA KeepOperator ==
    ASSUME TypeOK, KeepInv, NEW p \in Operators, AnswerReturns(p) \/ \E d \in {"grant", "deny"} : Answer(p, d),
           Over => Over'
    PROVE  KeepInv'
<1>0. p \in Procs /\ p \notin {"client", "fallback", "recovery"} /\ ThreadStep(p)
    BY QueueAssumption DEF Procs, ThreadStep
<1>1. UNCHANGED <<phase, frq, frp, timer, del, taken, givenUp, undeleted, unrepaired>>
    BY DEF AnswerReturns, Answer, stored, ghost
<1>2. pc'[p] \in {"idle", "lookup"} BY <1>0, Moves, Zenon DEF AnswerReturns, Answer, Call
<1>3. pc'["client"] = pc["client"] /\ pc'["fallback"] = pc["fallback"] BY <1>0, OthersStay, ZenonT(20) DEF Procs
<1>4. NoRequestForgotten' BY <1>1, <1>3 DEF KeepInv, NoRequestForgotten, InHand, Answered
<1> QED BY <1>0, <1>1, <1>2, <1>4, KeptBy, ZenonT(20) DEF Reported

LEMMA KeepClient ==
    ASSUME TypeOK, KeepInv, Post \/ Submit \/ Cancel \/ MarkRequest \/ CancelBuilt \/ CancelGrants, Over => Over'
    PROVE  KeepInv'
<1>0. "client" \in Procs /\ ThreadStep("client") BY DEF Procs, ThreadStep
<1>1. pc'["fallback"] = pc["fallback"] BY <1>0, OthersStay, ZenonT(20) DEF Procs
<1> USE DEF stored, ghost, KeepRest
<1>2. CASE Post
    <2>1. UNCHANGED <<phase, frp, timer, del, taken, givenUp, undeleted, unrepaired>> BY <1>2 DEF Post
    <2>2. CASE frq' = "requested" /\ Goto("client", "submit")
        <3>1. pc'["client"] = "submit" BY <1>0, <2>2, Moves, Zenon
        <3> QED BY <1>0, <2>1, <2>2, <3>1, KeptBy, ZenonT(20) DEF NoRequestForgotten, InHand, Reported
    <2>3. CASE UNCHANGED <<frq, pc, loc>>
        <3>1. NoRequestForgotten' BY <2>1, <2>3 DEF KeepInv, NoRequestForgotten, InHand, Answered
        <3> QED BY <1>0, <2>1, <2>3, <3>1, KeptBy, ZenonT(20) DEF Reported, KeepInv
    <2> QED BY <1>2, <2>2, <2>3 DEF Post
<1>3. CASE Submit
    <2>1. UNCHANGED <<phase, frq, frp, del, taken, givenUp, undeleted, unrepaired>> /\ pc'["client"] = "idle"
        BY <1>0, <1>3, Moves, Zenon DEF Submit
    <2>2. phase' = "serving" => timer' = "pending" BY <1>3, <2>1 DEF Submit, Arm
    <2> QED BY <1>0, <2>1, <2>2, KeptBy, ZenonT(20) DEF NoRequestForgotten, InHand, Reported
<1>4. CASE Cancel \/ MarkRequest \/ CancelBuilt \/ CancelGrants
    <2>1. UNCHANGED <<phase, timer, del, taken, givenUp, undeleted, unrepaired>>
        BY <1>4 DEF Cancel, MarkRequest, CancelBuilt, CancelGrants
    <2>2. frq' = frq \/ (pc["client"] = "mark" /\ frq # "deleted" /\ frq' = "cancelled")
        BY <1>4 DEF Cancel, MarkRequest, CancelBuilt, CancelGrants
    <2>3. /\ pc["client"] # "submit" /\ pc'["client"] \in {"idle", "mark", "lookup", "cancelGrants"}
          /\ pc'["client"] = "mark" => frq' = "requested"
        <3>1. CASE Cancel BY <1>0, <3>1, Moves, SMTT(60), Z3T(60) DEF Cancel, Call
        <3>2. CASE MarkRequest BY <1>0, <3>2, Moves, SMTT(60), Z3T(60) DEF MarkRequest, Call
        <3>3. CASE CancelBuilt
            <4>1. pc["client"] = "built" /\ (Goto("client", "cancelGrants") \/ GotoWith("client", "idle", IdleLocals))
                BY <3>3, Zenon DEF CancelBuilt
            <4> QED BY <1>0, <4>1, Moves, SMTT(60), Z3T(60)
        <3>4. CASE CancelGrants BY <1>0, <3>4, Moves, Zenon DEF CancelGrants
        <3> QED BY <1>4, <3>1, <3>2, <3>3, <3>4
    <2>4. NoRequestForgotten'
        <3> SUFFICES ASSUME phase' = "serving", frq' \in {"requested", "cancelled"}, ~Answered', ~undeleted'
                     PROVE  InHand'
            BY DEF NoRequestForgotten
        <3>1. ~Over BY <2>2 DEF Over
        <3>2. frq \in {"requested", "cancelled"} BY <2>2, <3>1 DEF KeepInv, Over, TypeOK
        <3> QED BY <1>1, <2>1, <2>3, <3>1, <3>2 DEF KeepInv, NoRequestForgotten, InHand, Over
    <2> QED BY <1>0, <2>1, <2>2, <2>3, <2>4, KeptBy, ZenonT(20) DEF Reported
<1> QED BY <1>2, <1>3, <1>4

LEMMA KeepFallback ==
    ASSUME TypeOK, KeepInv, Fire \/ FallbackRead \/ FallbackBuilt, Over => Over'
    PROVE  KeepInv'
<1>0. "fallback" \in Procs /\ ThreadStep("fallback") BY DEF Procs, ThreadStep
<1> USE DEF stored, ghost
<1>1. UNCHANGED <<phase, frq, frp, del, taken, undeleted, unrepaired>>
    BY DEF Fire, FallbackRead, FallbackBuilt
<1>2. pc'["fallback"] \in {"read", "lookup", "idle"}
    BY <1>0, Moves, Zenon DEF Fire, FallbackRead, FallbackBuilt, FallbackDone, Call
<1>3. CASE pc'["fallback"] # "idle"
    <2>1. NoRequestForgotten' BY <1>3 DEF NoRequestForgotten, InHand
    <2> QED BY <1>0, <1>1, <1>2, <2>1, KeptBy, ZenonT(20) DEF Reported
<1>4. CASE Over
    BY <1>0, <1>1, <1>2, <1>4, KeptBy, ZenonT(20) DEF Reported, NoRequestForgotten, Over
<1>5. CASE RetryOrGiveUp
    <2>1. phase' = "serving" => timer' = "pending" \/ givenUp' BY <1>1, <1>5 DEF RetryOrGiveUp
    <2>2. NoRequestForgotten' BY <2>1 DEF NoRequestForgotten, InHand
    <2> QED BY <1>0, <1>1, <1>2, <2>2, KeptBy, ZenonT(20) DEF Reported
<1>6. CASE Fire BY <1>0, <1>3, <1>6, Moves, Zenon DEF Fire
<1>7. CASE FallbackRead
    <2>1. \/ frq = "deleted" \/ RetryOrGiveUp
          \/ Call("fallback", IF frq = "cancelled" \/ ask = "zero" THEN "deny" ELSE "grant")
        BY <1>7, Zenon DEF FallbackRead
    <2>2. ASSUME NEW d, Call("fallback", d) PROVE pc'["fallback"] = "lookup" BY <1>0, <2>2, Moves, Zenon DEF Call
    <2> QED BY <1>3, <1>4, <1>5, <2>1, <2>2 DEF Over
<1>8. CASE FallbackBuilt
    <2>1. \/ loc["fallback"].result \in {"ok", "answered", "gone"} \/ RetryOrGiveUp \/ Call("fallback", "deny")
        BY <1>8, Zenon DEF FallbackBuilt
    <2>2. pc["fallback"] = "built" BY <1>8 DEF FallbackBuilt
    <2>3. ASSUME Call("fallback", "deny") PROVE pc'["fallback"] = "lookup" BY <1>0, <2>3, Moves, Zenon DEF Call
    <2> QED BY <1>0, <1>3, <1>4, <1>5, <2>1, <2>2, <2>3 DEF KeepInv, Reported
<1> QED BY <1>6, <1>7, <1>8

LEMMA KeepRecovery ==
    ASSUME TypeOK, KeepInv, Recover \/ RecoverBuilt \/ RecoverGrant, Over => Over'
    PROVE  KeepInv'
<1>0. "recovery" \in Procs /\ ThreadStep("recovery") BY DEF Procs, ThreadStep
<1> USE DEF stored, ghost
<1>1. UNCHANGED <<frq, del, taken, undeleted>>
    BY DEF Recover, RecoverBuilt, RecoverGrant
<1>2. CASE Recover
    <2>1. phase = "boot" /\ UNCHANGED frp BY <1>2 DEF Recover
    <2>2. CASE phase' = phase /\ (\E d : Call("recovery", d) \/ (Answered /\ Goto("recovery", "repair")))
        <3>1. pc'["recovery"] \in {"lookup", "repair"} /\ (pc'["recovery"] = "repair" => Answered)
            BY <1>0, <2>2, Moves, SMTT(60), Z3T(60) DEF Call
        <3> QED BY <1>0, <1>1, <2>1, <2>2, <3>1, KeptBy, ZenonT(20) DEF Reported, NoRequestForgotten, Over, Answered
    <2>3. CASE Serve(IdleLocals) /\ (Arm \/ frq \in {"none", "deleted"} \/ Answered)
        <3>1. pc'["recovery"] = "idle" BY <1>0, <2>3, Moves, Zenon DEF Serve
        <3>2. timer' = "pending" \/ frq \in {"none", "deleted"} \/ Answered BY <2>1, <2>3 DEF Arm
        <3>3. NoRequestForgotten' BY <1>1, <2>1, <3>2 DEF NoRequestForgotten, InHand, Answered
        <3> QED BY <1>0, <1>1, <3>1, <3>3, KeptBy, ZenonT(20) DEF Reported
    <2> QED BY <1>2, <2>2, <2>3, Zenon DEF Recover
<1>3. CASE RecoverBuilt \/ RecoverGrant
    <2>1. pc'["recovery"] = "idle" BY <1>0, <1>3, Moves, Zenon DEF RecoverBuilt, RecoverGrant, Serve
    <2>2. unrepaired' \/ Over
        BY <1>0, <1>3, Zenon DEF RecoverBuilt, RecoverGrant, KeepInv, Reported
    <2>3. NoRequestForgotten' BY <1>1, <2>2 DEF NoRequestForgotten, InHand, Over
    <2> QED BY <1>0, <1>1, <2>1, <2>3, KeptBy, ZenonT(20) DEF Reported
<1> QED BY <1>2, <1>3

LEMMA KeepStep == ASSUME TypeOK, DeleteHidesRequest, KeepInv, [Next]_vars PROVE KeepInv'
<1>0. Over => Over' BY OverStable
<1> USE DEF stored, volatile, ghost
<1>1. ASSUME NEW p \in Procs, ThreadStep(p) PROVE KeepInv'
    BY <1>0, <1>1, KeepBuild, KeepOperator, KeepClient, KeepFallback, KeepRecovery DEF ThreadStep
<1>2. ASSUME UNCHANGED <<pc, loc>>, frq # "none" => frq' # "none", del' # "idle" => taken'.frq # "none", NoRequestForgotten'
      PROVE  KeepInv'
    BY <1>0, <1>2 DEF KeepInv, Reported
<1>3. CASE DeleteRequests
    <2>1. taken'.frq = frq /\ frq' = "deleted" /\ frq # "none" /\ UNCHANGED <<pc, loc>>
        BY <1>3 DEF DeleteRequests, TypeOK
    <2> QED BY <1>2, <2>1 DEF NoRequestForgotten
<1>4. CASE DeleteResponses \/ DeleteDevice
    <2>1. /\ UNCHANGED <<pc, loc>> /\ (undeleted' \/ frq' = frq)
          /\ frq' \in {frq, taken.frq} /\ (del' = "responses" => taken'.frq = taken.frq) /\ del' \in {"idle", "responses"}
        <3>1. CASE DeleteResponses
            <4>1. taken \in [frq : {"none", "requested", "cancelled"}, frp : Responses, rec : Kinds \cup {"none"}]
                BY DEF TypeOK
            <4>2. [taken EXCEPT !.frp = frp, !.rec = rec].frq = taken.frq BY <4>1
            <4> QED BY <3>1, <4>2, Zenon DEF DeleteResponses
        <3>2. CASE DeleteDevice BY <3>2 DEF DeleteDevice
        <3> QED BY <1>4, <3>1, <3>2
    <2>2. del # "idle" BY <1>4 DEF DeleteResponses, DeleteDevice
    <2>3. frq = "deleted" BY <2>2 DEF DeleteHidesRequest
    <2> QED BY <1>2, <2>1, <2>2, <2>3 DEF KeepInv, NoRequestForgotten
<1>5. CASE Close \/ CloseReturns
    <2>1. phase' \in {"closing", "closed"} /\ UNCHANGED <<pc, loc, frq, del, taken>> BY <1>5 DEF Close, CloseReturns
    <2> QED BY <1>2, <2>1 DEF NoRequestForgotten, KeepInv
<1>6. CASE Restart
    <2>1. phase' = "boot" /\ del' = "idle" /\ \A p \in Procs : pc'[p] = "idle" BY <1>6 DEF Restart
    <2> QED BY <2>1 DEF KeepInv, NoRequestForgotten, Reported, Procs
<1>7. CASE UNCHANGED vars
    BY <1>2, <1>7 DEF vars, KeepInv, NoRequestForgotten, InHand, Answered
<1> QED BY <1>1, <1>3, <1>4, <1>5, <1>6, <1>7, StepsOfThreads
----------------------------------------------------------------------------
(* Nothing has failed and the request is stored. *)
Calm == faults = 0 /\ frq # "deleted"

(* The request is answered, or a build is about to create its response. *)
Winning == Answered \/ \E q \in Procs : pc[q] = "create"

(* The strengthening GiveUpNeedsFault needs: where no store failed, a build  *)
(* loses its answer record only to a build that answers the request.         *)
RaceInv ==
    Calm => /\ \A p \in Procs : /\ pc[p] = "undo" => Answered
                                /\ pc[p] = "record" => (rec = "none" <=> loc[p].prev = "none") \/ Winning
            /\ givenUp \/ loc["fallback"].result = "failed" => Winning

(* A failed operation is never forgotten, a deleted request returns only by  *)
(* one, and an answer goes only with a deleted request.                      *)
LEMMA CalmBefore ==
    ASSUME TypeOK, DeleteHidesRequest, [Next]_vars, Calm'
    PROVE  Calm /\ faults' = faults /\ ~Fault /\ (Answered => Answered')
<1>0. faults \in Nat BY QueueAssumption DEF TypeOK
<1>1. ~Fault BY <1>0 DEF Fault, Calm
<1>2. faults' = faults
    <2>1. ASSUME NEW p \in Procs, ThreadStep(p) PROVE Fault \/ faults' = faults
        BY <2>1, Zenon DEF ThreadStep, Build, Lookup, Lock, Check, Request, Gate, Intend, Record, Create, Undo, StopTimer, Unlock,
               AnswerReturns, Answer, Post, Submit, Cancel, MarkRequest, CancelBuilt, CancelGrants,
               Fire, FallbackRead, FallbackBuilt, Recover, RecoverBuilt, RecoverGrant, NoFault, ghost
    <2>2. CASE DeleteRequests \/ DeleteResponses \/ DeleteDevice \/ Close \/ CloseReturns \/ Restart \/ UNCHANGED vars
        BY <1>1, <2>2, Zenon DEF DeleteRequests, DeleteResponses, DeleteDevice, Close, CloseReturns, Restart, vars, ghost, NoFault
    <2> QED BY <1>1, <2>1, <2>2, StepsOfThreads
<1>3. frq # "deleted" BY <1>1, DeletedStays DEF Calm
<1> QED BY <1>0, <1>1, <1>2, <1>3, StillAnswered DEF Calm

(* How a step of one thread keeps the invariant. *)
LEMMA RaceBy ==
    ASSUME TypeOK, RaceInv, Calm, Answered => Answered', NEW p \in Procs, ThreadStep(p),
           rec' = rec \/ pc'[p] = "create" \/ Answered',
           pc[p] = "create" => Answered',
           pc'[p] = "undo" => Answered',
           pc'[p] = "record" => (rec' = "none" <=> loc'[p].prev = "none"),
           givenUp' \/ loc'["fallback"].result = "failed" => Winning
    PROVE  RaceInv'
<1>1. \A q \in Procs \ {p} : pc'[q] = pc[q] /\ loc'[q] = loc[q] BY OthersStay, ZenonT(20)
<1>2. Winning => Winning' BY <1>1 DEF Winning
<1>3. rec' = rec \/ Winning' BY DEF Winning
<1>4. ASSUME NEW q \in Procs
      PROVE  /\ pc'[q] = "undo" => Answered'
             /\ pc'[q] = "record" => (rec' = "none" <=> loc'[q].prev = "none") \/ Winning'
    BY <1>1, <1>2, <1>3 DEF RaceInv
<1> QED BY <1>2, <1>4 DEF RaceInv

(* What a step of a build that meets no failure does to the race. *)
LEMMA BuildRaces ==
    ASSUME TypeOK, RaceInv, Calm, ~Fault, Answered => Answered', NEW p \in Procs, Build(p)
    PROVE  RaceInv'
<1> USE DEF stored, volatile, ghost, KeepRest, NoFault
<1>0. loc[p] \in Locals /\ rec \in Kinds \cup {"none"} /\ ThreadStep(p) BY DEF TypeOK, ThreadStep
<1>g. givenUp' = givenUp
    BY Zenon DEF Build, Lookup, Lock, Check, Request, Gate, Intend, Record, Create, Undo, StopTimer, Unlock
<1>f. ASSUME pc[p] # "record", loc'[p].result = "failed" => loc[p].result = "failed"
      PROVE  givenUp' \/ loc'["fallback"].result = "failed" => Winning
    BY <1>0, <1>f, <1>g, OthersStay, ZenonT(20) DEF RaceInv, Procs
<1>2. CASE Lookup(p)
    <2>1. PICK m : GotoWith(p, "lock", [loc[p] EXCEPT !.mutex = m]) BY <1>2, Zenon DEF Lookup
    <2>2. PICK l : l = [loc[p] EXCEPT !.mutex = m] BY Zenon
    <2>3. l.result = loc[p].result BY <1>0, <2>2 DEF Locals
    <2>4. GotoWith(p, "lock", l) BY <2>1, <2>2
    <2>5. pc[p] = "lookup" /\ rec' = rec BY <1>2, Zenon DEF Lookup
    <2>6. pc'[p] = "lock" /\ loc'[p] = l BY <2>4, Moves, Zenon
    <2>7. givenUp' \/ loc'["fallback"].result = "failed" => Winning BY <1>f, <2>3, <2>5, <2>6
    <2> QED BY <1>0, <2>5, <2>6, <2>7, RaceBy, ZenonT(20)
<1>3. CASE Lock(p) \/ Check(p) \/ Request(p) \/ Gate(p)
    <2>1. /\ pc[p] \in {"lock", "check", "request", "gate"} /\ rec' = rec
          /\ \/ \E t \in {"check", "request", "gate", "intend"} : Goto(p, t)
             \/ \E r \in {"answered", "gone", "cancelled", "refused", "conflict"} : Return(p, r)
        BY <1>3, Zenon DEF Lock, Check, Request, Gate
    <2>2. /\ loc'[p].result = "failed" => loc[p].result = "failed"
          /\ pc'[p] \in {"check", "request", "gate", "intend", "unlock"}
        BY <2>1, Moves, Zenon
    <2>3. givenUp' \/ loc'["fallback"].result = "failed" => Winning BY <1>f, <2>1, <2>2
    <2> QED BY <1>0, <2>1, <2>2, <2>3, RaceBy, ZenonT(20)
<1>7. CASE Intend(p)
    <2>1. PICK l : l = [loc[p] EXCEPT !.prev = rec] BY Zenon
    <2>2. l.result = loc[p].result /\ l.prev = rec BY <1>0, <2>1 DEF Locals
    <2>3. GotoWith(p, "record", l) /\ pc[p] = "intend" /\ rec' = rec BY <1>7, <2>1, Zenon DEF Intend
    <2>4. pc'[p] = "record" /\ loc'[p] = l BY <2>3, Moves, Zenon
    <2>5. givenUp' \/ loc'["fallback"].result = "failed" => Winning BY <1>f, <2>2, <2>3, <2>4
    <2> QED BY <1>0, <2>2, <2>3, <2>4, <2>5, RaceBy, ZenonT(20)
<1>8. CASE Record(p)
    <2>1. CASE Goto(p, "create")
        <3>1. pc'[p] = "create" /\ loc'[p] = loc[p] BY <2>1, Moves, Zenon
        <3>2. pc[p] = "record" BY <1>8 DEF Record
        <3>3. givenUp' \/ loc'["fallback"].result = "failed" => Winning
            BY <1>0, <1>g, <3>1, OthersStay, ZenonT(20) DEF RaceInv, Procs
        <3> QED BY <1>0, <3>1, <3>2, <3>3, RaceBy, ZenonT(20)
    <2>2. CASE rec' = rec /\ (rec = "none") # (loc[p].prev = "none") /\ Return(p, "failed")
        <3>1. pc[p] = "record" /\ pc'[p] = "unlock" BY <1>8, <2>2, Moves, Zenon DEF Record
        <3>2. Winning BY <2>2, <3>1 DEF RaceInv
        <3> QED BY <1>0, <2>2, <3>1, <3>2, RaceBy, ZenonT(20)
    <2> QED BY <1>8, <2>1, <2>2, Zenon DEF Record
<1>9. CASE Create(p)
    <2>0. pc[p] = "create" /\ rec' = rec BY <1>9 DEF Create
    <2>1. CASE /\ frp' = [kind |-> loc[p].dec, by |-> Kind(p), cancelled |-> FALSE]
               /\ GotoWith(p, "stopTimer", [loc[p] EXCEPT !.result = "ok", !.prev = "none"])
        <3>1. frp'.kind # "none" BY <1>0, <2>1 DEF Locals
        <3>2. PICK l : l = [loc[p] EXCEPT !.result = "ok", !.prev = "none"] BY Zenon
        <3>3. l.result = "ok" BY <1>0, <3>2 DEF Locals
        <3>4. GotoWith(p, "stopTimer", l) BY <2>1, <3>2
        <3>5. Answered' BY <3>1 DEF Answered, NoResponse
        <3>6. pc'[p] = "stopTimer" /\ loc'[p] = l BY <3>4, Moves, Zenon
        <3>7. givenUp' \/ loc'["fallback"].result = "failed" => Winning BY <1>f, <2>0, <3>3, <3>6
        <3> QED BY <1>0, <2>0, <3>5, <3>6, <3>7, RaceBy, ZenonT(20)
    <2>2. CASE Answered /\ GotoWith(p, "undo", [loc[p] EXCEPT !.result = "answered"])
        <3>1. PICK l : l = [loc[p] EXCEPT !.result = "answered"] BY Zenon
        <3>2. l.result = "answered" BY <1>0, <3>1 DEF Locals
        <3>3. GotoWith(p, "undo", l) BY <2>2, <3>1
        <3>4. pc'[p] = "undo" /\ loc'[p] = l BY <3>3, Moves, Zenon
        <3>5. givenUp' \/ loc'["fallback"].result = "failed" => Winning BY <1>f, <2>0, <3>2, <3>4
        <3> QED BY <1>0, <2>0, <2>2, <3>4, <3>5, RaceBy, ZenonT(20)
    <2> QED BY <1>9, <2>1, <2>2, Zenon DEF Create
<1>10. CASE Undo(p)
    <2>1. pc[p] = "undo" /\ Return(p, loc[p].result) BY <1>10, Zenon DEF Undo
    <2>2. Answered' BY <2>1 DEF RaceInv
    <2>3. pc'[p] = "unlock" /\ loc'[p].result = loc[p].result BY <2>1, Moves, Zenon
    <2>4. givenUp' \/ loc'["fallback"].result = "failed" => Winning BY <1>f, <2>1, <2>3
    <2> QED BY <1>0, <2>1, <2>2, <2>3, <2>4, RaceBy, ZenonT(20)
<1>11. CASE StopTimer(p)
    <2>1. pc[p] = "stopTimer" /\ Goto(p, "unlock") /\ rec' = rec BY <1>11, Zenon DEF StopTimer
    <2>2. pc'[p] = "unlock" /\ loc'[p] = loc[p] BY <2>1, Moves, Zenon
    <2>3. givenUp' \/ loc'["fallback"].result = "failed" => Winning BY <1>f, <2>1, <2>2
    <2> QED BY <1>0, <2>1, <2>2, <2>3, RaceBy, ZenonT(20)
<1>12. CASE Unlock(p)
    <2>1. pc[p] = "unlock" /\ rec' = rec BY <1>12, Zenon DEF Unlock
    <2>2. PICK l : l = [loc[p] EXCEPT !.mutex = Nobody] BY Zenon
    <2>3. l.result = loc[p].result BY <1>0, <2>2 DEF Locals
    <2>4. GotoWith(p, "built", l) BY <1>12, <2>2 DEF Unlock
    <2>5. pc'[p] = "built" /\ loc'[p] = l BY <2>4, Moves, Zenon
    <2>6. givenUp' \/ loc'["fallback"].result = "failed" => Winning BY <1>f, <2>1, <2>3, <2>5
    <2> QED BY <1>0, <2>1, <2>5, <2>6, RaceBy, ZenonT(20)
<1> QED BY <1>2, <1>3, <1>7, <1>8, <1>9, <1>10, <1>11, <1>12, Zenon DEF Build

LEMMA RaceStep == ASSUME TypeOK, DeleteHidesRequest, RaceInv, [Next]_vars PROVE RaceInv'
<1> SUFFICES ASSUME Calm' PROVE RaceInv' BY DEF RaceInv
<1>0. Calm /\ faults' = faults /\ ~Fault /\ (Answered => Answered') BY CalmBefore
<1> USE DEF stored, volatile, ghost, KeepRest
<1>a. {"client", "fallback", "recovery"} \subseteq Procs BY DEF Procs
<1>i. IdleLocals.result = "ok" /\ \A d : [IdleLocals EXCEPT !.dec = d].result = "ok" BY DEF IdleLocals
<1>1. ASSUME NEW p \in Operators, AnswerReturns(p) \/ \E d \in {"grant", "deny"} : Answer(p, d) PROVE RaceInv'
    <2>1. p \in Procs /\ p # "fallback" /\ ThreadStep(p) BY <1>1, QueueAssumption DEF Procs, ThreadStep
    <2>2. rec' = rec /\ givenUp' = givenUp /\ pc[p] \in {"built", "idle"} BY <1>1 DEF AnswerReturns, Answer
    <2>3. pc'[p] \in {"idle", "lookup"} BY <1>1, <2>1, Moves, Zenon DEF AnswerReturns, Answer, Call
    <2>4. loc'["fallback"] = loc["fallback"] BY <1>a, <2>1, OthersStay, ZenonT(20)
    <2>5. givenUp' \/ loc'["fallback"].result = "failed" => Winning BY <1>0, <2>2, <2>4 DEF RaceInv
    <2> QED BY <1>0, <2>1, <2>2, <2>3, <2>5, RaceBy, ZenonT(20)
<1>2. CASE Post \/ Submit \/ Cancel \/ MarkRequest \/ CancelBuilt \/ CancelGrants
    <2>1. ThreadStep("client") BY <1>2 DEF ThreadStep
    <2>2. /\ rec' = rec /\ givenUp' = givenUp
          /\ pc["client"] \in {"idle", "submit", "mark", "built", "cancelGrants"}
        BY <1>2 DEF Post, Submit, Cancel, MarkRequest, CancelBuilt, CancelGrants
    <2>3. pc'["client"] \in {"idle", "submit", "mark", "lookup", "cancelGrants"}
        <3>1. CASE Post BY <1>0, <1>a, <3>1, Moves, Zenon DEF Post
        <3>2. CASE Submit \/ Cancel BY <1>a, <3>2, Moves, Zenon DEF Submit, Cancel, Call
        <3>3. CASE MarkRequest BY <1>a, <3>3, Moves, Zenon DEF MarkRequest, Call
        <3>4. CASE CancelBuilt \/ CancelGrants
            <4>1. Goto("client", "cancelGrants") \/ GotoWith("client", "idle", IdleLocals)
                BY <3>4, Zenon DEF CancelBuilt, CancelGrants
            <4> QED BY <1>a, <4>1, Moves, Zenon
        <3> QED BY <1>2, <3>1, <3>2, <3>3, <3>4
    <2>4. loc'["fallback"] = loc["fallback"] BY <1>a, <2>1, OthersStay, ZenonT(20)
    <2>5. givenUp' \/ loc'["fallback"].result = "failed" => Winning BY <1>0, <2>2, <2>4 DEF RaceInv
    <2> QED BY <1>0, <1>a, <2>1, <2>2, <2>3, <2>5, RaceBy, ZenonT(20)
<1>3. CASE Fire \/ FallbackRead \/ FallbackBuilt
    <2>1. ThreadStep("fallback") BY <1>3 DEF ThreadStep
    <2>2. rec' = rec /\ pc["fallback"] \in {"idle", "read", "built"} BY <1>3, Zenon DEF Fire, FallbackRead, FallbackBuilt
    <2>3. pc'["fallback"] \in {"read", "lookup", "idle"}
        BY <1>3, <1>a, Moves, Zenon DEF Fire, FallbackRead, FallbackBuilt, FallbackDone, Call
    <2>4. loc'["fallback"].result = "failed" => loc["fallback"].result = "failed"
        BY <1>3, <1>a, <1>i, Moves, ZenonT(40) DEF Fire, FallbackRead, FallbackBuilt, FallbackDone, Call
    <2>5. givenUp' = givenUp \/ loc["fallback"].result = "failed"
        BY <1>0, <1>3, Zenon DEF Fire, FallbackRead, FallbackBuilt, ForgetTimer, Fault
    <2>6. givenUp' \/ loc'["fallback"].result = "failed" => Winning BY <1>0, <2>4, <2>5 DEF RaceInv
    <2> QED BY <1>0, <1>a, <2>1, <2>2, <2>3, <2>6, RaceBy, ZenonT(20)
<1>4. CASE Recover \/ RecoverBuilt \/ RecoverGrant
    <2>1. ThreadStep("recovery") BY <1>4 DEF ThreadStep
    <2>2. rec' = rec /\ givenUp' = givenUp /\ pc["recovery"] \in {"idle", "built", "repair"}
        BY <1>4, ZenonT(20) DEF Recover, RecoverBuilt, RecoverGrant
    <2>3. pc'["recovery"] \in {"idle", "lookup", "repair"}
        BY <1>4, <1>a, Moves, Zenon DEF Recover, RecoverBuilt, RecoverGrant, Serve, Call
    <2>4. loc'["fallback"] = loc["fallback"] BY <1>a, <2>1, OthersStay, ZenonT(20)
    <2>5. givenUp' \/ loc'["fallback"].result = "failed" => Winning BY <1>0, <2>2, <2>4 DEF RaceInv
    <2> QED BY <1>0, <1>a, <2>1, <2>2, <2>3, <2>5, RaceBy, ZenonT(20)
<1>5. ASSUME NEW p \in Procs, ThreadStep(p) PROVE RaceInv'
    BY <1>0, <1>1, <1>2, <1>3, <1>4, <1>5, BuildRaces DEF ThreadStep
<1>6. CASE DeleteRequests \/ DeleteResponses \/ DeleteDevice
    BY <1>0, <1>6 DEF DeleteRequests, DeleteResponses, DeleteDevice, DeleteHidesRequest, Calm
<1>7. CASE Close \/ CloseReturns \/ UNCHANGED vars
    <2>1. UNCHANGED <<frp, rec, pc, loc, givenUp>> BY <1>7 DEF Close, CloseReturns, vars
    <2> QED BY <1>0, <2>1 DEF RaceInv, Winning, Answered
<1>8. CASE Restart
    <2>1. ~givenUp' /\ \A p \in Procs : pc'[p] = "idle" /\ loc'[p] = IdleLocals BY <1>8 DEF Restart
    <2> QED BY <1>a, <1>i, <2>1 DEF RaceInv
<1> QED BY <1>5, <1>6, <1>7, <1>8, StepsOfThreads

(* A stored request stays in the queue's hands until it is answered, and     *)
(* only a failing store takes it out of them: no interleaving of the POST,   *)
(* the operators, the deadline fallback, the client's cancel, the startup    *)
(* recovery, a delete of the EndDevice and a crash leaves an unanswered      *)
(* request without a timer or a thread that answers it, or uses up the       *)
(* fallback's attempts (Submit, attemptFallback, retryOrGiveUp, intend).     *)
THEOREM RequestStaysInHand == Spec => []RequestIsKept
<1>1. Init => KeepInv /\ RaceInv
    <2> SUFFICES ASSUME Init PROVE KeepInv /\ RaceInv OBVIOUS
    <2>1. phase = "boot" /\ del = "idle" /\ ~givenUp BY DEF Init
    <2>2. {"client", "fallback", "recovery"} \subseteq Procs BY DEF Procs
    <2>3. \A p \in Procs : pc[p] = "idle" /\ loc[p].result = "ok" BY DEF Init, IdleLocals
    <2> QED BY <2>1, <2>2, <2>3 DEF KeepInv, RaceInv, NoRequestForgotten, Reported
<1>2. TypeOK /\ KeepInv /\ RaceInv => RequestIsKept
    <2> SUFFICES ASSUME TypeOK, KeepInv, RaceInv, givenUp, ~Answered, frq # "deleted", \A p \in Procs : pc[p] = "idle"
                 PROVE  faults > 0
        BY DEF RequestIsKept, KeepInv, GiveUpNeedsFault
    <2>1. faults \in Nat BY QueueAssumption DEF TypeOK
    <2>2. ~Winning BY DEF Winning
    <2> QED BY <2>1, <2>2 DEF RaceInv, Calm
<1>3. TypeOK /\ DeleteHidesRequest /\ KeepInv /\ [Next]_vars => KeepInv' BY KeepStep
<1>4. TypeOK /\ DeleteHidesRequest /\ RaceInv /\ [Next]_vars => RaceInv' BY RaceStep
<1> QED BY <1>1, <1>2, <1>3, <1>4, TypeCorrect, DeleteInductive, PTL DEF Spec
=============================================================================
