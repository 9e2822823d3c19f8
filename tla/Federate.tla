------------------------------ MODULE Federate ------------------------------
(***************************************************************************)
(* The HELICS value federate (internal/helics): calls into the C library   *)
(* on a handle that Close frees, a pump goroutine that carries updated     *)
(* inputs to the subscribers' channels, and the broker a federate may own. *)
(*                                                                         *)
(* Step and the pump leave f.mu before they call into C, so their calls    *)
(* interleave with everything else; every other method is one step under   *)
(* f.mu.  A value is the simulated time it was published at.               *)
(***************************************************************************)
EXTENDS Integers, FiniteSets

CONSTANTS
    Topics,      \* topics of the federation
    Steppers,    \* goroutines that call Step
    Closers,     \* goroutines that call Close
    FedBudgets   \* bound: failing C calls and calls of each kind

ASSUME FedConstants ==
    \A b \in FedBudgets : DOMAIN b = {"setup", "step", "take", "fail"}

VARIABLES
    fedHandle,   \* "nil", "live" or "freed": the C federate
    broker,      \* "none", "up" or "closed": the broker the federate owns
    closed,      \* f.closed
    executing,   \* EnterExecutingMode was called
    published,   \* f.publications
    sent,        \* topics published on since the last grant
    subscribed,  \* f.subscriptions
    simTime,     \* the time HELICS has granted
    input,       \* topic -> the value HELICS holds, and whether it is unread
    step,        \* goroutine -> where its Step is
    inFlight,    \* the WaitGroup of Step calls
    trigger,     \* pumpTrigger holds a signal
    pump,        \* the pump goroutine
    channel,     \* topic -> "open" or "closed" and at most one value
    closer,      \* goroutine -> where its Close is
    got,         \* topic -> the last value the subscriber took
    missed,      \* topics whose last update an error of the library lost
    fedLeft      \* what the scenario has left

fedVars == <<fedHandle, broker, closed, executing, published, sent, subscribed, simTime, input, step,
             inFlight, trigger, pump, channel, closer, got, missed, fedLeft>>

Nothing == -1
Addresses == {"none", "given", "malformed"}
NoPass == [at |-> "wait", todo |-> {}, time |-> 0]

SpendFed(what) == fedLeft[what] > 0 /\ fedLeft' = [fedLeft EXCEPT ![what] = @ - 1]

InitFederate ==
    /\ fedHandle = "nil" /\ broker = "none" /\ closed = FALSE /\ executing = FALSE
    /\ published = {} /\ sent = {} /\ subscribed = {} /\ simTime = 0
    /\ input = [t \in Topics |-> [value |-> Nothing, updated |-> FALSE]]
    /\ step = [s \in Steppers |-> "idle"] /\ inFlight = 0 /\ trigger = FALSE
    /\ pump = [NoPass EXCEPT !.at = "none"]
    /\ channel = [t \in Topics |-> [state |-> "none", held |-> Nothing]]
    /\ closer = [c \in Closers |-> "idle"]
    /\ got = [t \in Topics |-> Nothing] /\ missed = {}
    /\ fedLeft \in FedBudgets

-----------------------------------------------------------------------------
\* Construction.

\* An address with a NUL, a blank or an option in it is refused.
validateBrokerAddress(address) == address # "malformed"

\* The broker of a federate that is given no address.
createBroker(address) == IF address = "none" THEN "up" ELSE "none"

\* createValueFederate: a C call fails; what was made before it is freed and
\* NewFederate closes the broker it owns.
createValueFederateFails(address) ==
    /\ fedHandle = "nil" /\ ~ closed /\ validateBrokerAddress(address) /\ SpendFed("fail")
    /\ UNCHANGED <<sent, fedHandle, broker, closed, executing, published, subscribed, simTime, input, step,
                   inFlight, trigger, pump, channel, closer, got, missed>>

\* NewFederate: the federate, and its pump.
NewFederate(address) ==
    /\ fedHandle = "nil" /\ ~ closed /\ validateBrokerAddress(address)
    /\ broker' = createBroker(address)
    /\ fedHandle' = "live" /\ pump' = NoPass
    /\ UNCHANGED <<sent, closed, executing, published, subscribed, simTime, input, step, inFlight,
                   trigger, channel, closer, got, missed, fedLeft>>

Usable == ~ closed /\ fedHandle = "live"

RegisterPublication(t) ==
    /\ Usable /\ ~ executing /\ t \notin published /\ SpendFed("setup")
    /\ published' = published \cup {t}
    /\ UNCHANGED <<sent, fedHandle, broker, closed, executing, subscribed, simTime, input, step, inFlight,
                   trigger, pump, channel, closer, got, missed>>

Subscribe(t) ==
    /\ Usable /\ ~ executing /\ t \notin subscribed /\ SpendFed("setup")
    /\ subscribed' = subscribed \cup {t}
    /\ channel' = [channel EXCEPT ![t].state = "open"]
    /\ UNCHANGED <<sent, fedHandle, broker, closed, executing, published, simTime, input, step, inFlight,
                   trigger, pump, closer, got, missed>>

EnterExecutingMode ==
    /\ Usable /\ ~ executing
    /\ executing' = TRUE
    /\ UNCHANGED <<sent, fedHandle, broker, closed, published, subscribed, simTime, input, step, inFlight,
                   trigger, pump, channel, closer, got, missed, fedLeft>>

\* What is published, here or by another federate, arrives with a grant.
Publish(t) ==
    /\ Usable /\ executing /\ t \in published /\ SpendFed("setup")
    /\ sent' = sent \cup {t}
    /\ UNCHANGED <<fedHandle, broker, closed, executing, published, subscribed, simTime, input, step, inFlight,
                   trigger, pump, channel, closer, got, missed>>

-----------------------------------------------------------------------------
\* Step.

\* Mutant: a Step that Close does not wait for.
StepGateUncounted(s) ==
    /\ step[s] = "idle" /\ Usable /\ SpendFed("step")
    /\ step' = [step EXCEPT ![s] = "request"]
    /\ UNCHANGED <<sent, fedHandle, broker, closed, executing, published, subscribed, simTime, input,
                   inFlight, trigger, pump, channel, closer, got, missed>>

\* Under f.mu: the gate, and the count that Close waits for.
StepGate(s) ==
    /\ step[s] = "idle" /\ Usable /\ SpendFed("step")
    /\ step' = [step EXCEPT ![s] = "request"] /\ inFlight' = inFlight + 1
    /\ UNCHANGED <<sent, fedHandle, broker, closed, executing, published, subscribed, simTime, input,
                   trigger, pump, channel, closer, got, missed>>

\* helicsFederateRequestTime blocks until the time is granted; with it come
\* the values published since.
Grant(s, new) ==
    /\ step[s] = "request" /\ executing
    /\ simTime' = simTime + 1 /\ sent' = {}
    /\ input' = [t \in Topics |->
                    IF t \in new \cup sent THEN [value |-> simTime + 1, updated |-> TRUE] ELSE input[t]]
    /\ missed' = missed \ (new \cup sent)
    /\ step' = [step EXCEPT ![s] = "granted"]
    /\ UNCHANGED <<fedHandle, broker, closed, executing, published, subscribed, inFlight, trigger,
                   pump, channel, closer, got, fedLeft>>

\* The request fails, as it does before executing mode.
StepFails(s) ==
    /\ step[s] = "request" /\ (executing => SpendFed("fail")) /\ (~ executing => UNCHANGED fedLeft)
    /\ step' = [step EXCEPT ![s] = "idle"] /\ inFlight' = inFlight - 1
    /\ UNCHANGED <<sent, fedHandle, broker, closed, executing, published, subscribed, simTime, input,
                   trigger, pump, channel, closer, got, missed>>

\* The pump is signalled; a signal that is there already stands for this one.
Signal(s) == trigger' = TRUE

StepDone(s) ==
    /\ step[s] = "granted" /\ Signal(s)
    /\ step' = [step EXCEPT ![s] = "idle"] /\ inFlight' = inFlight - 1
    /\ UNCHANGED <<sent, fedHandle, broker, closed, executing, published, subscribed, simTime, input, pump,
                   channel, closer, got, missed, fedLeft>>

-----------------------------------------------------------------------------
\* The pump.

PumpDone == \E c \in Closers : closer[c] \in {"joining", "freeing", "done"}

\* drainUpdates up to the reading of the time: the subscriptions are copied
\* under f.mu.
drainUpdates ==
    /\ pump.at = "wait" /\ trigger
    /\ trigger' = FALSE
    /\ pump' = IF Usable THEN [at |-> "drain", todo |-> subscribed, time |-> simTime] ELSE pump
    /\ UNCHANGED <<sent, fedHandle, broker, closed, executing, published, subscribed, simTime, input, step,
                   inFlight, channel, closer, got, missed, fedLeft>>

\* The time cannot be read: the pass is skipped.
drainSkipped ==
    /\ pump.at = "drain" /\ pump.todo = subscribed /\ pump.todo # {} /\ SpendFed("fail")
    /\ pump' = NoPass /\ missed' = missed \cup {t \in pump.todo : input[t].updated}
    /\ UNCHANGED <<sent, fedHandle, broker, closed, executing, published, subscribed, simTime, input, step,
                   inFlight, trigger, channel, closer, got>>

\* The send with drop on full: the old value is taken out, the new put in.
send(t, v) == v

\* One input: its value is read, which clears its update.
drainInput(t) ==
    /\ pump.at = "drain" /\ t \in pump.todo
    /\ pump' = [pump EXCEPT !.todo = @ \ {t}]
    /\ IF input[t].updated
       THEN /\ input' = [input EXCEPT ![t].updated = FALSE]
            /\ \/ /\ channel' = [channel EXCEPT ![t].held = send(t, input[t].value)]
                  /\ UNCHANGED <<missed, fedLeft>>
               \/ /\ SpendFed("fail") /\ missed' = missed \cup {t} /\ UNCHANGED channel
       ELSE UNCHANGED <<input, channel, missed, fedLeft>>
    /\ UNCHANGED <<sent, fedHandle, broker, closed, executing, published, subscribed, simTime, step, inFlight,
                   trigger, closer, got>>

drainEnds ==
    /\ pump.at = "drain" /\ pump.todo = {} /\ pump' = NoPass
    /\ UNCHANGED <<sent, fedHandle, broker, closed, executing, published, subscribed, simTime, input, step,
                   inFlight, trigger, channel, closer, got, missed, fedLeft>>

\* pumpUpdates returns: it alone closes the channels.
closeSubscriptionChannels ==
    /\ pump.at = "wait" /\ PumpDone
    /\ channel' = [t \in Topics |-> IF t \in subscribed THEN [channel[t] EXCEPT !.state = "closed"] ELSE channel[t]]
    /\ subscribed' = {} /\ pump' = [NoPass EXCEPT !.at = "gone"]
    /\ UNCHANGED <<sent, fedHandle, broker, closed, executing, published, simTime, input, step, inFlight,
                   trigger, closer, got, missed, fedLeft>>

\* The subscriber takes a value.
Take(t) ==
    /\ channel[t].held # Nothing /\ SpendFed("take")
    /\ got' = [got EXCEPT ![t] = channel[t].held]
    /\ channel' = [channel EXCEPT ![t].held = Nothing]
    /\ UNCHANGED <<sent, fedHandle, broker, closed, executing, published, subscribed, simTime, input, step,
                   inFlight, trigger, pump, closer, missed>>

-----------------------------------------------------------------------------
\* Close.

\* The first call marks the federate closed; a federate without a handle is
\* only marked; later calls are refused.
CloseMark(c) ==
    /\ closer[c] = "idle"
    /\ closed' = TRUE
    /\ closer' = [closer EXCEPT ![c] = IF closed \/ fedHandle = "nil" THEN "refused" ELSE "waiting"]
    /\ UNCHANGED <<sent, fedHandle, broker, executing, published, subscribed, simTime, input, step, inFlight,
                   trigger, pump, channel, got, missed, fedLeft>>

\* inFlight.Wait, then close(pumpDone).
CloseDrained(c) ==
    /\ closer[c] = "waiting" /\ inFlight = 0
    /\ closer' = [closer EXCEPT ![c] = "joining"]
    /\ UNCHANGED <<sent, fedHandle, broker, closed, executing, published, subscribed, simTime, input, step,
                   inFlight, trigger, pump, channel, got, missed, fedLeft>>

\* pumpWG.Wait.
Joined == pump.at = "gone"

\* The handle is finalized and freed, whether finalize failed or not.
CloseFrees(c) ==
    /\ closer[c] = "joining" /\ Joined
    /\ closer' = [closer EXCEPT ![c] = "freeing"]
    /\ fedHandle' = "freed" /\ published' = {}
    /\ UNCHANGED <<sent, broker, closed, executing, subscribed, simTime, input, step, inFlight, trigger, pump,
                   channel, got, missed, fedLeft>>

\* Broker.Close: once, and freed whether or not it could be disconnected.
closeBroker(b) == IF b = "up" THEN "closed" ELSE b

\* The owned broker goes last.
CloseBroker(c) ==
    /\ closer[c] = "freeing"
    /\ closer' = [closer EXCEPT ![c] = "done"]
    /\ broker' = closeBroker(broker)
    /\ UNCHANGED <<sent, fedHandle, closed, executing, published, subscribed, simTime, input, step, inFlight,
                   trigger, pump, channel, got, missed, fedLeft>>

FederateNext ==
    \/ \E a \in Addresses : NewFederate(a) \/ createValueFederateFails(a)
    \/ EnterExecutingMode
    \/ \E t \in Topics : RegisterPublication(t) \/ Subscribe(t) \/ Publish(t) \/ drainInput(t) \/ Take(t)
    \/ \E s \in Steppers : StepGate(s) \/ StepFails(s) \/ StepDone(s)
    \/ \E s \in Steppers, new \in SUBSET Topics : Grant(s, new)
    \/ drainUpdates \/ drainSkipped \/ drainEnds \/ closeSubscriptionChannels
    \/ \E c \in Closers : CloseMark(c) \/ CloseDrained(c) \/ CloseFrees(c) \/ CloseBroker(c)

-----------------------------------------------------------------------------
\* No goroutine calls into C on a handle that is freed: while a Step is in its
\* request or the pump in a pass the handle is live, and the broker a federate
\* owns outlives it (the order of Close).
HandleLiveInUse ==
    /\ (\E s \in Steppers : step[s] # "idle") \/ pump.at = "drain" => fedHandle = "live"
    /\ broker = "closed" => fedHandle = "freed"
    /\ (\E c \in Closers : closer[c] = "done") =>
         /\ fedHandle = "freed" /\ broker # "up"
         /\ \A t \in Topics : channel[t].state # "open"

\* Latest value wins: when no Step is under way and the pump rests, a
\* subscriber holds, or has in its channel, the newest value of its topic,
\* unless the library failed to read it.
NewestWins ==
    (Usable /\ pump.at = "wait" /\ ~ trigger /\ \A s \in Steppers : step[s] = "idle") =>
        \A t \in subscribed \ missed :
            input[t].value \in {channel[t].held, got[t]}

\* What a federate promises through every overlap of Step, the pump and Close:
\* no freed handle is used, and the newest value reaches its subscriber.
FederateIsOrderly == HandleLiveInUse /\ NewestWins
=============================================================================
