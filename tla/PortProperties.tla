--------------------------- MODULE PortProperties ---------------------------
(***************************************************************************)
(* The property cache of the ports: what controllers set, one property or  *)
(* a batch at a time, what resetMetrics() and the end of a session clear,  *)
(* what the UT control plane writes past every check, and the events that  *)
(* announce it.  The ports walk their lifecycle as PortContract says they  *)
(* do; every operation below is one critical section, after which its      *)
(* thread sends the events.                                                *)
(***************************************************************************)
EXTENDS PortContract, Sequences, SequencesExt

CONSTANTS
    Threads,      \* the binder pool
    UtWorker,     \* the worker of the control plane
    Observers,    \* the event listeners
    Metrics,      \* the METRIC_* properties
    Supported,    \* the properties the profile supports
    Declared,     \* the value tag it declares for each property
    Writable,     \* the supported ones it lets controllers set
    Batches,      \* the updates controllers try
    UtUpdates,    \* the updates the host sends
    Levels,       \* the signal levels it reports
    Now           \* the wall-clock time of a resetMetrics()

Telemetry  == {"SIGNAL_STRENGTH", "SIGNAL_QUALITY"}
LastReset  == "METRIC_LAST_RESET_TIMESTAMP"
Properties == Telemetry \union Metrics
Tags   == {"intValue", "longValue", "floatValue", "doubleValue",
           "booleanValue", "stringValue"}
Value  == [tag : Tags, number : Nat]
Counts(v) == v.tag \in {"intValue", "longValue"}
Update == [property : Properties, value : Value]

ASSUME PropertiesAssumption ==
    /\ LastReset \in Metrics /\ IsFiniteSet(Metrics)
    /\ Telemetry \cap Metrics = {}
    /\ None \notin Ports
    /\ Declared \in [Properties -> Tags]
    /\ Supported \subseteq Properties
    /\ Writable \subseteq Supported
    /\ UtWorker \notin Threads
ASSUME UpdatesAssumption ==
    /\ \A b \in Batches : b \in Seq(Update) /\ b # <<>>
    /\ \A u \in UtUpdates : u \in Update /\ Counts(u.value)
ASSUME NumbersAssumption == Levels \subseteq Nat /\ Now \in Nat

VARIABLES
    cached,       \* m_cachedProperties of each port
    writer,       \* history: who wrote each value
    written,      \* history: the metrics written since a session ended, those
                  \*   that a kept controller writes after it included
    issued,       \* whether some client was ever given a controller
    listening,    \* m_eventListeners
    outbox,       \* the events each thread has still to send, in order
    baseline,     \* the port whose telemetry start() has still to announce
    heard,        \* the value each observer takes each property to have
    doubtful      \* the properties whose events crossed, or came silently

lifecycle  == vars
values     == <<cached, writer, written>>
events     == <<listening, outbox, baseline, heard, doubtful>>
propVars   == <<lifecycle, values, issued, events>>

Senders == Threads \union {UtWorker}

Number(tag, n) == [tag |-> tag, number |-> n]

(* What a read answers for a property it has no value of.                  *)
Null == Number("null", 0)

(* A change on its way, and the observers it has still to reach.           *)
Event == [to : SUBSET Observers, port : Ports,
          property : Properties, value : Value]

PropertiesTypeOK ==
    /\ cached \in [Ports -> [Properties -> Value]]
    /\ writer \in [Ports -> [Properties -> {"service", "controller", "host"}]]
    /\ written \in [Ports -> SUBSET Metrics]
    /\ issued \in [Ports -> BOOLEAN]
    /\ listening \in [Ports -> SUBSET Observers]
    /\ outbox \in [Senders -> Seq(Event)]
    /\ baseline \in [Threads -> Ports \union {None}]
    /\ heard \in [Observers -> [Ports -> [Properties -> Value \union {Null}]]]
    /\ doubtful \in [Ports -> SUBSET Properties]

(* What an observer takes a property to be whose last event it missed, and *)
(* every property before it registers.                                     *)
Missed    == Null
Forgotten == [x \in Properties |-> Missed]

(* The constructor and resetHardwareBaselineForBoot: the tags are fixed    *)
(* here, whatever the profile declares.                                    *)
Native(x) == IF x = "SIGNAL_QUALITY" THEN "intValue" ELSE "longValue"

PowerOn == [x \in Properties |-> Number(Native(x), 0)]

PropertiesInit ==
    /\ Init
    /\ cached = [p \in Ports |-> PowerOn]
    /\ writer = [p \in Ports |-> [x \in Properties |-> "service"]]
    /\ written = [p \in Ports |-> {}]
    /\ issued = [p \in Ports |-> FALSE]
    /\ listening = [p \in Ports |-> {}]
    /\ outbox = [t \in Senders |-> <<>>]
    /\ baseline = [t \in Threads |-> None]
    /\ heard = [o \in Observers |-> [p \in Ports |-> Forgotten]]
    /\ doubtful = [p \in Ports |-> {}]

(* The telemetry follows the reports, and is shown, in these states only.  *)
Live(p) == life[p] \in {"STARTING", "STARTED"}

----------------------------------------------------------------------------
(* Writing and announcing.                                                 *)

Touched(us) == {us[i].property : i \in DOMAIN us}

(* Later updates of a batch win over earlier ones.                         *)
LastOf(us, x) ==
    CHOOSE i \in DOMAIN us :
        us[i].property = x /\ \A j \in DOMAIN us : us[j].property = x => j <= i

Applied(cache, us) ==
    [x \in Properties |->
        IF x \in Touched(us) THEN us[LastOf(us, x)].value ELSE cache[x]]

Write(p, us, by) ==
    /\ cached' = [cached EXCEPT ![p] = Applied(@, us)]
    /\ writer' = [writer EXCEPT ![p] =
          [x \in Properties |-> IF x \in Touched(us) THEN by ELSE @[x]]]
    /\ written' = [written EXCEPT ![p] = @ \union (Touched(us) \cap Metrics)]

(* Variant: the batch is announced from its end.                           *)
EventsOfReversed(p, us) ==
    [i \in DOMAIN us |-> [to |-> listening[p], port |-> p,
                          property |-> us[Len(us) + 1 - i].property,
                          value |-> us[Len(us) + 1 - i].value]]

(* onPropertyChanged for each update in turn, to every listener of then.   *)
EventsOf(p, us) ==
    [i \in DOMAIN us |-> [to |-> listening[p], port |-> p,
                          property |-> us[i].property, value |-> us[i].value]]

(* What is left once the next changes have reached everyone.               *)
Unheard(es) ==
    LET owed == {i \in DOMAIN es : es[i].to # {}} IN
    IF owed = {} THEN <<>> ELSE SubSeq(es, Min(owed), Len(es))

Pending(t, p) == {outbox[t][i].property :
                    i \in {j \in DOMAIN outbox[t] : outbox[t][j].port = p}}

(* A property is in doubt from now on only if an older event of it, which  *)
(* another thread has not sent yet, may arrive after these.                *)
Announce(t, p, us) ==
    /\ outbox' = [outbox EXCEPT ![t] = Unheard(EventsOf(p, us))]
    /\ doubtful' = [doubtful EXCEPT ![p] =
          {x \in Properties :
             IF x \in Touched(us)
             THEN \E u \in Senders \ {t} : x \in Pending(u, p)
             ELSE x \in @}]

Free(t) == outbox[t] = <<>> /\ (t \in Threads => baseline[t] = None)

----------------------------------------------------------------------------
(* setProperty and setPropertyMulti: neither asks for the state of the     *)
(* port, nor for the session of the controller.                            *)

(* Variant: the type is not checked.                                       *)
AcceptedUntyped(u) == u.property \in Writable

Accepted(u) == u.property \in Writable /\ u.value.tag = Declared[u.property]

(* Variant: the bad entries are left out.                                  *)
ValidOnes(b) == SelectSeq(b, Accepted)

(* The updates that a batch makes: all of them, or none.                   *)
Valid(b) == IF \A u \in ToSet(b) : Accepted(u) THEN b ELSE <<>>

SetProperties(t, p, b) ==
    /\ Free(t)
    /\ issued[p]
    /\ Valid(b) # <<>>
    /\ Write(p, Valid(b), "controller")
    /\ Announce(t, p, Valid(b))
    /\ UNCHANGED <<lifecycle, issued, listening, baseline, heard>>

(* resetMetrics: zero the counters, stamp the time, announce all of them.  *)
Zeroed == SetToSeq({[property |-> m, value |-> Number("longValue", 0)] :
                      m \in Metrics \ {LastReset}})

ResetUpdates == Append(Zeroed, [property |-> LastReset,
                                value |-> Number("longValue", Now)])

ResetMetrics(t, p) ==
    /\ Free(t)
    /\ issued[p]
    /\ life[p] = "STARTED"
    /\ Write(p, ResetUpdates, "service")
    /\ Announce(t, p, ResetUpdates)
    /\ UNCHANGED <<lifecycle, issued, listening, baseline, heard>>

----------------------------------------------------------------------------
(* The control plane: set_property on any property, supported or not, with *)
(* the tag of the key the host chose; a signal report refreshes the        *)
(* telemetry of a port that is starting or started, and announces it.      *)

UtSetProperty(p, u) ==
    /\ Free(UtWorker)
    /\ Write(p, <<u>>, "host")
    /\ Announce(UtWorker, p, <<u>>)
    /\ UNCHANGED <<lifecycle, issued, listening, baseline, heard>>

Signal(n) == SetToSeq({[property |-> x, value |-> Number(Native(x), n)] :
                         x \in Telemetry})

UtSignal(p, n) ==
    /\ Free(UtWorker)
    /\ Live(p)
    /\ Write(p, Signal(n), "host")
    /\ Announce(UtWorker, p, Signal(n))
    /\ UNCHANGED <<lifecycle, issued, listening, baseline, heard>>

(* A detected mode refreshes the telemetry the same way and announces      *)
(* nothing: what the observers know of it is in doubt.                     *)
UtVideoMode(p, n) ==
    /\ Free(UtWorker)
    /\ Live(p)
    /\ Write(p, Signal(n), "host")
    /\ doubtful' = [doubtful EXCEPT ![p] = @ \union Telemetry]
    /\ UNCHANGED <<lifecycle, issued, listening, outbox, baseline, heard>>

----------------------------------------------------------------------------
(* Reading.                                                                *)

(* getProperty(): before the port is live the telemetry reads zero,        *)
(* whether it is supported or not.                                         *)
GetProperty(p, x) ==
    IF x \in Telemetry /\ ~Live(p) THEN Number(Native(x), 0)
    ELSE IF x \in Supported THEN cached[p][x] ELSE Null

(* getPropertyMulti(): the pairs in the order they are asked for, all from *)
(* one critical section; no property at all is refused.                    *)
GetPropertyMulti(p, xs) ==
    IF xs = <<>> THEN "EX_ILLEGAL_ARGUMENT"
    ELSE [i \in DOMAIN xs |->
            [property |-> xs[i],
             value |-> IF xs[i] \in Telemetry /\ ~Live(p)
                       THEN Number(Native(xs[i]), 0)
                       ELSE IF xs[i] \in Supported THEN cached[p][xs[i]]
                       ELSE Null]]

----------------------------------------------------------------------------
(* The lifecycle, as far as the cache takes part in it.                    *)

OpenPort(p) ==
    /\ \E c \in Clients : Open(p, c)
    /\ UNCHANGED <<values, issued, events>>

OpenedPort(p) ==
    /\ Opened(p)
    /\ issued' = [issued EXCEPT ![p] = TRUE]
    /\ UNCHANGED <<values, events>>

Pass(p) ==
    /\ Start(p) \/ Stop(p) \/ Stopped(p) \/ Close(p)
    /\ UNCHANGED <<values, issued, events>>

(* start() announces the telemetry of a port that has just become STARTED, *)
(* from a snapshot it takes later, whatever the port is doing by then.     *)
StartedPort(t, p) ==
    /\ Free(t)
    /\ Up(p)
    /\ baseline' = [baseline EXCEPT ![t] = p]
    /\ UNCHANGED <<values, issued, listening, outbox, heard, doubtful>>

Snapshot(p) == SetToSeq({[property |-> x, value |-> cached[p][x]] : x \in Telemetry})

StartBaseline(t, p) ==
    /\ baseline[t] = p
    /\ baseline' = [baseline EXCEPT ![t] = None]
    /\ Announce(t, p, Snapshot(p))
    /\ UNCHANGED <<lifecycle, values, issued, listening, heard>>

(* Variants: the value becomes null; an integer is overlooked.             *)
RetiredNull(v) == IF Counts(v) THEN [tag |-> "null", number |-> 0] ELSE v

RetiredLong(v) == IF v.tag = "longValue" THEN Number(v.tag, 0) ELSE v

(* resetSessionStateLocked: an INTEGER or a LONG becomes zero and keeps    *)
(* its tag, a value of any other type stays, and nothing is announced.     *)
Retired(v) == IF Counts(v) THEN Number(v.tag, 0) ELSE v

EndSession(p) ==
    /\ Closed(p) \/ Undo(p)
    /\ cached' = [cached EXCEPT ![p] = [x \in Properties |->
          IF x \in Metrics THEN Retired(@[x]) ELSE @[x]]]
    /\ written' = [written EXCEPT ![p] = {}]
    /\ doubtful' = [doubtful EXCEPT ![p] = @ \union Metrics]
    /\ UNCHANGED <<writer, issued, listening, outbox, baseline, heard>>

----------------------------------------------------------------------------
(* The observers: one reads the properties as it registers; one that       *)
(* leaves forgets them, and still gets what was on its way to it, even     *)
(* after it came back.                                                     *)

Polled(p) == [x \in Properties |-> GetProperty(p, x)]

Register(o, p) ==
    /\ o \notin listening[p]
    /\ listening' = [listening EXCEPT ![p] = @ \union {o}]
    /\ heard' = [heard EXCEPT ![o][p] = Polled(p)]
    /\ UNCHANGED <<lifecycle, values, issued, outbox, baseline, doubtful>>

Unregister(o, p) ==
    /\ o \in listening[p]
    /\ listening' = [listening EXCEPT ![p] = @ \ {o}]
    /\ heard' = [heard EXCEPT ![o][p] = Forgotten]
    /\ UNCHANGED <<lifecycle, values, issued, outbox, baseline, doubtful>>

FirstGot(es, o) == [es EXCEPT ![1].to = @ \ {o}]

(* One listener after another, in any order, then the next change.  A call *)
(* that fails is logged and not repeated: the observer missed it.          *)
Told(t, o, v) ==
    /\ outbox[t] # <<>>
    /\ LET e == Head(outbox[t]) IN
       /\ o \in e.to
       /\ heard' = [heard EXCEPT ![o][e.port][e.property] = v]
    /\ outbox' = [outbox EXCEPT ![t] = Unheard(FirstGot(@, o))]
    /\ UNCHANGED <<lifecycle, values, issued, listening, baseline, doubtful>>

Deliver(t, o) == Told(t, o, Head(outbox[t]).value)
Refuse(t, o)  == Told(t, o, Missed)

ClientLeaves(c) ==
    Leave(c) /\ UNCHANGED <<values, issued, events>>

----------------------------------------------------------------------------
Operation(t, p) ==
    \/ \E b \in Batches : SetProperties(t, p, b)
    \/ ResetMetrics(t, p)
    \/ StartedPort(t, p) \/ StartBaseline(t, p)

PropertiesNext ==
    \/ \E t \in Threads, p \in Ports : Operation(t, p)
    \/ \E p \in Ports, u \in UtUpdates : UtSetProperty(p, u)
    \/ \E p \in Ports, n \in Levels : UtSignal(p, n) \/ UtVideoMode(p, n)
    \/ \E p \in Ports :
          OpenPort(p) \/ OpenedPort(p) \/ Pass(p) \/ EndSession(p)
    \/ \E o \in Observers, p \in Ports : Register(o, p) \/ Unregister(o, p)
    \/ \E t \in Senders, o \in Observers : Deliver(t, o) \/ Refuse(t, o)
    \/ \E c \in Mortal : ClientLeaves(c)

PropertiesSpec == PropertiesInit /\ [][PropertiesNext]_propVars

----------------------------------------------------------------------------
(* A batch reaches the cache whole or not at all, and never with an entry  *)
(* that would have been refused on its own.                                *)
BatchAtomic ==
    [][cached' # cached =>
         \A t \in Threads, p \in Ports, b \in Batches :
            SetProperties(t, p, b) =>
               \A i \in DOMAIN b :
                  /\ b[i].property \in Writable
                  /\ \/ cached'[p][b[i].property] = b[i].value
                     \/ \E j \in DOMAIN b : j > i /\ b[j].property = b[i].property
      ]_propVars

(* A value that setProperty() let a controller set has the type that the   *)
(* profile declares, however late the call and whatever the batch; one of  *)
(* the service itself keeps the type it is built with, through every reset *)
(* (the host's may have either integer type).                              *)
TypesDeclared ==
    \A p \in Ports, x \in Properties :
        /\ writer[p][x] = "controller" => cached[p][x].tag = Declared[x]
        /\ writer[p][x] = "service" => cached[p][x].tag = Native(x)

(* The end of a session, a rolled back one included, leaves no counter in  *)
(* a metric: an INTEGER or a LONG other than zero was written since the    *)
(* last session ended, by the session of now, by the host, or late, by a   *)
(* controller of an earlier session.  It says nothing of the other types:  *)
(* what they hold outlives the session.                                    *)
CountersRestart ==
    \A p \in Ports, m \in Metrics :
        Counts(cached[p][m]) /\ cached[p][m].number # 0 => m \in written[p]

(* The places of the outbox of t that tell o of property x of p.           *)
ToCome(t, o, p, x) ==
    {i \in DOMAIN outbox[t] : LET e == outbox[t][i] IN
        o \in e.to /\ e.port = p /\ e.property = x}

Announced(p, x) ==
    /\ x \in Supported \ doubtful[p]
    /\ x \in Telemetry => /\ life[p] = "STARTED"
                          /\ \A t \in Threads : baseline[t] # p

(* An observer of p has heard that x has the value v, or will hear it      *)
(* last, or missed the last it was told.                                   *)
Learns(o, p, x, v) ==
    /\ \A t \in Senders : LET es == ToCome(t, o, p, x) IN
          es # {} => outbox[t][Max(es)].value = v
    /\ \/ heard[o][p][x] \in {v, Missed}
       \/ \E t \in Senders : ToCome(t, o, p, x) # {}

(* Unless events of two threads crossed, or a value changed silently, what *)
(* an observer has heard, or is about to hear last, is what it reads with  *)
(* one getPropertyMulti(): the telemetry once start() has announced it and *)
(* until the port is stopped, a metric in every state.  What was on its    *)
(* way to an observer that left and came back counts; an observer whose    *)
(* last call failed knows nothing until the next.                          *)
CurrentValueAnnounced ==
    \A p \in Ports, o \in Observers :
        LET xs == SetToSeq({x \in Properties : Announced(p, x)}) IN
        o \in listening[p] => \A i \in DOMAIN xs :
           Learns(o, p, xs[i], GetPropertyMulti(p, xs)[i].value)
=============================================================================
