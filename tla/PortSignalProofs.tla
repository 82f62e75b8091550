-------------------------- MODULE PortSignalProofs --------------------------
(* Proofs of the properties of PortSignal: what the listener of a session  *)
(* has been told, for every set of ports, threads and clients.             *)
EXTENDS PortSignal, PortLifecycleProofs

----------------------------------------------------------------------------
(* The inductive invariant.                                                *)

(* A callback is owed by the thread that opens or starts the port, to the  *)
(* client of the session: open() owes it until it has linked or failed to, *)
(* start() from its snapshot on.                                           *)
OwesConnection(t, p) ==
    /\ port[t] = p
    /\ callback[t].kind = "connection"
    /\ pc[t] \in {"open_link", "open_undo", "open_ready"}

OwesSignal(t, p) ==
    /\ port[t] = p
    /\ callback[t].kind = "signal"
    /\ pc[t] = "start_end"

CallbacksOwed ==
    \A t \in Threads, p \in Ports :
        callback[t] # Nothing /\ callback[t].port = p =>
        /\ OwesConnection(t, p) \/ OwesSignal(t, p)
        /\ callback[t].client = listener[p]

(* What the worker still has to report is the latest there is: it reports  *)
(* before it takes the next message.                                       *)
ReportLatest ==
    report # Nothing =>
        report.value = IF report.kind = "connection"
                       THEN Text(connected[report.port])
                       ELSE signalStatus[report.port]

(* The way the present value reaches the client: the report under way, the *)
(* callback under way with the present value, or it was told already and   *)
(* no older snapshot will follow.                                          *)
ReportUnderWay(p, kinds) ==
    report.kind \in kinds /\ report.port = p /\ report.client = listener[p]

ConnectionHeard ==
    \A p \in Ports : Attended(p) =>
        \/ "connection" \in overtaken[p]
        \/ ReportUnderWay(p, {"connection"})
        \/ \E t \in Threads :
              OwesConnection(t, p) /\ callback[t].value = Text(connected[p])
        \/ /\ told[p].connection = Text(connected[p])
           /\ \A t \in Threads : ~OwesConnection(t, p)

(* From the snapshot of start() to the stop.                               *)
Announced(p) ==
    state[p] = "STARTED" \/ \E t \in Threads : At(t, p, "start_end")

SignalHeard ==
    \A p \in Ports : Attended(p) /\ Announced(p) =>
        \/ "signal" \in overtaken[p]
        \/ ReportUnderWay(p, {"signal", "mode"})
        \/ \E t \in Threads :
              OwesSignal(t, p) /\ callback[t].value = signalStatus[p]
        \/ /\ told[p].signal = signalStatus[p]
           /\ \A t \in Threads : ~OwesSignal(t, p)

SignalIInv ==
    /\ IInv
    /\ SignalTypeOK
    /\ ModeNeedsStableSignal
    /\ CallbacksOwed
    /\ ReportLatest
    /\ ConnectionHeard
    /\ SignalHeard

----------------------------------------------------------------------------
(* The lifecycle underneath.                                               *)

(* Who sets the telemetry touches nothing else.                            *)
LEMMA InjectsFrame ==
    ASSUME NEW p \in Ports, Injects(p)
    PROVE  /\ UNCHANGED <<lifecycle, connected, signalStatus, detected, notices>>
           /\ \E f \in Fields, n \in Injected :
                 telemetry' = [telemetry EXCEPT ![p][f] = n]
BY DEF Injects, UtSetProperty, SetProperty

(* Reports and callbacks leave the lifecycle alone: its threads take the   *)
(* steps they take without them, and none else.                            *)
LEMMA LifecycleStep == [SignalNext]_signalVars => [Next]_vars
<1> SUFFICES ASSUME [SignalNext]_signalVars PROVE Next \/ UNCHANGED vars
  OBVIOUS
<1>1. ASSUME NEW t \in Threads, NEW p \in Ports, PortStep(t, p)
      PROVE  ThreadStep(t, p)
  BY <1>1 DEF PortStep, SnapshotConnection, SnapshotSignal, DropCallback,
     PlainStep, ThreadStep, OpenStep, StartStep
<1>2. CASE \E t \in Threads, p \in Ports : PortStep(t, p)
  BY <1>1, <1>2 DEF Next
<1>3. CASE Environment
  BY <1>3 DEF Environment, Next
<1>4. ASSUME NEW p \in Ports,
             \/ \E b \in BOOLEAN : UtConnection(p, b)
             \/ \E s \in Statuses : UtSignal(p, s)
             \/ UtVideoMode(p) \/ UtClearVideoMode(p) \/ Injects(p)
      PROVE  UNCHANGED vars
  BY <1>4, InjectsFrame DEF UtConnection, UtSignal, UtVideoMode, UtClearVideoMode, lifecycle
<1>5. CASE UtCallback \/ \E t \in Threads : PortCallback(t)
  BY <1>5 DEF UtCallback, PortCallback, lifecycle
<1>6. CASE UNCHANGED signalVars
  BY <1>6 DEF signalVars, lifecycle
<1> QED
  BY <1>2, <1>3, <1>4, <1>5, <1>6 DEF SignalNext

(* What a section of thread t may change for the callbacks of the others:  *)
(* it keeps their threads, the clients, and the clients' lives; it takes a *)
(* client away only when it ends the session, gives one only in open(),    *)
(* and starts a port only in the last section of start().                  *)
LEMMA SectionFrame ==
    ASSUME TypeOK, OneDriver, NEW t \in Threads, NEW p \in Ports,
           ThreadStep(t, p)
    PROVE  /\ port[t] = p
           /\ \A u \in Threads \ {t} : pc'[u] = pc[u] /\ port'[u] = port[u]
           /\ alive' = alive
           /\ \A q \in Ports : \/ listener'[q] = listener[q]
                               \/ q = p /\ listener'[q] = None
                               \/ /\ q = p
                                  /\ At(t, p, "open_begin")
                                  /\ state[p] = "CLOSED"
           /\ \A q \in Ports : q # p => state'[q] = state[q]
           /\ state'[p] = "STARTED" =>
                 state[p] = "STARTED" \/ At(t, p, "start_end")
           /\ pc'[t] = "start_end" => pc[t] = "start_signal"
           /\ pc[t] = "open_link" =>
                 /\ pc'[t] \in {"open_ready", "open_undo"}
                 /\ port'[t] = p
                 /\ listener'[p] = listener[p]
<1> USE LabelFacts DEF TypeOK, OneDriver, Driver, session, threads, world, Goto,
        Enter, Return, SetState, RetireSession, At
<1>1. CASE OpenStep(t, p)
  BY <1>1 DEF OpenStep, OpenRejected, OpenBegin, OpenLink, OpenLinkFails,
     OpenUndo, OpenReady
<1>2. CASE CloseStep(t, p)
  BY <1>2 DEF CloseStep, CloseRejected, CloseBegin, CloseEnd, CloseUnlink
<1>3. CASE StartStep(t, p)
  BY <1>3 DEF StartStep, StartRefused, StartReserve, StartRejected,
     StartBegin, StartSignal, StartEnd, StartBaseline
<1>4. CASE StopStep(t, p)
  BY <1>4 DEF StopStep, StopRejected, StopBegin, StopReady, StopRelease
<1>5. CASE TailStep(t, p)
  BY <1>5 DEF TailStep, Tails, TailReturn, TailRunsCleanup
<1>6. CASE DeathStep(t, p)
  BY <1>6 DEF DeathStep, DeathIgnored, DeathDeferred, DeathStop,
     DeathSkipsStop, DeathReady, DeathRelease, DeathCloseIgnored,
     DeathCloseDeferred, DeathClose, DeathEnd
<1> QED
  BY <1>1, <1>2, <1>3, <1>4, <1>5, <1>6 DEF ThreadStep

(* A call or an obituary occupies an idle thread, and nothing but a death  *)
(* changes the clients: none of them touches a port.                       *)
LEMMA EnvironmentFrame ==
    ASSUME TypeOK, Environment
    PROVE  /\ UNCHANGED <<state, listener, input, notices>>
           /\ \A c \in Clients : alive'[c] => alive[c]
           /\ \A u \in Threads :
                 \/ pc'[u] = pc[u] /\ port'[u] = port[u]
                 \/ /\ pc[u] = "idle"
                    /\ pc'[u] \in {"open_begin", "death_begin"}
                                     \union ControllerCalls
<1> USE DEF TypeOK, session, threads, world, Enter
<1>1. ASSUME NEW t \in Threads, Call(t)
      PROVE  /\ UNCHANGED <<state, listener, alive>>
             /\ \A u \in Threads :
                   \/ pc'[u] = pc[u] /\ port'[u] = port[u]
                   \/ /\ pc[u] = "idle"
                      /\ pc'[u] \in {"open_begin"} \union ControllerCalls
  BY <1>1 DEF Call, CallOpen, CallController
<1>2. ASSUME NEW t \in Threads, NEW k \in links, NotifyDeath(t, k)
      PROVE  /\ UNCHANGED <<state, listener, alive>>
             /\ \A u \in Threads :
                   \/ pc'[u] = pc[u] /\ port'[u] = port[u]
                   \/ pc[u] = "idle" /\ pc'[u] = "death_begin"
  BY <1>2 DEF NotifyDeath
<1>3. ASSUME NEW c \in RemoteClients, Die(c)
      PROVE  /\ UNCHANGED <<state, listener, pc, port>>
             /\ \A d \in Clients : alive'[d] => alive[d]
  BY <1>3, ClientsAssumption DEF Die
<1> QED
  BY <1>1, <1>2, <1>3 DEF Environment

----------------------------------------------------------------------------
(* Types, and what concerns the physical input alone.                      *)

(* What is derived from a signal is telemetry.                             *)
LEMMA DerivedTyped == \A s : Derived(s) \in [Fields -> Int]
<1>1. \A s : SignalStrengthDbm(s) \in Int /\ SignalQuality(s) \in Int
  BY DEF SignalStrengthDbm, SignalQuality
<1> QED
  BY <1>1 DEF Derived

(* The input starts unplugged and nobody is owed anything.                 *)
LEMMA SignalTypeInit == SignalInit => SignalTypeOK
BY TypeInit, DerivedTyped DEF SignalInit, SignalTypeOK, SignalStatuses, Memory

(* A notice is about the cable or about the signal, and its value fits.    *)
LEMMA NoticeFacts ==
    ASSUME NEW n \in Notices
    PROVE  /\ n.port \in Ports /\ n.client \in Clients
           /\ n.kind \in {"connection", "signal", "mode"}
           /\ n.kind = "connection" => n.value \in {"TRUE", "FALSE"}
           /\ n.kind # "connection" => n.value \in SignalStatuses
           /\ n # Nothing
<1>1. n.kind # Nothing.kind
  BY DEF Notices, Nothing
<1> QED
  BY <1>1 DEF Notices

(* What the handlers put in a notice makes one.                            *)
LEMMA NoticeMade ==
    ASSUME NEW p \in Ports, NEW c \in Clients
    PROVE  /\ \A b \in BOOLEAN :
                 Notice("connection", p, c, Text(b)) \in Notices
           /\ \A s \in SignalStatuses : Notice("signal", p, c, s) \in Notices
           /\ \A s \in SignalStatuses : Notice("mode", p, c, s) \in Notices
BY DEF Notices, Notice, Text

(* What a client was told stays a pair of a cable and a signal: Tell       *)
(* overwrites the one the notice is about.                                 *)
LEMMA ToldTyped ==
    ASSUME told \in [Ports -> Memory], NEW n \in Notices,
           Tell(n, KindTold(n))
    PROVE  told' \in [Ports -> Memory]
<1>1. CASE n.kind = "connection"
  <2>1. \A m \in Memory :
           [m EXCEPT !["connection"] = n.value] \in Memory
    BY <1>1, NoticeFacts DEF Memory
  <2> QED
    BY <1>1, <2>1, NoticeFacts DEF Tell, KindTold
<1>2. CASE n.kind \in {"signal", "mode"}
  <2>1. \A m \in Memory : [m EXCEPT !["signal"] = n.value] \in Memory
    BY <1>2, NoticeFacts DEF Memory
  <2> QED
    BY <1>2, <2>1, NoticeFacts DEF Tell, KindTold
<1> QED
  BY <1>1, <1>2, NoticeFacts

(* A callback that a thread owes is about the cable or the signal.         *)
LEMMA CallbackTyped ==
    ASSUME SignalTypeOK, NEW t \in Threads, callback[t] # Nothing
    PROVE  /\ callback[t] \in Notices
           /\ callback[t].kind \in Kinds
           /\ KindTold(callback[t]) = callback[t].kind
BY DEF SignalTypeOK, Kinds, KindTold

(* Every report, callback and section keeps the types.                     *)
LEMMA SignalTypeStep ==
    ASSUME IInv, SignalTypeOK, TypeOK', [SignalNext]_signalVars
    PROVE  SignalTypeOK'
<1> USE DEF SignalTypeOK, input, notices
<1>a. /\ TypeOK /\ SessionIdentity
      /\ \A p \in Ports : listener[p] # None => listener[p] \in Clients
  BY DEF IInv, TypeOK
<1>1. ASSUME NEW p \in Ports, NEW b \in BOOLEAN, UtConnection(p, b)
      PROVE  SignalTypeOK'
  BY <1>1, <1>a, NoticeMade DEF UtConnection, Owe
<1>2. ASSUME NEW p \in Ports, NEW s \in Statuses, UtSignal(p, s)
      PROVE  SignalTypeOK'
  BY <1>2, <1>a, NoticeMade, StatusesAssumption, DerivedTyped
     DEF UtSignal, Owe, Refresh
<1>3. ASSUME NEW p \in Ports, UtVideoMode(p) \/ UtClearVideoMode(p)
      PROVE  SignalTypeOK'
  <2>1. "STABLE" \in SignalStatuses
    BY DEF SignalStatuses
  <2>2. CASE UtVideoMode(p)
    BY <2>1, <2>2, <1>a, NoticeMade, DerivedTyped DEF UtVideoMode, Owe, Refresh
  <2>3. CASE UtClearVideoMode(p)
    BY <2>3 DEF UtClearVideoMode
  <2> QED
    BY <1>3, <2>2, <2>3
<1>4. CASE UtCallback
  <2>1. report \in Notices
    BY <1>4 DEF UtCallback
  <2>2. told' \in [Ports -> Memory]
    BY <1>4, <2>1, ToldTyped DEF UtCallback
  <2>3. KindTold(report) \in Kinds
    BY <2>1, NoticeFacts DEF KindTold, Kinds
  <2>4. overtaken' \in [Ports -> SUBSET Kinds]
    BY <1>4, <2>1, <2>3, NoticeFacts DEF UtCallback
  <2> QED
    BY <1>4, <2>2, <2>4 DEF UtCallback
<1>5. ASSUME NEW t \in Threads, PortCallback(t)
      PROVE  SignalTypeOK'
  <2>1. /\ callback[t] \in Notices
        /\ KindTold(callback[t]) = callback[t].kind
    BY <1>5, CallbackTyped DEF PortCallback
  <2>2. told' \in [Ports -> Memory]
    BY <1>5, <2>1, ToldTyped DEF PortCallback
  <2> QED
    BY <1>5, <2>2 DEF PortCallback
<1>6. ASSUME NEW t \in Threads, NEW p \in Ports, PortStep(t, p)
      PROVE  SignalTypeOK'
  <2>1. UNCHANGED <<input, report>>
    BY <1>6 DEF PortStep
  <2>2. CASE SnapshotConnection(t, p)
    <3>1. opener[t] \in Clients
      BY <2>2, <1>a DEF SnapshotConnection, OpenBegin, At, TypeOK
    <3>2. Notice("connection", p, opener[t], Text(connected[p])) \in Notices
      BY <3>1, NoticeMade
    <3>3. [connection |-> "untold", signal |-> "untold"] \in Memory
      BY DEF Memory
    <3> QED
      BY <2>1, <2>2, <3>2, <3>3 DEF SnapshotConnection, Notice, Kinds
  <2>3. CASE SnapshotSignal(t, p)
    <3>1. state[p] = "STARTING"
      BY <2>3, LabelFacts DEF IInv, OneDriver, Driver, SnapshotSignal,
         StartSignal, At
    <3>2. listener[p] \in Clients
      BY <3>1, <1>a DEF SessionIdentity
    <3>3. Notice("signal", p, listener[p], signalStatus[p]) \in Notices
      BY <3>2, NoticeMade
    <3> QED
      BY <2>1, <2>3, <3>3 DEF SnapshotSignal, Notice, Kinds
  <2>4. CASE DropCallback(t, p) \/ PlainStep(t, p)
    BY <2>1, <2>4 DEF DropCallback, PlainStep
  <2> QED
    BY <1>6, <2>2, <2>3, <2>4 DEF PortStep
<1>7. CASE Environment \/ UNCHANGED signalVars
  BY <1>7 DEF Environment, signalVars
<1>8. ASSUME NEW p \in Ports, Injects(p)
      PROVE  SignalTypeOK'
  <2>1. /\ UNCHANGED <<connected, signalStatus, detected, notices>>
        /\ \E f \in Fields, n \in Injected :
              telemetry' = [telemetry EXCEPT ![p][f] = n]
    BY <1>8, InjectsFrame
  <2>2. telemetry' \in [Ports -> [Fields -> Int]]
    BY <2>1, InjectedAssumption
  <2> QED
    BY <2>1, <2>2
<1> QED
  BY <1>1, <1>2, <1>3, <1>4, <1>5, <1>6, <1>7, <1>8 DEF SignalNext

(* The mode goes with the signal: whatever takes the signal away takes the *)
(* mode with it, and a mode comes with a stable signal.                    *)
LEMMA ModeStep ==
    ASSUME SignalTypeOK, ModeNeedsStableSignal, [SignalNext]_signalVars
    PROVE  ModeNeedsStableSignal'
<1> DEFINE Paired == \A p \in Ports : detected[p] => signalStatus[p] = "STABLE"
<1>1. Paired
  BY DEF ModeNeedsStableSignal
<1>2. Paired'
  <2> USE <1>1 DEF SignalTypeOK, input
  <2>1. ASSUME NEW p \in Ports, NEW b \in BOOLEAN, UtConnection(p, b)
        PROVE  Paired'
    BY <2>1 DEF UtConnection
  <2>2. ASSUME NEW p \in Ports, NEW s \in Statuses, UtSignal(p, s)
        PROVE  Paired'
    BY <2>2 DEF UtSignal
  <2>3. ASSUME NEW p \in Ports, UtVideoMode(p) \/ UtClearVideoMode(p)
        PROVE  Paired'
    BY <2>3 DEF UtVideoMode, UtClearVideoMode
  <2>4. CASE UNCHANGED <<detected, signalStatus>>
    BY <2>4
  <2> QED
    BY <2>1, <2>2, <2>3, <2>4, InjectsFrame DEF SignalNext, UtCallback, PortCallback,
       PortStep, Environment, signalVars
<1> QED
  BY <1>2 DEF ModeNeedsStableSignal, GetStatus, Live

----------------------------------------------------------------------------
(* Callbacks and reports under way.                                        *)

(* While a callback is owed its port stays in the transition and in the    *)
(* session it was owed for: only the thread that owes it could move it.    *)
LEMMA OwedHolds ==
    ASSUME IInv, IInv', CallbacksOwed,
           NEW t \in Threads, NEW p \in Ports, ThreadStep(t, p),
           NEW u \in Threads \ {t}, callback[u] # Nothing,
           NEW q \in Ports, callback[u].port = q
    PROVE  /\ pc'[u] = pc[u] /\ port'[u] = port[u]
           /\ listener'[q] = listener[q]
<1>1. pc'[u] = pc[u] /\ port'[u] = port[u]
  BY SectionFrame DEF IInv
<1>2. Driver(u, q) /\ state[q] # "CLOSED"
  BY LabelFacts
     DEF IInv, CallbacksOwed, OwesConnection, OwesSignal, OneDriver, Driver
<1>3. Driver(u, q)' /\ state'[q] # "CLOSED"
  BY <1>1, <1>2, LabelFacts DEF IInv, OneDriver, Driver
<1>4. listener'[q] # None
  BY <1>3 DEF IInv, SessionIdentity
<1>5. CASE listener'[q] = listener[q]
  BY <1>1, <1>5
<1>6. CASE q = p /\ state[p] = "CLOSED"
  BY <1>2, <1>6
<1> QED
  BY <1>4, <1>5, <1>6, SectionFrame DEF IInv

(* Callbacks are owed in the right places after every step.                *)
LEMMA CallbacksOwedStep ==
    ASSUME IInv, IInv', SignalTypeOK, CallbacksOwed, [SignalNext]_signalVars
    PROVE  CallbacksOwed'
<1> USE DEF CallbacksOwed, OwesConnection, OwesSignal
<1>a. TypeOK /\ OneDriver /\ callback \in [Threads -> Notices \union {Nothing}]
  BY DEF IInv, SignalTypeOK
<1>1. CASE UNCHANGED <<lifecycle, callback>>
  BY <1>1 DEF lifecycle, vars, threads, session
<1>2. ASSUME NEW t \in Threads, PortCallback(t)
      PROVE  CallbacksOwed'
  BY <1>2, <1>a DEF PortCallback, lifecycle, vars, threads, session
<1>3. ASSUME NEW t \in Threads, NEW p \in Ports, PortStep(t, p)
      PROVE  CallbacksOwed'
  <2>1. ThreadStep(t, p)
    BY <1>3 DEF PortStep, SnapshotConnection, SnapshotSignal, DropCallback,
       PlainStep, ThreadStep, OpenStep, StartStep
  <2>2. ASSUME NEW u \in Threads \ {t}, NEW q \in Ports,
               callback[u] # Nothing, callback[u].port = q
        PROVE  /\ pc'[u] = pc[u] /\ port'[u] = port[u]
               /\ listener'[q] = listener[q]
    BY <2>1, <2>2, OwedHolds
  <2>3. \A u \in Threads \ {t} : callback'[u] = callback[u]
    BY <1>3, <1>a DEF PortStep, SnapshotConnection, SnapshotSignal,
       DropCallback, PlainStep
  <2>4. \/ callback'[t] = Nothing
        \/ /\ OwesConnection(t, p)' \/ OwesSignal(t, p)'
           /\ callback'[t].port = p
           /\ callback'[t].client = listener'[p]
    <3>1. CASE SnapshotConnection(t, p)
      BY <3>1, <1>a DEF SnapshotConnection, OpenBegin, Enter, At, Notice,
         TypeOK
    <3>2. CASE SnapshotSignal(t, p)
      BY <3>2, <1>a DEF SnapshotSignal, StartSignal, Goto, At, Notice, TypeOK,
         session
    <3>3. CASE DropCallback(t, p)
      BY <3>3, <1>a DEF DropCallback
    <3>4. CASE PlainStep(t, p) /\ callback[t] # Nothing
      <4>1. pc[t] = "open_link" /\ callback'[t] = callback[t]
        BY <3>4 DEF PlainStep
      <4>2. /\ port[t] = p /\ port'[t] = p
            /\ pc'[t] \in {"open_ready", "open_undo"}
            /\ listener'[p] = listener[p]
        BY <4>1, <2>1, <1>a, SectionFrame
      <4> QED
        BY <4>1, <4>2, <1>a, NoticeFacts
    <3>5. CASE PlainStep(t, p) /\ callback[t] = Nothing
      BY <3>5 DEF PlainStep
    <3> QED
      BY <1>3, <3>1, <3>2, <3>3, <3>4, <3>5 DEF PortStep
  <2>5. ASSUME NEW u \in Threads, NEW q \in Ports, callback'[u] # Nothing,
               callback'[u].port = q
        PROVE  /\ OwesConnection(u, q)' \/ OwesSignal(u, q)'
               /\ callback'[u].client = listener'[q]
    <3>1. CASE u = t
      BY <2>4, <2>5, <3>1
    <3>2. CASE u # t
      BY <2>2, <2>3, <2>5, <3>2
    <3> QED
      BY <3>1, <3>2
  <2> QED
    BY <2>5
<1>4. CASE Environment
  BY <1>4, <1>a, EnvironmentFrame DEF notices
<1> QED
  BY <1>1, <1>2, <1>3, <1>4, InjectsFrame DEF SignalNext, UtConnection,
     UtSignal, UtVideoMode, UtClearVideoMode, UtCallback, signalVars, notices

(* The next report is taken once the last is delivered, so that nothing    *)
(* overtakes it.                                                           *)
LEMMA ReportLatestStep ==
    ASSUME SignalTypeOK, ReportLatest, [SignalNext]_signalVars
    PROVE  ReportLatest'
<1> USE DEF SignalTypeOK, ReportLatest, Owe, Notice
<1>1. ASSUME NEW p \in Ports, NEW b \in BOOLEAN, UtConnection(p, b)
      PROVE  ReportLatest'
  BY <1>1 DEF UtConnection
<1>2. ASSUME NEW p \in Ports, NEW s \in Statuses, UtSignal(p, s)
      PROVE  ReportLatest'
  BY <1>2 DEF UtSignal
<1>3. ASSUME NEW p \in Ports, UtVideoMode(p) \/ UtClearVideoMode(p)
      PROVE  ReportLatest'
  BY <1>3 DEF UtVideoMode, UtClearVideoMode, notices
<1>4. CASE UtCallback
  BY <1>4 DEF UtCallback
<1>5. CASE UNCHANGED <<connected, signalStatus, report>>
  BY <1>5
<1>6. ASSUME NEW p \in Ports, Injects(p)
      PROVE  ReportLatest'
  BY <1>5, <1>6, InjectsFrame DEF notices
<1> QED
  BY <1>1, <1>2, <1>3, <1>4, <1>5, <1>6 DEF SignalNext, PortCallback, PortStep,
     Environment, signalVars, input, notices

(* A thread owes a callback about the port its notice names.               *)
LEMMA OwedPort ==
    ASSUME SignalTypeOK, CallbacksOwed, NEW t \in Threads,
           callback[t].kind \in Kinds
    PROVE  /\ callback[t] # Nothing
           /\ callback[t].port \in Ports
           /\ callback[t].port = port[t]
           /\ callback[t].client = listener[port[t]]
<1>1. callback[t] # Nothing
  BY DEF Nothing, Kinds
<1> QED
  BY <1>1, NoticeFacts
     DEF SignalTypeOK, CallbacksOwed, OwesConnection, OwesSignal

(* A section that does not open the port keeps, for the client of a port   *)
(* that has one, the connection callbacks under way; one that does not     *)
(* take the snapshot of start() keeps the signal callbacks.                *)
LEMMA OwedKept ==
    ASSUME IInv, IInv', SignalTypeOK, CallbacksOwed,
           NEW t \in Threads, NEW q \in Ports, PortStep(t, q),
           NEW p \in Ports, Attended(p)', ~SnapshotConnection(t, p)
    PROVE  /\ Attended(p) /\ listener'[p] = listener[p]
           /\ \A u \in Threads :
                 /\ OwesConnection(u, p)' <=> OwesConnection(u, p)
                 /\ OwesConnection(u, p) => callback'[u] = callback[u]
                 /\ ~SnapshotSignal(t, p) =>
                       /\ OwesSignal(u, p)' <=> OwesSignal(u, p)
                       /\ OwesSignal(u, p) => callback'[u] = callback[u]
<1>a. TypeOK /\ OneDriver /\ callback \in [Threads -> Notices \union {Nothing}]
  BY DEF IInv, SignalTypeOK
<1>b. ThreadStep(t, q)
  BY DEF PortStep, SnapshotConnection, SnapshotSignal, DropCallback,
     PlainStep, ThreadStep, OpenStep, StartStep
<1>1. listener'[p] = listener[p]
  <2>1. ~(q = p /\ At(t, q, "open_begin") /\ state[q] = "CLOSED")
    BY DEF PortStep, SnapshotConnection, SnapshotSignal, DropCallback,
       PlainStep, StartSignal, OpenUndo, OpenBegin, At
  <2> QED
    BY <1>a, <1>b, <2>1, SectionFrame DEF Attended
<1>2. Attended(p)
  BY <1>a, <1>b, <1>1, SectionFrame DEF Attended
<1>3. ASSUME NEW u \in Threads \ {t}
      PROVE  /\ OwesConnection(u, p)' <=> OwesConnection(u, p)
             /\ OwesSignal(u, p)' <=> OwesSignal(u, p)
             /\ callback'[u] = callback[u]
  <2>1. callback'[u] = callback[u]
    BY <1>a DEF PortStep, SnapshotConnection, SnapshotSignal,
       DropCallback, PlainStep
  <2> QED
    BY <1>a, <1>b, <2>1, SectionFrame DEF OwesConnection, OwesSignal
<1>4. CASE SnapshotConnection(t, q)
  <2>0. q # p
    BY <1>4
  <2>1. q # p /\ callback[t] = Nothing
    <3>1. pc[t] = "open_begin"
      BY <1>4 DEF SnapshotConnection, OpenBegin, At
    <3>2. callback[t] # Nothing => callback[t].port \in Ports
      BY <1>a, NoticeFacts
    <3> QED
      BY <2>0, <3>1, <3>2 DEF CallbacksOwed, OwesConnection, OwesSignal
  <2>2. port'[t] = q
    BY <1>4, <1>a DEF SnapshotConnection, OpenBegin, Enter, TypeOK
  <2>3. /\ ~OwesConnection(t, p) /\ ~OwesSignal(t, p)
        /\ ~OwesConnection(t, p)' /\ ~OwesSignal(t, p)'
    BY <2>1, <2>2 DEF OwesConnection, OwesSignal, Nothing
  <2> QED
    BY <1>1, <1>2, <1>3, <2>3
<1>5. CASE SnapshotSignal(t, q)
  <2>1. ~OwesConnection(t, p) /\ ~OwesSignal(t, p)
    BY <1>5 DEF SnapshotSignal, StartSignal, At, OwesConnection, OwesSignal
  <2>2. ~OwesConnection(t, p)' /\ (OwesSignal(t, p)' => q = p)
    BY <1>5, <1>a DEF SnapshotSignal, StartSignal, At, Goto, OwesConnection,
       OwesSignal, Notice
  <2> QED
    BY <1>1, <1>2, <1>3, <1>5, <2>1, <2>2
<1>6. CASE DropCallback(t, q)
  <2>1. q # p /\ port[t] = q
    BY <1>6, <1>a, <1>1, <1>2 DEF DropCallback, OpenUndo, RetireSession, At,
       Attended, TypeOK
  <2>2. /\ ~OwesConnection(t, p) /\ ~OwesSignal(t, p)
        /\ ~OwesConnection(t, p)' /\ ~OwesSignal(t, p)'
    BY <1>6, <1>a, <2>1 DEF DropCallback, OwesConnection, OwesSignal, Nothing
  <2> QED
    BY <1>1, <1>2, <1>3, <2>2
<1>7. CASE PlainStep(t, q)
  <2>1. callback'[t] = callback[t]
    BY <1>7 DEF PlainStep
  <2>2. CASE callback[t] = Nothing
    <3>1. /\ ~OwesConnection(t, p) /\ ~OwesSignal(t, p)
          /\ ~OwesConnection(t, p)' /\ ~OwesSignal(t, p)'
      BY <2>1, <2>2 DEF OwesConnection, OwesSignal, Nothing
    <3> QED
      BY <1>1, <1>2, <1>3, <3>1
  <2>3. CASE pc[t] = "open_link"
    <3>1. /\ pc'[t] \in {"open_ready", "open_undo"}
          /\ port'[t] = q /\ port[t] = q
      BY <1>a, <1>b, <2>3, SectionFrame
    <3>2. /\ OwesConnection(t, p)' <=> OwesConnection(t, p)
          /\ ~OwesSignal(t, p) /\ ~OwesSignal(t, p)'
      BY <2>1, <2>3, <3>1 DEF OwesConnection, OwesSignal
    <3> QED
      BY <1>1, <1>2, <1>3, <2>1, <3>2
  <2> QED
    BY <1>7, <2>2, <2>3 DEF PlainStep
<1> QED
  BY <1>4, <1>5, <1>6, <1>7 DEF PortStep

(* Only one thread owes a callback about a port.                           *)
LEMMA OneOwes ==
    ASSUME IInv, NEW p \in Ports, NEW t \in Threads, NEW u \in Threads,
           OwesConnection(t, p) \/ OwesSignal(t, p),
           OwesConnection(u, p) \/ OwesSignal(u, p)
    PROVE  t = u
BY LabelFacts DEF IInv, OneDriver, Driver, OwesConnection, OwesSignal

(* Every step keeps the way the present connection reaches the client: a   *)
(* report under way, a callback owed, or the client knows it.              *)
LEMMA ConnectionHeardStep ==
    ASSUME IInv, IInv', SignalTypeOK, CallbacksOwed, ReportLatest,
           ConnectionHeard, [SignalNext]_signalVars
    PROVE  ConnectionHeard'
<1> SUFFICES ASSUME NEW p \in Ports, Attended(p)'
             PROVE  \/ "connection" \in overtaken'[p]
                    \/ ReportUnderWay(p, {"connection"})'
                    \/ \E t \in Threads :
                          /\ OwesConnection(t, p)'
                          /\ callback'[t].value = Text(connected'[p])
                    \/ /\ told'[p].connection = Text(connected'[p])
                       /\ \A t \in Threads : ~OwesConnection(t, p)'
  BY DEF ConnectionHeard
<1> DEFINE Goal == \/ "connection" \in overtaken'[p]
                   \/ ReportUnderWay(p, {"connection"})'
                   \/ \E t \in Threads :
                         /\ OwesConnection(t, p)'
                         /\ callback'[t].value = Text(connected'[p])
                   \/ /\ told'[p].connection = Text(connected'[p])
                      /\ \A t \in Threads : ~OwesConnection(t, p)'
<1>a. /\ TypeOK /\ OneDriver
      /\ callback \in [Threads -> Notices \union {Nothing}]
      /\ connected \in [Ports -> BOOLEAN]
      /\ told \in [Ports -> Memory]
      /\ overtaken \in [Ports -> SUBSET Kinds]
  BY DEF IInv, SignalTypeOK
<1>b. Attended(p) =>
         \/ "connection" \in overtaken[p]
         \/ ReportUnderWay(p, {"connection"})
         \/ \E t \in Threads :
               OwesConnection(t, p) /\ callback[t].value = Text(connected[p])
         \/ /\ told[p].connection = Text(connected[p])
            /\ \A t \in Threads : ~OwesConnection(t, p)
  BY DEF ConnectionHeard
<1>1. ASSUME UNCHANGED <<listener, alive, pc, port, callback, told, overtaken>>,
             connected'[p] = connected[p],
             report' = report \/ report = Nothing
      PROVE  Goal
  BY <1>1, <1>b DEF Attended, OwesConnection, ReportUnderWay, Nothing
<1>2. ASSUME NEW q \in Ports, NEW b \in BOOLEAN, UtConnection(q, b)
      PROVE  Goal
  <2>1. /\ UNCHANGED <<listener, alive, pc, port, callback, told, overtaken>>
        /\ report = Nothing
    BY <1>2 DEF UtConnection, lifecycle, vars, session, threads, world
  <2>2. CASE connected'[p] = connected[p]
    BY <1>1, <2>1, <2>2
  <2>3. CASE q = p /\ connected[p] # b
    BY <1>2, <2>1, <2>3 DEF UtConnection, Owe, Notice, ReportUnderWay, Attended
  <2> QED
    BY <1>2, <1>a, <2>2, <2>3 DEF UtConnection
<1>3. ASSUME NEW q \in Ports,
             \/ \E s \in Statuses : UtSignal(q, s)
             \/ UtVideoMode(q) \/ UtClearVideoMode(q) \/ Injects(q)
      PROVE  Goal
  BY <1>1, <1>3, InjectsFrame DEF UtSignal, UtVideoMode, UtClearVideoMode,
     lifecycle, vars, session, threads, world, notices
<1>4. CASE UtCallback
  <2>1. /\ UNCHANGED <<listener, alive, pc, port, callback, connected>>
        /\ report # Nothing /\ Attended(p)
    BY <1>4 DEF UtCallback, lifecycle, vars, session, threads, world, input,
       Attended
  <2>2. report \in Notices
    BY <2>1 DEF SignalTypeOK
  <2>3. CASE report.port = p /\ report.kind = "connection"
    <3>1. CASE \E t \in Threads : OwesConnection(t, p)
      <4>1. overtaken'[p] = overtaken[p] \union {"connection"}
        BY <1>4, <1>a, <2>3, <3>1 DEF UtCallback, KindTold, OwesConnection
      <4> QED
        BY <4>1
    <3>2. CASE /\ report.client = listener[p]
               /\ \A t \in Threads : ~OwesConnection(t, p)
      <4>1. told'[p].connection = report.value
        BY <1>4, <1>a, <2>1, <2>3, <3>2
           DEF UtCallback, Tell, KindTold, Attended, Memory
      <4> QED
        BY <4>1, <2>1, <2>3, <3>2 DEF ReportLatest, OwesConnection
    <3>3. CASE /\ report.client # listener[p]
               /\ \A t \in Threads : ~OwesConnection(t, p)
      <4>1. told' = told /\ (overtaken'[p] = overtaken[p]
                             \/ "connection" \in overtaken'[p])
        BY <1>4, <1>a, <2>3, <3>3 DEF UtCallback, Tell, KindTold
      <4> QED
        BY <4>1, <2>1, <1>b, <3>3 DEF ReportUnderWay, OwesConnection
    <3> QED
      BY <3>1, <3>2, <3>3
  <2>4. CASE report.port # p \/ report.kind # "connection"
    <3>1. told'[p].connection = told[p].connection
      <4>1. CASE report.port # p
        BY <1>4, <1>a, <2>2, <4>1 DEF UtCallback, Tell
      <4>2. CASE KindTold(report) = "signal"
        BY <1>4, <1>a, <2>2, <4>2 DEF UtCallback, Tell, Memory
      <4> QED
        BY <2>2, <2>4, <4>1, <4>2, NoticeFacts DEF KindTold
    <3>2. overtaken[p] \subseteq overtaken'[p]
      BY <1>4, <1>a DEF UtCallback
    <3> QED
      BY <3>1, <3>2, <2>1, <1>b, <2>4 DEF ReportUnderWay, OwesConnection
  <2> QED
    BY <2>3, <2>4
<1>5. ASSUME NEW t \in Threads, PortCallback(t)
      PROVE  Goal
  <2>1. /\ UNCHANGED <<listener, alive, pc, port, connected, overtaken, report>>
        /\ callback[t] # Nothing /\ Attended(p)
        /\ callback' = [callback EXCEPT ![t] = Nothing]
    BY <1>5 DEF PortCallback, lifecycle, vars, session, threads, world, input,
       Attended
  <2>2. /\ callback[t] \in Notices /\ callback[t].kind \in Kinds
        /\ callback[t].port = port[t] /\ callback[t].client = listener[port[t]]
    BY <2>1, CallbackTyped, OwedPort
  <2>3. \A u \in Threads : OwesConnection(u, p)' <=>
                              OwesConnection(u, p) /\ u # t
    BY <2>1, <1>a DEF OwesConnection, Nothing
  <2>4. CASE OwesConnection(t, p)
    <3>1. told'[p].connection = callback[t].value
      BY <1>5, <1>a, <2>1, <2>2, <2>4 DEF PortCallback, Tell, Attended,
         OwesConnection, Memory
    <3>2. \A u \in Threads : OwesConnection(u, p) => u = t
      BY <2>4, OneOwes
    <3> QED
      BY <3>1, <3>2, <2>1, <2>3, <2>4, <1>b DEF ReportUnderWay
  <2>5. CASE ~OwesConnection(t, p)
    <3>1. told'[p].connection = told[p].connection
      <4>1. CASE port[t] # p
        BY <1>5, <1>a, <2>2, <4>1 DEF PortCallback, Tell
      <4>2. CASE callback[t].kind = "signal"
        BY <1>5, <1>a, <2>2, <4>2 DEF PortCallback, Tell, Memory
      <4>3. callback[t].kind = "connection" => OwesConnection(t, port[t])
        BY <2>1, <2>2, NoticeFacts
           DEF CallbacksOwed, OwesConnection, OwesSignal
      <4> QED
        BY <2>2, <2>5, <4>1, <4>2, <4>3 DEF Kinds
    <3> QED
      BY <3>1, <2>1, <2>3, <2>5, <1>a, <1>b DEF ReportUnderWay
  <2> QED
    BY <2>4, <2>5
<1>6. ASSUME NEW t \in Threads, NEW q \in Ports, PortStep(t, q)
      PROVE  Goal
  <2>1. CASE SnapshotConnection(t, p)
    <3>1. /\ OwesConnection(t, p)' /\ connected' = connected
          /\ callback'[t].value = Text(connected[p])
      BY <1>6, <1>a, <2>1 DEF PortStep, input, SnapshotConnection, OpenBegin,
         Enter, Notice, OwesConnection, TypeOK
    <3> QED
      BY <3>1
  <2>2. CASE ~SnapshotConnection(t, p)
    <3>1. /\ Attended(p) /\ listener'[p] = listener[p]
          /\ \A u \in Threads :
                /\ OwesConnection(u, p)' <=> OwesConnection(u, p)
                /\ OwesConnection(u, p) => callback'[u] = callback[u]
      BY <1>6, <2>2, OwedKept
    <3>2. /\ connected' = connected /\ report' = report
          /\ told'[p] = told[p]
          /\ "connection" \in overtaken[p] => "connection" \in overtaken'[p]
      BY <1>6, <1>a, <2>2 DEF PortStep, input, SnapshotConnection,
         SnapshotSignal, DropCallback, PlainStep
    <3> QED
      BY <1>b, <3>1, <3>2 DEF ReportUnderWay
  <2> QED
    BY <2>1, <2>2
<1>7. CASE Environment
  <2>1. /\ UNCHANGED <<state, listener, input, notices>>
        /\ Attended(p)
        /\ \A u \in Threads : \/ pc'[u] = pc[u] /\ port'[u] = port[u]
                              \/ /\ pc[u] = "idle"
                                 /\ pc'[u] \notin {"open_link", "open_undo",
                                                   "open_ready"}
    BY <1>7, <1>a, EnvironmentFrame DEF Attended, ControllerCalls, TypeOK
  <2>2. \A u \in Threads : OwesConnection(u, p)' <=> OwesConnection(u, p)
    BY <2>1 DEF OwesConnection, notices
  <2> QED
    BY <1>b, <2>1, <2>2 DEF ReportUnderWay, input, notices
<1>8. CASE UNCHANGED signalVars
  BY <1>1, <1>8 DEF signalVars, lifecycle, vars, session, threads, world,
     input, notices
<1> QED
  BY <1>2, <1>3, <1>4, <1>5, <1>6, <1>7, <1>8 DEF SignalNext

(* From the snapshot of start() on, the same for the signal.               *)
LEMMA SignalHeardStep ==
    ASSUME IInv, IInv', SignalTypeOK, CallbacksOwed, ReportLatest,
           SignalHeard, [SignalNext]_signalVars
    PROVE  SignalHeard'
<1> SUFFICES ASSUME NEW p \in Ports, Attended(p)', Announced(p)'
             PROVE  \/ "signal" \in overtaken'[p]
                    \/ ReportUnderWay(p, {"signal", "mode"})'
                    \/ \E t \in Threads :
                          /\ OwesSignal(t, p)'
                          /\ callback'[t].value = signalStatus'[p]
                    \/ /\ told'[p].signal = signalStatus'[p]
                       /\ \A t \in Threads : ~OwesSignal(t, p)'
  BY DEF SignalHeard
<1> DEFINE Goal == \/ "signal" \in overtaken'[p]
                   \/ ReportUnderWay(p, {"signal", "mode"})'
                   \/ \E t \in Threads :
                         /\ OwesSignal(t, p)'
                         /\ callback'[t].value = signalStatus'[p]
                   \/ /\ told'[p].signal = signalStatus'[p]
                      /\ \A t \in Threads : ~OwesSignal(t, p)'
<1>a. /\ TypeOK /\ OneDriver
      /\ callback \in [Threads -> Notices \union {Nothing}]
      /\ signalStatus \in [Ports -> SignalStatuses]
      /\ told \in [Ports -> Memory]
      /\ overtaken \in [Ports -> SUBSET Kinds]
  BY DEF IInv, SignalTypeOK
<1>b. Attended(p) /\ Announced(p) =>
         \/ "signal" \in overtaken[p]
         \/ ReportUnderWay(p, {"signal", "mode"})
         \/ \E t \in Threads :
               OwesSignal(t, p) /\ callback[t].value = signalStatus[p]
         \/ /\ told[p].signal = signalStatus[p]
            /\ \A t \in Threads : ~OwesSignal(t, p)
  BY DEF SignalHeard
<1>1. ASSUME UNCHANGED <<state, listener, alive, pc, port, callback, told,
                         overtaken>>,
             signalStatus'[p] = signalStatus[p],
             report' = report \/ report = Nothing
      PROVE  Goal
  BY <1>1, <1>b DEF Attended, Announced, At, OwesSignal, ReportUnderWay, Nothing
<1>2. ASSUME NEW q \in Ports,
             \/ \E b \in BOOLEAN : UtConnection(q, b)
             \/ UtClearVideoMode(q) \/ Injects(q)
      PROVE  Goal
  BY <1>1, <1>2, InjectsFrame DEF UtConnection, UtClearVideoMode, lifecycle,
     vars, session, threads, world, notices
<1>3. ASSUME NEW q \in Ports, NEW s \in SignalStatuses, NEW k \in {"signal", "mode"},
             report = Nothing, Owe(k, q, s),
             signalStatus' = [signalStatus EXCEPT ![q] = s],
             UNCHANGED <<lifecycle, callback, told, overtaken>>
      PROVE  Goal
  <2>1. UNCHANGED <<state, listener, alive, pc, port, callback, told, overtaken>>
    BY <1>3 DEF lifecycle, vars, session, threads, world
  <2>2. CASE q # p
    BY <1>1, <1>3, <1>a, <2>1, <2>2
  <2>3. CASE q = p
    BY <1>3, <2>1, <2>3 DEF Owe, Notice, ReportUnderWay, Attended
  <2> QED
    BY <2>2, <2>3
<1>4. CASE UtCallback
  <2>1. /\ UNCHANGED <<state, listener, alive, pc, port, callback, signalStatus>>
        /\ report # Nothing /\ Attended(p) /\ Announced(p)
    BY <1>4 DEF UtCallback, lifecycle, vars, session, threads, world, input,
       Attended, Announced, At
  <2>2. report \in Notices
    BY <2>1 DEF SignalTypeOK
  <2>3. CASE report.port = p /\ KindTold(report) = "signal"
    <3>0. report.value = signalStatus[p] /\ report.kind \in {"signal", "mode"}
      BY <2>1, <2>2, <2>3, NoticeFacts DEF ReportLatest, KindTold
    <3>1. CASE \E t \in Threads : OwesSignal(t, p)
      <4>1. overtaken'[p] = overtaken[p] \union {"signal"}
        BY <1>4, <1>a, <2>3, <3>1 DEF UtCallback, OwesSignal
      <4> QED
        BY <4>1
    <3>2. CASE /\ report.client = listener[p]
               /\ \A t \in Threads : ~OwesSignal(t, p)
      <4>1. told'[p].signal = report.value
        BY <1>4, <1>a, <2>1, <2>3, <3>2
           DEF UtCallback, Tell, Attended, Memory
      <4> QED
        BY <4>1, <2>1, <3>0, <3>2 DEF OwesSignal
    <3>3. CASE /\ report.client # listener[p]
               /\ \A t \in Threads : ~OwesSignal(t, p)
      <4>1. told' = told /\ (overtaken'[p] = overtaken[p]
                             \/ "signal" \in overtaken'[p])
        BY <1>4, <1>a, <2>3, <3>3 DEF UtCallback, Tell
      <4> QED
        BY <4>1, <2>1, <1>b, <3>3 DEF ReportUnderWay, OwesSignal
    <3> QED
      BY <3>1, <3>2, <3>3
  <2>4. CASE report.port # p \/ KindTold(report) # "signal"
    <3>0. /\ report.port # p \/ report.kind = "connection"
          /\ KindTold(report) \in Kinds
      BY <2>2, <2>4, NoticeFacts DEF KindTold, Kinds
    <3>1. told'[p].signal = told[p].signal
      <4>1. CASE report.port # p
        BY <1>4, <1>a, <2>2, <4>1 DEF UtCallback, Tell
      <4>2. CASE KindTold(report) = "connection"
        BY <1>4, <1>a, <2>2, <4>2 DEF UtCallback, Tell, Memory
      <4> QED
        BY <2>4, <3>0, <4>1, <4>2 DEF Kinds
    <3>2. overtaken[p] \subseteq overtaken'[p]
      BY <1>4, <1>a DEF UtCallback
    <3> QED
      BY <3>0, <3>1, <3>2, <2>1, <1>b DEF ReportUnderWay, OwesSignal
  <2> QED
    BY <2>3, <2>4
<1>5. ASSUME NEW t \in Threads, PortCallback(t)
      PROVE  Goal
  <2>1. /\ UNCHANGED <<state, listener, alive, pc, port, signalStatus,
                       overtaken, report>>
        /\ callback[t] # Nothing /\ Attended(p) /\ Announced(p)
        /\ callback' = [callback EXCEPT ![t] = Nothing]
    BY <1>5 DEF PortCallback, lifecycle, vars, session, threads, world, input,
       Attended, Announced, At
  <2>2. /\ callback[t] \in Notices /\ callback[t].kind \in Kinds
        /\ callback[t].port = port[t] /\ callback[t].client = listener[port[t]]
    BY <2>1, CallbackTyped, OwedPort
  <2>3. \A u \in Threads : OwesSignal(u, p)' <=> OwesSignal(u, p) /\ u # t
    BY <2>1, <1>a DEF OwesSignal, Nothing
  <2>4. CASE OwesSignal(t, p)
    <3>1. told'[p].signal = callback[t].value
      BY <1>5, <1>a, <2>1, <2>2, <2>4 DEF PortCallback, Tell, Attended,
         OwesSignal, Memory
    <3>2. \A u \in Threads : OwesSignal(u, p) => u = t
      BY <2>4, OneOwes
    <3> QED
      BY <3>1, <3>2, <2>1, <2>3, <2>4, <1>b DEF ReportUnderWay
  <2>5. CASE ~OwesSignal(t, p)
    <3>1. told'[p].signal = told[p].signal
      <4>1. CASE port[t] # p
        BY <1>5, <1>a, <2>2, <4>1 DEF PortCallback, Tell
      <4>2. CASE callback[t].kind = "connection"
        BY <1>5, <1>a, <2>2, <4>2 DEF PortCallback, Tell, Memory
      <4>3. callback[t].kind = "signal" => OwesSignal(t, port[t])
        BY <2>1, <2>2, NoticeFacts
           DEF CallbacksOwed, OwesConnection, OwesSignal
      <4> QED
        BY <2>2, <2>5, <4>1, <4>2, <4>3 DEF Kinds
    <3> QED
      BY <3>1, <2>1, <2>3, <2>5, <1>a, <1>b DEF ReportUnderWay
  <2> QED
    BY <2>4, <2>5
<1>6. ASSUME NEW t \in Threads, NEW q \in Ports, PortStep(t, q)
      PROVE  Goal
  <2>b. ThreadStep(t, q)
    BY <1>6 DEF PortStep, SnapshotConnection, SnapshotSignal, DropCallback,
       PlainStep, ThreadStep, OpenStep, StartStep
  <2>1. CASE SnapshotSignal(t, p)
    <3>1. /\ OwesSignal(t, p)' /\ signalStatus' = signalStatus
          /\ callback'[t].value = signalStatus[p]
      BY <1>6, <1>a, <2>1 DEF PortStep, input, SnapshotSignal, StartSignal,
         Goto, At, Notice, OwesSignal, TypeOK
    <3> QED
      BY <3>1
  <2>2. ~SnapshotConnection(t, p)
    <3>1. ASSUME SnapshotConnection(t, p) PROVE state'[p] = "OPENING"
      BY <3>1, <1>a DEF SnapshotConnection, OpenBegin, SetState, TypeOK
    <3>2. state'[p] = "STARTED" \/ state'[p] = "STARTING"
      BY LabelFacts DEF Announced, At, IInv, OneDriver, Driver
    <3> QED
      BY <3>1, <3>2
  <2>3. CASE ~SnapshotSignal(t, p)
    <3>1. /\ Attended(p) /\ listener'[p] = listener[p]
          /\ \A u \in Threads :
                /\ OwesSignal(u, p)' <=> OwesSignal(u, p)
                /\ OwesSignal(u, p) => callback'[u] = callback[u]
      BY <1>6, <2>2, <2>3, OwedKept
    <3>2. /\ signalStatus' = signalStatus /\ report' = report
          /\ told'[p] = told[p]
          /\ "signal" \in overtaken[p] => "signal" \in overtaken'[p]
      BY <1>6, <1>a, <2>2, <2>3 DEF PortStep, input, SnapshotConnection,
         SnapshotSignal, DropCallback, PlainStep
    <3>3. Announced(p)
      <4>1. CASE state'[p] = "STARTED"
        BY <4>1, <1>a, <2>b, SectionFrame DEF Announced, At
      <4>2. ASSUME NEW u \in Threads, At(u, p, "start_end")'
            PROVE  At(u, p, "start_end")
        <5>1. CASE u # t
          BY <4>2, <5>1, <1>a, <2>b, SectionFrame DEF At
        <5>2. CASE u = t
          <6>1. pc[t] = "start_signal" /\ port[t] = q
            BY <4>2, <5>2, <1>a, <2>b, SectionFrame DEF At
          <6>2. SnapshotSignal(t, q)
            BY <1>6, <6>1 DEF PortStep, SnapshotConnection, OpenBegin,
               DropCallback, OpenUndo, PlainStep, At
          <6>3. port'[t] = q
            BY <6>1, <6>2 DEF SnapshotSignal, StartSignal, Goto
          <6> QED
            BY <2>3, <4>2, <5>2, <6>2, <6>3 DEF At
        <5> QED
          BY <5>1, <5>2
      <4> QED
        BY <4>1, <4>2 DEF Announced
    <3> QED
      BY <1>b, <3>1, <3>2, <3>3 DEF ReportUnderWay
  <2> QED
    BY <2>1, <2>3
<1>7. CASE Environment
  <2>1. /\ UNCHANGED <<state, listener, input, notices>>
        /\ Attended(p)
        /\ \A u \in Threads : \/ pc'[u] = pc[u] /\ port'[u] = port[u]
                              \/ pc[u] = "idle" /\ pc'[u] # "start_end"
    BY <1>7, <1>a, EnvironmentFrame DEF Attended, ControllerCalls, TypeOK
  <2>2. \A u \in Threads : OwesSignal(u, p)' <=> OwesSignal(u, p)
    BY <2>1 DEF OwesSignal, notices
  <2>3. Announced(p)
    BY <2>1 DEF Announced, At
  <2> QED
    BY <1>b, <2>1, <2>2, <2>3 DEF ReportUnderWay, input, notices
<1>8. CASE UNCHANGED signalVars
  BY <1>1, <1>8 DEF signalVars, lifecycle, vars, session, threads, world,
     input, notices
<1>9. ASSUME NEW q \in Ports, \/ \E s \in Statuses : UtSignal(q, s)
                              \/ UtVideoMode(q)
      PROVE  Goal
  BY <1>3, <1>9, StatusesAssumption DEF UtSignal, UtVideoMode, SignalStatuses
<1> QED
  BY <1>2, <1>4, <1>5, <1>6, <1>7, <1>8, <1>9 DEF SignalNext

----------------------------------------------------------------------------
(* The theorems.                                                           *)

(* Nothing plugged in, nobody attended, nothing under way.                 *)
LEMMA SignalIInvInit == SignalInit => SignalIInv
<1> SUFFICES ASSUME SignalInit PROVE SignalIInv
  OBVIOUS
<1>1. IInv /\ SignalTypeOK
  BY IInvInit, SignalTypeInit DEF SignalInit
<1>2. \A p \in Ports : ~Attended(p) /\ ~detected[p]
  BY DEF SignalInit, Init, Attended
<1>3. ModeNeedsStableSignal /\ ConnectionHeard /\ SignalHeard
  BY <1>2 DEF ModeNeedsStableSignal, GetStatus, ConnectionHeard, SignalHeard
<1>4. CallbacksOwed /\ ReportLatest
  BY DEF SignalInit, CallbacksOwed, ReportLatest
<1> QED
  BY <1>1, <1>3, <1>4 DEF SignalIInv

(* The parts of the invariant are inductive together.                      *)
LEMMA SignalIInvStep == SignalIInv /\ [SignalNext]_signalVars => SignalIInv'
<1> SUFFICES ASSUME SignalIInv, [SignalNext]_signalVars PROVE SignalIInv'
  OBVIOUS
<1>1. IInv'
  BY LifecycleStep, IInvStep DEF SignalIInv
<1>2. TypeOK'
  BY <1>1 DEF IInv
<1> QED
  BY <1>1, <1>2, SignalTypeStep, ModeStep, CallbacksOwedStep,
     ReportLatestStep, ConnectionHeardStep, SignalHeardStep DEF SignalIInv

(* The inductive invariant holds in every state that threads, reports and  *)
(* callbacks reach, the invariant of the lifecycle underneath included.    *)
THEOREM SignalInvariant == SignalSpec => []SignalIInv
BY SignalIInvInit, SignalIInvStep, PTL DEF SignalSpec

(* Reports, telemetry, callbacks and what was told keep their types.       *)
THEOREM SignalTypeCorrect == SignalSpec => []SignalTypeOK
BY SignalInvariant, PTL DEF SignalIInv

(* A detected mode stands only beside a stable signal, in the cache and in *)
(* what getStatus() answers.                                               *)
THEOREM ModeOnStableSignal == SignalSpec => []ModeNeedsStableSignal
BY SignalInvariant, PTL DEF SignalIInv

(* Once a session is open and no callback is under way its client knows    *)
(* the present connection, unless a report overtook the callback of        *)
(* open(): whatever other threads opened, closed, died or reported.        *)
THEOREM ConnectionReaches == SignalSpec => []ConnectionKnown
<1>1. SignalIInv => ConnectionKnown
  <2> SUFFICES ASSUME SignalIInv, NEW p \in Ports, Attended(p), Quiet(p),
                      "connection" \notin overtaken[p]
               PROVE  told[p].connection = Text(connected[p])
    BY DEF ConnectionKnown
  <2>1. ~ReportUnderWay(p, {"connection"})
    BY DEF Quiet, ReportUnderWay, Nothing
  <2>2. \A t \in Threads : ~OwesConnection(t, p)
    BY DEF Quiet, OwesConnection, Nothing
  <2> QED
    BY <2>1, <2>2 DEF SignalIInv, ConnectionHeard
<1> QED
  BY <1>1, SignalInvariant, PTL

(* While its port is started a client that is not awaiting a callback      *)
(* reads from getStatus() what it was told last of the signal, unless a    *)
(* report overtook the callback of start().                                *)
THEOREM SignalReaches == SignalSpec => []SignalKnown
<1>1. SignalIInv => SignalKnown
  <2> SUFFICES ASSUME SignalIInv, NEW p \in Ports, Attended(p), Quiet(p),
                      GetStatus(p).active, "signal" \notin overtaken[p]
               PROVE  told[p].signal = GetStatus(p).signalStatus
    BY DEF SignalKnown
  <2>1. state[p] = "STARTED" /\ GetStatus(p).signalStatus = signalStatus[p]
    BY DEF GetStatus, Live
  <2>2. ~ReportUnderWay(p, {"signal", "mode"})
    BY DEF Quiet, ReportUnderWay, Nothing
  <2>3. \A t \in Threads : ~OwesSignal(t, p)
    BY DEF Quiet, OwesSignal, Nothing
  <2> QED
    BY <2>1, <2>2, <2>3 DEF SignalIInv, SignalHeard, Announced
<1> QED
  BY <1>1, SignalInvariant, PTL

(* Apart from what is set past the reports, the telemetry moves in         *)
(* STARTING and STARTED only, where it agrees with the signal after every  *)
(* step that moves one of the two, and keeps agreeing.                     *)
THEOREM TelemetryTracks == SignalSpec => TelemetryFollows
<1> DEFINE Still(p) == /\ telemetry'[p] = telemetry[p]
                       /\ signalStatus'[p] = signalStatus[p]
           Tracked(p) == \/ Injects(p)
                         \/ Still(p)
                         \/ ~Live(p) /\ telemetry'[p] = telemetry[p]
                         \/ Live(p) /\ telemetry'[p] = Derived(signalStatus'[p])
           Follows ==
       \A p \in Ports :
         LET agreed == telemetry[p] = Derived(signalStatus[p])
             moved  == \/ telemetry'[p] # telemetry[p]
                       \/ signalStatus'[p] # signalStatus[p]
         IN \/ Injects(p)
            \/ /\ telemetry'[p] # telemetry[p] => Live(p)
               /\ Live(p) /\ (agreed \/ moved)
                  => telemetry'[p] = Derived(signalStatus'[p])
<1>0. (\A p \in Ports : Tracked(p)) => Follows
  OBVIOUS
<1>1. SignalTypeOK /\ [SignalNext]_signalVars => [Follows]_signalVars
  <2> DEFINE Goal == \A p \in Ports : Tracked(p)
  <2> SUFFICES ASSUME SignalTypeOK, SignalNext PROVE Goal
    BY <1>0
  <2>a. /\ signalStatus \in [Ports -> SignalStatuses]
        /\ telemetry \in [Ports -> [Fields -> Int]]
    BY DEF SignalTypeOK
  <2>1. ASSUME NEW q \in Ports, NEW s \in SignalStatuses, Refresh(q, s),
               signalStatus' = [signalStatus EXCEPT ![q] = s]
        PROVE  Goal
    <3>1. telemetry' = IF Live(q) THEN [telemetry EXCEPT ![q] = Derived(s)]
                       ELSE telemetry
      BY <2>1 DEF Refresh
    <3>2. /\ signalStatus'[q] = s
          /\ \A p \in Ports : p # q => Still(p)
          /\ \/ ~Live(q) /\ telemetry'[q] = telemetry[q]
             \/ Live(q) /\ telemetry'[q] = Derived(s)
      BY <2>1, <2>a, <3>1
    <3> QED
      BY <3>2
  <2>2. CASE UNCHANGED <<signalStatus, telemetry>>
    BY <2>2
  <2>3. ASSUME NEW q \in Ports,
               \/ \E s \in Statuses : UtSignal(q, s)
               \/ UtVideoMode(q)
        PROVE  Goal
    BY <2>1, <2>3, StatusesAssumption
       DEF UtSignal, UtVideoMode, SignalStatuses
  <2>4. ASSUME NEW q \in Ports, Injects(q)
        PROVE  Goal
    <3>1. \A p \in Ports : p # q => Still(p)
      BY <2>a, <2>4, InjectsFrame
    <3> QED
      BY <2>4, <3>1
  <2> HIDE DEF Goal
  <2> QED
    BY <2>2, <2>3, <2>4 DEF SignalNext, UtConnection, UtClearVideoMode,
       UtCallback, PortCallback, PortStep, Environment, input
<1> QED
  BY <1>1, SignalTypeCorrect, PTL DEF SignalSpec, TelemetryFollows

----------------------------------------------------------------------------
(* The physical input.                                                     *)

(* At boot nothing is plugged in.                                          *)
LEMMA PhysicalInit == SignalInit => Physical!Init
BY DEF SignalInit, Physical!Init

(* Each report is one change of the physical input; sessions and callbacks *)
(* are none.                                                               *)
LEMMA PhysicalStep ==
    SignalTypeOK /\ [SignalNext]_signalVars
        => [Physical!Next]_(Physical!inputVars)
<1> SUFFICES ASSUME SignalTypeOK, [SignalNext]_signalVars
             PROVE  Physical!Next \/ UNCHANGED Physical!inputVars
  OBVIOUS
<1> DEFINE Goal == Physical!Next \/ UNCHANGED Physical!inputVars
<1>a. /\ connected \in [Ports -> BOOLEAN]
      /\ signalStatus \in [Ports -> SignalStatuses]
      /\ detected \in [Ports -> BOOLEAN]
  BY DEF SignalTypeOK
<1>1. ASSUME NEW p \in Ports, NEW b \in BOOLEAN, UtConnection(p, b)
      PROVE  Goal
  <2>1. Physical!Plug(p)
    BY <1>1, <1>a DEF UtConnection, Physical!Plug
  <2> QED
    BY <2>1 DEF Physical!Next
<1>2. ASSUME NEW p \in Ports, NEW s \in Statuses, UtSignal(p, s)
      PROVE  Goal
  <2>1. Physical!Signal(p)
    BY <1>2, <1>a, StatusesAssumption DEF UtSignal, Physical!Signal,
       Physical!SignalStatuses, SignalStatuses
  <2> QED
    BY <2>1 DEF Physical!Next
<1>3. ASSUME NEW p \in Ports, UtVideoMode(p)
      PROVE  Goal
  <2>1. Physical!Detect(p)
    BY <1>3, <1>a DEF UtVideoMode, Physical!Detect
  <2> QED
    BY <2>1 DEF Physical!Next
<1>4. ASSUME NEW p \in Ports, UtClearVideoMode(p)
      PROVE  Goal
  <2>1. Physical!Clear(p)
    BY <1>4, <1>a DEF UtClearVideoMode, Physical!Clear
  <2> QED
    BY <2>1 DEF Physical!Next
<1>5. CASE UNCHANGED <<connected, signalStatus, detected>>
  BY <1>5 DEF Physical!inputVars
<1> QED
  BY <1>1, <1>2, <1>3, <1>4, <1>5, InjectsFrame DEF SignalNext, UtCallback,
     PortCallback, PortStep, Environment, signalVars, input

(* Whatever the sessions do, the inputs change as a host may change them.  *)
THEOREM InputImplemented == SignalSpec => ImplementsInput
BY PhysicalInit, PhysicalStep, SignalTypeCorrect, PTL
   DEF SignalSpec, ImplementsInput, Physical!Spec

(* The ports and the threads do with a host that reports what they do      *)
(* without: what is proved of the lifecycle holds whatever it reports.     *)
THEOREM SignalKeepsLifecycle == SignalSpec => Spec
<1>1. SignalInit => Init
  BY DEF SignalInit
<1> QED
  BY <1>1, LifecycleStep, PTL DEF SignalSpec, Spec

(* Whatever the host reports, and whenever, a port walks the lifecycle of  *)
(* the contract.                                                           *)
THEOREM SignalImplementsContract == SignalSpec => ImplementsContract
BY SignalKeepsLifecycle, Implements, PTL
=============================================================================
