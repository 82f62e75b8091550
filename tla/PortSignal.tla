------------------------------ MODULE PortSignal ------------------------------
(***************************************************************************)
(* The physical input of each port as the UT control plane reports it, the *)
(* telemetry derived from it, and what the controller listener of the open *)
(* session is told.  One worker thread applies the reports; each report is *)
(* one critical section and then the callbacks for the listener it found.  *)
(* open() and start() tell the listener about the connection and the       *)
(* signal they saw, from their own threads, also outside the mutex.        *)
(***************************************************************************)
EXTENDS PortLifecycle, SignalLevels

CONSTANTS
    Reports,      \* the UT commands the host sends
    Statuses,     \* the signal statuses it reports
    Injected,     \* the numbers that are set as telemetry
    Writable      \* the telemetry that the profile lets a client set

ASSUME ReportsAssumption ==
    Reports \subseteq {"connection_status", "signal_status", "video_mode",
                       "clear_video_mode", "set_property"}

ASSUME StatusesAssumption == Statuses \subseteq SignalStatuses

Fields == {"strength", "quality"}

ASSUME InjectedAssumption == Injected \subseteq Int /\ Writable \subseteq Fields

VARIABLES
    connected,       \* m_cachedStatus.connected of each port
    signalStatus,    \* m_cachedStatus.signalStatus
    detected,        \* whether m_cachedStatus.detectedResolution has a value
    telemetry,       \* the cached SIGNAL_STRENGTH and SIGNAL_QUALITY
    callback,        \* the callback open() or start() still owes, per thread
    report,          \* the callback the UT worker still owes
    told,            \* what the listener of the session was told last
    overtaken        \* the callbacks a report slipped in front of

input   == <<connected, signalStatus, detected, telemetry>>
notices == <<callback, report, told, overtaken>>
lifecycle  == vars
signalVars == <<lifecycle, input, notices>>

Nothing == [kind |-> "none"]

Notice(k, p, c, v) == [kind |-> k, port |-> p, client |-> c, value |-> v]

Kinds == {"connection", "signal"}

Notices ==
    [kind : {"connection"}, port : Ports, client : Clients,
     value : {"TRUE", "FALSE"}]
    \union
    [kind : {"signal", "mode"}, port : Ports, client : Clients,
     value : SignalStatuses]

(* What the client of a session was told last.                             *)
Memory == [connection : {"TRUE", "FALSE", "untold"},
           signal : SignalStatuses \union {"untold"}]

Derived(s) == [f \in Fields |-> IF f = "strength" THEN SignalStrengthDbm(s)
                                                 ELSE SignalQuality(s)]

(* The reports refresh the telemetry only in these states.                 *)
Live(p) == state[p] \in {"STARTING", "STARTED"}

SignalTypeOK ==
    /\ TypeOK
    /\ connected \in [Ports -> BOOLEAN]
    /\ signalStatus \in [Ports -> SignalStatuses]
    /\ detected \in [Ports -> BOOLEAN]
    /\ telemetry \in [Ports -> [Fields -> Int]]
    /\ callback \in [Threads -> {n \in Notices : n.kind \in Kinds}
                                 \union {Nothing}]
    /\ report \in Notices \union {Nothing}
    /\ told \in [Ports -> Memory]
    /\ overtaken \in [Ports -> SUBSET Kinds]

(* resetHardwareBaselineForBoot: nothing plugged in, no signal.            *)
SignalInit ==
    /\ Init
    /\ connected = [p \in Ports |-> FALSE]
    /\ signalStatus = [p \in Ports |-> "NO_SIGNAL"]
    /\ detected = [p \in Ports |-> FALSE]
    /\ telemetry = [p \in Ports |-> Derived("NO_SIGNAL")]
    /\ callback = [t \in Threads |-> Nothing]
    /\ report = Nothing
    /\ told = [p \in Ports |-> [connection |-> "untold", signal |-> "untold"]]
    /\ overtaken = [p \in Ports |-> {}]

----------------------------------------------------------------------------
(* handleUTControlPlaneMessage, the critical section of each command.  The *)
(* worker takes the next message after it has made the callbacks.          *)

Text(b) == IF b THEN "TRUE" ELSE "FALSE"

(* Variant: whether there is a listener is not asked.                      *)
OweAnyone(k, p, v) == report' = Notice(k, p, listener[p], v)

Owe(k, p, v) ==
    report' = IF listener[p] = None THEN Nothing
              ELSE Notice(k, p, listener[p], v)

Refresh(p, s) ==
    telemetry' = IF Live(p) THEN [telemetry EXCEPT ![p] = Derived(s)]
                 ELSE telemetry

(* Variants: only a cable plugged in is reported; the mode outlives the    *)
(* cable.                                                                  *)
UtConnectionKeepsMode(p, b) ==
    /\ "connection_status" \in Reports
    /\ report = Nothing
    /\ connected' = [connected EXCEPT ![p] = b]
    /\ IF connected[p] # b THEN Owe("connection", p, Text(b))
                           ELSE UNCHANGED report
    /\ UNCHANGED <<lifecycle, signalStatus, detected, telemetry, callback,
                   told, overtaken>>

UtConnectionPlugged(p, b) ==
    /\ "connection_status" \in Reports
    /\ report = Nothing
    /\ connected' = [connected EXCEPT ![p] = b]
    /\ detected' = [detected EXCEPT ![p] = @ /\ b]
    /\ IF b THEN Owe("connection", p, Text(b)) ELSE UNCHANGED report
    /\ UNCHANGED <<lifecycle, signalStatus, telemetry, callback, told,
                   overtaken>>

UtConnection(p, b) ==
    /\ "connection_status" \in Reports
    /\ report = Nothing
    /\ connected' = [connected EXCEPT ![p] = b]
    /\ detected' = [detected EXCEPT ![p] = @ /\ b]
    /\ IF connected[p] # b THEN Owe("connection", p, Text(b))
                           ELSE UNCHANGED report
    /\ UNCHANGED <<lifecycle, signalStatus, telemetry, callback, told,
                   overtaken>>

(* Variants: the detected mode is kept; the report goes out only once the  *)
(* port is started.                                                        *)
UtSignalKeepsMode(p, s) ==
    /\ "signal_status" \in Reports
    /\ report = Nothing
    /\ signalStatus' = [signalStatus EXCEPT ![p] = s]
    /\ Refresh(p, s)
    /\ Owe("signal", p, s)
    /\ UNCHANGED <<lifecycle, connected, detected, callback, told, overtaken>>

UtSignalStarted(p, s) ==
    /\ "signal_status" \in Reports
    /\ report = Nothing
    /\ signalStatus' = [signalStatus EXCEPT ![p] = s]
    /\ detected' = [detected EXCEPT ![p] = @ /\ s = "STABLE"]
    /\ Refresh(p, s)
    /\ IF state[p] = "STARTED" THEN Owe("signal", p, s) ELSE UNCHANGED report
    /\ UNCHANGED <<lifecycle, connected, callback, told, overtaken>>

UtSignal(p, s) ==
    /\ "signal_status" \in Reports
    /\ report = Nothing
    /\ signalStatus' = [signalStatus EXCEPT ![p] = s]
    /\ detected' = [detected EXCEPT ![p] = @ /\ s = "STABLE"]
    /\ Refresh(p, s)
    /\ Owe("signal", p, s)
    /\ UNCHANGED <<lifecycle, connected, callback, told, overtaken>>

(* Variant: the telemetry waits for the next signal report.                *)
UtVideoModeSilent(p) ==
    /\ "video_mode" \in Reports
    /\ report = Nothing
    /\ detected' = [detected EXCEPT ![p] = TRUE]
    /\ signalStatus' = [signalStatus EXCEPT ![p] = "STABLE"]
    /\ Owe("mode", p, "STABLE")
    /\ UNCHANGED <<lifecycle, connected, telemetry, callback, told, overtaken>>

(* A mode is taken for a locked input; whether the port is started, or     *)
(* even connected, is not asked.                                           *)
UtVideoMode(p) ==
    /\ "video_mode" \in Reports
    /\ report = Nothing
    /\ detected' = [detected EXCEPT ![p] = TRUE]
    /\ signalStatus' = [signalStatus EXCEPT ![p] = "STABLE"]
    /\ Refresh(p, "STABLE")
    /\ Owe("mode", p, "STABLE")
    /\ UNCHANGED <<lifecycle, connected, callback, told, overtaken>>

UtClearVideoMode(p) ==
    /\ "clear_video_mode" \in Reports
    /\ report = Nothing
    /\ detected' = [detected EXCEPT ![p] = FALSE]
    /\ UNCHANGED <<lifecycle, connected, signalStatus, telemetry, notices>>

(* set_property takes any property and any number, in every state, and     *)
(* tells the controller listener nothing.                                  *)
UtSetProperty(p, f, n) ==
    /\ "set_property" \in Reports
    /\ report = Nothing
    /\ telemetry' = [telemetry EXCEPT ![p][f] = n]
    /\ UNCHANGED <<lifecycle, connected, signalStatus, detected, notices>>

(* So may a client with a controller, whose session need not be the open   *)
(* one, where the profile makes the telemetry writable.                    *)
SetProperty(p, f, n) ==
    /\ f \in Writable
    /\ Held(p)
    /\ telemetry' = [telemetry EXCEPT ![p][f] = n]
    /\ UNCHANGED <<lifecycle, connected, signalStatus, detected, notices>>

Injects(p) ==
    \E f \in Fields, n \in Injected : UtSetProperty(p, f, n) \/ SetProperty(p, f, n)

----------------------------------------------------------------------------
(* Callbacks.  A listener that is not the one of the open session, or      *)
(* whose process is gone, learns nothing about it.                         *)

Tell(n, k) ==
    told' = IF listener[n.port] = n.client /\ alive[n.client]
            THEN [told EXCEPT ![n.port][k] = n.value] ELSE told

(* A detected mode tells the client that the input is locked.              *)
KindTold(n) == IF n.kind = "mode" THEN "signal" ELSE n.kind

UtCallback ==
    /\ report # Nothing
    /\ Tell(report, KindTold(report))
    /\ overtaken' = IF \E t \in Threads :
                          /\ callback[t].kind = KindTold(report)
                          /\ port[t] = report.port
                    THEN [overtaken EXCEPT ![report.port] =
                             @ \union {KindTold(report)}]
                    ELSE overtaken
    /\ report' = Nothing
    /\ UNCHANGED <<lifecycle, input, callback>>

(* onConnectionChanged in open(), after linking; onSignalStatusChanged in  *)
(* start(), after the snapshot.                                            *)
PortCallback(t) ==
    /\ callback[t] # Nothing
    /\ pc[t] \in {"open_ready", "start_end"}
    /\ Tell(callback[t], callback[t].kind)
    /\ callback' = [callback EXCEPT ![t] = Nothing]
    /\ UNCHANGED <<lifecycle, input, report, overtaken>>

(* The snapshots the lifecycle sections take: open() the connection in its *)
(* first section, start() listener and signal in STARTING.  A rolled back  *)
(* open() makes no callback.                                               *)
SnapshotConnection(t, p) ==
    /\ OpenBegin(t, p)
    /\ callback' = [callback EXCEPT ![t] =
          Notice("connection", p, opener[t], Text(connected[p]))]
    /\ told' = [told EXCEPT ![p] = [connection |-> "untold",
                                    signal |-> "untold"]]
    /\ overtaken' = [overtaken EXCEPT ![p] = {}]

SnapshotSignal(t, p) ==
    /\ StartSignal(t, p)
    /\ callback' = [callback EXCEPT ![t] =
          Notice("signal", p, listener[p], signalStatus[p])]
    /\ overtaken' = [overtaken EXCEPT ![p] = @ \ {"signal"}]
    /\ UNCHANGED told

DropCallback(t, p) ==
    /\ OpenUndo(t, p)
    /\ callback' = [callback EXCEPT ![t] = Nothing]
    /\ UNCHANGED <<told, overtaken>>

PlainStep(t, p) ==
    /\ callback[t] = Nothing \/ pc[t] = "open_link"
    /\ ~(At(t, p, "open_begin") /\ state[p] = "CLOSED")
    /\ ~At(t, p, "start_signal")
    /\ ThreadStep(t, p)
    /\ UNCHANGED <<callback, told, overtaken>>

PortStep(t, p) ==
    /\ \/ SnapshotConnection(t, p) \/ SnapshotSignal(t, p)
       \/ DropCallback(t, p)       \/ PlainStep(t, p)
    /\ UNCHANGED <<input, report>>

Environment ==
    /\ \/ \E t \in Threads : Call(t)
       \/ \E t \in Threads, k \in links : NotifyDeath(t, k)
       \/ \E c \in RemoteClients : Die(c)
    /\ UNCHANGED <<input, notices>>

SignalNext ==
    \/ \E p \in Ports :
          \/ \E b \in BOOLEAN : UtConnection(p, b)
          \/ \E s \in Statuses : UtSignal(p, s)
          \/ UtVideoMode(p) \/ UtClearVideoMode(p)
          \/ Injects(p)
    \/ UtCallback
    \/ \E t \in Threads : PortCallback(t)
    \/ \E t \in Threads, p \in Ports : PortStep(t, p)
    \/ Environment

SignalSpec == SignalInit /\ [][SignalNext]_signalVars

----------------------------------------------------------------------------
(* getStatus(): the cached status while the port is starting or started;   *)
(* before, an input with nothing plugged in, whatever was reported.        *)
GetStatus(p) ==
    IF Live(p)
    THEN [connected |-> connected[p], signalStatus |-> signalStatus[p],
          detected |-> detected[p], active |-> state[p] = "STARTED"]
    ELSE [connected |-> FALSE, signalStatus |-> "NO_SIGNAL",
          detected |-> FALSE, active |-> FALSE]

----------------------------------------------------------------------------
(* A detected mode stands only beside a stable signal, in the cache and in *)
(* what getStatus() answers, whichever reports arrived since and whatever  *)
(* the ports went through.                                                 *)
ModeNeedsStableSignal ==
    \A p \in Ports :
        /\ detected[p] => signalStatus[p] = "STABLE"
        /\ GetStatus(p).detected => GetStatus(p).signalStatus = "STABLE"

(* No callback is on its way to the listener of the port.                  *)
Quiet(p) ==
    /\ report = Nothing \/ report.port # p
    /\ \A t \in Threads : callback[t] # Nothing => port[t] # p

Attended(p) == listener[p] # None /\ alive[listener[p]]

(* Once a session is open and no callback is under way, its client was     *)
(* told last whether the cable is plugged in now, unless a report was      *)
(* delivered in front of open()'s own callback, which then brings the      *)
(* older snapshot.                                                         *)
ConnectionKnown ==
    \A p \in Ports :
        Attended(p) /\ Quiet(p) /\ state[p] # "OPENING" =>
            \/ told[p].connection = Text(connected[p])
            \/ "connection" \in overtaken[p]

(* A client that polls getStatus() while the port is started reads what it *)
(* was told last of the signal, unless a report was delivered in front of  *)
(* start()'s own callback.                                                 *)
SignalKnown ==
    \A p \in Ports :
        Attended(p) /\ Quiet(p) /\ GetStatus(p).active =>
            \/ told[p].signal = GetStatus(p).signalStatus
            \/ "signal" \in overtaken[p]

(* Apart from set_property and setProperty(), which put any number there   *)
(* in any state, the telemetry moves in STARTING and STARTED only.  There  *)
(* it agrees with the signal after every step that moved one of the two,   *)
(* and keeps agreeing: a report undoes whatever was set, and none leaves   *)
(* the telemetry of an earlier signal beside a new one.                    *)
TelemetryFollows ==
    [][\A p \in Ports :
         LET agreed == telemetry[p] = Derived(signalStatus[p])
             moved  == \/ telemetry'[p] # telemetry[p]
                       \/ signalStatus'[p] # signalStatus[p]
         IN \/ Injects(p)
            \/ /\ telemetry'[p] # telemetry[p] => Live(p)
               /\ Live(p) /\ (agreed \/ moved)
                  => telemetry'[p] = Derived(signalStatus'[p])]_signalVars

(* The physical input without the sessions; there is one mode here.        *)
Physical == INSTANCE PhysicalInput
    WITH Modes <- {"mode"}, NoMode <- None,
         mode <- [p \in Ports |-> IF detected[p] THEN "mode" ELSE None]

(* Whatever the sessions do, the input of each port changes as the host    *)
(* may change a physical input, and in no other way.                       *)
ImplementsInput == Physical!Spec
=============================================================================
