---------------------------- MODULE PortLifecycle ----------------------------
(***************************************************************************)
(* The session and lifecycle protocol of CompositeInputPort: open, close,  *)
(* start, stop and the clean-up a dead client triggers, run by the threads *)
(* of the binder pool over the ports of one service process.               *)
(*                                                                         *)
(* One action is one critical section (m_mutex, or g_startedMutex, or the  *)
(* nesting of the two in start) or one binder interaction made outside the *)
(* mutex.  Between two actions of a handler its thread holds no lock, so   *)
(* any other thread may run; `pc' says which section a thread enters next. *)
(* Early returns on null arguments change nothing and are left out.        *)
(***************************************************************************)
EXTENDS Integers, FiniteSets

CONSTANTS
    Ports,          \* the ports of the service
    Threads,        \* the binder pool: they serve calls and obituaries
    Clients,        \* the processes that may open a port
    RemoteClients,  \* those outside the service process: they can die
    RequestedMax,   \* maximumConcurrentStartedPorts as configured
    MaxSession,     \* bound of the model: no open() call once it is passed
    None

ASSUME PortsAssumption   == IsFiniteSet(Ports)
ASSUME ThreadsAssumption == IsFiniteSet(Threads)
ASSUME ClientsAssumption == RemoteClients \subseteq Clients
ASSUME MaxAssumption     == RequestedMax \in Int
ASSUME SessionAssumption == MaxSession \in Nat
ASSUME NoneAssumption    == None \notin Ports \union Clients

VARIABLES
    state,                \* m_state of each port
    controller,           \* m_controller: the session it was made for, 0 if null
    listener,             \* m_controllerListener: its client, None if null
    sessionEpoch,         \* m_sessionEpoch
    deathCleanupPending,  \* m_deathCleanupPending
    startedPorts,         \* g_startedPorts, shared by all ports
    pc,                   \* the section each thread enters next
    port,                 \* the port its call is about
    sid,                  \* the session its controller or recipient was made for
    opener,               \* the listener argument of an open() in progress
    alive,                \* which clients still run
    links,                \* death recipients linked and not yet reported
    handed                \* controllers that open() has returned to a client

session == <<controller, listener, sessionEpoch, deathCleanupPending>>
threads == <<pc, port, sid, opener>>
world   == <<alive, links, handed>>
vars    == <<state, session, startedPorts, threads, world>>

----------------------------------------------------------------------------
(* The states of a port, the sections of a handler.                        *)

Stable    == {"CLOSED", "READY", "STARTED"}
Transient == {"OPENING", "STARTING", "STOPPING", "CLOSING"}
Busy      == {"STARTING", "STARTED", "STOPPING"}

(* The sections a thread enters while it drives a port through a transient *)
(* state, with that state.                                                 *)
Drives == [ open_link   |-> "OPENING",  open_undo  |-> "OPENING",
            open_ready  |-> "OPENING",  close_end  |-> "CLOSING",
            start_signal|-> "STARTING", start_end  |-> "STARTING",
            stop_ready  |-> "STOPPING", death_ready|-> "STOPPING",
            death_end   |-> "CLOSING" ]

(* The sections entered with a slot of g_startedPorts that no port in a    *)
(* Busy state stands for: reserved but the state is not yet checked, or    *)
(* READY again but not yet given back.                                     *)
Holding == {"start_check", "stop_release", "death_release"}

Tails == {"open_tail", "start_tail", "stop_tail"}

Labels == DOMAIN Drives \union Holding \union Tails \union
          { "idle", "open_begin", "close_begin", "close_unlink",
            "start_reserve", "start_baseline", "stop_begin",
            "death_begin", "death_close" }

Handle == [port : Ports, session : Nat, client : Clients]

TypeOK ==
    /\ state \in [Ports -> Stable \union Transient]
    /\ controller \in [Ports -> Nat]
    /\ listener \in [Ports -> Clients \union {None}]
    /\ sessionEpoch \in [Ports -> Nat]
    /\ deathCleanupPending \in [Ports -> BOOLEAN]
    /\ startedPorts \in Nat
    /\ pc \in [Threads -> Labels]
    /\ port \in [Threads -> Ports \union {None}]
    /\ \A t \in Threads : pc[t] # "idle" => port[t] \in Ports
    /\ sid \in [Threads -> Nat]
    /\ opener \in [Threads -> Clients \union {None}]
    /\ \A t \in Threads : pc[t] \in {"open_begin", "open_link",
                                       "open_ready", "open_tail"}
                             => opener[t] \in Clients
    /\ alive \in [Clients -> BOOLEAN]
    /\ links \subseteq Handle
    /\ handed \subseteq Handle

----------------------------------------------------------------------------
(* Helpers.                                                                *)

(* setMaxConcurrentStartedPorts: a configured limit below one is raised.   *)
MaxStartedPorts == IF RequestedMax < 1 THEN 1 ELSE RequestedMax

(* Variant: off by one.                                                    *)
SlotFreeAtLimit == startedPorts <= MaxStartedPorts

SlotFree == startedPorts < MaxStartedPorts

At(t, p, l) == pc[t] = l /\ port[t] = p

Goto(t, l) ==
    /\ pc' = [pc EXCEPT ![t] = l]
    /\ UNCHANGED <<port, sid, opener>>

Enter(t, l, p, s, c) ==
    /\ pc' = [pc EXCEPT ![t] = l]
    /\ port' = [port EXCEPT ![t] = p]
    /\ sid' = [sid EXCEPT ![t] = s]
    /\ opener' = [opener EXCEPT ![t] = c]

Return(t) == Enter(t, "idle", None, 0, None)

SetState(p, s) == state' = [state EXCEPT ![p] = s]

(* A slot goes back only while some are taken: the counter cannot wrap.    *)
ReleaseSlot == startedPorts' = IF startedPorts > 0 THEN startedPorts - 1 ELSE 0

(* Variants: the client is kept; the notifications issued stay valid.      *)
RetireSessionKeepsClient(p) ==
    /\ SetState(p, "CLOSED")
    /\ controller' = [controller EXCEPT ![p] = 0]
    /\ sessionEpoch' = [sessionEpoch EXCEPT ![p] = @ + 1]
    /\ deathCleanupPending' = [deathCleanupPending EXCEPT ![p] = FALSE]
    /\ UNCHANGED listener

RetireSessionSameEpoch(p) ==
    /\ SetState(p, "CLOSED")
    /\ controller' = [controller EXCEPT ![p] = 0]
    /\ listener' = [listener EXCEPT ![p] = None]
    /\ deathCleanupPending' = [deathCleanupPending EXCEPT ![p] = FALSE]
    /\ UNCHANGED sessionEpoch

(* The end of every session, whoever ends it: forget its controller and    *)
(* its client and make every notification issued for it stale.             *)
RetireSession(p) ==
    /\ SetState(p, "CLOSED")
    /\ controller' = [controller EXCEPT ![p] = 0]
    /\ listener' = [listener EXCEPT ![p] = None]
    /\ sessionEpoch' = [sessionEpoch EXCEPT ![p] = @ + 1]
    /\ deathCleanupPending' = [deathCleanupPending EXCEPT ![p] = FALSE]

----------------------------------------------------------------------------
Init ==
    /\ state = [p \in Ports |-> "CLOSED"]
    /\ controller = [p \in Ports |-> 0]
    /\ listener = [p \in Ports |-> None]
    /\ sessionEpoch = [p \in Ports |-> 0]
    /\ deathCleanupPending = [p \in Ports |-> FALSE]
    /\ startedPorts = 0
    /\ pc = [t \in Threads |-> "idle"]
    /\ port = [t \in Threads |-> None]
    /\ sid = [t \in Threads |-> 0]
    /\ opener = [t \in Threads |-> None]
    /\ alive = [c \in Clients |-> TRUE]
    /\ links = {}
    /\ handed = {}

----------------------------------------------------------------------------
(* The clients: a live one may call, on any port, whatever its state; with *)
(* a controller it was handed, whether or not the session still runs.      *)

CallOpen(t, p, c) ==
    /\ pc[t] = "idle"
    /\ alive[c]
    /\ sessionEpoch[p] < MaxSession
    /\ Enter(t, "open_begin", p, 0, c)
    /\ UNCHANGED <<state, session, startedPorts, world>>

CallController(t, h, l) ==
    /\ pc[t] = "idle"
    /\ alive[h.client]
    /\ Enter(t, l, h.port, h.session, None)
    /\ UNCHANGED <<state, session, startedPorts, world>>

Die(c) ==
    /\ alive[c]
    /\ alive' = [alive EXCEPT ![c] = FALSE]
    /\ UNCHANGED <<state, session, startedPorts, threads, links, handed>>

----------------------------------------------------------------------------
(* open()                                                                  *)

OpenRejected(t, p) ==
    /\ At(t, p, "open_begin")
    /\ state[p] # "CLOSED"
    /\ Return(t)
    /\ UNCHANGED <<state, session, startedPorts, world>>

OpenBegin(t, p) ==
    /\ At(t, p, "open_begin")
    /\ state[p] = "CLOSED"
    /\ SetState(p, "OPENING")
    /\ listener' = [listener EXCEPT ![p] = opener[t]]
    /\ sessionEpoch' = [sessionEpoch EXCEPT ![p] = @ + 1]
    /\ controller' = [controller EXCEPT ![p] = sessionEpoch[p] + 1]
    /\ deathCleanupPending' = [deathCleanupPending EXCEPT ![p] = FALSE]
    /\ Enter(t, "open_link", p, sessionEpoch[p] + 1, opener[t])
    /\ UNCHANGED <<startedPorts, world>>

(* Variant: the client is not observed.                                    *)
OpenLinkForgotten(t, p) ==
    /\ At(t, p, "open_link")
    /\ Goto(t, "open_ready")
    /\ UNCHANGED <<state, session, startedPorts, world>>

(* linkToDeath() succeeds, and may also succeed on a client whose death    *)
(* has not been reported yet.  Local clients are not observed.             *)
OpenLink(t, p) ==
    /\ At(t, p, "open_link")
    /\ links' = IF opener[t] \in RemoteClients
                THEN links \union {[port |-> p, session |-> sid[t],
                                    client |-> opener[t]]}
                ELSE links
    /\ Goto(t, "open_ready")
    /\ UNCHANGED <<state, session, startedPorts, alive, handed>>

OpenLinkFails(t, p) ==
    /\ At(t, p, "open_link")
    /\ opener[t] \in RemoteClients
    /\ ~alive[opener[t]]
    /\ Goto(t, "open_undo")
    /\ UNCHANGED <<state, session, startedPorts, world>>

OpenUndo(t, p) ==
    /\ At(t, p, "open_undo")
    /\ RetireSession(p)
    /\ Return(t)
    /\ UNCHANGED <<startedPorts, world>>

OpenReady(t, p) ==
    /\ At(t, p, "open_ready")
    /\ SetState(p, "READY")
    /\ Goto(t, "open_tail")
    /\ UNCHANGED <<session, startedPorts, world>>

----------------------------------------------------------------------------
(* close()                                                                 *)

(* Not READY, or not the controller of the session: no effect.             *)
CloseRejected(t, p) ==
    /\ At(t, p, "close_begin")
    /\ state[p] # "READY" \/ sid[t] # controller[p]
    /\ Return(t)
    /\ UNCHANGED <<state, session, startedPorts, world>>

(* Variant: a started port is closed as it is.                             *)
CloseBeginStarted(t, p) ==
    /\ At(t, p, "close_begin")
    /\ state[p] \in {"READY", "STARTED"}
    /\ sid[t] = controller[p]
    /\ SetState(p, "CLOSING")
    /\ Goto(t, "close_end")
    /\ UNCHANGED <<session, startedPorts, world>>

CloseBegin(t, p) ==
    /\ At(t, p, "close_begin")
    /\ state[p] = "READY"
    /\ sid[t] = controller[p]
    /\ SetState(p, "CLOSING")
    /\ Goto(t, "close_end")
    /\ UNCHANGED <<session, startedPorts, world>>

CloseEnd(t, p) ==
    /\ At(t, p, "close_end")
    /\ RetireSession(p)
    /\ Goto(t, "close_unlink")
    /\ UNCHANGED <<startedPorts, world>>

CloseUnlink(t, p) ==
    /\ At(t, p, "close_unlink")
    /\ links' = {k \in links : k.port # p \/ k.session # sid[t]}
    /\ Return(t)
    /\ UNCHANGED <<state, session, startedPorts, alive, handed>>

----------------------------------------------------------------------------
(* start(): the slot is reserved before the state of the port is looked at *)
(* and the controller forwards the call without naming its session.        *)

StartRefused(t, p) ==
    /\ At(t, p, "start_reserve")
    /\ ~SlotFree
    /\ Return(t)
    /\ UNCHANGED <<state, session, startedPorts, world>>

StartReserve(t, p) ==
    /\ At(t, p, "start_reserve")
    /\ SlotFree
    /\ startedPorts' = startedPorts + 1
    /\ Goto(t, "start_check")
    /\ UNCHANGED <<state, session, world>>

(* Variant: the early return leaks the slot.                               *)
StartRejectedLeaks(t, p) ==
    /\ At(t, p, "start_check")
    /\ state[p] # "READY"
    /\ Return(t)
    /\ UNCHANGED <<state, session, startedPorts, world>>

StartRejected(t, p) ==
    /\ At(t, p, "start_check")
    /\ state[p] # "READY"
    /\ ReleaseSlot
    /\ Return(t)
    /\ UNCHANGED <<state, session, world>>

StartBegin(t, p) ==
    /\ At(t, p, "start_check")
    /\ state[p] = "READY"
    /\ SetState(p, "STARTING")
    /\ Goto(t, "start_signal")
    /\ UNCHANGED <<session, startedPorts, world>>

(* Snapshot of the listener and the signal, onSignalStatusChanged().       *)
StartSignal(t, p) ==
    /\ At(t, p, "start_signal")
    /\ Goto(t, "start_end")
    /\ UNCHANGED <<state, session, startedPorts, world>>

StartEnd(t, p) ==
    /\ At(t, p, "start_end")
    /\ SetState(p, "STARTED")
    /\ Goto(t, "start_baseline")
    /\ UNCHANGED <<session, startedPorts, world>>

(* Uptime baseline and telemetry snapshot, taken whatever the state is now. *)
StartBaseline(t, p) ==
    /\ At(t, p, "start_baseline")
    /\ Goto(t, "start_tail")
    /\ UNCHANGED <<state, session, startedPorts, world>>

----------------------------------------------------------------------------
(* stop()                                                                  *)

StopRejected(t, p) ==
    /\ At(t, p, "stop_begin")
    /\ state[p] # "STARTED"
    /\ Return(t)
    /\ UNCHANGED <<state, session, startedPorts, world>>

StopBegin(t, p) ==
    /\ At(t, p, "stop_begin")
    /\ state[p] = "STARTED"
    /\ SetState(p, "STOPPING")
    /\ Goto(t, "stop_ready")
    /\ UNCHANGED <<session, startedPorts, world>>

StopReady(t, p) ==
    /\ At(t, p, "stop_ready")
    /\ SetState(p, "READY")
    /\ Goto(t, "stop_release")
    /\ UNCHANGED <<session, startedPorts, world>>

StopRelease(t, p) ==
    /\ At(t, p, "stop_release")
    /\ ReleaseSlot
    /\ Goto(t, "stop_tail")
    /\ UNCHANGED <<state, session, world>>

----------------------------------------------------------------------------
(* runPendingDeathCleanupIfNeeded(), at the tail of open, start and stop.  *)

(* Variant: the tail does not look.                                        *)
TailReturnBlind(t, p) ==
    /\ pc[t] \in Tails /\ port[t] = p
    /\ handed' = IF pc[t] = "open_tail"
                 THEN handed \union {[port |-> p, session |-> sid[t],
                                      client |-> opener[t]]}
                 ELSE handed
    /\ Return(t)
    /\ UNCHANGED <<state, session, startedPorts, alive, links>>

(* Nothing was deferred: the call returns, and open() hands its controller *)
(* to the client.                                                          *)
TailReturn(t, p) ==
    /\ pc[t] \in Tails /\ port[t] = p
    /\ ~deathCleanupPending[p]
    /\ handed' = IF pc[t] = "open_tail"
                 THEN handed \union {[port |-> p, session |-> sid[t],
                                      client |-> opener[t]]}
                 ELSE handed
    /\ Return(t)
    /\ UNCHANGED <<state, session, startedPorts, alive, links>>

TailRunsCleanup(t, p) ==
    /\ pc[t] \in Tails /\ port[t] = p
    /\ deathCleanupPending[p]
    /\ deathCleanupPending' = [deathCleanupPending EXCEPT ![p] = FALSE]
    /\ Enter(t, "death_begin", p, sessionEpoch[p], None)
    /\ UNCHANGED <<state, controller, listener, sessionEpoch, startedPorts,
                   world>>

----------------------------------------------------------------------------
(* cleanupAfterControllerDeath(), entered by binderDied() or by a tail.    *)

NotifyDeath(t, k) ==
    /\ pc[t] = "idle"
    /\ ~alive[k.client]
    /\ links' = links \ {k}
    /\ Enter(t, "death_begin", k.port, k.session, None)
    /\ UNCHANGED <<state, session, startedPorts, alive, handed>>

(* Variant: the epoch is not compared.                                     *)
StaleNever(t, p) == FALSE

Stale(t, p) == sessionEpoch[p] # sid[t]

DeathIgnored(t, p) ==
    /\ At(t, p, "death_begin")
    /\ Stale(t, p) \/ state[p] = "CLOSED"
    /\ Return(t)
    /\ UNCHANGED <<state, session, startedPorts, world>>

(* Variant: a clean-up that meets a transition is dropped.                 *)
DeathDropped(t, p) ==
    /\ At(t, p, "death_begin")
    /\ ~Stale(t, p)
    /\ state[p] \in Transient
    /\ Return(t)
    /\ UNCHANGED <<state, session, startedPorts, world>>

DeathDeferred(t, p) ==
    /\ At(t, p, "death_begin")
    /\ ~Stale(t, p)
    /\ state[p] \in Transient
    /\ deathCleanupPending' = [deathCleanupPending EXCEPT ![p] = TRUE]
    /\ Return(t)
    /\ UNCHANGED <<state, controller, listener, sessionEpoch, startedPorts,
                   world>>

(* Variant: a port on its way to STARTED is stopped at once.               *)
DeathStopEarly(t, p) ==
    /\ At(t, p, "death_begin")
    /\ ~Stale(t, p)
    /\ state[p] \in {"STARTING", "STARTED"}
    /\ SetState(p, "STOPPING")
    /\ Goto(t, "death_ready")
    /\ UNCHANGED <<session, startedPorts, world>>

DeathStop(t, p) ==
    /\ At(t, p, "death_begin")
    /\ ~Stale(t, p)
    /\ state[p] = "STARTED"
    /\ SetState(p, "STOPPING")
    /\ Goto(t, "death_ready")
    /\ UNCHANGED <<session, startedPorts, world>>

DeathSkipsStop(t, p) ==
    /\ At(t, p, "death_begin")
    /\ ~Stale(t, p)
    /\ state[p] = "READY"
    /\ Goto(t, "death_close")
    /\ UNCHANGED <<state, session, startedPorts, world>>

DeathReady(t, p) ==
    /\ At(t, p, "death_ready")
    /\ SetState(p, "READY")
    /\ Goto(t, "death_release")
    /\ UNCHANGED <<session, startedPorts, world>>

DeathRelease(t, p) ==
    /\ At(t, p, "death_release")
    /\ ReleaseSlot
    /\ Goto(t, "death_close")
    /\ UNCHANGED <<state, session, world>>

DeathCloseIgnored(t, p) ==
    /\ At(t, p, "death_close")
    /\ Stale(t, p) \/ state[p] = "CLOSED"
    /\ Return(t)
    /\ UNCHANGED <<state, session, startedPorts, world>>

(* The close stage re-checks the session; a port that is neither READY nor *)
(* CLOSED, STARTED included, defers the clean-up again.                    *)
DeathCloseDeferred(t, p) ==
    /\ At(t, p, "death_close")
    /\ ~Stale(t, p)
    /\ state[p] \notin {"READY", "CLOSED"}
    /\ deathCleanupPending' = [deathCleanupPending EXCEPT ![p] = TRUE]
    /\ Return(t)
    /\ UNCHANGED <<state, controller, listener, sessionEpoch, startedPorts,
                   world>>

DeathClose(t, p) ==
    /\ At(t, p, "death_close")
    /\ ~Stale(t, p)
    /\ state[p] = "READY"
    /\ SetState(p, "CLOSING")
    /\ Goto(t, "death_end")
    /\ UNCHANGED <<session, startedPorts, world>>

DeathEnd(t, p) ==
    /\ At(t, p, "death_end")
    /\ RetireSession(p)
    /\ Return(t)
    /\ UNCHANGED <<startedPorts, world>>

----------------------------------------------------------------------------
ControllerCalls == {"close_begin", "start_reserve", "stop_begin"}

Call(t) ==
    \/ \E p \in Ports, c \in Clients : CallOpen(t, p, c)
    \/ \E h \in handed, l \in ControllerCalls : CallController(t, h, l)

OpenStep(t, p) ==
    \/ OpenRejected(t, p)  \/ OpenBegin(t, p)  \/ OpenLink(t, p)
    \/ OpenLinkFails(t, p) \/ OpenUndo(t, p)   \/ OpenReady(t, p)

CloseStep(t, p) ==
    \/ CloseRejected(t, p) \/ CloseBegin(t, p)
    \/ CloseEnd(t, p)      \/ CloseUnlink(t, p)

StartStep(t, p) ==
    \/ StartRefused(t, p) \/ StartReserve(t, p) \/ StartRejected(t, p)
    \/ StartBegin(t, p)   \/ StartSignal(t, p)  \/ StartEnd(t, p)
    \/ StartBaseline(t, p)

StopStep(t, p) ==
    \/ StopRejected(t, p) \/ StopBegin(t, p)
    \/ StopReady(t, p)    \/ StopRelease(t, p)

TailStep(t, p) == TailReturn(t, p) \/ TailRunsCleanup(t, p)

DeathStep(t, p) ==
    \/ DeathIgnored(t, p)   \/ DeathDeferred(t, p) \/ DeathStop(t, p)
    \/ DeathSkipsStop(t, p) \/ DeathReady(t, p)    \/ DeathRelease(t, p)
    \/ DeathCloseIgnored(t, p) \/ DeathCloseDeferred(t, p)
    \/ DeathClose(t, p)     \/ DeathEnd(t, p)

(* The next section of the handler a thread is running.                    *)
ThreadStep(t, p) ==
    \/ OpenStep(t, p) \/ CloseStep(t, p) \/ StartStep(t, p)
    \/ StopStep(t, p) \/ TailStep(t, p)  \/ DeathStep(t, p)

Next ==
    \/ \E t \in Threads : Call(t)
    \/ \E t \in Threads, p \in Ports : ThreadStep(t, p)
    \/ \E t \in Threads, k \in links : NotifyDeath(t, k)
    \/ \E c \in RemoteClients : Die(c)

Spec == Init /\ [][Next]_vars

(* A thread in a handler keeps running; the driver's queue of obituaries   *)
(* is first in, first out, so a report is not overtaken forever by calls.  *)
Fairness ==
    /\ \A t \in Threads, p \in Ports : WF_vars(ThreadStep(t, p))
    /\ \A p \in Ports, c \in RemoteClients :
          SF_vars(\E t \in Threads : \E k \in links :
                     k.port = p /\ k.client = c /\ NotifyDeath(t, k))

FairSpec == Spec /\ Fairness

----------------------------------------------------------------------------
(* Safety.                                                                 *)

Driver(t, p) == port[t] = p /\ pc[t] \in DOMAIN Drives

BusyPorts == {p \in Ports : state[p] \in Busy}
Holders   == {t \in Threads : pc[t] \in Holding}

Abandoned(p) == listener[p] \in RemoteClients /\ ~alive[listener[p]]

(* A port in a transient state is driven by exactly one thread, and only   *)
(* the handler of that transition drives it: the mutex is released between *)
(* the two halves of every transition, and nothing else may move the port  *)
(* in the meantime, a clean-up running on another thread included.         *)
OneDriver ==
    /\ \A t \in Threads, p \in Ports : Driver(t, p) => state[p] = Drives[pc[t]]
    /\ \A p \in Ports : state[p] \in Transient => \E t \in Threads : Driver(t, p)
    /\ \A t, u \in Threads, p \in Ports : Driver(t, p) /\ Driver(u, p) => t = u

(* The counter of started ports is exact: one for each port that is busy,  *)
(* one for each thread between its reservation and its check or between    *)
(* READY and its release.  A slot is given back exactly once, also when    *)
(* stop() and a clean-up race.                                             *)
SlotsAccounted ==
    startedPorts = Cardinality(BusyPorts) + Cardinality(Holders)

(* Never more ports started, or on their way up or down, than configured.  *)
StartedLimit == Cardinality(BusyPorts) <= MaxStartedPorts

(* A port has a controller and a client exactly while it is not CLOSED,    *)
(* and its controller is the one of the current session.                   *)
SessionIdentity ==
    \A p \in Ports :
        /\ controller[p] = IF state[p] = "CLOSED" THEN 0 ELSE sessionEpoch[p]
        /\ listener[p] = None <=> state[p] = "CLOSED"

(* A clean-up is under way for the current session of a port.              *)
DeathLabels == {"death_begin", "death_ready", "death_release", "death_close",
                "death_end"}

Cleaning(t, p) ==
    /\ port[t] = p
    /\ pc[t] \in DeathLabels
    /\ sid[t] = sessionEpoch[p]

(* The clean-up of a session of a remote client is never lost: from the    *)
(* moment its client is observed until it closes, its obituary is still to *)
(* come, or deferred, or being handled, whatever the transitions it met    *)
(* (the obituary of a session comes once).                                 *)
Observed(p) ==
    /\ listener[p] \in RemoteClients
    /\ state[p] # "CLOSING"
    /\ ~\E t \in Threads : At(t, p, "open_link") \/ At(t, p, "open_undo")

CleanupNeverLost ==
    \A p \in Ports : Observed(p) =>
        \/ [port |-> p, session |-> sessionEpoch[p],
            client |-> listener[p]] \in links
        \/ deathCleanupPending[p]
        \/ \E t \in Threads : Cleaning(t, p)

(* A clean-up is deferred only in the session of a client that is gone,    *)
(* and someone will come back to it -- the thread driving the port, a call *)
(* on its way to its tail, another clean-up -- unless the port has reached *)
(* STARTED behind the back of a clean-up in its close stage.               *)
ComesBack(t, p) ==
    /\ port[t] = p
    /\ \/ pc[t] \in DOMAIN Drives \union Tails \union
                    {"start_baseline", "stop_release"}
       \/ Cleaning(t, p)

DeferredComesBack ==
    \A p \in Ports : deathCleanupPending[p] =>
        /\ Abandoned(p)
        /\ state[p] = "STARTED" \/ \E t \in Threads : ComesBack(t, p)

(* A clean-up moves a port only while its session is that of a dead        *)
(* client: a notification, however late, never disturbs another session.   *)
CleanupOnlyDead ==
    [][\A t \in Threads, p \in Ports :
         DeathStep(t, p) /\ state'[p] # state[p] => Abandoned(p)]_vars

----------------------------------------------------------------------------
(* The inductive invariant behind the properties above.                    *)

SlotLimit == startedPorts <= MaxStartedPorts

(* No link, controller or thread knows a session that has not begun; those *)
(* that are inside a session know which one it is; what is issued for the  *)
(* current session is issued for its client, and a clean-up for it means   *)
(* that this client is dead.                                               *)
InSession == {"open_link", "open_undo", "open_ready", "close_end",
              "death_ready", "death_end"}

LinksOfSessions ==
    \A k \in links :
        /\ k.client \in RemoteClients
        /\ k.session <= sessionEpoch[k.port]
        /\ k.session = sessionEpoch[k.port] => listener[k.port] = k.client

ThreadsOfSessions ==
    /\ \A h \in handed : h.session <= sessionEpoch[h.port]
    /\ \A t \in Threads, p \in Ports : port[t] = p =>
        /\ sid[t] <= sessionEpoch[p]
        /\ pc[t] \in InSession => sid[t] = sessionEpoch[p]
        /\ pc[t] = "close_unlink" => sid[t] < sessionEpoch[p]
        /\ pc[t] = "open_link" => opener[t] = listener[p]
        /\ pc[t] = "open_undo" => Abandoned(p)
        /\ Cleaning(t, p) => Abandoned(p)

PendingOfDead == \A p \in Ports : deathCleanupPending[p] => Abandoned(p)

IInv ==
    /\ TypeOK
    /\ OneDriver
    /\ SlotsAccounted
    /\ SlotLimit
    /\ SessionIdentity
    /\ LinksOfSessions
    /\ ThreadsOfSessions
    /\ PendingOfDead
    /\ CleanupNeverLost
    /\ DeferredComesBack

----------------------------------------------------------------------------
(* Every behaviour of the threads is one of the abstract lifecycle: no     *)
(* interleaving skips an edge, moves a port to another client without      *)
(* closing it, or starts a port above the limit.                           *)
Contract == INSTANCE PortContract WITH
    life <- state, owner <- listener, gone <- {c \in Clients : ~alive[c]},
    Mortal <- RemoteClients, Limit <- MaxStartedPorts

ImplementsContract == Contract!Spec

----------------------------------------------------------------------------
(* Liveness, under FairSpec.                                               *)

(* A live client still holds a controller of the port: of this session, or *)
(* of an earlier one, which start() and stop() accept just as well.        *)
Held(p) == \E h \in handed : h.port = p /\ alive[h.client]

(* The session of a client that died ends, unless another client goes on   *)
(* using a controller of the port, or the port is left STARTED with the    *)
(* clean-up deferred and nobody to run it.                                 *)
DeadSessionEnds ==
    \A p \in Ports :
        Abandoned(p) ~> \/ ~Abandoned(p)
                        \/ Held(p)
                        \/ state[p] = "STARTED" /\ deathCleanupPending[p]

----------------------------------------------------------------------------
(* What the comments of the code say and the runs refute.                  *)

(* A clean-up deferred at its close stage is completed at the tail of the  *)
(* concurrent transition (cleanupAfterControllerDeath, close stage).       *)
DeferredCleanupRuns ==
    \A p \in Ports : deathCleanupPending[p] ~> ~deathCleanupPending[p]

(* Only the controller of the open session starts and stops the port       *)
(* (CompositeInputController.h, class comment).                            *)
ControllerExclusive ==
    [][\A t \in Threads, p \in Ports :
         StartBegin(t, p) \/ StopBegin(t, p) => sid[t] = controller[p]]_vars
=============================================================================
