------------------------------ MODULE PortEvents ------------------------------
(***************************************************************************)
(* The state events of the ports: who is registered, which edge goes to    *)
(* whom, and when it arrives.  A transition takes a snapshot of the        *)
(* listeners under the mutex (setStateLocked) and its thread sends the     *)
(* edge to each of them after releasing it, before its next section.       *)
(***************************************************************************)
EXTENDS PortLifecycle, Sequences, SequencesExt

CONSTANTS
    Observers,          \* the event listeners
    MaxLost             \* bound of the edges that may be lost

ASSUME MaxLostAssumption == MaxLost \in Nat

VARIABLES
    eventListeners,     \* m_eventListeners of each port, in order
    outbox,             \* edges each thread has still to send
    pos,                \* where each observer believes each port is
    newcomers,          \* who registered since the port became OPENING
    misled,             \* how far off each belief is, for a reason of its own
    lost                \* edges that were refused so far

history   == <<newcomers, misled, lost>>
events    == <<eventListeners, outbox, pos, history>>
lifecycle == vars
eventVars == <<lifecycle, events>>

(* Every edge an observer hears takes one from the state it leaves and     *)
(* adds one to the state it enters: whatever order edges arrive in, the    *)
(* sum is right exactly when none was lost, sent twice or made up.         *)
States == Stable \union Transient
Account == [States -> Int]

Only(s) == [x \in States |-> IF x = s THEN 1 ELSE 0]
Right   == [x \in States |-> 0]

Moved(f, old, new) == [x \in States |-> f[x] + Only(new)[x] - Only(old)[x]]

(* An edge for one observer, and its place among those of the transition.  *)
Edge == [to : Observers, place : Nat, port : Ports, old : States, new : States]

(* On its way to o: one edge at most of each thread.                       *)
Owed(t, o, p) == {e \in outbox[t] : e.to = o /\ e.port = p}

Entering(o, p, x) == {t \in Threads : \E e \in Owed(t, o, p) : e.new = x}
Leaving(o, p, x)  == {t \in Threads : \E e \in Owed(t, o, p) : e.old = x}

InFlight(o, p) == [x \in States |-> Cardinality(Entering(o, p, x))
                                       - Cardinality(Leaving(o, p, x))]

(* A thread has one edge at most for an observer, and sends it once.       *)
EventsTypeOK ==
    /\ TypeOK
    /\ eventListeners \in [Ports -> Seq(Observers)]
    /\ \A p \in Ports : IsInjective(eventListeners[p])
    /\ outbox \in [Threads -> SUBSET Edge]
    /\ \A t \in Threads : \A e, f \in outbox[t] :
          e.to = f.to \/ e.place = f.place => e = f
    /\ pos \in [Observers -> [Ports -> Account]]
    /\ newcomers \in [Ports -> SUBSET Observers]
    /\ misled \in [Observers -> [Ports -> Account]]
    /\ lost \in 0..MaxLost

EventsInit ==
    /\ Init
    /\ eventListeners = [p \in Ports |-> <<>>]
    /\ outbox = [t \in Threads |-> {}]
    /\ pos = [o \in Observers |-> [p \in Ports |-> Only("CLOSED")]]
    /\ newcomers = [p \in Ports |-> {}]
    /\ misled = [o \in Observers |-> [p \in Ports |-> Right]]
    /\ lost = 0

----------------------------------------------------------------------------
(* Registration, one critical section each; the caller's thread does       *)
(* nothing else.  A second registration of a listener is dropped.  A new   *)
(* one polls the state; the edges of an earlier registration that are      *)
(* still on their way will mislead it.                                     *)
Enrol(o, p) ==
    /\ pos' = [pos EXCEPT ![o][p] = Only(state[p])]
    /\ misled' = [misled EXCEPT ![o][p] = InFlight(o, p)]
    /\ newcomers' = [newcomers EXCEPT
          ![p] = IF state[p] = "OPENING" THEN @ \union {o} ELSE @]

(* Variant: a listener that registers again is added again.                *)
RegisterAgain(o, p) ==
    /\ eventListeners' = [eventListeners EXCEPT ![p] = Append(@, o)]
    /\ Enrol(o, p)
    /\ UNCHANGED <<lifecycle, outbox, lost>>

Register(o, p) ==
    /\ IF o \in ToSet(eventListeners[p])
       THEN UNCHANGED <<eventListeners, pos, misled, newcomers>>
       ELSE /\ eventListeners' = [eventListeners EXCEPT ![p] = Append(@, o)]
            /\ Enrol(o, p)
    /\ UNCHANGED <<lifecycle, outbox, lost>>

(* Only the list changes: the edges on their way to the listener are in    *)
(* snapshots of other threads and arrive after the call has returned.  The *)
(* account of the registration ends.                                       *)
Unregister(o, p) ==
    /\ \E i \in DOMAIN eventListeners[p] :
          /\ eventListeners[p][i] = o
          /\ eventListeners' = [eventListeners EXCEPT ![p] = RemoveAt(@, i)]
    /\ pos' = [pos EXCEPT ![o][p] = Only("CLOSED")]
    /\ misled' = [misled EXCEPT ![o][p] = Right]
    /\ UNCHANGED <<lifecycle, outbox, newcomers, lost>>

----------------------------------------------------------------------------
(* Variant: OPENING is announced before the client is linked to.           *)
UnsentLate == {"close_unlink"}

(* The sections after a transition that run before its edge is sent:       *)
(* linking to the client (OPENING is announced only once that worked) and  *)
(* unlinking from it (CLOSED is announced after it).                       *)
Unsent == {"open_link", "open_undo", "close_unlink"}

Snapshot(p) ==
    IF state'[p] = state[p] THEN {}
    ELSE {[to |-> eventListeners[p][i], place |-> i, port |-> p,
           old |-> state[p], new |-> state'[p]] : i \in DOMAIN eventListeners[p]}

Announce(t, p) ==
    /\ outbox' = [outbox EXCEPT ![t] = @ \union Snapshot(p)]
    /\ newcomers' = [newcomers EXCEPT ![p] = IF state'[p] = state[p] THEN @ ELSE {}]
    /\ UNCHANGED <<pos, misled, lost>>

(* A rollback announces nothing, neither the OPENING it undoes nor the     *)
(* CLOSED it returns to.  Who registered since OPENING began, and is not   *)
(* in the snapshot of t, has seen OPENING and goes on believing it.        *)
Untold(t, p) == {o \in newcomers[p] : \A e \in outbox[t] : e.to # o}

Retract(t, p) ==
    /\ outbox' = [outbox EXCEPT ![t] = {}]
    /\ newcomers' = [newcomers EXCEPT ![p] = {}]
    /\ misled' = [o \in Observers |->
          IF o \in Untold(t, p)
          THEN [misled[o] EXCEPT ![p] = Moved(@, "CLOSED", "OPENING")]
          ELSE misled[o]]
    /\ UNCHANGED <<pos, lost>>

Publish(t, p) ==
    IF At(t, p, "open_undo") THEN Retract(t, p) ELSE Announce(t, p)

(* A thread sends an edge before it takes its next step.                   *)
Sent(t) == outbox[t] = {} \/ pc[t] \in Unsent

(* In the order of the listeners, to those who have left too: no account   *)
(* is kept of these.                                                       *)
Follows(o, p) == o \in ToSet(eventListeners[p])

Send(t, e) ==
    /\ pc[t] \notin Unsent
    /\ \A f \in outbox[t] : e.place <= f.place
    /\ outbox' = [outbox EXCEPT ![t] = @ \ {e}]
    /\ UNCHANGED <<lifecycle, eventListeners, newcomers>>

Deliver(t, e) ==
    /\ Send(t, e)
    /\ pos' = [pos EXCEPT ![e.to][e.port] =
          IF Follows(e.to, e.port) THEN Moved(@, e.old, e.new) ELSE @]
    /\ UNCHANGED <<misled, lost>>

(* The callback fails: the thread notes it and goes on, and nobody sends   *)
(* the edge again.  The listener stays registered.                         *)
Lose(t, e) ==
    /\ lost < MaxLost
    /\ Send(t, e)
    /\ misled' = [misled EXCEPT ![e.to][e.port] =
          IF Follows(e.to, e.port) THEN Moved(@, e.new, e.old) ELSE @]
    /\ lost' = lost + 1
    /\ UNCHANGED pos

PublishedStep(t, p) ==
    /\ Sent(t)
    /\ ThreadStep(t, p)
    /\ Publish(t, p)
    /\ UNCHANGED eventListeners

(* Steps that move no port.                                                *)
ServedStep(t) ==
    /\ Sent(t)
    /\ Call(t) \/ \E k \in links : NotifyDeath(t, k)
    /\ UNCHANGED events

ClientDies(c) == Die(c) /\ UNCHANGED events

EventsNext ==
    \/ \E o \in Observers, p \in Ports : Register(o, p) \/ Unregister(o, p)
    \/ \E t \in Threads : ServedStep(t)
    \/ \E t \in Threads : \E e \in outbox[t] : Deliver(t, e) \/ Lose(t, e)
    \/ \E t \in Threads, p \in Ports : PublishedStep(t, p)
    \/ \E c \in RemoteClients : ClientDies(c)

EventsSpec == EventsInit /\ [][EventsNext]_eventVars

----------------------------------------------------------------------------
(* The edges a registered observer has heard, with those still on their    *)
(* way, lead from the state in which it registered exactly to the state of *)
(* the port (setStateLocked, notifyStateChanged), whoever drives the       *)
(* transitions and in whatever order the edges arrive.  It is off by no    *)
(* more and no less than three things: edges of an earlier registration    *)
(* that arrive after it, an OPENING that it polled and that was rolled     *)
(* back unannounced, and edges that it refused.                            *)
EdgesAccounted ==
    \A p \in Ports : \A o \in ToSet(eventListeners[p]) : \A x \in States :
        pos[o][p][x] + InFlight(o, p)[x] = Only(state[p])[x] + misled[o][p][x]

(* Each edge is observed before the next one (the delivery barrier of      *)
(* EventListener.cpp): an edge that arrives at an observer that nothing    *)
(* has misled leaves the state that the last one entered.  Two threads     *)
(* that drive two successive transitions each wait for their own edge      *)
(* only, and the runs refute it.                                           *)
EventsInOrder ==
    [][\A t \in Threads : \A e \in outbox[t] :
         /\ Deliver(t, e)
         /\ e.to \in ToSet(eventListeners[e.port])
         /\ misled[e.to][e.port] = Right
         => pos[e.to][e.port] = Only(e.old)]_eventVars
=============================================================================
