---------------------------- MODULE PortContract -----------------------------
(***************************************************************************)
(* What a client of the service may rely on, without threads, locks or     *)
(* counters: each port walks the lifecycle of ICompositeInputPort one edge *)
(* at a time, belongs to one client from the moment it leaves CLOSED until *)
(* it is CLOSED again, and no more than Limit ports are started, or on     *)
(* their way up or down, at any time.                                      *)
(***************************************************************************)
EXTENDS Integers, FiniteSets

CONSTANTS Ports, Clients, Mortal, Limit, None

VARIABLES
    life,    \* the state of each port
    owner,   \* the client it is open for
    gone     \* the clients that have died

vars == <<life, owner, gone>>

Started == {p \in Ports : life[p] \in {"STARTING", "STARTED", "STOPPING"}}

Init ==
    /\ life = [p \in Ports |-> "CLOSED"]
    /\ owner = [p \in Ports |-> None]
    /\ gone = {}

Edge(p, from, to) == life[p] = from /\ life' = [life EXCEPT ![p] = to]

Keep(p, from, to) == Edge(p, from, to) /\ UNCHANGED <<owner, gone>>

Open(p, c) ==
    /\ Edge(p, "CLOSED", "OPENING")
    /\ owner' = [owner EXCEPT ![p] = c]
    /\ UNCHANGED gone

(* The client was gone before it could be observed: as if never opened.    *)
Undo(p) ==
    /\ owner[p] \in gone
    /\ Edge(p, "OPENING", "CLOSED")
    /\ owner' = [owner EXCEPT ![p] = None]
    /\ UNCHANGED gone

Opened(p)  == Keep(p, "OPENING", "READY")
Start(p)   == Cardinality(Started) < Limit /\ Keep(p, "READY", "STARTING")
Up(p)      == Keep(p, "STARTING", "STARTED")
Stop(p)    == Keep(p, "STARTED", "STOPPING")
Stopped(p) == Keep(p, "STOPPING", "READY")
Close(p)   == Keep(p, "READY", "CLOSING")

Closed(p) ==
    /\ Edge(p, "CLOSING", "CLOSED")
    /\ owner' = [owner EXCEPT ![p] = None]
    /\ UNCHANGED gone

Leave(c) ==
    /\ c \notin gone
    /\ gone' = gone \union {c}
    /\ UNCHANGED <<life, owner>>

Next ==
    \/ \E p \in Ports :
          \/ \E c \in Clients : Open(p, c)
          \/ Undo(p) \/ Opened(p) \/ Start(p) \/ Up(p)
          \/ Stop(p) \/ Stopped(p) \/ Close(p) \/ Closed(p)
    \/ \E c \in Mortal : Leave(c)

Spec == Init /\ [][Next]_vars
=============================================================================
