-------------------------- MODULE PortEventsProofs --------------------------
(* Proofs of the properties of PortEvents, for every set of ports,         *)
(* threads, clients and observers, every limit and number of sessions.     *)
EXTENDS PortEvents, PortLifecycleProofs, SequenceTheorems

(* The states are told apart by name alone.                                *)
USE DEF States

----------------------------------------------------------------------------
(* The inductive invariant.                                                *)

Listening(p) == ToSet(eventListeners[p])

(* The types of what this module adds to the lifecycle.                    *)
EdgesTyped ==
    /\ eventListeners \in [Ports -> Seq(Observers)]
    /\ \A p \in Ports : IsInjective(eventListeners[p])
    /\ outbox \in [Threads -> SUBSET Edge]
    /\ \A t \in Threads : \A e, f \in outbox[t] :
          e.to = f.to \/ e.place = f.place => e = f
    /\ pos \in [Observers -> [Ports -> Account]]
    /\ newcomers \in [Ports -> SUBSET Observers]
    /\ misled \in [Observers -> [Ports -> Account]]
    /\ lost \in 0..MaxLost

(* Until the client is linked to, OPENING waits in the outbox of open()    *)
(* for all who listen, but for the newcomers: this is what makes the       *)
(* rollback leave exactly these misled.                                    *)
Opening(t, p) == At(t, p, "open_link") \/ At(t, p, "open_undo")

OpeningWaits ==
    \A t \in Threads, p \in Ports : Opening(t, p) =>
        /\ \A e \in outbox[t] :
              e.port = p /\ e.old = "CLOSED" /\ e.new = "OPENING"
        /\ \A o \in Listening(p) :
              o \in newcomers[p] \/ \E e \in outbox[t] : e.to = o

EventsIInv ==
    /\ IInv
    /\ EdgesTyped
    /\ OpeningWaits
    /\ EdgesAccounted

----------------------------------------------------------------------------
(* The lifecycle underneath.                                               *)

(* Observers and their edges leave the lifecycle alone.                    *)
LEMMA LifecycleStep == [EventsNext]_eventVars => [Next]_vars
<1> SUFFICES ASSUME [EventsNext]_eventVars PROVE Next \/ UNCHANGED vars
  OBVIOUS
<1>1. ASSUME NEW o \in Observers, NEW p \in Ports, Register(o, p) \/ Unregister(o, p)
      PROVE  UNCHANGED vars
  BY <1>1 DEF Register, Unregister, lifecycle
<1>2. ASSUME NEW t \in Threads, NEW e \in outbox[t],
             Deliver(t, e) \/ Lose(t, e)
      PROVE  UNCHANGED vars
  BY <1>2 DEF Deliver, Lose, Send, lifecycle
<1>3. ASSUME NEW t \in Threads, ServedStep(t) PROVE Next
  BY <1>3 DEF ServedStep, Next
<1>4. ASSUME NEW t \in Threads, NEW p \in Ports, PublishedStep(t, p) PROVE Next
  BY <1>4 DEF PublishedStep, Next
<1>5. ASSUME NEW c \in RemoteClients, ClientDies(c) PROVE Next
  BY <1>5 DEF ClientDies, Next
<1>6. CASE UNCHANGED eventVars
  BY <1>6 DEF eventVars, lifecycle
<1> QED
  BY <1>1, <1>2, <1>3, <1>4, <1>5, <1>6 DEF EventsNext

(* What a section of thread t at port p does to the ports and the threads. *)
LEMMA SectionFrame ==
    ASSUME TypeOK, OneDriver, NEW t \in Threads, NEW p \in Ports,
           ThreadStep(t, p)
    PROVE  /\ port[t] = p
           /\ \A u \in Threads \ {t} : pc'[u] = pc[u] /\ port'[u] = port[u]
           /\ \A q \in Ports : q # p => state'[q] = state[q]
           /\ state'[p] # state[p] => pc[t] \notin {"open_link", "close_unlink"}
           /\ pc[t] = "open_undo" =>
                 /\ state[p] = "OPENING" /\ state'[p] = "CLOSED"
                 /\ pc'[t] = "idle"
           /\ pc'[t] = "open_link" =>
                 state[p] = "CLOSED" /\ state'[p] = "OPENING" /\ port'[t] = p
           /\ pc'[t] = "open_undo" =>
                 pc[t] = "open_link" /\ state'[p] = state[p] /\ port'[t] = p
           /\ state[p] = "OPENING" /\ state'[p] # state[p] => Driver(t, p)
<1> USE LabelFacts DEF TypeOK, OneDriver, Driver, session, threads, world, Goto,
        Enter, Return, SetState, RetireSession, At
<1>1. CASE OpenStep(t, p)
  BY <1>1 DEF OpenStep, OpenRejected, OpenBegin, OpenLink, OpenLinkFails,
     OpenUndo, OpenReady
<1>2. CASE CloseStep(t, p)
  BY <1>2 DEF CloseStep, CloseRejected, CloseBegin, CloseEnd, CloseUnlink
<1>3. CASE StartStep(t, p)
  BY <1>3 DEF StartStep, StartRefused, StartReserve, StartRejected,
     StartBegin, StartSignal, StartEnd, StartBaseline
<1>4. CASE StopStep(t, p)
  BY <1>4 DEF StopStep, StopRejected, StopBegin, StopReady, StopRelease
<1>5. CASE TailStep(t, p)
  BY <1>5 DEF TailStep, Tails, TailReturn, TailRunsCleanup
<1>6. CASE DeathStep(t, p)
  BY <1>6 DEF DeathStep, DeathIgnored, DeathDeferred, DeathStop,
     DeathSkipsStop, DeathReady, DeathRelease, DeathCloseIgnored,
     DeathCloseDeferred, DeathClose, DeathEnd
<1> QED
  BY <1>1, <1>2, <1>3, <1>4, <1>5, <1>6 DEF ThreadStep

(* A call, an obituary and a death move no port, and nobody is opening one *)
(* because of them.                                                        *)
LEMMA EnvironmentFrame ==
    ASSUME TypeOK,
           \/ \E t \in Threads : ServedStep(t)
           \/ \E c \in RemoteClients : ClientDies(c)
    PROVE  /\ UNCHANGED <<state, events>>
           /\ \A t \in Threads, p \in Ports : Opening(t, p)' => Opening(t, p)
<1> USE DEF TypeOK, session, threads, world, Enter, Opening, At
<1>1. ASSUME NEW t \in Threads, Call(t)
      PROVE  /\ UNCHANGED state
             /\ \A u \in Threads, p \in Ports : Opening(u, p)' => Opening(u, p)
  BY <1>1 DEF Call, CallOpen, CallController, ControllerCalls
<1>2. ASSUME NEW t \in Threads, NEW k \in links, NotifyDeath(t, k)
      PROVE  /\ UNCHANGED state
             /\ \A u \in Threads, p \in Ports : Opening(u, p)' => Opening(u, p)
  BY <1>2 DEF NotifyDeath
<1>3. ASSUME NEW c \in RemoteClients, Die(c)
      PROVE  /\ UNCHANGED state
             /\ \A u \in Threads, p \in Ports : Opening(u, p)' => Opening(u, p)
  BY <1>3 DEF Die
<1> QED
  BY <1>1, <1>2, <1>3 DEF ServedStep, ClientDies

----------------------------------------------------------------------------
(* Accounts.                                                               *)

(* What the account of a single state is.                                  *)
LEMMA OnlyFacts ==
    ASSUME NEW s, NEW x \in States
    PROVE  Only(s)[x] = IF x = s THEN 1 ELSE 0
BY DEF Only

(* The counts of the edges on their way are numbers of threads.            *)
LEMMA CountsAreNumbers ==
    ASSUME NEW o, NEW p, NEW x
    PROVE  /\ IsFiniteSet(Entering(o, p, x)) /\ IsFiniteSet(Leaving(o, p, x))
           /\ Cardinality(Entering(o, p, x)) \in 0..Cardinality(Threads)
           /\ Cardinality(Leaving(o, p, x)) \in 0..Cardinality(Threads)
<1>1. /\ Entering(o, p, x) \subseteq Threads /\ Leaving(o, p, x) \subseteq Threads
      /\ IsFiniteSet(Threads)
  BY ThreadsAssumption DEF Entering, Leaving
<1> QED
  BY <1>1, FS_Subset, FS_CardinalityType

(* The same after a step.                                                  *)
LEMMA CountsNext ==
    ASSUME NEW o, NEW p, NEW x
    PROVE  /\ Cardinality(Entering(o, p, x)') \in Int
           /\ Cardinality(Leaving(o, p, x)') \in Int
<1>1. /\ Entering(o, p, x)' \subseteq Threads /\ Leaving(o, p, x)' \subseteq Threads
      /\ IsFiniteSet(Threads)
  BY ThreadsAssumption DEF Entering, Leaving
<1> QED
  BY <1>1, FS_Subset, FS_CardinalityType

(* Accounts are made of accounts.                                          *)
LEMMA AccountsTyped ==
    ASSUME NEW o, NEW p, NEW s \in States, NEW r \in States, NEW f \in Account
    PROVE  /\ Only(s) \in Account /\ Right \in Account
           /\ Moved(f, s, r) \in Account
           /\ InFlight(o, p) \in Account
<1> USE DEF Account
<1>1. \A x \in States : Only(s)[x] \in Int /\ Only(r)[x] \in Int /\ f[x] \in Int
  BY OnlyFacts
<1>2. \A x \in States : /\ Cardinality(Entering(o, p, x)) \in Int
                         /\ Cardinality(Leaving(o, p, x)) \in Int
  BY CountsAreNumbers
<1>3. Only(s) \in Account /\ Right \in Account
  BY DEF Only, Right
<1>4. Moved(f, s, r) \in Account
  BY <1>1 DEF Moved
<1>5. InFlight(o, p) \in Account
  BY <1>2 DEF InFlight
<1> QED
  BY <1>3, <1>4, <1>5

(* Taking t out of a set lowers its cardinality only if t was in it.       *)
LEMMA LosesIfThere ==
    ASSUME NEW S, NEW t, IsFiniteSet(S), Cardinality(S) \in Int
    PROVE  Cardinality(S \ {t}) = Cardinality(S) - (IF t \in S THEN 1 ELSE 0)
<1>1. CASE t \in S
  BY <1>1, Loses
<1>2. CASE t \notin S
  <2>1. S \ {t} = S
    BY <1>2
  <2>2. Cardinality(S \ {t}) = Cardinality(S)
    BY <2>1
  <2>3. \A n \in Int : n = n - 0
    OBVIOUS
  <2> QED
    BY <1>2, <2>2, <2>3
<1> QED
  BY <1>1, <1>2

(* What an observer believes of a port and the edges on their way to it    *)
(* lead to state s, but for what has misled it.                            *)
Leads(o, p, s) ==
    \A x \in States :
        pos[o][p][x] + Cardinality(Entering(o, p, x)) - Cardinality(Leaving(o, p, x))
            = Only(s)[x] + misled[o][p][x]

(* The same after a step.                                                  *)
LeadsNext(o, p, s) ==
    \A x \in States :
        pos'[o][p][x] + Cardinality(Entering(o, p, x)')
            - Cardinality(Leaving(o, p, x)') = Only(s)[x] + misled'[o][p][x]

(* Adding a difference is adding and taking away.                          *)
LEMMA AddDifference == \A a, b, c \in Int : a + (b - c) = a + b - c
OBVIOUS

(* The edges are accounted for when they lead each listener to the state   *)
(* of its port.                                                            *)
LEMMA AccountedIsLeads ==
    ASSUME EdgesTyped
    PROVE  EdgesAccounted <=>
              \A p \in Ports : \A o \in Listening(p) : Leads(o, p, state[p])
<1>1. ASSUME NEW p \in Ports, NEW o \in Listening(p), NEW x \in States
      PROVE  pos[o][p][x] + InFlight(o, p)[x]
                = pos[o][p][x] + Cardinality(Entering(o, p, x))
                     - Cardinality(Leaving(o, p, x))
  <2>1. o \in Observers
    BY DEF Listening, EdgesTyped, ToSet
  <2>2. pos[o][p][x] \in Int
    BY <2>1 DEF EdgesTyped, Account
  <2>3. /\ Cardinality(Entering(o, p, x)) \in Int
        /\ Cardinality(Leaving(o, p, x)) \in Int
    BY CountsAreNumbers
  <2>4. InFlight(o, p)[x] = Cardinality(Entering(o, p, x))
                               - Cardinality(Leaving(o, p, x))
    BY DEF InFlight
  <2> QED
    BY <2>2, <2>3, <2>4, AddDifference
<1> QED
  BY <1>1 DEF EdgesAccounted, Leads, Listening

(* The same after a step.                                                  *)
LEMMA AccountedIfLeadsNext ==
    ASSUME EdgesTyped', \A p \in Ports : \A o \in Listening(p)' : LeadsNext(o, p, state'[p])
    PROVE  EdgesAccounted'
<1>1. ASSUME NEW p \in Ports, NEW o \in Listening(p)', NEW x \in States
      PROVE  pos'[o][p][x] + InFlight(o, p)'[x] = Only(state'[p])[x] + misled'[o][p][x]
  <2>1. o \in Observers
    BY DEF Listening, EdgesTyped, ToSet
  <2>2. pos'[o][p][x] \in Int
    BY <2>1 DEF EdgesTyped, Account
  <2>3. /\ Cardinality(Entering(o, p, x)') \in Int
        /\ Cardinality(Leaving(o, p, x)') \in Int
    BY CountsNext
  <2>4. InFlight(o, p)'[x] = Cardinality(Entering(o, p, x)')
                                - Cardinality(Leaving(o, p, x)')
    BY DEF InFlight
  <2>5. pos'[o][p][x] + Cardinality(Entering(o, p, x)')
            - Cardinality(Leaving(o, p, x)') = Only(state'[p])[x] + misled'[o][p][x]
    BY DEF LeadsNext
  <2> QED
    BY <2>2, <2>3, <2>4, <2>5, AddDifference
<1> QED
  BY <1>1 DEF EdgesAccounted, Listening

(* A step that changes neither what an observer believes, nor what is on   *)
(* its way to it, nor what has misled it.                                  *)
LEMMA SameOwed ==
    ASSUME NEW o, NEW p, NEW s, Leads(o, p, s),
           \A u \in Threads : Owed(u, o, p)' = Owed(u, o, p),
           pos'[o][p] = pos[o][p], misled'[o][p] = misled[o][p]
    PROVE  LeadsNext(o, p, s)
<1>1. \A x : /\ Entering(o, p, x)' = Entering(o, p, x)
             /\ Leaving(o, p, x)' = Leaving(o, p, x)
  BY DEF Entering, Leaving
<1> QED
  BY <1>1 DEF Leads, LeadsNext

(* A registration: what is on its way is what misleads.                    *)
LEMMA StartsAfresh ==
    ASSUME NEW o \in Observers, NEW p \in Ports, NEW s \in States,
           \A u \in Threads : Owed(u, o, p)' = Owed(u, o, p),
           pos'[o][p] = Only(s), misled'[o][p] = InFlight(o, p)
    PROVE  LeadsNext(o, p, s)
<1> SUFFICES ASSUME NEW x \in States
             PROVE  pos'[o][p][x] + Cardinality(Entering(o, p, x)')
                       - Cardinality(Leaving(o, p, x)') = Only(s)[x] + misled'[o][p][x]
  BY DEF LeadsNext
<1>1. /\ Entering(o, p, x)' = Entering(o, p, x)
      /\ Leaving(o, p, x)' = Leaving(o, p, x)
  BY DEF Entering, Leaving
<1>2. /\ Cardinality(Entering(o, p, x)) \in Int
      /\ Cardinality(Leaving(o, p, x)) \in Int
  BY CountsAreNumbers
<1>3. InFlight(o, p)[x] = Cardinality(Entering(o, p, x)) - Cardinality(Leaving(o, p, x))
  BY DEF InFlight
<1>4. Only(s)[x] \in Int
  BY OnlyFacts
<1> QED
  BY <1>1, <1>2, <1>3, <1>4, AddDifference

(* The state goes back and nobody tells the observer: it is misled by one  *)
(* edge more.                                                              *)
LEMMA GoesBackUntold ==
    ASSUME NEW o \in Observers, NEW p \in Ports, NEW old \in States, NEW new \in States,
           EdgesTyped, Leads(o, p, new),
           \A u \in Threads : Owed(u, o, p)' = Owed(u, o, p),
           pos'[o][p] = pos[o][p], misled'[o][p] = Moved(misled[o][p], old, new)
    PROVE  LeadsNext(o, p, old)
<1> SUFFICES ASSUME NEW x \in States
             PROVE  pos'[o][p][x] + Cardinality(Entering(o, p, x)')
                       - Cardinality(Leaving(o, p, x)') = Only(old)[x] + misled'[o][p][x]
  BY DEF LeadsNext
<1>1. /\ Entering(o, p, x)' = Entering(o, p, x)
      /\ Leaving(o, p, x)' = Leaving(o, p, x)
  BY DEF Entering, Leaving
<1>2. pos[o][p][x] + Cardinality(Entering(o, p, x)) - Cardinality(Leaving(o, p, x))
         = Only(new)[x] + misled[o][p][x]
  BY DEF Leads
<1>3. misled'[o][p][x] = misled[o][p][x] + Only(new)[x] - Only(old)[x]
  BY DEF Moved
<1>4. Only(new)[x] \in Int /\ Only(old)[x] \in Int /\ misled[o][p][x] \in Int
  BY OnlyFacts DEF EdgesTyped, Account
<1> QED
  BY <1>1, <1>2, <1>3, <1>4

(* Thread t takes on one edge, from the state to the next.                 *)
LEMMA OwesOneMore ==
    ASSUME NEW o \in Observers, NEW p \in Ports, NEW t \in Threads, NEW e,
           e.old \in States, e.new \in States, e.old # e.new,
           EdgesTyped, Leads(o, p, e.old),
           Owed(t, o, p) = {}, Owed(t, o, p)' = {e},
           \A u \in Threads \ {t} : Owed(u, o, p)' = Owed(u, o, p),
           pos'[o][p] = pos[o][p], misled'[o][p] = misled[o][p]
    PROVE  LeadsNext(o, p, e.new)
<1> SUFFICES ASSUME NEW x \in States
             PROVE  pos'[o][p][x] + Cardinality(Entering(o, p, x)')
                       - Cardinality(Leaving(o, p, x)')
                          = Only(e.new)[x] + misled'[o][p][x]
  BY DEF LeadsNext
<1>1. /\ t \notin Entering(o, p, x) /\ t \notin Leaving(o, p, x)
      /\ Entering(o, p, x)' = IF x = e.new THEN Entering(o, p, x) \union {t}
                              ELSE Entering(o, p, x)
      /\ Leaving(o, p, x)' = IF x = e.old THEN Leaving(o, p, x) \union {t}
                             ELSE Leaving(o, p, x)
  BY DEF Entering, Leaving
<1>2. /\ IsFiniteSet(Entering(o, p, x)) /\ IsFiniteSet(Leaving(o, p, x))
      /\ Cardinality(Entering(o, p, x)) \in Int /\ Cardinality(Leaving(o, p, x)) \in Int
  BY CountsAreNumbers
<1>3. /\ Cardinality(Entering(o, p, x)') = Cardinality(Entering(o, p, x))
                                             + (IF x = e.new THEN 1 ELSE 0)
      /\ Cardinality(Leaving(o, p, x)') = Cardinality(Leaving(o, p, x))
                                             + (IF x = e.old THEN 1 ELSE 0)
  BY <1>1, <1>2, Gains
<1>4. pos[o][p][x] + Cardinality(Entering(o, p, x)) - Cardinality(Leaving(o, p, x))
         = Only(e.old)[x] + misled[o][p][x]
  BY DEF Leads
<1>5. pos[o][p][x] \in Int /\ misled[o][p][x] \in Int
  BY DEF EdgesTyped, Account
<1>6. /\ Only(e.old)[x] = IF x = e.old THEN 1 ELSE 0
      /\ Only(e.new)[x] = IF x = e.new THEN 1 ELSE 0
  BY OnlyFacts
<1> QED
  BY <1>2, <1>3, <1>4, <1>5, <1>6

(* Thread t has one edge less to send.  It was heard, or it was refused    *)
(* and the observer is misled, or it was never sent and the state went     *)
(* back to where it came from.                                             *)
LEMMA OwesOneLess ==
    ASSUME NEW o \in Observers, NEW p \in Ports, NEW t \in Threads, NEW e,
           NEW s \in States, NEW r, e.old \in States, e.new \in States,
           EdgesTyped, Leads(o, p, s),
           Owed(t, o, p) = {e}, Owed(t, o, p)' = {},
           \A u \in Threads \ {t} : Owed(u, o, p)' = Owed(u, o, p),
           \/ /\ pos'[o][p] = Moved(pos[o][p], e.old, e.new)
              /\ misled'[o][p] = misled[o][p] /\ r = s
           \/ /\ misled'[o][p] = Moved(misled[o][p], e.new, e.old)
              /\ pos'[o][p] = pos[o][p] /\ r = s
           \/ /\ pos'[o][p] = pos[o][p] /\ misled'[o][p] = misled[o][p]
              /\ s = e.new /\ r = e.old
    PROVE  LeadsNext(o, p, r)
<1> SUFFICES ASSUME NEW x \in States
             PROVE  pos'[o][p][x] + Cardinality(Entering(o, p, x)')
                       - Cardinality(Leaving(o, p, x)') = Only(r)[x] + misled'[o][p][x]
  BY DEF LeadsNext
<1>1. /\ t \in Entering(o, p, x) <=> x = e.new
      /\ t \in Leaving(o, p, x) <=> x = e.old
      /\ Entering(o, p, x)' = Entering(o, p, x) \ {t}
      /\ Leaving(o, p, x)' = Leaving(o, p, x) \ {t}
  BY DEF Entering, Leaving
<1>2. /\ IsFiniteSet(Entering(o, p, x)) /\ IsFiniteSet(Leaving(o, p, x))
      /\ Cardinality(Entering(o, p, x)) \in Int /\ Cardinality(Leaving(o, p, x)) \in Int
  BY CountsAreNumbers
<1>3. /\ Cardinality(Entering(o, p, x)') = Cardinality(Entering(o, p, x))
                                             - (IF x = e.new THEN 1 ELSE 0)
      /\ Cardinality(Leaving(o, p, x)') = Cardinality(Leaving(o, p, x))
                                             - (IF x = e.old THEN 1 ELSE 0)
  BY <1>1, <1>2, LosesIfThere
<1>4. pos[o][p][x] + Cardinality(Entering(o, p, x)) - Cardinality(Leaving(o, p, x))
         = Only(s)[x] + misled[o][p][x]
  BY DEF Leads
<1>5. pos[o][p][x] \in Int /\ misled[o][p][x] \in Int
  BY DEF EdgesTyped, Account
<1>6. /\ Only(e.old)[x] = IF x = e.old THEN 1 ELSE 0
      /\ Only(e.new)[x] = IF x = e.new THEN 1 ELSE 0
      /\ Only(s)[x] \in Int
  BY OnlyFacts
<1>7. CASE /\ pos'[o][p] = Moved(pos[o][p], e.old, e.new)
           /\ misled'[o][p] = misled[o][p] /\ r = s
  <2>1. pos'[o][p][x] = pos[o][p][x] + Only(e.new)[x] - Only(e.old)[x]
    BY <1>7 DEF Moved
  <2> QED
    BY <1>2, <1>3, <1>4, <1>5, <1>6, <1>7, <2>1
<1>8. CASE /\ misled'[o][p] = Moved(misled[o][p], e.new, e.old)
           /\ pos'[o][p] = pos[o][p] /\ r = s
  <2>1. misled'[o][p][x] = misled[o][p][x] + Only(e.old)[x] - Only(e.new)[x]
    BY <1>8 DEF Moved
  <2>2. CASE x = e.new
    <3>1. CASE x = e.old
      BY <1>2, <1>3, <1>4, <1>5, <1>6, <1>8, <2>1, <2>2, <3>1
    <3>2. CASE x # e.old
      BY <1>2, <1>3, <1>4, <1>5, <1>6, <1>8, <2>1, <2>2, <3>2
    <3> QED
      BY <3>1, <3>2
  <2>3. CASE x # e.new
    BY <1>2, <1>3, <1>4, <1>5, <1>6, <1>8, <2>1, <2>3
  <2> QED
    BY <2>2, <2>3
<1>9. CASE /\ pos'[o][p] = pos[o][p] /\ misled'[o][p] = misled[o][p]
           /\ s = e.new /\ r = e.old
  BY <1>2, <1>3, <1>4, <1>5, <1>6, <1>9
<1> QED
  BY <1>7, <1>8, <1>9

----------------------------------------------------------------------------
(* The list of listeners.                                                  *)

(* Adding a listener that is not there.                                    *)
LEMMA AddsOne ==
    ASSUME NEW S, NEW s \in Seq(S), NEW o \in S, IsInjective(s), o \notin ToSet(s)
    PROVE  /\ Append(s, o) \in Seq(S)
           /\ IsInjective(Append(s, o))
           /\ ToSet(Append(s, o)) = ToSet(s) \union {o}
<1>1. /\ Append(s, o) \in Seq(S)
      /\ Len(Append(s, o)) = Len(s) + 1
      /\ Append(s, o)[Len(s) + 1] = o
      /\ \A i \in 1..Len(s) : Append(s, o)[i] = s[i]
  OBVIOUS
<1>2. /\ DOMAIN s = 1..Len(s)
      /\ DOMAIN Append(s, o) = 1..Len(s) + 1
      /\ Len(s) \in Nat
  OBVIOUS
<1>3. IsInjective(Append(s, o))
  BY <1>1, <1>2 DEF IsInjective, ToSet
<1>4. ToSet(Append(s, o)) = ToSet(s) \union {o}
  <2>1. ASSUME NEW i \in 1..Len(s) + 1
        PROVE  Append(s, o)[i] \in ToSet(s) \union {o}
    BY <1>1, <1>2 DEF ToSet
  <2>2. ASSUME NEW i \in 1..Len(s)
        PROVE  s[i] \in ToSet(Append(s, o))
    <3>1. i \in DOMAIN Append(s, o) /\ Append(s, o)[i] = s[i]
      BY <1>1, <1>2
    <3> QED
      BY <3>1 DEF ToSet
  <2>3. o \in ToSet(Append(s, o))
    BY <1>1, <1>2 DEF ToSet
  <2> QED
    BY <1>2, <2>1, <2>2, <2>3 DEF ToSet
<1> QED
  BY <1>1, <1>3, <1>4

(* Removing the one place a listener has.                                  *)
LEMMA RemovesOne ==
    ASSUME NEW S, NEW s \in Seq(S), NEW i \in DOMAIN s, IsInjective(s)
    PROVE  /\ RemoveAt(s, i) \in Seq(S)
           /\ IsInjective(RemoveAt(s, i))
           /\ ToSet(RemoveAt(s, i)) = ToSet(s) \ {s[i]}
<1> DEFINE r == RemoveAt(s, i)
           n == Len(s)
<1>1. i \in 1..n /\ n \in Nat /\ DOMAIN s = 1..n
  OBVIOUS
<1>2. /\ r \in Seq(S) /\ Len(r) = n - 1 /\ DOMAIN r = 1..n - 1
      /\ \A j \in 1..n - 1 : r[j] = IF j < i THEN s[j] ELSE s[j + 1]
  <2> DEFINE a == SubSeq(s, 1, i - 1)
             b == SubSeq(s, i + 1, n)
  <2>1. /\ a \in Seq(S) /\ Len(a) = i - 1
        /\ \A j \in 1..i - 1 : a[j] = s[j]
    BY <1>1
  <2>2. /\ b \in Seq(S) /\ Len(b) = n - i
        /\ \A j \in 1..n - i : b[j] = s[i + j]
    BY <1>1
  <2>3. r = a \o b
    BY DEF RemoveAt
  <2> HIDE DEF a, b, r, n
  <2>4. /\ r \in Seq(S) /\ Len(r) = n - 1 /\ DOMAIN r = 1..n - 1
        /\ \A j \in 1..n - 1 : r[j] = IF j < i THEN a[j] ELSE b[j - (i - 1)]
    <3>1. /\ r \in Seq(S) /\ Len(r) = Len(a) + Len(b)
          /\ \A j \in 1..Len(a) + Len(b) :
                r[j] = IF j <= Len(a) THEN a[j] ELSE b[j - Len(a)]
      BY <2>1, <2>2, <2>3, ConcatProperties
    <3>2. Len(a) + Len(b) = n - 1 /\ DOMAIN r = 1..Len(r)
      BY <1>1, <2>1, <2>2, <3>1
    <3>3. \A j \in 1..n - 1 : j <= Len(a) <=> j < i
      BY <1>1, <2>1
    <3> QED
      BY <2>1, <3>1, <3>2, <3>3
  <2>5. ASSUME NEW j \in 1..n - 1
        PROVE  r[j] = IF j < i THEN s[j] ELSE s[j + 1]
    <3>1. CASE j < i
      BY <1>1, <2>1, <2>4, <3>1
    <3>2. CASE j >= i
      <4>1. /\ j - (i - 1) \in 1..n - i /\ i + (j - (i - 1)) = j + 1
            /\ ~ (j < i)
        BY <1>1, <3>2
      <4>2. b[j - (i - 1)] = s[j + 1]
        BY <2>2, <4>1
      <4> QED
        BY <2>4, <4>1, <4>2
    <3> QED
      BY <1>1, <3>1, <3>2
  <2> QED
    BY <2>4, <2>5
<1>3. IsInjective(r)
  <2> HIDE DEF r, n
  <2> SUFFICES ASSUME NEW j \in 1..n - 1, NEW k \in 1..n - 1, r[j] = r[k]
               PROVE  j = k
    BY <1>2 DEF IsInjective
  <2> DEFINE at(x) == IF x < i THEN x ELSE x + 1
  <2>1. at(j) \in DOMAIN s /\ at(k) \in DOMAIN s /\ s[at(j)] = s[at(k)]
    BY <1>1, <1>2
  <2>2. at(j) = at(k)
    BY <2>1 DEF IsInjective
  <2> QED
    BY <1>1, <2>2
<1>4. ASSUME NEW j \in 1..n - 1 PROVE r[j] \in ToSet(s) \ {s[i]}
  <2>1. \E k \in 1..n : k # i /\ r[j] = s[k]
    BY <1>1, <1>2
  <2> QED
    BY <1>1, <2>1 DEF IsInjective, ToSet
<1>5. ASSUME NEW k \in 1..n, s[k] # s[i] PROVE s[k] \in ToSet(r)
  <2>1. \E j \in 1..n - 1 : r[j] = s[k]
    <3>1. CASE k < i
      BY <1>1, <1>2, <3>1
    <3>2. CASE k > i
      <4>1. k - 1 \in 1..n - 1 /\ r[k - 1] = s[k]
        BY <1>1, <1>2, <3>2
      <4> QED
        BY <4>1
    <3> QED
      BY <1>1, <1>5, <3>1, <3>2
  <2> QED
    BY <1>2, <2>1 DEF ToSet
<1>6. ToSet(r) = ToSet(s) \ {s[i]}
  <2> HIDE DEF r
  <2> QED
    BY <1>1, <1>2, <1>4, <1>5 DEF ToSet
<1> QED
  BY <1>2, <1>3, <1>6

----------------------------------------------------------------------------
(* The inductive invariant, step by step.                                  *)

(* It holds when the service comes up.                                     *)
LEMMA EventsIInvInit == EventsInit => EventsIInv
<1> SUFFICES ASSUME EventsInit PROVE EventsIInv
  OBVIOUS
<1>1. IInv
  BY IInvInit DEF EventsInit
<1>2. \A p \in Ports : eventListeners[p] = <<>> /\ Listening(p) = {}
  BY DEF EventsInit, Listening, ToSet
<1>3. EdgesTyped
  <2>1. Only("CLOSED") \in Account /\ Right \in Account
    BY DEF Account, Only, Right
  <2> QED
    BY <1>2, <2>1, MaxLostAssumption DEF EventsInit, EdgesTyped, IsInjective
<1>4. OpeningWaits
  BY DEF EventsInit, Init, OpeningWaits, Opening, At
<1>5. EdgesAccounted
  BY <1>2 DEF EdgesAccounted, Listening
<1> QED
  BY <1>1, <1>3, <1>4, <1>5 DEF EventsIInv

(* While t opens port p the port is OPENING.                               *)
LEMMA OpeningState ==
    ASSUME TypeOK, OneDriver, NEW t \in Threads, NEW p \in Ports, Opening(t, p)
    PROVE  state[p] = "OPENING" /\ Driver(t, p)
BY LabelFacts DEF OneDriver, Driver, Opening, At

(* Listeners are observers.                                                *)
LEMMA ListenersObserve ==
    ASSUME EdgesTyped, NEW p \in Ports
    PROVE  Listening(p) \subseteq Observers
BY DEF EdgesTyped, Listening, ToSet

(* A step that moves no port, starts no open() and touches no observer.    *)
LEMMA QuietStep ==
    ASSUME EventsIInv, IInv', UNCHANGED <<state, events>>,
           \A t \in Threads, p \in Ports : Opening(t, p)' => Opening(t, p)
    PROVE  EventsIInv'
<1>1. EdgesTyped'
  BY DEF EventsIInv, events, history, EdgesTyped
<1>2. OpeningWaits'
  BY DEF EventsIInv, events, history, OpeningWaits, Listening
<1>3. EdgesAccounted'
  <2>1. ASSUME NEW p \in Ports, NEW o \in Listening(p)'
        PROVE  LeadsNext(o, p, state'[p])
    <3>1. /\ Leads(o, p, state[p]) /\ state'[p] = state[p]
          /\ pos'[o][p] = pos[o][p] /\ misled'[o][p] = misled[o][p]
          /\ \A u \in Threads : Owed(u, o, p)' = Owed(u, o, p)
      BY AccountedIsLeads DEF EventsIInv, events, history, Listening, Owed
    <3> QED
      BY <3>1, SameOwed
  <2> QED
    BY <1>1, <2>1, AccountedIfLeadsNext
<1> QED
  BY <1>1, <1>2, <1>3 DEF EventsIInv

(* A new listener starts from the state it polls; one that is there        *)
(* already changes nothing.                                                *)
LEMMA RegisterStep ==
    ASSUME EventsIInv, IInv', NEW o \in Observers, NEW p \in Ports, Register(o, p)
    PROVE  EventsIInv'
<1> USE DEF Listening
<1>1. CASE o \in Listening(p)
  <2>1. UNCHANGED <<state, events>>
    BY <1>1 DEF Register, events, history, lifecycle, vars
  <2>2. UNCHANGED pc /\ UNCHANGED port
    BY DEF Register, lifecycle, vars, threads
  <2> QED
    BY <2>1, <2>2, QuietStep DEF Opening, At
<1>2. CASE o \notin Listening(p)
  <2>1. /\ eventListeners' = [eventListeners EXCEPT ![p] = Append(@, o)]
        /\ pos' = [pos EXCEPT ![o][p] = Only(state[p])]
        /\ misled' = [misled EXCEPT ![o][p] = InFlight(o, p)]
        /\ newcomers' = [newcomers EXCEPT
              ![p] = IF state[p] = "OPENING" THEN @ \union {o} ELSE @]
        /\ UNCHANGED <<state, pc, port, outbox, lost>>
    BY <1>2 DEF Register, Enrol, lifecycle, vars, threads
  <2>2. /\ eventListeners'[p] \in Seq(Observers) /\ IsInjective(eventListeners'[p])
        /\ Listening(p)' = Listening(p) \union {o}
        /\ \A q \in Ports : q # p => eventListeners'[q] = eventListeners[q]
    BY <1>2, <2>1, AddsOne DEF EventsIInv, EdgesTyped
  <2>3. /\ pos'[o][p] = Only(state[p]) /\ misled'[o][p] = InFlight(o, p)
        /\ \A i \in Observers, q \in Ports : i # o \/ q # p =>
              pos'[i][q] = pos[i][q] /\ misled'[i][q] = misled[i][q]
    BY <2>1 DEF EventsIInv, EdgesTyped
  <2>4. /\ newcomers' \in [Ports -> SUBSET Observers]
        /\ \A q \in Ports : newcomers[q] \subseteq newcomers'[q]
        /\ state[p] = "OPENING" => o \in newcomers'[p]
    BY <2>1 DEF EventsIInv, EdgesTyped
  <2>5. state[p] \in States
    BY DEF EventsIInv, IInv, TypeOK
  <2>6. Only(state[p]) \in Account /\ InFlight(o, p) \in Account
    <3>1. pos[o][p] \in Account
      BY DEF EventsIInv, EdgesTyped
    <3> QED
      BY <2>5, <3>1, AccountsTyped
  <2>7. EdgesTyped'
    <3>1. eventListeners' \in [Ports -> Seq(Observers)]
      BY <2>1, <2>2 DEF EventsIInv, EdgesTyped
    <3>2. pos' \in [Observers -> [Ports -> Account]]
      BY <2>1, <2>6 DEF EventsIInv, EdgesTyped
    <3>3. misled' \in [Observers -> [Ports -> Account]]
      BY <2>1, <2>6 DEF EventsIInv, EdgesTyped
    <3> QED
      BY <2>1, <2>2, <2>4, <3>1, <3>2, <3>3 DEF EventsIInv, EdgesTyped
  <2>8. \A u \in Threads, i \in Observers, q \in Ports :
           Owed(u, i, q)' = Owed(u, i, q)
    BY <2>1 DEF Owed
  <2>9. OpeningWaits'
    <3> SUFFICES ASSUME NEW t \in Threads, NEW q \in Ports, Opening(t, q)
                 PROVE  /\ \A e \in outbox[t] :
                              e.port = q /\ e.old = "CLOSED" /\ e.new = "OPENING"
                        /\ \A i \in Listening(q)' :
                              i \in newcomers'[q] \/ \E e \in outbox[t] : e.to = i
      BY <2>1 DEF OpeningWaits, Opening, At
    <3>1. /\ \A e \in outbox[t] :
                e.port = q /\ e.old = "CLOSED" /\ e.new = "OPENING"
          /\ \A i \in Listening(q) :
                i \in newcomers[q] \/ \E e \in outbox[t] : e.to = i
      BY DEF EventsIInv, OpeningWaits
    <3>2. ASSUME NEW i \in Listening(q)'
          PROVE  i \in newcomers'[q] \/ \E e \in outbox[t] : e.to = i
      <4>1. CASE i = o /\ q = p
        BY <2>4, <4>1, OpeningState DEF EventsIInv, IInv
      <4>2. CASE ~ (i = o /\ q = p)
        <5>1. i \in Listening(q)
          BY <2>2, <4>2
        <5> QED
          BY <2>4, <3>1, <5>1
      <4> QED
        BY <4>1, <4>2
    <3> QED
      BY <3>1, <3>2
  <2>10. ASSUME NEW q \in Ports, NEW i \in Listening(q)'
         PROVE  LeadsNext(i, q, state'[q])
    <3>1. CASE i = o /\ q = p
      <4>1. LeadsNext(o, p, state[p])
        BY <2>3, <2>5, <2>8, StartsAfresh
      <4> QED
        BY <2>1, <3>1, <4>1
    <3>2. CASE ~ (i = o /\ q = p)
      <4>1. i \in Listening(q)
        BY <2>2, <3>2
      <4>2. i \in Observers
        BY <4>1, ListenersObserve DEF EventsIInv
      <4>3. Leads(i, q, state[q])
        BY <4>1, AccountedIsLeads DEF EventsIInv
      <4>4. LeadsNext(i, q, state[q])
        BY <2>3, <2>8, <3>2, <4>2, <4>3, SameOwed
      <4> QED
        BY <2>1, <4>4
    <3> QED
      BY <3>1, <3>2
  <2>11. EdgesAccounted'
    BY <2>7, <2>10, AccountedIfLeadsNext
  <2> QED
    BY <2>7, <2>9, <2>11 DEF EventsIInv
<1> QED
  BY <1>1, <1>2

(* A listener that leaves ends its own account; what is on its way to it   *)
(* stays on its way.                                                       *)
LEMMA UnregisterStep ==
    ASSUME EventsIInv, IInv', NEW o \in Observers, NEW p \in Ports, Unregister(o, p)
    PROVE  EventsIInv'
<1> USE DEF Listening
<1>1. PICK i \in DOMAIN eventListeners[p] :
         /\ eventListeners[p][i] = o
         /\ eventListeners' = [eventListeners EXCEPT ![p] = RemoveAt(@, i)]
  BY DEF Unregister
<1>2. /\ pos' = [pos EXCEPT ![o][p] = Only("CLOSED")]
      /\ misled' = [misled EXCEPT ![o][p] = Right]
      /\ UNCHANGED <<state, pc, port, outbox, newcomers, lost>>
  BY DEF Unregister, lifecycle, vars, threads
<1>3. /\ eventListeners'[p] \in Seq(Observers) /\ IsInjective(eventListeners'[p])
      /\ Listening(p)' = Listening(p) \ {o}
      /\ \A q \in Ports : q # p => eventListeners'[q] = eventListeners[q]
  BY <1>1, RemovesOne DEF EventsIInv, EdgesTyped
<1>4. /\ \A j \in Observers, q \in Ports : j # o \/ q # p =>
            pos'[j][q] = pos[j][q] /\ misled'[j][q] = misled[j][q]
      /\ Only("CLOSED") \in Account /\ Right \in Account
  BY <1>2 DEF EventsIInv, EdgesTyped, Account, Only, Right
<1>5. EdgesTyped'
  <2>1. eventListeners' \in [Ports -> Seq(Observers)]
    BY <1>1, <1>3 DEF EventsIInv, EdgesTyped
  <2>2. pos' \in [Observers -> [Ports -> Account]]
    BY <1>2, <1>4 DEF EventsIInv, EdgesTyped
  <2>3. misled' \in [Observers -> [Ports -> Account]]
    BY <1>2, <1>4 DEF EventsIInv, EdgesTyped
  <2> QED
    BY <1>2, <1>3, <2>1, <2>2, <2>3 DEF EventsIInv, EdgesTyped
<1>6. \A q \in Ports : Listening(q)' \subseteq Listening(q)
  BY <1>3
<1>7. OpeningWaits'
  BY <1>2, <1>6 DEF EventsIInv, OpeningWaits, Opening, At
<1>8. ASSUME NEW q \in Ports, NEW j \in Listening(q)'
      PROVE  LeadsNext(j, q, state'[q])
  <2>1. (j # o \/ q # p) /\ j \in Listening(q)
    BY <1>3
  <2>2. j \in Observers
    BY <2>1, ListenersObserve DEF EventsIInv
  <2>3. Leads(j, q, state[q])
    BY <2>1, AccountedIsLeads DEF EventsIInv
  <2>4. \A u \in Threads : Owed(u, j, q)' = Owed(u, j, q)
    BY <1>2 DEF Owed
  <2>5. LeadsNext(j, q, state[q])
    BY <1>4, <2>1, <2>2, <2>3, <2>4, SameOwed
  <2> QED
    BY <1>2, <2>5
<1>9. EdgesAccounted'
  BY <1>5, <1>8, AccountedIfLeadsNext
<1> QED
  BY <1>5, <1>7, <1>9 DEF EventsIInv

(* An edge that arrives moves what its listener believes; one that is      *)
(* refused misleads it.                                                    *)
LEMMA SendStep ==
    ASSUME EventsIInv, IInv', NEW t \in Threads, NEW e \in outbox[t],
           Deliver(t, e) \/ Lose(t, e)
    PROVE  EventsIInv'
<1> DEFINE o == e.to
           p == e.port
<1>1. /\ outbox' = [outbox EXCEPT ![t] = @ \ {e}]
      /\ UNCHANGED <<state, pc, port, eventListeners, newcomers>>
      /\ \A q \in Ports : ~ Opening(t, q)
  BY DEF Deliver, Lose, Send, lifecycle, vars, threads, Unsent, Opening, At
<1>2. /\ e.to \in Observers /\ e.port \in Ports /\ e.old \in States /\ e.new \in States
  BY DEF EventsIInv, EdgesTyped, Edge
<1>3. /\ outbox'[t] = outbox[t] \ {e}
      /\ \A u \in Threads : u # t => outbox'[u] = outbox[u]
  BY <1>1 DEF EventsIInv, EdgesTyped
<1>4. /\ pos[o][p] \in Account /\ misled[o][p] \in Account
      /\ \A f \in Account : Moved(f, e.old, e.new) \in Account
                             /\ Moved(f, e.new, e.old) \in Account
  <2>1. ASSUME NEW f \in Account
        PROVE  Moved(f, e.old, e.new) \in Account /\ Moved(f, e.new, e.old) \in Account
    BY <1>2, AccountsTyped
  <2>2. pos[o][p] \in Account /\ misled[o][p] \in Account
    BY <1>2 DEF EventsIInv, EdgesTyped
  <2> QED
    BY <2>1, <2>2
<1>5. \/ /\ pos' = [pos EXCEPT ![o][p] = IF Follows(o, p)
                                         THEN Moved(@, e.old, e.new) ELSE @]
         /\ UNCHANGED <<misled, lost>>
      \/ /\ misled' = [misled EXCEPT ![o][p] = IF Follows(o, p)
                                               THEN Moved(@, e.new, e.old) ELSE @]
         /\ UNCHANGED pos /\ lost' = lost + 1 /\ lost < MaxLost
  BY DEF Deliver, Lose
<1>6. /\ \A j \in Observers, q \in Ports : j # o \/ q # p =>
            pos'[j][q] = pos[j][q] /\ misled'[j][q] = misled[j][q]
      /\ o \in Listening(p) =>
            \/ /\ pos'[o][p] = Moved(pos[o][p], e.old, e.new)
               /\ misled'[o][p] = misled[o][p]
            \/ /\ misled'[o][p] = Moved(misled[o][p], e.new, e.old)
               /\ pos'[o][p] = pos[o][p]
  BY <1>2, <1>5 DEF EventsIInv, EdgesTyped, Follows, Listening
<1>7. EdgesTyped'
  <2>1. /\ pos' \in [Observers -> [Ports -> Account]]
        /\ misled' \in [Observers -> [Ports -> Account]]
    <3>1. CASE /\ pos' = [pos EXCEPT ![o][p] = IF Follows(o, p)
                                  THEN Moved(@, e.old, e.new) ELSE @]
               /\ UNCHANGED misled
      BY <1>2, <1>4, <3>1 DEF EventsIInv, EdgesTyped
    <3>2. CASE /\ misled' = [misled EXCEPT ![o][p] = IF Follows(o, p)
                                  THEN Moved(@, e.new, e.old) ELSE @]
               /\ UNCHANGED pos
      BY <1>2, <1>4, <3>2 DEF EventsIInv, EdgesTyped
    <3> QED
      BY <1>5, <3>1, <3>2
  <2>2. lost' \in 0..MaxLost
    BY <1>5, MaxLostAssumption DEF EventsIInv, EdgesTyped
  <2>3. outbox' \in [Threads -> SUBSET Edge]
    BY <1>1 DEF EventsIInv, EdgesTyped
  <2>4. \A u \in Threads : outbox'[u] \subseteq outbox[u]
    BY <1>3
  <2> QED
    BY <1>1, <2>1, <2>2, <2>3, <2>4 DEF EventsIInv, EdgesTyped
<1>8. OpeningWaits'
  <2> SUFFICES ASSUME NEW u \in Threads, NEW q \in Ports, Opening(u, q)
               PROVE  /\ \A f \in outbox'[u] :
                            f.port = q /\ f.old = "CLOSED" /\ f.new = "OPENING"
                      /\ \A j \in Listening(q) :
                            j \in newcomers[q] \/ \E f \in outbox'[u] : f.to = j
    BY <1>1 DEF OpeningWaits, Opening, At, Listening
  <2>1. outbox'[u] = outbox[u]
    BY <1>1, <1>3
  <2> QED
    BY <2>1 DEF EventsIInv, OpeningWaits
<1>9. /\ Owed(t, o, p) = {e} /\ Owed(t, o, p)' = {}
      /\ \A u \in Threads \ {t} : \A j, q : Owed(u, j, q)' = Owed(u, j, q)
      /\ \A j, q : j # o \/ q # p => Owed(t, j, q)' = Owed(t, j, q)
  BY <1>3 DEF EventsIInv, EdgesTyped, Owed
<1>10. ASSUME NEW q \in Ports, NEW j \in Listening(q)'
       PROVE  LeadsNext(j, q, state'[q])
  <2>1. j \in Listening(q)
    BY <1>1 DEF Listening
  <2>2. j \in Observers /\ Leads(j, q, state[q])
    BY <2>1, ListenersObserve, AccountedIsLeads DEF EventsIInv
  <2>3. CASE j = o /\ q = p
    <3>1. state[q] \in States
      BY DEF EventsIInv, IInv, TypeOK
    <3>2. LeadsNext(j, q, state[q])
      <4> HIDE DEF o, p
      <4> QED
        BY <1>2, <1>6, <1>9, <2>1, <2>2, <2>3, <3>1, OwesOneLess DEF EventsIInv
    <3> QED
      BY <1>1, <3>2
  <2>4. CASE ~ (j = o /\ q = p)
    <3>1. \A u \in Threads : Owed(u, j, q)' = Owed(u, j, q)
      BY <1>9, <2>4
    <3>2. LeadsNext(j, q, state[q])
      BY <1>6, <2>2, <2>4, <3>1, SameOwed
    <3> QED
      BY <1>1, <3>2
  <2> QED
    BY <2>3, <2>4
<1>11. EdgesAccounted'
  BY <1>7, <1>10, AccountedIfLeadsNext
<1> QED
  BY <1>7, <1>8, <1>11 DEF EventsIInv

(* A rollback: the edges of OPENING that were never sent go.  Who has none *)
(* among them saw OPENING, and goes on believing it.                       *)
LEMMA RollbackStep ==
    ASSUME EventsIInv, IInv', NEW t \in Threads, NEW p \in Ports,
           PublishedStep(t, p), pc[t] = "open_undo"
    PROVE  EventsIInv'
<1>1. /\ port[t] = p /\ state[p] = "OPENING" /\ state'[p] = "CLOSED"
      /\ pc'[t] = "idle"
      /\ \A u \in Threads \ {t} : pc'[u] = pc[u] /\ port'[u] = port[u]
      /\ \A q \in Ports : q # p => state'[q] = state[q]
  BY SectionFrame DEF PublishedStep, EventsIInv, IInv
<1>2. /\ outbox' = [outbox EXCEPT ![t] = {}]
      /\ newcomers' = [newcomers EXCEPT ![p] = {}]
      /\ misled' = [o \in Observers |->
            IF o \in Untold(t, p)
            THEN [misled[o] EXCEPT ![p] = Moved(@, "CLOSED", "OPENING")]
            ELSE misled[o]]
      /\ UNCHANGED <<pos, lost, eventListeners>>
  BY <1>1 DEF PublishedStep, Publish, Retract, At
<1>3. /\ outbox'[t] = {}
      /\ \A u \in Threads : u # t => outbox'[u] = outbox[u]
      /\ newcomers'[p] = {}
      /\ \A q \in Ports : q # p => newcomers'[q] = newcomers[q]
  BY <1>2 DEF EventsIInv, EdgesTyped
<1>4. /\ \A o \in Observers : o \in Untold(t, p) =>
            misled'[o][p] = Moved(misled[o][p], "CLOSED", "OPENING")
      /\ \A o \in Observers, q \in Ports :
            o \notin Untold(t, p) \/ q # p => misled'[o][q] = misled[o][q]
  BY <1>2 DEF EventsIInv, EdgesTyped
<1>5. /\ Opening(t, p)
      /\ \A e \in outbox[t] : e.port = p /\ e.old = "CLOSED" /\ e.new = "OPENING"
      /\ \A o \in Listening(p) : o \in newcomers[p] \/ \E e \in outbox[t] : e.to = o
  BY <1>1 DEF Opening, At, EventsIInv, OpeningWaits
<1>6. /\ \A u \in Threads \ {t} : \A o, q : Owed(u, o, q)' = Owed(u, o, q)
      /\ \A o, q : Owed(t, o, q)' = {}
      /\ \A o, q : q # p => Owed(t, o, q) = {}
  BY <1>3, <1>5 DEF Owed
<1>7. "CLOSED" \in States /\ "OPENING" \in States
  BY DEF Stable, Transient
<1>8. EdgesTyped'
  <2>1. misled' \in [Observers -> [Ports -> Account]]
    <3>1. \A f \in Account : Moved(f, "CLOSED", "OPENING") \in Account
      BY <1>7, AccountsTyped
    <3> QED
      BY <1>2, <3>1 DEF EventsIInv, EdgesTyped
  <2>2. newcomers' \in [Ports -> SUBSET Observers]
    BY <1>2 DEF EventsIInv, EdgesTyped
  <2>3. outbox' \in [Threads -> SUBSET Edge]
    BY <1>2 DEF EventsIInv, EdgesTyped
  <2> QED
    BY <1>2, <1>3, <2>1, <2>2, <2>3 DEF EventsIInv, EdgesTyped
<1>9. OpeningWaits'
  <2> SUFFICES ASSUME NEW u \in Threads, NEW q \in Ports, Opening(u, q)'
               PROVE  /\ \A e \in outbox'[u] :
                            e.port = q /\ e.old = "CLOSED" /\ e.new = "OPENING"
                      /\ \A j \in Listening(q)' :
                            j \in newcomers'[q] \/ \E e \in outbox'[u] : e.to = j
    BY DEF OpeningWaits
  <2>1. u # t /\ Opening(u, q)
    BY <1>1 DEF Opening, At
  <2>2. q # p
    BY <1>5, <2>1, OpeningState DEF EventsIInv, IInv, OneDriver
  <2>3. /\ outbox'[u] = outbox[u] /\ newcomers'[q] = newcomers[q]
        /\ Listening(q)' = Listening(q)
    BY <1>2, <1>3, <2>1, <2>2 DEF Listening
  <2> QED
    BY <2>1, <2>3 DEF EventsIInv, OpeningWaits
<1>10. ASSUME NEW q \in Ports, NEW j \in Listening(q)'
       PROVE  LeadsNext(j, q, state'[q])
  <2>1. j \in Listening(q)
    BY <1>2 DEF Listening
  <2>2. j \in Observers /\ Leads(j, q, state[q])
    BY <2>1, ListenersObserve, AccountedIsLeads DEF EventsIInv
  <2>3. pos'[j][q] = pos[j][q]
    BY <1>2
  <2>4. CASE q # p
    <3>1. \A u \in Threads : Owed(u, j, q)' = Owed(u, j, q)
      BY <1>6, <2>4
    <3>2. misled'[j][q] = misled[j][q] /\ state'[q] = state[q]
      BY <1>1, <1>4, <2>2, <2>4
    <3> QED
      BY <2>2, <2>3, <3>1, <3>2, SameOwed
  <2>5. CASE q = p /\ j \in Untold(t, p)
    <3>1. \A u \in Threads : Owed(u, j, p)' = Owed(u, j, p)
      BY <1>6, <2>5 DEF Untold, Owed
    <3>2. misled'[j][p] = Moved(misled[j][p], "CLOSED", "OPENING")
      BY <1>4, <2>2, <2>5
    <3>3. LeadsNext(j, p, "CLOSED")
      BY <1>1, <1>7, <2>2, <2>3, <2>5, <3>1, <3>2, GoesBackUntold DEF EventsIInv
    <3> QED
      BY <1>1, <2>5, <3>3
  <2>6. CASE q = p /\ j \notin Untold(t, p)
    <3>1. PICK e \in outbox[t] : e.to = j
      BY <1>5, <2>1, <2>6 DEF Untold
    <3>2. Owed(t, j, p) = {e} /\ e.old = "CLOSED" /\ e.new = "OPENING"
      BY <1>5, <3>1 DEF Owed, EventsIInv, EdgesTyped
    <3>3. misled'[j][p] = misled[j][p] /\ Leads(j, p, "OPENING")
      BY <1>1, <1>4, <2>2, <2>6
    <3>4. LeadsNext(j, p, "CLOSED")
      BY <1>6, <1>7, <2>2, <2>3, <2>6, <3>2, <3>3, OwesOneLess DEF EventsIInv
    <3> QED
      BY <1>1, <2>6, <3>4
  <2> QED
    BY <2>4, <2>5, <2>6
<1>11. EdgesAccounted'
  BY <1>8, <1>10, AccountedIfLeadsNext
<1> QED
  BY <1>8, <1>9, <1>11 DEF EventsIInv

(* A transition puts one edge for each listener in the outbox of the thread*)
(* that makes it, which was empty.                                         *)
LEMMA TransitionStep ==
    ASSUME EventsIInv, IInv', NEW t \in Threads, NEW p \in Ports,
           PublishedStep(t, p), pc[t] # "open_undo", state'[p] # state[p]
    PROVE  EventsIInv'
<1> USE DEF Listening
<1>1. /\ port[t] = p /\ pc[t] \notin {"open_link", "close_unlink"}
      /\ \A u \in Threads \ {t} : pc'[u] = pc[u] /\ port'[u] = port[u]
      /\ \A q \in Ports : q # p => state'[q] = state[q]
      /\ pc'[t] = "open_link" =>
            state[p] = "CLOSED" /\ state'[p] = "OPENING" /\ port'[t] = p
      /\ pc'[t] # "open_undo"
      /\ state[p] = "OPENING" => Driver(t, p)
  BY SectionFrame DEF PublishedStep, EventsIInv, IInv
<1>2. /\ outbox[t] = {}
      /\ outbox' = [outbox EXCEPT ![t] = @ \union Snapshot(p)]
      /\ newcomers' = [newcomers EXCEPT ![p] = IF state'[p] = state[p] THEN @ ELSE {}]
      /\ UNCHANGED <<pos, misled, lost, eventListeners>>
  BY <1>1 DEF PublishedStep, Publish, Announce, Sent, Unsent, At
<1>3. /\ outbox'[t] = Snapshot(p)
      /\ \A u \in Threads : u # t => outbox'[u] = outbox[u]
      /\ newcomers' \in [Ports -> SUBSET Observers]
      /\ \A q \in Ports : q # p => newcomers'[q] = newcomers[q]
  BY <1>2 DEF EventsIInv, EdgesTyped
<1>4. Snapshot(p) = {[to |-> eventListeners[p][i], place |-> i, port |-> p,
                      old |-> state[p], new |-> state'[p]] :
                        i \in DOMAIN eventListeners[p]}
  BY DEF Snapshot
<1>5. /\ state[p] \in States /\ state'[p] \in States
      /\ eventListeners[p] \in Seq(Observers) /\ IsInjective(eventListeners[p])
  BY DEF EventsIInv, IInv, TypeOK, EdgesTyped
<1>6. Snapshot(p) \subseteq Edge
  BY <1>4, <1>5 DEF Edge
<1>7. \A e, f \in Snapshot(p) : e.to = f.to \/ e.place = f.place => e = f
  BY <1>4, <1>5 DEF IsInjective
<1>8. /\ \A e \in Snapshot(p) : /\ e.port = p /\ e.old = state[p] /\ e.new = state'[p]
                                /\ e.to \in Listening(p)
      /\ \A j \in Listening(p) : \E e \in Snapshot(p) : e.to = j
  <2>1. \A e \in Snapshot(p) : e.port = p /\ e.old = state[p] /\ e.new = state'[p]
    BY <1>4
  <2>2. ASSUME NEW e \in Snapshot(p) PROVE e.to \in Listening(p)
    <3>1. PICK i \in DOMAIN eventListeners[p] : e.to = eventListeners[p][i]
      BY <1>4
    <3> QED
      BY <3>1 DEF ToSet
  <2>3. ASSUME NEW j \in Listening(p) PROVE \E e \in Snapshot(p) : e.to = j
    <3>1. PICK i \in DOMAIN eventListeners[p] : j = eventListeners[p][i]
      BY DEF ToSet
    <3> DEFINE e == [to |-> eventListeners[p][i], place |-> i, port |-> p,
                     old |-> state[p], new |-> state'[p]]
    <3>2. e \in Snapshot(p) /\ e.to = j
      BY <1>4, <3>1
    <3> QED
      BY <3>2
  <2> QED
    BY <2>1, <2>2, <2>3
<1>9. EdgesTyped'
  <2>1. outbox' \in [Threads -> SUBSET Edge]
    BY <1>2, <1>3, <1>6 DEF EventsIInv, EdgesTyped
  <2>2. ASSUME NEW u \in Threads, NEW e \in outbox'[u], NEW f \in outbox'[u],
               e.to = f.to \/ e.place = f.place
        PROVE  e = f
    <3>1. CASE u = t
      BY <1>3, <1>7, <2>2, <3>1
    <3>2. CASE u # t
      BY <1>3, <2>2, <3>2 DEF EventsIInv, EdgesTyped
    <3> QED
      BY <3>1, <3>2
  <2> QED
    BY <1>2, <1>3, <2>1, <2>2 DEF EventsIInv, EdgesTyped
<1>12. \A u \in Threads : ~ Opening(u, p)
  <2> SUFFICES ASSUME NEW u \in Threads, Opening(u, p) PROVE FALSE
    OBVIOUS
  <2>1. state[p] = "OPENING" /\ Driver(u, p)
    BY OpeningState DEF EventsIInv, IInv
  <2>2. u = t
    BY <1>1, <2>1 DEF EventsIInv, IInv, OneDriver
  <2> QED
    BY <1>1, <2>2 DEF Opening, At
<1>13. /\ \A u \in Threads \ {t} : \A j, q : Owed(u, j, q)' = Owed(u, j, q)
       /\ \A j, q : Owed(t, j, q) = {}
       /\ \A j, q : q # p => Owed(t, j, q)' = {}
  BY <1>2, <1>3, <1>8 DEF Owed
<1>14. OpeningWaits'
  <2> SUFFICES ASSUME NEW u \in Threads, NEW q \in Ports, Opening(u, q)'
               PROVE  /\ \A e \in outbox'[u] :
                            e.port = q /\ e.old = "CLOSED" /\ e.new = "OPENING"
                      /\ \A j \in Listening(q)' :
                            j \in newcomers'[q] \/ \E e \in outbox'[u] : e.to = j
    BY DEF OpeningWaits
  <2>1. CASE u = t
    <3>1. q = p /\ state[p] = "CLOSED" /\ state'[p] = "OPENING"
      BY <1>1, <2>1 DEF Opening, At
    <3> QED
      BY <1>2, <1>3, <1>8, <2>1, <3>1
  <2>2. CASE u # t
    <3>1. Opening(u, q) /\ q # p
      BY <1>1, <1>12, <2>2 DEF Opening, At
    <3>2. /\ outbox'[u] = outbox[u] /\ newcomers'[q] = newcomers[q]
          /\ Listening(q)' = Listening(q)
      BY <1>2, <1>3, <2>2, <3>1
    <3> QED
      BY <3>1, <3>2 DEF EventsIInv, OpeningWaits
  <2> QED
    BY <2>1, <2>2
<1>15. ASSUME NEW q \in Ports, NEW j \in Listening(q)'
       PROVE  LeadsNext(j, q, state'[q])
  <2>1. j \in Listening(q)
    BY <1>2
  <2>2. j \in Observers
    BY <2>1 DEF EventsIInv, EdgesTyped, ToSet
  <2>3. Leads(j, q, state[q])
    BY <2>1, AccountedIsLeads DEF EventsIInv
  <2>4. CASE q # p
    <3>1. \A u \in Threads : Owed(u, j, q)' = Owed(u, j, q)
      BY <1>13, <2>4
    <3>2. /\ pos'[j][q] = pos[j][q] /\ misled'[j][q] = misled[j][q]
          /\ state'[q] = state[q]
      BY <1>1, <1>2, <2>4
    <3> QED
      BY <2>3, <3>1, <3>2, SameOwed
  <2>5. CASE q = p
    <3>1. PICK e \in Snapshot(p) : e.to = j
      BY <1>8, <2>1, <2>5
    <3>2. Owed(t, j, p)' = {e}
      BY <1>3, <1>7, <1>8, <3>1 DEF Owed
    <3>3. /\ e.old = state[p] /\ e.new = state'[p]
          /\ e.old \in States /\ e.new \in States /\ e.old # e.new
      BY <1>5, <1>8
    <3>4. LeadsNext(j, p, e.new)
      BY <1>2, <1>13, <2>2, <2>3, <2>5, <3>2, <3>3, OwesOneMore DEF EventsIInv
    <3> QED
      BY <2>5, <3>3, <3>4
  <2> QED
    BY <2>4, <2>5
<1>16. EdgesAccounted'
  BY <1>9, <1>15, AccountedIfLeadsNext
<1> QED
  BY <1>9, <1>14, <1>16 DEF EventsIInv

(* Every step keeps the invariant.                                         *)
LEMMA EventsIInvStep == EventsIInv /\ [EventsNext]_eventVars => EventsIInv'
<1> SUFFICES ASSUME EventsIInv, [EventsNext]_eventVars PROVE EventsIInv'
  OBVIOUS
<1>1. IInv'
  BY LifecycleStep, IInvStep DEF EventsIInv
<1>2. ASSUME NEW o \in Observers, NEW p \in Ports, Register(o, p) \/ Unregister(o, p)
      PROVE  EventsIInv'
  BY <1>1, <1>2, RegisterStep, UnregisterStep
<1>3. ASSUME NEW t \in Threads, NEW e \in outbox[t], Deliver(t, e) \/ Lose(t, e)
      PROVE  EventsIInv'
  BY <1>1, <1>3, SendStep
<1>4. ASSUME \/ \E t \in Threads : ServedStep(t)
             \/ \E c \in RemoteClients : ClientDies(c)
      PROVE  EventsIInv'
  BY <1>1, <1>4, EnvironmentFrame, QuietStep DEF EventsIInv, IInv
<1>5. ASSUME NEW t \in Threads, NEW p \in Ports, PublishedStep(t, p)
      PROVE  EventsIInv'
  <2>1. CASE pc[t] = "open_undo"
    BY <1>1, <1>5, <2>1, RollbackStep
  <2>2. CASE pc[t] # "open_undo" /\ state'[p] # state[p]
    BY <1>1, <1>5, <2>2, TransitionStep
  <2>3. CASE pc[t] # "open_undo" /\ state'[p] = state[p]
    <3>1. /\ port[t] = p
          /\ \A u \in Threads \ {t} : pc'[u] = pc[u] /\ port'[u] = port[u]
          /\ \A q \in Ports : state'[q] = state[q]
          /\ pc'[t] # "open_link"
          /\ pc'[t] = "open_undo" => pc[t] = "open_link" /\ port'[t] = p
      BY <1>5, <2>3, SectionFrame DEF PublishedStep, EventsIInv, IInv
    <3>2. UNCHANGED <<state, events>>
      <4>1. state' = state
        BY <1>1, <3>1 DEF EventsIInv, IInv, TypeOK
      <4>2. Snapshot(p) = {}
        BY <2>3 DEF Snapshot
      <4>3. /\ outbox' = outbox /\ newcomers' = newcomers
            /\ UNCHANGED <<pos, misled, lost, eventListeners>>
        BY <1>5, <2>3, <4>2
           DEF PublishedStep, Publish, Announce, At, EventsIInv, EdgesTyped
      <4> QED
        BY <4>1, <4>3 DEF events, history
    <3>3. \A u \in Threads, q \in Ports : Opening(u, q)' => Opening(u, q)
      BY <3>1 DEF Opening, At
    <3> QED
      BY <1>1, <3>2, <3>3, QuietStep
  <2> QED
    BY <2>1, <2>2, <2>3
<1>6. CASE UNCHANGED eventVars
  BY <1>1, <1>6, QuietStep
     DEF eventVars, lifecycle, vars, threads, events, history, Opening, At
<1> QED
  BY <1>2, <1>3, <1>4, <1>5, <1>6 DEF EventsNext

----------------------------------------------------------------------------
(* The theorems.                                                           *)

(* The inductive invariant holds in every reachable state.                 *)
THEOREM EventsInvariant == EventsSpec => []EventsIInv
BY EventsIInvInit, EventsIInvStep, PTL DEF EventsSpec

(* The edges a listener has heard, with those on their way, lead exactly   *)
(* from the state in which it registered to the state of the port, but for *)
(* the edges of an earlier registration, an OPENING rolled back behind its *)
(* back, and the edges it refused.                                         *)
THEOREM EdgesExact == EventsSpec => []EdgesAccounted
BY EventsInvariant, PTL DEF EventsIInv

(* The variables keep their types: no listener is registered twice at a    *)
(* port, and no thread has two edges for one listener to send.             *)
THEOREM EventsTypeCorrect == EventsSpec => []EventsTypeOK
<1>1. EventsIInv => EventsTypeOK
  BY DEF EventsIInv, IInv, EdgesTyped, EventsTypeOK
<1> QED
  BY <1>1, EventsInvariant, PTL

(* The ports and the threads do with observers what they do without: what  *)
(* is proved of the lifecycle holds of every run with observers.           *)
THEOREM EventsKeepLifecycle == EventsSpec => Spec
<1>1. EventsInit => Init
  BY DEF EventsInit
<1> QED
  BY <1>1, LifecycleStep, PTL DEF EventsSpec, Spec

(* An observed port walks the lifecycle of the contract, one edge at a     *)
(* time and for one client.                                                *)
THEOREM EventsImplementContract == EventsSpec => ImplementsContract
BY EventsKeepLifecycle, Implements, PTL
=============================================================================
