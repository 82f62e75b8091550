------------------------- MODULE PortLifecycleProofs -------------------------
(* Proofs of the properties of PortLifecycle, for every set of ports,      *)
(* threads and clients and every configured limit.                         *)
EXTENDS PortLifecycle, FiniteSetTheorems, TLAPS

USE DEF Stable, Transient, Busy

(* The sections that drive a port, and the state each drives it through.   *)
LEMMA LabelFacts ==
    /\ DOMAIN Drives = {"open_link", "open_undo", "open_ready", "close_end",
                        "start_signal", "start_end", "stop_ready",
                        "death_ready", "death_end"}
    /\ Drives["open_link"] = "OPENING"
    /\ Drives["open_undo"] = "OPENING"
    /\ Drives["open_ready"] = "OPENING"
    /\ Drives["close_end"] = "CLOSING"
    /\ Drives["start_signal"] = "STARTING"
    /\ Drives["start_end"] = "STARTING"
    /\ Drives["stop_ready"] = "STOPPING"
    /\ Drives["death_ready"] = "STOPPING"
    /\ Drives["death_end"] = "CLOSING"
BY DEF Drives

(* setMaxConcurrentStartedPorts leaves at least one slot, whatever it is   *)
(* given.                                                                  *)
LEMMA LimitFacts == MaxStartedPorts \in Nat /\ MaxStartedPorts >= 1
BY MaxAssumption DEF MaxStartedPorts

(* The types hold when the service comes up.                               *)
LEMMA TypeInit == Init => TypeOK
BY DEF Init, TypeOK, Labels, Handle

(* Every section of every handler keeps the types.                         *)
LEMMA TypeStep ==
    ASSUME TypeOK, Next
    PROVE  TypeOK'
<1> USE LabelFacts
    DEF TypeOK, Labels, Handle, Tails, Holding, session, threads, world, Goto,
       Enter, Return, SetState, RetireSession, ReleaseSlot, At
<1>1. ASSUME NEW t \in Threads, Call(t)
      PROVE  TypeOK'
  <2>1. ASSUME NEW p \in Ports, NEW c \in Clients, CallOpen(t, p, c)
        PROVE  TypeOK'
    BY <2>1 DEF CallOpen
  <2>2. ASSUME NEW h \in handed, NEW l \in ControllerCalls,
               CallController(t, h, l)
        PROVE  TypeOK'
    BY <2>2 DEF CallController, ControllerCalls
  <2> QED
    BY <1>1, <2>1, <2>2 DEF Call
<1>2. ASSUME NEW t \in Threads, NEW p \in Ports, OpenStep(t, p)
      PROVE  TypeOK'
  <2>1. CASE OpenRejected(t, p)
    BY <2>1 DEF OpenRejected
  <2>2. CASE OpenBegin(t, p)
    BY <2>2 DEF OpenBegin
  <2>3. CASE OpenLink(t, p)
    BY <2>3 DEF OpenLink
  <2>4. CASE OpenLinkFails(t, p)
    BY <2>4 DEF OpenLinkFails
  <2>5. CASE OpenUndo(t, p)
    BY <2>5 DEF OpenUndo
  <2>6. CASE OpenReady(t, p)
    BY <2>6 DEF OpenReady
  <2> QED
    BY <1>2, <2>1, <2>2, <2>3, <2>4, <2>5, <2>6 DEF OpenStep
<1>3. ASSUME NEW t \in Threads, NEW p \in Ports, CloseStep(t, p)
      PROVE  TypeOK'
  <2>1. CASE CloseRejected(t, p)
    BY <2>1 DEF CloseRejected
  <2>2. CASE CloseBegin(t, p)
    BY <2>2 DEF CloseBegin
  <2>3. CASE CloseEnd(t, p)
    BY <2>3 DEF CloseEnd
  <2>4. CASE CloseUnlink(t, p)
    BY <2>4 DEF CloseUnlink
  <2> QED
    BY <1>3, <2>1, <2>2, <2>3, <2>4 DEF CloseStep
<1>4. ASSUME NEW t \in Threads, NEW p \in Ports, StartStep(t, p)
      PROVE  TypeOK'
  BY <1>4 DEF StartStep, StartRefused, StartReserve, StartRejected,
             StartBegin, StartSignal, StartEnd, StartBaseline
<1>5. ASSUME NEW t \in Threads, NEW p \in Ports, StopStep(t, p)
      PROVE  TypeOK'
  BY <1>5 DEF StopStep, StopRejected, StopBegin, StopReady, StopRelease
<1>6. ASSUME NEW t \in Threads, NEW p \in Ports, TailStep(t, p)
      PROVE  TypeOK'
  <2>1. CASE TailReturn(t, p)
    BY <2>1 DEF TailReturn
  <2>2. CASE TailRunsCleanup(t, p)
    BY <2>2 DEF TailRunsCleanup
  <2> QED
    BY <1>6, <2>1, <2>2 DEF TailStep
<1>7. ASSUME NEW t \in Threads, NEW p \in Ports, DeathStep(t, p)
      PROVE  TypeOK'
  <2>1. CASE DeathIgnored(t, p) \/ DeathCloseIgnored(t, p)
    BY <2>1 DEF DeathIgnored, DeathCloseIgnored
  <2>2. CASE DeathDeferred(t, p)
    BY <2>2 DEF DeathDeferred
  <2>3. CASE \/ DeathStop(t, p) \/ DeathSkipsStop(t, p) \/ DeathReady(t, p)
             \/ DeathRelease(t, p) \/ DeathClose(t, p)
    BY <2>3 DEF DeathStop, DeathSkipsStop, DeathReady, DeathRelease,
                DeathClose
  <2>4. CASE DeathCloseDeferred(t, p)
    BY <2>4 DEF DeathCloseDeferred
  <2>5. CASE DeathEnd(t, p)
    BY <2>5 DEF DeathEnd
  <2> QED
    BY <1>7, <2>1, <2>2, <2>3, <2>4, <2>5 DEF DeathStep
<1>8. ASSUME NEW t \in Threads, NEW k \in links, NotifyDeath(t, k)
      PROVE  TypeOK'
  BY <1>8 DEF NotifyDeath
<1>9. ASSUME NEW c \in RemoteClients, Die(c)
      PROVE  TypeOK'
  BY <1>9 DEF Die
<1> QED
  BY <1>1, <1>2, <1>3, <1>4, <1>5, <1>6, <1>7, <1>8, <1>9 DEF Next, ThreadStep

(* No section takes a port out of a transient state that another thread    *)
(* drives it through: each changes the state only of a port its thread     *)
(* drives or of one in a stable state.                                     *)
LEMMA OneDriverStep ==
    ASSUME TypeOK, OneDriver, Next
    PROVE  OneDriver'
<1> USE LabelFacts, NoneAssumption
    DEF TypeOK, Labels, OneDriver, Driver, Tails, Holding, session, threads,
       world, Goto, Enter, Return, SetState, RetireSession, ReleaseSlot, At
<1>1. ASSUME NEW t \in Threads, Call(t)
      PROVE  OneDriver'
  <2>1. ASSUME NEW p \in Ports, NEW c \in Clients, CallOpen(t, p, c)
        PROVE  OneDriver'
    BY <2>1 DEF CallOpen
  <2>2. ASSUME NEW h \in handed, NEW l \in ControllerCalls,
               CallController(t, h, l)
        PROVE  OneDriver'
    BY <2>2 DEF CallController, ControllerCalls
  <2> QED
    BY <1>1, <2>1, <2>2 DEF Call
<1>2. ASSUME NEW t \in Threads, NEW p \in Ports, OpenStep(t, p)
      PROVE  OneDriver'
  <2>1. CASE OpenRejected(t, p)
    BY <2>1 DEF OpenRejected
  <2>2. CASE OpenBegin(t, p)
    BY <2>2 DEF OpenBegin
  <2>3. CASE OpenLink(t, p)
    BY <2>3 DEF OpenLink
  <2>4. CASE OpenLinkFails(t, p)
    BY <2>4 DEF OpenLinkFails
  <2>5. CASE OpenUndo(t, p)
    BY <2>5 DEF OpenUndo
  <2>6. CASE OpenReady(t, p)
    BY <2>6 DEF OpenReady
  <2> QED
    BY <1>2, <2>1, <2>2, <2>3, <2>4, <2>5, <2>6 DEF OpenStep
<1>3. ASSUME NEW t \in Threads, NEW p \in Ports, CloseStep(t, p)
      PROVE  OneDriver'
  BY <1>3 DEF CloseStep, CloseRejected, CloseBegin, CloseEnd, CloseUnlink
<1>4. ASSUME NEW t \in Threads, NEW p \in Ports, StartStep(t, p)
      PROVE  OneDriver'
  BY <1>4 DEF StartStep, StartRefused, StartReserve, StartRejected,
             StartBegin, StartSignal, StartEnd, StartBaseline
<1>5. ASSUME NEW t \in Threads, NEW p \in Ports, StopStep(t, p)
      PROVE  OneDriver'
  BY <1>5 DEF StopStep, StopRejected, StopBegin, StopReady, StopRelease
<1>6. ASSUME NEW t \in Threads, NEW p \in Ports, TailStep(t, p)
      PROVE  OneDriver'
  BY <1>6 DEF TailStep, TailReturn, TailRunsCleanup
<1>7. ASSUME NEW t \in Threads, NEW p \in Ports, DeathStep(t, p)
      PROVE  OneDriver'
  BY <1>7 DEF DeathStep, DeathIgnored, DeathDeferred, DeathStop,
             DeathSkipsStop, DeathReady, DeathRelease, DeathCloseIgnored,
             DeathCloseDeferred, DeathClose, DeathEnd
<1>8. ASSUME NEW t \in Threads, NEW k \in links, NotifyDeath(t, k)
      PROVE  OneDriver'
  BY <1>8 DEF NotifyDeath
<1>9. ASSUME NEW c \in RemoteClients, Die(c)
      PROVE  OneDriver'
  BY <1>9 DEF Die
<1> QED
  BY <1>1, <1>2, <1>3, <1>4, <1>5, <1>6, <1>7, <1>8, <1>9 DEF Next, ThreadStep

(* Controller, client and epoch of a port change together, in open() and   *)
(* in RetireSession, and no other section touches them.                    *)
LEMMA SessionIdentityStep ==
    ASSUME TypeOK, OneDriver, SessionIdentity, Next
    PROVE  SessionIdentity'
<1> USE LabelFacts, NoneAssumption
    DEF TypeOK, OneDriver, Driver, SessionIdentity, session, threads, world,
       Goto, Enter, Return, SetState, RetireSession, ReleaseSlot, At
<1>1. ASSUME NEW t \in Threads, Call(t)
      PROVE  SessionIdentity'
  <2>1. ASSUME NEW p \in Ports, NEW c \in Clients, CallOpen(t, p, c)
        PROVE  SessionIdentity'
    BY <2>1 DEF CallOpen
  <2>2. ASSUME NEW h \in handed, NEW l \in ControllerCalls,
               CallController(t, h, l)
        PROVE  SessionIdentity'
    BY <2>2 DEF CallController, ControllerCalls
  <2> QED
    BY <1>1, <2>1, <2>2 DEF Call
<1>2. ASSUME NEW t \in Threads, NEW p \in Ports, OpenStep(t, p)
      PROVE  SessionIdentity'
  BY <1>2 DEF OpenStep, OpenRejected, OpenBegin, OpenLink, OpenLinkFails,
             OpenUndo, OpenReady
<1>3. ASSUME NEW t \in Threads, NEW p \in Ports, CloseStep(t, p)
      PROVE  SessionIdentity'
  BY <1>3 DEF CloseStep, CloseRejected, CloseBegin, CloseEnd, CloseUnlink
<1>4. ASSUME NEW t \in Threads, NEW p \in Ports, StartStep(t, p)
      PROVE  SessionIdentity'
  BY <1>4 DEF StartStep, StartRefused, StartReserve, StartRejected,
             StartBegin, StartSignal, StartEnd, StartBaseline
<1>5. ASSUME NEW t \in Threads, NEW p \in Ports, StopStep(t, p)
      PROVE  SessionIdentity'
  BY <1>5 DEF StopStep, StopRejected, StopBegin, StopReady, StopRelease
<1>6. ASSUME NEW t \in Threads, NEW p \in Ports, TailStep(t, p)
      PROVE  SessionIdentity'
  BY <1>6 DEF TailStep, TailReturn, TailRunsCleanup
<1>7. ASSUME NEW t \in Threads, NEW p \in Ports, DeathStep(t, p)
      PROVE  SessionIdentity'
  BY <1>7 DEF DeathStep, DeathIgnored, DeathDeferred, DeathStop,
             DeathSkipsStop, DeathReady, DeathRelease, DeathCloseIgnored,
             DeathCloseDeferred, DeathClose, DeathEnd
<1>8. ASSUME NEW t \in Threads, NEW k \in links, NotifyDeath(t, k)
      PROVE  SessionIdentity'
  BY <1>8 DEF NotifyDeath
<1>9. ASSUME NEW c \in RemoteClients, Die(c)
      PROVE  SessionIdentity'
  BY <1>9 DEF Die
<1> QED
  BY <1>1, <1>2, <1>3, <1>4, <1>5, <1>6, <1>7, <1>8, <1>9 DEF Next, ThreadStep

(* A recipient is linked only for the session that is being opened, and    *)
(* a new session has a new epoch: what was linked before is not for it.    *)
LEMMA LinksStep ==
    ASSUME TypeOK, OneDriver, SessionIdentity, LinksOfSessions,
           ThreadsOfSessions, Next
    PROVE  LinksOfSessions'
<1> USE LabelFacts, NoneAssumption
    DEF TypeOK, Handle, OneDriver, Driver, SessionIdentity, LinksOfSessions,
       ThreadsOfSessions, InSession, session, threads, world, Goto, Enter,
       Return, SetState, RetireSession, ReleaseSlot, At
<1>1. ASSUME NEW t \in Threads, Call(t)
      PROVE  LinksOfSessions'
  <2>1. ASSUME NEW p \in Ports, NEW c \in Clients, CallOpen(t, p, c)
        PROVE  LinksOfSessions'
    BY <2>1 DEF CallOpen
  <2>2. ASSUME NEW h \in handed, NEW l \in ControllerCalls,
               CallController(t, h, l)
        PROVE  LinksOfSessions'
    BY <2>2 DEF CallController, ControllerCalls
  <2> QED
    BY <1>1, <2>1, <2>2 DEF Call
<1>2. ASSUME NEW t \in Threads, NEW p \in Ports, OpenStep(t, p)
      PROVE  LinksOfSessions'
  BY <1>2 DEF OpenStep, OpenRejected, OpenBegin, OpenLink, OpenLinkFails,
             OpenUndo, OpenReady
<1>3. ASSUME NEW t \in Threads, NEW p \in Ports, CloseStep(t, p)
      PROVE  LinksOfSessions'
  BY <1>3 DEF CloseStep, CloseRejected, CloseBegin, CloseEnd, CloseUnlink
<1>4. ASSUME NEW t \in Threads, NEW p \in Ports, StartStep(t, p)
      PROVE  LinksOfSessions'
  BY <1>4 DEF StartStep, StartRefused, StartReserve, StartRejected,
             StartBegin, StartSignal, StartEnd, StartBaseline
<1>5. ASSUME NEW t \in Threads, NEW p \in Ports, StopStep(t, p)
      PROVE  LinksOfSessions'
  BY <1>5 DEF StopStep, StopRejected, StopBegin, StopReady, StopRelease
<1>6. ASSUME NEW t \in Threads, NEW p \in Ports, TailStep(t, p)
      PROVE  LinksOfSessions'
  BY <1>6 DEF TailStep, TailReturn, TailRunsCleanup
<1>7. ASSUME NEW t \in Threads, NEW p \in Ports, DeathStep(t, p)
      PROVE  LinksOfSessions'
  BY <1>7 DEF DeathStep, DeathIgnored, DeathDeferred, DeathStop,
             DeathSkipsStop, DeathReady, DeathRelease, DeathCloseIgnored,
             DeathCloseDeferred, DeathClose, DeathEnd
<1>8. ASSUME NEW t \in Threads, NEW k \in links, NotifyDeath(t, k)
      PROVE  LinksOfSessions'
  BY <1>8 DEF NotifyDeath
<1>9. ASSUME NEW c \in RemoteClients, Die(c)
      PROVE  LinksOfSessions'
  BY <1>9 DEF Die
<1> QED
  BY <1>1, <1>2, <1>3, <1>4, <1>5, <1>6, <1>7, <1>8, <1>9 DEF Next, ThreadStep

(* The sessions that threads and clients know never run ahead, and a       *)
(* clean-up for the current session runs only once its client is dead.     *)
LEMMA ThreadsStep ==
    ASSUME TypeOK, OneDriver, SessionIdentity, LinksOfSessions,
           ThreadsOfSessions, PendingOfDead, Next
    PROVE  ThreadsOfSessions'
<1> USE LabelFacts, NoneAssumption, ClientsAssumption
    DEF TypeOK, Handle, OneDriver, Driver, SessionIdentity, LinksOfSessions,
       ThreadsOfSessions, InSession, Cleaning, DeathLabels, Abandoned,
       PendingOfDead, Stale, Tails, session, threads, world, Goto, Enter,
       Return, SetState, RetireSession, ReleaseSlot, At
<1>1. ASSUME NEW t \in Threads, Call(t)
      PROVE  ThreadsOfSessions'
  <2>1. ASSUME NEW p \in Ports, NEW c \in Clients, CallOpen(t, p, c)
        PROVE  ThreadsOfSessions'
    BY <2>1 DEF CallOpen
  <2>2. ASSUME NEW h \in handed, NEW l \in ControllerCalls,
               CallController(t, h, l)
        PROVE  ThreadsOfSessions'
    BY <2>2 DEF CallController, ControllerCalls
  <2> QED
    BY <1>1, <2>1, <2>2 DEF Call
<1>2. ASSUME NEW t \in Threads, NEW p \in Ports, OpenStep(t, p)
      PROVE  ThreadsOfSessions'
  BY <1>2 DEF OpenStep, OpenRejected, OpenBegin, OpenLink, OpenLinkFails,
             OpenUndo, OpenReady
<1>3. ASSUME NEW t \in Threads, NEW p \in Ports, CloseStep(t, p)
      PROVE  ThreadsOfSessions'
  BY <1>3 DEF CloseStep, CloseRejected, CloseBegin, CloseEnd, CloseUnlink
<1>4. ASSUME NEW t \in Threads, NEW p \in Ports, StartStep(t, p)
      PROVE  ThreadsOfSessions'
  BY <1>4 DEF StartStep, StartRefused, StartReserve, StartRejected,
             StartBegin, StartSignal, StartEnd, StartBaseline
<1>5. ASSUME NEW t \in Threads, NEW p \in Ports, StopStep(t, p)
      PROVE  ThreadsOfSessions'
  BY <1>5 DEF StopStep, StopRejected, StopBegin, StopReady, StopRelease
<1>6. ASSUME NEW t \in Threads, NEW p \in Ports, TailStep(t, p)
      PROVE  ThreadsOfSessions'
  BY <1>6 DEF TailStep, TailReturn, TailRunsCleanup
<1>7. ASSUME NEW t \in Threads, NEW p \in Ports, DeathStep(t, p)
      PROVE  ThreadsOfSessions'
  BY <1>7 DEF DeathStep, DeathIgnored, DeathDeferred, DeathStop,
             DeathSkipsStop, DeathReady, DeathRelease, DeathCloseIgnored,
             DeathCloseDeferred, DeathClose, DeathEnd
<1>8. ASSUME NEW t \in Threads, NEW k \in links, NotifyDeath(t, k)
      PROVE  ThreadsOfSessions'
  BY <1>8 DEF NotifyDeath
<1>9. ASSUME NEW c \in RemoteClients, Die(c)
      PROVE  ThreadsOfSessions'
  BY <1>9 DEF Die
<1> QED
  BY <1>1, <1>2, <1>3, <1>4, <1>5, <1>6, <1>7, <1>8, <1>9 DEF Next, ThreadStep

(* Only a clean-up of a dead client's session is ever deferred.            *)
LEMMA PendingStep ==
    ASSUME TypeOK, OneDriver, ThreadsOfSessions, PendingOfDead, Next
    PROVE  PendingOfDead'
<1> USE LabelFacts, NoneAssumption, ClientsAssumption
    DEF TypeOK, OneDriver, Driver, ThreadsOfSessions, Cleaning, DeathLabels,
       Abandoned, PendingOfDead, Stale, Tails, session, threads, world, Goto,
       Enter, Return, SetState, RetireSession, ReleaseSlot, At
<1>1. ASSUME NEW t \in Threads, Call(t)
      PROVE  PendingOfDead'
  <2>1. ASSUME NEW p \in Ports, NEW c \in Clients, CallOpen(t, p, c)
        PROVE  PendingOfDead'
    BY <2>1 DEF CallOpen
  <2>2. ASSUME NEW h \in handed, NEW l \in ControllerCalls,
               CallController(t, h, l)
        PROVE  PendingOfDead'
    BY <2>2 DEF CallController, ControllerCalls
  <2> QED
    BY <1>1, <2>1, <2>2 DEF Call
<1>2. ASSUME NEW t \in Threads, NEW p \in Ports, OpenStep(t, p)
      PROVE  PendingOfDead'
  BY <1>2 DEF OpenStep, OpenRejected, OpenBegin, OpenLink, OpenLinkFails,
             OpenUndo, OpenReady
<1>3. ASSUME NEW t \in Threads, NEW p \in Ports, CloseStep(t, p)
      PROVE  PendingOfDead'
  BY <1>3 DEF CloseStep, CloseRejected, CloseBegin, CloseEnd, CloseUnlink
<1>4. ASSUME NEW t \in Threads, NEW p \in Ports, StartStep(t, p)
      PROVE  PendingOfDead'
  BY <1>4 DEF StartStep, StartRefused, StartReserve, StartRejected,
             StartBegin, StartSignal, StartEnd, StartBaseline
<1>5. ASSUME NEW t \in Threads, NEW p \in Ports, StopStep(t, p)
      PROVE  PendingOfDead'
  BY <1>5 DEF StopStep, StopRejected, StopBegin, StopReady, StopRelease
<1>6. ASSUME NEW t \in Threads, NEW p \in Ports, TailStep(t, p)
      PROVE  PendingOfDead'
  BY <1>6 DEF TailStep, TailReturn, TailRunsCleanup
<1>7. ASSUME NEW t \in Threads, NEW p \in Ports, DeathStep(t, p)
      PROVE  PendingOfDead'
  BY <1>7 DEF DeathStep, DeathIgnored, DeathDeferred, DeathStop,
             DeathSkipsStop, DeathReady, DeathRelease, DeathCloseIgnored,
             DeathCloseDeferred, DeathClose, DeathEnd
<1>8. ASSUME NEW t \in Threads, NEW k \in links, NotifyDeath(t, k)
      PROVE  PendingOfDead'
  BY <1>8 DEF NotifyDeath
<1>9. ASSUME NEW c \in RemoteClients, Die(c)
      PROVE  PendingOfDead'
  BY <1>9 DEF Die
<1> QED
  BY <1>1, <1>2, <1>3, <1>4, <1>5, <1>6, <1>7, <1>8, <1>9 DEF Next, ThreadStep

(* A section that takes an obituary, a deferral or a clean-up away puts    *)
(* another of the three in its place, or ends the session.                 *)
LEMMA NeverLostStep ==
    ASSUME TypeOK, OneDriver, SessionIdentity, LinksOfSessions,
           ThreadsOfSessions, PendingOfDead, CleanupNeverLost, Next
    PROVE  CleanupNeverLost'
<1> USE LabelFacts, NoneAssumption, ClientsAssumption
    DEF TypeOK, Handle, OneDriver, Driver, SessionIdentity, LinksOfSessions,
       ThreadsOfSessions, InSession, CleanupNeverLost, Observed, Cleaning,
       DeathLabels, Abandoned, PendingOfDead, Stale, Tails, session, threads,
       world, Goto, Enter, Return, SetState, RetireSession, ReleaseSlot, At
<1>1. ASSUME NEW t \in Threads, Call(t)
      PROVE  CleanupNeverLost'
  <2>1. ASSUME NEW p \in Ports, NEW c \in Clients, CallOpen(t, p, c)
        PROVE  CleanupNeverLost'
    BY <2>1 DEF CallOpen
  <2>2. ASSUME NEW h \in handed, NEW l \in ControllerCalls,
               CallController(t, h, l)
        PROVE  CleanupNeverLost'
    BY <2>2 DEF CallController, ControllerCalls
  <2> QED
    BY <1>1, <2>1, <2>2 DEF Call
<1>2. ASSUME NEW t \in Threads, NEW p \in Ports, OpenStep(t, p)
      PROVE  CleanupNeverLost'
  <2>1. CASE OpenRejected(t, p)
    BY <2>1 DEF OpenRejected
  <2>2. CASE OpenBegin(t, p)
    <3>1. /\ port' = [port EXCEPT ![t] = p] /\ pc' = [pc EXCEPT ![t] = "open_link"]
          /\ sid'[t] = sessionEpoch[p] + 1 /\ \A u \in Threads \ {t} : sid'[u] = sid[u]
          /\ port[t] = p /\ pc[t] = "open_begin" /\ links' = links
          /\ \A q \in Ports \ {p} :
                /\ state'[q] = state[q] /\ listener'[q] = listener[q]
                /\ sessionEpoch'[q] = sessionEpoch[q]
                /\ deathCleanupPending'[q] = deathCleanupPending[q]
      BY <2>2 DEF OpenBegin
    <3>2. ~ Observed(p)'
      BY <3>1
    <3>3. ASSUME NEW q \in Ports \ {p}
          PROVE  /\ Observed(q)' => Observed(q)
                 /\ \A u \in Threads : Cleaning(u, q) => Cleaning(u, q)'
      BY <3>1
    <3> QED
      BY <3>1, <3>2, <3>3
  <2>3. CASE OpenLink(t, p)
    BY <2>3 DEF OpenLink
  <2>4. CASE OpenLinkFails(t, p)
    BY <2>4 DEF OpenLinkFails
  <2>5. CASE OpenUndo(t, p)
    <3>1. /\ port[t] = p /\ pc[t] = "open_undo"
          /\ state'[p] = "CLOSED" /\ listener'[p] = None
          /\ links' = links
          /\ \A u \in Threads \ {t} : pc'[u] = pc[u] /\ port'[u] = port[u] /\ sid'[u] = sid[u]
          /\ \A q \in Ports \ {p} :
                /\ state'[q] = state[q] /\ listener'[q] = listener[q]
                /\ sessionEpoch'[q] = sessionEpoch[q]
                /\ deathCleanupPending'[q] = deathCleanupPending[q]
      BY <2>5 DEF OpenUndo
    <3>2. ~ Observed(p)'
      BY <3>1
    <3>3. ASSUME NEW q \in Ports \ {p}
          PROVE  /\ Observed(q)' => Observed(q)
                 /\ \A u \in Threads : Cleaning(u, q) => Cleaning(u, q)'
      BY <3>1
    <3> QED
      BY <3>1, <3>2, <3>3
  <2>6. CASE OpenReady(t, p)
    BY <2>6 DEF OpenReady
  <2> QED
    BY <1>2, <2>1, <2>2, <2>3, <2>4, <2>5, <2>6 DEF OpenStep
<1>3. ASSUME NEW t \in Threads, NEW p \in Ports, CloseStep(t, p)
      PROVE  CleanupNeverLost'
  <2>1. CASE CloseRejected(t, p)
    BY <2>1 DEF CloseRejected
  <2>2. CASE CloseBegin(t, p)
    BY <2>2 DEF CloseBegin
  <2>3. CASE CloseEnd(t, p)
    <3>1. /\ port[t] = p /\ pc[t] = "close_end"
          /\ state'[p] = "CLOSED" /\ listener'[p] = None
          /\ links' = links
          /\ \A u \in Threads \ {t} : pc'[u] = pc[u] /\ port'[u] = port[u] /\ sid'[u] = sid[u]
          /\ \A q \in Ports \ {p} :
                /\ state'[q] = state[q] /\ listener'[q] = listener[q]
                /\ sessionEpoch'[q] = sessionEpoch[q]
                /\ deathCleanupPending'[q] = deathCleanupPending[q]
      BY <2>3 DEF CloseEnd
    <3>2. ~ Observed(p)'
      BY <3>1
    <3>3. ASSUME NEW q \in Ports \ {p}
          PROVE  /\ Observed(q)' => Observed(q)
                 /\ \A u \in Threads : Cleaning(u, q) => Cleaning(u, q)'
      BY <3>1
    <3> QED
      BY <3>1, <3>2, <3>3
  <2>4. CASE CloseUnlink(t, p)
    BY <2>4 DEF CloseUnlink
  <2> QED
    BY <1>3, <2>1, <2>2, <2>3, <2>4 DEF CloseStep
<1>4. ASSUME NEW t \in Threads, NEW p \in Ports, StartStep(t, p)
      PROVE  CleanupNeverLost'
  <2>1. CASE StartRefused(t, p)
    BY <2>1 DEF StartRefused
  <2>2. CASE StartReserve(t, p)
    BY <2>2 DEF StartReserve
  <2>3. CASE StartRejected(t, p)
    BY <2>3 DEF StartRejected
  <2>4. CASE StartBegin(t, p)
    BY <2>4 DEF StartBegin
  <2>5. CASE StartSignal(t, p)
    BY <2>5 DEF StartSignal
  <2>6. CASE StartEnd(t, p)
    BY <2>6 DEF StartEnd
  <2>7. CASE StartBaseline(t, p)
    BY <2>7 DEF StartBaseline
  <2> QED
    BY <1>4, <2>1, <2>2, <2>3, <2>4, <2>5, <2>6, <2>7 DEF StartStep
<1>5. ASSUME NEW t \in Threads, NEW p \in Ports, StopStep(t, p)
      PROVE  CleanupNeverLost'
  BY <1>5 DEF StopStep, StopRejected, StopBegin, StopReady, StopRelease
<1>6. ASSUME NEW t \in Threads, NEW p \in Ports, TailStep(t, p)
      PROVE  CleanupNeverLost'
  <2>1. CASE TailReturn(t, p)
    BY <2>1 DEF TailReturn
  <2>2. CASE TailRunsCleanup(t, p)
    BY <2>2 DEF TailRunsCleanup
  <2> QED
    BY <1>6, <2>1, <2>2 DEF TailStep
<1>7. ASSUME NEW t \in Threads, NEW p \in Ports, DeathStep(t, p)
      PROVE  CleanupNeverLost'
  <2>1. CASE DeathIgnored(t, p)
    BY <2>1 DEF DeathIgnored
  <2>2. CASE DeathDeferred(t, p)
    BY <2>2 DEF DeathDeferred
  <2>3. CASE DeathStop(t, p)
    BY <2>3 DEF DeathStop
  <2>4. CASE DeathSkipsStop(t, p)
    BY <2>4 DEF DeathSkipsStop
  <2>5. CASE DeathReady(t, p)
    BY <2>5 DEF DeathReady
  <2>6. CASE DeathRelease(t, p)
    BY <2>6 DEF DeathRelease
  <2>7. CASE DeathCloseIgnored(t, p)
    BY <2>7 DEF DeathCloseIgnored
  <2>8. CASE DeathCloseDeferred(t, p)
    BY <2>8 DEF DeathCloseDeferred
  <2>9. CASE DeathClose(t, p)
    BY <2>9 DEF DeathClose
  <2>10. CASE DeathEnd(t, p)
    <3>1. /\ port[t] = p /\ pc[t] = "death_end"
          /\ state'[p] = "CLOSED" /\ listener'[p] = None
          /\ links' = links
          /\ \A u \in Threads \ {t} : pc'[u] = pc[u] /\ port'[u] = port[u] /\ sid'[u] = sid[u]
          /\ \A q \in Ports \ {p} :
                /\ state'[q] = state[q] /\ listener'[q] = listener[q]
                /\ sessionEpoch'[q] = sessionEpoch[q]
                /\ deathCleanupPending'[q] = deathCleanupPending[q]
      BY <2>10 DEF DeathEnd
    <3>2. ~ Observed(p)'
      BY <3>1
    <3>3. ASSUME NEW q \in Ports \ {p}
          PROVE  /\ Observed(q)' => Observed(q)
                 /\ \A u \in Threads : Cleaning(u, q) => Cleaning(u, q)'
      BY <3>1
    <3> QED
      BY <3>1, <3>2, <3>3
  <2> QED
    BY <1>7, <2>1, <2>2, <2>3, <2>4, <2>5,
       <2>6, <2>7, <2>8, <2>9, <2>10 DEF DeathStep
<1>8. ASSUME NEW t \in Threads, NEW k \in links, NotifyDeath(t, k)
      PROVE  CleanupNeverLost'
  BY <1>8 DEF NotifyDeath
<1>9. ASSUME NEW c \in RemoteClients, Die(c)
      PROVE  CleanupNeverLost'
  BY <1>9 DEF Die
<1> QED
  BY <1>1, <1>2, <1>3, <1>4, <1>5, <1>6, <1>7, <1>8, <1>9 DEF Next, ThreadStep

(* A thread that leaves a port on which a clean-up is deferred has looked  *)
(* at the deferral at its tail, or leaves the port STARTED.                *)
LEMMA ComesBackStep ==
    ASSUME TypeOK, OneDriver, SessionIdentity, ThreadsOfSessions,
           PendingOfDead, DeferredComesBack, Next
    PROVE  DeferredComesBack'
<1> USE LabelFacts, NoneAssumption, ClientsAssumption
    DEF TypeOK, OneDriver, Driver, SessionIdentity, ThreadsOfSessions,
       InSession, DeferredComesBack, ComesBack, Cleaning, DeathLabels,
       Abandoned, PendingOfDead, Stale, Tails, session, threads, world, Goto,
       Enter, Return, SetState, RetireSession, ReleaseSlot, At
<1>1. ASSUME NEW t \in Threads, Call(t)
      PROVE  DeferredComesBack'
  <2>1. ASSUME NEW p \in Ports, NEW c \in Clients, CallOpen(t, p, c)
        PROVE  DeferredComesBack'
    BY <2>1 DEF CallOpen
  <2>2. ASSUME NEW h \in handed, NEW l \in ControllerCalls,
               CallController(t, h, l)
        PROVE  DeferredComesBack'
    BY <2>2 DEF CallController, ControllerCalls
  <2> QED
    BY <1>1, <2>1, <2>2 DEF Call
<1>2. ASSUME NEW t \in Threads, NEW p \in Ports, OpenStep(t, p)
      PROVE  DeferredComesBack'
  BY <1>2 DEF OpenStep, OpenRejected, OpenBegin, OpenLink, OpenLinkFails,
             OpenUndo, OpenReady
<1>3. ASSUME NEW t \in Threads, NEW p \in Ports, CloseStep(t, p)
      PROVE  DeferredComesBack'
  BY <1>3 DEF CloseStep, CloseRejected, CloseBegin, CloseEnd, CloseUnlink
<1>4. ASSUME NEW t \in Threads, NEW p \in Ports, StartStep(t, p)
      PROVE  DeferredComesBack'
  BY <1>4 DEF StartStep, StartRefused, StartReserve, StartRejected,
             StartBegin, StartSignal, StartEnd, StartBaseline
<1>5. ASSUME NEW t \in Threads, NEW p \in Ports, StopStep(t, p)
      PROVE  DeferredComesBack'
  BY <1>5 DEF StopStep, StopRejected, StopBegin, StopReady, StopRelease
<1>6. ASSUME NEW t \in Threads, NEW p \in Ports, TailStep(t, p)
      PROVE  DeferredComesBack'
  BY <1>6 DEF TailStep, TailReturn, TailRunsCleanup
<1>7. ASSUME NEW t \in Threads, NEW p \in Ports, DeathStep(t, p)
      PROVE  DeferredComesBack'
  BY <1>7 DEF DeathStep, DeathIgnored, DeathDeferred, DeathStop,
             DeathSkipsStop, DeathReady, DeathRelease, DeathCloseIgnored,
             DeathCloseDeferred, DeathClose, DeathEnd
<1>8. ASSUME NEW t \in Threads, NEW k \in links, NotifyDeath(t, k)
      PROVE  DeferredComesBack'
  BY <1>8 DEF NotifyDeath
<1>9. ASSUME NEW c \in RemoteClients, Die(c)
      PROVE  DeferredComesBack'
  BY <1>9 DEF Die
<1> QED
  BY <1>1, <1>2, <1>3, <1>4, <1>5, <1>6, <1>7, <1>8, <1>9 DEF Next, ThreadStep

(* Adding or removing one element moves the cardinality by one.            *)
LEMMA Gains ==
    ASSUME NEW S, NEW x, IsFiniteSet(S), x \notin S
    PROVE  Cardinality(S \union {x}) = Cardinality(S) + 1
BY FS_AddElement

(* Removing an element lowers the cardinality, which was not zero.         *)
LEMMA Loses ==
    ASSUME NEW S, NEW x, IsFiniteSet(S), x \in S
    PROVE  Cardinality(S \ {x}) = Cardinality(S) - 1 /\ Cardinality(S) > 0
<1>1. Cardinality(S) \in Nat /\ Cardinality(S) # 0
  BY FS_CardinalityType, FS_EmptySet
<1> QED
  BY <1>1, FS_RemoveElement

(* The two sets the counter counts are finite.                             *)
LEMMA SlotSetsFinite ==
    /\ IsFiniteSet(BusyPorts) /\ Cardinality(BusyPorts) \in Nat
    /\ IsFiniteSet(Holders)   /\ Cardinality(Holders) \in Nat
<1>1. IsFiniteSet(BusyPorts) /\ IsFiniteSet(Holders)
  BY PortsAssumption, ThreadsAssumption, FS_Subset DEF BusyPorts, Holders
<1> QED
  BY <1>1, FS_CardinalityType

(* A step keeps the count exact if it moves the counter as it moves the    *)
(* two sets: reservation, failed check, start, the way back, release.      *)
LEMMA SlotsStep ==
    ASSUME TypeOK, OneDriver, SlotsAccounted, SlotLimit, Next
    PROVE  SlotsAccounted' /\ SlotLimit'
<1> DEFINE Goal  == SlotsAccounted' /\ SlotLimit'
           Quiet == /\ BusyPorts' = BusyPorts
                    /\ Holders' = Holders
                    /\ startedPorts' = startedPorts
           Release(t) == /\ t \in Holders
                         /\ BusyPorts' = BusyPorts
                         /\ Holders' = Holders \ {t}
                         /\ ReleaseSlot
           Reserve(t) == /\ t \notin Holders /\ SlotFree
                         /\ BusyPorts' = BusyPorts
                         /\ Holders' = Holders \union {t}
                         /\ startedPorts' = startedPorts + 1
           Up(t, p)   == /\ p \notin BusyPorts /\ t \in Holders
                         /\ BusyPorts' = BusyPorts \union {p}
                         /\ Holders' = Holders \ {t}
                         /\ startedPorts' = startedPorts
           Back(t, p) == /\ p \in BusyPorts /\ t \notin Holders
                         /\ BusyPorts' = BusyPorts \ {p}
                         /\ Holders' = Holders \union {t}
                         /\ startedPorts' = startedPorts
<1> USE SlotSetsFinite, LimitFacts DEF SlotsAccounted, SlotLimit
<1>q. Quiet => Goal
  OBVIOUS
<1>r. ASSUME NEW t \in Threads, Release(t)
      PROVE  Goal
  <2>1. Cardinality(Holders \ {t}) = Cardinality(Holders) - 1
    BY <1>r, Loses
  <2>2. Cardinality(Holders) > 0
    BY <1>r, Loses
  <2> QED
    BY <1>r, <2>1, <2>2 DEF ReleaseSlot
<1>v. ASSUME NEW t \in Threads, Reserve(t)
      PROVE  Goal
  <2>1. Cardinality(Holders \union {t}) = Cardinality(Holders) + 1
    BY <1>v, Gains
  <2> QED
    BY <1>v, <2>1 DEF SlotFree
<1>u. ASSUME NEW t \in Threads, NEW p \in Ports, Up(t, p)
      PROVE  Goal
  <2>1. Cardinality(BusyPorts \union {p}) = Cardinality(BusyPorts) + 1
    BY <1>u, Gains
  <2>2. Cardinality(Holders \ {t}) = Cardinality(Holders) - 1
    BY <1>u, Loses
  <2> QED
    BY <1>u, <2>1, <2>2
<1>b. ASSUME NEW t \in Threads, NEW p \in Ports, Back(t, p)
      PROVE  Goal
  <2>1. Cardinality(BusyPorts \ {p}) = Cardinality(BusyPorts) - 1
    BY <1>b, Loses
  <2>2. Cardinality(Holders \union {t}) = Cardinality(Holders) + 1
    BY <1>b, Gains
  <2> QED
    BY <1>b, <2>1, <2>2
<1> HIDE DEF Goal
<1> USE LabelFacts DEF TypeOK, OneDriver, Driver, Holding, BusyPorts, Holders,
        Tails, session, threads, world, Goto, Enter, Return, SetState,
        RetireSession, At
<1>1. ASSUME NEW t \in Threads, Call(t)
      PROVE  Quiet
  BY <1>1 DEF Call, CallOpen, CallController, ControllerCalls
<1>2. ASSUME NEW t \in Threads, NEW p \in Ports, OpenStep(t, p)
      PROVE  Quiet
  BY <1>2 DEF OpenStep, OpenRejected, OpenBegin, OpenLink, OpenLinkFails,
              OpenUndo, OpenReady
<1>3. ASSUME NEW t \in Threads, NEW p \in Ports, CloseStep(t, p)
      PROVE  Quiet
  BY <1>3 DEF CloseStep, CloseRejected, CloseBegin, CloseEnd, CloseUnlink
<1>4. ASSUME NEW t \in Threads, NEW p \in Ports, StartStep(t, p)
      PROVE  Goal
  <2>1. CASE StartReserve(t, p)
    <3>1. Reserve(t)
      BY <2>1 DEF StartReserve
    <3> QED
      BY <3>1, <1>v
  <2>2. CASE StartRejected(t, p)
    <3>1. Release(t)
      BY <2>2 DEF StartRejected
    <3> QED
      BY <3>1, <1>r
  <2>3. CASE StartBegin(t, p)
    <3>1. Up(t, p)
      BY <2>3 DEF StartBegin
    <3> QED
      BY <3>1, <1>u
  <2>4. CASE \/ StartRefused(t, p) \/ StartSignal(t, p)
             \/ StartEnd(t, p)     \/ StartBaseline(t, p)
    <3>1. Quiet
      BY <2>4 DEF StartRefused, StartSignal, StartEnd, StartBaseline
    <3> QED
      BY <3>1, <1>q
  <2> QED
    BY <1>4, <2>1, <2>2, <2>3, <2>4 DEF StartStep
<1>5. ASSUME NEW t \in Threads, NEW p \in Ports, StopStep(t, p)
      PROVE  Goal
  <2>1. CASE StopReady(t, p)
    <3>1. Back(t, p)
      BY <2>1 DEF StopReady
    <3> QED
      BY <3>1, <1>b
  <2>2. CASE StopRelease(t, p)
    <3>1. Release(t)
      BY <2>2 DEF StopRelease
    <3> QED
      BY <3>1, <1>r
  <2>3. CASE StopRejected(t, p) \/ StopBegin(t, p)
    <3>1. Quiet
      BY <2>3 DEF StopRejected, StopBegin
    <3> QED
      BY <3>1, <1>q
  <2> QED
    BY <1>5, <2>1, <2>2, <2>3 DEF StopStep
<1>6. ASSUME NEW t \in Threads, NEW p \in Ports, TailStep(t, p)
      PROVE  Quiet
  BY <1>6 DEF TailStep, TailReturn, TailRunsCleanup
<1>7. ASSUME NEW t \in Threads, NEW p \in Ports, DeathStep(t, p)
      PROVE  Goal
  <2>1. CASE DeathReady(t, p)
    <3>1. Back(t, p)
      BY <2>1 DEF DeathReady
    <3> QED
      BY <3>1, <1>b
  <2>2. CASE DeathRelease(t, p)
    <3>1. Release(t)
      BY <2>2 DEF DeathRelease
    <3> QED
      BY <3>1, <1>r
  <2>3. CASE \/ DeathIgnored(t, p)      \/ DeathDeferred(t, p)
             \/ DeathStop(t, p)         \/ DeathSkipsStop(t, p)
             \/ DeathCloseIgnored(t, p) \/ DeathCloseDeferred(t, p)
             \/ DeathClose(t, p)        \/ DeathEnd(t, p)
    <3>1. Quiet
      BY <2>3 DEF DeathIgnored, DeathDeferred, DeathStop, DeathSkipsStop,
         DeathCloseIgnored, DeathCloseDeferred, DeathClose, DeathEnd
    <3> QED
      BY <3>1, <1>q
  <2> QED
    BY <1>7, <2>1, <2>2, <2>3 DEF DeathStep
<1>8. ASSUME NEW t \in Threads, NEW k \in links, NotifyDeath(t, k)
      PROVE  Quiet
  BY <1>8 DEF NotifyDeath, Handle
<1>9. ASSUME NEW c \in RemoteClients, Die(c)
      PROVE  Quiet
  BY <1>9 DEF Die
<1>10. Goal
  BY <1>q, <1>1, <1>2, <1>3, <1>4, <1>5, <1>6, <1>7, <1>8, <1>9
     DEF Next, ThreadStep
<1> QED
  BY <1>10 DEF Goal

(* The service comes up with every port CLOSED and nobody at work, which   *)
(* satisfies every part of the invariant.                                  *)
LEMMA IInvInit == Init => IInv
<1> SUFFICES ASSUME Init PROVE IInv
  OBVIOUS
<1>1. TypeOK
  BY TypeInit
<1>2. SlotsAccounted /\ SlotLimit
  <2>1. BusyPorts = {} /\ Holders = {}
    BY DEF Init, BusyPorts, Holders, Holding
  <2> QED
    BY <2>1, LimitFacts, FS_EmptySet DEF Init, SlotsAccounted, SlotLimit
<1>3. OneDriver /\ SessionIdentity
  BY LabelFacts, NoneAssumption DEF Init, OneDriver, Driver, SessionIdentity
<1>4. LinksOfSessions /\ ThreadsOfSessions /\ PendingOfDead
  BY NoneAssumption DEF Init, LinksOfSessions, ThreadsOfSessions,
     PendingOfDead, Cleaning, DeathLabels, InSession
<1>5. CleanupNeverLost /\ DeferredComesBack
  BY NoneAssumption, ClientsAssumption
     DEF Init, CleanupNeverLost, Observed, DeferredComesBack
<1> QED
  BY <1>1, <1>2, <1>3, <1>4, <1>5 DEF IInv

(* The parts above are inductive together; a stuttering step keeps them.   *)
LEMMA IInvStep == IInv /\ [Next]_vars => IInv'
<1> SUFFICES ASSUME IInv, [Next]_vars PROVE IInv'
  OBVIOUS
<1>1. CASE Next
  BY <1>1, TypeStep, OneDriverStep, SlotsStep, SessionIdentityStep, LinksStep,
     ThreadsStep, PendingStep, NeverLostStep, ComesBackStep DEF IInv
<1>2. CASE UNCHANGED vars
  BY <1>2 DEF IInv, vars, session, threads, world, TypeOK, OneDriver, Driver,
     SlotsAccounted, SlotLimit, BusyPorts, Holders, SessionIdentity,
     LinksOfSessions, ThreadsOfSessions, PendingOfDead, CleanupNeverLost,
     Observed, At, Cleaning, Abandoned, DeferredComesBack, ComesBack
<1> QED
  BY <1>1, <1>2

(* The inductive invariant holds in every state of every behaviour of the  *)
(* threads, whatever the numbers of ports, threads, clients and sessions.  *)
THEOREM Invariant == Spec => []IInv
BY IInvInit, IInvStep, PTL DEF Spec

(* The variables keep their types.                                         *)
THEOREM TypeCorrect == Spec => []TypeOK
BY Invariant, PTL DEF IInv

(* A port in a transient state is driven by exactly one thread.            *)
THEOREM TransitionsExclusive == Spec => []OneDriver
BY Invariant, PTL DEF IInv

(* The counter of started ports is exact: no slot leaks, none is given     *)
(* back twice.                                                             *)
THEOREM SlotsExact == Spec => []SlotsAccounted
BY Invariant, PTL DEF IInv

(* No interleaving of start(), stop() and clean-ups has more ports started *)
(* than the profile allows.                                                *)
THEOREM LimitHolds == Spec => []StartedLimit
<1>1. IInv => StartedLimit
  BY SlotSetsFinite, LimitFacts DEF IInv, SlotsAccounted, SlotLimit, StartedLimit
<1> QED
  BY <1>1, Invariant, PTL

(* The controller of an open port is the one of its session.               *)
THEOREM SessionsIdentified == Spec => []SessionIdentity
BY Invariant, PTL DEF IInv

(* The clean-up of an observed client's session is never lost: it is still *)
(* to come, deferred, or running.                                          *)
THEOREM CleanupKept == Spec => []CleanupNeverLost
BY Invariant, PTL DEF IInv

(* Where a clean-up was deferred its client is dead, and someone comes     *)
(* back to it unless the port is STARTED.                                  *)
THEOREM CleanupResumed == Spec => []DeferredComesBack
BY Invariant, PTL DEF IInv

(* A clean-up moves a port only in the session of a client that is dead.   *)
THEOREM CleanupSafe == Spec => CleanupOnlyDead
<1> DEFINE Safe == \A t \in Threads, p \in Ports :
                      DeathStep(t, p) /\ state'[p] # state[p] => Abandoned(p)
<1>1. IInv /\ [Next]_vars => [Safe]_vars
  <2> SUFFICES ASSUME IInv, NEW t \in Threads, NEW p \in Ports,
                      DeathStep(t, p), state'[p] # state[p]
               PROVE  Abandoned(p)
    OBVIOUS
  <2>1. port[t] = p /\ Cleaning(t, p)
    BY LabelFacts DEF IInv, TypeOK, ThreadsOfSessions, InSession, Cleaning,
       DeathLabels, DeathStep, DeathIgnored, DeathDeferred, DeathStop,
       DeathSkipsStop, DeathReady, DeathRelease, DeathCloseIgnored,
       DeathCloseDeferred, DeathClose, DeathEnd, At, Stale, session
  <2> QED
    BY <2>1 DEF IInv, ThreadsOfSessions
<1> QED
  BY <1>1, Invariant, PTL DEF Spec, CleanupOnlyDead

(* The service comes up as the contract says.                              *)
LEMMA ContractInit == Init => Contract!Init
BY DEF Init, Contract!Init

(* The instance counts as this module does.                                *)
LEMMA ContractCounts == \A S : Contract!Cardinality(S) = Cardinality(S)
BY Zenon DEF Contract!Cardinality, Cardinality

(* Each section of a handler is one edge of the contract, or none.         *)
LEMMA ContractStep == IInv /\ [Next]_vars => [Contract!Next]_(Contract!vars)
<1> SUFFICES ASSUME IInv, [Next]_vars
             PROVE  Contract!Next \/ UNCHANGED Contract!vars
  OBVIOUS
<1> DEFINE Goal == Contract!Next \/ UNCHANGED Contract!vars
<1> USE LabelFacts
    DEF IInv, TypeOK, OneDriver, Driver, Contract!vars, Contract!Edge,
        Contract!Keep, session, threads, world, SetState, At
<1>0. CASE UNCHANGED vars
  BY <1>0 DEF vars
<1>1. ASSUME NEW t \in Threads, Call(t)
      PROVE  Goal
  BY <1>1 DEF Call, CallOpen, CallController
<1>2. ASSUME NEW t \in Threads, NEW p \in Ports, OpenStep(t, p)
      PROVE  Goal
  <2>1. CASE OpenBegin(t, p)
    <3>1. Contract!Open(p, opener[t])
      BY <2>1 DEF OpenBegin, Contract!Open
    <3> QED
      BY <2>1, <3>1 DEF OpenBegin, Contract!Next
  <2>2. CASE OpenUndo(t, p)
    <3>1. Contract!Undo(p)
      BY <2>2, ClientsAssumption DEF OpenUndo, RetireSession, ThreadsOfSessions, Abandoned,
             Contract!Undo
    <3> QED
      BY <3>1 DEF Contract!Next
  <2>3. CASE OpenReady(t, p)
    <3>1. Contract!Opened(p)
      BY <2>3 DEF OpenReady, Contract!Opened
    <3> QED
      BY <3>1 DEF Contract!Next
  <2>4. CASE OpenRejected(t, p) \/ OpenLink(t, p) \/ OpenLinkFails(t, p)
    BY <2>4 DEF OpenRejected, OpenLink, OpenLinkFails
  <2> QED
    BY <1>2, <2>1, <2>2, <2>3, <2>4 DEF OpenStep
<1>3. ASSUME NEW t \in Threads, NEW p \in Ports, CloseStep(t, p)
      PROVE  Goal
  <2>1. CASE CloseBegin(t, p)
    <3>1. Contract!Close(p)
      BY <2>1 DEF CloseBegin, Contract!Close
    <3> QED
      BY <3>1 DEF Contract!Next
  <2>2. CASE CloseEnd(t, p)
    <3>1. Contract!Closed(p)
      BY <2>2 DEF CloseEnd, RetireSession, Contract!Closed
    <3> QED
      BY <3>1 DEF Contract!Next
  <2>3. CASE CloseRejected(t, p) \/ CloseUnlink(t, p)
    BY <2>3 DEF CloseRejected, CloseUnlink
  <2> QED
    BY <1>3, <2>1, <2>2, <2>3 DEF CloseStep
<1>4. ASSUME NEW t \in Threads, NEW p \in Ports, StartStep(t, p)
      PROVE  Goal
  <2>1. CASE StartBegin(t, p)
    <3>1. Cardinality(Contract!Started) < MaxStartedPorts
      <4>1. Contract!Started = BusyPorts
        BY DEF Contract!Started, BusyPorts
      <4>2. t \in Holders
        BY <2>1 DEF StartBegin, Holders, Holding
      <4>3. Cardinality(Holders) > 0
        BY <4>2, SlotSetsFinite, Loses
      <4> QED
        BY <4>1, <4>3, SlotSetsFinite, LimitFacts
           DEF SlotsAccounted, SlotLimit
    <3>2. Contract!Keep(p, "READY", "STARTING")
      BY <2>1 DEF StartBegin
    <3>3. Contract!Start(p)
      BY <3>1, <3>2, ContractCounts DEF Contract!Start
    <3> QED
      BY <3>3 DEF Contract!Next
  <2>2. CASE StartEnd(t, p)
    <3>1. Contract!Up(p)
      BY <2>2 DEF StartEnd, Contract!Up
    <3> QED
      BY <3>1 DEF Contract!Next
  <2>3. CASE \/ StartRefused(t, p)  \/ StartReserve(t, p)
             \/ StartRejected(t, p) \/ StartSignal(t, p)
             \/ StartBaseline(t, p)
    BY <2>3 DEF StartRefused, StartReserve, StartRejected, StartSignal,
       StartBaseline
  <2> QED
    BY <1>4, <2>1, <2>2, <2>3 DEF StartStep
<1>5. ASSUME NEW t \in Threads, NEW p \in Ports, StopStep(t, p)
      PROVE  Goal
  <2>1. CASE StopBegin(t, p)
    <3>1. Contract!Stop(p)
      BY <2>1 DEF StopBegin, Contract!Stop
    <3> QED
      BY <3>1 DEF Contract!Next
  <2>2. CASE StopReady(t, p)
    <3>1. Contract!Stopped(p)
      BY <2>2 DEF StopReady, Contract!Stopped
    <3> QED
      BY <3>1 DEF Contract!Next
  <2>3. CASE StopRejected(t, p) \/ StopRelease(t, p)
    BY <2>3 DEF StopRejected, StopRelease
  <2> QED
    BY <1>5, <2>1, <2>2, <2>3 DEF StopStep
<1>6. ASSUME NEW t \in Threads, NEW p \in Ports, TailStep(t, p)
      PROVE  Goal
  BY <1>6 DEF TailStep, TailReturn, TailRunsCleanup
<1>7. ASSUME NEW t \in Threads, NEW p \in Ports, DeathStep(t, p)
      PROVE  Goal
  <2>1. CASE DeathStop(t, p)
    <3>1. Contract!Stop(p)
      BY <2>1 DEF DeathStop, Contract!Stop
    <3> QED
      BY <3>1 DEF Contract!Next
  <2>2. CASE DeathReady(t, p)
    <3>1. Contract!Stopped(p)
      BY <2>2 DEF DeathReady, Contract!Stopped
    <3> QED
      BY <3>1 DEF Contract!Next
  <2>3. CASE DeathClose(t, p)
    <3>1. Contract!Close(p)
      BY <2>3 DEF DeathClose, Contract!Close
    <3> QED
      BY <3>1 DEF Contract!Next
  <2>4. CASE DeathEnd(t, p)
    <3>1. Contract!Closed(p)
      BY <2>4 DEF DeathEnd, RetireSession, Contract!Closed
    <3> QED
      BY <3>1 DEF Contract!Next
  <2>5. CASE \/ DeathIgnored(t, p)   \/ DeathDeferred(t, p)
             \/ DeathSkipsStop(t, p) \/ DeathRelease(t, p)
             \/ DeathCloseIgnored(t, p) \/ DeathCloseDeferred(t, p)
    BY <2>5 DEF DeathIgnored, DeathDeferred, DeathSkipsStop, DeathRelease,
       DeathCloseIgnored, DeathCloseDeferred
  <2> QED
    BY <1>7, <2>1, <2>2, <2>3, <2>4, <2>5 DEF DeathStep
<1>8. ASSUME NEW t \in Threads, NEW k \in links, NotifyDeath(t, k)
      PROVE  Goal
  BY <1>8 DEF NotifyDeath
<1>9. ASSUME NEW c \in RemoteClients, Die(c)
      PROVE  Goal
  <2>1. Contract!Leave(c)
    BY <1>9, ClientsAssumption DEF Die, Contract!Leave
  <2> QED
    BY <2>1 DEF Contract!Next
<1> QED
  BY <1>0, <1>1, <1>2, <1>3, <1>4, <1>5, <1>6, <1>7, <1>8, <1>9
     DEF Next, ThreadStep

(* The threads implement the contract.                                     *)
THEOREM Implements == Spec => ImplementsContract
BY ContractInit, ContractStep, Invariant, PTL
   DEF Spec, ImplementsContract, Contract!Spec
=============================================================================
