# CompositeInput HAL: TLA+ models, checks and proofs

This directory holds a verification development for the CompositeInput vcomponent: a
Binder service that exposes one or more composite-video input ports
(`ICompositeInputManager`, `ICompositeInputPort`, `ICompositeInputController`), built
from an HFP profile (YAML) and driven, in place of hardware, by a UT control plane that
injects what the physical input does.

Paths below are relative to the repository; `Port.cpp` stands for
`src/aidl/vcomponent_CompositeInputPort.cpp`, and likewise `Manager.cpp`,
`Controller.cpp`, `EventListener.cpp`, `ControllerListener.cpp`, `UtController.cpp`,
`ParseConfig.cpp`, `Helper.cpp`, `Service.cpp`.

## 1. Inventory

### 1.1 Components, their state and their operations

| Component | State | Operations | What makes it correct |
|---|---|---|---|
| Port lifecycle and sessions (`Port.cpp`, `Controller.cpp`) | per port, under `m_mutex`: `m_state`, `m_controller`, `m_controllerListener`, `m_sessionEpoch`, `m_deathCleanupPending`; for all ports, under `g_startedMutex`: `g_startedPorts`, `g_maxStartedPorts` | `open`, `close`, `start`, `stop`, `binderDied` -> `cleanupAfterControllerDeath`, `runPendingDeathCleanupIfNeeded` | one thread drives a transition; the counter of started ports is exact and within the limit; a session has one client; the session of a dead client ends; a clean-up never disturbs another session |
| State events (`Port.cpp`, `EventListener.cpp`) | `m_eventListeners` | `registerEventListener`, `unregisterEventListener`, `setStateLocked` (snapshot), `onStateChanged` (fan-out and delivery barrier) | every edge is sent to every listener registered at the transition, exactly once; a rolled back `open` is silent |
| Physical input (`Port.cpp`, `ControllerListener.cpp`) | `m_cachedStatus`, cached telemetry | UT commands CONNECTION_STATUS, SIGNAL_STATUS, VIDEO_MODE, CLEAR_VIDEO_MODE; the callbacks of `open` and `start`; `getStatus` | a mode stands only beside a stable signal; the client learns the current connection and signal, and polls what it was told; a report moves telemetry in a starting or started session only, and then with the signal (SET_PROPERTY, and `setProperty` where the profile allows it, put any number there in any state) |
| Properties and metrics (`Port.cpp`) | `m_cachedProperties`, metric counters | `setProperty`, `setPropertyMulti`, `resetMetrics`, `resetSessionStateLocked`, UT SET_PROPERTY, baseline events of `start`; `getProperty`, `getPropertyMulti` | batches are atomic; values of controllers have the declared types; integer counters restart with the session; observers hear the values a poll answers |
| Manager (`Manager.cpp`) | `m_ports`, `m_platformCaps`, `m_stopUtWorker`, the worker thread | constructor, `publishAndJoinThreadPool`, destructor, `utWorkerLoop`, `handleQueuedUtMessage`; `getPortIds`, `getPort`, `getPlatformCapabilities` | start-up and shutdown in order; messages reach the port they name; clients reach every port of the profile |
| UT controller (`UtController.cpp`) | `m_controlPlaneInstance`, `m_messageQueue` | `init`, `shutdown`, `messageCallback`/`pushMessage`, `getMessage`, `decodeCommand` | the queue is first in, first out; nothing is lost while the service runs |
| UT messages (`Port.cpp`, `Manager.cpp`, `UtController.cpp`, `Helper.cpp`) | none kept: document -> change of one port and announcements | `handleUTControlPlaneMessage` and the helpers that read its fields | the spelling of a message makes no difference; a faulty one changes nothing; numbers keep their meaning; no open session misses a change |
| Mutexes (`Port.cpp`, `Manager.cpp`, `UtController.cpp`) | `m_mutex` of each port, `g_startedMutex`, the manager's `m_mutex`, `m_queueMutex` | every function above | given back on every way out; none held while a listener is called; never waited for in a circle |
| HFP parser and loading (`ParseConfig.cpp`, `Helper.cpp`, `Manager.cpp`) | none kept: file -> `CompositeInputHfpConfig` -> ports and capabilities | `vcomponent_CompositeInput_parseConfig` and its readers, `toPortProperties`, `toPropertyMetadata`, `loadCapabilitiesFromConfig` | accepts right files only, whole; loses nothing of them; values fit the AIDL types |
| Service entry point (`Service.cpp`) | the configured path and control-plane port | `main`, `parseArgs`, `parsePort` | exactly the right command lines are served, with what they ask for |
| Logger, build files | -- | logging | not modelled, see section 7 |

### 1.2 How they interact

* **Binder pool -> port.** Calls arrive on any thread of the pool, several at a time, also
  on one port. Every handler is a sequence of short critical sections. Between two of
  them it holds *no* lock: that is where events and callbacks are sent, and where any
  other thread may run.
* **libbinder -> port.** The death of a remote client is reported on a pool thread too. A
  notification carries the session epoch it was linked for.
* **Port -> observers / controller listener.** Always outside the mutex, from lists and
  references copied inside it.
* **Port <-> port.** Only through the started-ports counter.
* **UT control plane thread -> queue -> manager worker -> port.** One producer, one
  consumer; the worker is the only thread that applies reports.
* **Main thread.** Construction, publication, and joining the worker at the end.

### 1.3 What is hard here

Transitions split over several critical sections; obituaries that meet a transition in
flight and are handed over through a flag; a limit kept under another mutex than the
states it counts; early returns that have to undo a reservation; callbacks made from a
snapshot while newer reports overtake them; edges of two threads crossing on their way to
an observer; controllers that outlive their session; a worker that has to be stopped,
joined and drained; listeners in the service process that call back into it; messages whose
fields go by several names and types. `PROJECT.json` lists each hazard at its line with the properties that
would catch it going wrong.

## 2. Modules

```
PortContract  <---- refined by ----  PortLifecycle  <---- PortLifecycleProofs (TLAPS)
     ^                                  ^        ^
     | EXTENDS                          |        | EXTENDS
PortProperties                     PortEvents  PortSignal ---- implements ----> PhysicalInput
                                                                                     ^
                                   UtMessage ------------ implements ----------------+
ServiceEntry <-- EXTENDS -- UtControlPlane -- implements --> MessageChannel

HfpProfile                         PortLocks

SignalLevels is EXTENDed by PortSignal, PhysicalInput and UtMessage; MC* are TLC instances.
For each of PortEvents, PortSignal, PortProperties, UtMessage, UtControlPlane, HfpProfile and
PortLocks there is a module <name>Proofs (TLAPS); those of PortEvents and PortSignal EXTEND
PortLifecycleProofs.
```

* **PortContract** - the abstract specification: what a client may rely on, without
  threads, locks or counters. Each port walks the lifecycle one edge at a time, belongs to
  one client from leaving CLOSED until it is CLOSED again, is undone only for a client that is
  gone, and never enters STARTING when `Limit` ports are busy.
* **PortLifecycle** - the detailed specification. One action is one critical section or
  one binder interaction; `pc[t]` names the section thread `t` enters next, `sid[t]` is the
  session its controller or death recipient was made for. Variables correspond to
  members one to one (the declarations name them). `m_controller` is represented by the
  epoch of its session, 0 when null: pointer comparison in `close` is comparison of
  sessions. `links` is what libbinder knows of, `handed` the controllers clients hold; a
  client keeps its controller after close, which the code permits. A
  call made from inside a callback by a client in the service process needs no action
  of its own: it behaves as a call on another thread made in that gap.
* **PortLifecycleProofs** and the other seven modules named `...Proofs` - the theorems, section 5.
* **PortEvents** - composes PortLifecycle with the listeners: each transition takes the
  snapshot of listeners, its thread sends the edge before its next section, and
  observers register and leave at any time. `outbox` holds what a thread has still to send, one edge
  for each observer with its place in the snapshot, and the least place goes first. `pos` counts, per observer and state,
  edges in minus edges out, so that it stays comparable whatever order edges arrive in. Leaving changes the list and
  nothing else: edges in the snapshots of other threads still arrive, and when the observer has registered again
  by then they contradict what it polled. An observer may refuse a call, which the code logs and does not repeat
  (`Lose`). A rolled back `open` tells nobody (`Retract`). `misled` is history: how far these three put the
  account of an observer out, and `newcomers` is who has polled OPENING.
* **PortSignal** - composes PortLifecycle with the worker of the control plane: the
  reports, the telemetry derived from the signal, what SET_PROPERTY and `setProperty` put in its place
  (`UtSetProperty`, `SetProperty`), and what `open`, `start` and the worker tell the controller listener; `getStatus` is the operator `GetStatus`. It implements PhysicalInput: the lifecycle
  never touches the input. `overtaken` records when a worker callback was made while
  the older snapshot of `open` or `start` was still to be delivered.
* **PortProperties** - the property cache over PortContract: every operation on the cache is
  one critical section, so the abstract lifecycle, which PortLifecycle is proved to
  implement, is all it needs of the ports. An event carries the observers it has still to reach. The getters are the operators `GetProperty` and
  `GetPropertyMulti`, and observers poll through them. Values have the six tags of AIDL, as what the end of a session clears
  depends on the tag (`Retired`). Events in flight reach observers that have left, and may be refused (`Refuse`).
  `writer` (the service itself, a controller, the host), `written` and `doubtful` are history.
* **PhysicalInput** - the abstract specification of an emulated input: a cable, a signal, and a mode
  detected on a stable signal only, without sessions and without messages.
* **SignalLevels** - the signal statuses and the telemetry derived from each.
* **UtMessage** - one document of the host, from its fields to what the addressed port changes and
  announces: command table, aliases, defaults, trimming, casts, every early return. Two copies of
  the ports, `real` and `twin`, are driven by the same documents in two spellings; `Respelled` is the
  set of spellings the code and its comments mean to be equal. It implements PhysicalInput. Of the
  sessions it keeps closed, open or live (STARTING or STARTED), which is all the code asks.
* **ServiceEntry** and **UtControlPlane** - the command line as a recursive function over its words, then main thread,
  control-plane thread, queue and worker, with the failure of the control plane, of the profile, and of
  publication. What ServiceEntry reads are the settings UtControlPlane loads the profile with, and its
  exit code is that of `main`.
* **MessageChannel** - the abstract specification of what UtControlPlane does with messages: the host sends, each
  message reaches the port it names, once and in order; the channel learns its ports before it delivers, goes quiet for
  good, and drops what waits when it closes. The message in the worker's hand and those on the queue are what waits; the
  phases of the main thread are open until the worker is joined, quiet until the queue is cleared, closed afterwards.
* **HfpProfile** - parser and loader as operators on a file whose fields are texts, or `Bad` where the
  reader of ut-core yields none (`RawFile`, down to each field); numbers are what `strtol` makes of a text, within the width of the
  field. Each loop of the code is a recursive function over the list it walks, with its way out as a
  value of its own (`Failed`). The properties compare them with a rule over the whole file, and look at the result through
  `GetPortIds` and `GetPort`.
* **PortLocks** - orthogonal to the others, which take a critical section for one step: here each
  function is the set of ways through it, each a sequence of taking a mutex, giving it back, calling
  listeners, and running another function. Any way may be taken at any time, so what holds here holds
  whatever the state. A listener may call the service again before it returns (`Reenter`).

Operators that follow a comment starting with `Variant` are faulty versions of the definition after
them. No specification uses one; each property is shown to fail once its variant replaces
the right one, so that it is known to be able to fail (`mutants` in `PROJECT.json`).

## 3. Runs

| Run | Instance | Question and answer |
|---|---|---|
| `two_ports` | 2 ports, 2 threads, limit 1, 2 clients that may die, `MaxSession` 2 | Exclusion, slots, the limit, sessions, and clean-ups hold (`OneDriver`, `SlotsAccounted`, `StartedLimit`, `SessionIdentity`, `CleanupNeverLost`, `DeferredComesBack`); no obituary disturbs another session (`CleanupOnlyDead`); the inductive invariant of the proofs holds (`IInv`); the threads implement PortContract |
| `dead_session` | 1 port, 2 threads, 2 mortal clients, fairness | A dead client's session ends (`DeadSessionEnds`), with two exceptions stated in the property: somebody alive goes on using a controller of the port, or the case `deferred_cleanup` shows |
| `deferred_cleanup` | same | *Violated*: a deferred clean-up may never run |
| `stale_controller` | same, no fairness | *Violated*: only the session's own controller starts and stops a port |
| `events` | 1 port, 2 threads, 1 observer that comes, goes and comes back, 1 edge refused | `EdgesAccounted`: what an observer heard and what is on its way lead from what it polled to the state of the port; edges of an earlier registration, an OPENING rolled back unannounced, and refused edges put it out by exactly themselves, and nothing else does |
| `event_order` | 1 port, 2 threads, 1 observer, none refused | *Violated*: each edge is observed before the next one, even by an observer nothing has misled |
| `reports` | 1 port, 2 threads and the worker, the four reports and `set_property`, a stable signal and none, one telemetry property writable | `ModeNeedsStableSignal`, `ConnectionKnown`, `SignalKnown` (what a client was told is what it polls), `TelemetryFollows`, and PhysicalInput is implemented |
| `properties` | 1 port, 1 binder thread and the worker, 1 observer that comes and goes, good and bad batches, metrics of an integer type and another, any number of sessions | `BatchAtomic`, `TypesDeclared`, `CountersRestart`, `CurrentValueAnnounced` (what an observer heard last is what it polls) |
| `control_plane` | every command line of up to 4 of 12 words; ports 0 and 1; messages for a known port, an unknown one, none, and unreadable, up to 3 messages; fairness | `ArgsExact`, `EarlyMessagesKept`, `NothingAfterTheEnd`, `EveryMessageHandled`, `ShutdownEnds`, and MessageChannel is implemented (`ImplementsChannel`) |
| `profile` | some 6300 files | `ParserExact`, `NothingSkipped`, and the ranges in `HfpTypeOK` |
| `locks` | 2 ports, 2 threads, listeners that call any of 7 functions from their callback, one level deep | `CallOutsUnlocked`, `DeadlockFree`, and in `LocksTypeOK` that each mutex is given back on every way out |
| `messages` | 2 ports, some 35 documents and every respelling of each, words of 8 bits | `SpellingBlind`, `NoSilentChange`, the ranges in `MessagesTypeOK`, and PhysicalInput is implemented |

`CHECK_DEADLOCK` is off only where the system really stops: the lifecycle once the bounded
sessions are used up and the clients are dead, the control plane once the manager is gone,
the profile once it is loaded.

### 3.1 Bounds, and why they are enough

* *Ports.* Ports share the slot counter only. Two ports over one slot reach every
  contention for it; properties of one port are checked on one.
* *Threads.* A race here is between a handler, a second handler and an obituary: three.
  The code has no section that waits for two others. `events` has two: two are enough for edges to cross, and two
  drivers with a listener that comes and goes are 350,000 states; with a third thread or a second listener the run takes
  more than five minutes. In `properties` what races is two senders of events, and the binder thread and the worker are two.
* *`MaxSession`.* A client calls `open` while the epoch is below it, and a session moves the
  epoch by two (once at `open`, once at its end). A call already under way may still begin
  a session later, so even 1 and 2 let a second session follow the first, with a stale
  notification and a stale controller of the first in flight; 3 lets a fresh call begin it, and a late one a
  third. The proofs remove the bound, like the others of the lifecycle. PortProperties has none: nothing in it counts sessions.
* *Clients.* A client that dies and one that lives on; two are what a session taking over
  from another needs.
* *Properties.* A writable metric declared `doubleValue`, which the end of a session keeps, a writable one
  declared `longValue`, which it clears, the time stamp, not offered, and the two telemetry values
  represent the ways the code treats a property. Batches: two properties with one of them
  twice, one entry that is refused by its name, one entry of the wrong type.
* *Refused calls.* `MaxLost` is one in `events`: the account of an edge that is refused does not depend on
  the others. In `properties` any call may be refused.
* *Reports.* STABLE and NO_SIGNAL are the two ways the code treats a status, and differ in both telemetry values;
  `Injected` holds 0, which agrees with NO_SIGNAL and contradicts STABLE.
* *Messages.* Three are one handled, one in hand, and one queued. In UtMessage there is no bound
  on how many come: the ports are finite.
* *Command lines.* Four words are two pairs: an option given twice, or each option once. The
  words are the two options, `--help`, an option and an empty word with blanks in front, a path with and
  without blanks, and numbers at 0, in the range, at its end and just above it.
* *Profiles.* Every pair of ports out of one for each way a port can be right or wrong
  against every way the platform section can be, with declared port counts on both sides of the byte limit.
  The parser's cross-port rule (distinct ids) concerns pairs. Numbers have 16 bits in place of 32 (`IntHalf`).
* *Words.* In `messages` 8 bits stand for the 32 of a number and 9 for the 64 of a long one (`IntHalf` 128,
  `LongHalf` 256: half the range, the first number that turns negative), so that 128 to 255 are the sizes that turn
  negative. In `profile` `IntHalf` is 32768. The proofs leave both free: at 2^31 and 2^63 they are about the code's own widths.
* *Locks.* A circle of waiting threads needs two of them here, since no thread ever holds more than two mutexes;
  two ports, so that a circle could pass through both. One level of calls from a callback, as a second adds nothing
  to what the thread holds (`CallOutsUnlocked`).
* *Symmetry* of threads (and of ports in the lifecycle runs) is used in safety runs only;
  no definition tells threads or ports apart.

### 3.2 Fairness

* *Threads* (`Fairness` of PortLifecycle): weak fairness of each handler's next section. Handlers hold no
  mutex while they call out (`CallOutsUnlocked`), never wait for each other in a circle (`DeadlockFree`; the one nesting is
  in `start`, `Port.cpp:1089-1092`), and use oneway callbacks plus a ping, so nothing but scheduling delays them. A client
  whose process hangs inside the ping (`EventListener.cpp:59`, no timeout) holds up the thread that notified it; the
  fairness assumes there is none.
* *Obituaries*: strong fairness per port and client. A pool thread that is busy may disable
  the report again and again, but binder queues it first in, first out, so new calls do not
  overtake it forever. Nothing is assumed of clients: they need not call, close or die.
* *Control plane* (`UtFairSpec`): weak fairness of the main thread and of the worker, which
  polls every 10 ms. Leaving the thread pool and messages arriving are never forced.

## 4. What the refuted statements show

Each is something a comment in the code says; the counterexample is a run of the code as written.

1. **A deferred clean-up may be lost** (`DeferredCleanupRuns`, `Port.cpp:1772-1776`). Between the
   stop and the close stage of the clean-up the mutex is free. A `start` by another client holding an older controller may run
   completely in that gap. The close stage finds STARTED, sets the flag for
   "a concurrent transition", and none is left. The port and its slot stay taken for a
   dead client until somebody calls `stop` (`start` on STARTED is rejected before it looks at the flag). `DeferredComesBack`, proved, says
   that this state, STARTED, is the only one in which it can happen.
2. **A controller outlives its session** (`ControllerExclusive`, `Controller.cpp:38-64`). `start` and
   `stop` forward to the port without naming the controller; only `close` compares it.
3. **Edges of two threads cross** (`EventsInOrder`, `Port.cpp:892-898`, `EventListener.cpp:100-104`). The barrier
   orders the edges of one thread. A clean-up on another thread can announce CLOSING
   before `open` announces READY; an observer may end up believing in a READY that is past. Between two threads
   reordering is all that can happen: `EdgesAccounted` shows that no edge is lost or doubled by it.

Observations without a run of their own, kept here for whoever changes the code next:

* `start` may be refused for the limit while fewer ports are started than it allows: the
  slot is reserved before the state is checked (`Port.cpp:1083`), and `stop` publishes READY
  before it returns its slot (`1205`, `1218`). `SlotsAccounted` states exactly who holds them.
* A report applied during OPENING makes a controller callback besides `open`'s own
  (`Port.cpp:314` against the comment at `879-881`), and may make it first; `overtaken` in
  `ConnectionKnown` is this case.
* A rolled back `open` may leave an observer wrong. `Port.cpp:847-848` says that "observers still see the port as CLOSED
  throughout"; the port is OPENING from `818` to `863`, though, and an observer that registers and polls in between sees
  that. The rollback tells nobody, so it goes on believing OPENING until a later edge contradicts it. `Retract` is this
  case, and `misled` in `EdgesAccounted` what it does.
* An observer that leaves may still be called, and when it registers again first, the old edges
  follow what it has polled (`EventListener.cpp:70-98` sends to the snapshot). An edge whose callback fails is logged and
  not sent again (`EventListener.cpp:88-93`), and the listener stays registered.
* A metric may survive into the next session, in two ways. `Port.h:405-407` promises that the metrics zeroed at CLOSED
  never let a later `open` observe "accumulators produced by the previous controller session". The reset
  (`Port.cpp:1578-1588`) clears what is an INTEGER or a LONG and keeps a FLOAT, DOUBLE, BOOLEAN or STRING as it is, and
  both the parser and `setProperty` accept a metric declared so; the shipped profile declares none. And `setProperty`
  (`Port.cpp:1394`) asks neither for the state nor for the session of the controller, so one that arrives after `close` sets a
  metric the next `open` observes. `CountersRestart` is what remains: at the reset no INTEGER or LONG is left over.
* Reports refresh the telemetry only while STARTING or STARTED (`Port.cpp:365`; the comment at 342-344
  says "while a controller session is open", which READY is too), and `start` does not. `Port.h:409-412` says that what
  outlives a session "describes the physical hardware condition"; of the telemetry that holds only as long as
  the signal did not change in between. `start` then announces strength and quality that disagree with the signal,
  until the next report. SET_PROPERTY (`Port.cpp:519`) writes the same two entries in any state with any number, as does
  `setProperty` (`1394`) where a profile makes them writable. `TelemetryFollows` excepts these two, and says that a
  report, once live, undoes them and never moves signal and telemetry apart.
* VIDEO_MODE refreshes the telemetry without a property event (`Port.cpp:452-459`), unlike SIGNAL_STATUS: an
  observer learns of it by polling. `doubtful` in `CurrentValueAnnounced` is this case.
* While READY `getStatus` answers "not connected" (`Port.cpp:624-632`) although `open` has just told the listener
  otherwise; the code says that this is meant.
* `getProperty` of telemetry the profile does not support reads zero before `start` and null afterwards
  (`Port.cpp:676-703`).
* A frame rate that is not a number passes `makeVideoResolution` (`Helper.cpp:234`), as no comparison with it holds.
* The table at `Helper.cpp:100-114`, which nothing uses, accepts `property_changed` and trims; the
  one in use, `UtController.cpp:44-71`, does neither.
* VIDEO_MODE is applied to a port that is not connected, and in every state (`Port.cpp:447`), where
  `vcomponent_CompositeInputUtController.h:85` says "on a started port".
* UT SET_PROPERTY does not compare with the declared type (`Port.cpp:508-514`), and the reset at the
  end of a session keeps the type it finds.
* The initial cache, the metric reset and the signal reports write the types of the AIDL fields (`Native`) whatever type the
  profile declares for a property: under a profile that declares another one a client may read a value that is not of the
  declared type. `TypesDeclared` therefore claims the declared type of what a controller has set, and `Native` of what the
  service has written.
* The manager has no built-in profile (`Manager.cpp:164-166`, against the comment in
  `vcomponent_CompositeInputService.cpp:196-197`): it publishes a service without ports.
* Duplicates in a list of properties are sought among the tokens as written (`ParseConfig.cpp:353`), so a port may list
  a property twice when one of the two is padded with blanks.
* An unknown property token makes the parser refuse the whole file (`ParseConfig.cpp:345`) before
  `toPortProperties` could skip it.

## 5. Proofs

Every invariant and every action property of the passing runs is also a theorem, proved for all
values of the constants; so are the four refinements. Liveness is not (5.9).

| Module | Theorem | Property | 
|---|---|---|
| `PortLifecycleProofs` | `TypeCorrect`, `TransitionsExclusive`, `SlotsExact`, `LimitHolds`, `SessionsIdentified`, `CleanupKept`, `CleanupResumed` | the type invariant, `OneDriver`, `SlotsAccounted`, `StartedLimit`, `SessionIdentity`, `CleanupNeverLost`, `DeferredComesBack` |
| | `CleanupSafe`, `Implements` | `CleanupOnlyDead`; every step of a thread is one edge of PortContract or a stutter |
| `PortEventsProofs` | `EventsTypeCorrect`, `EdgesExact` | `EventsTypeOK`, `EdgesAccounted` |
| | `EventsKeepLifecycle`, `EventsImplementContract` | with observers, every run is still one of PortLifecycle, and of PortContract |
| `PortSignalProofs` | `SignalTypeCorrect`, `ModeOnStableSignal`, `ConnectionReaches`, `SignalReaches` | `SignalTypeOK`, `ModeNeedsStableSignal`, `ConnectionKnown`, `SignalKnown` |
| | `TelemetryTracks`, `InputImplemented` | `TelemetryFollows`; PortSignal implements PhysicalInput |
| | `SignalKeepsLifecycle`, `SignalImplementsContract` | whatever is reported, every run is still one of PortLifecycle, and of PortContract |
| `PortPropertiesProofs` | `PropertiesTypeCorrect`, `TypesAsDeclared`, `CountersStartAfresh`, `CurrentValueReaches`, `BatchesWhole` | `PropertiesTypeOK`, `TypesDeclared`, `CountersRestart`, `CurrentValueAnnounced`, `BatchAtomic` |
| | `PropertiesKeepContract` | every run of the cache is one of PortContract |
| `PortLocksProofs` | `LocksTypeCorrect`, `CallOutsHoldNothing`, `NoDeadlock` | `LocksTypeOK`, `CallOutsUnlocked`, `DeadlockFree` |
| `UtControlPlaneProofs` | `UtTypeCorrect`, `CommandLineExact`, `EarlyMessagesReach`, `QuietAfterJoin` | `UtTypeOK`, `ArgsExact`, `EarlyMessagesKept`, `NothingAfterTheEnd` |
| | `ChannelImplemented`, `QueueInOrder` | UtControlPlane implements MessageChannel; `FirstInFirstOut`, which no run checks by itself: what was sent is what was handled, is in hand and is queued, in this order |
| `HfpProfileProofs` | `HfpTypeCorrect`, `ParserIsExact`, `NothingIsSkipped` | `HfpTypeOK`, `ParserExact`, `NothingSkipped` |
| `UtMessageProofs` | `MessagesTypeCorrect`, `SpellingDoesNotMatter`, `NothingSilent`, `MessagesImplementInput` | `MessagesTypeOK`, `SpellingBlind`, `NoSilentChange`; UtMessage implements PhysicalInput |
| | `MessagesKeepModeOnStable` | `ModeOnStable` of PhysicalInput, carried over by the refinement |

Each module is laid out the same way: the inductive invariant, lemmas about the operators of the model, one
step lemma per action or per conjunct, their combination, and the theorems.

### 5.1 Lifecycle

**Assumptions**: `Ports` and `Threads` are finite (a process has finitely many of each; the
count of started ports is a cardinality), remote clients are clients, the requested limit is
any integer (the code raises what is below one), `MaxSession` is any natural number, and
`None` is neither a port nor a client.

**The inductive invariant.** `IInv` conjoins the properties with what they need:

* `OneDriver` - nearly everything rests on it: who may move a port out of a transient state.
* `SlotsAccounted` with `SlotLimit` - the limit on *busy ports* is not inductive, as a slot is
  taken before the state is looked at. The invariant counts the slots threads hold
  (`Holding`) as well and bounds the counter. That it never wraps below zero follows from it.
* `SessionIdentity` - ties controller and client to state and epoch.
* `LinksOfSessions` and `ThreadsOfSessions` - no link, controller or thread knows a session that has not begun; what
  belongs to the current session belongs to its client; a clean-up *for the current
  session* is running only if its client is dead. This is what makes stale obituaries harmless, and what
  `CleanupOnlyDead` needs.
* `PendingOfDead` - the deferred flag stands only for a dead client, so a tail that
  runs the clean-up for the current epoch does right.
* `CleanupNeverLost`, `DeferredComesBack` - each step that takes the
  obligation away from one holder (link, flag, running clean-up) gives it to another, or ends the session.

The step lemmas (`TypeStep`, `OneDriverStep`, `SlotsStep`, ...) have one step per
handler of `Next` and are combined in `IInvStep`. For the slots, `Gains` and `Loses` give the change of a
cardinality, and each action is shown to change `BusyPorts` and `Holders` by at most one element.

### 5.2 State events

`EventsIInv` is `IInv` (each step of PortEvents is one of PortLifecycle or leaves it alone, `LifecycleStep`) with

* `EdgesTyped` - the types, and that no two edges of an outbox share an observer or a place;
* `OpeningWaits` - what a rolled back `open` leaves behind: until the client is linked to, the edges to OPENING wait in
  the outbox of `open`, for those who listened when it began, and `newcomers` holds all who registered since. The
  rollback drops exactly the edges that were never sent. Who was to get one loses an edge and is back where the port is;
  who polled OPENING is told nothing, and `misled` grows by this difference (`GoesBackUntold`);
* `EdgesAccounted` itself, over the observers that listen. An observer that registers starts from the state it polls, and
  from the edges of an earlier registration that are still on their way (`StartsAfresh`).

`AddsOne` and `RemovesOne` give what an edge put into or taken out of one outbox changes in the counts of edges
entering and leaving a state, over all threads; each step lemma is then arithmetic on one observer, port and state.

### 5.3 Signal, connection and video mode

`SignalIInv` is `IInv`, `SignalTypeOK` and `ModeNeedsStableSignal` with

* `CallbacksOwed` - a callback under way belongs to the thread that drives the port (so, by `OneDriver`, there is one)
  and goes to the client of the session;
* `ReportLatest` - what the worker still has to report is the latest there is;
* `ConnectionHeard`, `SignalHeard` - the ways the present value reaches a client: the report under way, the callback
  under way *with that value*, or it was told already and no older snapshot is to follow. `ConnectionKnown` and
  `SignalKnown` are the cases in which nothing is under way.

`TelemetryFollows` needs nothing but the types, so each action is looked at by itself; `Injects` excepts
the two that set telemetry as a property.

### 5.4 Properties

**Assumptions**: the metrics are finite, supported properties are declared, writable ones supported,
batches are non-empty sequences of updates, and the host sends whole numbers only
(`Port.cpp:508-514` reads `intValue` or `longValue`). Any type may be declared for any property.

`PropertiesIInv` has `CountersRestart` and `TypesDeclared`, inductive with the types, and for the announcements `BaselineFirst`,
`PendingCurrent` and `ChangesReach`. `PendingCurrent`: for the *last* thing that a thread will tell an observer of a property that is
not in doubt, whether the observer still listens or not, the value is the one in the cache. `ChangesReach`: an observer
that listens and is owed nothing has heard this value, or missed the last it was told. That the first speaks of observers
that have left is what makes it survive their coming back. The lemmas `UnheardTells`, `EventsOfTell`, `DeliveredTell`,
`AnnouncePending` and `AnnounceReaches` say what sending and delivering do to this last value.

### 5.5 Mutexes

**Assumptions**: names of ports and of mutexes are different, and listeners call functions of the service. Any number of
ports and threads, any depth of calls from within callbacks.

`LocksIInv`: what a thread holds is what the rest of its innermost call expects (`Works`), and every outer call waits for a
listener holding nothing (`Waits`). A `Path` is a way annotated with what is held at each step; `WaysAreWays` shows that
each way of each function is one, that it ends holding nothing, and that the only mutex taken inside another is
`g_startedMutex` inside a port's. `DeadlockFree` follows: the owner of a mutex waits for `g_startedMutex` at most
(`WhoWaits`), whose owner waits for none. The invariant quantifies over functions on intervals, so TLC cannot evaluate it; the
properties it implies are checked in `locks`.

### 5.6 Control plane and command line

`UtIInv` is `SetupTypeOK`, `PipeTypeOK`, `OneInHand` (the worker has one message at most, and none between two), `WorkerWithinPhases`
(it runs from construction to the join only), `NothingYet` (no ports before the profile is loaded, nothing queued before the command
line is read), `FirstInFirstOut` and `EarlyMessagesKept`. The lemmas about sequences
(`HeadThenTail`, `AppendToLast`, `ConcatIsPrefix`) say that taking the head of the queue leaves handled, in hand and queued
messages, in this order, what they were.

For the channel, `ChannelStep` maps each action: a bad command line closes a channel nobody has used, which needs `NothingYet`;
loading the profile is `Learn`, which needs that nothing was handled yet; queueing is `Send` because what is
appended to the queue is appended to hand and queue together; taking a message is a stutter, and handling it is `Deliver`,
which needs `OneInHand` and, for the phase, `WorkerWithinPhases`; joining is `Quieten` and clearing the queue `Close`.

For the command line, `ReadingIs` gives the reader word by word, `PairsRead` what is known after each pair of words, and
`ParseArgsIs` concludes that the code accepts exactly the right command lines, of any length, and what it makes of them.
`CommandLines` is any set of sequences of words.

### 5.7 Profile

**Assumptions**: a file is `Bad` or of type `RawFile`; `Bad` is no number and no truth value; `strtol` yields integers; `IntHalf` is
positive.

The invariant is small, since parsing and loading are functions of the file (`HfpIInv` says so); the work is in what they compute. From
the readers of one field (`ReadInt32Is`, `ReadBoolIs`) over one section (`DeclaresIs`, `PortReadsIs`,
`PlatformReadsIs`) and the loop over ports (`TakePortIs`, `ReadPortsIs`) to `ParseConfigIs`: the parser accepts exactly the right files. On the
way to the service, `KeptAll` says that the filter of `toPortProperties` keeps all of a list the parser has
accepted, `CapabilitiesSideBySide` that tokens and metadata stay aligned, `BuildPortsIs` that each port is built, in
order, and `ClampIs` that the limits fit into a byte of AIDL.

### 5.8 UT messages

**Assumptions**: ports are natural numbers, the fields a decoder yields are within their width (`IntHalf`,
`LongHalf`: any above 85, the largest telemetry value), names of metrics and of telemetry are different.

`SpellingBlind` and `MessagesTypeOK` are inductive as they stand. `RespelledAlike` shows that all respellings
of a document (`DefaultPortAlike`, `SameCommandAlike`, `OtherBlanksAlike`, `OtherNameAlike`, `ContradictedAlike`, one lemma for each kind) are `Alike` in
what the code asks of a document, `AlikeAsk` that documents alike ask for the same, and `AskedIsRequest` what is asked for. `HandledPorts` and
`UpdatedInput` reduce a message to a step of the addressed port's input. `InputModeStep` is about PhysicalInput alone: no step of it
leaves a mode on a signal that is not stable; with the refinement this holds of every message.

### 5.9 What is not proved

* *Liveness* (`DeadSessionEnds`, `EveryMessageHandled`, `ShutdownEnds`): fairness and `ENABLED` are outside what the
  proof system does. TLC checks them on the instances of section 3.
* *The three refuted statements* are counterexamples, not theorems.
* *Induction over data.* The library's induction theorems take an operator as a parameter, which the
  provers at hand cannot instantiate. What loops compute is proved all the same, by writing them as recursive
  functions on intervals, giving what they compute in closed form, and concluding by `UpTo`: a set of numbers from 0 to
  n that holds 0, and with each its successor, holds all, since otherwise there would be a least number it lacks (`Least`, from
  the well-foundedness of `<`). These two lemmas stand in each module that needs them, so that it
  can be read and checked alone.

The invariants of 5.2, 5.6 and the lifecycle were evaluated by TLC as well (`IInv` is part of `two_ports`).

## 6. Plan

Done, in this order: PortContract and PortLifecycle, the inductive invariant and its proof, PortEvents,
PortSignal, PortProperties, UtControlPlane, HfpProfile; then PortLocks, PhysicalInput and UtMessage,
the getters, the queries of the manager, and the command line; then the proofs about all of these; last MessageChannel.

Next, in order of importance:

1. The composition of the UT worker with several ports' lifecycles, so that shutdown meets
   calls in progress.
2. A property for the time between a stop that publishes READY and the return of its slot: how long
   `start` may be refused below the limit.

## 7. Not modelled, and why

* *YAML and key-value syntax, buffer sizes*: the work of ut-core, which is not part of the repository. A
  field reads or is `Bad`, a document is a function from fields to values.
* *`loadConfiguration`, `buildInventory`, `isRunning`, `utCommandFromString`*: nothing in the service calls them.
* *Unknown values of the AIDL enumerations and null out-pointers*: refused before anything is read or changed. Null
  entries of `argv`, which the system does not pass, are skipped by the code.
* *`g_configurationPathMutex` and `g_utControlPlanePortMutex`* guard one assignment each, before there is a second thread.
* *Resolutions* are whole in UtMessage; elsewhere only whether one is detected matters. *Logging* and the
  formatting of the inventory are left out.
* *Memory*: objects are kept alive by `sp<>`; a death recipient's weak reference to its port
  matters only when the service is gone.
* *The metric counters beside the cache* (`m_startTsMs`, `m_signalDrops`, ...) are written and never read.
* *The growth of the message queue*: nothing in the code bounds it (`UtController.cpp:351`); the model
  bounds the number of messages.
