------------------------------ MODULE PortLocks ------------------------------
(***************************************************************************)
(* The mutexes of the service: m_mutex of each port, g_startedMutex, the   *)
(* m_mutex of the manager and the m_queueMutex of its UT controller.  The  *)
(* other modules take a critical section for one step; here taking a mutex *)
(* and giving it back are steps, and so are the calls to listeners in      *)
(* between.  A listener that lives in the service process runs on the      *)
(* thread that calls it, and may call the service again before it returns. *)
(*                                                                         *)
(* Every function is the set of ways through it, each way the sequence of  *)
(* what it does about locks and listeners.  Which way is taken depends on  *)
(* state that the other modules keep: here any of them may be.             *)
(***************************************************************************)
EXTENDS Naturals, Sequences, SequencesExt

CONSTANTS
    Ports,
    Threads,      \* binder threads, the UT worker and the control plane's own
    Reentrant,    \* what a listener calls from within its callback
    MaxDepth,     \* bound of the model: how deep such calls nest
    NoOwner

Functions == {"open", "close", "start", "stop", "property", "query", "lookup",
              "push", "deliver", "obituary"}

Mutexes == Ports \union {"slots", "manager", "queue"}

ASSUME LocksAssumption ==
    /\ NoOwner \notin Threads
    /\ Ports \cap {"slots", "manager", "queue", "port"} = {}
    /\ Reentrant \subseteq Functions
    /\ MaxDepth \in Nat \ {0}

VARIABLES
    owner,    \* the thread that holds each mutex
    stack     \* per thread, innermost call first: its port, what it has to do

lockVars == <<owner, stack>>

----------------------------------------------------------------------------
(* The ways through each function.                                         *)

Lock(m)   == [op |-> "lock", on |-> m]
Unlock(m) == [op |-> "unlock", on |-> m]
Run(f)    == [op |-> "run", on |-> f]
CallOut   == [op |-> "out", on |-> "listeners"]

Section(m) == <<Lock(m), Unlock(m)>>

(* A section of the port, and then the listeners it took a copy of: calls  *)
(* that follow each other, linking to a client's death among them, are one.*)
Edge == Section("port") \o <<CallOut>>

OpenWays ==
    { Section("port"),
      Edge \o Section("port"),
      Edge \o Edge \o <<Run("tail")>> }

CloseWays == { Section("port"), Edge \o Edge }

(* Variant: the slot is given back and the early return keeps m_mutex.     *)
StartWaysKeep ==
    { Section("slots"),
      Section("slots") \o <<Lock("port")>> \o Section("slots"),
      Section("slots") \o Edge \o Edge \o Edge \o Edge \o <<Run("tail")>> }

StartWays ==
    { Section("slots"),
      Section("slots") \o <<Lock("port")>> \o Section("slots")
                       \o <<Unlock("port")>>,
      Section("slots") \o Edge \o Edge \o Edge \o Edge \o <<Run("tail")>> }

(* Variant: the port becomes READY while its slot is being given back.     *)
StopWaysNested ==
    { Section("port"),
      Edge \o <<Lock("slots")>> \o Section("port") \o <<Unlock("slots")>>
           \o <<CallOut, Run("tail")>> }

StopWays ==
    { Section("port"),
      Edge \o Edge \o Section("slots") \o <<Run("tail")>> }

(* runPendingDeathCleanupIfNeeded, cleanupAfterControllerDeath; its close  *)
(* stage takes its sections as close() does.                               *)
TailWays == { Section("port"), Section("port") \o <<Run("obituary")>> }

ObituaryWays ==
    { Section("port"),
      Section("port") \o <<Run("close")>>,
      Edge \o Edge \o Section("slots") \o <<Run("close")>> }

(* Variant: the listeners are called before m_mutex is given back.         *)
PropertyWaysInside ==
    { Section("port"), <<Lock("port"), CallOut, Unlock("port")>> }

(* setProperty, setPropertyMulti, resetMetrics.                            *)
PropertyWays == { Section("port"), Edge }

(* The getters of a port, registerEventListener, unregisterEventListener;  *)
(* the getters of the manager; pushMessage.                                *)
QueryWays  == { Section("port") }
LookupWays == { Section("manager") }
PushWays   == { Section("queue") }

(* One turn of the worker: no message; one for no port; one that a port    *)
(* ignores or applies in silence; one that it applies and announces.       *)
DeliverWays ==
    { Section("queue"),
      Section("queue") \o Section("manager"),
      Section("queue") \o Section("manager") \o Section("port"),
      Section("queue") \o Section("manager") \o Edge }

Ways(f) ==
    CASE f = "open"     -> OpenWays     [] f = "close"    -> CloseWays
      [] f = "start"    -> StartWays    [] f = "stop"     -> StopWays
      [] f = "property" -> PropertyWays [] f = "query"    -> QueryWays
      [] f = "lookup"   -> LookupWays   [] f = "push"     -> PushWays
      [] f = "deliver"  -> DeliverWays  [] f = "obituary" -> ObituaryWays
      [] f = "tail"     -> TailWays

----------------------------------------------------------------------------
(* A thread works on the innermost of its calls.                           *)

Top(t)      == Head(stack[t])
NextStep(t) == Head(Top(t).todo)

At(t, op) == stack[t] # <<>> /\ NextStep(t).op = op

Mutex(frame, m) == IF m = "port" THEN frame.port ELSE m

(* The innermost call goes on with these steps; without any it returns.    *)
Proceed(t, todo) ==
    stack' = [stack EXCEPT ![t] =
        IF todo = <<>> THEN Tail(@)
        ELSE <<[port |-> Head(@).port, todo |-> todo]>> \o Tail(@)]

Rest(t) == Tail(Top(t).todo)

LocksInit ==
    /\ owner = [m \in Mutexes |-> NoOwner]
    /\ stack = [t \in Threads |-> <<>>]

Call(t, p, f) ==
    /\ \E way \in Ways(f) :
          stack' = [stack EXCEPT ![t] = <<[port |-> p, todo |-> way]>> \o @]
    /\ UNCHANGED owner

Enter(t) ==
    /\ stack[t] = <<>>
    /\ \E p \in Ports, f \in Functions : Call(t, p, f)

(* A listener in this process is the client of any port.                   *)
Reenter(t) ==
    /\ At(t, "out")
    /\ Len(stack[t]) < MaxDepth
    /\ \E p \in Ports, f \in Reentrant : Call(t, p, f)

ListenersReturn(t) ==
    /\ At(t, "out")
    /\ Proceed(t, Rest(t))
    /\ UNCHANGED owner

Acquire(t) ==
    /\ At(t, "lock")
    /\ LET m == Mutex(Top(t), NextStep(t).on) IN
          /\ owner[m] = NoOwner
          /\ owner' = [owner EXCEPT ![m] = t]
    /\ Proceed(t, Rest(t))

Release(t) ==
    /\ At(t, "unlock")
    /\ owner' = [owner EXCEPT ![Mutex(Top(t), NextStep(t).on)] = NoOwner]
    /\ Proceed(t, Rest(t))

Branch(t) ==
    /\ At(t, "run")
    /\ \E way \in Ways(NextStep(t).on) : Proceed(t, way \o Rest(t))
    /\ UNCHANGED owner

LocksNext ==
    \E t \in Threads :
        \/ Enter(t)   \/ Reenter(t) \/ ListenersReturn(t)
        \/ Acquire(t) \/ Release(t) \/ Branch(t)

LocksSpec == LocksInit /\ [][LocksNext]_lockVars

----------------------------------------------------------------------------
(* The mutexes a thread still has to give back.                            *)
Owes(t) ==
    {m \in Mutexes : \E i \in DOMAIN stack[t] :
        LET f == stack[t][i] IN
        \E j \in DOMAIN f.todo :
            /\ f.todo[j].op = "unlock" /\ Mutex(f, f.todo[j].on) = m
            /\ \A k \in 1..j - 1 : f.todo[k] # Lock(f.todo[j].on)}

(* The types; and a mutex is held by the one thread that is on its way to  *)
(* give it back, whichever return it takes.                                *)
LocksTypeOK ==
    /\ owner \in [Mutexes -> Threads \union {NoOwner}]
    /\ \A t \in Threads :
          /\ Len(stack[t]) <= MaxDepth
          /\ \A i \in DOMAIN stack[t] :
                stack[t][i].port \in Ports /\ stack[t][i].todo # <<>>
          /\ Owes(t) = {m \in Mutexes : owner[m] = t}

(* No thread calls a listener, or binder, with any mutex held, not even    *)
(* one that an outer call of it has taken: a listener that calls the       *)
(* service again finds every mutex free or held by another thread, and one *)
(* that never answers holds up only the calls that notify it.              *)
CallOutsUnlocked ==
    \A t \in Threads : At(t, "out") => \A m \in Mutexes : owner[m] # t

Wanted(t) == Mutex(Top(t), NextStep(t).on)

(* There are no threads each of which waits for a mutex that one of them   *)
(* holds: neither two ports nor a port and the slots are ever taken in     *)
(* opposite orders, and no thread waits for itself.                        *)
DeadlockFree ==
    \A S \in (SUBSET Threads) \ {{}} :
        ~ \A t \in S : At(t, "lock") /\ owner[Wanted(t)] \in S
=============================================================================
