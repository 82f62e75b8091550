--------------------------- MODULE UtControlPlane ---------------------------
(***************************************************************************)
(* The life of the service process, of its manager and of its UT control   *)
(* plane.  The main thread reads the command line, brings the control      *)
(* plane up, loads the profile, starts the worker and publishes the        *)
(* service; the thread of the control plane queues what the host sends;    *)
(* the worker takes the messages off the queue and applies each to the     *)
(* port it names.  If publishing fails, or the thread pool is left, the    *)
(* manager is destroyed.                                                   *)
(***************************************************************************)
EXTENDS ServiceEntry

CONSTANTS
    CommandLines,  \* the arguments the process may be given
    Files,         \* the paths at which there is a profile to read
    Configured,    \* the port ids of the profile
    Numbers,       \* the port numbers the host names, known or not
    Absent,        \* no port: in a message that names none, for one dropped
    Unreadable,    \* a message without text, or one that is no document
    MaxMessages    \* bound of the model: how many messages the host sends

ASSUME IdsAssumption == Configured \subseteq Nat /\ Numbers \subseteq Nat
ASSUME TokensAssumption == Absent # Unreadable /\ {Absent, Unreadable} \cap Nat = {}
ASSUME SettingsAssumption == DefaultPath \in STRING \ {""} /\ DefaultPort \in 1..MaxPort
ASSUME CommandLinesAssumption == CommandLines \subseteq Seq(Word)
ASSUME MessagesAssumption == MaxMessages \in Nat

VARIABLES
    args,        \* argv, until it is read
    settings,    \* the configured path and control-plane port of the manager
    exitCode,    \* what main() is to return
    main,        \* where the main thread is
    instance,    \* m_controlPlaneInstance is set: the host can be heard
    ports,       \* the ids in m_ports
    stop,        \* m_stopUtWorker
    worker,      \* where the worker is
    hand,        \* the message it has taken, as a sequence of at most one
    queue,       \* m_messageQueue
    sent,        \* history: every message queued, in order
    handled      \* history: every message handled, with what came of it

setup   == <<args, settings, exitCode>>
service == <<main, instance, ports, stop>>
pipe    == <<worker, hand, queue>>
history == <<sent, handled>>
utVars  == <<setup, service, pipe, history>>

Payloads == Numbers \union {Absent, Unreadable}

Phases == {"args", "init_ut", "load", "start_worker", "publish", "serve", "stop",
           "join", "exit", "clear", "gone"}

Running == {"check", "take", "handle"}

UtTypeOK ==
    /\ args \in Seq(Word)
    /\ settings \in [path : STRING, port : 1..MaxPort]
    /\ exitCode \in 0..2
    /\ main \in Phases
    /\ instance \in BOOLEAN
    /\ ports \subseteq Configured
    /\ stop \in BOOLEAN
    /\ worker \in Running \union {"none", "done"}
    /\ hand \in Seq(Payloads) /\ Len(hand) <= 1
    /\ queue \in Seq(Payloads)
    /\ sent \in Seq(Payloads)
    /\ handled \in Seq([message : Payloads, to : Configured \union {Absent}])

UtInit ==
    /\ args \in CommandLines
    /\ settings = [path |-> DefaultPath, port |-> DefaultPort]
    /\ exitCode = 0
    /\ main = "args"
    /\ instance = FALSE
    /\ ports = {}
    /\ stop = FALSE
    /\ worker = "none"
    /\ hand = <<>>
    /\ queue = <<>>
    /\ sent = <<>>
    /\ handled = <<>>

----------------------------------------------------------------------------
(* The main thread.                                                        *)

(* main(): bad usage ends the process before there is a manager; else the  *)
(* path and the port are handed to it.                                     *)
ReadArguments ==
    LET read == ParseArgs(args) IN
    /\ main = "args"
    /\ args' = <<>>
    /\ IF GoodUsage(read)
       THEN /\ main' = "init_ut"
            /\ settings' = Settings(read)
            /\ UNCHANGED exitCode
       ELSE /\ main' = "gone"
            /\ exitCode' = 2
            /\ UNCHANGED settings
    /\ UNCHANGED <<instance, ports, stop, pipe, history>>

(* Variant: the worker is started with the control plane.                  *)
InitUtAndWorker ==
    /\ main = "init_ut"
    /\ main' = "load"
    /\ instance' \in BOOLEAN
    /\ worker' = "check"
    /\ UNCHANGED <<setup, ports, stop, hand, queue, history>>

(* CompositeInputUtController::init: without a control plane, or without   *)
(* its callback, the manager goes on deaf.                                 *)
InitUt ==
    /\ main = "init_ut"
    /\ main' = "load"
    /\ instance' \in BOOLEAN
    /\ UNCHANGED <<setup, ports, stop, pipe, history>>

(* loadCapabilitiesFromConfig: all of the profile at the configured path,  *)
(* or nothing.                                                             *)
LoadProfile ==
    /\ main = "load"
    /\ main' = "start_worker"
    /\ ports' \in {{}} \union {Configured : f \in {settings.path} \cap Files}
    /\ UNCHANGED <<setup, instance, stop, pipe, history>>

StartWorker ==
    /\ main = "start_worker"
    /\ main' = "publish"
    /\ stop' = FALSE
    /\ worker' = "check"
    /\ UNCHANGED <<setup, instance, ports, hand, queue, history>>

(* addService(), whatever the profile yielded.                             *)
Publish ==
    /\ main = "publish"
    /\ \/ main' = "serve" /\ UNCHANGED exitCode
       \/ main' = "stop" /\ exitCode' = 1
    /\ UNCHANGED <<args, settings, instance, ports, stop, pipe, history>>

LeaveThreadPool ==
    /\ main = "serve"
    /\ main' = "stop"
    /\ exitCode' = 0
    /\ UNCHANGED <<args, settings, instance, ports, stop, pipe, history>>

(* Variant: the worker is not told.                                        *)
StopWorkerUntold ==
    /\ main = "stop"
    /\ main' = "join"
    /\ UNCHANGED <<setup, instance, ports, stop, pipe, history>>

StopWorker ==
    /\ main = "stop"
    /\ main' = "join"
    /\ stop' = TRUE
    /\ UNCHANGED <<setup, instance, ports, pipe, history>>

(* Variant: the worker is detached.                                        *)
JoinWorkerDetached ==
    /\ main = "join"
    /\ main' = "exit"
    /\ UNCHANGED <<setup, instance, ports, stop, pipe, history>>

JoinWorker ==
    /\ main = "join"
    /\ worker = "done"
    /\ main' = "exit"
    /\ UNCHANGED <<setup, instance, ports, stop, pipe, history>>

(* UT_ControlPlane_Exit() ends its thread; then the queue is swapped away, *)
(* and the ports go with the manager.                                      *)
ExitUt ==
    /\ main = "exit"
    /\ instance' = FALSE
    /\ main' = "clear"
    /\ UNCHANGED <<setup, ports, stop, pipe, history>>

ClearQueue ==
    /\ main = "clear"
    /\ main' = "gone"
    /\ queue' = <<>>
    /\ ports' = {}
    /\ UNCHANGED <<setup, instance, stop, worker, hand, history>>

----------------------------------------------------------------------------
(* The thread of the control plane: pushMessage.                           *)

PushMessage(m) ==
    /\ instance
    /\ Len(sent) < MaxMessages
    /\ queue' = Append(queue, m)
    /\ sent' = Append(sent, m)
    /\ UNCHANGED <<setup, service, worker, hand, handled>>

----------------------------------------------------------------------------
(* The worker: utWorkerLoop, getMessage, handleQueuedUtMessage.            *)

WorkerStops ==
    /\ worker = "check"
    /\ stop
    /\ worker' = "done"
    /\ UNCHANGED <<setup, service, hand, queue, history>>

WorkerGoesOn ==
    /\ worker = "check"
    /\ ~stop
    /\ worker' = "take"
    /\ UNCHANGED <<setup, service, hand, queue, history>>

(* Variant: an empty queue ends the worker.                                *)
WorkerGivesUp ==
    /\ worker = "take"
    /\ queue = <<>>
    /\ worker' = "done"
    /\ UNCHANGED <<setup, service, hand, queue, history>>

WorkerSleeps ==
    /\ worker = "take"
    /\ queue = <<>>
    /\ worker' = "check"
    /\ UNCHANGED <<setup, service, hand, queue, history>>

(* Variant: the message is read and stays on the queue.                    *)
GetMessageNoPop ==
    /\ worker = "take"
    /\ queue # <<>>
    /\ hand' = <<Head(queue)>>
    /\ worker' = "handle"
    /\ UNCHANGED <<setup, service, queue, history>>

GetMessage ==
    /\ worker = "take"
    /\ queue # <<>>
    /\ hand' = <<Head(queue)>>
    /\ queue' = Tail(queue)
    /\ worker' = "handle"
    /\ UNCHANGED <<setup, service, history>>

(* A message that names no port is for port 0; one that cannot be read, or *)
(* is for no port of the profile, is dropped.                              *)
Addressee(m) == IF m = Absent THEN 0 ELSE m

(* Variant: the port is not looked up.                                     *)
TargetUnchecked(m, known) == IF m # Unreadable THEN Addressee(m) ELSE Absent

Target(m, known) ==
    IF m # Unreadable /\ Addressee(m) \in known THEN Addressee(m) ELSE Absent

HandleMessage ==
    /\ worker = "handle"
    /\ handled' = Append(handled, [message |-> hand[1],
                                   to |-> Target(hand[1], ports)])
    /\ hand' = <<>>
    /\ worker' = "check"
    /\ UNCHANGED <<setup, service, queue, sent>>

----------------------------------------------------------------------------
MainStep ==
    \/ ReadArguments
    \/ InitUt \/ LoadProfile \/ StartWorker \/ Publish
    \/ StopWorker \/ JoinWorker \/ ExitUt \/ ClearQueue

WorkerStep ==
    WorkerStops \/ WorkerGoesOn \/ WorkerSleeps \/ GetMessage \/ HandleMessage

UtNext ==
    \/ MainStep
    \/ LeaveThreadPool
    \/ WorkerStep
    \/ \E m \in Payloads : PushMessage(m)

UtSpec == UtInit /\ [][UtNext]_utVars

(* Both threads keep running; the thread pool need not ever be left.       *)
UtFairSpec == UtSpec /\ WF_utVars(MainStep) /\ WF_utVars(WorkerStep)

----------------------------------------------------------------------------
(* The process serves exactly the command lines that are pairs of an       *)
(* option and a good value, with the last path and port asked for; of any  *)
(* other it says so with its exit code and has touched nothing.            *)
ArgsExact ==
    [][main = "args" =>
         IF RightUsage(args)
         THEN /\ main' = "init_ut"
              /\ settings' = [path |-> AskedPath(args), port |-> AskedPort(args)]
         ELSE /\ main' = "gone" /\ exitCode' = 2
              /\ UNCHANGED <<settings, instance, ports, worker>>]_utVars

(* No message is looked up before the ports are there: what the host sent  *)
(* while the profile was still loading reaches its port all the same.      *)
EarlyMessagesKept ==
    main # "gone" =>
        \A i \in DOMAIN handled :
            handled[i].to = Target(handled[i].message, ports)

(* Once the worker is joined nothing more is applied to a port, and no     *)
(* message is queued once the queue is cleared.                            *)
NothingAfterTheEnd ==
    [][/\ main \in {"exit", "clear", "gone"} => UNCHANGED handled
       /\ main = "gone" => UNCHANGED <<handled, queue, ports>>]_utVars

(* The message in the worker's hand waits like those on the queue; the     *)
(* channel is quiet once the worker is joined, and closed with the queue.  *)
Channel == INSTANCE MessageChannel WITH
    phase <- IF main = "gone" THEN "closed"
             ELSE IF main \in {"exit", "clear"} THEN "quiet" ELSE "open",
    known <- ports, waiting <- hand \o queue, delivered <- handled,
    Ports <- Configured

(* Whatever the threads do, and however the service starts and ends, the   *)
(* host sees a channel that keeps order, loses nothing while it is open,   *)
(* and delivers nothing before it knows the ports or after it went quiet.  *)
ImplementsChannel == Channel!Spec

(* Every message that is queued is handled, unless the service ends.       *)
EveryMessageHandled ==
    \A n \in 1..MaxMessages :
        Len(sent) >= n ~> Len(handled) >= n \/ stop

(* A service that cannot be published, or leaves its pool, comes to an end *)
(* with its worker gone, and an exit code that is not the one of bad       *)
(* usage: the join is never waited for in vain.                            *)
ShutdownEnds == main = "stop" ~> main = "gone" /\ worker = "done" /\ exitCode # 2
=============================================================================
