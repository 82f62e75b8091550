--------------------------- MODULE MessageChannel ---------------------------
(***************************************************************************)
(* What a host may rely on when it sends messages to the service, without  *)
(* threads, polling, or the phases of start-up: each reaches the port it   *)
(* names, once and in the order it was sent, however early it came; from   *)
(* some moment on nothing more is delivered, and what waits then is        *)
(* dropped.                                                                *)
(***************************************************************************)
EXTENDS Sequences

CONSTANTS
    Payloads,   \* what the host may send: a port number, or one of these two
    Absent,     \* no port: in a message that names none, for one dropped
    Ports       \* the ports the service may turn out to have

VARIABLES
    phase,      \* "open", "quiet": nothing is delivered any more, "closed"
    known,      \* the ports there are
    waiting,    \* the messages not yet delivered, in the order they came
    delivered   \* the messages delivered, each with the port it reached

channelVars == <<phase, known, waiting, delivered>>

(* A message without a port is for the first one; what is for no port of   *)
(* the service, or cannot be read, is dropped.                             *)
Destination(m) ==
    IF m \in known THEN m ELSE IF m = Absent /\ 0 \in known THEN 0 ELSE Absent

Init ==
    /\ phase = "open"
    /\ known = {}
    /\ waiting = <<>>
    /\ delivered = <<>>

(* The ports are known before the first message is delivered, or never.    *)
Learn ==
    /\ phase = "open" /\ delivered = <<>> /\ known = {}
    /\ known' \in SUBSET Ports
    /\ UNCHANGED <<phase, waiting, delivered>>

Send(m) ==
    /\ phase # "closed"
    /\ waiting' = Append(waiting, m)
    /\ UNCHANGED <<phase, known, delivered>>

Deliver ==
    /\ phase = "open" /\ waiting # <<>>
    /\ waiting' = Tail(waiting)
    /\ delivered' = Append(delivered, [message |-> Head(waiting),
                                       to |-> Destination(Head(waiting))])
    /\ UNCHANGED <<phase, known>>

Quieten ==
    /\ phase = "open"
    /\ phase' = "quiet"
    /\ UNCHANGED <<known, waiting, delivered>>

(* Only a channel that nobody has used yet closes without going quiet.     *)
Close ==
    /\ phase = "quiet" \/ (phase = "open" /\ waiting = <<>> /\ delivered = <<>>)
    /\ phase' = "closed"
    /\ waiting' = <<>>
    /\ known' = {}
    /\ UNCHANGED delivered

Next ==
    \/ Learn \/ Deliver \/ Quieten \/ Close
    \/ \E m \in Payloads : Send(m)

Spec == Init /\ [][Next]_channelVars
=============================================================================
