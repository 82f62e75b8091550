------------------------------ MODULE UtMessage ------------------------------
(***************************************************************************)
(* What a document of the host means to the ports: the decoding of its     *)
(* command, its fields and their spellings, the returns at every fault,    *)
(* and the whole of what the addressed port then does.                     *)
(*                                                                         *)
(* A document is a function from the fields it holds to their values, as   *)
(* the key-value reader of ut-core yields them; a document that cannot be  *)
(* read never comes this far.  Two hosts that spell their fields and       *)
(* tokens differently talk to two copies of the ports, step by step.       *)
(***************************************************************************)
EXTENDS SignalLevels, Sequences, SequencesExt

CONSTANTS
    Ports,        \* the port ids of the profile
    Documents,    \* what the host sends
    Metrics,      \* the METRIC_* properties it may seed
    Padded,       \* tokens written with blanks around them, and without
    IntHalf,      \* 2^31: the first uint32_t that an int32_t does not hold
    LongHalf,     \* 2^63, the same of an int64_t
    NaN,          \* the frame rate that is not a number
    NoMode,
    Nothing

(* Variant: the number is kept as it was sent.                             *)
SignedNever(n, half) == n

(* The casts to int32_t and int64_t.                                       *)
Signed(n, half) == IF n < half THEN n ELSE n - 2 * half

Int32 == -IntHalf..IntHalf - 1
Int64 == -LongHalf..LongHalf - 1

Telemetry  == {"SIGNAL_STRENGTH", "SIGNAL_QUALITY"}
Properties == Telemetry \union Metrics

WidthKeys      == <<"pixelWidth", "width">>
HeightKeys     == <<"pixelHeight", "height">>
FrameRateKeys  == <<"frameRateInHz", "frameRate", "fps">>
InterlacedKeys == <<"interlaced", "isInterlaced">>

UInt32Fields == {"port", "pixelWidth", "width", "pixelHeight", "height",
                 "intValue"}

(* The telemetry fits both words.                                          *)
ASSUME WidthsAssumption ==
    IntHalf \in Nat /\ LongHalf \in Nat /\ IntHalf > 85 /\ LongHalf > 85

(* What the getters of the key-value reader return.                        *)
ASSUME DocumentsAssumption ==
    /\ Ports \subseteq Nat
    /\ Telemetry \cap Metrics = {}
    /\ \A d \in Documents :
          /\ \A k \in DOMAIN d \cap UInt32Fields : d[k] \in 0..2 * IntHalf - 1
          /\ "longValue" \in DOMAIN d => d["longValue"] \in 0..2 * LongHalf - 1
          /\ \A k \in DOMAIN d \cap ToSet(FrameRateKeys) : d[k] \in Int \union {NaN}
          /\ \A k \in DOMAIN d \cap ({"connected"} \union ToSet(InterlacedKeys)) :
                d[k] \in BOOLEAN

ASSUME NothingAssumption ==
    \A keys \in {WidthKeys, HeightKeys, FrameRateKeys, InterlacedKeys} :
        Nothing \notin ToSet(keys)

VARIABLES
    session,    \* of each port: closed, open, or live (STARTING or STARTED)
    real,       \* the ports, and what the last message made them announce
    twin        \* the same of the other host

messageVars == <<session, real, twin>>

----------------------------------------------------------------------------
(* Tokens.                                                                 *)

(* The table of the UT controller.                                         *)
Commands ==
    [ connection_status |-> "CONNECTION_STATUS", setConnection   |-> "CONNECTION_STATUS",
      signal_status     |-> "SIGNAL_STATUS",     setSignalStatus |-> "SIGNAL_STATUS",
      video_mode        |-> "VIDEO_MODE",        setVideoMode    |-> "VIDEO_MODE",
      set_property      |-> "SET_PROPERTY",      setProperty     |-> "SET_PROPERTY",
      clear_video_mode  |-> "CLEAR_VIDEO_MODE",  clearVideoMode  |-> "CLEAR_VIDEO_MODE" ]

(* Variant: only the reference spellings are in the table.                 *)
DecodeCommandReference(token) ==
    IF token \in {"connection_status", "signal_status", "video_mode",
                  "set_property", "clear_video_mode"}
    THEN Commands[token] ELSE "UNKNOWN"

(* A command is compared as it is written; the empty one is not known.     *)
DecodeCommand(token) ==
    IF token \in DOMAIN Commands THEN Commands[token] ELSE "UNKNOWN"

Trim(token) == IF token \in DOMAIN Padded THEN Padded[token] ELSE token

Present(d, keys) == {i \in DOMAIN keys : keys[i] \in DOMAIN d}

(* The first of these fields that the document holds, the reference name   *)
(* before its aliases.                                                     *)
FirstPresentKey(d, keys) ==
    IF Present(d, keys) = {} THEN Nothing ELSE keys[Min(Present(d, keys))]

----------------------------------------------------------------------------
(* Decoding: what a document asks for, Nothing if it is faulty.            *)

Number(tag, n) == [tag |-> tag, number |-> n]

Asks(what, value) == [what |-> what, value |-> value]

ConnectionOf(d) ==
    IF "connected" \in DOMAIN d THEN Asks("connection", d["connected"]) ELSE Nothing

SignalOf(d) ==
    IF "signalStatus" \in DOMAIN d /\ Trim(d["signalStatus"]) \in SignalStatuses
    THEN Asks("signal", Trim(d["signalStatus"])) ELSE Nothing

(* Variant: the dimensions are checked before they are converted.          *)
MakeVideoResolutionUnsigned(w, h, i, r) ==
    IF w = 0 \/ h = 0 \/ (r # NaN /\ r <= 0) THEN Nothing
    ELSE Asks("mode", [width |-> w, height |-> h, interlaced |-> i, rate |-> r])

(* makeVideoResolution: a rate that is not a number is not below zero.     *)
MakeVideoResolution(w, h, i, r) ==
    IF w <= 0 \/ h <= 0 \/ (r # NaN /\ r <= 0) THEN Nothing
    ELSE Asks("mode", [width |-> w, height |-> h, interlaced |-> i, rate |-> r])

VideoModeOf(d) ==
    LET w == FirstPresentKey(d, WidthKeys)
        h == FirstPresentKey(d, HeightKeys)
        r == FirstPresentKey(d, FrameRateKeys)
        i == FirstPresentKey(d, InterlacedKeys) IN
    IF Nothing \in {w, h, r} THEN Nothing
    ELSE MakeVideoResolution(Signed(d[w], IntHalf), Signed(d[h], IntHalf),
                             i # Nothing /\ d[i], d[r])

(* The long value, if there is one, decides the type.                      *)
PropertyOf(d) ==
    IF "key" \notin DOMAIN d \/ {"intValue", "longValue"} \cap DOMAIN d = {}
       \/ Trim(d["key"]) \notin Properties
    THEN Nothing
    ELSE Asks("property", [property |-> Trim(d["key"]), value |->
            IF "longValue" \in DOMAIN d
            THEN Number("longValue", Signed(d["longValue"], LongHalf))
            ELSE Number("intValue", Signed(d["intValue"], IntHalf))])

Asked(d) ==
    LET command == DecodeCommand(IF "command" \in DOMAIN d THEN d["command"] ELSE "")
    IN CASE command = "CONNECTION_STATUS" -> ConnectionOf(d)
         [] command = "SIGNAL_STATUS"     -> SignalOf(d)
         [] command = "VIDEO_MODE"        -> VideoModeOf(d)
         [] command = "CLEAR_VIDEO_MODE"  -> Asks("clear", NoMode)
         [] command = "SET_PROPERTY"      -> PropertyOf(d)
         [] OTHER                         -> Nothing

PortOf(d) == IF "port" \in DOMAIN d THEN Signed(d["port"], IntHalf) ELSE 0

----------------------------------------------------------------------------
(* What the addressed port does with it, and what it has the worker        *)
(* announce once the mutex is free again.                                  *)

Fresh(s) == [ SIGNAL_STRENGTH |-> Number("longValue", SignalStrengthDbm(s)),
              SIGNAL_QUALITY  |-> Number("intValue", SignalQuality(s)) ]

Seeded(q, x, v) == [q EXCEPT !.cached[x] = v]

Refreshed(q, s, live) ==
    [q EXCEPT !.cached = [x \in Properties |->
        IF live /\ x \in Telemetry THEN Fresh(s)[x] ELSE @[x]]]

Connected(q, b) ==
    [q EXCEPT !.connected = b, !.mode = IF b THEN @ ELSE NoMode]

Signalled(q, s, live) ==
    Refreshed([q EXCEPT !.signal = s, !.mode = IF s = "STABLE" THEN @ ELSE NoMode],
              s, live)

Detected(q, m, live) ==
    Refreshed([q EXCEPT !.mode = m, !.signal = "STABLE"], "STABLE", live)

Updated(q, a, live) ==
    CASE a.what = "connection" -> Connected(q, a.value)
      [] a.what = "signal"     -> Signalled(q, a.value, live)
      [] a.what = "mode"       -> Detected(q, a.value, live)
      [] a.what = "clear"      -> [q EXCEPT !.mode = NoMode]
      [] a.what = "property"   -> Seeded(q, a.value.property, a.value.value)

Event(x, v) == Asks("property", [property |-> x, value |-> v])

(* Variant: a cable that is pulled is not announced.                       *)
ConnectionNoticesMade(q, a) == IF a.value /\ ~q.connected THEN <<a>> ELSE <<>>

ConnectionNotices(q, a) == IF a.value # q.connected THEN <<a>> ELSE <<>>

TelemetryEvents(s) == <<Event("SIGNAL_STRENGTH", Fresh(s)["SIGNAL_STRENGTH"]),
                        Event("SIGNAL_QUALITY", Fresh(s)["SIGNAL_QUALITY"])>>

If(b, notices) == IF b THEN notices ELSE <<>>

(* The telemetry that comes with a mode is not announced.                  *)
Notices(q, a, s) ==
    CASE a.what = "connection" -> If(s # "closed", ConnectionNotices(q, a))
      [] a.what = "signal"     -> If(s = "live", TelemetryEvents(a.value))
                                  \o If(s # "closed", <<a>>)
      [] a.what = "mode"       -> If(s # "closed", <<a>>)
      [] a.what = "property"   -> <<a>>
      [] a.what = "clear"      -> <<>>

(* handleQueuedUtMessage and handleUTControlPlaneMessage of one document.  *)
Handled(u, d) ==
    LET p == PortOf(d)
        a == Asked(d) IN
    IF p \notin Ports \/ a = Nothing
    THEN [ports |-> u.ports, sent |-> <<>>]
    ELSE [ports |-> [u.ports EXCEPT ![p] = Updated(@, a, session[p] = "live")],
          sent  |-> Notices(u.ports[p], a, session[p])]

----------------------------------------------------------------------------
(* The other host.                                                         *)

With(d, k, v) == [f \in DOMAIN d \union {k} |-> IF f = k THEN v ELSE d[f]]

Renamed(d, k, a) ==
    [f \in (DOMAIN d \ {k}) \union {a} |-> IF f = a THEN d[k] ELSE d[f]]

Spellings == {WidthKeys, HeightKeys, FrameRateKeys, InterlacedKeys}

(* The two spellings of a command.                                         *)
CommandSpellings ==
    { {"connection_status", "setConnection"}, {"signal_status", "setSignalStatus"},
      {"video_mode", "setVideoMode"}, {"set_property", "setProperty"},
      {"clear_video_mode", "clearVideoMode"} }

SameCommand(d) ==
    {With(d, "command", c) : c \in UNION {cs \in CommandSpellings :
        "command" \in DOMAIN d /\ d["command"] \in cs}}

(* The field under any of its names, if it goes by one only.               *)
OtherName(d, keys) ==
    IF \E i \in DOMAIN keys : Present(d, keys) = {i}
    THEN {Renamed(d, FirstPresentKey(d, keys), k) : k \in ToSet(keys)} ELSE {}

(* A second name that contradicts it, after the one that counts.           *)
Contradicted(d, keys) ==
    {With(d, keys[j], IF keys = InterlacedKeys THEN TRUE ELSE 0) :
        j \in {j \in DOMAIN keys : \E i \in Present(d, keys) : i < j}}

(* The token of a field with other blanks around it.                       *)
OtherBlanks(d, k) ==
    IF k \in DOMAIN d
    THEN {With(d, k, t) : t \in {t \in DOMAIN Padded : Trim(t) = Trim(d[k])}} ELSE {}

DefaultPort(d) == IF "port" \in DOMAIN d THEN {} ELSE {With(d, "port", 0)}

Respelled(d) ==
    {d} \union DefaultPort(d) \union SameCommand(d)
        \union (UNION {OtherName(d, keys) \union Contradicted(d, keys) :
                         keys \in Spellings})
        \union (UNION {OtherBlanks(d, k) : k \in {"signalStatus", "key"}})

----------------------------------------------------------------------------
PowerOn ==
    [connected |-> FALSE, signal |-> "NO_SIGNAL", mode |-> NoMode,
     cached |-> [x \in Properties |->
        Number(IF x = "SIGNAL_QUALITY" THEN "intValue" ELSE "longValue", 0)]]

MessageInit ==
    /\ session = [p \in Ports |-> "closed"]
    /\ real = [ports |-> [p \in Ports |-> PowerOn], sent |-> <<>>]
    /\ twin = real

Message ==
    \E d \in Documents : \E e \in Respelled(d) :
        /\ real' = Handled(real, d)
        /\ twin' = Handled(twin, e)
        /\ UNCHANGED session

(* A session begins, is started, stopped, ends: all that the worker sees   *)
(* of the lifecycle.                                                       *)
SessionMoves(p) ==
    /\ \/ session[p] = "closed" /\ session' = [session EXCEPT ![p] = "open"]
       \/ session[p] = "open"
             /\ session' \in {[session EXCEPT ![p] = s] : s \in {"live", "closed"}}
       \/ session[p] = "live" /\ session' = [session EXCEPT ![p] = "open"]
    /\ UNCHANGED <<real, twin>>

MessageNext == Message \/ \E p \in Ports : SessionMoves(p)

MessageSpec == MessageInit /\ [][MessageNext]_messageVars

----------------------------------------------------------------------------
Positive == 1..IntHalf - 1

Modes == [width : Positive, height : Positive, interlaced : BOOLEAN,
          rate : (Nat \ {0}) \union {NaN}]

Values == [tag : {"intValue"}, number : Int32]
          \union [tag : {"longValue"}, number : Int64]

PortStates ==
    [connected : BOOLEAN, signal : SignalStatuses, mode : Modes \union {NoMode},
     cached : [Properties -> Values]]

(* The types; a property holds no number that its type cannot, and a mode  *)
(* has a size that a screen can have.                                      *)
MessagesTypeOK ==
    /\ session \in [Ports -> {"closed", "open", "live"}]
    /\ real.ports \in [Ports -> PortStates]

(* The names a host uses for fields, their aliases beside them, the two    *)
(* spellings of each command and the blanks around a status or the key of  *)
(* a property (nothing else is trimmed) make no difference to a port, nor  *)
(* to what it announces, after however many messages: "a host naming       *)
(* difference cannot drop the whole mode update".                          *)
SpellingBlind == real = twin

(* The physical inputs that the ports of the first host stand for.         *)
Input == INSTANCE PhysicalInput WITH
            connected    <- [p \in Ports |-> real.ports[p].connected],
            signalStatus <- [p \in Ports |-> real.ports[p].signal],
            mode         <- [p \in Ports |-> real.ports[p].mode]

(* Every message is one thing that may happen to the input of one port, a  *)
(* cable, a signal, a mode with a positive size, or it is nothing at all:  *)
(* a faulty one leaves no part of itself behind.                           *)
ImplementsInput == Input!Spec

(* With a session open, neither the connection nor the signal of its port  *)
(* changes by a message that announces nothing.                            *)
NoSilentChange ==
    [][\A p \in Ports : session[p] # "closed" /\ real'.sent = <<>> =>
          /\ real'.ports[p].connected = real.ports[p].connected
          /\ real'.ports[p].signal = real.ports[p].signal]_messageVars
=============================================================================
