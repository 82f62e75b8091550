--------------------------- MODULE UtMessageProofs ---------------------------
(* Proofs of the properties of UtMessage, for every set of ports, metrics  *)
(* and documents and every width of the two signed words.                  *)
EXTENDS UtMessage, WellFoundedInduction, TLAPS

----------------------------------------------------------------------------
(* The first name a document holds of a field.                             *)

(* A set of natural numbers has a least one.                               *)
LEMMA Least ==
    ASSUME NEW T, T \subseteq Nat, T # {}
    PROVE  \E n \in T : \A m \in T : n <= m
<1> DEFINE R == {ss \in Nat \X Nat : ss[1] < ss[2]}
<1>1. IsWellFoundedOn(R, Nat)
  BY NatLessThanWellFounded DEF OpToRel
<1>2. \A x, y \in Nat : <<y, x>> \in R <=> y < x
  OBVIOUS
<1> HIDE DEF R
<1>3. PICK x \in T : \A y \in T : ~ (<<y, x>> \in R)
  BY <1>1, WFMin
<1>4. ASSUME NEW m \in T PROVE x <= m
  <2>1. m \in Nat /\ x \in Nat
    OBVIOUS
  <2>2. ~ (m < x)
    BY <1>2, <1>3, <2>1
  <2> QED
    BY <2>1, <2>2
<1> QED
  BY <1>4

(* FirstPresentKey is a name the document holds, none before it is, and    *)
(* there is one unless the document holds no name of the field.            *)
LEMMA FirstIsPresent ==
    ASSUME NEW d, NEW keys \in Spellings
    PROVE  /\ Present(d, keys) = {} <=> FirstPresentKey(d, keys) = Nothing
           /\ Present(d, keys) # {} =>
                \E i \in Present(d, keys) :
                   /\ FirstPresentKey(d, keys) = keys[i]
                   /\ \A j \in Present(d, keys) : i <= j
<1>1. \A i \in DOMAIN keys : i \in Nat /\ keys[i] # Nothing
  BY NothingAssumption
     DEF Spellings, WidthKeys, HeightKeys, FrameRateKeys, InterlacedKeys, ToSet
<1>2. Present(d, keys) \subseteq Nat
  BY <1>1 DEF Present
<1>3. ASSUME Present(d, keys) # {}
      PROVE  \E i \in Present(d, keys) :
                /\ FirstPresentKey(d, keys) = keys[i]
                /\ \A j \in Present(d, keys) : i <= j
  <2>1. \E n \in Present(d, keys) : \A m \in Present(d, keys) : n <= m
    BY <1>2, <1>3, Least
  <2>2. /\ Min(Present(d, keys)) \in Present(d, keys)
        /\ \A m \in Present(d, keys) : Min(Present(d, keys)) <= m
    BY <2>1 DEF Min
  <2> QED
    BY <1>3, <2>2 DEF FirstPresentKey
<1>4. Present(d, keys) # {} => FirstPresentKey(d, keys) # Nothing
  BY <1>1, <1>3 DEF Present
<1> QED
  BY <1>3, <1>4 DEF FirstPresentKey

(* The name found is one of the field's and the document holds it.         *)
LEMMA FirstIsHeld ==
    ASSUME NEW d, NEW keys \in Spellings, FirstPresentKey(d, keys) # Nothing
    PROVE  FirstPresentKey(d, keys) \in DOMAIN d \cap ToSet(keys)
<1>1. PICK i \in Present(d, keys) : FirstPresentKey(d, keys) = keys[i]
  BY FirstIsPresent
<1> QED
  BY <1>1 DEF Present, ToSet

----------------------------------------------------------------------------
(* What a document asks for.                                               *)

(* The casts to a signed word give numbers of that word.                   *)
LEMMA SignedInWord ==
    ASSUME NEW half \in Nat, NEW n \in 0..2 * half - 1
    PROVE  Signed(n, half) \in -half..half - 1
BY DEF Signed

(* The requests that a document may be decoded to.                         *)
Request(a) ==
    \/ a.what = "connection" /\ a.value \in BOOLEAN
    \/ a.what = "signal"     /\ a.value \in SignalStatuses
    \/ a.what = "mode"       /\ a.value \in Modes
    \/ a.what = "clear"
    \/ a.what = "property"   /\ a.value.property \in Properties
                             /\ a.value.value \in Values

(* A mode is one of the modes there are: it has a positive size.           *)
LEMMA ModeAsked ==
    ASSUME NEW d \in Documents, VideoModeOf(d) # Nothing
    PROVE  Request(VideoModeOf(d))
<1> DEFINE w == FirstPresentKey(d, WidthKeys)
<1> DEFINE h == FirstPresentKey(d, HeightKeys)
<1> DEFINE r == FirstPresentKey(d, FrameRateKeys)
<1> DEFINE i == FirstPresentKey(d, InterlacedKeys)
<1> DEFINE W == Signed(d[w], IntHalf)
<1> DEFINE H == Signed(d[h], IntHalf)
<1> DEFINE I == i # Nothing /\ d[i]
<1>1. /\ w # Nothing /\ h # Nothing /\ r # Nothing
      /\ VideoModeOf(d) = MakeVideoResolution(W, H, I, d[r])
  BY DEF VideoModeOf
<1>2. /\ {WidthKeys, HeightKeys, FrameRateKeys, InterlacedKeys} = Spellings
      /\ ToSet(WidthKeys) \subseteq UInt32Fields
      /\ ToSet(HeightKeys) \subseteq UInt32Fields
  BY DEF Spellings, UInt32Fields, ToSet, WidthKeys, HeightKeys
<1>3. /\ w \in DOMAIN d \cap ToSet(WidthKeys)
      /\ h \in DOMAIN d \cap ToSet(HeightKeys)
      /\ r \in DOMAIN d \cap ToSet(FrameRateKeys)
      /\ i # Nothing => i \in DOMAIN d \cap ToSet(InterlacedKeys)
  <2> HIDE DEF w, h, r, i
  <2> QED
    BY <1>1, <1>2, FirstIsHeld DEF w, h, r, i
<1> HIDE DEF w, h, r, i
<1>4. /\ d[w] \in 0..2 * IntHalf - 1
      /\ d[h] \in 0..2 * IntHalf - 1
      /\ d[r] \in Int \union {NaN}
      /\ I \in BOOLEAN
  BY <1>2, <1>3, DocumentsAssumption
<1>5. W \in Int32 /\ H \in Int32
  BY <1>4, SignedInWord, WidthsAssumption DEF Int32
<1> HIDE DEF W, H, I
<1>6. MakeVideoResolution(W, H, I, d[r]) # Nothing
  BY <1>1
<1>7. /\ ~(W <= 0) /\ ~(H <= 0) /\ (d[r] = NaN \/ ~(d[r] <= 0))
      /\ MakeVideoResolution(W, H, I, d[r]) =
            Asks("mode", [width |-> W, height |-> H, interlaced |-> I, rate |-> d[r]])
  BY <1>6 DEF MakeVideoResolution
<1>8. W \in Positive /\ H \in Positive /\ d[r] \in (Nat \ {0}) \union {NaN}
  BY <1>4, <1>5, <1>7, WidthsAssumption DEF Positive, Int32
<1> QED
  BY <1>1, <1>4, <1>7, <1>8 DEF Request, Asks, Modes

(* A property that is seeded is one there is, with a number of its type.   *)
LEMMA PropertyAsked ==
    ASSUME NEW d \in Documents, PropertyOf(d) # Nothing
    PROVE  Request(PropertyOf(d))
<1>1. /\ "key" \in DOMAIN d /\ {"intValue", "longValue"} \cap DOMAIN d # {}
      /\ Trim(d["key"]) \in Properties
  BY DEF PropertyOf
<1> DEFINE v == IF "longValue" \in DOMAIN d
                THEN Number("longValue", Signed(d["longValue"], LongHalf))
                ELSE Number("intValue", Signed(d["intValue"], IntHalf))
<1>2. v \in Values
  <2>1. CASE "longValue" \in DOMAIN d
    <3>1. Signed(d["longValue"], LongHalf) \in Int64
      BY <2>1, DocumentsAssumption, SignedInWord, WidthsAssumption DEF Int64
    <3> QED
      BY <2>1, <3>1 DEF Number, Values
  <2>2. CASE "longValue" \notin DOMAIN d
    <3>1. "intValue" \in DOMAIN d \cap UInt32Fields
      BY <1>1, <2>2 DEF UInt32Fields
    <3>2. Signed(d["intValue"], IntHalf) \in Int32
      BY <3>1, DocumentsAssumption, SignedInWord, WidthsAssumption DEF Int32
    <3> QED
      BY <2>2, <3>2 DEF Number, Values
  <2> QED
    BY <2>1, <2>2
<1>3. PropertyOf(d) = Asks("property", [property |-> Trim(d["key"]), value |-> v])
  BY <1>1 DEF PropertyOf
<1> HIDE DEF v
<1> QED
  BY <1>1, <1>2, <1>3 DEF Request, Asks

(* What a document asks for is a request, or nothing.                      *)
LEMMA AskedIsRequest ==
    ASSUME NEW d \in Documents, Asked(d) # Nothing
    PROVE  Request(Asked(d))
<1> DEFINE c == DecodeCommand(IF "command" \in DOMAIN d THEN d["command"] ELSE "")
<1>1. Asked(d) = CASE c = "CONNECTION_STATUS" -> ConnectionOf(d)
                   [] c = "SIGNAL_STATUS"     -> SignalOf(d)
                   [] c = "VIDEO_MODE"        -> VideoModeOf(d)
                   [] c = "CLEAR_VIDEO_MODE"  -> Asks("clear", NoMode)
                   [] c = "SET_PROPERTY"      -> PropertyOf(d)
                   [] OTHER                   -> Nothing
  BY DEF Asked
<1> HIDE DEF c
<1>2. CASE c = "CONNECTION_STATUS"
  <2>1. Asked(d) = ConnectionOf(d)
    BY <1>1, <1>2
  <2>2. "connected" \in DOMAIN d /\ ConnectionOf(d) = Asks("connection", d["connected"])
    BY <2>1 DEF ConnectionOf
  <2>3. d["connected"] \in BOOLEAN
    BY <2>2, DocumentsAssumption
  <2> QED
    BY <2>1, <2>2, <2>3 DEF Request, Asks
<1>3. CASE c = "SIGNAL_STATUS"
  BY <1>1, <1>3 DEF SignalOf, Request, Asks
<1>4. CASE c = "VIDEO_MODE"
  BY <1>1, <1>4, ModeAsked
<1>5. CASE c = "CLEAR_VIDEO_MODE"
  BY <1>1, <1>5 DEF Request, Asks
<1>6. CASE c = "SET_PROPERTY"
  BY <1>1, <1>6, PropertyAsked
<1> QED
  BY <1>1, <1>2, <1>3, <1>4, <1>5, <1>6

----------------------------------------------------------------------------
(* What a port does with a request.                                        *)

(* The numbers derived from a signal are values of their properties.       *)
LEMMA FreshIsTyped ==
    ASSUME NEW s, NEW x \in Telemetry
    PROVE  Fresh(s)[x] \in Values
<1>1. SignalStrengthDbm(s) \in Int64 /\ SignalQuality(s) \in Int32
  <2>1. SignalStrengthDbm(s) \in {-20, -50, 0}
    BY DEF SignalStrengthDbm
  <2>2. SignalQuality(s) \in {85, 20, 5, 0}
    BY DEF SignalQuality
  <2> QED
    BY <2>1, <2>2, WidthsAssumption DEF Int32, Int64
<1> QED
  BY <1>1 DEF Fresh, Telemetry, Number, Values

(* A port stays a port.                                                    *)
LEMMA UpdatedIsTyped ==
    ASSUME NEW q \in PortStates, NEW a, Request(a), NEW live \in BOOLEAN
    PROVE  Updated(q, a, live) \in PortStates
<1>1. CASE a.what = "connection"
  BY <1>1 DEF Request, Updated, Connected, PortStates
<1>2. ASSUME NEW b \in PortStates, NEW s PROVE Refreshed(b, s, live) \in PortStates
  <2>1. \A x \in Telemetry : Fresh(s)[x] \in Values
    BY FreshIsTyped
  <2> DEFINE c == [x \in Properties |-> IF live /\ x \in Telemetry
                                        THEN Fresh(s)[x] ELSE b.cached[x]]
  <2>2. c \in [Properties -> Values]
    BY <2>1 DEF PortStates
  <2>3. Refreshed(b, s, live) = [b EXCEPT !.cached = c]
    BY DEF Refreshed
  <2> HIDE DEF c
  <2> QED
    BY <2>2, <2>3 DEF PortStates
<1>3. CASE a.what = "signal"
  <2>1. [q EXCEPT !.signal = a.value, !.mode = IF a.value = "STABLE" THEN @ ELSE NoMode]
           \in PortStates
    BY <1>3 DEF Request, PortStates
  <2> QED
    BY <1>2, <1>3, <2>1 DEF Updated, Signalled
<1>4. CASE a.what = "mode"
  <2>1. [q EXCEPT !.mode = a.value, !.signal = "STABLE"] \in PortStates
    BY <1>4 DEF Request, PortStates, SignalStatuses
  <2> QED
    BY <1>2, <1>4, <2>1 DEF Updated, Detected
<1>5. CASE a.what = "clear"
  BY <1>5 DEF Updated, PortStates
<1>6. CASE a.what = "property"
  BY <1>6 DEF Request, Updated, Seeded, PortStates
<1> QED
  BY <1>1, <1>3, <1>4, <1>5, <1>6 DEF Request

(* Of the physical input, it changes what the request is about.            *)
LEMMA UpdatedInput ==
    ASSUME NEW q \in PortStates, NEW a, Request(a), NEW live \in BOOLEAN,
           NEW r, r = Updated(q, a, live)
    PROVE  /\ a.what = "connection" =>
                /\ r.connected = a.value /\ r.signal = q.signal
                /\ r.mode = IF a.value THEN q.mode ELSE NoMode
           /\ a.what = "signal" =>
                /\ r.signal = a.value /\ r.connected = q.connected
                /\ r.mode = IF a.value = "STABLE" THEN q.mode ELSE NoMode
           /\ a.what = "mode" =>
                /\ r.mode = a.value /\ r.signal = "STABLE" /\ r.connected = q.connected
           /\ a.what = "clear" =>
                /\ r.mode = NoMode /\ r.signal = q.signal /\ r.connected = q.connected
           /\ a.what = "property" =>
                /\ r.mode = q.mode /\ r.signal = q.signal /\ r.connected = q.connected
<1>1. ASSUME NEW b \in PortStates, NEW s
      PROVE  /\ Refreshed(b, s, live).connected = b.connected
             /\ Refreshed(b, s, live).signal = b.signal
             /\ Refreshed(b, s, live).mode = b.mode
  BY DEF Refreshed, PortStates
<1>2. CASE a.what = "connection"
  BY <1>2 DEF Updated, Connected, PortStates
<1>3. CASE a.what = "signal"
  <2> DEFINE b == [q EXCEPT !.signal = a.value,
                            !.mode = IF a.value = "STABLE" THEN @ ELSE NoMode]
  <2>1. b \in PortStates
    BY <1>3 DEF Request, PortStates
  <2>2. /\ b.signal = a.value /\ b.connected = q.connected
        /\ b.mode = IF a.value = "STABLE" THEN q.mode ELSE NoMode
    BY DEF PortStates
  <2>3. r = Refreshed(b, a.value, live)
    BY <1>3 DEF Updated, Signalled
  <2> HIDE DEF b
  <2> QED
    BY <1>1, <1>3, <2>1, <2>2, <2>3
<1>4. CASE a.what = "mode"
  <2> DEFINE b == [q EXCEPT !.mode = a.value, !.signal = "STABLE"]
  <2>1. b \in PortStates
    BY <1>4 DEF Request, PortStates, SignalStatuses
  <2>2. b.mode = a.value /\ b.signal = "STABLE" /\ b.connected = q.connected
    BY DEF PortStates
  <2>3. r = Refreshed(b, "STABLE", live)
    BY <1>4 DEF Updated, Detected
  <2> HIDE DEF b
  <2> QED
    BY <1>1, <1>4, <2>1, <2>2, <2>3
<1>5. CASE a.what = "clear"
  BY <1>5 DEF Updated, PortStates
<1>6. CASE a.what = "property"
  BY <1>6 DEF Updated, Seeded, PortStates
<1> QED
  BY <1>2, <1>3, <1>4, <1>5, <1>6 DEF Request

(* The document d has u carry out request a at port p.                     *)
Applied(u, d, p, a) ==
    /\ Handled(u, d).ports =
          [u.ports EXCEPT ![p] = Updated(u.ports[p], a, session[p] = "live")]
    /\ Handled(u, d).sent = Notices(u.ports[p], a, session[p])

(* A document that is taken moves the port it addresses, and no other; any *)
(* other document moves none.                                              *)
LEMMA HandledPorts ==
    ASSUME NEW u, NEW d \in Documents
    PROVE  \/ Handled(u, d).ports = u.ports /\ Handled(u, d).sent = <<>>
           \/ \E p \in Ports : \E a : Request(a) /\ Applied(u, d, p, a)
<1>1. CASE PortOf(d) \notin Ports \/ Asked(d) = Nothing
  BY <1>1 DEF Handled
<1>2. CASE PortOf(d) \in Ports /\ Asked(d) # Nothing
  <2>1. Request(Asked(d))
    BY <1>2, AskedIsRequest
  <2>2. Applied(u, d, PortOf(d), Asked(d))
    BY <1>2 DEF Handled, Applied
  <2> QED
    BY <1>2, <2>1, <2>2
<1> QED
  BY <1>1, <1>2

----------------------------------------------------------------------------
(* Types.                                                                  *)

(* The types hold before the first message.                                *)
LEMMA MessageTypeInit == MessageInit => MessagesTypeOK
<1> SUFFICES ASSUME MessageInit PROVE MessagesTypeOK
  OBVIOUS
<1>1. \A x \in Properties : Number(IF x = "SIGNAL_QUALITY" THEN "intValue"
                                   ELSE "longValue", 0) \in Values
  BY WidthsAssumption DEF Number, Values, Int32, Int64
<1>2. PowerOn \in PortStates
  BY <1>1 DEF PowerOn, PortStates, SignalStatuses
<1> QED
  BY <1>2 DEF MessageInit, MessagesTypeOK

(* A document, and a session that opens or ends, keep the types.           *)
LEMMA MessageTypeStep ==
    MessagesTypeOK /\ [MessageNext]_messageVars => MessagesTypeOK'
<1> SUFFICES ASSUME MessagesTypeOK, [MessageNext]_messageVars
             PROVE  MessagesTypeOK'
  OBVIOUS
<1> USE DEF MessagesTypeOK
<1>1. CASE Message
  <2>1. PICK d \in Documents : real' = Handled(real, d) /\ UNCHANGED session
    BY <1>1 DEF Message
  <2>2. CASE real'.ports = real.ports
    BY <2>1, <2>2
  <2>3. CASE \E p \in Ports : \E a : Request(a) /\ Applied(real, d, p, a)
    <3>1. PICK p \in Ports : \E a : Request(a) /\ Applied(real, d, p, a)
      BY <2>3
    <3>2. PICK a : Request(a) /\ Applied(real, d, p, a)
      BY <3>1
    <3>3. Updated(real.ports[p], a, session[p] = "live") \in PortStates
      BY <3>2, UpdatedIsTyped
    <3> QED
      BY <2>1, <3>2, <3>3 DEF Applied
  <2> QED
    BY <2>1, <2>2, <2>3, HandledPorts
<1>2. ASSUME NEW p \in Ports, SessionMoves(p) PROVE MessagesTypeOK'
  BY <1>2 DEF SessionMoves
<1>3. CASE UNCHANGED messageVars
  BY <1>3 DEF messageVars
<1> QED
  BY <1>1, <1>2, <1>3 DEF MessageNext

(* The ports keep their types, and no value its port could not hold is     *)
(* ever cached, whatever the host sends.                                   *)
THEOREM MessagesTypeCorrect == MessageSpec => []MessagesTypeOK
<1> QED
  BY MessageTypeInit, MessageTypeStep, PTL DEF MessageSpec

----------------------------------------------------------------------------
(* The physical input.                                                     *)

(* At power on nothing is connected, as the physical input has it.         *)
LEMMA InputInit == MessageInit => Input!Init
BY DEF MessageInit, PowerOn, Input!Init

(* A document is one thing that may happen to the input of a port.         *)
LEMMA MessageMovesInput ==
    ASSUME MessagesTypeOK, Message
    PROVE  [Input!Next]_(Input!inputVars)
<1> DEFINE connected == [p \in Ports |-> real.ports[p].connected]
<1> DEFINE signal == [p \in Ports |-> real.ports[p].signal]
<1> DEFINE mode == [p \in Ports |-> real.ports[p].mode]
<1>1. PICK d \in Documents : real' = Handled(real, d) /\ UNCHANGED session
  BY DEF Message
<1>2. CASE real'.ports = real.ports
  BY <1>2 DEF Input!inputVars
<1>3. CASE \E p \in Ports : \E a : Request(a) /\ Applied(real, d, p, a)
  <2>1. PICK p \in Ports : \E a : Request(a) /\ Applied(real, d, p, a)
    BY <1>3
  <2>2. PICK a : Request(a) /\ Applied(real, d, p, a)
    BY <2>1
  <2> DEFINE q == real.ports[p]
  <2> DEFINE r == Updated(q, a, session[p] = "live")
  <2>3. real'.ports = [real.ports EXCEPT ![p] = r]
    BY <1>1, <2>2 DEF Applied
  <2>4. q \in PortStates /\ (session[p] = "live") \in BOOLEAN
    BY DEF MessagesTypeOK
  <2>5. real.ports \in [Ports -> PortStates]
    BY DEF MessagesTypeOK
  <2> HIDE DEF r
  <2>6. /\ connected' = [connected EXCEPT ![p] = r.connected]
        /\ signal' = [signal EXCEPT ![p] = r.signal]
        /\ mode' = [mode EXCEPT ![p] = r.mode]
    BY <2>3, <2>5
  <2>7. connected[p] = q.connected /\ signal[p] = q.signal /\ mode[p] = q.mode
    OBVIOUS
  <2>8. /\ connected = [connected EXCEPT ![p] = q.connected]
        /\ signal = [signal EXCEPT ![p] = q.signal]
        /\ mode = [mode EXCEPT ![p] = q.mode]
    BY <2>5
  <2>9. mode'[p] = r.mode
    BY <2>6
  <2>10. /\ a.what = "connection" =>
              /\ r.connected = a.value /\ r.signal = q.signal
              /\ r.mode = IF a.value THEN q.mode ELSE NoMode
         /\ a.what = "signal" =>
              /\ r.signal = a.value /\ r.connected = q.connected
              /\ r.mode = IF a.value = "STABLE" THEN q.mode ELSE NoMode
         /\ a.what = "mode" =>
              /\ r.mode = a.value /\ r.signal = "STABLE" /\ r.connected = q.connected
         /\ a.what = "clear" =>
              /\ r.mode = NoMode /\ r.signal = q.signal /\ r.connected = q.connected
         /\ a.what = "property" =>
              /\ r.mode = q.mode /\ r.signal = q.signal /\ r.connected = q.connected
    <3> DEFINE live == session[p] = "live"
    <3>1. q \in PortStates /\ live \in BOOLEAN /\ r = Updated(q, a, live)
      BY <2>4 DEF r
    <3> HIDE DEF q, live
    <3> QED
      BY <2>2, <3>1, UpdatedInput
  <2> HIDE DEF q, connected, signal, mode
  <2>11. CASE a.what = "connection"
    <3>1. a.value \in BOOLEAN
      BY <2>2, <2>11 DEF Request
    <3>2. /\ connected' = [connected EXCEPT ![p] = a.value]
          /\ mode' = [mode EXCEPT ![p] = IF a.value THEN mode[p] ELSE NoMode]
          /\ signal' = signal
      BY <2>6, <2>7, <2>8, <2>10, <2>11
    <3>3. Input!Plug(p)
      BY <3>1, <3>2, Zenon DEF Input!Plug, connected, signal, mode
    <3> QED
      BY <3>3 DEF Input!Next
  <2>12. CASE a.what = "signal"
    <3>1. a.value \in SignalStatuses
      BY <2>2, <2>12 DEF Request
    <3>2. /\ signal' = [signal EXCEPT ![p] = a.value]
          /\ mode' = [mode EXCEPT ![p] = IF a.value = "STABLE" THEN mode[p] ELSE NoMode]
          /\ connected' = connected
      BY <2>6, <2>7, <2>8, <2>10, <2>12
    <3>3. a.value \in Input!SignalStatuses
      BY <3>1 DEF SignalStatuses, Input!SignalStatuses
    <3>4. Input!Signal(p)
      BY <3>2, <3>3, Zenon DEF Input!Signal, connected, signal, mode
    <3> QED
      BY <3>4 DEF Input!Next
  <2>13. CASE a.what = "mode"
    <3>1. a.value \in Modes
      BY <2>2, <2>13 DEF Request
    <3>2. /\ mode'[p] = a.value
          /\ mode' = [mode EXCEPT ![p] = mode'[p]]
          /\ signal' = [signal EXCEPT ![p] = "STABLE"]
          /\ connected' = connected
      BY <2>6, <2>7, <2>8, <2>9, <2>10, <2>13
    <3>3. Input!Detect(p)
      BY <3>1, <3>2, Zenon DEF Input!Detect, connected, signal, mode
    <3> QED
      BY <3>3 DEF Input!Next
  <2>14. CASE a.what = "clear"
    <3>1. /\ mode' = [mode EXCEPT ![p] = NoMode]
          /\ connected' = connected /\ signal' = signal
      BY <2>6, <2>7, <2>8, <2>10, <2>14
    <3>2. Input!Clear(p)
      BY <3>1, Zenon DEF Input!Clear, connected, signal, mode
    <3> QED
      BY <3>2 DEF Input!Next
  <2>15. CASE a.what = "property"
    BY <2>6, <2>8, <2>10, <2>15 DEF Input!inputVars, connected, signal, mode
  <2> QED
    BY <2>2, <2>11, <2>12, <2>13, <2>14, <2>15 DEF Request
<1> QED
  BY <1>1, <1>2, <1>3, HandledPorts

(* Every step is one of the physical input, or leaves it alone.            *)
LEMMA InputStep ==
    MessagesTypeOK /\ [MessageNext]_messageVars => [Input!Next]_(Input!inputVars)
<1> SUFFICES ASSUME MessagesTypeOK, [MessageNext]_messageVars
             PROVE  [Input!Next]_(Input!inputVars)
  OBVIOUS
<1>1. CASE Message
  BY <1>1, MessageMovesInput
<1>2. ASSUME NEW p \in Ports, SessionMoves(p) PROVE UNCHANGED Input!inputVars
  BY <1>2 DEF SessionMoves, Input!inputVars
<1>3. CASE UNCHANGED messageVars
  BY <1>3 DEF messageVars, Input!inputVars
<1> QED
  BY <1>1, <1>2, <1>3 DEF MessageNext

(* Each document, faulty or not, is one thing that may happen to the input *)
(* of one port, or nothing at all.                                         *)
THEOREM MessagesImplementInput == MessageSpec => ImplementsInput
<1>1. MessageSpec => []MessagesTypeOK
  BY MessagesTypeCorrect
<1> QED
  BY <1>1, InputInit, InputStep, PTL DEF MessageSpec, ImplementsInput, Input!Spec

(* The physical input gives up a mode with the signal it was detected on.  *)
LEMMA InputModeStep ==
    Input!ModeOnStable /\ [Input!Next]_(Input!inputVars) => Input!ModeOnStable'
<1> SUFFICES ASSUME Input!ModeOnStable, [Input!Next]_(Input!inputVars)
             PROVE  Input!ModeOnStable'
  OBVIOUS
<1> DEFINE connected == [p \in Ports |-> real.ports[p].connected]
           signal == [p \in Ports |-> real.ports[p].signal]
           mode == [p \in Ports |-> real.ports[p].mode]
           Stable(m, s) == \A p \in Ports : m[p] # NoMode => s[p] = "STABLE"
<1>1. DOMAIN mode = Ports /\ DOMAIN signal = Ports
  OBVIOUS
<1>2. /\ Input!ModeOnStable <=> Stable(mode, signal)
      /\ Input!ModeOnStable' <=> Stable(mode', signal')
  BY DEF Input!ModeOnStable
<1>3. UNCHANGED Input!inputVars => mode' = mode /\ signal' = signal
  BY DEF Input!inputVars
<1>4. ASSUME NEW p \in Ports, Input!Plug(p)
      PROVE  /\ signal' = signal
             /\ \E v \in {mode[p], NoMode} : mode' = [mode EXCEPT ![p] = v]
  BY <1>4 DEF Input!Plug
<1>5. ASSUME NEW p \in Ports, Input!Signal(p)
      PROVE  \E s : /\ signal' = [signal EXCEPT ![p] = s]
                    /\ mode' = [mode EXCEPT ![p] = IF s = "STABLE" THEN mode[p] ELSE NoMode]
  BY <1>5 DEF Input!Signal
<1>6. ASSUME NEW p \in Ports, Input!Detect(p)
      PROVE  /\ signal' = [signal EXCEPT ![p] = "STABLE"]
             /\ \E v : mode' = [mode EXCEPT ![p] = v]
  BY <1>6 DEF Input!Detect
<1>7. ASSUME NEW p \in Ports, Input!Clear(p)
      PROVE  signal' = signal /\ mode' = [mode EXCEPT ![p] = NoMode]
  BY <1>7 DEF Input!Clear
<1> HIDE DEF connected, signal, mode
<1>8. ASSUME Stable(mode, signal), Input!Next
      PROVE  Stable(mode', signal')
  <2>1. PICK p \in Ports : Input!Plug(p) \/ Input!Signal(p) \/ Input!Detect(p)
                               \/ Input!Clear(p)
    BY <1>8 DEF Input!Next
  <2>2. CASE Input!Plug(p)
    BY <1>1, <1>4, <1>8, <2>2
  <2>3. CASE Input!Signal(p)
    BY <1>1, <1>5, <1>8, <2>3
  <2>4. CASE Input!Detect(p)
    BY <1>1, <1>6, <1>8, <2>4
  <2>5. CASE Input!Clear(p)
    BY <1>1, <1>7, <1>8, <2>5
  <2> QED
    BY <2>1, <2>2, <2>3, <2>4, <2>5
<1>9. CASE UNCHANGED Input!inputVars
  <2>1. mode' = mode /\ signal' = signal
    BY <1>3, <1>9
  <2> QED
    BY <1>2, <2>1
<1>10. CASE Input!Next
  <2>1. Stable(mode, signal)
    BY <1>2
  <2> QED
    BY <1>2, <1>8, <1>10, <2>1
<1> QED
  BY <1>9, <1>10

(* No document, faulty or not, leaves a video mode on a signal that is not *)
(* stable.                                                                 *)
THEOREM MessagesKeepModeOnStable == MessageSpec => []Input!ModeOnStable
<1>1. Input!Init => Input!ModeOnStable
  BY DEF Input!Init, Input!ModeOnStable
<1> QED
  BY <1>1, InputModeStep, MessagesImplementInput, PTL DEF ImplementsInput, Input!Spec

----------------------------------------------------------------------------
(* What is announced.                                                      *)

(* A request that announces nothing to an open port leaves its connection  *)
(* and its signal as they are.                                             *)
LEMMA SilentKeepsInput ==
    ASSUME NEW q \in PortStates, NEW a, Request(a), NEW live \in BOOLEAN,
           NEW s, s # "closed", Notices(q, a, s) = <<>>,
           NEW r, r = Updated(q, a, live)
    PROVE  r.connected = q.connected /\ r.signal = q.signal
<1>1. CASE a.what = "connection"
  <2>1. a.value = q.connected
    BY <1>1 DEF Notices, If, ConnectionNotices
  <2> QED
    BY <1>1, <2>1, UpdatedInput
<1>2. CASE a.what = "signal"
  <2> DEFINE before == If(s = "live", TelemetryEvents(a.value))
  <2>1. Notices(q, a, s) = before \o <<a>>
    BY <1>2 DEF Notices, If
  <2>2. before = <<>> \/ before = TelemetryEvents(a.value)
    BY DEF If
  <2>3. CASE before = <<>>
    <3>1. Len(<<>> \o <<a>>) = 1
      OBVIOUS
    <3> QED
      BY <2>1, <2>3, <3>1
  <2>4. CASE before = TelemetryEvents(a.value)
    <3>1. \A e, f : Len(<<e, f>> \o <<a>>) = 3
      OBVIOUS
    <3> QED
      BY <2>1, <2>4, <3>1 DEF TelemetryEvents
  <2> QED
    BY <2>2, <2>3, <2>4
<1>3. CASE a.what = "mode"
  BY <1>3 DEF Notices, If
<1>4. CASE a.what \in {"clear", "property"}
  BY <1>4, UpdatedInput
<1> QED
  BY <1>1, <1>2, <1>3, <1>4 DEF Request

(* A step that sends nothing leaves the connection and the signal of a     *)
(* port with a client alone.                                               *)
LEMMA SilentStep ==
    ASSUME MessagesTypeOK, [MessageNext]_messageVars,
           NEW p \in Ports, session[p] # "closed", real'.sent = <<>>
    PROVE  /\ real'.ports[p].connected = real.ports[p].connected
           /\ real'.ports[p].signal = real.ports[p].signal
<1>1. CASE Message
  <2>1. PICK d \in Documents : real' = Handled(real, d)
    BY <1>1 DEF Message
  <2>2. CASE real'.ports = real.ports
    BY <2>2
  <2>3. CASE \E o \in Ports : \E a : Request(a) /\ Applied(real, d, o, a)
    <3>1. PICK o \in Ports : \E a : Request(a) /\ Applied(real, d, o, a)
      BY <2>3
    <3>2. PICK a : Request(a) /\ Applied(real, d, o, a)
      BY <3>1
    <3> DEFINE q == real.ports[o]
    <3> DEFINE live == session[o] = "live"
    <3> DEFINE r == Updated(q, a, live)
    <3>3. /\ real'.ports = [real.ports EXCEPT ![o] = r]
          /\ real'.sent = Notices(q, a, session[o])
      BY <2>1, <3>2 DEF Applied
    <3>4. real.ports \in [Ports -> PortStates] /\ q \in PortStates /\ live \in BOOLEAN
      BY DEF MessagesTypeOK
    <3>5. CASE o # p
      BY <3>3, <3>4, <3>5
    <3>6. CASE o = p
      <4>1. real'.ports[p] = r
        BY <3>3, <3>4, <3>6
      <4>2. Notices(q, a, session[o]) = <<>> /\ session[o] # "closed"
        BY <3>3, <3>6
      <4>3. r.connected = q.connected /\ r.signal = q.signal
        <5>1. r = Updated(q, a, live)
          OBVIOUS
        <5> HIDE DEF r, q, live
        <5> QED
          BY <3>2, <3>4, <4>2, <5>1, SilentKeepsInput
      <4> QED
        BY <3>6, <4>1, <4>3
    <3> QED
      BY <3>5, <3>6
  <2> QED
    BY <2>1, <2>2, <2>3, HandledPorts
<1>2. ASSUME NEW o \in Ports, SessionMoves(o) PROVE UNCHANGED real
  BY <1>2 DEF SessionMoves
<1>3. CASE UNCHANGED messageVars
  BY <1>3 DEF messageVars
<1> QED
  BY <1>1, <1>2, <1>3 DEF MessageNext

(* Nothing that a client with a session open would want to know of happens *)
(* to its port without being announced.                                    *)
THEOREM NothingSilent == MessageSpec => NoSilentChange
<1>1. MessageSpec => []MessagesTypeOK
  BY MessagesTypeCorrect
<1>2. MessagesTypeOK /\ [MessageNext]_messageVars =>
        [\A p \in Ports : session[p] # "closed" /\ real'.sent = <<>> =>
            /\ real'.ports[p].connected = real.ports[p].connected
            /\ real'.ports[p].signal = real.ports[p].signal]_messageVars
  BY SilentStep
<1> QED
  BY <1>1, <1>2, PTL DEF MessageSpec, NoSilentChange

----------------------------------------------------------------------------
(* Spellings.                                                              *)

(* The text of the command of a document.                                  *)
CommandOf(d) == IF "command" \in DOMAIN d THEN d["command"] ELSE ""

(* The fields that go by one name.                                         *)
Plain  == {"connected", "intValue", "longValue"}
Tokens == {"signalStatus", "key"}

(* Both documents hold the field with the same value, or neither does.     *)
SamePlain(d, e, k) ==
    /\ k \in DOMAIN d <=> k \in DOMAIN e
    /\ k \in DOMAIN d => e[k] = d[k]

(* The same of a token, whatever the blanks around it.                     *)
SameToken(d, e, k) ==
    /\ k \in DOMAIN d <=> k \in DOMAIN e
    /\ k \in DOMAIN d => Trim(e[k]) = Trim(d[k])

(* The same of a field with aliases, whatever the names it goes by.        *)
SameField(d, e, keys) ==
    /\ FirstPresentKey(d, keys) = Nothing <=> FirstPresentKey(e, keys) = Nothing
    /\ FirstPresentKey(d, keys) # Nothing =>
          e[FirstPresentKey(e, keys)] = d[FirstPresentKey(d, keys)]

(* Two documents that differ in no more than their spelling.               *)
Alike(d, e) ==
    /\ DecodeCommand(CommandOf(d)) = DecodeCommand(CommandOf(e))
    /\ PortOf(d) = PortOf(e)
    /\ \A k \in Plain : SamePlain(d, e, k)
    /\ \A k \in Tokens : SameToken(d, e, k)
    /\ \A keys \in Spellings : SameField(d, e, keys)

(* They are answered alike.                                                *)
LEMMA AlikeAsk == ASSUME NEW d, NEW e, Alike(d, e) PROVE Asked(d) = Asked(e)
<1>1. /\ DecodeCommand(CommandOf(d)) = DecodeCommand(CommandOf(e))
      /\ SamePlain(d, e, "connected") /\ SamePlain(d, e, "intValue")
      /\ SamePlain(d, e, "longValue")
      /\ SameToken(d, e, "signalStatus") /\ SameToken(d, e, "key")
      /\ SameField(d, e, WidthKeys) /\ SameField(d, e, HeightKeys)
      /\ SameField(d, e, FrameRateKeys) /\ SameField(d, e, InterlacedKeys)
  BY DEF Alike, Plain, Tokens, Spellings
<1>2. ConnectionOf(d) = ConnectionOf(e)
  BY <1>1 DEF SamePlain, ConnectionOf
<1>3. SignalOf(d) = SignalOf(e)
  BY <1>1 DEF SameToken, SignalOf
<1>4. VideoModeOf(d) = VideoModeOf(e)
  BY <1>1 DEF SameField, VideoModeOf
<1>5. PropertyOf(d) = PropertyOf(e)
  BY <1>1 DEF SamePlain, SameToken, PropertyOf
<1> QED
  BY <1>1, <1>2, <1>3, <1>4, <1>5 DEF Asked, CommandOf

(* No name stands for two fields, and none twice in one list of names.     *)
LEMMA NamesApart ==
    /\ \A keys \in Spellings :
          ToSet(keys) \cap (Plain \union Tokens \union {"command", "port"}) = {}
    /\ \A keys, others \in Spellings : keys # others => ToSet(keys) \cap ToSet(others) = {}
    /\ \A keys \in Spellings : \A i, j \in DOMAIN keys : keys[i] = keys[j] => i = j
<1> USE DEF WidthKeys, HeightKeys, FrameRateKeys, InterlacedKeys
<1>1. /\ ToSet(WidthKeys) = {"pixelWidth", "width"}
      /\ ToSet(HeightKeys) = {"pixelHeight", "height"}
      /\ ToSet(FrameRateKeys) = {"frameRateInHz", "frameRate", "fps"}
      /\ ToSet(InterlacedKeys) = {"interlaced", "isInterlaced"}
  BY DEF ToSet
<1>2. \A keys \in Spellings : \A i, j \in DOMAIN keys : keys[i] = keys[j] => i = j
  BY DEF Spellings
<1> HIDE DEF WidthKeys, HeightKeys, FrameRateKeys, InterlacedKeys
<1>3. \A keys \in Spellings :
          ToSet(keys) \cap (Plain \union Tokens \union {"command", "port"}) = {}
  BY <1>1 DEF Spellings, Plain, Tokens
<1>4. \A keys, others \in Spellings :
          keys # others => ToSet(keys) \cap ToSet(others) = {}
  BY <1>1 DEF Spellings
<1> QED
  BY <1>2, <1>3, <1>4

(* A field is the same in two documents that agree on its names.           *)
LEMMA SameNamesSameField ==
    ASSUME NEW d, NEW e, NEW keys \in Spellings,
           \A k \in ToSet(keys) : SamePlain(d, e, k)
    PROVE  SameField(d, e, keys)
<1>1. \A i \in DOMAIN keys : keys[i] \in ToSet(keys)
  BY DEF ToSet
<1>2. Present(d, keys) = Present(e, keys)
  BY <1>1 DEF Present, SamePlain
<1>3. FirstPresentKey(d, keys) = FirstPresentKey(e, keys)
  BY <1>2 DEF FirstPresentKey
<1>4. FirstPresentKey(d, keys) # Nothing =>
        FirstPresentKey(d, keys) \in DOMAIN d \cap ToSet(keys)
  BY FirstIsHeld
<1> QED
  BY <1>3, <1>4 DEF SameField, SamePlain

(* Documents that differ in the names S only are alike if what S names is. *)
LEMMA AlikeBeside ==
    ASSUME NEW d, NEW e, NEW S,
           \A k : k \notin S => SamePlain(d, e, k),
           S \cap Plain = {},
           "command" \in S => DecodeCommand(CommandOf(d)) = DecodeCommand(CommandOf(e)),
           "port" \in S => PortOf(d) = PortOf(e),
           \A k \in S \cap Tokens : SameToken(d, e, k),
           \A keys \in Spellings : ToSet(keys) \cap S = {} \/ SameField(d, e, keys)
    PROVE  Alike(d, e)
<1>1. DecodeCommand(CommandOf(d)) = DecodeCommand(CommandOf(e))
  BY DEF SamePlain, CommandOf
<1>2. PortOf(d) = PortOf(e)
  BY DEF SamePlain, PortOf
<1>3. \A k \in Plain : SamePlain(d, e, k)
  OBVIOUS
<1>4. \A k \in Tokens : SameToken(d, e, k)
  BY DEF SamePlain, SameToken
<1>5. ASSUME NEW keys \in Spellings PROVE SameField(d, e, keys)
  BY SameNamesSameField
<1> QED
  BY <1>1, <1>2, <1>3, <1>4, <1>5 DEF Alike

(* A field that is added or replaced changes no other.                     *)
LEMMA WithKeepsOthers ==
    ASSUME NEW d, NEW f, NEW v
    PROVE  /\ \A k : k \notin {f} => SamePlain(d, With(d, f, v), k)
           /\ f \in DOMAIN With(d, f, v)
           /\ With(d, f, v)[f] = v
BY DEF With, SamePlain

(* Naming port 0 says what leaving the port out says.                      *)
LEMMA DefaultPortAlike ==
    ASSUME NEW d, NEW e \in DefaultPort(d)
    PROVE  Alike(d, e)
<1>1. "port" \notin DOMAIN d /\ e = With(d, "port", 0)
  BY DEF DefaultPort
<1>2. PortOf(d) = PortOf(e)
  BY <1>1, WithKeepsOthers, WidthsAssumption DEF PortOf, Signed
<1>3. \A keys \in Spellings : ToSet(keys) \cap {"port"} = {}
  BY NamesApart
<1>4. {"port"} \cap Plain = {} /\ {"port"} \cap Tokens = {} /\ "command" \notin {"port"}
  BY DEF Plain, Tokens
<1>5. \A k : k \notin {"port"} => SamePlain(d, e, k)
  BY <1>1, WithKeepsOthers
<1> QED
  BY <1>2, <1>3, <1>4, <1>5, AlikeBeside

(* The spellings of a command are all decoded to it.                       *)
LEMMA SameCommandAlike ==
    ASSUME NEW d, NEW e \in SameCommand(d)
    PROVE  Alike(d, e)
<1>1. PICK cs \in CommandSpellings : \E c \in cs :
        "command" \in DOMAIN d /\ d["command"] \in cs /\ e = With(d, "command", c)
  BY DEF SameCommand
<1>2. PICK c \in cs :
        "command" \in DOMAIN d /\ d["command"] \in cs /\ e = With(d, "command", c)
  BY <1>1
<1>3. \A a, b \in cs : DecodeCommand(a) = DecodeCommand(b)
  BY DEF CommandSpellings, DecodeCommand, Commands
<1>4. DecodeCommand(CommandOf(d)) = DecodeCommand(CommandOf(e))
  <2>1. "command" \in DOMAIN e /\ e["command"] = c
    BY <1>2 DEF With
  <2>2. CommandOf(d) = d["command"] /\ CommandOf(e) = c
    BY <1>2, <2>1 DEF CommandOf
  <2> QED
    BY <1>3, <1>2, <2>2
<1> DEFINE S == {"command"}
<1>5. \A keys \in Spellings : ToSet(keys) \cap S = {}
  BY NamesApart
<1>6. S \cap Plain = {} /\ S \cap Tokens = {} /\ "port" \notin S
  BY DEF Plain, Tokens
<1>7. \A k : k \notin S => SamePlain(d, e, k)
  BY <1>2, WithKeepsOthers
<1> HIDE DEF S
<1>8. \A k \in S \cap Tokens : SameToken(d, e, k)
  BY <1>6
<1> QED
  BY <1>4, <1>5, <1>6, <1>7, <1>8, AlikeBeside, Zenon

(* Blanks around a token are trimmed.                                      *)
LEMMA OtherBlanksAlike ==
    ASSUME NEW d, NEW f \in Tokens, NEW e \in OtherBlanks(d, f)
    PROVE  Alike(d, e)
<1>1. f \in DOMAIN d
  BY DEF OtherBlanks
<1>2. PICK t : Trim(t) = Trim(d[f]) /\ e = With(d, f, t)
  BY <1>1 DEF OtherBlanks
<1>3. SameToken(d, e, f)
  BY <1>1, <1>2, WithKeepsOthers DEF SameToken
<1>4. \A keys \in Spellings : ToSet(keys) \cap {f} = {}
  BY NamesApart
<1>5. {f} \cap Plain = {} /\ f # "command" /\ f # "port"
  BY DEF Plain, Tokens
<1>6. \A k : k \notin {f} => SamePlain(d, e, k)
  BY <1>2, WithKeepsOthers
<1> QED
  BY <1>3, <1>4, <1>5, <1>6, AlikeBeside

(* The names of a field are equally good where only one is present.        *)
LEMMA OtherNameAlike ==
    ASSUME NEW d, NEW keys \in Spellings, NEW e \in OtherName(d, keys)
    PROVE  Alike(d, e)
<1>1. PICK i \in DOMAIN keys : Present(d, keys) = {i}
  BY DEF OtherName
<1> DEFINE f == FirstPresentKey(d, keys)
<1>2. PICK k \in ToSet(keys) : e = Renamed(d, f, k)
  BY <1>1 DEF OtherName
<1>3. f = keys[i] /\ f # Nothing /\ f \in DOMAIN d /\ f \in ToSet(keys)
  BY <1>1, FirstIsPresent, FirstIsHeld
<1> HIDE DEF f
<1>4. DOMAIN e = (DOMAIN d \ {f}) \union {k} /\ e[k] = d[f]
  BY <1>2 DEF Renamed
<1>5. \A n : n \notin ToSet(keys) => SamePlain(d, e, n)
  BY <1>2, <1>3 DEF Renamed, SamePlain
<1>6. \A j \in DOMAIN keys : keys[j] \in DOMAIN d => keys[j] = f
  BY <1>1, <1>3 DEF Present
<1>7. \A j \in Present(e, keys) : keys[j] = k
  BY <1>4, <1>6 DEF Present
<1>8. Present(e, keys) # {}
  <2>1. PICK j \in DOMAIN keys : keys[j] = k
    BY DEF ToSet
  <2> QED
    BY <1>4, <2>1 DEF Present
<1>9. FirstPresentKey(e, keys) = k /\ FirstPresentKey(e, keys) # Nothing
  BY <1>7, <1>8, FirstIsPresent
<1>10. SameField(d, e, keys)
  BY <1>3, <1>4, <1>9 DEF SameField, f
<1>11. \A others \in Spellings :
          ToSet(others) \cap ToSet(keys) = {} \/ SameField(d, e, others)
  BY <1>10, NamesApart
<1>12. /\ ToSet(keys) \cap Plain = {} /\ ToSet(keys) \cap Tokens = {}
       /\ "command" \notin ToSet(keys) /\ "port" \notin ToSet(keys)
  BY NamesApart
<1> QED
  BY <1>5, <1>11, <1>12, AlikeBeside

(* A later name of a field that the document has already is not looked at. *)
LEMMA ContradictedAlike ==
    ASSUME NEW d, NEW keys \in Spellings, NEW e \in Contradicted(d, keys)
    PROVE  Alike(d, e)
<1>1. PICK j \in DOMAIN keys, i \in Present(d, keys) :
        i < j /\ \E v : e = With(d, keys[j], v)
  BY DEF Contradicted
<1>2. PICK m \in Present(d, keys) :
        FirstPresentKey(d, keys) = keys[m] /\ \A l \in Present(d, keys) : m <= l
  BY FirstIsPresent
<1>3. \A l \in DOMAIN keys : l \in Nat
  BY DEF Spellings, WidthKeys, HeightKeys, FrameRateKeys, InterlacedKeys
<1>4. /\ m \in DOMAIN keys /\ keys[m] \in DOMAIN d
      /\ m < j /\ keys[m] # keys[j]
  BY <1>1, <1>2, <1>3, NamesApart DEF Present
<1>5. \A k : k \notin {keys[j]} => SamePlain(d, e, k)
  BY <1>1, WithKeepsOthers
<1>6. m \in Present(e, keys)
  BY <1>4, <1>5 DEF Present, SamePlain
<1>7. PICK n \in Present(e, keys) :
        FirstPresentKey(e, keys) = keys[n] /\ \A l \in Present(e, keys) : n <= l
  BY <1>6, FirstIsPresent
<1>8. n = m
  <2>1. n \in DOMAIN keys /\ keys[n] \in DOMAIN e /\ n <= m
    BY <1>6, <1>7 DEF Present
  <2>2. n # j
    BY <1>3, <1>4, <2>1
  <2>3. keys[n] # keys[j]
    BY <2>1, <2>2, NamesApart
  <2>4. n \in Present(d, keys)
    BY <1>5, <2>1, <2>3 DEF Present, SamePlain
  <2> QED
    BY <1>2, <1>3, <1>4, <2>1, <2>4
<1>9. SameField(d, e, keys)
  <2>1. FirstPresentKey(d, keys) = keys[m] /\ FirstPresentKey(e, keys) = keys[m]
    BY <1>2, <1>7, <1>8
  <2>2. e[keys[m]] = d[keys[m]]
    BY <1>4, <1>5 DEF SamePlain
  <2> QED
    BY <2>1, <2>2 DEF SameField
<1>10. \A others \in Spellings :
          ToSet(others) \cap {keys[j]} = {} \/ SameField(d, e, others)
  <2>1. keys[j] \in ToSet(keys)
    BY DEF ToSet
  <2> QED
    BY <1>9, <2>1, NamesApart
<1>11. /\ {keys[j]} \cap Plain = {} /\ {keys[j]} \cap Tokens = {}
       /\ "command" # keys[j] /\ "port" # keys[j]
  <2>1. keys[j] \in ToSet(keys)
    BY DEF ToSet
  <2> QED
    BY <2>1, NamesApart
<1> QED
  BY <1>5, <1>10, <1>11, AlikeBeside

(* However a document is respelled, it is alike.                           *)
LEMMA RespelledAlike ==
    ASSUME NEW d, NEW e \in Respelled(d)
    PROVE  Alike(d, e)
<1>1. CASE e = d
  BY <1>1 DEF Alike, SamePlain, SameToken, SameField
<1>2. CASE e \in DefaultPort(d)
  BY <1>2, DefaultPortAlike
<1>3. CASE e \in SameCommand(d)
  BY <1>3, SameCommandAlike
<1>4. CASE \E keys \in Spellings : e \in OtherName(d, keys)
  BY <1>4, OtherNameAlike
<1>5. CASE \E keys \in Spellings : e \in Contradicted(d, keys)
  BY <1>5, ContradictedAlike
<1>6. CASE \E k \in {"signalStatus", "key"} : e \in OtherBlanks(d, k)
  BY <1>6, OtherBlanksAlike DEF Tokens
<1> QED
  <2>1. \/ e = d \/ e \in DefaultPort(d) \/ e \in SameCommand(d)
        \/ \E keys \in Spellings : e \in OtherName(d, keys) \union Contradicted(d, keys)
        \/ \E k \in {"signalStatus", "key"} : e \in OtherBlanks(d, k)
    BY DEF Respelled
  <2> QED
    BY <1>1, <1>2, <1>3, <1>4, <1>5, <1>6, <2>1

(* Two hosts that differ in their spelling only are never told apart,      *)
(* after any number of messages, whatever the ports, documents and widths. *)
THEOREM SpellingDoesNotMatter == MessageSpec => []SpellingBlind
<1>1. MessageInit => SpellingBlind
  BY DEF MessageInit, SpellingBlind
<1>2. SpellingBlind /\ [MessageNext]_messageVars => SpellingBlind'
  <2> SUFFICES ASSUME SpellingBlind, [MessageNext]_messageVars PROVE SpellingBlind'
    OBVIOUS
  <2>1. CASE Message
    <3>1. PICK d \in Documents : \E e \in Respelled(d) :
            real' = Handled(real, d) /\ twin' = Handled(twin, e)
      BY <2>1 DEF Message
    <3>2. PICK e \in Respelled(d) : real' = Handled(real, d) /\ twin' = Handled(twin, e)
      BY <3>1
    <3>3. Alike(d, e)
      BY RespelledAlike
    <3>4. PortOf(d) = PortOf(e) /\ Asked(d) = Asked(e)
      BY <3>3, AlikeAsk DEF Alike
    <3>5. Handled(real, d) = Handled(real, e)
      BY <3>4 DEF Handled
    <3> QED
      BY <3>2, <3>5 DEF SpellingBlind
  <2>2. ASSUME NEW p \in Ports, SessionMoves(p) PROVE SpellingBlind'
    BY <2>2 DEF SessionMoves, SpellingBlind
  <2>3. CASE UNCHANGED messageVars
    BY <2>3 DEF messageVars, SpellingBlind
  <2> QED
    BY <2>1, <2>2, <2>3 DEF MessageNext
<1> QED
  BY <1>1, <1>2, PTL DEF MessageSpec
=============================================================================
