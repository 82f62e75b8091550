----------------------------- MODULE HfpProfile -----------------------------
(***************************************************************************)
(* From the HFP file to the service: the parser reads and validates the    *)
(* profile, field by field, and gives up at the first fault; the manager   *)
(* builds the ports and the platform capabilities from what it returns.    *)
(* The file is a record of the text of each field; Bad stands for one that *)
(* is missing, empty or too long to be read.                               *)
(***************************************************************************)
EXTENDS Integers, Sequences, SequencesExt

CONSTANTS
    Profiles,    \* the files
    Bad,
    Strtol,      \* the number of each text that strtol() reads to its end
    IntHalf      \* 2^31: an int32_t holds -IntHalf..IntHalf - 1

(* A token as written: a name, and whether white space surrounds it (kept  *)
(* in quotes).  The tables are searched by the trimmed name.               *)
Token == [name : STRING, padded : BOOLEAN]

(* What the reader of ut-core yields of a file.                            *)
Text == {Bad} \union STRING

RawTokens == {Bad} \union Seq({Bad} \union Token)

RawEntry == [key : {Bad} \union Token, type : {Bad} \union Token,
             description : Text, readOnly : Text, isMetric : Text]

RawEntries == {Bad} \union Seq(RawEntry)

RawPort == [id : Text, name : Text, description : Text,
            supported : RawTokens, metadata : RawEntries]

RawPlatform == [halVersion : Text, maxPorts : Text, maxStarted : Text,
                macrovision : Text, supported : RawTokens, metadata : RawEntries]

RawFile == [interfaceVersion : Text, ports : {Bad} \union Seq(RawPort),
            platform : RawPlatform]

ASSUME WidthAssumption == IntHalf \in Nat \ {0}
ASSUME BadAssumption == Bad \notin Int /\ Bad \notin BOOLEAN
ASSUME StrtolAssumption == \A text \in DOMAIN Strtol : Strtol[text] \in Int
ASSUME ProfilesAssumption == Profiles \subseteq {Bad} \union RawFile

VARIABLES
    file,        \* the profile on disk
    stage,       \* "start", "parsed", "loaded"
    config,      \* CompositeInputHfpConfig, Nothing if the parser failed
    service      \* what the manager serves, Nothing if it serves no port

hfpVars == <<file, stage, config, service>>

Nothing == [ports |-> <<>>]

PropertyNames ==
    {"SIGNAL_STRENGTH", "SIGNAL_QUALITY", "METRIC_SIGNAL_LOCK_TIME",
     "METRIC_SIGNAL_DROPS", "METRIC_UPTIME", "METRIC_SIGNAL_LOCK_COUNT",
     "METRIC_LAST_SIGNAL_LOCK_TIME", "METRIC_LAST_RESET_TIMESTAMP"}

TypeNames == {"BOOLEAN", "INTEGER", "LONG", "FLOAT", "DOUBLE", "STRING"}

Maps(t, names) == t.name \in names

(* int8_t of an int32_t                                                    *)
Int8(n) == ((n + 128) % 256) - 128

----------------------------------------------------------------------------
(* vcomponent_CompositeInput_parseConfig                                   *)

(* Variant: a number too large for the field is taken.                     *)
ReadInt32Wide(text) == IF text \in DOMAIN Strtol THEN Strtol[text] ELSE Bad

(* readInt32Field, parseInt32: all of the text, and within the width.      *)
ReadInt32(text) ==
    IF text \in DOMAIN Strtol /\ Strtol[text] \in -IntHalf..IntHalf - 1
    THEN Strtol[text] ELSE Bad

(* readBoolField, parseBool                                                *)
ReadBool(text) ==
    CASE text \in {"true", "True", "TRUE", "1"}     -> TRUE
      [] text \in {"false", "False", "FALSE", "0"}  -> FALSE
      [] OTHER -> Bad

(* readStringList, readPropertyMetadata: every element reads.              *)
ListReads(l) == l # Bad /\ Bad \notin ToSet(l)

EntryReads(e) ==
    /\ \A f \in {"key", "type", "description"} : e[f] # Bad
    /\ \A f \in {"readOnly", "isMetric"} : ReadBool(e[f]) # Bad

EntriesRead(metadata) ==
    [i \in DOMAIN metadata |-> [metadata[i] EXCEPT !.readOnly = ReadBool(@),
                                                   !.isMetric = ReadBool(@)]]

ListsRead(supported, metadata) ==
    /\ ListReads(supported)
    /\ metadata # Bad
    /\ \A e \in ToSet(metadata) : EntryReads(e)

(* validateProperties.  Duplicates are sought among the tokens as written. *)
NoDuplicate(tokens) ==
    \A i \in DOMAIN tokens : tokens[i] \notin {tokens[j] : j \in 1..(i - 1)}

(* Variant: the order is not compared.                                     *)
ValidPropertiesUnordered(supported, metadata) ==
    /\ \A t \in ToSet(supported) : Maps(t, PropertyNames)
    /\ NoDuplicate(supported)
    /\ Len(metadata) = Len(supported)
    /\ \A i \in DOMAIN metadata : /\ Maps(metadata[i].key, PropertyNames)
                                  /\ Maps(metadata[i].type, TypeNames)

ValidProperties(supported, metadata) ==
    /\ \A t \in ToSet(supported) : Maps(t, PropertyNames)
    /\ NoDuplicate(supported)
    /\ Len(metadata) = Len(supported)
    /\ \A i \in DOMAIN metadata :
          /\ Maps(metadata[i].key, PropertyNames)
          /\ Maps(metadata[i].type, TypeNames)
          /\ metadata[i].key = supported[i]

Declares(r) == ListsRead(r.supported, r.metadata)
               /\ ValidProperties(r.supported, r.metadata)

(* The texts are read first; what they say is asked after.                 *)
PortReads(r) ==
    /\ ReadInt32(r.id) # Bad
    /\ Bad \notin {r.name, r.description}
    /\ Declares(r)
    /\ ReadInt32(r.id) >= 0

ReadPort(r) == [r EXCEPT !.id = ReadInt32(@), !.metadata = EntriesRead(@)]

PlatformReads(r) ==
    /\ Bad \notin {r.halVersion, ReadInt32(r.maxPorts), ReadInt32(r.maxStarted),
                    ReadBool(r.macrovision)}
    /\ Declares(r)
    /\ ReadInt32(r.maxPorts) >= 1
    /\ ReadInt32(r.maxStarted) >= 1

ReadPlatform(r) ==
    [r EXCEPT !.maxPorts = ReadInt32(@), !.maxStarted = ReadInt32(@),
              !.macrovision = ReadBool(@), !.metadata = EntriesRead(@)]

(* The ports are read in order until one fails or repeats an id.           *)
Failed == [ok |-> FALSE, ports |-> <<>>]

TakePort(read, r) ==
    IF /\ read.ok /\ PortReads(r)
       /\ ReadInt32(r.id) \notin {read.ports[i].id : i \in DOMAIN read.ports}
    THEN [ok |-> TRUE, ports |-> Append(read.ports, ReadPort(r))]
    ELSE Failed

ReadingPorts(rs) ==
    LET read[n \in 0..Len(rs)] == IF n = 0 THEN [ok |-> TRUE, ports |-> <<>>]
                                  ELSE TakePort(read[n - 1], rs[n])
    IN  read

ReadPorts(rs) == ReadingPorts(rs)[Len(rs)]

ParseConfig(f) ==
    IF f = Bad \/ f.interfaceVersion = Bad \/ f.ports = Bad \/ f.ports = <<>>
    THEN Nothing
    ELSE LET read == ReadPorts(f.ports) IN
         IF read.ok /\ PlatformReads(f.platform)
         THEN [ports |-> read.ports, platform |-> ReadPlatform(f.platform)]
         ELSE Nothing

----------------------------------------------------------------------------
(* CompositeInputManager::loadCapabilitiesFromConfig                       *)

(* The elements at the given places, put behind one another.               *)
Kept(s, places) ==
    LET kept[n \in 0..Len(s)] == IF n = 0 THEN <<>>
                                 ELSE IF n \in places THEN Append(kept[n - 1], s[n])
                                 ELSE kept[n - 1]
    IN  kept[Len(s)]

ToPortProperties(tokens) ==
    LET known == Kept(tokens, {i \in DOMAIN tokens : Maps(tokens[i], PropertyNames)})
    IN  [i \in DOMAIN known |-> known[i].name]

ToPropertyMetadata(entries) ==
    LET known == Kept(entries, {i \in DOMAIN entries :
                                  /\ Maps(entries[i].key, PropertyNames)
                                  /\ Maps(entries[i].type, TypeNames)})
    IN  [i \in DOMAIN known |-> [property |-> known[i].key.name,
                                 type |-> known[i].type.name,
                                 readOnly |-> known[i].readOnly]]

Capabilities(r) ==
    [supported |-> ToPortProperties(r.supported),
     metadata  |-> IF r.metadata = <<>> THEN Bad
                   ELSE ToPropertyMetadata(r.metadata)]

(* setPortInfo, and what getPortInfo answers.                              *)
PortInfo(r) == [name |-> r.name, description |-> r.description]

(* Variant: port 0 is taken for a missing id.                              *)
UsablePositive(r, ids) == r.id > 0 /\ r.id \notin ids

Usable(r, ids) == r.id >= 0 /\ r.id \notin ids

Built(r) == [id |-> r.id, info |-> PortInfo(r), capabilities |-> Capabilities(r)]

(* A port that is no good is skipped.                                      *)
AddPort(built, r) ==
    IF Usable(r, {built[i].id : i \in DOMAIN built}) THEN Append(built, Built(r))
    ELSE built

BuildPorts(rs) ==
    LET built[n \in 0..Len(rs)] == IF n = 0 THEN <<>>
                                   ELSE AddPort(built[n - 1], rs[n])
    IN  built[Len(rs)]

(* Variant: the byte is not thought of.                                    *)
ClampRaised(n, count) == IF n < count THEN count ELSE n

Clamp(n, count) ==
    LET raised == IF n < count THEN count ELSE n
    IN  IF raised > 127 THEN 127 ELSE raised

Load(c) ==
    LET ports == IF c = Nothing THEN <<>> ELSE BuildPorts(c.ports) IN
    IF ports = <<>> THEN Nothing
    ELSE [ports |-> ports,
          maxPorts |-> Int8(Clamp(c.platform.maxPorts, Len(ports))),
          maxStarted |-> IF c.platform.maxStarted >= 1
                         THEN c.platform.maxStarted ELSE 1,
          capabilities |-> Capabilities(c.platform)]

----------------------------------------------------------------------------
HfpInit ==
    /\ file \in Profiles
    /\ stage = "start"
    /\ config = Nothing
    /\ service = Nothing

Parse ==
    /\ stage = "start"
    /\ stage' = "parsed"
    /\ config' = ParseConfig(file)
    /\ UNCHANGED <<file, service>>

LoadCapabilities ==
    /\ stage = "parsed"
    /\ stage' = "loaded"
    /\ service' = Load(config)
    /\ UNCHANGED <<file, config>>

HfpNext == Parse \/ LoadCapabilities

HfpSpec == HfpInit /\ [][HfpNext]_hfpVars

----------------------------------------------------------------------------
(* What clients ask of the manager, whatever it has loaded.                *)

GetPortIds == [i \in DOMAIN service.ports |-> service.ports[i].id]

(* The first port with this id; an id that is negative or of no port is an   *)
(* EX_ILLEGAL_ARGUMENT, here the empty sequence.                           *)
GetPort(id) ==
    LET found == {i \in DOMAIN service.ports : service.ports[i].id = id}
    IN  IF id < 0 \/ found = {} THEN <<>> ELSE <<service.ports[Min(found)]>>

----------------------------------------------------------------------------
(* What is served fits the AIDL types and the platform limits: a byte of   *)
(* ports that never turns negative, never fewer than are served short of   *)
(* the byte's own limit, and at least one port that may be started.        *)
HfpTypeOK ==
    /\ stage \in {"start", "parsed", "loaded"}
    /\ service # Nothing =>
          /\ service.maxPorts \in 1..127
          /\ service.maxPorts >= Len(service.ports) \/ service.maxPorts = 127
          /\ service.maxStarted >= 1

(* How a file is right, as a rule over the whole of it.                    *)
Yes == {"true", "True", "TRUE", "1"}
No  == {"false", "False", "FALSE", "0"}

Readable(r) ==
    /\ r.supported # Bad /\ r.metadata # Bad
    /\ \A i \in DOMAIN r.supported : r.supported[i] # Bad
    /\ \A i \in DOMAIN r.metadata :
          /\ Bad \notin {r.metadata[i].key, r.metadata[i].type,
                          r.metadata[i].description}
          /\ {r.metadata[i].readOnly, r.metadata[i].isMetric} \subseteq Yes \union No

(* A number of the field, at least as large as n.                          *)
AtLeast(text, n) ==
    text \in DOMAIN Strtol /\ n <= Strtol[text] /\ Strtol[text] < IntHalf

Aligned(r) ==
    /\ DOMAIN r.metadata = DOMAIN r.supported
    /\ \A i \in DOMAIN r.supported :
          /\ r.supported[i].name \in PropertyNames
          /\ r.metadata[i].key = r.supported[i]
          /\ r.metadata[i].type.name \in TypeNames
          /\ \A j \in DOMAIN r.supported : r.supported[i] = r.supported[j] => i = j

RightPort(r) ==
    /\ Bad \notin {r.name, r.description} /\ AtLeast(r.id, 0)
    /\ Readable(r) /\ Aligned(r)

Right(f) ==
    /\ f # Bad /\ f.interfaceVersion # Bad /\ f.ports \notin {Bad, <<>>}
    /\ \A i \in DOMAIN f.ports : RightPort(f.ports[i])
    /\ \A i, j \in DOMAIN f.ports :
          Strtol[f.ports[i].id] = Strtol[f.ports[j].id] => i = j
    /\ f.platform.halVersion # Bad
    /\ AtLeast(f.platform.maxPorts, 1) /\ AtLeast(f.platform.maxStarted, 1)
    /\ f.platform.macrovision \in Yes \union No
    /\ Readable(f.platform) /\ Aligned(f.platform)

(* What a list of entries says.                                            *)
Said(metadata) ==
    [i \in DOMAIN metadata |-> [metadata[i] EXCEPT !.readOnly = @ \in Yes,
                                                   !.isMetric = @ \in Yes]]

Meant(f) ==
    [ports |-> [i \in DOMAIN f.ports |->
                  [f.ports[i] EXCEPT !.id = Strtol[@], !.metadata = Said(@)]],
     platform |-> [f.platform EXCEPT !.maxPorts = Strtol[@],
                                     !.maxStarted = Strtol[@],
                                     !.macrovision = @ \in Yes,
                                     !.metadata = Said(@)]]

(* The parser accepts a file exactly if the whole of it is right, however  *)
(* far into it the fault lies, and returns all of it or nothing.  This is  *)
(* the rule of ParseConfig.h over the whole file: ports with distinct ids, *)
(* however they are spelled, and for each list of properties one metadata  *)
(* entry each, in order.                                                   *)
ParserExact ==
    stage # "start" => config = IF Right(file) THEN Meant(file) ELSE Nothing

SideBySide(c, r) ==
    /\ Len(c.supported) = Len(r.supported)
    /\ c.supported # <<>> =>
          /\ DOMAIN c.metadata = DOMAIN c.supported
          /\ \A i \in DOMAIN c.supported :
                c.metadata[i].property = c.supported[i]

(* Of a file the parser accepts a client reaches every port, by the id the *)
(* file gives it and that getPortIds() lists, with its own name and every  *)
(* property and its metadata side by side: none of the skipping branches   *)
(* of the manager drops anything.  No other id is answered.                *)
NothingSkipped ==
    stage = "loaded" /\ config # Nothing =>
        /\ Len(GetPortIds) = Len(config.ports)
        /\ \A i \in DOMAIN config.ports :
              LET port == GetPort(config.ports[i].id) IN
              /\ GetPortIds[i] = config.ports[i].id
              /\ Len(port) = 1
              /\ port[1].info.name = config.ports[i].name
              /\ port[1].info.description = config.ports[i].description
              /\ SideBySide(port[1].capabilities, config.ports[i])
        /\ SideBySide(service.capabilities, config.platform)
        /\ \A id \in -1..Len(GetPortIds) :
              GetPort(id) # <<>> => id \in ToSet(GetPortIds)
=============================================================================
