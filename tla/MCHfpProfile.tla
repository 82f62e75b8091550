---------------------------- MODULE MCHfpProfile ----------------------------
(* TLC instance of HfpProfile: every pair of ports out of one for each way *)
(* a port can be right or wrong, against every platform out of one for     *)
(* each way a platform can be.                                             *)
EXTENDS HfpProfile

Word(n) == [name |-> n, padded |-> FALSE]
Padded(n) == [name |-> n, padded |-> TRUE]

Entry(key, type) == [key |-> key, type |-> type, readOnly |-> "True",
                     isMetric |-> "0", description |-> "text"]

A == Word("SIGNAL_QUALITY")
B == Word("METRIC_UPTIME")
New == Word("HUE")
Long == Word("LONG")

Port(id, supported, metadata) ==
    [id |-> id, name |-> "name", description |-> "text",
     supported |-> supported, metadata |-> metadata]

Each(ts) == [i \in DOMAIN ts |-> Entry(ts[i], Long)]

(* Among the numbers one that is also written in base 16, one that is no   *)
(* number, and the ends of a field of 16 bits.                             *)
MCStrtol == [t \in {"-1", "0", "1", "0x1", "2", "127", "128", "300", "32767", "32768"} |->
                CASE t = "-1" -> -1 [] t = "0" -> 0 [] t \in {"1", "0x1"} -> 1
                  [] t = "2" -> 2 [] t = "127" -> 127 [] t = "128" -> 128
                  [] t = "300" -> 300 [] t = "32767" -> 32767 [] t = "32768" -> 32768]

Of(id, ts) == Port(id, ts, Each(ts))

RawPorts ==
    { Of("0", <<A, B>>), Of("1", <<A>>), Of("0x1", <<>>), Of("one", <<A>>),
      Of("32768", <<A>>), Of("-1", <<A>>), Of(Bad, <<A>>),
      [Of("0", <<A>>) EXCEPT !.name = Bad], Of("0", <<A, A>>), Of("0", <<A, New>>),
      Of("2", <<A, Padded("SIGNAL_QUALITY")>>), Of("0", <<A, Bad>>),
      Port("0", Bad, <<>>), Port("0", <<A>>, Bad), Port("0", <<A, B>>, <<Entry(A, Long)>>),
      Port("0", <<A, B>>, <<Entry(B, Long), Entry(A, Long)>>),
      Port("0", <<A>>, <<Entry(A, Word("BYTE"))>>),
      Port("0", <<A>>, <<[Entry(A, Long) EXCEPT !.readOnly = Bad]>>),
      Port("0", <<A>>, <<[Entry(A, Long) EXCEPT !.isMetric = "yes"]>>),
      Port("0", <<A>>, <<[Entry(A, Long) EXCEPT !.description = Bad]>>) }

Platform(maxPorts, maxStarted) ==
    [halVersion |-> "1.0.0", maxPorts |-> maxPorts, maxStarted |-> maxStarted,
     supported |-> <<A>>, metadata |-> Each(<<A>>), macrovision |-> "FALSE"]

Platforms ==
    { Platform(m, "1") : m \in {Bad, "0", "1", "2", "127", "128", "32767", "32768"} } \union
    { Platform("2", s) : s \in {Bad, "0", "2", "two"} } \union
    { [Platform("2", "1") EXCEPT !.supported = <<B>>],
      [Platform("2", "1") EXCEPT !.macrovision = Bad],
      [Platform("2", "1") EXCEPT !.macrovision = "on"] }

Lists == {Bad, <<>>} \union
         {<<r>> : r \in RawPorts} \union
         {<<r, s>> : r \in RawPorts, s \in RawPorts}

File(v, l, f) == [interfaceVersion |-> v, ports |-> l, platform |-> f]

MCProfiles ==
    {Bad, File(Bad, <<Of("0", <<A>>)>>, Platform("2", "1"))} \union
    {File("current", l, f) : l \in Lists, f \in Platforms}
=============================================================================
