---------------------------- MODULE MCUtMessage ----------------------------
(* TLC instances of UtMessage: documents right and wrong, with words of    *)
(* eight bits in the place of thirty-two, so that 128 to 255 are negative. *)
EXTENDS UtMessage

Drops == "METRIC_SIGNAL_DROPS"

MCMetrics == {Drops}

MCPadded == [t \in {"STABLE", " STABLE ", "STABLE NOW", Drops, " METRIC_SIGNAL_DROPS"} |->
                CASE t = " STABLE "             -> "STABLE"
                  [] t = " METRIC_SIGNAL_DROPS" -> Drops
                  [] OTHER                      -> t]

Blank == [command |-> "signal_status"]

Connections == {[command |-> "connection_status", connected |-> b] : b \in BOOLEAN}

Signals == {[command |-> "signal_status", signalStatus |-> s] :
              s \in {"STABLE", "UNSTABLE", "NOT_SUPPORTED", "STABLE NOW"}}

(* A mode, those too large for a signed word, of no size, without a rate,  *)
(* with one that is none, and one under other names.                       *)
Sizes == {[command |-> "video_mode", pixelWidth |-> w, pixelHeight |-> h,
           frameRateInHz |-> r] :
             <<w, h, r>> \in {<<7, 5, 50>>, <<7, 128, 50>>, <<0, 5, 50>>,
                              <<7, 5, 0>>, <<7, 5, -1>>, <<255, 5, 50>>,
                              <<7, 5, NaN>>}}

VideoModes ==
    Sizes \union
    {[command |-> "video_mode", pixelWidth |-> 7, pixelHeight |-> 5, fps |-> 50,
      isInterlaced |-> TRUE],
     [command |-> "video_mode", pixelWidth |-> 7, pixelHeight |-> 5]}

Seeds ==
    {[command |-> "set_property", key |-> Drops, intValue |-> n] : n \in {200}}
    \union
    {[command |-> "set_property", key |-> Drops, intValue |-> 3, longValue |-> 300],
     [command |-> "set_property", key |-> "SIGNAL_STRENGTH", longValue |-> 1],
     [command |-> "set_property", key |-> "NO_PROPERTY", longValue |-> 1],
     [command |-> "set_property", key |-> Drops],
     [command |-> "set_property", intValue |-> 3]}

(* Commands that the table does not hold, and one without its parameters.  *)
Strays == {[command |-> c, connected |-> TRUE, key |-> Drops, intValue |-> 1] :
             c \in {"property_changed", " set_property", ""}}
          \union {[connected |-> TRUE], Blank}

Clears == {[command |-> "clear_video_mode"]}

Common == Connections \union Signals \union VideoModes \union Seeds
          \union Strays \union Clears

(* The second port, and numbers that are no port: one of them negative.    *)
MCDocuments ==
    Common \union {With(d, "port", n) : n \in {1, 2, 255}, d \in Connections}
=============================================================================
