--------------------------- MODULE MCUtControlPlane ---------------------------
(* TLC instance of UtControlPlane: every command line of up to four words, *)
(* numbers at both ends of the range of a port among them.                 *)
EXTENDS UtControlPlane

Numeral(s, n) == [text |-> s, padded |-> FALSE, number |-> n]

Ahead(w) == [w EXCEPT !.padded = TRUE]

Words ==
    {Plain("--hfp"), Plain("--port"), Plain("--help"), Ahead(Plain("--hfp")),
     Plain(""), Ahead(Plain("")), Plain("lab.yaml"), Ahead(Plain("lab.yaml")),
     Numeral("0", 0), Ahead(Numeral("80", 80)),
     Numeral("65535", 65535), Numeral("65536", 65536)}

MCCommandLines == UNION {[1..n -> Words] : n \in 0..4}
=============================================================================
