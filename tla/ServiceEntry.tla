----------------------------- MODULE ServiceEntry -----------------------------
(***************************************************************************)
(* The command line of the service executable.  A word is its text without *)
(* the white space in front of it, whether there is any, and the number    *)
(* strtol() makes of it if it reads the word to its end, 0 if not.         *)
(***************************************************************************)
EXTENDS Integers, Sequences, SequencesExt

CONSTANTS
    DefaultPath,    \* kDefaultHfpPath
    DefaultPort     \* kDefaultUtControlPlanePort

Word == [text : STRING, padded : BOOLEAN, number : Int]

Plain(s) == [text |-> s, padded |-> FALSE, number |-> 0]

Empty == Plain("")

MaxPort == 65535

(* Variant: one too many.                                                  *)
ParsePortWide(w) == w.number \in 1..(MaxPort + 1)

ParsePort(w) == w.number \in 1..MaxPort

(* One word: an option, or the value of the option before it, which may    *)
(* look like an option.  --help is refused like a word nobody knows.       *)
ReadWord(acc, w) ==
    CASE acc.awaits = "option" /\ w = Plain("--hfp")  -> [acc EXCEPT !.awaits = "path"]
      [] acc.awaits = "option" /\ w = Plain("--port") -> [acc EXCEPT !.awaits = "port"]
      [] acc.awaits = "path" /\ w # Empty ->
            [acc EXCEPT !.awaits = "option", !.path = w.text]
      [] acc.awaits = "port" /\ ParsePort(w) ->
            [acc EXCEPT !.awaits = "option", !.port = w.number]
      [] OTHER -> [acc EXCEPT !.awaits = "nothing"]

(* What is known after each number of words.                               *)
Reading(argv) ==
    LET read[n \in 0..Len(argv)] ==
          IF n = 0
          THEN [awaits |-> "option", path |-> DefaultPath, port |-> DefaultPort]
          ELSE ReadWord(read[n - 1], argv[n])
    IN  read

ParseArgs(argv) == Reading(argv)[Len(argv)]

(* main() trims the path before it asks whether there is one.              *)
GoodUsage(read) == read.awaits = "option" /\ read.path # ""

Settings(read) == [path |-> read.path, port |-> read.port]

----------------------------------------------------------------------------
(* The same as a grammar: pairs of an option and a value, of which the     *)
(* last of each option counts.                                             *)
Pairs(argv) == 1..(Len(argv) \div 2)

ValuesOf(argv, option) ==
    {i \in Pairs(argv) : argv[2 * i - 1] = Plain(option)}

LastValue(argv, option) ==
    argv[2 * (CHOOSE i \in ValuesOf(argv, option) :
                 \A j \in ValuesOf(argv, option) : j <= i)]

AskedPath(argv) ==
    IF ValuesOf(argv, "--hfp") = {} THEN DefaultPath
    ELSE LastValue(argv, "--hfp").text

AskedPort(argv) ==
    IF ValuesOf(argv, "--port") = {} THEN DefaultPort
    ELSE LastValue(argv, "--port").number

NamesPort(w) == 0 < w.number /\ w.number < 65536

RightUsage(argv) ==
    /\ Len(argv) % 2 = 0
    /\ ValuesOf(argv, "--hfp") \union ValuesOf(argv, "--port") = Pairs(argv)
    /\ \A i \in ValuesOf(argv, "--hfp") : argv[2 * i] # Plain("")
    /\ \A i \in ValuesOf(argv, "--port") : NamesPort(argv[2 * i])
    /\ AskedPath(argv) # ""
=============================================================================
