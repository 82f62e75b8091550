---------------------------- MODULE PhysicalInput ----------------------------
(***************************************************************************)
(* What the host may make of the physical inputs it emulates, whatever the *)
(* spelling of its messages and whatever the sessions do: a cable, a       *)
(* signal, and a video mode that is detected on a stable signal only.      *)
(***************************************************************************)
EXTENDS SignalLevels

CONSTANTS
    Ports,
    Modes,      \* the video modes there are
    NoMode      \* none is detected

VARIABLES connected, signalStatus, mode

inputVars == <<connected, signalStatus, mode>>

Init ==
    /\ connected = [p \in Ports |-> FALSE]
    /\ signalStatus = [p \in Ports |-> "NO_SIGNAL"]
    /\ mode = [p \in Ports |-> NoMode]

(* Pulling the plug ends the mode and leaves the signal to be reported.    *)
Plug(p) ==
    \E b \in BOOLEAN :
        /\ connected' = [connected EXCEPT ![p] = b]
        /\ mode' = [mode EXCEPT ![p] = IF b THEN @ ELSE NoMode]
        /\ UNCHANGED signalStatus

Signal(p) ==
    \E s \in SignalStatuses :
        /\ signalStatus' = [signalStatus EXCEPT ![p] = s]
        /\ mode' = [mode EXCEPT ![p] = IF s = "STABLE" THEN @ ELSE NoMode]
        /\ UNCHANGED connected

Detect(p) ==
    /\ mode'[p] \in Modes
    /\ mode' = [mode EXCEPT ![p] = mode'[p]]
    /\ signalStatus' = [signalStatus EXCEPT ![p] = "STABLE"]
    /\ UNCHANGED connected

Clear(p) ==
    /\ mode' = [mode EXCEPT ![p] = NoMode]
    /\ UNCHANGED <<connected, signalStatus>>

Next == \E p \in Ports : Plug(p) \/ Signal(p) \/ Detect(p) \/ Clear(p)

Spec == Init /\ [][Next]_inputVars

(* A mode is never left on a signal that is not stable.                    *)
ModeOnStable == \A p \in Ports : mode[p] # NoMode => signalStatus[p] = "STABLE"
=============================================================================
