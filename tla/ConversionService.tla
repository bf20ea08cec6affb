------------------------- MODULE ConversionService --------------------------
(***************************************************************************)
(* include/atzc/engine.h: what an Engine promises to the session above it. *)
(* A call runs its command at most once and ends with the whole answer to  *)
(* that command, or with a failure and perhaps the beginning of the answer *)
(* in the result; it is never given the answer to another call.            *)
(***************************************************************************)
EXTENDS Integers

CONSTANTS
    Commands, NoCommand,
    Whole,        \* Whole[c]: the results of complete answers to c
    Partial       \* Partial[c]: what a failed call of c may leave behind

VARIABLES
    phase,        \* "off", "exited", "idle" or "busy"
    cmd,          \* the command of the call
    ran,          \* how often the backend has begun to run it
    result        \* of the last call

vars == <<phase, cmd, ran, result>>

Pending == [outcome |-> "pending"]

Init ==
    /\ phase = "off"
    /\ cmd = NoCommand
    /\ ran = 0
    /\ result = Pending

\* start: the engine comes up or the daemon gives up.
Start ==
    /\ phase = "off"
    /\ phase' \in {"idle", "exited"}
    /\ UNCHANGED <<cmd, ran, result>>

Call(c) ==
    /\ phase = "idle"
    /\ phase' = "busy"
    /\ cmd' = c
    /\ ran' = 0
    /\ result' = Pending

Run ==
    /\ phase = "busy" /\ ran = 0
    /\ ran' = 1
    /\ UNCHANGED <<phase, cmd, result>>

Succeed ==
    /\ phase = "busy" /\ ran = 1
    /\ phase' = "idle"
    /\ \E w \in Whole[cmd] : result' = [outcome |-> "ok", out |-> w]
    /\ UNCHANGED <<cmd, ran>>

Fail ==
    /\ phase = "busy"
    /\ phase' = "idle"
    /\ \E p \in Partial[cmd] : result' = [outcome |-> "fail", out |-> p]
    /\ UNCHANGED <<cmd, ran>>

Next == Start \/ (\E c \in Commands : Call(c)) \/ Run \/ Succeed \/ Fail

Spec == Init /\ [][Next]_vars
=============================================================================
