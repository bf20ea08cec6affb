---------------------------- MODULE Composition -----------------------------
(***************************************************************************)
(* docs/protocol.md, "Session": the one live composition that the daemon   *)
(* offers, as a client sees it.  A request either applies its command to   *)
(* the text the client was last shown and shows the outcome, or fails; a   *)
(* failure ends the composition, and the client is told by that failure.   *)
(***************************************************************************)
CONSTANTS
    Keys,         \* what a key request may append
    Texts, NoText,
    Effect        \* Effect[c][t]: the text after command c on t

VARIABLES
    phase,        \* "idle", or the request being served
    open,         \* is a composition open: "yes" or "no"
    text,         \* what the client was last shown of it
    reply         \* to the last request

vars == <<phase, open, text, reply>>

Requests == {"begin", "backspace", "convert", "preedit", "commit", "cancel"}
            \cup Keys

\* The command on the worker that serves a request.
CommandOf(q) ==
    CASE q = "begin"     -> "sreset"
      [] q = "backspace" -> "sback"
      [] q = "convert"   -> "sconv"
      [] q = "preedit"   -> "spre"
      [] q = "commit"    -> "scommit"
      [] q = "cancel"    -> "scancel"
      [] OTHER           -> q       \* stype

None    == [outcome |-> "none"]
Ok(t)   == [outcome |-> "ok", text |-> t]
Refused == [outcome |-> "err"]

Init ==
    /\ phase = "idle"
    /\ open = "no"
    /\ text = NoText
    /\ reply = None

Ask(q) ==
    /\ phase = "idle"
    /\ phase' = q
    /\ reply' = None
    /\ UNCHANGED <<open, text>>

Answer(o, t, r) ==
    /\ phase # "idle"
    /\ phase' = "idle"
    /\ open' = o
    /\ text' = t
    /\ reply' = r

\* Opens a composition, or starts it over.
Begin == phase = "begin" /\ Answer("yes", NoText, Ok(NoText))

\* The first key opens a composition.
Key ==
    /\ phase \in Keys
    /\ Answer("yes", Effect[phase][text], Ok(Effect[phase][text]))

\* Editing and reading: on nothing, the answer is nothing.
Edit ==
    /\ phase \in {"backspace", "preedit"}
    /\ \/ open = "yes" /\ Answer("yes", Effect[CommandOf(phase)][text],
                                 Ok(Effect[CommandOf(phase)][text]))
       \/ open = "no"  /\ Answer("no", NoText, Ok(NoText))

\* Henkan needs a composition.
Convert ==
    /\ phase = "convert" /\ open = "yes"
    /\ Answer("yes", Effect["sconv"][text], Ok(Effect["sconv"][text]))

\* What is committed is what was shown.
Commit == phase = "commit" /\ Answer("no", NoText, Ok(text))

Cancel == phase = "cancel" /\ Answer("no", NoText, Ok(NoText))

Fail == Answer("no", NoText, Refused)

\* The engine is stopped between two requests.
Stop ==
    /\ phase = "idle"
    /\ open' = "no"
    /\ text' = NoText
    /\ UNCHANGED <<phase, reply>>

Next ==
    \/ \E q \in Requests : Ask(q)
    \/ Begin \/ Key \/ Edit \/ Convert \/ Commit \/ Cancel \/ Fail
    \/ Stop

Spec == Init /\ [][Next]_vars
=============================================================================
