--------------------------- MODULE SessionService ---------------------------
(***************************************************************************)
(* include/atzc/session.h: what a Session promises to its callers, whose   *)
(* calls run at the same time and share its engine, its cache and the work *)
(* of its prefetch thread.  A call of top1 ends with a top-1 of its own    *)
(* reading, a call of candidates with a list as one build for its own      *)
(* reading left it, cut to its own limit and to no other; or the call      *)
(* fails, which it does only if the engine may.  What a call returned is   *)
(* the caller's: nothing another thread does changes it.                   *)
(***************************************************************************)
EXTENDS Integers, Sequences

CONSTANTS
    Callers, Readings,
    Limits,       \* the values of the max argument
    Tops,         \* Tops[r]: the top-1s of r
    Wholes,       \* Wholes[r]: the lists that builds for r leave, uncut
    NoAnswer,     \* the answer of a failed call
    Unset,        \* no call in progress, no answer yet
    MayFail       \* may a call fail?

VARIABLES
    asked,        \* the call each caller has in progress
    reply,        \* what the last call of each returned
    open          \* the session has not been destroyed

vars == <<asked, reply, open>>

Calls == [op : {"top1"}, r : Readings, max : {0}]
             \cup [op : {"candidates"}, r : Readings, max : Limits]

\* The first n entries of s, or s if it has no more, or if no limit is asked for.
First(s, n) == SubSeq(s, 1, IF n > 0 /\ n < Len(s) THEN n ELSE Len(s))

Answers(q) ==
    (IF MayFail THEN {NoAnswer} ELSE {})
        \cup IF q.op = "top1"
             THEN {[ok |-> TRUE, r |-> q.r, commit |-> top, candidates |-> <<>>, ex |-> <<>>] :
                       top \in Tops[q.r]}
             ELSE {[ok |-> TRUE, r |-> q.r, commit |-> l.commit,
                    candidates |-> First(l.candidates, q.max), ex |-> First(l.ex, q.max)] :
                       l \in Wholes[q.r]}

Init ==
    /\ asked = [c \in Callers |-> Unset]
    /\ reply = [c \in Callers |-> Unset]
    /\ open = TRUE

Call(c, q) ==
    /\ open /\ asked[c] = Unset
    /\ asked' = [asked EXCEPT ![c] = q]
    /\ reply' = [reply EXCEPT ![c] = Unset]
    /\ UNCHANGED open

Return(c) ==
    /\ asked[c] \in Calls
    /\ asked' = [asked EXCEPT ![c] = Unset]
    /\ \E a \in Answers(asked[c]) : reply' = [reply EXCEPT ![c] = a]
    /\ UNCHANGED open

\* ~Session, after the last call.
Destroy ==
    /\ open /\ \A c \in Callers : asked[c] = Unset
    /\ open' = FALSE
    /\ UNCHANGED <<asked, reply>>

Next == (\E c \in Callers : (\E q \in Calls : Call(c, q)) \/ Return(c)) \/ Destroy

Spec == Init /\ [][Next]_vars
=============================================================================
