----------------------------- MODULE FcitxAddon -----------------------------
(***************************************************************************)
(* fcitx5/engine.cpp: the input-method addon.  Key events of the focused   *)
(* input context become session requests on one shared connection; the     *)
(* addon mirrors the daemon's composition per context.                     *)
(*                                                                         *)
(* Everything runs on fcitx5's event loop and the requests block, so a     *)
(* handler is one step.  Each request in it has an outcome of its own: an  *)
(* answer, a refusal (the engine lost its worker, and the composition with *)
(* it) or a lost connection (the daemon died; another takes its place).    *)
(*                                                                         *)
(* A text is a sequence of syllables, a syllable the keys that spell it,   *)
(* each with the context it was typed in and a serial number.  A converted *)
(* text and the candidates of a reading stand for the keys they came from. *)
(***************************************************************************)
EXTENDS Integers, Sequences

CONSTANTS
    Contexts,      \* input contexts
    Consonants, Vowels,
    MaxTyped,      \* bound on the letters typed
    Faults         \* subset of {"err", "drop"}: what may go wrong with a request

ASSUME FaultAssumption == Faults \subseteq {"err", "drop"} /\ MaxTyped \in Nat

VARIABLES
    focus,         \* the context that receives key events
    st,            \* AtzcState and the input panel of each context
    world,         \* the connection, the daemon's composition, and (history) whether
                   \* every request so far got through
    app,           \* the keys committed, in order
    typed,         \* letters typed so far
    event          \* the last event (history)

addonVars == <<focus, st, world, app, typed, event>>

Fresh == [romaji |-> <<>>, preedit |-> <<>>, composing |-> FALSE,
          list |-> <<>>,       \* the reading whose candidates are open, or none
          shown |-> <<>>]      \* the keys of the client preedit

NoComposition == [open |-> FALSE, text |-> <<>>]

\* The keys of a text.
Spell(t) ==
    LET keys[n \in 0..Len(t)] == IF n = 0 THEN <<>> ELSE keys[n-1] \o t[n]
    IN  keys[Len(t)]

\* A text of unjoined letters.
Letters(keys) == [n \in DOMAIN keys |-> <<keys[n]>>]

AddonInit ==
    /\ focus \in Contexts
    /\ st = [i \in Contexts |-> Fresh]
    /\ world = [link |-> "none", comp |-> NoComposition, clean |-> TRUE]
    /\ app = <<>>
    /\ typed = 0
    /\ event = "none"
-----------------------------------------------------------------------------
(***************************************************************************)
(* The daemon, as docs/protocol.md describes it: what an answered request  *)
(* makes of the composition, and the text of the reply.                    *)
(***************************************************************************)
TypeKey(t, key) ==
    IF /\ t # <<>> /\ key.letter \in Vowels
       /\ Len(t[Len(t)]) = 1 /\ t[Len(t)][1].letter \in Consonants
      THEN [t EXCEPT ![Len(t)] = Append(@, key)]
      ELSE Append(t, <<key>>)

Answered(comp, op, key) ==
    LET becomes(open, t, reply) == [comp |-> [open |-> open, text |-> t], text |-> reply]
    IN  CASE op = "begin"  -> becomes(TRUE, <<>>, <<>>)
          [] op = "key"    -> LET t == TypeKey(comp.text, key) IN becomes(TRUE, t, t)
          [] op = "back" /\ comp.text # <<>> ->
                 LET t == SubSeq(comp.text, 1, Len(comp.text) - 1) IN becomes(TRUE, t, t)
          [] op = "commit" -> becomes(FALSE, <<>>, comp.text)
          [] op = "cancel" -> becomes(FALSE, <<>>, <<>>)
          [] OTHER         -> becomes(comp.open, comp.text, comp.text)

\* The connection is lost: the daemon that comes back has no composition.
Lost(link) == [link |-> link, comp |-> NoComposition, clean |-> FALSE]

connect(w) == {[w EXCEPT !.link = "up"]} \cup (IF "drop" \in Faults THEN {Lost("none")} ELSE {})

\* if (!connected()) connect()
Dial(w) == IF w.link = "none" THEN connect(w) ELSE {w}

Failed(w) == [w |-> w, ok |-> FALSE, text |-> <<>>]

\* Every outcome of a request.  On a connection whose daemon has gone it fails,
\* and the connection stays as it is; without one it connects first.
Request(w0, op, key) ==
    UNION { IF w.link # "up" THEN {Failed(w)}
            ELSE (IF op = "convert" /\ ~w.comp.open THEN {Failed(w)}
                  ELSE LET a == Answered(w.comp, op, key)
                       IN  {[w |-> [w EXCEPT !.comp = a.comp], ok |-> TRUE, text |-> a.text]})
                 \cup (IF "err" \in Faults
                       THEN {Failed([w EXCEPT !.clean = FALSE,
                                              !.comp = IF op = "list" THEN @ ELSE NoComposition])}
                       ELSE {})
                 \cup (IF "drop" \in Faults THEN {Failed(Lost("dead"))} ELSE {})
          : w \in Dial(w0) }

NoKey == [letter |-> "", by |-> "", n |-> 0]

\* The request, and once more on a new connection if it fails.
WithReconnect(w, op) ==
    LET first == Request(w, op, NoKey)
        again == UNION {connect([r.w EXCEPT !.link = "none"]) : r \in {q \in first : ~q.ok}}
    IN  {r \in first : r.ok}
        \cup {Failed(v) : v \in {u \in again : u.link = "none"}}
        \cup UNION {Request(v, op, NoKey) : v \in {u \in again : u.link = "up"}}
-----------------------------------------------------------------------------
(***************************************************************************)
(* The handlers: the set of their outcomes [w, s, out] from the world w    *)
(* and the state s of the context, out being what they commit.             *)
(***************************************************************************)
Outcome(w, s, out) == [w |-> w, s |-> s, out |-> out]

\* updatePreedit(preedit.empty() ? romaji : preedit)
View(s) == IF s.preedit = <<>> THEN s.romaji ELSE Spell(s.preedit)
Refreshed(s) == [s EXCEPT !.shown = View(s)]

\* The daemon's composition is cancelled if the context has one.
Cancelled(w, s) == IF s.composing THEN {r.w : r \in Request(w, "cancel", NoKey)} ELSE {w}

\* Mutant: the daemon is not told.
clearSessionLocally(w, s) == {Outcome(w, Fresh, <<>>)}

clearSession(w, s) == {Outcome(v, Fresh, <<>>) : v \in Cancelled(w, s)}

\* commit(ic, text): cancel, commitString, clearSession.
commit(w, s, keys) == {Outcome(v, Fresh, keys) : v \in Cancelled(w, s)}

\* Whether a composition is open for the context, and the state then.
ensureComposing(w, s) ==
    IF s.composing THEN {[w |-> w, ok |-> TRUE, s |-> s]}
    ELSE {[w |-> r.w, ok |-> r.ok,
           s |-> [s EXCEPT !.composing = TRUE, !.preedit = <<>>]]
            : r \in UNION {IF v.link = "none" THEN {Failed(v)} ELSE WithReconnect(v, "begin")
                           : v \in Dial(w)}}

\* The candidates of the raw romaji; an empty list changes nothing.
startConversion(w, s) ==
    UNION { {Outcome(r.w, s, <<>>)}
            \cup (IF r.ok /\ s.romaji # <<>>
                  THEN {Outcome(r.w, [s EXCEPT !.list = s.romaji, !.shown = s.romaji], <<>>)}
                  ELSE {})
          : r \in WithReconnect(w, "list") }

Space(w, s) ==
    UNION { IF r.ok
              THEN {Outcome(r.w, Refreshed([s EXCEPT !.preedit = r.text]), <<>>)}
              ELSE startConversion(r.w, s)
          : r \in Request(w, "convert", NoKey) }

\* Mutant: the reading is edited here instead of taken from the daemon.
BackSpaceLocally(w, s) ==
    LET romaji == IF s.romaji = <<>> THEN <<>> ELSE SubSeq(s.romaji, 1, Len(s.romaji) - 1)
    IN  UNION { LET t == [s EXCEPT !.romaji = romaji, !.list = <<>>,
                                   !.preedit = Letters(romaji)]
                IN  IF romaji = <<>> /\ t.preedit = <<>> THEN clearSession(r.w, t)
                    ELSE {Outcome(r.w, Refreshed(t), <<>>)}
              : r \in Request(w, "back", NoKey) }

\* One letter off the romaji, one kana off the composition.
BackSpace(w, s) ==
    LET romaji == IF s.romaji = <<>> THEN <<>> ELSE SubSeq(s.romaji, 1, Len(s.romaji) - 1)
    IN  UNION { LET t == [s EXCEPT !.romaji = romaji, !.list = <<>>,
                                   !.preedit = IF r.ok THEN r.text ELSE Letters(romaji)]
                IN  IF romaji = <<>> /\ t.preedit = <<>> THEN clearSession(r.w, t)
                    ELSE {Outcome(r.w, Refreshed(t), <<>>)}
              : r \in Request(w, "back", NoKey) }

\* Mutant: the state survives the commit.
ReturnKeyKeepsState(w, s) ==
    UNION { IF r.ok /\ r.text # <<>> THEN {Outcome(r.w, s, Spell(r.text))}
            ELSE commit(r.w, s, View(s))
          : r \in Request(w, "commit", NoKey) }

\* The daemon's commit, or on a miss whatever is shown.
ReturnKey(w, s) ==
    UNION { IF r.ok /\ r.text # <<>> THEN {Outcome(r.w, Fresh, Spell(r.text))}
            ELSE commit(r.w, s, View(s))
          : r \in Request(w, "commit", NoKey) }

\* Mutant: the local echo is empty.
LetterEchoesNothing(w, s, key) ==
    UNION { IF ~e.ok THEN {Outcome(e.w, s, <<>>)}
            ELSE { Outcome(r.w,
                           Refreshed([e.s EXCEPT
                               !.preedit = IF r.ok THEN r.text ELSE Append(@, <<NoKey>>),
                               !.romaji = Append(@, key),
                               !.list = <<>>]), <<>>)
                   : r \in Request(e.w, "key", key) }
          : e \in ensureComposing(w, s) }

\* A letter the daemon does not take is echoed locally; without a daemon the
\* event is left to the application.
Letter(w, s, key) ==
    UNION { IF ~e.ok THEN {Outcome(e.w, s, <<>>)}
            ELSE { Outcome(r.w,
                           Refreshed([e.s EXCEPT
                               !.preedit = IF r.ok THEN r.text ELSE Append(@, <<key>>),
                               !.romaji = Append(@, key),
                               !.list = <<>>]), <<>>)
                   : r \in Request(e.w, "key", key) }
          : e \in ensureComposing(w, s) }

\* Mutant: the candidate stays on display.
EscapeListStale(w, s) == {Outcome(w, [s EXCEPT !.list = <<>>], <<>>)}

\* Drop the list, keep the composition.
EscapeList(w, s) == {Outcome(w, Refreshed([s EXCEPT !.list = <<>>]), <<>>)}
-----------------------------------------------------------------------------
Handle(i, name, outcomes) ==
    /\ \E o \in outcomes : /\ world' = o.w
                           /\ st' = [st EXCEPT ![i] = o.s]
                           /\ app' = app \o o.out
    /\ event' = name

choosing(i) == st[i].list # <<>>
active(i)   == st[i].romaji # <<>> \/ st[i].composing

\* A digit, or Return on the candidate under the cursor.
OnSelect(i)     == choosing(i) /\ Handle(i, "select", commit(world, st[i], st[i].list))
\* Space, Tab and the arrows go through the candidates, showing each.
OnMove(i)       == choosing(i) /\ Handle(i, "move", {Outcome(world, [st[i] EXCEPT !.shown = st[i].list], <<>>)})
OnEscapeList(i) == choosing(i) /\ Handle(i, "escape", EscapeList(world, st[i]))
OnSpace(i)      == ~choosing(i) /\ active(i) /\ Handle(i, "space", Space(world, st[i]))
OnBackSpace(i)  == active(i) /\ Handle(i, "backspace", BackSpace(world, st[i]))
OnReturn(i)     == ~choosing(i) /\ active(i) /\ Handle(i, "return", ReturnKey(world, st[i]))
OnEscape(i)     == ~choosing(i) /\ active(i) /\ Handle(i, "escape", clearSession(world, st[i]))

OnLetter(i, l) ==
    /\ typed < MaxTyped
    /\ typed' = typed + 1
    /\ Handle(i, "letter", Letter(world, st[i], [letter |-> l, by |-> i, n |-> typed + 1]))
    /\ UNCHANGED focus

\* Mutant: the context keeps its state when it loses the focus.
resetNothing(i, j) ==
    /\ event' = "reset"
    /\ focus' = j
    /\ UNCHANGED <<st, world, app, typed>>

\* reset: the application asks for it, or the focus moves on (the default
\* deactivate of fcitx5 calls it).
reset(i, j) ==
    /\ Handle(i, "reset", clearSession(world, st[i]))
    /\ focus' = j
    /\ UNCHANGED typed

keyEvent(i) ==
    \/ \E l \in Consonants \cup Vowels : OnLetter(i, l)
    \/ /\ \/ OnSelect(i) \/ OnMove(i) \/ OnEscapeList(i)
          \/ OnSpace(i) \/ OnBackSpace(i) \/ OnReturn(i) \/ OnEscape(i)
       /\ UNCHANGED <<focus, typed>>

\* The daemon dies between two events.
DaemonDies ==
    /\ "drop" \in Faults
    /\ world' = Lost(IF world.link = "up" THEN "dead" ELSE world.link)
    /\ event' = "daemon"
    /\ UNCHANGED <<focus, st, app, typed>>

AddonNext ==
    \/ keyEvent(focus)
    \/ \E j \in Contexts : reset(focus, j)
    \/ DaemonDies

AddonSpec == AddonInit /\ [][AddonNext]_addonVars
-----------------------------------------------------------------------------
Keys == [letter : Consonants \cup Vowels, by : Contexts, n : 1..MaxTyped]
Texts == Seq(Seq(Keys))

\* The variables hold values of their kinds.
AddonTypeOK ==
    /\ focus \in Contexts
    /\ st \in [Contexts -> [romaji : Seq(Keys), preedit : Texts, composing : BOOLEAN,
                            list : Seq(Keys), shown : Seq(Keys)]]
    /\ world \in [link : {"none", "up", "dead"}, comp : [open : BOOLEAN, text : Texts],
                  clean : BOOLEAN]
    /\ app \in Seq(Keys)
    /\ typed \in 0..MaxTyped

KeysIn(s) == {s[n] : n \in DOMAIN s}

\* One connection and one composition serve all contexts; no context is ever
\* shown, or offers for conversion, a key typed in another.
OwnKeys ==
    \A i \in Contexts :
        \A key \in KeysIn(st[i].romaji) \cup KeysIn(st[i].shown)
                   \cup KeysIn(Spell(st[i].preedit)) : key.by = i

\* engine.cpp:48, "Abandon any live composition on the daemon so its state
\* matches ours": the daemon has no composition that no context knows of.
NoOrphan == world.comp.open => \E i \in Contexts : st[i].composing

\* No key reaches the application twice, though a commit may be answered by the
\* daemon, lost on the way back or made up locally.
NoKeyTwice == \A m, n \in DOMAIN app : app[m] = app[n] => m = n

\* engine.h:28: the authoritative composition lives in the daemon and the addon
\* mirrors it: as long as no request fails, what a context holds is the daemon's.
MirrorsDaemon ==
    world.clean => \A i \in Contexts : st[i].composing => st[i].preedit = world.comp.text

\* However requests fail and the focus moves, each key stays where it was typed and reaches
\* the application at most once; and until a request fails the addon shows what the daemon has.
AddonConsistent == AddonTypeOK /\ OwnKeys /\ NoKeyTwice /\ MirrorsDaemon

\* engine.cpp:221, "commit whatever we are showing": whoever supplies the text
\* of a commit, it is what the context displayed.
CommitsWhatIsShown ==
    [][app' # app => app' = app \o st[focus].shown]_addonVars
=============================================================================
