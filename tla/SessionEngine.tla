---------------------------- MODULE SessionEngine ---------------------------
(***************************************************************************)
(* src/session_engine.cpp: one live composition on a long-lived worker.    *)
(* Each request runs one command (a key may run two) and waits for its one *)
(* reply line; a worker that is gone is respawned, and with it goes the    *)
(* composition.                                                            *)
(*                                                                         *)
(* The text of a composition is opaque: Effect says what a command makes   *)
(* of it.  The worker is external: that it answers the session commands is *)
(* what session_engine.h:8 documents, but run_runtime_command under        *)
(* engine/native knows none of them.                                       *)
(***************************************************************************)
EXTENDS HarnessProcess

CONSTANTS
    Keys,             \* the arguments of key: the keystrokes of one request
    Texts, NoText,    \* the texts of a composition; NoText is the empty one
    Effect,           \* Effect[c][t]: the text after command c on t
    Patience,         \* kReplyTimeoutMs / 1000
    ReadyPatience     \* kReadyTimeoutMs / 1000

\* A key stands for the request key and for the command stype that serves it.
PlainCommands == {"sreset", "sback", "sconv", "spre", "scommit", "scancel"}
PlainRequests == {"begin", "backspace", "convert", "preedit", "commit", "cancel"}
Commands == PlainCommands \cup Keys
Requests == PlainRequests \cup Keys

ASSUME KeyAssumption == Keys \cap (PlainCommands \cup PlainRequests \cup {"start", "idle"}) = {}

ASSUME SessionPatience == Patience \in Nat \ {0} /\ ReadyPatience \in Nat \ {0}
ASSUME EffectAssumption ==
    /\ NoText \in Texts
    /\ Effect \in [Commands -> [Texts -> Texts]]
    /\ \A t \in Texts : /\ Effect["sreset"][t] = NoText
                        /\ Effect["scancel"][t] = NoText
                        /\ Effect["scommit"][t] = NoText
                        /\ Effect["spre"][t] = t
ASSUME ReadyAssumption == Ready \notin [kind : {"PRE", "COMMIT"}, text : Texts]

VARIABLES
    pc,               \* where the engine is
    request,          \* the request being served
    cmd,              \* the command line of the current runCmd
    active,           \* active_: "yes" or "no"
    comp,             \* the composition the worker holds
    reply,            \* to the last request
    view              \* the composition as the client was last told

callVars == <<request, cmd, reply, view>>
vars == <<processVars, loopVars, callVars, pc, active, comp>>

None    == [outcome |-> "none"]
Ok(t)   == [outcome |-> "ok", text |-> t]
Refused == [outcome |-> "err"]
Closed  == [open |-> "no", text |-> NoText]

Init ==
    /\ ProcessInit
    /\ pc = "idle"
    /\ request = "start"
    /\ cmd = "sreset"
    /\ active = "no"
    /\ comp = NoText
    /\ reply = None
    /\ view = Closed

\* The request ends: what the client is told, and what it then takes the
\* composition to be.
Return(r, v) ==
    /\ pc' = "idle"
    /\ reply' = r
    /\ view' = v
    /\ UNCHANGED <<request, cmd>>

\* start is not a request: nobody is waiting for a reply.
FailRequest == IF request = "start" THEN pc' = "idle" /\ UNCHANGED callVars
               ELSE Return(Refused, Closed)
-----------------------------------------------------------------------------
(***************************************************************************)
(* begin, type, backspace, convert, preedit, commit, cancel.               *)
(***************************************************************************)
Ask(q) ==
    /\ pc = "idle"
    /\ pc' = "enter"
    /\ request' = q
    /\ reply' = None
    /\ UNCHANGED <<processVars, loopVars, active, comp, cmd, view>>

RunCmd(c) == pc' = "write" /\ cmd' = c /\ UNCHANGED <<request, reply, view>>

\* Which command a request runs first: without a composition a key begins one.
Enter ==
    /\ pc = "enter"
    /\ \/ request = "begin" /\ RunCmd("sreset")
       \/ request \in Keys /\ RunCmd(IF active = "yes" THEN request ELSE "sreset")
       \/ request = "backspace" /\ active = "yes" /\ RunCmd("sback")
       \/ request = "preedit" /\ active = "yes" /\ RunCmd("spre")
       \/ request = "convert" /\ active = "yes" /\ RunCmd("sconv")
       \/ request = "commit" /\ active = "yes" /\ RunCmd("scommit")
       \/ /\ request = "cancel" /\ (active = "yes" \/ ~running)
          /\ RunCmd("scancel")
       \/ /\ request \in {"backspace", "preedit", "commit"} /\ active = "no"
          /\ Return(Ok(NoText), Closed)
       \/ /\ request = "cancel" /\ active = "no" /\ running
          /\ Return(Ok(NoText), Closed)
       \/ /\ request = "convert" /\ active = "no"
          /\ Return(Refused, Closed)
    /\ UNCHANGED <<processVars, loopVars, active, comp>>
-----------------------------------------------------------------------------
(***************************************************************************)
(* ensureWarm, for start and for writeCmd.                                 *)
(***************************************************************************)
BeginWarm ==
    /\ spawn
    /\ pc' = "warm"
    /\ rbuf' = <<>>
    /\ waited' = 0
    /\ active' = "no"
    /\ comp' = NoText

\* start: before the first request.
Start ==
    /\ pc = "idle" /\ ~running
    /\ request' = "start"
    /\ \/ BeginWarm
       \/ spawnFails /\ UNCHANGED <<loopVars, pc, active, comp>>
    /\ UNCHANGED <<cmd, reply, view>>

WarmLine ==
    /\ pc = "warm" /\ rbuf # <<>>
    /\ rbuf' = Tail(rbuf)
    /\ pc' = IF Head(rbuf) # Ready THEN "warm"
             ELSE IF request = "start" THEN "idle" ELSE "write"
    /\ UNCHANGED <<processVars, waited, callVars, active, comp>>

WarmRead ==
    /\ pc = "warm"
    /\ ReadSome
    /\ UNCHANGED <<callVars, pc, active, comp>>

WarmNap ==
    /\ pc = "warm"
    /\ ReadNothing /\ waited + 1 < ReadyPatience
    /\ waited' = waited + 1
    /\ UNCHANGED <<processVars, rbuf, callVars, pc, active, comp>>

WarmFail ==
    /\ pc = "warm"
    /\ ReadEof \/ (ReadNothing /\ waited + 1 >= ReadyPatience)
    /\ terminate
    /\ FailRequest
    /\ UNCHANGED <<loopVars, active, comp>>

Warm == WarmLine \/ WarmRead \/ WarmNap \/ WarmFail
-----------------------------------------------------------------------------
(***************************************************************************)
(* runCmd: writeCmd, then readReply.                                       *)
(***************************************************************************)
WriteRespawn ==
    /\ pc = "write" /\ ~running
    /\ \/ BeginWarm /\ UNCHANGED callVars
       \/ spawnFails /\ FailRequest /\ UNCHANGED <<loopVars, active, comp>>

Write ==
    /\ pc = "write" /\ running
    /\ write(cmd)
    /\ pc' = "read"
    /\ waited' = 0
    /\ UNCHANGED <<rbuf, callVars, active, comp>>

\* One attempt only.
WriteBroken ==
    /\ pc = "write" /\ running
    /\ writeBreaks
    /\ terminate
    /\ active' = "no"
    /\ FailRequest
    /\ UNCHANGED <<loopVars, comp>>

\* The reply line that ends the current readReply.
Wanted(line) == line # Ready /\ line.kind = (IF cmd = "scommit" THEN "COMMIT" ELSE "PRE")

\* Mutant: a commit leaves active_ set.
FinishKeepsActive(t) ==
    \/ /\ request = "begin"
       /\ active' = "yes"
       /\ Return(Ok(t), [open |-> "yes", text |-> t])
    \/ /\ request \in Keys /\ cmd = "sreset"
       /\ active' = "yes"
       /\ RunCmd(request)
    \/ /\ request \in {"backspace", "preedit", "convert"} \cup Keys
       /\ cmd # "sreset"
       /\ UNCHANGED active
       /\ Return(Ok(t), [open |-> "yes", text |-> t])
    \/ /\ request = "commit"
       /\ UNCHANGED active
       /\ Return(Ok(t), Closed)
    \/ /\ request = "cancel"
       /\ active' = "no"
       /\ Return(Ok(NoText), Closed)

\* Mutant: the committed text is not handed over.
FinishLosesText(t) ==
    \/ /\ request = "begin"
       /\ active' = "yes"
       /\ Return(Ok(t), [open |-> "yes", text |-> t])
    \/ /\ request \in Keys /\ cmd = "sreset"
       /\ active' = "yes"
       /\ RunCmd(request)
    \/ /\ request \in {"backspace", "preedit", "convert"} \cup Keys
       /\ cmd # "sreset"
       /\ UNCHANGED active
       /\ Return(Ok(t), [open |-> "yes", text |-> t])
    \/ /\ request = "commit"
       /\ active' = "no"
       /\ Return(Ok(NoText), Closed)
    \/ /\ request = "cancel"
       /\ active' = "no"
       /\ Return(Ok(NoText), Closed)

\* The command succeeded.
Finish(t) ==
    \/ /\ request = "begin"
       /\ active' = "yes"
       /\ Return(Ok(t), [open |-> "yes", text |-> t])
    \/ /\ request \in Keys /\ cmd = "sreset"
       /\ active' = "yes"
       /\ RunCmd(request)
    \/ /\ request \in {"backspace", "preedit", "convert"} \cup Keys
       /\ cmd # "sreset"
       /\ UNCHANGED active
       /\ Return(Ok(t), [open |-> "yes", text |-> t])
    \/ /\ request = "commit"
       /\ active' = "no"
       /\ Return(Ok(t), Closed)
    \/ /\ request = "cancel"
       /\ active' = "no"
       /\ Return(Ok(NoText), Closed)

\* Any other line is skipped.
ReadLine ==
    /\ pc = "read" /\ rbuf # <<>>
    /\ rbuf' = Tail(rbuf)
    /\ IF Wanted(Head(rbuf)) THEN Finish(Head(rbuf).text)
       ELSE UNCHANGED <<callVars, pc, active>>
    /\ UNCHANGED <<processVars, waited, comp>>

ReadReply ==
    /\ pc = "read"
    /\ ReadSome
    /\ UNCHANGED <<callVars, pc, active, comp>>

\* Mutant: silence is not counted.
ReadNapUncounted ==
    /\ pc = "read"
    /\ ReadNothing
    /\ UNCHANGED vars

\* Mutant: one silent read too many.
ReadNapOnceMore ==
    /\ pc = "read"
    /\ ReadNothing /\ waited + 1 <= Patience
    /\ waited' = waited + 1
    /\ UNCHANGED <<processVars, rbuf, callVars, pc, active, comp>>

ReadNap ==
    /\ pc = "read"
    /\ ReadNothing /\ waited + 1 < Patience
    /\ waited' = waited + 1
    /\ UNCHANGED <<processVars, rbuf, callVars, pc, active, comp>>

\* Mutant: active_ survives the loss of the worker.
ReadFailKeepsActive ==
    /\ pc = "read"
    /\ ReadEof \/ (ReadNothing /\ waited + 1 >= Patience)
    /\ terminate
    /\ FailRequest
    /\ UNCHANGED <<loopVars, active, comp>>

ReadFail ==
    /\ pc = "read"
    /\ ReadEof \/ (ReadNothing /\ waited + 1 >= Patience)
    /\ terminate
    /\ active' = "no"
    /\ FailRequest
    /\ UNCHANGED <<loopVars, comp>>

Stop ==
    /\ pc = "idle"
    /\ terminate
    /\ active' = "no"
    /\ view' = Closed
    /\ UNCHANGED <<loopVars, request, cmd, reply, pc, comp>>
-----------------------------------------------------------------------------
\* The worker runs the command at the head of its pipe and prints one reply:
\* the composition, or what it was when it is committed.
Take ==
    /\ stdin # <<>>
    /\ LET c == Head(stdin)
           printed == IF c = "scommit" THEN [kind |-> "COMMIT", text |-> comp]
                      ELSE [kind |-> "PRE", text |-> Effect[c][comp]]
       IN  WorkerTake(<<printed>>) /\ comp' = Effect[c][comp]
    /\ UNCHANGED <<loopVars, callVars, pc, active>>

WorkerStep ==
    \/ Take
    \/ (WorkerPrint \/ WorkerDie) /\ UNCHANGED <<loopVars, callVars, pc, active, comp>>

EngineStep ==
    \/ Enter \/ Warm
    \/ WriteRespawn \/ Write \/ WriteBroken
    \/ ReadLine \/ ReadReply \/ ReadNap \/ ReadFail

Next == EngineStep \/ (\E q \in Requests : Ask(q)) \/ Start \/ Stop \/ WorkerStep

Spec == Init /\ [][Next]_vars

\* The engine's thread runs; nothing is assumed of the worker.
FairSpec == Spec /\ WF_vars(EngineStep)
-----------------------------------------------------------------------------
AllLines == [kind : {"PRE", "COMMIT"}, text : Texts] \cup {Ready}

\* The variables hold values of their kinds.
TypeOK ==
    /\ proc \in {"none", "open"}
    /\ worker \in [state : {"none", "alive", "dead"}, todo : Seq(AllLines)]
    /\ stdin \in Seq(Commands)
    /\ stdout \in Seq(AllLines)
    /\ rbuf \in Seq(AllLines)
    /\ waited \in Nat /\ (waited < Patience \/ waited < ReadyPatience)
    /\ pc \in {"idle", "enter", "warm", "write", "read"}
    /\ request \in Requests \cup {"start"}
    /\ cmd \in Commands
    /\ active \in {"yes", "no"}
    /\ comp \in Texts
    /\ reply \in {None, Refused} \cup [outcome : {"ok"}, text : Texts]
    /\ view \in [open : {"yes", "no"}, text : Texts]

\* session_engine.cpp:63, "Worker gone: warm a fresh one": that never happens
\* under a live composition, which would then go on, empty, on another worker.
\* Every path that loses the worker also clears active_.
ActiveOnWorker == active = "yes" => running

\* Between two requests the engine, the worker and the client agree: active_
\* says whether the client thinks a composition is open, the worker (while it
\* lives) holds the text the client was shown, and no reply is in flight.
Agreement ==
    pc = "idle" =>
        /\ active = view.open
        /\ stdin = <<>>
        /\ running => \A i \in DOMAIN Stream : Stream[i] = Ready
        /\ active = "yes" /\ worker.state = "alive" => comp = view.text

\* Whatever the worker did to a request, engine, worker and client are left of one mind.
Consistent == TypeOK /\ ActiveOnWorker /\ Agreement

Client == INSTANCE Composition WITH
    phase <- IF pc = "idle" \/ request = "start" THEN "idle" ELSE request,
    open  <- view.open,
    text  <- view.text

\* docs/protocol.md, "Session": whatever the worker does, every success is the
\* request applied to the text last shown, and a lost composition is reported.
Implements == Client!Spec

\* Every request is answered, whether the worker replies, dies or hangs.
RequestsReturn == pc # "idle" ~> pc = "idle"
=============================================================================
