------------------------------- MODULE TipHost -------------------------------
(***************************************************************************)
(* engine/native/AtTipLoad/AtTipLoad.c and candidates.c: the process that  *)
(* loads the vendor's text input processor (TIP) and carries out commands  *)
(* for the relay.  The main thread owns the TIP.  A second thread reads    *)
(* lines from stdin and sends each to the main thread's window; AtCtl,     *)
(* another process, sends to the same window.  A window message that was   *)
(* sent runs whenever the main thread pumps, inside the command that       *)
(* pumps: the main thread is a stack of commands, each a script of steps.  *)
(*                                                                         *)
(* Text is modelled by whose letters it is made of.                        *)
(***************************************************************************)
EXTENDS Naturals, Sequences

CONSTANTS
    Ctls,          \* AtCtl processes, each sends one line, named by the number of that line
    Lines,         \* the lines stdin may bring, sequences of commands
    CtlLines,      \* the lines AtCtl may send
    MaxLines,      \* bound on the lines of stdin
    Letters,       \* letters of a reading
    Modes          \* "warm" (AT_RECONV_KEEPALIVE), "oneshot", "snapshot", "drive" (no runtime mode)

ASSUME TipHostAssumption == MaxLines \in Nat /\ Letters \in Nat \ {0} /\ Ctls \subseteq Nat \ (0..MaxLines)

Results == {"convert", "henkan", "search"}

\* The relay asks for one result a line and does not search (harness_engine.cpp:129, 134).
ASSUME RelayLines ==
    \A l \in Lines :
        /\ l[1] # "search" /\ (Len(l) > 1 => l[2] # "search")
        /\ Len(l) > 1 => l[1] \notin Results \/ l[2] \notin Results

VARIABLES
    mode,          \* the environment the process was started with
    run,           \* "up", or how it ended: "exit", "fault", "null"
    stack,         \* the commands under way, innermost first, main itself last
    host,          \* which globals are set
    comp,          \* the composition's text: ids of the lines whose letters it has
    queue,         \* injected keystrokes on their way: ids
    cap,           \* g_daemon_cap: whose text was captured
    armed,         \* g_daemon_cap_active, as the id of the line that set it, or 0
    guard,         \* g_teardown_guard and g_teardown_ctx, as the id that set them, or 0
    msg,           \* each sender and the line it has sent
    lines,         \* lines read from stdin
    out            \* what was written to stdout

hostVars == <<mode, run, stack, host, comp, queue, cap, armed, guard, msg, lines, out>>

\* Lines of stdin are numbered from 1; as a sender stdin is 0.
Stdin == 0

Senders == {Stdin} \cup Ctls

-----------------------------------------------------------------------------
(***************************************************************************)
(* Commands as scripts.                                                    *)
(***************************************************************************)

\* send_ascii_text_a
ReadingKeys == [i \in 1..Letters |-> "letter"]

\* drive_conversion: with a function key, with the reading committed, and with henkan and the
\* candidates paged through or not.
Drives ==
    LET typed == [i \in 1..2 * Letters |-> IF i % 2 = 1 THEN "letter" ELSE "pump"] \o <<"pump", "probe">>
        strike == <<"key", "pump">>
    IN  {typed \o strike \o strike, typed \o strike \o <<"searchprobe", "probe">>}
        \cup {typed \o strike \o <<"probe">> \o pages \o strike \o <<"probe">> \o strike :
                 pages \in {<<>>, strike \o strike \o strike \o strike}}

\* Mutant: the capture is armed before the reading is typed.
ConvertArmedFirst == <<"arm", "reset">> \o ReadingKeys \o <<"pump", "key", "pump", "session", "disarm">>

\* Mutant: the list is emitted once more when the session is over.
ConvertEmitsTwice ==
    <<"reset">> \o ReadingKeys \o <<"pump", "key", "pump", "arm", "session", "begin", "end", "disarm">>

\* convert: the reading committed and reconverted.
Convert == <<"reset">> \o ReadingKeys \o <<"pump", "key", "pump", "arm", "session", "disarm">>

\* Mutant: what was there is not cleared.
HenkanKeeps == ReadingKeys \o <<"pump", "key", "pump", "arm", "read", "begin", "end", "disarm">>

\* henkan: the reading converted in place and read from the shim.
Henkan == <<"reset">> \o ReadingKeys \o <<"pump", "key", "pump", "arm", "read", "begin", "end", "disarm">>

\* search: the reading handed over, nothing typed.
SearchCommand == <<"arm", "search", "disarm">>

\* reading, katakana: an action key and time to settle.
ActionKey == <<"key", "pump">>

\* Commands that report, or set a mode of the keyboard or the text store.
Silent == <<>>

\* run_runtime_command
Scripts(c) ==
    CASE c = "convert"   -> {Convert}
      [] c = "henkan"    -> {Henkan}
      [] c = "search"    -> {SearchCommand}
      [] c = "reset"     -> {<<"reset">>}
      [] c = "type"      -> {ReadingKeys \o <<"pump">>}
      [] c = "reading"   -> {ActionKey}
      [] c = "strike"    -> {<<"key">>}             \* and probe
      [] c = "reconv"    -> {<<"session">>}
      [] c = "manualtip" -> {<<"manualtip">>}
      [] c = "drive"     -> Drives \cup {<<>>}       \* nothing without keystroke manager or context
      [] c = "quit"      -> {<<"quit">>}
      [] OTHER           -> {Silent}

\* A line is cut at ";".
LineScripts(l) == {a \o b : a \in Scripts(l[1]), b \in IF Len(l) > 1 THEN Scripts(l[2]) ELSE {<<>>}}

\* main
Boot == <<"window", "pump", "tm", "context", "pump", "tip">>

MainScripts(m) ==
    CASE m = "drive"    -> {Boot \o d \o <<"pump", "release">> : d \in Drives \cup {<<>>}}
      [] m = "snapshot" -> {Boot \o <<"release">>, Boot \o <<"manualtip", "release">>}
      [] OTHER          -> {Boot \o <<"thread", "loop", "release">>}

\* A command under way: its line, the steps left, and the lines whose letters or commands
\* have come in between.
Frame(id, script) == [id |-> id, script |-> script, met |-> {}]

HostInit ==
    /\ mode \in Modes
    /\ run = "up"
    /\ \E s \in MainScripts(mode) : stack = <<Frame(0, s)>>
    /\ host = [window |-> FALSE, tm |-> FALSE, context |-> FALSE, tip |-> FALSE, quit |-> FALSE, veh |-> FALSE]
    /\ comp = {} /\ queue = <<>> /\ cap = {} /\ armed = 0 /\ guard = 0
    /\ msg = [s \in Senders |-> [at |-> IF s = Stdin THEN "none" ELSE "idle", line |-> <<>>]]
    /\ lines = 0 /\ out = <<>>

-----------------------------------------------------------------------------
(***************************************************************************)
(* The main thread.                                                        *)
(***************************************************************************)
Top == Head(stack)

\* The next step of the innermost command.
At(op) == run = "up" /\ Top.script # <<>> /\ Head(Top.script) = op

\* The step is done; ops are done next.
Then(ops) == stack' = <<[Top EXCEPT !.script = ops \o Tail(@)]>> \o Tail(stack)

Advance == Then(<<>>)

textVars  == <<comp, queue>>
guardVars == <<cap, armed, guard>>
ioVars    == <<msg, lines, out>>

\* pMsctfShim_Reset
Reset ==
    /\ At("reset") /\ Advance
    /\ comp' = {}
    /\ UNCHANGED <<mode, run, host, queue, guardVars, ioVars>>

\* Letters of a line reach the composition when there is one.
Typed(id) == IF host.context THEN comp \cup {id} ELSE comp

\* send_key of a letter: through the TIP's sink, which the shim also follows; a letter the
\* TIP does not eat, or that has no sink to go to, is injected as input.
Letter ==
    /\ At("letter") /\ Advance
    /\ comp' = IF host.tip THEN Typed(Top.id) ELSE comp
    /\ \E eaten \in BOOLEAN :
           queue' = IF eaten /\ host.tip THEN queue ELSE Append(queue, Top.id)
    /\ UNCHANGED <<mode, run, host, guardVars, ioVars>>

\* send_key of an action key: no text of its own.
Key ==
    /\ At("key") /\ Advance
    /\ UNCHANGED <<mode, run, host, textVars, guardVars, ioVars>>

\* Mutant: the final loop only sleeps.
PumpingNotInLoop == At("pump")

\* pump_messages, pump_messages_until_quit
Pumping == At("pump") \/ At("loop")

\* What has not arrived stays.
PumpEnds ==
    /\ At("pump") \/ (At("loop") /\ host.quit)
    /\ Advance
    /\ UNCHANGED <<mode, run, host, textVars, guardVars, ioVars>>

\* Every command under way meets the letters of another.
Meet(id, frames) == [i \in DOMAIN frames |-> [frames[i] EXCEPT !.met = @ \cup ({id} \ {frames[i].id})]]

\* WM_KEYDOWN and WM_CHAR of an injected letter.
DispatchKey ==
    /\ Pumping /\ queue # <<>>
    /\ queue' = Tail(queue)
    /\ comp' = Typed(Head(queue))
    /\ stack' = Meet(Head(queue), stack)
    /\ UNCHANGED <<mode, run, host, guardVars, ioVars>>

\* Mutant: the message stays in the queue while it runs.
DispatchMessageAgain(s) ==
    /\ Pumping /\ msg[s].at = "sent"
    /\ \E script \in LineScripts(msg[s].line) :
           stack' = <<Frame(IF s = Stdin THEN lines ELSE s, script)>> \o stack
    /\ UNCHANGED <<mode, run, host, textVars, guardVars, ioVars>>

\* WM_COPYDATA, refused outside the runtime mode.
DispatchMessage(s) ==
    /\ Pumping /\ msg[s].at = "sent"
    /\ IF mode = "drive"
       THEN msg' = [msg EXCEPT ![s].at = "done"] /\ UNCHANGED stack
       ELSE /\ msg' = [msg EXCEPT ![s].at = "running"]
            /\ \E script \in LineScripts(msg[s].line) :
                   LET id == IF s = Stdin THEN lines ELSE s
                   IN  stack' = <<Frame(id, script)>> \o Meet(id, stack)
    /\ UNCHANGED <<mode, run, host, textVars, guardVars, lines, out>>

\* The window procedure returns, and with it SendMessage.
Return ==
    /\ run = "up" /\ Top.script = <<>> /\ Top.id # 0
    /\ stack' = Tail(stack)
    /\ msg' = [msg EXCEPT ![IF Top.id \in Ctls THEN Top.id ELSE Stdin].at = "done"]
    /\ UNCHANGED <<mode, run, host, textVars, guardVars, lines, out>>

\* Mutant: only PostQuitMessage, which neither pump looks for.
QuitPostsOnly ==
    /\ At("quit") /\ Advance
    /\ UNCHANGED <<mode, run, host, textVars, guardVars, ioVars>>

\* PostQuitMessage and the flag both loops look at; the rest of the line is dropped.
Quit ==
    /\ At("quit")
    /\ host' = [host EXCEPT !.quit = TRUE]
    /\ stack' = <<[Top EXCEPT !.script = <<>>]>> \o Tail(stack)
    /\ UNCHANGED <<mode, run, textVars, guardVars, ioVars>>

-----------------------------------------------------------------------------
(***************************************************************************)
(* Results.                                                                *)
(***************************************************************************)
Arm ==
    /\ At("arm") /\ Advance
    /\ armed' = Top.id /\ cap' = {}
    /\ UNCHANGED <<mode, run, host, textVars, guard, ioVars>>

Disarm ==
    /\ At("disarm") /\ Advance
    /\ armed' = 0
    /\ UNCHANGED <<mode, run, host, textVars, cap, guard, ioVars>>

\* MsctfShim_GetCompText
ReadText ==
    /\ At("read") /\ Advance
    /\ cap' = comp
    /\ UNCHANGED <<mode, run, host, textVars, armed, guard, ioVars>>

WriteLine(tag) ==
    out' = Append(out, [tag |-> tag, id |-> Top.id, text |-> cap, met |-> Top.met,
                        late |-> \E i \in DOMAIN queue : queue[i] = Top.id])

\* at_daemon_emit_result, a line at a time as far as the stdin thread can get in between.
Begin ==
    /\ At("begin") /\ Advance /\ WriteLine("BEGIN")
    /\ UNCHANGED <<mode, run, host, textVars, guardVars, msg, lines>>

End ==
    /\ At("end") /\ Advance /\ WriteLine("END")
    /\ UNCHANGED <<mode, run, host, textVars, guardVars, msg, lines>>

Block == IF armed # 0 THEN <<"begin", "end">> ELSE <<>>

\* search_candidates_daemon: it uses the thread manager without asking whether there is one.
Search ==
    /\ At("search")
    /\ IF ~host.tm
       THEN run' = "null" /\ UNCHANGED <<stack, cap>>
       ELSE /\ UNCHANGED run
            /\ \/ Advance /\ UNCHANGED cap                   \* no such interface
               \/ Then(Block) /\ cap' \in {{}, {Top.id}}
    /\ UNCHANGED <<mode, host, textVars, armed, guard, ioVars>>

\* Mutant: the handler and the guard are set together, once.
SessionGuardsOnce ==
    /\ At("session") /\ host.tm /\ host.context
    /\ guard' = IF mode = "warm" /\ ~host.veh THEN Top.id ELSE guard
    /\ host' = [host EXCEPT !.veh = mode = "warm"]
    /\ Then(<<"teardown">>)
    /\ UNCHANGED <<mode, run, textVars, cap, armed, ioVars>>

\* probe_reconversion and do_reconversion: an edit session in which the TIP is asked for the
\* candidates of the text.  With candidates the block goes out before anything else; then the
\* process ends, or, kept alive, the session is torn down.
Session ==
    /\ At("session")
    /\ IF ~host.tm \/ ~host.context
       THEN Advance /\ UNCHANGED <<host, cap, guard>>
       ELSE /\ guard' = IF mode = "warm" THEN Top.id ELSE guard
            /\ host' = [host EXCEPT !.veh = @ \/ mode = "warm"]
            /\ \/ Then(<<"teardown">>) /\ UNCHANGED cap         \* no candidates, or a fault
               \/ /\ cap' = IF armed # 0 THEN comp ELSE cap
                  /\ Then(Block \o <<IF armed # 0 /\ mode # "warm" THEN "exit" ELSE "teardown">>)
    /\ UNCHANGED <<mode, run, textVars, armed, ioVars>>

\* probe_search_candidates: nothing, a list of candidates logged, or under AT_SEARCH_EXIT the end.
SearchProbe ==
    /\ At("searchprobe")
    /\ (Advance /\ UNCHANGED run) \/ (run' = "exit" /\ UNCHANGED stack)
    /\ UNCHANGED <<mode, host, textVars, guardVars, ioVars>>

\* drive_conversion asks only under AT_PROBE_RECONV.
Probe ==
    /\ At("probe")
    /\ Advance \/ Then(<<"session">>)
    /\ UNCHANGED <<mode, run, host, textVars, guardVars, ioVars>>

\* Mutant: the guard stays up when the session returns.
TeardownKeepsGuard ==
    /\ At("teardown") /\ Advance
    /\ UNCHANGED <<mode, run, host, textVars, guardVars, ioVars>>

\* Wine ends the session, and may fault at it: teardown_filter takes a guarded thread back to
\* where the session was asked for.
Teardown ==
    /\ At("teardown")
    /\ guard' = 0
    /\ \/ Advance /\ UNCHANGED run
       \/ IF guard = 0 THEN run' = "fault" /\ UNCHANGED stack ELSE Advance /\ UNCHANGED run
    /\ UNCHANGED <<mode, host, textVars, cap, armed, ioVars>>

Exit ==
    /\ At("exit")
    /\ run' = "exit"
    /\ UNCHANGED <<mode, stack, host, textVars, guardVars, ioVars>>

-----------------------------------------------------------------------------
(***************************************************************************)
(* Bring-up and end of main.                                               *)
(***************************************************************************)
\* load_msctf, without which main returns, and create_host_window
Window ==
    /\ At("window")
    /\ \/ Advance /\ host' = [host EXCEPT !.window = TRUE] /\ UNCHANGED run
       \/ run' = "exit" /\ UNCHANGED <<stack, host>>
    /\ UNCHANGED <<mode, textVars, guardVars, ioVars>>

\* TF_CreateThreadMgr, Activate; without it main returns.
ThreadMgr ==
    /\ At("tm")
    /\ \/ Advance /\ host' = [host EXCEPT !.tm = TRUE] /\ UNCHANGED run
       \/ run' = "exit" /\ UNCHANGED <<stack, host>>
    /\ UNCHANGED <<mode, textVars, guardVars, ioVars>>

\* TextStore_Create, without which main returns; CreateDocumentMgr, CreateContext, Push, without
\* which it goes on.
Context ==
    /\ At("context")
    /\ \/ Advance /\ UNCHANGED run /\ \E ok \in BOOLEAN : host' = [host EXCEPT !.context = ok]
       \/ run' = "exit" /\ UNCHANGED <<stack, host>>
    /\ UNCHANGED <<mode, textVars, guardVars, ioVars>>

\* The keystroke manager, and the TIP created and activated; main goes on without.
Tip ==
    /\ At("tip") /\ Advance
    /\ \E ok \in BOOLEAN : host' = [host EXCEPT !.tip = ok]
    /\ UNCHANGED <<mode, run, textVars, guardVars, ioVars>>

\* The command manualtip; without a thread manager the rest of the line is dropped.
ManualTip ==
    /\ At("manualtip")
    /\ IF host.tm
       THEN Advance /\ \E ok \in BOOLEAN : host' = [host EXCEPT !.tip = @ \/ ok]
       ELSE stack' = <<[Top EXCEPT !.script = <<>>]>> \o Tail(stack) /\ UNCHANGED host
    /\ UNCHANGED <<mode, run, textVars, guardVars, ioVars>>

\* CreateThread(runtime_stdin_thread), which may fail.
Thread ==
    /\ At("thread") /\ Advance
    /\ \E ok \in BOOLEAN : msg' = [msg EXCEPT ![Stdin].at = IF ok THEN "ready" ELSE "none"]
    /\ UNCHANGED <<mode, run, host, textVars, guardVars, lines, out>>

\* runtime_cleanup: nothing is dispatched any more.
Release ==
    /\ At("release")
    /\ run' = "exit"
    /\ UNCHANGED <<mode, stack, host, textVars, guardVars, ioVars>>

-----------------------------------------------------------------------------
(***************************************************************************)
(* runtime_stdin_thread and AtCtl.                                         *)
(***************************************************************************)
\* Mutant: the line is acknowledged before it is sent.
StdinReadEarly(l) ==
    /\ run = "up" /\ msg[Stdin].at = "read" /\ lines < MaxLines
    /\ lines' = lines + 1
    /\ msg' = [msg EXCEPT ![Stdin] = [at |-> "sent", line |-> l]]
    /\ out' = Append(out, [tag |-> "READY", id |-> lines', text |-> {}, met |-> {}, late |-> FALSE])
    /\ UNCHANGED <<mode, run, stack, host, textVars, guardVars>>

\* A line is read and sent; the thread waits until it has run.
StdinRead(l) ==
    /\ run = "up" /\ msg[Stdin].at = "read" /\ lines < MaxLines
    /\ lines' = lines + 1
    /\ msg' = [msg EXCEPT ![Stdin] = [at |-> "sent", line |-> l]]
    /\ UNCHANGED <<mode, run, stack, host, textVars, guardVars, out>>

\* "ATD READY", at the start and after each line.
StdinReady ==
    /\ run = "up" /\ msg[Stdin].at \in {"ready", "done"}
    /\ msg' = [msg EXCEPT ![Stdin].at = "read"]
    /\ out' = Append(out, [tag |-> "READY", id |-> lines, text |-> {}, met |-> {}, late |-> FALSE])
    /\ UNCHANGED <<mode, run, stack, host, textVars, guardVars, lines>>

\* Quit, or the end of stdin: the thread ends; at the end of stdin main goes on pumping.
StdinEnd ==
    /\ run = "up" /\ msg[Stdin].at = "read"
    /\ msg' = [msg EXCEPT ![Stdin].at = "gone"]
    /\ UNCHANGED <<mode, run, stack, host, textVars, guardVars, lines, out>>

\* AtCtl finds the host by the class or the title of its window.
WindowFound == host.window /\ run = "up"

\* It sends to the window it finds or gives up; SendMessage returns too when the host ends.
CtlSend(c, l) ==
    /\ msg[c].at = "idle"
    /\ msg' = [msg EXCEPT ![c] = [at |-> IF WindowFound THEN "sent" ELSE "done", line |-> l]]
    /\ UNCHANGED <<mode, run, stack, host, textVars, guardVars, lines, out>>

CtlReturn(c) ==
    /\ run # "up" /\ msg[c].at \in {"sent", "running"}
    /\ msg' = [msg EXCEPT ![c].at = "done"]
    /\ UNCHANGED <<mode, run, stack, host, textVars, guardVars, lines, out>>

-----------------------------------------------------------------------------
Main ==
    \/ Reset \/ Letter \/ Key \/ PumpEnds \/ DispatchKey \/ (\E s \in Senders : DispatchMessage(s))
    \/ Return \/ Quit \/ Arm \/ Disarm \/ ReadText \/ Begin \/ End \/ Search \/ Session \/ Probe \/ SearchProbe
    \/ Teardown \/ Exit \/ Window \/ ThreadMgr \/ Context \/ Tip \/ ManualTip \/ Thread \/ Release

HostNext ==
    \/ Main
    \/ StdinReady \/ StdinEnd \/ \E l \in Lines : StdinRead(l)
    \/ \E c \in Ctls : CtlReturn(c) \/ \E l \in CtlLines : CtlSend(c, l)

HostSpec == HostInit /\ [][HostNext]_hostVars

\* Both threads run and the TIP's calls return; nobody has to send anything.
HostFairSpec == HostSpec /\ WF_hostVars(Main) /\ WF_hostVars(StdinReady)

-----------------------------------------------------------------------------
(***************************************************************************)
(* Properties.                                                             *)
(***************************************************************************)
LineIds == 0..MaxLines \cup Ctls

HostTypeOK ==
    /\ mode \in Modes /\ run \in {"up", "exit", "fault", "null"}
    /\ stack # <<>> /\ stack[Len(stack)].id = 0
    /\ \A i, j \in DOMAIN stack : i # j => stack[i].id # stack[j].id
    /\ comp \cup cap \cup {armed, guard} \subseteq LineIds
    /\ \A s \in Senders : msg[s].at \in {"none", "idle", "ready", "read", "sent", "running", "done", "gone"}

\* A block holds the letters of its own line and of lines that came in between while it ran
\* (a control command inside a pump, a letter injected late); nothing of an earlier line is
\* left over, and without such company its own letters are there.
NoResidue ==
    host.context =>
        \A i \in DOMAIN out : out[i].tag = "END" /\ out[i].id \in 1..MaxLines =>
            /\ out[i].text \subseteq {out[i].id} \cup out[i].met
            /\ out[i].met = {} /\ ~out[i].late => out[i].text = {out[i].id}

\* While candidates are captured no other command runs inside the one that captures.
ArmedAlone == armed # 0 => Top.id = armed

\* The handler takes a fault back to a point of the innermost command, inside its session.
GuardOwned == guard # 0 => Top.id = guard /\ \E i \in DOMAIN Top.script : Top.script[i] = "teardown"

\* Commands nest as the code relies on: distinct lines on the stack, capturing and the fault
\* handler with the innermost of them only.
HostConsistent == HostTypeOK /\ ArmedAlone /\ GuardOwned

\* A process that is kept alive survives the teardown of every session (candidates.c: "leaving
\* the process warm for the next convert").
SurvivesTeardown == mode = "warm" => run # "fault"

CtlBlock == \E i \in DOMAIN out : out[i].id \in Ctls

\* What the relay reads.  A line is acknowledged when it has run (runtime_stdin_thread: "the
\* READY sentinel below is emitted only after completion"); and as long as no control command
\* asked for a result, every block is whole, belongs to the line that is under way, and is the
\* only one before READY.
Stream ==
    /\ \A i \in DOMAIN out : out[i].tag = "READY" =>
           /\ \A j \in DOMAIN stack : stack[j].id \notin 1..out[i].id
           /\ ~(msg[Stdin].at \in {"sent", "running"} /\ lines = out[i].id)
    /\ CtlBlock \/
        \A i \in DOMAIN out :
            /\ out[i].tag = "END" => i > 1 /\ out[i - 1].tag = "BEGIN"
            /\ out[i].tag = "BEGIN" =>
                   /\ i > 1 /\ out[i - 1].tag = "READY" /\ out[i - 1].id = out[i].id - 1
                   /\ i < Len(out) => out[i + 1].tag = "END"
                   /\ i = Len(out) => run = "up"

\* A line that was sent is carried out and acknowledged, or the process ends.
Answered == (msg[Stdin].at \in {"sent", "running", "done"}) ~> (msg[Stdin].at = "read" \/ run # "up")

\* quit ends the process, wherever it was nested.
QuitEnds == At("quit") ~> (run # "up")

\* Whatever nests in whatever pumps, a line of the relay is acknowledged and quit ends the process.
CommandsEnd == Answered /\ QuitEnds
=============================================================================
