----------------------------- MODULE WorkerTree ------------------------------
(***************************************************************************)
(* What HarnessProcess leaves out of src/posix_harness_process.cpp: the    *)
(* descriptors and the processes.  One daemon runs two engines, each on a  *)
(* thread of its own (the prefetch thread and the accept loop), and each   *)
(* engine starts workers as a launcher shell (engine/scripts/at.sh) with   *)
(* the Wine process below it.  No descriptor of the daemon is marked close *)
(* on exec, so a worker inherits whatever the daemon has open when it is   *)
(* forked; signals reach only the shell.                                   *)
(*                                                                         *)
(* The daemon may die at any time and is started again, by hand or by      *)
(* packaging/atzcd.service; then at.sh daemon-up ends every process of the *)
(* prefix before it starts the engine servers.  (systemd would also kill   *)
(* the workers with the daemon; a daemon started by hand leaves them.)     *)
(***************************************************************************)
EXTENDS Naturals, FiniteSets

CONSTANTS
    Batch, Live,   \* the HarnessEngine and the SessionEngine
    Engines,       \* those that are used
    MaxLaunches,   \* bound on the calls of spawn
    MaxLives       \* bound on the daemons that are started

ASSUME TreeAssumption == /\ Batch # Live /\ Engines \subseteq {Batch, Live} /\ Batch \in Engines
                         /\ MaxLaunches \in Nat /\ MaxLives \in Nat

Launches == 1..MaxLaunches

VARIABLES
    daemon,        \* "down", "setup", "reset" (of the servers), "warming", "serving"
    life,          \* which daemon this is
    servers,       \* the engine servers: "down" or "launched"
    has,           \* descriptors the daemon has open
    pc,            \* of each engine: how far its spawn is, "open" once it returned
    child,         \* of each engine: the launch in hand, pid_ from "forked" on; 0 if none
    awaits,        \* does the engine wait for a line of its worker?
    tree,          \* the processes of each launch
    client         \* a host: "away", "connected"

daemonVars == <<daemon, life, servers, has>>
engineVars == <<pc, child, awaits>>
vars == <<daemonVars, engineVars, tree, client>>

\* The ends of the pipes of a launch: of its standard input and its output.
InR(l)  == <<"in", "read", l>>
InW(l)  == <<"in", "write", l>>
OutR(l) == <<"out", "read", l>>
OutW(l) == <<"out", "write", l>>

PipeEnds(l) == {InR(l), InW(l), OutR(l), OutW(l)}
Listen      == <<"socket", "listen", 0>>
Conn        == <<"socket", "conn", 0>>
Descriptors == {Listen, Conn} \cup UNION {PipeEnds(l) : l \in Launches}

NoTree == [shell |-> "none",       \* "none", "layout", "waits" for Wine, "gone"
           wine |-> "none",        \* "none", "busy", "reads", "deaf", "hung", "gone"
           inherited |-> {},       \* descriptors both have open
           line |-> FALSE,         \* a command in the pipe
           said |-> FALSE,         \* output in the pipe
           of |-> Batch, life |-> 0,   \* the engine and the daemon that launched it
           ran |-> 0]              \* the daemon in whose time Wine was started

Init ==
    /\ daemon = "down" /\ life = 0 /\ servers = "down" /\ has = {}
    /\ pc = [e \in Engines |-> "idle"]
    /\ child = [e \in Engines |-> 0]
    /\ awaits = [e \in Engines |-> FALSE]
    /\ tree = [l \in Launches |-> NoTree]
    /\ client = "away"

Running(l)  == tree[l].wine \in {"busy", "reads", "deaf", "hung"}
Alive(l)    == Running(l) \/ tree[l].shell \in {"layout", "waits"}
Held(d)     == d \in has \/ \E l \in Launches : Alive(l) /\ d \in tree[l].inherited
Used(l)     == \E e \in Engines : child[e] = l
Begun       == {l \in Launches : tree[l].life > 0}

\* What is left of a daemon that ended: its descriptors are closed, its threads are gone.
Ended ==
    /\ daemon' = "down" /\ has' = {}
    /\ pc' = [e \in Engines |-> "idle"]
    /\ child' = [e \in Engines |-> 0]
    /\ awaits' = [e \in Engines |-> FALSE]
    /\ UNCHANGED <<life, servers>>
-----------------------------------------------------------------------------
(***************************************************************************)
(* main and daemon-up.                                                     *)
(***************************************************************************)
Start ==
    /\ daemon = "down" /\ life < MaxLives
    /\ daemon' = "setup" /\ life' = life + 1
    /\ UNCHANGED <<servers, has, engineVars, tree, client>>

\* Mutant: AtCtl's quit is all there is, which needs a command loop that still reads.
KilledPolitely(t) == IF t.wine # "reads" THEN t ELSE [t EXCEPT !.wine = "gone"]

\* The processes of the prefix after wineserver -k.
Killed(t) == IF t.wine \in {"none", "gone"} THEN t ELSE [t EXCEPT !.wine = "gone"]

\* kill_existing_tipruntime.
ResetServers ==
    /\ daemon = "setup"
    /\ daemon' = "reset" /\ servers' = "down"
    /\ tree' = [l \in Launches |-> Killed(tree[l])]
    /\ UNCHANGED <<life, has, engineVars, client>>

\* The build, then prepare_orchestrated_servers: it launches the components it finds and goes
\* on, whether they are all there and come up or not (at.sh:257-272).
PrepareServers ==
    /\ daemon = "reset"
    /\ daemon' = "warming" /\ servers' = "launched"
    /\ UNCHANGED <<life, has, engineVars, tree, client>>

\* A step of the script fails: the daemon returns from main.
BringUpFails ==
    /\ daemon \in {"setup", "reset"}
    /\ Ended
    /\ UNCHANGED <<tree, client>>

\* The first worker of the batch engine is ready: the socket is opened.
Serve ==
    /\ daemon = "warming" /\ pc[Batch] = "open" /\ ~awaits[Batch]
    /\ daemon' = "serving" /\ has' = has \cup {Listen}
    /\ UNCHANGED <<life, servers, engineVars, tree, client>>

\* A signal (cleanup_and_exit leaves through _Exit) or a crash.
Die ==
    /\ daemon # "down"
    /\ Ended
    /\ UNCHANGED <<tree, client>>
-----------------------------------------------------------------------------
(***************************************************************************)
(* The host.  The accept loop has it until it leaves.                      *)
(***************************************************************************)
Accept ==
    /\ daemon = "serving" /\ client = "away" /\ Conn \notin has
    /\ client' = "connected" /\ has' = has \cup {Conn}
    /\ UNCHANGED <<daemon, life, servers, engineVars, tree>>

\* serve_conn reads the end of the connection; no request of it is being run.
Leave ==
    /\ daemon = "serving" /\ client = "connected"
    /\ Live \in Engines => pc[Live] \in {"idle", "open"} /\ ~awaits[Live]
    /\ client' = "away" /\ has' = has \ {Conn}
    /\ UNCHANGED <<daemon, life, servers, engineVars, tree>>

\* Client::recv_line: "connection closed by daemon".
ClientSeesEnd ==
    /\ client = "connected" /\ ~Held(Conn)
    /\ client' = "away"
    /\ UNCHANGED <<daemonVars, engineVars, tree>>
-----------------------------------------------------------------------------
(***************************************************************************)
(* PosixHarnessProcess on the thread of engine e.  A prefetch may run at   *)
(* any time; the live engine works for a connection.                       *)
(***************************************************************************)
Works(e) == \/ daemon = "warming" /\ e = Batch
            \/ daemon = "serving" /\ (e = Batch \/ client = "connected")

\* Mutant: the pipes are closed and the shell is left to end by itself.
SignalledNever(t) == t

\* What terminate leaves of the launch: signals reach the shell only.
Signalled(t) == [t EXCEPT !.shell = "gone"]

\* Mutant: the output is left open, to be replaced by the next spawn.
OursHalf(l) == {InW(l)}

\* The ends that are the daemon's.
Ours(l) == {InW(l), OutR(l)}

\* terminate: ensureWarm, runCmd or writeCmd gives up; at the start that ends the daemon.
Terminate(e) ==
    /\ tree' = [tree EXCEPT ![child[e]] = Signalled(@)]
    /\ IF daemon = "warming"
         THEN Ended
         ELSE /\ has' = has \ Ours(child[e])
              /\ pc' = [pc EXCEPT ![e] = "idle"]
              /\ child' = [child EXCEPT ![e] = 0]
              /\ awaits' = [awaits EXCEPT ![e] = FALSE]
              /\ UNCHANGED <<daemon, life, servers>>

\* spawn returns false.
SpawnFails(e, left) ==
    IF daemon = "warming"
      THEN Ended
      ELSE /\ has' = left
           /\ pc' = [pc EXCEPT ![e] = "idle"]
           /\ child' = [child EXCEPT ![e] = 0]
           /\ UNCHANGED <<daemon, life, servers, awaits>>

Goto(e, from, to) == pc[e] = from /\ pc' = [pc EXCEPT ![e] = to]

FirstPipe(e) ==
    /\ Works(e) /\ Goto(e, "idle", "pipe1")
    /\ \E l \in Launches :
           /\ Begun = 1..(l - 1)
           /\ child' = [child EXCEPT ![e] = l]
           /\ has' = has \cup {InR(l), InW(l)}
           /\ tree' = [tree EXCEPT ![l].of = e, ![l].life = life]
    /\ UNCHANGED <<daemon, life, servers, awaits, client>>

SecondPipe(e) ==
    /\ Goto(e, "pipe1", "pipe2")
    /\ has' = has \cup {OutR(child[e]), OutW(child[e])}
    /\ UNCHANGED <<daemon, life, servers, child, awaits, tree, client>>

\* The ends of the first pipe stay open.
SecondPipeFails(e) ==
    /\ pc[e] = "pipe1"
    /\ SpawnFails(e, has)
    /\ UNCHANGED <<tree, client>>

\* Mutant: addclose takes away the ends the child was given.
InheritsWrongEnds(l) == has \ {InR(l), OutW(l)}

\* What the child of launch l has open: addclose takes away the two ends of the daemon.
Inherits(l) == has \ {InW(l), OutR(l)}

Fork(e) ==
    /\ Goto(e, "pipe2", "forked")
    /\ tree' = [tree EXCEPT ![child[e]].shell = "layout",
                            ![child[e]].inherited = Inherits(child[e])]
    /\ UNCHANGED <<daemonVars, child, awaits, client>>

ForkFails(e) ==
    /\ pc[e] = "pipe2"
    /\ SpawnFails(e, has \ PipeEnds(child[e]))
    /\ UNCHANGED <<tree, client>>

\* The ends that are the child's.
Theirs(l) == {InR(l), OutW(l)}

CloseTheirs(e) ==
    /\ Goto(e, "forked", "open")
    /\ has' = has \ Theirs(child[e])
    /\ awaits' = [awaits EXCEPT ![e] = TRUE]
    /\ UNCHANGED <<daemon, life, servers, child, tree, client>>

\* A command.  A pipe nobody can read breaks it and the next loop spawns.
Write(e) ==
    /\ daemon = "serving" /\ Works(e) /\ pc[e] = "open" /\ ~awaits[e]
    /\ IF Held(InR(child[e]))
         THEN /\ tree' = [tree EXCEPT ![child[e]].line = TRUE]
              /\ awaits' = [awaits EXCEPT ![e] = TRUE]
              /\ UNCHANGED <<daemonVars, pc, child>>
         ELSE Terminate(e)
    /\ UNCHANGED client

\* The line the engine waits for.
Read(e) ==
    /\ awaits[e] /\ tree[child[e]].said
    /\ tree' = [tree EXCEPT ![child[e]].said = FALSE]
    /\ awaits' = [awaits EXCEPT ![e] = FALSE]
    /\ UNCHANGED <<daemonVars, pc, child, client>>

ReadEof(e) ==
    /\ awaits[e] /\ ~tree[child[e]].said /\ ~Held(OutW(child[e]))
    /\ Terminate(e)
    /\ UNCHANGED client

\* Mutant: silence counts only once the shell is gone.
ReadTimesOutLate(e) ==
    /\ awaits[e] /\ ~tree[child[e]].said /\ Held(OutW(child[e]))
    /\ tree[child[e]].shell = "gone"
    /\ Terminate(e)
    /\ UNCHANGED client

\* kReadyTimeoutMs, kConvertTimeoutMs or kReplyTimeoutMs.
ReadTimesOut(e) ==
    /\ awaits[e] /\ ~tree[child[e]].said /\ Held(OutW(child[e]))
    /\ Terminate(e)
    /\ UNCHANGED client
-----------------------------------------------------------------------------
(***************************************************************************)
(* The processes of launch l: at.sh daemon-once or daemon-session, and     *)
(* AtTipLoad under Wine.                                                   *)
(***************************************************************************)
Shell(l, from, to) == tree[l].shell = from /\ tree' = [tree EXCEPT ![l].shell = to]
Wine(l, from, to)  == tree[l].wine = from /\ tree' = [tree EXCEPT ![l].wine = to]

\* ensure_layout and ensure_msctf_shim_linked, then run_wine.
RunWine(l) ==
    /\ tree[l].shell = "layout"
    /\ tree' = [tree EXCEPT ![l].shell = "waits", ![l].wine = "busy", ![l].ran = life]

\* One of them fails and the script ends there; or Wine has ended.
ShellEnds(l) == \/ Shell(l, "layout", "gone")
                \/ tree[l].wine = "gone" /\ Shell(l, "waits", "gone")

\* ATD READY, or a reply and ATD READY.  Without a reader it goes nowhere.
Says(l) ==
    /\ tree[l].wine = "busy"
    /\ tree' = [tree EXCEPT ![l].wine = "reads", ![l].said = Held(OutR(l))]

TakesLine(l) ==
    /\ tree[l].wine = "reads" /\ tree[l].line
    /\ tree' = [tree EXCEPT ![l].wine = "busy", ![l].line = FALSE]

\* The end of standard input ends the reading thread; the main thread pumps on.
ReadsEnd(l) == ~tree[l].line /\ ~Held(InW(l)) /\ Wine(l, "reads", "deaf")

Hangs(l) == Wine(l, "busy", "hung")

\* A crash, and the fault in the teardown of a conversion.
Crashes(l) == Running(l) /\ tree' = [tree EXCEPT ![l].wine = "gone"]

Processes(l) == RunWine(l) \/ ShellEnds(l) \/ Says(l) \/ TakesLine(l) \/ ReadsEnd(l)

Tree == /\ \E l \in Launches : Processes(l) \/ Hangs(l) \/ Crashes(l)
        /\ UNCHANGED <<daemonVars, engineVars, client>>
-----------------------------------------------------------------------------
Spawning(e) == \/ SecondPipe(e) \/ SecondPipeFails(e)
               \/ Fork(e) \/ ForkFails(e) \/ CloseTheirs(e)

Reading(e) == Read(e) \/ ReadEof(e) \/ ReadTimesOut(e)

BringUp == ResetServers \/ PrepareServers \/ BringUpFails \/ Serve

Next ==
    \/ Start \/ BringUp \/ Die
    \/ Accept \/ Leave \/ ClientSeesEnd
    \/ \E e \in Engines : FirstPipe(e) \/ Spawning(e) \/ Write(e) \/ Reading(e)
    \/ Tree

Spec == Init /\ [][Next]_vars

\* The processes run, the daemon's threads too, its reads time out; it is started again.
FairSpec ==
    /\ Spec
    /\ WF_vars(Start) /\ WF_vars(BringUp) /\ WF_vars(ClientSeesEnd)
    /\ \A e \in {Batch, Live} \cap Engines : WF_vars(Spawning(e)) /\ WF_vars(Reading(e))
    /\ \A l \in Launches : WF_vars(Processes(l) /\ UNCHANGED <<daemonVars, engineVars, client>>)
-----------------------------------------------------------------------------
TypeOK ==
    /\ daemon \in {"down", "setup", "reset", "warming", "serving"}
    /\ life \in 0..MaxLives
    /\ servers \in {"down", "launched"}
    /\ has \subseteq Descriptors
    /\ pc \in [Engines -> {"idle", "pipe1", "pipe2", "forked", "open"}]
    /\ child \in [Engines -> {0} \cup Launches]
    /\ awaits \in [Engines -> BOOLEAN]
    /\ tree \in [Launches -> [shell : {"none", "layout", "waits", "gone"},
                              wine : {"none", "busy", "reads", "deaf", "hung", "gone"},
                              inherited : SUBSET Descriptors,
                              line : BOOLEAN, said : BOOLEAN, of : {Batch, Live},
                              life : 0..MaxLives, ran : 0..MaxLives]]
    /\ client \in {"away", "connected"}

\* Did daemon `life` launch l?
Own(l) == daemon # "down" /\ tree[l].life = life

\* An engine has one shell at a time, and knows it.
ShellsKnown == \A l \in Launches :
    Own(l) /\ tree[l].shell \in {"layout", "waits"} =>
        \E e \in Engines : child[e] = l /\ tree[l].of = e /\ pc[e] \in {"forked", "open"}

\* The daemon has exactly its own two ends of the pipes of each worker that an engine uses.
DescriptorsKnown == \A e \in Engines :
    pc[e] = "open" => has \cap PipeEnds(child[e]) = {InW(child[e]), OutR(child[e])}

\* A worker of this daemon runs only once the daemon's own bring-up has launched the servers,
\* and nothing has reset them since.
ServersLaunched == \A l \in Launches : Own(l) /\ Running(l) => servers = "launched"

\* The end of its output tells that a worker has ended: no thread drops a worker that lives
\* because it read the end of a file (read, n == 0: "harness died").
EndMeansDead == \A e \in Engines :
    pc[e] = "open" /\ ~Held(OutW(child[e])) => ~Alive(child[e])

\* Shells, descriptors, servers and ends of files are what the engines take them for.
Consistent == TypeOK /\ ShellsKnown /\ DescriptorsKnown /\ ServersLaunched /\ EndMeansDead

\* What the daemon has of a worker it gave up is the first pipe of a spawn whose second pipe
\* failed, and nothing else; so no worker keeps open a pipe of an earlier worker of its engine.
OwnPipesOnly ==
    /\ \A l \in Launches : has \cap PipeEnds(l) # {} =>
           Used(l) \/ (has \cap PipeEnds(l) = {InR(l), InW(l)} /\ tree[l].shell = "none")
    /\ \A l, m \in Launches :
           l # m /\ tree[l].shell # "none" /\ tree[l].inherited # {} /\ tree[m].of = tree[l].of =>
               PipeEnds(l) \cap tree[m].inherited = {}

\* Once the servers are reset, what runs in the prefix was started since the daemon was:
\* workers that outlived an earlier daemon, or terminate, are gone, hung ones too.
RestartCleans == \A l \in Launches :
    daemon \in {"reset", "warming", "serving"} /\ Running(l) => tree[l].ran = life

\* No wait of an engine is for ever, whoever holds the pipes.
LinesComeOrNot == \A e \in Engines : awaits[e] ~> ~awaits[e]

\* A host whose daemon died sees its connection end at the latest when the next daemon has
\* reset the servers, though workers inherited the connection, hung ones too.  (A shell that
\* has yet to start Wine at that moment escapes the reset.)
ClientReleased ==
    (/\ client = "connected" /\ daemon = "reset"
     /\ \A l \in Launches : tree[l].shell # "layout" /\ ~(Running(l) /\ tree[l].ran = life))
    ~> client = "away"

\* Nobody who reads waits for ever for an end that a process he does not know of holds open:
\* neither an engine of its worker, nor a host of its dead daemon.
WaitsEnd == LinesComeOrNot /\ ClientReleased
=============================================================================
